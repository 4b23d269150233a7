---------------------------- MODULE MCAcquisition ----------------------------
(***************************************************************************)
(* Acquisition on four candidates of three episodes: the first episode has *)
(* two, on one fork point; the others are of another family.  The fifth    *)
(* candidate gives the second episode one more.                            *)
(***************************************************************************)
EXTENDS Acquisition

MCEpisode == <<"e1", "e1", "e2", "e3">>
MCTask    == <<"t1", "t1", "t2", "t2">>
MCFamily  == <<"g1", "g1", "g2", "g2">>
MCSource  == <<"s1", "s1", "s1", "s2">>
MCFork    == <<"p1", "p1", "p2", "p3">>
MCProbes  == <<1, 2, 1, 3>>

MCEpisode5 == MCEpisode \o <<"e2">>
MCTask5    == MCTask \o <<"t2">>
MCFamily5  == MCFamily \o <<"g2">>
MCSource5  == MCSource \o <<"s2">>
MCFork5    == MCFork \o <<"p2">>
MCProbes5  == MCProbes \o <<1>>

MCDiverging == {{}, {"p1"}, {"p2", "p3"}}

MCBudgets == {[replays |-> 5, seconds |-> NoLimit],
              [replays |-> NoLimit, seconds |-> 2],
              [replays |-> NoLimit, seconds |-> NoLimit]}
=============================================================================
