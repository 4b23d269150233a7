-------------------------------- MODULE Lists --------------------------------
(***************************************************************************)
(* Lists kept by position: what a loop that appends some of the elements   *)
(* of a list to another one leaves in it.                                  *)
(***************************************************************************)
EXTENDS Integers, SequencesExt

IsList(s) == s \in Seq(Range(s))

\* The elements of s at the positions in I, in their order.
Picked(s, I) ==
    FlattenSeq([i \in DOMAIN s |-> IF i \in I THEN <<s[i]>> ELSE <<>>])

\* Those positions of s themselves.
PlacesIn(s, I) == Picked([i \in DOMAIN s |-> i], I)
=============================================================================
