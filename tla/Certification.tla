---------------------------- MODULE Certification ----------------------------
(***************************************************************************)
(* What a causal unit's tier promises, whatever machinery produced it: the *)
(* meaning of the ladder between SUGGESTED and REPRODUCIBLE.               *)
(*                                                                         *)
(* A candidate first faces the determinism gate.  Behind a closed gate it  *)
(* stays SUGGESTED for good.  Behind an open gate it is tried in           *)
(* independent forks; its tier is a function of the trials it has had, and *)
(* a candidate whose first trial does not flip is never tried again.       *)
(***************************************************************************)
EXTENDS EvidenceTiers

CONSTANTS Cands,   \* the candidates submitted for validation
          NRepro   \* the n of "n/n independent forks all flip"

VARIABLES tier,    \* [Cands -> EvidenceTier]
          gate,    \* what the control branch showed for the candidate
          flips,   \* trials in which the recorded failure became a success
          misses   \* trials in which it did not

certVars == <<tier, gate, flips, misses>>

GateState == {"untested", "reproduced", "diverged"}

(***************************************************************************)
(* The tier that f flips and m misses earn.                                *)
(***************************************************************************)
Earned(f, m) == IF f = 0 THEN SUGGESTED
                ELSE IF m = 0 /\ f = NRepro THEN REPRODUCIBLE
                ELSE COUNTERFACTUAL_VALIDATED

CertInit ==
    /\ tier   = [c \in Cands |-> SUGGESTED]
    /\ gate   = [c \in Cands |-> "untested"]
    /\ flips  = [c \in Cands |-> 0]
    /\ misses = [c \in Cands |-> 0]

Gate(c) ==
    /\ gate[c] = "untested"
    /\ \E g \in {"reproduced", "diverged"} : gate' = [gate EXCEPT ![c] = g]
    /\ UNCHANGED <<tier, flips, misses>>

(***************************************************************************)
(* The first trial is for any candidate behind an open gate, a further one *)
(* only for a candidate that has flipped and is not yet REPRODUCIBLE.      *)
(***************************************************************************)
Triable(c) ==
    /\ gate[c] = "reproduced"
    /\ \/ flips[c] + misses[c] = 0
       \/ flips[c] > 0 /\ flips[c] + misses[c] < NRepro

Flip(c) ==
    /\ Triable(c)
    /\ flips' = [flips EXCEPT ![c] = @ + 1]
    /\ tier'  = [tier EXCEPT ![c] = Earned(flips[c] + 1, misses[c])]
    /\ UNCHANGED <<gate, misses>>

Miss(c) ==
    /\ Triable(c)
    /\ misses' = [misses EXCEPT ![c] = @ + 1]
    /\ tier'   = [tier EXCEPT ![c] = Earned(flips[c], misses[c] + 1)]
    /\ UNCHANGED <<gate, flips>>

CertNext == \E c \in Cands : Gate(c) \/ Flip(c) \/ Miss(c)

CertSpec == CertInit /\ [][CertNext]_certVars
=============================================================================
