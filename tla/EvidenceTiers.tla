---------------------------- MODULE EvidenceTiers ----------------------------
(***************************************************************************)
(* The evidence ladder of sdk/schemas.py and the decoding of the tiers     *)
(* found in a stored unit.  A tier is its current integer value: rungs are *)
(* spaced by ten, so "stronger" is the order of the integers.              *)
(***************************************************************************)
EXTENDS Integers

OBSERVED                 == 0
SUGGESTED                == 10
CONSTRAINT_VALIDATED     == 15
COUNTERFACTUAL_VALIDATED == 20
REPRODUCIBLE             == 30
MINIMAL                  == 40
TRAINING_VALIDATED       == 50

EvidenceTier == {OBSERVED, SUGGESTED, CONSTRAINT_VALIDATED,
                 COUNTERFACTUAL_VALIDATED, REPRODUCIBLE, MINIMAL,
                 TRAINING_VALIDATED}

(***************************************************************************)
(* What a run written before CONSTRAINT_VALIDATED existed stored: the      *)
(* position of the rung, 0 to 5.                                           *)
(***************************************************************************)
LEGACY_TIER_VALUES ==
    [v \in 0..5 |-> CASE v = 0 -> OBSERVED
                      [] v = 1 -> SUGGESTED
                      [] v = 2 -> COUNTERFACTUAL_VALIDATED
                      [] v = 3 -> REPRODUCIBLE
                      [] v = 4 -> MINIMAL
                      [] v = 5 -> TRAINING_VALIDATED]

(***************************************************************************)
(* parse_tier on an integer: a current value wins over a legacy one, and   *)
(* anything else is refused (Unrecognized stands for the ValueError).      *)
(***************************************************************************)
Unrecognized == -1

ParseTier(value) ==
    CASE value \in EvidenceTier -> value
      [] value \in DOMAIN LEGACY_TIER_VALUES \ EvidenceTier ->
            LEGACY_TIER_VALUES[value]
      [] OTHER -> Unrecognized
=============================================================================
