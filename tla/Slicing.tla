------------------------------- MODULE Slicing -------------------------------
(***************************************************************************)
(* minimize_unit and ddmin (slicing/ddmin.py): a REPRODUCIBLE unit's       *)
(* intervention is cut down, one replay at a time, to a part of its atoms  *)
(* that still flips the outcome and from which no single atom can go.      *)
(*                                                                         *)
(* An intervention is the sequence of its atoms (interventions/apply.py,   *)
(* intervention_atoms); <<>> is an ACTION_REPLACE, which has none.  Only   *)
(* which atoms a probe carries decides its outcome, so the world under     *)
(* test is an oracle from sets of atoms to the outcomes a replay of them   *)
(* may have: one of two in a deterministic environment, both in a flaky    *)
(* one.  Nothing makes the oracle monotone.                                *)
(***************************************************************************)
EXTENDS EvidenceTiers, Sequences, FiniteSets

CONSTANTS
    Cases   \* the interventions considered, each with its oracle

Outcomes == SUBSET BOOLEAN \ {{}}
AtomsOf(s) == {s[k] : k \in 1..Len(s)}

ASSUME CasesAssumption ==
    \A x \in Cases : /\ x.edits \in Seq(Nat)
                     /\ \A j, k \in 1..Len(x.edits) : x.edits[j] = x.edits[k] => j = k
                     /\ x.oracle \in [SUBSET AtomsOf(x.edits) -> Outcomes]

VARIABLES
    edits,        \* the atoms of unit.intervention
    oracle,       \* what a replay of a set of atoms may end in
    phase,        \* where minimize_unit stands
    atoms,        \* ddmin's current atoms
    n,            \* ddmin's granularity
    i,            \* the subset whose complement is tried next, from 0
    tier,         \* unit.tier
    minimal,      \* unit.minimal_intervention: a sequence of atoms
    replay_runs   \* the probes charged to unit.cost

input == <<edits, oracle>>
vars  == <<edits, oracle, phase, atoms, n, i, tier, minimal, replay_runs>>

Phase   == {"start", "confirm", "reduce", "revalidate", "done", "raised"}
Probing == {"confirm", "reduce", "revalidate"}
Unset   == <<-1>>    \* no minimal_intervention: not a sequence of atoms

(***************************************************************************)
(* The cut of the current atoms into chunks.  The last chunk may be short, *)
(* and there may be more of them than n.                                   *)
(***************************************************************************)
AtLeast(x, y) == IF x >= y THEN x ELSE y
AtMost(x, y)  == IF x <= y THEN x ELSE y

Chunk(len, g)   == AtLeast(1, len \div g)
Subsets(len, g) == (len + Chunk(len, g) - 1) \div Chunk(len, g)

Complement(s, g, k) ==
    LET chunk == Chunk(Len(s), g) IN
    SubSeq(s, 1, k * chunk) \o SubSeq(s, (k + 1) * chunk + 1, Len(s))

Init ==
    /\ \E x \in Cases : edits = x.edits /\ oracle = x.oracle
    /\ phase = "start"
    /\ atoms = edits
    /\ n = 2 /\ i = 0
    /\ tier \in {COUNTERFACTUAL_VALIDATED, REPRODUCIBLE}
    /\ minimal = Unset
    /\ replay_runs = 0
-----------------------------------------------------------------------------
Start ==
    /\ phase = "start"
    /\ phase' = IF tier < REPRODUCIBLE THEN "done"
                ELSE IF Len(atoms) <= 1 THEN "confirm" ELSE "reduce"
    /\ UNCHANGED <<input, atoms, n, i, tier, minimal, replay_runs>>

(***************************************************************************)
(* intervened_flip on some of the atoms, and its charge.                   *)
(***************************************************************************)
Probe(s, success) ==
    /\ success \in oracle[AtomsOf(s)]
    /\ replay_runs' = replay_runs + 1

(***************************************************************************)
(* The one promotion: after a replay of just what will be recorded as      *)
(* minimal.  It serves the atomic case and the re-validation after ddmin.  *)
(* Mutant: promoted whatever that replay ended in.                         *)
(***************************************************************************)
PromoteAnyway(success) == minimal' = atoms /\ tier' = MINIMAL

PromoteIf(success) ==
    /\ minimal' = IF success THEN atoms ELSE minimal
    /\ tier'    = IF success THEN MINIMAL ELSE tier

Conclude ==
    /\ phase \in {"confirm", "revalidate"}
    /\ \E success \in BOOLEAN : Probe(atoms, success) /\ PromoteIf(success)
    /\ phase' = "done"
    /\ UNCHANGED <<input, atoms, n, i>>

(***************************************************************************)
(* A complement that still flips replaces the atoms, and the cut gets      *)
(* coarser by one, down to two.                                            *)
(***************************************************************************)
Coarser(g) == AtLeast(g - 1, 2)

Reduce ==
    LET rest == Complement(atoms, n, i) IN
    /\ phase = "reduce"
    /\ Probe(rest, TRUE)
    /\ atoms' = rest
    /\ n' = Coarser(n)
    /\ i' = 0
    /\ phase' = IF Len(rest) >= 2 THEN "reduce" ELSE "revalidate"
    /\ UNCHANGED <<input, tier, minimal>>

(***************************************************************************)
(* A complement that does not: the next one, or, after the last, a finer   *)
(* cut, until the chunks were single atoms.  Mutants: an early and a late  *)
(* end of the refinement.                                                  *)
(***************************************************************************)
FinestEarly == 2 * n >= Len(atoms)
FinestLate  == n > Len(atoms)

Finest == n >= Len(atoms)

Keep ==
    LET last == i + 1 = Subsets(Len(atoms), n) IN
    /\ phase = "reduce"
    /\ Probe(Complement(atoms, n, i), FALSE)
    /\ i' = IF last THEN 0 ELSE i + 1
    /\ n' = IF last /\ ~Finest THEN AtMost(Len(atoms), 2 * n) ELSE n
    /\ phase' = IF last /\ Finest THEN "revalidate" ELSE "reduce"
    /\ UNCHANGED <<input, atoms, tier, minimal>>

(***************************************************************************)
(* A probe may raise (patch_lines on an argument that is no string, a      *)
(* missing blob, a verifier that fails): it is not charged, and the unit   *)
(* keeps its tier.                                                         *)
(***************************************************************************)
ProbeRaises ==
    /\ phase \in Probing
    /\ phase' = "raised"
    /\ UNCHANGED <<input, atoms, n, i, tier, minimal, replay_runs>>

Next == Start \/ Conclude \/ Reduce \/ Keep \/ ProbeRaises

Spec == Init /\ [][Next]_vars
-----------------------------------------------------------------------------
TypeOK ==
    /\ edits \in Seq(Nat)
    /\ oracle \in [SUBSET AtomsOf(edits) -> Outcomes]
    /\ phase \in Phase
    /\ atoms \in Seq(Nat)
    /\ n \in Nat /\ n >= 2
    /\ i \in Nat
    /\ tier \in EvidenceTier
    /\ minimal \in Seq(Nat) \cup {Unset}
    /\ replay_runs \in Nat

(***************************************************************************)
(* MINIMAL is only ever reached from REPRODUCIBLE, and what is recorded as *)
(* the minimal intervention was itself replayed to a success: the sliced   *)
(* part, not the original ("ddmin-sliced and re-validated").               *)
(***************************************************************************)
MinimalIsRevalidated ==
    /\ tier = MINIMAL <=> minimal # Unset
    /\ tier = MINIMAL => TRUE \in oracle[AtomsOf(minimal)]

(***************************************************************************)
(* What slicing arrives at is 1-minimal: a part with any one atom removed  *)
(* was tried and may miss - certainly misses in a deterministic world -    *)
(* however unevenly the chunks were cut on the way.                        *)
(***************************************************************************)
Without(s, k) == SubSeq(s, 1, k - 1) \o SubSeq(s, k + 1, Len(s))

OneMinimal ==
    tier = MINIMAL /\ Len(minimal) >= 2 =>
        \A k \in 1..Len(minimal) : FALSE \in oracle[AtomsOf(Without(minimal, k))]

(***************************************************************************)
(* Slicing ends, and its cost is part of the unit's acquisition cost: it   *)
(* is bounded by the square of the number of atoms, plus the re-validation.*)
(***************************************************************************)
ProbesBounded == replay_runs <= Len(edits) * Len(edits) + 1
=============================================================================
