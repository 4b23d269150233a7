---------------------------- MODULE SlicingProofs ----------------------------
(***************************************************************************)
(* Theorems about Slicing for every intervention and every oracle: any     *)
(* number of atoms, any world, deterministic or not; and about the loop    *)
(* that pays for it, Acquisition, for any candidates and any budget.       *)
(***************************************************************************)
EXTENDS Slicing, Acquisition, SequenceTheorems, FiniteSetTheorems, TLAPS

(***************************************************************************)
(* The finest cut: chunks of one atom, as many as there are atoms.         *)
(***************************************************************************)
LEMMA ChunkType ==
    ASSUME NEW len \in Nat, NEW g \in Nat, g >= 2, len >= 2
    PROVE  /\ Chunk(len, g) \in Nat /\ Chunk(len, g) >= 1
           /\ 2 * Chunk(len, g) <= len
<1>1. len \div g \in Nat /\ g * (len \div g) <= len
  BY Z3
<1>2. 2 * (len \div g) <= g * (len \div g)
  BY <1>1, Z3
<1>. QED BY <1>1, <1>2 DEF Chunk, AtLeast

LEMMA FinestCut ==
    ASSUME NEW len \in Nat, NEW g \in Nat, g >= len, len >= 2
    PROVE  Chunk(len, g) = 1 /\ Subsets(len, g) = len
<1>1. len \div g \in Nat /\ len \div g <= 1
  <2>1. CASE g = len
    BY <2>1, Z3
  <2>2. CASE g > len
    BY <2>2, Z3
  <2>. QED BY <2>1, <2>2
<1>2. Chunk(len, g) = 1
  BY <1>1 DEF Chunk, AtLeast
<1>3. (len + 1 - 1) \div 1 = len
  BY Z3
<1>. QED BY <1>2, <1>3 DEF Subsets

(***************************************************************************)
(* The parts of a sequence, and what two of them hold together.            *)
(***************************************************************************)
LEMMA Part ==
    ASSUME NEW s \in Seq(Nat), NEW m \in Nat, NEW l \in Nat, 1 <= m, l <= Len(s)
    PROVE  /\ SubSeq(s, m, l) \in Seq(Nat)
           /\ m <= l => Len(SubSeq(s, m, l)) = l - m + 1
           /\ m > l => Len(SubSeq(s, m, l)) = 0
           /\ AtomsOf(SubSeq(s, m, l)) \subseteq AtomsOf(s)
<1>0. Len(s) \in Nat /\ \A j \in 1..Len(s) : s[j] \in Nat
  OBVIOUS
<1>1. \A j \in m..l : s[j] \in Nat
  BY <1>0
<1>2. m \in Int /\ l \in Int
  OBVIOUS
<1>3. /\ SubSeq(s, m, l) \in Seq(Nat)
      /\ Len(SubSeq(s, m, l)) = IF m <= l THEN l - m + 1 ELSE 0
      /\ \A j \in 1 .. l - m + 1 : SubSeq(s, m, l)[j] = s[m + j - 1]
  BY <1>1, <1>2, SubSeqProperties, SMTT(60)
<1>4. ASSUME NEW j \in 1..Len(SubSeq(s, m, l))
      PROVE  \E k \in 1..Len(s) : SubSeq(s, m, l)[j] = s[k]
  <2>1. m <= l /\ j \in 1 .. l - m + 1
    BY <1>3
  <2>2. m + j - 1 \in 1..Len(s)
    BY <1>0, <2>1
  <2>. QED BY <1>3, <2>1, <2>2
<1>. QED BY <1>3, <1>4 DEF AtomsOf

LEMMA Joined ==
    ASSUME NEW p \in Seq(Nat), NEW q \in Seq(Nat)
    PROVE  /\ p \o q \in Seq(Nat)
           /\ Len(p \o q) = Len(p) + Len(q)
           /\ AtomsOf(p \o q) \subseteq AtomsOf(p) \cup AtomsOf(q)
<1>0. Len(p) \in Nat /\ Len(q) \in Nat
  OBVIOUS
<1>1. /\ p \o q \in Seq(Nat)
      /\ Len(p \o q) = Len(p) + Len(q)
      /\ \A j \in 1 .. Len(p) + Len(q) : (p \o q)[j] =
             IF j <= Len(p) THEN p[j] ELSE q[j - Len(p)]
  BY ConcatProperties
<1>2. ASSUME NEW j \in 1 .. Len(p) + Len(q)
      PROVE  \/ \E k \in 1..Len(p) : (p \o q)[j] = p[k]
             \/ \E k \in 1..Len(q) : (p \o q)[j] = q[k]
  <2>1. CASE j <= Len(p)
    BY <2>1, <1>0, <1>1
  <2>2. CASE j > Len(p)
    <3>1. j - Len(p) \in 1..Len(q)
      BY <2>2, <1>0
    <3>. QED BY <2>2, <3>1, <1>0, <1>1
  <2>. QED BY <2>1, <2>2, <1>0
<1>. QED BY <1>1, <1>2 DEF AtomsOf

(***************************************************************************)
(* A complement of a cut is a shorter sequence of some of the atoms.       *)
(***************************************************************************)
LEMMA CutRange ==
    ASSUME NEW len \in Nat, NEW c \in Nat, NEW k \in Nat, c >= 1,
           k < (len + c - 1) \div c
    PROVE  /\ k * c \in Nat /\ k * c < len
           /\ (k + 1) * c \in Nat /\ (k + 1) * c = k * c + c
<1>1. (len + c - 1) \div c \in Nat /\ c * ((len + c - 1) \div c) <= len + c - 1
  BY Z3
<1>2. PICK q \in Nat : q = (len + c - 1) \div c
  BY <1>1
<1>3. c * q <= len + c - 1 /\ k + 1 <= q
  BY <1>1, <1>2
<1>4. c * (k + 1) <= c * q
  BY <1>3, Z3
<1>5. k * c \in Nat /\ (k + 1) * c = k * c + c /\ c * (k + 1) = k * c + c
  BY Z3
<1>. QED BY <1>3, <1>4, <1>5

LEMMA ComplementIsPart ==
    ASSUME NEW s \in Seq(Nat), NEW g \in Nat, NEW k \in Nat,
           g >= 2, Len(s) >= 2, k < Subsets(Len(s), g)
    PROVE  /\ Complement(s, g, k) \in Seq(Nat)
           /\ Len(Complement(s, g, k)) \in 1..(Len(s) - 1)
           /\ AtomsOf(Complement(s, g, k)) \subseteq AtomsOf(s)
<1> DEFINE chunk == Chunk(Len(s), g)
           a == k * chunk
           b == (k + 1) * chunk
           c == Complement(s, g, k)
<1>0. Len(s) \in Nat
  OBVIOUS
<1>1. chunk \in Nat /\ chunk >= 1 /\ 2 * chunk <= Len(s)
  BY <1>0, ChunkType
<1>2. k < (Len(s) + chunk - 1) \div chunk
  BY DEF Subsets
<1>3. c = SubSeq(s, 1, a) \o SubSeq(s, b + 1, Len(s))
  BY DEF Complement
<1> HIDE DEF chunk
<1>9. a \in Nat /\ b \in Nat /\ a < Len(s) /\ b = a + chunk
  BY <1>0, <1>1, <1>2, CutRange
<1> HIDE DEF a, b, c
<1>4. a \in Nat /\ b \in Nat /\ a < Len(s) /\ b = a + chunk /\ a < b
  BY <1>1, <1>9
<1>5. /\ SubSeq(s, 1, a) \in Seq(Nat) /\ Len(SubSeq(s, 1, a)) = a
      /\ AtomsOf(SubSeq(s, 1, a)) \subseteq AtomsOf(s)
  BY <1>0, <1>4, Part
<1>6. /\ SubSeq(s, b + 1, Len(s)) \in Seq(Nat)
      /\ AtomsOf(SubSeq(s, b + 1, Len(s))) \subseteq AtomsOf(s)
      /\ b < Len(s) => Len(SubSeq(s, b + 1, Len(s))) = Len(s) - b
      /\ b >= Len(s) => Len(SubSeq(s, b + 1, Len(s))) = 0
  BY <1>0, <1>4, Part
<1>7. /\ c \in Seq(Nat) /\ AtomsOf(c) \subseteq AtomsOf(s)
      /\ Len(c) = a + Len(SubSeq(s, b + 1, Len(s)))
  <2>1. PICK p \in Seq(Nat) : p = SubSeq(s, 1, a)
    BY <1>5
  <2>2. PICK q \in Seq(Nat) : q = SubSeq(s, b + 1, Len(s))
    BY <1>6
  <2>3. /\ p \o q \in Seq(Nat) /\ Len(p \o q) = Len(p) + Len(q)
        /\ AtomsOf(p \o q) \subseteq AtomsOf(p) \cup AtomsOf(q)
    BY Joined
  <2>4. c = p \o q
    BY <1>3, <2>1, <2>2
  <2>5. /\ AtomsOf(p) \subseteq AtomsOf(s) /\ Len(p) = a
        /\ AtomsOf(q) \subseteq AtomsOf(s)
    BY <1>5, <1>6, <2>1, <2>2
  <2>. QED BY <2>2, <2>3, <2>4, <2>5
<1>8. Len(c) \in 1..(Len(s) - 1)
  BY <1>0, <1>1, <1>4, <1>6, <1>7
<1>. QED BY <1>7, <1>8 DEF c

LEMMA FinestComplement ==
    ASSUME NEW s \in Seq(Nat), NEW g \in Nat, g >= Len(s), Len(s) >= 2,
           NEW k \in 1..Len(s)
    PROVE  Without(s, k) = Complement(s, g, k - 1)
<1>1. Chunk(Len(s), g) = 1
  BY FinestCut
<1>2. (k - 1) * 1 = k - 1 /\ ((k - 1) + 1) * 1 + 1 = k + 1
  OBVIOUS
<1>. QED BY <1>1, <1>2 DEF Without, Complement

-----------------------------------------------------------------------------
(***************************************************************************)
(* The inductive invariant.  In the middle of a pass every complement      *)
(* before the i-th has missed; at the end of the finest pass, every part   *)
(* that lacks one atom has; and the promotion leaves atoms behind as       *)
(* minimal.                                                                *)
(***************************************************************************)
MayMiss(s) == FALSE \in oracle[AtomsOf(s)]

SingleRemovalsMiss(s) ==
    Len(s) >= 2 => \A k \in 1..Len(s) : MayMiss(Without(s, k))

PassInv ==
    phase = "reduce" =>
        /\ Len(atoms) >= 2
        /\ i < Subsets(Len(atoms), n)
        /\ \A j \in 0..(i - 1) : MayMiss(Complement(atoms, n, j))

SliceInv ==
    /\ TypeOK
    /\ AtomsOf(atoms) \subseteq AtomsOf(edits)
    /\ PassInv
    /\ phase = "confirm" => Len(atoms) <= 1
    /\ phase = "revalidate" => SingleRemovalsMiss(atoms)
    /\ phase \in {"confirm", "reduce", "revalidate"} => tier = REPRODUCIBLE
    /\ IF minimal = Unset THEN tier # MINIMAL
       ELSE /\ phase = "done" /\ tier = MINIMAL
            /\ TRUE \in oracle[AtomsOf(minimal)]
            /\ SingleRemovalsMiss(minimal)
    /\ phase = "start" => /\ tier \in {COUNTERFACTUAL_VALIDATED, REPRODUCIBLE}
                          /\ i = 0 /\ minimal = Unset

LEMMA TierTypes ==
    /\ COUNTERFACTUAL_VALIDATED \in EvidenceTier /\ REPRODUCIBLE \in EvidenceTier
    /\ MINIMAL \in EvidenceTier
    /\ MINIMAL # REPRODUCIBLE /\ MINIMAL # COUNTERFACTUAL_VALIDATED
    /\ COUNTERFACTUAL_VALIDATED < REPRODUCIBLE
BY DEF EvidenceTier, OBSERVED, SUGGESTED, CONSTRAINT_VALIDATED,
       COUNTERFACTUAL_VALIDATED, REPRODUCIBLE, MINIMAL, TRAINING_VALIDATED

LEMMA SubsetsPositive ==
    ASSUME NEW len \in Nat, NEW g \in Nat, g >= 2, len >= 2
    PROVE  Subsets(len, g) \in Nat /\ Subsets(len, g) >= 1
<1>1. PICK c \in Nat : c = Chunk(len, g) /\ c >= 1
  BY ChunkType
<1>2. (len + c - 1) \div c \in Nat /\ (len + c - 1) \div c >= 1
  BY <1>1, Z3
<1>. QED BY <1>1, <1>2 DEF Subsets

LEMMA SliceInit == Init => SliceInv
<1> SUFFICES ASSUME Init PROVE SliceInv
  OBVIOUS
<1>1. /\ edits \in Seq(Nat) /\ oracle \in [SUBSET AtomsOf(edits) -> Outcomes]
  BY CasesAssumption DEF Init
<1>3. TypeOK
  BY <1>1, TierTypes DEF Init, TypeOK, Phase
<1>. QED
  BY <1>3, TierTypes DEF Init, SliceInv, PassInv

(***************************************************************************)
(* One step per action.                                                    *)
(***************************************************************************)
LEMMA SliceNext == SliceInv /\ [Next]_vars => SliceInv'
<1> SUFFICES ASSUME SliceInv, [Next]_vars PROVE SliceInv'
  OBVIOUS
<1>0. TypeOK /\ Len(atoms) \in Nat /\ n \in Nat /\ n >= 2 /\ i \in Nat
  BY DEF SliceInv, TypeOK
<1>1. CASE Start
  <2>1. /\ UNCHANGED <<edits, oracle, atoms, n, i, tier, minimal, replay_runs>>
        /\ phase = "start" /\ minimal = Unset /\ i = 0
        /\ tier \in {COUNTERFACTUAL_VALIDATED, REPRODUCIBLE}
    BY <1>1 DEF Start, input, SliceInv
  <2>2. phase' = IF tier < REPRODUCIBLE THEN "done"
                 ELSE IF Len(atoms) <= 1 THEN "confirm" ELSE "reduce"
    BY <1>1 DEF Start
  <2>3. TypeOK'
    BY <1>0, <2>1, <2>2 DEF TypeOK, Phase
  <2>4. PassInv'
    BY <1>0, <2>1, <2>2, SubsetsPositive DEF PassInv
  <2>5. phase' # "done" => tier = REPRODUCIBLE
    BY <2>1, <2>2, TierTypes
  <2>. QED
    BY <1>0, <2>1, <2>2, <2>3, <2>4, <2>5, TierTypes DEF SliceInv
<1>2. CASE Conclude
  <2>1. PICK success \in BOOLEAN : Probe(atoms, success) /\ PromoteIf(success)
    BY <1>2 DEF Conclude
  <2>2. /\ UNCHANGED <<edits, oracle, atoms, n, i>>
        /\ phase \in {"confirm", "revalidate"} /\ phase' = "done"
        /\ tier = REPRODUCIBLE /\ minimal = Unset
        /\ SingleRemovalsMiss(atoms)
    <3>1. /\ UNCHANGED <<edits, oracle, atoms, n, i>>
          /\ phase \in {"confirm", "revalidate"} /\ phase' = "done"
      BY <1>2 DEF Conclude, input
    <3>2. tier = REPRODUCIBLE /\ minimal = Unset
      BY <3>1 DEF SliceInv
    <3>3. phase = "confirm" => Len(atoms) <= 1
      BY DEF SliceInv
    <3>4. phase = "revalidate" => SingleRemovalsMiss(atoms)
      BY DEF SliceInv
    <3>5. Len(atoms) <= 1 => SingleRemovalsMiss(atoms)
      BY <1>0 DEF SingleRemovalsMiss
    <3>. QED BY <3>1, <3>2, <3>3, <3>4, <3>5
  <2>3. TypeOK'
    BY <1>0, <2>1, <2>2, TierTypes DEF Probe, PromoteIf, TypeOK, Phase
  <2>4. atoms # Unset
    <3>1. \A k \in 1..Len(atoms) : atoms[k] \in Nat
      BY <1>0 DEF TypeOK
    <3>2. Len(Unset) = 1 /\ Unset[1] = -1
      BY DEF Unset
    <3>. QED BY <3>1, <3>2
  <2>5. CASE success
    <3>1. minimal' = atoms /\ tier' = MINIMAL /\ TRUE \in oracle[AtomsOf(atoms)]
      BY <2>1, <2>5 DEF Probe, PromoteIf
    <3>2. SingleRemovalsMiss(minimal)'
      BY <2>2, <3>1 DEF SingleRemovalsMiss, MayMiss
    <3>. QED BY <2>2, <2>3, <2>4, <3>1, <3>2 DEF SliceInv, PassInv
  <2>6. CASE ~success
    <3>1. minimal' = Unset /\ tier' = REPRODUCIBLE
      BY <2>1, <2>2, <2>6 DEF PromoteIf
    <3>. QED BY <2>2, <2>3, <3>1, TierTypes DEF SliceInv, PassInv
  <2>. QED BY <2>5, <2>6
<1>3. CASE Reduce
  <2> DEFINE rest == Complement(atoms, n, i)
  <2>1. /\ UNCHANGED <<edits, oracle, tier, minimal>>
        /\ phase = "reduce" /\ atoms' = rest /\ n' = Coarser(n) /\ i' = 0
        /\ replay_runs' = replay_runs + 1
        /\ phase' = IF Len(rest) >= 2 THEN "reduce" ELSE "revalidate"
    BY <1>3 DEF Reduce, Probe, input
  <2>2. Len(atoms) >= 2 /\ i < Subsets(Len(atoms), n) /\ tier = REPRODUCIBLE
        /\ minimal = Unset
    BY <2>1 DEF SliceInv, PassInv
  <2>3. /\ rest \in Seq(Nat) /\ Len(rest) \in 1..(Len(atoms) - 1)
        /\ AtomsOf(rest) \subseteq AtomsOf(atoms)
    BY <1>0, <2>2, ComplementIsPart DEF TypeOK
  <2>4. n' \in Nat /\ n' >= 2
    BY <1>0, <2>1 DEF Coarser, AtLeast
  <2> HIDE DEF rest
  <2>5. TypeOK'
    BY <1>0, <2>1, <2>3, <2>4 DEF TypeOK, Phase
  <2>6. Len(rest) \in Nat
    BY <2>3
  <2>7. PassInv'
    BY <2>1, <2>4, <2>6, SubsetsPositive DEF PassInv
  <2>8. phase' = "revalidate" => SingleRemovalsMiss(atoms)'
    BY <2>1, <2>6 DEF SingleRemovalsMiss
  <2>. QED
    BY <2>1, <2>2, <2>3, <2>5, <2>7, <2>8, TierTypes DEF SliceInv
<1>4. CASE Keep
  <2> DEFINE last == i + 1 = Subsets(Len(atoms), n)
  <2>1. /\ UNCHANGED <<edits, oracle, atoms, tier, minimal>>
        /\ phase = "reduce"
        /\ MayMiss(Complement(atoms, n, i))
        /\ replay_runs' = replay_runs + 1
        /\ i' = IF last THEN 0 ELSE i + 1
        /\ n' = IF last /\ ~Finest THEN AtMost(Len(atoms), 2 * n) ELSE n
        /\ phase' = IF last /\ Finest THEN "revalidate" ELSE "reduce"
    BY <1>4 DEF Keep, Probe, MayMiss, input
  <2>2. /\ Len(atoms) >= 2 /\ i < Subsets(Len(atoms), n) /\ tier = REPRODUCIBLE
        /\ minimal = Unset
        /\ \A j \in 0..(i - 1) : MayMiss(Complement(atoms, n, j))
    BY <2>1 DEF SliceInv, PassInv
  <2>3. \A j \in 0..i : MayMiss(Complement(atoms, n, j))
    BY <1>0, <2>1, <2>2
  <2>4. n' \in Nat /\ n' >= 2
    BY <1>0, <2>1, <2>2 DEF AtMost
  <2>5. TypeOK'
    BY <1>0, <2>1, <2>4 DEF TypeOK, Phase
  <2>6. PassInv'
    <3>1. CASE last
      <4>1. i' = 0 /\ Len(atoms') = Len(atoms)
        BY <2>1, <3>1
      <4>2. Subsets(Len(atoms), n') >= 1 /\ Subsets(Len(atoms), n') \in Nat
        BY <1>0, <2>2, <2>4, SubsetsPositive
      <4>3. i' < Subsets(Len(atoms'), n')
        BY <4>1, <4>2
      <4>4. \A j \in 0..(i' - 1) : MayMiss(Complement(atoms, n, j))'
        BY <4>1
      <4>. QED BY <2>1, <2>2, <4>3, <4>4 DEF PassInv
    <3>2. CASE ~last
      <4>1. Subsets(Len(atoms), n) \in Nat
        BY <1>0, <2>2, SubsetsPositive
      <4>2. i' = i + 1 /\ n' = n /\ i + 1 < Subsets(Len(atoms), n)
        BY <1>0, <2>1, <2>2, <3>2, <4>1
      <4>3. \A j \in 0..((i + 1) - 1) : MayMiss(Complement(atoms, n, j))
        BY <1>0, <2>3
      <4>. QED BY <2>1, <2>2, <4>2, <4>3 DEF PassInv, MayMiss
    <3>. QED BY <3>1, <3>2
  <2>7. phase' = "revalidate" => SingleRemovalsMiss(atoms)'
    <3>1. ASSUME last, Finest, NEW k \in 1..Len(atoms) PROVE MayMiss(Without(atoms, k))
      <4>1. n >= Len(atoms)
        BY <3>1 DEF Finest
      <4>2. i + 1 = Len(atoms)
        BY <1>0, <2>2, <3>1, <4>1, FinestCut
      <4>3. k - 1 \in 0..i
        BY <1>0, <4>2
      <4>4. Without(atoms, k) = Complement(atoms, n, k - 1)
        BY <1>0, <2>2, <4>1, FinestComplement DEF TypeOK
      <4>. QED BY <2>3, <4>3, <4>4
    <3>. QED BY <2>1, <3>1 DEF SingleRemovalsMiss, MayMiss
  <2>. QED
    BY <2>1, <2>2, <2>5, <2>6, <2>7, TierTypes DEF SliceInv
<1>5. CASE ProbeRaises
  <2>1. /\ UNCHANGED <<edits, oracle, atoms, n, i, tier, minimal, replay_runs>>
        /\ phase \in Probing /\ phase' = "raised"
    BY <1>5 DEF ProbeRaises, input
  <2>2. TypeOK'
    BY <1>0, <2>1 DEF TypeOK, Phase
  <2>3. minimal = Unset /\ tier # MINIMAL
    BY <2>1, TierTypes DEF SliceInv, Probing
  <2>. QED BY <2>1, <2>2, <2>3 DEF SliceInv, PassInv
<1>6. CASE UNCHANGED vars
  <2>1. TypeOK'
    BY <1>0, <1>6 DEF vars, TypeOK
  <2>2. PassInv'
    BY <1>6 DEF vars, SliceInv, PassInv, MayMiss
  <2>3. /\ phase' = "revalidate" => SingleRemovalsMiss(atoms)'
        /\ minimal # Unset => SingleRemovalsMiss(minimal)'
    BY <1>6 DEF vars, SliceInv, SingleRemovalsMiss, MayMiss
  <2>. QED BY <1>6, <2>1, <2>2, <2>3 DEF vars, SliceInv
<1>. QED
  BY <1>1, <1>2, <1>3, <1>4, <1>5, <1>6 DEF Next

LEMMA SliceInvariance == Spec => []SliceInv
BY SliceInit, SliceNext, PTL DEF Spec

(***************************************************************************)
(* Every variable keeps its type.                                          *)
(***************************************************************************)
THEOREM SlicingTypeCorrect == Spec => []TypeOK
<1>1. SliceInv => TypeOK
  BY DEF SliceInv
<1>. QED BY <1>1, SliceInvariance, PTL

(***************************************************************************)
(* No promotion without a successful replay of the very slice it records.  *)
(***************************************************************************)
THEOREM MinimalRevalidated == Spec => []MinimalIsRevalidated
<1>1. SliceInv => MinimalIsRevalidated
  BY DEF SliceInv, MinimalIsRevalidated
<1>. QED BY <1>1, SliceInvariance, PTL

(***************************************************************************)
(* For any number of atoms and any world, slicing ends 1-minimal.          *)
(***************************************************************************)
THEOREM SlicesAreOneMinimal == Spec => []OneMinimal
<1>1. SliceInv => OneMinimal
  BY DEF SliceInv, OneMinimal, SingleRemovalsMiss, MayMiss
<1>. QED BY <1>1, SliceInvariance, PTL
-----------------------------------------------------------------------------
(***************************************************************************)
(* What slicing pays.  Owed is twice what a pass from m atoms and g chunks *)
(* may still cost: at each number of atoms one round whose last complement *)
(* flips, and the rounds of finer and finer cuts that came to nothing,     *)
(* which are paid for once although every reduction starts coarser.  It is *)
(* exact for two cuts: (m - 3) * (m - 4) is what is left of the bound.     *)
(***************************************************************************)
Owed(m, g) == m * (m + 1) - 2 + IF g < m THEN 6 * m - 4 * g - 2 ELSE 0

CostInv ==
    /\ phase = "start" => atoms = edits /\ n = 2 /\ i = 0
    /\ phase \in {"start", "confirm"} => replay_runs = 0
    /\ phase = "reduce" =>
          2 * (replay_runs - i) + Owed(Len(atoms), n) <= 2 * (Len(edits) * Len(edits))
    /\ phase = "revalidate" => replay_runs <= Len(edits) * Len(edits)
    /\ ProbesBounded

\* A cut has at most as many chunks as there are atoms, and fewer than twice
\* as many as were asked for.
LEMMA SubsetsBound ==
    ASSUME NEW len \in Nat, NEW g \in Nat, g >= 2, len >= 2
    PROVE  /\ Subsets(len, g) <= len
           /\ g <= len => Subsets(len, g) <= 2 * g
<1>1. PICK c \in Nat : c = Chunk(len, g) /\ c >= 1
  BY ChunkType
<1>2. PICK s \in Nat : s = (len + c - 1) \div c /\ c * s <= len + c - 1
  <2>1. (len + c - 1) \div c \in Nat /\ c * ((len + c - 1) \div c) <= len + c - 1
    BY <1>1, Z3
  <2>. QED BY <2>1
<1>3. Subsets(len, g) = s
  BY <1>1, <1>2 DEF Subsets
<1>4. s <= len
  <2>1. SUFFICES ASSUME s >= len + 1 PROVE FALSE
    BY <1>2
  <2>2. c * (len + 1) <= c * s
    BY <1>1, <1>2, <2>1, Z3
  <2>3. c * (len + 1) = c * len + c /\ c * len >= len
    BY <1>1, Z3
  <2>4. c * len \in Nat /\ c * s \in Nat
    BY <1>1, <1>2, Z3
  <2>. QED BY <1>1, <1>2, <2>2, <2>3, <2>4
<1>5. ASSUME g <= len PROVE s <= 2 * g
  <2>1. PICK q \in Nat : q = len \div g /\ q >= 1 /\ len < g * q + g
    <3>1. len \div g \in Nat /\ len \div g >= 1 /\ len < g * (len \div g) + g
      BY <1>5, Z3
    <3>. QED BY <3>1
  <2>2. c = q
    BY <1>1, <2>1 DEF Chunk, AtLeast
  <2>3. SUFFICES ASSUME s >= 2 * g + 1 PROVE FALSE
    BY <1>2
  <2>4. c * (2 * g + 1) <= c * s
    BY <1>1, <1>2, <2>3, Z3
  <2>5. c * (2 * g + 1) = 2 * (g * c) + c /\ g * c >= g /\ g * c \in Nat
    BY <1>1, <2>1, <2>2, Z3
  <2>6. c * s \in Nat
    BY <1>1, <1>2, Z3
  <2>. QED BY <1>1, <1>2, <2>1, <2>2, <2>4, <2>5, <2>6
<1>. QED BY <1>3, <1>4, <1>5

\* The bill before the first probe, at the last one, after a reduction, and
\* after a round without one.
LEMMA OwedAtFirst ==
    ASSUME NEW l \in Nat, l >= 2 PROVE Owed(l, 2) <= 2 * (l * l)
<1>1. l * (l + 1) = l * l + l /\ l * l \in Nat
  BY Z3
<1>2. CASE l = 2
  BY <1>2 DEF Owed
<1>3. CASE l = 3
  BY <1>3 DEF Owed
<1>4. CASE l >= 4
  <2>1. (l - 3) * (l - 4) >= 0
    BY <1>4, Z3
  <2>2. (l - 3) * (l - 4) = l * l - 7 * l + 12
    BY Z3
  <2>. QED BY <1>1, <1>4, <2>1, <2>2 DEF Owed
<1>. QED BY <1>2, <1>3, <1>4

LEMMA OwedAtLast ==
    ASSUME NEW m \in Nat, NEW g \in Nat, m >= 2
    PROVE  Owed(m, g) \in Int /\ Owed(m, g) >= 2 * m
<1>1. m * (m + 1) = m * m + m /\ m * m \in Nat /\ m * m >= 2 * m
  BY Z3
<1>2. CASE m = 2
  BY <1>2 DEF Owed
<1>3. CASE m >= 3
  <2>1. m * m >= 3 * m
    BY <1>3, Z3
  <2>. QED BY <1>1, <1>3, <2>1 DEF Owed
<1>. QED BY <1>2, <1>3

LEMMA OwedReduced ==
    ASSUME NEW m \in Nat, NEW g \in Nat, NEW l \in Nat, NEW k \in Nat,
           g >= 2, 2 <= l, l < m, k <= m
    PROVE  Owed(l, Coarser(g)) + 2 * k <= Owed(m, g)
<1>1. /\ m * (m + 1) = m * m + m /\ m * m \in Nat
      /\ l * (l + 1) \in Nat
  BY Z3
<1>2. l * (l + 1) <= m * m - m
  <2>1. l * (l + 1) <= (m - 1) * m
    BY Z3
  <2>2. (m - 1) * m = m * m - m
    BY Z3
  <2>. QED BY <1>1, <2>1, <2>2
<1>3. PICK h \in Nat : h = Coarser(g) /\ h >= g - 1 /\ h >= 2
  BY DEF Coarser, AtLeast
<1>4. PICK x \in Nat : x = m * m /\ m * (m + 1) = x + m
  BY <1>1
<1>5. PICK y \in Nat : y = l * (l + 1) /\ y <= x - m
  BY <1>1, <1>2, <1>4
<1>6. /\ Owed(l, h) = y - 2 + IF h < l THEN 6 * l - 4 * h - 2 ELSE 0
      /\ Owed(m, g) = x + m - 2 + IF g < m THEN 6 * m - 4 * g - 2 ELSE 0
  BY <1>4, <1>5 DEF Owed
<1>. QED BY <1>3, <1>5, <1>6

LEMMA OwedFiner ==
    ASSUME NEW m \in Nat, NEW g \in Nat, NEW s \in Nat,
           g >= 2, g < m, s <= m, s <= 2 * g
    PROVE  Owed(m, AtMost(m, 2 * g)) + 2 * s <= Owed(m, g)
<1>1. PICK x \in Nat : x = m * (m + 1)
  BY Z3
<1>2. PICK h \in Nat : h = AtMost(m, 2 * g)
                       /\ ((h = 2 * g /\ 2 * g <= m) \/ (h = m /\ m < 2 * g))
  BY DEF AtMost
<1>3. /\ Owed(m, h) = x - 2 + IF h < m THEN 6 * m - 4 * h - 2 ELSE 0
      /\ Owed(m, g) = x - 2 + IF g < m THEN 6 * m - 4 * g - 2 ELSE 0
  BY <1>1 DEF Owed
<1>. QED BY <1>2, <1>3

LEMMA CostInit == Init => CostInv
<1>1. ASSUME Init PROVE edits \in Seq(Nat)
  BY <1>1, CasesAssumption DEF Init
<1>2. ASSUME Init PROVE Len(edits) * Len(edits) \in Nat
  <2>1. Len(edits) \in Nat
    BY <1>1, <1>2
  <2>. QED BY <2>1, Z3
<1>. QED BY <1>2 DEF Init, CostInv, ProbesBounded

LEMMA CostNext == SliceInv /\ CostInv /\ [Next]_vars => CostInv'
<1> SUFFICES ASSUME SliceInv, CostInv, [Next]_vars PROVE CostInv'
  OBVIOUS
<1>0. /\ Len(atoms) \in Nat /\ n \in Nat /\ n >= 2 /\ i \in Nat
      /\ replay_runs \in Nat /\ Len(edits) \in Nat
      /\ atoms \in Seq(Nat)
  BY DEF SliceInv, TypeOK
<1>1. PICK q \in Nat : q = Len(edits) * Len(edits)
  <2>1. Len(edits) * Len(edits) \in Nat
    BY <1>0, Z3
  <2>. QED BY <2>1
<1>2. PICK m \in Nat : m = Len(atoms)
  BY <1>0
<1>3. ASSUME phase = "reduce"
      PROVE  /\ m >= 2 /\ i < Subsets(m, n)
             /\ Subsets(m, n) \in Nat /\ Subsets(m, n) <= m
             /\ n < m => Subsets(m, n) <= 2 * n
             /\ 2 * (replay_runs - i) + Owed(m, n) <= 2 * q
  <2>1. m >= 2 /\ i < Subsets(m, n)
    BY <1>2, <1>3 DEF SliceInv, PassInv
  <2>2. /\ Subsets(m, n) \in Nat /\ Subsets(m, n) <= m
        /\ n < m => Subsets(m, n) <= 2 * n
    BY <1>0, <2>1, SubsetsPositive, SubsetsBound
  <2>. QED BY <1>1, <1>2, <1>3, <2>1, <2>2 DEF CostInv
<1>4. CASE Start
  <2>1. /\ UNCHANGED <<edits, atoms, n, i, replay_runs>>
        /\ phase = "start" /\ atoms = edits /\ n = 2 /\ i = 0 /\ replay_runs = 0
    BY <1>4 DEF Start, input, CostInv
  <2>2. /\ phase' \in {"done", "confirm", "reduce"}
        /\ phase' = "reduce" => m >= 2
    BY <1>2, <1>4 DEF Start
  <2>3. m >= 2 => 2 * (0 - 0) + Owed(m, 2) <= 2 * q
    BY <1>1, <1>2, <2>1, OwedAtFirst, OwedAtLast
  <2>4. phase' = "reduce" =>
            2 * (replay_runs' - i') + Owed(Len(atoms'), n') <= 2 * q
    BY <1>2, <2>1, <2>2, <2>3
  <2>5. replay_runs' = 0 /\ edits' = edits
    BY <2>1
  <2>. QED BY <1>1, <2>2, <2>4, <2>5 DEF CostInv, ProbesBounded
<1>5. CASE Conclude
  <2>1. /\ UNCHANGED edits /\ phase' = "done" /\ replay_runs' = replay_runs + 1
        /\ phase \in {"confirm", "revalidate"}
    BY <1>5 DEF Conclude, Probe, input
  <2>2. replay_runs <= q
    BY <1>1, <2>1 DEF CostInv
  <2>. QED BY <1>0, <1>1, <2>1, <2>2 DEF CostInv, ProbesBounded
<1>6. CASE Reduce
  <2>1. PICK rest : rest = Complement(atoms, n, i)
    OBVIOUS
  <2>2. /\ UNCHANGED edits /\ phase = "reduce" /\ atoms' = rest
        /\ n' = Coarser(n) /\ i' = 0 /\ replay_runs' = replay_runs + 1
        /\ phase' = IF Len(rest) >= 2 THEN "reduce" ELSE "revalidate"
    BY <1>6, <2>1 DEF Reduce, Probe, input
  <2>3. PICK l \in Nat : l = Len(rest) /\ 1 <= l /\ l < m
    <3>1. Len(rest) \in 1..(m - 1)
      BY <1>0, <1>2, <1>3, <2>1, <2>2, ComplementIsPart
    <3>. QED BY <3>1
  <2>4. PICK k \in Nat : k = i + 1 /\ k <= m
    BY <1>0, <1>3, <2>2
  <2>5. Owed(m, n) \in Int /\ Owed(m, n) >= 2 * m
    BY <1>0, <1>3, <2>2, OwedAtLast
  <2>6. replay_runs + 1 <= q
    BY <1>0, <1>3, <2>2, <2>4, <2>5
  <2>7. ASSUME l >= 2
        PROVE  2 * (replay_runs + 1 - 0) + Owed(l, Coarser(n)) <= 2 * q
    <3>1. Owed(l, Coarser(n)) + 2 * k <= Owed(m, n)
      BY <1>0, <2>3, <2>4, <2>7, OwedReduced
    <3>2. Coarser(n) \in Nat
      BY <1>0 DEF Coarser, AtLeast
    <3>3. Owed(l, Coarser(n)) \in Int
      BY <2>7, <3>2, OwedAtLast
    <3>. QED BY <1>0, <1>3, <2>2, <2>4, <2>5, <3>1, <3>3
  <2>. QED
    BY <1>0, <1>1, <2>2, <2>3, <2>6, <2>7 DEF CostInv, ProbesBounded
<1>7. CASE Keep
  <2>1. PICK s \in Nat : s = Subsets(m, n)
    BY <1>3, <1>7 DEF Keep
  <2>2. /\ UNCHANGED <<edits, atoms>> /\ phase = "reduce"
        /\ replay_runs' = replay_runs + 1
        /\ \/ i + 1 # s /\ i' = i + 1 /\ n' = n /\ phase' = "reduce"
           \/ /\ i + 1 = s /\ n < m /\ i' = 0 /\ n' = AtMost(m, 2 * n)
              /\ phase' = "reduce"
           \/ i + 1 = s /\ n >= m /\ phase' = "revalidate"
    BY <1>0, <1>2, <1>7, <2>1 DEF Keep, Probe, Finest, input
  <2>3. Owed(m, n) \in Int /\ Owed(m, n) >= 2 * m
    BY <1>0, <1>3, <2>2, OwedAtLast
  <2>4. replay_runs + 1 <= q
    BY <1>0, <1>3, <2>1, <2>2, <2>3
  <2>5. ASSUME i + 1 = s, n < m
        PROVE  2 * (replay_runs + 1 - 0) + Owed(m, AtMost(m, 2 * n)) <= 2 * q
    <3>1. Owed(m, AtMost(m, 2 * n)) + 2 * s <= Owed(m, n)
      BY <1>0, <1>3, <2>1, <2>2, <2>5, OwedFiner
    <3>2. AtMost(m, 2 * n) \in Nat
      BY <1>0 DEF AtMost
    <3>3. Owed(m, AtMost(m, 2 * n)) \in Int
      BY <1>3, <2>2, <3>2, OwedAtLast
    <3>. QED BY <1>0, <1>3, <2>2, <2>3, <2>5, <3>1, <3>3
  <2>6. 2 * (replay_runs + 1 - (i + 1)) + Owed(m, n) <= 2 * q
    BY <1>0, <1>3, <2>2, <2>3
  <2>7. phase' = "reduce" =>
            2 * (replay_runs' - i') + Owed(Len(atoms'), n') <= 2 * q
    <3>0. replay_runs' = replay_runs + 1 /\ Len(atoms') = m
      BY <1>2, <2>2
    <3>1. CASE i' = i + 1 /\ n' = n
      <4>1. replay_runs' - i' = replay_runs + 1 - (i + 1)
        BY <1>0, <3>0, <3>1
      <4>2. Owed(Len(atoms'), n') = Owed(m, n)
        BY <3>0, <3>1
      <4>. QED BY <2>6, <4>1, <4>2
    <3>2. CASE i + 1 = s /\ n < m /\ i' = 0 /\ n' = AtMost(m, 2 * n)
      BY <3>0, <3>2, <2>5
    <3>. QED BY <2>2, <3>1, <3>2
  <2>8. /\ replay_runs' <= q /\ edits' = edits
        /\ phase' \in {"reduce", "revalidate"}
    BY <2>2, <2>4
  <2>. QED BY <1>0, <1>1, <2>2, <2>7, <2>8 DEF CostInv, ProbesBounded
<1>8. CASE ProbeRaises
  BY <1>8 DEF ProbeRaises, input, CostInv, ProbesBounded
<1>9. CASE UNCHANGED vars
  BY <1>9 DEF vars, CostInv, ProbesBounded
<1>. QED
  BY <1>4, <1>5, <1>6, <1>7, <1>8, <1>9 DEF Next

(***************************************************************************)
(* The replays that slicing takes are bounded by the square of the number  *)
(* of atoms, plus the re-validation, for any number of atoms and any       *)
(* world, monotone or not.                                                 *)
(***************************************************************************)
THEOREM SlicingIsQuadratic == Spec => []ProbesBounded
<1>1. CostInv => ProbesBounded
  BY DEF CostInv
<1>. QED BY <1>1, SliceInit, SliceNext, CostInit, CostNext, PTL DEF Spec
-----------------------------------------------------------------------------
(***************************************************************************)
(* The acquisition loop, which pays for slicing: theorems about            *)
(* Acquisition for any candidates, any world and any budget.               *)
(***************************************************************************)
\* The budget is read before each candidate, and the last point of the curve
\* is the unit appended last.
PaidFor ==
    /\ budget.replays \in Nat \cup {NoLimit}
    /\ firstMiss \in [Cands -> FirstMisses]
    /\ spent.replays \in Nat
    /\ \E S : units \in Seq(S)
    /\ \E S : curve \in Seq(S)
    /\ Len(curve) = Len(units)
    /\ OverstepIsLastCandidate

\* Every candidate is pending or has its unit; the policy has attempted the
\* episodes of the units; nobody is served twice before everybody is once.
EpisodeAt(k) == Episode[units[k].cand]

Served ==
    /\ \A c \in Cands : c \in pending \/ \E k \in DOMAIN units : units[k].cand = c
    /\ policy = "adaptive" =>
          /\ attempted = {EpisodeAt(k) : k \in DOMAIN units}
          /\ \A j, k \in DOMAIN units : j # k /\ EpisodeAt(j) = EpisodeAt(k) =>
                Episodes \subseteq {EpisodeAt(l) : l \in DOMAIN units}

AcqInv == PaidFor /\ Served

LEMMA ReplayRunsType ==
    ASSUME firstMiss \in [Cands -> FirstMisses], NEW c \in Cands
    PROVE  ReplayRuns(c) \in Nat /\ Work(c) \in Nat
<1>1. firstMiss[c] \in Nat /\ Probes[c] \in Nat /\ NRepro \in Nat
  <2>1. firstMiss[c] \in FirstMisses
    OBVIOUS
  <2>2. firstMiss[c] \in 1..(NRepro + 1)
    BY <2>1, ReproAssumption, WorldAssumption
  <2>. QED BY <2>2, CandsAssumption, ReproAssumption
<1>2. ControlRuns(c) \in Nat /\ IntervenedRuns(c) \in Nat
  BY <1>1 DEF ControlRuns, IntervenedRuns
<1>3. Work(c) \in Nat
  BY <1>1, <1>2 DEF Work
<1>. QED BY <1>2, <1>3 DEF ReplayRuns

LEMMA AcquisitionInit == AcqInit => AcqInv
<1> SUFFICES ASSUME AcqInit PROVE AcqInv
  OBVIOUS
<1>1. /\ budget \in Budgets /\ firstMiss \in [Cands -> FirstMisses]
      /\ pending = Cands /\ units = <<>> /\ curve = <<>> /\ attempted = {}
      /\ spent.replays = 0
  BY DEF AcqInit
<1>2. budget.replays \in Nat \cup {NoLimit}
  <2>1. budget \in [replays : Nat \cup {NoLimit}, seconds : Nat \cup {NoLimit}]
    BY <1>1, BudgetAssumption DEF Limit
  <2>. QED BY <2>1
<1>3. (\E S : units \in Seq(S)) /\ (\E S : curve \in Seq(S)) /\ Len(curve) = Len(units)
  <2>1. <<>> \in Seq(Nat)
    OBVIOUS
  <2>. QED BY <1>1, <2>1
<1>4. PaidFor
  BY <1>1, <1>2, <1>3 DEF PaidFor, OverstepIsLastCandidate
<1>5. Served
  BY <1>1 DEF Served
<1>. QED BY <1>4, <1>5 DEF AcqInv

LEMMA Appending ==
    ASSUME NEW S, NEW s \in Seq(S), NEW e
    PROVE  /\ Append(s, e) \in Seq(S \cup {e})
           /\ Len(s) \in Nat /\ Len(Append(s, e)) = Len(s) + 1
           /\ DOMAIN s = 1..Len(s)
           /\ DOMAIN Append(s, e) = DOMAIN s \cup {Len(s) + 1}
           /\ Append(s, e)[Len(s) + 1] = e
           /\ \A k \in DOMAIN s : Append(s, e)[k] = s[k]
           /\ Append(s, e) # <<>>
<1>2. PICK T : T = S \cup {e}
  OBVIOUS
<1>3. s \in Seq(T) /\ e \in T /\ Len(s) \in Nat /\ DOMAIN s = 1..Len(s)
  BY <1>2
<1>4. /\ Append(s, e) \in Seq(T) /\ Len(Append(s, e)) = Len(s) + 1
      /\ Append(s, e)[Len(s) + 1] = e
      /\ \A k \in 1..Len(s) : Append(s, e)[k] = s[k]
  BY <1>3
<1>5. DOMAIN Append(s, e) = 1..(Len(s) + 1)
  BY <1>4
<1>6. 1..(Len(s) + 1) = (1..Len(s)) \cup {Len(s) + 1}
  BY <1>3
<1>7. Append(s, e) # <<>>
  BY <1>3, <1>4
<1>. QED BY <1>2, <1>3, <1>4, <1>5, <1>6, <1>7

LEMMA ProcessPays ==
    ASSUME AcqInv, NEW c \in Cands, Process(c)
    PROVE  /\ PaidFor'
           /\ Len(units) + 1 \notin DOMAIN units
           /\ DOMAIN units' = DOMAIN units \cup {Len(units) + 1}
           /\ units'[Len(units) + 1].cand = c
           /\ units'[Len(units) + 1].tier \in Tiers(c)
           /\ \A k \in DOMAIN units : units'[k] = units[k]
<1>1. PICK t \in Tiers(c) :
        units' = Append(units, [cand |-> c, tier |-> t, flipped |-> Flipped(c),
                                replays |-> ReplayRuns(c)])
  BY DEF Process
<1>2. PICK d \in Durations :
        spent' = [replays |-> spent.replays + ReplayRuns(c),
                  seconds |-> spent.seconds + d]
  BY DEF Process
<1>3. PICK u : u = [cand |-> c, tier |-> t, flipped |-> Flipped(c),
                    replays |-> ReplayRuns(c)]
  OBVIOUS
<1>4. u.cand = c /\ u.replays = ReplayRuns(c) /\ units' = Append(units, u)
  BY <1>1, <1>3
<1>5. PICK r \in Nat : r = ReplayRuns(c)
  BY ReplayRunsType DEF AcqInv, PaidFor
<1>6. spent'.replays = spent.replays + r
  BY <1>2, <1>5
<1>7. PICK p : curve' = Append(curve, p)
  BY DEF Process
<1>8. /\ UNCHANGED <<budget, firstMiss>>
      /\ budget.replays # NoLimit => spent.replays < budget.replays
  <2>1. UNCHANGED <<budget, firstMiss>> /\ ~Exhausted
    BY DEF Process, call, world
  <2>2. budget.replays # NoLimit => ~(spent.replays >= budget.replays)
    BY <2>1 DEF Exhausted, Reached
  <2>. QED BY <2>1, <2>2 DEF AcqInv, PaidFor
<1>9. /\ (\E S : units \in Seq(S)) /\ (\E S : curve \in Seq(S))
      /\ Len(curve) = Len(units)
      /\ spent.replays \in Nat /\ budget.replays \in Nat \cup {NoLimit}
      /\ firstMiss \in [Cands -> FirstMisses]
  BY DEF AcqInv, PaidFor
<1>10. /\ \E S : units' \in Seq(S)
       /\ Len(units) \in Nat /\ Len(units') = Len(units) + 1
       /\ DOMAIN units = 1..Len(units)
       /\ DOMAIN units' = DOMAIN units \cup {Len(units) + 1}
       /\ units'[Len(units) + 1] = u
       /\ \A k \in DOMAIN units : units'[k] = units[k]
  <2>0. PICK S : units \in Seq(S)
    BY <1>9
  <2>1. /\ Append(units, u) \in Seq(S \cup {u})
        /\ Len(units) \in Nat /\ Len(Append(units, u)) = Len(units) + 1
        /\ DOMAIN units = 1..Len(units)
        /\ DOMAIN Append(units, u) = DOMAIN units \cup {Len(units) + 1}
        /\ Append(units, u)[Len(units) + 1] = u
        /\ \A k \in DOMAIN units : Append(units, u)[k] = units[k]
    BY <2>0, Appending
  <2>. QED BY <1>4, <2>1
<1>11. (\E S : curve' \in Seq(S)) /\ Len(curve') = Len(curve) + 1
  <2>0. PICK S : curve \in Seq(S)
    BY <1>9
  <2>. QED BY <1>7, <2>0, Appending
<1>12. OverstepIsLastCandidate'
  <2>1. units'[Len(units')].replays = r
    BY <1>4, <1>5, <1>10
  <2>2. spent'.replays - units'[Len(units')].replays = spent.replays
    BY <1>6, <1>9, <2>1
  <2>. QED BY <1>8, <2>2 DEF OverstepIsLastCandidate
<1>13. PaidFor'
  BY <1>6, <1>8, <1>9, <1>10, <1>11, <1>12 DEF PaidFor
<1>14. u.tier = t
  BY <1>3
<1>. QED BY <1>4, <1>10, <1>13, <1>14

LEMMA ProcessServes ==
    ASSUME AcqInv, NEW c \in Cands, Process(c)
    PROVE  Served'
<1>1. PICK n1 : n1 = Len(units) + 1
  OBVIOUS
<1>2. /\ n1 \notin DOMAIN units /\ DOMAIN units' = DOMAIN units \cup {n1}
      /\ units'[n1].cand = c
      /\ \A k \in DOMAIN units : units'[k] = units[k]
  BY <1>1, ProcessPays
<1>3. /\ \A k \in DOMAIN units : EpisodeAt(k)' = EpisodeAt(k)
      /\ EpisodeAt(n1)' = Episode[c]
  BY <1>2 DEF EpisodeAt
<1>4. /\ pending' = pending \ {c} /\ policy' = policy
      /\ policy = "adaptive" => /\ attempted' = attempted \cup {Episode[c]}
                                /\ \A d \in pending : ~SurelyBefore(d, c)
  BY DEF Process, Observe, MayPick, call
<1>5. \A d \in Cands : d \in pending' \/ \E k \in DOMAIN units' : units'[k].cand = d
  BY <1>2, <1>4 DEF AcqInv, Served
<1>6. ASSUME policy = "adaptive"
      PROVE  attempted' = {EpisodeAt(k)' : k \in DOMAIN units'}
  BY <1>2, <1>3, <1>4, <1>6 DEF AcqInv, Served
<1>7. {EpisodeAt(l) : l \in DOMAIN units} \subseteq {EpisodeAt(l)' : l \in DOMAIN units'}
  BY <1>2, <1>3
<1>8. ASSUME policy = "adaptive", NEW j \in DOMAIN units, EpisodeAt(j) = Episode[c]
      PROVE  Episodes \subseteq {EpisodeAt(l) : l \in DOMAIN units}
  <2>1. ~Singleton(c)
    BY <1>8 DEF AcqInv, Served, Singleton
  <2>2. \A d \in pending : ~Singleton(d)
    BY <1>4, <1>8, <2>1 DEF SurelyBefore
  <2>3. \A d \in pending : Episode[d] \in {EpisodeAt(l) : l \in DOMAIN units}
    BY <1>8, <2>2 DEF AcqInv, Served, Singleton
  <2>4. \A d \in Cands : Episode[d] \in {EpisodeAt(l) : l \in DOMAIN units}
    BY <2>3 DEF AcqInv, Served, EpisodeAt
  <2>. QED BY <2>4 DEF Episodes
<1>9. ASSUME policy = "adaptive", NEW j \in DOMAIN units', NEW k \in DOMAIN units',
             j # k, EpisodeAt(j)' = EpisodeAt(k)'
      PROVE  Episodes \subseteq {EpisodeAt(l)' : l \in DOMAIN units'}
  <2>1. CASE j \in DOMAIN units /\ k \in DOMAIN units
    BY <1>3, <1>7, <1>9, <2>1 DEF AcqInv, Served
  <2>2. CASE j = n1 /\ k \in DOMAIN units
    BY <1>3, <1>7, <1>8, <1>9, <2>2
  <2>3. CASE k = n1 /\ j \in DOMAIN units
    BY <1>3, <1>7, <1>8, <1>9, <2>3
  <2>. QED BY <1>2, <1>9, <2>1, <2>2, <2>3
<1>10. Episodes' = Episodes
  BY DEF Episodes
<1>. QED BY <1>4, <1>5, <1>6, <1>9, <1>10 DEF Served

LEMMA AcquisitionNext ==
    AcqInv /\ [AcqNext]_(acqVars) => AcqInv'
<1> SUFFICES ASSUME AcqInv, [AcqNext]_(acqVars) PROVE AcqInv'
  OBVIOUS
<1>1. ASSUME NEW c \in Cands, Process(c) PROVE AcqInv'
  BY <1>1, ProcessPays, ProcessServes DEF AcqInv
<1>2. ASSUME UNCHANGED <<policy, budget, firstMiss, pending, units, spent, curve, attempted>>
      PROVE  AcqInv'
  <2>1. PaidFor'
    BY <1>2 DEF AcqInv, PaidFor, OverstepIsLastCandidate
  <2>2. Episodes' = Episodes
    BY DEF Episodes
  <2>3. \A k : EpisodeAt(k)' = EpisodeAt(k)
    BY <1>2 DEF EpisodeAt
  <2>4. Served'
    BY <1>2, <2>2, <2>3 DEF AcqInv, Served
  <2>. QED BY <2>1, <2>4 DEF AcqInv
<1>3. CASE Return
  BY <1>2, <1>3 DEF Return, call, world, learned
<1>4. CASE ReplayRaises
  BY <1>2, <1>4 DEF ReplayRaises, call, world, learned
<1>5. CASE UNCHANGED acqVars
  BY <1>2, <1>5 DEF acqVars
<1>. QED BY <1>1, <1>3, <1>4, <1>5 DEF AcqNext

(***************************************************************************)
(* A run oversteps its replay budget by less than what its last candidate  *)
(* cost: the budget is read between any two candidates, for any candidates *)
(* and budgets and whatever the replays show.                              *)
(***************************************************************************)
THEOREM OverstepIsBounded ==
    AcqSpec => []OverstepIsLastCandidate
<1>1. AcqInv => OverstepIsLastCandidate
  BY DEF AcqInv, PaidFor
<1>. QED BY <1>1, AcquisitionInit, AcquisitionNext, PTL DEF AcqSpec

(***************************************************************************)
(* The adaptive policy serves every episode once before it serves one for  *)
(* the second time, for any number of episodes and candidates and in       *)
(* whatever order equal candidates are taken.                              *)
(***************************************************************************)
THEOREM EverybodyIsServedFirst ==
    AcqSpec => []BreadthFirst
<1>1. ASSUME AcqInv PROVE BreadthFirst
  <2> SUFFICES ASSUME policy = "adaptive", NEW e \in Episodes, NEW f \in Episodes,
                      Picks(e) >= 2
               PROVE  Picks(f) >= 1
    BY DEF BreadthFirst
  <2> DEFINE Of(x) == {k \in DOMAIN units : EpisodeAt(k) = x}
  <2>1. ASSUME NEW x PROVE Picks(x) = Cardinality(Of(x))
    <3>1. Of(x) = {k \in DOMAIN units : Episode[units[k].cand] = x}
      BY DEF EpisodeAt
    <3> HIDE DEF Of
    <3>. QED BY <3>1 DEF Picks
  <2>2. \A x : IsFiniteSet(Of(x))
    <3>1. PICK S : units \in Seq(S)
      BY <1>1 DEF AcqInv, PaidFor
    <3>2. DOMAIN units = 1..Len(units) /\ Len(units) \in Nat
      BY <3>1
    <3>3. IsFiniteSet(DOMAIN units)
      BY <3>2, FS_Interval
    <3>. QED BY <3>3, FS_Subset
  <2>3. PICK j \in Of(e) : TRUE
    <3>1. Of(e) # {}
      BY <2>1, FS_EmptySet
    <3>. QED BY <3>1
  <2>4. PICK k \in Of(e) : k # j
    <3>1. Cardinality(Of(e) \ {j}) = Cardinality(Of(e)) - 1 /\ IsFiniteSet(Of(e) \ {j})
      BY <2>2, <2>3, FS_RemoveElement
    <3>2. Cardinality(Of(e)) \in Nat /\ Cardinality(Of(e)) >= 2
      BY <2>1, <2>2, FS_CardinalityType
    <3>3. Of(e) \ {j} # {}
      BY <3>1, <3>2, FS_EmptySet
    <3>. QED BY <3>3
  <2>5. Of(f) # {}
    BY <1>1, <2>3, <2>4 DEF AcqInv, Served
  <2>6. Cardinality(Of(f)) \in Nat /\ Cardinality(Of(f)) # 0
    BY <2>2, <2>5, FS_EmptySet, FS_CardinalityType
  <2>. QED BY <2>1, <2>6
<1>. QED BY <1>1, AcquisitionInit, AcquisitionNext, PTL DEF AcqSpec
-----------------------------------------------------------------------------
(***************************************************************************)
(* What has been spent, at any moment, is the bill of the candidates done  *)
(* so far: a control for each of them, or for each fork point among them   *)
(* when controls are kept, and their work.                                 *)
(***************************************************************************)
Done == Cands \ pending

ForksOf(cands) == {Fork[c] : c \in cands}

Billed ==
    /\ cache = IF mechanisms THEN ForksOf(Done) ELSE {}
    /\ IsFiniteSet(ForksOf(Done)) /\ IsFiniteSet(WorkOf(Done))
    /\ spent.replays =
          (IF mechanisms THEN Cardinality(ForksOf(Done)) ELSE Cardinality(Done))
            + Cardinality(WorkOf(Done))
    /\ {units[k].cand : k \in Validated(units)} = {c \in Done : Flipped(c)}

LEMMA OneMoreDone ==
    ASSUME firstMiss \in [Cands -> FirstMisses], NEW D \in SUBSET Cands,
           NEW c \in Cands \ D, IsFiniteSet(ForksOf(D)), IsFiniteSet(WorkOf(D))
    PROVE  /\ IsFiniteSet(WorkOf(D \cup {c}))
           /\ Cardinality(WorkOf(D \cup {c})) = Cardinality(WorkOf(D)) + Work(c)
           /\ ForksOf(D \cup {c}) = ForksOf(D) \cup {Fork[c]}
           /\ IsFiniteSet(ForksOf(D \cup {c}))
           /\ Cardinality(ForksOf(D \cup {c})) =
                 Cardinality(ForksOf(D)) + IF Fork[c] \in ForksOf(D) THEN 0 ELSE 1
           /\ Cardinality(D \cup {c}) = Cardinality(D) + 1
           /\ Cardinality(D) \in Nat /\ Cardinality(WorkOf(D)) \in Nat
           /\ Cardinality(ForksOf(D)) \in Nat
<1>1. PICK w \in Nat : w = Work(c)
  BY ReplayRunsType
<1>2. PICK own : own = {c} \X (1..w)
  OBVIOUS
<1>3. WorkOf(D \cup {c}) = WorkOf(D) \cup own
  BY <1>1, <1>2 DEF WorkOf
<1>4. WorkOf(D) \cap own = {}
  BY <1>2 DEF WorkOf
<1>5. IsFiniteSet(own) /\ Cardinality(own) = w
  <2>1. /\ IsFiniteSet({c}) /\ Cardinality({c}) = 1
    BY FS_Singleton
  <2>2. 1 \in Int /\ w \in Int
    BY <1>1
  <2>3. IsFiniteSet(1..w) /\ Cardinality(1..w) = IF 1 > w THEN 0 ELSE w - 1 + 1
    BY <2>2, FS_Interval
  <2>4. Cardinality(1..w) = w
    BY <1>1, <2>3
  <2>5. IsFiniteSet(own) /\ Cardinality(own) = 1 * w
    BY <1>2, <2>1, <2>3, <2>4, FS_Product
  <2>. QED BY <1>1, <2>5
<1>6. /\ IsFiniteSet(D) /\ Cardinality(D) \in Nat
      /\ Cardinality(WorkOf(D)) \in Nat /\ Cardinality(ForksOf(D)) \in Nat
  BY CandsAssumption, FS_Subset, FS_CardinalityType
<1>7. /\ IsFiniteSet(WorkOf(D) \cup own)
      /\ Cardinality(WorkOf(D) \cup own) = Cardinality(WorkOf(D)) + w
  <2>1. Cardinality({}) = 0
    BY FS_EmptySet
  <2>2. /\ IsFiniteSet(WorkOf(D) \cup own)
        /\ Cardinality(WorkOf(D) \cup own) =
              Cardinality(WorkOf(D)) + Cardinality(own) - Cardinality(WorkOf(D) \cap own)
    BY <1>5, FS_Union
  <2>3. PICK a \in Nat : a = Cardinality(WorkOf(D))
    BY <1>6
  <2>4. Cardinality(WorkOf(D) \cap own) = 0
    BY <1>4, <2>1
  <2>5. Cardinality(WorkOf(D) \cup own) = a + w - 0
    BY <1>5, <2>2, <2>3, <2>4
  <2>6. a + w - 0 = a + w
    BY <1>1
  <2>. QED BY <2>2, <2>3, <2>5, <2>6
<1>8. ForksOf(D \cup {c}) = ForksOf(D) \cup {Fork[c]}
  BY DEF ForksOf
<1>9. /\ IsFiniteSet(ForksOf(D) \cup {Fork[c]})
      /\ Cardinality(ForksOf(D) \cup {Fork[c]}) =
            IF Fork[c] \in ForksOf(D) THEN Cardinality(ForksOf(D))
                                      ELSE Cardinality(ForksOf(D)) + 1
  BY FS_AddElement
<1>10. Cardinality(D \cup {c}) = Cardinality(D) + 1
  BY <1>6, FS_AddElement
<1>11. IsFiniteSet(ForksOf(D \cup {c})) /\ IsFiniteSet(WorkOf(D \cup {c}))
  BY <1>3, <1>7, <1>8, <1>9
<1>12. Cardinality(ForksOf(D \cup {c})) =
          Cardinality(ForksOf(D)) + IF Fork[c] \in ForksOf(D) THEN 0 ELSE 1
  BY <1>6, <1>8, <1>9
<1>13. Cardinality(WorkOf(D \cup {c})) = Cardinality(WorkOf(D)) + Work(c)
  BY <1>1, <1>3, <1>7
<1>. QED BY <1>6, <1>8, <1>10, <1>11, <1>12, <1>13

LEMMA BilledInit == AcqInit => Billed
<1> SUFFICES ASSUME AcqInit PROVE Billed
  OBVIOUS
<1>1. /\ pending = Cands /\ units = <<>> /\ cache = {} /\ spent.replays = 0
  BY DEF AcqInit
<1>2. Done = {} /\ ForksOf({}) = {} /\ WorkOf({}) = {} /\ Validated(units) = {}
  BY <1>1 DEF Done, ForksOf, WorkOf, Validated
<1>3. IsFiniteSet({}) /\ Cardinality({}) = 0
  BY FS_EmptySet
<1>4. /\ Cardinality(ForksOf(Done)) = 0 /\ Cardinality(WorkOf(Done)) = 0
      /\ Cardinality(Done) = 0
      /\ IsFiniteSet(ForksOf(Done)) /\ IsFiniteSet(WorkOf(Done))
  BY <1>2, <1>3
<1>5. cache = IF mechanisms THEN ForksOf(Done) ELSE {}
  BY <1>1, <1>2
<1>6. {units[k].cand : k \in Validated(units)} = {c \in Done : Flipped(c)}
  BY <1>2
<1>7. spent.replays =
        (IF mechanisms THEN Cardinality(ForksOf(Done)) ELSE Cardinality(Done))
          + Cardinality(WorkOf(Done))
  BY <1>1, <1>4
<1>. QED BY <1>4, <1>5, <1>6, <1>7 DEF Billed

LEMMA ProcessBills ==
    ASSUME AcqInv, Billed, NEW c \in Cands, Process(c)
    PROVE  Billed'
<1>1. /\ UNCHANGED <<mechanisms, diverging, firstMiss>>
      /\ c \in pending /\ pending' = pending \ {c}
      /\ cache' = IF mechanisms THEN cache \cup {Fork[c]} ELSE cache
  BY DEF Process, call, world
<1>2. PICK D \in SUBSET Cands : D = Done
  BY DEF Done
<1>3. c \notin D /\ Done' = D \cup {c}
  BY <1>1, <1>2 DEF Done
<1>4. /\ \A d : Flipped(d)' = Flipped(d)
      /\ \A d : Work(d)' = Work(d)
  BY <1>1 DEF Work, Flipped, Reproduced, GateOpen, IntervenedRuns
<1>5. \A S : WorkOf(S)' = WorkOf(S)
  BY <1>4 DEF WorkOf
<1>6. firstMiss \in [Cands -> FirstMisses]
  BY DEF AcqInv, PaidFor
<1>7. PICK w \in Nat : w = Work(c)
  BY <1>6, ReplayRunsType
<1>8. PICK paid \in {0, 1} :
        paid = IF mechanisms /\ Fork[c] \in ForksOf(D) THEN 0 ELSE 1
  OBVIOUS
<1>9. spent'.replays = spent.replays + (paid + w)
  <2>1. ReplayRuns(c) = paid + w
    BY <1>2, <1>7, <1>8 DEF Billed, ReplayRuns, ControlRuns
  <2>. QED BY <2>1 DEF Process
<1>10. /\ IsFiniteSet(WorkOf(D \cup {c}))
       /\ Cardinality(WorkOf(D \cup {c})) = Cardinality(WorkOf(D)) + w
       /\ ForksOf(D \cup {c}) = ForksOf(D) \cup {Fork[c]}
       /\ IsFiniteSet(ForksOf(D \cup {c}))
       /\ Cardinality(ForksOf(D \cup {c})) =
             Cardinality(ForksOf(D)) + IF Fork[c] \in ForksOf(D) THEN 0 ELSE 1
       /\ Cardinality(D \cup {c}) = Cardinality(D) + 1
       /\ Cardinality(D) \in Nat /\ Cardinality(WorkOf(D)) \in Nat
       /\ Cardinality(ForksOf(D)) \in Nat
  BY <1>2, <1>3, <1>6, <1>7, OneMoreDone DEF Billed
<1>11. spent'.replays =
          (IF mechanisms THEN Cardinality(ForksOf(D \cup {c})) ELSE Cardinality(D \cup {c}))
            + Cardinality(WorkOf(D \cup {c}))
  <2>1. spent.replays =
          (IF mechanisms THEN Cardinality(ForksOf(D)) ELSE Cardinality(D))
            + Cardinality(WorkOf(D))
    BY <1>2 DEF Billed
  <2>2. CASE mechanisms
    BY <1>7, <1>8, <1>9, <1>10, <2>1, <2>2
  <2>3. CASE ~mechanisms
    BY <1>7, <1>8, <1>9, <1>10, <2>1, <2>3
  <2>. QED BY <2>2, <2>3
<1>12. cache' = IF mechanisms THEN ForksOf(D \cup {c}) ELSE {}
  BY <1>1, <1>2, <1>10 DEF Billed
<1>13. {units'[k].cand : k \in Validated(units')} = {d \in D \cup {c} : Flipped(d)}
  <2>1. PICK n1 : n1 = Len(units) + 1
    OBVIOUS
  <2>2. /\ n1 \notin DOMAIN units /\ DOMAIN units' = DOMAIN units \cup {n1}
        /\ units'[n1].cand = c
        /\ \A k \in DOMAIN units : units'[k] = units[k]
    BY <2>1, ProcessPays
  <2>3. units'[n1].tier \in Tiers(c)
    BY <2>1, ProcessPays
  <2>4. units'[n1].tier >= COUNTERFACTUAL_VALIDATED <=> Flipped(c)
    BY <2>3 DEF Tiers, SUGGESTED, COUNTERFACTUAL_VALIDATED, REPRODUCIBLE, MINIMAL
  <2>5. Validated(units') = Validated(units) \cup {k \in {n1} : Flipped(c)}
    BY <2>2, <2>4 DEF Validated
  <2>6. {units'[k].cand : k \in Validated(units)} = {units[k].cand : k \in Validated(units)}
    BY <2>2 DEF Validated
  <2>7. {units[k].cand : k \in Validated(units)} = {d \in D : Flipped(d)}
    BY <1>2 DEF Billed
  <2>. QED BY <2>2, <2>5, <2>6, <2>7
<1>14. {d \in Done : Flipped(d)}' = {d \in D \cup {c} : Flipped(d)}
  BY <1>3, <1>4
<1>15. ForksOf(Done)' = ForksOf(D \cup {c}) /\ WorkOf(Done)' = WorkOf(D \cup {c})
  BY <1>3, <1>5 DEF ForksOf, WorkOf
<1>16. Validated(units)' = Validated(units')
  BY DEF Validated
<1>. QED BY <1>1, <1>3, <1>10, <1>11, <1>12, <1>13, <1>14, <1>15, <1>16 DEF Billed

LEMMA BilledNext == AcqInv /\ Billed /\ [AcqNext]_acqVars => Billed'
<1> SUFFICES ASSUME AcqInv, Billed, [AcqNext]_acqVars PROVE Billed'
  OBVIOUS
<1>1. ASSUME UNCHANGED <<mechanisms, diverging, firstMiss, pending, cache, units, spent>>
      PROVE  Billed'
  BY <1>1 DEF Billed, Done, ForksOf, WorkOf, Work, Validated, Flipped, Reproduced,
              GateOpen, IntervenedRuns
<1>2. CASE Return
  BY <1>1, <1>2 DEF Return, call, world
<1>3. CASE ReplayRaises
  BY <1>1, <1>3 DEF ReplayRaises, call, world
<1>4. CASE UNCHANGED acqVars
  BY <1>1, <1>4 DEF acqVars
<1>. QED BY <1>2, <1>3, <1>4, ProcessBills DEF AcqNext

(***************************************************************************)
(* Once every candidate has been run, the replays spent and the candidates *)
(* validated are those of any other policy and order, for any candidates   *)
(* and any world.                                                          *)
(***************************************************************************)
THEOREM BillsAgree == AcqSpec => []BillIsOrderFree
<1>1. Billed => BillIsOrderFree
  <2> SUFFICES ASSUME Billed, pending = {}
               PROVE  /\ spent.replays = FullBill
                      /\ {units[k].cand : k \in Validated(units)} =
                            {c \in Cands : Flipped(c)}
    BY DEF BillIsOrderFree
  <2>1. Done = Cands /\ ForksOf(Cands) = Forks
    BY DEF Done, ForksOf, Forks
  <2>. QED BY <2>1 DEF Billed, FullBill
<1>2. AcqSpec => []AcqInv
  BY AcquisitionInit, AcquisitionNext, PTL DEF AcqSpec
<1>3. AcqSpec => []Billed
  BY <1>2, BilledInit, BilledNext, PTL DEF AcqSpec
<1>. QED BY <1>1, <1>3, PTL
=============================================================================
