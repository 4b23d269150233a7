------------------------- MODULE PairedReplayProofs --------------------------
(***************************************************************************)
(* Theorems about PairedReplay for every batch, every set of workers,      *)
(* every n_repro and every mode.                                           *)
(***************************************************************************)
EXTENDS PairedReplay, TLAPS

(***************************************************************************)
(* The tiers and the verdicts of a control, as the provers need them:      *)
(* members of sets whose definitions stay folded.                          *)
(***************************************************************************)
LEMMA TierFacts ==
    /\ SUGGESTED \in EvidenceTier
    /\ COUNTERFACTUAL_VALIDATED \in EvidenceTier
    /\ REPRODUCIBLE \in EvidenceTier
    /\ EvidenceTier \subseteq Int
    /\ SUGGESTED < COUNTERFACTUAL_VALIDATED
    /\ COUNTERFACTUAL_VALIDATED < REPRODUCIBLE
BY DEF EvidenceTier, OBSERVED, SUGGESTED, CONSTRAINT_VALIDATED,
       COUNTERFACTUAL_VALIDATED, REPRODUCIBLE, MINIMAL, TRAINING_VALIDATED

LEMMA MemoFacts ==
    /\ "none" \in Memo /\ "match" \in Memo /\ "mismatch" \in Memo
    /\ \A c : ControlResult(c) \in {"match", "mismatch"}
    /\ \A c : ControlResult(c) \in Memo
BY DEF Memo, ControlResult

LEMMA MaxRunsType == MaxRuns \in Nat /\ MaxRuns >= 1 /\ MaxRuns >= NRepro
BY ReproAssumption DEF MaxRuns

(***************************************************************************)
(* Every variable keeps its type.                                          *)
(***************************************************************************)
LEMMA TypeInit == Init => TypeOK
<1> SUFFICES ASSUME Init PROVE TypeOK
  OBVIOUS
<1>1. FreshUnit \in Unit
  BY TierFacts, MemoFacts DEF FreshUnit, Unit
<1>2. /\ unit \in [Cands -> Unit]
      /\ tried \in [Cands -> [runs : Nat, flips : Nat]]
  BY <1>1 DEF Init
<1>. QED
  BY <1>2, MemoFacts DEF Init, TypeOK, Phase, Stage

LEMMA UnitUpdates ==
    ASSUME NEW u \in Unit
    PROVE  /\ \A m \in Memo : Gated(u, m) \in Unit
           /\ Charged(u) \in Unit
           /\ Validated(u) \in Unit
           /\ \A runs, flips \in Nat : Concluded(u, runs, flips) \in Unit
<1>1. \A m \in Memo : Gated(u, m) \in Unit
  BY DEF Unit, Gated
<1>2. Charged(u) \in Unit
  BY DEF Unit, Charged
<1>3. Validated(u) \in Unit
  BY TierFacts DEF Unit, Validated
<1>4. ASSUME NEW runs \in Nat, NEW flips \in Nat
      PROVE  Concluded(u, runs, flips) \in Unit
  <2>1. PICK r \in Nat : r = IF flips = runs THEN NRepro ELSE runs
    BY ReproAssumption
  <2>2. PICK t \in EvidenceTier :
            t = IF flips = NRepro THEN REPRODUCIBLE ELSE COUNTERFACTUAL_VALIDATED
    BY TierFacts
  <2>3. Concluded(u, runs, flips) =
          [u EXCEPT !.flipped = TRUE, !.repro_runs = r,
                    !.repro_flips = flips, !.tier = t]
    BY <2>1, <2>2 DEF Concluded
  <2>. QED BY <2>3 DEF Unit
<1>. QED BY <1>1, <1>2, <1>3, <1>4

LEMMA TypeNext == TypeOK /\ [Next]_vars => TypeOK'
<1> SUFFICES ASSUME TypeOK, [Next]_vars PROVE TypeOK'
  OBVIOUS
<1> USE DEF TypeOK, Phase, Stage, world
<1>1. ASSUME NEW w \in Workers, NEW c \in Cands, BeginWithControl(w, c)
      PROVE TypeOK'
  BY <1>1 DEF BeginWithControl, Take
<1>2. ASSUME NEW w \in Workers, NEW c \in Cands, BeginMemoized(w, c)
      PROVE TypeOK'
  <2>1. forkOf[c] \in Forks
    BY ForkAssumption
  <2>2. cache[w][forkOf[c]] \in Memo
    BY <2>1
  <2>3. unit' \in [Cands -> Unit]
    BY <1>2, <2>2, UnitUpdates DEF BeginMemoized
  <2>. QED BY <1>2, <2>2, <2>3 DEF BeginMemoized, Take, PassGate
<1>3. ASSUME NEW w \in Workers, NEW c \in Cands, BeginWithoutSnapshot(w, c)
      PROVE TypeOK'
  BY <1>3 DEF BeginWithoutSnapshot, Take, Raise
<1>4. ASSUME NEW c \in Cands, ForkBranch(c) PROVE TypeOK'
  BY <1>4 DEF ForkBranch
<1>5. ASSUME NEW c \in Cands, BranchRaises(c) PROVE TypeOK'
  BY <1>5 DEF BranchRaises, Raise
<1>6. ASSUME NEW c \in Cands, FinishControl(c) PROVE TypeOK'
  <2>1. forkOf[c] \in Forks
    BY ForkAssumption
  <2>2. ControlResult(c) \in Memo
    BY MemoFacts
  <2>3. unit' \in [Cands -> Unit]
    BY <1>6, <2>2, UnitUpdates DEF FinishControl
  <2>4. cache' \in [Workers -> [Forks -> Memo]]
    BY <1>6, <2>1, <2>2 DEF FinishControl, Remember
  <2>. QED BY <1>6, <2>2, <2>3, <2>4 DEF FinishControl, PassGate
<1>7. ASSUME NEW c \in Cands, FinishFirst(c) PROVE TypeOK'
  <2>1. /\ Charged(unit[c]) \in Unit
        /\ Validated(Charged(unit[c])) \in Unit
        /\ Concluded(Charged(unit[c]), 1, 1) \in Unit
    BY UnitUpdates
  <2>6. \E u \in Unit : unit' = [unit EXCEPT ![c] = u]
    BY <1>7, <2>1 DEF FinishFirst
  <2>7. \E f \in {0, 1} : tried' = [tried EXCEPT ![c] = [runs |-> 1, flips |-> f]]
    BY <1>7 DEF FinishFirst
  <2>2. unit' \in [Cands -> Unit]
    BY <2>6
  <2>3. tried' \in [Cands -> [runs : Nat, flips : Nat]]
    BY <2>7
  <2>4. phase' \in [Cands -> Phase] /\ stage' \in [Cands -> Stage]
    BY <1>7 DEF FinishFirst
  <2>5. UNCHANGED <<world, owner, cache, paid, aborted>>
    BY <1>7 DEF FinishFirst
  <2>. QED BY <2>2, <2>3, <2>4, <2>5
<1>8. ASSUME NEW c \in Cands, FinishRepro(c) PROVE TypeOK'
  <2> DEFINE runs == tried[c].runs + 1
             flips == tried[c].flips + IF Flips(c, runs) THEN 1 ELSE 0
  <2>1. runs \in Nat /\ flips \in Nat
    OBVIOUS
  <2>3. Charged(unit[c]) \in Unit
    BY UnitUpdates
  <2>2. Concluded(Charged(unit[c]), runs, flips) \in Unit
    BY <2>1, <2>3, UnitUpdates
  <2>4. \/ unit' = [unit EXCEPT ![c] = Concluded(Charged(unit[c]), runs, flips)]
        \/ unit' = [unit EXCEPT ![c] = Charged(unit[c])]
    BY <1>8 DEF FinishRepro
  <2>5. unit' \in [Cands -> Unit]
    BY <2>2, <2>3, <2>4
  <2>6. tried' = [tried EXCEPT ![c] = [runs |-> runs, flips |-> flips]]
    BY <1>8 DEF FinishRepro
  <2>7. tried' \in [Cands -> [runs : Nat, flips : Nat]]
    BY <2>1, <2>6
  <2>. QED BY <1>8, <2>5, <2>7 DEF FinishRepro
<1>9. CASE MainRaises
  BY <1>9 DEF MainRaises
<1>10. CASE UNCHANGED vars
  BY <1>10 DEF vars
<1>. QED
  BY <1>1, <1>2, <1>3, <1>4, <1>5, <1>6, <1>7, <1>8, <1>9, <1>10
     DEF Next, Begin, Advance

(***************************************************************************)
(* Every variable of a validation batch keeps its type: units are units,   *)
(* and counters count.                                                     *)
(***************************************************************************)
THEOREM TypeCorrect == Spec => []TypeOK
BY TypeInit, TypeNext, PTL DEF Spec

-----------------------------------------------------------------------------
(***************************************************************************)
(* The inductive invariant.  A worker runs one candidate at a time; what a *)
(* control_cache holds was measured by a candidate of that worker on that  *)
(* fork point, and conversely; the gate a candidate met is the one its     *)
(* worker's cache holds; the locals of the reproduction loop count the     *)
(* flips of the runs made so far, and the tier is what they have earned.   *)
(***************************************************************************)
OneAtATime ==
    \A c, d \in Cands :
        phase[c] \in Running /\ phase[d] \in Running /\ owner[c] = owner[d] => c = d

CacheInv ==
    /\ \A w \in Workers, f \in Forks : cache[w][f] # "none" =>
           /\ mode.memoize
           /\ \E d \in Cands : /\ paid[d] /\ owner[d] = w /\ forkOf[d] = f
                             /\ ControlResult(d) = cache[w][f]
    /\ \A c \in Cands : paid[c] /\ mode.memoize =>
           cache[owner[c]][forkOf[c]] = ControlResult(c)

PhaseInv(c) ==
    /\ phase[c] = "pending" <=> owner[c] = NoWorker
    /\ phase[c] \in {"pending", "control"} =>
           /\ unit[c].original_replay_match = "none" /\ ~paid[c]
           /\ tried[c].runs = 0
    /\ phase[c] = "control" /\ mode.memoize => cache[owner[c]][forkOf[c]] = "none"
    /\ phase[c] = "first" =>
           unit[c].original_replay_match = "match" /\ tried[c].runs = 0
    /\ phase[c] = "repro" =>
           /\ unit[c].original_replay_match = "match"
           /\ tried[c].runs > 0 /\ tried[c].runs < NRepro /\ Flips(c, 1)
    /\ phase[c] = "done" => unit[c].original_replay_match # "none"

GateInv(c) ==
    /\ paid[c] => unit[c].original_replay_match = ControlResult(c)
    /\ unit[c].original_replay_match # "none" =>
           IF mode.memoize
           THEN cache[owner[c]][forkOf[c]] = unit[c].original_replay_match
           ELSE paid[c]

AllFlip(c, n) == \A k \in 1..n : Flips(c, k)

TrialInv(c) ==
    /\ tried[c].flips <= tried[c].runs /\ tried[c].runs <= MaxRuns
    /\ tried[c].flips = tried[c].runs <=> AllFlip(c, tried[c].runs)
    /\ tried[c].runs > 0 =>
           /\ unit[c].original_replay_match = "match"
           /\ tried[c].flips > 0 <=> Flips(c, 1)
    /\ unit[c].tier = Cert!Earned(tried[c].flips, tried[c].runs - tried[c].flips)

VerdictInv(c) ==
    phase[c] = "done" /\ unit[c].original_replay_match = "match" =>
        /\ tried[c].runs > 0
        /\ Flips(c, 1) => tried[c].runs = MaxRuns \/ tried[c].flips < tried[c].runs

CandInv(c) == PhaseInv(c) /\ GateInv(c) /\ TrialInv(c) /\ VerdictInv(c)

IInv == TypeOK /\ OneAtATime /\ CacheInv /\ \A c \in Cands : CandInv(c)

LEMMA InvInit == Init => IInv
<1> SUFFICES ASSUME Init PROVE IInv
  OBVIOUS
<1>1. TypeOK
  BY TypeInit
<1>2. OneAtATime
  BY DEF Init, OneAtATime, Running
<1>3. CacheInv
  BY DEF Init, CacheInv
<1>4. ASSUME NEW c \in Cands PROVE CandInv(c)
  <2>1. /\ phase[c] = "pending" /\ owner[c] = NoWorker /\ ~paid[c]
        /\ unit[c].original_replay_match = "none" /\ unit[c].tier = SUGGESTED
        /\ tried[c].runs = 0 /\ tried[c].flips = 0
    BY DEF Init, FreshUnit
  <2>2. PhaseInv(c) /\ GateInv(c) /\ VerdictInv(c)
    BY <2>1 DEF PhaseInv, GateInv, VerdictInv
  <2>3. TrialInv(c)
    BY <2>1, MaxRunsType DEF TrialInv, AllFlip, Cert!Earned, Cert!SUGGESTED, SUGGESTED
  <2>. QED BY <2>2, <2>3 DEF CandInv
<1>. QED
  BY <1>1, <1>2, <1>3, <1>4 DEF IInv

(***************************************************************************)
(* A step that leaves the world, a candidate and its entry of the cache    *)
(* alone leaves what the invariant says of that candidate alone.  Neither  *)
(* does the entry matter while no control has reached the candidate.       *)
(***************************************************************************)
Untouched(d) ==
    /\ phase'[d] = phase[d] /\ owner'[d] = owner[d] /\ unit'[d] = unit[d]
    /\ tried'[d] = tried[d] /\ paid'[d] = paid[d]

LEMMA WorldFrame ==
    ASSUME UNCHANGED world
    PROVE  /\ \A c : ControlResult(c)' = ControlResult(c)
           /\ \A c, k : Flips(c, k)' <=> Flips(c, k)
           /\ \A c, n : AllFlip(c, n)' <=> AllFlip(c, n)
BY DEF world, ControlResult, Flips, Failed, AllFlip

LEMMA CandFrame ==
    ASSUME NEW d \in Cands, UNCHANGED world, Untouched(d), CandInv(d),
           \/ cache'[owner[d]][forkOf[d]] = cache[owner[d]][forkOf[d]]
           \/ phase[d] # "control" /\ unit[d].original_replay_match = "none"
    PROVE  CandInv(d)'
<1> USE WorldFrame DEF CandInv, Untouched, world
<1>1. PhaseInv(d)'
  BY DEF PhaseInv
<1>2. GateInv(d)'
  BY DEF GateInv
<1>3. TrialInv(d)'
  BY DEF TrialInv
<1>4. VerdictInv(d)'
  BY DEF VerdictInv
<1>. QED BY <1>1, <1>2, <1>3, <1>4

LEMMA CacheFrame ==
    ASSUME CacheInv, UNCHANGED <<world, cache, paid>>,
           \A d \in Cands : paid[d] => owner'[d] = owner[d]
    PROVE  CacheInv'
BY WorldFrame DEF CacheInv, world

LEMMA OneFrame ==
    ASSUME OneAtATime,
           \A d \in Cands : phase'[d] \in Running =>
               phase[d] \in Running /\ owner'[d] = owner[d]
    PROVE  OneAtATime'
BY DEF OneAtATime

LEMMA OneTake ==
    ASSUME TypeOK, OneAtATime, NEW w \in Workers, NEW c \in Cands, Take(w, c),
           \A d \in Cands \ {c} : phase'[d] = phase[d]
    PROVE  OneAtATime'
<1>1. \A d \in Cands \ {c} : owner'[d] = owner[d]
  BY DEF Take, TypeOK
<1>2. owner'[c] = w
  BY DEF Take, TypeOK
<1>3. \A d \in Cands \ {c} : owner'[d] = w => phase'[d] \notin Running
  BY <1>1 DEF Take, Idle, Finished, Running
<1>. QED BY <1>1, <1>2, <1>3 DEF OneAtATime

(***************************************************************************)
(* The beginning of a candidate.                                           *)
(***************************************************************************)
LEMMA BeginInv ==
    ASSUME IInv, TypeOK', NEW w \in Workers, NEW c \in Cands, Begin(w, c)
    PROVE  IInv'
<1> USE DEF IInv
<1>1. /\ UNCHANGED <<world, cache, paid, tried>> /\ Take(w, c)
      /\ owner'[c] = w /\ owner[c] = NoWorker
      /\ phase[c] = "pending" /\ ~paid[c]
      /\ unit[c].original_replay_match = "none" /\ tried[c].runs = 0
  BY DEF Begin, BeginWithControl, BeginMemoized, BeginWithoutSnapshot, Take,
         TypeOK, CandInv, PhaseInv
<1>2. \A d \in Cands \ {c} : Untouched(d)
  BY <1>1 DEF Begin, BeginWithControl, BeginMemoized, BeginWithoutSnapshot, Take,
         PassGate, Raise, TypeOK, Untouched
<1>3. OneAtATime'
  BY <1>1, <1>2, OneTake DEF Untouched
<1>4. CacheInv'
  BY <1>1, <1>2, CacheFrame DEF Untouched
<1>5. ASSUME NEW d \in Cands \ {c} PROVE CandInv(d)'
  BY <1>1, <1>2, CandFrame
<1>6. CandInv(c)'
  <2> USE <1>1, WorldFrame DEF CandInv
  <2>1. CASE BeginWithControl(w, c)
    <3>1. /\ phase'[c] = "control" /\ unit' = unit
          /\ mode.memoize => cache[w][forkOf[c]] = "none"
      BY <2>1 DEF BeginWithControl, TypeOK
    <3>. QED
      BY <3>1, WorkerAssumption
         DEF PhaseInv, GateInv, TrialInv, VerdictInv, world
  <2>2. CASE BeginMemoized(w, c)
    <3> DEFINE memo == cache[w][forkOf[c]]
    <3>1. /\ phase'[c] = IF memo = "match" THEN "first" ELSE "done"
          /\ unit'[c] = Gated(unit[c], memo)
          /\ mode.memoize /\ memo # "none"
      BY <2>2 DEF BeginMemoized, PassGate, TypeOK
    <3>2. /\ unit'[c].original_replay_match = memo
          /\ unit'[c].tier = unit[c].tier
      BY <3>1 DEF Gated, TypeOK, Unit
    <3>. QED
      BY <3>1, <3>2, WorkerAssumption
         DEF PhaseInv, GateInv, TrialInv, VerdictInv, world
  <2>3. CASE BeginWithoutSnapshot(w, c)
    <3>1. phase'[c] = "raised" /\ unit' = unit
      BY <2>3 DEF BeginWithoutSnapshot, Raise, TypeOK
    <3>. QED
      BY <3>1, WorkerAssumption
         DEF PhaseInv, GateInv, TrialInv, VerdictInv, world
  <2>. QED BY <2>1, <2>2, <2>3 DEF Begin
<1>. QED BY <1>3, <1>4, <1>5, <1>6

(***************************************************************************)
(* Materializing, an exception, and the end of a batch.                    *)
(***************************************************************************)
LEMMA QuietInv ==
    ASSUME IInv, TypeOK',
           UNCHANGED <<world, owner, cache, unit, tried, paid>>,
           \/ UNCHANGED phase
           \/ \E c \in Cands : /\ phase[c] \in Running
                                /\ phase' = [phase EXCEPT ![c] = "raised"]
    PROVE  IInv'
<1> USE DEF IInv
<1>1. \A d \in Cands : phase'[d] = phase[d] \/ (phase[d] \in Running /\ phase'[d] = "raised")
  BY DEF TypeOK
<1>2. OneAtATime'
  BY <1>1, OneFrame DEF Running
<1>3. CacheInv'
  BY CacheFrame
<1>4. ASSUME NEW d \in Cands PROVE CandInv(d)'
  <2>1. CASE phase'[d] = phase[d]
    BY <2>1, CandFrame DEF Untouched
  <2>2. CASE phase[d] \in Running /\ phase'[d] = "raised"
    BY <2>2, WorldFrame
       DEF CandInv, PhaseInv, GateInv, TrialInv, VerdictInv, world, Running
  <2>. QED BY <1>1, <2>1, <2>2
<1>. QED BY <1>2, <1>3, <1>4

LEMMA ControlStep ==
    ASSUME IInv, TypeOK', NEW c \in Cands, FinishControl(c)
    PROVE  IInv'
<1> USE DEF IInv
<1> DEFINE memo == ControlResult(c)
<1>1. /\ phase[c] = "control" /\ c \in DOMAIN phase
      /\ phase'[c] = IF memo = "match" THEN "first" ELSE "done"
      /\ unit'[c] = Charged(Gated(unit[c], memo))
      /\ paid'[c] = TRUE /\ tried' = tried /\ owner' = owner
      /\ UNCHANGED world
  BY DEF FinishControl, PassGate, TypeOK
<1>2. /\ unit'[c].original_replay_match = memo
      /\ unit'[c].tier = unit[c].tier
  BY <1>1 DEF Gated, Charged, TypeOK, Unit
<1>3. /\ unit[c].original_replay_match = "none" /\ tried[c].runs = 0
      /\ ~paid[c] /\ owner[c] # NoWorker
      /\ mode.memoize => cache[owner[c]][forkOf[c]] = "none"
  BY <1>1 DEF CandInv, PhaseInv
<1>4. owner[c] \in Workers /\ forkOf[c] \in Forks
  BY <1>3, ForkAssumption DEF TypeOK
<1>5. /\ mode.memoize => cache'[owner[c]][forkOf[c]] = memo
      /\ ~mode.memoize => cache' = cache
      /\ \A w \in Workers, f \in Forks :
            w # owner[c] \/ f # forkOf[c] => cache'[w][f] = cache[w][f]
  BY <1>4 DEF FinishControl, Remember, TypeOK
<1>6. \A d \in Cands \ {c} : Untouched(d)
  BY <1>1 DEF FinishControl, PassGate, TypeOK, Untouched
<1>7. OneAtATime'
  BY <1>1, <1>6, OneFrame DEF Untouched, Running
<1>8. ASSUME NEW d \in Cands \ {c}, mode.memoize,
             owner[d] = owner[c], forkOf[d] = forkOf[c]
      PROVE  phase[d] # "control" /\ unit[d].original_replay_match = "none" /\ ~paid[d]
  <2>1. phase[d] # "control"
    BY <1>1, <1>8 DEF OneAtATime, Running
  <2>2. cache[owner[d]][forkOf[d]] = "none"
    BY <1>3, <1>8
  <2>3. unit[d].original_replay_match = "none" /\ ~paid[d]
    BY <1>8, <2>2, MemoFacts DEF CandInv, GateInv, CacheInv
  <2>. QED BY <2>1, <2>3
<1>9. ASSUME NEW d \in Cands \ {c} PROVE CandInv(d)'
  <2>0. forkOf[d] \in Forks /\ owner[d] \in Workers \cup {NoWorker}
    BY ForkAssumption DEF TypeOK
  <2>1. CASE mode.memoize /\ owner[d] = owner[c] /\ forkOf[d] = forkOf[c]
    BY <1>1, <1>6, <1>8, <2>1, CandFrame
  <2>2. CASE owner[d] = NoWorker
    <3>1. phase[d] # "control" /\ unit[d].original_replay_match = "none"
      BY <2>2 DEF CandInv, PhaseInv
    <3>. QED BY <3>1, <1>1, <1>6, CandFrame
  <2>3. CASE owner[d] \in Workers /\ ~(mode.memoize /\ owner[d] = owner[c] /\ forkOf[d] = forkOf[c])
    <3>1. cache'[owner[d]][forkOf[d]] = cache[owner[d]][forkOf[d]]
      BY <1>5, <2>0, <2>3
    <3>. QED BY <3>1, <1>1, <1>6, CandFrame
  <2>. QED BY <2>0, <2>1, <2>2, <2>3
<1>10. CandInv(c)'
  <2> USE <1>1, <1>2, <1>3, <1>5, WorldFrame DEF world
  <2>1. PhaseInv(c)'
    BY MemoFacts DEF PhaseInv
  <2>2. GateInv(c)'
    BY DEF GateInv
  <2>3. TrialInv(c)'
    BY DEF TrialInv, CandInv
  <2>4. VerdictInv(c)'
    BY DEF VerdictInv
  <2>. QED BY <2>1, <2>2, <2>3, <2>4 DEF CandInv
<1>11. CacheInv'
  <2> USE WorldFrame, <1>1 DEF world
  <2>1. ASSUME NEW w \in Workers, NEW f \in Forks, cache'[w][f] # "none"
        PROVE  /\ mode.memoize
               /\ \E d \in Cands : /\ paid'[d] /\ owner'[d] = w /\ forkOf[d] = f
                                 /\ ControlResult(d) = cache'[w][f]
    <3>1. CASE w = owner[c] /\ f = forkOf[c] /\ mode.memoize
      BY <3>1, <1>5
    <3>2. CASE ~(w = owner[c] /\ f = forkOf[c] /\ mode.memoize)
      <4>1. cache'[w][f] = cache[w][f]
        BY <3>2, <1>5
      <4>2. PICK d \in Cands : paid[d] /\ owner[d] = w /\ forkOf[d] = f
                               /\ ControlResult(d) = cache[w][f]
        BY <4>1, <2>1 DEF CacheInv
      <4>3. d # c
        BY <4>2, <1>3
      <4>. QED BY <4>1, <4>2, <4>3, <1>6, <2>1 DEF CacheInv, Untouched
    <3>. QED BY <3>1, <3>2
  <2>2. ASSUME NEW d \in Cands, paid'[d], mode.memoize
        PROVE  cache'[owner[d]][forkOf[d]] = ControlResult(d)
    <3>1. CASE d = c
      BY <3>1, <2>2, <1>5
    <3>2. CASE d # c
      <4>1. paid[d]
        BY <3>2, <2>2, <1>6 DEF Untouched
      <4>2. ~(owner[d] = owner[c] /\ forkOf[d] = forkOf[c])
        BY <3>2, <2>2, <4>1, <1>8
      <4>3. owner[d] \in Workers /\ forkOf[d] \in Forks
        BY <4>1, ForkAssumption DEF TypeOK, CandInv, PhaseInv
      <4>. QED BY <4>1, <4>2, <4>3, <2>2, <1>5 DEF CacheInv
    <3>. QED BY <3>1, <3>2
  <2>. QED BY <2>1, <2>2 DEF CacheInv
<1>. QED BY <1>7, <1>9, <1>10, <1>11

(***************************************************************************)
(* Both kinds of intervened run: they touch the unit, the loop's counters  *)
(* and the phase of one running candidate, and nothing else.               *)
(***************************************************************************)
LEMMA TrialFrame ==
    ASSUME IInv, NEW c \in Cands, phase[c] \in Running,
           UNCHANGED <<world, owner, cache, paid>>,
           \A d \in Cands \ {c} : Untouched(d),
           TypeOK', CandInv(c)'
    PROVE  IInv'
<1> USE DEF IInv
<1>1. OneAtATime'
  BY OneFrame DEF Untouched
<1>2. CacheInv'
  BY CacheFrame
<1>3. ASSUME NEW d \in Cands \ {c} PROVE CandInv(d)'
  BY <1>3, CandFrame
<1>. QED BY <1>1, <1>2, <1>3

LEMMA UnitFields ==
    ASSUME NEW u \in Unit
    PROVE  /\ Charged(u).original_replay_match = u.original_replay_match
           /\ Charged(u).tier = u.tier
           /\ Charged(u) \in Unit
           /\ Validated(u).original_replay_match = u.original_replay_match
           /\ Validated(u).tier = COUNTERFACTUAL_VALIDATED
           /\ \A runs, flips \in Nat :
                /\ Concluded(u, runs, flips).original_replay_match
                     = u.original_replay_match
                /\ Concluded(u, runs, flips).tier =
                     IF flips = NRepro THEN REPRODUCIBLE
                     ELSE COUNTERFACTUAL_VALIDATED
BY UnitUpdates DEF Charged, Validated, Concluded, Unit

LEMMA FirstStep ==
    ASSUME IInv, TypeOK', NEW c \in Cands, FinishFirst(c)
    PROVE  IInv'
<1> USE DEF IInv
<1>1. /\ phase[c] = "first" /\ phase[c] \in Running
      /\ UNCHANGED <<world, owner, cache, paid>>
      /\ owner[c] # NoWorker
      /\ unit[c].original_replay_match = "match" /\ tried[c].runs = 0
      /\ unit[c] \in Unit
  BY DEF FinishFirst, Running, CandInv, PhaseInv, TypeOK
<1>2. \A d \in Cands \ {c} : Untouched(d)
  BY DEF FinishFirst, TypeOK, Untouched
<1>3. /\ tried'[c].runs = 1
      /\ tried'[c].flips = IF Flips(c, 1) THEN 1 ELSE 0
  BY DEF FinishFirst, TypeOK
<1>4. /\ unit'[c].original_replay_match = "match"
      /\ unit'[c].tier = IF ~Flips(c, 1) THEN SUGGESTED
                         ELSE IF NRepro = 1 THEN REPRODUCIBLE
                         ELSE COUNTERFACTUAL_VALIDATED
  <2>0. unit[c].tier = SUGGESTED
    <3>1. tried[c].flips = 0
      BY <1>1 DEF CandInv, TrialInv, TypeOK
    <3>. QED BY <1>1, <3>1 DEF CandInv, TrialInv, Cert!Earned, Cert!SUGGESTED, SUGGESTED
  <2>1. CASE ~Flips(c, 1)
    <3>1. unit'[c] = Charged(unit[c])
      BY <2>1 DEF FinishFirst, TypeOK
    <3>. QED BY <2>0, <2>1, <3>1, <1>1, UnitFields
  <2>2. CASE Flips(c, 1) /\ NRepro > 1
    <3>1. unit'[c] = Validated(Charged(unit[c]))
      BY <2>2, ReproAssumption DEF FinishFirst, TypeOK
    <3>. QED BY <2>2, <3>1, <1>1, UnitFields, ReproAssumption
  <2>3. CASE Flips(c, 1) /\ NRepro <= 1
    <3>1. unit'[c] = Concluded(Charged(unit[c]), 1, 1)
      BY <2>3, ReproAssumption DEF FinishFirst, TypeOK
    <3>. QED BY <2>3, <3>1, <1>1, UnitFields, ReproAssumption
  <2>. QED BY <2>1, <2>2, <2>3, ReproAssumption
<1>5. phase'[c] = IF Flips(c, 1) /\ NRepro > 1 THEN "repro" ELSE "done"
  BY ReproAssumption DEF FinishFirst, TypeOK
<1>6. CandInv(c)'
  <2> USE <1>1, <1>3, <1>4, <1>5, WorldFrame, ReproAssumption DEF world
  <2>1. PhaseInv(c)'
    BY DEF PhaseInv
  <2>2. GateInv(c)'
    BY DEF GateInv, CandInv
  <2>3. TrialInv(c)'
    <3>1. AllFlip(c, 1) <=> Flips(c, 1)
      BY DEF AllFlip
    <3>. QED
      BY <3>1, MaxRunsType
         DEF TrialInv, Cert!Earned, Cert!SUGGESTED, Cert!REPRODUCIBLE,
             Cert!COUNTERFACTUAL_VALIDATED, SUGGESTED, REPRODUCIBLE,
             COUNTERFACTUAL_VALIDATED
  <2>4. VerdictInv(c)'
    BY DEF VerdictInv, MaxRuns
  <2>. QED BY <2>1, <2>2, <2>3, <2>4 DEF CandInv
<1>. QED BY <1>1, <1>2, <1>6, TrialFrame

LEMMA ReproStep ==
    ASSUME IInv, TypeOK', NEW c \in Cands, FinishRepro(c)
    PROVE  IInv'
<1> USE DEF IInv
<1> DEFINE runs  == tried[c].runs + 1
           flips == tried[c].flips + IF Flips(c, runs) THEN 1 ELSE 0
           last  == Settled(c, runs)
<1>1. /\ phase[c] = "repro" /\ phase[c] \in Running
      /\ UNCHANGED <<world, owner, cache, paid>>
      /\ owner[c] # NoWorker
      /\ unit[c].original_replay_match = "match"
      /\ tried[c].runs > 0 /\ tried[c].runs < NRepro /\ Flips(c, 1)
      /\ unit[c] \in Unit /\ runs \in Nat /\ flips \in Nat
  BY DEF FinishRepro, Running, CandInv, PhaseInv, TypeOK
<1>2. \A d \in Cands \ {c} : Untouched(d)
  BY DEF FinishRepro, TypeOK, Untouched
<1>3. tried'[c].runs = runs /\ tried'[c].flips = flips
  BY DEF FinishRepro, TypeOK
<1>4. /\ tried[c].flips > 0 /\ tried[c].flips <= tried[c].runs
      /\ unit[c].tier = COUNTERFACTUAL_VALIDATED
  <2>1. /\ tried[c].flips > 0 /\ tried[c].flips <= tried[c].runs
        /\ unit[c].tier = Cert!Earned(tried[c].flips, tried[c].runs - tried[c].flips)
    BY <1>1 DEF CandInv, TrialInv, TypeOK
  <2>2. tried[c].flips \in Nat /\ tried[c].runs \in Nat /\ tried[c].flips # NRepro
    BY <2>1, <1>1, ReproAssumption DEF TypeOK
  <2>. QED
    BY <2>1, <2>2 DEF Cert!Earned, Cert!COUNTERFACTUAL_VALIDATED,
                      COUNTERFACTUAL_VALIDATED
<1>5. /\ unit'[c].original_replay_match = "match"
      /\ unit'[c].tier = IF flips = NRepro THEN REPRODUCIBLE
                         ELSE COUNTERFACTUAL_VALIDATED
  <2>1. CASE last
    <3>1. unit'[c] = Concluded(Charged(unit[c]), runs, flips)
      BY <2>1 DEF FinishRepro, TypeOK
    <3>2. Charged(unit[c]) \in Unit
      BY <1>1, UnitFields
    <3> HIDE DEF runs, flips
    <3>. QED BY <3>1, <3>2, <1>1, UnitFields
  <2>2. CASE ~last
    <3>1. unit'[c] = Charged(unit[c])
      BY <2>2 DEF FinishRepro, TypeOK
    <3>2. flips # NRepro
      BY <2>2, <1>1, <1>4, ReproAssumption DEF TypeOK, Settled
    <3>. QED BY <3>1, <3>2, <1>1, <1>4, UnitFields
  <2>. QED BY <2>1, <2>2
<1>6. phase'[c] = IF last THEN "done" ELSE "repro"
  BY DEF FinishRepro, TypeOK
<1>7. AllFlip(c, runs) <=> AllFlip(c, tried[c].runs) /\ Flips(c, runs)
  BY <1>1 DEF AllFlip, TypeOK
<1>8. CandInv(c)'
  <2> USE <1>1, <1>3, <1>4, <1>5, <1>6, WorldFrame, ReproAssumption DEF world
  <2>1. PhaseInv(c)'
    <3>1. ~last => runs < NRepro
      BY DEF Settled, TypeOK
    <3>. QED BY <3>1 DEF PhaseInv, TypeOK
  <2>2. GateInv(c)'
    BY DEF GateInv, CandInv
  <2>3. TrialInv(c)'
    <3>1. /\ flips <= runs /\ runs <= MaxRuns /\ flips > 0
          /\ flips = runs <=> AllFlip(c, runs)
      BY <1>7, MaxRunsType DEF TrialInv, CandInv, TypeOK
    <3>2. unit'[c].tier = Cert!Earned(flips, runs - flips)
      <4>1. runs <= NRepro
        BY <1>1, ReproAssumption DEF TypeOK
      <4>2. flips = NRepro => runs - flips = 0
        BY <4>1, <3>1, <1>1, ReproAssumption
      <4> HIDE DEF runs, flips
      <4>. QED
        BY <4>2, <3>1 DEF Cert!Earned, Cert!REPRODUCIBLE,
             Cert!COUNTERFACTUAL_VALIDATED, REPRODUCIBLE, COUNTERFACTUAL_VALIDATED
    <3>. QED BY <3>1, <3>2 DEF TrialInv
  <2>4. VerdictInv(c)'
    <3>1. tried[c].flips \in Nat /\ tried[c].runs \in Nat
      BY DEF TypeOK
    <3>2. ~Flips(c, runs) => flips < runs
      BY <3>1, <1>4
    <3>3. runs = NRepro => runs = MaxRuns
      BY <1>1, <3>1 DEF MaxRuns
    <3>4. last => runs = MaxRuns \/ flips < runs
      BY <3>2, <3>3 DEF Settled
    <3>5. runs > 0
      BY <3>1
    <3> HIDE DEF runs, flips, last
    <3>. QED BY <3>4, <3>5 DEF VerdictInv
  <2>. QED BY <2>1, <2>2, <2>3, <2>4 DEF CandInv
<1>. QED BY <1>1, <1>2, <1>8, TrialFrame

LEMMA InvNext == IInv /\ [Next]_vars => IInv'
<1> SUFFICES ASSUME IInv, [Next]_vars PROVE IInv'
  OBVIOUS
<1>0. TypeOK /\ TypeOK'
  BY TypeNext DEF IInv
<1>1. ASSUME NEW w \in Workers, NEW c \in Cands, Begin(w, c) PROVE IInv'
  BY <1>0, <1>1, BeginInv
<1>2. ASSUME NEW c \in Cands, ForkBranch(c) PROVE IInv'
  BY <1>0, <1>2, QuietInv DEF ForkBranch
<1>3. ASSUME NEW c \in Cands, BranchRaises(c) PROVE IInv'
  BY <1>0, <1>3, QuietInv DEF BranchRaises, Raise
<1>4. ASSUME NEW c \in Cands, FinishControl(c) PROVE IInv'
  BY <1>0, <1>4, ControlStep
<1>5. ASSUME NEW c \in Cands, FinishFirst(c) PROVE IInv'
  BY <1>0, <1>5, FirstStep
<1>6. ASSUME NEW c \in Cands, FinishRepro(c) PROVE IInv'
  BY <1>0, <1>6, ReproStep
<1>7. CASE MainRaises
  BY <1>0, <1>7, QuietInv DEF MainRaises
<1>8. CASE UNCHANGED vars
  BY <1>0, <1>8, QuietInv DEF vars, world
<1>. QED
  BY <1>1, <1>2, <1>3, <1>4, <1>5, <1>6, <1>7, <1>8 DEF Next, Advance

LEMMA Invariance == Spec => []IInv
BY InvInit, InvNext, PTL DEF Spec

-----------------------------------------------------------------------------
(***************************************************************************)
(* What a counted verdict says about the world: a tier above SUGGESTED     *)
(* means that the first run flipped, REPRODUCIBLE that all n did.          *)
(***************************************************************************)
LEMMA TierMeaning ==
    ASSUME IInv, NEW c \in Cands
    PROVE  /\ unit[c].tier >= COUNTERFACTUAL_VALIDATED =>
                /\ Flips(c, 1) /\ unit[c].original_replay_match = "match"
           /\ unit[c].tier >= REPRODUCIBLE => NRepro > 0 /\ AllFlip(c, NRepro)
<1> DEFINE f == tried[c].flips
           r == tried[c].runs
<1>1. /\ f \in Nat /\ r \in Nat /\ f <= r
      /\ f = r <=> AllFlip(c, r)
      /\ r > 0 => /\ unit[c].original_replay_match = "match"
                  /\ f > 0 <=> Flips(c, 1)
      /\ unit[c].tier = Cert!Earned(f, r - f)
  BY DEF IInv, TypeOK, CandInv, TrialInv
<1> HIDE DEF f, r
<1>2. f = 0 => unit[c].tier = SUGGESTED
  BY <1>1 DEF Cert!Earned, Cert!SUGGESTED, SUGGESTED
<1>3. unit[c].tier >= REPRODUCIBLE => f > 0 /\ f = r /\ f = NRepro
  BY <1>1 DEF Cert!Earned, Cert!SUGGESTED, Cert!COUNTERFACTUAL_VALIDATED,
              Cert!REPRODUCIBLE, REPRODUCIBLE
<1>4. unit[c].tier >= COUNTERFACTUAL_VALIDATED => f > 0
  BY <1>1, <1>2, TierFacts
<1>. QED BY <1>1, <1>3, <1>4

LEMMA GateMeaning ==
    ASSUME IInv, NEW c \in Cands, unit[c].original_replay_match = "match"
    PROVE  ControlBacked(c)
<1> USE DEF IInv
<1>1. owner[c] \in Workers /\ forkOf[c] \in Forks
  BY ForkAssumption DEF CandInv, PhaseInv, TypeOK, Phase
<1>2. CASE mode.memoize
  BY <1>1, <1>2 DEF CandInv, GateInv, CacheInv, ControlBacked
<1>3. CASE ~mode.memoize
  BY <1>3 DEF CandInv, GateInv, ControlBacked
<1>. QED BY <1>2, <1>3

(***************************************************************************)
(* No tier without the replays that earn it, in any mode.                  *)
(***************************************************************************)
THEOREM TiersAreEarned == Spec => []TierEarnedByReplay
<1>1. IInv => TierEarnedByReplay
  <2> SUFFICES ASSUME IInv, NEW c \in Cands
               PROVE  /\ unit[c].tier >= COUNTERFACTUAL_VALIDATED =>
                             Failed(c) /\ success[c][1] /\ ControlBacked(c)
                      /\ unit[c].tier >= REPRODUCIBLE =>
                             NRepro > 0 /\ \A k \in 1..NRepro : success[c][k]
    BY DEF TierEarnedByReplay
  <2>. QED BY TierMeaning, GateMeaning DEF Flips, AllFlip
<1>. QED BY <1>1, Invariance, PTL

(***************************************************************************)
(* Stopping the reproduction runs early never changes a verdict.           *)
(***************************************************************************)
THEOREM EarlyStopIsSafe == Spec => []EarlyStopKeepsVerdict
<1>1. ASSUME IInv, NEW c \in Cands, phase[c] = "done"
      PROVE  unit[c].tier = FullVerdict(c)
  <2> DEFINE f == tried[c].flips
             r == tried[c].runs
  <2>1. /\ f \in Nat /\ r \in Nat /\ f <= r /\ r <= MaxRuns
        /\ f = r <=> AllFlip(c, r)
        /\ r > 0 => /\ unit[c].original_replay_match = "match"
                    /\ f > 0 <=> Flips(c, 1)
        /\ unit[c].tier = Cert!Earned(f, r - f)
    BY <1>1 DEF IInv, TypeOK, CandInv, TrialInv
  <2>2. unit[c].original_replay_match = "match" =>
            r > 0 /\ (Flips(c, 1) => r = MaxRuns \/ f < r)
    BY <1>1 DEF IInv, CandInv, VerdictInv
  <2> HIDE DEF f, r
  <2>3. CASE unit[c].original_replay_match # "match" \/ ~Flips(c, 1)
    <3>1. f = 0
      BY <2>1, <2>3
    <3>. QED BY <3>1, <2>1, <2>3 DEF FullVerdict, Cert!Earned, Cert!SUGGESTED, SUGGESTED
  <2>4. CASE unit[c].original_replay_match = "match" /\ Flips(c, 1)
    <3>1. r > 0 /\ f > 0 /\ (r = MaxRuns \/ f < r)
      BY <2>1, <2>2, <2>4
    <3>2. CASE NRepro > 0 /\ AllFlip(c, NRepro)
      <4>1. MaxRuns = NRepro
        BY <3>2, ReproAssumption DEF MaxRuns
      <4>2. AllFlip(c, r)
        BY <2>1, <3>2, <4>1, ReproAssumption DEF AllFlip
      <4>3. f = NRepro /\ r - f = 0
        BY <2>1, <3>1, <4>1, <4>2
      <4>. QED
        BY <2>1, <2>4, <3>1, <3>2, <4>3
           DEF FullVerdict, AllFlip, Cert!Earned, Cert!REPRODUCIBLE, REPRODUCIBLE
    <3>3. CASE ~(NRepro > 0 /\ AllFlip(c, NRepro))
      <4>1. ~(r - f = 0 /\ f = NRepro)
        BY <2>1, <3>1, <3>3, ReproAssumption
      <4>. QED
        BY <2>1, <2>4, <3>1, <3>3, <4>1
           DEF FullVerdict, AllFlip, Cert!Earned, Cert!COUNTERFACTUAL_VALIDATED,
               COUNTERFACTUAL_VALIDATED
    <3>. QED BY <3>2, <3>3
  <2>. QED BY <2>3, <2>4
<1>2. IInv => EarlyStopKeepsVerdict
  BY <1>1 DEF EarlyStopKeepsVerdict
<1>. QED BY <1>2, Invariance, PTL

(***************************************************************************)
(* Candidates that share a process and a fork point pay for one control    *)
(* and meet the same gate, whenever controls are memoized.                 *)
(***************************************************************************)
PaidOnce ==
    mode.memoize =>
        \A c, d \in Cands :
            c # d /\ owner[c] = owner[d] /\ forkOf[c] = forkOf[d] =>
                ~(paid[c] /\ paid[d])

LEMMA PaidOnceNext == IInv /\ PaidOnce /\ [Next]_vars => PaidOnce'
<1> SUFFICES ASSUME IInv, PaidOnce, [Next]_vars PROVE PaidOnce'
  OBVIOUS
<1>0. UNCHANGED world
  BY DEF Next, Begin, Advance, BeginWithControl, BeginMemoized, BeginWithoutSnapshot,
         ForkBranch, BranchRaises, FinishControl, FinishFirst, FinishRepro,
         MainRaises, vars, world
<1>1. ASSUME NEW w \in Workers, NEW c \in Cands, Begin(w, c) PROVE PaidOnce'
  <2>1. ~paid[c] /\ paid' = paid /\ \A d \in Cands \ {c} : owner'[d] = owner[d]
    BY <1>1 DEF Begin, BeginWithControl, BeginMemoized, BeginWithoutSnapshot, Take,
                IInv, TypeOK, CandInv, PhaseInv
  <2>. QED BY <1>0, <2>1 DEF PaidOnce, world
<1>2. ASSUME NEW c \in Cands, FinishControl(c) PROVE PaidOnce'
  <2>1. /\ owner' = owner /\ \A d \in Cands \ {c} : paid'[d] = paid[d]
        /\ phase[c] = "control"
    BY <1>2 DEF FinishControl, IInv, TypeOK
  <2>2. mode.memoize => cache[owner[c]][forkOf[c]] = "none"
    BY <2>1 DEF IInv, CandInv, PhaseInv
  <2>3. ASSUME NEW d \in Cands, mode.memoize,
               owner[d] = owner[c], forkOf[d] = forkOf[c]
        PROVE  ~paid[d]
    BY <2>2, <2>3, MemoFacts DEF IInv, CacheInv
  <2>. QED BY <1>0, <2>1, <2>3 DEF PaidOnce, world
<1>3. CASE UNCHANGED <<owner, paid>>
  BY <1>0, <1>3 DEF PaidOnce, world
<1>. QED
  BY <1>1, <1>2, <1>3
     DEF Next, Advance, ForkBranch, BranchRaises, FinishFirst, FinishRepro,
         MainRaises, vars

(***************************************************************************)
(* With the control memo, the candidates of one process on one fork point  *)
(* pay for its control once at most, and meet the same gate.               *)
(***************************************************************************)
THEOREM ControlIsShared == Spec => []ControlSharedPerFork
<1>1. ASSUME IInv, PaidOnce PROVE ControlSharedPerFork
  <2> SUFFICES ASSUME mode.memoize, NEW c \in Cands, NEW d \in Cands,
                      c # d, owner[c] = owner[d], forkOf[c] = forkOf[d]
               PROVE  /\ ~(paid[c] /\ paid[d])
                      /\ unit[c].original_replay_match # "none"
                         /\ unit[d].original_replay_match # "none" =>
                            unit[c].original_replay_match = unit[d].original_replay_match
    BY DEF ControlSharedPerFork
  <2>1. ~(paid[c] /\ paid[d])
    BY <1>1 DEF PaidOnce
  <2>2. GateInv(c) /\ GateInv(d)
    BY <1>1 DEF IInv, CandInv
  <2>. QED BY <2>1, <2>2 DEF GateInv
<1>2. Init => PaidOnce
  BY DEF Init, PaidOnce
<1>. QED BY <1>1, <1>2, PaidOnceNext, Invariance, PTL DEF Spec

(***************************************************************************)
(* On a deterministic candidate the workers, their caches and the order of *)
(* events leave no trace in the verdict.                                   *)
(***************************************************************************)
THEOREM ParallelIsSerial == Spec => []ParallelAgreesWithSerial
<1>1. ASSUME IInv, EarlyStopKeepsVerdict,
             NEW c \in Cands, phase[c] = "done", Deterministic(c)
      PROVE  unit[c].tier = SerialTier(c)
  <2> USE <1>1 DEF IInv
  <2>1. unit[c].original_replay_match # "none"
    BY DEF CandInv, PhaseInv
  <2>2. unit[c].original_replay_match = "match"
    <3>1. CASE mode.memoize
      <4>1. owner[c] \in Workers /\ forkOf[c] \in Forks
        BY ForkAssumption DEF CandInv, PhaseInv, TypeOK
      <4>2. cache[owner[c]][forkOf[c]] = unit[c].original_replay_match
        BY <2>1, <3>1 DEF CandInv, GateInv
      <4>3. PICK d \in Cands : forkOf[d] = forkOf[c]
                              /\ ControlResult(d) = unit[c].original_replay_match
        BY <2>1, <4>1, <4>2 DEF CacheInv
      <4>. QED BY <4>3 DEF Deterministic
    <3>2. CASE ~mode.memoize
      BY <2>1, <3>2 DEF CandInv, GateInv, Deterministic
    <3>. QED BY <3>1, <3>2
  <2>3. unit[c].tier = FullVerdict(c)
    BY DEF EarlyStopKeepsVerdict
  <2>4. \A k \in 1..NRepro : Flips(c, k) <=> Flips(c, 1)
    BY MaxRunsType, ReproAssumption DEF Deterministic, Flips
  <2>. QED BY <2>2, <2>3, <2>4, ReproAssumption DEF FullVerdict, SerialTier
<1>2. IInv /\ EarlyStopKeepsVerdict => ParallelAgreesWithSerial
  BY <1>1 DEF ParallelAgreesWithSerial
<1>. QED BY <1>2, Invariance, EarlyStopIsSafe, PTL

-----------------------------------------------------------------------------
(***************************************************************************)
(* The price.  A unit's ledger counts its own control and the runs of the  *)
(* loop's counter, at every moment and for a candidate that raised too;    *)
(* and the counter stops where Trials says: with early stopping every run  *)
(* before the last one flipped, and a finished candidate behind an open    *)
(* gate made all its runs, found no first flip, or met a non-flip.         *)
(***************************************************************************)
Control(c) == IF paid[c] THEN 1 ELSE 0

PriceInv(c) == unit[c].replay_runs = tried[c].runs + Control(c)

StopInv(c) ==
    /\ tried[c].runs > 1 => Flips(c, 1)
    /\ mode.early_stop => AllFlip(c, tried[c].runs - 1)
    /\ phase[c] = "repro" /\ mode.early_stop => AllFlip(c, tried[c].runs)
    /\ phase[c] = "done" /\ unit[c].original_replay_match = "match" =>
           \/ tried[c].runs = MaxRuns
           \/ ~Flips(c, 1)
           \/ mode.early_stop /\ ~Flips(c, tried[c].runs)

BillInv == \A c \in Cands : PriceInv(c) /\ StopInv(c)

LEMMA BillInit == Init => BillInv
BY MaxRunsType DEF Init, BillInv, PriceInv, StopInv, Control, FreshUnit, AllFlip

(***************************************************************************)
(* A candidate of which neither the ledger, the counters, the gate nor the *)
(* control changed keeps its bill, unless the step ends or restarts it.    *)
(***************************************************************************)
LEMMA BillFrame ==
    ASSUME NEW d \in Cands, UNCHANGED world, PriceInv(d), StopInv(d),
           tried'[d] = tried[d], paid'[d] = paid[d],
           unit'[d].replay_runs = unit[d].replay_runs,
           \/ /\ phase'[d] = phase[d]
              /\ unit'[d].original_replay_match = unit[d].original_replay_match
           \/ phase'[d] \notin {"repro", "done"}
           \/ phase'[d] = "done" /\ unit'[d].original_replay_match # "match"
    PROVE  PriceInv(d)' /\ StopInv(d)'
BY WorldFrame DEF PriceInv, StopInv, Control, world

LEMMA BillBegin ==
    ASSUME IInv, BillInv, NEW w \in Workers, NEW c \in Cands, Begin(w, c)
    PROVE  BillInv'
<1> USE DEF IInv, BillInv
<1>1. /\ UNCHANGED <<world, paid, tried>> /\ phase[c] = "pending"
      /\ \A d \in Cands \ {c} : phase'[d] = phase[d] /\ unit'[d] = unit[d]
  BY DEF Begin, BeginWithControl, BeginMemoized, BeginWithoutSnapshot, Take,
         PassGate, Raise, TypeOK
<1>2. ASSUME NEW d \in Cands \ {c} PROVE PriceInv(d)' /\ StopInv(d)'
  BY <1>1, BillFrame
<1>3. /\ unit'[c].replay_runs = unit[c].replay_runs
      /\ \/ phase'[c] \notin {"repro", "done"}
         \/ phase'[c] = "done" /\ unit'[c].original_replay_match # "match"
  <2>1. CASE BeginWithControl(w, c)
    BY <2>1 DEF BeginWithControl, TypeOK
  <2>2. CASE BeginWithoutSnapshot(w, c)
    BY <2>2 DEF BeginWithoutSnapshot, Raise, TypeOK
  <2>3. CASE BeginMemoized(w, c)
    <3> DEFINE memo == cache[w][forkOf[c]]
    <3>1. /\ phase'[c] = IF memo = "match" THEN "first" ELSE "done"
          /\ unit'[c] = Gated(unit[c], memo)
      BY <2>3 DEF BeginMemoized, PassGate, TypeOK
    <3> HIDE DEF memo
    <3>2. /\ unit'[c].original_replay_match = memo
          /\ unit'[c].replay_runs = unit[c].replay_runs
      BY <3>1 DEF Gated, TypeOK, Unit
    <3>. QED BY <3>1, <3>2
  <2>. QED BY <2>1, <2>2, <2>3 DEF Begin
<1>. QED BY <1>1, <1>2, <1>3, BillFrame

LEMMA BillQuiet ==
    ASSUME IInv, BillInv,
           UNCHANGED <<world, unit, tried, paid>>,
           \A d \in Cands : phase'[d] = phase[d] \/ phase'[d] = "raised"
    PROVE  BillInv'
BY BillFrame DEF BillInv

LEMMA Ledgers ==
    ASSUME NEW u \in Unit
    PROVE  /\ Charged(u).replay_runs = u.replay_runs + 1
           /\ \A m \in Memo : Charged(Gated(u, m)).replay_runs = u.replay_runs + 1
           /\ Validated(Charged(u)).replay_runs = u.replay_runs + 1
           /\ \A runs, flips \in Nat :
                 Concluded(Charged(u), runs, flips).replay_runs = u.replay_runs + 1
<1>1. /\ Charged(u).replay_runs = u.replay_runs + 1
      /\ Validated(Charged(u)).replay_runs = u.replay_runs + 1
  BY DEF Charged, Validated, Unit
<1>2. ASSUME NEW m \in Memo
      PROVE  Charged(Gated(u, m)).replay_runs = u.replay_runs + 1
  BY DEF Charged, Gated, Unit
<1>3. ASSUME NEW runs \in Nat, NEW flips \in Nat
      PROVE  Concluded(Charged(u), runs, flips).replay_runs = u.replay_runs + 1
  <2>1. PICK v \in Unit : v = Charged(u)
    BY UnitUpdates
  <2>2. Concluded(v, runs, flips).replay_runs = v.replay_runs
    BY DEF Concluded, Unit
  <2>. QED BY <2>1, <2>2, <1>1
<1>. QED BY <1>1, <1>2, <1>3

LEMMA BillControl ==
    ASSUME IInv, BillInv, NEW c \in Cands, FinishControl(c)
    PROVE  BillInv'
<1> USE DEF IInv, BillInv
<1> DEFINE memo == ControlResult(c)
<1>1. /\ UNCHANGED <<world, tried>> /\ phase[c] = "control"
      /\ \A d \in Cands \ {c} : /\ phase'[d] = phase[d] /\ unit'[d] = unit[d]
                                 /\ paid'[d] = paid[d]
      /\ phase'[c] = IF memo = "match" THEN "first" ELSE "done"
      /\ unit'[c] = Charged(Gated(unit[c], memo)) /\ paid'[c]
  BY DEF FinishControl, PassGate, TypeOK
<1>2. ~paid[c] /\ tried[c].runs = 0 /\ unit[c] \in Unit /\ memo \in Memo
  BY <1>1, MemoFacts DEF CandInv, PhaseInv, TypeOK
<1> HIDE DEF memo
<1>3. ASSUME NEW d \in Cands \ {c} PROVE PriceInv(d)' /\ StopInv(d)'
  BY <1>1, BillFrame
<1>4. /\ unit'[c].replay_runs = unit[c].replay_runs + 1
      /\ unit'[c].original_replay_match = memo
  BY <1>1, <1>2, Ledgers DEF Charged, Gated, Unit
<1>5. PriceInv(c)'
  BY <1>1, <1>2, <1>4 DEF PriceInv, Control
<1>6. StopInv(c)'
  BY <1>1, <1>2, <1>4 DEF StopInv, AllFlip
<1>. QED BY <1>3, <1>5, <1>6

LEMMA BillFirst ==
    ASSUME IInv, BillInv, NEW c \in Cands, FinishFirst(c)
    PROVE  BillInv'
<1> USE DEF IInv, BillInv
<1>1. /\ UNCHANGED <<world, paid>> /\ phase[c] = "first"
      /\ \A d \in Cands \ {c} : /\ phase'[d] = phase[d] /\ unit'[d] = unit[d]
                                 /\ tried'[d] = tried[d]
      /\ tried'[c].runs = 1
  BY DEF FinishFirst, TypeOK
<1>2. tried[c].runs = 0 /\ unit[c] \in Unit
  BY <1>1 DEF CandInv, PhaseInv, TypeOK
<1>3. ASSUME NEW d \in Cands \ {c} PROVE PriceInv(d)' /\ StopInv(d)'
  BY <1>1, BillFrame
<1>4. unit'[c].replay_runs = unit[c].replay_runs + 1
  BY <1>2, Ledgers DEF FinishFirst, TypeOK
<1>5. phase'[c] = IF Flips(c, 1) /\ NRepro > 1 THEN "repro" ELSE "done"
  BY ReproAssumption DEF FinishFirst, TypeOK
<1>6. PriceInv(c)'
  BY <1>1, <1>2, <1>4 DEF PriceInv, Control, Unit
<1>7. StopInv(c)'
  BY <1>1, <1>5, WorldFrame, ReproAssumption DEF StopInv, AllFlip, MaxRuns, world
<1>. QED BY <1>3, <1>6, <1>7

LEMMA BillRepro ==
    ASSUME IInv, BillInv, NEW c \in Cands, FinishRepro(c)
    PROVE  BillInv'
<1> USE DEF IInv, BillInv
<1> DEFINE runs  == tried[c].runs + 1
           flips == tried[c].flips + IF Flips(c, runs) THEN 1 ELSE 0
           last  == Settled(c, runs)
<1>1. /\ UNCHANGED <<world, paid>> /\ phase[c] = "repro"
      /\ \A d \in Cands \ {c} : /\ phase'[d] = phase[d] /\ unit'[d] = unit[d]
                                 /\ tried'[d] = tried[d]
      /\ tried'[c].runs = runs
      /\ phase'[c] = IF last THEN "done" ELSE "repro"
  BY DEF FinishRepro, TypeOK
<1>2. /\ tried[c].runs \in Nat /\ tried[c].runs > 0 /\ Flips(c, 1)
      /\ tried[c].runs < NRepro
      /\ unit[c] \in Unit /\ runs \in Nat /\ flips \in Nat
  BY <1>1 DEF CandInv, PhaseInv, TypeOK
<1>3. ASSUME NEW d \in Cands \ {c} PROVE PriceInv(d)' /\ StopInv(d)'
  BY <1>1, BillFrame
<1>4. unit'[c].replay_runs = unit[c].replay_runs + 1
  <2>1. unit'[c] = IF last THEN Concluded(Charged(unit[c]), runs, flips)
                   ELSE Charged(unit[c])
    BY DEF FinishRepro, TypeOK
  <2>2. CASE last
    <3>1. unit'[c] = Concluded(Charged(unit[c]), runs, flips)
      BY <2>1, <2>2
    <3> HIDE DEF runs, flips, last
    <3>. QED BY <1>2, <3>1, Ledgers
  <2>3. CASE ~last
    BY <1>2, <2>1, <2>3, Ledgers
  <2>. QED BY <2>2, <2>3
<1>5. PriceInv(c)'
  BY <1>1, <1>2, <1>4 DEF PriceInv, Control, Unit
<1>6. AllFlip(c, runs) <=> AllFlip(c, tried[c].runs) /\ Flips(c, runs)
  BY <1>2 DEF AllFlip
<1>7. mode.early_stop => AllFlip(c, tried[c].runs)
  BY <1>1 DEF StopInv
<1>8. last => \/ runs = MaxRuns
              \/ mode.early_stop /\ ~Flips(c, runs)
  BY <1>2, ReproAssumption DEF Settled, MaxRuns
<1>9. ~last /\ mode.early_stop => Flips(c, runs)
  BY DEF Settled
<1>10. runs - 1 = tried[c].runs
  BY <1>2
<1>11. StopInv(c)'
  <2> HIDE DEF runs, flips, last
  <2>. QED
    BY <1>1, <1>2, <1>6, <1>7, <1>8, <1>9, <1>10, WorldFrame DEF StopInv, world
<1>. QED BY <1>3, <1>5, <1>11

LEMMA BillNext == IInv /\ BillInv /\ [Next]_vars => BillInv'
<1> SUFFICES ASSUME IInv, BillInv, [Next]_vars PROVE BillInv'
  OBVIOUS
<1>1. ASSUME NEW w \in Workers, NEW c \in Cands, Begin(w, c) PROVE BillInv'
  BY <1>1, BillBegin
<1>2. ASSUME NEW c \in Cands, ForkBranch(c) \/ BranchRaises(c) PROVE BillInv'
  BY <1>2, BillQuiet DEF ForkBranch, BranchRaises, Raise, IInv, TypeOK
<1>3. ASSUME NEW c \in Cands, FinishControl(c) PROVE BillInv'
  BY <1>3, BillControl
<1>4. ASSUME NEW c \in Cands, FinishFirst(c) PROVE BillInv'
  BY <1>4, BillFirst
<1>5. ASSUME NEW c \in Cands, FinishRepro(c) PROVE BillInv'
  BY <1>5, BillRepro
<1>6. CASE MainRaises
  BY <1>6, BillQuiet DEF MainRaises
<1>7. CASE UNCHANGED vars
  BY <1>7, BillQuiet DEF vars, world
<1>. QED
  BY <1>1, <1>2, <1>3, <1>4, <1>5, <1>6, <1>7 DEF Next, Advance

(***************************************************************************)
(* A finished candidate has cost its own control, if it paid for one, and  *)
(* exactly the intervened runs its verdict takes.                          *)
(***************************************************************************)
THEOREM VerdictsHaveTheirPrice == Spec => []PriceOfVerdict
<1>1. ASSUME IInv, BillInv, NEW c \in Cands, phase[c] = "done"
      PROVE  tried[c].runs = Trials(c)
  <2> PICK r : r = tried[c].runs
    OBVIOUS
  <2>1. /\ r \in Nat /\ r <= MaxRuns
        /\ r > 0 => unit[c].original_replay_match = "match"
        /\ unit[c].original_replay_match = "match" => r > 0
    BY <1>1 DEF IInv, TypeOK, CandInv, TrialInv, VerdictInv
  <2>2. /\ r > 1 => Flips(c, 1)
        /\ mode.early_stop => AllFlip(c, r - 1)
        /\ unit[c].original_replay_match = "match" =>
              \/ r = MaxRuns
              \/ ~Flips(c, 1)
              \/ mode.early_stop /\ ~Flips(c, r)
    BY <1>1 DEF BillInv, StopInv
  <2>3. CASE unit[c].original_replay_match # "match"
    BY <2>1, <2>3 DEF Trials
  <2>4. CASE unit[c].original_replay_match = "match" /\ ~Flips(c, 1)
    BY <2>1, <2>2, <2>4 DEF Trials
  <2>5. CASE unit[c].original_replay_match = "match" /\ Flips(c, 1)
    <3>1. r >= 1 /\ (r = MaxRuns \/ (mode.early_stop /\ ~Flips(c, r)))
      BY <2>1, <2>2, <2>5
    <3>2. CASE mode.early_stop /\ \E k \in 1..MaxRuns : ~Flips(c, k)
      <4>1. PICK k \in 1..MaxRuns :
                k = CHOOSE i \in 1..MaxRuns :
                        ~Flips(c, i) /\ \A j \in 1..(i - 1) : Flips(c, j)
        <5>1. ~Flips(c, r)
          <6>1. PICK i \in 1..MaxRuns : ~Flips(c, i)
            BY <3>2
          <6>2. r = MaxRuns => ~(i \in 1..(r - 1))
            BY <2>2, <3>2, <6>1 DEF AllFlip
          <6>. QED BY <2>1, <3>1, <6>1, <6>2, MaxRunsType
        <5>2. r \in 1..MaxRuns /\ \A j \in 1..(r - 1) : Flips(c, j)
          BY <2>1, <2>2, <3>1, <3>2, MaxRunsType DEF AllFlip
        <5>. QED BY <5>1, <5>2
      <4>2. ~Flips(c, k) /\ \A j \in 1..(k - 1) : Flips(c, j)
        <5>1. \E i \in 1..MaxRuns :
                  ~Flips(c, i) /\ \A j \in 1..(i - 1) : Flips(c, j)
          <6>1. PICK i \in 1..MaxRuns : ~Flips(c, i)
            BY <3>2
          <6>2. r = MaxRuns => ~(i \in 1..(r - 1))
            BY <2>2, <3>2, <6>1 DEF AllFlip
          <6>3. ~Flips(c, r)
            BY <2>1, <3>1, <6>1, <6>2, MaxRunsType
          <6>. QED
            BY <2>1, <2>2, <3>1, <3>2, <6>3, MaxRunsType DEF AllFlip
        <5>. QED BY <4>1, <5>1
      <4>3. k >= r
        BY <2>1, <2>2, <3>2, <4>2, MaxRunsType DEF AllFlip
      <4>4. ~(r < k)
        <5>1. r < k => Flips(c, r)
          BY <2>1, <3>1, <4>1, <4>2, MaxRunsType
        <5>. QED BY <2>1, <3>1, <4>1, <5>1, MaxRunsType
      <4>5. k = r
        BY <2>1, <4>1, <4>3, <4>4, MaxRunsType
      <4>. QED BY <2>5, <3>2, <4>1, <4>5 DEF Trials
    <3>3. CASE ~(mode.early_stop /\ \E k \in 1..MaxRuns : ~Flips(c, k))
      <4>1. r = MaxRuns
        BY <2>1, <3>1, <3>3, MaxRunsType
      <4>. QED BY <2>5, <3>3, <4>1 DEF Trials
    <3>. QED BY <3>2, <3>3
  <2>. QED BY <2>3, <2>4, <2>5
<1>2. IInv /\ BillInv => PriceOfVerdict
  BY <1>1 DEF PriceOfVerdict, BillInv, PriceInv, Control
<1>. QED BY <1>2, BillInit, BillNext, Invariance, PTL DEF Spec

-----------------------------------------------------------------------------
(***************************************************************************)
(* PairedReplay implements Certification: every step of the replayer is a  *)
(* step the ladder allows, or none at all.                                 *)
(***************************************************************************)
USE DEF Cert!SUGGESTED, Cert!REPRODUCIBLE, Cert!COUNTERFACTUAL_VALIDATED

tierF   == [c \in Cands |-> unit[c].tier]
gateF   == [c \in Cands |-> GateOf(c)]
flipsF  == [c \in Cands |-> tried[c].flips]
missesF == [c \in Cands |-> tried[c].runs - tried[c].flips]

(***************************************************************************)
(* The initial states map to initial states.                               *)
(***************************************************************************)
LEMMA RefinesInit == Init => Cert!CertInit
<1> SUFFICES ASSUME Init PROVE Cert!CertInit
  OBVIOUS
<1>1. \A c \in Cands : /\ unit[c].tier = SUGGESTED /\ GateOf(c) = "untested"
                       /\ tried[c].flips = 0 /\ tried[c].runs - tried[c].flips = 0
  BY DEF Init, FreshUnit, GateOf
<1>. QED BY <1>1 DEF Cert!CertInit, SUGGESTED

(***************************************************************************)
(* A candidate that keeps its unit's tier and gate and its counters keeps  *)
(* its place on the ladder.                                                *)
(***************************************************************************)
SameRung(d) ==
    /\ unit'[d].tier = unit[d].tier
    /\ unit'[d].original_replay_match = unit[d].original_replay_match
    /\ tried'[d] = tried[d]

LEMMA SameGateOf == \A d : SameRung(d) => GateOf(d)' = GateOf(d)
BY DEF SameRung, GateOf

LEMMA AllSame == ASSUME \A d \in Cands : SameRung(d) PROVE UNCHANGED Cert!certVars
<1>1. tierF' = tierF /\ flipsF' = flipsF /\ missesF' = missesF
  BY DEF SameRung, tierF, flipsF, missesF
<1>2. gateF' = gateF
  BY SameGateOf DEF gateF
<1>. QED BY <1>1, <1>2 DEF Cert!certVars, tierF, gateF, flipsF, missesF

(***************************************************************************)
(* The gate: only the control's verdict on one candidate changes.          *)
(***************************************************************************)
LEMMA GateMaps ==
    ASSUME NEW c \in Cands, NEW memo \in {"match", "mismatch"},
           \A d \in Cands \ {c} : SameRung(d),
           tried' = tried, unit'[c].tier = unit[c].tier,
           unit[c].original_replay_match = "none",
           unit'[c].original_replay_match = memo
    PROVE  Cert!Gate(c)
<1>1. tierF' = tierF /\ flipsF' = flipsF /\ missesF' = missesF
  BY DEF SameRung, tierF, flipsF, missesF
<1>2. GateOf(c)' = IF memo = "match" THEN "reproduced" ELSE "diverged"
  BY DEF GateOf
<1>3. \A d \in Cands \ {c} : GateOf(d)' = GateOf(d)
  BY DEF GateOf, SameRung
<1>4. gateF' = [gateF EXCEPT ![c] = IF memo = "match" THEN "reproduced" ELSE "diverged"]
  BY <1>2, <1>3 DEF gateF
<1>5. gateF[c] = "untested"
  BY DEF gateF, GateOf
<1>. QED
  BY <1>1, <1>4, <1>5 DEF Cert!Gate, tierF, gateF, flipsF, missesF

(***************************************************************************)
(* A trial: one candidate behind an open gate has one more flip or miss.   *)
(***************************************************************************)
LEMMA TrialMaps ==
    ASSUME NEW c \in Cands, TypeOK, TypeOK', NEW flip \in BOOLEAN,
           \A d \in Cands \ {c} : SameRung(d),
           unit[c].original_replay_match = "match",
           unit'[c].original_replay_match = "match",
           \/ tried[c].runs = 0 /\ tried[c].flips = 0
           \/ tried[c].flips > 0 /\ tried[c].runs < NRepro,
           tried'[c].runs = tried[c].runs + 1,
           tried'[c].flips = tried[c].flips + IF flip THEN 1 ELSE 0,
           unit'[c].tier = Cert!Earned(tried'[c].flips, tried'[c].runs - tried'[c].flips)
    PROVE  Cert!Flip(c) \/ Cert!Miss(c)
<1>0. tried[c].runs \in Nat /\ tried[c].flips \in Nat
  BY DEF TypeOK
<1>1. gateF' = gateF /\ gateF[c] = "reproduced"
  <2>1. GateOf(c) = "reproduced" /\ GateOf(c)' = GateOf(c)
    BY DEF GateOf
  <2>. QED BY <2>1, SameGateOf DEF gateF
<1>2. Cert!Triable(c)
  BY <1>0, <1>1, ReproAssumption DEF Cert!Triable, gateF
<1>3. /\ tierF' = [tierF EXCEPT ![c] = unit'[c].tier]
      /\ flipsF' = [flipsF EXCEPT ![c] = tried'[c].flips]
      /\ missesF' = [missesF EXCEPT ![c] = tried'[c].runs - tried'[c].flips]
  BY DEF tierF, flipsF, missesF, SameRung
<1>4. CASE flip
  <2>1. /\ tried'[c].flips = flipsF[c] + 1
        /\ tried'[c].runs - tried'[c].flips = missesF[c]
    BY <1>0, <1>4 DEF flipsF, missesF
  <2>2. missesF' = missesF
    BY <1>3, <2>1 DEF missesF
  <2>. QED
    BY <1>1, <1>2, <1>3, <2>1, <2>2 DEF Cert!Flip, tierF, gateF, flipsF, missesF
<1>5. CASE ~flip
  <2>1. /\ tried'[c].flips = flipsF[c]
        /\ tried'[c].runs - tried'[c].flips = missesF[c] + 1
    BY <1>0, <1>5 DEF flipsF, missesF
  <2>2. flipsF' = flipsF
    BY <1>3, <2>1 DEF flipsF
  <2>. QED
    BY <1>1, <1>2, <1>3, <2>1, <2>2 DEF Cert!Miss, tierF, gateF, flipsF, missesF
<1>. QED BY <1>4, <1>5

(***************************************************************************)
(* Every step maps to a step of the ladder or to a stutter.                *)
(***************************************************************************)
LEMMA RefinesNext == IInv /\ IInv' /\ [Next]_vars => [Cert!CertNext]_Cert!certVars
<1> SUFFICES ASSUME IInv, IInv', [Next]_vars
             PROVE  [Cert!CertNext]_Cert!certVars
  OBVIOUS
<1> USE DEF IInv
<1>1. CASE UNCHANGED <<unit, tried>>
  BY <1>1, AllSame DEF SameRung
<1>2. ASSUME NEW w \in Workers, NEW c \in Cands, BeginMemoized(w, c)
      PROVE  Cert!CertNext
  <2> DEFINE memo == cache[w][forkOf[c]]
  <2>1. /\ tried' = tried /\ memo # "none" /\ phase[c] = "pending"
        /\ unit'[c] = Gated(unit[c], memo)
        /\ \A d \in Cands \ {c} : SameRung(d)
    BY <1>2 DEF BeginMemoized, Take, TypeOK, SameRung
  <2>2. memo \in {"match", "mismatch"}
    BY <2>1, ForkAssumption DEF TypeOK, Memo
  <2>3. unit[c].original_replay_match = "none"
    BY <2>1 DEF CandInv, PhaseInv
  <2>4. unit'[c].original_replay_match = memo /\ unit'[c].tier = unit[c].tier
    BY <2>1 DEF Gated, TypeOK, Unit
  <2> HIDE DEF memo
  <2>5. Cert!Gate(c)
    BY <2>1, <2>2, <2>3, <2>4, GateMaps
  <2>. QED BY <2>5 DEF Cert!CertNext
<1>3. ASSUME NEW c \in Cands, FinishControl(c)
      PROVE  Cert!CertNext
  <2> DEFINE memo == ControlResult(c)
  <2>1. /\ tried' = tried /\ phase[c] = "control"
        /\ unit'[c] = Charged(Gated(unit[c], memo))
        /\ \A d \in Cands \ {c} : SameRung(d)
    BY <1>3 DEF FinishControl, TypeOK, SameRung
  <2>2. memo \in {"match", "mismatch"}
    BY MemoFacts
  <2>3. unit[c].original_replay_match = "none"
    BY <2>1 DEF CandInv, PhaseInv
  <2>4. unit'[c].original_replay_match = memo /\ unit'[c].tier = unit[c].tier
    BY <2>1 DEF Gated, Charged, TypeOK, Unit
  <2> HIDE DEF memo
  <2>5. Cert!Gate(c)
    BY <2>1, <2>2, <2>3, <2>4, GateMaps
  <2>. QED BY <2>5 DEF Cert!CertNext
<1>4. ASSUME NEW c \in Cands, FinishFirst(c) \/ FinishRepro(c)
      PROVE  Cert!CertNext
  <2>1. \A d \in Cands \ {c} : SameRung(d)
    BY <1>4 DEF FinishFirst, FinishRepro, TypeOK, SameRung
  <2>2. /\ unit[c].original_replay_match = "match"
        /\ \/ tried[c].runs = 0 /\ tried[c].flips = 0
           \/ tried[c].flips > 0 /\ tried[c].runs < NRepro
    BY <1>4 DEF FinishFirst, FinishRepro, TypeOK, CandInv, PhaseInv, TrialInv
  <2>3. PICK flip \in BOOLEAN :
            /\ tried'[c].runs = tried[c].runs + 1
            /\ tried'[c].flips = tried[c].flips + IF flip THEN 1 ELSE 0
    <3>1. CASE FinishFirst(c)
      <4>1. tried[c].runs = 0 /\ tried[c].flips = 0
        BY <3>1 DEF FinishFirst, TypeOK, CandInv, PhaseInv, TrialInv
      <4>2. /\ tried'[c].runs = 1
            /\ tried'[c].flips = IF Flips(c, 1) THEN 1 ELSE 0
        BY <3>1 DEF FinishFirst, TypeOK
      <4>3. PICK flip \in BOOLEAN : flip <=> Flips(c, 1)
        OBVIOUS
      <4>. QED BY <4>1, <4>2, <4>3
    <3>2. CASE FinishRepro(c)
      <4>1. /\ tried'[c].runs = tried[c].runs + 1
            /\ tried'[c].flips =
                 tried[c].flips + IF Flips(c, tried[c].runs + 1) THEN 1 ELSE 0
        BY <3>2 DEF FinishRepro, TypeOK
      <4>2. PICK flip \in BOOLEAN : flip <=> Flips(c, tried[c].runs + 1)
        OBVIOUS
      <4>. QED BY <4>1, <4>2
    <3>. QED BY <1>4, <3>1, <3>2
  <2>4. tried'[c].runs > 0
    BY <2>3 DEF TypeOK
  <2>5. /\ unit'[c].original_replay_match = "match"
        /\ unit'[c].tier =
             Cert!Earned(tried'[c].flips, tried'[c].runs - tried'[c].flips)
    BY <2>4 DEF CandInv, TrialInv
  <2>6. Cert!Flip(c) \/ Cert!Miss(c)
    BY <2>1, <2>2, <2>3, <2>5, TrialMaps
  <2>. QED BY <2>6 DEF Cert!CertNext
<1>. QED
  BY <1>1, <1>2, <1>3, <1>4
     DEF Next, Begin, Advance, BeginWithControl, BeginWithoutSnapshot,
         ForkBranch, BranchRaises, MainRaises, vars

(***************************************************************************)
(* The replayer never moves a candidate on the ladder but by the gate, a   *)
(* flip or a miss, whatever the mode, the workers and the order of events. *)
(***************************************************************************)
THEOREM ReplayImplementsCertification == Spec => ImplementsCertification
<1>. QED
  BY RefinesInit, RefinesNext, Invariance, PTL
     DEF Spec, ImplementsCertification, Cert!CertSpec
==============================================================================
