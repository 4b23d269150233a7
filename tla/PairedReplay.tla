---------------------------- MODULE PairedReplay -----------------------------
(***************************************************************************)
(* Replayer.paired_replay (replay/replayer.py) run over a batch of         *)
(* candidates, serially (acquisition/engine.py, ops/ops_zoo.py, the        *)
(* pipelines) or by a pool of worker processes (acquisition/parallel.py).  *)
(*                                                                         *)
(* A candidate is an intervention on one step of one recorded episode; the *)
(* episode and the step form its fork point.  A worker forks the fork      *)
(* point's snapshot into fresh workspaces: once for the determinism        *)
(* control, unless the worker's control_cache already holds the control    *)
(* record of that fork point, then for the first intervened branch, then   *)
(* for the reproduction runs.                                              *)
(*                                                                         *)
(* The world under test is an input, fixed in the initial state: what a    *)
(* control run on behalf of c would show, and what the k-th intervened run *)
(* of c would end in.  Nothing says that two runs of the same fork agree,  *)
(* so a flaky environment is one of the worlds.                            *)
(***************************************************************************)
EXTENDS EvidenceTiers, FiniteSets

CONSTANTS
    Cands,        \* candidates of the batch
    Forks,        \* fork points: pairs (episode id, target step)
    FailedForks,  \* the fork points whose episode was recorded as a failure
    Snapshotted,  \* the fork points a snapshot exists for
    Faulty,       \* the fork points where a branch run may raise
    Batches,      \* the batches considered: each gives candidates their forks
    Workers,      \* the validating processes
    NoWorker,     \* owner of a candidate nobody has begun
    Modes,        \* the ways callers run a batch, see Mode
    NRepro        \* n_repro

MaxRuns == IF NRepro > 1 THEN NRepro ELSE 1

(***************************************************************************)
(* memoize: a control_cache is passed; early_stop: early_stop_repro;       *)
(* pooled: validate_parallel, where an exception waits for the main        *)
(* process; workers: the processes that validate (one unless pooled).      *)
(***************************************************************************)
Mode == [memoize : BOOLEAN, early_stop : BOOLEAN, pooled : BOOLEAN,
         workers : SUBSET Workers]

ASSUME ForkAssumption ==
    /\ Batches \subseteq [Cands -> Forks]
    /\ FailedForks \subseteq Forks /\ Snapshotted \subseteq Forks
    /\ Faulty \subseteq Forks
ASSUME WorkerAssumption == NoWorker \notin Workers
ASSUME ReproAssumption == NRepro \in Nat
ASSUME ModeAssumption == Modes \subseteq Mode

VARIABLES
    mode,     \* the caller's way to run the batch
    forkOf,   \* [Cands -> Forks]: each candidate's fork point
    control,  \* [Cands -> [obs, outcome : BOOLEAN]]: the control run of c,
              \* had it its own, repeats the observations / the outcome
    success,  \* [Cands -> [1..MaxRuns -> BOOLEAN]]: k-th intervened run of c
    phase,    \* where paired_replay stands for c
    stage,    \* where the current _run_branch of c stands
    owner,    \* the worker that validates c
    cache,    \* [Workers -> [Forks -> Memo]]: each process' control_cache
    unit,     \* the CausalUnit under construction
    tried,    \* the locals of the reproduction loop: runs and flips
    paid,     \* c ran a control branch of its own (history)
    aborted   \* an exception has ended the batch

world == <<mode, forkOf, control, success>>
vars == <<mode, forkOf, control, success, phase, stage, owner, cache, unit,
          tried, paid, aborted>>

Phase == {"pending", "control", "first", "repro", "done", "raised"}
Stage == {"idle", "fork", "run"}
Memo  == {"none", "match", "mismatch"}
Unit  == [tier : EvidenceTier, original_replay_match : Memo, flipped : BOOLEAN,
          repro_runs : Nat, repro_flips : Nat, replay_runs : Nat]

Running   == {"control", "first", "repro"}
Finished  == {"done", "raised"}
Failed(c) == forkOf[c] \in FailedForks

(***************************************************************************)
(* deterministic_match of a control run: every observation digest and the  *)
(* outcome signature repeat the recording.                                 *)
(***************************************************************************)
ControlResult(c) ==
    IF control[c].obs /\ control[c].outcome THEN "match" ELSE "mismatch"

Idle(w) == \A c \in Cands : owner[c] = w => phase[c] \in Finished

FreshUnit == [tier |-> SUGGESTED, original_replay_match |-> "none",
              flipped |-> FALSE, repro_runs |-> 0, repro_flips |-> 0,
              replay_runs |-> 0]

(***************************************************************************)
(* What befalls a unit: the control record reaches it, a branch run is     *)
(* charged to its ledger, its first flip validates it.  Mutants: a         *)
(* memoized control is charged too; one flip is taken for n/n.             *)
(***************************************************************************)
GatedAndCharged(u, memo) ==
    [u EXCEPT !.original_replay_match = memo, !.replay_runs = @ + 1]
ValidatedAsReproducible(u) == [u EXCEPT !.flipped = TRUE, !.tier = REPRODUCIBLE]

Gated(u, memo) == [u EXCEPT !.original_replay_match = memo]
Charged(u)     == [u EXCEPT !.replay_runs = @ + 1]
Validated(u)   == [u EXCEPT !.flipped = TRUE, !.tier = COUNTERFACTUAL_VALIDATED]

Init ==
    /\ mode \in Modes
    /\ forkOf \in Batches
    /\ control \in [Cands -> [obs : BOOLEAN, outcome : BOOLEAN]]
    /\ success \in [Cands -> [1..MaxRuns -> BOOLEAN]]
    /\ phase   = [c \in Cands |-> "pending"]
    /\ stage   = [c \in Cands |-> "idle"]
    /\ owner   = [c \in Cands |-> NoWorker]
    /\ cache   = [w \in Workers |-> [f \in Forks |-> "none"]]
    /\ unit    = [c \in Cands |-> FreshUnit]
    /\ tried   = [c \in Cands |-> [runs |-> 0, flips |-> 0]]
    /\ paid    = [c \in Cands |-> FALSE]
    /\ aborted = FALSE
-----------------------------------------------------------------------------
(***************************************************************************)
(* The start of paired_replay.  The queue order is the policy's or the     *)
(* list's, so any pending candidate may come next; a pool may still hand   *)
(* out candidates it had queued when the main process gave up.             *)
(***************************************************************************)
Take(w, c) ==
    /\ w \in mode.workers
    /\ phase[c] = "pending" /\ Idle(w)
    /\ aborted => mode.pooled
    /\ owner' = [owner EXCEPT ![c] = w]

BeginWithControl(w, c) ==
    /\ Take(w, c)
    /\ forkOf[c] \in Snapshotted
    /\ mode.memoize => cache[w][forkOf[c]] = "none"
    /\ phase' = [phase EXCEPT ![c] = "control"]
    /\ stage' = [stage EXCEPT ![c] = "fork"]
    /\ UNCHANGED <<world, cache, unit, tried, paid, aborted>>

(***************************************************************************)
(* What follows the control record, own or memoized: a mismatch ends the   *)
(* candidate at SUGGESTED, a match leads to the first intervened branch.   *)
(* Mutant: the verdict of the control is not looked at.                    *)
(***************************************************************************)
PassEveryGate(c, memo) ==
    /\ phase' = [phase EXCEPT ![c] = "first"]
    /\ stage' = [stage EXCEPT ![c] = "fork"]

PassGate(c, memo) ==
    /\ phase' = [phase EXCEPT ![c] = IF memo = "match" THEN "first" ELSE "done"]
    /\ stage' = [stage EXCEPT ![c] = IF memo = "match" THEN "fork" ELSE "idle"]

BeginMemoized(w, c) ==
    LET memo == cache[w][forkOf[c]] IN
    /\ Take(w, c)
    /\ forkOf[c] \in Snapshotted
    /\ mode.memoize /\ memo # "none"
    /\ PassGate(c, memo)
    /\ unit' = [unit EXCEPT ![c] = Gated(@, memo)]
    /\ UNCHANGED <<world, cache, tried, paid, aborted>>

(***************************************************************************)
(* An exception leaves paired_replay with whatever the candidate had; in a *)
(* serial caller it also leaves the loop over the candidates.  Mutant: the *)
(* loop swallows it.                                                       *)
(***************************************************************************)
SwallowRaise(c) ==
    /\ phase' = [phase EXCEPT ![c] = "raised"]
    /\ stage' = [stage EXCEPT ![c] = "idle"]
    /\ UNCHANGED aborted

Raise(c) ==
    /\ phase'   = [phase EXCEPT ![c] = "raised"]
    /\ stage'   = [stage EXCEPT ![c] = "idle"]
    /\ aborted' = (aborted \/ ~mode.pooled)

BeginWithoutSnapshot(w, c) ==
    /\ Take(w, c)
    /\ forkOf[c] \notin Snapshotted
    /\ Raise(c)
    /\ UNCHANGED <<world, cache, unit, tried, paid>>

MainRaises ==
    /\ mode.pooled /\ ~aborted
    /\ \E c \in Cands : phase[c] = "raised"
    /\ aborted' = TRUE
    /\ UNCHANGED <<world, phase, stage, owner, cache, unit, tried, paid>>
-----------------------------------------------------------------------------
(***************************************************************************)
(* _run_branch: materialize a workspace from the snapshot, then execute    *)
(* the suffix and the verifier in it.  Restoring, prep, an unknown tool    *)
(* and the verifier may each raise; the run is then not counted.           *)
(***************************************************************************)
ForkBranch(c) ==
    /\ phase[c] \in Running /\ stage[c] = "fork"
    /\ stage' = [stage EXCEPT ![c] = "run"]
    /\ UNCHANGED <<world, phase, owner, cache, unit, tried, paid, aborted>>

BranchRaises(c) ==
    /\ phase[c] \in Running
    /\ forkOf[c] \in Faulty
    /\ Raise(c)
    /\ UNCHANGED <<world, owner, cache, unit, tried, paid>>

(***************************************************************************)
(* Branch A has run: its record decides, and is memoized for the process   *)
(* when a control_cache was passed.  Mutant: it is never stored.           *)
(***************************************************************************)
ForgetControl(c, memo) == UNCHANGED cache

Remember(c, memo) ==
    cache' = IF mode.memoize
             THEN [cache EXCEPT ![owner[c]][forkOf[c]] = memo] ELSE cache

FinishControl(c) ==
    LET memo == ControlResult(c) IN
    /\ phase[c] = "control" /\ stage[c] = "run"
    /\ PassGate(c, memo)
    /\ unit' = [unit EXCEPT ![c] = Charged(Gated(@, memo))]
    /\ Remember(c, memo)
    /\ paid' = [paid EXCEPT ![c] = TRUE]
    /\ UNCHANGED <<world, owner, tried, aborted>>

(***************************************************************************)
(* An intervened run flips when a recorded failure became a success.       *)
(***************************************************************************)
Flips(c, k) == Failed(c) /\ success[c][k]

(***************************************************************************)
(* The unit after the loop: n/n flips, or as many as there were.  Mutant:  *)
(* the tiers are numbered by position, as they once were.                  *)
(***************************************************************************)
ConcludedByPosition(u, runs, flips) ==
    [u EXCEPT !.flipped = TRUE, !.repro_runs = runs, !.repro_flips = flips,
              !.tier = IF flips = NRepro THEN 3 ELSE 2]

Concluded(u, runs, flips) ==
    [u EXCEPT !.flipped     = TRUE,
              !.repro_runs  = IF flips = runs THEN NRepro ELSE runs,
              !.repro_flips = flips,
              !.tier        = IF flips = NRepro THEN REPRODUCIBLE
                              ELSE COUNTERFACTUAL_VALIDATED]

FinishFirst(c) ==
    /\ phase[c] = "first" /\ stage[c] = "run"
    /\ \/ /\ ~Flips(c, 1)
          /\ unit'  = [unit EXCEPT ![c] = Charged(@)]
          /\ tried' = [tried EXCEPT ![c] = [runs |-> 1, flips |-> 0]]
          /\ phase' = [phase EXCEPT ![c] = "done"]
          /\ stage' = [stage EXCEPT ![c] = "idle"]
       \/ /\ Flips(c, 1) /\ NRepro > 1
          /\ unit'  = [unit EXCEPT ![c] = Validated(Charged(@))]
          /\ tried' = [tried EXCEPT ![c] = [runs |-> 1, flips |-> 1]]
          /\ phase' = [phase EXCEPT ![c] = "repro"]
          /\ stage' = [stage EXCEPT ![c] = "fork"]
       \/ /\ Flips(c, 1) /\ NRepro <= 1
          /\ unit'  = [unit EXCEPT ![c] = Concluded(Charged(@), 1, 1)]
          /\ tried' = [tried EXCEPT ![c] = [runs |-> 1, flips |-> 1]]
          /\ phase' = [phase EXCEPT ![c] = "done"]
          /\ stage' = [stage EXCEPT ![c] = "idle"]
    /\ UNCHANGED <<world, owner, cache, paid, aborted>>

(***************************************************************************)
(* When the reproduction loop ends.  Mutants: early stopping on a flip,    *)
(* one run short.                                                          *)
(***************************************************************************)
SettledOnFlip(c, runs)   == runs = NRepro \/ (mode.early_stop /\ Flips(c, runs))
SettledOneShort(c, runs) == runs = NRepro - 1 \/ (mode.early_stop /\ ~Flips(c, runs))

Settled(c, runs) == runs = NRepro \/ (mode.early_stop /\ ~Flips(c, runs))

FinishRepro(c) ==
    LET runs  == tried[c].runs + 1
        flips == tried[c].flips + IF Flips(c, runs) THEN 1 ELSE 0
        last  == Settled(c, runs)
    IN
    /\ phase[c] = "repro" /\ stage[c] = "run"
    /\ tried' = [tried EXCEPT ![c] = [runs |-> runs, flips |-> flips]]
    /\ unit'  = IF last THEN [unit EXCEPT ![c] = Concluded(Charged(@), runs, flips)]
                ELSE [unit EXCEPT ![c] = Charged(@)]
    /\ phase' = [phase EXCEPT ![c] = IF last THEN "done" ELSE "repro"]
    /\ stage' = [stage EXCEPT ![c] = IF last THEN "idle" ELSE "fork"]
    /\ UNCHANGED <<world, owner, cache, paid, aborted>>
-----------------------------------------------------------------------------
Begin(w, c) ==
    BeginWithControl(w, c) \/ BeginMemoized(w, c) \/ BeginWithoutSnapshot(w, c)

Advance(c) ==
    \/ ForkBranch(c) \/ BranchRaises(c)
    \/ FinishControl(c) \/ FinishFirst(c) \/ FinishRepro(c)

Next == \/ \E w \in Workers, c \in Cands : Begin(w, c)
        \/ \E c \in Cands : Advance(c)
        \/ MainRaises

Spec == Init /\ [][Next]_vars

(***************************************************************************)
(* Every tool and every verifier run has a timeout, and a worker does      *)
(* nothing but validate: while it can go on, it does.                      *)
(***************************************************************************)
Fairness == /\ \A w \in Workers : WF_vars(\E c \in Cands : Begin(w, c))
            /\ \A c \in Cands : WF_vars(Advance(c))
            /\ WF_vars(MainRaises)

FairSpec == Spec /\ Fairness
-----------------------------------------------------------------------------
(***************************************************************************)
(* Properties.                                                             *)
(***************************************************************************)
TypeOK ==
    /\ mode \in Modes
    /\ forkOf \in Batches
    /\ control \in [Cands -> [obs : BOOLEAN, outcome : BOOLEAN]]
    /\ success \in [Cands -> [1..MaxRuns -> BOOLEAN]]
    /\ phase \in [Cands -> Phase]
    /\ stage \in [Cands -> Stage]
    /\ owner \in [Cands -> Workers \cup {NoWorker}]
    /\ cache \in [Workers -> [Forks -> Memo]]
    /\ unit \in [Cands -> Unit]
    /\ tried \in [Cands -> [runs : Nat, flips : Nat]]
    /\ paid \in [Cands -> BOOLEAN]
    /\ aborted \in BOOLEAN

(***************************************************************************)
(* A tier is backed by replays that really ran: at COUNTERFACTUAL_VALIDATED*)
(* or above the recorded outcome was a failure, the candidate's first      *)
(* intervened run succeeded, and a control run of the same fork point, in  *)
(* the same process (its own when nothing is memoized), had repeated both  *)
(* the observations and the outcome; at REPRODUCIBLE each of the n         *)
(* intervened runs succeeded.                                              *)
(***************************************************************************)
ControlBacked(c) ==
    \E d \in Cands :
        /\ forkOf[d] = forkOf[c] /\ owner[d] = owner[c]
        /\ paid[d] /\ ControlResult(d) = "match"
        /\ mode.memoize \/ d = c

TierEarnedByReplay ==
    \A c \in Cands :
        /\ unit[c].tier >= COUNTERFACTUAL_VALIDATED =>
               Failed(c) /\ success[c][1] /\ ControlBacked(c)
        /\ unit[c].tier >= REPRODUCIBLE =>
               NRepro > 0 /\ \A k \in 1..NRepro : success[c][k]

(***************************************************************************)
(* Abandoning the reproduction runs at the first non-flip never changes a  *)
(* verdict: a finished candidate has the tier that all n runs of its world *)
(* would have given it behind the gate it met.                             *)
(***************************************************************************)
FullVerdict(c) ==
    IF unit[c].original_replay_match # "match" \/ ~Flips(c, 1) THEN SUGGESTED
    ELSE IF NRepro > 0 /\ \A k \in 1..NRepro : Flips(c, k) THEN REPRODUCIBLE
    ELSE COUNTERFACTUAL_VALIDATED

EarlyStopKeepsVerdict ==
    \A c \in Cands : phase[c] = "done" => unit[c].tier = FullVerdict(c)

(***************************************************************************)
(* With a control_cache, candidates of one process that target the same    *)
(* fork point pay for its control once, and the gate they meet is the same.*)
(***************************************************************************)
ControlSharedPerFork ==
    mode.memoize =>
        \A c, d \in Cands :
            c # d /\ owner[c] = owner[d] /\ forkOf[c] = forkOf[d] =>
                /\ ~(paid[c] /\ paid[d])
                /\ unit[c].original_replay_match # "none"
                   /\ unit[d].original_replay_match # "none" =>
                      unit[c].original_replay_match = unit[d].original_replay_match

(***************************************************************************)
(* The price of a finished candidate: its control run if it was the one to *)
(* pay for it, and the intervened runs up to the first that settles the    *)
(* verdict - none behind a closed gate (the negative control), one without *)
(* a first flip, all n otherwise unless early stopping found a non-flip.   *)
(***************************************************************************)
Trials(c) ==
    IF unit[c].original_replay_match # "match" THEN 0
    ELSE IF ~Flips(c, 1) THEN 1
    ELSE IF mode.early_stop /\ \E k \in 1..MaxRuns : ~Flips(c, k)
         THEN CHOOSE k \in 1..MaxRuns :
                  ~Flips(c, k) /\ \A j \in 1..(k - 1) : Flips(c, j)
    ELSE MaxRuns

PriceOfVerdict ==
    \A c \in Cands : phase[c] = "done" =>
        unit[c].replay_runs = Trials(c) + IF paid[c] THEN 1 ELSE 0

(***************************************************************************)
(* Parallel validation must agree with serial validation exactly           *)
(* (tests/test_parallel_validation.py): where a fork point's controls all  *)
(* reproduce and a candidate's runs all agree, its tier is a function of   *)
(* the world alone, whatever the workers, their caches and the order were. *)
(***************************************************************************)
Deterministic(c) ==
    /\ \A d \in Cands : forkOf[d] = forkOf[c] => ControlResult(d) = "match"
    /\ \A k \in 1..MaxRuns : success[c][k] = success[c][1]

SerialTier(c) ==
    IF ~Flips(c, 1) THEN SUGGESTED
    ELSE IF NRepro > 0 THEN REPRODUCIBLE ELSE COUNTERFACTUAL_VALIDATED

ParallelAgreesWithSerial ==
    \A c \in Cands :
        phase[c] = "done" /\ Deterministic(c) => unit[c].tier = SerialTier(c)

(***************************************************************************)
(* Every step of the replayer is one the ladder allows: the gate before    *)
(* any trial, one trial at a time, and at every moment the tier that the   *)
(* trials so far have earned.                                              *)
(***************************************************************************)
GateOf(c) == CASE unit[c].original_replay_match = "none"     -> "untested"
               [] unit[c].original_replay_match = "match"    -> "reproduced"
               [] unit[c].original_replay_match = "mismatch" -> "diverged"

Cert == INSTANCE Certification WITH
            tier   <- [c \in Cands |-> unit[c].tier],
            gate   <- [c \in Cands |-> GateOf(c)],
            flips  <- [c \in Cands |-> tried[c].flips],
            misses <- [c \in Cands |-> tried[c].runs - tried[c].flips]

ImplementsCertification == Cert!CertSpec

(***************************************************************************)
(* The batch always comes to an end: every candidate gets its verdict, or  *)
(* an exception ends the whole batch.                                      *)
(***************************************************************************)
BatchEnds == <>(aborted \/ \A c \in Cands : phase[c] = "done")
=============================================================================
