----------------------------- MODULE Acquisition -----------------------------
(***************************************************************************)
(* AcquisitionEngine.run (acquisition/engine.py): candidates are validated *)
(* one after the other, in the order a policy picks them, while a budget   *)
(* lasts.  One step is one candidate: its paired replay, with the engine's *)
(* own control cache and early stopping when the mechanisms are on         *)
(* (PairedReplay shows what is inside), and the slicing of a REPRODUCIBLE  *)
(* unit (Slicing).                                                         *)
(*                                                                         *)
(* What replays would show is fixed in the initial state: the fork points  *)
(* whose control diverges and each candidate's first intervened run that   *)
(* does not flip (NRepro + 1 when all flip).                               *)
(* Candidates are numbered by their place in the candidate list.           *)
(***************************************************************************)
EXTENDS EvidenceTiers, Sequences, FiniteSets

CONSTANTS
    Cands,        \* the candidates: a set of numbers
    Episode,      \* [Cands -> episodes]
    Task,         \* [Cands -> tasks], the task of the candidate's episode
    Family,       \* [Cands -> families]
    Source,       \* [Cands -> candidate sources]
    Fork,         \* [Cands -> fork points]
    Probes,       \* [Cands -> Nat]: the replays that slicing would take
    NRepro,       \* n_repro
    Policies,     \* subset of {"exhaustive", "random", "adaptive"}
    Budgets,      \* the budgets considered: replays and seconds, or NoLimit
    NoLimit,      \* None
    Durations,    \* the seconds a candidate's replays may take
    Diverging,    \* the sets of fork points considered that fail the gate
    FirstMisses   \* the first runs without a flip considered

Forks    == {Fork[c] : c \in Cands}
Episodes == {Episode[c] : c \in Cands}
Families == {Family[c] : c \in Cands}
Limit    == Nat \cup {NoLimit}

ASSUME CandsAssumption ==
    /\ Cands \subseteq Nat /\ IsFiniteSet(Cands)
    /\ Probes \in [Cands -> Nat]
ASSUME ReproAssumption == NRepro \in Nat /\ NRepro >= 1
ASSUME BudgetAssumption ==
    /\ NoLimit \notin Nat
    /\ Budgets \subseteq [replays : Limit, seconds : Limit]
    /\ Durations \subseteq Nat
ASSUME WorldAssumption ==
    /\ Diverging \subseteq SUBSET Forks
    /\ FirstMisses \subseteq 1..(NRepro + 1)

VARIABLES
    policy, budget, mechanisms,  \* the call
    diverging, firstMiss, \* the world
    pending,        \* candidates not yet picked
    cache,          \* fork points in control_cache
    units,          \* result.units: [cand, tier, flipped, replays]
    spent,          \* result.spent: [replays, seconds]
    curve,          \* result.curve: [replays, validated_units, distinct_tasks]
    attempted,      \* AdaptivePolicy.attempted_episodes
    trials, flips,  \* AdaptivePolicy.family_trials, family_flips
    sources,        \* AdaptivePolicy.tried_sources
    status          \* "running", "returned" or "raised"

call  == <<policy, budget, mechanisms>>
world == <<diverging, firstMiss>>
learned == <<attempted, trials, flips, sources>>
acqVars == <<policy, budget, mechanisms, diverging, firstMiss, pending, cache,
           units, spent, curve, attempted, trials, flips, sources, status>>

AcqInit ==
    /\ policy \in Policies /\ budget \in Budgets /\ mechanisms \in BOOLEAN
    /\ diverging \in Diverging
    /\ firstMiss \in [Cands -> FirstMisses]
    /\ pending = Cands
    /\ cache = {}
    /\ units = <<>> /\ curve = <<>>
    /\ spent = [replays |-> 0, seconds |-> 0]
    /\ attempted = {}
    /\ trials = [f \in Families |-> 0] /\ flips = [f \in Families |-> 0]
    /\ sources = [e \in Episodes |-> {}]
    /\ status = "running"
-----------------------------------------------------------------------------
(***************************************************************************)
(* What one candidate yields and costs.                                    *)
(***************************************************************************)
GateOpen(c)   == Fork[c] \notin diverging
Flipped(c)    == GateOpen(c) /\ firstMiss[c] > 1
Reproduced(c) == GateOpen(c) /\ firstMiss[c] > NRepro

\* A REPRODUCIBLE unit is MINIMAL when the replay of its slice confirms it.
Tiers(c) == IF ~Flipped(c) THEN {SUGGESTED}
            ELSE IF ~Reproduced(c) THEN {COUNTERFACTUAL_VALIDATED}
            ELSE {REPRODUCIBLE, MINIMAL}

\* Mutant: every candidate pays for its control although the cache is on.
ControlEachTime(c) == 1

ControlRuns(c) == IF mechanisms /\ Fork[c] \in cache THEN 0 ELSE 1

IntervenedRuns(c) ==
    IF ~GateOpen(c) THEN 0
    ELSE IF ~Flipped(c) THEN 1
    ELSE IF mechanisms /\ ~Reproduced(c) THEN firstMiss[c]
    ELSE NRepro

\* What it takes besides the control: its own runs, and those of its slicing.
Work(c) == IntervenedRuns(c) + IF Reproduced(c) THEN Probes[c] ELSE 0

ReplayRuns(c) == ControlRuns(c) + Work(c)

(***************************************************************************)
(* Budget.exhausted, read only between two candidates.  Mutant: a limit    *)
(* counts as exhausted once it has been exceeded.                          *)
(***************************************************************************)
Reached(limit, amount)  == limit # NoLimit /\ amount >= limit
Exceeded(limit, amount) == limit # NoLimit /\ amount > limit

ExhaustedLate ==
    Exceeded(budget.replays, spent.replays) \/ Exceeded(budget.seconds, spent.seconds)

Exhausted ==
    Reached(budget.replays, spent.replays) \/ Reached(budget.seconds, spent.seconds)

(***************************************************************************)
(* AdaptivePolicy.next takes the maximum of (singleton, ucb, new source),  *)
(* the first in the list among equals.  The upper confidence bound of a    *)
(* family is infinite before its first trial; between two families it is   *)
(* decided when one has the better flip rate and no more trials, and left  *)
(* open where rate and trials pull in different directions.                *)
(***************************************************************************)
SurelyAbove(f, g) ==
    /\ trials[g] > 0
    /\ \/ trials[f] = 0
       \/ /\ trials[f] <= trials[g]
          /\ flips[f] * trials[g] >= flips[g] * trials[f]
          /\ trials[f] < trials[g] \/ flips[f] * trials[g] > flips[g] * trials[f]

Level(f, g) == trials[f] = trials[g] /\ (trials[f] > 0 => flips[f] = flips[g])

Singleton(c) == Episode[c] \notin attempted
NewSource(c) == Source[c] \notin sources[Episode[c]]

\* Mutant: the family's bound is looked at before the episode.
SurelyBeforeByFamily(d, c) ==
    \/ SurelyAbove(Family[d], Family[c])
    \/ Level(Family[d], Family[c]) /\ Singleton(d) /\ ~Singleton(c)

SurelyBefore(d, c) ==
    \/ Singleton(d) /\ ~Singleton(c)
    \/ /\ Singleton(d) = Singleton(c)
       /\ \/ SurelyAbove(Family[d], Family[c])
          \/ /\ Level(Family[d], Family[c])
             /\ \/ NewSource(d) /\ ~NewSource(c)
                \/ NewSource(d) = NewSource(c) /\ d < c

MayPick(c) ==
    CASE policy = "exhaustive" -> \A d \in pending : c <= d
      [] policy = "random"     -> TRUE
      [] policy = "adaptive"   -> \A d \in pending : ~SurelyBefore(d, c)

(***************************************************************************)
(* policy.observe: only the adaptive policy learns.                        *)
(***************************************************************************)
Observe(c) ==
    IF policy # "adaptive" THEN UNCHANGED learned
    ELSE /\ attempted' = attempted \cup {Episode[c]}
         /\ trials'  = [trials EXCEPT ![Family[c]] = @ + 1]
         /\ flips'   = [flips EXCEPT ![Family[c]] = @ + IF Flipped(c) THEN 1 ELSE 0]
         /\ sources' = [sources EXCEPT ![Episode[c]] = @ \cup {Source[c]}]

(***************************************************************************)
(* result.validated() and the curve's point.                               *)
(***************************************************************************)
Validated(us) == {k \in DOMAIN us : us[k].tier >= COUNTERFACTUAL_VALIDATED}

Point(us, replays) ==
    [replays         |-> replays,
     validated_units |-> Cardinality(Validated(us)),
     distinct_tasks  |-> Cardinality({Task[us[k].cand] : k \in Validated(us)})]

Process(c) ==
    LET total == spent.replays + ReplayRuns(c) IN
    /\ status = "running" /\ c \in pending
    /\ ~Exhausted
    /\ MayPick(c)
    /\ pending' = pending \ {c}
    /\ cache' = IF mechanisms THEN cache \cup {Fork[c]} ELSE cache
    /\ \E t \in Tiers(c) :
           units' = Append(units, [cand |-> c, tier |-> t, flipped |-> Flipped(c),
                                   replays |-> ReplayRuns(c)])
    /\ \E d \in Durations :
           spent' = [replays |-> total, seconds |-> spent.seconds + d]
    /\ curve' = Append(curve, Point(units', total))
    /\ Observe(c)
    /\ UNCHANGED <<call, world, status>>

Return ==
    /\ status = "running"
    /\ pending = {} \/ Exhausted
    /\ status' = "returned"
    /\ UNCHANGED <<call, world, pending, cache, units, spent, curve, learned>>

(***************************************************************************)
(* A replay that raises takes the whole run with it: nothing is returned.  *)
(***************************************************************************)
ReplayRaises ==
    /\ status = "running" /\ pending # {} /\ ~Exhausted
    /\ status' = "raised"
    /\ UNCHANGED <<call, world, pending, cache, units, spent, curve, learned>>

AcqNext == (\E c \in Cands : Process(c)) \/ Return \/ ReplayRaises

AcqSpec == AcqInit /\ [][AcqNext]_acqVars

-----------------------------------------------------------------------------
(***************************************************************************)
(* No candidate starts on an exhausted budget: what the candidates before  *)
(* the last one cost is always below the limit, so a run oversteps by less *)
(* than the cost of its last candidate.                                    *)
(***************************************************************************)
OverstepIsLastCandidate ==
    curve # <<>> /\ budget.replays # NoLimit =>
        spent.replays - units[Len(units)].replays < budget.replays

(***************************************************************************)
(* Under the adaptive policy nobody gets a second candidate before every   *)
(* episode has had its first ("one candidate per episode before anyone's   *)
(* second", policies.py).                                                  *)
(***************************************************************************)
Picks(e) == Cardinality({k \in DOMAIN units : Episode[units[k].cand] = e})

BreadthFirst ==
    policy = "adaptive" =>
        \A e, f \in Episodes : Picks(e) >= 2 => Picks(f) >= 1

(***************************************************************************)
(* Policies compete on the same metered ground: once everything has been   *)
(* run, the units validated and the replays spent are those of any other   *)
(* order.  With the mechanisms on, each fork point is paid for once.       *)
(***************************************************************************)
WorkOf(cands) == UNION {{c} \X (1..Work(c)) : c \in cands}

FullBill ==
    (IF mechanisms THEN Cardinality(Forks) ELSE Cardinality(Cands))
      + Cardinality(WorkOf(Cands))

BillIsOrderFree ==
    pending = {} =>
        /\ spent.replays = FullBill
        /\ {units[k].cand : k \in Validated(units)} = {c \in Cands : Flipped(c)}

=============================================================================
