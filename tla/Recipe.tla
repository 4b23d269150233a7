------------------------------- MODULE Recipe -------------------------------
(***************************************************************************)
(* The operators of a recipe (ops/*.py) on the context they hand on        *)
(* (OpContext), in any order: episodes come in, candidates are proposed    *)
(* and validated, units are sliced, re-checked, filtered, exported and     *)
(* saved.  ops/recipe.py runs one operator after the other and catches     *)
(* nothing: an operator that raises ends the recipe.                       *)
(*                                                                         *)
(* An operator that replays takes one step per candidate or unit.  What a  *)
(* replay shows is fixed in the initial state (world): PairedReplay is     *)
(* about environments that are not deterministic.                          *)
(***************************************************************************)
EXTENDS EvidenceTiers, CandidateSources, FiniteSets

CONSTANTS
    Toy, Old, Imported, \* sequences of episodes: collected here, in a loaded
                        \* run, in imported traces
    Revised,         \* what an LLM makes of interventions that did not flip:
                     \* [those it answers about -> interventions]
    Unappliable,     \* the candidates whose branch raises: a tool that is not
                     \* registered, a patch of an argument that is no string
    NRepro,          \* n_repro
    BudgetReplays,   \* budget_screen's replays
    Worlds,          \* the worlds considered: [works, diverging]
    MaxOps, MaxUnits, MaxCands  \* bounds of the model

Elements(s) == {s[i] : i \in DOMAIN s}
Episodes    == Elements(Toy) \cup Elements(Old) \cup Elements(Imported)

ASSUME EpisodesAssumption ==
    /\ \A s \in {Toy, Old, Imported} : s \in Seq(Elements(s))
    /\ Elements(Toy) \cap Elements(Old) = {}
    /\ Elements(Imported) \cap (Elements(Toy) \cup Elements(Old)) = {}
    /\ Successful \subseteq Episodes
ASSUME TracesAssumption ==
    \A ep \in Episodes :
        /\ Len(Trace[ep]) \in Nat /\ DOMAIN Trace[ep] = 1..Len(Trace[ep])
        /\ \A i \in DOMAIN Trace[ep] : Trace[ep][i].parts \in Nat
ASSUME SourcesAssumption ==
    /\ "toy" \in DOMAIN Table
    /\ \A name \in DOMAIN Table : Table[name] \in [Episodes -> Seq(Interventions)]
    /\ \A iv \in DOMAIN Revised : Revised[iv] \in Interventions
ASSUME NumbersAssumption ==
    /\ NRepro \in Nat \ {0} /\ BudgetReplays \in Nat
    /\ MaxOps \in Nat /\ MaxUnits \in Nat /\ MaxCands \in Nat

VARIABLES
    world,     \* works: candidates that end in a success;
               \* diverging: fork points whose control does not reproduce
    episodes, sources, candidates, units, ledger,  \* OpContext
    proposed,  \* the number of candidates ever proposed
    executed,  \* branches executed, whoever was charged for them
    store,     \* services: the run whose blobs "blobs" is, "none" before
    built,     \* services: there is a replayer, on the recipe's own blobs
    op,        \* the operator at work, "none" between two
    left,      \* what is left for it: positions in candidates or units
    memo,      \* its control_cache
    batch,     \* units it has not handed over yet
    bill,      \* and what they cost
    exports,   \* rows of the training exports
    saved,     \* the saved run
    applied,   \* operators applied
    status     \* "idle", "busy" (op is at work) or "raised"

context  == <<episodes, sources, candidates, units, ledger, proposed>>
services == <<store, built>>
progress == <<left, memo, batch, bill>>
products == <<exports, saved>>
vars == <<world, episodes, sources, candidates, units, ledger, proposed,
          executed, store, built, op, left, memo, batch, bill, exports, saved,
          applied, status>>

NoRun == [exists |-> FALSE, episodes |-> {}, units |-> <<>>, replays |-> 0]

Run(us) ==
    [exists |-> TRUE, episodes |-> Elements(episodes), units |-> us, replays |-> ledger]

Init ==
    /\ world \in Worlds
    /\ episodes = <<>> /\ sources = <<>> /\ candidates = <<>> /\ units = <<>>
    /\ ledger = 0 /\ proposed = 0 /\ executed = 0
    /\ store = "none" /\ built = FALSE
    /\ op = "none" /\ left = {} /\ memo = {} /\ batch = <<>> /\ bill = 0
    /\ exports = [kind \in {"views", "trl"} |-> {}] /\ saved = NoRun
    /\ applied = 0 /\ status = "idle"
-----------------------------------------------------------------------------
(***************************************************************************)
(* What a replay needs and shows.  The collector takes a snapshot before   *)
(* each step; imported traces have none.  The loaded run is another        *)
(* directory than the recipe's, and its trees are not in both.             *)
(***************************************************************************)
Snapshotted(c) == c.ep \notin Elements(Imported) /\ c.iv.target_step \in DOMAIN Trace[c.ep]

Home(ep) == IF ep \in Elements(Old) THEN "old" ELSE "own"

\* There is a snapshot of the target step, and blobs has its tree.
Restores(c, blobs) == Snapshotted(c) /\ Home(c.ep) = blobs

Fork(c)     == <<c.ep, c.iv.target_step>>
Outcome(c)  == IF Candidate(c.ep, c.iv) \in world.works THEN "success" ELSE "failure"
Diverges(c) == Fork(c) \in world.diverging
Flips(c)    == c.ep \notin Successful /\ Outcome(c) = "success"

\* These run the intervened branch only, the others a control before it.
Uncontrolled == {"stress_probe", "minimize"}

\* A control that does not match ends the replay before the branch.
Completes(c, blobs) ==
    /\ Restores(c, blobs)
    /\ Candidate(c.ep, c.iv) \notin Unappliable \/ (Diverges(c) /\ op \notin Uncontrolled)

Unit(c, tier, matched, outcome, flipped) ==
    [ep |-> c.ep, iv |-> c.iv, no |-> c.no, tier |-> tier,
     matched |-> matched, outcome |-> outcome, flipped |-> flipped]

\* Mutant: a candidate behind a closed gate is tried all the same.
TriedUnit(c) ==
    IF ~Flips(c) THEN Unit(c, SUGGESTED, TRUE, Outcome(c), FALSE)
    ELSE Unit(c, REPRODUCIBLE, TRUE, "success", TRUE)

\* paired_replay's unit, in a world where n_repro runs end as the first one.
PairedUnit(c) ==
    IF Diverges(c) THEN Unit(c, SUGGESTED, FALSE, "none", FALSE)
    ELSE IF ~Flips(c) THEN Unit(c, SUGGESTED, TRUE, Outcome(c), FALSE)
    ELSE Unit(c, REPRODUCIBLE, TRUE, "success", TRUE)

IntervenedRuns(c) == IF Diverges(c) THEN 0 ELSE IF Flips(c) THEN NRepro ELSE 1

ControlRuns(c) == IF Fork(c) \in memo THEN 0 ELSE 1

Runs(c) == ControlRuns(c) + IntervenedRuns(c)

Validated(u) == u.tier >= COUNTERFACTUAL_VALIDATED
-----------------------------------------------------------------------------
(***************************************************************************)
(* An operator starts when the one before has ended; most do their work at *)
(* once.                                                                   *)
(***************************************************************************)
Applies ==
    /\ status = "idle" /\ applied < MaxOps
    /\ applied' = applied + 1
    /\ UNCHANGED world

AtOnce == Applies /\ UNCHANGED <<status, op, progress, executed>>

\* engine_services: built once, and then always on the recipe's own blobs.
EngineServices ==
    /\ built' = TRUE
    /\ store' = IF built THEN store ELSE "own"
-----------------------------------------------------------------------------
(***************************************************************************)
(* Operators that bring episodes.  Bound: each once in a recipe.           *)
(***************************************************************************)
CollectToy ==
    /\ Elements(episodes) \cap Elements(Toy) = {}
    /\ AtOnce /\ EngineServices
    /\ episodes' = episodes \o Toy
    /\ sources'  = Append(sources, "toy")
    /\ UNCHANGED <<candidates, units, ledger, proposed, products>>

LoadRun ==
    /\ Elements(episodes) \cap Elements(Old) = {}
    /\ AtOnce
    /\ episodes' = episodes \o Old
    /\ store'    = "old"
    /\ UNCHANGED <<sources, candidates, units, ledger, proposed, built, products>>

ImportTraces ==
    /\ Elements(episodes) \cap Elements(Imported) = {}
    /\ AtOnce
    /\ episodes' = episodes \o Imported
    /\ UNCHANGED <<sources, candidates, units, ledger, proposed, services, products>>

(***************************************************************************)
(* fix_table, fixer_llm and resample register a source.  Bound: each once. *)
(***************************************************************************)
AddSource(name) ==
    /\ ~Contains(sources, name)
    /\ AtOnce
    /\ sources' = Append(sources, name)
    /\ UNCHANGED <<episodes, candidates, units, ledger, proposed, services, products>>
-----------------------------------------------------------------------------
(***************************************************************************)
(* Operators that propose: each proposal gets the next number.             *)
(***************************************************************************)
Numbered(cs) ==
    [j \in DOMAIN cs |-> [ep |-> cs[j].ep, iv |-> cs[j].iv, no |-> proposed + j]]

Propose(cs) ==
    /\ Len(candidates) + Len(cs) <= MaxCands
    /\ AtOnce
    /\ candidates' = candidates \o Numbered(cs)
    /\ proposed'   = proposed + Len(cs)
    /\ UNCHANGED <<episodes, sources, units, ledger, services, products>>

ScreenFailures ==
    Propose(Screen(episodes, sources))

\* What an attribution operator proposes for each episode, passing or not.
ForEach(ivs) ==
    FlattenSeq([e \in DOMAIN episodes |-> Candidates(episodes[e], ivs[episodes[e]])])

Attribute ==
    \/ \E path \in Paths, keepMin \in {1, 2} :
          Propose(ForEach([ep \in Episodes |-> ContextAblate(ep, path, keepMin)]))
    \/ \E path \in Paths : Propose(ForEach([ep \in Episodes |-> MessageAblate(ep, path, 1)]))
    \/ \E path \in Paths : Propose(ForEach([ep \in Episodes |-> ThoughtTruncate(ep, path)]))
    \/ \E path \in Paths : Propose(ForEach([ep \in Episodes |-> ClausePerturb(ep, path, 1)]))
    \/ \E maxSteps \in {0, 1} : Propose(ForEach([ep \in Episodes |-> ToolAblate(ep, maxSteps)]))

\* message_ablate and clause_perturb with nothing to put in place raise.
NothingSupplied ==
    /\ Applies
    /\ status' = "raised"
    /\ UNCHANGED <<context, executed, services, op, progress, products>>

(***************************************************************************)
(* refine: units that were tried and did not flip, when the LLM's answer   *)
(* is an intervention.                                                     *)
(***************************************************************************)
Refinable(u) == ~u.flipped /\ u.outcome # "none" /\ u.iv \in DOMAIN Revised

Refine ==
    LET tried == Picked(units, {i \in DOMAIN units : Refinable(units[i])})
    IN  Propose([j \in DOMAIN tried |-> Candidate(tried[j].ep, Revised[tried[j].iv])])
-----------------------------------------------------------------------------
(***************************************************************************)
(* Operators that execute.  Each starts with services and an empty memo,   *)
(* goes through its targets, and ends by clearing the candidates when      *)
(* these were its targets.                                                 *)
(***************************************************************************)
OnCandidates == {"paired_replay", "paired_replay_parallel", "stress_probe", "budget_screen"}
OnUnits      == {"minimize", "revalidate"}

BeginOn(name, targets) ==
    /\ Applies /\ EngineServices
    /\ op' = name /\ status' = "busy" /\ left' = targets
    /\ memo' = {} /\ batch' = <<>> /\ bill' = 0
    /\ UNCHANGED <<context, executed, products>>

BeginOnCandidates ==
    /\ Len(units) + Len(candidates) <= MaxUnits
    /\ \E name \in OnCandidates : BeginOn(name, DOMAIN candidates)

BeginMinimize ==
    BeginOn("minimize", {i \in DOMAIN units : units[i].tier >= REPRODUCIBLE})

(***************************************************************************)
(* revalidate looks for units whose provenance claims the changed family;  *)
(* what the operators stamp claims no family, so the selective mode finds  *)
(* none, and the full mode replays every unit without the new environment. *)
(***************************************************************************)
BeginRevalidate ==
    \E targets \in {{}, DOMAIN units} : BeginOn("revalidate", targets)

Busy(name) == status = "busy" /\ op = name

InOrder(i) == i \in left /\ \A j \in left : i <= j

Proceeds(i) ==
    /\ left' = left \ {i}
    /\ UNCHANGED <<world, episodes, sources, candidates, proposed, services, op,
                   products, applied, status>>

\* A unit added at once, or kept for the end.
Yields(unit, runs) ==
    /\ units' = Append(units, unit) /\ ledger' = ledger + runs
    /\ executed' = executed + runs
    /\ UNCHANGED <<batch, bill>>

Collects(unit, runs) ==
    /\ batch' = Append(batch, unit) /\ bill' = bill + runs
    /\ executed' = executed + runs
    /\ UNCHANGED <<units, ledger>>

PairedReplay ==
    /\ Busy("paired_replay")
    /\ \E i \in left : LET c == candidates[i] IN
        /\ InOrder(i) /\ Completes(c, "own") /\ Proceeds(i)
        /\ memo' = memo \cup {Fork(c)}
        /\ Yields(PairedUnit(c), Runs(c))

\* A worker that has not seen the fork point pays for its control again.
PairedReplayParallel ==
    /\ Busy("paired_replay_parallel")
    /\ \E i \in left : LET c == candidates[i] IN
        /\ InOrder(i) /\ Completes(c, store) /\ Proceeds(i)
        /\ memo' = memo \cup {Fork(c)}
        /\ \E control \in {ControlRuns(c), 1} :
              Collects(PairedUnit(c), control + IntervenedRuns(c))

\* One intervened run, no control, and the tier whatever it shows.
StressedUnit(c) ==
    Unit(c, COUNTERFACTUAL_VALIDATED, FALSE, Outcome(c),
         c.ep \in Successful /\ Outcome(c) = "failure")

StressProbe ==
    /\ Busy("stress_probe")
    /\ \E i \in left : LET c == candidates[i] IN
        /\ InOrder(i) /\ Completes(c, "own") /\ Proceeds(i)
        /\ Yields(StressedUnit(c), 1)
        /\ UNCHANGED memo

Skippable(c) == op = "stress_probe" /\ ~Snapshotted(c)

StressSkips ==
    /\ Busy("stress_probe")
    /\ \E i \in left :
        /\ InOrder(i) /\ Skippable(candidates[i]) /\ Proceeds(i)
        /\ UNCHANGED <<units, ledger, executed, memo, batch, bill>>

\* Mutant: one atom needs no replay to be called minimal.
ConfirmedForFree(u) == <<[u EXCEPT !.tier = MINIMAL], 0>>

\* minimize_unit on an intervention of one atom: the unit, and the replays.
Confirmed(u) ==
    <<IF Outcome(u) = "success" THEN [u EXCEPT !.tier = MINIMAL] ELSE u, 1>>

\* The policy picks; a REPRODUCIBLE unit is sliced while the engine is at it.
BudgetScreen ==
    /\ Busy("budget_screen") /\ bill < BudgetReplays
    /\ \E i \in left : LET c == candidates[i] u == PairedUnit(c) IN
        /\ Completes(c, "own") /\ Proceeds(i)
        /\ memo' = memo \cup {Fork(c)}
        /\ IF u.tier >= REPRODUCIBLE
           THEN Collects(Confirmed(u)[1], Runs(c) + Confirmed(u)[2])
           ELSE Collects(u, Runs(c))

\* What slicing costs is charged to the unit, not to the recipe's ledger.
Minimize ==
    /\ Busy("minimize")
    /\ \E i \in left : LET u == units[i] IN
        /\ InOrder(i) /\ Completes(u, "own") /\ Proceeds(i)
        /\ units' = [units EXCEPT ![i] = Confirmed(u)[1]]
        /\ executed' = executed + Confirmed(u)[2]
        /\ UNCHANGED <<ledger, memo, batch, bill>>

\* A unit keeps its tier when its replay still flips, and else is demoted.
Rechecked(u) ==
    IF ~Diverges(u) /\ Flips(u) THEN u ELSE [u EXCEPT !.tier = SUGGESTED]

Revalidate ==
    /\ Busy("revalidate")
    /\ \E i \in left : LET u == units[i] IN
        /\ InOrder(i) /\ Completes(u, "own") /\ Proceeds(i)
        /\ units' = [units EXCEPT ![i] = Rechecked(u)]
        /\ memo' = memo \cup {Fork(u)}
        /\ executed' = executed + Runs(u)
        /\ UNCHANGED <<ledger, batch, bill>>

\* The blobs an operator's replays restore from.
BlobsOf(name) == IF name = "paired_replay_parallel" THEN store ELSE "own"

\* What ran before a replay raised: at most its control.
RunsBefore(t, blobs) ==
    IF Restores(t, blobs) /\ op \notin Uncontrolled THEN ControlRuns(t) ELSE 0

ReplayRaises ==
    /\ status = "busy" /\ (op = "budget_screen" => bill < BudgetReplays)
    /\ \E i \in left : LET t == IF op \in OnUnits THEN units[i] ELSE candidates[i] IN
        /\ op = "budget_screen" \/ InOrder(i)
        /\ ~Completes(t, BlobsOf(op)) /\ ~Skippable(t)
        /\ status' = "raised"
        /\ executed' = executed + RunsBefore(t, BlobsOf(op))
        /\ UNCHANGED <<world, context, services, op, progress, products, applied>>

\* Mutant: validated candidates stay where they were.
RemainingAll == candidates

\* Mutant: every operator that executes clears them.
RemainingNone == <<>>

\* What is left to validate when op ends.
Remaining == IF op \in OnCandidates THEN <<>> ELSE candidates

Finish ==
    /\ status = "busy"
    /\ left = {} \/ (op = "budget_screen" /\ bill >= BudgetReplays)
    /\ status' = "idle" /\ op' = "none"
    /\ candidates' = Remaining
    /\ units' = units \o batch /\ ledger' = ledger + bill
    /\ left' = {} /\ memo' = {} /\ batch' = <<>> /\ bill' = 0
    /\ UNCHANGED <<world, episodes, sources, proposed, executed, services,
                   products, applied>>
-----------------------------------------------------------------------------
(***************************************************************************)
(* Operators that shape the units.                                         *)
(***************************************************************************)
Shape(us) ==
    /\ AtOnce
    /\ units' = us
    /\ UNCHANGED <<episodes, sources, candidates, ledger, proposed, services, products>>

FilterUnits ==
    \/ \E t \in {COUNTERFACTUAL_VALIDATED, MINIMAL} :
          Shape(Picked(units, {i \in DOMAIN units : units[i].tier >= t}))
    \/ Shape(Picked(units, {i \in DOMAIN units : units[i].flipped}))

\* Mutant: what a unit's intervention led to is not part of it.
SignatureOfEdit(u) == <<u.ep, u.iv.target_step, Type(u.iv)>>

\* One datum: an episode, a step, a kind of edit and its outcome.
Signature(u) == <<u.ep, u.iv.target_step, Type(u.iv), u.outcome>>

\* The first unit of each signature stays.
Deduped(us) ==
    Picked(us, {i \in DOMAIN us : \A j \in 1..(i - 1) : Signature(us[j]) # Signature(us[i])})

DedupeUnits == Shape(Deduped(units))

\* n units, in the order of the digests of their ids.
SampleUnits ==
    \E n \in {0, 1, 2} :
      \E pick \in [1..n -> DOMAIN units] :
        /\ \A j, k \in 1..n : pick[j] = pick[k] => j = k
        /\ Shape([j \in 1..n |-> units[pick[j]]])
-----------------------------------------------------------------------------
(***************************************************************************)
(* Operators that write files.                                             *)
(***************************************************************************)
Exportable == {u \in Elements(units) : Validated(u)}

Export(kind) ==
    /\ AtOnce
    /\ exports' = [exports EXCEPT ![kind] = Exportable]
    /\ UNCHANGED <<context, services, saved>>

ExportViews == Export("views")
ExportTRL   == Export("trl")

SaveRun ==
    /\ AtOnce
    /\ saved' = Run(units)
    /\ UNCHANGED <<context, services, exports>>

\* report reads a saved run, and saves one only when there is none.
Report ==
    \/ ~saved.exists /\ SaveRun
    \/ /\ saved.exists
       /\ AtOnce /\ UNCHANGED <<context, services, products>>

Next ==
    \/ CollectToy \/ LoadRun \/ ImportTraces
    \/ \E name \in DOMAIN Table \ {"toy"} : AddSource(name)
    \/ ScreenFailures \/ Attribute \/ NothingSupplied \/ Refine
    \/ BeginOnCandidates \/ BeginMinimize \/ BeginRevalidate
    \/ PairedReplay \/ PairedReplayParallel \/ StressProbe \/ StressSkips
    \/ BudgetScreen \/ Minimize \/ Revalidate \/ ReplayRaises \/ Finish
    \/ FilterUnits \/ DedupeUnits \/ SampleUnits
    \/ ExportViews \/ ExportTRL \/ SaveRun \/ Report

Spec == Init /\ [][Next]_vars
-----------------------------------------------------------------------------
(***************************************************************************)
(* Whatever a recipe did, an exported or saved unit with a validated tier  *)
(* and a control that matched is a case that passes when                   *)
(* RunStore.replay_regression_case runs it on the saved run that has its   *)
(* episode: the snapshot is there, its tree is in the run's own blobs, the *)
(* control still fails, the intervened branch still succeeds.  save_run    *)
(* copies no trees: a unit of a loaded episode, whose tree is in the       *)
(* loaded run, is excused for that and for nothing else; its case raises   *)
(* where it was saved, and passes on the loaded run's blobs.               *)
(***************************************************************************)
Exported == exports["views"] \cup exports["trl"] \cup Elements(saved.units)

CasePasses(u, blobs) ==
    /\ Restores(u, blobs)
    /\ ~Diverges(u) /\ u.ep \notin Successful
    /\ Candidate(u.ep, u.iv) \notin Unappliable /\ Outcome(u) = "success"

ExportedCasesReplay ==
    \A u \in Exported : Validated(u) /\ u.matched /\ u.ep \in saved.episodes =>
        CasePasses(u, "own") \/ (u.ep \in Elements(Old) /\ CasePasses(u, "old"))

(***************************************************************************)
(* Interventional operators are the only way up the ladder: no unit has a  *)
(* validated tier that it did not have before, unless the step executed a  *)
(* branch.                                                                 *)
(***************************************************************************)
Evidence ==
    {<<u.no, u.tier>> : u \in {x \in Elements(units) \cup Elements(batch) : Validated(x)}}

EvidenceCostsReplays == [][Evidence' \subseteq Evidence \/ executed' > executed]_vars

(***************************************************************************)
(* Every proposal is answered by at most one unit, and while it waits by   *)
(* none: no operator validates again what another one has validated.       *)
(***************************************************************************)
Waiting == IF status # "idle" /\ op \in OnCandidates THEN left ELSE DOMAIN candidates

ProposalsAnsweredOnce ==
    LET answered == units \o batch IN
    /\ \A j, k \in DOMAIN answered : answered[j].no = answered[k].no => j = k
    /\ \A i \in Waiting : \A j \in DOMAIN answered : candidates[i].no # answered[j].no

(***************************************************************************)
(* dedupe_units keeps the first of the units that look alike, whatever     *)
(* their tiers: where controls reproduce, no episode loses its last        *)
(* validated correction to it.                                             *)
(***************************************************************************)
Corrected ==
    {u.ep : u \in {x \in Elements(units) :
                     /\ Validated(x) /\ ~Diverges(x)
                     /\ x.ep \notin Successful /\ x.outcome = "success"}}

DedupeKeepsCorrections == [][DedupeUnits => Corrected' = Corrected]_vars

(***************************************************************************)
(* No proposal is lost: over operators in any order each is waiting or has *)
(* its unit, of the same episode and intervention, until a stress probe    *)
(* skips it for want of a snapshot, a screening ends with its budget spent *)
(* before it, a unit is shaped away, or the recipe raises.                 *)
(***************************************************************************)
Proposal(x) == [ep |-> x.ep, iv |-> x.iv, no |-> x.no]

Answered == {Proposal(u) : u \in Elements(units) \cup Elements(batch)}

Open == {Proposal(candidates[i]) : i \in Waiting} \cup Answered

ProposalsAreKept ==
    [][\A p \in Open \ Open' :
          \/ op = "stress_probe" /\ p \notin Answered /\ ~Snapshotted(p)
          \/ op = "budget_screen" /\ p \notin Answered /\ bill >= BudgetReplays
          \/ p \in Answered /\ (FilterUnits \/ DedupeUnits \/ SampleUnits)
          \/ status' = "raised"]_vars

(***************************************************************************)
(* What the exporters say of their rows: each is a correction, of an       *)
(* episode that failed, by an intervention that succeeded.                 *)
(***************************************************************************)
ExportsAreCorrections ==
    \A u \in exports["views"] : u.ep \notin Successful /\ u.outcome = "success"
=============================================================================
