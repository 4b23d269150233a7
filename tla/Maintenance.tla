------------------------------ MODULE Maintenance ------------------------------
(***************************************************************************)
(* run_version_event: the environment of one family of tasks changes, and  *)
(* the validated units of a corpus are replayed, once those whose claims   *)
(* the change touches (selective), once all of them (full).  Each mode     *)
(* loads the stored units afresh; nothing is saved back.                   *)
(*                                                                         *)
(* Environments are deterministic here: whether a control reproduces and   *)
(* whether an edit flips is a fact of the episode and the version.         *)
(***************************************************************************)
EXTENDS Integers, Sequences, FiniteSets, Functions

CONSTANTS
    Families, Versions,
    Today,        \* family -> what its recorded environment holds
    Eps,          \* the base run's episodes, in the order they were saved
    Length,       \* episode -> the number of its steps
    TaskOf,       \* episode, of the base or of a pool run -> its task
    FamilyOf,     \* task -> family_of_task
    Units,        \* the units of the base and pool runs in the order they
                  \* are loaded: the episode and the edit of each
    StepOf,       \* edit -> the step it replaces
    NRepro,
    NoClaim,      \* a validated unit from before claims were stamped
    Weak          \* a unit that is not validated

BaseEps == Range(Eps)

Edits == {Units[i].edit : i \in DOMAIN Units}

ASSUME MaintenanceAssumption ==
    /\ Today \in [Families -> Versions]
    /\ Units \in Seq(Range(Units))
    /\ Length \in [BaseEps -> Nat]
    /\ BaseEps \subseteq DOMAIN TaskOf
    /\ FamilyOf \in [Range(TaskOf) -> Families]
    /\ \A i \in DOMAIN Units : TaskOf[Units[i].episode] \in
          {TaskOf[e] : e \in BaseEps}
    /\ StepOf \in [Edits -> Nat]
    /\ NRepro \in Nat
    /\ {NoClaim, Weak} \cap Versions = {}

Family(e) == FamilyOf[TaskOf[e]]

Modes == <<"selective", "full">>

VARIABLES
    reproduces,   \* <<episode, step, version>>: the failure reproduces
    works,        \* <<episode, edit, version>>: the edit flips the outcome
    stored,       \* each unit in its file: its claim, NoClaim or Weak
    event,        \* the changed family and its new version
    mode,         \* the pass under way, an index of Modes
    pool,         \* the units of this pass
    next,         \* the one to be replayed next
    memo,         \* this pass's control_cache: <<episode, step>> -> match
    report,       \* mode -> what was confirmed, demoted, replayed
    raised

world == <<reproduces, works, stored, event>>
eventVars == <<world, mode, pool, next, memo, report, raised>>

Empty == [confirmed |-> {}, demoted |-> {}, replays |-> 0]

(* by_task keeps the last of a task's episodes.                            *)
EpisodeFor(t) ==
    LET ofTask == {i \in DOMAIN Eps : TaskOf[Eps[i]] = t} IN
    Eps[CHOOSE i \in ofTask : \A j \in ofTask : j <= i]

(* Where load_pooled_units puts a unit.                                    *)
Home(i) == EpisodeFor(TaskOf[Units[i].episode])

(* Its claim as it is, or as enrich_dependency_claims fills it in.         *)
Loaded(i) ==
    [unit |-> i, episode |-> Home(i), edit |-> Units[i].edit,
     claim |-> IF stored[i] = NoClaim THEN Today[Family(Home(i))] ELSE stored[i]]

(* Validated units; the first of those with one episode and one edit.      *)
Pooled ==
    {i \in DOMAIN Units :
        /\ stored[i] # Weak
        /\ \A j \in 1..(i - 1) :
              <<Home(j), Units[j].edit>> = <<Home(i), Units[i].edit>> =>
                  stored[j] = Weak}

Current == [Today EXCEPT ![event.family] = event.version]

(* Mutant: only the changed family's units can have drifted.               *)
NeedsRevalidationOfFamily(u) ==
    Family(u.episode) = event.family /\ Current[event.family] # u.claim

NeedsRevalidation(u) == Current[Family(u.episode)] # u.claim

Targets(m) ==
    LET all == {Loaded(i) : i \in Pooled} IN
    IF m = "selective" THEN {u \in all : NeedsRevalidation(u)} ELSE all

(* The targets in the order of the list.                                   *)
InOrder(us) ==
    [k \in 1..Cardinality(us) |->
        CHOOSE u \in us : Cardinality({x \in us : x.unit < u.unit}) = k - 1]

(* The trials that a unit can be put to, and whether unit i was made on    *)
(* the episode it is loaded onto.                                          *)
Trials ==
    {t \in {<<Home(i), Units[i].edit>> : i \in DOMAIN Units} :
        StepOf[t[2]] < Length[t[1]]}

Native(i) == Units[i].episode = Home(i)

(* What a stored unit says was true of its episode when it was stored; one *)
(* without a claim is from before its environment changed.                 *)
Consistent ==
    \A i \in DOMAIN Units : LET u == Units[i] IN
        Native(i) /\ stored[i] # Weak =>
            /\ StepOf[u.edit] < Length[u.episode]
            /\ <<u.episode, StepOf[u.edit], Loaded(i).claim>> \in reproduces
            /\ <<u.episode, u.edit, Loaded(i).claim>> \in works

EventInit ==
    /\ stored \in [DOMAIN Units -> Versions \cup {NoClaim, Weak}]
    /\ reproduces \in SUBSET
           {<<t[1], StepOf[t[2]], v>> : t \in Trials, v \in Versions}
    /\ works \in SUBSET {<<t[1], t[2], v>> : t \in Trials, v \in Versions}
    /\ Consistent
    /\ event \in [family : Families, version : Versions]
    /\ event.version # Today[event.family]
    /\ mode = 0
    /\ pool = <<>>
    /\ next = 1
    /\ memo = <<>>
    /\ report = [m \in Range(Modes) |-> Empty]
    /\ raised = FALSE

-----------------------------------------------------------------------------
(* The next mode loads its own copies, and starts an empty control cache.  *)
BeginMode ==
    /\ ~raised
    /\ next > Len(pool)
    /\ mode < Len(Modes)
    /\ mode' = mode + 1
    /\ pool' = InOrder(Targets(Modes[mode + 1]))
    /\ next' = 1
    /\ memo' = <<>>
    /\ UNCHANGED <<world, report, raised>>

(* Mutant: the new interpreter is not written into the workspace.          *)
EnvironmentRecorded(u) == Today[Family(u.episode)]

(* prep writes the new interpreter into the workspace of an affected unit; *)
(* any other is replayed where its pointer leads.                          *)
Environment(u) ==
    IF Family(u.episode) = event.family THEN event.version
    ELSE Today[Family(u.episode)]

ForkPoint(u) == <<u.episode, StepOf[u.edit]>>

Control(u) ==
    IF ForkPoint(u) \in DOMAIN memo THEN memo[ForkPoint(u)]
    ELSE <<u.episode, StepOf[u.edit], Environment(u)>> \in reproduces

Flips(u) == <<u.episode, u.edit, Environment(u)>> \in works

(* Control, first run and reproduction runs, as early stopping leaves them.*)
Replays(u) ==
    (IF ForkPoint(u) \in DOMAIN memo THEN 0 ELSE 1)
    + (IF ~Control(u) THEN 0
       ELSE IF Flips(u) /\ NRepro > 1 THEN NRepro ELSE 1)

(* With n_repro = 0 one flip is counted against no run.                    *)
Confirmed(u) == Control(u) /\ Flips(u) /\ NRepro # 0

Outcome(r, u) ==
    [confirmed |-> IF Confirmed(u) THEN r.confirmed \cup {u.unit} ELSE r.confirmed,
     demoted |-> IF Confirmed(u) THEN r.demoted ELSE r.demoted \cup {u.unit},
     replays |-> r.replays + Replays(u)]

(* revalidate's loop: one unit, confirmed or demoted.                      *)
Recheck ==
    LET u == pool[next] IN
    /\ ~raised
    /\ next <= Len(pool)
    /\ StepOf[u.edit] < Length[u.episode]
    /\ report' = [report EXCEPT ![Modes[mode]] = Outcome(@, u)]
    /\ memo' = [f \in DOMAIN memo \cup {ForkPoint(u)} |->
                   IF f = ForkPoint(u) THEN Control(u) ELSE memo[f]]
    /\ next' = next + 1
    /\ UNCHANGED <<world, mode, pool, raised>>

(* The episode has no snapshot of the edit's step: paired_replay raises,   *)
(* and the event is over.                                                  *)
RecheckRaises ==
    /\ ~raised
    /\ next <= Len(pool)
    /\ StepOf[pool[next].edit] >= Length[pool[next].episode]
    /\ raised' = TRUE
    /\ UNCHANGED <<world, mode, pool, next, memo, report>>

EventNext == BeginMode \/ Recheck \/ RecheckRaises

EventSpec == EventInit /\ [][EventNext]_eventVars

-----------------------------------------------------------------------------
Over(m) == ~raised /\ (mode > m \/ (mode = m /\ next > Len(pool)))

(* Selective revalidation demotes every unit that the full one demotes.    *)
(* (The A8 claim, revalidate.py:18-21, for every unit there is.)           *)
SelectiveMissesNothing ==
    Over(2) => report["full"].demoted \subseteq report["selective"].demoted

(* It does for the units made on the episode they are loaded onto: of      *)
(* these the passes demote the same, and the selective one pays for no     *)
(* more replays than the full one, although the two share controls among   *)
(* different units.                                                        *)
PassesAgree ==
    Over(2) =>
        /\ \A i \in report["full"].demoted :
              Native(i) => i \in report["selective"].demoted
        /\ report["selective"].demoted \subseteq report["full"].demoted
        /\ report["selective"].replays <= report["full"].replays

(* After a selective pass, every native unit that it kept, looked at or    *)
(* not, holds in the environment its family has now: the failure           *)
(* reproduces and the edit repairs it.                                     *)
SurvivorsHold ==
    Over(1) =>
        \A i \in Pooled \ report["selective"].demoted :
            LET u == Units[i]
                v == Current[Family(u.episode)] IN
            Native(i) =>
                /\ <<u.episode, StepOf[u.edit], v>> \in reproduces
                /\ <<u.episode, u.edit, v>> \in works
=============================================================================
