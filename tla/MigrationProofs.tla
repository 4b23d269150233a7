---------------------------- MODULE MigrationProofs ----------------------------
(***************************************************************************)
(* The environments that replays run in, for any number of workers,        *)
(* environments and packages, beside a migration of any run: while nothing *)
(* has died or failed, an environment that lacks a package is being built. *)
(* And the trees of the run: the migration, which rewrites them in place   *)
(* and may die anywhere, loses nothing but the pointer it dies at between  *)
(* emptying and writing it; undisturbed, it leaves every row with its own  *)
(* tree; and what it upgrades asks for environments that were built.       *)
(***************************************************************************)
EXTENDS Migration, FiniteSetTheorems, TLAPS

Positions == {"idle", "restore", "venv", "install", "fill", "run", "raised"}

(* The shape of what resolve_python and ensure share.                      *)
Shape ==
    /\ python \subseteq Names
    /\ site \in [Names -> SUBSET Packages]
    /\ ready \in [Names -> Marker]
    /\ work \in [Workers -> [pc : Positions, env : Names \cup {NoEnv}]]
    /\ mishaps \in Nat

(* Every marker tells the truth, those of workers about to write one       *)
(* included, and an interpreter without its packages is somebody's work.   *)
MarkersHold ==
    /\ \A n \in Names : ready[n] # "absent" => Built(n)
    /\ \A w \in Workers : work[w].pc = "fill" => Built(work[w].env)
    /\ \A w \in Workers : work[w].pc \in {"venv", "install", "fill"} =>
           work[w].env \in Names

NothingHalfBuilt ==
    \A n \in python : Built(n) \/ n \in Building \/ mishaps > 0

IInv == Shape /\ MarkersHold /\ NothingHalfBuilt /\ RunsInBuiltEnv

-----------------------------------------------------------------------------
LEMMA Moving ==
    ASSUME Shape, NEW w \in Workers, NEW pc \in Positions,
           NEW n \in Names \cup {NoEnv}, WorkerAt(w, pc, n)
    PROVE  /\ work' \in [Workers -> [pc : Positions, env : Names \cup {NoEnv}]]
           /\ work'[w].pc = pc /\ work'[w].env = n
           /\ \A x \in Workers \ {w} : work'[x] = work[x]
BY DEF Shape, WorkerAt

LEMMA InitInvariant == Init => IInv
<1> SUFFICES ASSUME Init PROVE IInv
  OBVIOUS
<1>1. /\ python \subseteq Names
      /\ site = [n \in Names |-> IF n \in python THEN Requested[n] ELSE {}]
      /\ ready = [n \in Names |-> IF n \in python THEN "filled" ELSE "absent"]
      /\ mishaps = 0
      /\ work = [w \in Workers |-> [pc |-> "idle", env |-> NoEnv]]
  BY DEF Init, EnvInit
<1>2. Shape
  BY <1>1, EnvAssumption DEF Shape, Marker, Positions
<1>3. \A n \in python : Built(n)
  BY <1>1 DEF Built
<1>4. MarkersHold /\ NothingHalfBuilt /\ RunsInBuiltEnv
  BY <1>1, <1>3 DEF MarkersHold, NothingHalfBuilt, RunsInBuiltEnv
<1> QED
  BY <1>2, <1>4 DEF IInv

(* A worker that builds nothing goes elsewhere: where it runs must be      *)
(* explained, and where it builds must be a name.                          *)
LEMMA WorkerStep ==
    ASSUME IInv, NEW w \in Workers, NEW pc \in Positions,
           NEW n \in Names \cup {NoEnv}, WorkerAt(w, pc, n),
           UNCHANGED <<envs, mishaps>>,
           work[w].pc \notin {"venv", "install", "fill"},
           pc \notin {"install", "fill"},
           pc = "venv" => n \in Names,
           pc = "run" /\ n # NoEnv =>
               n \in python \/ (n \in Names /\ ready[n] # "absent")
    PROVE  IInv'
<1>1. /\ work' \in [Workers -> [pc : Positions, env : Names \cup {NoEnv}]]
      /\ work'[w].pc = pc /\ work'[w].env = n
      /\ \A x \in Workers \ {w} : work'[x] = work[x]
  BY Moving DEF IInv
<1>2. UNCHANGED <<python, site, ready, mishaps>>
  BY DEF envs
<1>3. \A m \in Names : Built(m)' = Built(m)
  BY <1>2 DEF Built
<1>4. \A m \in Building : m \in Building'
  BY <1>1 DEF Building
<1>5. Shape'
  BY <1>1, <1>2 DEF IInv, Shape
<1>6. MarkersHold'
  BY <1>1, <1>2, <1>3 DEF IInv, MarkersHold, Built
<1>7. NothingHalfBuilt'
  BY <1>2, <1>4 DEF IInv, NothingHalfBuilt, Built
<1>8. ASSUME NEW x \in Workers, work'[x].pc = "run", work'[x].env # NoEnv
      PROVE  Built(work[x].env)' \/ (work[x].env \in Building)' \/ mishaps' > 0
  <2>1. CASE x = w
    BY <1>1, <1>2, <1>4, <1>8, <2>1
       DEF IInv, MarkersHold, NothingHalfBuilt, Built
  <2>2. CASE x # w
    BY <1>1, <1>2, <1>4, <1>8, <2>2 DEF IInv, RunsInBuiltEnv, Built
  <2> QED
    BY <2>1, <2>2
<1> QED
  BY <1>5, <1>6, <1>7, <1>8 DEF IInv, RunsInBuiltEnv

LEMMA ReplaySteps ==
    ASSUME IInv, NEW w \in Workers,
           TakeSnapshot(w) \/ Restore(w) \/ NextReplay(w)
    PROVE  IInv'
<1>1. /\ UNCHANGED <<envs, mishaps>>
      /\ work[w].pc \in {"idle", "restore", "run", "raised"}
  BY DEF TakeSnapshot, Restore, NextReplay
<1>2. {"idle", "restore", "venv", "run", "raised"} \subseteq Positions
  BY DEF Positions
<1>3. CASE TakeSnapshot(w)
  <2>1. WorkerAt(w, "restore", NoEnv)
    BY <1>3 DEF TakeSnapshot
  <2> QED
    BY <1>1, <1>2, <2>1, WorkerStep
<1>4. CASE NextReplay(w)
  <2>1. WorkerAt(w, "idle", NoEnv)
    BY <1>4 DEF NextReplay
  <2> QED
    BY <1>1, <1>2, <2>1, WorkerStep
<1>5. CASE Restore(w) /\ \E p : Resolve(w, p)
  <2>1. PICK p : Resolve(w, p)
    BY <1>5
  <2>2. python \subseteq Names
    BY DEF IInv, Shape
  <2>3. CASE WorkerAt(w, "raised", NoEnv)
    BY <1>1, <1>2, <2>3, WorkerStep
  <2>4. CASE WorkerAt(w, "run", NoEnv)
    BY <1>1, <1>2, <2>4, WorkerStep
  <2>5. CASE p.env \in python /\ WorkerAt(w, "run", p.env)
    BY <1>1, <1>2, <2>2, <2>5, WorkerStep
  <2>6. CASE /\ p.env \in Names /\ ready[p.env] = "absent"
             /\ WorkerAt(w, "venv", p.env)
    BY <1>1, <1>2, <2>6, WorkerStep
  <2>7. CASE /\ p.env \in Names /\ ready[p.env] # "absent"
             /\ WorkerAt(w, "run", p.env)
    BY <1>1, <1>2, <2>7, WorkerStep
  <2> QED
    BY <2>1, <2>3, <2>4, <2>5, <2>6, <2>7 DEF Resolve, PathExists, NamesOne
<1>6. CASE WorkerAt(w, "raised", NoEnv)
  BY <1>1, <1>2, <1>6, WorkerStep
<1>7. CASE WorkerAt(w, "run", NoEnv)
  BY <1>1, <1>2, <1>7, WorkerStep
<1> QED
  BY <1>3, <1>4, <1>5, <1>6, <1>7 DEF Restore

-----------------------------------------------------------------------------
(* A step of a build: what it adds stays, and the environment has its      *)
(* packages, or its worker is still building it, or something has failed.  *)
LEMMA BuildStep ==
    ASSUME IInv, NEW w \in Workers,
           NEW pc \in {"install", "fill", "run", "raised"},
           NEW n \in Names \cup {NoEnv}, WorkerAt(w, pc, n),
           work[w].pc \in {"venv", "install", "fill"},
           Shape', MarkersHold',
           mishaps' >= mishaps,
           \A m \in Names : Built(m) => Built(m)',
           python' \subseteq python \cup {work[w].env},
           pc = "raised" => mishaps' > 0,
           pc # "raised" => n = work[w].env,
           pc \in {"fill", "run"} => Built(n)'
    PROVE  IInv'
<1>1. /\ work' \in [Workers -> [pc : Positions, env : Names \cup {NoEnv}]]
      /\ work'[w].pc = pc /\ work'[w].env = n
      /\ \A x \in Workers \ {w} : work'[x] = work[x]
  BY Moving DEF IInv, Positions
<1>2. mishaps \in Nat /\ mishaps' \in Nat /\ python \subseteq Names
      /\ work[w].env \in Names
  BY DEF IInv, Shape, MarkersHold
<1>3. \A m \in Building : m \in Building' \/ Built(m)' \/ mishaps' > 0
  <2>1. ASSUME NEW m \in Building
        PROVE  m \in Building' \/ Built(m)' \/ mishaps' > 0
    <3>1. PICK x \in Workers : work[x].pc \in {"venv", "install", "fill"}
                               /\ work[x].env = m
      BY DEF Building
    <3>2. CASE x # w \/ pc \in {"install", "fill"}
      <4>1. work'[x].pc \in {"venv", "install", "fill"} /\ work'[x].env = m
        BY <1>1, <3>1, <3>2
      <4> QED
        BY <4>1 DEF Building
    <3>3. CASE x = w /\ pc = "run"
      <4>1. m = n /\ Built(n)'
        BY <3>1, <3>3
      <4> QED
        BY <4>1
    <3>4. CASE pc = "raised"
      BY <3>4
    <3> QED
      BY <3>2, <3>3, <3>4
  <2> QED
    BY <2>1
<1>4. work[w].env \in Building
  BY DEF Building
<1>5. NothingHalfBuilt'
  BY <1>2, <1>3, <1>4 DEF IInv, NothingHalfBuilt
<1>6. ASSUME NEW x \in Workers, work'[x].pc = "run", work'[x].env # NoEnv
      PROVE  Built(work[x].env)' \/ (work[x].env \in Building)' \/ mishaps' > 0
  <2>1. CASE x = w
    BY <1>1, <1>6, <2>1 DEF Built
  <2>2. CASE x # w
    <3>1. work'[x] = work[x] /\ work[x].env \in Names
      BY <1>1, <1>2, <1>6, <2>2
    <3>2. Built(work[x].env) \/ work[x].env \in Building \/ mishaps > 0
      BY <1>6, <3>1 DEF IInv, RunsInBuiltEnv
    <3> QED
      BY <1>2, <1>3, <3>1, <3>2 DEF Built
  <2> QED
    BY <2>1, <2>2
<1> QED
  BY <1>5, <1>6 DEF IInv, RunsInBuiltEnv

LEMMA EnsureSteps ==
    ASSUME IInv, NEW w \in Workers, Ensure(w) \/ BuildFails(w)
    PROVE  IInv'
<1> DEFINE n == work[w].env
<1>1. /\ Shape /\ MarkersHold
      /\ work[w].pc \in {"venv", "install", "fill"}
      /\ n \in Names
  BY DEF IInv, MarkersHold, Ensure, Venv, Install, CreateMarker, FillMarker,
         BuildFails
<1>2. {"install", "fill", "run", "raised"} \subseteq Positions
  BY DEF Positions
<1>3. Requested \in [Names -> SUBSET Packages]
  BY EnvAssumption
<1>4. CASE Venv(w)
  <2>1. /\ python' = python \cup {n} /\ WorkerAt(w, "install", n)
        /\ UNCHANGED <<site, ready, mishaps>>
    BY <1>4 DEF Venv
  <2>2. /\ work' \in [Workers -> [pc : Positions, env : Names \cup {NoEnv}]]
        /\ work'[w].pc = "install" /\ work'[w].env = n
        /\ \A x \in Workers \ {w} : work'[x] = work[x]
    BY <1>1, <1>2, <2>1, Moving
  <2>3. Shape'
    BY <1>1, <2>1, <2>2 DEF Shape
  <2>4. MarkersHold' /\ \A m \in Names : Built(m)' = Built(m)
    BY <1>1, <2>1, <2>2 DEF MarkersHold, Built
  <2> QED
    BY <1>1, <2>1, <2>3, <2>4, BuildStep DEF Shape
<1>5. CASE Install(w)
  <2>1. PICK pkg \in Requested[n] \ site[n] :
          site' = [site EXCEPT ![n] = site[n] \cup {pkg}]
    BY <1>5 DEF Install
  <2>2. UNCHANGED <<python, ready, work, mishaps>>
    BY <1>5 DEF Install
  <2>3. Shape'
    BY <1>1, <1>3, <2>1, <2>2 DEF Shape
  <2>4. \A m \in Names : Built(m) => Built(m)'
    BY <1>1, <2>1 DEF Built, Shape
  <2>5. MarkersHold'
    BY <1>1, <2>2, <2>4 DEF MarkersHold
  <2>6. NothingHalfBuilt'
    BY <1>1, <2>2, <2>4 DEF IInv, NothingHalfBuilt, Building, Shape
  <2>7. ASSUME NEW x \in Workers, work[x].pc = "run", work[x].env # NoEnv
        PROVE  Built(work[x].env)' \/ work[x].env \in Building \/ mishaps > 0
    <3>1. work[x].env \in Names
      BY <1>1, <2>7 DEF Shape
    <3>2. Built(work[x].env) => Built(work[x].env)'
      BY <2>2, <2>4, <3>1 DEF Built
    <3> QED
      BY <2>7, <3>2 DEF IInv, RunsInBuiltEnv
  <2>8. RunsInBuiltEnv'
    BY <2>2, <2>7 DEF RunsInBuiltEnv, Building, Built
  <2> QED
    BY <2>3, <2>5, <2>6, <2>8 DEF IInv
<1>6. CASE CreateMarker(w)
  <2>1. /\ Built(n) /\ ready' = [ready EXCEPT ![n] = "created"]
        /\ WorkerAt(w, "fill", n)
        /\ UNCHANGED <<python, site, mishaps>>
    BY <1>6 DEF CreateMarker
  <2>2. /\ work' \in [Workers -> [pc : Positions, env : Names \cup {NoEnv}]]
        /\ work'[w].pc = "fill" /\ work'[w].env = n
        /\ \A x \in Workers \ {w} : work'[x] = work[x]
    BY <1>1, <1>2, <2>1, Moving
  <2>3. Shape'
    BY <1>1, <2>1, <2>2 DEF Shape, Marker
  <2>4. MarkersHold' /\ (\A m \in Names : Built(m)' = Built(m)) /\ Built(n)
    BY <1>1, <2>1, <2>2 DEF MarkersHold, Built, Shape
  <2> QED
    BY <1>1, <2>1, <2>3, <2>4, BuildStep DEF Shape
<1>7. CASE FillMarker(w)
  <2>1. /\ work[w].pc = "fill" /\ ready' = [ready EXCEPT ![n] = "filled"]
        /\ WorkerAt(w, "run", n)
        /\ UNCHANGED <<python, site, mishaps>>
    BY <1>7 DEF FillMarker
  <2>2. /\ work' \in [Workers -> [pc : Positions, env : Names \cup {NoEnv}]]
        /\ work'[w].pc = "run" /\ work'[w].env = n
        /\ \A x \in Workers \ {w} : work'[x] = work[x]
    BY <1>1, <1>2, <2>1, Moving
  <2>3. Shape'
    BY <1>1, <2>1, <2>2 DEF Shape, Marker
  <2>4. MarkersHold' /\ (\A m \in Names : Built(m)' = Built(m)) /\ Built(n)
    BY <1>1, <2>1, <2>2 DEF MarkersHold, Built, Shape
  <2> QED
    BY <1>1, <2>1, <2>3, <2>4, BuildStep DEF Shape
<1>8. CASE BuildFails(w)
  <2>1. /\ mishaps' = mishaps + 1 /\ WorkerAt(w, "raised", NoEnv)
        /\ UNCHANGED <<python, site, ready>>
    BY <1>8 DEF BuildFails, envs
  <2>2. /\ work' \in [Workers -> [pc : Positions, env : Names \cup {NoEnv}]]
        /\ work'[w].pc = "raised" /\ work'[w].env = NoEnv
        /\ \A x \in Workers \ {w} : work'[x] = work[x]
    BY <1>1, <1>2, <2>1, Moving
  <2>3. Shape' /\ mishaps' >= mishaps /\ mishaps' > 0
    BY <1>1, <2>1, <2>2 DEF Shape
  <2>4. MarkersHold' /\ \A m \in Names : Built(m)' = Built(m)
    BY <1>1, <2>1, <2>2 DEF MarkersHold, Built
  <2> QED
    BY <1>1, <2>1, <2>3, <2>4, BuildStep
<1> QED
  BY <1>4, <1>5, <1>6, <1>7, <1>8 DEF Ensure

(* A migrator touches no environment; when it dies that is counted.        *)
LEMMA ElsewhereStep ==
    ASSUME IInv, UNCHANGED <<envs, work>>, mishaps' \in {mishaps, mishaps + 1}
    PROVE  IInv'
<1>1. UNCHANGED <<python, site, ready, work>>
  BY DEF envs
<1>2. mishaps \in Nat /\ (mishaps > 0 => mishaps' > 0)
  BY DEF IInv, Shape
<1>3. Shape' /\ MarkersHold'
  BY <1>1, <1>2 DEF IInv, Shape, MarkersHold, Built
<1>4. NothingHalfBuilt' /\ RunsInBuiltEnv'
  BY <1>1, <1>2 DEF IInv, NothingHalfBuilt, RunsInBuiltEnv, Building, Built
<1> QED
  BY <1>3, <1>4 DEF IInv

LEMMA StepInvariant == IInv /\ [Next]_vars => IInv'
<1> SUFFICES ASSUME IInv, [Next]_vars PROVE IInv'
  OBVIOUS
<1>1. ASSUME NEW m \in Migrators, Migrate(m) PROVE IInv'
  <2>1. UNCHANGED <<envs, work>> /\ mishaps' \in {mishaps, mishaps + 1}
    BY <1>1 DEF Migrate, Begin, Scan, Load, Truncate, WritePointer, Rename,
                Open, Close, Crash, Again
  <2> QED
    BY <2>1, ElsewhereStep
<1>2. ASSUME NEW w \in Workers, Replay(w) PROVE IInv'
  BY <1>2, ReplaySteps, EnsureSteps DEF Replay
<1>3. CASE UNCHANGED vars
  BY <1>3, ElsewhereStep DEF vars
<1> QED
  BY <1>1, <1>2, <1>3 DEF Next

(* No replay runs in an environment that lacks a package of its pins,      *)
(* unless somebody is building that environment or something has failed:   *)
(* resolve_python and ensure, raced by any number of workers.              *)
THEOREM ReplaysRunInBuiltEnvs == Spec => []RunsInBuiltEnv
<1>1. IInv => RunsInBuiltEnv
  BY DEF IInv
<1> QED
  BY <1>1, InitInvariant, StepInvariant, PTL DEF Spec

-----------------------------------------------------------------------------
(* That no tree is lost needs who is writing which pointer, and that a     *)
(* pointer found torn by a migration is one that nobody is writing.        *)
IsMig(r) ==
    r = [pc |-> r.pc, known |-> r.known, todo |-> r.todo, at |-> r.at,
         map |-> r.map, file |-> r.file, rows |-> r.rows]

Handling(m) ==
    LET r == mig[m] IN
    /\ r.pc \in {"truncate", "write", "rename"} => r.at \in DOMAIN stored
    /\ r.pc = "truncate" => stored[r.at].ptr.whole
    /\ r.pc = "write" => /\ ~stored[r.at].ptr.whole
                         /\ r.rows[1] \in Pointers /\ r.rows[1].whole

(* Some tree of the store is what the row named, or is getting its pointer *)
(* back with the same environment, or never will.                          *)
Kept(r) ==
    \E d \in DOMAIN stored :
        \/ Matches(stored[d], r)
        \/ /\ stored[d] = WithPointer(Original[r].of, TornPointer)
           /\ \A m \in Migrators : mig[m].pc = "write" /\ mig[m].at = d =>
                 mig[m].rows[1].env = Original[r].of.ptr.env

MigShape ==
    /\ mig = [m \in Migrators |-> mig[m]]
    /\ \A m \in Migrators : IsMig(mig[m])
    /\ stored = [d \in DOMAIN stored |-> stored[d]]
    /\ \A d \in DOMAIN stored : stored[d] \in Trees

KInv ==
    /\ MigShape
    /\ \A m \in Migrators : Handling(m)
    /\ \A r \in Snaps \cup Eps : Kept(r)

LEMMA Pointing ==
    ASSUME NEW t \in Trees, NEW p \in Pointers
    PROVE  /\ WithPointer(t, p) \in Trees
           /\ WithPointer(t, p).base = t.base
           /\ WithPointer(t, p).ptr = p
           /\ \A u \in Trees : u.base = t.base =>
                  WithPointer(u, p) = WithPointer(t, p)
BY DEF Trees, WithPointer

LEMMA PointerFields ==
    ASSUME NEW p \in Pointers
    PROVE  /\ [p EXCEPT !.named = TRUE] \in Pointers
           /\ [p EXCEPT !.named = TRUE].env = p.env
           /\ p.whole => [p EXCEPT !.named = TRUE].whole
           /\ [p EXCEPT !.here = TRUE] \in Pointers
           /\ [p EXCEPT !.here = TRUE].env = p.env
           /\ p.whole => [p EXCEPT !.here = TRUE].whole
           /\ [p EXCEPT !.whole = FALSE] \in Pointers
           /\ ~[p EXCEPT !.whole = FALSE].whole
BY DEF Pointers

LEMMA PointerValues ==
    /\ TornPointer \in Pointers /\ ~TornPointer.whole
    /\ \A p \in Pointers : /\ Upgraded(p) \in Pointers
                           /\ Upgraded(p).env = p.env
                           /\ p.whole => Upgraded(p).whole
<1>1. NoPointer \in Pointers
  BY DEF NoPointer, Pointers
<1>2. TornPointer \in Pointers /\ ~TornPointer.whole
  BY <1>1, PointerFields DEF TornPointer
<1>3. ASSUME NEW p \in Pointers
      PROVE  /\ Upgraded(p) \in Pointers
             /\ Upgraded(p).env = p.env
             /\ p.whole => Upgraded(p).whole
  <2> DEFINE q == [p EXCEPT !.named = TRUE]
  <2>1. q \in Pointers /\ q.env = p.env /\ (p.whole => q.whole)
    BY PointerFields
  <2>2. Upgraded(p) = [q EXCEPT !.here = TRUE]
    BY DEF Upgraded
  <2> HIDE DEF q
  <2> QED
    BY <2>1, <2>2, PointerFields
<1> QED
  BY <1>2, <1>3

LEMMA Originals ==
    ASSUME NEW r \in Snaps \cup Eps
    PROVE  /\ Original[r] \in Range(Original)
           /\ Original[r].of \in Trees
           /\ Original[r].of.ptr.whole
BY MigrationAssumption DEF Range, Digests

(* One part of what a migrator holds.                                      *)
LEMMA Updating ==
    ASSUME NEW r, IsMig(r), NEW v
    PROVE  /\ IsMig(Goto(r, v)) /\ Goto(r, v).pc = v
           /\ Goto(r, v).at = r.at /\ Goto(r, v).rows = r.rows
           /\ IsMig(AtTree(r, v)) /\ AtTree(r, v).at = v
           /\ AtTree(r, v).rows = r.rows
           /\ IsMig(WithRows(r, v)) /\ WithRows(r, v).rows = v
           /\ WithRows(r, v).at = r.at /\ WithRows(r, v).pc = r.pc
           /\ IsMig(Knowing(r, v)) /\ IsMig(WithTodo(r, v))
           /\ WithTodo(r, v).pc = r.pc /\ Knowing(r, v).pc = r.pc
           /\ IsMig(WithMap(r, v)) /\ WithMap(r, v).rows = r.rows
           /\ IsMig(AtFile(r, v))
BY DEF IsMig, Goto, AtTree, WithRows, Knowing, WithTodo, WithMap, AtFile

LEMMA Idling == ASSUME NEW pc PROVE IsMig(Idle(pc)) /\ Idle(pc).pc = pc
BY DEF IsMig, Idle

LEMMA Stepping ==
    ASSUME MigShape, NEW m \in Migrators, NEW r, IsMig(r), Step(m, r)
    PROVE  /\ mig' = [x \in Migrators |-> mig'[x]]
           /\ \A x \in Migrators : x = m /\ IsMig(mig'[x])
           /\ mig'[m] = r
BY MigrationAssumption DEF MigShape, Step

LEMMA KeptAtFirst == Init => KInv
<1> SUFFICES ASSUME Init PROVE KInv
  OBVIOUS
<1>1. /\ stored = [d \in Range(Original) |-> d.of]
      /\ mig = [m \in Migrators |-> Idle("idle")]
  BY DEF Init
<1>2. \A d \in Range(Original) : d.of \in Trees
  BY MigrationAssumption DEF Range, Digests
<1>3. MigShape /\ \A m \in Migrators : mig[m].pc = "idle"
  BY <1>1, <1>2, Idling DEF MigShape
<1>4. \A m \in Migrators : Handling(m)
  BY <1>3 DEF Handling
<1>5. ASSUME NEW r \in Snaps \cup Eps PROVE Kept(r)
  <2>1. /\ Original[r] \in DOMAIN stored
        /\ stored[Original[r]] = Original[r].of
        /\ Original[r].of.ptr.whole
    BY <1>1, Originals
  <2> QED
    BY <2>1 DEF Kept, Matches
<1> QED
  BY <1>3, <1>4, <1>5 DEF KInv

(* A step that leaves the store alone and does not begin to write.         *)
LEMMA StoreUntouched ==
    ASSUME KInv, NEW m \in Migrators, NEW r, IsMig(r), Step(m, r),
           UNCHANGED stored,
           r.pc \notin {"write", "rename"},
           r.pc = "truncate" => r.at \in DOMAIN stored /\ stored[r.at].ptr.whole
    PROVE  KInv'
<1>1. /\ MigShape'
      /\ mig'[m] = r
      /\ \A x \in Migrators : x = m
  BY Stepping DEF KInv, MigShape
<1>2. \A x \in Migrators : Handling(x)'
  BY <1>1 DEF Handling
<1>3. ASSUME NEW q \in Snaps \cup Eps PROVE Kept(q)'
  BY <1>1 DEF KInv, Kept, Matches
<1> QED
  BY <1>1, <1>2, <1>3 DEF KInv

LEMMA BeginsAndEnds ==
    ASSUME KInv, NEW m \in Migrators,
           Begin(m) \/ Load(m) \/ Open(m) \/ Close(m) \/ Crash(m) \/ Again(m)
    PROVE  KInv'
<1>1. IsMig(mig[m])
  BY DEF KInv, MigShape
<1>2. CASE Begin(m)
  <2>1. PICK r : Step(m, r) /\ IsMig(r) /\ r.pc \in {"raised", "scan"}
    BY <1>2, Updating, Idling DEF Begin
  <2> QED
    BY <1>2, <2>1, StoreUntouched DEF Begin
<1>3. CASE Load(m)
  <2>1. PICK r : Step(m, r) /\ IsMig(r) /\ r.pc \in {"raised", "open"}
    <3>1. \/ Step(m, Idle("raised"))
          \/ \E rows : Step(m, WithRows(Idle("open"), rows))
      BY <1>3 DEF Load
    <3> QED
      BY <3>1, Updating, Idling
  <2> QED
    BY <1>3, <2>1, StoreUntouched DEF Load
<1>4. CASE Open(m)
  <2>1. PICK r : Step(m, r) /\ IsMig(r) /\ r.pc = "close"
    BY <1>1, <1>4, Updating DEF Open
  <2> QED
    BY <1>4, <2>1, StoreUntouched DEF Open
<1>5. CASE Close(m)
  <2>1. PICK r : Step(m, r) /\ IsMig(r) /\ r.pc \in {"done", "open"}
    BY <1>1, <1>5, Updating, Idling DEF Close
  <2> QED
    BY <1>5, <2>1, StoreUntouched DEF Close
<1>6. CASE Crash(m) \/ Again(m)
  <2>1. PICK r : Step(m, r) /\ IsMig(r) /\ r.pc \in {"raised", "idle"}
    BY <1>6, Idling DEF Crash, Again
  <2> QED
    BY <1>6, <2>1, StoreUntouched DEF Crash, Again
<1> QED
  BY <1>2, <1>3, <1>4, <1>5, <1>6

LEMMA Scanning == ASSUME KInv, NEW m \in Migrators, Scan(m) PROVE KInv'
<1>1. IsMig(mig[m]) /\ mig[m].pc = "scan" /\ UNCHANGED stored
  BY DEF Scan, KInv, MigShape
<1>2. PICK d \in mig[m].todo :
        \/ Step(m, Idle("raised"))
        \/ /\ Step(m, Goto(AtTree(WithTodo(mig[m], mig[m].todo \ {d}), d),
                           "truncate"))
           /\ d \in DOMAIN stored /\ stored[d].ptr.whole
        \/ Step(m, WithTodo(mig[m], mig[m].todo \ {d}))
  BY DEF Scan
<1> DEFINE rest == WithTodo(mig[m], mig[m].todo \ {d})
           found == Goto(AtTree(rest, d), "truncate")
<1>3. IsMig(rest) /\ rest.pc = "scan"
  BY <1>1, Updating
<1>4. IsMig(found) /\ found.pc = "truncate" /\ found.at = d
  BY <1>3, Updating
<1> QED
  BY <1>1, <1>2, <1>3, <1>4, Idling, StoreUntouched

(* A step that gives one tree another pointer.                             *)
LEMMA Rewriting ==
    ASSUME KInv, NEW m \in Migrators, NEW r, IsMig(r), Step(m, r),
           NEW d \in DOMAIN stored, NEW t \in Trees,
           stored' = [stored EXCEPT ![d] = t]
    PROVE  /\ MigShape' /\ mig'[m] = r
           /\ \A x \in Migrators : x = m
           /\ DOMAIN stored' = DOMAIN stored
           /\ stored'[d] = t
           /\ \A e \in DOMAIN stored \ {d} : stored'[e] = stored[e]
<1>1. /\ mig' = [x \in Migrators |-> mig'[x]]
      /\ \A x \in Migrators : x = m /\ IsMig(mig'[x])
      /\ mig'[m] = r
  BY Stepping DEF KInv
<1>2. stored' = [e \in DOMAIN stored |-> IF e = d THEN t ELSE stored[e]]
  BY DEF KInv, MigShape
<1>3. /\ DOMAIN stored' = DOMAIN stored
      /\ stored'[d] = t
      /\ \A e \in DOMAIN stored \ {d} : stored'[e] = stored[e]
  BY <1>2
<1>4. stored' = [e \in DOMAIN stored' |-> stored'[e]]
  BY <1>2
<1>5. \A e \in DOMAIN stored' : stored'[e] \in Trees
  BY <1>3 DEF KInv, MigShape
<1>6. MigShape'
  BY <1>1, <1>4, <1>5 DEF MigShape, IsMig
<1> QED
  BY <1>1, <1>3, <1>6

LEMMA Truncating == ASSUME KInv, NEW m \in Migrators, Truncate(m) PROVE KInv'
<1> DEFINE d == mig[m].at
           ptr == stored[d].ptr
           new == Goto(WithRows(mig[m], <<Upgraded(ptr)>>), "write")
           torn == WithPointer(stored[d], TornPointer)
<1>1. /\ IsMig(mig[m]) /\ mig[m].pc = "truncate"
      /\ d \in DOMAIN stored /\ ptr.whole
      /\ stored[d] \in Trees /\ ptr \in Pointers
      /\ stored' = [stored EXCEPT ![d] = torn]
      /\ Step(m, new)
  BY DEF Truncate, KInv, MigShape, Handling, Trees
<1>2. /\ IsMig(new) /\ new.pc = "write" /\ new.at = d
      /\ new.rows[1] = Upgraded(ptr)
  BY <1>1, Updating
<1>3. /\ torn \in Trees /\ ~torn.ptr.whole
      /\ Upgraded(ptr) \in Pointers /\ Upgraded(ptr).whole
      /\ Upgraded(ptr).env = ptr.env
  BY <1>1, Pointing, PointerValues
<1> HIDE DEF new, torn
<1>4. /\ DOMAIN stored' = DOMAIN stored
      /\ stored'[d] = torn
      /\ \A e \in DOMAIN stored \ {d} : stored'[e] = stored[e]
      /\ MigShape' /\ mig'[m] = new
      /\ \A x \in Migrators : x = m
  BY <1>1, <1>2, <1>3, Rewriting
<1>5. \A x \in Migrators : Handling(x)'
  BY <1>1, <1>2, <1>3, <1>4 DEF Handling
<1>6. ASSUME NEW r \in Snaps \cup Eps PROVE Kept(r)'
  <2>1. PICK e \in DOMAIN stored :
          \/ Matches(stored[e], r)
          \/ stored[e] = WithPointer(Original[r].of, TornPointer)
    BY DEF KInv, Kept
  <2>2. CASE e # d
    BY <1>2, <1>4, <2>1, <2>2 DEF Kept, Matches
  <2>3. CASE e = d
    <3>1. Matches(stored[d], r)
      BY <1>1, <2>1, <2>3, Pointing, PointerValues, Originals
    <3>2. /\ torn = WithPointer(Original[r].of, TornPointer)
          /\ ptr.env = Original[r].of.ptr.env
      BY <1>1, <3>1, Pointing, PointerValues, Originals DEF Matches, torn
    <3> QED
      BY <1>1, <1>2, <1>3, <1>4, <3>2 DEF Kept
  <2> QED
    BY <2>2, <2>3
<1> QED
  BY <1>4, <1>5, <1>6 DEF KInv

LEMMA PointerWritten ==
    ASSUME KInv, NEW m \in Migrators, WritePointer(m) PROVE KInv'
<1> DEFINE d == mig[m].at
           ptr == mig[m].rows[1]
           new == Goto(WithRows(mig[m], <<>>), "rename")
           tree == WithPointer(stored[d], ptr)
<1>1. /\ IsMig(mig[m]) /\ mig[m].pc = "write"
      /\ d \in DOMAIN stored /\ stored[d] \in Trees
      /\ ptr \in Pointers /\ ptr.whole
      /\ stored' = [stored EXCEPT ![d] = tree]
      /\ Step(m, new)
  BY DEF WritePointer, KInv, MigShape, Handling
<1>2. IsMig(new) /\ new.pc = "rename" /\ new.at = d
  BY <1>1, Updating
<1>3. tree \in Trees /\ tree.base = stored[d].base /\ tree.ptr = ptr
  BY <1>1, Pointing
<1> HIDE DEF new, tree
<1>4. /\ DOMAIN stored' = DOMAIN stored
      /\ stored'[d] = tree
      /\ \A e \in DOMAIN stored \ {d} : stored'[e] = stored[e]
      /\ MigShape' /\ mig'[m] = new
      /\ \A x \in Migrators : x = m
  BY <1>1, <1>2, <1>3, Rewriting
<1>5. \A x \in Migrators : Handling(x)'
  BY <1>1, <1>2, <1>4 DEF Handling
<1>6. ASSUME NEW r \in Snaps \cup Eps PROVE Kept(r)'
  <2>1. PICK e \in DOMAIN stored :
          \/ Matches(stored[e], r)
          \/ /\ stored[e] = WithPointer(Original[r].of, TornPointer)
             /\ e = d => ptr.env = Original[r].of.ptr.env
    BY <1>1 DEF KInv, Kept
  <2>2. CASE e # d
    BY <1>2, <1>4, <2>1, <2>2 DEF Kept, Matches
  <2>3. CASE e = d
    <3>1. stored[d] = WithPointer(Original[r].of, TornPointer)
      BY <1>1, <2>1, <2>3 DEF KInv, Handling, Matches
    <3>2. Matches(tree, r)
      BY <1>1, <1>3, <2>1, <2>3, <3>1, Pointing, PointerValues, Originals
         DEF Matches
    <3> QED
      BY <1>1, <1>4, <3>2 DEF Kept, Matches
  <2> QED
    BY <2>2, <2>3
<1> QED
  BY <1>4, <1>5, <1>6 DEF KInv

LEMMA Renaming == ASSUME KInv, NEW m \in Migrators, Rename(m) PROVE KInv'
<1> DEFINE d == mig[m].at
           name == V2(stored[d])
<1>1. /\ IsMig(mig[m]) /\ d \in DOMAIN stored
      /\ \/ stored' = stored
         \/ /\ name \notin DOMAIN stored
            /\ stored' = [e \in (DOMAIN stored \ {d}) \cup {name} |->
                             IF e = name THEN stored[d] ELSE stored[e]]
  BY DEF Rename, KInv, MigShape, Handling
<1>2. PICK new : IsMig(new) /\ new.pc = "scan" /\ Step(m, new)
  <2>1. PICK map : Step(m, Goto(AtTree(WithMap(mig[m], map), NoTree), "scan"))
    BY DEF Rename
  <2> QED
    BY <1>1, <2>1, Updating
<1>3. CASE stored' = stored
  BY <1>2, <1>3, StoreUntouched
<1>4. CASE /\ name \notin DOMAIN stored
           /\ stored' = [e \in (DOMAIN stored \ {d}) \cup {name} |->
                            IF e = name THEN stored[d] ELSE stored[e]]
  <2> HIDE DEF name
  <2>1. /\ MigShape' /\ mig'[m] = new
        /\ \A x \in Migrators : x = m
    BY <1>1, <1>2, <1>4, Stepping DEF KInv, MigShape
  <2>2. \A x \in Migrators : Handling(x)'
    BY <1>2, <2>1 DEF Handling
  <2>3. ASSUME NEW r \in Snaps \cup Eps PROVE Kept(r)'
    <3>1. PICK e \in DOMAIN stored :
            \/ Matches(stored[e], r)
            \/ stored[e] = WithPointer(Original[r].of, TornPointer)
      BY DEF KInv, Kept
    <3>2. PICK c \in DOMAIN stored' : stored'[c] = stored[e]
      <4>1. CASE e = d
        <5>1. name \in DOMAIN stored' /\ stored'[name] = stored[e]
          BY <1>4, <4>1
        <5> QED
          BY <5>1
      <4>2. CASE e # d
        <5>1. e \in DOMAIN stored' /\ stored'[e] = stored[e]
          BY <1>4, <4>2
        <5> QED
          BY <5>1
      <4> QED
        BY <4>1, <4>2
    <3> QED
      BY <1>2, <2>1, <3>1, <3>2 DEF Kept, Matches
  <2> QED
    BY <2>1, <2>2, <2>3 DEF KInv
<1> QED
  BY <1>1, <1>3, <1>4

LEMMA KeptByStep == KInv /\ [Next]_vars => KInv'
<1> SUFFICES ASSUME KInv, [Next]_vars PROVE KInv'
  OBVIOUS
<1>1. ASSUME NEW m \in Migrators, Migrate(m) PROVE KInv'
  BY <1>1, BeginsAndEnds, Scanning, Truncating, PointerWritten, Renaming
     DEF Migrate
<1>2. ASSUME UNCHANGED <<stored, mig>> PROVE KInv'
  BY <1>2 DEF KInv, MigShape, Handling, Kept, Matches
<1>3. ASSUME NEW w \in Workers, Replay(w) PROVE KInv'
  BY <1>2, <1>3 DEF Replay, TakeSnapshot, Restore, NextReplay
<1> QED
  BY <1>1, <1>2, <1>3 DEF Next, vars

(* A torn pointer is somebody's work, or was when its writer died.         *)
Held(d) ==
    \/ stored[d].ptr.whole \/ d \in cut
    \/ \E m \in Migrators : mig[m].pc = "write" /\ mig[m].at = d

CInv ==
    /\ \A d \in DOMAIN stored : Held(d)
    /\ \A m \in Migrators : mig[m].pc = "rename" => stored[mig[m].at].ptr.whole
    /\ IsFiniteSet(cut) /\ Cardinality(cut) <= mishaps

LEMMA CutAtFirst == Init => CInv
<1> SUFFICES ASSUME Init PROVE CInv
  OBVIOUS
<1>1. /\ stored = [d \in Range(Original) |-> d.of]
      /\ mig = [m \in Migrators |-> Idle("idle")]
      /\ cut = {} /\ mishaps = 0
  BY DEF Init, EnvInit
<1>2. \A d \in Range(Original) : d.of.ptr.whole
  BY MigrationAssumption DEF Range
<1>3. \A m \in Migrators : mig[m].pc = "idle"
  BY <1>1, Idling
<1>4. IsFiniteSet(cut) /\ Cardinality(cut) <= mishaps
  BY <1>1, FS_EmptySet
<1> QED
  BY <1>1, <1>2, <1>3, <1>4 DEF CInv, Held

(* A step that leaves the store alone, of a migrator that was not writing. *)
LEMMA CutUntouched ==
    ASSUME KInv, CInv, NEW m \in Migrators, NEW r, IsMig(r), Step(m, r),
           UNCHANGED <<stored, cut>>, mishaps' = mishaps,
           mig[m].pc # "write", r.pc # "rename"
    PROVE  CInv'
<1>1. mig'[m] = r /\ \A x \in Migrators : x = m
  BY Stepping DEF KInv
<1> QED
  BY <1>1 DEF CInv, Held

LEMMA CutByOthers ==
    ASSUME KInv, CInv, NEW m \in Migrators,
           Begin(m) \/ Load(m) \/ Open(m) \/ Close(m) \/ Again(m) \/ Scan(m)
    PROVE  CInv'
<1>1. IsMig(mig[m])
  BY DEF KInv, MigShape
<1>2. UNCHANGED <<stored, cut>> /\ mishaps' = mishaps /\ mig[m].pc # "write"
  BY DEF Begin, Load, Open, Close, Again, Scan
<1>3. PICK r : Step(m, r) /\ IsMig(r) /\ r.pc # "rename"
  <2>1. CASE Begin(m)
    BY <2>1, Updating, Idling DEF Begin
  <2>2. CASE Load(m)
    <3>1. \/ Step(m, Idle("raised"))
          \/ \E rows : Step(m, WithRows(Idle("open"), rows))
      BY <2>2 DEF Load
    <3> QED
      BY <3>1, Updating, Idling
  <2>3. CASE Open(m)
    BY <1>1, <2>3, Updating DEF Open
  <2>4. CASE Close(m)
    BY <1>1, <2>4, Updating, Idling DEF Close
  <2>5. CASE Again(m)
    BY <2>5, Idling DEF Again
  <2>6. CASE Scan(m)
    <3>1. PICK d : \/ Step(m, Idle("raised"))
                   \/ Step(m, Goto(AtTree(WithTodo(mig[m], mig[m].todo \ {d}), d),
                                   "truncate"))
                   \/ Step(m, WithTodo(mig[m], mig[m].todo \ {d}))
      BY <2>6 DEF Scan
    <3>2. mig[m].pc = "scan"
      BY <2>6 DEF Scan
    <3> DEFINE rest == WithTodo(mig[m], mig[m].todo \ {d})
    <3>3. IsMig(rest) /\ rest.pc = "scan"
      BY <1>1, <3>2, Updating
    <3> QED
      BY <3>1, <3>3, Updating, Idling
  <2> QED
    BY <2>1, <2>2, <2>3, <2>4, <2>5, <2>6
<1> QED
  BY <1>2, <1>3, CutUntouched

LEMMA CutByTruncation ==
    ASSUME KInv, CInv, NEW m \in Migrators, Truncate(m) PROVE CInv'
<1> DEFINE d == mig[m].at
           new == Goto(WithRows(mig[m], <<Upgraded(stored[d].ptr)>>), "write")
           torn == WithPointer(stored[d], TornPointer)
<1>1. /\ IsMig(mig[m]) /\ d \in DOMAIN stored /\ stored[d] \in Trees
      /\ stored' = [stored EXCEPT ![d] = torn] /\ Step(m, new)
      /\ cut' = cut /\ mishaps' = mishaps /\ mig[m].pc = "truncate"
  BY DEF Truncate, KInv, MigShape, Handling
<1>2. IsMig(new) /\ new.pc = "write" /\ new.at = d
  BY <1>1, Updating
<1>3. torn \in Trees
  BY <1>1, Pointing, PointerValues
<1> HIDE DEF new, torn
<1>4. /\ DOMAIN stored' = DOMAIN stored
      /\ \A e \in DOMAIN stored \ {d} : stored'[e] = stored[e]
      /\ mig'[m] = new /\ \A x \in Migrators : x = m
  BY <1>1, <1>2, <1>3, Rewriting
<1>5. \A e \in DOMAIN stored : e # d => stored[e].ptr.whole \/ e \in cut
  BY <1>1, <1>4 DEF CInv, Held
<1> QED
  BY <1>1, <1>2, <1>4, <1>5 DEF CInv, Held

LEMMA CutByWriting ==
    ASSUME KInv, CInv, NEW m \in Migrators, WritePointer(m) PROVE CInv'
<1> DEFINE d == mig[m].at
           ptr == mig[m].rows[1]
           new == Goto(WithRows(mig[m], <<>>), "rename")
           tree == WithPointer(stored[d], ptr)
<1>1. /\ IsMig(mig[m]) /\ d \in DOMAIN stored /\ stored[d] \in Trees
      /\ ptr \in Pointers /\ ptr.whole
      /\ stored' = [stored EXCEPT ![d] = tree] /\ Step(m, new)
      /\ cut' = cut /\ mishaps' = mishaps
  BY DEF WritePointer, KInv, MigShape, Handling
<1>2. IsMig(new) /\ new.pc = "rename" /\ new.at = d
  BY <1>1, Updating
<1>3. tree \in Trees /\ tree.ptr = ptr
  BY <1>1, Pointing
<1> HIDE DEF new, tree
<1>4. /\ DOMAIN stored' = DOMAIN stored /\ stored'[d] = tree
      /\ \A e \in DOMAIN stored \ {d} : stored'[e] = stored[e]
      /\ mig'[m] = new /\ \A x \in Migrators : x = m
  BY <1>1, <1>2, <1>3, Rewriting
<1>5. \A e \in DOMAIN stored : e # d => stored[e].ptr.whole \/ e \in cut
  BY <1>4 DEF CInv, Held
<1> QED
  BY <1>1, <1>2, <1>3, <1>4, <1>5 DEF CInv, Held

LEMMA CutByRenaming ==
    ASSUME KInv, CInv, NEW m \in Migrators, Rename(m) PROVE CInv'
<1> DEFINE d == mig[m].at
           name == V2(stored[d])
<1>1. /\ IsMig(mig[m]) /\ d \in DOMAIN stored /\ stored[d].ptr.whole
      /\ mig[m].pc = "rename" /\ cut' = cut /\ mishaps' = mishaps
      /\ \/ stored' = stored
         \/ stored' = [e \in (DOMAIN stored \ {d}) \cup {name} |->
                            IF e = name THEN stored[d] ELSE stored[e]]
  BY DEF Rename, KInv, MigShape, Handling, CInv
<1>2. PICK new : IsMig(new) /\ new.pc = "scan" /\ Step(m, new)
  <2>1. PICK map : Step(m, Goto(AtTree(WithMap(mig[m], map), NoTree), "scan"))
    BY DEF Rename
  <2> QED
    BY <1>1, <2>1, Updating
<1>3. mig'[m] = new /\ \A x \in Migrators : x = m
  BY <1>2, Stepping DEF KInv
<1> HIDE DEF name
<1>4. \A e \in DOMAIN stored : stored[e].ptr.whole \/ e \in cut
  BY <1>1, <1>3 DEF CInv, Held
<1>5. \A e \in DOMAIN stored' : stored'[e].ptr.whole \/ e \in cut
  <2>1. CASE stored' = stored
    BY <1>4, <2>1
  <2>2. CASE stored' = [e \in (DOMAIN stored \ {d}) \cup {name} |->
                            IF e = name THEN stored[d] ELSE stored[e]]
    BY <1>1, <1>4, <2>2
  <2> QED
    BY <1>1, <2>1, <2>2
<1> QED
  BY <1>1, <1>2, <1>3, <1>5 DEF CInv, Held

LEMMA CutByDeath ==
    ASSUME IInv, KInv, CInv, NEW m \in Migrators, Crash(m) PROVE CInv'
<1>1. /\ Step(m, Idle("raised")) /\ stored' = stored /\ mishaps' = mishaps + 1
      /\ cut' = IF mig[m].pc = "write" THEN cut \cup {mig[m].at} ELSE cut
  BY DEF Crash
<1>2. mig'[m].pc = "raised" /\ \A x \in Migrators : x = m
  BY <1>1, Idling, Stepping DEF KInv
<1>3. \A d \in DOMAIN stored : stored[d].ptr.whole \/ d \in cut'
  BY <1>1, <1>2 DEF CInv, Held
<1>4. IsFiniteSet(cut') /\ Cardinality(cut') <= mishaps'
  <2>1. mishaps \in Nat /\ IsFiniteSet(cut) /\ Cardinality(cut) \in Nat
        /\ Cardinality(cut) <= mishaps
    BY FS_CardinalityType DEF IInv, Shape, CInv
  <2>2. CASE cut' = cut
    <3>1. IsFiniteSet(cut') /\ Cardinality(cut') = Cardinality(cut)
      BY <2>1, <2>2
    <3> QED
      BY <1>1, <2>1, <3>1
  <2>3. CASE cut' = cut \cup {mig[m].at}
    <3>1. /\ IsFiniteSet(cut \cup {mig[m].at})
          /\ \/ Cardinality(cut \cup {mig[m].at}) = Cardinality(cut)
             \/ Cardinality(cut \cup {mig[m].at}) = Cardinality(cut) + 1
      BY <2>1, FS_AddElement
    <3>2. /\ IsFiniteSet(cut')
          /\ \/ Cardinality(cut') = Cardinality(cut)
             \/ Cardinality(cut') = Cardinality(cut) + 1
      BY <2>3, <3>1
    <3> QED
      BY <1>1, <2>1, <3>2
  <2> QED
    BY <1>1, <2>2, <2>3
<1> QED
  BY <1>1, <1>2, <1>3, <1>4 DEF CInv, Held

LEMMA CutByStep == IInv /\ KInv /\ CInv /\ [Next]_vars => CInv'
<1> SUFFICES ASSUME IInv, KInv, CInv, [Next]_vars PROVE CInv'
  OBVIOUS
<1>1. ASSUME NEW m \in Migrators, Migrate(m) PROVE CInv'
  BY <1>1, CutByOthers, CutByTruncation, CutByWriting, CutByRenaming, CutByDeath
     DEF Migrate
<1>2. ASSUME UNCHANGED <<stored, mig, cut>>, mishaps' \in {mishaps, mishaps + 1}
      PROVE  CInv'
  <2>1. mishaps \in Nat /\ Cardinality(cut) \in Nat
    BY FS_CardinalityType DEF IInv, Shape, CInv
  <2>2. Cardinality(cut) <= mishaps'
    BY <1>2, <2>1 DEF CInv
  <2> QED
    BY <1>2, <2>2 DEF CInv, Held
<1>3. ASSUME NEW w \in Workers, Replay(w) PROVE CInv'
  <2>1. UNCHANGED <<stored, mig, cut>> /\ mishaps' \in {mishaps, mishaps + 1}
    BY <1>3 DEF Replay, TakeSnapshot, Restore, NextReplay, Ensure, Venv, Install,
                CreateMarker, FillMarker, BuildFails
  <2> QED
    BY <1>2, <2>1
<1> QED
  BY <1>1, <1>2, <1>3 DEF Next, vars

LEMMA KeptUnlessCut == KInv /\ CInv => TreesAreKept
<1> SUFFICES ASSUME KInv, CInv, NEW r \in Snaps \cup Eps
             PROVE  \E d \in DOMAIN stored :
                        \/ Matches(stored[d], r)
                        \/ /\ stored[d] = WithPointer(Original[r].of, TornPointer)
                           /\ BeingWritten(d, r) \/ d \in cut
  BY DEF CInv, TreesAreKept
<1>1. PICK d \in DOMAIN stored :
        \/ Matches(stored[d], r)
        \/ /\ stored[d] = WithPointer(Original[r].of, TornPointer)
           /\ \A m \in Migrators : mig[m].pc = "write" /\ mig[m].at = d =>
                 mig[m].rows[1].env = Original[r].of.ptr.env
  BY DEF KInv, Kept
<1>2. SUFFICES ASSUME stored[d] = WithPointer(Original[r].of, TornPointer), d \notin cut
               PROVE  BeingWritten(d, r)
  BY <1>1
<1>3. stored[d].base = Original[r].of.base /\ ~stored[d].ptr.whole /\ stored[d] \in Trees
  BY <1>2, Originals, Pointing, PointerValues DEF KInv, MigShape
<1>4. PICK m \in Migrators : mig[m].pc = "write" /\ mig[m].at = d
  BY <1>2, <1>3 DEF CInv, Held
<1>5. mig[m].rows[1] \in Pointers /\ mig[m].rows[1].whole
  BY <1>4 DEF KInv, Handling
<1>6. mig[m].rows[1].env = Original[r].of.ptr.env
  BY <1>1, <1>3, <1>4, Originals DEF Matches
<1>7. Matches(WithPointer(stored[d], mig[m].rows[1]), r)
  BY <1>3, <1>5, <1>6, Pointing DEF Matches
<1> QED
  BY <1>4, <1>7 DEF BeingWritten

(* Wherever a migration dies and however often it is run again, no tree is *)
(* lost, nor the environment its pointer asks for, unless a death came     *)
(* between emptying that pointer and writing it: one environment a death.  *)
THEOREM NoTreeIsLost == Spec => []TreesAreKept
<1> QED
  BY KeptUnlessCut, InitInvariant, StepInvariant, KeptAtFirst, KeptByStep,
     CutAtFirst, CutByStep, PTL DEF Spec
-----------------------------------------------------------------------------
(* What an upgraded pointer is, and a directory with the digest of a tree  *)
(* that has one.  The names that a migration gives are new in this sense,  *)
(* and what it rewrites is not: no name it has given is rewritten later.   *)
Renewed(p) == p.named /\ p.here

New(d) == d.v2 /\ Renewed(d.of.ptr)

Rewrites(g) == g.pc \in {"truncate", "write", "rename"}

Scans(g) == g.pc \in {"scan", "truncate", "write", "rename"}

Saves(g) == g.pc \in {"open", "close"}

(* A marker stands beside an interpreter, and so does the one that is      *)
(* about to be written.                                                    *)
Interpreted ==
    /\ \A n \in Names : ready[n] # "absent" => n \in python
    /\ \A w \in Workers : work[w].pc \in {"install", "fill"} =>
           work[w].env \in python

(* The environments a migrator knows are there and built.                  *)
Knowledge ==
    \A m \in Migrators : mig[m].known \subseteq {n \in python : Built(n)}

Truthful ==
    \A d \in DOMAIN stored : New(d) => d = V2(stored[d])

Asked == {Original[r].of.ptr : r \in Snaps \cup Eps}

Answered ==
    \A d \in DOMAIN stored :
        LET p == stored[d].ptr IN
        p.whole => p \in Asked \/ (p.env \in python /\ Built(p.env))

(* What a migrator that holds g is about to do to the store.               *)
Upgrading(g) ==
    /\ Rewrites(g) => /\ ~New(g.at)
                      /\ g.at \notin DOMAIN g.map /\ g.at \notin g.todo
    /\ g.pc = "truncate" => stored[g.at].ptr.env \in g.known
    /\ g.pc = "write" => Renewed(g.rows[1]) /\ g.rows[1].env \in g.known
    /\ g.pc = "rename" => Renewed(stored[g.at].ptr)
    /\ Scans(g) =>
           /\ \A e \in DOMAIN g.map : e \notin g.todo
           /\ \A e \in DOMAIN g.map : New(g.map[e]) /\ g.map[e] \in DOMAIN stored

UInv ==
    /\ Interpreted /\ Knowledge /\ Truthful /\ Answered
    /\ \A m \in Migrators : Upgrading(mig[m])

(* The parts of what a migrator holds, after each of its steps.            *)
Holds(pc, known, todo, at, map, file, rows) ==
    [pc |-> pc, known |-> known, todo |-> todo, at |-> at, map |-> map,
     file |-> file, rows |-> rows]

LEMMA Replacing ==
    ASSUME NEW pc, NEW known, NEW todo, NEW at, NEW map, NEW file, NEW rows,
           NEW x
    PROVE  LET g == Holds(pc, known, todo, at, map, file, rows) IN
           /\ Goto(g, x) = Holds(x, known, todo, at, map, file, rows)
           /\ Knowing(g, x) = Holds(pc, x, todo, at, map, file, rows)
           /\ WithTodo(g, x) = Holds(pc, known, x, at, map, file, rows)
           /\ AtTree(g, x) = Holds(pc, known, todo, x, map, file, rows)
           /\ WithMap(g, x) = Holds(pc, known, todo, at, x, file, rows)
           /\ AtFile(g, x) = Holds(pc, known, todo, at, map, x, rows)
           /\ WithRows(g, x) = Holds(pc, known, todo, at, map, file, x)
BY DEF Holds, Goto, Knowing, WithTodo, AtTree, WithMap, AtFile, WithRows

LEMMA Forms ==
    ASSUME NEW g, IsMig(g), NEW pc, NEW x, NEW y
    PROVE  /\ WithTodo(g, x) =
                  Holds(g.pc, g.known, x, g.at, g.map, g.file, g.rows)
           /\ Goto(AtTree(WithTodo(g, x), y), pc) =
                  Holds(pc, g.known, x, y, g.map, g.file, g.rows)
           /\ Goto(WithRows(g, x), pc) =
                  Holds(pc, g.known, g.todo, g.at, g.map, g.file, x)
           /\ Goto(AtTree(WithMap(g, x), NoTree), pc) =
                  Holds(pc, g.known, g.todo, NoTree, x, g.file, g.rows)
           /\ Goto(g, pc) =
                  Holds(pc, g.known, g.todo, g.at, g.map, g.file, g.rows)
           /\ Goto(AtFile(g, x), pc) =
                  Holds(pc, g.known, g.todo, g.at, g.map, x, g.rows)
<1>1. g = Holds(g.pc, g.known, g.todo, g.at, g.map, g.file, g.rows)
  BY DEF IsMig, Holds
<1>2. PICK p, k, t, a, m, f, r : /\ g = Holds(p, k, t, a, m, f, r)
                                 /\ g.pc = p /\ g.known = k /\ g.todo = t
                                 /\ g.at = a /\ g.map = m /\ g.file = f
                                 /\ g.rows = r
  BY <1>1, Zenon
<1> QED
  BY <1>2, Replacing

LEMMA Beginnings ==
    ASSUME NEW pc, NEW x, NEW y
    PROVE  /\ Idle(pc) = Holds(pc, {}, {}, NoTree, <<>>, 1, <<>>)
           /\ WithTodo(Knowing(Idle(pc), x), y) =
                  Holds(pc, x, y, NoTree, <<>>, 1, <<>>)
           /\ WithRows(Idle(pc), x) = Holds(pc, {}, {}, NoTree, <<>>, 1, x)
<1>1. Idle(pc) = Holds(pc, {}, {}, NoTree, <<>>, 1, <<>>)
  BY DEF Idle, Holds
<1> QED
  BY <1>1, Replacing

LEMMA HoldsFields ==
    ASSUME NEW pc, NEW known, NEW todo, NEW at, NEW map, NEW file, NEW rows
    PROVE  LET g == Holds(pc, known, todo, at, map, file, rows) IN
           /\ IsMig(g)
           /\ g.pc = pc /\ g.known = known /\ g.todo = todo /\ g.at = at
           /\ g.map = map /\ g.file = file /\ g.rows = rows
BY DEF Holds, IsMig

LEMMA EmptyMap == DOMAIN <<>> = {}
OBVIOUS

-----------------------------------------------------------------------------
LEMMA UpgradedAtFirst == Init => UInv
<1> SUFFICES ASSUME Init PROVE UInv
  OBVIOUS
<1>1. /\ stored = [d \in Range(Original) |-> d.of]
      /\ mig = [m \in Migrators |-> Idle("idle")]
      /\ ready = [n \in Names |-> IF n \in python THEN "filled" ELSE "absent"]
      /\ work = [w \in Workers |-> [pc |-> "idle", env |-> NoEnv]]
  BY DEF Init, EnvInit
<1>2. \A m \in Migrators : mig[m].pc = "idle" /\ mig[m].known = {}
  BY <1>1, Beginnings, HoldsFields
<1>3. Interpreted /\ Knowledge
  BY <1>1, <1>2 DEF Interpreted, Knowledge
<1>4. ASSUME NEW d \in DOMAIN stored
      PROVE  /\ d \in Digests /\ stored[d] = d.of
             /\ stored[d].ptr \in Asked
  BY <1>1, MigrationAssumption DEF Range, Asked
<1>5. Truthful
  BY <1>4 DEF Truthful, New, V2, Digests
<1>6. Answered
  BY <1>4 DEF Answered
<1>7. \A m \in Migrators : Upgrading(mig[m])
  BY <1>2 DEF Upgrading, Rewrites, Scans
<1> QED
  BY <1>3, <1>5, <1>6, <1>7 DEF UInv

(* A worker's step: interpreters and packages stay.                        *)
LEMMA WorkersOnlyAdd ==
    ASSUME IInv, Interpreted, NEW w \in Workers, Replay(w)
    PROVE  /\ python \subseteq python'
           /\ \A n \in Names : Built(n) => Built(n)'
           /\ Interpreted'
           /\ UNCHANGED <<stored, saved, mig>>
<1> DEFINE n == work[w].env
<1>1. /\ UNCHANGED <<stored, saved, mig>> /\ Shape /\ MarkersHold
      /\ work = [x \in Workers |-> work[x]]
      /\ python \subseteq Names
  BY DEF Replay, TakeSnapshot, Restore, NextReplay, IInv, Shape
<1>2. CASE TakeSnapshot(w) \/ Restore(w) \/ NextReplay(w) \/ BuildFails(w)
  <2>1. UNCHANGED <<python, site, ready>>
    BY <1>2 DEF TakeSnapshot, Restore, NextReplay, BuildFails, envs
  <2>2. PICK pc, k : WorkerAt(w, pc, k) /\ pc \notin {"install", "fill"}
    BY <1>2 DEF TakeSnapshot, Restore, NextReplay, BuildFails, Resolve
  <2>3. /\ work'[w].pc \notin {"install", "fill"}
        /\ \A x \in Workers \ {w} : work'[x] = work[x]
    BY <1>1, <2>2 DEF WorkerAt
  <2> QED
    BY <1>1, <2>1, <2>3 DEF Interpreted, Built
<1>3. CASE Venv(w)
  <2>1. /\ python' = python \cup {n} /\ UNCHANGED <<site, ready>>
        /\ work'[w].env = n
        /\ \A x \in Workers \ {w} : work'[x] = work[x]
    BY <1>1, <1>3 DEF Venv, WorkerAt
  <2> QED
    BY <1>1, <2>1 DEF Interpreted, Built
<1>4. CASE Install(w)
  <2>1. PICK pkg : site' = [site EXCEPT ![n] = site[n] \cup {pkg}]
    BY <1>4 DEF Install
  <2>2. UNCHANGED <<python, ready, work>>
    BY <1>4 DEF Install
  <2> QED
    BY <1>1, <2>1, <2>2 DEF Interpreted, Built, Shape
<1>5. CASE CreateMarker(w) \/ FillMarker(w)
  <2>1. /\ UNCHANGED <<python, site>>
        /\ work[w].pc \in {"install", "fill"}
        /\ \A k \in Names \ {n} : ready'[k] = ready[k]
        /\ work'[w].env = n
        /\ \A x \in Workers \ {w} : work'[x] = work[x]
    BY <1>1, <1>5 DEF CreateMarker, FillMarker, WorkerAt, Shape
  <2>2. n \in python
    BY <2>1 DEF Interpreted
  <2> QED
    BY <1>1, <2>1, <2>2 DEF Interpreted, Built
<1> QED
  BY <1>1, <1>2, <1>3, <1>4, <1>5 DEF Replay, Ensure

LEMMA UpgradingBesideWorkers ==
    ASSUME IInv, UInv, NEW w \in Workers, Replay(w) PROVE UInv'
<1>1. /\ python \subseteq python' /\ python \subseteq Names
      /\ \A n \in Names : Built(n) => Built(n)'
      /\ Interpreted' /\ UNCHANGED <<stored, saved, mig>>
  BY WorkersOnlyAdd DEF UInv, IInv, Shape
<1>2. Knowledge'
  BY <1>1 DEF UInv, Knowledge
<1>3. Truthful'
  BY <1>1 DEF UInv, Truthful
<1>4. ASSUME NEW d \in DOMAIN stored, stored[d].ptr.whole,
             stored[d].ptr \notin Asked
      PROVE  /\ stored[d].ptr.env \in python'
             /\ Built(stored[d].ptr.env)'
  <2>1. PICK n : n = stored[d].ptr.env
    OBVIOUS
  <2>2. n \in python /\ Built(n)
    BY <1>4, <2>1 DEF UInv, Answered
  <2>3. n \in python' /\ Built(n)'
    BY <1>1, <2>2
  <2> QED
    BY <1>1, <2>1, <2>3 DEF Built
<1>5. Answered'
  BY <1>1, <1>4 DEF Answered
<1>6. \A m \in Migrators : Upgrading(mig[m])'
  BY <1>1 DEF UInv, Upgrading
<1> QED
  BY <1>1, <1>2, <1>3, <1>5, <1>6 DEF UInv

(* A migrator's step that leaves the store as it is.                       *)
LEMMA UpgradingStands ==
    ASSUME UInv, MigShape, NEW m \in Migrators, NEW g, IsMig(g), Step(m, g),
           UNCHANGED <<envs, work, stored>>,
           g.known \subseteq {n \in python : Built(n)}, Upgrading(g)
    PROVE  UInv'
<1>1. UNCHANGED <<python, site, ready, work, stored>>
  BY DEF envs
<1>2. mig'[m] = g /\ \A x \in Migrators : x = m
  BY Stepping
<1>3. Interpreted' /\ Truthful' /\ Answered'
  BY <1>1 DEF UInv, Interpreted, Truthful, Answered, Built
<1>4. Knowledge'
  BY <1>1, <1>2 DEF Knowledge, Built
<1>5. \A x \in Migrators : Upgrading(mig[x])'
  BY <1>1, <1>2 DEF Upgrading
<1> QED
  BY <1>3, <1>4, <1>5 DEF UInv

LEMMA UpgradingBeginsAndEnds ==
    ASSUME IInv, KInv, UInv, NEW m \in Migrators,
           Begin(m) \/ Load(m) \/ Open(m) \/ Close(m) \/ Crash(m) \/ Again(m)
    PROVE  UInv'
<1>1. /\ IsMig(mig[m]) /\ MigShape
      /\ mig[m].known \subseteq {n \in python : Built(n)}
      /\ UNCHANGED <<envs, work, stored>>
  BY DEF KInv, MigShape, UInv, Knowledge, Begin, Load, Open, Close, Crash, Again
<1>2. ASSUME NEW g, Step(m, g), IsMig(g),
             g.known \in {{}, mig[m].known},
             g.pc \notin {"scan", "truncate", "write", "rename"}
      PROVE  UInv'
  <2>1. Upgrading(g)
    BY <1>2 DEF Upgrading, Rewrites, Scans
  <2> QED
    BY <1>1, <1>2, <2>1, UpgradingStands
<1>3. CASE \E pc \in {"idle", "done", "raised"} : Step(m, Idle(pc))
  <2>1. PICK pc \in {"idle", "done", "raised"} : Step(m, Idle(pc))
    BY <1>3
  <2>2. IsMig(Idle(pc)) /\ Idle(pc).pc = pc /\ Idle(pc).known = {}
    BY Beginnings, HoldsFields
  <2> QED
    BY <1>2, <2>1, <2>2
<1>4. CASE Begin(m)
  <2> DEFINE g == WithTodo(Knowing(Idle("scan"), EnvIdentity), DOMAIN stored)
  <2>1. CASE ~\E n \in EnvIdentity : ready[n] = "created"
    <3>1. g = Holds("scan", EnvIdentity, DOMAIN stored, NoTree, <<>>, 1, <<>>)
      BY Beginnings
    <3>2. /\ IsMig(g) /\ g.pc = "scan" /\ g.known = EnvIdentity
          /\ DOMAIN g.map = {}
      BY <3>1, HoldsFields, EmptyMap
    <3> HIDE DEF g
    <3>3. Upgrading(g)
      BY <3>2 DEF Upgrading, Rewrites, Scans
    <3>4. EnvIdentity \subseteq {n \in python : Built(n)}
      BY DEF EnvIdentity, UInv, Interpreted, IInv, MarkersHold
    <3>5. Step(m, g)
      BY <1>4, <2>1 DEF Begin, g
    <3> QED
      BY <1>1, <3>2, <3>3, <3>4, <3>5, UpgradingStands
  <2>2. CASE \E n \in EnvIdentity : ready[n] = "created"
    BY <1>3, <1>4, <2>2 DEF Begin
  <2> QED
    BY <2>1, <2>2
<1>5. CASE Load(m)
  <2>1. CASE \E rows : Step(m, WithRows(Idle("open"), rows))
    <3>1. PICK rows : Step(m, WithRows(Idle("open"), rows))
      BY <2>1
    <3>2. WithRows(Idle("open"), rows) =
              Holds("open", {}, {}, NoTree, <<>>, 1, rows)
      BY Beginnings
    <3> QED
      BY <1>2, <3>1, <3>2, HoldsFields
  <2> QED
    BY <1>3, <1>5, <2>1 DEF Load
<1>6. CASE Open(m)
  <2>1. PICK g : g = Goto(mig[m], "close")
    OBVIOUS
  <2>2. Step(m, g)
    BY <1>6, <2>1 DEF Open
  <2>3. IsMig(g) /\ g.pc = "close" /\ g.known = mig[m].known
    BY <1>1, <2>1, Forms, HoldsFields
  <2> QED
    BY <1>2, <2>2, <2>3
<1>7. CASE Close(m)
  <2>1. CASE Step(m, Goto(AtFile(mig[m], mig[m].file + 1), "open"))
    <3>1. PICK g : g = Goto(AtFile(mig[m], mig[m].file + 1), "open")
      OBVIOUS
    <3>2. IsMig(g) /\ g.pc = "open" /\ g.known = mig[m].known
      BY <1>1, <3>1, Forms, HoldsFields
    <3> QED
      BY <1>2, <2>1, <3>1, <3>2
  <2> QED
    BY <1>3, <1>7, <2>1 DEF Close
<1>8. CASE Crash(m) \/ Again(m)
  BY <1>3, <1>8 DEF Crash, Again
<1> QED
  BY <1>4, <1>5, <1>6, <1>7, <1>8

(* What the scan has found to rewrite: a directory whose name is not new.  *)
LEMMA ScanFinds ==
    ASSUME UInv, MigShape, NEW m \in Migrators, Scan(m)
    PROVE  \E d \in mig[m].todo : \E g :
             /\ Step(m, g) /\ IsMig(g) /\ g.known \subseteq mig[m].known
             /\ \/ g.pc = "raised" /\ d \in DOMAIN stored /\ ~stored[d].ptr.whole
                \/ /\ g.pc = "scan" /\ g.map = mig[m].map
                   /\ g.todo = mig[m].todo \ {d}
                \/ /\ g.pc = "truncate" /\ g.map = mig[m].map
                   /\ g.todo = mig[m].todo \ {d}
                   /\ g.at = d /\ g.known = mig[m].known /\ d \in DOMAIN stored
                   /\ stored[d].ptr.env \in mig[m].known
                   /\ ~Renewed(stored[d].ptr) /\ ~New(d)
<1>1. IsMig(mig[m]) /\ mig[m].pc = "scan"
  BY DEF MigShape, Scan
<1>2. PICK d \in mig[m].todo :
        \/ /\ Step(m, Idle("raised"))
           /\ d \in DOMAIN stored /\ ~stored[d].ptr.whole
        \/ /\ Step(m, Goto(AtTree(WithTodo(mig[m], mig[m].todo \ {d}), d),
                           "truncate"))
           /\ d \in DOMAIN stored /\ Matched(m, stored[d].ptr)
        \/ Step(m, WithTodo(mig[m], mig[m].todo \ {d}))
  BY DEF Scan
<1>3. CASE /\ Step(m, Idle("raised"))
           /\ d \in DOMAIN stored /\ ~stored[d].ptr.whole
  <2>1. /\ IsMig(Idle("raised")) /\ Idle("raised").pc = "raised"
        /\ Idle("raised").known = {}
    BY Beginnings, HoldsFields
  <2> QED
    BY <1>3, <2>1
<1>4. CASE Step(m, WithTodo(mig[m], mig[m].todo \ {d}))
  <2>1. PICK g : g = WithTodo(mig[m], mig[m].todo \ {d})
    OBVIOUS
  <2>2. /\ IsMig(g) /\ g.pc = "scan" /\ g.map = mig[m].map
        /\ g.todo = mig[m].todo \ {d} /\ g.known = mig[m].known
    BY <1>1, <2>1, Forms, HoldsFields
  <2> QED
    BY <1>4, <2>1, <2>2
<1>5. CASE /\ Step(m, Goto(AtTree(WithTodo(mig[m], mig[m].todo \ {d}), d),
                           "truncate"))
           /\ d \in DOMAIN stored /\ Matched(m, stored[d].ptr)
  <2>1. PICK g : g = Goto(AtTree(WithTodo(mig[m], mig[m].todo \ {d}), d),
                          "truncate")
    OBVIOUS
  <2>2. /\ IsMig(g) /\ g.pc = "truncate" /\ g.map = mig[m].map
        /\ g.todo = mig[m].todo \ {d} /\ g.known = mig[m].known /\ g.at = d
    BY <1>1, <2>1, Forms, HoldsFields
  <2>3. stored[d].ptr.env \in mig[m].known /\ ~Renewed(stored[d].ptr)
    BY <1>5 DEF Matched, Current, PathExists, Renewed, UInv, Knowledge
  <2>4. ~New(d)
    <3>1. New(d) => d.of = stored[d]
      BY <1>5 DEF UInv, Truthful, V2
    <3> QED
      BY <2>3, <3>1 DEF New
  <2> QED
    BY <1>5, <2>1, <2>2, <2>3, <2>4
<1> QED
  BY <1>2, <1>3, <1>4, <1>5

LEMMA UpgradingScans ==
    ASSUME KInv, UInv, NEW m \in Migrators, Scan(m) PROVE UInv'
<1>1. /\ MigShape /\ UNCHANGED <<envs, work, stored>>
      /\ Upgrading(mig[m]) /\ Scans(mig[m])
      /\ mig[m].known \subseteq {n \in python : Built(n)}
  BY DEF KInv, UInv, Knowledge, Scan, Scans
<1>2. PICK d, g :
        /\ d \in mig[m].todo
        /\ Step(m, g) /\ IsMig(g) /\ g.known \subseteq mig[m].known
        /\ \/ g.pc = "raised"
           \/ /\ g.pc = "scan" /\ g.map = mig[m].map
              /\ g.todo = mig[m].todo \ {d}
           \/ /\ g.pc = "truncate" /\ g.map = mig[m].map
              /\ g.todo = mig[m].todo \ {d}
              /\ g.at = d /\ g.known = mig[m].known
              /\ stored[d].ptr.env \in mig[m].known /\ ~New(d)
  BY <1>1, ScanFinds
<1>3. Upgrading(g)
  BY <1>1, <1>2 DEF Upgrading, Rewrites, Scans
<1> QED
  BY <1>1, <1>2, <1>3, UpgradingStands

(* A migrator's step that rewrites the tree of one directory.              *)
LEMMA UpgradingRewrites ==
    ASSUME UInv, KInv, NEW m \in Migrators, NEW g, IsMig(g), Step(m, g),
           NEW d \in DOMAIN stored, NEW t \in Trees,
           stored' = [stored EXCEPT ![d] = t], UNCHANGED <<envs, work>>,
           ~New(d),
           t.ptr.whole => t.ptr.env \in mig[m].known,
           g.known = mig[m].known, Upgrading(g)'
    PROVE  UInv'
<1>1. UNCHANGED <<python, site, ready, work>>
  BY DEF envs
<1>2. /\ DOMAIN stored' = DOMAIN stored
      /\ stored'[d] = t
      /\ \A e \in DOMAIN stored \ {d} : stored'[e] = stored[e]
      /\ mig'[m] = g
      /\ \A x \in Migrators : x = m
  BY Rewriting
<1>3. Interpreted' /\ Knowledge'
  BY <1>1, <1>2 DEF UInv, Interpreted, Knowledge, Built
<1>4. Truthful'
  BY <1>2 DEF UInv, Truthful
<1>5. Answered'
  BY <1>1, <1>2 DEF UInv, Answered, Knowledge, Built
<1>6. \A x \in Migrators : Upgrading(mig[x])'
  BY <1>2 DEF Upgrading
<1> QED
  BY <1>3, <1>4, <1>5, <1>6 DEF UInv

(* What Truncate and WritePointer do.                                      *)
LEMMA Truncates ==
    ASSUME KInv, UInv, NEW m \in Migrators, Truncate(m)
    PROVE  LET d == mig[m].at
               torn == WithPointer(stored[d], TornPointer) IN
           \E g : /\ Step(m, g) /\ IsMig(g) /\ g.pc = "write"
                  /\ g.known = mig[m].known /\ g.todo = mig[m].todo
                  /\ g.at = d /\ g.map = mig[m].map
                  /\ g.rows[1].env = stored[d].ptr.env
                  /\ g.rows[1].env \in mig[m].known
                  /\ Renewed(g.rows[1]) /\ ~New(d)
                  /\ d \notin DOMAIN g.map /\ d \notin g.todo
                  /\ d \in DOMAIN stored /\ torn \in Trees
                  /\ torn.base = stored[d].base /\ ~torn.ptr.whole
                  /\ stored' = [stored EXCEPT ![d] = torn]
                  /\ UNCHANGED <<envs, work, mishaps, saved>>
<1> DEFINE d == mig[m].at
           torn == WithPointer(stored[d], TornPointer)
<1>1. /\ IsMig(mig[m]) /\ mig[m].pc = "truncate" /\ Upgrading(mig[m])
      /\ d \in DOMAIN stored /\ stored[d] \in Trees
      /\ stored[d].ptr \in Pointers
  BY DEF Truncate, KInv, MigShape, Handling, UInv, Trees
<1>2. PICK p : p = Upgraded(stored[d].ptr)
  OBVIOUS
<1>3. p.env = stored[d].ptr.env /\ Renewed(p)
  <2>1. p.env = stored[d].ptr.env
    BY <1>1, <1>2, PointerValues
  <2>2. Renewed(p)
    BY <1>1, <1>2 DEF Upgraded, Renewed, Pointers
  <2> QED
    BY <2>1, <2>2
<1>4. PICK g : g = Goto(WithRows(mig[m], <<p>>), "write")
  OBVIOUS
<1>5. /\ IsMig(g) /\ g.pc = "write" /\ g.known = mig[m].known
      /\ g.todo = mig[m].todo /\ g.at = d /\ g.map = mig[m].map
      /\ g.rows = <<p>>
  BY <1>1, <1>4, Forms, HoldsFields
<1>6. g.rows[1] = p
  BY <1>5
<1>7. Step(m, g) /\ stored' = [stored EXCEPT ![d] = torn]
      /\ UNCHANGED <<envs, work, mishaps, saved>>
  BY <1>2, <1>4 DEF Truncate
<1>8. /\ stored[d].ptr.env \in mig[m].known
      /\ ~New(d) /\ d \notin DOMAIN mig[m].map /\ d \notin mig[m].todo
  BY <1>1 DEF Upgrading, Rewrites
<1>9. torn \in Trees /\ torn.base = stored[d].base /\ ~torn.ptr.whole
  BY <1>1, Pointing, PointerValues
<1> HIDE DEF torn
<1> QED
  BY <1>1, <1>3, <1>5, <1>6, <1>7, <1>8, <1>9 DEF torn

LEMMA Writes ==
    ASSUME KInv, UInv, NEW m \in Migrators, WritePointer(m)
    PROVE  LET d == mig[m].at
               tree == WithPointer(stored[d], mig[m].rows[1]) IN
           \E g : /\ Step(m, g) /\ IsMig(g) /\ g.pc = "rename"
                  /\ g.known = mig[m].known /\ g.todo = mig[m].todo
                  /\ g.at = d /\ g.map = mig[m].map
                  /\ Renewed(tree.ptr) /\ tree.ptr.env \in mig[m].known
                  /\ ~New(d) /\ d \notin DOMAIN g.map /\ d \notin g.todo
                  /\ d \in DOMAIN stored /\ tree \in Trees
                  /\ tree.base = stored[d].base /\ tree.ptr = mig[m].rows[1]
                  /\ tree.ptr.whole
                  /\ stored' = [stored EXCEPT ![d] = tree]
                  /\ UNCHANGED <<envs, work, mishaps, saved>>
<1> DEFINE d == mig[m].at
           p == mig[m].rows[1]
           tree == WithPointer(stored[d], p)
<1>1. /\ IsMig(mig[m]) /\ mig[m].pc = "write" /\ Upgrading(mig[m])
      /\ d \in DOMAIN stored /\ stored[d] \in Trees
      /\ p \in Pointers /\ p.whole
  BY DEF WritePointer, KInv, MigShape, Handling, UInv
<1>2. PICK g : g = Goto(WithRows(mig[m], <<>>), "rename")
  OBVIOUS
<1>3. /\ IsMig(g) /\ g.pc = "rename" /\ g.known = mig[m].known
      /\ g.todo = mig[m].todo /\ g.at = d /\ g.map = mig[m].map
  BY <1>1, <1>2, Forms, HoldsFields
<1>4. Step(m, g) /\ stored' = [stored EXCEPT ![d] = tree]
      /\ UNCHANGED <<envs, work, mishaps, saved>>
  BY <1>2 DEF WritePointer
<1>5. /\ Renewed(p) /\ p.env \in mig[m].known
      /\ ~New(d) /\ d \notin DOMAIN mig[m].map /\ d \notin mig[m].todo
  BY <1>1 DEF Upgrading, Rewrites
<1>6. tree \in Trees /\ tree.base = stored[d].base /\ tree.ptr = p
  BY <1>1, Pointing
<1> HIDE DEF tree
<1> QED
  BY <1>1, <1>3, <1>4, <1>5, <1>6 DEF tree

LEMMA UpgradingTruncates ==
    ASSUME KInv, UInv, NEW m \in Migrators, Truncate(m) PROVE UInv'
<1> DEFINE d == mig[m].at
           torn == WithPointer(stored[d], TornPointer)
<1>1. PICK g : /\ Step(m, g) /\ IsMig(g) /\ g.pc = "write"
               /\ g.known = mig[m].known /\ g.todo = mig[m].todo
               /\ g.at = d /\ g.map = mig[m].map
               /\ g.rows[1].env \in mig[m].known
               /\ Renewed(g.rows[1]) /\ ~New(d)
               /\ d \notin DOMAIN g.map /\ d \notin g.todo
               /\ d \in DOMAIN stored /\ torn \in Trees /\ ~torn.ptr.whole
               /\ stored' = [stored EXCEPT ![d] = torn]
               /\ UNCHANGED <<envs, work>>
  BY Truncates
<1>2. Upgrading(mig[m]) /\ Scans(mig[m])
  BY DEF UInv, Truncate, Scans
<1> HIDE DEF torn, d
<1>3. DOMAIN stored' = DOMAIN stored
  BY <1>1, Rewriting
<1>4. Upgrading(g)'
  BY <1>1, <1>2, <1>3 DEF Upgrading, Rewrites, Scans
<1> QED
  BY <1>1, <1>4, UpgradingRewrites

LEMMA UpgradingWrites ==
    ASSUME KInv, UInv, NEW m \in Migrators, WritePointer(m) PROVE UInv'
<1> DEFINE d == mig[m].at
           tree == WithPointer(stored[d], mig[m].rows[1])
<1>1. PICK g : /\ Step(m, g) /\ IsMig(g) /\ g.pc = "rename"
               /\ g.known = mig[m].known /\ g.todo = mig[m].todo
               /\ g.at = d /\ g.map = mig[m].map
               /\ Renewed(tree.ptr) /\ tree.ptr.env \in mig[m].known
               /\ ~New(d) /\ d \notin DOMAIN g.map /\ d \notin g.todo
               /\ d \in DOMAIN stored /\ tree \in Trees
               /\ stored' = [stored EXCEPT ![d] = tree]
               /\ UNCHANGED <<envs, work>>
  BY Writes
<1>2. Upgrading(mig[m]) /\ Scans(mig[m])
  BY DEF UInv, WritePointer, Scans
<1> HIDE DEF tree, d
<1>3. DOMAIN stored' = DOMAIN stored /\ stored'[d] = tree
  BY <1>1, Rewriting
<1>4. Upgrading(g)'
  BY <1>1, <1>2, <1>3 DEF Upgrading, Rewrites, Scans
<1> QED
  BY <1>1, <1>4, UpgradingRewrites

(* The tree goes to a new name, or there is one already: the same tree.    *)
LEMMA Renames ==
    ASSUME KInv, UInv, NEW m \in Migrators, Rename(m)
    PROVE  LET d == mig[m].at
               name == V2(stored[d])
               old == mig[m].map IN
           \E g : /\ Step(m, g) /\ IsMig(g) /\ g.pc = "scan"
                  /\ g.known = mig[m].known /\ g.todo = mig[m].todo
                  /\ DOMAIN g.map = DOMAIN old \cup {d} /\ g.map[d] = name
                  /\ \A e \in DOMAIN old \ {d} : g.map[e] = old[e]
                  /\ New(name) /\ ~New(d) /\ d \notin DOMAIN old
                  /\ d \notin mig[m].todo /\ d \in DOMAIN stored
                  /\ \A e \in DOMAIN old :
                        old[e] \in DOMAIN stored /\ New(old[e])
                  /\ name \in DOMAIN stored' /\ stored'[name] = stored[d]
                  /\ DOMAIN stored' \subseteq DOMAIN stored \cup {name}
                  /\ DOMAIN stored \ {d} \subseteq DOMAIN stored'
                  /\ \A e \in DOMAIN stored \cap DOMAIN stored' : stored'[e] = stored[e]
                  /\ \A x \in Migrators : x = m
                  /\ mig'[m] = g /\ MigShape'
                  /\ UNCHANGED <<envs, work, mishaps, saved>>
<1> DEFINE d == mig[m].at
           name == V2(stored[d])
           old == mig[m].map
           map == [e \in DOMAIN old \cup {d} |-> IF e = d THEN name ELSE old[e]]
<1>1. /\ IsMig(mig[m]) /\ mig[m].pc = "rename" /\ Upgrading(mig[m])
      /\ MigShape /\ d \in DOMAIN stored /\ stored[d] \in Trees
      /\ Truthful
  BY DEF Rename, KInv, MigShape, Handling, UInv
<1>2. PICK g : g = Goto(AtTree(WithMap(mig[m], map), NoTree), "scan")
  OBVIOUS
<1>3. /\ IsMig(g) /\ g.pc = "scan" /\ g.known = mig[m].known
      /\ g.todo = mig[m].todo /\ g.map = map
  BY <1>1, <1>2, Forms, HoldsFields
<1>4. /\ DOMAIN g.map = DOMAIN old \cup {d} /\ g.map[d] = name
      /\ \A e \in DOMAIN old \ {d} : g.map[e] = old[e]
  BY <1>3
<1>5. /\ Step(m, g)
      /\ stored' = IF name \in DOMAIN stored THEN stored
                   ELSE [e \in (DOMAIN stored \ {d}) \cup {name} |->
                          IF e = name THEN stored[d] ELSE stored[e]]
      /\ UNCHANGED <<envs, work, mishaps, saved>>
  BY <1>2 DEF Rename
<1>6. /\ Renewed(stored[d].ptr) /\ ~New(d)
      /\ d \notin DOMAIN old /\ d \notin mig[m].todo
      /\ \A e \in DOMAIN old : old[e] \in DOMAIN stored /\ New(old[e])
  BY <1>1 DEF Upgrading, Rewrites, Scans
<1>7. New(name) /\ name.of = stored[d]
  BY <1>6 DEF New, V2
<1> HIDE DEF map, name, old, d
<1>8. /\ name \in DOMAIN stored' /\ stored'[name] = stored[d]
      /\ DOMAIN stored' \subseteq DOMAIN stored \cup {name}
      /\ DOMAIN stored \ {d} \subseteq DOMAIN stored'
      /\ \A e \in DOMAIN stored \cap DOMAIN stored' : stored'[e] = stored[e]
  <2>1. CASE name \in DOMAIN stored
    <3>1. stored' = stored
      BY <1>5, <2>1
    <3>2. name = V2(stored[name])
      BY <1>1, <1>7, <2>1 DEF Truthful
    <3>3. stored[name] = stored[d]
      BY <1>7, <3>2 DEF V2
    <3> QED
      BY <2>1, <3>1, <3>3
  <2>2. CASE name \notin DOMAIN stored
    BY <1>5, <2>2
  <2> QED
    BY <2>1, <2>2
<1>9. /\ \A x \in Migrators : x = m
      /\ mig'[m] = g
      /\ mig' = [x \in Migrators |-> mig'[x]]
      /\ \A x \in Migrators : IsMig(mig'[x])
  BY <1>1, <1>3, <1>5, Stepping
<1>10. stored' = [e \in DOMAIN stored' |-> stored'[e]]
  BY <1>1, <1>5 DEF MigShape
<1>11. \A e \in DOMAIN stored' : stored'[e] \in Trees
  BY <1>1, <1>8 DEF MigShape
<1>12. MigShape'
  BY <1>9, <1>10, <1>11 DEF MigShape, IsMig
<1> QED
  BY <1>1, <1>3, <1>4, <1>5, <1>6, <1>7, <1>8, <1>9, <1>12 DEF name, old, d

LEMMA UpgradingRenames ==
    ASSUME KInv, UInv, NEW m \in Migrators, Rename(m) PROVE UInv'
<1> DEFINE d == mig[m].at
           name == V2(stored[d])
           old == mig[m].map
<1>1. PICK g :
        /\ g.pc = "scan" /\ g.known = mig[m].known /\ g.todo = mig[m].todo
        /\ DOMAIN g.map = DOMAIN old \cup {d} /\ g.map[d] = name
        /\ \A e \in DOMAIN old \ {d} : g.map[e] = old[e]
        /\ New(name) /\ ~New(d) /\ d \notin mig[m].todo /\ d \in DOMAIN stored
        /\ \A e \in DOMAIN old : old[e] \in DOMAIN stored /\ New(old[e])
        /\ name \in DOMAIN stored' /\ stored'[name] = stored[d]
        /\ DOMAIN stored \ {d} \subseteq DOMAIN stored'
        /\ \A e \in DOMAIN stored \cap DOMAIN stored' : stored'[e] = stored[e]
        /\ DOMAIN stored' \subseteq DOMAIN stored \cup {name}
        /\ \A x \in Migrators : x = m
        /\ mig'[m] = g
        /\ UNCHANGED <<envs, work>>
  BY Renames
<1>2. Upgrading(mig[m]) /\ Scans(mig[m])
  BY DEF UInv, Rename, Scans
<1>3. UNCHANGED <<python, site, ready, work>>
  BY <1>1 DEF envs
<1>4. name = V2(stored'[name])
  BY <1>1
<1> HIDE DEF d, name, old
<1>5. Interpreted' /\ Knowledge'
  BY <1>1, <1>3 DEF UInv, Interpreted, Knowledge, Built
<1>6. Truthful'
  BY <1>1, <1>4 DEF UInv, Truthful
<1>7. ASSUME NEW e \in DOMAIN stored', stored'[e].ptr.whole,
             stored'[e].ptr \notin Asked
      PROVE  stored'[e].ptr.env \in python' /\ Built(stored[e].ptr.env)'
  <2>1. PICK c \in DOMAIN stored : stored'[e] = stored[c]
    BY <1>1
  <2>2. stored[c].ptr.env \in python /\ Built(stored[c].ptr.env)
    BY <1>7, <2>1 DEF UInv, Answered
  <2> QED
    BY <1>3, <2>1, <2>2 DEF Built
<1>8. \A e \in DOMAIN g.map : New(g.map[e]) /\ g.map[e] \in DOMAIN stored'
  BY <1>1
<1>9. \A e \in DOMAIN g.map : e \notin g.todo
  BY <1>1, <1>2 DEF Upgrading, old
<1>10. Upgrading(g)'
  BY <1>1, <1>8, <1>9 DEF Upgrading, Rewrites
<1>11. \A x \in Migrators : Upgrading(mig[x])'
  BY <1>1, <1>10 DEF Upgrading
<1> QED
  BY <1>5, <1>6, <1>7, <1>11 DEF UInv, Answered

LEMMA UpgradedByStep == IInv /\ KInv /\ UInv /\ [Next]_vars => UInv'
<1> SUFFICES ASSUME IInv, KInv, UInv, [Next]_vars PROVE UInv'
  OBVIOUS
<1>1. ASSUME NEW m \in Migrators, Migrate(m) PROVE UInv'
  BY <1>1, UpgradingBeginsAndEnds, UpgradingScans, UpgradingTruncates,
     UpgradingWrites, UpgradingRenames DEF Migrate
<1>2. ASSUME NEW w \in Workers, Replay(w) PROVE UInv'
  BY <1>2, UpgradingBesideWorkers
<1>3. CASE UNCHANGED vars
  <2>1. UNCHANGED <<python, site, ready, work, stored, mig>>
    BY <1>3 DEF vars, envs
  <2>2. /\ Interpreted' /\ Knowledge' /\ Truthful' /\ Answered'
        /\ \A m \in Migrators : Upgrading(mig[m])'
    BY <2>1 DEF UInv, Interpreted, Knowledge, Truthful, Answered, Upgrading, Built
  <2> QED
    BY <2>2 DEF UInv
<1> QED
  BY <1>1, <1>2, <1>3 DEF Next

(* A pointer that no row had is one that migration has upgraded, and the   *)
(* environment it asks for was built to its end: _env_identity lists what  *)
(* has a marker, and ensure writes the marker last.                        *)
THEOREM UpgradesAreBuilt == Spec => []UpgradedPointersAreBuilt
<1>1. UInv => UpgradedPointersAreBuilt
  BY MigrationAssumption
     DEF UInv, Answered, Asked, UpgradedPointersAreBuilt, Range
<1> QED
  BY <1>1, InitInvariant, StepInvariant, KeptAtFirst, KeptByStep,
     UpgradedAtFirst, UpgradedByStep, PTL DEF Spec

-----------------------------------------------------------------------------
(* The tree of a row, to be found under a digest.                          *)
Found(d, r) == Restorable(d) /\ Matches(stored[d], r)

(* Where the scan has it: under its new name, in the hands of the          *)
(* migrator, or under its old name.                                        *)
Located(g, d, r) ==
    \/ d \in DOMAIN g.map /\ Found(g.map[d], r)
    \/ /\ d \notin DOMAIN g.map /\ g.pc = "write" /\ g.at = d
       /\ stored[d].base = Original[r].of.base
       /\ g.rows[1].env = Original[r].of.ptr.env
    \/ /\ d \notin DOMAIN g.map /\ g.pc = "rename" /\ g.at = d
       /\ Matches(stored[d], r)
    \/ /\ d \notin DOMAIN g.map /\ ~(g.pc \in {"write", "rename"} /\ g.at = d)
       /\ Found(d, r)

FileNames == {"episodes", "snapshots", "units", "report"}

TreeRows(f) == Rows[f] \cap (Snaps \cup Eps)

(* The rows of a file, as saved or in memory.                              *)
Complete(f, rows) ==
    /\ DOMAIN rows = Rows[f]
    /\ \A r \in TreeRows(f) : Found(rows[r], r)

(* What is saved and held at each stage of an undisturbed migration.       *)
Staged(g) ==
    /\ Scans(g) => \A f \in FileNames :
            /\ saved[f].whole /\ DOMAIN saved[f].rows = Rows[f]
            /\ \A r \in TreeRows(f) : Located(g, saved[f].rows[r], r)
    /\ Scans(g) => \A d \in DOMAIN stored :
            stored[d].ptr.whole \/ (g.pc = "write" /\ g.at = d)
    /\ Saves(g) => /\ g.file \in 1..4
                   /\ \A f \in FileNames : Complete(f, g.rows[f])
                   /\ \A i \in 1..(g.file - 1) :
                         /\ saved[Files[i]].whole
                         /\ Complete(Files[i], saved[Files[i]].rows)
                   /\ \A d \in DOMAIN stored : stored[d].ptr.whole

AtPeace == \A m \in Migrators : ~Scans(mig[m]) /\ ~Saves(mig[m])

(* The run as it rests.                                                    *)
Rested ==
    /\ \A f \in FileNames : saved[f].whole /\ Complete(f, saved[f].rows)
    /\ \A d \in DOMAIN stored : stored[d].ptr.whole

RInv ==
    mishaps = 0 => /\ saved = [f \in FileNames |-> saved[f]]
                   /\ \A m \in Migrators : Staged(mig[m])
                   /\ AtPeace => Rested

LEMMA FilesNamed ==
    /\ Range(Files) = FileNames /\ Len(Files) = 4
    /\ \A i \in 1..4 : Files[i] \in FileNames
    /\ \A i, j \in 1..4 : i # j => Files[i] # Files[j]
    /\ \A f \in FileNames : \E i \in 1..4 : Files[i] = f
<1>1. /\ DOMAIN Files = 1..4 /\ Len(Files) = 4
      /\ Files[1] = "episodes" /\ Files[2] = "snapshots"
      /\ Files[3] = "units" /\ Files[4] = "report"
  BY DEF Files
<1>2. \A i \in 1..4 : i = 1 \/ i = 2 \/ i = 3 \/ i = 4
  OBVIOUS
<1>3. \A i \in 1..4 : Files[i] \in FileNames
  BY <1>1, <1>2 DEF FileNames
<1>4. \A f \in FileNames : \E i \in 1..4 : Files[i] = f
  BY <1>1 DEF FileNames
<1>5. Range(Files) = FileNames
  BY <1>1, <1>3, <1>4 DEF Range
<1>6. \A i, j \in 1..4 : i # j => Files[i] # Files[j]
  BY <1>1, <1>2
<1> QED
  BY <1>1, <1>3, <1>4, <1>5, <1>6

LEMMA RestoresAtFirst == Init => RInv
<1> SUFFICES ASSUME Init PROVE RInv
  OBVIOUS
<1>1. /\ stored = [d \in Range(Original) |-> d.of]
      /\ mig = [m \in Migrators |-> Idle("idle")]
      /\ saved = [f \in FileNames |->
                    [whole |-> TRUE,
                     rows |-> [r \in Rows[f] |->
                       IF r \in Snaps \cup Eps THEN Original[r] ELSE NoTree]]]
  BY FilesNamed DEF Init
<1>2. \A m \in Migrators : mig[m].pc = "idle"
  <2>1. mig = [m \in Migrators |-> Idle("idle")]
    BY <1>1
  <2> QED
    BY <2>1, Idling
<1>3. \A m \in Migrators : Staged(mig[m])
  BY <1>2 DEF Staged, Scans, Saves
<1>4. ASSUME NEW r \in Snaps \cup Eps PROVE Found(Original[r], r)
  <2>1. /\ Original[r] \in Digests /\ Original[r] \in DOMAIN stored
        /\ stored[Original[r]] = Original[r].of
        /\ Original[r].of.ptr.whole
    BY <1>1, MigrationAssumption DEF Range
  <2>2. Original[r].v2 => Original[r] = V2(Original[r].of)
    BY <2>1 DEF Digests, V2
  <2> QED
    BY <2>1, <2>2 DEF Found, Restorable, Matches
<1>5. ASSUME NEW f \in FileNames
      PROVE  saved[f].whole /\ Complete(f, saved[f].rows)
  <2>1. /\ saved[f].whole /\ DOMAIN saved[f].rows = Rows[f]
        /\ \A r \in TreeRows(f) : saved[f].rows[r] = Original[r]
    BY <1>1 DEF TreeRows
  <2> QED
    BY <1>4, <2>1 DEF Complete, TreeRows
<1>6. \A d \in DOMAIN stored : stored[d].ptr.whole
  BY <1>1, MigrationAssumption DEF Range
<1>7. saved = [f \in FileNames |-> saved[f]]
  BY <1>1
<1> QED
  BY <1>3, <1>5, <1>6, <1>7 DEF RInv, Rested

LEMMA RestoringStands ==
    ASSUME RInv, UNCHANGED <<stored, saved, mig>>, mishaps' = 0 => mishaps = 0
    PROVE  RInv'
<1>1. \A f, rows : Complete(f, rows)' = Complete(f, rows)
  BY DEF Complete, Found, Restorable, Matches
<1>2. \A g, d, r : Located(g, d, r)' = Located(g, d, r)
  BY DEF Located, Found, Restorable, Matches
<1>3. \A m \in Migrators : Staged(mig[m]) => Staged(mig[m])'
  BY <1>1, <1>2 DEF Staged
<1>4. AtPeace' => AtPeace
  BY DEF AtPeace
<1>5. Rested => Rested'
  BY <1>1 DEF Rested
<1> QED
  BY <1>3, <1>4, <1>5 DEF RInv

(* What is to be shown of a migrator's step.                               *)
LEMMA RestoringStep ==
    ASSUME MigShape, NEW m \in Migrators, NEW g, IsMig(g), Step(m, g),
           mishaps' = 0 =>
               /\ (saved = [f \in FileNames |-> saved[f]])'
               /\ Staged(g)'
               /\ ~Scans(g) /\ ~Saves(g) => Rested'
    PROVE  RInv'
<1>1. mig'[m] = g /\ \A x \in Migrators : x = m
  BY Stepping
<1>2. mishaps' = 0 => \A x \in Migrators : Staged(mig[x])'
  BY <1>1 DEF Staged
<1>3. AtPeace' => ~Scans(g) /\ ~Saves(g)
  BY <1>1 DEF AtPeace
<1> QED
  BY <1>2, <1>3 DEF RInv

(* A tree that the step does not touch is found where it was.              *)
LEMMA StillFound ==
    ASSUME NEW d, NEW r, Found(d, r), d \in DOMAIN stored',
           stored'[d] = stored[d]
    PROVE  Found(d, r)'
BY DEF Found, Restorable, Matches

(* Beginning and going to rest.                                            *)
LEMMA RestoringBegins ==
    ASSUME KInv, RInv, NEW m \in Migrators, Begin(m) \/ Again(m)
    PROVE  RInv'
<1>1. /\ MigShape /\ mig[m].pc \in {"idle", "done", "raised"}
      /\ \A x \in Migrators : x = m
      /\ UNCHANGED <<stored, saved>>
      /\ mishaps' = mishaps
  BY MigrationAssumption DEF KInv, Begin, Again
<1>2. AtPeace
  BY <1>1 DEF AtPeace, Scans, Saves
<1>3. \A f, rows : Complete(f, rows)' = Complete(f, rows)
  BY <1>1 DEF Complete, Found, Restorable, Matches
<1>4. mishaps = 0 => Rested /\ Rested' /\ saved = [f \in FileNames |-> saved[f]]
  <2>1. Rested => Rested'
    BY <1>1, <1>3 DEF Rested
  <2> QED
    BY <1>2, <2>1 DEF RInv
<1>5. CASE \E pc \in {"idle", "raised"} : Step(m, Idle(pc))
  <2>1. PICK pc \in {"idle", "raised"} : Step(m, Idle(pc))
    BY <1>5
  <2>2. PICK g : g = Idle(pc) /\ IsMig(g) /\ g.pc = pc
    BY Beginnings, HoldsFields
  <2>3. Staged(g)'
    BY <2>2 DEF Staged, Scans, Saves
  <2> QED
    BY <1>1, <1>4, <2>1, <2>2, <2>3, RestoringStep
<1>6. CASE /\ Begin(m)
           /\ Step(m, WithTodo(Knowing(Idle("scan"), EnvIdentity),
                               DOMAIN stored))
  <2>1. PICK g : g = Holds("scan", EnvIdentity, DOMAIN stored, NoTree, <<>>,
                           1, <<>>)
    OBVIOUS
  <2>2. Step(m, g)
    BY <1>6, <2>1, Beginnings
  <2>3. /\ IsMig(g) /\ g.pc = "scan" /\ DOMAIN g.map = {}
    BY <2>1, HoldsFields, EmptyMap
  <2>4. \A d, r : Found(d, r)' => Located(g, d, r)'
    BY <2>3 DEF Located
  <2>5. Rested' => Staged(g)'
    BY <2>3, <2>4 DEF Rested, Complete, Staged, Scans, Saves
  <2> QED
    BY <1>1, <1>4, <2>2, <2>3, <2>5, RestoringStep DEF Scans
<1> QED
  BY <1>5, <1>6 DEF Begin, Again

LEMMA RestoringScans ==
    ASSUME KInv, UInv, RInv, NEW m \in Migrators, Scan(m) PROVE RInv'
<1>1. /\ MigShape /\ mig[m].pc = "scan" /\ UNCHANGED <<stored, saved>>
      /\ mishaps' = mishaps
  BY DEF KInv, Scan
<1>2. PICK d, g :
        /\ d \in mig[m].todo
        /\ Step(m, g) /\ IsMig(g)
        /\ \/ d \in DOMAIN stored /\ ~stored[d].ptr.whole
           \/ g.pc \in {"scan", "truncate"} /\ g.map = mig[m].map
  BY <1>1, ScanFinds
<1>3. ASSUME mishaps = 0
      PROVE  Staged(g)' /\ Scans(g) /\ saved = [f \in FileNames |-> saved[f]]
  <2>1. Staged(mig[m]) /\ saved = [f \in FileNames |-> saved[f]]
    BY <1>3 DEF RInv
  <2>2. \A e \in DOMAIN stored : stored[e].ptr.whole
    BY <1>1, <2>1 DEF Staged, Scans
  <2>3. g.pc \in {"scan", "truncate"} /\ g.map = mig[m].map
    BY <1>2, <2>2
  <2>4. \A e, r : Located(mig[m], e, r) => Located(g, e, r)'
    BY <1>1, <2>3 DEF Located, Found, Restorable, Matches
  <2>5. Staged(g)'
    BY <1>1, <2>1, <2>2, <2>3, <2>4 DEF Staged, Scans, Saves
  <2> QED
    BY <2>1, <2>3, <2>5 DEF Scans
<1> QED
  BY <1>1, <1>2, <1>3, RestoringStep

LEMMA RestoringTruncates ==
    ASSUME KInv, UInv, RInv, NEW m \in Migrators, Truncate(m) PROVE RInv'
<1> DEFINE d == mig[m].at
           torn == WithPointer(stored[d], TornPointer)
<1>1. PICK g : /\ Step(m, g) /\ IsMig(g) /\ g.pc = "write"
               /\ g.at = d /\ g.map = mig[m].map
               /\ g.rows[1].env = stored[d].ptr.env
               /\ ~New(d) /\ d \notin DOMAIN g.map
               /\ d \in DOMAIN stored /\ torn \in Trees
               /\ torn.base = stored[d].base
               /\ stored' = [stored EXCEPT ![d] = torn]
               /\ UNCHANGED <<mishaps, saved>>
  BY Truncates
<1>2. /\ MigShape /\ mig[m].pc = "truncate"
      /\ \A e \in DOMAIN g.map : New(g.map[e]) /\ g.map[e] \in DOMAIN stored
  BY <1>1 DEF KInv, UInv, Upgrading, Truncate, Scans
<1> HIDE DEF torn, d
<1>3. /\ DOMAIN stored' = DOMAIN stored /\ stored'[d] = torn
      /\ \A e \in DOMAIN stored \ {d} : stored'[e] = stored[e]
  BY <1>1, Rewriting
<1>4. ASSUME mishaps = 0
      PROVE  Staged(g)' /\ saved = [f \in FileNames |-> saved[f]]
  <2>1. Staged(mig[m]) /\ saved = [f \in FileNames |-> saved[f]]
    BY <1>4 DEF RInv
  <2>2. ASSUME NEW e, NEW r, Located(mig[m], e, r) PROVE Located(g, e, r)'
    <3>1. CASE e \in DOMAIN g.map
      <4>1. Found(g.map[e], r) /\ g.map[e] # d /\ g.map[e] \in DOMAIN stored
        BY <1>1, <1>2, <2>2, <3>1 DEF Located
      <4>2. Found(g.map[e], r)'
        BY <1>3, <4>1, StillFound
      <4> QED
        BY <3>1, <4>2 DEF Located
    <3>2. CASE e \notin DOMAIN g.map
      <4>1. Found(e, r)
        BY <1>1, <1>2, <2>2, <3>2 DEF Located
      <4>2. CASE e = d
        BY <1>1, <1>3, <3>2, <4>1, <4>2 DEF Found, Matches, Located
      <4>3. CASE e # d
        <5>1. Found(e, r)'
          BY <1>3, <4>1, <4>3, StillFound DEF Found, Restorable
        <5> QED
          BY <1>1, <3>2, <4>3, <5>1 DEF Located
      <4> QED
        BY <4>2, <4>3
    <3> QED
      BY <3>1, <3>2
  <2>3. \A e \in DOMAIN stored' : stored'[e].ptr.whole \/ (g.pc = "write" /\ g.at = e)
    BY <1>1, <1>2, <1>3, <2>1 DEF Staged, Scans
  <2>4. Staged(g)'
    BY <1>1, <1>2, <2>1, <2>2, <2>3 DEF Staged, Scans, Saves
  <2> QED
    BY <2>1, <2>4
<1>5. Scans(g)
  BY <1>1 DEF Scans
<1> QED
  BY <1>1, <1>2, <1>4, <1>5, RestoringStep

LEMMA RestoringWrites ==
    ASSUME KInv, UInv, RInv, NEW m \in Migrators, WritePointer(m) PROVE RInv'
<1> DEFINE d == mig[m].at
           tree == WithPointer(stored[d], mig[m].rows[1])
<1>1. PICK g : /\ Step(m, g) /\ IsMig(g) /\ g.pc = "rename"
               /\ g.at = d /\ g.map = mig[m].map
               /\ ~New(d) /\ d \notin DOMAIN g.map
               /\ d \in DOMAIN stored /\ tree \in Trees
               /\ tree.base = stored[d].base /\ tree.ptr = mig[m].rows[1]
               /\ tree.ptr.whole
               /\ stored' = [stored EXCEPT ![d] = tree]
               /\ UNCHANGED <<mishaps, saved>>
  BY Writes
<1>2. /\ MigShape /\ mig[m].pc = "write" /\ mig[m].at = d
      /\ \A e \in DOMAIN g.map : New(g.map[e]) /\ g.map[e] \in DOMAIN stored
  BY <1>1 DEF KInv, UInv, Upgrading, WritePointer, Scans
<1> HIDE DEF tree, d
<1>3. /\ DOMAIN stored' = DOMAIN stored /\ stored'[d] = tree
      /\ \A e \in DOMAIN stored \ {d} : stored'[e] = stored[e]
  BY <1>1, Rewriting
<1>4. ASSUME mishaps = 0
      PROVE  Staged(g)' /\ saved = [f \in FileNames |-> saved[f]]
  <2>1. Staged(mig[m]) /\ saved = [f \in FileNames |-> saved[f]]
    BY <1>4 DEF RInv
  <2>2. ASSUME NEW e, NEW r, Located(mig[m], e, r) PROVE Located(g, e, r)'
    <3>1. CASE e \in DOMAIN g.map
      <4>1. Found(g.map[e], r) /\ g.map[e] # d /\ g.map[e] \in DOMAIN stored
        BY <1>1, <1>2, <2>2, <3>1 DEF Located
      <4>2. Found(g.map[e], r)'
        BY <1>3, <4>1, StillFound
      <4> QED
        BY <3>1, <4>2 DEF Located
    <3>2. CASE e \notin DOMAIN g.map /\ e = d
      <4>1. /\ stored[d].base = Original[r].of.base
            /\ mig[m].rows[1].env = Original[r].of.ptr.env
        BY <1>1, <1>2, <2>2, <3>2 DEF Located
      <4> QED
        BY <1>1, <1>3, <3>2, <4>1 DEF Matches, Located
    <3>3. CASE e \notin DOMAIN g.map /\ e # d
      <4>1. Found(e, r)
        BY <1>1, <1>2, <2>2, <3>3 DEF Located
      <4>2. Found(e, r)'
        BY <1>3, <3>3, <4>1, StillFound DEF Found, Restorable
      <4> QED
        BY <1>1, <3>3, <4>2 DEF Located
    <3> QED
      BY <3>1, <3>2, <3>3
  <2>3. \A e \in DOMAIN stored' : stored'[e].ptr.whole
    BY <1>1, <1>2, <1>3, <2>1 DEF Staged, Scans
  <2>4. Staged(g)'
    BY <1>1, <1>2, <2>1, <2>2, <2>3 DEF Staged, Scans, Saves
  <2> QED
    BY <2>1, <2>4
<1>5. Scans(g)
  BY <1>1 DEF Scans
<1> QED
  BY <1>1, <1>2, <1>4, <1>5, RestoringStep

LEMMA RestoringRenames ==
    ASSUME KInv, UInv, RInv, NEW m \in Migrators, Rename(m) PROVE RInv'
<1>0. PICK d, name, old :
        d = mig[m].at /\ name = V2(stored[d]) /\ old = mig[m].map
  OBVIOUS
<1>1. PICK g :
        /\ Step(m, g) /\ IsMig(g) /\ g.pc = "scan"
        /\ DOMAIN g.map = DOMAIN old \cup {d} /\ g.map[d] = name
        /\ \A e \in DOMAIN old \ {d} : g.map[e] = old[e]
        /\ ~New(d) /\ d \notin DOMAIN old
        /\ \A e \in DOMAIN old : old[e] \in DOMAIN stored /\ New(old[e])
        /\ name \in DOMAIN stored' /\ stored'[name] = stored[d]
        /\ d \in DOMAIN stored
        /\ DOMAIN stored' \subseteq DOMAIN stored \cup {name}
        /\ DOMAIN stored \ {d} \subseteq DOMAIN stored'
        /\ \A e \in DOMAIN stored \cap DOMAIN stored' : stored'[e] = stored[e]
        /\ UNCHANGED <<mishaps, saved>>
  BY <1>0, Renames
<1>2. MigShape /\ mig[m].pc = "rename" /\ mig[m].at = d /\ mig[m].map = old
  BY <1>0 DEF KInv, Rename
<1>3. name = V2(stored'[name])
  BY <1>0, <1>1
<1>4. ASSUME mishaps = 0
      PROVE  Staged(g)' /\ saved = [f \in FileNames |-> saved[f]]
  <2>1. Staged(mig[m]) /\ saved = [f \in FileNames |-> saved[f]]
    BY <1>4 DEF RInv
  <2>2. ASSUME NEW e, NEW r, Located(mig[m], e, r) PROVE Located(g, e, r)'
    <3>1. CASE e \in DOMAIN old
      <4>1. Found(old[e], r) /\ old[e] # d /\ old[e] \in DOMAIN stored
        BY <1>1, <1>2, <2>2, <3>1 DEF Located
      <4>2. Found(old[e], r)'
        BY <1>1, <4>1, StillFound
      <4>3. e \in DOMAIN g.map /\ g.map[e] = old[e]
        BY <1>1, <3>1
      <4> QED
        BY <4>2, <4>3 DEF Located
    <3>2. CASE e = d
      <4>1. Matches(stored[d], r)
        BY <1>1, <1>2, <2>2, <3>2 DEF Located
      <4>2. Found(name, r)'
        BY <1>1, <1>3, <4>1 DEF Found, Restorable, Matches
      <4> QED
        BY <1>1, <3>2, <4>2 DEF Located
    <3>3. CASE e \notin DOMAIN old /\ e # d
      <4>1. Found(e, r)
        BY <1>1, <1>2, <2>2, <3>3 DEF Located
      <4>2. e \in DOMAIN stored /\ e \in DOMAIN stored' /\ stored'[e] = stored[e]
        BY <1>1, <3>3, <4>1 DEF Found, Restorable
      <4>3. Found(e, r)'
        BY <4>1, <4>2, StillFound
      <4> QED
        BY <1>1, <3>3, <4>3 DEF Located
    <3> QED
      BY <3>1, <3>2, <3>3
  <2>3. \A e \in DOMAIN stored : stored[e].ptr.whole
    BY <1>2, <2>1 DEF Staged, Scans
  <2>4. \A e \in DOMAIN stored' : stored'[e].ptr.whole
    BY <1>1, <2>3
  <2>5. Staged(g)'
    BY <1>1, <1>2, <2>1, <2>2, <2>4 DEF Staged, Scans, Saves
  <2> QED
    BY <2>1, <2>5
<1>5. Scans(g)
  BY <1>1 DEF Scans
<1> QED
  BY <1>1, <1>2, <1>4, <1>5, RestoringStep

(* After the last tree every row is found under the digest it is given.    *)
LEMMA RestoringLoads ==
    ASSUME KInv, RInv, NEW m \in Migrators, Load(m) PROVE RInv'
<1>1. /\ MigShape /\ IsMig(mig[m]) /\ mig[m].pc = "scan"
      /\ UNCHANGED <<stored, saved, mishaps>>
  BY DEF KInv, MigShape, Load
<1>2. PICK g : /\ Step(m, g) /\ IsMig(g)
               /\ \/ \E f \in FileNames : ~saved[f].whole
                        \/ (f = "report" /\ saved[f].rows = <<>>)
                  \/ /\ g.pc = "open" /\ g.file = 1
                     /\ g.rows = [f \in FileNames |-> RemappedRows(m, f)]
  <2>1. CASE \E f \in FileNames : ~saved[f].whole
                        \/ (f = "report" /\ saved[f].rows = <<>>)
    <3>1. Step(m, Idle("raised"))
      BY <2>1, FilesNamed DEF Load
    <3> QED
      BY <2>1, <3>1, Beginnings, HoldsFields
  <2>2. CASE ~\E f \in FileNames : ~saved[f].whole
                        \/ (f = "report" /\ saved[f].rows = <<>>)
    <3>1. PICK rows : rows = [f \in FileNames |-> RemappedRows(m, f)]
      OBVIOUS
    <3>2. Step(m, WithRows(Idle("open"), rows))
      BY <2>2, <3>1, FilesNamed DEF Load
    <3>3. WithRows(Idle("open"), rows) =
              Holds("open", {}, {}, NoTree, <<>>, 1, rows)
      BY Beginnings
    <3> QED
      BY <3>1, <3>2, <3>3, HoldsFields
  <2> QED
    BY <2>1, <2>2
<1>3. ASSUME mishaps = 0
      PROVE  Staged(g)' /\ Saves(g) /\ saved = [f \in FileNames |-> saved[f]]
  <2>1. Staged(mig[m]) /\ saved = [f \in FileNames |-> saved[f]]
    BY <1>3 DEF RInv
  <2>2. \A f \in FileNames : saved[f].whole /\ DOMAIN saved[f].rows = Rows[f]
    BY <1>1, <2>1 DEF Staged, Scans
  <2>3. saved["report"].rows # <<>>
    BY <2>2, EmptyMap DEF FileNames, Rows
  <2>4. /\ g.pc = "open" /\ g.file = 1
        /\ g.rows = [f \in FileNames |-> RemappedRows(m, f)]
    BY <1>2, <2>2, <2>3
  <2>5. ASSUME NEW f \in FileNames PROVE Complete(f, g.rows[f])'
    <3>1. /\ DOMAIN g.rows[f] = Rows[f]
          /\ \A r \in Rows[f] : g.rows[f][r] = Remapped(m, saved[f].rows[r])
      BY <2>2, <2>4 DEF RemappedRows
    <3>2. ASSUME NEW r \in TreeRows(f) PROVE Found(g.rows[f][r], r)'
      <4>1. Located(mig[m], saved[f].rows[r], r)
        BY <1>1, <2>1 DEF Staged, Scans
      <4>2. Found(Remapped(m, saved[f].rows[r]), r)
        BY <1>1, <4>1 DEF Located, Remapped
      <4>3. Found(g.rows[f][r], r)
        BY <3>1, <4>2 DEF TreeRows
      <4> QED
        BY <1>1, <4>3 DEF Found, Restorable, Matches
    <3> QED
      BY <3>1, <3>2 DEF Complete
  <2>6. \A d \in DOMAIN stored : stored[d].ptr.whole
    BY <1>1, <2>1 DEF Staged, Scans
  <2>7. Staged(g)'
    BY <1>1, <2>4, <2>5, <2>6 DEF Staged, Scans, Saves
  <2> QED
    BY <2>1, <2>4, <2>7 DEF Saves
<1> QED
  BY <1>1, <1>2, <1>3, RestoringStep

(* Saving: the files before the one at hand are as they should be.         *)
LEMMA RestoringSaves ==
    ASSUME KInv, RInv, NEW m \in Migrators, Open(m) \/ Close(m) PROVE RInv'
<1>1. /\ MigShape /\ IsMig(mig[m]) /\ Saves(mig[m])
      /\ UNCHANGED <<stored, mishaps>>
  BY DEF KInv, MigShape, Open, Close, Saves
<1>2. \A f, rows : Complete(f, rows)' = Complete(f, rows)
  BY <1>1 DEF Complete, Found, Restorable, Matches
<1>3. PICK k : k = mig[m].file
  OBVIOUS
<1>4. ASSUME mishaps = 0
      PROVE  /\ saved = [f \in FileNames |-> saved[f]]
             /\ k \in 1..4 /\ Files[k] \in FileNames
             /\ \A f \in FileNames : Complete(f, mig[m].rows[f])
             /\ \A i \in 1..(k - 1) :
                   saved[Files[i]].whole /\ Complete(Files[i], saved[Files[i]].rows)
             /\ \A d \in DOMAIN stored : stored[d].ptr.whole
  BY <1>1, <1>3, <1>4, FilesNamed DEF RInv, Staged
<1>5. CASE Open(m)
  <2>1. PICK g : g = Goto(mig[m], "close")
    OBVIOUS
  <2>2. Step(m, g) /\ saved' = [saved EXCEPT ![Files[k]] =
                                   [whole |-> TRUE, rows |-> <<>>]]
    BY <1>3, <1>5, <2>1 DEF Open
  <2>3. /\ IsMig(g) /\ g.pc = "close" /\ g.file = k /\ g.rows = mig[m].rows
    BY <1>1, <1>3, <2>1, Forms, HoldsFields
  <2>4. ASSUME mishaps = 0
        PROVE  (saved = [f \in FileNames |-> saved[f]])' /\ Staged(g)'
    <3>1. saved' = [f \in FileNames |-> saved'[f]]
      BY <1>4, <2>2, <2>4
    <3>2. \A i \in 1..(k - 1) : /\ i \in 1..4 /\ i # k
                                /\ Files[i] \in FileNames /\ Files[i] # Files[k]
      BY <1>4, <2>4, FilesNamed
    <3>3. \A i \in 1..(k - 1) : saved'[Files[i]] = saved[Files[i]]
      BY <1>4, <2>2, <2>4, <3>2
    <3>4. Staged(g)'
      BY <1>1, <1>2, <1>4, <2>3, <2>4, <3>3 DEF Staged, Scans, Saves
    <3> QED
      BY <3>1, <3>4
  <2> QED
    BY <1>1, <2>2, <2>3, <2>4, RestoringStep DEF Saves
<1>6. CASE Close(m)
  <2>1. saved' = [saved EXCEPT ![Files[k]] =
                     [whole |-> TRUE, rows |-> mig[m].rows[Files[k]]]]
    BY <1>3, <1>6 DEF Close
  <2>2. ASSUME mishaps = 0
        PROVE  /\ saved' = [f \in FileNames |-> saved'[f]]
               /\ \A i \in 1..k : /\ saved'[Files[i]].whole
                                  /\ Complete(Files[i], saved'[Files[i]].rows)
    <3>1. saved' = [f \in FileNames |-> saved'[f]]
      BY <1>4, <2>1, <2>2
    <3>2. /\ saved'[Files[k]].whole
          /\ saved'[Files[k]].rows = mig[m].rows[Files[k]]
      BY <1>4, <2>1, <2>2
    <3>3. \A i \in 1..k : i # k => /\ i \in 1..(k - 1) /\ i \in 1..4
                                   /\ Files[i] \in FileNames
                                   /\ Files[i] # Files[k]
      BY <1>4, <2>2, FilesNamed
    <3>4. \A i \in 1..k : i # k => saved'[Files[i]] = saved[Files[i]]
      BY <1>4, <2>1, <2>2, <3>3
    <3>5. ASSUME NEW i \in 1..k
          PROVE  /\ saved'[Files[i]].whole
                 /\ Complete(Files[i], saved'[Files[i]].rows)
      <4>1. CASE i = k
        BY <1>4, <2>2, <3>2, <4>1
      <4>2. CASE i # k
        BY <1>4, <2>2, <3>3, <3>4, <4>2
      <4> QED
        BY <4>1, <4>2
    <3> QED
      BY <3>1, <3>5
  <2>3. CASE k = 4
    <3>1. PICK g : g = Idle("done") /\ IsMig(g) /\ g.pc = "done"
      BY Beginnings, HoldsFields
    <3>2. Step(m, g)
      BY <1>3, <1>6, <2>3, <3>1, FilesNamed DEF Close
    <3>3. Staged(g)'
      BY <3>1 DEF Staged, Scans, Saves
    <3>4. mishaps = 0 => Rested'
      BY <1>1, <1>2, <1>4, <2>2, <2>3, FilesNamed DEF Rested
    <3> QED
      BY <1>1, <2>2, <3>1, <3>2, <3>3, <3>4, RestoringStep
  <2>4. CASE k # 4
    <3>1. PICK g : g = Goto(AtFile(mig[m], k + 1), "open")
      OBVIOUS
    <3>2. Step(m, g)
      BY <1>3, <1>6, <2>4, <3>1, FilesNamed DEF Close
    <3>3. IsMig(g) /\ g.pc = "open" /\ g.file = k + 1 /\ g.rows = mig[m].rows
      BY <1>1, <3>1, Forms, HoldsFields
    <3>4. ASSUME mishaps = 0 PROVE Staged(g)'
      <4>1. g.file \in 1..4 /\ g.file - 1 = k
        BY <1>4, <2>4, <3>3, <3>4
      <4>2. \A i \in 1..(g.file - 1) :
               /\ saved'[Files[i]].whole
               /\ Complete(Files[i], saved'[Files[i]].rows)
        BY <2>2, <3>4, <4>1
      <4>3. \A f \in FileNames : Complete(f, g.rows[f])
        BY <1>4, <3>3, <3>4
      <4> QED
        BY <1>1, <1>2, <1>4, <3>3, <3>4, <4>1, <4>2, <4>3
           DEF Staged, Scans, Saves
    <3> QED
      BY <1>1, <2>2, <3>2, <3>3, <3>4, RestoringStep DEF Saves
  <2> QED
    BY <2>3, <2>4
<1> QED
  BY <1>5, <1>6

LEMMA RestoredByStep == IInv /\ KInv /\ UInv /\ RInv /\ [Next]_vars => RInv'
<1> SUFFICES ASSUME IInv, KInv, UInv, RInv, [Next]_vars PROVE RInv'
  OBVIOUS
<1>1. mishaps \in Nat
  BY DEF IInv, Shape
<1>2. ASSUME NEW m \in Migrators, Migrate(m) PROVE RInv'
  <2>1. CASE Crash(m)
    BY <1>1, <2>1 DEF Crash, RInv
  <2> QED
    BY <1>2, <2>1, RestoringBegins, RestoringScans, RestoringLoads,
       RestoringTruncates, RestoringWrites, RestoringRenames, RestoringSaves
       DEF Migrate
<1>3. ASSUME NEW w \in Workers, Replay(w) PROVE RInv'
  <2>1. UNCHANGED <<stored, saved, mig>>
    BY <1>3, WorkersOnlyAdd DEF UInv
  <2>2. mishaps' \in {mishaps, mishaps + 1}
    BY <1>3 DEF Replay, TakeSnapshot, Restore, NextReplay, Ensure, Venv, Install,
                CreateMarker, FillMarker, BuildFails
  <2> QED
    BY <1>1, <2>1, <2>2, RestoringStands
<1>4. CASE UNCHANGED vars
  BY <1>4, RestoringStands DEF vars
<1> QED
  BY <1>2, <1>3, <1>4 DEF Next

(* Whenever no migration is under way and none has died, every row that    *)
(* was saved is there, and its tree is restored with at most its pointer   *)
(* upgraded: migrate_run, however often it is run.                         *)
THEOREM MigrationsRestore == Spec => []MigratedRunRestores
<1>1. ASSUME RInv PROVE MigratedRunRestores
  <2>1. SUFFICES ASSUME AtRest, mishaps = 0, NEW f \in Range(Files)
                 PROVE  /\ saved[f].whole /\ DOMAIN saved[f].rows = Rows[f]
                        /\ \A r \in Rows[f] \cap (Snaps \cup Eps) :
                              Found(saved[f].rows[r], r)
    BY DEF MigratedRunRestores, Found
  <2>2. AtPeace
    BY <2>1 DEF AtRest, AtPeace, Scans, Saves
  <2>3. saved[f].whole /\ Complete(f, saved[f].rows)
    BY <1>1, <2>1, <2>2, FilesNamed DEF RInv, Rested
  <2> QED
    BY <2>3 DEF Complete, TreeRows
<1> QED
  BY <1>1, InitInvariant, StepInvariant, KeptAtFirst, KeptByStep,
     UpgradedAtFirst, UpgradedByStep, RestoresAtFirst, RestoredByStep, PTL
     DEF Spec
=============================================================================
