----------------------------- MODULE Environments -----------------------------
(***************************************************************************)
(* The task environments, virtual environments under one root that every   *)
(* process of the machine shares.  EnvManager.ensure builds one in several *)
(* steps and writes a marker last; resolve_python picks the interpreter    *)
(* that a workspace's pointer asks for.  There is no lock: workers that    *)
(* find no marker all build, and a process that dies or whose pip fails    *)
(* leaves what it has done so far.                                         *)
(***************************************************************************)
EXTENDS Integers, FiniteSets

CONSTANTS
    Workers,      \* processes that resolve an interpreter
    Names,        \* the environments
    Packages,
    Requested,    \* what each environment's build asks pip for
    BuildEnvs,    \* CDJ_BUILD_ENVS=1
    MaxMishaps    \* bound on deaths and failing builds

NoEnv == "none"

ASSUME EnvAssumption ==
    /\ NoEnv \notin Names
    /\ Requested \in [Names -> SUBSET Packages]
    /\ BuildEnvs \in BOOLEAN
    /\ MaxMishaps \in Nat

VARIABLES
    python,     \* the environments whose bin/python exists
    site,       \* what is installed in each
    ready,      \* the marker of each: absent, created, or filled
    work,       \* each worker's position and the environment it builds or
                \* runs in
    mishaps

envs == <<python, site, ready>>

Marker == {"absent", "created", "filled"}

(* A pointer file: env is the directory name in its path (and its env_name *)
(* when it is named), here says that the path is one of this root.         *)
Pointers == [whole : BOOLEAN, env : Names \cup {NoEnv}, named : BOOLEAN,
             here : BOOLEAN]

NoPointer == [whole |-> TRUE, env |-> NoEnv, named |-> FALSE, here |-> FALSE]

TornPointer == [NoPointer EXCEPT !.whole = FALSE]

(* EnvManager.root / name / bin / python exists.                           *)
PathExists(p) == p.here /\ p.env \in python

-----------------------------------------------------------------------------
(* Built in an earlier session, or missing.                                *)
EnvInit ==
    /\ python \in SUBSET Names
    /\ site = [n \in Names |-> IF n \in python THEN Requested[n] ELSE {}]
    /\ ready = [n \in Names |-> IF n \in python THEN "filled" ELSE "absent"]
    /\ mishaps = 0

Built(n) == Requested[n] \subseteq site[n]

WorkerAt(w, pc, n) == work' = [work EXCEPT ![w] = [pc |-> pc, env |-> n]]

(* The pointer has an env_name.                                            *)
NamesOne(p) == p.named /\ p.env \in Names

(* resolve_python's chain: the recorded path, the local environment of the *)
(* name, a build of the pins, the engine's own interpreter.  An empty      *)
(* pointer is no JSON.  ensure looks for the marker first.                 *)
Resolve(w, p) ==
    IF ~p.whole THEN WorkerAt(w, "raised", NoEnv)
    ELSE IF PathExists(p) \/ (NamesOne(p) /\ p.env \in python)
      THEN WorkerAt(w, "run", p.env)
    ELSE IF NamesOne(p) /\ BuildEnvs
      THEN WorkerAt(w, IF ready[p.env] = "absent" THEN "venv" ELSE "run", p.env)
    ELSE WorkerAt(w, "run", NoEnv)

(* python -m venv: what is installed stays.                                *)
Venv(w) ==
    /\ work[w].pc = "venv"
    /\ python' = python \cup {work[w].env}
    /\ WorkerAt(w, "install", work[w].env)
    /\ UNCHANGED <<site, ready, mishaps>>

(* pip install, one package at a time; what is there is left alone.        *)
Install(w) ==
    LET n == work[w].env IN
    /\ work[w].pc = "install"
    /\ \E pkg \in Requested[n] \ site[n] :
          site' = [site EXCEPT ![n] = @ \cup {pkg}]
    /\ UNCHANGED <<python, ready, work, mishaps>>

(* Mutant: the marker is created before pip has finished.                  *)
MarkEarly(w) ==
    LET n == work[w].env IN
    /\ work[w].pc = "install"
    /\ ready' = [ready EXCEPT ![n] = "created"]
    /\ WorkerAt(w, "fill", n)
    /\ UNCHANGED <<python, site, mishaps>>

(* pip has nothing left to do; the marker is created ...                   *)
CreateMarker(w) ==
    LET n == work[w].env IN
    /\ work[w].pc = "install"
    /\ Built(n)
    /\ ready' = [ready EXCEPT ![n] = "created"]
    /\ WorkerAt(w, "fill", n)
    /\ UNCHANGED <<python, site, mishaps>>

(* ... and filled; ensure returns the interpreter.                         *)
FillMarker(w) ==
    LET n == work[w].env IN
    /\ work[w].pc = "fill"
    /\ ready' = [ready EXCEPT ![n] = "filled"]
    /\ WorkerAt(w, "run", n)
    /\ UNCHANGED <<python, site, mishaps>>

Ensure(w) == Venv(w) \/ Install(w) \/ CreateMarker(w) \/ FillMarker(w)

Building == {work[w].env : w \in {x \in Workers :
                work[x].pc \in {"venv", "install", "fill"}}}

(* The worker dies, or a command of its build fails and ensure raises.     *)
BuildFails(w) ==
    /\ work[w].pc \in {"venv", "install", "fill"}
    /\ mishaps < MaxMishaps
    /\ mishaps' = mishaps + 1
    /\ WorkerAt(w, "raised", NoEnv)
    /\ UNCHANGED envs

-----------------------------------------------------------------------------
(* A worker runs in an environment that lacks a package only while another *)
(* one is building it, or after a build that failed (the interpreter is    *)
(* there before its packages are, and then is never built again).          *)
RunsInBuiltEnv ==
    \A w \in Workers : work[w].pc = "run" /\ work[w].env # NoEnv =>
        Built(work[w].env) \/ work[w].env \in Building \/ mishaps > 0
=============================================================================
