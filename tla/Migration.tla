------------------------------- MODULE Migration -------------------------------
(***************************************************************************)
(* migrate_run upgrades the environment pointers inside a saved run's      *)
(* trees: it rewrites each tree in place, renames it to its new digest,    *)
(* and when all are done re-points snapshots and episodes and saves the    *)
(* run again.  It may die between any two steps and be run again, while    *)
(* workers restore the run's trees and resolve, or build, the environments *)
(* their pointers ask for.                                                 *)
(***************************************************************************)
EXTENDS Environments, Sequences, Functions

CONSTANTS
    Migrators,    \* who runs migrate_run on the run: one at a time
    Bases,        \* what a tree holds besides its pointer
    Snaps,        \* the rows of snapshots.jsonl
    Eps,          \* the rows of episodes.jsonl
    Original,     \* row -> the tree an old run saved for it
    NoTree

Trees == [base : Bases, ptr : Pointers]

(* A directory of the store: its tree's digest, v2 or of the old kind,     *)
(* which never equals a v2 digest.  Digests are injective, so that the     *)
(* tree stands for its digest.                                             *)
Digests == [v2 : BOOLEAN, of : Trees]

V2(t) == [v2 |-> TRUE, of |-> t]

Files == <<"episodes", "snapshots", "units", "report">>

Rows == [episodes |-> Eps, snapshots |-> Snaps, units |-> {"unit"},
         report |-> {"report"}]

ASSUME MigrationAssumption ==
    /\ Original \in [Snaps \cup Eps -> Digests]
    /\ \A r \in Snaps \cup Eps : Original[r].of.ptr.whole
    /\ NoTree \notin Digests
    /\ \A m, n \in Migrators : m = n
    /\ Migrators \cap Workers = {}

VARIABLES
    stored,     \* digest directory -> the tree in it
    saved,      \* each file: does it parse, and row -> the digest it names
    mig,        \* each migrator's position and what it holds in memory
    ref,        \* the digest each worker took from its snapshot
    cut         \* history: the directories whose pointer a death left empty

vars == <<envs, work, mishaps, stored, saved, mig, ref, cut>>

Idle(pc) == [pc |-> pc, known |-> {}, todo |-> {}, at |-> NoTree,
             map |-> <<>>, file |-> 1, rows |-> <<>>]

-----------------------------------------------------------------------------
(* The rows of the run as it was saved: every snapshot and every episode   *)
(* names a tree of the store.                                              *)
Init ==
    /\ EnvInit
    /\ work = [w \in Workers |-> [pc |-> "idle", env |-> NoEnv]]
    /\ ref = [w \in Workers |-> NoTree]
    /\ stored = [d \in Range(Original) |-> d.of]
    /\ saved = [f \in Range(Files) |->
                  [whole |-> TRUE,
                   rows |-> [r \in Rows[f] |->
                       IF r \in Snaps \cup Eps THEN Original[r] ELSE NoTree]]]
    /\ mig = [m \in Migrators |-> Idle("idle")]
    /\ cut = {}

Step(m, r) == mig' = [mig EXCEPT ![m] = r]

(* What a migrator holds, with one part of it replaced.                    *)
Goto(r, pc) == [r EXCEPT !.pc = pc]

Knowing(r, names) == [r EXCEPT !.known = names]

WithTodo(r, ds) == [r EXCEPT !.todo = ds]

AtTree(r, d) == [r EXCEPT !.at = d]

WithMap(r, map) == [r EXCEPT !.map = map]

AtFile(r, f) == [r EXCEPT !.file = f]

WithRows(r, rows) == [r EXCEPT !.rows = rows]

(* Mutant: every directory under the root counts as an environment.        *)
EnvIdentityUnmarked == {n \in Names : n \in python}

(* _env_identity: the environments with a marker.                          *)
EnvIdentity == {n \in Names : ready[n] # "absent"}

(* migrate_run lists the environments; a marker that is being written is   *)
(* no JSON.                                                                *)
Begin(m) ==
    /\ mig[m].pc = "idle"
    /\ Step(m, IF \E n \in EnvIdentity : ready[n] = "created"
               THEN Idle("raised")
               ELSE WithTodo(Knowing(Idle("scan"), EnvIdentity), DOMAIN stored))
    /\ UNCHANGED <<envs, work, mishaps, stored, saved, ref, cut>>

Pointed(d) == stored[d].ptr # NoPointer

(* Already named and valid.                                                *)
Current(p) == p.named /\ PathExists(p)

(* A stale pointer is matched by the directory name in its path.           *)
Matched(m, p) == ~Current(p) /\ p.env \in mig[m].known

(* The next tree of the listing; without a match it is left alone, and so  *)
(* is one that somebody else has renamed.                                  *)
Scan(m) ==
    /\ mig[m].pc = "scan"
    /\ \E d \in mig[m].todo :
          LET here == d \in DOMAIN stored /\ Pointed(d)
              rest == WithTodo(mig[m], mig[m].todo \ {d}) IN
          Step(m, IF here /\ ~stored[d].ptr.whole THEN Idle("raised")
                  ELSE IF here /\ Matched(m, stored[d].ptr)
                    THEN Goto(AtTree(rest, d), "truncate")
                  ELSE rest)
    /\ UNCHANGED <<envs, work, mishaps, stored, saved, ref, cut>>

WithPointer(t, p) == [t EXCEPT !.ptr = p]

(* Mutant: the last environment listed is used for every tree.             *)
UpgradedToOne(p) ==
    [p EXCEPT !.named = TRUE, !.here = TRUE, !.env = CHOOSE n \in Names : TRUE]

Upgraded(p) == [p EXCEPT !.named = TRUE, !.here = TRUE]

(* pointer.write_text opens the file in the store and empties it ...       *)
Truncate(m) ==
    LET d == mig[m].at IN
    /\ mig[m].pc = "truncate"
    /\ stored' = [stored EXCEPT ![d] = WithPointer(@, TornPointer)]
    /\ Step(m, Goto(WithRows(mig[m], <<Upgraded(stored[d].ptr)>>), "write"))
    /\ UNCHANGED <<envs, work, mishaps, saved, ref, cut>>

(* ... and writes it.                                                      *)
WritePointer(m) ==
    LET d == mig[m].at IN
    /\ mig[m].pc = "write"
    /\ stored' = [stored EXCEPT ![d] = WithPointer(@, mig[m].rows[1])]
    /\ Step(m, Goto(WithRows(mig[m], <<>>), "rename"))
    /\ UNCHANGED <<envs, work, mishaps, saved, ref, cut>>

(* The tree goes to its new digest, unless there is one: then it stays     *)
(* where it is, rewritten.                                                 *)
Rename(m) ==
    LET d == mig[m].at
        new == V2(stored[d]) IN
    /\ mig[m].pc = "rename"
    /\ stored' = IF new \in DOMAIN stored THEN stored
                 ELSE [e \in (DOMAIN stored \ {d}) \cup {new} |->
                        IF e = new THEN stored[d] ELSE stored[e]]
    /\ LET old == mig[m].map
           map == [e \in DOMAIN old \cup {d} |->
                     IF e = d THEN new ELSE old[e]] IN
       Step(m, Goto(AtTree(WithMap(mig[m], map), NoTree), "scan"))
    /\ UNCHANGED <<envs, work, mishaps, saved, ref, cut>>

Remapped(m, d) == IF d \in DOMAIN mig[m].map THEN mig[m].map[d] ELSE d

(* Mutant: the episodes' final trees are forgotten.                        *)
RemappedSnapshots(m, f) ==
    [r \in DOMAIN saved[f].rows |->
        IF f = "snapshots" THEN Remapped(m, saved[f].rows[r])
        ELSE saved[f].rows[r]]

RemappedRows(m, f) ==
    [r \in DOMAIN saved[f].rows |-> Remapped(m, saved[f].rows[r])]

(* After the last tree, the files are loaded and their digests mapped.  An *)
(* empty jsonl file has no rows; a torn file or an empty report raises.    *)
Load(m) ==
    /\ mig[m].pc = "scan"
    /\ mig[m].todo = {}
    /\ Step(m, IF \E f \in Range(Files) : ~saved[f].whole
                  \/ (f = "report" /\ saved[f].rows = <<>>)
               THEN Idle("raised")
               ELSE WithRows(Idle("open"),
                             [f \in Range(Files) |-> RemappedRows(m, f)]))
    /\ UNCHANGED <<envs, work, mishaps, stored, saved, ref, cut>>

(* save empties a file ...                                                 *)
Open(m) ==
    LET f == Files[mig[m].file] IN
    /\ mig[m].pc = "open"
    /\ saved' = [saved EXCEPT ![f] = [whole |-> TRUE, rows |-> <<>>]]
    /\ Step(m, Goto(mig[m], "close"))
    /\ UNCHANGED <<envs, work, mishaps, stored, ref, cut>>

(* ... and writes it.                                                      *)
Close(m) ==
    LET f == Files[mig[m].file] IN
    /\ mig[m].pc = "close"
    /\ saved' = [saved EXCEPT ![f] = [whole |-> TRUE, rows |-> mig[m].rows[f]]]
    /\ Step(m, IF mig[m].file = Len(Files) THEN Idle("done")
               ELSE Goto(AtFile(mig[m], mig[m].file + 1), "open"))
    /\ UNCHANGED <<envs, work, mishaps, stored, ref, cut>>

(* It dies.  Within a write the file may keep a part of its bytes; a       *)
(* pointer that it has emptied nobody else can write.                      *)
Crash(m) ==
    /\ mig[m].pc \notin {"idle", "done", "raised"}
    /\ mishaps < MaxMishaps
    /\ mishaps' = mishaps + 1
    /\ Step(m, Idle("raised"))
    /\ \/ saved' = saved
       \/ /\ mig[m].pc = "close"
          /\ saved' = [saved EXCEPT ![Files[mig[m].file]].whole = FALSE]
    /\ cut' = IF mig[m].pc = "write" THEN cut \cup {mig[m].at} ELSE cut
    /\ UNCHANGED <<envs, work, stored, ref>>

(* Somebody runs it again.                                                 *)
Again(m) ==
    /\ mig[m].pc \in {"done", "raised"}
    /\ Step(m, Idle("idle"))
    /\ UNCHANGED <<envs, work, mishaps, stored, saved, ref, cut>>

Migrate(m) ==
    \/ Begin(m) \/ Scan(m) \/ Load(m)
    \/ Truncate(m) \/ WritePointer(m) \/ Rename(m)
    \/ Open(m) \/ Close(m)
    \/ Crash(m) \/ Again(m)

-----------------------------------------------------------------------------
(* A worker loads the snapshots and takes one ...                          *)
TakeSnapshot(w) ==
    /\ work[w].pc = "idle"
    /\ saved["snapshots"].whole
    /\ \E r \in DOMAIN saved["snapshots"].rows :
          ref' = [ref EXCEPT ![w] = saved["snapshots"].rows[r]]
    /\ WorkerAt(w, "restore", NoEnv)
    /\ UNCHANGED <<envs, mishaps, stored, saved, mig, cut>>

(* restore_tree returns the tree under a digest: a v2 tree is verified.    *)
Restorable(d) == d \in DOMAIN stored /\ (d.v2 => d = V2(stored[d]))

(* ... restores its tree, which may have gone or changed by then, and      *)
(* resolves the interpreter of its pointer.                                *)
Restore(w) ==
    LET d == ref[w] IN
    /\ work[w].pc = "restore"
    /\ IF ~Restorable(d) THEN WorkerAt(w, "raised", NoEnv)
       ELSE IF Pointed(d) THEN Resolve(w, stored[d].ptr)
       ELSE WorkerAt(w, "run", NoEnv)
    /\ ref' = [ref EXCEPT ![w] = NoTree]
    /\ UNCHANGED <<envs, mishaps, stored, saved, mig, cut>>

(* The replay is over, or a new process takes a dead one's place.          *)
NextReplay(w) ==
    /\ work[w].pc \in {"run", "raised"}
    /\ WorkerAt(w, "idle", NoEnv)
    /\ UNCHANGED <<envs, mishaps, stored, saved, mig, ref, cut>>

Replay(w) ==
    \/ TakeSnapshot(w) \/ Restore(w) \/ NextReplay(w)
    \/ (Ensure(w) \/ BuildFails(w)) /\ UNCHANGED <<stored, saved, mig, ref, cut>>

Next ==
    \/ \E m \in Migrators : Migrate(m)
    \/ \E w \in Workers : Replay(w)

Spec == Init /\ [][Next]_vars

-----------------------------------------------------------------------------
(* The same tree, asking for the same environment.                         *)
Matches(t, r) ==
    /\ t.base = Original[r].of.base
    /\ t.ptr.env = Original[r].of.ptr.env
    /\ t.ptr.whole

AtRest == \A m \in Migrators : mig[m].pc \in {"idle", "done", "raised"}

(* Between migrations, when none has died, every row that was saved is     *)
(* there and every snapshot and final tree can be restored: the recorded   *)
(* tree, with at most its pointer upgraded (migrate_run re-points both     *)
(* kinds of rows and loses neither trees nor rows).                        *)
MigratedRunRestores ==
    AtRest /\ mishaps = 0 =>
        \A f \in Range(Files) :
            /\ saved[f].whole /\ DOMAIN saved[f].rows = Rows[f]
            /\ \A r \in Rows[f] \cap (Snaps \cup Eps) :
                 LET d == saved[f].rows[r] IN
                 Restorable(d) /\ Matches(stored[d], r)

(* Whoever has emptied the pointer of the row's tree is about to write     *)
(* one that asks for the row's environment.                                *)
BeingWritten(d, r) ==
    \E m \in Migrators :
        /\ mig[m].pc = "write" /\ mig[m].at = d
        /\ Matches(WithPointer(stored[d], mig[m].rows[1]), r)

(* In every state the store holds what each row named at first, the tree   *)
(* always and its environment too, but for a pointer that a live migration *)
(* is writing and for one that a death between emptying and writing has    *)
(* cut.  There the environment is gone, one for each death at most.        *)
TreesAreKept ==
    /\ \A r \in Snaps \cup Eps : \E d \in DOMAIN stored :
          \/ Matches(stored[d], r)
          \/ /\ stored[d] = WithPointer(Original[r].of, TornPointer)
             /\ BeingWritten(d, r) \/ d \in cut
    /\ Cardinality(cut) <= mishaps

(* A pointer that migration has upgraded asks for an environment that was  *)
(* built to its end, although workers build and fail meanwhile.            *)
UpgradedPointersAreBuilt ==
    \A d \in DOMAIN stored :
        LET p == stored[d].ptr IN
        p.whole /\ Current(p) /\ (\A c \in Range(Original) : c.of.ptr # p) =>
            Built(p.env)
=============================================================================
