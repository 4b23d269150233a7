------------------------------ MODULE BlobStore ------------------------------
(***************************************************************************)
(* The content-addressed store of workspace trees, shared by collecting    *)
(* processes that put a tree before every tool call and by replaying       *)
(* processes that restore trees into scratch directories.  Every file      *)
(* operation another process can observe is a step of its own; processes   *)
(* crash anywhere, renames may be refused, and bytes may change under the  *)
(* store.                                                                  *)
(*                                                                         *)
(* A tree gives each path what _node_record covers (kind, mode, content or *)
(* link target), or Absent.                                                *)
(***************************************************************************)
EXTENDS Integers, Sequences, FiniteSets, Functions

CONSTANTS
    Collectors,   \* processes in Collector.run_episode
    Readers,      \* processes in restore_tree
    Dests,        \* destination directories
    Paths, Nodes, Absent,
    Digest,       \* the v2 digest of each tree
    Legacy,       \* v1 digest -> the tree an old run left under it
    Workspaces,   \* the trees a tool call may leave
    MaxSteps,     \* run_episode's max_steps
    MaxMishaps    \* renames the file system refuses, and changes made
                  \* behind the program's back

Trees == [Paths -> Nodes \cup {Absent}]

Empty == [q \in Paths |-> Absent]

V2 == {Digest[t] : t \in Trees}

V1 == DOMAIN Legacy

ASSUME StoreAssumption ==
    /\ Absent \notin Nodes
    /\ Workspaces \subseteq Trees
    /\ Dests # {}
    /\ DOMAIN Digest = Trees
    /\ \A t, u \in Trees : Digest[t] = Digest[u] => t = u
    /\ \A d \in V1 : Legacy[d] \in Trees
    /\ V1 \cap V2 = {}
    /\ MaxSteps \in Nat /\ MaxMishaps \in Nat

VARIABLES
    present,    \* the digests with a directory in the store
    stored,     \* what each of those directories holds
    meta,       \* digest -> the node records in its .meta.json
    hasMeta,    \* the digests with a .meta.json
    ws,         \* each collector's workspace
    put,        \* each collector's position in put_tree
    taken,      \* each collector's snapshots, with the tree they stand for
    restore,    \* each reader's position in restore_tree
    dirs,       \* the trees in the destination directories that exist
    made,       \* the destination directories that exist
    refused,    \* digests whose rename the file system refused
    disturbed   \* digests whose bytes somebody else changed, or changed
                \* while they were copied

store == <<present, stored, meta, hasMeta>>
vars == <<store, ws, put, taken, restore, dirs, made, refused, disturbed>>

PutAt == {"policy", "hash", "check", "copy", "meta", "put", "ended", "dead"}

Puts == [pc : PutAt, last : BOOLEAN, digest : V2, records : Trees,
         tmp : Trees, todo : SUBSET Paths]

RestoreAt == {"idle", "mkdir", "copy", "restored", "mismatch", "unknown",
              "exists"}

Restores == [pc : RestoreAt, digest : V1 \cup V2, dest : Dests,
             todo : SUBSET Paths]

Snapshots == [digest : V2, tree : Trees]

(* Type correctness.                                                       *)
TypeOK ==
    /\ present \subseteq V1 \cup V2
    /\ stored \in [V1 \cup V2 -> Trees]
    /\ hasMeta \subseteq V2
    /\ meta \in [V2 -> Trees]
    /\ ws \in [Collectors -> Trees]
    /\ put \in [Collectors -> Puts]
    /\ taken \in [Collectors -> Seq(Snapshots)]
    /\ restore \in [Readers -> Restores]
    /\ dirs \in [Dests -> Trees]
    /\ made \subseteq Dests
    /\ refused \subseteq V2
    /\ disturbed \subseteq V1 \cup V2

-----------------------------------------------------------------------------
Init ==
    /\ present = V1
    /\ stored = [d \in V1 \cup V2 |-> IF d \in V1 THEN Legacy[d] ELSE Empty]
    /\ hasMeta = {}
    /\ meta = [d \in V2 |-> Empty]
    /\ ws \in [Collectors -> Workspaces]
    /\ put = [c \in Collectors |->
                [pc |-> "policy", last |-> FALSE, digest |-> Digest[Empty],
                 records |-> Empty, tmp |-> Empty, todo |-> {}]]
    /\ taken = [c \in Collectors |-> <<>>]
    /\ restore = [r \in Readers |->
                    [pc |-> "idle", digest |-> Digest[Empty],
                     dest |-> CHOOSE e \in Dests : TRUE, todo |-> {}]]
    /\ dirs = [e \in Dests |-> Empty]
    /\ made = {}
    /\ refused = {}
    /\ disturbed = {}

(* The paths _iter_nodes lists.                                            *)
Listed(t) == {q \in Paths : t[q] # Absent}

MishapsLeft == Cardinality(refused) + Cardinality(disturbed) < MaxMishaps

(* Updates of a process's position.                                        *)
At(p, pc) == [p EXCEPT !.pc = pc]

Asked(p, last) == [p EXCEPT !.pc = "hash", !.last = last]

Hashed(p, t) ==
    [p EXCEPT !.pc = "check", !.records = t, !.digest = Digest[t]]

Begun(p, pc, t) == [p EXCEPT !.pc = pc, !.tmp = Empty, !.todo = Listed(t)]

WithNode(t, q, x) == [t EXCEPT ![q] = x]

Copied(p, q, x) ==
    [p EXCEPT !.tmp = WithNode(@, q, x), !.todo = @ \ {q}]

Sought(p, pc, d, e) == [p EXCEPT !.pc = pc, !.digest = d, !.dest = e]

Opened(p, t) == [p EXCEPT !.pc = "copy", !.todo = Listed(t)]

CopiedOut(p, q) == [p EXCEPT !.todo = @ \ {q}]

Goto(c, pc) == put' = [put EXCEPT ![c] = At(@, pc)]

-----------------------------------------------------------------------------
(* run_episode: the policy gives another action, or the episode is over    *)
(* and its final tree is put.                                              *)
Policy(c) ==
    /\ put[c].pc = "policy"
    /\ \E last \in BOOLEAN :
          /\ ~last => Len(taken[c]) < MaxSteps
          /\ put' = [put EXCEPT ![c] = Asked(@, last)]
    /\ UNCHANGED <<store, ws, taken, restore, dirs, made, refused, disturbed>>

(* put_tree: read the workspace into records and a digest.                 *)
Hash(c) ==
    /\ put[c].pc = "hash"
    /\ put' = [put EXCEPT ![c] = Hashed(@, ws[c])]
    /\ UNCHANGED <<store, ws, taken, restore, dirs, made, refused, disturbed>>

(* Mutant: a writer that leaves the tree to another one already copying it.*)
CheckTrusting(c) ==
    LET d    == put[c].digest
        busy == \E x \in Collectors : put[x].pc = "copy" /\ put[x].digest = d
    IN
    /\ put[c].pc = "check"
    /\ LET pc == IF d \in present \/ busy THEN "put" ELSE "copy" IN
         put' = [put EXCEPT ![c] = Begun(@, pc, ws[c])]
    /\ UNCHANGED <<store, ws, taken, restore, dirs, made, refused, disturbed>>

(* Nothing to do when the digest is there; else list the workspace for     *)
(* copying into a fresh temporary directory.                               *)
Check(c) ==
    /\ put[c].pc = "check"
    /\ LET pc == IF put[c].digest \in present THEN "put" ELSE "copy" IN
         put' = [put EXCEPT ![c] = Begun(@, pc, ws[c])]
    /\ UNCHANGED <<store, ws, taken, restore, dirs, made, refused, disturbed>>

(* _copy_tree_nodes reads the workspace again, one node at a time; a node  *)
(* that has vanished since it was listed is skipped.                       *)
Copy(c, q) ==
    /\ put[c].pc = "copy"
    /\ q \in put[c].todo
    /\ put' = [put EXCEPT ![c] = Copied(@, q, ws[c][q])]
    /\ UNCHANGED <<store, ws, taken, restore, dirs, made, refused, disturbed>>

(* rename(2) replaces a directory only when it is empty.                   *)
Renamable(d) == d \in present => stored[d] = Empty

(* Mutant: the tree is renamed before it is complete.                      *)
PublishEarly(c) ==
    LET d == put[c].digest IN
    /\ put[c].pc = "copy"
    /\ IF Renamable(d)
         THEN /\ present' = present \cup {d}
              /\ stored' = [stored EXCEPT ![d] = put[c].tmp]
              /\ Goto(c, "meta")
         ELSE /\ Goto(c, "put")
              /\ UNCHANGED <<present, stored>>
    /\ UNCHANGED <<meta, hasMeta, ws, taken, restore, dirs, made, refused,
                   disturbed>>

(* The metadata is on disk under a temporary name; the tree is renamed     *)
(* into place, or the race was lost and the temporary files are removed.   *)
Publish(c) ==
    LET d == put[c].digest IN
    /\ put[c].pc = "copy"
    /\ put[c].todo = {}
    /\ IF Renamable(d)
         THEN /\ present' = present \cup {d}
              /\ stored' = [stored EXCEPT ![d] = put[c].tmp]
              /\ Goto(c, "meta")
         ELSE /\ Goto(c, "put")
              /\ UNCHANGED <<present, stored>>
    /\ UNCHANGED <<meta, hasMeta, ws, taken, restore, dirs, made, refused,
                   disturbed>>

(* Mutant: the metadata is renamed first.                                  *)
PublishMetaFirst(c) ==
    LET d == put[c].digest IN
    /\ put[c].pc \in {"copy", "meta"}
    /\ hasMeta' = hasMeta \cup {d}
    /\ meta' = [meta EXCEPT ![d] = put[c].records]
    /\ IF put[c].pc = "meta" THEN Goto(c, "put") ELSE UNCHANGED put
    /\ UNCHANGED <<present, stored, ws, taken, restore, dirs, made, refused,
                   disturbed>>

PublishMeta(c) ==
    LET d == put[c].digest IN
    /\ put[c].pc = "meta"
    /\ hasMeta' = hasMeta \cup {d}
    /\ meta' = [meta EXCEPT ![d] = put[c].records]
    /\ Goto(c, "put")
    /\ UNCHANGED <<present, stored, ws, taken, restore, dirs, made, refused,
                   disturbed>>

(* Mutant: the handler removes the destination.                            *)
RefuseRenameRemoving(c) ==
    /\ put[c].pc = "meta"
    /\ MishapsLeft
    /\ present' = present \ {put[c].digest}
    /\ refused' = refused \cup {put[c].digest}
    /\ Goto(c, "put")
    /\ UNCHANGED <<stored, meta, hasMeta, ws, taken, restore, dirs, made,
                   disturbed>>

(* Any other OSError of the two renames ends in the same handler: it       *)
(* removes the temporary files and put_tree returns the digest.            *)
RefuseRename(c) ==
    /\ \/ put[c].pc = "copy" /\ put[c].todo = {}
       \/ put[c].pc = "meta"
    /\ MishapsLeft
    /\ refused' = refused \cup {put[c].digest}
    /\ Goto(c, "put")
    /\ UNCHANGED <<store, ws, taken, restore, dirs, made, disturbed>>

(* put_tree has returned inside the loop: the snapshot is recorded and the *)
(* tool runs, leaving some workspace.                                      *)
RecordAndExecute(c) ==
    /\ put[c].pc = "put"
    /\ ~put[c].last
    /\ taken' = [taken EXCEPT
                  ![c] = Append(@, [digest |-> put[c].digest,
                                    tree |-> put[c].records])]
    /\ \E t \in Workspaces : ws' = [ws EXCEPT ![c] = t]
    /\ Goto(c, "policy")
    /\ UNCHANGED <<store, restore, dirs, made, refused, disturbed>>

(* ... or after the loop: it is the episode's final_tree_digest.           *)
Finish(c) ==
    /\ put[c].pc = "put"
    /\ put[c].last
    /\ Goto(c, "ended")
    /\ UNCHANGED <<store, ws, taken, restore, dirs, made, refused, disturbed>>

Crash(c) ==
    /\ put[c].pc \notin {"ended", "dead"}
    /\ Goto(c, "dead")
    /\ UNCHANGED <<store, ws, taken, restore, dirs, made, refused, disturbed>>

Collect(c) ==
    \/ Policy(c)
    \/ Hash(c)
    \/ Check(c)
    \/ \E q \in Paths : Copy(c, q)
    \/ Publish(c)
    \/ PublishMeta(c)
    \/ RefuseRename(c)
    \/ RecordAndExecute(c)
    \/ Finish(c)

-----------------------------------------------------------------------------
MoveTo(r, pc) == restore' = [restore EXCEPT ![r] = At(@, pc)]

(* What a reader can ask for: the trees of snapshots, and of old runs.     *)
Known == V1 \cup {s.digest : s \in UNION {Range(taken[c]) : c \in Collectors}}

(* restore_tree looks for the tree, then for the destination.              *)
Lookup(r) ==
    /\ restore[r].pc = "idle"
    /\ \E d \in Known, e \in Dests :
          LET pc == CASE d \notin present -> "unknown"
                      [] d \in present /\ e \in made -> "exists"
                      [] d \in present /\ e \notin made -> "mkdir" IN
          restore' = [restore EXCEPT ![r] = Sought(@, pc, d, e)]
    /\ UNCHANGED <<store, ws, put, taken, dirs, made, refused, disturbed>>

(* mkdir (copytree's, for a legacy tree) makes the directory or raises.    *)
Mkdir(r) ==
    LET e == restore[r].dest IN
    /\ restore[r].pc = "mkdir"
    /\ IF e \in made
         THEN /\ MoveTo(r, "exists")
              /\ UNCHANGED <<dirs, made>>
         ELSE /\ restore' = [restore EXCEPT
                    ![r] = Opened(@, stored[restore[r].digest])]
              /\ made' = made \cup {e}
              /\ dirs' = [dirs EXCEPT ![e] = Empty]
    /\ UNCHANGED <<store, ws, put, taken, refused, disturbed>>

CopyOut(r, q) ==
    /\ restore[r].pc = "copy"
    /\ q \in restore[r].todo
    /\ dirs' = [dirs EXCEPT ![restore[r].dest] =
                    WithNode(@, q, stored[restore[r].digest][q])]
    /\ restore' = [restore EXCEPT ![r] = CopiedOut(@, q)]
    /\ UNCHANGED <<store, ws, put, taken, made, refused, disturbed>>

(* A v2 tree is digested again where it was restored.                      *)
Matches(r) == Digest[dirs[restore[r].dest]] = restore[r].digest

(* Mutant: no digest after the copy.                                       *)
VerifyNothing(r) ==
    /\ restore[r].pc = "copy"
    /\ restore[r].todo = {}
    /\ MoveTo(r, "restored")
    /\ UNCHANGED <<store, ws, put, taken, dirs, made, refused, disturbed>>

Verify(r) ==
    /\ restore[r].pc = "copy"
    /\ restore[r].todo = {}
    /\ MoveTo(r, IF restore[r].digest \in V2 /\ ~Matches(r) THEN "mismatch"
                 ELSE "restored")
    /\ UNCHANGED <<store, ws, put, taken, dirs, made, refused, disturbed>>

Read(r) ==
    \/ Lookup(r)
    \/ Mkdir(r)
    \/ \E q \in Paths : CopyOut(r, q)
    \/ Verify(r)

-----------------------------------------------------------------------------
(* Somebody writes into a stored tree.                                     *)
Tamper(d) ==
    /\ d \in present
    /\ MishapsLeft
    /\ \E t \in Workspaces : stored' = [stored EXCEPT ![d] = t]
    /\ disturbed' = disturbed \cup {d}
    /\ UNCHANGED <<present, meta, hasMeta, ws, put, taken, restore, dirs,
                   made, refused>>

(* A process that a tool left behind writes into the workspace after it    *)
(* was digested and before it was copied.                                  *)
Meddle(c) ==
    /\ put[c].pc \in {"check", "copy"}
    /\ MishapsLeft
    /\ \E t \in Workspaces : ws' = [ws EXCEPT ![c] = t]
    /\ disturbed' = disturbed \cup {put[c].digest}
    /\ UNCHANGED <<store, put, taken, restore, dirs, made, refused>>

Next ==
    \/ \E c \in Collectors : Collect(c) \/ Crash(c) \/ Meddle(c)
    \/ \E r \in Readers : Read(r)
    \/ \E d \in V1 \cup V2 : Tamper(d)

Spec == Init /\ [][Next]_vars

-----------------------------------------------------------------------------
(* A directory under a v2 name never holds a partial tree, whoever crashed *)
(* or raced: if nobody else touched the bytes, it digests to its name      *)
(* (put_tree copies aside and renames).                                    *)
TreesAreWhole ==
    \A d \in (present \cap V2) \ disturbed : Digest[stored[d]] = d

(* A directory restore_tree returned holds exactly the tree of its digest, *)
(* even when the store was tampered with or digested a moving workspace,   *)
(* and although readers may name the same destination.                     *)
RestoredIsRecorded ==
    \A r \in Readers :
        restore[r].pc = "restored" /\ restore[r].digest \in V2 => Matches(r)

(* What run_episode records as a fork point is one: the snapshot's tree is *)
(* in the store, and it is the workspace the step was about to change,     *)
(* whoever wrote it.                                                       *)
SnapshotIsForkPoint ==
    \A c \in Collectors : \A i \in DOMAIN taken[c] :
        LET s == taken[c][i] IN
        /\ s.digest \in present \cup refused
        /\ s.digest \in present \ disturbed => stored[s.digest] = s.tree

(* Metadata never precedes its tree, and describes the tree of its name.   *)
MetaDescribesTree ==
    \A d \in hasMeta : d \in present /\ Digest[meta[d]] = d

(* What is stored stays: nobody's race or retry replaces or removes a tree.*)
StoredStays ==
    [][\A d \in present :
          d \in present' /\ (stored'[d] = stored[d] \/ d \in disturbed')]_vars

=============================================================================
