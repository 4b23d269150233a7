--------------------------- MODULE BlobStoreProofs ---------------------------
(***************************************************************************)
(* Theorems about BlobStore, for any number of processes, any trees and    *)
(* any number of crashes, refused renames and disturbed trees; and about   *)
(* ResponseCache, for any number of processes, requests and answers.       *)
(***************************************************************************)
EXTENDS BlobStore, ResponseCache, TLAPS

(* A collector past its digest knows the tree it is putting; while nobody  *)
(* disturbs it, what it has copied so far is that tree; and past the       *)
(* rename the tree is in the store, unless the rename was refused.         *)
Writer(c) ==
    LET p == put[c] IN
    /\ p.pc \in {"check", "copy", "meta", "put", "ended"} =>
          p.digest = Digest[p.records]
    /\ p.pc \in {"check", "copy"} /\ p.digest \notin disturbed =>
          ws[c] = p.records
    /\ p.pc = "copy" /\ p.digest \notin disturbed =>
          \A q \in Paths \ p.todo : p.tmp[q] = p.records[q]
    /\ p.pc = "meta" => p.digest \in present
    /\ p.pc \in {"put", "ended"} => p.digest \in present \cup refused

WriterInv == \A c \in Collectors : Writer(c)

(* A snapshot names the tree it was taken of.                              *)
SnapshotInv ==
    \A c \in Collectors : \A i \in DOMAIN taken[c] :
        /\ taken[c][i].digest = Digest[taken[c][i].tree]
        /\ taken[c][i].digest \in present \cup refused

(* A destination has one reader.                                           *)
InDest(r) == restore[r].pc \in {"copy", "restored", "mismatch"}

ReaderInv ==
    /\ \A r \in Readers : InDest(r) => restore[r].dest \in made
    /\ \A r, s \in Readers :
          InDest(r) /\ InDest(s) /\ r # s => restore[r].dest # restore[s].dest

IInv ==
    /\ TypeOK
    /\ WriterInv
    /\ TreesAreWhole
    /\ MetaDescribesTree
    /\ SnapshotInv
    /\ ReaderInv
    /\ RestoredIsRecorded

-----------------------------------------------------------------------------
LEMMA EmptyIsATree == Empty \in Trees
BY DEF Empty, Trees

LEMMA DigestsAreNames == \A t \in Trees : Digest[t] \in V2
BY DEF V2

LEMMA InitEstablishes == Init => IInv
<1> SUFFICES ASSUME Init PROVE IInv
  OBVIOUS
<1> USE StoreAssumption, EmptyIsATree, DigestsAreNames
<1>1. TypeOK
  <2>1. stored \in [V1 \cup V2 -> Trees]
    BY DEF Init
  <2>2. put \in [Collectors -> Puts]
    BY DEF Init, Puts, PutAt
  <2>3. restore \in [Readers -> Restores]
    BY DEF Init, Restores, RestoreAt
  <2>4. ws \in [Collectors -> Trees]
    BY DEF Init
  <2>5. taken \in [Collectors -> Seq(Snapshots)]
    BY DEF Init
  <2> QED
    BY <2>1, <2>2, <2>3, <2>4, <2>5 DEF Init, TypeOK
<1>2. WriterInv
  BY DEF Init, WriterInv, Writer
<1>3. TreesAreWhole
  BY DEF Init, TreesAreWhole
<1>4. MetaDescribesTree
  BY DEF Init, MetaDescribesTree
<1>5. SnapshotInv
  BY DEF Init, SnapshotInv
<1>6. ReaderInv
  BY DEF Init, ReaderInv, InDest
<1>7. RestoredIsRecorded
  BY DEF Init, RestoredIsRecorded
<1> QED
  BY <1>1, <1>2, <1>3, <1>4, <1>5, <1>6, <1>7 DEF IInv
-----------------------------------------------------------------------------
(* What the updates of a position do, field by field.                      *)
LEMMA PutUpdates ==
    ASSUME NEW p \in Puts
    PROVE  /\ \A pc \in PutAt :
                 /\ At(p, pc) \in Puts
                 /\ At(p, pc).pc = pc
                 /\ At(p, pc).digest = p.digest
                 /\ At(p, pc).records = p.records
                 /\ At(p, pc).tmp = p.tmp
                 /\ At(p, pc).todo = p.todo
           /\ \A last \in BOOLEAN :
                 Asked(p, last) \in Puts /\ Asked(p, last).pc = "hash"
           /\ \A t \in Trees :
                 /\ Hashed(p, t) \in Puts
                 /\ Hashed(p, t).pc = "check"
                 /\ Hashed(p, t).records = t
                 /\ Hashed(p, t).digest = Digest[t]
           /\ \A pc \in PutAt, t \in Trees :
                 /\ Begun(p, pc, t) \in Puts
                 /\ Begun(p, pc, t).pc = pc
                 /\ Begun(p, pc, t).digest = p.digest
                 /\ Begun(p, pc, t).records = p.records
                 /\ Begun(p, pc, t).tmp = Empty
                 /\ Begun(p, pc, t).todo = Listed(t)
<1>1. ASSUME NEW pc \in PutAt
      PROVE  /\ At(p, pc) \in Puts
             /\ At(p, pc).pc = pc
             /\ At(p, pc).digest = p.digest
             /\ At(p, pc).records = p.records
             /\ At(p, pc).tmp = p.tmp
             /\ At(p, pc).todo = p.todo
  BY DEF At, Puts
<1>2. ASSUME NEW last \in BOOLEAN
      PROVE  Asked(p, last) \in Puts /\ Asked(p, last).pc = "hash"
  BY DEF Asked, Puts, PutAt
<1>3. ASSUME NEW t \in Trees
      PROVE  /\ Hashed(p, t) \in Puts
             /\ Hashed(p, t).pc = "check"
             /\ Hashed(p, t).records = t
             /\ Hashed(p, t).digest = Digest[t]
  BY DigestsAreNames DEF Hashed, Puts, PutAt
<1>4. ASSUME NEW pc \in PutAt, NEW t \in Trees
      PROVE  /\ Begun(p, pc, t) \in Puts
             /\ Begun(p, pc, t).pc = pc
             /\ Begun(p, pc, t).digest = p.digest
             /\ Begun(p, pc, t).records = p.records
             /\ Begun(p, pc, t).tmp = Empty
             /\ Begun(p, pc, t).todo = Listed(t)
  <2>1. Listed(t) \in SUBSET Paths
    BY DEF Listed
  <2> QED
    BY <2>1, EmptyIsATree DEF Begun, Puts
<1> QED
  BY <1>1, <1>2, <1>3, <1>4

LEMMA NodeUpdates ==
    ASSUME NEW t \in Trees, NEW q \in Paths, NEW x \in Nodes \cup {Absent}
    PROVE  /\ WithNode(t, q, x) \in Trees
           /\ WithNode(t, q, x)[q] = x
           /\ \A o \in Paths : o # q => WithNode(t, q, x)[o] = t[o]
BY DEF WithNode, Trees

LEMMA CopyUpdates ==
    ASSUME NEW p \in Puts, NEW q \in Paths, NEW x \in Nodes \cup {Absent}
    PROVE  /\ Copied(p, q, x) \in Puts
           /\ Copied(p, q, x).pc = p.pc
           /\ Copied(p, q, x).digest = p.digest
           /\ Copied(p, q, x).records = p.records
           /\ Copied(p, q, x).tmp = WithNode(p.tmp, q, x)
           /\ Copied(p, q, x).todo = p.todo \ {q}
<1>1. WithNode(p.tmp, q, x) \in Trees
  BY NodeUpdates DEF Puts
<1> QED
  BY <1>1 DEF Copied, Puts

LEMMA RestoreUpdates ==
    ASSUME NEW p \in Restores
    PROVE  /\ \A pc \in RestoreAt :
                 /\ At(p, pc) \in Restores
                 /\ At(p, pc).pc = pc
                 /\ At(p, pc).digest = p.digest
                 /\ At(p, pc).dest = p.dest
           /\ \A pc \in RestoreAt, d \in V1 \cup V2, e \in Dests :
                 /\ Sought(p, pc, d, e) \in Restores
                 /\ Sought(p, pc, d, e).pc = pc
           /\ \A t \in Trees :
                 /\ Opened(p, t) \in Restores
                 /\ Opened(p, t).pc = "copy"
                 /\ Opened(p, t).digest = p.digest
                 /\ Opened(p, t).dest = p.dest
           /\ \A q \in Paths :
                 /\ CopiedOut(p, q) \in Restores
                 /\ CopiedOut(p, q).pc = p.pc
                 /\ CopiedOut(p, q).digest = p.digest
                 /\ CopiedOut(p, q).dest = p.dest
<1>1. ASSUME NEW pc \in RestoreAt
      PROVE  /\ At(p, pc) \in Restores
             /\ At(p, pc).pc = pc
             /\ At(p, pc).digest = p.digest
             /\ At(p, pc).dest = p.dest
  BY DEF At, Restores
<1>2. ASSUME NEW pc \in RestoreAt, NEW d \in V1 \cup V2, NEW e \in Dests
      PROVE  Sought(p, pc, d, e) \in Restores /\ Sought(p, pc, d, e).pc = pc
  BY DEF Sought, Restores
<1>3. ASSUME NEW t \in Trees
      PROVE  /\ Opened(p, t) \in Restores
             /\ Opened(p, t).pc = "copy"
             /\ Opened(p, t).digest = p.digest
             /\ Opened(p, t).dest = p.dest
  <2>1. Listed(t) \in SUBSET Paths
    BY DEF Listed
  <2> QED
    BY <2>1 DEF Opened, Restores, RestoreAt
<1>4. ASSUME NEW q \in Paths
      PROVE  /\ CopiedOut(p, q) \in Restores
             /\ CopiedOut(p, q).pc = p.pc
             /\ CopiedOut(p, q).digest = p.digest
             /\ CopiedOut(p, q).dest = p.dest
  BY DEF CopiedOut, Restores
<1> QED
  BY <1>1, <1>2, <1>3, <1>4

LEMMA PositionFacts ==
    /\ {"policy", "hash", "check", "copy", "meta", "put", "ended", "dead"} = PutAt
    /\ {"idle", "mkdir", "copy", "restored", "mismatch", "unknown", "exists"}
         = RestoreAt
    /\ \A p \in Puts : /\ p.digest \in V2 /\ p.records \in Trees
                       /\ p.tmp \in Trees /\ p.todo \subseteq Paths
    /\ \A p \in Restores : p.digest \in V1 \cup V2 /\ p.dest \in Dests
    /\ \A t \in Trees, q \in Paths : t[q] \in Nodes \cup {Absent}
BY DEF PutAt, RestoreAt, Puts, Restores, Trees

-----------------------------------------------------------------------------
(* Every variable keeps its type.                                          *)
LEMMA GotoType ==
    ASSUME TypeOK, NEW c \in Collectors, NEW pc \in PutAt, Goto(c, pc)
    PROVE  put' \in [Collectors -> Puts]
<1>1. At(put[c], pc) \in Puts
  BY PutUpdates DEF TypeOK
<1> QED
  BY <1>1 DEF TypeOK, Goto

LEMMA MoveToType ==
    ASSUME TypeOK, NEW r \in Readers, NEW pc \in RestoreAt, MoveTo(r, pc)
    PROVE  restore' \in [Readers -> Restores]
<1>1. At(restore[r], pc) \in Restores
  BY RestoreUpdates DEF TypeOK
<1> QED
  BY <1>1 DEF TypeOK, MoveTo

LEMMA TypePreserved == TypeOK /\ [Next]_vars => TypeOK'
<1> SUFFICES ASSUME TypeOK, [Next]_vars PROVE TypeOK'
  OBVIOUS
<1>1. ASSUME NEW c \in Collectors, Policy(c) PROVE TypeOK'
  <2>1. PICK last \in BOOLEAN : put' = [put EXCEPT ![c] = Asked(@, last)]
    BY <1>1 DEF Policy
  <2>2. Asked(put[c], last) \in Puts
    BY PutUpdates DEF TypeOK
  <2>3. put' \in [Collectors -> Puts]
    BY <2>1, <2>2 DEF TypeOK
  <2> QED
    BY <1>1, <2>3 DEF Policy, TypeOK, store
<1>2. ASSUME NEW c \in Collectors, Hash(c) PROVE TypeOK'
  <2>1. Hashed(put[c], ws[c]) \in Puts
    BY PutUpdates DEF TypeOK
  <2>2. put' \in [Collectors -> Puts]
    BY <1>2, <2>1 DEF Hash, TypeOK
  <2> QED
    BY <1>2, <2>2 DEF Hash, TypeOK, store
<1>3. ASSUME NEW c \in Collectors, Check(c) PROVE TypeOK'
  <2>1. PICK pc \in PutAt : put' = [put EXCEPT ![c] = Begun(@, pc, ws[c])]
    BY <1>3 DEF Check, PutAt
  <2>2. Begun(put[c], pc, ws[c]) \in Puts
    BY PutUpdates DEF TypeOK
  <2>3. put' \in [Collectors -> Puts]
    BY <2>1, <2>2 DEF TypeOK
  <2> QED
    BY <1>3, <2>3 DEF Check, TypeOK, store
<1>4. ASSUME NEW c \in Collectors, NEW q \in Paths, Copy(c, q) PROVE TypeOK'
  <2>1. Copied(put[c], q, ws[c][q]) \in Puts
    BY CopyUpdates, PositionFacts DEF TypeOK
  <2>2. put' \in [Collectors -> Puts]
    BY <1>4, <2>1 DEF Copy, TypeOK
  <2> QED
    BY <1>4, <2>2 DEF Copy, TypeOK, store
<1>5. ASSUME NEW c \in Collectors, Publish(c) PROVE TypeOK'
  <2>1. put' \in [Collectors -> Puts]
    BY <1>5, GotoType, PositionFacts DEF Publish, PutAt
  <2>2. put[c].digest \in V2 /\ put[c].tmp \in Trees
    BY PositionFacts DEF TypeOK
  <2>3. present' \subseteq V1 \cup V2 /\ stored' \in [V1 \cup V2 -> Trees]
    BY <1>5, <2>2 DEF Publish, TypeOK
  <2> QED
    BY <1>5, <2>1, <2>3 DEF Publish, TypeOK
<1>6. ASSUME NEW c \in Collectors, PublishMeta(c) PROVE TypeOK'
  <2>1. put' \in [Collectors -> Puts]
    BY <1>6, GotoType, PositionFacts DEF PublishMeta, PutAt
  <2>2. put[c].digest \in V2 /\ put[c].records \in Trees
    BY PositionFacts DEF TypeOK
  <2>3. hasMeta' \subseteq V2 /\ meta' \in [V2 -> Trees]
    BY <1>6, <2>2 DEF PublishMeta, TypeOK
  <2> QED
    BY <1>6, <2>1, <2>3 DEF PublishMeta, TypeOK
<1>7. ASSUME NEW c \in Collectors, RefuseRename(c) PROVE TypeOK'
  <2>1. put' \in [Collectors -> Puts]
    BY <1>7, GotoType DEF RefuseRename, PutAt
  <2>2. put[c].digest \in V2
    BY PositionFacts DEF TypeOK
  <2> QED
    BY <1>7, <2>1, <2>2 DEF RefuseRename, TypeOK, store
<1>8. ASSUME NEW c \in Collectors, RecordAndExecute(c) PROVE TypeOK'
  <2>1. put' \in [Collectors -> Puts]
    BY <1>8, GotoType DEF RecordAndExecute, PutAt
  <2>2. [digest |-> put[c].digest, tree |-> put[c].records] \in Snapshots
    BY PositionFacts DEF TypeOK, Snapshots
  <2>3. taken' \in [Collectors -> Seq(Snapshots)]
    BY <1>8, <2>2 DEF RecordAndExecute, TypeOK
  <2>4. ws' \in [Collectors -> Trees]
    BY <1>8, StoreAssumption DEF RecordAndExecute, TypeOK
  <2> QED
    BY <1>8, <2>1, <2>3, <2>4 DEF RecordAndExecute, TypeOK, store
<1>9. ASSUME NEW c \in Collectors, Finish(c) PROVE TypeOK'
  <2>1. put' \in [Collectors -> Puts]
    BY <1>9, GotoType DEF Finish, PutAt
  <2> QED
    BY <1>9, <2>1 DEF Finish, TypeOK, store
<1>10. ASSUME NEW c \in Collectors, Crash(c) PROVE TypeOK'
  <2>1. put' \in [Collectors -> Puts]
    BY <1>10, GotoType DEF Crash, PutAt
  <2> QED
    BY <1>10, <2>1 DEF Crash, TypeOK, store
<1>11. ASSUME NEW c \in Collectors, Meddle(c) PROVE TypeOK'
  <2>1. put[c].digest \in V2
    BY PositionFacts DEF TypeOK
  <2>2. ws' \in [Collectors -> Trees]
    BY <1>11, StoreAssumption DEF Meddle, TypeOK
  <2> QED
    BY <1>11, <2>1, <2>2 DEF Meddle, TypeOK, store
<1>12. ASSUME NEW r \in Readers, Lookup(r) PROVE TypeOK'
  <2>1. Known \subseteq V1 \cup V2
    <3>1. ASSUME NEW c \in Collectors, NEW s \in Range(taken[c])
          PROVE  s.digest \in V2
      <4>1. taken[c] \in Seq(Snapshots)
        BY DEF TypeOK
      <4>2. s \in Snapshots
        BY <4>1 DEF Range
      <4> QED
        BY <4>2 DEF Snapshots
    <3> QED
      BY <3>1 DEF Known
  <2>2. PICK pc \in RestoreAt, d \in V1 \cup V2, e \in Dests :
           restore' = [restore EXCEPT ![r] = Sought(@, pc, d, e)]
    BY <1>12, <2>1 DEF Lookup, RestoreAt
  <2>3. Sought(restore[r], pc, d, e) \in Restores
    BY RestoreUpdates DEF TypeOK
  <2>4. restore' \in [Readers -> Restores]
    BY <2>2, <2>3 DEF TypeOK
  <2> QED
    BY <1>12, <2>4 DEF Lookup, TypeOK, store
<1>13. ASSUME NEW r \in Readers, Mkdir(r) PROVE TypeOK'
  <2>1. restore[r].digest \in V1 \cup V2 /\ restore[r].dest \in Dests
    BY PositionFacts DEF TypeOK
  <2>2. Opened(restore[r], stored[restore[r].digest]) \in Restores
    BY <2>1, RestoreUpdates DEF TypeOK
  <2>3. restore' \in [Readers -> Restores]
    BY <1>13, <2>2, MoveToType DEF Mkdir, TypeOK, RestoreAt
  <2>4. dirs' \in [Dests -> Trees] /\ made' \subseteq Dests
    BY <1>13, <2>1, EmptyIsATree DEF Mkdir, TypeOK
  <2> QED
    BY <1>13, <2>3, <2>4 DEF Mkdir, TypeOK, store
<1>14. ASSUME NEW r \in Readers, NEW q \in Paths, CopyOut(r, q) PROVE TypeOK'
  <2> DEFINE x == stored[restore[r].digest][q]
  <2>1. restore[r].digest \in V1 \cup V2 /\ restore[r].dest \in Dests
    BY PositionFacts DEF TypeOK
  <2>2. x \in Nodes \cup {Absent}
    BY <2>1, PositionFacts DEF TypeOK
  <2>3. WithNode(dirs[restore[r].dest], q, x) \in Trees
    BY <2>1, <2>2, NodeUpdates DEF TypeOK
  <2>4. dirs' \in [Dests -> Trees]
    BY <1>14, <2>3 DEF CopyOut, TypeOK
  <2>5. CopiedOut(restore[r], q) \in Restores
    BY RestoreUpdates DEF TypeOK
  <2>6. restore' \in [Readers -> Restores]
    BY <1>14, <2>5 DEF CopyOut, TypeOK
  <2> QED
    BY <1>14, <2>4, <2>6 DEF CopyOut, TypeOK, store
<1>15. ASSUME NEW r \in Readers, Verify(r) PROVE TypeOK'
  <2>1. restore' \in [Readers -> Restores]
    BY <1>15, MoveToType DEF Verify, RestoreAt
  <2> QED
    BY <1>15, <2>1 DEF Verify, TypeOK, store
<1>16. ASSUME NEW d \in V1 \cup V2, Tamper(d) PROVE TypeOK'
  <2>1. stored' \in [V1 \cup V2 -> Trees]
    BY <1>16, StoreAssumption DEF Tamper, TypeOK
  <2> QED
    BY <1>16, <2>1 DEF Tamper, TypeOK
<1>17. CASE UNCHANGED vars
  BY <1>17 DEF TypeOK, vars, store
<1> QED
  BY <1>1, <1>2, <1>3, <1>4, <1>5, <1>6, <1>7, <1>8, <1>9, <1>10, <1>11,
     <1>12, <1>13, <1>14, <1>15, <1>16, <1>17
     DEF Next, Collect, Read

-----------------------------------------------------------------------------
(* Nothing is ever taken back.                                             *)
LEMMA Grows ==
    ASSUME [Next]_vars
    PROVE  /\ present \subseteq present' /\ hasMeta \subseteq hasMeta'
           /\ refused \subseteq refused' /\ disturbed \subseteq disturbed'
BY DEF Next, Collect, Read, Policy, Hash, Check, Copy, Publish, PublishMeta,
       RefuseRename, RecordAndExecute, Finish, Crash, Meddle, Lookup, Mkdir,
       CopyOut, Verify, Tamper, store, vars

LEMMA WriterUntouched ==
    ASSUME [Next]_vars, NEW c \in Collectors, Writer(c),
           put'[c] = put[c], ws'[c] = ws[c]
    PROVE  Writer(c)'
BY Grows DEF Writer

LEMMA GotoMoves ==
    ASSUME TypeOK, NEW c \in Collectors, NEW pc \in PutAt, Goto(c, pc)
    PROVE  /\ put'[c].pc = pc
           /\ put'[c].digest = put[c].digest
           /\ put'[c].records = put[c].records
           /\ \A x \in Collectors : x # c => put'[x] = put[x]
<1>1. put[c] \in Puts /\ put'[c] = At(put[c], pc)
  BY DEF TypeOK, Goto
<1>2. \A x \in Collectors : x # c => put'[x] = put[x]
  BY DEF TypeOK, Goto
<1> QED
  BY <1>1, <1>2, PutUpdates

(* A collector's step leaves what is known of it true.                     *)
LEMMA WriterStep ==
    ASSUME TypeOK, [Next]_vars, NEW c \in Collectors, Writer(c), Collect(c)
    PROVE  Writer(c)' /\ \A x \in Collectors \ {c} : put'[x] = put[x] /\ ws'[x] = ws[x]
<1> DEFINE Others == \A x \in Collectors \ {c} : put'[x] = put[x] /\ ws'[x] = ws[x]
<1>0. /\ put[c] \in Puts /\ ws[c] \in Trees
      /\ put[c].digest \in V2 /\ put[c].records \in Trees
  BY PositionFacts DEF TypeOK
<1>1. CASE Policy(c)
  <2>1. PICK last \in BOOLEAN : put' = [put EXCEPT ![c] = Asked(@, last)]
    BY <1>1 DEF Policy
  <2>2. put'[c].pc = "hash"
    BY <1>0, <2>1, PutUpdates DEF TypeOK
  <2>3. Others
    BY <1>1, <2>1 DEF Policy, TypeOK
  <2> QED
    BY <2>2, <2>3 DEF Writer
<1>2. CASE Hash(c)
  <2>1. put'[c] = Hashed(put[c], ws[c]) /\ ws' = ws /\ Others
    BY <1>2 DEF Hash, TypeOK
  <2>2. /\ put'[c].pc = "check" /\ put'[c].records = ws[c]
        /\ put'[c].digest = Digest[ws[c]]
    BY <1>0, <2>1, PutUpdates
  <2> QED
    BY <2>1, <2>2 DEF Writer
<1>3. CASE Check(c)
  <2>1. PICK pc \in {"put", "copy"} :
           /\ put' = [put EXCEPT ![c] = Begun(@, pc, ws[c])]
           /\ pc = "put" => put[c].digest \in present
    BY <1>3 DEF Check
  <2>2. put'[c] = Begun(put[c], pc, ws[c]) /\ ws' = ws /\ Others
    BY <1>3, <2>1 DEF Check, TypeOK
  <2>3. /\ put'[c].pc = pc /\ put'[c].records = put[c].records
        /\ put'[c].digest = put[c].digest
        /\ put'[c].tmp = Empty /\ put'[c].todo = Listed(ws[c])
    BY <1>0, <2>2, PutUpdates DEF PutAt
  <2>4. \A q \in Paths \ Listed(ws[c]) : Empty[q] = ws[c][q]
    BY DEF Listed, Empty
  <2>5. disturbed' = disturbed /\ present' = present /\ put[c].pc = "check"
    BY <1>3 DEF Check, store
  <2> QED
    BY <2>1, <2>2, <2>3, <2>4, <2>5 DEF Writer
<1>4. ASSUME NEW q \in Paths, Copy(c, q)
      PROVE  Writer(c)' /\ Others
  <2>1. put'[c] = Copied(put[c], q, ws[c][q]) /\ ws' = ws /\ Others
    BY <1>4 DEF Copy, TypeOK
  <2>2. ws[c][q] \in Nodes \cup {Absent} /\ put[c].tmp \in Trees
    BY <1>0, PositionFacts
  <2>3. /\ put'[c].pc = put[c].pc /\ put'[c].records = put[c].records
        /\ put'[c].digest = put[c].digest
        /\ put'[c].tmp = WithNode(put[c].tmp, q, ws[c][q])
        /\ put'[c].todo = put[c].todo \ {q}
    BY <1>0, <2>1, <2>2, CopyUpdates
  <2>4. disturbed' = disturbed /\ present' = present /\ put[c].pc = "copy"
    BY <1>4 DEF Copy, store
  <2>5. /\ WithNode(put[c].tmp, q, ws[c][q])[q] = ws[c][q]
        /\ \A o \in Paths : o # q =>
              WithNode(put[c].tmp, q, ws[c][q])[o] = put[c].tmp[o]
    BY <2>2, NodeUpdates
  <2> QED
    BY <2>1, <2>3, <2>4, <2>5 DEF Writer
<1>5. CASE Publish(c)
  <2>1. CASE Renamable(put[c].digest)
    <3>1. Goto(c, "meta") /\ ws' = ws /\ put[c].pc = "copy"
          /\ present' = present \cup {put[c].digest}
      BY <1>5, <2>1 DEF Publish
    <3> QED
      BY <3>1, GotoMoves DEF Writer, PutAt
  <2>2. CASE ~Renamable(put[c].digest)
    <3>1. Goto(c, "put") /\ ws' = ws /\ put[c].pc = "copy" /\ present' = present
      BY <1>5, <2>2 DEF Publish
    <3>2. put[c].digest \in present
      BY <2>2 DEF Renamable
    <3> QED
      BY <3>1, <3>2, GotoMoves DEF Writer, PutAt
  <2> QED
    BY <2>1, <2>2
<1>6. CASE PublishMeta(c)
  <2>1. Goto(c, "put") /\ ws' = ws /\ put[c].pc = "meta" /\ present' = present
    BY <1>6 DEF PublishMeta
  <2> QED
    BY <2>1, GotoMoves DEF Writer, PutAt
<1>7. CASE RefuseRename(c)
  <2>1. /\ Goto(c, "put") /\ ws' = ws /\ put[c].pc \in {"copy", "meta"}
        /\ refused' = refused \cup {put[c].digest}
    BY <1>7 DEF RefuseRename
  <2> QED
    BY <2>1, GotoMoves DEF Writer, PutAt
<1>8. CASE RecordAndExecute(c)
  <2>1. Goto(c, "policy") /\ \A x \in Collectors \ {c} : ws'[x] = ws[x]
    BY <1>8 DEF RecordAndExecute, TypeOK
  <2> QED
    BY <2>1, GotoMoves DEF Writer, PutAt
<1>9. CASE Finish(c)
  <2>1. /\ Goto(c, "ended") /\ ws' = ws /\ put[c].pc = "put"
        /\ present' = present /\ refused' = refused
    BY <1>9 DEF Finish, store
  <2> QED
    BY <2>1, GotoMoves DEF Writer, PutAt
<1> QED
  BY <1>1, <1>2, <1>3, <1>4, <1>5, <1>6, <1>7, <1>8, <1>9 DEF Collect

LEMMA WritersPreserved ==
    ASSUME TypeOK, WriterInv, [Next]_vars
    PROVE  WriterInv'
<1>1. ASSUME NEW c \in Collectors, Collect(c) PROVE WriterInv'
  BY <1>1, WriterStep, WriterUntouched DEF WriterInv
<1>2. ASSUME NEW c \in Collectors, Crash(c) PROVE WriterInv'
  <2>1. Goto(c, "dead") /\ ws' = ws
    BY <1>2 DEF Crash
  <2>2. Writer(c)'
    BY <2>1, GotoMoves DEF Writer, PutAt
  <2> QED
    BY <2>1, <2>2, GotoMoves, WriterUntouched DEF WriterInv, PutAt
<1>3. ASSUME NEW c \in Collectors, Meddle(c) PROVE WriterInv'
  <2>1. /\ put' = put /\ disturbed' = disturbed \cup {put[c].digest}
        /\ \A x \in Collectors : x # c => ws'[x] = ws[x]
    BY <1>3 DEF Meddle, TypeOK
  <2>2. present' = present /\ refused' = refused
    BY <1>3 DEF Meddle, store
  <2>3. Writer(c)'
    BY <2>1, <2>2 DEF Writer, WriterInv
  <2> QED
    BY <2>1, <2>3, WriterUntouched DEF WriterInv
<1>4. ASSUME NEW r \in Readers, Read(r) PROVE WriterInv'
  <2>1. put' = put /\ ws' = ws
    BY <1>4 DEF Read, Lookup, Mkdir, CopyOut, Verify
  <2> QED
    BY <2>1, WriterUntouched DEF WriterInv
<1>5. ASSUME NEW d \in V1 \cup V2, Tamper(d) PROVE WriterInv'
  BY <1>5, WriterUntouched DEF WriterInv, Tamper
<1>6. CASE UNCHANGED vars
  BY <1>6, WriterUntouched DEF WriterInv, vars
<1> QED
  BY <1>1, <1>2, <1>3, <1>4, <1>5, <1>6 DEF Next

-----------------------------------------------------------------------------
(* What a writer renames into place is the tree of its digest.             *)
LEMMA PublishedIsWhole ==
    ASSUME TypeOK, NEW c \in Collectors, Writer(c), Publish(c),
           put[c].digest \notin disturbed
    PROVE  put[c].tmp = put[c].records /\ Digest[put[c].tmp] = put[c].digest
<1>1. put[c].tmp \in Trees /\ put[c].records \in Trees
  BY PositionFacts DEF TypeOK
<1>2. put[c].pc = "copy" /\ put[c].todo = {}
  BY DEF Publish
<1>3. \A q \in Paths : put[c].tmp[q] = put[c].records[q]
  BY <1>2 DEF Writer
<1>4. put[c].tmp = put[c].records
  BY <1>1, <1>3 DEF Trees
<1> QED
  BY <1>2, <1>4 DEF Writer

(* Only Publish and Tamper change what is stored.                          *)
LEMMA StoreUntouched ==
    ASSUME [Next]_vars
    PROVE  \/ stored' = stored /\ present' = present
           \/ \E c \in Collectors : Publish(c)
           \/ \E d \in V1 \cup V2 : Tamper(d)
BY DEF Next, Collect, Read, Policy, Hash, Check, Copy, PublishMeta,
       RefuseRename, RecordAndExecute, Finish, Crash, Meddle, Lookup, Mkdir,
       CopyOut, Verify, store, vars

LEMMA WholePreserved ==
    ASSUME TypeOK, WriterInv, TreesAreWhole, [Next]_vars
    PROVE  TreesAreWhole'
<1>1. CASE stored' = stored /\ present' = present
  BY <1>1, Grows DEF TreesAreWhole
<1>2. ASSUME NEW c \in Collectors, Publish(c) PROVE TreesAreWhole'
  <2>1. disturbed' = disturbed
    BY <1>2 DEF Publish
  <2>2. CASE ~Renamable(put[c].digest)
    BY <1>2, <2>1, <2>2 DEF Publish, TreesAreWhole
  <2>3. CASE Renamable(put[c].digest)
    <3>1. /\ present' = present \cup {put[c].digest}
          /\ stored' = [stored EXCEPT ![put[c].digest] = put[c].tmp]
      BY <1>2, <2>3 DEF Publish
    <3>2. put[c].digest \notin disturbed => Digest[put[c].tmp] = put[c].digest
      BY <1>2, PublishedIsWhole DEF WriterInv
    <3> QED
      BY <2>1, <3>1, <3>2 DEF TreesAreWhole, TypeOK
  <2> QED
    BY <2>2, <2>3
<1>3. ASSUME NEW d \in V1 \cup V2, Tamper(d) PROVE TreesAreWhole'
  <2>1. /\ disturbed' = disturbed \cup {d} /\ present' = present
        /\ \A x \in V1 \cup V2 : x # d => stored'[x] = stored[x]
    BY <1>3 DEF Tamper, TypeOK
  <2> QED
    BY <2>1 DEF TreesAreWhole
<1> QED
  BY <1>1, <1>2, <1>3, StoreUntouched

LEMMA MetaPreserved ==
    ASSUME TypeOK, WriterInv, MetaDescribesTree, [Next]_vars
    PROVE  MetaDescribesTree'
<1>1. ASSUME NEW c \in Collectors, PublishMeta(c) PROVE MetaDescribesTree'
  <2>1. /\ hasMeta' = hasMeta \cup {put[c].digest} /\ present' = present
        /\ meta' = [meta EXCEPT ![put[c].digest] = put[c].records]
        /\ put[c].pc = "meta"
    BY <1>1 DEF PublishMeta
  <2>2. put[c].digest \in present /\ Digest[put[c].records] = put[c].digest
    BY <2>1 DEF WriterInv, Writer
  <2>3. put[c].digest \in V2
    BY PositionFacts DEF TypeOK
  <2>4. /\ meta'[put[c].digest] = put[c].records
        /\ \A d \in V2 : d # put[c].digest => meta'[d] = meta[d]
    BY <2>1, <2>3 DEF TypeOK
  <2>5. hasMeta \subseteq V2
    BY DEF TypeOK
  <2> QED
    BY <2>1, <2>2, <2>4, <2>5 DEF MetaDescribesTree
<1>2. ASSUME ~\E c \in Collectors : PublishMeta(c) PROVE MetaDescribesTree'
  <2>1. hasMeta' = hasMeta /\ meta' = meta
    BY <1>2 DEF Next, Collect, Read, Policy, Hash, Check, Copy, Publish,
       RefuseRename, RecordAndExecute, Finish, Crash, Meddle, Lookup, Mkdir,
       CopyOut, Verify, Tamper, store, vars
  <2> QED
    BY <2>1, Grows DEF MetaDescribesTree
<1> QED
  BY <1>1, <1>2

LEMMA SnapshotsPreserved ==
    ASSUME TypeOK, WriterInv, SnapshotInv, [Next]_vars
    PROVE  SnapshotInv'
<1>1. ASSUME NEW c \in Collectors, RecordAndExecute(c) PROVE SnapshotInv'
  <2> DEFINE s == [digest |-> put[c].digest, tree |-> put[c].records]
  <2>1. /\ taken' = [taken EXCEPT ![c] = Append(@, s)]
        /\ put[c].pc = "put"
    BY <1>1 DEF RecordAndExecute
  <2>2. s.digest = Digest[s.tree] /\ s.digest \in present \cup refused
    BY <2>1 DEF WriterInv, Writer
  <2>3. s \in Snapshots
    BY PositionFacts DEF TypeOK, Snapshots
  <2> HIDE DEF s
  <2>4. \A x \in Collectors : x # c => taken'[x] = taken[x]
    BY <2>1 DEF TypeOK
  <2>5. taken[c] \in Seq(Snapshots) /\ taken'[c] = Append(taken[c], s)
    BY <2>1 DEF TypeOK
  <2>6. \A i \in DOMAIN taken'[c] :
           \/ taken'[c][i] = s
           \/ i \in DOMAIN taken[c] /\ taken'[c][i] = taken[c][i]
    <3> SUFFICES ASSUME NEW i \in DOMAIN taken'[c]
                 PROVE  \/ taken'[c][i] = s
                        \/ i \in DOMAIN taken[c] /\ taken'[c][i] = taken[c][i]
      OBVIOUS
    <3>1. i \in 1..(Len(taken[c]) + 1)
      BY <2>3, <2>5
    <3>2. i <= Len(taken[c]) => i \in DOMAIN taken[c] /\ taken'[c][i] = taken[c][i]
      BY <2>3, <2>5, <3>1
    <3>3. i = Len(taken[c]) + 1 => taken'[c][i] = s
      BY <2>3, <2>5
    <3>4. Len(taken[c]) \in Nat
      BY <2>5
    <3>5. i <= Len(taken[c]) \/ i = Len(taken[c]) + 1
      BY <3>1, <3>4
    <3> QED
      BY <3>2, <3>3, <3>5
  <2>7. present \cup refused \subseteq present' \cup refused'
    BY Grows
  <2> QED
    BY <2>2, <2>4, <2>6, <2>7 DEF SnapshotInv
<1>2. ASSUME ~\E c \in Collectors : RecordAndExecute(c) PROVE SnapshotInv'
  <2>1. taken' = taken
    BY <1>2 DEF Next, Collect, Read, Policy, Hash, Check, Copy, Publish,
       PublishMeta, RefuseRename, Finish, Crash, Meddle, Lookup, Mkdir,
       CopyOut, Verify, Tamper, store, vars
  <2> QED
    BY <2>1, Grows DEF SnapshotInv
<1> QED
  BY <1>1, <1>2

-----------------------------------------------------------------------------
(* Readers never share a destination, so what one has verified stays.      *)
LEMMA MoveToMoves ==
    ASSUME TypeOK, NEW r \in Readers, NEW pc \in RestoreAt, MoveTo(r, pc)
    PROVE  /\ restore'[r].pc = pc
           /\ restore'[r].digest = restore[r].digest
           /\ restore'[r].dest = restore[r].dest
           /\ \A x \in Readers : x # r => restore'[x] = restore[x]
<1>1. restore[r] \in Restores /\ restore'[r] = At(restore[r], pc)
  BY DEF TypeOK, MoveTo
<1>2. \A x \in Readers : x # r => restore'[x] = restore[x]
  BY DEF TypeOK, MoveTo
<1> QED
  BY <1>1, <1>2, RestoreUpdates

LEMMA ReadersPreserved ==
    ASSUME TypeOK, ReaderInv, RestoredIsRecorded, [Next]_vars
    PROVE  ReaderInv' /\ RestoredIsRecorded'
<1>0. \A r \in Readers : /\ restore[r] \in Restores
                         /\ restore[r].digest \in V1 \cup V2
                         /\ restore[r].dest \in Dests
  BY PositionFacts DEF TypeOK
<1>1. ASSUME NEW r \in Readers, Lookup(r)
      PROVE  ReaderInv' /\ RestoredIsRecorded'
  <2>1. Known \subseteq V1 \cup V2
    <3>1. ASSUME NEW c \in Collectors, NEW s \in Range(taken[c])
          PROVE  s.digest \in V2
      <4>1. taken[c] \in Seq(Snapshots)
        BY DEF TypeOK
      <4>2. s \in Snapshots
        BY <4>1 DEF Range
      <4> QED
        BY <4>2 DEF Snapshots
    <3> QED
      BY <3>1 DEF Known
  <2>2. PICK d \in Known, e \in Dests :
           LET pc == CASE d \notin present -> "unknown"
                       [] d \in present /\ e \in made -> "exists"
                       [] d \in present /\ e \notin made -> "mkdir" IN
           restore' = [restore EXCEPT ![r] = Sought(@, pc, d, e)]
    BY <1>1 DEF Lookup
  <2>3. restore'[r].pc \in {"unknown", "exists", "mkdir"}
    <3>1. PICK pc \in {"unknown", "exists", "mkdir"} :
             restore' = [restore EXCEPT ![r] = Sought(@, pc, d, e)]
      BY <2>2
    <3>2. Sought(restore[r], pc, d, e).pc = pc
      BY <1>0, <2>1, RestoreUpdates DEF RestoreAt
    <3> QED
      BY <3>1, <3>2 DEF TypeOK
  <2>4. \A x \in Readers : x # r => restore'[x] = restore[x]
    BY <2>2 DEF TypeOK
  <2>5. dirs' = dirs /\ made' = made
    BY <1>1 DEF Lookup
  <2> QED
    BY <2>3, <2>4, <2>5 DEF ReaderInv, InDest, RestoredIsRecorded, Matches
<1>2. ASSUME NEW r \in Readers, Mkdir(r)
      PROVE  ReaderInv' /\ RestoredIsRecorded'
  <2>1. CASE restore[r].dest \in made
    <3>1. MoveTo(r, "exists") /\ dirs' = dirs /\ made' = made
      BY <1>2, <2>1 DEF Mkdir
    <3> QED
      BY <3>1, MoveToMoves DEF ReaderInv, InDest, RestoredIsRecorded, Matches, RestoreAt
  <2>2. CASE restore[r].dest \notin made
    <3>1. /\ restore' = [restore EXCEPT ![r] = Opened(@, stored[restore[r].digest])]
          /\ made' = made \cup {restore[r].dest}
          /\ \A e \in Dests : e # restore[r].dest => dirs'[e] = dirs[e]
      BY <1>2, <2>2 DEF Mkdir, TypeOK
    <3>2. stored[restore[r].digest] \in Trees
      BY <1>0 DEF TypeOK
    <3>3. restore'[r].pc = "copy" /\ restore'[r].dest = restore[r].dest
      BY <1>0, <3>1, <3>2, RestoreUpdates DEF TypeOK
    <3>4. \A x \in Readers : x # r => restore'[x] = restore[x]
      BY <3>1 DEF TypeOK
    <3>5. \A x \in Readers : InDest(x) => restore[x].dest # restore[r].dest
      BY <2>2 DEF ReaderInv
    <3>6. ReaderInv'
      BY <3>1, <3>3, <3>4, <3>5 DEF ReaderInv, InDest
    <3>7. ASSUME NEW x \in Readers, x # r, restore[x].pc = "restored"
          PROVE  dirs'[restore[x].dest] = dirs[restore[x].dest]
      BY <1>0, <3>1, <3>5, <3>7 DEF InDest
    <3>8. RestoredIsRecorded'
      BY <3>3, <3>4, <3>7 DEF RestoredIsRecorded, Matches
    <3> QED
      BY <3>6, <3>8
  <2> QED
    BY <2>1, <2>2
<1>3. ASSUME NEW r \in Readers, NEW q \in Paths, CopyOut(r, q)
      PROVE  ReaderInv' /\ RestoredIsRecorded'
  <2>1. /\ restore' = [restore EXCEPT ![r] = CopiedOut(@, q)]
        /\ made' = made /\ restore[r].pc = "copy"
        /\ \A e \in Dests : e # restore[r].dest => dirs'[e] = dirs[e]
    BY <1>3 DEF CopyOut, TypeOK
  <2>2. restore'[r].pc = "copy" /\ restore'[r].dest = restore[r].dest
    BY <1>0, <2>1, RestoreUpdates DEF TypeOK
  <2>3. \A x \in Readers : x # r => restore'[x] = restore[x]
    BY <2>1 DEF TypeOK
  <2>4. ReaderInv'
    BY <2>1, <2>2, <2>3 DEF ReaderInv, InDest
  <2>5. ASSUME NEW x \in Readers, x # r, restore[x].pc = "restored"
        PROVE  dirs'[restore[x].dest] = dirs[restore[x].dest]
    BY <1>0, <2>1, <2>5 DEF ReaderInv, InDest
  <2>6. RestoredIsRecorded'
    BY <2>2, <2>3, <2>5 DEF RestoredIsRecorded, Matches
  <2> QED
    BY <2>4, <2>6
<1>4. ASSUME NEW r \in Readers, Verify(r)
      PROVE  ReaderInv' /\ RestoredIsRecorded'
  <2>1. PICK pc \in {"mismatch", "restored"} :
           /\ MoveTo(r, pc)
           /\ pc = "restored" /\ restore[r].digest \in V2 => Matches(r)
    BY <1>4 DEF Verify
  <2>2. dirs' = dirs /\ made' = made /\ restore[r].pc = "copy"
    BY <1>4 DEF Verify
  <2>3. /\ restore'[r].pc = pc /\ restore'[r].digest = restore[r].digest
        /\ restore'[r].dest = restore[r].dest
        /\ \A x \in Readers : x # r => restore'[x] = restore[x]
    BY <2>1, MoveToMoves DEF RestoreAt
  <2>4. ReaderInv'
    BY <2>2, <2>3 DEF ReaderInv, InDest
  <2>5. RestoredIsRecorded'
    BY <2>1, <2>2, <2>3 DEF RestoredIsRecorded, Matches
  <2> QED
    BY <2>4, <2>5
<1>5. ASSUME ~\E r \in Readers : Read(r)
      PROVE  ReaderInv' /\ RestoredIsRecorded'
  <2>1. restore' = restore /\ dirs' = dirs /\ made' = made
    BY <1>5 DEF Next, Collect, Policy, Hash, Check, Copy, Publish, PublishMeta,
       RefuseRename, RecordAndExecute, Finish, Crash, Meddle, Tamper, vars
  <2> QED
    BY <2>1 DEF ReaderInv, InDest, RestoredIsRecorded, Matches
<1> QED
  BY <1>1, <1>2, <1>3, <1>4, <1>5 DEF Read

-----------------------------------------------------------------------------
(* Each part is kept by the parts it rests on.                             *)
LEMMA Inductive == IInv /\ [Next]_vars => IInv'
<1> SUFFICES ASSUME IInv, [Next]_vars PROVE IInv'
  OBVIOUS
<1>1. TypeOK' /\ WriterInv'
  BY TypePreserved, WritersPreserved DEF IInv
<1>2. TreesAreWhole' /\ MetaDescribesTree'
  BY WholePreserved, MetaPreserved DEF IInv
<1>3. SnapshotInv'
  BY SnapshotsPreserved DEF IInv
<1>4. ReaderInv' /\ RestoredIsRecorded'
  BY ReadersPreserved DEF IInv
<1> QED
  BY <1>1, <1>2, <1>3, <1>4 DEF IInv

LEMMA Invariance == Spec => []IInv
BY InitEstablishes, Inductive, PTL DEF Spec

(* Every reachable state of the store and its users is well typed.         *)
THEOREM StoreTypeCorrect == Spec => []TypeOK
<1>1. IInv => TypeOK
  BY DEF IInv
<1> QED
  BY <1>1, Invariance, PTL

(* Trees appear in the store whole, whatever races and crashes.            *)
THEOREM WholeTrees == Spec => []TreesAreWhole
<1>1. IInv => TreesAreWhole
  BY DEF IInv
<1> QED
  BY <1>1, Invariance, PTL

(* A returned restore is the recorded tree, whatever happened to the bytes.*)
THEOREM RestoresAreFaithful == Spec => []RestoredIsRecorded
<1>1. IInv => RestoredIsRecorded
  BY DEF IInv
<1> QED
  BY <1>1, Invariance, PTL

(* Metadata follows its tree and describes it.                             *)
THEOREM MetaFollowsTree == Spec => []MetaDescribesTree
<1>1. IInv => MetaDescribesTree
  BY DEF IInv
<1> QED
  BY <1>1, Invariance, PTL

(* Two trees with one digest are one tree, so the stored tree of a         *)
(* snapshot is the workspace it was taken of.                              *)
LEMMA SnapshotsAreForkPoints == IInv => SnapshotIsForkPoint
<1> SUFFICES ASSUME IInv, NEW c \in Collectors, NEW i \in DOMAIN taken[c]
             PROVE  LET s == taken[c][i] IN
                    /\ s.digest \in present \cup refused
                    /\ s.digest \in present \ disturbed => stored[s.digest] = s.tree
  BY DEF SnapshotIsForkPoint
<1> DEFINE s == taken[c][i]
<1>1. taken[c] \in Seq(Snapshots)
  BY DEF IInv, TypeOK
<1>2. s \in Snapshots
  BY <1>1
<1>3. s.digest \in V2 /\ s.tree \in Trees
  BY <1>2 DEF Snapshots
<1>4. s.digest = Digest[s.tree] /\ s.digest \in present \cup refused
  BY DEF IInv, SnapshotInv
<1> HIDE DEF s
<1>5. ASSUME s.digest \in present \ disturbed
      PROVE  stored[s.digest] = s.tree
  <2>1. Digest[stored[s.digest]] = s.digest
    BY <1>3, <1>5 DEF IInv, TreesAreWhole
  <2>2. stored[s.digest] \in Trees
    BY <1>3 DEF IInv, TypeOK
  <2> QED
    BY <1>3, <1>4, <2>1, <2>2, StoreAssumption
<1> QED
  BY <1>4, <1>5 DEF s

(* A recorded snapshot is the fork point it claims to be.                  *)
THEOREM SnapshotsAreFaithful == Spec => []SnapshotIsForkPoint
BY Invariance, SnapshotsAreForkPoints, PTL

(* No step replaces or removes a stored tree.                              *)
LEMMA StoreStep ==
    IInv /\ [Next]_vars =>
      \A d \in present :
          d \in present' /\ (stored'[d] = stored[d] \/ d \in disturbed')
<1> SUFFICES ASSUME IInv, [Next]_vars, NEW d \in present
             PROVE  d \in present' /\ (stored'[d] = stored[d] \/ d \in disturbed')
  OBVIOUS
<1>1. d \in present' /\ d \in V1 \cup V2
  BY Grows DEF IInv, TypeOK
<1>2. CASE stored' = stored
  BY <1>1, <1>2
<1>3. ASSUME NEW c \in Collectors, Publish(c)
      PROVE  stored'[d] = stored[d] \/ d \in disturbed'
  <2>1. CASE ~Renamable(put[c].digest)
    BY <1>3, <2>1 DEF Publish
  <2>2. CASE put[c].digest # d
    BY <1>1, <1>3, <2>2 DEF Publish, IInv, TypeOK
  <2>3. CASE Renamable(d) /\ put[c].digest = d /\ d \notin disturbed
    <3>1. stored' = [stored EXCEPT ![d] = put[c].tmp]
      BY <1>3, <2>3 DEF Publish
    <3>2. stored[d] = Empty
      BY <2>3 DEF Renamable
    <3>3. Digest[put[c].tmp] = d
      BY <1>3, <2>3, PublishedIsWhole DEF IInv, WriterInv
    <3>4. d \in V2
      BY <2>3, PositionFacts DEF IInv, TypeOK
    <3>5. Digest[stored[d]] = d
      BY <2>3, <3>4 DEF IInv, TreesAreWhole
    <3>6. put[c].tmp \in Trees
      BY PositionFacts DEF IInv, TypeOK
    <3>7. put[c].tmp = Empty
      BY <3>2, <3>3, <3>5, <3>6, EmptyIsATree, StoreAssumption
    <3> QED
      BY <1>1, <3>1, <3>2, <3>7 DEF IInv, TypeOK
  <2> QED
    BY <2>1, <2>2, <2>3, Grows
<1>4. ASSUME NEW x \in V1 \cup V2, Tamper(x)
      PROVE  stored'[d] = stored[d] \/ d \in disturbed'
  BY <1>1, <1>4 DEF Tamper, IInv, TypeOK
<1> QED
  BY <1>1, <1>2, <1>3, <1>4, StoreUntouched

(* What is stored stays.                                                   *)
THEOREM StoredTreesStay == Spec => StoredStays
<1>1. IInv /\ [Next]_vars =>
        [\A d \in present :
           d \in present' /\ (stored'[d] = stored[d] \/ d \in disturbed')]_vars
  BY StoreStep
<1> QED
  BY <1>1, Invariance, PTL DEF Spec, StoredStays
-----------------------------------------------------------------------------
(***************************************************************************)
(* The other store that processes share, of the answers of a language      *)
(* model: theorems about ResponseCache for any number of processes, any    *)
(* requests and any answers.  A hit is an answer to the very request, and  *)
(* complete raises over an entry only where processes met on it or one     *)
(* died writing it.                                                        *)
(***************************************************************************)
LEMMA Resting ==
    ASSUME NEW pc \in Positions
    PROVE  /\ Rested(pc) \in [pc : Positions, req : Requests,
                              answer : Answers \cup {NoAnswer}]
           /\ Rested(pc).pc = pc
           /\ Rested(pc).answer = NoAnswer
<1>1. (CHOOSE r \in Requests : TRUE) \in Requests
  BY CacheAssumption
<1> QED
  BY <1>1 DEF Rested

(* What a file is when an answer has been written over it.                 *)
LEMMA Writing ==
    ASSUME NEW f \in Files, NEW a \in Answers
    PROVE  /\ Over(f, a) \in Files
           /\ Over(f, a).answer \in {a, NoAnswer}
           /\ f.size = 0 => Over(f, a).answer = a
           /\ Torn(f.size) \in Files
           /\ Torn(f.size).answer = NoAnswer
           /\ Truncated \in Files
           /\ Truncated.answer = NoAnswer
           /\ Truncated.size = 0
<1>1. Length[a] \in Nat /\ Length[a] # 0
  BY CacheAssumption
<1> QED
  BY <1>1 DEF Over, Files, Holding, Torn, Truncated

-----------------------------------------------------------------------------
(* Every whole entry, and every answer a process holds, was given to its   *)
(* own request; only who is writing has a file open.                       *)
Answered ==
    /\ \A k \in Keys : file[k].answer \in Says[k] \cup {NoAnswer}
    /\ \A p \in Procs : proc[p].answer \in Says[proc[p].req] \cup {NoAnswer}
    /\ \A p \in Procs : proc[p].pc \in {"open", "write", "hit"} =>
           proc[p].answer # NoAnswer
    /\ \A p \in Procs : p \in linked => proc[p].pc = "write"

(* The processes that are inside complete on a key without having met      *)
(* anybody: each is alone; the entry it found is there; the one it opened  *)
(* is in the directory and empty; a torn one is being written.             *)
Unmet(k) ==
    /\ \A p, q \in Inside(k) : p = q
    /\ \A p \in Inside(k) :
          /\ proc[p].pc \in {"stat", "read", "unlink"} => k \in cached
          /\ proc[p].pc = "write" => p \in linked /\ file[k].size = 0
    /\ IsTorn(k) => \E p \in Inside(k) : proc[p].pc = "write"

CacheInv ==
    /\ CacheTypeOK
    /\ Answered
    /\ \A k \in Keys \ met : Unmet(k)
    /\ OnlyMetEntriesRaise

LEMMA CacheStarts == CacheInit => CacheInv
<1> SUFFICES ASSUME CacheInit PROVE CacheInv
  OBVIOUS
<1>1. /\ "idle" \in Positions
      /\ \A p \in Procs : proc[p] = Rested("idle")
  BY DEF CacheInit, Positions
<1>2. CacheTypeOK
  BY <1>1, Resting, Writing DEF CacheInit, CacheTypeOK, Files, Truncated
<1>3. Answered
  BY <1>1, Resting DEF CacheInit, Answered, Truncated
<1>4. \A k \in Keys : Inside(k) = {} /\ ~IsTorn(k)
  BY <1>1, Resting DEF CacheInit, Inside, Outside, IsTorn
<1>5. OnlyMetEntriesRaise
  BY <1>1, Resting DEF OnlyMetEntriesRaise
<1> QED
  BY <1>2, <1>3, <1>4, <1>5 DEF CacheInv, Unmet

-----------------------------------------------------------------------------
(* A step of one process that leaves the directory alone.                  *)
LEMMA LocalStep ==
    ASSUME CacheInv, NEW p \in Procs,
           proc[p].pc \notin Outside \cup {"write"},
           UNCHANGED <<ttl, cached, file, expired, linked, met>>,
           proc' \in [Procs -> [pc : Positions, req : Requests,
                                answer : Answers \cup {NoAnswer}]],
           \A q \in Procs \ {p} : proc'[q] = proc[q],
           \/ proc'[p].req = proc[p].req
           \/ proc'[p].pc = "failed",
           proc'[p].pc # "write",
           proc'[p].pc \in {"stat", "read", "unlink"} =>
               proc[p].req \in cached \cup met,
           proc'[p].pc = "raised" => proc[p].req \in met,
           proc'[p].answer \in Says[proc'[p].req] \cup {NoAnswer},
           proc'[p].pc \in {"open", "hit"} => proc'[p].answer # NoAnswer
    PROVE  CacheInv'
<1>1. CacheTypeOK'
  BY DEF CacheInv, CacheTypeOK
<1>2. Answered'
  BY DEF CacheInv, Answered
<1>3. ASSUME NEW k \in Keys \ met' PROVE Unmet(k)'
  <2>1. k \in Keys \ met /\ Unmet(k)
    BY <1>3 DEF CacheInv
  <2>2. Inside(k)' \subseteq Inside(k)
    BY DEF Inside, KeyOf, Key, Outside
  <2>3. \A q \in Inside(k) \ {p} : q \in Inside(k)' /\ proc'[q] = proc[q]
    BY DEF Inside, KeyOf, Key
  <2>4. p \in Inside(k)' => proc'[p].req = k /\ proc[p].req = k
    BY DEF Inside, KeyOf, Key, Outside
  <2>5. \A a, b \in Inside(k)' : a = b
    BY <2>1, <2>2 DEF Unmet
  <2>6. \A a \in Inside(k)' :
           /\ proc'[a].pc \in {"stat", "read", "unlink"} => k \in cached'
           /\ proc'[a].pc = "write" => a \in linked' /\ file'[k].size = 0
    BY <2>1, <2>2, <2>4 DEF Unmet, Inside
  <2>7. IsTorn(k)' => \E a \in Inside(k)' : proc'[a].pc = "write"
    BY <2>1, <2>3 DEF Unmet, IsTorn
  <2> QED
    BY <2>5, <2>6, <2>7 DEF Unmet
<1>4. OnlyMetEntriesRaise'
  BY DEF CacheInv, OnlyMetEntriesRaise, KeyOf, Key, Outside
<1> QED
  BY <1>1, <1>2, <1>3, <1>4 DEF CacheInv

-----------------------------------------------------------------------------
(* The processes that move by Goto, Got and Rest.                          *)
LEMMA Proceeding ==
    ASSUME CacheTypeOK, NEW p \in Procs, NEW pc \in Positions, GoOn(p, pc)
    PROVE  /\ proc' \in [Procs -> [pc : Positions, req : Requests,
                                   answer : Answers \cup {NoAnswer}]]
           /\ \A q \in Procs \ {p} : proc'[q] = proc[q]
           /\ proc'[p].pc = pc
           /\ proc'[p].req = proc[p].req
           /\ proc'[p].answer = proc[p].answer
<1>1. /\ proc' = [proc EXCEPT ![p] = Moved(proc[p], pc)]
      /\ proc \in [Procs -> [pc : Positions, req : Requests,
                             answer : Answers \cup {NoAnswer}]]
  BY DEF GoOn, CacheTypeOK
<1>2. /\ Moved(proc[p], pc) \in [pc : Positions, req : Requests,
                                 answer : Answers \cup {NoAnswer}]
      /\ Moved(proc[p], pc).pc = pc
      /\ Moved(proc[p], pc).req = proc[p].req
      /\ Moved(proc[p], pc).answer = proc[p].answer
  BY <1>1 DEF Moved
<1> QED
  BY <1>1, <1>2

LEMMA Getting ==
    ASSUME CacheTypeOK, NEW p \in Procs, NEW pc \in Positions, NEW a \in Answers,
           Got(p, pc, a)
    PROVE  /\ proc' \in [Procs -> [pc : Positions, req : Requests,
                                   answer : Answers \cup {NoAnswer}]]
           /\ \A q \in Procs \ {p} : proc'[q] = proc[q]
           /\ proc'[p].pc = pc
           /\ proc'[p].req = proc[p].req
           /\ proc'[p].answer = a
<1>1. /\ proc' = [proc EXCEPT ![p] = WithAnswer(proc[p], pc, a)]
      /\ proc \in [Procs -> [pc : Positions, req : Requests,
                             answer : Answers \cup {NoAnswer}]]
  BY DEF Got, CacheTypeOK
<1>2. /\ WithAnswer(proc[p], pc, a) \in [pc : Positions, req : Requests,
                                         answer : Answers \cup {NoAnswer}]
      /\ WithAnswer(proc[p], pc, a).pc = pc
      /\ WithAnswer(proc[p], pc, a).req = proc[p].req
      /\ WithAnswer(proc[p], pc, a).answer = a
  BY <1>1 DEF WithAnswer
<1> QED
  BY <1>1, <1>2

LEMMA GoingToRest ==
    ASSUME CacheTypeOK, NEW p \in Procs, NEW pc \in Positions, Rest(p, pc)
    PROVE  /\ proc' \in [Procs -> [pc : Positions, req : Requests,
                                   answer : Answers \cup {NoAnswer}]]
           /\ \A q \in Procs \ {p} : proc'[q] = proc[q]
           /\ proc'[p].pc = pc
           /\ proc'[p].answer = NoAnswer
<1>1. /\ proc' = [proc EXCEPT ![p] = Rested(pc)]
      /\ proc \in [Procs -> [pc : Positions, req : Requests,
                             answer : Answers \cup {NoAnswer}]]
  BY DEF Rest, CacheTypeOK
<1> QED
  BY <1>1, Resting

(* What the invariant says of a process inside complete.                   *)
LEMMA InsideUnmet ==
    ASSUME CacheInv, NEW p \in Procs, proc[p].pc \notin Outside
    PROVE  /\ KeyOf(p) = proc[p].req /\ KeyOf(p) \in Keys
           /\ KeyOf(p) \notin met => Unmet(KeyOf(p))
           /\ p \in Inside(KeyOf(p))
BY DEF CacheInv, CacheTypeOK, KeyOf, Key, Keys, Inside

LEMMA LocalActions ==
    ASSUME CacheInv, NEW p \in Procs, Exists(p) \/ Stat(p) \/ ReadEntry(p) \/ Call(p)
    PROVE  CacheInv'
<1> DEFINE k == KeyOf(p)
<1>1. /\ proc[p].pc \in {"exists", "stat", "read", "call"}
      /\ UNCHANGED <<ttl, cached, file, expired, linked, met>>
  BY DEF Exists, Stat, ReadEntry, Call
<1>2. /\ CacheTypeOK /\ Answered
      /\ proc[p].pc \notin Outside \cup {"write"}
      /\ k = proc[p].req /\ k \in Keys
      /\ k \notin met => Unmet(k)
      /\ p \in Inside(k)
  BY <1>1, InsideUnmet DEF CacheInv, Outside
<1>3. /\ proc[p].answer \in Says[k] \cup {NoAnswer}
      /\ \A a \in Says[k] : a \in Answers /\ a # NoAnswer
  BY <1>2, CacheAssumption DEF Answered, Keys
<1>4. {"call", "stat", "read", "unlink", "raised", "hit", "open", "failed"}
         \subseteq Positions
  BY DEF Positions
<1>5. CASE Exists(p)
  <2>1. \E pc \in {"call", "stat", "read"} :
           GoOn(p, pc) /\ (pc # "call" => k \in cached)
    BY <1>5 DEF Exists
  <2>2. PICK pc \in {"call", "stat", "read"} :
           GoOn(p, pc) /\ (pc # "call" => k \in cached)
    BY <2>1
  <2> QED
    BY <1>1, <1>2, <1>3, <1>4, <2>2, Proceeding, LocalStep
<1>6. CASE Stat(p)
  <2>1. k \in cached \cup met
    BY <1>2, <1>6 DEF Stat, Unmet
  <2>2. \E pc \in {"raised", "unlink", "read"} :
           GoOn(p, pc) /\ (pc = "raised" => k \notin cached)
    BY <1>6 DEF Stat
  <2>3. PICK pc \in {"raised", "unlink", "read"} :
           GoOn(p, pc) /\ (pc = "raised" => k \notin cached)
    BY <2>2
  <2> QED
    BY <1>1, <1>2, <1>3, <1>4, <2>1, <2>3, Proceeding, LocalStep
<1>7. CASE ReadEntry(p) /\ k \in cached /\ file[k].answer # NoAnswer
  <2>1. Got(p, "hit", file[k].answer) /\ file[k].answer \in Says[k]
    BY <1>2, <1>7 DEF ReadEntry, Answered
  <2> QED
    BY <1>1, <1>2, <1>3, <1>4, <2>1, Getting, LocalStep
<1>8. CASE ReadEntry(p) /\ ~(k \in cached /\ file[k].answer # NoAnswer)
  <2>1. GoOn(p, "raised")
    BY <1>8 DEF ReadEntry
  <2>2. k \in met
    BY <1>2, <1>8 DEF ReadEntry, Unmet, IsTorn
  <2> QED
    BY <1>1, <1>2, <1>3, <1>4, <2>1, <2>2, Proceeding, LocalStep
<1>9. CASE Call(p) /\ Rest(p, "failed")
  BY <1>1, <1>2, <1>4, <1>9, GoingToRest, LocalStep
<1>10. CASE Call(p) /\ \E a \in Says[proc[p].req] : Got(p, "open", a)
  <2>1. PICK a \in Says[k] : Got(p, "open", a)
    BY <1>2, <1>10
  <2> QED
    BY <1>1, <1>2, <1>3, <1>4, <2>1, Getting, LocalStep
<1> QED
  BY <1>5, <1>6, <1>7, <1>8, <1>9, <1>10 DEF Call

-----------------------------------------------------------------------------
(* A process that begins meets whoever is inside on its request.           *)
LEMMA AskStep ==
    ASSUME CacheInv, NEW p \in Procs, Ask(p)
    PROVE  CacheInv'
<1>1. PICK r \in Requests :
         /\ proc' = [proc EXCEPT ![p] = [pc |-> "exists", req |-> r,
                                         answer |-> NoAnswer]]
         /\ met' = IF Inside(Key(r)) \ {p} = {} THEN met ELSE met \cup {Key(r)}
  BY DEF Ask
<1>2. /\ UNCHANGED <<ttl, cached, file, expired, linked>>
      /\ proc[p].pc \in Outside
      /\ CacheTypeOK
  BY DEF Ask, CacheInv
<1>3. /\ \A q \in Procs \ {p} : proc'[q] = proc[q]
      /\ proc'[p] = [pc |-> "exists", req |-> r, answer |-> NoAnswer]
      /\ proc' \in [Procs -> [pc : Positions, req : Requests,
                              answer : Answers \cup {NoAnswer}]]
  BY <1>1, <1>2 DEF CacheTypeOK, Positions
<1>4. CacheTypeOK'
  BY <1>1, <1>2, <1>3 DEF CacheTypeOK, Key, Keys
<1>5. Answered'
  BY <1>2, <1>3 DEF CacheInv, Answered, Outside
<1>6. ASSUME NEW k \in Keys \ met' PROVE Unmet(k)'
  <2>1. k \in Keys \ met /\ Unmet(k) /\ (k = r => Inside(k) \ {p} = {})
    BY <1>1, <1>6 DEF CacheInv, Key
  <2>2. Inside(k)' = Inside(k) \cup (IF k = r THEN {p} ELSE {})
    BY <1>2, <1>3 DEF Inside, KeyOf, Key, Outside
  <2>3. p \notin Inside(k)
    BY <1>2 DEF Inside
  <2>4. \A a \in Inside(k)' : a # p => a \in Inside(k) /\ proc'[a] = proc[a]
    BY <1>3, <2>2 DEF Inside
  <2> QED
    BY <1>2, <1>3, <2>1, <2>2, <2>3, <2>4 DEF Unmet, IsTorn
<1>7. OnlyMetEntriesRaise'
  BY <1>1, <1>3 DEF CacheInv, OnlyMetEntriesRaise, KeyOf, Key
<1> QED
  BY <1>4, <1>5, <1>6, <1>7 DEF CacheInv

-----------------------------------------------------------------------------
(* Unlinking takes the entry from whoever has it open, but when nobody has *)
(* met nobody else has.                                                    *)
LEMMA UnlinkStep ==
    ASSUME CacheInv, NEW p \in Procs, Unlink(p)
    PROVE  CacheInv'
<1>1. /\ cached' = cached \ {KeyOf(p)}
      /\ expired' = expired \ {KeyOf(p)}
      /\ linked' = linked \ Inside(KeyOf(p))
      /\ GoOn(p, "call")
      /\ UNCHANGED <<ttl, file, met>>
      /\ proc[p].pc = "unlink"
  BY DEF Unlink
<1>2. /\ CacheTypeOK /\ Answered
      /\ proc[p].pc \notin Outside \cup {"write"}
      /\ KeyOf(p) = proc[p].req /\ KeyOf(p) \in Keys
      /\ KeyOf(p) \notin met => Unmet(KeyOf(p))
      /\ p \in Inside(KeyOf(p))
      /\ "call" \in Positions
  BY <1>1, InsideUnmet DEF CacheInv, Outside, Positions
<1>3. /\ proc' \in [Procs -> [pc : Positions, req : Requests,
                              answer : Answers \cup {NoAnswer}]]
      /\ \A q \in Procs \ {p} : proc'[q] = proc[q]
      /\ proc'[p].pc = "call"
      /\ proc'[p].req = proc[p].req
      /\ proc'[p].answer = proc[p].answer
  BY <1>1, <1>2, Proceeding
<1>4. CacheTypeOK'
  BY <1>1, <1>2, <1>3 DEF CacheTypeOK
<1>5. Answered'
  BY <1>1, <1>2, <1>3 DEF Answered
<1>6. ASSUME NEW k \in Keys \ met' PROVE Unmet(k)'
  <2>1. k \in Keys \ met /\ Unmet(k)
    BY <1>1, <1>6 DEF CacheInv
  <2>2. Inside(k)' = Inside(k)
    BY <1>2, <1>3 DEF Inside, KeyOf, Key, Outside
  <2>3. CASE k = KeyOf(p)
    <3>1. Inside(k)' = {p}
      BY <1>2, <2>1, <2>2, <2>3 DEF Unmet
    <3> QED
      BY <1>1, <1>3, <2>3, <3>1 DEF Unmet, IsTorn
  <2>4. CASE k # KeyOf(p)
    <3>1. \A a \in Inside(k) : a # p /\ a \notin Inside(KeyOf(p)) /\ a \in Procs
      BY <1>2, <2>4 DEF Inside
    <3> QED
      BY <1>1, <1>3, <2>1, <2>2, <2>4, <3>1 DEF Unmet, IsTorn
  <2> QED
    BY <2>3, <2>4
<1>7. OnlyMetEntriesRaise'
  BY <1>1, <1>3 DEF CacheInv, OnlyMetEntriesRaise, KeyOf, Key
<1> QED
  BY <1>4, <1>5, <1>6, <1>7 DEF CacheInv

(* A process that opens the entry truncates it, and has yet to write it.   *)
LEMMA OpenStep ==
    ASSUME CacheInv, NEW p \in Procs, Open(p)
    PROVE  CacheInv'
<1>1. /\ cached' = cached \cup {KeyOf(p)}
      /\ expired' = expired \ {KeyOf(p)}
      /\ file' = [file EXCEPT ![KeyOf(p)] = Truncated]
      /\ linked' = linked \cup {p}
      /\ GoOn(p, "write")
      /\ UNCHANGED <<ttl, met>>
      /\ proc[p].pc = "open"
  BY DEF Open
<1>2. /\ CacheTypeOK /\ Answered
      /\ proc[p].pc \notin Outside \cup {"write"}
      /\ KeyOf(p) = proc[p].req /\ KeyOf(p) \in Keys
      /\ KeyOf(p) \notin met => Unmet(KeyOf(p))
      /\ p \in Inside(KeyOf(p))
      /\ "write" \in Positions
  BY <1>1, InsideUnmet DEF CacheInv, Outside, Positions
<1>3. /\ proc' \in [Procs -> [pc : Positions, req : Requests,
                              answer : Answers \cup {NoAnswer}]]
      /\ \A q \in Procs \ {p} : proc'[q] = proc[q]
      /\ proc'[p].pc = "write"
      /\ proc'[p].req = proc[p].req
      /\ proc'[p].answer = proc[p].answer
  BY <1>1, <1>2, Proceeding
<1>4. /\ file' \in [Keys -> Files]
      /\ file'[KeyOf(p)].answer = NoAnswer /\ file'[KeyOf(p)].size = 0
      /\ \A k \in Keys \ {KeyOf(p)} : file'[k] = file[k]
  <2>1. Truncated \in Files /\ Truncated.answer = NoAnswer /\ Truncated.size = 0
    BY DEF Truncated, Files
  <2> QED
    BY <1>1, <1>2, <2>1 DEF CacheTypeOK
<1>5. CacheTypeOK'
  BY <1>1, <1>2, <1>3, <1>4 DEF CacheTypeOK
<1>6. Answered'
  BY <1>1, <1>2, <1>3, <1>4 DEF Answered
<1>7. ASSUME NEW k \in Keys \ met' PROVE Unmet(k)'
  <2>1. k \in Keys \ met /\ Unmet(k)
    BY <1>1, <1>7 DEF CacheInv
  <2>2. Inside(k)' = Inside(k)
    BY <1>2, <1>3 DEF Inside, KeyOf, Key, Outside
  <2>3. CASE k = KeyOf(p)
    <3>1. Inside(k)' = {p}
      BY <1>2, <2>1, <2>2, <2>3 DEF Unmet
    <3> QED
      BY <1>1, <1>3, <1>4, <2>3, <3>1 DEF Unmet, IsTorn
  <2>4. CASE k # KeyOf(p)
    <3>1. \A a \in Inside(k) : a # p /\ a \in Procs
      BY <1>2, <2>4 DEF Inside
    <3> QED
      BY <1>1, <1>3, <1>4, <2>1, <2>2, <2>4, <3>1 DEF Unmet, IsTorn
  <2> QED
    BY <2>3, <2>4
<1>8. OnlyMetEntriesRaise'
  BY <1>1, <1>3 DEF CacheInv, OnlyMetEntriesRaise, KeyOf, Key
<1> QED
  BY <1>5, <1>6, <1>7, <1>8 DEF CacheInv

(* A writer that has met nobody writes an empty file of the directory, and *)
(* leaves it whole.                                                        *)
LEMMA WriteStep ==
    ASSUME CacheInv, NEW p \in Procs, Write(p)
    PROVE  CacheInv'
<1> DEFINE k0 == KeyOf(p)
           a0 == proc[p].answer
<1>1. /\ IF p \in linked
           THEN /\ file' = [file EXCEPT ![k0] = Over(file[k0], a0)]
                /\ expired' = expired \ {k0}
           ELSE UNCHANGED <<file, expired>>
      /\ linked' = linked \ {p}
      /\ Rest(p, "answered")
      /\ UNCHANGED <<ttl, cached, met>>
      /\ proc[p].pc = "write"
  BY DEF Write
<1>2. /\ CacheTypeOK /\ Answered
      /\ proc[p].pc \notin Outside
      /\ k0 = proc[p].req /\ k0 \in Keys
      /\ k0 \notin met => Unmet(k0)
      /\ p \in Inside(k0)
      /\ "answered" \in Positions /\ "answered" \in Outside
  BY <1>1, InsideUnmet DEF CacheInv, Outside, Positions
<1>3. /\ proc' \in [Procs -> [pc : Positions, req : Requests,
                              answer : Answers \cup {NoAnswer}]]
      /\ \A q \in Procs \ {p} : proc'[q] = proc[q]
      /\ proc'[p].pc = "answered"
      /\ proc'[p].answer = NoAnswer
  BY <1>1, <1>2, GoingToRest
<1>4. a0 \in Says[k0] /\ a0 \in Answers /\ a0 # NoAnswer
  BY <1>1, <1>2, CacheAssumption DEF Answered, Keys
<1>5. /\ file[k0] \in Files
      /\ Over(file[k0], a0) \in Files
      /\ Over(file[k0], a0).answer \in {a0, NoAnswer}
      /\ file[k0].size = 0 => Over(file[k0], a0).answer = a0
  BY <1>2, <1>4, Writing DEF CacheTypeOK
<1>6. /\ file' \in [Keys -> Files]
      /\ \A k \in Keys \ {k0} : file'[k] = file[k]
      /\ file'[k0].answer \in Says[k0] \cup {NoAnswer}
      /\ p \in linked /\ file[k0].size = 0 => file'[k0].answer = a0
  BY <1>1, <1>2, <1>4, <1>5 DEF CacheTypeOK, Answered
<1>7. CacheTypeOK'
  BY <1>1, <1>2, <1>3, <1>6 DEF CacheTypeOK
<1>8. Answered'
  BY <1>1, <1>2, <1>3, <1>6 DEF Answered
<1>9. ASSUME NEW k \in Keys \ met' PROVE Unmet(k)'
  <2>1. k \in Keys \ met /\ Unmet(k)
    BY <1>1, <1>9 DEF CacheInv
  <2>2. Inside(k)' = Inside(k) \ {p}
    BY <1>2, <1>3 DEF Inside, KeyOf, Key
  <2>3. CASE k = k0
    <3>1. Inside(k)' = {} /\ file'[k].answer # NoAnswer
      BY <1>1, <1>2, <1>4, <1>6, <2>1, <2>2, <2>3 DEF Unmet
    <3> QED
      BY <3>1 DEF Unmet, IsTorn
  <2>4. CASE k # k0
    <3>1. \A a \in Inside(k) : a # p /\ a \in Procs
      BY <1>2, <2>4 DEF Inside
    <3> QED
      BY <1>1, <1>3, <1>6, <2>1, <2>2, <2>4, <3>1 DEF Unmet, IsTorn
  <2> QED
    BY <2>3, <2>4
<1>10. OnlyMetEntriesRaise'
  BY <1>1, <1>3 DEF CacheInv, OnlyMetEntriesRaise, KeyOf, Key
<1> QED
  BY <1>7, <1>8, <1>9, <1>10 DEF CacheInv

(* A process that dies writing counts as met; one that dies elsewhere has  *)
(* left the file as it was.                                                *)
LEMMA CrashStep ==
    ASSUME CacheInv, NEW p \in Procs, Die(p)
    PROVE  CacheInv'
<1> DEFINE k0 == KeyOf(p)
<1>1. /\ Rest(p, "dead")
      /\ linked' = linked \ {p}
      /\ met' = IF proc[p].pc = "write" THEN met \cup {k0} ELSE met
      /\ \/ file' = file
         \/ p \in linked /\ file' = [file EXCEPT ![k0] = Torn(file[k0].size)]
      /\ UNCHANGED <<ttl, cached, expired>>
      /\ proc[p].pc \notin Outside
  BY DEF Die
<1>2. /\ CacheTypeOK /\ Answered
      /\ k0 = proc[p].req /\ k0 \in Keys
      /\ k0 \notin met => Unmet(k0)
      /\ p \in Inside(k0)
      /\ "dead" \in Positions /\ "dead" \in Outside
  BY <1>1, InsideUnmet DEF CacheInv, Outside, Positions
<1>3. /\ proc' \in [Procs -> [pc : Positions, req : Requests,
                              answer : Answers \cup {NoAnswer}]]
      /\ \A q \in Procs \ {p} : proc'[q] = proc[q]
      /\ proc'[p].pc = "dead"
      /\ proc'[p].answer = NoAnswer
  BY <1>1, <1>2, GoingToRest
<1>4. Torn(file[k0].size) \in Files /\ Torn(file[k0].size).answer = NoAnswer
  BY <1>2 DEF CacheTypeOK, Torn, Files
<1>5. /\ file' \in [Keys -> Files]
      /\ \A k \in Keys \ {k0} : file'[k] = file[k]
      /\ file'[k0].answer \in Says[k0] \cup {NoAnswer}
      /\ p \notin linked => file' = file
  BY <1>1, <1>2, <1>4 DEF CacheTypeOK, Answered
<1>6. CacheTypeOK'
  BY <1>1, <1>2, <1>3, <1>5 DEF CacheTypeOK
<1>7. Answered'
  BY <1>1, <1>2, <1>3, <1>5 DEF Answered
<1>8. ASSUME NEW k \in Keys \ met' PROVE Unmet(k)'
  <2>1. k \in Keys \ met /\ Unmet(k) /\ (k = k0 => proc[p].pc # "write")
    BY <1>1, <1>8 DEF CacheInv
  <2>2. Inside(k)' = Inside(k) \ {p}
    BY <1>2, <1>3 DEF Inside, KeyOf, Key
  <2>3. CASE k = k0
    <3>1. Inside(k)' = {} /\ ~IsTorn(k)
      BY <1>2, <2>1, <2>2, <2>3 DEF Unmet
    <3>2. ~IsTorn(k)'
      BY <1>1, <1>2, <1>5, <2>1, <2>3, <3>1 DEF IsTorn, Answered
    <3> QED
      BY <3>1, <3>2 DEF Unmet
  <2>4. CASE k # k0
    <3>1. \A a \in Inside(k) : a # p /\ a \in Procs
      BY <1>2, <2>4 DEF Inside
    <3> QED
      BY <1>1, <1>3, <1>5, <2>1, <2>2, <2>4, <3>1 DEF Unmet, IsTorn
  <2> QED
    BY <2>3, <2>4
<1>9. OnlyMetEntriesRaise'
  BY <1>1, <1>3 DEF CacheInv, OnlyMetEntriesRaise, KeyOf, Key
<1> QED
  BY <1>6, <1>7, <1>8, <1>9 DEF CacheInv

-----------------------------------------------------------------------------
(* Time disturbs nothing; clear() under a process counts as a meeting.     *)
LEMMA ExpireStep ==
    ASSUME CacheInv, NEW k \in Keys, Expire(k)
    PROVE  CacheInv'
BY DEF CacheInv, CacheTypeOK, Answered, Unmet, IsTorn, Inside, KeyOf, OnlyMetEntriesRaise,
       Expire

LEMMA ClearStep ==
    ASSUME CacheInv, NEW k0 \in Keys, Clear(k0)
    PROVE  CacheInv'
<1>1. /\ cached' = cached \ {k0}
      /\ expired' = expired \ {k0}
      /\ linked' = linked \ Inside(k0)
      /\ met' = IF Inside(k0) = {} THEN met ELSE met \cup {k0}
      /\ UNCHANGED <<ttl, file, proc>>
  BY DEF Clear
<1>2. CacheTypeOK'
  BY <1>1 DEF CacheInv, CacheTypeOK
<1>3. Answered'
  BY <1>1 DEF CacheInv, Answered
<1>4. ASSUME NEW k \in Keys \ met' PROVE Unmet(k)'
  <2>1. k \in Keys \ met /\ Unmet(k) /\ (k = k0 => Inside(k) = {})
    BY <1>1, <1>4 DEF CacheInv
  <2>2. Inside(k)' = Inside(k)
    BY <1>1 DEF Inside, KeyOf
  <2>3. k # k0 => Inside(k) \cap Inside(k0) = {}
    BY DEF Inside
  <2> QED
    BY <1>1, <2>1, <2>2, <2>3 DEF Unmet, IsTorn
<1>5. OnlyMetEntriesRaise'
  BY <1>1 DEF CacheInv, OnlyMetEntriesRaise, KeyOf
<1> QED
  BY <1>2, <1>3, <1>4, <1>5 DEF CacheInv

LEMMA CacheSteps == CacheInv /\ [CacheNext]_(cacheVars) => CacheInv'
<1> SUFFICES ASSUME CacheInv, [CacheNext]_(cacheVars) PROVE CacheInv'
  OBVIOUS
<1>1. ASSUME NEW p \in Procs, Ask(p) \/ Complete(p) \/ Die(p) PROVE CacheInv'
  BY <1>1, AskStep, LocalActions, UnlinkStep, OpenStep, WriteStep, CrashStep
     DEF Complete
<1>2. ASSUME NEW k \in Keys, Expire(k) \/ Clear(k) PROVE CacheInv'
  BY <1>2, ExpireStep, ClearStep
<1>3. CASE UNCHANGED cacheVars
  BY <1>3 DEF cacheVars, CacheInv, CacheTypeOK, Answered, Unmet, IsTorn, Inside, KeyOf,
              OnlyMetEntriesRaise
<1> QED
  BY <1>1, <1>2, <1>3 DEF CacheNext

LEMMA CacheInvariance == CacheSpec => []CacheInv
<1> QED
  BY CacheStarts, CacheSteps, PTL DEF CacheSpec

-----------------------------------------------------------------------------
(* Every reachable state of the cache is well typed.                       *)
THEOREM CacheTypeCorrect == CacheSpec => []CacheTypeOK
<1>1. CacheInv => CacheTypeOK
  BY DEF CacheInv
<1> QED
  BY <1>1, CacheInvariance, PTL

(* complete never returns a cached answer that the model did not give to   *)
(* this very request.                                                      *)
THEOREM HitsAreSound == CacheSpec => []HitsAreAnswers
<1>1. CacheInv => HitsAreAnswers
  BY DEF CacheInv, Answered, HitsAreAnswers
<1> QED
  BY <1>1, CacheInvariance, PTL

(* complete raises over an entry only on requests on which processes       *)
(* overlapped, or one died writing.                                        *)
THEOREM RaisesNeedMeetings == CacheSpec => []OnlyMetEntriesRaise
<1>1. CacheInv => OnlyMetEntriesRaise
  BY DEF CacheInv
<1> QED
  BY <1>1, CacheInvariance, PTL
=============================================================================
