-------------------------- MODULE RunDirectoryProofs --------------------------
(***************************************************************************)
(* Runs that share one --out, for any number of invocations that overlap   *)
(* in any way and die anywhere: what was saved undisturbed stays, what the *)
(* user keeps stays, no directory mixes the files of two runs, and nobody  *)
(* who is alone is refused without a reason that is still at --out.  Then  *)
(* what becomes of the units of a stored run when an environment changes:  *)
(* Maintenance, for any corpus, any change and any deterministic world.    *)
(***************************************************************************)
EXTENDS RunDirectory, Maintenance, ListProofs

Positions == {"new", "read", "move", "mkdir", "mark", "fill", "put", "open",
              "write", "done", "raised", "dead"}

Processes == [pc : Positions, id : Procs \cup {NoOne}, file : Nat, fd : Nat]

Places ==
    {Out} \cup {Trash(id) : id \in Procs \cup {NoOne}}
          \cup {Nested(id) : id \in Procs \cup {NoOne}}

FileStates ==
    {Unwritten} \cup {Torn(p) : p \in Procs} \cup {Whole(p) : p \in Procs}

Directories ==
    [maker : Procs \cup {NoOne}, at : Places,
     marker : Procs \cup {NoMarker, EmptyMarker}, trees : SUBSET Procs,
     files : [DOMAIN Files -> FileStates]]

Shape ==
    /\ dirs \in Seq(Directories)
    /\ proc \in [Procs -> Processes]
    /\ overlapped \subseteq Procs

(* Two directories are never in one place.                                 *)
Apart ==
    \A j, k \in DOMAIN dirs : dirs[j].at = dirs[k].at => j = k

(* Nobody else is at work beside a process that has not overlapped.        *)
Alone == \A p \in Live \ overlapped : Live = {p}

Descriptors ==
    \A p \in Procs : proc[p].pc \in {"fill", "write"} =>
        proc[p].fd \in DOMAIN dirs

(* What the user keeps has no marker, so that nobody gets past Check.      *)
UserKeeps ==
    \A k \in DOMAIN dirs : dirs[k].maker = NoOne =>
        dirs[k].at = Out /\ dirs[k].marker = NoMarker /\ Live = {}

(* Only overlapping processes write into a directory somebody else made.   *)
Theirs ==
    \A k \in DOMAIN dirs : \A f \in DOMAIN Files :
        dirs[k].files[f].by \in overlapped \cup {NoOne, dirs[k].maker}

(* What p has done so far is in directory k, which is at --out.            *)
Owns(p, k) ==
    /\ dirs[k].at = Out /\ dirs[k].maker = p
    /\ proc[p].pc \in {"fill", "write"} => proc[p].fd = k
    /\ proc[p].pc \in {"put", "open", "write"} => dirs[k].marker = p
    /\ proc[p].pc \in {"open", "write"} =>
           /\ p \in dirs[k].trees
           /\ \A f \in DOMAIN Files :
                  f < proc[p].file => dirs[k].files[f] = Whole(p)

Saving == {"mark", "fill", "put", "open", "write"}

Owning ==
    \A p \in Procs \ overlapped : proc[p].pc \in Saving =>
        \E k \in DOMAIN dirs : Owns(p, k)

(* Whoever is at work will not write into directory k: it has not got past *)
(* moving it away, or k is no longer at --out and it has no file there.    *)
Safe(k) ==
    /\ dirs[k].at = Out => \A q \in Live : proc[q].pc \in {"read", "move"}
    /\ \A q \in Procs : proc[q].pc \in {"fill", "write"} => proc[q].fd # k

Saved ==
    \A p \in Procs \ overlapped : proc[p].pc = "done" =>
        \E k \in DOMAIN dirs :
            Holds(k, p) /\ dirs[k].marker = p /\ Safe(k)

IInv ==
    /\ Shape /\ Apart /\ Alone /\ Descriptors
    /\ UserKeeps /\ Theirs /\ Owning /\ Saved

(* Why a process is refused.  It has filled its marker, or died, when its  *)
(* id is in a marker, in somebody's hands, or the name of a place in the   *)
(* trash; and the trash under the id of the directory at --out is free.    *)
Filled == {"put", "open", "write", "done", "dead"}

Numbered ==
    /\ \A k \in DOMAIN dirs :
          dirs[k].marker \in Procs => proc[dirs[k].marker].pc \in Filled
    /\ \A p \in Procs : proc[p].pc = "move" =>
          proc[p].id \in Procs /\ proc[proc[p].id].pc \in Filled
    /\ \A k \in DOMAIN dirs : \A p \in Procs :
          dirs[k].at = Trash(p) => proc[p].pc \in Filled

TrashIsFree ==
    \A j, k \in DOMAIN dirs :
        dirs[k].at = Out /\ dirs[k].marker \in Procs =>
            dirs[j].at # Trash(dirs[k].marker)

(* What has become of the directories that m made, when nobody was beside. *)
Labelled(m, k) ==
    /\ proc[m].pc \in Saving \cup Filled
    /\ proc[m].pc \in Saving => dirs[k].at = Out
    /\ proc[m].pc \in {"put", "open", "write", "done"} => dirs[k].marker = m
    /\ proc[m].pc = "done" => Safe(k)

Labels ==
    \A m \in Procs \ overlapped : \A k \in DOMAIN dirs :
        dirs[k].maker = m => Labelled(m, k)

(* What a process that is alone has seen is still so.                      *)
Sees(p) ==
    /\ proc[p].pc = "read" =>
          \E k \in DOMAIN dirs : dirs[k].at = Out /\ dirs[k].marker # NoMarker
    /\ proc[p].pc = "move" =>
          \E k \in DOMAIN dirs : dirs[k].at = Out /\ dirs[k].marker = proc[p].id
    /\ proc[p].pc = "mkdir" => \A k \in DOMAIN dirs : dirs[k].at # Out

(* A directory that nobody gets past, and that is there for a reason.      *)
Abandoned(m) == m # NoOne => proc[m].pc = "dead" \/ m \in overlapped

Blocks(k) ==
    /\ dirs[k].at = Out /\ dirs[k].marker \notin Procs
    /\ Abandoned(dirs[k].maker)
    /\ \A q \in Live : proc[q].pc = "read"

Refused ==
    \A p \in Procs \ overlapped : proc[p].pc = "raised" =>
        \E k \in DOMAIN dirs : Blocks(k)

JInv ==
    /\ Numbered /\ TrashIsFree /\ Labels
    /\ \A p \in Procs \ overlapped : Sees(p)
    /\ Refused

-----------------------------------------------------------------------------
LEMMA FileNumbers == DOMAIN Files = 1..4 /\ Len(Files) = 4
BY DEF Files

LEMMA Elsewhere == \A id : Trash(id) # Out /\ Nested(id) # Out
BY DEF Trash, Nested, Out

LEMMA Authors ==
    /\ Unwritten.by = NoOne /\ Unwritten \in FileStates
    /\ \A p \in Procs : /\ Torn(p).by = p /\ Torn(p) \in FileStates
                        /\ Whole(p).by = p /\ Whole(p) \in FileStates
BY DEF Unwritten, Torn, Whole, FileStates

(* A fresh directory, and a directory with one part replaced.              *)
LEMMA Making ==
    ASSUME NEW p \in Procs \cup {NoOne}
    PROVE  /\ Made(p, Out) \in Directories
           /\ Made(p, Out).maker = p /\ Made(p, Out).at = Out
           /\ Made(p, Out).marker = NoMarker
           /\ \A f \in DOMAIN Files : Made(p, Out).files[f] = Unwritten
BY Authors DEF Made, Directories, Places

LEMMA Updating ==
    ASSUME NEW d \in Directories, NEW p \in Procs, NEW f \in Nat,
           NEW marker \in Procs \cup {EmptyMarker},
           NEW place \in Places, NEW w \in FileStates
    PROVE  /\ MovedTo(d, place) \in Directories
           /\ MovedTo(d, place) = [d EXCEPT !.at = place]
           /\ WithMarker(d, marker) \in Directories
           /\ WithMarker(d, marker) = [d EXCEPT !.marker = marker]
           /\ WithTree(d, p) \in Directories
           /\ WithTree(d, p) = [d EXCEPT !.trees = d.trees \cup {p}]
           /\ WithFile(d, f, w) \in Directories
           /\ WithFile(d, f, w).maker = d.maker
           /\ WithFile(d, f, w).at = d.at
           /\ WithFile(d, f, w).marker = d.marker
           /\ WithFile(d, f, w).trees = d.trees
           /\ \A g \in DOMAIN Files :
                  WithFile(d, f, w).files[g] = IF g = f THEN w ELSE d.files[g]
BY DEF MovedTo, WithMarker, WithTree, WithFile, Directories

(* What a process holds, with a part of it replaced.                       *)
LEMMA Holding ==
    ASSUME NEW r \in Processes, NEW pc \in Positions, NEW id \in Procs,
           NEW n \in Nat
    PROVE  /\ Fresh(pc) \in Processes /\ Fresh(pc).pc = pc
           /\ Fresh(pc).file = 1
           /\ At(r, pc) \in Processes /\ At(r, pc).pc = pc
           /\ At(r, pc).file = r.file
           /\ WithId(r, id) \in Processes /\ WithId(r, id).pc = r.pc
           /\ WithFd(r, n) \in Processes /\ WithFd(r, n).pc = r.pc
           /\ WithFd(r, n).fd = n /\ WithFd(r, n).file = r.file
           /\ AtFile(r, n) \in Processes /\ AtFile(r, n).pc = r.pc
           /\ AtFile(r, n).file = n
BY DEF Processes, Fresh, At, WithId, WithFd, AtFile

LEMMA AtOut ==
    ASSUME Apart
    PROVE  /\ Exists => Here \in DOMAIN dirs /\ dirs[Here].at = Out
           /\ \A k \in DOMAIN dirs : dirs[k].at = Out => Exists /\ Here = k
<1>1. Exists => Here \in DOMAIN dirs /\ dirs[Here].at = Out
  BY DEF Exists, Here, In
<1>2. \A k \in DOMAIN dirs : dirs[k].at = Out => Exists
  BY DEF Exists, In
<1> QED
  BY <1>1, <1>2 DEF Apart

LEMMA Makers ==
    ASSUME Shape, NEW k \in DOMAIN dirs
    PROVE  dirs[k] \in Directories /\ dirs[k].maker \in Procs \cup {NoOne}
<1>1. dirs[k] \in Directories
  BY DEF Shape
<1> QED
  BY <1>1 DEF Directories

LEMMA InitInvariant == Init => IInv
<1> SUFFICES ASSUME Init PROVE IInv
  OBVIOUS
<1>1. /\ dirs = <<>> \/ dirs = <<Made(NoOne, Out)>>
      /\ proc = [p \in Procs |-> Fresh("new")]
      /\ overlapped = {}
  BY DEF Init
<1> DEFINE first == Made(NoOne, Out)
<1>2. /\ first \in Directories /\ first.at = Out /\ first.marker = NoMarker
      /\ \A f \in DOMAIN Files : first.files[f].by = NoOne
  BY Making, Authors
<1>3. \A p \in Procs : proc[p] \in Processes /\ proc[p].pc = "new"
  <2>1. Fresh("new") \in Processes /\ Fresh("new").pc = "new"
    BY DEF Fresh, Processes, Positions
  <2> QED
    BY <1>1, <2>1
<1>4. /\ dirs \in Seq(Directories)
      /\ \A k \in DOMAIN dirs : k = 1 /\ dirs[k] = first
  <2>1. dirs = <<>> \/ dirs = <<first>>
    BY <1>1
  <2> HIDE DEF first
  <2>2. CASE dirs = <<>>
    BY <2>2
  <2>3. CASE dirs = <<first>>
    BY <1>2, <2>3
  <2> QED
    BY <2>1, <2>2, <2>3
<1>5. Live = {}
  BY <1>3 DEF Live, Ended
<1> HIDE DEF first
<1>6. Shape /\ Apart /\ Alone /\ Descriptors
  BY <1>1, <1>3, <1>4, <1>5 DEF Shape, Apart, Alone, Descriptors
<1>7. UserKeeps /\ Theirs /\ Owning /\ Saved
  BY <1>2, <1>3, <1>4, <1>5 DEF UserKeeps, Theirs, Owning, Saving, Saved
<1> QED
  BY <1>6, <1>7 DEF IInv

(* A step that touches no directory: its process ends, moves on before it  *)
(* has one, or goes from reading the marker to moving.                     *)
LEMMA Quiet ==
    ASSUME IInv, NEW p \in Live, NEW r \in Processes,
           proc' = [proc EXCEPT ![p] = r], UNCHANGED <<dirs, overlapped>>,
           \/ r.pc \in {"raised", "dead"}
           \/ proc[p].pc = "read" /\ r.pc = "move"
    PROVE  IInv'
<1>1. /\ p \in Procs /\ proc[p].pc \notin Ended
      /\ proc'[p] = r
      /\ \A q \in Procs \ {p} : proc'[q] = proc[q]
      /\ proc' \in [Procs -> Processes]
      /\ r.pc \notin {"new", "done", "fill", "write"} \cup Saving
  BY DEF IInv, Shape, Live, Saving
<1>2. Live' \subseteq Live /\ (p \in Live' => r.pc = "move")
  BY <1>1 DEF Live, Ended
<1>3. Shape' /\ Apart' /\ Descriptors' /\ Theirs'
  BY <1>1 DEF IInv, Shape, Apart, Descriptors, Theirs
<1>4. Alone' /\ UserKeeps'
  BY <1>2 DEF IInv, Alone, UserKeeps
<1>5. Owning'
  BY <1>1 DEF IInv, Owning, Owns, Saving
<1>6. ASSUME NEW q \in Procs \ overlapped, proc'[q].pc = "done",
             NEW k \in DOMAIN dirs,
             Holds(k, q) /\ dirs[k].marker = q /\ Safe(k)
      PROVE  Holds(k, q)' /\ dirs'[k].marker = q /\ Safe(k)'
  <2>1. /\ proc'[q].pc = "done" => proc[q].pc = "done"
        /\ Holds(k, q)' /\ dirs'[k].marker = q
    BY <1>1, <1>6 DEF Holds
  <2>2. dirs[k].at = Out => \A x \in Live' : proc'[x].pc \in {"read", "move"}
    BY <1>1, <1>2, <1>6 DEF Safe, Live
  <2>3. \A x \in Procs : proc'[x].pc \in {"fill", "write"} => proc'[x].fd # k
    BY <1>1, <1>6 DEF Safe
  <2> QED
    BY <2>1, <2>2, <2>3 DEF Safe
<1>7. Saved'
  BY <1>1, <1>6 DEF IInv, Saved
<1> QED
  BY <1>3, <1>4, <1>5, <1>7 DEF IInv

LEMMA Checking == ASSUME IInv, NEW p \in Procs, Check(p) PROVE IInv'
<1>1. /\ proc[p].pc = "new"
      /\ proc \in [Procs -> Processes]
      /\ overlapped \subseteq Procs
      /\ UNCHANGED dirs
      /\ overlapped' = IF Live = {} THEN overlapped
                       ELSE overlapped \cup Live \cup {p}
  BY DEF IInv, Shape, Check
<1>2. PICK pc \in {"mkdir", "read", "raised"} :
          /\ proc' = [proc EXCEPT ![p] = Fresh(pc)]
          /\ pc = "mkdir" => ~Exists
          /\ pc = "read" => Exists /\ Clearable(Here)
  BY DEF Check, Goto
<1>3. /\ Fresh(pc) \in Processes /\ Fresh(pc).pc = pc
      /\ proc' \in [Procs -> Processes]
      /\ proc'[p].pc = pc
      /\ \A q \in Procs \ {p} : proc'[q] = proc[q]
  BY <1>1, <1>2 DEF Fresh, Processes, Positions
<1>4. Live \subseteq Procs /\ Live' \subseteq Live \cup {p} /\ p \notin Live
  BY <1>1, <1>3 DEF Live, Ended
<1>5. Shape' /\ Apart' /\ Descriptors'
  BY <1>1, <1>3, <1>4 DEF IInv, Shape, Apart, Descriptors
<1>6. Alone'
  BY <1>1, <1>4 DEF Alone
<1>7. UserKeeps'
  <2>1. ASSUME NEW k \in DOMAIN dirs, dirs[k].maker = NoOne
        PROVE  dirs[k].at = Out /\ dirs[k].marker = NoMarker /\ Live' = {}
    <3>1. dirs[k].at = Out /\ dirs[k].marker = NoMarker /\ Live = {}
      BY <2>1 DEF IInv, UserKeeps
    <3>2. Exists /\ Here = k
      BY <3>1, AtOut DEF IInv
    <3>3. pc = "raised"
      BY <1>2, <3>1, <3>2 DEF Clearable
    <3> QED
      BY <1>3, <1>4, <3>1, <3>3 DEF Live, Ended
  <2> QED
    BY <1>1, <2>1 DEF UserKeeps
<1>8. Theirs' /\ Owning'
  BY <1>1, <1>3 DEF IInv, Theirs, Owning, Owns, Saving
<1>9. ASSUME NEW q \in Procs \ overlapped', proc'[q].pc = "done"
      PROVE  \E k \in DOMAIN dirs :
                 Holds(k, q)' /\ dirs'[k].marker = q /\ Safe(k)'
  <2>1. PICK k \in DOMAIN dirs :
            Holds(k, q) /\ dirs[k].marker = q /\ Safe(k)
    BY <1>1, <1>3, <1>9 DEF IInv, Saved
  <2>2. CASE dirs[k].at = Out
    <3>1. pc \in {"read", "raised"}
      BY <1>2, <2>2, AtOut DEF IInv
    <3> QED
      BY <1>1, <1>3, <1>4, <2>1, <3>1 DEF Holds, Safe, Live, Ended
  <2>3. CASE dirs[k].at # Out
    BY <1>1, <1>3, <2>1, <2>3 DEF Holds, Safe
  <2> QED
    BY <2>2, <2>3
<1>10. Saved'
  BY <1>1, <1>9 DEF Saved
<1> QED
  BY <1>5, <1>6, <1>7, <1>8, <1>10 DEF IInv

-----------------------------------------------------------------------------
(* A step of p that makes or changes directory c, where p works, and       *)
(* leaves the others alone.                                                *)
Touched(c, d) ==
    /\ dirs' \in Seq(Directories)
    /\ DOMAIN dirs' = DOMAIN dirs \cup {c}
    /\ dirs'[c] = d
    /\ \A k \in DOMAIN dirs \ {c} : dirs'[k] = dirs[k]

LEMMA Changing ==
    ASSUME Shape, NEW c \in DOMAIN dirs, NEW d \in Directories,
           dirs' = [dirs EXCEPT ![c] = d]
    PROVE  Touched(c, d)
<1>1. dirs \in Seq(Directories)
  BY DEF Shape
<1>2. dirs' \in Seq(Directories) /\ dirs'[c] = d
  BY <1>1, ExceptSeq
<1>3. DOMAIN dirs' = DOMAIN dirs
  BY <1>1
<1>4. \A k \in DOMAIN dirs \ {c} : dirs'[k] = dirs[k]
  BY <1>1
<1> QED
  BY <1>2, <1>3, <1>4 DEF Touched

LEMMA Adding ==
    ASSUME Shape, NEW d \in Directories, dirs' = Append(dirs, d)
    PROVE  Touched(Len(dirs) + 1, d) /\ Len(dirs) + 1 \notin DOMAIN dirs
<1>1. dirs \in Seq(Directories)
  BY DEF Shape
<1>2. DOMAIN dirs = 1..Len(dirs) /\ Len(dirs) \in Nat
  BY <1>1
<1>3. Append(dirs, d) \in Seq(Directories)
  BY <1>1
<1>4. /\ Len(Append(dirs, d)) = Len(dirs) + 1
      /\ Append(dirs, d)[Len(dirs) + 1] = d
      /\ \A k \in 1..Len(dirs) : Append(dirs, d)[k] = dirs[k]
  BY <1>1
<1>5. DOMAIN Append(dirs, d) = 1..(Len(dirs) + 1)
  BY <1>3, <1>4
<1>6. 1..(Len(dirs) + 1) = (1..Len(dirs)) \cup {Len(dirs) + 1}
  BY <1>2
<1> QED
  BY <1>2, <1>3, <1>4, <1>5, <1>6 DEF Touched

LEMMA Touching ==
    ASSUME IInv, NEW p \in Live, NEW r \in Processes,
           proc' = [proc EXCEPT ![p] = r], UNCHANGED overlapped,
           proc[p].pc \notin {"read", "move"},
           r.pc \in Saving \cup {"done"},
           NEW c, NEW d, Touched(c, d),
           \/ /\ c \in DOMAIN dirs
              /\ d.maker = dirs[c].maker /\ d.at = dirs[c].at
              /\ \/ dirs[c].at = Out
                 \/ proc[p].pc \in {"fill", "write"} /\ proc[p].fd = c
           \/ /\ c \notin DOMAIN dirs /\ ~Exists
              /\ d.maker = p /\ d.at = Out,
           \A f \in DOMAIN Files :
               d.files[f].by \in overlapped \cup {NoOne, d.maker},
           r.pc \in {"fill", "write"} => r.fd = c,
           p \notin overlapped /\ r.pc \in Saving => Owns(p, c)',
           p \notin overlapped /\ r.pc = "done" =>
               Holds(c, p)' /\ d.marker = p
    PROVE  IInv'
<1>1. /\ p \in Procs /\ proc[p].pc \notin Ended
      /\ proc'[p] = r
      /\ \A q \in Procs \ {p} : proc'[q] = proc[q]
      /\ proc' \in [Procs -> Processes]
  BY DEF IInv, Shape, Live
<1>2. Live' \subseteq Live /\ \A q \in Live \ {p} : q \in Live'
  BY <1>1 DEF Live
<1>3. Shape' /\ Descriptors'
  BY <1>1 DEF IInv, Shape, Descriptors, Touched
<1>4. Apart'
  BY AtOut DEF IInv, Apart, Touched
<1>5. Alone'
  BY <1>2 DEF IInv, Alone
<1>6. UserKeeps'
  <2>1. \A k \in DOMAIN dirs : dirs[k].maker # NoOne
    BY DEF IInv, UserKeeps
  <2>2. p # NoOne
    BY <1>1, DirectoryAssumption
  <2> QED
    BY <2>1, <2>2 DEF UserKeeps, Touched
<1>7. Theirs'
  BY DEF IInv, Theirs, Touched
<1>8. ASSUME NEW q \in Procs \ overlapped, proc'[q].pc \in Saving
      PROVE  \E k \in DOMAIN dirs' : Owns(q, k)'
  <2>1. q = p
    BY <1>1, <1>8 DEF IInv, Alone, Live, Ended, Saving
  <2> QED
    BY <1>1, <1>8, <2>1 DEF Touched
<1>9. Owning'
  BY <1>8 DEF Owning
<1>10. ASSUME NEW q \in Procs \ overlapped, proc'[q].pc = "done"
       PROVE  \E k \in DOMAIN dirs' :
                  Holds(k, q)' /\ dirs'[k].marker = q /\ Safe(k)'
  <2>1. CASE q = p
    <3>1. Live = {p}
      BY <1>10, <2>1 DEF IInv, Alone
    <3>2. Live' = {}
      BY <1>1, <1>2, <1>10, <2>1, <3>1 DEF Live, Ended
    <3>3. \A x \in Procs : proc'[x].pc \notin {"fill", "write"}
      BY <3>2 DEF Live, Ended
    <3> QED
      BY <1>1, <1>10, <2>1, <3>2, <3>3 DEF Touched, Safe
  <2>2. CASE q # p
    <3>1. PICK k \in DOMAIN dirs :
              Holds(k, q) /\ dirs[k].marker = q /\ Safe(k)
      BY <1>1, <1>10, <2>2 DEF IInv, Saved
    <3>2. dirs[k].at # Out
      BY <3>1 DEF Safe
    <3>3. k # c
      BY <3>1, <3>2, AtOut, <1>1 DEF IInv, Safe
    <3>4. k \in DOMAIN dirs' /\ dirs'[k] = dirs[k]
      BY <3>3 DEF Touched
    <3>5. Safe(k)'
      BY <1>1, <3>1, <3>2, <3>3, <3>4 DEF Safe
    <3> QED
      BY <3>1, <3>4, <3>5 DEF Holds
  <2> QED
    BY <2>1, <2>2
<1>11. Saved'
  BY <1>10 DEF Saved
<1> QED
  BY <1>3, <1>4, <1>5, <1>6, <1>7, <1>9, <1>11 DEF IInv

(* The directory at --out, or one that is made there.                      *)
LEMMA Opening ==
    ASSUME Shape, Apart, NEW p \in Procs
    PROVE  /\ Opened(p) \in Seq(Directories)
           /\ OpenedAt \in Nat /\ OpenedAt \in DOMAIN Opened(p)
           /\ Opened(p)[OpenedAt] \in Directories
           /\ Opened(p)[OpenedAt].at = Out
           /\ \/ /\ OpenedAt \in DOMAIN dirs /\ Exists
                 /\ Opened(p)[OpenedAt] = dirs[OpenedAt]
              \/ /\ OpenedAt \notin DOMAIN dirs /\ ~Exists
                 /\ Opened(p)[OpenedAt] = Made(p, Out)
           /\ \A d \in Directories :
                  dirs' = [Opened(p) EXCEPT ![OpenedAt] = d] =>
                      Touched(OpenedAt, d)
<1>1. dirs \in Seq(Directories)
  BY DEF Shape
<1>2. CASE Exists
  <2>1. Opened(p) = dirs /\ OpenedAt = Here
    BY <1>2 DEF Opened, OpenedAt
  <2>2. Here \in DOMAIN dirs /\ dirs[Here].at = Out
    BY <1>2, AtOut
  <2>3. Here \in Nat /\ dirs[Here] \in Directories
    BY <1>1, <2>2
  <2>4. \A d \in Directories :
            dirs' = [dirs EXCEPT ![Here] = d] => Touched(Here, d)
    BY <2>2, Changing
  <2> QED
    BY <1>1, <1>2, <2>1, <2>2, <2>3, <2>4
<1>3. CASE ~Exists
  <2> DEFINE new == Made(p, Out)
             c == Len(dirs) + 1
             longer == Append(dirs, new)
  <2>1. Opened(p) = longer /\ OpenedAt = c
    BY <1>3 DEF Opened, OpenedAt
  <2>2. new \in Directories /\ new.at = Out
    BY Making
  <2> HIDE DEF new
  <2>3. /\ longer \in Seq(Directories) /\ Len(longer) = c /\ c \in Nat
        /\ c \in 1..Len(longer) /\ longer[c] = new
        /\ \A k \in 1..Len(dirs) : longer[k] = dirs[k]
    BY <1>1, <2>2
  <2>4. DOMAIN dirs = 1..Len(dirs) /\ Len(dirs) \in Nat
    BY <1>1
  <2>5. /\ c \notin DOMAIN dirs
        /\ DOMAIN longer = DOMAIN dirs \cup {c}
    BY <2>3, <2>4
  <2> HIDE DEF longer, c
  <2>6. ASSUME NEW d \in Directories, dirs' = [longer EXCEPT ![c] = d]
        PROVE  Touched(c, d)
    <3>1. dirs' \in Seq(Directories) /\ dirs'[c] = d
      BY <2>3, <2>6, ExceptSeq
    <3>2. DOMAIN dirs' = DOMAIN longer
      BY <2>3, <2>6
    <3>3. \A k \in DOMAIN longer \ {c} : dirs'[k] = longer[k]
      BY <2>3, <2>6
    <3> QED
      BY <2>3, <2>4, <2>5, <3>1, <3>2, <3>3 DEF Touched
  <2> QED
    BY <1>3, <2>1, <2>2, <2>3, <2>5, <2>6 DEF new
<1> QED
  BY <1>2, <1>3

(* What was at --out goes to a place where there is nothing.               *)
LEMMA MovingAway ==
    ASSUME IInv, NEW p \in Procs, proc[p].pc = "move", Exists,
           Goto(p, "mkdir"), UNCHANGED overlapped,
           NEW place \in Places, place # Out, In(place) = {},
           dirs' = [dirs EXCEPT ![Here] = MovedTo(dirs[Here], place)]
    PROVE  IInv'
<1> DEFINE c == Here
           d == MovedTo(dirs[c], place)
<1>1. c \in DOMAIN dirs /\ dirs[c].at = Out /\ dirs[c] \in Directories
  BY AtOut DEF IInv, Shape
<1>2. d \in Directories /\ d = [dirs[c] EXCEPT !.at = place]
  BY <1>1 DEF MovedTo, Directories
<1>3. /\ d.at = place /\ d.maker = dirs[c].maker /\ d.marker = dirs[c].marker
      /\ d.trees = dirs[c].trees /\ d.files = dirs[c].files
  BY <1>1, <1>2 DEF Directories
<1> HIDE DEF d, c
<1>4. Touched(c, d)
  BY <1>1, <1>2, Changing DEF IInv, c, d
<1>5. DOMAIN dirs' = DOMAIN dirs
  BY <1>1, <1>4 DEF Touched
<1>6. /\ proc' \in [Procs -> Processes] /\ proc'[p].pc = "mkdir"
      /\ \A q \in Procs \ {p} : proc'[q] = proc[q]
  BY DEF IInv, Shape, Goto, Fresh, Processes, Positions
<1>7. p \in Live /\ Live' = Live
  BY <1>6 DEF Live, Ended
<1>8. Shape' /\ Alone' /\ Descriptors'
  BY <1>4, <1>5, <1>6, <1>7 DEF IInv, Shape, Alone, Descriptors, Touched
<1>9. Apart'
  BY <1>1, <1>3, <1>4, <1>5 DEF IInv, Apart, Touched, In
<1>10. UserKeeps'
  BY <1>3, <1>4, <1>5, <1>7 DEF IInv, UserKeeps, Touched
<1>11. Theirs'
  BY <1>1, <1>3, <1>4, <1>5 DEF IInv, Theirs, Touched
<1>12. Owning'
  BY <1>6, <1>7 DEF IInv, Owning, Alone, Saving, Live, Ended
<1>13. ASSUME NEW q \in Procs \ overlapped, proc'[q].pc = "done"
       PROVE  \E k \in DOMAIN dirs' :
                  Holds(k, q)' /\ dirs'[k].marker = q /\ Safe(k)'
  <2>1. PICK k \in DOMAIN dirs :
            Holds(k, q) /\ dirs[k].marker = q /\ Safe(k)
    BY <1>6, <1>13 DEF IInv, Saved
  <2>2. Holds(k, q)' /\ dirs'[k].marker = q
    BY <1>3, <1>4, <2>1 DEF Holds, Touched
  <2>3. dirs'[k].at # Out
    BY <1>1, <1>3, <1>4, <2>1 DEF IInv, Apart, Touched
  <2>4. Safe(k)'
    BY <1>6, <2>1, <2>3 DEF Safe
  <2> QED
    BY <1>5, <2>1, <2>2, <2>4
<1>14. Saved'
  BY <1>13 DEF Saved
<1> QED
  BY <1>8, <1>9, <1>10, <1>11, <1>12, <1>14 DEF IInv

-----------------------------------------------------------------------------
LEMMA Trashes ==
    /\ \A i, j : Trash(i) = Trash(j) => i = j
    /\ \A i, j : Trash(i) # Nested(j)
    /\ \A i : Trash(i) # Out
<1>1. \A i : /\ Trash(i)[1] = "trash" /\ Trash(i)[2] = i /\ Len(Trash(i)) = 2
             /\ Len(Nested(i)) = 3
  BY DEF Trash, Nested
<1> QED
  BY <1>1, Elsewhere

LEMMA Labelling ==
    ASSUME IInv, JInv, NEW k \in DOMAIN dirs, NEW p \in Procs,
           Live \subseteq {p}, proc[p].pc \notin Saving \cup Filled,
           dirs[k].marker \notin Procs
    PROVE  Abandoned(dirs[k].maker)
<1> SUFFICES ASSUME NEW m, m = dirs[k].maker, m # NoOne, m \notin overlapped
             PROVE  proc[m].pc = "dead"
  BY DEF Abandoned
<1>1. m \in Procs
  BY Makers DEF IInv
<1>2. Labelled(m, k)
  BY <1>1 DEF JInv, Labels
<1>3. m # p /\ m \notin Live
  BY <1>2 DEF Labelled
<1>4. proc[m].pc \in {"done", "dead"}
  BY <1>1, <1>2, <1>3 DEF Labelled, Live, Ended, Saving, Filled
<1> QED
  BY <1>1, <1>2, <1>4 DEF Labelled

LEMMA RefusedAtFirst == Init => JInv
<1> SUFFICES ASSUME Init PROVE JInv
  OBVIOUS
<1> DEFINE first == Made(NoOne, Out)
<1>1. /\ dirs = <<>> \/ dirs = <<first>>
      /\ \A p \in Procs : proc[p].pc = "new"
  <2>1. Fresh("new").pc = "new"
    BY DEF Fresh
  <2> QED
    BY <2>1 DEF Init
<1>2. first.at = Out /\ first.marker = NoMarker /\ first.maker = NoOne
  BY Making
<1> HIDE DEF first
<1>3. \A k \in DOMAIN dirs : dirs[k] = first
  <2>1. CASE dirs = <<>>
    BY <2>1
  <2>2. CASE dirs = <<first>>
    BY <2>2
  <2> QED
    BY <1>1, <2>1, <2>2
<1>4. NoMarker \notin Procs /\ NoOne \notin Procs
  BY DirectoryAssumption
<1>5. Numbered /\ TrashIsFree /\ Labels
  BY <1>1, <1>2, <1>3, <1>4, Trashes DEF Numbered, TrashIsFree, Labels
<1> QED
  BY <1>1, <1>5 DEF JInv, Sees, Refused

(* A step of p that changes no directory.                                  *)
LEMMA QuietRefusals ==
    ASSUME IInv, JInv, NEW p \in Live, NEW r \in Processes,
           proc' = [proc EXCEPT ![p] = r], UNCHANGED <<dirs, overlapped>>,
           \/ r.pc = "dead"
           \/ r.pc = "raised" /\ proc[p].pc \notin Filled
           \/ /\ proc[p].pc = "read" /\ r.pc = "move" /\ r.id \in Procs
              /\ \E k \in DOMAIN dirs : dirs[k].at = Out /\ dirs[k].marker = r.id,
           r.pc = "raised" /\ p \notin overlapped =>
               /\ proc[p].pc = "read"
               /\ \E k \in DOMAIN dirs : dirs[k].at = Out /\ dirs[k].marker \notin Procs
    PROVE  JInv'
<1>1. /\ p \in Procs /\ proc[p].pc \notin Ended /\ proc[p].pc \in Positions
      /\ proc'[p] = r
      /\ \A q \in Procs \ {p} : proc'[q] = proc[q]
      /\ r.pc \in {"dead", "raised", "move"}
  BY DEF IInv, Shape, Live, Processes
<1>2. Live' \subseteq Live /\ (p \in Live' => r.pc = "move")
  BY <1>1 DEF Live, Ended
<1>3. \A q \in Procs : proc[q].pc \in Filled => proc'[q].pc \in Filled
  BY <1>1 DEF Filled
<1>4. Numbered'
  <2>1. \A k \in DOMAIN dirs :
          dirs[k].marker \in Procs => proc'[dirs[k].marker].pc \in Filled
    BY <1>3 DEF JInv, Numbered
  <2>2. ASSUME NEW q \in Procs, proc'[q].pc = "move"
        PROVE  proc'[q].id \in Procs /\ proc'[proc'[q].id].pc \in Filled
    <3>1. CASE q = p
      BY <1>1, <2>1, <2>2, <3>1
    <3>2. CASE q # p
      BY <1>1, <1>3, <2>2, <3>2 DEF JInv, Numbered
    <3> QED
      BY <3>1, <3>2
  <2>3. \A k \in DOMAIN dirs : \A q \in Procs :
          dirs[k].at = Trash(q) => proc'[q].pc \in Filled
    BY <1>3 DEF JInv, Numbered
  <2> QED
    BY <2>1, <2>2, <2>3 DEF Numbered
<1>5. TrashIsFree'
  BY DEF JInv, TrashIsFree
<1>6. ASSUME NEW k \in DOMAIN dirs, Safe(k) PROVE Safe(k)'
  <2>1. dirs[k].at = Out => \A x \in Live' : proc'[x].pc \in {"read", "move"}
    BY <1>1, <1>2, <1>6 DEF Safe
  <2>2. \A x \in Procs : proc'[x].pc \in {"fill", "write"} => proc'[x].fd # k
    BY <1>1, <1>6 DEF Safe
  <2> QED
    BY <2>1, <2>2 DEF Safe
<1>7. ASSUME NEW m \in Procs \ overlapped, NEW k \in DOMAIN dirs,
             dirs[k].maker = m
      PROVE  Labelled(m, k)'
  <2>1. Labelled(m, k)
    BY <1>7 DEF JInv, Labels
  <2>2. CASE m = p
    <3>1. r.pc = "dead"
      BY <1>1, <1>7, <2>1, <2>2 DEF Labelled, Saving, Filled
    <3> QED
      BY <1>1, <2>2, <3>1 DEF Labelled, Saving, Filled
  <2>3. CASE m # p
    BY <1>1, <1>6, <2>1, <2>3 DEF Labelled
  <2> QED
    BY <2>2, <2>3
<1>8. Labels'
  BY <1>7 DEF Labels
<1>9. \A q \in Procs \ overlapped : Sees(q)'
  BY <1>1 DEF JInv, Sees
<1>10. ASSUME NEW q \in Procs \ overlapped, proc'[q].pc = "raised"
       PROVE  \E k \in DOMAIN dirs : Blocks(k)'
  <2>1. CASE q = p
    <3>1. Live = {p} /\ Live' = {}
      BY <1>1, <1>2, <1>10, <2>1 DEF IInv, Alone
    <3>2. PICK k \in DOMAIN dirs : dirs[k].at = Out /\ dirs[k].marker \notin Procs
      BY <1>1, <1>10, <2>1
    <3>3. proc[p].pc \notin Saving \cup Filled
      BY <1>1, <1>10, <2>1 DEF Saving, Filled
    <3>4. Abandoned(dirs[k].maker)
      BY <1>1, <3>1, <3>2, <3>3, Labelling
    <3>5. Abandoned(dirs[k].maker)'
      BY <1>1, <3>2, <3>4, <2>1, <1>10 DEF Abandoned, Ended, IInv, Shape, Directories
    <3> QED
      BY <3>1, <3>2, <3>5 DEF Blocks
  <2>2. CASE q # p
    <3>1. PICK k \in DOMAIN dirs : Blocks(k)
      BY <1>1, <1>10, <2>2 DEF JInv, Refused
    <3>2. r.pc # "move"
      BY <3>1, <1>1, AtOut DEF IInv, Apart, Blocks
    <3>3. Live' \subseteq Live \ {p}
      BY <1>1, <1>2, <3>2
    <3>4. Abandoned(dirs[k].maker)'
      BY <1>1, <3>1 DEF Blocks, Abandoned, Ended, IInv, Shape, Directories
    <3> QED
      BY <1>1, <3>1, <3>3, <3>4 DEF Blocks, Live
  <2> QED
    BY <2>1, <2>2
<1>11. Refused'
  BY <1>10 DEF Refused
<1> QED
  BY <1>4, <1>5, <1>8, <1>9, <1>11 DEF JInv

LEMMA CheckingRefusals == ASSUME IInv, JInv, NEW p \in Procs, Check(p) PROVE JInv'
<1>1. /\ proc[p].pc = "new"
      /\ proc \in [Procs -> Processes]
      /\ overlapped \subseteq Procs
      /\ UNCHANGED dirs
      /\ overlapped' = IF Live = {} THEN overlapped
                       ELSE overlapped \cup Live \cup {p}
  BY DEF IInv, Shape, Check
<1>2. PICK pc \in {"mkdir", "read", "raised"} :
          /\ proc' = [proc EXCEPT ![p] = Fresh(pc)]
          /\ pc = "mkdir" => ~Exists
          /\ pc = "read" => Exists /\ dirs[Here].marker # NoMarker
          /\ pc = "raised" => Exists /\ dirs[Here].marker = NoMarker
  BY DEF Check, Goto, Clearable
<1>3. /\ proc'[p].pc = pc
      /\ \A q \in Procs \ {p} : proc'[q] = proc[q]
  <2>1. Fresh(pc).pc = pc
    BY DEF Fresh
  <2> QED
    BY <1>1, <1>2, <2>1
<1>4. /\ overlapped \subseteq overlapped'
      /\ p \notin overlapped' => Live = {} /\ overlapped' = overlapped
      /\ \A q \in Live : q \in overlapped'
      /\ Live' \subseteq Live \cup {p} /\ p \notin Live
  BY <1>1, <1>3 DEF Live, Ended
<1>5. Numbered'
  BY <1>1, <1>3 DEF JInv, Numbered, Filled
<1>6. TrashIsFree'
  BY <1>1 DEF JInv, TrashIsFree
<1>7. ASSUME NEW k \in DOMAIN dirs, Safe(k) PROVE Safe(k)'
  <2>1. CASE dirs[k].at = Out
    <3>1. pc \in {"read", "raised"}
      BY <1>2, <2>1, AtOut DEF IInv
    <3> QED
      BY <1>1, <1>3, <1>4, <1>7, <3>1 DEF Safe, Live, Ended
  <2>2. CASE dirs[k].at # Out
    BY <1>1, <1>3, <1>7, <2>2 DEF Safe
  <2> QED
    BY <2>1, <2>2
<1>8. ASSUME NEW m \in Procs \ overlapped', NEW k \in DOMAIN dirs,
             dirs[k].maker = m
      PROVE  Labelled(m, k)'
  <2>1. Labelled(m, k)
    BY <1>4, <1>8 DEF JInv, Labels
  <2>2. m # p
    BY <1>1, <2>1 DEF Labelled, Saving, Filled
  <2> QED
    BY <1>1, <1>3, <1>7, <2>1, <2>2 DEF Labelled
<1>9. Labels'
  BY <1>1, <1>8 DEF Labels
<1>10. ASSUME NEW q \in Procs \ overlapped' PROVE Sees(q)'
  <2>1. CASE q = p
    BY <1>1, <1>2, <1>3, <2>1, AtOut DEF IInv, Sees
  <2>2. CASE q # p
    <3>1. q \notin Live
      BY <1>4, <1>10
    <3> QED
      BY <1>3, <2>2, <3>1 DEF Sees, Live, Ended
  <2> QED
    BY <2>1, <2>2
<1>11. ASSUME NEW k \in DOMAIN dirs, Abandoned(dirs[k].maker)
       PROVE  Abandoned(dirs[k].maker)'
  BY <1>1, <1>3, <1>4, <1>11, Makers DEF Abandoned, IInv
<1>12. ASSUME NEW q \in Procs \ overlapped', proc'[q].pc = "raised"
       PROVE  \E k \in DOMAIN dirs : Blocks(k)'
  <2>1. CASE q = p
    <3>1. Live = {} /\ Live' = {}
      BY <1>3, <1>4, <1>12, <2>1 DEF Live, Ended
    <3>2. /\ Here \in DOMAIN dirs /\ dirs[Here].at = Out
          /\ dirs[Here].marker \notin Procs
      BY <1>2, <1>3, <1>12, <2>1, AtOut, DirectoryAssumption DEF IInv
    <3>3. PICK k \in DOMAIN dirs : dirs[k].at = Out /\ dirs[k].marker \notin Procs
      BY <3>2
    <3>4. Abandoned(dirs[k].maker)
      BY <1>1, <3>1, <3>3, Labelling DEF Saving, Filled
    <3> QED
      BY <1>1, <1>11, <3>1, <3>3, <3>4 DEF Blocks
  <2>2. CASE q # p
    <3>1. PICK k \in DOMAIN dirs : Blocks(k)
      BY <1>3, <1>4, <1>12, <2>2 DEF JInv, Refused
    <3>2. pc \in {"read", "raised"}
      BY <1>2, <3>1, AtOut DEF IInv, Blocks
    <3>3. \A x \in Live' : proc'[x].pc = "read"
      BY <1>3, <1>4, <3>1, <3>2 DEF Blocks, Live, Ended
    <3> QED
      BY <1>1, <1>11, <3>1, <3>3 DEF Blocks
  <2> QED
    BY <2>1, <2>2
<1>13. Refused'
  BY <1>1, <1>12 DEF Refused
<1> QED
  BY <1>5, <1>6, <1>9, <1>10, <1>13 DEF JInv

(* Beside a process past reading the marker nobody has been refused, and   *)
(* whoever was alone is no longer at work.                                 *)
LEMMA Bystanders ==
    ASSUME IInv, JInv, NEW p \in Live, proc[p].pc # "read"
    PROVE  /\ \A q \in Procs \ overlapped : proc[q].pc # "raised"
           /\ \A q \in Procs \ overlapped : q # p => q \notin Live
BY DEF IInv, Alone, JInv, Refused, Blocks

(* A step of p that makes or changes directory c, as in Touching.          *)
LEMMA TouchingRefusals ==
    ASSUME IInv, JInv, NEW p \in Live, NEW r \in Processes,
           proc' = [proc EXCEPT ![p] = r], UNCHANGED overlapped,
           proc[p].pc \notin {"read", "move"},
           r.pc \in Saving \cup {"done"},
           proc[p].pc \in Filled => r.pc \in Filled,
           NEW c, NEW d, Touched(c, d),
           \/ /\ c \in DOMAIN dirs
              /\ d.maker = dirs[c].maker /\ d.at = dirs[c].at
              /\ \/ dirs[c].at = Out
                 \/ proc[p].pc \in {"fill", "write"} /\ proc[p].fd = c
           \/ /\ c \notin DOMAIN dirs /\ ~Exists
              /\ d.maker = p /\ d.at = Out,
           \/ c \in DOMAIN dirs /\ d.marker = dirs[c].marker
           \/ d.marker \in {NoMarker, EmptyMarker}
           \/ d.marker = p /\ proc[p].pc = "fill" /\ r.pc = "put",
           r.pc \in {"fill", "write"} => r.fd = c,
           p \notin overlapped /\ r.pc \in Saving => Owns(p, c)',
           p \notin overlapped /\ r.pc = "done" => d.marker = p
    PROVE  JInv'
<1>1. /\ p \in Procs /\ proc[p].pc \notin Ended /\ proc[p].pc \in Positions
      /\ proc'[p] = r
      /\ \A q \in Procs \ {p} : proc'[q] = proc[q]
  BY DEF IInv, Shape, Live, Processes
<1>2. /\ DOMAIN dirs' = DOMAIN dirs \cup {c} /\ dirs'[c] = d
      /\ \A k \in DOMAIN dirs \ {c} : dirs'[k] = dirs[k]
  BY DEF Touched
<1>3. \A q \in Procs : proc[q].pc \in Filled => proc'[q].pc \in Filled
  BY <1>1
<1>4. NoMarker \notin Procs /\ EmptyMarker \notin Procs
  BY DirectoryAssumption
<1>5. \A k \in DOMAIN dirs' :
        /\ \A q : dirs'[k].at = Trash(q) => k \in DOMAIN dirs /\ dirs[k].at = Trash(q)
        /\ dirs'[k].at = Out => k = c \/ (k \in DOMAIN dirs /\ dirs[k].at = Out)
        /\ \/ k \in DOMAIN dirs /\ dirs'[k].marker = dirs[k].marker
                                /\ dirs'[k].at = dirs[k].at
           \/ dirs'[k].marker \notin Procs
           \/ dirs'[k].marker = p /\ proc[p].pc = "fill" /\ r.pc = "put"
  BY <1>2, <1>4, Trashes
<1>6. Numbered'
  <2>1. \A k \in DOMAIN dirs' :
          dirs'[k].marker \in Procs => proc'[dirs'[k].marker].pc \in Filled
    <3>1. "put" \in Filled
      BY DEF Filled
    <3> QED
      BY <1>1, <1>3, <1>5, <3>1 DEF JInv, Numbered
  <2>2. \A q \in Procs : proc'[q].pc = "move" =>
          proc'[q].id \in Procs /\ proc'[proc'[q].id].pc \in Filled
    BY <1>1, <1>3 DEF JInv, Numbered, Saving
  <2>3. \A k \in DOMAIN dirs' : \A q \in Procs :
          dirs'[k].at = Trash(q) => proc'[q].pc \in Filled
    BY <1>3, <1>5 DEF JInv, Numbered
  <2> QED
    BY <2>1, <2>2, <2>3 DEF Numbered
<1>7. TrashIsFree'
  <2>1. ASSUME NEW j \in DOMAIN dirs', NEW k \in DOMAIN dirs',
               dirs'[k].at = Out, dirs'[k].marker \in Procs,
               dirs'[j].at = Trash(dirs'[k].marker)
        PROVE  FALSE
    <3>1. j \in DOMAIN dirs /\ dirs[j].at = Trash(dirs'[k].marker)
      BY <1>5, <2>1
    <3>2. CASE k \in DOMAIN dirs /\ dirs'[k].marker = dirs[k].marker
               /\ dirs'[k].at = dirs[k].at
      BY <2>1, <3>1, <3>2 DEF JInv, TrashIsFree
    <3>3. CASE dirs'[k].marker = p /\ proc[p].pc = "fill"
      BY <1>1, <3>1, <3>3 DEF JInv, Numbered, Filled
    <3> QED
      BY <1>5, <2>1, <3>2, <3>3
  <2> QED
    BY <2>1 DEF TrashIsFree
<1>8. /\ \A q \in Procs \ overlapped : proc[q].pc # "raised"
      /\ \A q \in Procs \ overlapped : q # p => q \notin Live
      /\ p \notin overlapped => Live = {p}
  BY Bystanders DEF IInv, Alone
<1>9. ASSUME p \notin overlapped, NEW k \in DOMAIN dirs', dirs'[k].maker = p
      PROVE  Labelled(p, k)'
  <2>1. k = c
    <3>1. SUFFICES ASSUME k # c PROVE FALSE
      OBVIOUS
    <3>2. k \in DOMAIN dirs /\ dirs[k].maker = p
      BY <1>2, <1>9, <3>1
    <3>3. Labelled(p, k)
      BY <1>1, <1>9, <3>2 DEF JInv, Labels
    <3>4. proc[p].pc \in Saving /\ dirs[k].at = Out
      BY <1>1, <3>3 DEF Labelled, Saving, Filled, Ended
    <3>5. PICK j \in DOMAIN dirs : Owns(p, j)
      BY <1>1, <1>9, <3>4 DEF IInv, Owning
    <3>6. j = k
      BY <3>2, <3>4, <3>5 DEF IInv, Apart, Owns
    <3>7. Exists
      BY <3>2, <3>4, AtOut DEF IInv
    <3>8. c \in DOMAIN dirs /\ (dirs[c].at = Out \/ c = j)
      BY <3>5, <3>7 DEF Owns
    <3> QED
      BY <3>1, <3>2, <3>4, <3>6, <3>8 DEF IInv, Apart
  <2>2. CASE r.pc \in Saving
    <3>1. Owns(p, c)'
      BY <1>9, <2>2
    <3> QED
      BY <1>1, <1>2, <2>1, <2>2, <3>1 DEF Owns, Labelled, Saving
  <2>3. CASE r.pc = "done"
    <3>1. Live' = {}
      BY <1>1, <1>8, <1>9, <2>3 DEF Live, Ended
    <3>2. \A x \in Procs : proc'[x].pc \notin {"fill", "write"}
      BY <3>1 DEF Live, Ended
    <3>3. Safe(c)'
      BY <3>1, <3>2 DEF Safe
    <3> QED
      BY <1>1, <1>2, <1>9, <2>1, <2>3, <3>3 DEF Labelled, Saving, Filled
  <2> QED
    BY <2>2, <2>3
<1>10. ASSUME NEW m \in Procs \ overlapped, m # p,
              NEW k \in DOMAIN dirs', dirs'[k].maker = m
       PROVE  Labelled(m, k)'
  <2>1. k \in DOMAIN dirs /\ dirs[k].maker = m /\ dirs'[k].at = dirs[k].at
    BY <1>2, <1>10
  <2>2. Labelled(m, k)
    BY <1>10, <2>1 DEF JInv, Labels
  <2>3. proc[m].pc \in {"done", "dead"}
    BY <1>8, <1>10, <2>2 DEF Labelled, Live, Ended, Saving, Filled
  <2>4. CASE proc[m].pc = "dead"
    BY <1>1, <1>10, <2>4 DEF Labelled, Saving, Filled
  <2>5. CASE proc[m].pc = "done"
    <3>1. Safe(k)
      BY <2>2, <2>5 DEF Labelled
    <3>2. dirs[k].at # Out
      BY <3>1 DEF Safe
    <3>3. k # c
      BY <1>1, <2>1, <3>1, <3>2 DEF Safe
    <3>4. dirs'[k] = dirs[k]
      BY <1>2, <2>1, <3>3
    <3>5. Safe(k)'
      BY <1>1, <3>1, <3>2, <3>3, <3>4 DEF Safe
    <3> QED
      BY <1>1, <1>10, <2>2, <2>5, <3>4, <3>5 DEF Labelled
  <2> QED
    BY <2>3, <2>4, <2>5
<1>11. Labels'
  BY <1>9, <1>10 DEF Labels
<1>12. ASSUME NEW q \in Procs \ overlapped PROVE Sees(q)' /\ proc'[q].pc # "raised"
  <2>1. CASE q = p
    BY <1>1, <2>1 DEF Sees, Saving
  <2>2. CASE q # p
    <3>1. proc'[q].pc \in Ended \/ proc'[q].pc \notin {"read", "move", "mkdir"}
      BY <1>1, <1>8, <1>12, <2>2 DEF Live
    <3> QED
      BY <1>1, <1>8, <1>12, <2>2, <3>1 DEF Sees, Ended
  <2> QED
    BY <2>1, <2>2
<1>13. Refused'
  BY <1>12 DEF Refused
<1> QED
  BY <1>6, <1>7, <1>11, <1>12, <1>13 DEF JInv

LEMMA MovingRefusals ==
    ASSUME IInv, JInv, NEW p \in Procs, proc[p].pc = "move", Exists,
           Goto(p, "mkdir"), UNCHANGED overlapped,
           NEW place \in {Trash(proc[p].id), Nested(proc[p].id)},
           dirs' = [dirs EXCEPT ![Here] = MovedTo(dirs[Here], place)]
    PROVE  JInv'
<1>0. PICK c, i : c = Here /\ i = proc[p].id
  OBVIOUS
<1>1. /\ c \in DOMAIN dirs /\ dirs[c].at = Out /\ dirs[c] \in Directories
      /\ dirs \in Seq(Directories)
  BY <1>0, AtOut DEF IInv, Shape
<1>2. PICK d : d = MovedTo(dirs[c], place)
  OBVIOUS
<1>3. d.at = place /\ d.maker = dirs[c].maker /\ d.marker = dirs[c].marker
  BY <1>1, <1>2 DEF MovedTo, Directories
<1>4. /\ DOMAIN dirs' = DOMAIN dirs /\ dirs'[c] = d
      /\ \A k \in DOMAIN dirs \ {c} : dirs'[k] = dirs[k]
  BY <1>0, <1>1, <1>2
<1>5. /\ proc'[p].pc = "mkdir" /\ p \in Live
      /\ \A q \in Procs \ {p} : proc'[q] = proc[q]
  BY DEF IInv, Shape, Goto, Fresh, Live, Ended
<1>6. i \in Procs /\ proc[i].pc \in Filled /\ i # p
  BY <1>0 DEF JInv, Numbered, Filled
<1>7. \A k \in DOMAIN dirs : dirs'[k].at # Out
  BY <1>1, <1>3, <1>4, Elsewhere DEF IInv, Apart
<1>8. \A k \in DOMAIN dirs :
        /\ dirs'[k].maker = dirs[k].maker /\ dirs'[k].marker = dirs[k].marker
        /\ \A q : dirs'[k].at = Trash(q) => dirs[k].at = Trash(q) \/ q = i
  BY <1>0, <1>3, <1>4, Trashes
<1>9. \A q \in Procs : proc[q].pc \in Filled => proc'[q].pc \in Filled
  BY <1>5 DEF Filled
<1>10. Numbered'
  <2>1. \A k \in DOMAIN dirs' :
          dirs'[k].marker \in Procs => proc'[dirs'[k].marker].pc \in Filled
    BY <1>4, <1>8, <1>9 DEF JInv, Numbered
  <2>2. \A q \in Procs : proc'[q].pc = "move" =>
          proc'[q].id \in Procs /\ proc'[proc'[q].id].pc \in Filled
    BY <1>5, <1>9 DEF JInv, Numbered
  <2>3. \A k \in DOMAIN dirs' : \A q \in Procs :
          dirs'[k].at = Trash(q) => proc'[q].pc \in Filled
    BY <1>4, <1>6, <1>8, <1>9 DEF JInv, Numbered
  <2> QED
    BY <2>1, <2>2, <2>3 DEF Numbered
<1>11. TrashIsFree'
  BY <1>4, <1>7 DEF TrashIsFree
<1>12. /\ \A q \in Procs \ overlapped : proc[q].pc # "raised"
       /\ \A q \in Procs \ overlapped : q # p => q \notin Live
  BY <1>5, Bystanders
<1>13. ASSUME NEW m \in Procs \ overlapped, NEW k \in DOMAIN dirs,
              dirs[k].maker = m
       PROVE  Labelled(m, k)'
  <2>1. Labelled(m, k)
    BY <1>13 DEF JInv, Labels
  <2>2. m # p
    BY <2>1 DEF Labelled, Saving, Filled
  <2>3. proc[m].pc \in {"done", "dead"}
    BY <1>12, <1>13, <2>1, <2>2 DEF Labelled, Live, Ended, Saving, Filled
  <2>4. Safe(k) => Safe(k)'
    BY <1>5, <1>7 DEF Safe
  <2> QED
    BY <1>5, <1>8, <1>13, <2>1, <2>2, <2>3, <2>4 DEF Labelled, Saving, Filled
<1>14. Labels'
  BY <1>4, <1>8, <1>13 DEF Labels
<1>15. ASSUME NEW q \in Procs \ overlapped PROVE Sees(q)' /\ proc'[q].pc # "raised"
  <2>1. CASE q = p
    BY <1>4, <1>5, <1>7, <2>1 DEF Sees
  <2>2. CASE q # p
    BY <1>5, <1>12, <1>15, <2>2 DEF Sees, Live, Ended
  <2> QED
    BY <2>1, <2>2
<1>16. Refused'
  BY <1>15 DEF Refused
<1> QED
  BY <1>10, <1>11, <1>14, <1>15, <1>16 DEF JInv

-----------------------------------------------------------------------------
LEMMA Clearing ==
    ASSUME IInv, JInv, NEW p \in Procs, ReadId(p) \/ Move(p)
    PROVE  IInv' /\ JInv'
<1>1. /\ proc \in [Procs -> Processes] /\ p \in Live
      /\ UNCHANGED overlapped
  BY DEF IInv, Shape, Live, Ended, ReadId, Move
<1>2. \A pc \in Positions : /\ Fresh(pc) \in Processes
                             /\ Fresh(pc).pc = pc
  BY DEF Fresh, Processes
<1>3. CASE UNCHANGED dirs /\ Goto(p, "raised")
  <2>1. PICK r : r = Fresh("raised")
    OBVIOUS
  <2>2. /\ r \in Processes /\ r.pc = "raised"
        /\ proc' = [proc EXCEPT ![p] = r]
    BY <1>2, <1>3, <2>1 DEF Positions, Goto
  <2>3. proc[p].pc \in {"read", "move"} /\ proc[p].pc \notin Filled
    BY DEF ReadId, Move, Filled
  <2>4. ASSUME p \notin overlapped
        PROVE  /\ proc[p].pc = "read"
               /\ \E k \in DOMAIN dirs :
                      dirs[k].at = Out /\ dirs[k].marker \notin Procs
    <3>1. Sees(p)
      BY <2>4 DEF JInv
    <3>2. CASE proc[p].pc = "read"
      <4>1. ReadId(p)
        BY <3>2 DEF Move
      <4>2. PICK k \in DOMAIN dirs : dirs[k].at = Out
        BY <3>1, <3>2 DEF Sees
      <4>3. Exists /\ Here = k
        BY <4>2, AtOut DEF IInv
      <4>4. dirs[k].marker \notin Procs
        <5>1. SUFFICES ASSUME dirs[k].marker \in Procs PROVE FALSE
          OBVIOUS
        <5>2. PICK i : i = dirs[k].marker
          OBVIOUS
        <5>3. proc' = [proc EXCEPT ![p] = WithId(At(proc[p], "move"), i)]
          BY <4>1, <4>3, <5>1, <5>2 DEF ReadId
        <5>4. WithId(At(proc[p], "move"), i).pc = "move"
          <6>1. /\ "move" \in Positions /\ i \in Procs
                /\ proc[p] \in Processes /\ 0 \in Nat
            BY <1>1, <5>1, <5>2 DEF Positions
          <6>2. At(proc[p], "move") \in Processes /\ At(proc[p], "move").pc = "move"
            BY <6>1, Holding
          <6> QED
            BY <6>1, <6>2, Holding
        <5> QED
          BY <1>1, <2>2, <5>3, <5>4
      <4> QED
        BY <3>2, <4>2, <4>4
    <3>3. CASE proc[p].pc = "move"
      <4>1. PICK k \in DOMAIN dirs : dirs[k].at = Out /\ dirs[k].marker = proc[p].id
        BY <3>1, <3>3 DEF Sees
      <4>2. Exists
        BY <4>1, AtOut DEF IInv
      <4>3. proc[p].id \in Procs
        BY <3>3 DEF JInv, Numbered
      <4>4. In(Trash(proc[p].id)) = {}
        BY <4>1, <4>3 DEF JInv, TrashIsFree, In
      <4>5. Goto(p, "mkdir")
        BY <3>3, <4>2, <4>4 DEF Move, ReadId
      <4>6. Fresh("mkdir").pc = "mkdir"
        BY DEF Fresh
      <4> QED
        BY <1>1, <2>2, <4>5, <4>6 DEF Goto
    <3> QED
      BY <2>3, <3>2, <3>3
  <2>5. IInv'
    BY <1>1, <1>3, <2>2, Quiet
  <2>6. JInv'
    BY <1>1, <1>3, <2>2, <2>3, <2>4, QuietRefusals
  <2> QED
    BY <2>5, <2>6
<1>4. CASE ReadId(p) /\ ~Goto(p, "raised")
  <2> DEFINE id == dirs[Here].marker
             r == WithId(At(proc[p], "move"), id)
  <2>1. /\ proc[p].pc = "read" /\ id \in Procs
        /\ proc' = [proc EXCEPT ![p] = r]
        /\ UNCHANGED dirs
    BY <1>1, <1>4 DEF ReadId
  <2>2. "move" \in Positions
    BY DEF Positions
  <2>3. r \in Processes /\ r.pc = "move" /\ r.id = id
    <3>1. /\ At(proc[p], "move") \in Processes
          /\ At(proc[p], "move").pc = "move"
      BY <1>1, <2>2 DEF At, Processes
    <3> QED
      BY <2>1, <3>1 DEF WithId, Processes
  <2>4. Here \in DOMAIN dirs /\ dirs[Here].at = Out
    BY <1>4, AtOut DEF IInv, ReadId
  <2>5. \E k \in DOMAIN dirs : dirs[k].at = Out /\ dirs[k].marker = r.id
    BY <2>3, <2>4
  <2> HIDE DEF r
  <2>6. IInv'
    BY <1>1, <2>1, <2>3, Quiet
  <2>7. JInv'
    BY <1>1, <2>1, <2>3, <2>5, QuietRefusals
  <2> QED
    BY <2>6, <2>7
<1>5. CASE /\ Exists /\ Goto(p, "mkdir") /\ proc[p].pc = "move"
           /\ \E place \in {Trash(proc[p].id), Nested(proc[p].id)} :
                 /\ In(place) = {}
                 /\ dirs' = [dirs EXCEPT ![Here] = MovedTo(@, place)]
  <2>1. PICK place \in {Trash(proc[p].id), Nested(proc[p].id)} :
            /\ In(place) = {}
            /\ dirs' = [dirs EXCEPT ![Here] = MovedTo(@, place)]
    BY <1>5
  <2>2. place \in Places /\ place # Out
    <3>1. proc[p].id \in Procs \cup {NoOne}
      BY <1>1 DEF Processes
    <3> QED
      BY <3>1, Elsewhere DEF Places
  <2> QED
    BY <1>1, <1>5, <2>1, <2>2, MovingAway, MovingRefusals
<1> QED
  BY <1>1, <1>3, <1>4, <1>5 DEF ReadId, Move

LEMMA Marking ==
    ASSUME IInv, JInv, NEW p \in Procs, Mkdir(p) \/ Mark(p) \/ Fill(p)
    PROVE  IInv' /\ JInv'
<1>1. /\ proc \in [Procs -> Processes] /\ p \in Live
      /\ UNCHANGED overlapped
      /\ dirs \in Seq(Directories)
      /\ \A k \in DOMAIN dirs : k \in Nat /\ dirs[k] \in Directories
  BY DEF IInv, Shape, Live, Ended, Mkdir, Mark, Fill
<1>2. {"raised", "mark", "fill", "put"} \subseteq Positions
  BY DEF Positions
<1>3. \A pc \in {"raised", "mark", "put"} : /\ Fresh(pc) \in Processes
                                            /\ Fresh(pc).pc = pc
  BY <1>2 DEF Fresh, Processes
<1>4. CASE UNCHANGED dirs /\ Goto(p, "raised")
  <2>1. PICK r : r = Fresh("raised")
    OBVIOUS
  <2>2. /\ r \in Processes /\ r.pc = "raised"
        /\ proc' = [proc EXCEPT ![p] = r]
    BY <1>3, <1>4, <2>1 DEF Goto
  <2>3. /\ ~Fill(p)
        /\ proc[p].pc \in {"mkdir", "mark"} /\ proc[p].pc \notin Filled
    <3>1. Fresh("put").pc = "put"
      BY <1>3
    <3>2. ~Fill(p)
      BY <1>1, <2>2, <3>1 DEF Fill, Goto
    <3> QED
      BY <3>2 DEF Mkdir, Mark, Filled
  <2>4. p \in overlapped
    <3>1. SUFFICES ASSUME p \notin overlapped PROVE FALSE
      OBVIOUS
    <3>2. CASE Mkdir(p)
      <4>1. Fresh("mark").pc = "mark"
        BY <1>3
      <4>2. Exists /\ proc[p].pc = "mkdir"
        BY <1>1, <2>2, <3>2, <4>1 DEF Mkdir, Goto
      <4> QED
        BY <3>1, <4>2, AtOut DEF IInv, JInv, Sees
    <3>3. CASE Mark(p)
      <4>1. PICK a : a = WithFd(At(proc[p], "fill"), Here)
        OBVIOUS
      <4>2. ~Exists
        <5>1. SUFFICES ASSUME Exists PROVE FALSE
          OBVIOUS
        <5>2. proc' = [proc EXCEPT ![p] = a]
          BY <3>3, <4>1, <5>1 DEF Mark
        <5>3. a.pc = "fill"
          <6>1. /\ "fill" \in Positions /\ proc[p] \in Processes
            BY <1>1, <1>2
          <6>2. /\ At(proc[p], "fill") \in Processes
                /\ At(proc[p], "fill").pc = "fill"
            BY <6>1 DEF At, Processes
          <6> QED
            BY <4>1, <6>2 DEF WithFd, Processes
        <5> QED
          BY <1>1, <2>2, <5>2, <5>3
      <4>3. proc[p].pc = "mark"
        BY <3>3 DEF Mark
      <4> QED
        BY <3>1, <4>2, <4>3, AtOut DEF IInv, Owning, Owns, Saving
    <3> QED
      BY <2>3, <3>2, <3>3
  <2>5. IInv'
    BY <1>1, <1>4, <2>2, Quiet
  <2>6. JInv'
    BY <1>1, <1>4, <2>2, <2>3, <2>4, QuietRefusals
  <2> QED
    BY <2>5, <2>6
<1>5. CASE Mkdir(p) /\ ~Exists
  <2>0. PICK c : c = Len(dirs) + 1
    OBVIOUS
  <2> DEFINE d == Made(p, Out)
             r == Fresh("mark")
  <2>1. /\ proc[p].pc = "mkdir" /\ dirs' = Append(dirs, d)
        /\ proc' = [proc EXCEPT ![p] = r]
    BY <1>5 DEF Mkdir, Goto
  <2>2. /\ d \in Directories /\ d.maker = p /\ d.at = Out
        /\ \A f \in DOMAIN Files : d.files[f].by = NoOne
    BY Making, Authors
  <2>3. r \in Processes /\ r.pc = "mark"
    BY <1>3
  <2> HIDE DEF d, r
  <2>4. Touched(c, d) /\ c \notin DOMAIN dirs
    BY <2>0, <2>1, <2>2, Adding DEF IInv
  <2>5. Owns(p, c)'
    BY <1>1, <2>1, <2>2, <2>3, <2>4 DEF Owns, Touched
  <2>6. IInv'
    BY <1>1, <1>5, <2>1, <2>2, <2>3, <2>4, <2>5, Touching DEF Saving
  <2>7. d.marker = NoMarker
    BY Making DEF d
  <2>8. JInv'
    BY <1>1, <1>5, <2>1, <2>2, <2>3, <2>4, <2>5, <2>7, TouchingRefusals
       DEF Saving, Filled
  <2> QED
    BY <2>6, <2>8
<1>6. CASE Mark(p) /\ Exists
  <2>0. PICK c : c = Here
    OBVIOUS
  <2> DEFINE d == WithMarker(dirs[c], EmptyMarker)
             r == WithFd(At(proc[p], "fill"), c)
  <2>1. /\ proc[p].pc = "mark"
        /\ dirs' = [dirs EXCEPT ![c] = d]
        /\ proc' = [proc EXCEPT ![p] = r]
    BY <1>6, <2>0 DEF Mark
  <2>2. c \in DOMAIN dirs /\ dirs[c].at = Out
    BY <1>6, <2>0, AtOut DEF IInv
  <2>3. /\ d \in Directories /\ d.maker = dirs[c].maker
        /\ d.at = dirs[c].at /\ d.files = dirs[c].files
        /\ d.marker = EmptyMarker
    BY <1>1, <2>2 DEF WithMarker, Directories
  <2>4. r \in Processes /\ r.pc = "fill" /\ r.fd = c
    <3>1. At(proc[p], "fill") \in Processes /\ At(proc[p], "fill").pc = "fill"
      BY <1>1, <1>2, Holding
    <3> DEFINE a == At(proc[p], "fill")
    <3> HIDE DEF a
    <3>2. a \in Processes /\ a.pc = "fill" /\ c \in Nat
      BY <1>1, <2>2, <3>1 DEF a
    <3>3. /\ WithFd(a, c) \in Processes
          /\ WithFd(a, c).pc = a.pc /\ WithFd(a, c).fd = c
      BY <3>2 DEF Processes, WithFd
    <3> QED
      BY <3>2, <3>3 DEF a
  <2> HIDE DEF d, r
  <2>5. Touched(c, d)
    BY <2>1, <2>2, <2>3, Changing DEF IInv
  <2>6. p \notin overlapped => dirs[c].maker = p
    BY <1>1, <2>1, <2>2 DEF IInv, Owning, Owns, Saving, Apart
  <2>7. p \notin overlapped => Owns(p, c)'
    BY <1>1, <2>1, <2>2, <2>3, <2>4, <2>5, <2>6 DEF Owns, Touched
  <2>8. \A f \in DOMAIN Files :
            d.files[f].by \in overlapped \cup {NoOne, d.maker}
    BY <2>2, <2>3 DEF IInv, Theirs
  <2>9. IInv'
    BY <1>1, <2>1, <2>2, <2>3, <2>4, <2>5, <2>7, <2>8, Touching DEF Saving
  <2>10. JInv'
    BY <1>1, <2>1, <2>2, <2>3, <2>4, <2>5, <2>7, TouchingRefusals
       DEF Saving, Filled
  <2> QED
    BY <2>9, <2>10
<1>7. CASE Fill(p)
  <2>0. PICK c : proc[p].fd = c
    OBVIOUS
  <2> DEFINE d == WithMarker(dirs[c], p)
             r == Fresh("put")
  <2>1. /\ proc[p].pc = "fill"
        /\ dirs' = [dirs EXCEPT ![c] = d]
        /\ proc' = [proc EXCEPT ![p] = r]
    BY <1>7, <2>0 DEF Fill, Goto
  <2>2. c \in DOMAIN dirs
    BY <2>0, <2>1 DEF IInv, Descriptors
  <2>3. /\ d \in Directories /\ d.maker = dirs[c].maker /\ d.marker = p
        /\ d.at = dirs[c].at /\ d.files = dirs[c].files
    BY <1>1, <2>2 DEF WithMarker, Directories
  <2>4. r \in Processes /\ r.pc = "put"
    BY <1>3
  <2>5. p \notin overlapped => dirs[c].maker = p /\ dirs[c].at = Out
    BY <1>1, <2>0, <2>1, <2>2 DEF IInv, Owning, Owns, Saving
  <2> HIDE DEF d, r
  <2>6. Touched(c, d)
    BY <2>1, <2>2, <2>3, Changing DEF IInv
  <2>7. p \notin overlapped => Owns(p, c)'
    BY <1>1, <2>1, <2>2, <2>3, <2>4, <2>5, <2>6 DEF Owns, Touched
  <2>8. \A f \in DOMAIN Files :
            d.files[f].by \in overlapped \cup {NoOne, d.maker}
    BY <2>2, <2>3 DEF IInv, Theirs
  <2>9. IInv'
    BY <1>1, <2>0, <2>1, <2>2, <2>3, <2>4, <2>6, <2>7, <2>8, Touching
       DEF Saving
  <2>10. JInv'
    BY <1>1, <2>0, <2>1, <2>2, <2>3, <2>4, <2>6, <2>7, TouchingRefusals
       DEF Saving, Filled
  <2> QED
    BY <2>9, <2>10
<1> QED
  BY <1>4, <1>5, <1>6, <1>7 DEF Mkdir, Mark

LEMMA SavingStep ==
    ASSUME IInv, JInv, NEW p \in Procs, Save(p)
    PROVE  IInv' /\ JInv'
<1>1. /\ proc \in [Procs -> Processes] /\ p \in Live
      /\ UNCHANGED overlapped
      /\ dirs \in Seq(Directories)
      /\ \A k \in DOMAIN dirs : k \in Nat /\ dirs[k] \in Directories
      /\ proc[p].file \in Nat
  BY DEF IInv, Shape, Live, Ended, Save, Put, Open, Write, Processes
<1>2. \A pc \in {"open", "done", "write"} :
          /\ Fresh(pc) \in Processes
          /\ Fresh(pc).pc = pc /\ Fresh(pc).file = 1
  BY DEF Fresh, Processes, Positions
<1>3. /\ proc[p].pc \notin {"read", "move"}
      /\ p \notin overlapped /\ proc[p].pc \in Saving =>
             \E k \in DOMAIN dirs : Owns(p, k)
  BY DEF IInv, Owning, Save, Put, Open, Write
<1>4. PICK c : c = OpenedAt
  OBVIOUS
<1>5. PICK base : base = Opened(p)[OpenedAt]
  OBVIOUS
<1>6. /\ base \in Directories /\ base.at = Out /\ c \in Nat
      /\ \/ c \in DOMAIN dirs /\ Exists /\ base = dirs[c]
         \/ c \notin DOMAIN dirs /\ ~Exists /\ base = Made(p, Out)
      /\ \A d \in Directories :
             dirs' = [Opened(p) EXCEPT ![OpenedAt] = d] => Touched(c, d)
  BY <1>4, <1>5, Opening DEF IInv
<1>7. \A f \in DOMAIN Files :
          base.files[f].by \in overlapped \cup {NoOne, base.maker}
  BY <1>6, Making, Authors DEF IInv, Theirs
<1>8. p \notin overlapped /\ proc[p].pc \in {"put", "open"} =>
          Owns(p, c) /\ c \in DOMAIN dirs /\ base = dirs[c]
  BY <1>3, <1>6, AtOut DEF IInv, Apart, Owns, Saving
<1>9. c \notin DOMAIN dirs => ~Exists /\ base.maker = p /\ base.at = Out
  BY <1>6, Making
<1>0. /\ base.marker = NoMarker \/ (c \in DOMAIN dirs /\ base.marker = dirs[c].marker)
      /\ {"put", "open", "write", "done"} \subseteq Filled
  BY <1>6, Making DEF Filled
<1>10. CASE Put(p)
  <2> DEFINE d == WithTree(base, p)
             r == Fresh("open")
  <2>1. /\ proc[p].pc = "put" /\ proc' = [proc EXCEPT ![p] = r]
        /\ dirs' = [Opened(p) EXCEPT ![OpenedAt] = d]
    BY <1>5, <1>10, Opening DEF IInv, Put, Goto
  <2>2. /\ d \in Directories /\ d.maker = base.maker /\ d.at = base.at
        /\ d.marker = base.marker /\ d.files = base.files /\ p \in d.trees
    BY <1>6 DEF WithTree, Directories
  <2>3. r \in Processes /\ r.pc = "open" /\ r.file = 1
    BY <1>2
  <2> HIDE DEF d, r
  <2>4. Touched(c, d)
    BY <1>6, <2>1, <2>2
  <2>5. p \notin overlapped => Owns(p, c)'
    BY <1>1, <1>8, <2>1, <2>2, <2>3, <2>4, FileNumbers DEF Owns, Touched
  <2>6. \A f \in DOMAIN Files :
            d.files[f].by \in overlapped \cup {NoOne, d.maker}
    BY <1>7, <2>2
  <2>7. IInv'
    BY <1>1, <1>6, <1>9, <2>1, <2>2, <2>3, <2>4, <2>5, <2>6, Touching
       DEF Saving
  <2>8. JInv'
    BY <1>0, <1>1, <1>6, <1>9, <2>1, <2>2, <2>3, <2>4, <2>5, TouchingRefusals
       DEF Saving
  <2> QED
    BY <2>7, <2>8
<1>11. CASE Open(p)
  <2> DEFINE f == proc[p].file
             d == WithFile(base, f, Torn(p))
             r == WithFd(At(proc[p], "write"), c)
  <2>1. /\ proc[p].pc = "open" /\ proc' = [proc EXCEPT ![p] = r]
        /\ dirs' = [Opened(p) EXCEPT ![OpenedAt] = d]
    BY <1>4, <1>5, <1>11, Opening DEF IInv, Open
  <2>2. /\ d \in Directories /\ d.maker = base.maker /\ d.at = base.at
        /\ d.marker = base.marker /\ d.trees = base.trees
        /\ \A g \in DOMAIN Files :
               d.files[g] = IF g = f THEN Torn(p) ELSE base.files[g]
    <3>1. Torn(p) \in FileStates
      BY Authors
    <3> QED
      BY <1>6, <3>1 DEF WithFile, Directories
  <2>3. r \in Processes /\ r.pc = "write" /\ r.fd = c /\ r.file = f
    <3> DEFINE a == At(proc[p], "write")
    <3>1. a \in Processes /\ a.pc = "write" /\ a.file = f
      BY <1>1 DEF At, Processes, Positions
    <3> HIDE DEF a
    <3>2. /\ WithFd(a, c) \in Processes /\ WithFd(a, c).pc = a.pc
          /\ WithFd(a, c).fd = c /\ WithFd(a, c).file = a.file
      BY <1>6, <3>1 DEF Processes, WithFd
    <3> QED
      BY <3>1, <3>2 DEF a
  <2> HIDE DEF d, r
  <2>4. Touched(c, d)
    BY <1>6, <2>1, <2>2
  <2>5. p \notin overlapped => Owns(p, c)'
    BY <1>1, <1>8, <2>1, <2>2, <2>3, <2>4, FileNumbers DEF Owns, Touched
  <2>6. \A g \in DOMAIN Files :
            d.files[g].by \in overlapped \cup {NoOne, d.maker}
    BY <1>1, <1>7, <1>8, <2>1, <2>2, Authors DEF Owns
  <2>7. \/ c \in DOMAIN dirs /\ d.maker = dirs[c].maker
           /\ d.at = dirs[c].at /\ dirs[c].at = Out
        \/ c \notin DOMAIN dirs /\ ~Exists /\ d.maker = p /\ d.at = Out
    BY <1>6, <1>9, <2>2
  <2>8. /\ proc[p].pc \notin {"read", "move"}
        /\ r.pc \in Saving /\ r.pc # "done"
        /\ proc' = [proc EXCEPT ![p] = r]
    BY <2>1, <2>3 DEF Saving
  <2> HIDE DEF f
  <2>9. IInv'
    BY <1>1, <2>3, <2>4, <2>5, <2>6, <2>7, <2>8, Touching
  <2>10. /\ d.marker = NoMarker \/ (c \in DOMAIN dirs /\ d.marker = dirs[c].marker)
         /\ r.pc \in Filled
    BY <1>0, <2>2, <2>3
  <2>11. JInv'
    BY <1>1, <2>3, <2>4, <2>5, <2>7, <2>8, <2>10, TouchingRefusals
  <2> QED
    BY <2>9, <2>11
<1>12. CASE Write(p)
  <2>0. PICK x : proc[p].fd = x
    OBVIOUS
  <2> DEFINE f == proc[p].file
             d == WithFile(dirs[x], f, Whole(p))
  <2>1. /\ proc[p].pc = "write" /\ dirs' = [dirs EXCEPT ![x] = d]
        /\ \/ f = 4 /\ proc' = [proc EXCEPT ![p] = Fresh("done")]
           \/ /\ f # 4
              /\ proc' = [proc EXCEPT ![p] = AtFile(Fresh("open"), f + 1)]
    BY <1>12, <2>0, FileNumbers DEF Write, Goto
  <2>2. PICK r : /\ proc' = [proc EXCEPT ![p] = r] /\ r \in Processes
                 /\ \/ f = 4 /\ r.pc = "done"
                    \/ f # 4 /\ r.pc = "open" /\ r.file = f + 1
    <3>1. /\ AtFile(Fresh("open"), f + 1) \in Processes
          /\ AtFile(Fresh("open"), f + 1).pc = "open"
          /\ AtFile(Fresh("open"), f + 1).file = f + 1
      BY <1>1, <1>2 DEF AtFile, Processes
    <3> QED
      BY <1>2, <2>1, <3>1
  <2>3. x \in DOMAIN dirs
    BY <2>0, <2>1 DEF IInv, Descriptors
  <2>4. /\ d \in Directories /\ d.maker = dirs[x].maker
        /\ d.at = dirs[x].at /\ d.marker = dirs[x].marker
        /\ d.trees = dirs[x].trees
        /\ \A g \in DOMAIN Files :
               d.files[g] = IF g = f THEN Whole(p) ELSE dirs[x].files[g]
    <3>1. Whole(p) \in FileStates
      BY Authors
    <3> QED
      BY <1>1, <2>3, <3>1 DEF WithFile, Directories
  <2> HIDE DEF d
  <2>5. Touched(x, d)
    BY <2>1, <2>3, <2>4, Changing DEF IInv
  <2>6. p \notin overlapped => Owns(p, x)
    BY <1>3, <2>0, <2>1 DEF Saving, Owns
  <2>7. \A g \in DOMAIN Files :
            d.files[g].by \in overlapped \cup {NoOne, d.maker}
    BY <2>3, <2>4, <2>6, Authors DEF IInv, Theirs, Owns
  <2>8. p \notin overlapped =>
            /\ d.at = Out /\ d.maker = p /\ d.marker = p /\ p \in d.trees
            /\ \A g \in DOMAIN Files : g < f + 1 => d.files[g] = Whole(p)
    BY <1>1, <2>1, <2>4, <2>6, FileNumbers DEF Owns
  <2>9. proc'[p] = r /\ dirs'[x] = d
    BY <1>1, <2>2, <2>5 DEF Touched
  <2>10. p \notin overlapped /\ r.pc \in Saving => Owns(p, x)'
    BY <2>2, <2>8, <2>9 DEF Owns
  <2>11. p \notin overlapped /\ r.pc = "done" => Holds(x, p)' /\ d.marker = p
    BY <2>2, <2>8, <2>9, FileNumbers DEF Holds
  <2>12. /\ proc[p].pc \notin {"read", "move"}
         /\ r.pc \in Saving \cup {"done"} /\ r.pc \notin {"fill", "write"}
    BY <2>1, <2>2 DEF Saving
  <2> HIDE DEF f
  <2>13. IInv'
    BY <1>1, <2>0, <2>1, <2>2, <2>3, <2>4, <2>5, <2>7, <2>10, <2>11, <2>12,
       Touching
  <2>14. r.pc \in Filled
    BY <1>0, <2>2
  <2>15. JInv'
    BY <1>1, <2>0, <2>1, <2>2, <2>3, <2>4, <2>5, <2>10, <2>11, <2>12, <2>14,
       TouchingRefusals
  <2> QED
    BY <2>13, <2>15
<1> QED
  BY <1>10, <1>11, <1>12 DEF Save

LEMMA StepInvariant == IInv /\ JInv /\ [Next]_vars => IInv' /\ JInv'
<1> SUFFICES ASSUME IInv, JInv, [Next]_vars PROVE IInv' /\ JInv'
  OBVIOUS
<1>1. ASSUME NEW p \in Procs, Prepare(p) PROVE IInv' /\ JInv'
  <2>1. CASE Check(p)
    BY <2>1, Checking, CheckingRefusals
  <2>2. CASE ReadId(p) \/ Move(p)
    BY <2>2, Clearing
  <2>3. CASE Mkdir(p) \/ Mark(p) \/ Fill(p)
    BY <2>3, Marking
  <2> QED
    BY <1>1, <2>1, <2>2, <2>3 DEF Prepare
<1>2. ASSUME NEW p \in Procs, Save(p) PROVE IInv' /\ JInv'
  BY <1>2, SavingStep
<1>3. ASSUME NEW p \in Procs, Crash(p) PROVE IInv' /\ JInv'
  <2>1. PICK r : r = Fresh("dead")
    OBVIOUS
  <2>2. r \in Processes /\ r.pc = "dead"
    BY <2>1 DEF Fresh, Processes, Positions
  <2>3. /\ p \in Live /\ proc' = [proc EXCEPT ![p] = r]
        /\ UNCHANGED <<dirs, overlapped>>
    BY <1>3, <2>1 DEF Crash, Goto
  <2>4. IInv'
    BY <2>2, <2>3, Quiet
  <2>5. JInv'
    BY <2>2, <2>3, QuietRefusals
  <2> QED
    BY <2>4, <2>5
<1>4. CASE UNCHANGED vars
  <2>1. UNCHANGED Live
    BY <1>4 DEF vars, Live
  <2>2. Shape' /\ Apart' /\ Alone' /\ Descriptors' /\ UserKeeps' /\ Theirs'
    BY <1>4, <2>1 DEF vars, IInv, Shape, Apart, Alone, Descriptors,
                     UserKeeps, Theirs
  <2>3. Owning'
    BY <1>4 DEF vars, IInv, Owning, Owns
  <2>4. Saved'
    BY <1>4, <2>1 DEF vars, IInv, Saved, Holds, Safe
  <2>5. Numbered' /\ TrashIsFree'
    BY <1>4 DEF vars, JInv, Numbered, TrashIsFree
  <2>6. Labels'
    BY <1>4, <2>1 DEF vars, JInv, Labels, Labelled, Safe
  <2>7. \A q \in Procs \ overlapped' : Sees(q)'
    BY <1>4 DEF vars, JInv, Sees
  <2>8. Refused'
    BY <1>4, <2>1 DEF vars, JInv, Refused, Blocks, Abandoned
  <2> QED
    BY <2>2, <2>3, <2>4, <2>5, <2>6, <2>7, <2>8 DEF IInv, JInv
<1> QED
  BY <1>1, <1>2, <1>3, <1>4 DEF Next

(* A run that was saved while nobody else was at work keeps every tree and *)
(* file for good, and what the user keeps stays at --out, for any number   *)
(* of invocations: prepare_run_dir moves and never deletes.                *)
THEOREM SavedRunsAreSafe == Spec => []SavedRunsSurvive
<1>1. IInv => SavedRunsSurvive
  <2> SUFFICES ASSUME IInv PROVE SavedRunsSurvive
    OBVIOUS
  <2>1. \A k \in DOMAIN dirs : In(dirs[k].at) = {k}
    BY DEF IInv, Apart, In
  <2> QED
    BY <2>1 DEF IInv, Saved, UserKeeps, SavedRunsSurvive
<1> QED
  BY <1>1, InitInvariant, RefusedAtFirst, StepInvariant, PTL DEF Spec

(* No directory mixes the files of two runs, unless they overlapped.       *)
THEOREM DirectoriesHoldOneRun == Spec => []OneRunPerDirectory
<1>1. IInv => OneRunPerDirectory
  BY DEF IInv, Theirs, OneRunPerDirectory
<1> QED
  BY <1>1, InitInvariant, RefusedAtFirst, StepInvariant, PTL DEF Spec

(* With nobody beside it, an invocation is refused only where the user's   *)
(* own directory is at --out, or one whose marker a process that died had  *)
(* not filled, or one that overlapping processes made, for any number of   *)
(* invocations: what a run that ended well has left is always moved away,  *)
(* since no two runs have one id and its place in the trash is free.       *)
THEOREM RefusalsAreJustified == Spec => []RefusalsAreExplained
<1>1. IInv /\ JInv => RefusalsAreExplained
  <2> SUFFICES ASSUME IInv, JInv, NEW p \in Procs \ overlapped,
                      proc[p].pc = "raised"
               PROVE  /\ Exists
                      /\ dirs[Here].marker \notin Procs
                      /\ Abandoned(dirs[Here].maker)
    BY DEF RefusalsAreExplained, Abandoned
  <2>1. PICK k \in DOMAIN dirs : Blocks(k)
    BY DEF JInv, Refused
  <2>2. Exists /\ Here = k
    BY <2>1, AtOut DEF IInv, Blocks
  <2> QED
    BY <2>1, <2>2 DEF Blocks
<1> QED
  BY <1>1, InitInvariant, RefusedAtFirst, StepInvariant, PTL DEF Spec

-----------------------------------------------------------------------------
(***************************************************************************)
(* Revalidation, which replays the validated units of a corpus when an     *)
(* environment changes: theorems about Maintenance for any corpus and any  *)
(* change.                                                                 *)
(***************************************************************************)
(***************************************************************************)
(* The list of the targets has each of them once.  A target's place is the *)
(* number of targets before it: no two have the same, there are as many    *)
(* places as targets, so that every place is taken.                        *)
(***************************************************************************)
Before(us, u) == {x \in us : x.unit < u.unit}

Numbering(us) ==
    /\ IsFiniteSet(us)
    /\ \A u \in us : u.unit \in Nat
    /\ \A u, v \in us : u.unit = v.unit => u = v

LEMMA Seats ==
    ASSUME NEW us, Numbering(us)
    PROVE  /\ Cardinality(us) \in Nat
           /\ \A k \in 1..Cardinality(us) :
                 \E u \in us : Cardinality(Before(us, u)) = k - 1
           /\ \A u \in us : Cardinality(Before(us, u)) + 1 \in 1..Cardinality(us)
           /\ \A u, v \in us :
                 Cardinality(Before(us, u)) = Cardinality(Before(us, v)) => u = v
<1>1. PICK before : before = [u \in us |-> Before(us, u)]
  OBVIOUS
<1>2. \A u \in us : before[u] = Before(us, u)
  BY <1>1
<1>3. Ordering(us, before)
  <2>1. \A u \in us : before[u] \in SUBSET us /\ u \notin before[u]
    BY <1>2 DEF Before, Numbering
  <2>2. \A u, v \in us : u # v => u \in before[v] \/ v \in before[u]
    BY <1>2 DEF Before, Numbering
  <2>3. \A u, v \in us : u \in before[v] => before[u] \subseteq before[v]
    BY <1>2 DEF Before, Numbering
  <2>. QED BY <1>1, <2>1, <2>2, <2>3 DEF Ordering, Numbering
<1>. QED BY <1>2, <1>3, Ranks

LEMMA ListOfTargets ==
    ASSUME NEW us, Numbering(us)
    PROVE  /\ InOrder(us) \in Seq(us)
           /\ us = {InOrder(us)[k] : k \in 1..Len(InOrder(us))}
           /\ \A j, k \in 1..Len(InOrder(us)) :
                 InOrder(us)[j] = InOrder(us)[k] => j = k
<1>0. \A u \in us :
         Cardinality({x \in us : x.unit < u.unit}) = Cardinality(Before(us, u))
  BY DEF Before
<1>1. PICK n \in Nat : n = Cardinality(us)
  BY Seats
<1>2. PICK list : list = InOrder(us)
  OBVIOUS
<1>3. list = [k \in 1..n |->
                 CHOOSE u \in us :
                    Cardinality({x \in us : x.unit < u.unit}) = k - 1]
  BY <1>1, <1>2 DEF InOrder
<1>4. \A k \in 1..n : list[k] \in us /\ Cardinality(Before(us, list[k])) = k - 1
  <2> SUFFICES ASSUME NEW k \in 1..n
               PROVE  list[k] \in us /\ Cardinality(Before(us, list[k])) = k - 1
    OBVIOUS
  <2>1. \E u \in us : Cardinality({x \in us : x.unit < u.unit}) = k - 1
    BY <1>0, <1>1, Seats
  <2>2. list[k] = CHOOSE u \in us :
                     Cardinality({x \in us : x.unit < u.unit}) = k - 1
    BY <1>3
  <2>3. /\ list[k] \in us
        /\ Cardinality({x \in us : x.unit < list[k].unit}) = k - 1
    BY <2>1, <2>2
  <2>. QED BY <2>3, <1>0
<1>5. list \in Seq(us) /\ Len(list) = n
  <2>1. list \in [1..n -> us]
    BY <1>3, <1>4
  <2>. QED BY <2>1
<1>6. \A u \in us : \E k \in 1..n : list[k] = u
  <2> SUFFICES ASSUME NEW u \in us PROVE \E k \in 1..n : list[k] = u
    OBVIOUS
  <2>1. PICK k \in 1..n : k = Cardinality(Before(us, u)) + 1
    BY <1>1, Seats
  <2>2. Cardinality(Before(us, list[k])) = Cardinality(Before(us, u))
    <3>1. Cardinality(Before(us, u)) \in Nat
      BY <1>1, <2>1, Seats, FS_CardinalityType, FS_Subset
         DEF Before, Numbering
    <3>. QED BY <1>4, <2>1, <3>1
  <2>. QED BY <1>4, <2>2, Seats
<1>7. \A j, k \in 1..n : list[j] = list[k] => j = k
  <2> SUFFICES ASSUME NEW j \in 1..n, NEW k \in 1..n, list[j] = list[k]
               PROVE  j = k
    OBVIOUS
  <2>1. j - 1 = k - 1
    BY <1>4
  <2>. QED BY <2>1
<1>. QED BY <1>2, <1>4, <1>5, <1>6, <1>7

(***************************************************************************)
(* What a replay of a unit finds, read from the world instead of from the  *)
(* cache, and the bill of a set of units: its fork points, one control     *)
(* each, and the runs of those whose control reproduces.                   *)
(***************************************************************************)
Facts == [event |-> event, reproduces |-> reproduces, works |-> works]

Now(w, e) ==
    IF Family(e) = w.event.family THEN w.event.version ELSE Today[Family(e)]

Reproduces(w, f) == <<f[1], f[2], Now(w, f[1])>> \in w.reproduces

Sound(w, u) ==
    /\ Reproduces(w, ForkPoint(u))
    /\ <<u.episode, u.edit, Now(w, u.episode)>> \in w.works

Points(D) == {ForkPoint(u) : u \in D}

Repeated(w, D) == {u \in D : Sound(w, u) /\ NRepro > 1}

Ran(w, D) == {u \in D : Reproduces(w, ForkPoint(u)) /\ ~(Sound(w, u) /\ NRepro > 1)}

Bill(w, D) ==
    Cardinality(Points(D)) + Cardinality(Ran(w, D))
        + NRepro * Cardinality(Repeated(w, D))

(***************************************************************************)
(* The units a mode has replayed, and its books: they say of each what the *)
(* world says, and charge for no control twice.  The cache has the fork    *)
(* points of this mode and nothing of the last one.                        *)
(***************************************************************************)
Passed(m) ==
    IF mode > m THEN Targets(Modes[m])
    ELSE IF mode = m THEN {pool[k] : k \in 1..(next - 1)}
    ELSE {}

Booked(w, r, D) ==
    /\ r.confirmed = {u.unit : u \in {v \in D : Sound(w, v) /\ NRepro # 0}}
    /\ r.demoted = {u.unit : u \in {v \in D : ~(Sound(w, v) /\ NRepro # 0)}}
    /\ r.replays = Bill(w, D)
    /\ IsFiniteSet(D) /\ IsFiniteSet(Points(D))

Books == \A m \in 1..2 : Booked(Facts, report[Modes[m]], Passed(m))

Looked ==
    /\ mode \in 0..2
    /\ mode = 0 => pool = <<>>
    /\ \A m \in 1..2 : mode = m => pool = InOrder(Targets(Modes[m]))
    /\ next \in 1..(Len(pool) + 1)
    /\ \E S : memo \in [Points({pool[k] : k \in 1..(next - 1)}) -> S]
    /\ \A f \in DOMAIN memo : memo[f] = Reproduces(Facts, f)

Reported == \E S : report \in [{"selective", "full"} -> S]

RvInv == Consistent /\ Looked /\ Reported /\ Books

LEMMA TheModes ==
    /\ Modes[1] = "selective" /\ Modes[2] = "full"
    /\ Len(Modes) = 2 /\ Range(Modes) = {"selective", "full"}
    /\ DOMAIN Modes = 1..2
BY DEF Modes, Range

LEMMA TargetsAreNumbered ==
    ASSUME NEW m PROVE Numbering(Targets(m))
<1>1. PICK n \in Nat : DOMAIN Units = 1..n
  BY MaintenanceAssumption
<1>2. PICK load : load = [i \in 1..n |-> Loaded(i)]
  OBVIOUS
<1>3. \A i \in 1..n : load[i] = Loaded(i) /\ load[i].unit = i
  BY <1>2 DEF Loaded
<1>4. \A u \in Targets(m) : \E i \in 1..n : u = load[i]
  BY <1>1, <1>3 DEF Targets, Pooled
<1>5. PICK nr : nr = [u \in Targets(m) |-> u.unit]
  OBVIOUS
<1>6. nr \in Injection(Targets(m), 1..n)
  BY <1>3, <1>4, <1>5 DEF Injection, IsInjective
<1>7. IsFiniteSet(1..n)
  BY FS_Interval
<1>8. IsFiniteSet(Targets(m))
  BY <1>6, <1>7, FS_Injection
<1>. QED BY <1>3, <1>4, <1>8 DEF Numbering

\* Nothing is replayed for nothing.
LEMMA EmptyBooks ==
    \A w : Booked(w, [confirmed |-> {}, demoted |-> {}, replays |-> 0], {})
<1> SUFFICES ASSUME NEW w
             PROVE  Booked(w, [confirmed |-> {}, demoted |-> {}, replays |-> 0], {})
  OBVIOUS
<1>1. Points({}) = {} /\ Ran(w, {}) = {} /\ Repeated(w, {}) = {}
  BY DEF Points, Ran, Repeated
<1>2. IsFiniteSet({}) /\ Cardinality({}) = 0
  BY FS_EmptySet
<1>3. Bill(w, {}) = 0
  <2>1. \A n \in Nat : n * 0 = 0
    OBVIOUS
  <2>2. Bill(w, {}) = 0 + 0 + NRepro * 0
    BY <1>1, <1>2 DEF Bill
  <2>. QED BY <2>1, <2>2, MaintenanceAssumption
<1>. QED BY <1>1, <1>2, <1>3 DEF Booked

LEMMA RevalidationInit == EventInit => RvInv
<1> SUFFICES ASSUME EventInit PROVE RvInv
  OBVIOUS
<1>1. /\ mode = 0 /\ pool = <<>> /\ next = 1 /\ memo = <<>> /\ Consistent
      /\ report = [m \in {"selective", "full"} |->
                      [confirmed |-> {}, demoted |-> {}, replays |-> 0]]
  BY TheModes DEF EventInit, Empty
<1>2. Looked
  <2>1. {pool[k] : k \in 1..(next - 1)} = {}
    BY <1>1
  <2>2. Points({}) = {} /\ DOMAIN memo = {}
    BY <1>1 DEF Points
  <2>3. memo \in [{} -> {}]
    BY <1>1
  <2>4. Points({pool[k] : k \in 1..(next - 1)}) = {}
    BY <2>1, <2>2
  <2>5. \E S : memo \in [Points({pool[k] : k \in 1..(next - 1)}) -> S]
    BY <2>3, <2>4
  <2>6. next \in 1..(Len(pool) + 1)
    <3>1. Len(pool) = 0
      BY <1>1
    <3>. QED BY <3>1, <1>1
  <2>7. \A f \in DOMAIN memo : memo[f] = Reproduces(Facts, f)
    BY <2>2
  <2>8. /\ mode \in 0..2 /\ pool = <<>>
        /\ \A m \in 1..2 : mode # m
    BY <1>1
  <2>. QED BY <2>5, <2>6, <2>7, <2>8 DEF Looked
<1>3. Reported
  <2>1. report \in [{"selective", "full"} ->
                       {[confirmed |-> {}, demoted |-> {}, replays |-> 0]}]
    BY <1>1
  <2>. QED BY <2>1 DEF Reported
<1>4. Books
  <2>1. \A m \in 1..2 : Passed(m) = {}
    BY <1>1 DEF Passed
  <2>2. \A m \in 1..2 : report[Modes[m]] =
           [confirmed |-> {}, demoted |-> {}, replays |-> 0]
    BY <1>1, TheModes
  <2>. QED BY <2>1, <2>2, EmptyBooks DEF Books
<1>. QED BY <1>1, <1>2, <1>3, <1>4 DEF RvInv

LEMMA BillGrows ==
    ASSUME NEW w, NEW D, NEW u, u \notin D, IsFiniteSet(D), IsFiniteSet(Points(D))
    PROVE  /\ IsFiniteSet(D \cup {u}) /\ IsFiniteSet(Points(D \cup {u}))
           /\ Bill(w, D \cup {u}) = Bill(w, D)
                + ((IF ForkPoint(u) \in Points(D) THEN 0 ELSE 1)
                   + (IF ~Reproduces(w, ForkPoint(u)) THEN 0
                      ELSE IF Sound(w, u) /\ NRepro > 1 THEN NRepro ELSE 1))
<1>0. NRepro \in Nat
  BY MaintenanceAssumption
<1>1. Points(D \cup {u}) = Points(D) \cup {ForkPoint(u)}
  BY DEF Points
<1>2. /\ Ran(w, D \cup {u}) = Ran(w, D) \cup Ran(w, {u})
      /\ Repeated(w, D \cup {u}) = Repeated(w, D) \cup Repeated(w, {u})
  BY DEF Ran, Repeated
<1>3. /\ Ran(w, D) \in SUBSET D /\ Repeated(w, D) \in SUBSET D
      /\ u \notin Ran(w, D) /\ u \notin Repeated(w, D)
  BY DEF Ran, Repeated
<1>4. IsFiniteSet(Ran(w, D)) /\ IsFiniteSet(Repeated(w, D))
  BY <1>3, FS_Subset
<1>5. PICK p \in Nat, r \in Nat, q \in Nat :
         /\ p = Cardinality(Points(D)) /\ r = Cardinality(Ran(w, D))
         /\ q = Cardinality(Repeated(w, D))
  BY <1>4, FS_CardinalityType
<1>6. /\ IsFiniteSet(Points(D \cup {u}))
      /\ Cardinality(Points(D \cup {u})) =
            IF ForkPoint(u) \in Points(D) THEN p ELSE p + 1
  <2>1. PICK f : f = ForkPoint(u)
    OBVIOUS
  <2>2. PICK P : P = Points(D)
    OBVIOUS
  <2>3. IsFiniteSet(P) /\ p = Cardinality(P)
    BY <1>5, <2>2
  <2>4. /\ IsFiniteSet(P \cup {f})
        /\ Cardinality(P \cup {f}) = IF f \in P THEN Cardinality(P)
                                     ELSE Cardinality(P) + 1
    BY <2>3, FS_AddElement
  <2>5. Points(D \cup {u}) = P \cup {f}
    BY <1>1, <2>1, <2>2
  <2>. QED BY <2>1, <2>2, <2>3, <2>4, <2>5
<1>7. Cardinality(Ran(w, D) \cup {u}) = r + 1
  BY <1>3, <1>4, <1>5, FS_AddElement
<1>8. Cardinality(Repeated(w, D) \cup {u}) = q + 1
  BY <1>3, <1>4, <1>5, FS_AddElement
<1>9. NRepro * (q + 1) = NRepro * q + NRepro /\ NRepro * q \in Nat
  BY <1>0, Z3
<1>10. Bill(w, D) = p + r + NRepro * q
  BY <1>5 DEF Bill
<1>11. CASE ~Reproduces(w, ForkPoint(u))
  <2>1. Ran(w, {u}) = {} /\ Repeated(w, {u}) = {}
    BY <1>11 DEF Ran, Repeated, Sound
  <2>2. /\ Cardinality(Ran(w, D \cup {u})) = r
        /\ Cardinality(Repeated(w, D \cup {u})) = q
    BY <1>2, <1>5, <2>1
  <2>. QED BY <1>0, <1>6, <1>9, <1>10, <1>11, <2>2, FS_AddElement DEF Bill
<1>12. CASE Reproduces(w, ForkPoint(u)) /\ Sound(w, u) /\ NRepro > 1
  <2>1. Ran(w, {u}) = {} /\ Repeated(w, {u}) = {u}
    BY <1>12 DEF Ran, Repeated
  <2>2. /\ Cardinality(Ran(w, D \cup {u})) = r
        /\ Cardinality(Repeated(w, D \cup {u})) = q + 1
    BY <1>2, <1>5, <1>8, <2>1
  <2>. QED BY <1>0, <1>6, <1>9, <1>10, <1>12, <2>2, FS_AddElement DEF Bill
<1>13. CASE Reproduces(w, ForkPoint(u)) /\ ~(Sound(w, u) /\ NRepro > 1)
  <2>1. Ran(w, {u}) = {u} /\ Repeated(w, {u}) = {}
    BY <1>13 DEF Ran, Repeated
  <2>2. /\ Cardinality(Ran(w, D \cup {u})) = r + 1
        /\ Cardinality(Repeated(w, D \cup {u})) = q
    BY <1>2, <1>5, <1>7, <2>1
  <2>. QED BY <1>0, <1>6, <1>9, <1>10, <1>13, <2>2, FS_AddElement DEF Bill
<1>. QED BY <1>11, <1>12, <1>13

LEMMA BillIsMonotone ==
    ASSUME NEW w, NEW D, NEW C \in SUBSET D,
           IsFiniteSet(D), IsFiniteSet(Points(D))
    PROVE  Bill(w, C) <= Bill(w, D)
<1>0. NRepro \in Nat
  BY MaintenanceAssumption
<1>1. /\ Points(C) \in SUBSET Points(D)
      /\ Ran(w, C) \in SUBSET Ran(w, D)
      /\ Repeated(w, C) \in SUBSET Repeated(w, D)
  BY DEF Points, Ran, Repeated
<1>2. IsFiniteSet(Ran(w, D)) /\ IsFiniteSet(Repeated(w, D))
  <2>1. Ran(w, D) \in SUBSET D /\ Repeated(w, D) \in SUBSET D
    BY DEF Ran, Repeated
  <2>. QED BY <2>1, FS_Subset
<1>3. PICK p \in Nat, r \in Nat, q \in Nat :
         /\ p = Cardinality(Points(D)) /\ r = Cardinality(Ran(w, D))
         /\ q = Cardinality(Repeated(w, D))
  BY <1>2, FS_CardinalityType
<1>4. /\ IsFiniteSet(Points(C)) /\ IsFiniteSet(Ran(w, C))
      /\ IsFiniteSet(Repeated(w, C))
      /\ Cardinality(Points(C)) <= p /\ Cardinality(Ran(w, C)) <= r
      /\ Cardinality(Repeated(w, C)) <= q
  BY <1>1, <1>2, <1>3, FS_Subset
<1>5. PICK p1 \in Nat, r1 \in Nat, q1 \in Nat :
         /\ p1 = Cardinality(Points(C)) /\ r1 = Cardinality(Ran(w, C))
         /\ q1 = Cardinality(Repeated(w, C))
  BY <1>4, FS_CardinalityType
<1>6. NRepro * q1 <= NRepro * q /\ NRepro * q1 \in Nat /\ NRepro * q \in Nat
  BY <1>0, <1>4, <1>5, Z3
<1>. QED BY <1>3, <1>4, <1>5, <1>6 DEF Bill

\* A step leaves the world alone, and with it the targets.
LEMMA WorldStays ==
    ASSUME UNCHANGED world
    PROVE  /\ Facts' = Facts
           /\ Consistent => Consistent'
           /\ \A m : Targets(m)' = Targets(m)
<1>1. /\ stored' = stored /\ event' = event
      /\ reproduces' = reproduces /\ works' = works
  BY DEF world
<1>2. Facts' = Facts
  BY <1>1 DEF Facts
<1>3. Consistent => Consistent'
  BY <1>1 DEF Consistent, Loaded
<1>4. Pooled' = Pooled
  BY <1>1 DEF Pooled
<1>5. \A u : NeedsRevalidation(u)' <=> NeedsRevalidation(u)
  BY <1>1 DEF NeedsRevalidation, Current
<1>6. \A i : Loaded(i)' = Loaded(i)
  BY <1>1 DEF Loaded
<1>7. \A m : Targets(m)' = Targets(m)
  BY <1>4, <1>5, <1>6 DEF Targets
<1>. QED BY <1>2, <1>3, <1>7

\* What the code reads through the cache is what the world says.
LEMMA ControlReads ==
    ASSUME Looked, NEW u
    PROVE  /\ Control(u) <=> Reproduces(Facts, ForkPoint(u))
           /\ Control(u) /\ Flips(u) <=> Sound(Facts, u)
           /\ Control(u) \in BOOLEAN
<1>1. /\ Facts.event = event /\ Facts.reproduces = reproduces
      /\ Facts.works = works
  BY DEF Facts
<1>2. Now(Facts, u.episode) = Environment(u)
  BY <1>1 DEF Now, Environment
<1>3. ForkPoint(u) = <<u.episode, StepOf[u.edit]>>
  BY DEF ForkPoint
<1>4. Reproduces(Facts, ForkPoint(u)) <=>
         <<u.episode, StepOf[u.edit], Environment(u)>> \in reproduces
  BY <1>1, <1>2, <1>3 DEF Reproduces
<1>5. Control(u) = Reproduces(Facts, ForkPoint(u))
  <2>1. CASE ForkPoint(u) \in DOMAIN memo
    BY <2>1 DEF Looked, Control
  <2>2. CASE ForkPoint(u) \notin DOMAIN memo
    BY <1>4, <2>2 DEF Control, Reproduces
  <2>. QED BY <2>1, <2>2
<1>6. Flips(u) <=> <<u.episode, u.edit, Now(Facts, u.episode)>> \in Facts.works
  BY <1>1, <1>2 DEF Flips
<1>7. Reproduces(Facts, ForkPoint(u)) \in BOOLEAN
  BY DEF Reproduces
<1>. QED BY <1>5, <1>6, <1>7 DEF Sound

LEMMA RecheckBooks ==
    ASSUME RvInv, Recheck PROVE RvInv'
<1>1. PICK u : u = pool[next]
  OBVIOUS
<1>2. /\ UNCHANGED world /\ mode' = mode /\ pool' = pool /\ next' = next + 1
      /\ next <= Len(pool)
      /\ report' = [report EXCEPT ![Modes[mode]] =
                       Outcome(report[Modes[mode]], u)]
      /\ memo' = [f \in DOMAIN memo \cup {ForkPoint(u)} |->
                     IF f = ForkPoint(u) THEN Control(u) ELSE memo[f]]
  BY <1>1 DEF Recheck
<1>3. /\ Facts' = Facts /\ Consistent'
      /\ \A m : Targets(m)' = Targets(m)
  BY <1>2, WorldStays DEF RvInv
<1>4. mode \in 1..2 /\ pool = InOrder(Targets(Modes[mode]))
  BY <1>2 DEF RvInv, Looked
<1>5. PICK n \in Nat : Len(pool) = n /\ next \in 1..n
  <2>1. Numbering(Targets(Modes[mode]))
    BY TargetsAreNumbered
  <2>2. pool \in Seq(Targets(Modes[mode]))
    BY <1>4, <2>1, ListOfTargets
  <2>. QED BY <1>2, <2>2 DEF RvInv, Looked
<1>6. \A j, k \in 1..n : pool[j] = pool[k] => j = k
  BY <1>4, <1>5, TargetsAreNumbered, ListOfTargets
<1>7. PICK D : D = {pool[k] : k \in 1..(next - 1)}
  OBVIOUS
<1>8. u \notin D /\ {pool[k] : k \in 1..next} = D \cup {u}
  <2>1. u \notin D
    BY <1>1, <1>5, <1>6, <1>7
  <2>2. 1..next = 1..(next - 1) \cup {next}
    BY <1>5
  <2>. QED BY <1>1, <1>7, <2>1, <2>2
<1>9. Passed(mode) = D /\ (Passed(mode))' = D \cup {u}
  <2>1. next' - 1 = next
    BY <1>2, <1>5
  <2>. QED BY <1>2, <1>4, <1>7, <1>8, <2>1 DEF Passed
<1>10. DOMAIN memo = Points(D) /\ DOMAIN memo' = Points(D \cup {u})
  <2>1. DOMAIN memo = Points(D)
    BY <1>7 DEF RvInv, Looked
  <2>. QED BY <1>2, <2>1 DEF Points
<1>11. /\ Control(u) <=> Reproduces(Facts, ForkPoint(u))
       /\ Control(u) /\ Flips(u) <=> Sound(Facts, u)
       /\ Control(u) \in BOOLEAN
  BY ControlReads DEF RvInv
<1>12. Looked'
  <2>1. next' \in 1..(Len(pool') + 1)
    BY <1>2, <1>5
  <2>2. \A m \in 1..2 : (InOrder(Targets(Modes[m])))' =
                          InOrder(Targets(Modes[m]))
    <3> SUFFICES ASSUME NEW m \in 1..2
                 PROVE  (InOrder(Targets(Modes[m])))' =
                           InOrder(Targets(Modes[m]))
      OBVIOUS
    <3>1. (Targets(Modes[m]))' = Targets(Modes[m])
      BY <1>3
    <3>. QED BY <3>1 DEF InOrder
  <2>3. \A m \in 1..2 : mode' = m =>
           pool' = (InOrder(Targets(Modes[m])))'
    BY <1>2, <2>2 DEF RvInv, Looked
  <2>4. \A f \in DOMAIN memo' : memo'[f] = Reproduces(Facts, f)
    <3>1. \A f \in DOMAIN memo : memo[f] = Reproduces(Facts, f)
      BY DEF RvInv, Looked
    <3>2. Control(u) = Reproduces(Facts, ForkPoint(u))
      BY <1>11 DEF Reproduces
    <3>. QED BY <1>2, <3>1, <3>2
  <2>5. \E S : memo' \in [Points(D \cup {u}) -> S]
    <3>1. memo' \in [DOMAIN memo' -> {memo'[f] : f \in DOMAIN memo'}]
      BY <1>2
    <3>. QED BY <1>10, <3>1
  <2>6. {pool'[k] : k \in 1..(next' - 1)} = D \cup {u}
    <3>1. next' - 1 = next
      BY <1>2, <1>5
    <3>. QED BY <1>2, <1>8, <3>1
  <2>7. \E S : memo' \in [Points({pool'[k] : k \in 1..(next' - 1)}) -> S]
    BY <2>5, <2>6
  <2>8. \A f \in DOMAIN memo' : memo'[f] = Reproduces(Facts', f)
    BY <1>3, <2>4
  <2>9. mode' \in 0..2 /\ mode' # 0
    BY <1>2, <1>4
  <2>. QED BY <2>1, <2>3, <2>7, <2>8, <2>9 DEF Looked
<1>13. PICK r : r = report[Modes[mode]]
  OBVIOUS
<1>14. Reported' /\ report'[Modes[mode]] = Outcome(r, u)
       /\ \A m \in 1..2 : m # mode => report'[Modes[m]] = report[Modes[m]]
  <2>1. PICK S : report \in [{"selective", "full"} -> S]
    BY DEF RvInv, Reported
  <2>2. Modes[mode] \in {"selective", "full"}
    BY <1>4, TheModes
  <2>3. report'[Modes[mode]] = Outcome(r, u)
    BY <1>2, <1>13, <2>1, <2>2
  <2>4. report' \in [{"selective", "full"} -> S \cup {Outcome(r, u)}]
    BY <1>2, <1>13, <2>1
  <2>5. \A m \in 1..2 : m # mode => Modes[m] # Modes[mode]
    BY <1>4, TheModes
  <2>6. \A m \in 1..2 : Modes[m] \in {"selective", "full"}
    BY TheModes
  <2>7. \A m \in 1..2 : m # mode => report'[Modes[m]] = report[Modes[m]]
    BY <1>2, <2>1, <2>5, <2>6
  <2>. QED BY <2>3, <2>4, <2>7 DEF Reported
<1>15. Booked(Facts, r, D)
  BY <1>4, <1>9, <1>13 DEF RvInv, Books
<1>16. Booked(Facts, Outcome(r, u), D \cup {u})
  <2>1. Confirmed(u) <=> Sound(Facts, u) /\ NRepro # 0
    BY <1>11 DEF Confirmed
  <2>2. PICK o : o = Outcome(r, u)
    OBVIOUS
  <2>3. /\ o.confirmed = IF Confirmed(u) THEN r.confirmed \cup {u.unit}
                         ELSE r.confirmed
        /\ o.demoted = IF Confirmed(u) THEN r.demoted
                       ELSE r.demoted \cup {u.unit}
        /\ o.replays = r.replays + Replays(u)
    BY <2>2 DEF Outcome
  <2>4. Replays(u) =
           (IF ForkPoint(u) \in Points(D) THEN 0 ELSE 1)
           + (IF ~Reproduces(Facts, ForkPoint(u)) THEN 0
              ELSE IF Sound(Facts, u) /\ NRepro > 1 THEN NRepro ELSE 1)
    BY <1>10, <1>11 DEF Replays
  <2>5. /\ IsFiniteSet(D \cup {u}) /\ IsFiniteSet(Points(D \cup {u}))
        /\ Bill(Facts, D \cup {u}) = Bill(Facts, D) + Replays(u)
    BY <1>8, <1>15, <2>4, BillGrows DEF Booked
  <2>6. o.replays = Bill(Facts, D \cup {u})
    BY <1>15, <2>3, <2>5 DEF Booked
  <2>7. o.confirmed =
           {x.unit : x \in {v \in D \cup {u} : Sound(Facts, v) /\ NRepro # 0}}
    BY <1>15, <2>1, <2>3 DEF Booked
  <2>8. o.demoted =
           {x.unit : x \in {v \in D \cup {u} : ~(Sound(Facts, v) /\ NRepro # 0)}}
    BY <1>15, <2>1, <2>3 DEF Booked
  <2>. QED BY <2>2, <2>5, <2>6, <2>7, <2>8 DEF Booked
<1>17. Books'
  <2>1. \A m \in 1..2 : m # mode => (Passed(m))' = Passed(m)
    BY <1>2, <1>3 DEF Passed
  <2>2. \A m \in 1..2 : m # mode =>
           Booked(Facts, report'[Modes[m]], (Passed(m))')
    BY <1>14, <2>1 DEF RvInv, Books
  <2>3. Booked(Facts, report'[Modes[mode]], (Passed(mode))')
    BY <1>9, <1>14, <1>16
  <2>4. \A m \in 1..2 : Booked(Facts, report'[Modes[m]], (Passed(m))')
    <3> SUFFICES ASSUME NEW m \in 1..2
                 PROVE  Booked(Facts, report'[Modes[m]], (Passed(m))')
      OBVIOUS
    <3>1. CASE m = mode
      <4>1. (Passed(m))' = D \cup {u}
        BY <1>2, <1>9, <3>1 DEF Passed
      <4>. QED BY <1>14, <1>16, <3>1, <4>1
    <3>2. CASE m # mode
      BY <2>2, <3>2
    <3>. QED BY <3>1, <3>2
  <2>. QED BY <1>3, <2>4 DEF Books
<1>. QED BY <1>3, <1>12, <1>14, <1>17 DEF RvInv

LEMMA BeginModeBooks ==
    ASSUME RvInv, BeginMode PROVE RvInv'
<1>1. /\ UNCHANGED world /\ report' = report /\ next' = 1 /\ memo' = <<>>
      /\ mode' = mode + 1 /\ next > Len(pool) /\ mode < 2
      /\ pool' = InOrder(Targets(Modes[mode + 1]))
  BY TheModes DEF BeginMode
<1>2. /\ Facts' = Facts /\ Consistent'
      /\ \A m : Targets(m)' = Targets(m)
  BY <1>1, WorldStays DEF RvInv
<1>3. mode \in 0..1 /\ mode' \in 1..2
  BY <1>1 DEF RvInv, Looked
<1>4. \A m \in 1..2 : (Passed(m))' = Passed(m)
  <2> SUFFICES ASSUME NEW m \in 1..2 PROVE (Passed(m))' = Passed(m)
    OBVIOUS
  <2>1. (Targets(Modes[m]))' = Targets(Modes[m])
    BY <1>2
  <2>2. CASE mode > m
    BY <1>1, <1>3, <2>1, <2>2 DEF Passed
  <2>3. CASE mode = m
    <3>1. PICK T : T = Targets(Modes[m])
      OBVIOUS
    <3>2. Numbering(T) /\ pool = InOrder(T)
      BY <2>3, <3>1, TargetsAreNumbered DEF RvInv, Looked
    <3>3. T = {pool[k] : k \in 1..Len(pool)} /\ Len(pool) \in Nat
      BY <3>2, ListOfTargets
    <3>4. next - 1 = Len(pool)
      BY <1>1, <3>3 DEF RvInv, Looked
    <3>5. Passed(m) = T
      BY <1>3, <2>3, <3>3, <3>4 DEF Passed
    <3>6. (Passed(m))' = T
      BY <1>1, <1>3, <2>1, <2>3, <3>1 DEF Passed
    <3>. QED BY <3>5, <3>6
  <2>4. CASE mode + 1 = m
    <3>1. 1..(next' - 1) = {}
      BY <1>1
    <3>2. (Passed(m))' = {pool'[k] : k \in 1..(next' - 1)}
      BY <1>1, <1>3, <2>4 DEF Passed
    <3>3. (Passed(m))' = {}
      BY <3>1, <3>2
    <3>4. Passed(m) = {}
      BY <1>3, <2>4 DEF Passed
    <3>. QED BY <3>3, <3>4
  <2>5. CASE mode + 1 < m
    BY <1>1, <1>3, <2>5 DEF Passed
  <2>. QED BY <1>3, <2>2, <2>3, <2>4, <2>5
<1>5. Books'
  <2>1. \A m \in 1..2 : Booked(Facts', report'[Modes[m]], (Passed(m))')
    BY <1>1, <1>2, <1>4 DEF RvInv, Books
  <2>. QED BY <2>1 DEF Books
<1>6. Looked'
  <2>1. \A m \in 1..2 : (InOrder(Targets(Modes[m])))' =
                          InOrder(Targets(Modes[m]))
    <3> SUFFICES ASSUME NEW m \in 1..2
                 PROVE  (InOrder(Targets(Modes[m])))' =
                           InOrder(Targets(Modes[m]))
      OBVIOUS
    <3>1. (Targets(Modes[m]))' = Targets(Modes[m])
      BY <1>2
    <3>. QED BY <3>1 DEF InOrder
  <2>2. \A m \in 1..2 : mode' = m =>
           pool' = (InOrder(Targets(Modes[m])))'
    BY <1>1, <1>3, <2>1
  <2>3. {pool'[k] : k \in 1..(next' - 1)} = {}
    BY <1>1
  <2>4. Points({}) = {}
    BY DEF Points
  <2>5. DOMAIN memo' = {} /\ memo' \in [{} -> {}]
    BY <1>1
  <2>6. \E S : memo' \in [Points({pool'[k] : k \in 1..(next' - 1)}) -> S]
    BY <2>3, <2>4, <2>5
  <2>7. next' \in 1..(Len(pool') + 1)
    <3>1. PICK m \in 1..2 : m = mode + 1
      BY <1>3
    <3>2. Len(pool') \in Nat
      BY <1>1, <3>1, TargetsAreNumbered, ListOfTargets
    <3>. QED BY <1>1, <3>2
  <2>8. mode' \in 0..2 /\ mode' # 0
    BY <1>3
  <2>. QED BY <2>2, <2>5, <2>6, <2>7, <2>8 DEF Looked
<1>7. Reported'
  BY <1>1 DEF RvInv, Reported
<1>. QED BY <1>2, <1>5, <1>6, <1>7 DEF RvInv

LEMMA RevalidationNext ==
    ASSUME RvInv, [EventNext]_(eventVars) PROVE RvInv'
<1>1. CASE BeginMode
  BY <1>1, BeginModeBooks
<1>2. CASE Recheck
  BY <1>2, RecheckBooks
<1>3. CASE UNCHANGED <<world, mode, pool, next, memo, report>>
  <2>1. /\ UNCHANGED world /\ mode' = mode /\ pool' = pool /\ next' = next
        /\ memo' = memo /\ report' = report
    BY <1>3
  <2>2. /\ Facts' = Facts /\ Consistent'
        /\ \A m : Targets(m)' = Targets(m)
    BY <2>1, WorldStays DEF RvInv
  <2>3. \A m \in 1..2 : (Passed(m))' = Passed(m)
    BY <2>1, <2>2 DEF Passed
  <2>4. \A m \in 1..2 : (InOrder(Targets(Modes[m])))' =
                          InOrder(Targets(Modes[m]))
    <3> SUFFICES ASSUME NEW m \in 1..2
                 PROVE  (InOrder(Targets(Modes[m])))' =
                           InOrder(Targets(Modes[m]))
      OBVIOUS
    <3>1. (Targets(Modes[m]))' = Targets(Modes[m])
      BY <2>2
    <3>. QED BY <3>1 DEF InOrder
  <2>5. Books'
    <3>1. \A m \in 1..2 : Booked(Facts', report'[Modes[m]], (Passed(m))')
      BY <2>1, <2>2, <2>3 DEF RvInv, Books
    <3>. QED BY <3>1 DEF Books
  <2>6. Looked'
    <3>1. \A f \in DOMAIN memo' : memo'[f] = Reproduces(Facts', f)
      BY <2>1, <2>2 DEF RvInv, Looked
    <3>2. \E S : memo' \in [Points({pool'[k] : k \in 1..(next' - 1)}) -> S]
      BY <2>1 DEF RvInv, Looked
    <3>3. \A m \in 1..2 : mode' = m =>
             pool' = (InOrder(Targets(Modes[m])))'
      BY <2>1, <2>4 DEF RvInv, Looked
    <3>4. /\ mode' \in 0..2 /\ next' \in 1..(Len(pool') + 1)
          /\ mode' = 0 => pool' = <<>>
      BY <2>1 DEF RvInv, Looked
    <3>. QED BY <3>1, <3>2, <3>3, <3>4 DEF Looked
  <2>7. Reported'
    BY <2>1 DEF RvInv, Reported
  <2>. QED BY <2>2, <2>5, <2>6, <2>7 DEF RvInv
<1>4. CASE RecheckRaises
  BY <1>3, <1>4 DEF RecheckRaises
<1>5. CASE UNCHANGED eventVars
  BY <1>3, <1>5 DEF eventVars
<1>. QED BY <1>1, <1>2, <1>4, <1>5 DEF EventNext

(***************************************************************************)
(* A unit that was made on the episode it is loaded onto, and that the     *)
(* event does not touch, held where it was made: it holds now.             *)
(***************************************************************************)
LEMMA UntouchedHold ==
    ASSUME RvInv, NEW i \in Pooled, Native(i)
    PROVE  /\ Loaded(i).episode = Units[i].episode
           /\ Loaded(i).edit = Units[i].edit
           /\ Now(Facts, Units[i].episode) =
                 Current[Family(Units[i].episode)]
           /\ ~NeedsRevalidation(Loaded(i)) => Sound(Facts, Loaded(i))
<1>1. i \in DOMAIN Units /\ stored[i] # Weak
  BY DEF Pooled
<1>2. /\ Loaded(i).episode = Units[i].episode
      /\ Loaded(i).edit = Units[i].edit
  BY DEF Loaded, Native
<1>3. Family(Units[i].episode) \in Families
  <2>1. PICK e \in BaseEps : TaskOf[Units[i].episode] = TaskOf[e]
    BY <1>1, MaintenanceAssumption
  <2>2. e \in DOMAIN TaskOf
    BY MaintenanceAssumption
  <2>3. TaskOf[e] \in Range(TaskOf)
    BY <2>2 DEF Range
  <2>4. FamilyOf[TaskOf[e]] \in Families
    BY <2>3, MaintenanceAssumption
  <2>. QED BY <2>1, <2>4 DEF Family
<1>4. /\ Facts.event = event /\ Facts.reproduces = reproduces
      /\ Facts.works = works
  BY DEF Facts
<1>5. Now(Facts, Units[i].episode) = Current[Family(Units[i].episode)]
  <2>1. PICK f \in Families : f = Family(Units[i].episode)
    BY <1>3
  <2>2. Current[f] = IF f = event.family THEN event.version ELSE Today[f]
    BY MaintenanceAssumption DEF Current
  <2>. QED BY <1>4, <2>1, <2>2 DEF Now
<1>6. ASSUME ~NeedsRevalidation(Loaded(i))
      PROVE  Sound(Facts, Loaded(i))
  <2>1. Loaded(i).claim = Now(Facts, Units[i].episode)
    BY <1>2, <1>5, <1>6 DEF NeedsRevalidation
  <2>2. /\ <<Units[i].episode, StepOf[Units[i].edit], Loaded(i).claim>>
              \in reproduces
        /\ <<Units[i].episode, Units[i].edit, Loaded(i).claim>> \in works
    BY <1>1 DEF RvInv, Consistent
  <2>3. ForkPoint(Loaded(i)) = <<Units[i].episode, StepOf[Units[i].edit]>>
    BY <1>2 DEF ForkPoint
  <2>4. Reproduces(Facts, ForkPoint(Loaded(i)))
    BY <1>4, <2>1, <2>2, <2>3 DEF Reproduces
  <2>. QED BY <1>2, <1>4, <2>1, <2>2, <2>4 DEF Sound
<1>. QED BY <1>2, <1>5, <1>6

\* What the books of a mode that is over say.
LEMMA PassOver ==
    ASSUME RvInv, NEW m \in 1..2, Over(m)
    PROVE  Booked(Facts, report[Modes[m]], Targets(Modes[m]))
<1>1. CASE mode > m
  <2>1. Passed(m) = Targets(Modes[m])
    BY <1>1 DEF Passed
  <2>. QED BY <2>1 DEF RvInv, Books
<1>2. CASE mode = m /\ next > Len(pool)
  <2>1. PICK T : T = Targets(Modes[m])
    OBVIOUS
  <2>2. Numbering(T) /\ pool = InOrder(T)
    BY <1>2, <2>1, TargetsAreNumbered DEF RvInv, Looked
  <2>3. T = {pool[k] : k \in 1..Len(pool)} /\ Len(pool) \in Nat
    BY <2>2, ListOfTargets
  <2>4. next - 1 = Len(pool)
    BY <1>2, <2>3 DEF RvInv, Looked
  <2>5. Passed(m) = T
    BY <1>2, <2>3, <2>4 DEF Passed
  <2>. QED BY <2>1, <2>5 DEF RvInv, Books
<1>. QED BY <1>1, <1>2 DEF Over

(***************************************************************************)
(* What a selective mode keeps holds: a demotion is never missed, whether  *)
(* the mode looked at the unit or not.                                     *)
(***************************************************************************)
THEOREM KeptUnitsHold == EventSpec => []SurvivorsHold
<1>1. ASSUME RvInv PROVE SurvivorsHold
  <2> SUFFICES ASSUME Over(1),
                      NEW i \in Pooled \ report["selective"].demoted,
                      Native(i)
               PROVE  /\ <<Units[i].episode, StepOf[Units[i].edit],
                           Current[Family(Units[i].episode)]>> \in reproduces
                      /\ <<Units[i].episode, Units[i].edit,
                           Current[Family(Units[i].episode)]>> \in works
    BY DEF SurvivorsHold
  <2>1. PICK u : u = Loaded(i)
    OBVIOUS
  <2>2. /\ u.episode = Units[i].episode /\ u.edit = Units[i].edit /\ u.unit = i
        /\ Now(Facts, u.episode) = Current[Family(Units[i].episode)]
        /\ ~NeedsRevalidation(u) => Sound(Facts, u)
    BY <1>1, <2>1, UntouchedHold DEF Loaded
  <2>3. Sound(Facts, u)
    <3>1. CASE NeedsRevalidation(u)
      <4>1. u \in Targets("selective")
        BY <2>1, <3>1 DEF Targets
      <4>2. Booked(Facts, report["selective"], Targets("selective"))
        BY <1>1, PassOver, TheModes
      <4>. QED BY <2>2, <4>1, <4>2 DEF Booked
    <3>. QED BY <2>2, <3>1
  <2>4. /\ Facts.reproduces = reproduces /\ Facts.works = works
        /\ ForkPoint(u) = <<u.episode, StepOf[u.edit]>>
    BY DEF Facts, ForkPoint
  <2>5. <<u.episode, StepOf[u.edit], Now(Facts, u.episode)>> \in reproduces
    BY <2>3, <2>4 DEF Sound, Reproduces
  <2>6. <<u.episode, u.edit, Now(Facts, u.episode)>> \in works
    BY <2>3, <2>4 DEF Sound
  <2>. QED BY <2>2, <2>5, <2>6
<1>. QED BY <1>1, RevalidationInit, RevalidationNext, PTL DEF EventSpec

(***************************************************************************)
(* Of the units made on the episode they are loaded onto, the passes       *)
(* demote the same ones, and the selective mode pays for no more replays.  *)
(* With n_repro = 0 the code demotes what it looks at: then they differ.   *)
(***************************************************************************)
THEOREM SelectiveIsEnough ==
    ASSUME NRepro # 0 PROVE EventSpec => []PassesAgree
<1>1. ASSUME RvInv PROVE PassesAgree
  <2> SUFFICES ASSUME Over(2)
               PROVE  /\ \A i \in report["full"].demoted :
                            Native(i) => i \in report["selective"].demoted
                      /\ report["selective"].demoted \subseteq report["full"].demoted
                      /\ report["selective"].replays <= report["full"].replays
    BY DEF PassesAgree
  <2>1. PICK S, T : S = Targets("selective") /\ T = Targets("full")
    OBVIOUS
  <2>2. Booked(Facts, report["full"], T)
    BY <1>1, <2>1, PassOver, TheModes
  <2>3. Booked(Facts, report["selective"], S)
    <3>1. Over(1)
      BY <1>1 DEF Over, RvInv, Looked
    <3>. QED BY <1>1, <2>1, <3>1, PassOver, TheModes
  <2>4. /\ S = {u \in T : NeedsRevalidation(u)}
        /\ \A u \in T : \E i \in Pooled : u = Loaded(i) /\ u.unit = i
    <3>1. T = {Loaded(i) : i \in Pooled}
      BY <2>1 DEF Targets
    <3>2. S = {u \in T : NeedsRevalidation(u)}
      BY <2>1, <3>1 DEF Targets
    <3>3. \A i : Loaded(i).unit = i
      BY DEF Loaded
    <3>. QED BY <3>1, <3>2, <3>3
  <2>5. \A i \in report["full"].demoted :
           Native(i) => i \in report["selective"].demoted
    <3> SUFFICES ASSUME NEW i \in report["full"].demoted, Native(i)
                 PROVE  i \in report["selective"].demoted
      OBVIOUS
    <3>1. PICK u \in T : u.unit = i /\ ~(Sound(Facts, u) /\ NRepro # 0)
      BY <2>2 DEF Booked
    <3>2. i \in Pooled /\ u = Loaded(i)
      BY <2>4, <3>1
    <3>3. NeedsRevalidation(u)
      BY <1>1, <3>1, <3>2, UntouchedHold
    <3>4. u \in S
      BY <2>4, <3>3
    <3>. QED BY <2>3, <3>1, <3>4 DEF Booked
  <2>6. report["selective"].demoted \subseteq report["full"].demoted
    BY <2>2, <2>3, <2>4 DEF Booked
  <2>7. report["selective"].replays <= report["full"].replays
    <3>1. S \in SUBSET T
      BY <2>4
    <3>2. Bill(Facts, S) <= Bill(Facts, T)
      BY <2>2, <3>1, BillIsMonotone DEF Booked
    <3>. QED BY <2>2, <2>3, <3>2 DEF Booked
  <2>. QED BY <2>5, <2>6, <2>7
<1>. QED BY <1>1, RevalidationInit, RevalidationNext, PTL DEF EventSpec
=============================================================================
