----------------------------- MODULE RunDirectory -----------------------------
(***************************************************************************)
(* The life of a run directory: prepare_run_dir clears what is at --out    *)
(* and makes it anew, the run puts trees and RunStore.save writes its four *)
(* files.  Every process names the directory by its path, so that each     *)
(* step meets whatever directory is there by then.  Processes of several   *)
(* invocations with one --out may overlap, and die anywhere.               *)
(***************************************************************************)
EXTENDS Integers, Sequences, FiniteSets, Functions

CONSTANT
    Procs       \* invocations of the engine with the same --out

NoMarker == "none"

EmptyMarker == "empty"

NoOne == "nobody"

ASSUME DirectoryAssumption ==
    {NoMarker, EmptyMarker, NoOne} \cap Procs = {}

(* Where a directory is: at --out, in the trash under the run id of its    *)
(* marker, or below a directory that had that name already.                *)
Out == <<"out">>

Trash(id) == <<"trash", id>>

Nested(id) == <<"trash", id, "out">>

(* In the order save writes them, and what one may hold.                   *)
Files == <<"episodes", "snapshots", "units", "report">>

Unwritten == [by |-> NoOne, whole |-> FALSE]

Torn(p) == [by |-> p, whole |-> FALSE]

Whole(p) == [by |-> p, whole |-> TRUE]

VARIABLES
    dirs,        \* the directories made so far: maker (NoOne for what the
                 \* user keeps), place, marker, trees, and files
    proc,        \* each process: position, run id it read, file it is at,
                 \* directory of the file it has open
    overlapped   \* the processes that lived while another one did

vars == <<dirs, proc, overlapped>>

Made(p, at) ==
    [maker |-> p, at |-> at, marker |-> NoMarker, trees |-> {},
     files |-> [f \in DOMAIN Files |-> Unwritten]]

Fresh(pc) == [pc |-> pc, id |-> NoOne, file |-> 1, fd |-> 0]

(* There is nothing at --out, or something the user keeps there.           *)
Init ==
    /\ dirs \in {<<>>, <<Made(NoOne, Out)>>}
    /\ proc = [p \in Procs |-> Fresh("new")]
    /\ overlapped = {}

-----------------------------------------------------------------------------
(* Updates of a directory and of a process.                                *)
MovedTo(d, place) == [d EXCEPT !.at = place]

WithMarker(d, marker) == [d EXCEPT !.marker = marker]

WithTree(d, p) == [d EXCEPT !.trees = @ \cup {p}]

WithFile(d, f, w) == [d EXCEPT !.files = [@ EXCEPT ![f] = w]]

At(r, pc) == [r EXCEPT !.pc = pc]

WithId(r, id) == [r EXCEPT !.id = id]

WithFd(r, k) == [r EXCEPT !.fd = k]

AtFile(r, f) == [r EXCEPT !.file = f]

In(place) == {k \in DOMAIN dirs : dirs[k].at = place}

Exists == In(Out) # {}

Here == CHOOSE k \in In(Out) : TRUE

Ended == {"new", "done", "raised", "dead"}

Live == {p \in Procs : proc[p].pc \notin Ended}

(* On to a step that needs nothing of what the process held before.        *)
Goto(p, pc) == proc' = [proc EXCEPT ![p] = Fresh(pc)]

(* The marker is a file.                                                   *)
Clearable(k) == dirs[k].marker # NoMarker

(* A process starts; prepare_run_dir looks at --out.                       *)
Check(p) ==
    /\ proc[p].pc = "new"
    /\ overlapped' = IF Live = {} THEN overlapped ELSE overlapped \cup Live \cup {p}
    /\ Goto(p, CASE ~Exists -> "mkdir"
                 [] Exists /\ Clearable(Here) -> "read"
                 [] Exists /\ ~Clearable(Here) -> "raised")
    /\ UNCHANGED dirs

(* The old run's id is read from the marker; an empty marker is no JSON.   *)
ReadId(p) ==
    /\ proc[p].pc = "read"
    /\ IF Exists /\ dirs[Here].marker \in Procs
         THEN proc' = [proc EXCEPT ![p] = WithId(At(@, "move"), dirs[Here].marker)]
         ELSE Goto(p, "raised")
    /\ UNCHANGED <<dirs, overlapped>>

(* Mutant: the old directory stays and is used again.                      *)
MoveNothing(p) ==
    /\ proc[p].pc = "move"
    /\ Exists
    /\ Goto(p, "mark")
    /\ UNCHANGED <<dirs, overlapped>>

(* shutil.move of what is at --out by now: it moves into a directory that  *)
(* has the name, and raises when that has one of its own.                  *)
Move(p) ==
    LET id == proc[p].id IN
    /\ proc[p].pc = "move"
    /\ \/ /\ Exists
          /\ \E place \in {Trash(id), Nested(id)} :
                /\ In(place) = {}
                /\ place = Nested(id) => In(Trash(id)) # {}
                /\ dirs' = [dirs EXCEPT ![Here] = MovedTo(@, place)]
          /\ Goto(p, "mkdir")
       \/ /\ ~Exists \/ In(Trash(id)) # {}
          /\ Goto(p, "raised")
          /\ UNCHANGED dirs
    /\ UNCHANGED overlapped

Mkdir(p) ==
    /\ proc[p].pc = "mkdir"
    /\ IF Exists
         THEN /\ Goto(p, "raised")
              /\ UNCHANGED dirs
         ELSE /\ dirs' = Append(dirs, Made(p, Out))
              /\ Goto(p, "mark")
    /\ UNCHANGED overlapped

(* The marker is created, in whatever directory is at --out by now.        *)
Mark(p) ==
    /\ proc[p].pc = "mark"
    /\ IF Exists
         THEN /\ dirs' = [dirs EXCEPT ![Here] = WithMarker(@, EmptyMarker)]
              /\ proc' = [proc EXCEPT ![p] = WithFd(At(@, "fill"), Here)]
         ELSE /\ Goto(p, "raised")
              /\ UNCHANGED dirs
    /\ UNCHANGED overlapped

(* Mutant: the run id stays in the buffer.                                 *)
FillNothing(p) ==
    /\ proc[p].pc = "fill"
    /\ Goto(p, "put")
    /\ UNCHANGED <<dirs, overlapped>>

(* ... and filled; prepare_run_dir returns.                                *)
Fill(p) ==
    /\ proc[p].pc = "fill"
    /\ dirs' = [dirs EXCEPT ![proc[p].fd] = WithMarker(@, p)]
    /\ Goto(p, "put")
    /\ UNCHANGED overlapped

-----------------------------------------------------------------------------
(* What the store and save open at --out: the directory that is there, or  *)
(* one they make with its parents, without a marker.                       *)
OpenedAt == IF Exists THEN Here ELSE Len(dirs) + 1

Opened(p) == IF Exists THEN dirs ELSE Append(dirs, Made(p, Out))

(* The run collects: its trees go to the store at --out.                   *)
Put(p) ==
    /\ proc[p].pc = "put"
    /\ dirs' = [Opened(p) EXCEPT ![OpenedAt] = WithTree(@, p)]
    /\ Goto(p, "open")
    /\ UNCHANGED overlapped

(* save opens and truncates its next file.                                 *)
Open(p) ==
    /\ proc[p].pc = "open"
    /\ dirs' = [Opened(p) EXCEPT
                  ![OpenedAt] = WithFile(@, proc[p].file, Torn(p))]
    /\ proc' = [proc EXCEPT ![p] = WithFd(At(@, "write"), OpenedAt)]
    /\ UNCHANGED overlapped

(* ... and writes and closes it, wherever its directory is by now.         *)
Write(p) ==
    LET f == proc[p].file IN
    /\ proc[p].pc = "write"
    /\ dirs' = [dirs EXCEPT ![proc[p].fd] = WithFile(@, f, Whole(p))]
    /\ IF f = Len(Files) THEN Goto(p, "done")
       ELSE proc' = [proc EXCEPT ![p] = AtFile(Fresh("open"), f + 1)]
    /\ UNCHANGED overlapped

Crash(p) ==
    /\ p \in Live
    /\ Goto(p, "dead")
    /\ UNCHANGED <<dirs, overlapped>>

Prepare(p) ==
    Check(p) \/ ReadId(p) \/ Move(p) \/ Mkdir(p) \/ Mark(p) \/ Fill(p)

Save(p) == Put(p) \/ Open(p) \/ Write(p)

Next == \E p \in Procs : Prepare(p) \/ Save(p) \/ Crash(p)

Spec == Init /\ [][Next]_vars

-----------------------------------------------------------------------------
(* Everything p saved, and the trees it refers to, in one directory.       *)
Holds(k, p) ==
    /\ p \in dirs[k].trees
    /\ \A f \in DOMAIN Files : dirs[k].files[f] = Whole(p)

(* A run that was saved while no other process was at work in its          *)
(* directory keeps every tree and file of it for good, at --out or in the  *)
(* trash, whoever starts, overlaps or dies later (prepare_run_dir moves    *)
(* and never deletes).  What the user keeps at --out stays there.          *)
SavedRunsSurvive ==
    /\ \A p \in Procs \ overlapped : proc[p].pc = "done" =>
          \E k \in DOMAIN dirs :
              /\ Holds(k, p)
              /\ dirs[k].marker = p
              /\ In(dirs[k].at) = {k}
    /\ \A k \in DOMAIN dirs : dirs[k].maker = NoOne => dirs[k].at = Out

(* No directory mixes the files of two runs, though save truncates and     *)
(* rewrites them one after the other and may die in between: a fresh       *)
(* directory holds the files of the process that made it.                  *)
OneRunPerDirectory ==
    \A k \in DOMAIN dirs :
        LET writers == {dirs[k].files[f].by : f \in DOMAIN Files} \ {NoOne} IN
        writers \cap overlapped = {} => writers \subseteq {dirs[k].maker}

(* prepare_run_dir refuses only what it must: with nobody else at work, a  *)
(* process raises only if the user's own directory is there, or one of     *)
(* which a dead process had not filled the marker, or one that overlapping *)
(* processes made again under each other.                                  *)
RefusalsAreExplained ==
    \A p \in Procs \ overlapped : proc[p].pc = "raised" =>
        /\ Exists
        /\ dirs[Here].marker \notin Procs
        /\ LET maker == dirs[Here].maker IN
             maker # NoOne => proc[maker].pc = "dead" \/ maker \in overlapped

=============================================================================
