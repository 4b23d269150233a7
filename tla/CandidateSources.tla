-------------------------- MODULE CandidateSources --------------------------
(***************************************************************************)
(* Where candidate interventions come from: the screener and its table     *)
(* sources (acquisition/screener.py) and the attribution operators         *)
(* (ops/attribution_ops.py), which read a recorded trace and propose edits *)
(* of what its steps wrote.  Pure operators on traces.                     *)
(*                                                                         *)
(* A step that writes a file is the path it writes and the number of parts *)
(* (blocks, sentences) of what it writes; any other step has NoPath.       *)
(***************************************************************************)
EXTENDS Integers, SequencesExt, Lists

CONSTANTS
    Trace,   \* [episodes -> sequences of [path, parts]], the recorded steps
    Paths,   \* the paths considered
    NoPath,  \* the path of a step that writes no file
    Table,   \* [sources -> [episodes -> sequences of interventions]]
    Successful  \* the episodes whose recorded outcome is a success

(***************************************************************************)
(* An intervention is known by what it does: two with the same effect      *)
(* signature are the same.                                                 *)
(***************************************************************************)
Kinds == {"fix", "drop", "message", "truncate", "patch", "read"}

Interventions == [kind : Kinds, target_step : Nat, n : Nat]

Intervention(kind, step, n) == [kind |-> kind, target_step |-> step, n |-> n]

\* iv.type: a patched line edits an argument, all others replace the action.
Type(iv) == IF iv.kind = "patch" THEN "TOOL_ARGUMENT_EDIT" ELSE "ACTION_REPLACE"

Positions(ep) == [i \in 1..Len(Trace[ep]) |-> i]

StepsWriting(ep, path) ==
    Picked(Positions(ep), {i \in DOMAIN Trace[ep] : Trace[ep][i].path = path})

Variants(kind, step, count) == [n \in 1..count |-> Intervention(kind, step, n)]

(***************************************************************************)
(* So many edits of one kind for each of the steps.                        *)
(***************************************************************************)
EditsOf(steps, kind, counts) ==
    FlattenSeq([j \in DOMAIN steps |-> Variants(kind, steps[j], counts[steps[j]])])

Parts(ep)   == [i \in DOMAIN Trace[ep] |-> Trace[ep][i].parts]
Each(ep, n) == [i \in DOMAIN Trace[ep] |-> n]

\* Leave one block out, of contexts with more than keep_min blocks.
ContextAblate(ep, path, keepMin) ==
    EditsOf(StepsWriting(ep, path), "drop",
            [i \in DOMAIN Trace[ep] |-> IF Parts(ep)[i] <= keepMin THEN 0 ELSE Parts(ep)[i]])

\* Each supplied replacement of each message.
MessageAblate(ep, path, replacements) ==
    EditsOf(StepsWriting(ep, path), "message", Each(ep, replacements))

\* The reasoning cut after its first, second, ... line, never the whole of it.
ThoughtTruncate(ep, path) ==
    EditsOf(StepsWriting(ep, path), "truncate",
            [i \in DOMAIN Trace[ep] |-> IF Parts(ep)[i] = 0 THEN 0 ELSE Parts(ep)[i] - 1])

\* Each supplied patch of a line of each artifact.
ClausePerturb(ep, path, patches) ==
    EditsOf(StepsWriting(ep, path), "patch", Each(ep, patches))

\* A pure read in place of the write, in the first max_steps writes (0: all).
ToolAblate(ep, maxSteps) ==
    LET hits == Picked(Positions(ep), {i \in DOMAIN Trace[ep] : Trace[ep][i].path # NoPath})
        some == IF maxSteps = 0 \/ Len(hits) <= maxSteps THEN hits
                ELSE SubSeq(hits, 1, maxSteps)
    IN  EditsOf(some, "read", Each(ep, 1))
-----------------------------------------------------------------------------
Candidate(ep, iv) == [ep |-> ep, iv |-> iv]

Candidates(ep, ivs) == [j \in DOMAIN ivs |-> Candidate(ep, ivs[j])]

\* One candidate per effect signature of an episode.
Unseen(cs) == Picked(cs, {k \in DOMAIN cs : \A j \in 1..(k - 1) : cs[j] # cs[k]})

(***************************************************************************)
(* Screener.screen: for each failed episode what each of the sources       *)
(* proposes, without what the same screening has seen.                     *)
(***************************************************************************)
Screen(episodes, sources) ==
    LET targets == Picked(episodes, {e \in DOMAIN episodes : episodes[e] \notin Successful})
        all     == FlattenSeq([e \in DOMAIN targets |->
                     FlattenSeq([s \in DOMAIN sources |->
                       Candidates(targets[e], Table[sources[s]][targets[e]])])])
    IN  Unseen(all)
=============================================================================
