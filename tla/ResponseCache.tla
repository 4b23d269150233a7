----------------------------- MODULE ResponseCache -----------------------------
(***************************************************************************)
(* DiskCachedLLM: the answers of a language model in one file per request, *)
(* in a directory that several processes share.  An entry is truncated and *)
(* then written in place; it may expire, be cleared, or be left torn by a  *)
(* process that dies; two processes that both missed write one after the   *)
(* other at the start of the same file.                                    *)
(***************************************************************************)
EXTENDS Integers, FiniteSets

CONSTANTS
    Procs,
    Params, Messages,   \* a request is parameters of the client and messages
    Answers, Length,    \* answers, and their lengths in a file
    Says,               \* what the model may answer to each request
    NoAnswer

Requests == [params : Params, messages : Messages]

ASSUME CacheAssumption ==
    /\ NoAnswer \notin Answers
    /\ Requests # {}
    /\ Length \in [Answers -> Nat \ {0}]
    /\ Says \in [Requests -> SUBSET Answers]

Keys == Requests

(* Mutant: the key leaves out the parameters.                              *)
KeyOfMessages(r) == [r EXCEPT !.params = CHOOSE p \in Params : TRUE]

(* _key digests both.                                                      *)
Key(r) == r

(* A file: the answer it parses to, if it does, and its length.            *)
Files == [answer : Answers \cup {NoAnswer},
          size : {0} \cup {Length[a] : a \in Answers}]

Truncated == [answer |-> NoAnswer, size |-> 0]

Holding(a) == [answer |-> a, size |-> Length[a]]

Torn(n) == [answer |-> NoAnswer, size |-> n]

Positions == {"idle", "exists", "stat", "read", "unlink", "call", "open",
              "write", "hit", "answered", "failed", "raised", "dead"}

VARIABLES
    ttl,        \* whether entries expire
    cached,     \* the keys with a file
    file,       \* what each holds
    expired,    \* the keys whose file is older than the ttl
    proc,       \* each process: position, request, the answer it has
    linked,     \* the processes whose open file is still in the directory
    met         \* the keys on which processes overlapped, or one died writing

cacheVars == <<ttl, cached, file, expired, proc, linked, met>>

CacheTypeOK ==
    /\ ttl \in BOOLEAN
    /\ cached \subseteq Keys
    /\ file \in [Keys -> Files]
    /\ expired \subseteq Keys
    /\ proc \in [Procs -> [pc : Positions, req : Requests,
                           answer : Answers \cup {NoAnswer}]]
    /\ linked \subseteq Procs
    /\ met \subseteq Keys

Rested(pc) ==
    [pc |-> pc, req |-> CHOOSE r \in Requests : TRUE, answer |-> NoAnswer]

CacheInit ==
    /\ ttl \in BOOLEAN
    /\ cached = {}
    /\ file = [k \in Keys |-> Truncated]
    /\ expired = {}
    /\ proc = [p \in Procs |-> Rested("idle")]
    /\ linked = {}
    /\ met = {}

-----------------------------------------------------------------------------
KeyOf(p) == Key(proc[p].req)

Outside == {"idle", "hit", "answered", "failed", "raised", "dead"}

(* The processes inside complete for a key.                                *)
Inside(k) == {p \in Procs : proc[p].pc \notin Outside /\ KeyOf(p) = k}

Moved(r, pc) == [r EXCEPT !.pc = pc]

WithAnswer(r, pc, a) == [r EXCEPT !.pc = pc, !.answer = a]

GoOn(p, pc) == proc' = [proc EXCEPT ![p] = Moved(@, pc)]

Got(p, pc, a) == proc' = [proc EXCEPT ![p] = WithAnswer(@, pc, a)]

Rest(p, pc) == proc' = [proc EXCEPT ![p] = Rested(pc)]

(* complete is called.                                                     *)
Ask(p) ==
    /\ proc[p].pc \in Outside
    /\ \E r \in Requests :
          /\ proc' = [proc EXCEPT ![p] = [pc |-> "exists", req |-> r,
                                          answer |-> NoAnswer]]
          /\ met' = IF Inside(Key(r)) \ {p} = {} THEN met ELSE met \cup {Key(r)}
    /\ UNCHANGED <<ttl, cached, file, expired, linked>>

Exists(p) ==
    /\ proc[p].pc = "exists"
    /\ GoOn(p, IF KeyOf(p) \notin cached THEN "call"
               ELSE IF ttl THEN "stat" ELSE "read")
    /\ UNCHANGED <<ttl, cached, file, expired, linked, met>>

(* The age of the entry; it may have gone by now.                          *)
Stat(p) ==
    /\ proc[p].pc = "stat"
    /\ GoOn(p, IF KeyOf(p) \notin cached THEN "raised"
               ELSE IF KeyOf(p) \in expired THEN "unlink" ELSE "read")
    /\ UNCHANGED <<ttl, cached, file, expired, linked, met>>

(* A hit, if the entry is still there and parses.                          *)
ReadEntry(p) ==
    LET k == KeyOf(p) IN
    /\ proc[p].pc = "read"
    /\ IF k \in cached /\ file[k].answer # NoAnswer
         THEN Got(p, "hit", file[k].answer)
         ELSE GoOn(p, "raised")
    /\ UNCHANGED <<ttl, cached, file, expired, linked, met>>

(* Mutant: an expired entry is left to be overwritten.                     *)
UnlinkNothing(p) ==
    /\ proc[p].pc = "unlink"
    /\ GoOn(p, "call")
    /\ UNCHANGED <<ttl, cached, file, expired, linked, met>>

Unlink(p) ==
    /\ proc[p].pc = "unlink"
    /\ cached' = cached \ {KeyOf(p)}
    /\ expired' = expired \ {KeyOf(p)}
    /\ linked' = linked \ Inside(KeyOf(p))
    /\ GoOn(p, "call")
    /\ UNCHANGED <<ttl, file, met>>

(* Mutant: the entry is created before the model is asked.                 *)
CallWithPlaceholder(p) ==
    LET k == KeyOf(p) IN
    /\ proc[p].pc = "call"
    /\ cached' = cached \cup {k}
    /\ file' = [file EXCEPT ![k] = Truncated]
    /\ \/ \E a \in Says[proc[p].req] : Got(p, "open", a)
       \/ Rest(p, "failed")
    /\ UNCHANGED <<ttl, expired, linked, met>>

(* The model says something, or the request fails.                         *)
Call(p) ==
    /\ proc[p].pc = "call"
    /\ \/ \E a \in Says[proc[p].req] : Got(p, "open", a)
       \/ Rest(p, "failed")
    /\ UNCHANGED <<ttl, cached, file, expired, linked, met>>

(* The entry is created or truncated ...                                   *)
Open(p) ==
    LET k == KeyOf(p) IN
    /\ proc[p].pc = "open"
    /\ cached' = cached \cup {k}
    /\ expired' = expired \ {k}
    /\ file' = [file EXCEPT ![k] = Truncated]
    /\ linked' = linked \cup {p}
    /\ GoOn(p, "write")
    /\ UNCHANGED <<ttl, met>>

(* What a file holds when an answer is written at its start: what was      *)
(* there and is longer sticks out at the end.                              *)
Over(f, a) == IF f.size <= Length[a] THEN Holding(a) ELSE Torn(f.size)

(* ... and written from its start; a file that was unlinked in between     *)
(* takes the answer with it.                                               *)
Write(p) ==
    LET k == KeyOf(p) IN
    /\ proc[p].pc = "write"
    /\ IF p \in linked
         THEN /\ file' = [file EXCEPT ![k] = Over(@, proc[p].answer)]
              /\ expired' = expired \ {k}
         ELSE UNCHANGED <<file, expired>>
    /\ linked' = linked \ {p}
    /\ Rest(p, "answered")
    /\ UNCHANGED <<ttl, cached, met>>

Complete(p) ==
    \/ Exists(p) \/ Stat(p) \/ ReadEntry(p) \/ Unlink(p)
    \/ Call(p) \/ Open(p) \/ Write(p)

(* It dies; within the write, the entry may get a part of the answer.      *)
Die(p) ==
    LET k == KeyOf(p) IN
    /\ proc[p].pc \notin Outside
    /\ Rest(p, "dead")
    /\ linked' = linked \ {p}
    /\ met' = IF proc[p].pc = "write" THEN met \cup {k} ELSE met
    /\ \/ file' = file
       \/ /\ p \in linked
          /\ file' = [file EXCEPT ![k] = Torn(@.size)]
    /\ UNCHANGED <<ttl, cached, expired>>

(* Time passes.                                                            *)
Expire(k) ==
    /\ ttl
    /\ k \in cached \ expired
    /\ expired' = expired \cup {k}
    /\ UNCHANGED <<ttl, cached, file, proc, linked, met>>

(* clear() unlinks an entry.                                               *)
Clear(k) ==
    /\ k \in cached
    /\ cached' = cached \ {k}
    /\ expired' = expired \ {k}
    /\ linked' = linked \ Inside(k)
    /\ met' = IF Inside(k) = {} THEN met ELSE met \cup {k}
    /\ UNCHANGED <<ttl, file, proc>>

CacheNext ==
    \/ \E p \in Procs : Ask(p) \/ Complete(p) \/ Die(p)
    \/ \E k \in Keys : Expire(k) \/ Clear(k)

(* A process that is inside complete goes on, unless it dies, and time     *)
(* passes; nobody need ask, fail, clear or die.                            *)
Fairness ==
    /\ \A p \in Procs : WF_cacheVars(Complete(p))
    /\ \A k \in Keys : WF_cacheVars(Expire(k))

CacheSpec == CacheInit /\ [][CacheNext]_cacheVars /\ Fairness

-----------------------------------------------------------------------------
(* A hit is an answer of the model to this very request, whole and         *)
(* unmixed, whichever processes wrote the entry and however they died.     *)
HitsAreAnswers ==
    \A p \in Procs : proc[p].pc = "hit" => proc[p].answer \in Says[proc[p].req]

(* complete raises for its own sake, not the model's, only on a request on *)
(* which processes met or one died writing: alone, a cached process never  *)
(* meets a torn or vanished entry.                                         *)
OnlyMetEntriesRaise ==
    \A p \in Procs : proc[p].pc = "raised" => KeyOf(p) \in met

IsTorn(k) == k \in cached /\ file[k].answer = NoAnswer

(* With a ttl a torn entry does not stay: when it has expired, a process   *)
(* that asks for it removes it, unless it dies or another one has begun to *)
(* rewrite the entry (complete looks at the age before it reads).          *)
TornEntriesHeal ==
    \A p \in Procs : \A k \in Keys :
        (proc[p].pc = "exists" /\ KeyOf(p) = k /\ k \in expired /\ IsTorn(k))
            ~> (~IsTorn(k) \/ k \notin expired \/ proc[p].pc = "dead")
=============================================================================
