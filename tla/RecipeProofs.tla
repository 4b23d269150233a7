---------------------------- MODULE RecipeProofs ----------------------------
(***************************************************************************)
(* What holds of every recipe, for all episodes, traces, tables and        *)
(* worlds.                                                                 *)
(***************************************************************************)
EXTENDS Recipe, ListProofs

Suggestions(E) == [ep : E, iv : Interventions]

LEMMA PositionsOfSteps ==
    ASSUME NEW ep \in Episodes
    PROVE  /\ Len(Trace[ep]) \in Nat /\ DOMAIN Trace[ep] = 1..Len(Trace[ep])
           /\ Positions(ep) \in Seq(DOMAIN Trace[ep])
           /\ Len(Positions(ep)) = Len(Trace[ep])
<1>1. PICK n \in Nat : n = Len(Trace[ep]) /\ DOMAIN Trace[ep] = 1..n
  BY TracesAssumption
<1>2. Positions(ep) = [i \in 1..n |-> i]
  BY <1>1 DEF Positions
<1>. QED BY <1>1, <1>2

LEMMA PickedSteps ==
    ASSUME NEW ep \in Episodes, NEW I, I \subseteq DOMAIN Trace[ep]
    PROVE  Picked(Positions(ep), I) \in Seq(DOMAIN Trace[ep])
<1>1. DOMAIN Positions(ep) = DOMAIN Trace[ep]
  BY PositionsOfSteps DEF Positions
<1>. QED BY <1>1, PositionsOfSteps, PickedIsSeq

(***************************************************************************)
(* What the attribution operators propose is a list of interventions.      *)
(***************************************************************************)
LEMMA VariantsType ==
    ASSUME NEW kind \in Kinds, NEW step \in Nat, NEW count \in Nat
    PROVE  Variants(kind, step, count) \in Seq(Interventions)
<1>1. \A n \in 1..count : Intervention(kind, step, n) \in Interventions
  BY DEF Intervention, Interventions
<1>2. PICK v : v = [n \in 1..count |-> Intervention(kind, step, n)]
  OBVIOUS
<1>3. v \in Seq(Interventions)
  <2>1. v \in [1..count -> Interventions]
    BY <1>1, <1>2
  <2> HIDE DEF Interventions
  <2>. QED BY <2>1
<1>. QED BY <1>2, <1>3 DEF Variants

LEMMA EditsOfType ==
    ASSUME NEW S \in SUBSET Nat, NEW steps \in Seq(S), NEW kind \in Kinds,
           NEW counts \in [S -> Nat]
    PROVE  EditsOf(steps, kind, counts) \in Seq(Interventions)
<1>1. PICK n \in Nat : n = Len(steps) /\ DOMAIN steps = 1..n
  BY LenProperties
<1>2. PICK ss : ss = [j \in 1..n |-> Variants(kind, steps[j], counts[steps[j]])]
  OBVIOUS
<1>3. \A j \in 1..n : ss[j] \in Seq(Interventions)
  <2>1. \A j \in 1..n : steps[j] \in S /\ steps[j] \in Nat /\ counts[steps[j]] \in Nat
    BY <1>1, ElementOfSeq
  <2>. QED BY <1>2, <2>1, VariantsType
<1>4. ss \in [1..n -> Seq(Interventions)]
  BY <1>2, <1>3
<1>5. FlattenSeq(ss) \in Seq(Interventions)
  BY <1>4, JoinedLists
<1>. QED BY <1>1, <1>2, <1>5 DEF EditsOf

LEMMA AblationTypes ==
    ASSUME NEW ep \in Episodes, NEW path, NEW k \in Nat
    PROVE  /\ ContextAblate(ep, path, k) \in Seq(Interventions)
           /\ MessageAblate(ep, path, k) \in Seq(Interventions)
           /\ ThoughtTruncate(ep, path) \in Seq(Interventions)
           /\ ClausePerturb(ep, path, k) \in Seq(Interventions)
           /\ ToolAblate(ep, k) \in Seq(Interventions)
<1> DEFINE D == DOMAIN Trace[ep]
<1>0. {"drop", "truncate", "message", "patch", "read"} \subseteq Kinds
  BY DEF Kinds
<1>1. D \in SUBSET Nat
  BY PositionsOfSteps
<1>2. StepsWriting(ep, path) \in Seq(D)
  BY PickedSteps DEF StepsWriting
<1>3. \A i \in D : Parts(ep)[i] \in Nat
  BY TracesAssumption DEF Parts
<1>4. [i \in D |-> IF Parts(ep)[i] <= k THEN 0 ELSE Parts(ep)[i]] \in [D -> Nat]
  BY <1>3
<1>5. [i \in D |-> IF Parts(ep)[i] = 0 THEN 0 ELSE Parts(ep)[i] - 1] \in [D -> Nat]
  BY <1>3
<1>6. Each(ep, k) \in [D -> Nat] /\ Each(ep, 1) \in [D -> Nat]
  BY DEF Each
<1>7. PICK hits \in Seq(D) :
          hits = Picked(Positions(ep), {i \in D : Trace[ep][i].path # NoPath})
  BY PickedSteps
<1>8. ToolAblate(ep, k) \in Seq(Interventions)
  <2>1. PICK some :
            some = IF k = 0 \/ Len(hits) <= k THEN hits ELSE SubSeq(hits, 1, k)
    OBVIOUS
  <2>2. ToolAblate(ep, k) = EditsOf(some, "read", Each(ep, 1))
    BY <1>7, <2>1 DEF ToolAblate
  <2>3. some \in Seq(D)
    <3> HIDE DEF D
    <3>1. Len(hits) \in Nat /\ \A i \in 1..Len(hits) : hits[i] \in D
      BY LenProperties, ElementOfSeq
    <3>2. k <= Len(hits) => \A i \in 1..k : hits[i] \in D
      BY <3>1
    <3>3. PICK cut : cut = SubSeq(hits, 1, k)
      OBVIOUS
    <3>4. k <= Len(hits) => cut \in Seq(D)
      BY <3>2, <3>3, SubSeqProperties
    <3>5. some = IF k = 0 \/ Len(hits) <= k THEN hits ELSE cut
      BY <2>1, <3>3
    <3>6. k = 0 \/ Len(hits) <= k \/ k <= Len(hits)
      BY <3>1
    <3>. QED BY <3>4, <3>5, <3>6
  <2> HIDE DEF D
  <2>. QED BY <1>0, <1>1, <1>6, <2>2, <2>3, EditsOfType
<1> HIDE DEF D
<1>9. ContextAblate(ep, path, k) \in Seq(Interventions)
  <2>1. PICK counts \in [D -> Nat] :
            counts = [i \in D |-> IF Parts(ep)[i] <= k THEN 0 ELSE Parts(ep)[i]]
    BY <1>4
  <2>2. ContextAblate(ep, path, k) = EditsOf(StepsWriting(ep, path), "drop", counts)
    BY <2>1 DEF ContextAblate, D
  <2>. QED BY <1>0, <1>1, <1>2, <2>2, EditsOfType
<1>10. ThoughtTruncate(ep, path) \in Seq(Interventions)
  <2>1. PICK counts \in [D -> Nat] :
            counts = [i \in D |-> IF Parts(ep)[i] = 0 THEN 0 ELSE Parts(ep)[i] - 1]
    BY <1>5
  <2>2. ThoughtTruncate(ep, path) = EditsOf(StepsWriting(ep, path), "truncate", counts)
    BY <2>1 DEF ThoughtTruncate, D
  <2>. QED BY <1>0, <1>1, <1>2, <2>2, EditsOfType
<1>11. MessageAblate(ep, path, k) \in Seq(Interventions)
  <2>1. MessageAblate(ep, path, k) = EditsOf(StepsWriting(ep, path), "message", Each(ep, k))
    BY DEF MessageAblate
  <2>. QED BY <1>0, <1>1, <1>2, <1>6, <2>1, EditsOfType
<1>12. ClausePerturb(ep, path, k) \in Seq(Interventions)
  <2>1. ClausePerturb(ep, path, k) = EditsOf(StepsWriting(ep, path), "patch", Each(ep, k))
    BY DEF ClausePerturb
  <2>. QED BY <1>0, <1>1, <1>2, <1>6, <2>1, EditsOfType
<1>. QED BY <1>8, <1>9, <1>10, <1>11, <1>12

LEMMA CandidatesType ==
    ASSUME NEW E, NEW ep \in E, NEW ivs \in Seq(Interventions)
    PROVE  Candidates(ep, ivs) \in Seq(Suggestions(E))
<1>1. PICK n \in Nat : n = Len(ivs) /\ DOMAIN ivs = 1..n
  BY LenProperties
<1>2. \A j \in 1..n : Candidate(ep, ivs[j]) \in Suggestions(E)
  <2>1. \A j \in 1..n : ivs[j] \in Interventions
    BY <1>1, ElementOfSeq
  <2>. QED BY <2>1 DEF Candidate, Suggestions
<1>3. PICK cs : cs = [j \in 1..n |-> Candidate(ep, ivs[j])]
  OBVIOUS
<1>4. cs \in Seq(Suggestions(E))
  BY <1>2, <1>3
<1>. QED BY <1>1, <1>3, <1>4 DEF Candidates

LEMMA ForEachType ==
    ASSUME NEW E, episodes \in Seq(E), E \subseteq Episodes,
           NEW ivs \in [Episodes -> Seq(Interventions)]
    PROVE  ForEach(ivs) \in Seq(Suggestions(E))
<1>1. PICK n \in Nat : n = Len(episodes) /\ DOMAIN episodes = 1..n
  BY LenProperties
<1>2. PICK ss : ss = [e \in 1..n |-> Candidates(episodes[e], ivs[episodes[e]])]
  OBVIOUS
<1>3. \A e \in 1..n : ss[e] \in Seq(Suggestions(E))
  <2>1. \A e \in 1..n : episodes[e] \in E /\ ivs[episodes[e]] \in Seq(Interventions)
    BY <1>1, ElementOfSeq
  <2>. QED BY <1>2, <2>1, CandidatesType
<1>4. ss \in [1..n -> Seq(Suggestions(E))]
  BY <1>2, <1>3
<1>5. FlattenSeq(ss) \in Seq(Suggestions(E))
  BY <1>4, JoinedLists
<1>. QED BY <1>1, <1>2, <1>5 DEF ForEach

LEMMA ScreenType ==
    ASSUME NEW E, NEW eps \in Seq(E), E \subseteq Episodes,
           NEW srcs \in Seq(DOMAIN Table)
    PROVE  Screen(eps, srcs) \in Seq(Suggestions(E))
<1>1. PICK targets \in Seq(E) :
          targets = Picked(eps, {e \in DOMAIN eps : eps[e] \notin Successful})
  BY PickedIsSeq
<1>2. PICK n \in Nat : n = Len(targets) /\ DOMAIN targets = 1..n
  BY LenProperties
<1>3. PICK m \in Nat : m = Len(srcs) /\ DOMAIN srcs = 1..m
  BY LenProperties
<1> DEFINE row(e) == [s \in 1..m |-> Candidates(targets[e], Table[srcs[s]][targets[e]])]
<1>4. ASSUME NEW e \in 1..n PROVE FlattenSeq(row(e)) \in Seq(Suggestions(E))
  <2>1. targets[e] \in E /\ targets[e] \in Episodes
    BY <1>2, ElementOfSeq
  <2>2. ASSUME NEW s \in 1..m
        PROVE  Candidates(targets[e], Table[srcs[s]][targets[e]]) \in Seq(Suggestions(E))
    <3>1. srcs[s] \in DOMAIN Table
      BY <1>3, ElementOfSeq
    <3>2. Table[srcs[s]][targets[e]] \in Seq(Interventions)
      BY <2>1, <3>1, SourcesAssumption
    <3>. QED BY <2>1, <3>2, CandidatesType
  <2>3. row(e) \in [1..m -> Seq(Suggestions(E))]
    BY <2>2
  <2> HIDE DEF row
  <2>. QED BY <2>3, JoinedLists
<1>5. PICK ss : ss = [e \in 1..n |-> FlattenSeq(row(e))]
  OBVIOUS
<1>6. PICK all : all = FlattenSeq(ss)
  OBVIOUS
<1>7. all \in Seq(Suggestions(E))
  <2>1. ss \in [1..n -> Seq(Suggestions(E))]
    <3> HIDE DEF row
    <3>. QED BY <1>4, <1>5
  <2>. QED BY <1>6, <2>1, JoinedLists
<1>8. Unseen(all) \in Seq(Suggestions(E))
  BY <1>7, PickedIsSeq DEF Unseen
<1>9. Screen(eps, srcs) = Unseen(all)
  BY <1>1, <1>2, <1>3, <1>5, <1>6 DEF Screen
<1>. QED BY <1>8, <1>9

UnitT == [ep : Episodes, iv : Interventions, no : Nat, tier : EvidenceTier,
          matched : BOOLEAN, outcome : {"none", "success", "failure"},
          flipped : BOOLEAN]

LEMMA RevisedType ==
    ASSUME NEW E, NEW us \in Seq(UnitT), E \subseteq Episodes,
           \A i \in 1..Len(us) : us[i].ep \in E
    PROVE  LET tried == Picked(us, {i \in DOMAIN us : Refinable(us[i])})
           IN  [j \in DOMAIN tried |-> Candidate(tried[j].ep, Revised[tried[j].iv])]
                 \in Seq(Suggestions(E))
<1>1. PICK I : I = {i \in DOMAIN us : Refinable(us[i])}
  OBVIOUS
<1>2. DOMAIN us = 1..Len(us) /\ I \subseteq 1..Len(us)
  BY <1>1, LenProperties
<1>3. PICK tried \in Seq(UnitT) : tried = Picked(us, I)
  BY <1>2, PickedFacts
<1>4. PICK h : Selects(us, I, Len(us), tried, h)
  BY <1>2, <1>3, PickedFacts
<1>5. PICK n \in Nat : n = Len(tried) /\ DOMAIN tried = 1..n
  BY LenProperties
<1>6. ASSUME NEW j \in 1..n
      PROVE  Candidate(tried[j].ep, Revised[tried[j].iv]) \in Suggestions(E)
  <2>1. h[j] \in I /\ h[j] \in 1..Len(us) /\ tried[j] = us[h[j]]
    BY <1>4, <1>5 DEF Selects
  <2>2. Refinable(us[h[j]])
    BY <1>1, <2>1
  <2>3. us[h[j]].ep \in E /\ Revised[us[h[j]].iv] \in Interventions
    BY <2>1, <2>2, SourcesAssumption DEF Refinable
  <2>. QED BY <2>1, <2>3 DEF Candidate, Suggestions
<1>7. [j \in 1..n |-> Candidate(tried[j].ep, Revised[tried[j].iv])] \in Seq(Suggestions(E))
  <2>1. PICK cs : cs = [j \in 1..n |-> Candidate(tried[j].ep, Revised[tried[j].iv])]
    OBVIOUS
  <2>2. cs \in [1..n -> Suggestions(E)]
    BY <1>6, <2>1
  <2>. QED BY <2>1, <2>2
<1>. QED BY <1>1, <1>3, <1>5, <1>7

Proposals == [ep : Episodes, iv : Interventions, no : Nat]

SavedRuns ==
    [exists : BOOLEAN, episodes : SUBSET Episodes, units : Seq(UnitT), replays : Nat]

Typed ==
    /\ episodes \in Seq(Episodes) /\ sources \in Seq(DOMAIN Table)
    /\ candidates \in Seq(Proposals)
    /\ units \in Seq(UnitT) /\ batch \in Seq(UnitT)
    /\ ledger \in Nat /\ proposed \in Nat /\ executed \in Nat
    /\ bill \in Nat /\ applied \in Nat
    /\ store \in {"none", "own", "old"} /\ built \in BOOLEAN
    /\ op \in OnCandidates \cup OnUnits \cup {"none"}
    /\ status \in {"idle", "busy", "raised"}
    /\ exports \in [{"views", "trl"} -> SUBSET UnitT]
    /\ saved \in SavedRuns

(***************************************************************************)
(* What an operator at work has before it.                                 *)
(***************************************************************************)
AtWork ==
    /\ status = "idle" => op = "none" /\ left = {} /\ batch = <<>>
    /\ status = "busy" => op # "none" /\ built
    /\ op \in OnUnits => batch = <<>> /\ left \subseteq DOMAIN units
    /\ op \in OnCandidates => left \subseteq DOMAIN candidates
    /\ op = "minimize" => \A i \in left : units[i].tier >= REPRODUCIBLE
    /\ store = "none" => ~built

(***************************************************************************)
(* A unit says of its intervention what a replay shows of it.              *)
(***************************************************************************)
Sound(u) ==
    /\ u.outcome = "success" => Outcome(u) = "success"
    /\ u.outcome = "success" /\ ~Diverges(u) /\ u.ep \notin Successful
         => Validated(u)
    /\ Validated(u) /\ u.matched => CasePasses(u, Home(u.ep))

Honest ==
    /\ \A i \in DOMAIN units : Sound(units[i])
    /\ \A i \in DOMAIN batch : Sound(batch[i])
    /\ \A u \in Exported : Sound(u)

(***************************************************************************)
(* Each number is given out once, and is at most once among the units.     *)
(***************************************************************************)
Numbers(s) ==
    /\ \A i \in DOMAIN s : s[i].no <= proposed
    /\ \A i, j \in DOMAIN s : s[i].no = s[j].no => i = j

Apart(s, t) == \A i \in DOMAIN s : \A j \in DOMAIN t : s[i].no # t[j].no

Unanswered(s) == \A i \in Waiting : \A j \in DOMAIN s : candidates[i].no # s[j].no

Counted ==
    /\ Numbers(candidates) /\ Numbers(units) /\ Numbers(batch)
    /\ Apart(units, batch)
    /\ Unanswered(units) /\ Unanswered(batch)

(***************************************************************************)
(* What the steps of a recipe come to, for the units and the candidates.   *)
(***************************************************************************)
Quiet ==
    /\ UNCHANGED <<world, candidates, left, op, units, batch, proposed>>
    /\ status' = status \/ status' = "raised"
    /\ episodes' \in Seq(Episodes)
    /\ Exported' \subseteq Exported \cup Elements(units)

Proposes ==
    /\ status = "idle"
    /\ \E cs \in Seq(Suggestions(Episodes)) :
          /\ candidates' = candidates \o Numbered(cs)
          /\ proposed' = proposed + Len(cs)
    /\ UNCHANGED <<world, episodes, left, op, units, batch, executed, status, products>>

Begins ==
    /\ status = "idle" /\ status' = "busy" /\ op' \in OnCandidates \cup OnUnits
    /\ op' \in OnUnits => left' \subseteq DOMAIN units
    /\ op' \in OnCandidates => left' = DOMAIN candidates
    /\ op' = "minimize" => \A i \in left' : units[i].tier >= REPRODUCIBLE
    /\ batch' = <<>>
    /\ UNCHANGED <<world, episodes, candidates, units, proposed, executed, products>>

AtIt == UNCHANGED <<world, episodes, candidates, proposed, op, status, products>>

Answers ==
    /\ status = "busy" /\ op \in OnCandidates /\ AtIt
    /\ \E i \in left, u \in UnitT :
          /\ left' = left \ {i}
          /\ Proposal(u) = Proposal(candidates[i]) /\ Sound(u)
          /\ Validated(u) => executed' > executed
          /\ \/ units' = Append(units, u) /\ batch' = batch
             \/ batch' = Append(batch, u) /\ units' = units

Skips ==
    /\ status = "busy" /\ op = "stress_probe" /\ AtIt
    /\ \E i \in left : left' = left \ {i} /\ ~Snapshotted(candidates[i])
    /\ UNCHANGED <<units, batch, executed>>

Reworks ==
    /\ status = "busy" /\ op \in OnUnits /\ AtIt
    /\ \E i \in left, u \in UnitT :
          /\ left' = left \ {i}
          /\ Proposal(u) = Proposal(units[i]) /\ Sound(u)
          /\ Validated(u) => u.tier = units[i].tier \/ executed' > executed
          /\ units' = [units EXCEPT ![i] = u]
    /\ UNCHANGED batch

Ends ==
    /\ left = {} \/ (op = "budget_screen" /\ bill >= BudgetReplays)
    /\ status = "busy" /\ status' = "idle" /\ op' = "none" /\ left' = {} /\ batch' = <<>>
    /\ candidates' = IF op \in OnCandidates THEN <<>> ELSE candidates
    /\ units' = units \o batch
    /\ UNCHANGED <<world, episodes, proposed, executed, products>>

\* Units drawn without replacement.
Drawn(us, h, vs) ==
    /\ h \in [1..Len(vs) -> 1..Len(us)]
    /\ \A j, k \in 1..Len(vs) : h[j] = h[k] => j = k
    /\ \A k \in 1..Len(vs) : vs[k] = us[h[k]]

Shapes ==
    /\ status = "idle" /\ (FilterUnits \/ DedupeUnits \/ SampleUnits)
    /\ units' \in Seq(UnitT) /\ \E h : Drawn(units, h, units')
    /\ UNCHANGED <<world, episodes, candidates, left, op, batch, proposed, executed,
                   status, products>>

(***************************************************************************)
(* A sequence, its positions and its elements.                             *)
(***************************************************************************)
LEMMA SeqFacts ==
    ASSUME NEW S, NEW s \in Seq(S)
    PROVE  /\ Len(s) \in Nat /\ DOMAIN s = 1..Len(s)
           /\ \A i \in DOMAIN s : s[i] \in S
           /\ Elements(s) \subseteq S /\ s \in Seq(Elements(s))
<1>1. Len(s) \in Nat /\ DOMAIN s = 1..Len(s) /\ \A i \in DOMAIN s : s[i] \in S
  BY LenProperties, ElementOfSeq
<1>2. Elements(s) \subseteq S
  BY <1>1 DEF Elements
<1>3. s \in Seq(Elements(s))
  <2>1. s \in [1..Len(s) -> Elements(s)]
    BY <1>1 DEF Elements
  <2>. QED BY <1>1, <2>1
<1>. QED BY <1>1, <1>2, <1>3

LEMMA PickedIsDrawn ==
    ASSUME NEW us \in Seq(UnitT), NEW I, I \subseteq DOMAIN us
    PROVE  /\ Picked(us, I) \in Seq(UnitT)
           /\ \E h : Drawn(us, h, Picked(us, I))
<1>1. DOMAIN us = 1..Len(us)
  BY SeqFacts
<1>2. PICK vs \in Seq(UnitT) : vs = Picked(us, I)
  BY <1>1, PickedFacts
<1>3. PICK h : Selects(us, I, Len(us), vs, h)
  BY <1>1, <1>2, PickedFacts
<1>4. PICK n \in Nat : n = Len(vs)
  BY LenProperties
<1>5. /\ h \in [1..n -> I \cap 1..Len(us)]
      /\ \A k \in 1..n : vs[k] = us[h[k]]
      /\ \A j, k \in 1..n : j < k => h[j] < h[k]
  BY <1>3, <1>4 DEF Selects
<1>6. h \in [1..n -> 1..Len(us)]
  BY <1>5
<1>7. ASSUME NEW j \in 1..n, NEW k \in 1..n, h[j] = h[k] PROVE j = k
  <2>1. h[j] \in Nat /\ h[k] \in Nat
    <3>1. h[j] \in 1..Len(us) /\ h[k] \in 1..Len(us) /\ Len(us) \in Nat
      BY <1>6, LenProperties
    <3>. QED BY <3>1
  <2>2. j < k \/ k < j \/ j = k
    OBVIOUS
  <2>3. ~(j < k) /\ ~(k < j)
    BY <1>5, <1>7, <2>1
  <2>. QED BY <2>2, <2>3
<1>. QED BY <1>2, <1>4, <1>5, <1>6, <1>7 DEF Drawn

LEMMA ElementsOfConcat ==
    ASSUME NEW S, NEW s \in Seq(S), NEW t \in Seq(S)
    PROVE  s \o t \in Seq(S) /\ Elements(s \o t) = Elements(s) \cup Elements(t)
<1>1. /\ s \o t \in Seq(S) /\ Len(s \o t) = Len(s) + Len(t)
      /\ \A i \in 1..(Len(s) + Len(t)) :
            (s \o t)[i] = IF i <= Len(s) THEN s[i] ELSE t[i - Len(s)]
  BY ConcatProperties
<1>2. PICK c \in Seq(S) : c = s \o t
  BY <1>1
<1>3. PICK m \in Nat : m = Len(s) /\ DOMAIN s = 1..m
  BY SeqFacts
<1>4. PICK n \in Nat : n = Len(t) /\ DOMAIN t = 1..n
  BY SeqFacts
<1>5. /\ DOMAIN c = 1..(m + n)
      /\ \A i \in 1..(m + n) : c[i] = IF i <= m THEN s[i] ELSE t[i - m]
  BY <1>1, <1>2, <1>3, <1>4, SeqFacts
<1>6. Elements(c) \subseteq Elements(s) \cup Elements(t)
  <2> SUFFICES ASSUME NEW i \in 1..(m + n) PROVE c[i] \in Elements(s) \cup Elements(t)
    BY <1>5 DEF Elements
  <2>1. CASE i <= m
    <3>1. i \in 1..m /\ c[i] = s[i]
      BY <1>5, <2>1
    <3>. QED BY <1>3, <3>1 DEF Elements
  <2>2. CASE ~(i <= m)
    <3>1. i - m \in 1..n /\ c[i] = t[i - m]
      BY <1>5, <2>2
    <3>. QED BY <1>4, <3>1 DEF Elements
  <2>. QED BY <2>1, <2>2
<1>7. Elements(s) \subseteq Elements(c)
  <2> SUFFICES ASSUME NEW i \in 1..m PROVE s[i] \in Elements(c)
    BY <1>3 DEF Elements
  <2>1. i \in 1..(m + n) /\ c[i] = s[i]
    BY <1>5
  <2>. QED BY <1>5, <2>1 DEF Elements
<1>8. Elements(t) \subseteq Elements(c)
  <2> SUFFICES ASSUME NEW i \in 1..n PROVE t[i] \in Elements(c)
    BY <1>4 DEF Elements
  <2>1. i + m \in 1..(m + n) /\ ~(i + m <= m) /\ (i + m) - m = i
    OBVIOUS
  <2>2. c[i + m] = t[i]
    BY <1>5, <2>1
  <2>. QED BY <1>5, <2>1, <2>2 DEF Elements
<1>. QED BY <1>2, <1>6, <1>7, <1>8

LEMMA SourcesOfEpisodes ==
    ASSUME NEW s \in {Toy, Old, Imported}
    PROVE  s \in Seq(Episodes) /\ Elements(s) \subseteq Episodes
<1>1. Elements(s) \subseteq Episodes
  BY DEF Episodes
<1>2. s \in Seq(Elements(s))
  BY EpisodesAssumption
<1>. QED BY <1>1, <1>2, SeqMonotonic

LEMMA BringsMore ==
    ASSUME Typed, NEW s \in {Toy, Old, Imported}, episodes' = episodes \o s
    PROVE  episodes' \in Seq(Episodes)
<1>1. episodes \in Seq(Episodes) /\ s \in Seq(Episodes)
  BY SourcesOfEpisodes DEF Typed
<1>. QED BY <1>1, ElementsOfConcat

LEMMA Gathering ==
    ASSUME Typed, CollectToy \/ LoadRun \/ ImportTraces
    PROVE  Quiet
<1>1. \E s \in {Toy, Old, Imported} : episodes' = episodes \o s
  BY DEF CollectToy, LoadRun, ImportTraces
<1>2. /\ UNCHANGED <<world, candidates, left, op, units, batch, proposed>>
      /\ status' = status /\ UNCHANGED products
  BY DEF CollectToy, LoadRun, ImportTraces, AtOnce, Applies, progress
<1>3. Exported' = Exported
  BY <1>2 DEF Exported, products
<1>. QED BY <1>1, <1>2, <1>3, BringsMore DEF Quiet

LEMMA Writing ==
    ASSUME Typed, ExportViews \/ ExportTRL \/ SaveRun \/ Report
    PROVE  Quiet
<1>1. /\ UNCHANGED <<world, candidates, left, op, units, batch, proposed, episodes>>
      /\ status' = status
  BY DEF ExportViews, ExportTRL, Export, SaveRun, Report, AtOnce, Applies, progress, context
<1>2. Exported' \subseteq Exported \cup Elements(units)
  <2>1. ASSUME NEW kind \in {"views", "trl"}, Export(kind)
        PROVE  Exported' \subseteq Exported \cup Elements(units)
    <3>1. /\ exports' = [exports EXCEPT ![kind] = Exportable] /\ saved' = saved
          /\ exports \in [{"views", "trl"} -> SUBSET UnitT]
          /\ Exportable \subseteq Elements(units)
      BY <2>1 DEF Export, Exportable, Typed
    <3>2. \A k \in {"views", "trl"} : exports'[k] \subseteq exports[k] \cup Elements(units)
      BY <3>1
    <3>. QED BY <3>1, <3>2 DEF Exported
  <2>2. ASSUME SaveRun PROVE Exported' \subseteq Exported \cup Elements(units)
    <3>1. saved'.units = units /\ exports' = exports
      BY <2>2 DEF SaveRun, Run
    <3>. QED BY <3>1 DEF Exported
  <2>3. ASSUME UNCHANGED products PROVE Exported' \subseteq Exported \cup Elements(units)
    BY <2>3 DEF Exported, products
  <2>. QED BY <2>1, <2>2, <2>3 DEF ExportViews, ExportTRL, Report
<1>. QED BY <1>1, <1>2 DEF Quiet, Typed

LEMMA Standing ==
    ASSUME Typed,
           \/ \E name \in DOMAIN Table \ {"toy"} : AddSource(name)
           \/ NothingSupplied \/ ReplayRaises \/ UNCHANGED vars
    PROVE  Quiet
<1>1. /\ UNCHANGED <<world, candidates, left, op, units, batch, proposed, episodes>>
      /\ status' = status \/ status' = "raised"
      /\ UNCHANGED <<exports, saved>>
  BY DEF AddSource, NothingSupplied, ReplayRaises, AtOnce, Applies,
         progress, context, products, vars
<1>2. Exported' = Exported
  BY <1>1 DEF Exported
<1>. QED BY <1>1, <1>2 DEF Quiet, Typed

LEMMA Proposing ==
    ASSUME Typed, ScreenFailures \/ Attribute \/ Refine
    PROVE  Proposes
<1> DEFINE E == Episodes
<1>1. episodes \in Seq(E) /\ E \subseteq Episodes
  BY DEF Typed
<1>2. ASSUME NEW cs \in Seq(Suggestions(E)), Propose(cs) PROVE Proposes
  <2>1. /\ status = "idle" /\ candidates' = candidates \o Numbered(cs)
        /\ proposed' = proposed + Len(cs)
        /\ UNCHANGED <<world, episodes, left, op, units, batch, executed, status, products>>
    BY <1>2 DEF Propose, AtOnce, Applies, progress
  <2>. QED BY <2>1 DEF Proposes
<1> HIDE DEF E
<1>3. CASE ScreenFailures
  <2>1. Screen(episodes, sources) \in Seq(Suggestions(E))
    BY <1>1, ScreenType DEF Typed
  <2>. QED BY <1>2, <1>3, <2>1 DEF ScreenFailures
<1>4. CASE Attribute
  <2>1. ASSUME NEW ivs \in [Episodes -> Seq(Interventions)], Propose(ForEach(ivs))
        PROVE  Proposes
    <3>1. ForEach(ivs) \in Seq(Suggestions(E))
      BY <1>1, ForEachType
    <3>. QED BY <1>2, <2>1, <3>1
  <2>2. \A path, k : k \in Nat =>
          /\ [ep \in Episodes |-> ContextAblate(ep, path, k)] \in [Episodes -> Seq(Interventions)]
          /\ [ep \in Episodes |-> MessageAblate(ep, path, k)] \in [Episodes -> Seq(Interventions)]
          /\ [ep \in Episodes |-> ThoughtTruncate(ep, path)] \in [Episodes -> Seq(Interventions)]
          /\ [ep \in Episodes |-> ClausePerturb(ep, path, k)] \in [Episodes -> Seq(Interventions)]
          /\ [ep \in Episodes |-> ToolAblate(ep, k)] \in [Episodes -> Seq(Interventions)]
    BY AblationTypes
  <2>3. 0 \in Nat /\ 1 \in Nat /\ 2 \in Nat
    OBVIOUS
  <2>4. CASE \E path \in Paths, keepMin \in {1, 2} :
               Propose(ForEach([ep \in Episodes |-> ContextAblate(ep, path, keepMin)]))
    <3>1. PICK path \in Paths, keepMin \in {1, 2} :
             Propose(ForEach([ep \in Episodes |-> ContextAblate(ep, path, keepMin)]))
      BY <2>4
    <3>2. keepMin \in Nat
      BY <2>3
    <3>3. [ep \in Episodes |-> ContextAblate(ep, path, keepMin)] \in [Episodes -> Seq(Interventions)]
      BY <2>2, <3>2
    <3>. QED BY <2>1, <3>1, <3>3
  <2>5. CASE \E path \in Paths : Propose(ForEach([ep \in Episodes |-> MessageAblate(ep, path, 1)]))
    BY <2>1, <2>2, <2>3, <2>5
  <2>6. CASE \E path \in Paths : Propose(ForEach([ep \in Episodes |-> ThoughtTruncate(ep, path)]))
    BY <2>1, <2>2, <2>3, <2>6
  <2>7. CASE \E path \in Paths : Propose(ForEach([ep \in Episodes |-> ClausePerturb(ep, path, 1)]))
    BY <2>1, <2>2, <2>3, <2>7
  <2>8. CASE \E maxSteps \in {0, 1} : Propose(ForEach([ep \in Episodes |-> ToolAblate(ep, maxSteps)]))
    BY <2>1, <2>2, <2>3, <2>8
  <2>. QED BY <1>4, <2>4, <2>5, <2>6, <2>7, <2>8 DEF Attribute
<1>5. CASE Refine
  <2>1. PICK tried : tried = Picked(units, {i \in DOMAIN units : Refinable(units[i])})
    OBVIOUS
  <2>2. PICK cs : cs = [j \in DOMAIN tried |-> Candidate(tried[j].ep, Revised[tried[j].iv])]
    OBVIOUS
  <2>3. \A i \in 1..Len(units) : units[i].ep \in E
    <3>1. \A i \in 1..Len(units) : units[i] \in UnitT
      BY SeqFacts DEF Typed
    <3>. QED BY <3>1 DEF UnitT, E
  <2>4. cs \in Seq(Suggestions(E))
    BY <1>1, <2>1, <2>2, <2>3, RevisedType DEF Typed
  <2>5. Propose(cs)
    BY <1>5, <2>1, <2>2 DEF Refine
  <2>. QED BY <1>2, <2>4, <2>5
<1>. QED BY <1>3, <1>4, <1>5

LEMMA Beginning ==
    ASSUME Typed, BeginOnCandidates \/ BeginMinimize \/ BeginRevalidate
    PROVE  Begins
<1>1. ASSUME NEW name \in OnCandidates \cup OnUnits, NEW targets, BeginOn(name, targets),
             name \in OnUnits => targets \subseteq DOMAIN units,
             name \in OnCandidates => targets = DOMAIN candidates,
             name = "minimize" => \A i \in targets : units[i].tier >= REPRODUCIBLE
      PROVE  Begins
  <2>1. /\ status = "idle" /\ status' = "busy" /\ op' = name /\ left' = targets /\ batch' = <<>>
        /\ UNCHANGED <<world, episodes, candidates, units, proposed, executed, products>>
    BY <1>1 DEF BeginOn, Applies, context
  <2>. QED BY <1>1, <2>1 DEF Begins
<1>2. CASE BeginOnCandidates
  <2>1. PICK name \in OnCandidates : BeginOn(name, DOMAIN candidates)
    BY <1>2 DEF BeginOnCandidates
  <2>2. name \notin OnUnits /\ name # "minimize" /\ name \in OnCandidates \cup OnUnits
    BY DEF OnCandidates, OnUnits
  <2> HIDE DEF Begins
  <2>. QED BY <1>1, <2>1, <2>2
<1>3. CASE BeginMinimize
  <2>1. PICK targets : targets = {i \in DOMAIN units : units[i].tier >= REPRODUCIBLE}
    OBVIOUS
  <2>2. BeginOn("minimize", targets)
    BY <1>3, <2>1 DEF BeginMinimize
  <2>3. targets \subseteq DOMAIN units /\ \A i \in targets : units[i].tier >= REPRODUCIBLE
    BY <2>1
  <2>4. "minimize" \in OnCandidates \cup OnUnits /\ "minimize" \notin OnCandidates
    BY DEF OnCandidates, OnUnits
  <2>. QED BY <1>1, <2>2, <2>3, <2>4
<1>4. CASE BeginRevalidate
  <2>1. PICK targets \in {{}, DOMAIN units} : BeginOn("revalidate", targets)
    BY <1>4 DEF BeginRevalidate
  <2>2. targets \subseteq DOMAIN units
    BY <2>1
  <2>3. /\ "revalidate" \in OnCandidates \cup OnUnits /\ "revalidate" \notin OnCandidates
        /\ "revalidate" # "minimize"
    BY DEF OnCandidates, OnUnits
  <2>. QED BY <1>1, <2>1, <2>2, <2>3
<1>. QED BY <1>2, <1>3, <1>4

LEMMA Ending == ASSUME Finish PROVE Ends
BY DEF Finish, Remaining, Ends

LEMMA Shaping ==
    ASSUME Typed, FilterUnits \/ DedupeUnits \/ SampleUnits
    PROVE  Shapes
<1>1. ASSUME NEW vs \in Seq(UnitT), NEW h, Drawn(units, h, vs), Shape(vs)
      PROVE  Shapes
  <2>1. /\ status = "idle" /\ units' = vs
        /\ UNCHANGED <<world, episodes, candidates, left, op, batch, proposed, executed,
                       status, products>>
    BY <1>1 DEF Shape, AtOnce, Applies, progress
  <2>. QED BY <1>1, <2>1 DEF Shapes
<1>2. ASSUME NEW I, I \subseteq DOMAIN units, Shape(Picked(units, I))
      PROVE  Shapes
  <2>1. units \in Seq(UnitT)
    BY DEF Typed
  <2>. QED BY <1>1, <1>2, <2>1, PickedIsDrawn
<1>3. CASE FilterUnits
  <2>1. \A t : {i \in DOMAIN units : units[i].tier >= t} \subseteq DOMAIN units
    OBVIOUS
  <2>2. {i \in DOMAIN units : units[i].flipped} \subseteq DOMAIN units
    OBVIOUS
  <2>. QED BY <1>2, <1>3, <2>1, <2>2 DEF FilterUnits
<1>4. CASE DedupeUnits
  <2>1. PICK I : I = {i \in DOMAIN units :
                        \A j \in 1..(i - 1) : Signature(units[j]) # Signature(units[i])}
    OBVIOUS
  <2>2. I \subseteq DOMAIN units /\ Shape(Picked(units, I))
    BY <1>4, <2>1 DEF DedupeUnits, Deduped
  <2>. QED BY <1>2, <2>2
<1>5. CASE SampleUnits
  <2>1. PICK n \in {0, 1, 2} : \E pick \in [1..n -> DOMAIN units] :
          /\ \A j, k \in 1..n : pick[j] = pick[k] => j = k
          /\ Shape([j \in 1..n |-> units[pick[j]]])
    BY <1>5 DEF SampleUnits
  <2>2. PICK pick \in [1..n -> DOMAIN units] :
          /\ \A j, k \in 1..n : pick[j] = pick[k] => j = k
          /\ Shape([j \in 1..n |-> units[pick[j]]])
    BY <2>1
  <2>3. n \in Nat /\ DOMAIN units = 1..Len(units) /\ \A i \in DOMAIN units : units[i] \in UnitT
    BY SeqFacts DEF Typed
  <2>4. PICK vs : vs = [j \in 1..n |-> units[pick[j]]]
    OBVIOUS
  <2>5. vs \in [1..n -> UnitT]
    BY <2>2, <2>3, <2>4
  <2>6. vs \in Seq(UnitT) /\ Len(vs) = n
    BY <2>3, <2>5
  <2>7. Drawn(units, pick, vs)
    BY <2>2, <2>3, <2>4, <2>6 DEF Drawn
  <2>. QED BY <1>1, <2>2, <2>4, <2>6, <2>7
<1>. QED BY <1>3, <1>4, <1>5

(***************************************************************************)
(* The units that replays make.                                            *)
(***************************************************************************)
Replayable(c) ==
    /\ Snapshotted(c)
    /\ Candidate(c.ep, c.iv) \notin Unappliable \/ Diverges(c)

LEMMA CompletedReplays ==
    ASSUME NEW c, NEW blobs, Completes(c, blobs)
    PROVE  Replayable(c)
BY DEF Completes, Restores, Replayable

LEMMA SameReplay ==
    ASSUME NEW c, NEW u, u.ep = c.ep, u.iv = c.iv
    PROVE  /\ Outcome(u) = Outcome(c) /\ Diverges(u) = Diverges(c)
           /\ Flips(u) = Flips(c) /\ Replayable(u) = Replayable(c)
           /\ CasePasses(u, Home(u.ep)) = CasePasses(c, Home(c.ep))
<1>1. Candidate(u.ep, u.iv) = Candidate(c.ep, c.iv) /\ Fork(u) = Fork(c)
  BY DEF Candidate, Fork
<1>2. Outcome(u) = Outcome(c) /\ Diverges(u) = Diverges(c)
  BY <1>1 DEF Outcome, Diverges
<1>3. Flips(u) = Flips(c)
  BY <1>2 DEF Flips
<1>4. Snapshotted(u) = Snapshotted(c)
  BY DEF Snapshotted
<1>5. Replayable(u) = Replayable(c)
  BY <1>1, <1>2, <1>4 DEF Replayable
<1>6. CasePasses(u, Home(u.ep)) = CasePasses(c, Home(c.ep))
  BY <1>1, <1>2, <1>4 DEF CasePasses, Restores
<1>. QED BY <1>2, <1>3, <1>5, <1>6

\* A replayable unit that flips is a case that passes.
LEMMA FlipsPass ==
    ASSUME NEW u, Replayable(u), ~Diverges(u), Flips(u)
    PROVE  CasePasses(u, Home(u.ep))
BY DEF Replayable, Flips, CasePasses, Restores

LEMMA SameProposal ==
    ASSUME NEW u, NEW v, Proposal(u) = Proposal(v)
    PROVE  u.ep = v.ep /\ u.iv = v.iv /\ u.no = v.no
<1>1. /\ Proposal(u).ep = Proposal(v).ep /\ Proposal(u).iv = Proposal(v).iv
      /\ Proposal(u).no = Proposal(v).no
  OBVIOUS
<1>. QED BY <1>1 DEF Proposal

LEMMA TierOrder ==
    /\ SUGGESTED \in EvidenceTier /\ COUNTERFACTUAL_VALIDATED \in EvidenceTier
    /\ REPRODUCIBLE \in EvidenceTier /\ MINIMAL \in EvidenceTier
    /\ ~(SUGGESTED >= COUNTERFACTUAL_VALIDATED) /\ ~(SUGGESTED >= REPRODUCIBLE)
    /\ REPRODUCIBLE >= COUNTERFACTUAL_VALIDATED
    /\ MINIMAL >= COUNTERFACTUAL_VALIDATED
    /\ COUNTERFACTUAL_VALIDATED >= COUNTERFACTUAL_VALIDATED
    /\ EvidenceTier \subseteq Nat
BY DEF SUGGESTED, COUNTERFACTUAL_VALIDATED, REPRODUCIBLE, MINIMAL, EvidenceTier,
       OBSERVED, CONSTRAINT_VALIDATED, TRAINING_VALIDATED

LEMMA OutcomeType == \A c : Outcome(c) \in {"none", "success", "failure"}
BY DEF Outcome

LEMMA PairedUnits ==
    ASSUME NEW c \in Proposals
    PROVE  /\ PairedUnit(c) \in UnitT
           /\ Replayable(c) => Sound(PairedUnit(c))
           /\ PairedUnit(c).ep = c.ep /\ PairedUnit(c).iv = c.iv
           /\ PairedUnit(c).no = c.no
           /\ PairedUnit(c).tier \in {SUGGESTED, REPRODUCIBLE}
           /\ PairedUnit(c).tier # SUGGESTED => Flips(c) /\ ~Diverges(c)
<1>1. CASE Diverges(c)
  <2>1. PICK u : u = Unit(c, SUGGESTED, FALSE, "none", FALSE)
    OBVIOUS
  <2>2. PairedUnit(c) = u
    BY <1>1, <2>1 DEF PairedUnit
  <2>3. /\ u \in UnitT /\ u.ep = c.ep /\ u.iv = c.iv /\ u.no = c.no
        /\ u.tier = SUGGESTED /\ u.outcome = "none"
    BY <2>1, TierOrder DEF Unit, UnitT, Proposals
  <2>4. Sound(u)
    BY <2>3, TierOrder DEF Sound, Validated
  <2>. QED BY <2>2, <2>3, <2>4
<1>2. CASE ~Diverges(c) /\ ~Flips(c)
  <2>1. PICK u : u = Unit(c, SUGGESTED, TRUE, Outcome(c), FALSE)
    OBVIOUS
  <2>2. PairedUnit(c) = u
    BY <1>2, <2>1 DEF PairedUnit
  <2>3. /\ u \in UnitT /\ u.ep = c.ep /\ u.iv = c.iv /\ u.no = c.no
        /\ u.tier = SUGGESTED /\ u.outcome = Outcome(c)
    BY <2>1, TierOrder, OutcomeType DEF Unit, UnitT, Proposals
  <2>4. Sound(u)
    BY <1>2, <2>3, TierOrder, SameReplay DEF Sound, Validated, Flips
  <2>. QED BY <2>2, <2>3, <2>4
<1>3. CASE ~Diverges(c) /\ Flips(c)
  <2>1. PICK u : u = Unit(c, REPRODUCIBLE, TRUE, "success", TRUE)
    OBVIOUS
  <2>2. PairedUnit(c) = u
    BY <1>3, <2>1 DEF PairedUnit
  <2>3. /\ u \in UnitT /\ u.ep = c.ep /\ u.iv = c.iv /\ u.no = c.no
        /\ u.tier = REPRODUCIBLE /\ u.outcome = "success"
    BY <2>1, TierOrder DEF Unit, UnitT, Proposals
  <2>4. ASSUME Replayable(c) PROVE Sound(u)
    <3>1. Outcome(u) = "success" /\ CasePasses(u, Home(u.ep)) /\ Validated(u)
      BY <1>3, <2>3, <2>4, TierOrder, SameReplay, FlipsPass DEF Validated, Flips
    <3>. QED BY <3>1 DEF Sound
  <2>. QED BY <1>3, <2>2, <2>3, <2>4
<1>. QED BY <1>1, <1>2, <1>3

LEMMA StressedUnits ==
    ASSUME NEW c \in Proposals
    PROVE  /\ StressedUnit(c) \in UnitT /\ Sound(StressedUnit(c))
           /\ StressedUnit(c).ep = c.ep /\ StressedUnit(c).iv = c.iv
           /\ StressedUnit(c).no = c.no
<1>1. PICK flipped \in BOOLEAN :
          flipped = (c.ep \in Successful /\ Outcome(c) = "failure")
  BY Zenon
<1>2. PICK u : u = Unit(c, COUNTERFACTUAL_VALIDATED, FALSE, Outcome(c), flipped)
  OBVIOUS
<1>3. StressedUnit(c) = u
  BY <1>1, <1>2 DEF StressedUnit
<1>4. /\ u \in UnitT /\ u.ep = c.ep /\ u.iv = c.iv /\ u.no = c.no
      /\ u.tier = COUNTERFACTUAL_VALIDATED /\ u.outcome = Outcome(c)
      /\ u.matched = FALSE
  BY <1>1, <1>2, TierOrder, OutcomeType DEF Unit, UnitT, Proposals
<1>5. Sound(u)
  BY <1>4, TierOrder, SameReplay DEF Sound, Validated
<1>. QED BY <1>3, <1>4, <1>5

\* u with another tier.
At(u, tier) == [u EXCEPT !.tier = tier]

LEMMA Retiered ==
    ASSUME NEW u \in UnitT, NEW tier \in EvidenceTier
    PROVE  /\ At(u, tier) \in UnitT
           /\ At(u, tier).ep = u.ep /\ At(u, tier).iv = u.iv /\ At(u, tier).no = u.no
           /\ At(u, tier).matched = u.matched /\ At(u, tier).outcome = u.outcome
           /\ At(u, tier).tier = tier
BY DEF At, UnitT

LEMMA ConfirmedUnits ==
    ASSUME NEW u \in UnitT, Sound(u), u.tier >= REPRODUCIBLE
    PROVE  /\ Confirmed(u)[1] \in UnitT /\ Sound(Confirmed(u)[1])
           /\ Confirmed(u)[1].ep = u.ep /\ Confirmed(u)[1].iv = u.iv
           /\ Confirmed(u)[1].no = u.no
           /\ Confirmed(u)[2] = 1
<1>1. Validated(u)
  <2>1. u.tier \in Nat
    BY TierOrder DEF UnitT
  <2>. QED BY <2>1 DEF Validated, REPRODUCIBLE, COUNTERFACTUAL_VALIDATED
<1>2. PICK v : v = At(u, MINIMAL)
  OBVIOUS
<1>3. /\ v \in UnitT /\ v.ep = u.ep /\ v.iv = u.iv /\ v.no = u.no
      /\ v.matched = u.matched /\ v.outcome = u.outcome /\ v.tier = MINIMAL
  BY <1>2, Retiered, TierOrder
<1>4. Sound(v)
  BY <1>1, <1>3, SameReplay, TierOrder DEF Sound, Validated
<1>5. Confirmed(u) = <<IF Outcome(u) = "success" THEN v ELSE u, 1>>
  BY <1>2 DEF Confirmed, At
<1>. QED BY <1>3, <1>4, <1>5

LEMMA RecheckedUnits ==
    ASSUME NEW u \in UnitT, Sound(u)
    PROVE  /\ Rechecked(u) \in UnitT /\ Sound(Rechecked(u))
           /\ Rechecked(u).ep = u.ep /\ Rechecked(u).iv = u.iv
           /\ Rechecked(u).no = u.no
           /\ Validated(Rechecked(u)) => Rechecked(u).tier = u.tier
<1>1. PICK v : v = At(u, SUGGESTED)
  OBVIOUS
<1>2. /\ v \in UnitT /\ v.ep = u.ep /\ v.iv = u.iv /\ v.no = u.no
      /\ v.matched = u.matched /\ v.outcome = u.outcome /\ v.tier = SUGGESTED
  BY <1>1, Retiered, TierOrder
<1>3. CASE ~Diverges(u) /\ Flips(u)
  BY <1>3 DEF Rechecked
<1>4. CASE ~(~Diverges(u) /\ Flips(u))
  <2>1. Rechecked(u) = v
    BY <1>1, <1>4 DEF Rechecked, At
  <2>2. Sound(v) /\ ~Validated(v)
    BY <1>2, <1>4, SameReplay, TierOrder DEF Sound, Validated, Flips
  <2>. QED BY <1>2, <2>1, <2>2
<1>. QED BY <1>3, <1>4

LEMMA RunsCount ==
    ASSUME NEW c
    PROVE  /\ ControlRuns(c) \in Nat /\ IntervenedRuns(c) \in Nat /\ Runs(c) \in Nat
           /\ ~Diverges(c) => IntervenedRuns(c) > 0 /\ Runs(c) > 0
<1>1. ControlRuns(c) \in Nat
  BY DEF ControlRuns
<1>2. IntervenedRuns(c) \in Nat /\ (~Diverges(c) => IntervenedRuns(c) > 0)
  BY NumbersAssumption DEF IntervenedRuns
<1>. QED BY <1>1, <1>2 DEF Runs

LEMMA AnswerMade ==
    ASSUME Typed, status = "busy", op \in OnCandidates,
           NEW i \in left, Proceeds(i), NEW u \in UnitT, NEW runs \in Nat,
           u.ep = candidates[i].ep, u.iv = candidates[i].iv, u.no = candidates[i].no,
           Sound(u),
           Validated(u) => runs > 0,
           Yields(u, runs) \/ Collects(u, runs)
    PROVE  Answers
<1>1. AtIt /\ left' = left \ {i}
  BY DEF AtIt, Proceeds, products
<1>2. /\ executed' = executed + runs
      /\ \/ units' = Append(units, u) /\ batch' = batch
         \/ batch' = Append(batch, u) /\ units' = units
  BY DEF Yields, Collects
<1>3. executed \in Nat
  BY DEF Typed
<1>4. Validated(u) => executed' > executed
  BY <1>2, <1>3
<1>5. Proposal(u) = Proposal(candidates[i])
  BY DEF Proposal
<1>. QED BY <1>1, <1>2, <1>4, <1>5 DEF Answers

LEMMA AtCandidate ==
    ASSUME Typed, AtWork, op \in OnCandidates, NEW i \in left
    PROVE  candidates[i] \in Proposals
BY SeqFacts DEF Typed, AtWork

LEMMA PairedRuns ==
    ASSUME NEW c \in Proposals, Validated(PairedUnit(c))
    PROVE  IntervenedRuns(c) > 0 /\ Runs(c) > 0
<1>1. PairedUnit(c).tier # SUGGESTED
  BY TierOrder DEF Validated
<1>. QED BY <1>1, PairedUnits, RunsCount

LEMMA Answering ==
    ASSUME Typed, AtWork,
           PairedReplay \/ PairedReplayParallel \/ StressProbe \/ BudgetScreen
    PROVE  Answers
<1>1. CASE PairedReplay
  <2>1. status = "busy" /\ op \in OnCandidates
    BY <1>1 DEF PairedReplay, Busy, OnCandidates
  <2>2. PICK i \in left : /\ Completes(candidates[i], "own") /\ Proceeds(i)
                          /\ Yields(PairedUnit(candidates[i]), Runs(candidates[i]))
    BY <1>1 DEF PairedReplay
  <2>3. PICK c \in Proposals : c = candidates[i]
    BY <2>1, AtCandidate
  <2>4. Replayable(c)
    BY <2>2, <2>3, CompletedReplays
  <2>. QED BY <2>1, <2>2, <2>3, <2>4, AnswerMade, PairedUnits, PairedRuns, RunsCount
<1>2. CASE PairedReplayParallel
  <2>1. status = "busy" /\ op \in OnCandidates
    BY <1>2 DEF PairedReplayParallel, Busy, OnCandidates
  <2>2. PICK i \in left, control \in Nat :
          /\ Completes(candidates[i], store) /\ Proceeds(i)
          /\ Collects(PairedUnit(candidates[i]), control + IntervenedRuns(candidates[i]))
    BY <1>2, RunsCount DEF PairedReplayParallel
  <2>3. PICK c \in Proposals : c = candidates[i]
    BY <2>1, AtCandidate
  <2>4. PICK runs : runs = control + IntervenedRuns(c)
    OBVIOUS
  <2>5. runs \in Nat /\ (Validated(PairedUnit(c)) => runs > 0)
    BY <2>4, RunsCount, PairedRuns
  <2>6. Replayable(c)
    BY <2>2, <2>3, CompletedReplays
  <2>. QED BY <2>1, <2>2, <2>3, <2>4, <2>5, <2>6, AnswerMade, PairedUnits
<1>3. CASE StressProbe
  <2>1. status = "busy" /\ op \in OnCandidates
    BY <1>3 DEF StressProbe, Busy, OnCandidates
  <2>2. PICK i \in left : /\ Proceeds(i)
                          /\ Yields(StressedUnit(candidates[i]), 1)
    BY <1>3 DEF StressProbe
  <2>3. PICK c \in Proposals : c = candidates[i]
    BY <2>1, AtCandidate
  <2>4. 1 \in Nat /\ 1 > 0
    OBVIOUS
  <2>. QED BY <2>1, <2>2, <2>3, <2>4, AnswerMade, StressedUnits
<1>4. CASE BudgetScreen
  <2>1. status = "busy" /\ op \in OnCandidates
    BY <1>4 DEF BudgetScreen, Busy, OnCandidates
  <2>2. PICK i \in left :
          /\ Completes(candidates[i], "own") /\ Proceeds(i)
          /\ IF PairedUnit(candidates[i]).tier >= REPRODUCIBLE
             THEN Collects(Confirmed(PairedUnit(candidates[i]))[1],
                           Runs(candidates[i]) + Confirmed(PairedUnit(candidates[i]))[2])
             ELSE Collects(PairedUnit(candidates[i]), Runs(candidates[i]))
    BY <1>4 DEF BudgetScreen
  <2>3. PICK c \in Proposals : c = candidates[i]
    BY <2>1, AtCandidate
  <2>4. PICK u \in UnitT : u = PairedUnit(c)
    BY PairedUnits
  <2>5. Sound(u) /\ u.ep = c.ep /\ u.iv = c.iv /\ u.no = c.no
    BY <2>2, <2>3, <2>4, CompletedReplays, PairedUnits
  <2>6. CASE u.tier >= REPRODUCIBLE
    <3>1. PICK v \in UnitT : v = Confirmed(u)[1]
      BY <2>5, <2>6, ConfirmedUnits
    <3>2. Sound(v) /\ v.ep = c.ep /\ v.iv = c.iv /\ v.no = c.no /\ Confirmed(u)[2] = 1
      BY <2>5, <2>6, <3>1, ConfirmedUnits
    <3>3. PICK runs : runs = Runs(c) + 1
      OBVIOUS
    <3>4. runs \in Nat /\ runs > 0
      BY <3>3, RunsCount
    <3>5. Collects(v, runs)
      BY <2>2, <2>3, <2>4, <2>6, <3>1, <3>2, <3>3
    <3>. QED BY <2>1, <2>2, <2>3, <3>1, <3>2, <3>4, <3>5, AnswerMade
  <2>7. CASE ~(u.tier >= REPRODUCIBLE)
    <3>1. Collects(u, Runs(c))
      BY <2>2, <2>3, <2>4, <2>7
    <3>2. Validated(u) => Runs(c) > 0
      BY <2>4, PairedRuns
    <3>3. Runs(c) \in Nat
      BY RunsCount
    <3>. QED BY <2>1, <2>2, <2>3, <2>5, <3>1, <3>2, <3>3, AnswerMade
  <2>. QED BY <2>6, <2>7
<1>. QED BY <1>1, <1>2, <1>3, <1>4

LEMMA Skipping == ASSUME StressSkips PROVE Skips
BY DEF StressSkips, Busy, Skippable, Proceeds, Skips, AtIt, products

LEMMA Reworked ==
    ASSUME Typed, status = "busy", op \in OnUnits,
           NEW i \in left, Proceeds(i), NEW u \in UnitT, NEW runs \in Nat,
           u.ep = units[i].ep, u.iv = units[i].iv, u.no = units[i].no, Sound(u),
           Validated(u) => u.tier = units[i].tier \/ runs > 0,
           units' = [units EXCEPT ![i] = u], executed' = executed + runs,
           UNCHANGED batch
    PROVE  Reworks
<1>1. AtIt /\ left' = left \ {i}
  BY DEF AtIt, Proceeds, products
<1>2. executed \in Nat
  BY DEF Typed
<1>3. Validated(u) => u.tier = units[i].tier \/ executed' > executed
  BY <1>2
<1>4. Proposal(u) = Proposal(units[i])
  BY DEF Proposal
<1>. QED BY <1>1, <1>3, <1>4 DEF Reworks

LEMMA Reworking ==
    ASSUME Typed, AtWork, Honest, Minimize \/ Revalidate
    PROVE  Reworks
<1>1. ASSUME NEW i \in left, op \in OnUnits PROVE units[i] \in UnitT /\ Sound(units[i])
  BY <1>1, SeqFacts DEF Typed, AtWork, Honest
<1>2. CASE Minimize
  <2>1. status = "busy" /\ op = "minimize" /\ op \in OnUnits
    BY <1>2 DEF Minimize, Busy, OnUnits
  <2>2. PICK i \in left : /\ Proceeds(i)
                          /\ units' = [units EXCEPT ![i] = Confirmed(units[i])[1]]
                          /\ executed' = executed + Confirmed(units[i])[2]
                          /\ UNCHANGED batch
    BY <1>2 DEF Minimize
  <2>3. PICK u \in UnitT : u = units[i]
    BY <1>1, <2>1
  <2>4. Sound(u) /\ u.tier >= REPRODUCIBLE
    BY <1>1, <2>1, <2>3 DEF AtWork
  <2>5. PICK v \in UnitT : v = Confirmed(u)[1]
    BY <2>4, ConfirmedUnits
  <2>6. /\ Sound(v) /\ v.ep = u.ep /\ v.iv = u.iv /\ v.no = u.no
        /\ Confirmed(u)[2] = 1
    BY <2>4, <2>5, ConfirmedUnits
  <2>7. 1 \in Nat /\ 1 > 0
    OBVIOUS
  <2>. QED BY <2>1, <2>2, <2>3, <2>5, <2>6, <2>7, Reworked
<1>3. CASE Revalidate
  <2>1. status = "busy" /\ op \in OnUnits
    BY <1>3 DEF Revalidate, Busy, OnUnits
  <2>2. PICK i \in left : /\ Proceeds(i)
                          /\ units' = [units EXCEPT ![i] = Rechecked(units[i])]
                          /\ executed' = executed + Runs(units[i])
                          /\ UNCHANGED batch
    BY <1>3 DEF Revalidate
  <2>3. PICK u \in UnitT : u = units[i]
    BY <1>1, <2>1
  <2>4. Sound(u)
    BY <1>1, <2>1, <2>3
  <2>5. PICK v \in UnitT : v = Rechecked(u)
    BY <2>4, RecheckedUnits
  <2>6. /\ Sound(v) /\ v.ep = u.ep /\ v.iv = u.iv /\ v.no = u.no
        /\ Validated(v) => v.tier = u.tier
    BY <2>4, <2>5, RecheckedUnits
  <2>7. Runs(u) \in Nat
    BY RunsCount
  <2>. QED BY <2>1, <2>2, <2>3, <2>5, <2>6, <2>7, Reworked
<1>. QED BY <1>2, <1>3

(***************************************************************************)
(* Every step of a recipe is one of eight.                                 *)
(***************************************************************************)
LEMMA StepShapes ==
    ASSUME Typed, AtWork, Honest, [Next]_vars
    PROVE  \/ Quiet \/ Proposes \/ Begins \/ Answers
           \/ Skips \/ Reworks \/ Ends \/ Shapes
BY Gathering, Writing, Standing, Proposing, Beginning, Ending, Shaping,
   Answering, Skipping, Reworking DEF Next

LEMMA AppendFacts ==
    ASSUME NEW S, NEW s \in Seq(S), NEW x \in S
    PROVE  /\ Append(s, x) \in Seq(S) /\ DOMAIN s \subseteq DOMAIN Append(s, x)
           /\ \A i \in DOMAIN Append(s, x) :
                 \/ i \in DOMAIN s /\ Append(s, x)[i] = s[i]
                 \/ i = Len(s) + 1 /\ Append(s, x)[i] = x
           /\ Len(s) + 1 \in DOMAIN Append(s, x) /\ Append(s, x)[Len(s) + 1] = x
           /\ \A i \in DOMAIN s : Append(s, x)[i] = s[i]
<1>1. PICK n \in Nat : n = Len(s) /\ DOMAIN s = 1..n
  BY SeqFacts
<1>2. PICK t \in Seq(S) : t = Append(s, x)
  BY AppendProperties
<1>3. /\ Len(t) = n + 1 /\ t[n + 1] = x /\ \A i \in 1..n : t[i] = s[i]
  BY <1>1, <1>2, AppendProperties
<1>4. DOMAIN t = 1..(n + 1)
  BY <1>3, SeqFacts
<1>. QED BY <1>1, <1>2, <1>3, <1>4

LEMMA ConcatFacts ==
    ASSUME NEW S, NEW s \in Seq(S), NEW t \in Seq(S)
    PROVE  /\ s \o t \in Seq(S)
           /\ DOMAIN s = 1..Len(s) /\ DOMAIN t = 1..Len(t)
           /\ Len(s) \in Nat /\ Len(t) \in Nat
           /\ DOMAIN (s \o t) = 1..(Len(s) + Len(t))
           /\ \A i \in DOMAIN (s \o t) :
                 \/ i \in DOMAIN s /\ (s \o t)[i] = s[i]
                 \/ i - Len(s) \in DOMAIN t /\ (s \o t)[i] = t[i - Len(s)]
<1>1. PICK m \in Nat : m = Len(s) /\ DOMAIN s = 1..m
  BY SeqFacts
<1>2. PICK n \in Nat : n = Len(t) /\ DOMAIN t = 1..n
  BY SeqFacts
<1>3. PICK c \in Seq(S) : c = s \o t
  BY ConcatProperties
<1>4. Len(c) = m + n /\ \A i \in 1..(m + n) : c[i] = IF i <= m THEN s[i] ELSE t[i - m]
  BY <1>1, <1>2, <1>3, ConcatProperties
<1>5. DOMAIN c = 1..(m + n)
  BY <1>4, SeqFacts
<1>6. \A i \in 1..(m + n) : \/ i \in 1..m /\ c[i] = s[i]
                            \/ i - m \in 1..n /\ c[i] = t[i - m]
  BY <1>4
<1>. QED BY <1>1, <1>2, <1>3, <1>5, <1>6

LEMMA ConcatStart ==
    ASSUME NEW S, NEW s \in Seq(S), NEW t \in Seq(S), NEW i \in DOMAIN s
    PROVE  i \in DOMAIN (s \o t) /\ (s \o t)[i] = s[i]
<1>1. PICK m \in Nat : m = Len(s) /\ DOMAIN s = 1..m
  BY SeqFacts
<1>2. PICK n \in Nat : n = Len(t)
  BY SeqFacts
<1>3. i \in 1..(m + n) /\ i <= m
  BY <1>1
<1>4. (s \o t)[i] = s[i]
  BY <1>1, <1>2, <1>3, ConcatProperties
<1>5. DOMAIN (s \o t) = 1..(m + n)
  BY <1>1, <1>2, ConcatFacts
<1>. QED BY <1>3, <1>4, <1>5

LEMMA SoundLater ==
    ASSUME world' = world,
           \A i \in DOMAIN units' : Sound(units'[i]),
           \A i \in DOMAIN batch' : Sound(batch'[i]),
           \A u \in Exported' : Sound(u)
    PROVE  Honest'
<1>1. \A u : Outcome(u)' = Outcome(u) /\ Diverges(u)' = Diverges(u)
  BY DEF Outcome, Diverges
<1>2. \A u : CasePasses(u, Home(u.ep))' = CasePasses(u, Home(u.ep))
  BY <1>1 DEF CasePasses
<1>3. \A u : Sound(u)' = Sound(u)
  BY <1>1, <1>2 DEF Sound, Validated
<1>. QED BY <1>3 DEF Honest

LEMMA HonestStep ==
    ASSUME Typed, AtWork, Honest,
           \/ Quiet \/ Proposes \/ Begins \/ Answers
           \/ Skips \/ Reworks \/ Ends \/ Shapes
    PROVE  Honest'
<1>1. /\ \A i \in DOMAIN units : Sound(units[i])
      /\ \A i \in DOMAIN batch : Sound(batch[i])
      /\ \A u \in Exported : Sound(u)
  BY DEF Honest
<1>2. units \in Seq(UnitT) /\ batch \in Seq(UnitT)
  BY DEF Typed
<1>3. UNCHANGED products => Exported' = Exported
  BY DEF products, Exported
<1>4. world' = world
  BY DEF Quiet, Proposes, Begins, Answers, Skips, Reworks, Ends, Shapes, AtIt
<1>5. CASE Quiet
  <2>1. \A u \in Exported' : Sound(u)
    BY <1>1, <1>5 DEF Quiet, Elements
  <2>2. units' = units /\ batch' = batch
    BY <1>5 DEF Quiet
  <2>. QED BY <1>1, <1>4, <2>1, <2>2, SoundLater
<1>6. CASE Proposes \/ Begins \/ Skips
  <2>1. /\ units' = units /\ Exported' = Exported
        /\ batch' = batch \/ batch' = <<>>
    BY <1>3, <1>6 DEF Proposes, Begins, Skips, AtIt
  <2>. QED BY <1>1, <1>4, <2>1, SoundLater
<1>7. CASE Answers
  <2>1. PICK u \in UnitT : /\ Sound(u)
                           /\ \/ units' = Append(units, u) /\ batch' = batch
                              \/ batch' = Append(batch, u) /\ units' = units
    BY <1>7 DEF Answers
  <2>2. Exported' = Exported
    BY <1>3, <1>7 DEF Answers, AtIt
  <2>3. CASE units' = Append(units, u) /\ batch' = batch
    <3>1. \A i \in DOMAIN units' : Sound(units'[i])
      BY <1>1, <1>2, <2>1, <2>3, AppendFacts
    <3>. QED BY <1>1, <1>4, <2>2, <2>3, <3>1, SoundLater
  <2>4. CASE batch' = Append(batch, u) /\ units' = units
    <3>1. \A i \in DOMAIN batch' : Sound(batch'[i])
      BY <1>1, <1>2, <2>1, <2>4, AppendFacts
    <3>. QED BY <1>1, <1>4, <2>2, <2>4, <3>1, SoundLater
  <2>. QED BY <2>1, <2>3, <2>4
<1>8. CASE Reworks
  <2>1. PICK i \in left, u \in UnitT : Sound(u) /\ units' = [units EXCEPT ![i] = u]
    BY <1>8 DEF Reworks
  <2>2. Exported' = Exported /\ batch' = batch
    BY <1>3, <1>8 DEF Reworks, AtIt
  <2>3. \A j \in DOMAIN units' : Sound(units'[j])
    BY <1>1, <2>1
  <2>. QED BY <1>1, <1>4, <2>2, <2>3, SoundLater
<1>9. CASE Ends
  <2>1. units' = units \o batch /\ batch' = <<>> /\ Exported' = Exported
    BY <1>3, <1>9 DEF Ends
  <2>2. \A j \in DOMAIN units' : Sound(units'[j])
    BY <1>1, <1>2, <2>1, ConcatFacts
  <2>. QED BY <1>1, <1>4, <2>1, <2>2, SoundLater
<1>10. CASE Shapes
  <2>1. PICK h : Drawn(units, h, units')
    BY <1>10 DEF Shapes
  <2>2. units' \in Seq(UnitT) /\ batch' = batch /\ Exported' = Exported
    BY <1>3, <1>10 DEF Shapes
  <2>3. \A j \in DOMAIN units' : Sound(units'[j])
    <3>1. DOMAIN units' = 1..Len(units') /\ DOMAIN units = 1..Len(units)
      BY <1>2, <2>2, SeqFacts
    <3>. QED BY <1>1, <2>1, <3>1 DEF Drawn
  <2>. QED BY <1>1, <1>4, <2>2, <2>3, SoundLater
<1>. QED BY <1>5, <1>6, <1>7, <1>8, <1>9, <1>10

LEMMA NumberedFacts ==
    ASSUME NEW E, NEW cs \in Seq(Suggestions(E)), E \subseteq Episodes, proposed \in Nat
    PROVE  /\ Numbered(cs) \in Seq(Proposals)
           /\ DOMAIN Numbered(cs) = DOMAIN cs
           /\ \A j \in DOMAIN cs : /\ Numbered(cs)[j].no = proposed + j
                                   /\ Numbered(cs)[j].ep \in E
<1>1. PICK n \in Nat : n = Len(cs) /\ DOMAIN cs = 1..n
  BY SeqFacts
<1>2. \A j \in 1..n : cs[j].ep \in E /\ cs[j].iv \in Interventions
  <2>1. \A j \in 1..n : cs[j] \in Suggestions(E)
    BY <1>1, SeqFacts
  <2>. QED BY <2>1 DEF Suggestions
<1>3. PICK ns : ns = [j \in 1..n |-> [ep |-> cs[j].ep, iv |-> cs[j].iv, no |-> proposed + j]]
  OBVIOUS
<1>4. ASSUME NEW j \in 1..n
      PROVE  ns[j] \in Proposals /\ ns[j].no = proposed + j /\ ns[j].ep \in E
  <2>1. cs[j].ep \in E /\ cs[j].ep \in Episodes /\ cs[j].iv \in Interventions
    BY <1>2
  <2>2. ns[j] = [ep |-> cs[j].ep, iv |-> cs[j].iv, no |-> proposed + j]
    BY <1>3
  <2>3. proposed + j \in Nat
    OBVIOUS
  <2>. QED BY <2>1, <2>2, <2>3 DEF Proposals
<1>5. ns \in [1..n -> Proposals]
  BY <1>3, <1>4
<1>6. ns \in Seq(Proposals)
  BY <1>5
<1>. QED BY <1>1, <1>3, <1>4, <1>6 DEF Numbered

LEMMA ListsTyped ==
    ASSUME Typed, AtWork,
           \/ Quiet \/ Proposes \/ Begins \/ Answers
           \/ Skips \/ Reworks \/ Ends \/ Shapes
    PROVE  /\ episodes' \in Seq(Episodes) /\ candidates' \in Seq(Proposals)
           /\ units' \in Seq(UnitT) /\ batch' \in Seq(UnitT) /\ proposed' \in Nat
<1>1. /\ units \in Seq(UnitT) /\ batch \in Seq(UnitT) /\ candidates \in Seq(Proposals)
      /\ episodes \in Seq(Episodes) /\ proposed \in Nat
  BY DEF Typed
<1>2. <<>> \in Seq(UnitT) /\ <<>> \in Seq(Proposals)
  OBVIOUS
<1>3. CASE Quiet \/ Shapes
  BY <1>1, <1>3 DEF Quiet, Shapes
<1>4. CASE Proposes
  <2>1. PICK cs \in Seq(Suggestions(Episodes)) :
            candidates' = candidates \o Numbered(cs) /\ proposed' = proposed + Len(cs)
    BY <1>4 DEF Proposes
  <2>2. Numbered(cs) \in Seq(Proposals) /\ Len(cs) \in Nat
    BY <1>1, SeqFacts, NumberedFacts
  <2>3. candidates' \in Seq(Proposals) /\ proposed' \in Nat
    BY <1>1, <2>1, <2>2, ConcatFacts
  <2>. QED BY <1>1, <1>4, <2>3 DEF Proposes
<1>5. CASE Begins \/ Skips
  BY <1>1, <1>2, <1>5 DEF Begins, Skips, AtIt
<1>6. CASE Answers
  <2>1. PICK u \in UnitT : \/ units' = Append(units, u) /\ batch' = batch
                           \/ batch' = Append(batch, u) /\ units' = units
    BY <1>6 DEF Answers
  <2>2. Append(units, u) \in Seq(UnitT) /\ Append(batch, u) \in Seq(UnitT)
    BY <1>1, AppendFacts
  <2>. QED BY <1>1, <1>6, <2>1, <2>2 DEF Answers, AtIt
<1>7. CASE Reworks
  <2>1. PICK i \in left, u \in UnitT : units' = [units EXCEPT ![i] = u]
    BY <1>7 DEF Reworks
  <2>2. i \in 1..Len(units)
    BY <1>1, <1>7, SeqFacts DEF Reworks, AtWork
  <2>3. units' \in Seq(UnitT)
    BY <1>1, <2>1, <2>2, ExceptSeq
  <2>. QED BY <1>1, <1>7, <2>3 DEF Reworks, AtIt
<1>8. CASE Ends
  <2>1. units \o batch \in Seq(UnitT)
    BY <1>1, ConcatFacts
  <2>. QED BY <1>1, <1>2, <1>8, <2>1 DEF Ends
<1>. QED BY <1>3, <1>4, <1>5, <1>6, <1>7, <1>8

LEMMA SourcesTyped ==
    ASSUME Typed, [Next]_vars
    PROVE  sources' \in Seq(DOMAIN Table)
<1>1. \/ sources' = sources \/ \E name \in DOMAIN Table : sources' = Append(sources, name)
  <2>1. \/ UNCHANGED sources
        \/ CollectToy \/ \E name \in DOMAIN Table \ {"toy"} : AddSource(name)
    BY DEF Next, vars, LoadRun, ImportTraces, ScreenFailures, Attribute, Propose, Refine,
           NothingSupplied, BeginOnCandidates, BeginMinimize, BeginRevalidate, BeginOn,
           PairedReplay, PairedReplayParallel, StressProbe, StressSkips, BudgetScreen,
           Minimize, Revalidate, Proceeds, ReplayRaises, Finish, FilterUnits,
           DedupeUnits, SampleUnits, Shape, ExportViews, ExportTRL, Export, SaveRun,
           Report, context
  <2>. QED BY <2>1, SourcesAssumption DEF CollectToy, AddSource
<1>2. sources \in Seq(DOMAIN Table)
  BY DEF Typed
<1>. QED BY <1>1, <1>2, AppendFacts

LEMMA ServicesTyped ==
    ASSUME Typed, [Next]_vars
    PROVE  /\ store' \in {"none", "own", "old"} /\ built' \in BOOLEAN
           /\ op' \in OnCandidates \cup OnUnits \cup {"none"}
           /\ status' \in {"idle", "busy", "raised"}
<1>1. \/ UNCHANGED services
      \/ EngineServices
      \/ store' = "old" /\ built' = built
  BY DEF Next, vars, CollectToy, AddSource, LoadRun, ImportTraces, ScreenFailures, Attribute,
         Propose, Refine, services,
         NothingSupplied, BeginOnCandidates, BeginMinimize, BeginRevalidate, BeginOn,
         PairedReplay, PairedReplayParallel, StressProbe, StressSkips, BudgetScreen,
         Minimize, Revalidate, Proceeds, ReplayRaises, Finish, FilterUnits,
         DedupeUnits, SampleUnits, Shape, ExportViews, ExportTRL, Export, SaveRun, Report
<1>2. store' \in {"none", "own", "old"} /\ built' \in BOOLEAN
  BY <1>1 DEF services, EngineServices, Typed
<1>3. /\ op' = op \/ op' \in OnCandidates \cup OnUnits \cup {"none"}
      /\ status' = status \/ status' \in {"idle", "busy", "raised"}
  BY DEF Next, vars, CollectToy, AddSource, LoadRun, ImportTraces, ScreenFailures, Attribute,
         Propose, Refine, AtOnce, Applies, OnUnits,
         NothingSupplied, BeginOnCandidates, BeginMinimize, BeginRevalidate, BeginOn,
         PairedReplay, PairedReplayParallel, StressProbe, StressSkips, BudgetScreen,
         Minimize, Revalidate, Proceeds, ReplayRaises, Finish, FilterUnits,
         DedupeUnits, SampleUnits, Shape, ExportViews, ExportTRL, Export, SaveRun, Report
<1>. QED BY <1>2, <1>3 DEF Typed

LEMMA ProductsTyped ==
    ASSUME Typed, [Next]_vars
    PROVE  /\ exports' \in [{"views", "trl"} -> SUBSET UnitT]
           /\ saved' \in SavedRuns
<1>1. \/ UNCHANGED products
      \/ Export("views") \/ Export("trl") \/ SaveRun
  BY DEF Next, vars, CollectToy, AddSource, LoadRun, ImportTraces, ScreenFailures, Attribute,
         Propose, Refine, products,
         NothingSupplied, BeginOnCandidates, BeginMinimize, BeginRevalidate, BeginOn,
         PairedReplay, PairedReplayParallel, StressProbe, StressSkips, BudgetScreen,
         Minimize, Revalidate, Proceeds, ReplayRaises, Finish, FilterUnits,
         DedupeUnits, SampleUnits, Shape, ExportViews, ExportTRL, Report
<1>2. ASSUME NEW kind \in {"views", "trl"}, Export(kind)
      PROVE  exports' \in [{"views", "trl"} -> SUBSET UnitT] /\ saved' = saved
  <2>1. Exportable \in SUBSET UnitT
    BY SeqFacts DEF Exportable, Typed
  <2>. QED BY <1>2, <2>1 DEF Export, Typed
<1>3. ASSUME SaveRun
      PROVE  /\ saved' \in SavedRuns
             /\ exports' = exports
  <2>1. Elements(episodes) \subseteq Episodes
    BY SeqFacts DEF Typed
  <2>. QED BY <1>3, <2>1 DEF SaveRun, Run, Typed, SavedRuns
<1>. QED BY <1>1, <1>2, <1>3 DEF products, Typed

LEMMA BillsTyped ==
    ASSUME Typed, AtWork, Honest, [Next]_vars
    PROVE  ledger' \in Nat /\ executed' \in Nat /\ bill' \in Nat /\ applied' \in Nat
<1> DEFINE Charges(runs) == /\ ledger' = ledger \/ ledger' = ledger + runs
                            /\ executed' = executed \/ executed' = executed + runs
                            /\ bill' = bill \/ bill' = bill + runs
<1>1. /\ ledger \in Nat /\ executed \in Nat /\ bill \in Nat /\ applied \in Nat
  BY DEF Typed
<1>2. applied' = applied \/ applied' = applied + 1
  BY DEF Next, vars, CollectToy, AddSource, LoadRun, ImportTraces, ScreenFailures, Attribute,
         Propose, Refine, AtOnce, Applies,
         NothingSupplied, BeginOnCandidates, BeginMinimize, BeginRevalidate, BeginOn,
         PairedReplay, PairedReplayParallel, StressProbe, StressSkips, BudgetScreen,
         Minimize, Revalidate, Proceeds, ReplayRaises, Finish, FilterUnits,
         DedupeUnits, SampleUnits, Shape, ExportViews, ExportTRL, Export, SaveRun, Report
<1>3. ASSUME NEW runs \in Nat, Charges(runs)
      PROVE  ledger' \in Nat /\ executed' \in Nat /\ bill' \in Nat
  BY <1>1, <1>3
<1>4. \A runs, u : Yields(u, runs) \/ Collects(u, runs) => Charges(runs)
  BY DEF Yields, Collects
<1> HIDE DEF Charges
<1>5. CASE \/ PairedReplay \/ PairedReplayParallel \/ StressProbe \/ BudgetScreen
  <2>1. op \in OnCandidates
    BY <1>5 DEF PairedReplay, PairedReplayParallel, StressProbe, BudgetScreen, Busy, OnCandidates
  <2>2. CASE PairedReplay \/ PairedReplayParallel \/ StressProbe
    <3>1. \E u : \E runs \in Nat : Yields(u, runs) \/ Collects(u, runs)
      BY <2>2, RunsCount DEF PairedReplay, PairedReplayParallel, StressProbe
    <3>2. PICK runs \in Nat : \E u : Yields(u, runs) \/ Collects(u, runs)
      BY <3>1
    <3>3. Charges(runs)
      BY <1>4, <3>2
    <3>. QED BY <1>1, <1>2, <1>3, <3>3
  <2>3. CASE BudgetScreen
    <3>1. PICK i \in left :
            IF PairedUnit(candidates[i]).tier >= REPRODUCIBLE
            THEN Collects(Confirmed(PairedUnit(candidates[i]))[1],
                          Runs(candidates[i]) + Confirmed(PairedUnit(candidates[i]))[2])
            ELSE Collects(PairedUnit(candidates[i]), Runs(candidates[i]))
      BY <2>3 DEF BudgetScreen
    <3>2. \A u : Confirmed(u)[2] = 1
      BY DEF Confirmed
    <3>3. \E u : \E runs \in Nat : Collects(u, runs)
      BY <3>1, <3>2, RunsCount
    <3>4. PICK runs \in Nat : \E u : Collects(u, runs)
      BY <3>3
    <3>5. Charges(runs)
      BY <1>4, <3>4
    <3>. QED BY <1>1, <1>2, <1>3, <3>5
  <2>. QED BY <1>5, <2>2, <2>3
<1>6. CASE Minimize \/ Revalidate
  <2>1. \E runs \in Nat : executed' = executed + runs /\ UNCHANGED <<ledger, bill>>
    BY <1>6, RunsCount DEF Minimize, Revalidate, Confirmed
  <2>. QED BY <1>1, <1>2, <2>1
<1>7. CASE Finish
  BY <1>1, <1>2, <1>7 DEF Finish
<1>8. CASE BeginOnCandidates \/ BeginMinimize \/ BeginRevalidate
  <2>1. \E name, targets : BeginOn(name, targets)
    BY <1>8 DEF BeginOnCandidates, BeginMinimize, BeginRevalidate
  <2>. QED BY <1>1, <1>2, <2>1 DEF BeginOn, context
<1>10. CASE ReplayRaises
  <2>1. \E t, blobs : executed' = executed + RunsBefore(t, blobs)
    BY <1>10 DEF ReplayRaises
  <2>2. \A t, blobs : RunsBefore(t, blobs) \in Nat
    BY RunsCount DEF RunsBefore
  <2>3. ledger' = ledger /\ bill' = bill
    BY <1>10 DEF ReplayRaises, context, progress
  <2>. QED BY <1>1, <1>2, <2>1, <2>2, <2>3
<1>9. \/ UNCHANGED <<ledger, executed, bill>>
      \/ ReplayRaises
      \/ PairedReplay \/ PairedReplayParallel \/ StressProbe \/ BudgetScreen
      \/ Minimize \/ Revalidate \/ Finish
      \/ BeginOnCandidates \/ BeginMinimize \/ BeginRevalidate
  BY DEF Next, vars, CollectToy, AddSource, LoadRun, ImportTraces, ScreenFailures, Attribute,
         Propose, Refine, AtOnce, Applies, progress, context,
         NothingSupplied, StressSkips, FilterUnits,
         DedupeUnits, SampleUnits, Shape, ExportViews, ExportTRL, Export, SaveRun, Report
<1>. QED BY <1>1, <1>2, <1>3, <1>5, <1>6, <1>7, <1>8, <1>9, <1>10

LEMMA TypedStep ==
    ASSUME Typed, AtWork, Honest, [Next]_vars
    PROVE  Typed'
BY ListsTyped, StepShapes, SourcesTyped, ServicesTyped, ProductsTyped,
   BillsTyped DEF Typed

LEMMA ServicesStep ==
    ASSUME Typed, AtWork, [Next]_vars
    PROVE  (status' = "busy" => built') /\ (store' = "none" => ~built')
<1>1. /\ \/ UNCHANGED services
         \/ EngineServices
         \/ store' = "old" /\ built' = built
      /\ \/ status' = status \/ status' # "busy"
         \/ EngineServices
  BY DEF Next, vars, CollectToy, AddSource, LoadRun, ImportTraces, ScreenFailures, Attribute,
         Propose, Refine, AtOnce, Applies, services,
         NothingSupplied, BeginOnCandidates, BeginMinimize, BeginRevalidate, BeginOn,
         PairedReplay, PairedReplayParallel, StressProbe, StressSkips, BudgetScreen,
         Minimize, Revalidate, Proceeds, ReplayRaises, Finish, FilterUnits,
         DedupeUnits, SampleUnits, Shape, ExportViews, ExportTRL, Export, SaveRun, Report
<1>2. /\ status = "busy" => built
      /\ store = "none" => ~built
      /\ built \in BOOLEAN
  BY DEF AtWork, Typed
<1>. QED BY <1>1, <1>2 DEF services, EngineServices

LEMMA OpKinds == OnCandidates \cap OnUnits = {} /\ "none" \notin OnCandidates \cup OnUnits
                 /\ "minimize" \in OnUnits
BY DEF OnCandidates, OnUnits

LEMMA AtWorkStep ==
    ASSUME Typed, AtWork, Honest, [Next]_vars
    PROVE  AtWork'
<1>1. (status' = "busy" => built') /\ (store' = "none" => ~built')
  BY ServicesStep
<1>2. /\ status = "idle" => op = "none" /\ left = {} /\ batch = <<>>
      /\ status = "busy" => op # "none"
      /\ op \in OnUnits => batch = <<>> /\ left \subseteq DOMAIN units
      /\ op \in OnCandidates => left \subseteq DOMAIN candidates
      /\ op = "minimize" => \A i \in left : units[i].tier >= REPRODUCIBLE
  BY DEF AtWork
<1>3. CASE Quiet
  <2>1. /\ UNCHANGED <<candidates, left, op, units, batch>>
        /\ status' = status \/ status' = "raised"
    BY <1>3 DEF Quiet
  <2>. QED BY <1>1, <1>2, <2>1 DEF AtWork
<1>4. CASE Proposes \/ Shapes
  <2>1. /\ status = "idle" /\ status' = status
        /\ UNCHANGED <<left, op, batch>>
    BY <1>4 DEF Proposes, Shapes
  <2>. QED BY <1>1, <1>2, <2>1, OpKinds DEF AtWork
<1>5. CASE Begins
  BY <1>1, <1>5, OpKinds DEF Begins, AtWork
<1>6. CASE Answers \/ Skips
  <2>0. "stress_probe" \in OnCandidates
    BY DEF OnCandidates
  <2>1. /\ status' = status /\ op' = op /\ op \in OnCandidates /\ status = "busy"
        /\ left' \subseteq left /\ candidates' = candidates
    BY <1>6, <2>0 DEF Answers, Skips, AtIt
  <2>. QED BY <1>1, <1>2, <2>1, OpKinds DEF AtWork
<1>7. CASE Reworks
  <2>1. /\ status' = status /\ op' = op /\ op \in OnUnits /\ status = "busy" /\ batch' = batch
    BY <1>7 DEF Reworks, AtIt
  <2>0. PICK i \in left :
           \E u : left' = left \ {i} /\ units' = [units EXCEPT ![i] = u]
    BY <1>7 DEF Reworks
  <2>2. PICK u : left' = left \ {i} /\ units' = [units EXCEPT ![i] = u]
    BY <2>0
  <2>3. /\ left' \subseteq left /\ DOMAIN units' = DOMAIN units
        /\ \A j \in left' : j \in DOMAIN units => units'[j] = units[j]
    BY <2>2
  <2>. QED BY <1>1, <1>2, <2>1, <2>3, OpKinds DEF AtWork
<1>8. CASE Ends
  BY <1>1, <1>8, OpKinds DEF Ends, AtWork
<1>. QED BY <1>3, <1>4, <1>5, <1>6, <1>7, <1>8, StepShapes

(***************************************************************************)
(* The numbers.                                                            *)
(***************************************************************************)
LEMMA CountedQuiet ==
    ASSUME Counted, UNCHANGED <<candidates, units, batch, proposed>>, Waiting' \subseteq Waiting
    PROVE  Counted'
BY DEF Counted, Numbers, Apart, Unanswered

LEMMA WaitingAll ==
    ASSUME AtWork, status = "idle" \/ op \notin OnCandidates
    PROVE  Waiting = DOMAIN candidates
BY DEF Waiting, AtWork

LEMMA CountedProposes ==
    ASSUME Typed, AtWork, Counted, Proposes
    PROVE  Counted'
<1>1. PICK cs \in Seq(Suggestions(Episodes)) :
          candidates' = candidates \o Numbered(cs) /\ proposed' = proposed + Len(cs)
  BY DEF Proposes
<1>2. /\ units' = units /\ batch' = batch /\ status = "idle" /\ status' = "idle"
  BY DEF Proposes
<1>3. candidates \in Seq(Proposals) /\ units \in Seq(UnitT) /\ batch \in Seq(UnitT)
      /\ proposed \in Nat /\ Elements(episodes) \subseteq Episodes
  BY SeqFacts DEF Typed
<1>0. proposed \in Nat
  BY <1>3
<1>4. PICK ns \in Seq(Proposals) :
          /\ ns = Numbered(cs) /\ DOMAIN ns = DOMAIN cs
          /\ \A j \in DOMAIN cs : ns[j].no = proposed + j
  BY <1>3, NumberedFacts
<1>5. PICK m \in Nat : m = Len(candidates) /\ DOMAIN candidates = 1..m
  BY <1>3, SeqFacts
<1>6. PICK n \in Nat : n = Len(cs) /\ DOMAIN cs = 1..n
  BY SeqFacts
<1>7. Len(ns) = n
  <2>1. Len(ns) \in Nat /\ DOMAIN ns = 1..Len(ns)
    BY SeqFacts
  <2>. QED BY <1>4, <1>6, <2>1
<1>8. PICK ds \in Seq(Proposals) : ds = candidates \o ns
  BY <1>3, ConcatFacts
<1>9. /\ DOMAIN ds = 1..(m + n)
      /\ \A i \in 1..(m + n) : \/ i \in 1..m /\ ds[i] = candidates[i]
                               \/ i - m \in 1..n /\ ds[i] = ns[i - m]
  <2>1. /\ DOMAIN ds = 1..(Len(candidates) + Len(ns))
        /\ \A i \in DOMAIN ds :
              \/ i \in DOMAIN candidates /\ ds[i] = candidates[i]
              \/ i - Len(candidates) \in DOMAIN ns /\ ds[i] = ns[i - Len(candidates)]
    BY <1>3, <1>8, ConcatFacts
  <2>2. DOMAIN ns = 1..n
    BY <1>4, <1>6
  <2>. QED BY <1>5, <1>7, <2>1, <2>2
<1>10. candidates' = ds
  BY <1>1, <1>4, <1>8
<1>11. /\ \A i \in 1..m : candidates[i].no \in Nat /\ candidates[i].no <= proposed
       /\ \A i, j \in 1..m : candidates[i].no = candidates[j].no => i = j
  <2>1. \A i \in 1..m : candidates[i].no \in Nat
    <3>1. \A i \in 1..m : candidates[i] \in Proposals
      BY <1>3, <1>5, SeqFacts
    <3>. QED BY <3>1 DEF Proposals
  <2>. QED BY <1>5, <2>1 DEF Counted, Numbers
<1>12. \A i \in 1..(m + n) :
          \/ i \in 1..m /\ ds[i].no = candidates[i].no
          \/ i - m \in 1..n /\ ds[i].no = proposed + (i - m)
  BY <1>4, <1>6, <1>9
<1>13. Numbers(candidates)'
  <2>1. \A i \in 1..(m + n) : ds[i].no <= proposed + n
    <3> SUFFICES ASSUME NEW i \in 1..(m + n) PROVE ds[i].no <= proposed + n
      OBVIOUS
    <3>1. CASE i \in 1..m /\ ds[i].no = candidates[i].no
      BY <1>3, <1>11, <3>1
    <3>2. CASE i - m \in 1..n /\ ds[i].no = proposed + (i - m)
      BY <1>3, <3>2
    <3>. QED BY <1>12, <3>1, <3>2
  <2>2. ASSUME NEW i \in 1..(m + n), NEW j \in 1..(m + n), ds[i].no = ds[j].no PROVE i = j
    <3>1. CASE i \in 1..m /\ ds[i].no = candidates[i].no
      <4>1. CASE j \in 1..m /\ ds[j].no = candidates[j].no
        BY <1>11, <2>2, <3>1, <4>1
      <4>2. CASE j - m \in 1..n /\ ds[j].no = proposed + (j - m)
        <5>1. ds[i].no <= proposed /\ ds[i].no \in Nat
          BY <1>11, <3>1
        <5>2. j - m \in Nat /\ j - m > 0 /\ ds[i].no = proposed + (j - m)
          BY <2>2, <4>2
        <5>. QED BY <1>0, <5>1, <5>2
      <4>. QED BY <1>12, <4>1, <4>2
    <3>2. CASE i - m \in 1..n /\ ds[i].no = proposed + (i - m)
      <4>1. CASE j \in 1..m /\ ds[j].no = candidates[j].no
        <5>1. ds[j].no <= proposed /\ ds[j].no \in Nat
          BY <1>11, <4>1
        <5>2. i - m \in Nat /\ i - m > 0 /\ ds[j].no = proposed + (i - m)
          BY <2>2, <3>2
        <5>. QED BY <1>0, <5>1, <5>2
      <4>2. CASE j - m \in 1..n /\ ds[j].no = proposed + (j - m)
        <5>1. proposed + (i - m) = proposed + (j - m)
          BY <2>2, <3>2, <4>2
        <5>. QED BY <1>0, <5>1
      <4>. QED BY <1>12, <4>1, <4>2
    <3>. QED BY <1>12, <3>1, <3>2
  <2>. QED BY <1>1, <1>6, <1>9, <1>10, <2>1, <2>2 DEF Numbers
<1>14. ASSUME NEW s \in Seq(UnitT), Numbers(s), Unanswered(s)
       PROVE  /\ \A i \in DOMAIN s : s[i].no <= proposed + n
              /\ \A i \in 1..(m + n) : \A j \in DOMAIN s : ds[i].no # s[j].no
  <2>1. \A j \in DOMAIN s : s[j].no \in Nat /\ s[j].no <= proposed
    <3>1. \A j \in DOMAIN s : s[j] \in UnitT
      BY SeqFacts
    <3>. QED BY <1>14, <3>1 DEF UnitT, Numbers
  <2>2. \A i \in 1..m : \A j \in DOMAIN s : candidates[i].no # s[j].no
    BY <1>2, <1>5, <1>14, WaitingAll DEF Unanswered
  <2>3. ASSUME NEW i \in 1..(m + n), NEW j \in DOMAIN s PROVE ds[i].no # s[j].no
    <3>1. CASE i \in 1..m /\ ds[i].no = candidates[i].no
      BY <2>2, <3>1
    <3>2. CASE i - m \in 1..n /\ ds[i].no = proposed + (i - m)
      <4>1. s[j].no \in Nat /\ s[j].no <= proposed
        BY <2>1
      <4>. QED BY <1>3, <3>2, <4>1
    <3>. QED BY <1>12, <3>1, <3>2
  <2>. QED BY <1>3, <2>1, <2>3
<1>15. Waiting' = 1..(m + n)
  BY <1>2, <1>9, <1>10 DEF Waiting
<1>16. /\ Numbers(units) /\ Unanswered(units) /\ Numbers(batch) /\ Unanswered(batch)
       /\ Apart(units, batch)
  BY DEF Counted
<1>17. Numbers(units)' /\ Unanswered(units)' /\ Numbers(batch)' /\ Unanswered(batch)'
  <2>1. /\ \A i \in DOMAIN units : units[i].no <= proposed'
        /\ \A i \in Waiting' : \A j \in DOMAIN units : candidates'[i].no # units[j].no
    BY <1>1, <1>3, <1>6, <1>10, <1>14, <1>15, <1>16
  <2>2. /\ \A i \in DOMAIN batch : batch[i].no <= proposed'
        /\ \A i \in Waiting' : \A j \in DOMAIN batch : candidates'[i].no # batch[j].no
    BY <1>1, <1>3, <1>6, <1>10, <1>14, <1>15, <1>16
  <2>. QED BY <1>2, <1>16, <2>1, <2>2 DEF Numbers, Unanswered
<1>. QED BY <1>2, <1>13, <1>16, <1>17 DEF Counted, Apart

LEMMA NumbersAppend ==
    ASSUME NEW s \in Seq(UnitT), NEW u \in UnitT, Numbers(s), u.no <= proposed,
           \A j \in DOMAIN s : s[j].no # u.no
    PROVE  Numbers(Append(s, u))
<1>1. PICK n \in Nat : n = Len(s) /\ DOMAIN s = 1..n
  BY SeqFacts
<1>2. PICK t : t = Append(s, u)
  OBVIOUS
<1>3. \A i \in DOMAIN t : \/ i \in DOMAIN s /\ t[i] = s[i]
                          \/ i = n + 1 /\ t[i] = u
  BY <1>1, <1>2, AppendFacts
<1>4. /\ \A i \in DOMAIN s : s[i].no <= proposed
      /\ \A i, j \in DOMAIN s : s[i].no = s[j].no => i = j
  BY DEF Numbers
<1>5. \A i \in DOMAIN t : t[i].no <= proposed
  BY <1>3, <1>4
<1>6. \A i, j \in DOMAIN t : t[i].no = t[j].no => i = j
  BY <1>3, <1>4
<1>. QED BY <1>2, <1>5, <1>6 DEF Numbers

LEMMA CountedAnswers ==
    ASSUME Typed, AtWork, Counted, Answers
    PROVE  Counted'
<1>1. PICK i \in left, u \in UnitT :
          /\ left' = left \ {i} /\ Proposal(u).no = Proposal(candidates[i]).no
          /\ \/ units' = Append(units, u) /\ batch' = batch
             \/ batch' = Append(batch, u) /\ units' = units
  BY DEF Answers
<1>0. u.no = candidates[i].no
  BY <1>1 DEF Proposal
<1>2. /\ Waiting = left /\ Waiting' = left \ {i} /\ left \subseteq DOMAIN candidates
      /\ candidates' = candidates /\ proposed' = proposed
  BY <1>1 DEF Answers, AtIt, Waiting, AtWork
<1>3. /\ Numbers(candidates) /\ Numbers(units) /\ Numbers(batch)
      /\ Apart(units, batch) /\ Unanswered(units) /\ Unanswered(batch)
  BY DEF Counted
<1>4. /\ u.no <= proposed
      /\ \A k \in Waiting' : candidates[k].no # u.no
      /\ \A j \in DOMAIN units : units[j].no # u.no
      /\ \A j \in DOMAIN batch : batch[j].no # u.no
  BY <1>0, <1>1, <1>2, <1>3 DEF Numbers, Unanswered
<1>5. units \in Seq(UnitT) /\ batch \in Seq(UnitT)
  BY DEF Typed
<1>6. \A s, t : /\ Unanswered(s)
                /\ \A j \in DOMAIN t : t[j] = u \/ \E k \in DOMAIN s : t[j] = s[k]
                => \A k \in Waiting' : \A j \in DOMAIN t : candidates[k].no # t[j].no
  BY <1>2, <1>4 DEF Unanswered
<1>7. Numbers(candidates)'
  BY <1>2, <1>3 DEF Numbers
<1>8. CASE units' = Append(units, u) /\ batch' = batch
  <2>1. Numbers(units')
    BY <1>3, <1>4, <1>5, <1>8, NumbersAppend
  <2>2. \A j \in DOMAIN units' : units'[j] = u \/ \E k \in DOMAIN units : units'[j] = units[k]
    BY <1>5, <1>8, AppendFacts
  <2>3. Unanswered(units)' /\ Unanswered(batch)'
    <3>1. \A k \in Waiting' : \A j \in DOMAIN units' : candidates[k].no # units'[j].no
      BY <1>3, <1>6, <2>2
    <3>2. \A k \in Waiting' : \A j \in DOMAIN batch : candidates[k].no # batch[j].no
      BY <1>2, <1>3 DEF Unanswered
    <3>. QED BY <1>2, <1>8, <3>1, <3>2 DEF Unanswered
  <2>4. Apart(units, batch)'
    BY <1>3, <1>4, <1>8, <2>2 DEF Apart
  <2>5. Numbers(units)' /\ Numbers(batch)'
    BY <1>2, <1>3, <1>8, <2>1 DEF Numbers
  <2>. QED BY <1>7, <2>3, <2>4, <2>5 DEF Counted
<1>9. CASE batch' = Append(batch, u) /\ units' = units
  <2>1. Numbers(batch')
    BY <1>3, <1>4, <1>5, <1>9, NumbersAppend
  <2>2. \A j \in DOMAIN batch' : batch'[j] = u \/ \E k \in DOMAIN batch : batch'[j] = batch[k]
    BY <1>5, <1>9, AppendFacts
  <2>3. Unanswered(units)' /\ Unanswered(batch)'
    <3>1. \A k \in Waiting' : \A j \in DOMAIN batch' : candidates[k].no # batch'[j].no
      BY <1>3, <1>6, <2>2
    <3>2. \A k \in Waiting' : \A j \in DOMAIN units : candidates[k].no # units[j].no
      BY <1>2, <1>3 DEF Unanswered
    <3>. QED BY <1>2, <1>9, <3>1, <3>2 DEF Unanswered
  <2>4. Apart(units, batch)'
    BY <1>3, <1>4, <1>9, <2>2 DEF Apart
  <2>5. Numbers(units)' /\ Numbers(batch)'
    BY <1>2, <1>3, <1>9, <2>1 DEF Numbers
  <2>. QED BY <1>7, <2>3, <2>4, <2>5 DEF Counted
<1>. QED BY <1>1, <1>8, <1>9

LEMMA CountedReworks ==
    ASSUME Typed, AtWork, Counted, Reworks
    PROVE  Counted'
<1>0. PICK i \in left, u \in UnitT :
          Proposal(u) = Proposal(units[i]) /\ units' = [units EXCEPT ![i] = u]
  BY DEF Reworks
<1>1. u.no = units[i].no /\ units' = [units EXCEPT ![i] = u]
  <2>1. Proposal(u).no = Proposal(units[i]).no
    BY <1>0
  <2>. QED BY <1>0, <2>1 DEF Proposal
<1>2. DOMAIN units' = DOMAIN units /\ \A j \in DOMAIN units : units'[j].no = units[j].no
  BY <1>1
<1>3. /\ candidates' = candidates /\ batch' = batch /\ proposed' = proposed
      /\ Waiting' = Waiting
  <2>1. op \in OnUnits /\ op' = op /\ candidates' = candidates
    BY DEF Reworks, AtIt
  <2>. QED BY <2>1, OpKinds DEF Reworks, AtIt, Waiting
<1>4. /\ Numbers(candidates) /\ Numbers(units) /\ Numbers(batch)
      /\ Apart(units, batch) /\ Unanswered(units) /\ Unanswered(batch)
  BY DEF Counted
<1>5. Numbers(units)' /\ Apart(units, batch)' /\ Unanswered(units)'
  BY <1>2, <1>3, <1>4 DEF Numbers, Apart, Unanswered
<1>6. Numbers(candidates)' /\ Numbers(batch)' /\ Unanswered(batch)'
  BY <1>3, <1>4 DEF Numbers, Unanswered
<1>. QED BY <1>5, <1>6 DEF Counted

LEMMA CountedEnds ==
    ASSUME Typed, AtWork, Counted, Ends
    PROVE  Counted'
<1>1. /\ units' = units \o batch /\ batch' = <<>> /\ proposed' = proposed
      /\ status = "busy" /\ status' = "idle"
      /\ candidates' = IF op \in OnCandidates THEN <<>> ELSE candidates
  BY DEF Ends
<1>2. /\ Numbers(candidates) /\ Numbers(units) /\ Numbers(batch)
      /\ Apart(units, batch) /\ Unanswered(units) /\ Unanswered(batch)
  BY DEF Counted
<1>3. PICK us \in Seq(UnitT) : us = units \o batch
  BY ConcatFacts DEF Typed
<1>4. PICK m \in Nat : m = Len(units) /\ DOMAIN units = 1..m
  BY SeqFacts DEF Typed
<1>5. \A i \in DOMAIN us : \/ i \in DOMAIN units /\ us[i] = units[i]
                           \/ i - m \in DOMAIN batch /\ us[i] = batch[i - m]
  BY <1>3, <1>4, ConcatFacts DEF Typed
<1>6. Numbers(us)
  <2>1. \A i \in DOMAIN us : us[i].no <= proposed
    BY <1>2, <1>5 DEF Numbers
  <2>2. ASSUME NEW i \in DOMAIN us, NEW j \in DOMAIN us, us[i].no = us[j].no PROVE i = j
    <3>1. i \in Int /\ j \in Int
      BY <1>3, SeqFacts
    <3>2. i - m = j - m => i = j
      BY <3>1
    <3>. QED BY <1>2, <1>5, <2>2, <3>2 DEF Numbers, Apart
  <2>. QED BY <2>1, <2>2 DEF Numbers
<1>7. Numbers(units)'
  BY <1>1, <1>3, <1>6 DEF Numbers
<1>8. Numbers(batch)' /\ Apart(units, batch)' /\ Unanswered(batch)' /\ Numbers(candidates)'
  BY <1>1, <1>2 DEF Numbers, Apart, Unanswered
<1>9. Unanswered(units)'
  <2>1. Waiting' = DOMAIN candidates'
    BY <1>1 DEF Waiting
  <2>2. CASE op \in OnCandidates
    BY <1>1, <2>1, <2>2 DEF Unanswered
  <2>3. CASE op \notin OnCandidates
    <3>1. Waiting' = Waiting /\ candidates' = candidates
      BY <1>1, <2>1, <2>3, WaitingAll
    <3>2. \A k \in Waiting : \A j \in DOMAIN us : candidates[k].no # us[j].no
      BY <1>2, <1>5 DEF Unanswered
    <3>. QED BY <1>1, <1>3, <3>1, <3>2 DEF Unanswered
  <2>. QED BY <2>2, <2>3
<1>. QED BY <1>7, <1>8, <1>9 DEF Counted

LEMMA CountedShapes ==
    ASSUME Typed, AtWork, Counted, Shapes
    PROVE  Counted'
<1>1. PICK h : Drawn(units, h, units')
  BY DEF Shapes
<1>2. /\ units' \in Seq(UnitT) /\ candidates' = candidates /\ batch' = batch
      /\ proposed' = proposed /\ status = "idle" /\ status' = "idle"
  BY DEF Shapes
<1>3. /\ Numbers(candidates) /\ Numbers(units) /\ Numbers(batch)
      /\ Apart(units, batch) /\ Unanswered(units) /\ Unanswered(batch)
  BY DEF Counted
<1>4. PICK us : us = units'
  OBVIOUS
<1>5. DOMAIN us = 1..Len(us) /\ DOMAIN units = 1..Len(units)
  BY <1>2, <1>4, SeqFacts DEF Typed
<1>6. /\ \A k \in DOMAIN us : h[k] \in DOMAIN units /\ us[k] = units[h[k]]
      /\ \A j, k \in DOMAIN us : h[j] = h[k] => j = k
  BY <1>1, <1>4, <1>5 DEF Drawn
<1>7. Numbers(us)
  BY <1>3, <1>6 DEF Numbers
<1>8. Apart(us, batch)
  BY <1>3, <1>6 DEF Apart
<1>9. Unanswered(us)
  BY <1>3, <1>6 DEF Unanswered
<1>10. Waiting' = Waiting
  BY <1>2 DEF Waiting
<1>. QED BY <1>2, <1>3, <1>4, <1>7, <1>8, <1>9, <1>10
         DEF Counted, Numbers, Apart, Unanswered

LEMMA CountedStep ==
    ASSUME Typed, AtWork, Counted,
           \/ Quiet \/ Proposes \/ Begins \/ Answers
           \/ Skips \/ Reworks \/ Ends \/ Shapes
    PROVE  Counted'
<1>1. CASE Quiet
  <2>1. /\ UNCHANGED <<candidates, left, op, units, batch, proposed>>
        /\ status' = status \/ status' = "raised"
    BY <1>1 DEF Quiet
  <2>2. Waiting' = Waiting
    BY <2>1, OpKinds DEF Waiting, AtWork
  <2>. QED BY <2>1, <2>2, CountedQuiet
<1>2. CASE Skips
  <2>1. /\ UNCHANGED <<candidates, op, units, batch, proposed, status>>
        /\ left' \subseteq left /\ status = "busy" /\ op \in OnCandidates
    BY <1>2 DEF Skips, AtIt, OnCandidates
  <2>2. Waiting' \subseteq Waiting
    BY <2>1 DEF Waiting
  <2>. QED BY <2>1, <2>2, CountedQuiet
<1>3. CASE Begins
  <2>1. /\ UNCHANGED <<candidates, units, proposed>> /\ status = "idle"
        /\ op' \in OnCandidates => left' \subseteq DOMAIN candidates
        /\ batch = <<>> /\ batch' = <<>>
    BY <1>3 DEF Begins, AtWork
  <2>2. Waiting' \subseteq Waiting
    BY <2>1, WaitingAll DEF Waiting
  <2>. QED BY <2>1, <2>2, CountedQuiet
<1>. QED BY <1>1, <1>2, <1>3, CountedProposes, CountedAnswers, CountedReworks,
            CountedEnds, CountedShapes

(***************************************************************************)
(* The proposals that are waiting or answered.                             *)
(***************************************************************************)
Explained(p) ==
    \/ op = "stress_probe" /\ p \notin Answered /\ ~Snapshotted(p)
    \/ op = "budget_screen" /\ p \notin Answered /\ bill >= BudgetReplays
    \/ p \in Answered /\ (FilterUnits \/ DedupeUnits \/ SampleUnits)
    \/ status' = "raised"

Made(s) == {Proposal(u) : u \in Elements(s)}

LEMMA OpenParts ==
    /\ Answered = Made(units) \cup Made(batch)
    /\ Answered' = Made(units') \cup Made(batch')
    /\ Open = {Proposal(candidates[i]) : i \in Waiting} \cup Answered
    /\ Open' = {Proposal(candidates'[i]) : i \in Waiting'} \cup Answered'
<1>1. \A s, t : Made(s) \cup Made(t) = {Proposal(u) : u \in Elements(s) \cup Elements(t)}
  BY DEF Made
<1>2. Answered = Made(units) \cup Made(batch)
  BY <1>1 DEF Answered
<1>3. Answered' = Made(units') \cup Made(batch')
  BY DEF Answered, Made, Proposal, Elements
<1>4. Open' = {Proposal(candidates'[i]) : i \in Waiting'} \cup Answered'
  BY DEF Open, Proposal
<1>. QED BY <1>2, <1>3, <1>4 DEF Open

LEMMA KeptAnswers ==
    ASSUME Typed, AtWork, Answers
    PROVE  Open \subseteq Open'
<1>1. PICK i \in left, u \in UnitT :
          /\ left' = left \ {i} /\ Proposal(u) = Proposal(candidates[i])
          /\ \/ units' = Append(units, u) /\ batch' = batch
             \/ batch' = Append(batch, u) /\ units' = units
  BY DEF Answers
<1>2. /\ Waiting = left /\ Waiting' = left \ {i} /\ candidates' = candidates
  BY <1>1 DEF Answers, AtIt, Waiting
<1>3. ASSUME NEW s \in Seq(UnitT), NEW t, t = Append(s, u)
      PROVE  Made(s) \subseteq Made(t) /\ Proposal(u) \in Made(t)
  <2>1. /\ \A j \in DOMAIN s : j \in DOMAIN t /\ t[j] = s[j]
        /\ \E j \in DOMAIN t : t[j] = u
    BY <1>3, AppendFacts
  <2>2. Elements(s) \subseteq Elements(t) /\ u \in Elements(t)
    BY <2>1 DEF Elements
  <2>. QED BY <2>2 DEF Made
<1>4. Answered \subseteq Answered' /\ Proposal(u) \in Answered'
  BY <1>1, <1>3, OpenParts DEF Typed
<1>. QED BY <1>1, <1>2, <1>4, OpenParts

LEMMA KeptProposes ==
    ASSUME Typed, AtWork, Proposes
    PROVE  Open \subseteq Open'
<1>1. PICK cs \in Seq(Suggestions(Episodes)) : candidates' = candidates \o Numbered(cs)
  BY DEF Proposes
<1>2. /\ units' = units /\ batch' = batch /\ status = "idle" /\ status' = "idle"
  BY DEF Proposes
<1>3. candidates \in Seq(Proposals) /\ Numbered(cs) \in Seq(Proposals)
  BY NumberedFacts DEF Typed
<1>4. \A i \in DOMAIN candidates : i \in DOMAIN candidates' /\ candidates'[i] = candidates[i]
  BY <1>1, <1>3, ConcatStart
<1>5. Waiting = DOMAIN candidates /\ Waiting' = DOMAIN candidates'
  BY <1>2 DEF Waiting
<1>6. Answered' = Answered
  BY <1>2, OpenParts
<1>. QED BY <1>4, <1>5, <1>6, OpenParts

LEMMA KeptReworks ==
    ASSUME Typed, AtWork, Reworks
    PROVE  Open \subseteq Open'
<1>1. PICK i \in left, u \in UnitT :
          Proposal(u) = Proposal(units[i]) /\ units' = [units EXCEPT ![i] = u]
  BY DEF Reworks
<1>2. /\ op \in OnUnits /\ op' = op /\ candidates' = candidates /\ batch' = batch
      /\ left \subseteq DOMAIN units
  BY DEF Reworks, AtIt, AtWork
<1>3. Waiting' = Waiting
  BY <1>2, OpKinds DEF Waiting
<1>4. DOMAIN units' = DOMAIN units
      /\ \A j \in DOMAIN units : Proposal(units'[j]) = Proposal(units[j])
  BY <1>1
<1>5. Made(units) \subseteq Made(units')
  BY <1>4 DEF Made, Elements
<1>. QED BY <1>2, <1>3, <1>5, OpenParts

LEMMA KeptEnds ==
    ASSUME Typed, AtWork, Ends, NEW p \in Open \ Open'
    PROVE  Explained(p)
<1>1. /\ units' = units \o batch
      /\ status = "busy" /\ status' = "idle"
      /\ candidates' = IF op \in OnCandidates THEN <<>> ELSE candidates
      /\ left = {} \/ (op = "budget_screen" /\ bill >= BudgetReplays)
  BY DEF Ends
<1>2. Elements(units \o batch) = Elements(units) \cup Elements(batch)
  BY ElementsOfConcat DEF Typed
<1>3. Made(units') = Made(units) \cup Made(batch)
  BY <1>1, <1>2 DEF Made
<1>4. p \notin Answered
  BY <1>3, OpenParts
<1>5. PICK i \in Waiting : p = Proposal(candidates[i])
  BY <1>4, OpenParts
<1>6. CASE op \in OnCandidates
  <2>1. i \in left
    BY <1>1, <1>5, <1>6 DEF Waiting
  <2>. QED BY <1>1, <1>4, <2>1 DEF Explained
<1>7. CASE op \notin OnCandidates
  <2>1. Waiting = DOMAIN candidates /\ Waiting' = DOMAIN candidates /\ candidates' = candidates
    BY <1>1, <1>7 DEF Waiting
  <2>2. p \in Open'
    BY <1>5, <2>1, OpenParts
  <2>. QED BY <2>2
<1>. QED BY <1>6, <1>7

LEMMA KeptStep ==
    ASSUME Typed, AtWork,
           \/ Quiet \/ Proposes \/ Begins \/ Answers
           \/ Skips \/ Reworks \/ Ends \/ Shapes,
           NEW p \in Open \ Open'
    PROVE  Explained(p)
<1>1. CASE Quiet
  <2>1. /\ UNCHANGED <<candidates, left, op, units, batch>>
        /\ status' = status \/ status' = "raised"
    BY <1>1 DEF Quiet
  <2>2. Waiting' = Waiting
    BY <2>1, OpKinds DEF Waiting, AtWork
  <2>. QED BY <2>1, <2>2, OpenParts
<1>2. CASE Begins
  <2>1. /\ UNCHANGED <<candidates, units>> /\ status = "idle"
        /\ op' \in OnCandidates => left' = DOMAIN candidates
        /\ batch = <<>> /\ batch' = <<>>
    BY <1>2 DEF Begins, AtWork
  <2>2. Waiting' = Waiting
    BY <2>1 DEF Waiting
  <2>. QED BY <2>1, <2>2, OpenParts
<1>3. CASE Skips
  <2>1. PICK i \in left : left' = left \ {i} /\ ~Snapshotted(candidates[i])
    BY <1>3 DEF Skips
  <2>2. /\ op = "stress_probe" /\ op' = op /\ status = "busy" /\ status' = status
        /\ UNCHANGED <<candidates, units, batch>>
    BY <1>3 DEF Skips, AtIt
  <2>3. Waiting = left /\ Waiting' = left \ {i}
    BY <2>1, <2>2 DEF Waiting, OnCandidates
  <2>4. p = Proposal(candidates[i]) /\ p \notin Answered
    BY <2>2, <2>3, OpenParts
  <2>5. ~Snapshotted(p)
    BY <2>1, <2>4 DEF Snapshotted, Proposal
  <2>. QED BY <2>2, <2>4, <2>5 DEF Explained
<1>4. CASE Shapes
  <2>1. /\ FilterUnits \/ DedupeUnits \/ SampleUnits
        /\ UNCHANGED <<candidates, left, op, status>>
    BY <1>4 DEF Shapes
  <2>2. Waiting' = Waiting
    BY <2>1 DEF Waiting
  <2>3. p \in Answered
    BY <2>1, <2>2, OpenParts
  <2>. QED BY <2>1, <2>3 DEF Explained
<1>5. CASE Ends
  BY <1>5, KeptEnds
<1>6. CASE Answers \/ Proposes \/ Reworks
  BY <1>6, KeptAnswers, KeptProposes, KeptReworks
<1>. QED BY <1>1, <1>2, <1>3, <1>4, <1>5, <1>6

(***************************************************************************)
(* What deduplication leaves.                                              *)
(***************************************************************************)
LEMMA FirstOfItsKind ==
    ASSUME NEW us \in Seq(UnitT), NEW i \in DOMAIN us
    PROVE  \E j \in DOMAIN us :
              /\ Signature(us[j]) = Signature(us[i])
              /\ \A k \in 1..(j - 1) : Signature(us[k]) # Signature(us[j])
<1>1. PICK n \in Nat : n = Len(us) /\ DOMAIN us = 1..n
  BY SeqFacts
<1>2. PICK T : T = {j \in 1..n : Signature(us[j]) = Signature(us[i])}
  OBVIOUS
<1>3. T \in SUBSET Nat /\ T # {}
  BY <1>1, <1>2
<1>4. PICK j \in T : \A k \in T : j <= k
  BY <1>3, LeastNumber
<1>5. j \in 1..n /\ Signature(us[j]) = Signature(us[i])
  BY <1>2, <1>4
<1>6. ASSUME NEW k \in 1..(j - 1), Signature(us[k]) = Signature(us[j]) PROVE FALSE
  <2>1. k \in 1..n /\ ~(j <= k)
    BY <1>5
  <2>2. k \in T
    BY <1>2, <1>5, <1>6, <2>1
  <2>. QED BY <1>4, <2>1, <2>2
<1>. QED BY <1>1, <1>5, <1>6

LEMMA DedupedElements ==
    ASSUME NEW us \in Seq(UnitT)
    PROVE  /\ Elements(Deduped(us)) \subseteq Elements(us)
           /\ \A x \in Elements(us) : \E y \in Elements(Deduped(us)) :
                 Signature(y) = Signature(x)
<1>1. PICK I : I = {i \in DOMAIN us :
                      \A j \in 1..(i - 1) : Signature(us[j]) # Signature(us[i])}
  OBVIOUS
<1>2. I \subseteq DOMAIN us /\ DOMAIN us = 1..Len(us)
  BY <1>1, SeqFacts
<1>3. PICK vs \in Seq(UnitT) : vs = Picked(us, I)
  BY <1>2, PickedFacts
<1>4. Deduped(us) = vs
  BY <1>1, <1>3 DEF Deduped
<1>5. PICK h : Selects(us, I, Len(us), vs, h)
  BY <1>2, <1>3, PickedFacts
<1>6. DOMAIN vs = 1..Len(vs)
  BY SeqFacts
<1>7. Elements(vs) \subseteq Elements(us)
  BY <1>2, <1>5, <1>6 DEF Selects, Elements
<1>8. ASSUME NEW i \in DOMAIN us
      PROVE  \E y \in Elements(vs) : Signature(y) = Signature(us[i])
  <2>1. PICK j \in I : Signature(us[j]) = Signature(us[i])
    BY <1>1, FirstOfItsKind
  <2>2. PICK k \in 1..Len(vs) : h[k] = j
    BY <1>2, <1>5, <2>1 DEF Selects
  <2>3. vs[k] = us[j]
    BY <1>5, <2>2 DEF Selects
  <2>4. vs[k] \in Elements(vs)
    BY <1>6 DEF Elements
  <2>. QED BY <2>1, <2>3, <2>4
<1>9. \A x \in Elements(us) : \E y \in Elements(vs) : Signature(y) = Signature(x)
  BY <1>8 DEF Elements
<1>. QED BY <1>4, <1>7, <1>9

LEMMA DedupeStep ==
    ASSUME Typed, Honest, DedupeUnits
    PROVE  Corrected' = Corrected
<1>1. units' = Deduped(units) /\ world' = world
  BY DEF DedupeUnits, Shape, AtOnce, Applies
<1>2. PICK vs : vs = Deduped(units)
  OBVIOUS
<1>3. /\ Elements(vs) \subseteq Elements(units)
      /\ \A x \in Elements(units) : \E y \in Elements(vs) : Signature(y) = Signature(x)
  BY <1>2, DedupedElements DEF Typed
<1> DEFINE Corrects(x) == /\ Validated(x) /\ ~Diverges(x)
                          /\ x.ep \notin Successful /\ x.outcome = "success"
<1>4. ASSUME NEW x \in Elements(units), Corrects(x)
      PROVE  \E y \in Elements(vs) : Corrects(y) /\ y.ep = x.ep
  <2>1. PICK y \in Elements(vs) : Signature(y) = Signature(x)
    BY <1>3
  <2>2. /\ y.ep = x.ep /\ y.iv.target_step = x.iv.target_step
        /\ y.outcome = x.outcome
    BY <2>1 DEF Signature
  <2>3. ~Diverges(y)
    BY <1>4, <2>2 DEF Diverges, Fork
  <2>4. Sound(y)
    BY <1>3 DEF Honest, Elements
  <2>5. Validated(y)
    BY <1>4, <2>2, <2>3, <2>4 DEF Sound
  <2>. QED BY <1>4, <2>2, <2>3, <2>5
<1>5. Corrected = {u.ep : u \in {x \in Elements(units) : Corrects(x)}}
  BY DEF Corrected
<1>6. Corrected' = {u.ep : u \in {x \in Elements(vs) : Corrects(x)}}
  BY <1>1, <1>2 DEF Corrected, Diverges, Fork, Validated, Elements
<1> HIDE DEF Corrects
<1>7. Corrected' \subseteq Corrected
  BY <1>3, <1>5, <1>6
<1>8. Corrected \subseteq Corrected'
  BY <1>4, <1>5, <1>6
<1>. QED BY <1>7, <1>8

(***************************************************************************)
(* What raises a tier.                                                     *)
(***************************************************************************)
LEMMA EvidenceFrom ==
    ASSUME \A x \in Elements(units)' \cup Elements(batch)' : Validated(x) =>
              \E y \in Elements(units) \cup Elements(batch) :
                  y.no = x.no /\ y.tier = x.tier
    PROVE  Evidence' \subseteq Evidence
<1> SUFFICES ASSUME NEW x \in Elements(units)' \cup Elements(batch)', Validated(x)
             PROVE  <<x.no, x.tier>> \in Evidence
  BY DEF Evidence, Validated
<1>1. PICK y \in Elements(units) \cup Elements(batch) : y.no = x.no /\ y.tier = x.tier
  OBVIOUS
<1>2. Validated(y)
  BY <1>1 DEF Validated
<1>. QED BY <1>1, <1>2 DEF Evidence

LEMMA ElementsOfAppend ==
    ASSUME NEW s \in Seq(UnitT), NEW u \in UnitT
    PROVE  Elements(Append(s, u)) \subseteq Elements(s) \cup {u}
<1>1. PICK t : t = Append(s, u)
  OBVIOUS
<1>2. \A i \in DOMAIN t : (i \in DOMAIN s /\ t[i] = s[i]) \/ t[i] = u
  BY <1>1, AppendFacts
<1>. QED BY <1>1, <1>2 DEF Elements

LEMMA EvidenceStep ==
    ASSUME Typed, AtWork,
           \/ Quiet \/ Proposes \/ Begins \/ Answers
           \/ Skips \/ Reworks \/ Ends \/ Shapes
    PROVE  Evidence' \subseteq Evidence \/ executed' > executed
<1>1. units \in Seq(UnitT) /\ batch \in Seq(UnitT)
  BY DEF Typed
<1>2. ASSUME Elements(units)' \cup Elements(batch)'
                \subseteq Elements(units) \cup Elements(batch)
      PROVE  Evidence' \subseteq Evidence
  BY <1>2, EvidenceFrom
<1>3. CASE Quiet \/ Proposes \/ Begins \/ Skips
  <2>1. units' = units /\ (batch' = batch \/ batch' = <<>>)
    BY <1>3 DEF Quiet, Proposes, Begins, Skips
  <2>2. Elements(units)' \cup Elements(batch)'
                \subseteq Elements(units) \cup Elements(batch)
    BY <2>1 DEF Elements
  <2>. QED BY <1>2, <2>2
<1>4. CASE Answers
  <2>1. PICK u \in UnitT :
            /\ Validated(u) => executed' > executed
            /\ \/ units' = Append(units, u) /\ batch' = batch
               \/ batch' = Append(batch, u) /\ units' = units
    BY <1>4 DEF Answers
  <2>2. Elements(units)' \cup Elements(batch)'
                \subseteq Elements(units) \cup Elements(batch) \cup {u}
    <3>1. /\ Elements(Append(units, u)) \subseteq Elements(units) \cup {u}
          /\ Elements(Append(batch, u)) \subseteq Elements(batch) \cup {u}
      BY <1>1, ElementsOfAppend
    <3>2. Elements(units)' = Elements(units') /\ Elements(batch)' = Elements(batch')
      BY DEF Elements
    <3>. QED BY <2>1, <3>1, <3>2
  <2>. QED BY <2>1, <2>2, EvidenceFrom
<1>5. CASE Reworks
  <2>1. PICK i \in left, u \in UnitT :
            /\ u.no = units[i].no
            /\ Validated(u) => u.tier = units[i].tier \/ executed' > executed
            /\ units' = [units EXCEPT ![i] = u]
    <3>1. \A x, y : Proposal(x) = Proposal(y) => x.no = y.no
      BY SameProposal
    <3>. QED BY <1>5, <3>1 DEF Reworks
  <2>2. batch' = batch /\ i \in DOMAIN units
    BY <1>5 DEF Reworks, AtWork
  <2>3. units[i] \in Elements(units)
    BY <2>2 DEF Elements
  <2>4. Elements(units)' \subseteq Elements(units) \cup {u}
    BY <2>1 DEF Elements
  <2>5. Elements(batch)' = Elements(batch)
    BY <2>2 DEF Elements
  <2>. QED BY <2>1, <2>3, <2>4, <2>5, EvidenceFrom
<1>6. CASE Ends
  <2>1. units' = units \o batch /\ batch' = <<>>
    BY <1>6 DEF Ends
  <2>2. Elements(units \o batch) = Elements(units) \cup Elements(batch)
    BY <1>1, ElementsOfConcat
  <2>3. Elements(units)' = Elements(units \o batch) /\ Elements(batch)' = {}
    BY <2>1 DEF Elements
  <2>. QED BY <1>2, <2>2, <2>3
<1>7. CASE Shapes
  <2>1. PICK h : Drawn(units, h, units')
    BY <1>7 DEF Shapes
  <2>2. units' \in Seq(UnitT) /\ batch' = batch
    BY <1>7 DEF Shapes
  <2>3. DOMAIN units' = 1..Len(units') /\ DOMAIN units = 1..Len(units)
    BY <1>1, <2>2, SeqFacts
  <2>4. Elements(units)' \subseteq Elements(units)
    BY <2>1, <2>3 DEF Drawn, Elements
  <2>5. Elements(batch)' = Elements(batch)
    BY <2>2 DEF Elements
  <2>. QED BY <1>2, <2>4, <2>5
<1>. QED BY <1>3, <1>4, <1>5, <1>6, <1>7

(***************************************************************************)
(* The invariant.                                                          *)
(***************************************************************************)
RecipeInv ==
    Typed /\ AtWork /\ Honest /\ Counted

LEMMA RecipeInit ==
    ASSUME Init
    PROVE  RecipeInv
<1>1. Typed
  <2>1. exports \in [{"views", "trl"} -> SUBSET UnitT]
    BY DEF Init
  <2>2. saved \in SavedRuns
    <3>1. <<>> \in Seq(UnitT)
      OBVIOUS
    <3>2. PICK us \in Seq(UnitT) : us = <<>>
      BY <3>1, Zenon
    <3>3. PICK none \in BOOLEAN : none = FALSE
      BY Zenon
    <3>4. saved = [exists |-> none, episodes |-> {}, units |-> us, replays |-> 0]
      BY <3>2, <3>3 DEF Init, NoRun
    <3>5. 0 \in Nat
      OBVIOUS
    <3> HIDE DEF UnitT
    <3>. QED BY <3>4, <3>5 DEF SavedRuns
  <2>3. /\ episodes \in Seq(Episodes) /\ sources \in Seq(DOMAIN Table)
        /\ candidates \in Seq(Proposals)
        /\ units \in Seq(UnitT) /\ batch \in Seq(UnitT)
    <3>1. \A S : <<>> \in Seq(S)
      OBVIOUS
    <3>. QED BY <3>1 DEF Init
  <2>4. /\ ledger \in Nat /\ proposed \in Nat /\ executed \in Nat
        /\ bill \in Nat /\ applied \in Nat
    BY DEF Init
  <2>5. /\ store \in {"none", "own", "old"} /\ built \in BOOLEAN
        /\ op \in OnCandidates \cup OnUnits \cup {"none"}
        /\ status \in {"idle", "busy", "raised"}
    BY DEF Init
  <2>. QED BY <2>1, <2>2, <2>3, <2>4, <2>5 DEF Typed
<1>2. AtWork
  BY OpKinds DEF Init, AtWork
<1>3. Honest
  BY DEF Init, Honest, Exported, NoRun, Elements
<1>4. Counted
  BY DEF Init, Counted, Numbers, Apart, Unanswered
<1>. QED BY <1>1, <1>2, <1>3, <1>4 DEF RecipeInv

LEMMA RecipeStep ==
    ASSUME RecipeInv, [Next]_vars
    PROVE  RecipeInv'
BY StepShapes, TypedStep, AtWorkStep, HonestStep, CountedStep
   DEF RecipeInv

(***************************************************************************)
(* The inductive invariant: what an operator at work has before it, that   *)
(* units say what their replays show, and that numbers are given out and   *)
(* answered once.                                                          *)
(***************************************************************************)
THEOREM RecipeInvariant == Spec => []RecipeInv
BY RecipeInit, RecipeStep, PTL DEF Spec

(***************************************************************************)
(* Types: the context, the services and the products of a recipe stay what *)
(* their classes declare.                                                  *)
(***************************************************************************)
THEOREM RecipesAreTyped == Spec => []Typed
<1>1. RecipeInv => Typed
  BY DEF RecipeInv
<1>. QED BY <1>1, RecipeInvariant, PTL

(***************************************************************************)
(* Whatever operators a recipe applies, and in whatever order, an exported *)
(* or saved unit with a validated tier and a matched control passes when   *)
(* the regression replay runs it again on the saved run that has its       *)
(* episode, with the loaded run's blobs when the episode came from there.  *)
(***************************************************************************)
THEOREM CasesReplay == Spec => []ExportedCasesReplay
<1>1. RecipeInv => ExportedCasesReplay
  BY DEF RecipeInv, Honest, Sound, ExportedCasesReplay, Home
<1>. QED BY <1>1, RecipeInvariant, PTL

(***************************************************************************)
(* No proposal is validated twice: units and the batch have one unit for a *)
(* number at most, and none for a candidate that still waits.              *)
(***************************************************************************)
THEOREM OneAnswerEach == Spec => []ProposalsAnsweredOnce
<1>1. ASSUME RecipeInv PROVE ProposalsAnsweredOnce
  <2>1. /\ Numbers(units) /\ Numbers(batch) /\ Apart(units, batch)
        /\ Unanswered(units) /\ Unanswered(batch)
        /\ units \in Seq(UnitT) /\ batch \in Seq(UnitT)
    BY <1>1 DEF RecipeInv, Counted, Typed
  <2>2. PICK us \in Seq(UnitT) : us = units \o batch
    BY <2>1, ConcatFacts
  <2>3. PICK m \in Nat : m = Len(units) /\ DOMAIN units = 1..m
    BY <2>1, SeqFacts
  <2>4. \A i \in DOMAIN us : \/ i \in DOMAIN units /\ us[i] = units[i]
                             \/ i - m \in DOMAIN batch /\ us[i] = batch[i - m]
    BY <2>1, <2>2, <2>3, ConcatFacts
  <2>5. ASSUME NEW j \in DOMAIN us, NEW k \in DOMAIN us, us[j].no = us[k].no
        PROVE  j = k
    <3>1. j \in Int /\ k \in Int
      BY SeqFacts
    <3>2. j - m = k - m => j = k
      BY <3>1
    <3>. QED BY <2>1, <2>4, <2>5, <3>2 DEF Numbers, Apart
  <2>6. \A i \in Waiting : \A j \in DOMAIN us : candidates[i].no # us[j].no
    BY <2>1, <2>4 DEF Unanswered
  <2>. QED BY <2>2, <2>5, <2>6 DEF ProposalsAnsweredOnce
<1>. QED BY <1>1, RecipeInvariant, PTL

(***************************************************************************)
(* A proposal that has neither its place among the waiting nor its unit    *)
(* any more was skipped without a snapshot, came after a screening's       *)
(* budget, or went with a unit that was shaped away.                       *)
(***************************************************************************)
THEOREM ProposalsStay == Spec => ProposalsAreKept
<1>1. ASSUME RecipeInv, [Next]_vars
      PROVE  [\A p \in Open \ Open' :
                 \/ op = "stress_probe" /\ p \notin Answered /\ ~Snapshotted(p)
                 \/ op = "budget_screen" /\ p \notin Answered /\ bill >= BudgetReplays
                 \/ p \in Answered /\ (FilterUnits \/ DedupeUnits \/ SampleUnits)
                 \/ status' = "raised"]_vars
  <2>1. \A p \in Open \ Open' : Explained(p)
    BY <1>1, StepShapes, KeptStep DEF RecipeInv
  <2>. QED BY <2>1 DEF Explained
<1>. QED BY <1>1, RecipeInvariant, PTL DEF Spec, ProposalsAreKept

(***************************************************************************)
(* No step raises a unit to a validated tier without executing a branch.   *)
(***************************************************************************)
THEOREM TiersArePaidFor == Spec => EvidenceCostsReplays
<1>1. ASSUME RecipeInv, [Next]_vars
      PROVE  [Evidence' \subseteq Evidence \/ executed' > executed]_vars
  BY <1>1, StepShapes, EvidenceStep DEF RecipeInv
<1>. QED BY <1>1, RecipeInvariant, PTL DEF Spec, EvidenceCostsReplays

(***************************************************************************)
(* dedupe_units loses no correction: where controls reproduce, the first   *)
(* of the units with a signature is validated if any of them is, since a   *)
(* unit that says success there has its tier.                              *)
(***************************************************************************)
THEOREM DedupeIsSafe == Spec => DedupeKeepsCorrections
<1>1. ASSUME RecipeInv, [Next]_vars
      PROVE  [DedupeUnits => Corrected' = Corrected]_vars
  BY <1>1, DedupeStep DEF RecipeInv
<1>. QED BY <1>1, RecipeInvariant, PTL DEF Spec, DedupeKeepsCorrections
=============================================================================
