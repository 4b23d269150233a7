-------------------------- MODULE GenerationProofs ---------------------------
(***************************************************************************)
(* The selector's books and its choice, where branches are, and what       *)
(* deduplication keeps: for every trace, strategies, costs and budgets,    *)
(* whatever operators ran before and whichever run afterwards.             *)
(***************************************************************************)
EXTENDS Generation, ListProofs

(***************************************************************************)
(* A selection is a record; the request list is a sequence of clusters.    *)
(***************************************************************************)
IsSelection(s) ==
    s = [offered |-> s.offered, value |-> s.value, pending |-> s.pending,
         requested |-> s.requested, spent |-> s.spent, skipped |-> s.skipped,
         static |-> s.static, budget |-> s.budget, min |-> s.min]

SelectionType ==
    /\ IsSelection(sel)
    /\ sel.requested \in Seq(sel.offered) /\ sel.pending \subseteq sel.offered
    /\ sel.skipped \subseteq sel.offered
    /\ sel.spent \in Nat /\ sel.budget \in Nat

(***************************************************************************)
(* Books alone is not inductive: a stop overwrites what is skipped with    *)
(* what is pending, and may since nothing is skipped before.               *)
(***************************************************************************)
SkippedAtTheEnd == sel.pending # {} => sel.skipped = {}

IInv == SelectionType /\ Books /\ SkippedAtTheEnd

LEMMA BudgetsAreNatural == Cost \in Nat /\ Cost > 0 /\ Budgets \subseteq Nat
BY GenerationAssumption DEF GenerationAssumption

(***************************************************************************)
(* What Append does to the elements and to their being distinct.           *)
(***************************************************************************)
Distinct(s) == \A j, k \in DOMAIN s : s[j] = s[k] => j = k

LEMMA AppendFacts ==
    ASSUME NEW S, NEW s \in Seq(S), NEW e \in S
    PROVE  /\ Append(s, e) \in Seq(S) /\ Len(Append(s, e)) = Len(s) + 1
           /\ Elements(Append(s, e)) = Elements(s) \cup {e}
           /\ Distinct(s) /\ e \notin Elements(s) => Distinct(Append(s, e))
<1>1. /\ Len(s) \in Nat /\ DOMAIN s = 1..Len(s)
      /\ Append(s, e) \in Seq(S) /\ Len(Append(s, e)) = Len(s) + 1
      /\ DOMAIN Append(s, e) = 1..Len(s) + 1
  OBVIOUS
<1>2. Append(s, e)[Len(s) + 1] = e /\ \A j \in 1..Len(s) : Append(s, e)[j] = s[j]
  OBVIOUS
<1>3. \A j \in 1..Len(s) + 1 : j \in 1..Len(s) \/ j = Len(s) + 1
  BY <1>1
<1>4. Len(s) + 1 \in 1..Len(s) + 1 /\ 1..Len(s) \subseteq 1..Len(s) + 1
  BY <1>1
<1>5. Elements(Append(s, e)) = Elements(s) \cup {e}
  BY <1>1, <1>2, <1>3, <1>4 DEF Elements
<1>6. ASSUME Distinct(s), e \notin Elements(s) PROVE Distinct(Append(s, e))
  BY <1>1, <1>2, <1>3, <1>6 DEF Distinct, Elements
<1>. QED BY <1>1, <1>5, <1>6

(***************************************************************************)
(* What a request and a stop change in the record.                         *)
(***************************************************************************)
LEMMA RequestUpdates ==
    ASSUME IsSelection(sel), NEW i,
           sel' = [sel EXCEPT !.requested = Append(@, i), !.spent = @ + Cost,
                              !.pending = @ \ {i}]
    PROVE  /\ IsSelection(sel)'
           /\ sel'.requested = Append(sel.requested, i)
           /\ sel'.spent = sel.spent + Cost /\ sel'.pending = sel.pending \ {i}
           /\ sel'.offered = sel.offered /\ sel'.skipped = sel.skipped
           /\ sel'.budget = sel.budget /\ sel'.value = sel.value /\ sel'.min = sel.min
BY DEF IsSelection

LEMMA StopUpdates ==
    ASSUME IsSelection(sel), sel' = [sel EXCEPT !.skipped = Skipped, !.pending = {}]
    PROVE  /\ IsSelection(sel)' /\ sel'.skipped = Skipped /\ sel'.pending = {}
           /\ sel'.offered = sel.offered /\ sel'.requested = sel.requested
           /\ sel'.spent = sel.spent /\ sel'.budget = sel.budget
           /\ sel'.value = sel.value /\ sel'.min = sel.min
BY DEF IsSelection
-----------------------------------------------------------------------------
LEMMA InitInvariant == Init => IInv
<1>. SUFFICES ASSUME Init PROVE IInv
  OBVIOUS
<1>1. /\ sel.offered = {} /\ sel.pending = {} /\ sel.requested = <<>>
      /\ sel.spent = 0 /\ sel.skipped = {} /\ sel.budget = 0 /\ IsSelection(sel)
  BY DEF Init, NoSelection, IsSelection
<1>2. SelectionType
  BY <1>1 DEF SelectionType
<1>3. Books
  BY <1>1, BudgetsAreNatural DEF Books, Elements
<1>. QED BY <1>1, <1>2, <1>3 DEF IInv, SkippedAtTheEnd

LEMMA BeginInvariant == IInv /\ BeginSelector => IInv'
<1>. SUFFICES ASSUME BeginSelector PROVE IInv'
  OBVIOUS
<1>1. PICK static \in BOOLEAN, budget \in Budgets, min \in MinValues :
        sel' = [offered |-> Clusters(branches),
                value |-> [i \in Clusters(branches) |-> Value(branches, i)],
                pending |-> Clusters(branches), requested |-> <<>>, spent |-> 0,
                skipped |-> {}, static |-> static, budget |-> budget, min |-> min]
  BY DEF BeginSelector
<1>2. /\ sel'.offered = sel'.pending /\ sel'.requested = <<>> /\ sel'.spent = 0
      /\ sel'.skipped = {} /\ sel'.budget \in Nat /\ IsSelection(sel)'
  BY <1>1, BudgetsAreNatural DEF IsSelection
<1>3. SelectionType'
  BY <1>2 DEF SelectionType
<1>4. Books'
  BY <1>2, BudgetsAreNatural DEF Books, Elements
<1>. QED BY <1>2, <1>3, <1>4 DEF IInv, SkippedAtTheEnd

LEMMA RequestInvariant == IInv /\ Request => IInv'
<1>. SUFFICES ASSUME IInv, Request PROVE IInv'
  OBVIOUS
<1>1. PICK i \in sel.pending :
        /\ Affords(i)
        /\ sel' = [sel EXCEPT !.requested = Append(@, i), !.spent = @ + Cost,
                              !.pending = @ \ {i}]
  BY DEF Request
<1>2. IsSelection(sel) /\ i \in sel.offered
  BY DEF IInv, SelectionType
<1>3. /\ IsSelection(sel)' /\ sel'.requested = Append(sel.requested, i)
      /\ sel'.spent = sel.spent + Cost /\ sel'.pending = sel.pending \ {i}
      /\ sel'.offered = sel.offered /\ sel'.skipped = sel.skipped
      /\ sel'.budget = sel.budget
  BY <1>1, <1>2, RequestUpdates
<1>4. /\ sel.requested \in Seq(sel.offered) /\ sel.pending \subseteq sel.offered
      /\ sel.skipped \subseteq sel.offered /\ sel.spent \in Nat /\ sel.budget \in Nat
  BY DEF IInv, SelectionType
<1>5. /\ sel.spent = Cost * Len(sel.requested) /\ Distinct(sel.requested)
      /\ sel.offered = Elements(sel.requested) \cup sel.pending \cup sel.skipped
      /\ Elements(sel.requested) \cap sel.pending = {}
  BY DEF IInv, Books, Distinct
<1>6. /\ sel'.requested \in Seq(sel.offered)
      /\ Len(sel'.requested) = Len(sel.requested) + 1
      /\ Elements(sel'.requested) = Elements(sel.requested) \cup {i}
      /\ Distinct(sel'.requested)
  BY <1>2, <1>3, <1>4, <1>5, AppendFacts
<1>7. sel'.spent = Cost * Len(sel'.requested) /\ sel'.spent \in Nat
  <2>1. Len(sel.requested) \in Nat
    BY <1>4
  <2>2. Cost * (Len(sel.requested) + 1) = Cost * Len(sel.requested) + Cost
    BY <2>1, BudgetsAreNatural, Z3
  <2>. QED BY <1>3, <1>4, <1>5, <1>6, <2>1, <2>2, BudgetsAreNatural
<1>8. sel'.spent <= sel'.budget
  BY <1>1, <1>3 DEF Affords
<1>9. SelectionType'
  BY <1>3, <1>4, <1>6, <1>7 DEF SelectionType
<1>10. Books'
  <2>1. \A j, k \in DOMAIN sel'.requested :
          sel'.requested[j] = sel'.requested[k] => j = k
    BY <1>6 DEF Distinct
  <2>2. /\ sel'.offered = Elements(sel'.requested) \cup sel'.pending \cup sel'.skipped
        /\ Elements(sel'.requested) \cap sel'.pending = {}
    BY <1>3, <1>5, <1>6
  <2>3. Elements(sel.requested)' = Elements(sel'.requested)
    BY DEF Elements
  <2>. QED BY <1>7, <1>8, <2>1, <2>2, <2>3 DEF Books
<1>. QED BY <1>3, <1>9, <1>10 DEF IInv, SkippedAtTheEnd

LEMMA StopInvariant == IInv /\ Stop => IInv'
<1>. SUFFICES ASSUME IInv, Stop PROVE IInv'
  OBVIOUS
<1>1. /\ IsSelection(sel)' /\ sel'.skipped = Skipped /\ sel'.pending = {}
      /\ sel'.offered = sel.offered /\ sel'.requested = sel.requested
      /\ sel'.spent = sel.spent /\ sel'.budget = sel.budget
  BY StopUpdates DEF Stop, IInv, SelectionType
<1>2. /\ sel.requested \in Seq(sel.offered) /\ sel.pending \subseteq sel.offered
      /\ sel.skipped \subseteq sel.offered
  BY DEF IInv, SelectionType
<1>3. Skipped \subseteq sel.offered
  BY <1>2 DEF Skipped
<1>4. sel.offered = Elements(sel.requested) \cup Skipped
  <2>1. sel.skipped = {} /\ sel.offered = Elements(sel.requested) \cup sel.pending
    BY DEF IInv, Books, SkippedAtTheEnd, Stop
  <2>2. sel.requested # <<>> => sel.requested[1] \in Elements(sel.requested)
    BY <1>2 DEF Elements
  <2>. QED BY <2>1, <2>2 DEF Skipped
<1>5. SelectionType'
  BY <1>1, <1>2, <1>3 DEF SelectionType, IInv
<1>6. Books'
  BY <1>1, <1>4 DEF Books, IInv, Elements
<1>. QED BY <1>1, <1>5, <1>6 DEF IInv, SkippedAtTheEnd

(***************************************************************************)
(* Every other operator leaves the selection alone.                        *)
(***************************************************************************)
LEMMA OthersKeepSelection ==
    ASSUME \/ SiteMapper \/ DoMapper \/ DoMapperRaises \/ ValidityFilter
           \/ Deduplicator \/ SelectorIdle \/ Promote \/ PairedReplay
           \/ AttachProvenance \/ UNCHANGED vars
    PROVE  sel' = sel
BY DEF SiteMapper, DoMapper, DoMapperRaises, ValidityFilter, Deduplicator, SelectorIdle,
       Promote, PairedReplay, AttachProvenance, vars, selection

LEMMA NextInvariant == IInv /\ [Next]_vars => IInv'
<1>. SUFFICES ASSUME IInv, [Next]_vars PROVE IInv'
  OBVIOUS
<1>1. CASE BeginSelector
  BY <1>1, BeginInvariant
<1>2. CASE Request
  BY <1>2, RequestInvariant
<1>3. CASE Stop
  BY <1>3, StopInvariant
<1>4. CASE sel' = sel
  BY <1>4 DEF IInv, SelectionType, IsSelection, Books, SkippedAtTheEnd
<1>. QED BY <1>1, <1>2, <1>3, <1>4, OthersKeepSelection DEF Next

LEMMA Invariance == Spec => []IInv
<1>1. Init => IInv
  BY InitInvariant
<1>2. IInv /\ [Next]_vars => IInv'
  BY NextInvariant
<1>. QED BY <1>1, <1>2, PTL DEF Spec
-----------------------------------------------------------------------------
(***************************************************************************)
(* Sites: what the mapper lists is a list, with whole scores.              *)
(***************************************************************************)
Scored(s) == IsList(s) /\ \A x \in Range(s) : x.score \in Int

LEMMA ScoredList ==
    ASSUME NEW n \in Nat, NEW s, s = [k \in 1..n |-> s[k]],
           \A k \in 1..n : s[k].score \in Int
    PROVE  Scored(s)
BY ListOfLength DEF Scored, Range

LEMMA ScoredElement ==
    ASSUME NEW s, Scored(s), NEW k \in DOMAIN s
    PROVE  s[k].score \in Int
BY DEF Scored, Range

LEMMA ScoredConcat ==
    ASSUME NEW a, NEW b, Scored(a), Scored(b)
    PROVE  Scored(a \o b)
BY ListConcat DEF Scored

LEMMA ScoredFlatten ==
    ASSUME NEW n \in Nat, NEW ss, ss = [i \in 1..n |-> ss[i]],
           \A i \in 1..n : Scored(ss[i])
    PROVE  Scored(FlattenSeq(ss))
<1>1. \A i \in 1..n : IsList(ss[i])
  BY DEF Scored
<1>2. PICK f : f = FlattenSeq(ss)
  OBVIOUS
<1>3. IsList(f) /\ \A x \in Range(f) : \E i \in 1..n : x \in Range(ss[i])
  BY <1>1, <1>2, ListFlatten
<1>. QED BY <1>2, <1>3 DEF Scored

LEMMA ScoredPicked ==
    ASSUME NEW s, Scored(s), NEW I, I \subseteq DOMAIN s
    PROVE  Scored(Picked(s, I))
<1>1. /\ IsList(Picked(s, I)) /\ Range(Picked(s, I)) = {s[i] : i \in I}
  BY ListPicked DEF Scored
<1>2. \A i \in I : s[i].score \in Int
  BY ScoredElement
<1>. QED BY <1>1, <1>2 DEF Scored

LEMMA QuotientIsInt == \A a \in Int, b \in Nat : b > 0 => a \div b \in Int
OBVIOUS

LEMMA WeightedIsInt ==
    ASSUME NEW ep \in DOMAIN Trace, NEW step \in DOMAIN Trace[ep], NEW weight \in Nat
    PROVE  Weighted(ep, step, weight) \in Int
<1>1. PICK n \in Nat : n = Len(Trace[ep]) /\ DOMAIN Trace[ep] = 1..n
  BY TraceAssumption, ListDomain DEF TraceAssumption
<1>2. step \in Nat /\ 10 * n \in Nat /\ 10 * n > 0
  BY <1>1
<1>3. 1000 * weight * step \in Int
  BY <1>2, Z3
<1>. QED BY <1>1, <1>2, <1>3, QuotientIsInt DEF Weighted

LEMMA ContentIsLines ==
    ASSUME NEW ep \in DOMAIN Trace, NEW step \in DOMAIN Trace[ep]
    PROVE  IsList(Content(Trace[ep][step]).lines)
<1>1. CASE "content" \in DOMAIN Trace[ep][step].args
  BY <1>1, TraceAssumption DEF TraceAssumption, Content
<1>2. CASE "content" \notin DOMAIN Trace[ep][step].args
  <2>1. Content(Trace[ep][step]).lines = <<>>
    BY <1>2 DEF Content, NoText
  <2>2. <<>> \in Seq({})
    OBVIOUS
  <2>. QED BY <2>1, <2>2, ListOf
<1>. QED BY <1>1, <1>2

(***************************************************************************)
(* Sites at some of the places of a list.                                  *)
(***************************************************************************)
LEMMA SitesAtPlaces ==
    ASSUME NEW p, IsList(p), NEW s, s = [j \in DOMAIN p |-> s[j]],
           \A j \in DOMAIN p : s[j].score \in Int
    PROVE  Scored(s)
<1>1. PICK n \in Nat : n = Len(p) /\ DOMAIN p = 1..n
  BY ListDomain
<1>. QED BY <1>1, ScoredList

LEMMA ActionSitesAreScored ==
    ASSUME NEW ep \in DOMAIN Trace, NEW step \in DOMAIN Trace[ep]
    PROVE  Scored(ActionSites(ep, step))
<1>1. PICK x : x = InterventionSite(ep, step, "AgentAction", <<>>, 0,
                                    <<Trace[ep][step].tool>>, Weighted(ep, step, 5))
  OBVIOUS
<1>2. x.score \in Int
  BY <1>1, WeightedIsInt DEF InterventionSite
<1>3. <<x>> \in Seq({x})
  OBVIOUS
<1>4. PICK s : s = <<x>>
  OBVIOUS
<1>5. IsList(s) /\ Range(s) \subseteq {x}
  BY <1>3, <1>4, ListOf
<1>6. Scored(s)
  BY <1>2, <1>5 DEF Scored
<1>. QED BY <1>1, <1>4, <1>6 DEF ActionSites

LEMMA ArgumentSitesAreScored ==
    ASSUME NEW ep \in DOMAIN Trace, NEW step \in DOMAIN Trace[ep]
    PROVE  Scored(ArgumentSites(ep, step))
<1>1. PICK order : order = <<"path", "content", "query">>
  OBVIOUS
<1>2. IsList(order) /\ DOMAIN order = 1..3
  <2>1. order \in Seq({"path", "content", "query"}) /\ DOMAIN order = 1..3
    BY <1>1
  <2>. QED BY <2>1, ListOf
<1> DEFINE args == Trace[ep][step].args
           I == {j \in 1..3 : /\ order[j] \in DOMAIN args
                              /\ OneLine(args[order[j]])}
<1>3. PICK names : names = Picked(order, I)
  OBVIOUS
<1>4. IsList(names)
  <2>1. I \subseteq DOMAIN order
    BY <1>2
  <2> HIDE DEF I
  <2>. QED BY <1>2, <1>3, <2>1, ListPicked
<1>5. PICK s : s = ArgumentSites(ep, step)
  OBVIOUS
<1>6. s = [j \in DOMAIN names |->
             InterventionSite(ep, step, "ToolArgument", <<names[j]>>, 0,
                              FlattenSeq(args[names[j]].lines), Weighted(ep, step, 7))]
  BY <1>1, <1>3, <1>5 DEF ArgumentSites
<1>7. \A j \in DOMAIN names : s[j].score = Weighted(ep, step, 7)
  BY <1>6 DEF InterventionSite
<1>8. s = [j \in DOMAIN names |-> s[j]]
  BY <1>6
<1>. QED BY <1>4, <1>5, <1>7, <1>8, WeightedIsInt, SitesAtPlaces

LEMMA FieldSitesAreScored ==
    ASSUME NEW ep \in DOMAIN Trace, NEW step \in DOMAIN Trace[ep]
    PROVE  Scored(FieldSites(ep, step))
<1>1. PICK lines : lines = Content(Trace[ep][step]).lines
  OBVIOUS
<1>2. PICK I : I = {k \in DOMAIN lines : FieldMatches(lines[k])}
  OBVIOUS
<1>3. PICK hits : hits = PlacesIn(lines, I)
  OBVIOUS
<1>4. IsList(hits)
  <2>1. IsList(lines) /\ I \subseteq DOMAIN lines
    BY <1>1, <1>2, ContentIsLines
  <2>. QED BY <1>3, <2>1, PlacesFacts
<1>5. PICK s : s = FieldSites(ep, step)
  OBVIOUS
<1>6. s = [j \in DOMAIN hits |->
             InterventionSite(ep, step, "StructuredField", <<lines[hits[j]][1]>>, hits[j],
                              SubSeq(lines[hits[j]], 3, Len(lines[hits[j]])),
                              Weighted(ep, step, 8))]
  BY <1>1, <1>2, <1>3, <1>5 DEF FieldSites
<1>7. \A j \in DOMAIN hits : s[j].score = Weighted(ep, step, 8)
  BY <1>6 DEF InterventionSite
<1>8. s = [j \in DOMAIN hits |-> s[j]]
  BY <1>6
<1>. QED BY <1>4, <1>5, <1>7, <1>8, WeightedIsInt, SitesAtPlaces

LEMMA TripleSitesAreScored ==
    ASSUME NEW ep \in DOMAIN Trace, NEW step \in DOMAIN Trace[ep]
    PROVE  Scored(TripleSites(ep, step))
<1>1. PICK lines : lines = Content(Trace[ep][step]).lines
  OBVIOUS
<1>2. PICK I : I = {k \in DOMAIN lines : TripleMatches(lines[k])}
  OBVIOUS
<1>3. PICK hits : hits = PlacesIn(lines, I)
  OBVIOUS
<1>4. IsList(hits)
  <2>1. IsList(lines) /\ I \subseteq DOMAIN lines
    BY <1>1, <1>2, ContentIsLines
  <2>. QED BY <1>3, <2>1, PlacesFacts
<1>5. PICK s : s = TripleSites(ep, step)
  OBVIOUS
<1>6. s = [j \in DOMAIN hits |->
             InterventionSite(ep, step, "SemanticTriple", SubSeq(lines[hits[j]], 1, 2),
                              hits[j], SubSeq(lines[hits[j]], 3, Len(lines[hits[j]])),
                              Weighted(ep, step, 6))]
  BY <1>1, <1>2, <1>3, <1>5 DEF TripleSites
<1>7. \A j \in DOMAIN hits : s[j].score = Weighted(ep, step, 6)
  BY <1>6 DEF InterventionSite
<1>8. s = [j \in DOMAIN hits |-> s[j]]
  BY <1>6
<1>. QED BY <1>4, <1>5, <1>7, <1>8, WeightedIsInt, SitesAtPlaces

LEMMA EmptyIsList == IsList(<<>>)
<1>1. <<>> \in Seq({})
  OBVIOUS
<1>. QED BY <1>1, ListOf

LEMMA RationaleSitesAreScored ==
    ASSUME NEW ep \in DOMAIN Trace, NEW step \in DOMAIN Trace[ep]
    PROVE  Scored(RationaleSites(ep, step))
<1>1. PICK lines : lines = Content(Trace[ep][step]).lines
  OBVIOUS
<1>2. PICK I : I = {k \in DOMAIN lines : lines[k] # <<>>}
  OBVIOUS
<1>3. PICK hits : hits = IF PathOf(Trace[ep][step]) \in RationalePaths
                         THEN PlacesIn(lines, I) ELSE <<>>
  OBVIOUS
<1>4. PICK n \in Nat : IsList(lines) /\ n = Len(lines) /\ DOMAIN lines = 1..n
  BY <1>1, ContentIsLines, ListDomain
<1>5. IsList(hits) /\ Range(hits) \subseteq 1..n
  <2>1. I \subseteq DOMAIN lines
    BY <1>2
  <2>2. IsList(PlacesIn(lines, I)) /\ Range(PlacesIn(lines, I)) = I
    BY <1>4, <2>1, PlacesFacts
  <2>3. IsList(<<>>) /\ Range(<<>>) = {}
    BY EmptyIsList DEF Range
  <2>4. CASE PathOf(Trace[ep][step]) \in RationalePaths
    BY <1>3, <1>4, <2>1, <2>2, <2>4
  <2>5. CASE PathOf(Trace[ep][step]) \notin RationalePaths
    BY <1>3, <2>3, <2>5
  <2>. QED BY <2>4, <2>5
<1>6. PICK s : s = RationaleSites(ep, step)
  OBVIOUS
<1>7. s = [j \in DOMAIN hits |->
             InterventionSite(ep, step, "Rationale", <<>>, hits[j], lines[hits[j]],
                              (900 * (Len(lines) + 1 - hits[j])) \div Len(lines))]
  BY <1>1, <1>2, <1>3, <1>6 DEF RationaleSites
<1>8. ASSUME NEW j \in DOMAIN hits PROVE s[j].score \in Int
  <2>1. s[j].score = (900 * (n + 1 - hits[j])) \div n
    BY <1>4, <1>7 DEF InterventionSite
  <2>2. hits[j] \in 1..n
    BY <1>5 DEF Range
  <2>3. 900 * (n + 1 - hits[j]) \in Int /\ n > 0
    BY <2>2
  <2>. QED BY <2>1, <2>3, QuotientIsInt
<1>9. s = [j \in DOMAIN hits |-> s[j]]
  BY <1>7
<1>. QED BY <1>5, <1>6, <1>8, <1>9, SitesAtPlaces

(***************************************************************************)
(* A text has a list of blocks.                                            *)
(***************************************************************************)
LEMMA BlocksAreList ==
    ASSUME NEW text, IsList(text.lines)
    PROVE  IsList(Blocks(text))
<1>1. PICK lines : lines = text.lines \o IF text.nl THEN <<<<>>>> ELSE <<>>
  OBVIOUS
<1>2. PICK tail : tail = IF text.nl THEN <<<<>>>> ELSE <<>>
  OBVIOUS
<1>3. IsList(tail)
  <2>1. <<<<>>>> \in Seq({<<>>})
    OBVIOUS
  <2>. QED BY <1>2, <2>1, ListOf, EmptyIsList
<1>4. IsList(lines)
  BY <1>1, <1>2, <1>3, ListConcat
<1>5. PICK n \in Nat : n = Len(lines) /\ DOMAIN lines = 1..n
  BY <1>4, ListDomain
<1>6. PICK I : I = {i \in 2..(n - 1) : EndsBlock(lines, i)}
  OBVIOUS
<1>7. PICK p : p = PlacesIn(lines, I)
  OBVIOUS
<1>8. IsList(p) /\ Range(p) = I
  <2>1. I \subseteq DOMAIN lines
    BY <1>5, <1>6
  <2>. QED BY <1>4, <1>7, <2>1, PlacesFacts
<1>9. PICK ends : ends = Append(p, n + 1)
  OBVIOUS
<1>10. \E m \in Nat : DOMAIN ends = 1..m
  <2>1. p \in Seq(Range(p) \cup {n + 1})
    BY <1>8, SeqDef DEF IsList
  <2>2. ends \in Seq(Range(p) \cup {n + 1})
    BY <1>9, <2>1, AppendProperties
  <2>. QED BY <2>2, LenProperties
<1>11. PICK m \in Nat : DOMAIN ends = 1..m
  BY <1>10
<1>12. PICK b : b = Blocks(text)
  OBVIOUS
<1>13. b = [k \in DOMAIN ends |->
              SubSeq(lines, IF k = 1 THEN 1 ELSE ends[k - 1] + 1, ends[k] - 1)]
  BY <1>1, <1>5, <1>6, <1>7, <1>9, <1>12 DEF Blocks
<1>14. b = [k \in 1..m |-> b[k]]
  BY <1>11, <1>13
<1>. QED BY <1>12, <1>14, ListOfLength

LEMMA SpanSitesAreScored ==
    ASSUME NEW ep \in DOMAIN Trace, NEW step \in DOMAIN Trace[ep]
    PROVE  Scored(SpanSites(ep, step))
<1>1. PICK blocks : blocks = Blocks(Content(Trace[ep][step]))
  OBVIOUS
<1>2. PICK I : I = {k \in DOMAIN blocks : NotBlank(blocks[k])}
  OBVIOUS
<1>3. PICK hits : hits = IF PathOf(Trace[ep][step]) \in ContextPaths
                         THEN PlacesIn(blocks, I) ELSE <<>>
  OBVIOUS
<1>4. IsList(blocks)
  BY <1>1, ContentIsLines, BlocksAreList
<1>5. IsList(hits)
  <2>1. I \subseteq DOMAIN blocks
    BY <1>2
  <2>. QED BY <1>3, <1>4, <2>1, PlacesFacts, EmptyIsList
<1>6. PICK s : s = SpanSites(ep, step)
  OBVIOUS
<1>7. s = [j \in DOMAIN hits |->
             InterventionSite(ep, step, "TextSpan", <<>>, hits[j],
                              FlattenSeq(blocks[hits[j]]), Weighted(ep, step, 5))]
  BY <1>1, <1>2, <1>3, <1>6 DEF SpanSites
<1>8. \A j \in DOMAIN hits : s[j].score = Weighted(ep, step, 5)
  BY <1>7 DEF InterventionSite
<1>9. s = [j \in DOMAIN hits |-> s[j]]
  BY <1>7
<1>. QED BY <1>5, <1>6, <1>8, <1>9, WeightedIsInt, SitesAtPlaces

LEMMA SitesAreScored == \A kinds : Scored(Sites(Episodes, kinds))
<1>. SUFFICES ASSUME NEW kinds PROVE Scored(Sites(Episodes, kinds))
  OBVIOUS
<1>1. PICK n \in Nat : n = Len(Episodes) /\ DOMAIN Episodes = 1..n
  BY GenerationAssumption, LenProperties DEF GenerationAssumption
<1>2. \A e \in 1..n : Episodes[e] \in DOMAIN Trace
  BY <1>1, GenerationAssumption, ElementOfSeq DEF GenerationAssumption
<1>3. ASSUME NEW ep \in DOMAIN Trace, NEW step \in DOMAIN Trace[ep]
      PROVE  Scored(SitesOfStep(ep, step))
  <2>1. Scored(ActionSites(ep, step) \o ArgumentSites(ep, step))
    BY ActionSitesAreScored, ArgumentSitesAreScored, ScoredConcat
  <2>2. Scored(ActionSites(ep, step) \o ArgumentSites(ep, step) \o FieldSites(ep, step))
    BY <2>1, FieldSitesAreScored, ScoredConcat
  <2>3. Scored(ActionSites(ep, step) \o ArgumentSites(ep, step) \o FieldSites(ep, step)
                 \o TripleSites(ep, step))
    BY <2>2, TripleSitesAreScored, ScoredConcat
  <2>4. Scored(ActionSites(ep, step) \o ArgumentSites(ep, step) \o FieldSites(ep, step)
                 \o TripleSites(ep, step) \o RationaleSites(ep, step))
    BY <2>3, RationaleSitesAreScored, ScoredConcat
  <2>. QED BY <2>4, SpanSitesAreScored, ScoredConcat DEF SitesOfStep
<1>4. ASSUME NEW ep \in DOMAIN Trace
      PROVE  Scored(FlattenSeq([i \in DOMAIN Trace[ep] |-> SitesOfStep(ep, i)]))
  <2>1. PICK m \in Nat : DOMAIN Trace[ep] = 1..m
    BY TraceAssumption, ListDomain DEF TraceAssumption
  <2>2. PICK ss : ss = [i \in DOMAIN Trace[ep] |-> SitesOfStep(ep, i)]
    OBVIOUS
  <2>3. ss = [i \in 1..m |-> ss[i]] /\ \A i \in 1..m : ss[i] = SitesOfStep(ep, i)
    BY <2>1, <2>2
  <2>4. \A i \in 1..m : Scored(ss[i])
    BY <1>3, <2>1, <2>3
  <2>5. Scored(FlattenSeq(ss))
    BY <2>3, <2>4, ScoredFlatten
  <2>. QED BY <2>2, <2>5
<1>5. PICK ss : ss = [e \in DOMAIN Episodes |->
                        FlattenSeq([i \in DOMAIN Trace[Episodes[e]] |->
                          SitesOfStep(Episodes[e], i)])]
  OBVIOUS
<1>6. ss = [e \in 1..n |-> ss[e]]
  BY <1>1, <1>5
<1>7. \A e \in 1..n : Scored(ss[e])
  <2> SUFFICES ASSUME NEW e \in 1..n PROVE Scored(ss[e])
    OBVIOUS
  <2>1. ss[e] = FlattenSeq([i \in DOMAIN Trace[Episodes[e]] |->
                              SitesOfStep(Episodes[e], i)])
    BY <1>1, <1>5
  <2>. QED BY <1>2, <1>4, <2>1
<1>8. PICK all : all = FlattenSeq(ss)
  OBVIOUS
<1>9. Scored(all)
  BY <1>6, <1>7, <1>8, ScoredFlatten
<1>10. PICK I : I = {k \in DOMAIN all : all[k].kind \in kinds}
  OBVIOUS
<1>11. Scored(Picked(all, I))
  BY <1>9, <1>10, ScoredPicked
<1>. QED BY <1>5, <1>8, <1>10, <1>11 DEF Sites
-----------------------------------------------------------------------------
(***************************************************************************)
(* Sorting by influence keeps the sites: every rank is somebody's.         *)
(***************************************************************************)
LEMMA InfluenceIsScored ==
    ASSUME NEW s, Scored(s)
    PROVE  Scored(ByInfluence(s))
<1>1. PICK n \in Nat : n = Len(s) /\ DOMAIN s = 1..n
  BY ListDomain DEF Scored
<1>2. PICK v : v = [i \in 1..n |-> s[i].score]
  OBVIOUS
<1>3. v \in [1..n -> Int]
  BY <1>1, <1>2, ScoredElement
<1>4. PICK before : before = [i \in 1..n |->
         {j \in 1..n : v[j] > v[i] \/ (v[j] = v[i] /\ j < i)}]
  OBVIOUS
<1>5. Ordering(1..n, before) /\ Cardinality(1..n) = n
  <2>1. IsFiniteSet(1..n) /\ Cardinality(1..n) = n
    <3>1. 1 \in Int /\ n \in Int
      OBVIOUS
    <3>2. IsFiniteSet(1..n) /\ Cardinality(1..n) = IF 1 > n THEN 0 ELSE n - 1 + 1
      BY <3>1, FS_Interval
    <3>. QED BY <3>2
  <2>2. before \in [1..n -> SUBSET (1..n)] /\ \A u \in 1..n : u \notin before[u]
    BY <1>3, <1>4
  <2>3. \A u, w \in 1..n : u # w => u \in before[w] \/ w \in before[u]
    BY <1>3, <1>4
  <2>4. ASSUME NEW u \in 1..n, NEW w \in 1..n, u \in before[w]
        PROVE  before[u] \subseteq before[w]
    BY <1>3, <1>4, <2>4
  <2>. QED BY <2>1, <2>2, <2>3, <2>4 DEF Ordering
<1>6. \A k \in 1..n : \E i \in 1..n : Cardinality(before[i]) = k - 1
  BY <1>5, Ranks
<1>7. PICK f : f = ByInfluence(s)
  OBVIOUS
<1>8. \A i \in 1..n :
        before[i] = {j \in DOMAIN s : \/ s[j].score > s[i].score
                                      \/ s[j].score = s[i].score /\ j < i}
  BY <1>1, <1>2, <1>4
<1>9. f = [k \in 1..n |-> s[CHOOSE i \in 1..n :
             Cardinality({j \in DOMAIN s : \/ s[j].score > s[i].score
                                           \/ s[j].score = s[i].score /\ j < i}) = k - 1]]
  BY <1>1, <1>7 DEF ByInfluence
<1>10. ASSUME NEW k \in 1..n PROVE f[k].score \in Int
  <2>1. \E i \in 1..n :
          Cardinality({j \in DOMAIN s : \/ s[j].score > s[i].score
                                        \/ s[j].score = s[i].score /\ j < i}) = k - 1
    BY <1>6, <1>8
  <2>2. PICK i : i = CHOOSE l \in 1..n :
          Cardinality({j \in DOMAIN s : \/ s[j].score > s[l].score
                                        \/ s[j].score = s[l].score /\ j < l}) = k - 1
    OBVIOUS
  <2>3. i \in 1..n
    BY <2>1, <2>2
  <2>4. f[k] = s[i]
    BY <1>9, <2>2
  <2>. QED BY <1>1, <2>3, <2>4, ScoredElement
<1>11. f = [k \in 1..n |-> f[k]]
  BY <1>9
<1>. QED BY <1>7, <1>10, <1>11, ScoredList
-----------------------------------------------------------------------------
(***************************************************************************)
(* Branches: lists of records, each with a name of its own.                *)
(***************************************************************************)
IsBranch(b) ==
    /\ b = [id |-> b.id, site |-> b.site, strategy |-> b.strategy, value |-> b.value,
            action |-> b.action, target |-> b.target, tier |-> b.tier,
            failed_at |-> b.failed_at]
    /\ b.site.score \in Int /\ b.target \in BOOLEAN

BranchList(s) == IsList(s) /\ \A x \in Range(s) : IsBranch(x)

DistinctIds(s) == \A j, k \in DOMAIN s : s[j].id = s[k].id => j = k

LEMMA BranchElement ==
    ASSUME NEW s, BranchList(s), NEW k \in DOMAIN s
    PROVE  IsBranch(s[k])
BY DEF BranchList, Range

LEMMA BranchListOf ==
    ASSUME NEW n \in Nat, NEW s, s = [k \in 1..n |-> s[k]],
           \A k \in 1..n : IsBranch(s[k])
    PROVE  BranchList(s)
BY ListOfLength DEF BranchList, Range

LEMMA IdsByPlace ==
    ASSUME NEW s
    PROVE  Ids(s) = {s[k].id : k \in DOMAIN s}
BY DEF Ids, Elements

(***************************************************************************)
(* As many names as branches.                                              *)
(***************************************************************************)
LEMMA IdsAreCounted ==
    ASSUME NEW s, IsList(s), DistinctIds(s)
    PROVE  Cardinality(Ids(s)) = Len(s)
<1>1. PICK n \in Nat : n = Len(s) /\ DOMAIN s = 1..n
  BY ListDomain
<1>2. PICK S : S = Ids(s) /\ S = {s[k].id : k \in 1..n}
  BY <1>1, IdsByPlace
<1>3. PICK f : f = [k \in 1..n |-> s[k].id]
  OBVIOUS
<1>4. f \in [1..n -> S] /\ \A x \in S : \E k \in 1..n : f[k] = x
  BY <1>2, <1>3
<1>5. \A j, k \in 1..n : f[j] = f[k] => j = k
  BY <1>1, <1>3 DEF DistinctIds
<1>6. DOMAIN f = 1..n
  BY <1>3
<1>7. f \in Bijection(1..n, S)
  BY <1>4, <1>5, <1>6 DEF Bijection, Injection, IsInjective, Surjection
<1>8. IsFiniteSet(1..n) /\ Cardinality(1..n) = n
  <2>1. 1 \in Int /\ n \in Int
    OBVIOUS
  <2>2. IsFiniteSet(1..n) /\ Cardinality(1..n) = IF 1 > n THEN 0 ELSE n - 1 + 1
    BY <2>1, FS_Interval
  <2>. QED BY <2>2
<1>9. Cardinality(S) = n
  BY <1>7, <1>8, FS_Bijection DEF ExistsBijection
<1>. QED BY <1>1, <1>2, <1>9

LEMMA PickedBranches ==
    ASSUME NEW s, BranchList(s), DistinctIds(s), NEW I, I \subseteq DOMAIN s
    PROVE  /\ BranchList(Picked(s, I)) /\ DistinctIds(Picked(s, I))
           /\ Ids(Picked(s, I)) = {s[i].id : i \in I}
<1>1. PICK n \in Nat : n = Len(s) /\ DOMAIN s = 1..n
  BY ListDomain DEF BranchList
<1>2. PICK p : p = Picked(s, I)
  OBVIOUS
<1>3. /\ IsList(p) /\ Range(p) = {s[i] : i \in I}
      /\ \E h : Selects(s, I, n, p, h)
  BY <1>1, <1>2, ListPicked DEF BranchList
<1>4. PICK h : Selects(s, I, n, p, h)
  BY <1>3
<1>5. PICK m \in Nat : m = Len(p) /\ DOMAIN p = 1..m
  BY <1>3, ListDomain
<1>6. /\ \A k \in 1..m : h[k] \in 1..n /\ p[k] = s[h[k]]
      /\ \A j, k \in 1..m : j < k => h[j] < h[k]
  BY <1>4, <1>5 DEF Selects
<1>7. BranchList(p)
  <2>1. \A i \in I : IsBranch(s[i])
    BY BranchElement
  <2>. QED BY <1>3, <2>1 DEF BranchList
<1>8. ASSUME NEW j \in 1..m, NEW k \in 1..m, p[j].id = p[k].id PROVE j = k
  <2>1. h[j] \in 1..n /\ h[k] \in 1..n /\ s[h[j]].id = s[h[k]].id
    BY <1>6, <1>8
  <2>2. h[j] = h[k]
    BY <1>1, <2>1 DEF DistinctIds
  <2>. QED BY <1>6, <2>1, <2>2
<1>9. DistinctIds(p)
  BY <1>5, <1>8 DEF DistinctIds
<1>10. Ids(p) = {s[i].id : i \in I}
  <2>1. Ids(p) = {x.id : x \in Range(p)}
    BY DEF Ids, Elements, Range
  <2>. QED BY <1>3, <2>1
<1>. QED BY <1>2, <1>7, <1>9, <1>10

LEMMA JoinedBranches ==
    ASSUME NEW a, NEW b, BranchList(a), BranchList(b), DistinctIds(a), DistinctIds(b),
           Ids(a) \cap Ids(b) = {}
    PROVE  /\ BranchList(a \o b) /\ DistinctIds(a \o b)
           /\ Ids(a \o b) = Ids(a) \cup Ids(b)
<1>1. PICK n \in Nat, m \in Nat :
         n = Len(a) /\ m = Len(b) /\ DOMAIN a = 1..n /\ DOMAIN b = 1..m
  BY ListDomain DEF BranchList
<1>2. PICK c : c = a \o b
  OBVIOUS
<1>3. /\ IsList(c) /\ Len(c) = n + m /\ Range(c) = Range(a) \cup Range(b)
      /\ \A k \in 1..n : c[k] = a[k]
      /\ \A k \in 1..m : c[n + k] = b[k]
  BY <1>1, <1>2, ListConcat DEF BranchList
<1>4. DOMAIN c = 1..(n + m)
  BY <1>3, ListDomain
<1>5. BranchList(c)
  BY <1>3 DEF BranchList
<1>6. Ids(c) = Ids(a) \cup Ids(b)
  <2>1. \A s : Ids(s) = {x.id : x \in Range(s)}
    BY DEF Ids, Elements, Range
  <2>. QED BY <1>3, <2>1
<1>7. ASSUME NEW j \in 1..(n + m), NEW k \in 1..(n + m), c[j].id = c[k].id PROVE j = k
  <2>1. \A i \in 1..(n + m) : \/ i \in 1..n /\ c[i] = a[i]
                              \/ i - n \in 1..m /\ c[i] = b[i - n]
    <3> SUFFICES ASSUME NEW i \in 1..(n + m), ~(i \in 1..n)
                 PROVE  i - n \in 1..m /\ c[i] = b[i - n]
      BY <1>3
    <3>1. i - n \in 1..m /\ n + (i - n) = i
      OBVIOUS
    <3>2. c[n + (i - n)] = b[i - n]
      BY <1>3, <3>1
    <3>. QED BY <3>1, <3>2
  <2>2. \A i \in 1..n, l \in 1..m : a[i].id # b[l].id
    BY <1>1, IdsByPlace
  <2>3. \A i, l \in 1..n : a[i].id = a[l].id => i = l
    BY <1>1 DEF DistinctIds
  <2>4. \A i, l \in 1..m : b[i].id = b[l].id => i = l
    BY <1>1 DEF DistinctIds
  <2>5. CASE j \in 1..n /\ c[j] = a[j] /\ k \in 1..n /\ c[k] = a[k]
    BY <1>7, <2>3, <2>5
  <2>6. CASE j - n \in 1..m /\ c[j] = b[j - n] /\ k - n \in 1..m /\ c[k] = b[k - n]
    <3>1. j - n = k - n
      BY <1>7, <2>4, <2>6
    <3>. QED BY <3>1
  <2>. QED BY <1>7, <2>1, <2>2, <2>5, <2>6
<1>8. DistinctIds(c)
  BY <1>4, <1>7 DEF DistinctIds
<1>. QED BY <1>2, <1>5, <1>6, <1>8
-----------------------------------------------------------------------------
(***************************************************************************)
(* What is generated is a list of branches, and numbering names them.      *)
(***************************************************************************)
LEMMA StrongestIsScored ==
    ASSUME Scored(sites), NEW restriction \in Restrictions
    PROVE  Scored(Strongest(restriction))
<1>1. PICK all : all = ByInfluence(sites)
  OBVIOUS
<1>2. Scored(all)
  BY <1>1, InfluenceIsScored
<1>3. PICK I : I = {k \in DOMAIN all : all[k].kind \in restriction.kinds}
  OBVIOUS
<1>4. PICK ordered : ordered = Picked(all, I)
  OBVIOUS
<1>5. Scored(ordered)
  BY <1>2, <1>3, <1>4, ScoredPicked
<1>6. PICK cap \in Nat : cap = restriction.max_sites
  BY GenerationAssumption DEF GenerationAssumption
<1>7. PICK n \in Nat : n = Len(ordered) /\ DOMAIN ordered = 1..n
  BY <1>5, ListDomain DEF Scored
<1>8. PICK r : r = Strongest(restriction)
  OBVIOUS
<1>9. r = IF cap = 0 \/ n <= cap THEN ordered ELSE SubSeq(ordered, 1, cap)
  BY <1>1, <1>3, <1>4, <1>6, <1>7, <1>8 DEF Strongest
<1>10. CASE ~(cap = 0 \/ n <= cap)
  <2>1. PICK t : t = SubSeq(ordered, 1, cap)
    OBVIOUS
  <2>2. \A i \in 1..cap : i \in DOMAIN ordered /\ ordered[i] \in Range(ordered)
    BY <1>7, <1>10 DEF Range
  <2>3. t \in Seq(Range(ordered))
    <3>1. 1 \in Int /\ cap \in Int /\ \A i \in 1..cap : ordered[i] \in Range(ordered)
      BY <2>2
    <3>. QED BY <2>1, <3>1, SubSeqProperties
  <2>4. IsList(t) /\ Range(t) \subseteq Range(ordered)
    BY <2>3, ListOf
  <2>. QED BY <1>5, <1>8, <1>9, <1>10, <2>1, <2>4 DEF Scored
<1>. QED BY <1>5, <1>8, <1>9, <1>10

LEMMA BranchIsBranch ==
    ASSUME NEW site, site.score \in Int, NEW strategy, NEW value, NEW target \in BOOLEAN
    PROVE  IsBranch(Branch(site, strategy, value, target))
BY DEF Branch, IsBranch

LEMMA GeneratedAreBranches ==
    ASSUME Scored(sites), NEW strategies \in StrategyLists, NEW values,
           NEW restriction \in Restrictions, NEW target \in BOOLEAN
    PROVE  BranchList(Generated(strategies, values, restriction, target))
<1>1. PICK ordered : ordered = Strongest(restriction)
  OBVIOUS
<1>2. Scored(ordered)
  BY <1>1, StrongestIsScored
<1>3. PICK n \in Nat : n = Len(ordered) /\ DOMAIN ordered = 1..n
  BY <1>2, ListDomain DEF Scored
<1>4. IsList(strategies)
  <2>1. strategies \in Seq(Strategy)
    BY GenerationAssumption DEF GenerationAssumption
  <2>. QED BY <2>1, ListOf
<1>5. PICK apt : apt = [k \in 1..n |->
          Picked(strategies, {j \in DOMAIN strategies :
                                /\ Offers(strategies[j], ordered[k], values)
                                /\ Editable(ordered[k])})]
  OBVIOUS
<1>6. ASSUME NEW k \in 1..n PROVE IsList(apt[k])
  <2>1. PICK I : I = {j \in DOMAIN strategies :
                        /\ Offers(strategies[j], ordered[k], values)
                        /\ Editable(ordered[k])}
    OBVIOUS
  <2>2. I \subseteq DOMAIN strategies
    BY <2>1
  <2>3. IsList(Picked(strategies, I))
    BY <1>4, <2>2, ListPicked
  <2>. QED BY <1>5, <2>1, <2>3
<1>7. PICK ss : ss = [k \in 1..n |-> [j \in DOMAIN apt[k] |->
          Branch(ordered[k], apt[k][j], NewValue(apt[k][j], ordered[k], values), target)]]
  OBVIOUS
<1>8. ASSUME NEW k \in 1..n PROVE BranchList(ss[k])
  <2>1. PICK m \in Nat : DOMAIN apt[k] = 1..m
    BY <1>6, ListDomain
  <2>2. PICK t : t = ss[k]
    OBVIOUS
  <2>3. t = [j \in 1..m |->
          Branch(ordered[k], apt[k][j], NewValue(apt[k][j], ordered[k], values), target)]
    BY <1>7, <2>1, <2>2
  <2>4. ordered[k].score \in Int
    BY <1>2, <1>3, ScoredElement
  <2>5. \A j \in 1..m : IsBranch(t[j])
    BY <2>3, <2>4, BranchIsBranch
  <2>6. t = [j \in 1..m |-> t[j]]
    BY <2>3
  <2>. QED BY <2>2, <2>5, <2>6, BranchListOf
<1>9. PICK f : f = FlattenSeq(ss)
  OBVIOUS
<1>10. IsList(f) /\ \A x \in Range(f) : \E k \in 1..n : x \in Range(ss[k])
  <2>1. ss = [k \in 1..n |-> ss[k]]
    BY <1>7
  <2>2. \A k \in 1..n : IsList(ss[k])
    BY <1>8 DEF BranchList
  <2>. QED BY <1>9, <2>1, <2>2, ListFlatten
<1>11. BranchList(f)
  BY <1>8, <1>10 DEF BranchList
<1>12. ss = [k \in DOMAIN ordered |->
          LET fit == Picked(strategies, {j \in DOMAIN strategies :
                                           /\ Offers(strategies[j], ordered[k], values)
                                           /\ Editable(ordered[k])})
          IN  [j \in DOMAIN fit |->
                 Branch(ordered[k], fit[j], NewValue(fit[j], ordered[k], values), target)]]
  BY <1>3, <1>5, <1>7
<1>. QED BY <1>1, <1>9, <1>11, <1>12 DEF Generated

LEMMA NumberedBranches ==
    ASSUME NEW bs, BranchList(bs), made \in Nat
    PROVE  /\ BranchList(Numbered(bs)) /\ DistinctIds(Numbered(bs))
           /\ Ids(Numbered(bs)) = (made + 1)..(made + Len(bs))
           /\ Len(bs) \in Nat
<1>1. PICK n \in Nat : n = Len(bs) /\ DOMAIN bs = 1..n
  BY ListDomain DEF BranchList
<1>2. PICK t : t = Numbered(bs)
  OBVIOUS
<1>3. t = [j \in 1..n |-> [bs[j] EXCEPT !.id = made + j]]
  BY <1>1, <1>2 DEF Numbered
<1>4. ASSUME NEW j \in 1..n PROVE IsBranch(t[j]) /\ t[j].id = made + j
  <2>1. PICK b : b = bs[j] /\ IsBranch(b)
    BY <1>1, BranchElement
  <2>2. PICK c : c = [b EXCEPT !.id = made + j]
    OBVIOUS
  <2>3. IsBranch(c) /\ c.id = made + j
    BY <2>1, <2>2 DEF IsBranch
  <2>. QED BY <1>3, <2>1, <2>2, <2>3
<1>5. t = [j \in 1..n |-> t[j]] /\ DOMAIN t = 1..n
  BY <1>3
<1>6. BranchList(t)
  BY <1>4, <1>5, BranchListOf
<1>7. DistinctIds(t)
  <2>1. \A j, k \in 1..n : made + j = made + k => j = k
    OBVIOUS
  <2>. QED BY <1>4, <1>5, <2>1 DEF DistinctIds
<1>8. Ids(t) = (made + 1)..(made + n)
  <2>1. Ids(t) = {t[j].id : j \in 1..n}
    BY <1>5, IdsByPlace
  <2>2. \A j \in 1..n : made + j \in (made + 1)..(made + n)
    OBVIOUS
  <2>3. \A x \in (made + 1)..(made + n) : x - made \in 1..n /\ x = made + (x - made)
    OBVIOUS
  <2>4. \A x \in (made + 1)..(made + n) : x \in {t[j].id : j \in 1..n}
    BY <1>4, <2>3
  <2>. QED BY <1>4, <2>1, <2>2, <2>4
<1>. QED BY <1>1, <1>2, <1>6, <1>7, <1>8
-----------------------------------------------------------------------------
(***************************************************************************)
(* The filter: every branch is judged once, and goes one of two ways.      *)
(***************************************************************************)
LEMMA JudgedBranch ==
    ASSUME NEW b, IsBranch(b), NEW failed
    PROVE  /\ IsBranch(Judged(b, failed)) /\ Judged(b, failed).failed_at = failed
           /\ Judged(b, failed).id = b.id /\ Judged(b, failed).site = b.site
           /\ Judged(b, failed).action = b.action /\ Judged(b, failed).target = b.target
<1>1. PICK t : t = IF failed = "none" THEN CONSTRAINT_VALIDATED ELSE b.tier
  OBVIOUS
<1>2. PICK c : c = [b EXCEPT !.failed_at = failed, !.tier = t]
  OBVIOUS
<1>3. Judged(b, failed) = c
  BY <1>1, <1>2 DEF Judged
<1>4. /\ IsBranch(c) /\ c.failed_at = failed /\ c.id = b.id /\ c.site = b.site
      /\ c.action = b.action /\ c.target = b.target
  BY <1>2 DEF IsBranch
<1>. QED BY <1>3, <1>4

LEMMA JudgedBranches ==
    ASSUME NEW bs, BranchList(bs), DistinctIds(bs), NEW failed, NEW judged,
           judged = [i \in DOMAIN bs |-> Judged(bs[i], failed[i])]
    PROVE  /\ BranchList(judged) /\ DistinctIds(judged) /\ DOMAIN judged = DOMAIN bs
           /\ \A i \in DOMAIN bs :
                 /\ judged[i].failed_at = failed[i]
                 /\ judged[i].id = bs[i].id /\ judged[i].site = bs[i].site
                 /\ judged[i].action = bs[i].action
<1>1. PICK n \in Nat : n = Len(bs) /\ DOMAIN bs = 1..n
  BY ListDomain DEF BranchList
<1>2. \A i \in DOMAIN bs :
        /\ IsBranch(judged[i]) /\ judged[i].failed_at = failed[i]
        /\ judged[i].id = bs[i].id /\ judged[i].site = bs[i].site
        /\ judged[i].action = bs[i].action
  <2> SUFFICES ASSUME NEW i \in DOMAIN bs
               PROVE  /\ IsBranch(judged[i]) /\ judged[i].failed_at = failed[i]
                      /\ judged[i].id = bs[i].id /\ judged[i].site = bs[i].site
                      /\ judged[i].action = bs[i].action
    OBVIOUS
  <2>1. PICK b : b = bs[i] /\ IsBranch(b)
    BY BranchElement
  <2>2. judged[i] = Judged(b, failed[i])
    BY <2>1
  <2>. QED BY <2>1, <2>2, JudgedBranch
<1>3. judged = [i \in 1..n |-> judged[i]] /\ DOMAIN judged = 1..n
  BY <1>1
<1>4. BranchList(judged)
  BY <1>1, <1>2, <1>3, BranchListOf
<1>5. DistinctIds(judged)
  BY <1>1, <1>2, <1>3 DEF DistinctIds
<1>. QED BY <1>1, <1>2, <1>3, <1>4, <1>5

LEMMA FilteredFacts ==
    ASSUME NEW bs, BranchList(bs), DistinctIds(bs), NEW d
    PROVE  /\ BranchList(Filtered(bs, d).accepted) /\ DistinctIds(Filtered(bs, d).accepted)
           /\ BranchList(Filtered(bs, d).rejected) /\ DistinctIds(Filtered(bs, d).rejected)
           /\ Ids(Filtered(bs, d).accepted) \cup Ids(Filtered(bs, d).rejected) = Ids(bs)
           /\ Ids(Filtered(bs, d).accepted) \cap Ids(Filtered(bs, d).rejected) = {}
<1>1. PICK judged : judged = [i \in DOMAIN bs |-> Judged(bs[i], FailedAt(bs, i, d))]
  OBVIOUS
<1>2. /\ BranchList(judged) /\ DistinctIds(judged) /\ DOMAIN judged = DOMAIN bs
      /\ \A i \in DOMAIN bs : judged[i].id = bs[i].id
  <2>1. PICK failed : failed = [i \in DOMAIN bs |-> FailedAt(bs, i, d)]
    OBVIOUS
  <2>2. judged = [i \in DOMAIN bs |-> Judged(bs[i], failed[i])]
    BY <1>1, <2>1
  <2>. QED BY <2>2, JudgedBranches
<1>3. PICK passed : passed = {i \in DOMAIN bs : judged[i].failed_at = "none"}
  OBVIOUS
<1>4. PICK kept, out : kept = Picked(judged, passed) /\ out = Picked(judged, DOMAIN bs \ passed)
  OBVIOUS
<1>5. Filtered(bs, d).accepted = kept /\ Filtered(bs, d).rejected = out
  BY <1>1, <1>3, <1>4 DEF Filtered
<1>6. passed \subseteq DOMAIN judged /\ DOMAIN bs \ passed \subseteq DOMAIN judged
  BY <1>2, <1>3
<1>7. BranchList(kept) /\ DistinctIds(kept) /\ Ids(kept) = {judged[i].id : i \in passed}
  BY <1>2, <1>4, <1>6, PickedBranches
<1>8. /\ BranchList(out) /\ DistinctIds(out)
      /\ Ids(out) = {judged[i].id : i \in DOMAIN bs \ passed}
  BY <1>2, <1>4, <1>6, PickedBranches
<1>9. Ids(bs) = {judged[i].id : i \in DOMAIN bs}
  BY <1>2, IdsByPlace
<1>10. Ids(kept) \cup Ids(out) = Ids(bs)
  BY <1>3, <1>7, <1>8, <1>9
<1>11. Ids(kept) \cap Ids(out) = {}
  BY <1>2, <1>3, <1>7, <1>8 DEF DistinctIds
<1>. QED BY <1>5, <1>7, <1>8, <1>10, <1>11
-----------------------------------------------------------------------------
(***************************************************************************)
(* The deduplicator: each cluster has a representative, and one only.      *)
(***************************************************************************)
LEMMA RepresentativeIsMember ==
    ASSUME NEW bs, BranchList(bs), NEW i \in DOMAIN bs
    PROVE  Representative(bs, i) \in Members(bs, i)
<1>1. PICK n \in Nat : n = Len(bs) /\ DOMAIN bs = 1..n
  BY ListDomain DEF BranchList
<1>2. PICK P : P = Members(bs, i)
  OBVIOUS
<1>3. P \subseteq 1..n /\ i \in P
  BY <1>1, <1>2 DEF Members
<1>4. PICK v : v = [j \in P |-> bs[j].site.score]
  OBVIOUS
<1>5. v \in [P -> Int]
  <2>1. \A j \in P : bs[j].site.score \in Int
    BY <1>1, <1>3, BranchElement DEF IsBranch
  <2>. QED BY <1>4, <2>1
<1>6. PICK before : before = [j \in P |-> {k \in P : v[k] > v[j] \/ (v[k] = v[j] /\ k < j)}]
  OBVIOUS
<1>7. Ordering(P, before)
  <2>0. \A j \in P : j \in Int
    BY <1>3
  <2>1. IsFiniteSet(P)
    <3>1. 1 \in Int /\ n \in Int
      OBVIOUS
    <3>2. IsFiniteSet(1..n)
      BY <3>1, FS_Interval
    <3>. QED BY <1>3, <3>2, FS_Subset
  <2>2. before \in [P -> SUBSET P] /\ \A u \in P : u \notin before[u]
    BY <1>5, <1>6, <2>0
  <2>3. \A u, w \in P : u # w => u \in before[w] \/ w \in before[u]
    BY <1>5, <1>6, <2>0
  <2>4. ASSUME NEW u \in P, NEW w \in P, u \in before[w]
        PROVE  before[u] \subseteq before[w]
    BY <1>5, <1>6, <2>0, <2>4
  <2>. QED BY <2>1, <2>2, <2>3, <2>4 DEF Ordering
<1>8. PICK u \in P : \A w \in P : u = w \/ u \in before[w]
  BY <1>3, <1>7, FirstRanked
<1>9. \A k \in P : \/ bs[u].site.score > bs[k].site.score
                   \/ bs[u].site.score = bs[k].site.score /\ u <= k
  <2> SUFFICES ASSUME NEW k \in P
               PROVE  \/ bs[u].site.score > bs[k].site.score
                      \/ bs[u].site.score = bs[k].site.score /\ u <= k
    OBVIOUS
  <2>1. u = k \/ v[u] > v[k] \/ (v[u] = v[k] /\ u < k)
    BY <1>6, <1>8
  <2>2. v[u] = bs[u].site.score /\ v[k] = bs[k].site.score /\ u \in Int /\ k \in Int
    BY <1>3, <1>4
  <2>. QED BY <2>1, <2>2
<1>. QED BY <1>2, <1>9 DEF Representative

LEMMA LeadersFacts ==
    ASSUME NEW bs, BranchList(bs)
    PROVE  /\ Clusters(bs) \subseteq DOMAIN bs
           /\ \A i, j \in Clusters(bs) : i \in Members(bs, j) => i = j
           /\ \A j \in DOMAIN bs : \E i \in Clusters(bs) : i \in Members(bs, j)
<1>1. PICK n \in Nat : n = Len(bs) /\ DOMAIN bs = 1..n
  BY ListDomain DEF BranchList
<1>2. ASSUME NEW i \in Clusters(bs), NEW j \in Clusters(bs), i \in Members(bs, j)
      PROVE  i = j
  <2>1. i \in 1..n /\ j \in 1..n /\ j \in Members(bs, i)
    BY <1>1, <1>2 DEF Clusters, Members
  <2>2. i <= j /\ j <= i
    BY <1>2, <2>1 DEF Clusters
  <2>. QED BY <2>1, <2>2
<1>3. ASSUME NEW j \in DOMAIN bs PROVE \E i \in Clusters(bs) : i \in Members(bs, j)
  <2>1. Members(bs, j) \in SUBSET Nat /\ Members(bs, j) # {}
    BY <1>1 DEF Members
  <2>2. PICK i \in Members(bs, j) : \A k \in Members(bs, j) : i <= k
    BY <2>1, LeastNumber
  <2>3. i \in DOMAIN bs /\ Members(bs, i) = Members(bs, j)
    BY DEF Members
  <2>. QED BY <2>2, <2>3 DEF Clusters
<1>. QED BY <1>2, <1>3 DEF Clusters

LEMMA DeduplicatedFacts ==
    ASSUME NEW bs, BranchList(bs), DistinctIds(bs)
    PROVE  /\ BranchList(Deduplicated(bs)) /\ DistinctIds(Deduplicated(bs))
           /\ Ids(Deduplicated(bs)) \subseteq Ids(bs)
           /\ Range(Deduplicated(bs)) = {bs[Representative(bs, i)] : i \in Clusters(bs)}
<1>1. PICK leaders : leaders = PlacesIn(bs, Clusters(bs))
  OBVIOUS
<1>2. /\ IsList(leaders) /\ Range(leaders) = Clusters(bs)
      /\ \A j, k \in DOMAIN leaders : leaders[j] = leaders[k] => j = k
  BY <1>1, LeadersFacts, PlacesFacts DEF BranchList
<1>3. PICK m \in Nat : DOMAIN leaders = 1..m
  BY <1>2, ListDomain
<1>4. PICK t : t = Deduplicated(bs)
  OBVIOUS
<1>5. t = [k \in 1..m |-> bs[Representative(bs, leaders[k])]]
  BY <1>1, <1>3, <1>4 DEF Deduplicated
<1>6. \A k \in 1..m : leaders[k] \in Clusters(bs)
  BY <1>2, <1>3 DEF Range
<1>7. \A i \in Clusters(bs) : /\ Representative(bs, i) \in DOMAIN bs
                              /\ Representative(bs, i) \in Members(bs, i)
  BY LeadersFacts, RepresentativeIsMember DEF Members
<1>8. t = [k \in 1..m |-> t[k]] /\ DOMAIN t = 1..m
  BY <1>5
<1>9. BranchList(t)
  <2>1. \A k \in 1..m : IsBranch(t[k])
    BY <1>5, <1>6, <1>7, BranchElement
  <2>. QED BY <1>8, <2>1, BranchListOf
<1>10. DistinctIds(t)
  <2> SUFFICES ASSUME NEW j \in 1..m, NEW k \in 1..m, t[j].id = t[k].id PROVE j = k
    BY <1>8 DEF DistinctIds
  <2>1. PICK p, q : p = Representative(bs, leaders[j]) /\ q = Representative(bs, leaders[k])
    OBVIOUS
  <2>2. /\ p \in DOMAIN bs /\ p \in Members(bs, leaders[j])
        /\ q \in DOMAIN bs /\ q \in Members(bs, leaders[k])
    BY <1>6, <1>7, <2>1
  <2>3. p = q
    BY <1>5, <2>1, <2>2 DEF DistinctIds
  <2>4. leaders[j] \in Members(bs, leaders[k])
    BY <1>6, <2>2, <2>3, LeadersFacts DEF Members
  <2>. QED BY <1>2, <1>3, <1>6, <2>4, LeadersFacts
<1>11. Ids(t) \subseteq Ids(bs)
  <2>1. Ids(t) = {t[k].id : k \in 1..m} /\ Ids(bs) = {bs[k].id : k \in DOMAIN bs}
    BY <1>8, IdsByPlace
  <2>. QED BY <1>5, <1>6, <1>7, <2>1
<1>12. Range(t) = {bs[Representative(bs, i)] : i \in Clusters(bs)}
  <2>1. Range(t) = {t[k] : k \in 1..m}
    BY <1>8 DEF Range
  <2>2. \A i \in Clusters(bs) : \E k \in 1..m : leaders[k] = i
    BY <1>2, <1>3 DEF Range
  <2>. QED BY <1>5, <1>6, <2>1, <2>2
<1>. QED BY <1>4, <1>9, <1>10, <1>11, <1>12
-----------------------------------------------------------------------------
(***************************************************************************)
(* BranchesAccounted counts names; that they can be counted, and that the  *)
(* next operator keeps it so, needs the lists of branches and of scored    *)
(* sites, in which no two branches have one name.                          *)
(***************************************************************************)
Placing(listed, kept, out, gone, n) ==
    /\ n \in Nat /\ Scored(listed) /\ BranchList(kept) /\ BranchList(out)
    /\ DistinctIds(kept) /\ DistinctIds(out)
    /\ Ids(kept) \cup Ids(out) \cup gone = 1..n
    /\ Ids(kept) \cap Ids(out) = {}
    /\ (Ids(kept) \cup Ids(out)) \cap gone = {}

Placed == Placing(sites, branches, rejected, discarded, made)

LEMMA PlacedInit == Init => Placed
<1>. SUFFICES ASSUME Init PROVE Placed
  OBVIOUS
<1>1. /\ sites = <<>> /\ branches = <<>> /\ rejected = <<>> /\ discarded = {} /\ made = 0
  BY DEF Init
<1>2. PICK e : e = <<>>
  OBVIOUS
<1>3. IsList(e) /\ Range(e) = {} /\ DOMAIN e = {}
  BY <1>2, EmptyIsList DEF Range
<1>4. Scored(e) /\ BranchList(e) /\ DistinctIds(e) /\ Ids(e) = {}
  BY <1>3, IdsByPlace DEF Scored, BranchList, DistinctIds
<1>5. 1..0 = {}
  OBVIOUS
<1>. QED BY <1>1, <1>2, <1>4, <1>5 DEF Placed, Placing

LEMMA MapperPlaces == Placed /\ DoMapper => Placed'
<1>. SUFFICES ASSUME Placed, DoMapper PROVE Placed'
  OBVIOUS
<1>1. PICK strategies \in StrategyLists, values \in ValueLists,
           restriction \in Restrictions, target \in BOOLEAN :
        LET new == Generated(strategies, values, restriction, target) IN
        branches' = branches \o Numbered(new) /\ made' = made + Len(new)
  BY DEF DoMapper
<1>2. PICK new : new = Generated(strategies, values, restriction, target)
  OBVIOUS
<1>3. branches' = branches \o Numbered(new) /\ made' = made + Len(new)
  BY <1>1, <1>2
<1>4. sites' = sites /\ rejected' = rejected /\ discarded' = discarded
  BY DEF DoMapper
<1>5. BranchList(new)
  BY <1>2, GeneratedAreBranches DEF Placed, Placing
<1>6. made \in Nat
  BY DEF Placed, Placing
<1>7. PICK more : more = Numbered(new)
  OBVIOUS
<1>8. /\ BranchList(more) /\ DistinctIds(more)
      /\ Ids(more) = (made + 1)..(made + Len(new)) /\ Len(new) \in Nat
  BY <1>5, <1>6, <1>7, NumberedBranches
<1>9. /\ BranchList(branches) /\ DistinctIds(branches)
      /\ Ids(branches) \cup Ids(rejected) \cup discarded = 1..made
  BY DEF Placed, Placing
<1>10. Ids(more) \cap 1..made = {} /\ 1..made \cup Ids(more) = 1..(made + Len(new))
  BY <1>6, <1>8
<1>11. Ids(branches) \cap Ids(more) = {}
  BY <1>9, <1>10
<1>12. PICK all : all = branches \o more
  OBVIOUS
<1>13. BranchList(all) /\ DistinctIds(all) /\ Ids(all) = Ids(branches) \cup Ids(more)
  BY <1>8, <1>9, <1>11, <1>12, JoinedBranches
<1>14. made + Len(new) \in Nat
  BY <1>6, <1>8
<1>15. branches' = all /\ made' = made + Len(new)
  BY <1>3, <1>7, <1>12
<1>16. /\ Ids(all) \cup Ids(rejected) \cup discarded = 1..(made + Len(new))
       /\ Ids(all) \cap Ids(rejected) = {}
       /\ (Ids(all) \cup Ids(rejected)) \cap discarded = {}
  BY <1>9, <1>10, <1>13 DEF Placed, Placing
<1>. QED BY <1>4, <1>13, <1>14, <1>15, <1>16 DEF Placed, Placing

LEMMA FilterPlaces == Placed /\ ValidityFilter => Placed'
<1>. SUFFICES ASSUME Placed, ValidityFilter PROVE Placed'
  OBVIOUS
<1>1. PICK keepRejected \in BOOLEAN, d \in BOOLEAN :
        LET pass == Filtered(branches, d) IN
        /\ branches' = Kept(pass)
        /\ rejected' = IF keepRejected THEN rejected \o pass.rejected ELSE rejected
        /\ discarded' = IF keepRejected THEN discarded ELSE discarded \cup Ids(pass.rejected)
  BY DEF ValidityFilter
<1>2. PICK kept, out : /\ kept = Filtered(branches, d).accepted
                       /\ out = Filtered(branches, d).rejected
  OBVIOUS
<1>3. /\ BranchList(kept) /\ DistinctIds(kept) /\ BranchList(out) /\ DistinctIds(out)
      /\ Ids(kept) \cup Ids(out) = Ids(branches) /\ Ids(kept) \cap Ids(out) = {}
  BY <1>2, FilteredFacts DEF Placed, Placing
<1>4. /\ branches' = kept /\ sites' = sites /\ made' = made
      /\ rejected' = IF keepRejected THEN rejected \o out ELSE rejected
      /\ discarded' = IF keepRejected THEN discarded ELSE discarded \cup Ids(out)
  BY <1>1, <1>2 DEF Kept, ValidityFilter
<1>5. /\ made \in Nat /\ Scored(sites) /\ BranchList(rejected) /\ DistinctIds(rejected)
      /\ Ids(branches) \cup Ids(rejected) \cup discarded = 1..made
      /\ Ids(branches) \cap Ids(rejected) = {}
      /\ (Ids(branches) \cup Ids(rejected)) \cap discarded = {}
  BY DEF Placed, Placing
<1>6. PICK r : r = rejected \o out
  OBVIOUS
<1>7. BranchList(r) /\ DistinctIds(r) /\ Ids(r) = Ids(rejected) \cup Ids(out)
  <2>1. Ids(rejected) \cap Ids(out) = {}
    BY <1>3, <1>5
  <2>. QED BY <1>3, <1>5, <1>6, <2>1, JoinedBranches
<1>8. CASE keepRejected
  <2>1. branches' = kept /\ rejected' = r /\ discarded' = discarded
    BY <1>4, <1>6, <1>8
  <2>2. /\ Ids(kept) \cup Ids(r) \cup discarded = 1..made
        /\ Ids(kept) \cap Ids(r) = {}
        /\ (Ids(kept) \cup Ids(r)) \cap discarded = {}
    BY <1>3, <1>5, <1>7
  <2>. QED BY <1>3, <1>4, <1>5, <1>7, <2>1, <2>2 DEF Placed, Placing
<1>9. CASE ~keepRejected
  <2>1. branches' = kept /\ rejected' = rejected /\ discarded' = discarded \cup Ids(out)
    BY <1>4, <1>9
  <2>2. /\ Ids(kept) \cup Ids(rejected) \cup (discarded \cup Ids(out)) = 1..made
        /\ Ids(kept) \cap Ids(rejected) = {}
        /\ (Ids(kept) \cup Ids(rejected)) \cap (discarded \cup Ids(out)) = {}
    BY <1>3, <1>5
  <2>. QED BY <1>3, <1>4, <1>5, <2>1, <2>2 DEF Placed, Placing
<1>. QED BY <1>8, <1>9

LEMMA DeduplicatorPlaces == Placed /\ Deduplicator => Placed'
<1>. SUFFICES ASSUME Placed, Deduplicator PROVE Placed'
  OBVIOUS
<1>1. PICK t : t = Deduplicated(branches)
  OBVIOUS
<1>2. /\ BranchList(t) /\ DistinctIds(t) /\ Ids(t) \subseteq Ids(branches)
  BY <1>1, DeduplicatedFacts DEF Placed, Placing
<1>3. /\ branches' = t /\ sites' = sites /\ rejected' = rejected /\ made' = made
      /\ discarded' = discarded \cup (Ids(branches) \ Ids(t))
  BY <1>1 DEF Deduplicator
<1>4. /\ made \in Nat /\ Scored(sites) /\ BranchList(rejected) /\ DistinctIds(rejected)
      /\ Ids(branches) \cup Ids(rejected) \cup discarded = 1..made
      /\ Ids(branches) \cap Ids(rejected) = {}
      /\ (Ids(branches) \cup Ids(rejected)) \cap discarded = {}
  BY DEF Placed, Placing
<1>5. /\ Ids(t) \cup Ids(rejected) \cup (discarded \cup (Ids(branches) \ Ids(t))) = 1..made
      /\ Ids(t) \cap Ids(rejected) = {}
      /\ (Ids(t) \cup Ids(rejected)) \cap (discarded \cup (Ids(branches) \ Ids(t))) = {}
  BY <1>2, <1>4
<1>. QED BY <1>2, <1>3, <1>4, <1>5 DEF Placed, Placing

LEMMA SiteMapperPlaces == Placed /\ SiteMapper => Placed'
<1>. SUFFICES ASSUME Placed, SiteMapper PROVE Placed'
  OBVIOUS
<1>1. Scored(sites')
  BY SitesAreScored DEF SiteMapper
<1>2. /\ branches' = branches /\ rejected' = rejected /\ discarded' = discarded
      /\ made' = made
  BY DEF SiteMapper
<1>. QED BY <1>1, <1>2 DEF Placed, Placing

LEMMA OthersKeepBranches ==
    ASSUME \/ DoMapperRaises \/ BeginSelector \/ SelectorIdle \/ Request \/ Stop
           \/ Promote \/ PairedReplay \/ AttachProvenance \/ UNCHANGED vars
    PROVE  /\ sites' = sites /\ branches' = branches /\ rejected' = rejected
           /\ discarded' = discarded /\ made' = made
BY DEF DoMapperRaises, BeginSelector, SelectorIdle, Request, Stop, Promote, PairedReplay,
       AttachProvenance, vars, services

LEMMA PlacedNext == Placed /\ [Next]_vars => Placed'
<1>. SUFFICES ASSUME Placed, [Next]_vars PROVE Placed'
  OBVIOUS
<1>1. CASE SiteMapper
  BY <1>1, SiteMapperPlaces
<1>2. CASE DoMapper
  BY <1>2, MapperPlaces
<1>3. CASE ValidityFilter
  BY <1>3, FilterPlaces
<1>4. CASE Deduplicator
  BY <1>4, DeduplicatorPlaces
<1>5. CASE /\ sites' = sites /\ branches' = branches /\ rejected' = rejected
           /\ discarded' = discarded /\ made' = made
  BY <1>5 DEF Placed, Placing
<1>. QED BY <1>1, <1>2, <1>3, <1>4, <1>5, OthersKeepBranches DEF Next

LEMMA PlacedAlways == Spec => []Placed
<1>. QED BY PlacedInit, PlacedNext, PTL DEF Spec

(***************************************************************************)
(* No branch is lost between operators, none is both accepted and          *)
(* rejected, and none is listed twice, whatever the operators, their order *)
(* and their parameters.                                                   *)
(***************************************************************************)
THEOREM BranchesAreKept == Spec => []BranchesAccounted
<1>1. Placed => BranchesAccounted
  BY IdsAreCounted DEF Placed, Placing, BranchesAccounted, BranchList
<1>. QED BY <1>1, PlacedAlways, PTL
-----------------------------------------------------------------------------
(***************************************************************************)
(* Branches of one signature that declare a target fail alike, wherever    *)
(* their values come from.                                                 *)
(***************************************************************************)
LEMMA InvariantsOfSignature ==
    ASSUME NEW s, NEW t, s.ep = t.ep, s.step = t.step, s.kind = t.kind, s.name = t.name,
           NEW new
    PROVE  InvariantsHold(s, new) = InvariantsHold(t, new)
<1>1. Recorded(s) = Recorded(t)
  BY DEF Recorded
<1>. QED BY <1>1 DEF InvariantsHold

LEMMA AlikeFailAlike ==
    ASSUME NEW a, NEW b, Signature(a) = Signature(b), IsBranch(a), IsBranch(b),
           a.target, b.target
    PROVE  FirstFailure(a) = FirstFailure(b)
<1>1. /\ a.site.ep = b.site.ep /\ a.site.step = b.site.step
      /\ a.site.kind = b.site.kind /\ a.site.name = b.site.name /\ a.action = b.action
  BY DEF Signature
<1>2. Recorded(a.site) = Recorded(b.site)
  BY <1>1 DEF Recorded
<1>3. InvariantsHold(a.site, a.action) = InvariantsHold(b.site, b.action)
  BY <1>1, InvariantsOfSignature
<1>4. a.target = b.target
  BY DEF IsBranch
<1>5. Hard(a) = Hard(b)
  BY <1>1, <1>2, <1>3, <1>4 DEF Hard
<1>. QED BY <1>5 DEF FirstFailure

(***************************************************************************)
(* What the filter accepts are the experiments that do not fail, each      *)
(* through its first branch.                                               *)
(***************************************************************************)
LEMMA ExperimentsAreUnfailing ==
    ASSUME NEW bs, BranchList(bs), DistinctIds(bs)
    PROVE  Experiments(bs) =
             {Signature(x) : x \in {y \in Range(bs) : FirstFailure(y) = "none"}}
<1>1. PICK n \in Nat : n = Len(bs) /\ DOMAIN bs = 1..n
  BY ListDomain DEF BranchList
<1>2. PICK judged : judged = [i \in DOMAIN bs |-> Judged(bs[i], FailedAt(bs, i, TRUE))]
  OBVIOUS
<1>3. /\ BranchList(judged) /\ DOMAIN judged = DOMAIN bs
      /\ \A i \in DOMAIN bs : /\ judged[i].failed_at = FailedAt(bs, i, TRUE)
                              /\ judged[i].site = bs[i].site
                              /\ judged[i].action = bs[i].action
  <2>1. PICK failed : failed = [i \in DOMAIN bs |-> FailedAt(bs, i, TRUE)]
    OBVIOUS
  <2>2. judged = [i \in DOMAIN bs |-> Judged(bs[i], failed[i])]
    BY <1>2, <2>1
  <2>3. /\ BranchList(judged) /\ DOMAIN judged = DOMAIN bs
        /\ \A i \in DOMAIN bs : /\ judged[i].failed_at = failed[i]
                                /\ judged[i].site = bs[i].site
                                /\ judged[i].action = bs[i].action
    BY <2>2, JudgedBranches
  <2>. QED BY <2>1, <2>3
<1>4. PICK passed : passed = {i \in DOMAIN bs : judged[i].failed_at = "none"}
  OBVIOUS
<1>5. Elements(Filtered(bs, TRUE).accepted) = {judged[i] : i \in passed}
  <2>1. Filtered(bs, TRUE).accepted = Picked(judged, passed)
    BY <1>2, <1>4 DEF Filtered
  <2>2. passed \subseteq DOMAIN judged
    BY <1>3, <1>4
  <2>3. Range(Picked(judged, passed)) = {judged[i] : i \in passed}
    BY <1>3, <2>2, ListPicked DEF BranchList
  <2>. QED BY <2>1, <2>3 DEF Elements, Range
<1>6. \A i \in DOMAIN bs : Signature(judged[i]) = Signature(bs[i])
  BY <1>3 DEF Signature
<1>7. Experiments(bs) = {Signature(bs[i]) : i \in passed}
  <2>1. passed \subseteq DOMAIN bs
    BY <1>4
  <2>2. Experiments(bs) = {Signature(b) : b \in {judged[i] : i \in passed}}
    BY <1>5 DEF Experiments
  <2>. QED BY <1>6, <2>1, <2>2
<1>8. \A i \in 1..n : i \in passed <=> /\ FirstFailure(bs[i]) = "none"
                                       /\ Signature(bs[i]) \notin Seen(bs, i)
  BY <1>1, <1>3, <1>4 DEF FailedAt
<1>9. ASSUME NEW j \in 1..n, FirstFailure(bs[j]) = "none"
      PROVE  \E i \in passed : Signature(bs[i]) = Signature(bs[j])
  <2>1. PICK T : T = {k \in 1..n : /\ FirstFailure(bs[k]) = "none"
                                   /\ Signature(bs[k]) = Signature(bs[j])}
    OBVIOUS
  <2>2. T \in SUBSET Nat /\ T # {}
    BY <1>9, <2>1
  <2>3. PICK i \in T : \A k \in T : i <= k
    BY <2>2, LeastNumber
  <2>4. ASSUME Signature(bs[i]) \in Seen(bs, i) PROVE FALSE
    <3>1. i \in 1..n /\ Signature(bs[i]) = Signature(bs[j])
      BY <2>1
    <3>2. PICK k \in 1..(i - 1) : /\ FirstFailure(bs[k]) = "none"
                                  /\ Signature(bs[k]) = Signature(bs[i])
      BY <2>4 DEF Seen
    <3>3. k \in 1..n /\ k < i
      BY <3>1
    <3>4. k \in T
      BY <2>1, <3>1, <3>2, <3>3
    <3>. QED BY <2>3, <3>1, <3>3, <3>4
  <2>5. i \in passed
    BY <1>8, <2>1, <2>4
  <2>. QED BY <2>1, <2>5
<1>10. Range(bs) = {bs[j] : j \in 1..n}
  BY <1>1 DEF Range
<1>11. \A i \in passed : i \in 1..n /\ FirstFailure(bs[i]) = "none"
  BY <1>1, <1>4, <1>8
<1>12. ASSUME NEW x \in Experiments(bs)
       PROVE  x \in {Signature(y) : y \in {z \in Range(bs) : FirstFailure(z) = "none"}}
  <2>1. PICK i \in passed : x = Signature(bs[i])
    BY <1>7
  <2>2. bs[i] \in {z \in Range(bs) : FirstFailure(z) = "none"}
    BY <1>10, <1>11
  <2>. QED BY <2>1, <2>2
<1>13. ASSUME NEW y \in Range(bs), FirstFailure(y) = "none"
       PROVE  Signature(y) \in Experiments(bs)
  <2>1. PICK j \in 1..n : y = bs[j]
    BY <1>10
  <2>2. PICK i \in passed : Signature(bs[i]) = Signature(y)
    BY <1>9, <1>13, <2>1
  <2>. QED BY <1>7, <2>2
<1>. QED BY <1>12, <1>13

LEMMA DedupKeeps ==
    ASSUME NEW bs, BranchList(bs), DistinctIds(bs), \A b \in Elements(bs) : b.target
    PROVE  Experiments(Deduplicated(bs)) = Experiments(bs)
<1>1. PICK t : t = Deduplicated(bs)
  OBVIOUS
<1>2. /\ BranchList(t) /\ DistinctIds(t)
      /\ Range(t) = {bs[Representative(bs, i)] : i \in Clusters(bs)}
  BY <1>1, DeduplicatedFacts
<1>3. Experiments(t) = {Signature(x) : x \in {y \in Range(t) : FirstFailure(y) = "none"}}
  BY <1>2, ExperimentsAreUnfailing
<1>4. Experiments(bs) = {Signature(x) : x \in {y \in Range(bs) : FirstFailure(y) = "none"}}
  BY ExperimentsAreUnfailing
<1>5. \A i \in Clusters(bs) : /\ Representative(bs, i) \in DOMAIN bs
                              /\ Signature(bs[Representative(bs, i)]) = Signature(bs[i])
  BY LeadersFacts, RepresentativeIsMember DEF Members
<1>6. Range(t) \subseteq Range(bs)
  BY <1>2, <1>5 DEF Range
<1>7. ASSUME NEW y \in Range(bs), FirstFailure(y) = "none"
      PROVE  \E x \in Range(t) : FirstFailure(x) = "none" /\ Signature(x) = Signature(y)
  <2>1. PICK j \in DOMAIN bs : y = bs[j]
    BY DEF Range
  <2>2. PICK i \in Clusters(bs) : i \in Members(bs, j)
    BY LeadersFacts
  <2>3. PICK x : x = bs[Representative(bs, i)]
    OBVIOUS
  <2>4. x \in Range(t) /\ x \in Range(bs) /\ Signature(x) = Signature(y)
    BY <1>2, <1>5, <1>6, <2>1, <2>2, <2>3 DEF Members
  <2>5. IsBranch(x) /\ IsBranch(y)
    BY <2>4 DEF BranchList
  <2>6. x.target /\ y.target
    BY <2>4 DEF Elements, Range
  <2>7. FirstFailure(x) = FirstFailure(y)
    BY <2>4, <2>5, <2>6, AlikeFailAlike
  <2>. QED BY <1>7, <2>4, <2>7
<1>. QED BY <1>1, <1>3, <1>4, <1>6, <1>7

(***************************************************************************)
(* Collapsing the branches of one effect before the filter loses no        *)
(* experiment, for any trace, strategies and values: if every branch       *)
(* declares a target, the filter accepts the same experiments without the  *)
(* collapsed ones.                                                         *)
(***************************************************************************)
THEOREM DedupIsLossless == Spec => []DedupKeepsHypotheses
<1>1. Placed => DedupKeepsHypotheses
  BY DedupKeeps DEF Placed, Placing, DedupKeepsHypotheses
<1>. QED BY <1>1, PlacedAlways, PTL
-----------------------------------------------------------------------------
(***************************************************************************)
(* Values are whole numbers: a cluster has members, and its episode has a  *)
(* cluster.                                                                *)
(***************************************************************************)
LEMMA ValuesAreWhole ==
    ASSUME NEW bs, BranchList(bs), NEW i \in Clusters(bs)
    PROVE  Value(bs, i) \in Int
<1>1. PICK n \in Nat : n = Len(bs) /\ DOMAIN bs = 1..n
  BY ListDomain DEF BranchList
<1>2. IsFiniteSet(1..n)
  <2>1. 1 \in Int /\ n \in Int
    OBVIOUS
  <2>. QED BY <2>1, FS_Interval
<1>3. \A P : P \subseteq 1..n /\ i \in P => Cardinality(P) \in Nat /\ Cardinality(P) > 0
  <2> SUFFICES ASSUME NEW P, P \subseteq 1..n, i \in P
               PROVE  Cardinality(P) \in Nat /\ Cardinality(P) > 0
    OBVIOUS
  <2>1. IsFiniteSet(P)
    BY <1>2, FS_Subset
  <2>2. Cardinality(P) \in Nat /\ Cardinality(P) # 0
    BY <2>1, FS_CardinalityType, FS_EmptySet
  <2>. QED BY <2>2
<1>4. i \in 1..n
  BY <1>1, LeadersFacts
<1>5. PICK P, Q : /\ P = Members(bs, i)
                  /\ Q = {j \in Clusters(bs) : bs[j].site.ep = bs[i].site.ep}
  OBVIOUS
<1>6. P \subseteq 1..n /\ i \in P /\ Q \subseteq 1..n /\ i \in Q
  BY <1>1, <1>4, <1>5, LeadersFacts DEF Members
<1>7. PICK p \in Nat, q \in Nat : p = Cardinality(P) /\ q = Cardinality(Q) /\ p > 0 /\ q > 0
  BY <1>3, <1>6
<1>8. p * q \in Nat /\ p * q > 0
  BY <1>7, Z3
<1>9. Value(bs, i) = Worth \div (p * q)
  BY <1>5, <1>7 DEF Value
<1>10. Worth \in Int
  BY GenerationAssumption DEF GenerationAssumption
<1>. QED BY <1>8, <1>9, <1>10, QuotientIsInt

(***************************************************************************)
(* SelectionIsGreedy speaks of a selection that is over.  While it goes    *)
(* on, what has been requested is worth at least what has not; when        *)
(* nothing is pending, what is left has been found too dear or not worth   *)
(* it.                                                                     *)
(***************************************************************************)
Dearer(s) ==
    \A i \in s.offered \ Elements(s.requested) :
        \A j \in Elements(s.requested) : s.value[j] >= s.value[i]

LeftForAReason(s) ==
    s.pending = {} =>
        \A i \in s.offered \ Elements(s.requested) :
            s.spent + Cost <= s.budget => s.value[i] < s.min

Greedy ==
    /\ sel.value \in [sel.offered -> Int] /\ sel.min \in Nat
    /\ status # "selecting" => sel.pending = {}
    /\ Dearer(sel) /\ LeftForAReason(sel)

LEMMA GreedyInit == Init => Greedy
<1>. SUFFICES ASSUME Init PROVE Greedy
  OBVIOUS
<1>1. /\ sel.offered = {} /\ sel.pending = {} /\ sel.min = 0 /\ sel.value = <<>>
  BY DEF Init, NoSelection
<1>2. <<>> \in [{} -> Int]
  OBVIOUS
<1>. QED BY <1>1, <1>2 DEF Greedy, Dearer, LeftForAReason

LEMMA GreedyBegin == Placed /\ BeginSelector => Greedy'
<1>. SUFFICES ASSUME Placed, BeginSelector PROVE Greedy'
  OBVIOUS
<1>1. PICK static \in BOOLEAN, budget \in Budgets, min \in MinValues :
        sel' = [offered |-> Clusters(branches),
                value |-> [i \in Clusters(branches) |-> Value(branches, i)],
                pending |-> Clusters(branches), requested |-> <<>>, spent |-> 0,
                skipped |-> {}, static |-> static, budget |-> budget, min |-> min]
  BY DEF BeginSelector
<1>2. \A i \in Clusters(branches) : Value(branches, i) \in Int
  BY ValuesAreWhole DEF Placed, Placing
<1>3. /\ sel'.offered = sel'.pending /\ sel'.requested = <<>>
      /\ sel'.value = [i \in Clusters(branches) |-> Value(branches, i)]
      /\ sel'.offered = Clusters(branches) /\ sel'.min = min
  BY <1>1
<1>4. min \in Nat
  BY GenerationAssumption DEF GenerationAssumption
<1>5. sel'.value \in [sel'.offered -> Int]
  BY <1>2, <1>3
<1>6. Elements(sel'.requested) = {}
  BY <1>3 DEF Elements
<1>7. status' = "selecting"
  BY DEF BeginSelector
<1>8. Dearer(sel') /\ LeftForAReason(sel')
  BY <1>3, <1>6 DEF Dearer, LeftForAReason
<1>. QED BY <1>3, <1>4, <1>5, <1>7, <1>8 DEF Greedy

(***************************************************************************)
(* While anything is pending, it is all that has not been requested.       *)
(***************************************************************************)
LEMMA PendingIsTheRest ==
    ASSUME IInv, sel.pending # {}
    PROVE  sel.offered \ Elements(sel.requested) = sel.pending
BY DEF IInv, Books, SkippedAtTheEnd

LEMMA GreedyRequest == IInv /\ Greedy /\ Request => Greedy'
<1>. SUFFICES ASSUME IInv, Greedy, Request PROVE Greedy'
  OBVIOUS
<1>1. PICK i \in sel.pending :
        /\ Best(i)
        /\ sel' = [sel EXCEPT !.requested = Append(@, i), !.spent = @ + Cost,
                              !.pending = @ \ {i}]
  BY DEF Request
<1>2. IsSelection(sel) /\ i \in sel.offered /\ sel.requested \in Seq(sel.offered)
      /\ sel.pending \subseteq sel.offered
  BY DEF IInv, SelectionType
<1>3. /\ sel'.requested = Append(sel.requested, i) /\ sel'.pending = sel.pending \ {i}
      /\ sel'.offered = sel.offered /\ sel'.value = sel.value /\ sel'.min = sel.min
  BY <1>1, <1>2, RequestUpdates
<1>4. Elements(sel'.requested) = Elements(sel.requested) \cup {i}
  BY <1>2, <1>3, AppendFacts
<1>5. PICK v : v = sel.value /\ v \in [sel.offered -> Int]
  BY DEF Greedy
<1>6. sel.offered \ Elements(sel.requested) = sel.pending
  BY PendingIsTheRest
<1>7. sel'.offered \ Elements(sel'.requested) = sel'.pending
  BY <1>3, <1>4, <1>6
<1>8. \A j \in sel.pending : v[i] >= v[j]
  <2>1. \A j \in sel.pending : v[i] \in Int /\ v[j] \in Int
    BY <1>2, <1>5
  <2>2. \A j \in sel.pending : v[i] > v[j] \/ v[i] = v[j]
    BY <1>1, <1>5 DEF Best
  <2>. QED BY <2>1, <2>2
<1>9. \A j \in Elements(sel.requested), k \in sel.pending : v[j] >= v[k]
  BY <1>5, <1>6 DEF Greedy, Dearer
<1>10. Dearer(sel')
  BY <1>3, <1>4, <1>5, <1>7, <1>8, <1>9 DEF Dearer
<1>11. LeftForAReason(sel')
  BY <1>7 DEF LeftForAReason
<1>12. status' = "selecting"
  BY DEF Request
<1>. QED BY <1>3, <1>10, <1>11, <1>12 DEF Greedy

LEMMA GreedyStop == IInv /\ Greedy /\ Stop => Greedy'
<1>. SUFFICES ASSUME IInv, Greedy, Stop PROVE Greedy'
  OBVIOUS
<1>1. PICK i \in sel.pending : Best(i) /\ ~Affords(i)
  BY DEF Stop
<1>2. IsSelection(sel) /\ sel.pending \subseteq sel.offered
      /\ sel.spent \in Nat /\ sel.budget \in Nat
  BY DEF IInv, SelectionType
<1>3. /\ sel'.pending = {} /\ sel'.offered = sel.offered /\ sel'.requested = sel.requested
      /\ sel'.spent = sel.spent /\ sel'.budget = sel.budget
      /\ sel'.value = sel.value /\ sel'.min = sel.min
  BY <1>2, StopUpdates DEF Stop
<1>4. PICK v : v = sel.value /\ v \in [sel.offered -> Int]
  BY DEF Greedy
<1>5. sel.offered \ Elements(sel.requested) = sel.pending
  BY PendingIsTheRest
<1>6. ASSUME NEW j \in sel.pending, sel.spent + Cost <= sel.budget PROVE v[j] < sel.min
  <2>1. v[i] \in Int /\ v[j] \in Int /\ sel.min \in Nat
    BY <1>2, <1>4 DEF Greedy
  <2>2. v[i] > v[j] \/ v[i] = v[j]
    BY <1>1, <1>4 DEF Best
  <2>3. ~(v[i] >= sel.min)
    BY <1>1, <1>4, <1>6 DEF Affords
  <2>. QED BY <2>1, <2>2, <2>3
<1>7. Dearer(sel')
  BY <1>3 DEF Dearer, Greedy
<1>8. LeftForAReason(sel')
  BY <1>3, <1>4, <1>5, <1>6 DEF LeftForAReason
<1>. QED BY <1>3, <1>7, <1>8 DEF Greedy

LEMMA OthersKeepGreedy ==
    ASSUME Greedy,
           \/ SiteMapper \/ DoMapper \/ DoMapperRaises \/ ValidityFilter
           \/ Deduplicator \/ SelectorIdle \/ Promote \/ PairedReplay
           \/ AttachProvenance \/ UNCHANGED vars
    PROVE  Greedy'
<1>1. sel' = sel
  BY OthersKeepSelection
<1>2. sel.pending = {} \/ status' = status
  BY DEF SiteMapper, DoMapper, DoMapperRaises, ValidityFilter, Deduplicator, SelectorIdle,
         Promote, PairedReplay, AttachProvenance, vars, AtOnce, Applies, Greedy
<1>. QED BY <1>1, <1>2 DEF Greedy

LEMMA GreedyNext == Placed /\ IInv /\ Greedy /\ [Next]_vars => Greedy'
<1>. SUFFICES ASSUME Placed, IInv, Greedy, [Next]_vars PROVE Greedy'
  OBVIOUS
<1>1. CASE BeginSelector
  BY <1>1, GreedyBegin
<1>2. CASE Request
  BY <1>2, GreedyRequest
<1>3. CASE Stop
  BY <1>3, GreedyStop
<1>. QED BY <1>1, <1>2, <1>3, OthersKeepGreedy DEF Next

(***************************************************************************)
(* For any branches, costs, budgets and thresholds, in both modes, what a  *)
(* finished selection requested is worth at least what it passed over, and *)
(* budget is left only for clusters below the threshold.                   *)
(***************************************************************************)
THEOREM SelectionTakesTheBest == Spec => []SelectionIsGreedy
<1>1. Greedy => SelectionIsGreedy
  BY DEF Greedy, Dearer, LeftForAReason, SelectionIsGreedy
<1>2. Spec => []Greedy
  BY GreedyInit, GreedyNext, PlacedAlways, Invariance, PTL DEF Spec
<1>. QED BY <1>1, <1>2, PTL
-----------------------------------------------------------------------------
(***************************************************************************)
(* The report on record is that of the selection, or of none.              *)
(***************************************************************************)
Reported ==
    /\ IsFiniteSet(sel.offered) /\ sel.offered \subseteq Int
    /\ status # "selecting" /\ report # NoReport => report = Report

LEMMA ReportedInit == Init => Reported
<1>. SUFFICES ASSUME Init PROVE Reported
  OBVIOUS
<1>1. sel.offered = {} /\ report = NoReport
  BY DEF Init, NoSelection
<1>. QED BY <1>1, FS_EmptySet DEF Reported

LEMMA ReportedBegin == Placed /\ BeginSelector => Reported'
<1>. SUFFICES ASSUME Placed, BeginSelector PROVE Reported'
  OBVIOUS
<1>1. sel'.offered = Clusters(branches) /\ status' = "selecting"
  BY DEF BeginSelector
<1>2. PICK n \in Nat : DOMAIN branches = 1..n
  BY ListDomain DEF Placed, Placing, BranchList
<1>3. Clusters(branches) \subseteq 1..n
  BY <1>2, LeadersFacts DEF Placed, Placing
<1>4. IsFiniteSet(1..n)
  <2>1. 1 \in Int /\ n \in Int
    OBVIOUS
  <2>. QED BY <2>1, FS_Interval
<1>5. IsFiniteSet(Clusters(branches))
  BY <1>3, <1>4, FS_Subset
<1>. QED BY <1>1, <1>3, <1>5 DEF Reported

LEMMA ReportedNext == Placed /\ IInv /\ Reported /\ [Next]_vars => Reported'
<1>. SUFFICES ASSUME Placed, IInv, Reported, [Next]_vars PROVE Reported'
  OBVIOUS
<1>1. IsSelection(sel)
  BY DEF IInv, SelectionType
<1>2. CASE BeginSelector
  BY <1>2, ReportedBegin
<1>3. CASE Request
  <2>1. sel'.offered = sel.offered
    BY <1>1, <1>3, RequestUpdates DEF Request
  <2>2. status' = "selecting"
    BY <1>3 DEF Request
  <2>. QED BY <2>1, <2>2 DEF Reported
<1>4. CASE Stop
  <2>1. sel'.offered = sel.offered
    BY <1>1, <1>4, StopUpdates DEF Stop
  <2>2. status' = "selecting"
    BY <1>4 DEF Stop
  <2>. QED BY <2>1, <2>2 DEF Reported
<1>5. CASE Promote
  <2>1. sel' = sel /\ report' = Report
    BY <1>5 DEF Promote
  <2>2. Report' = Report
    BY <2>1 DEF Report, Named, Before
  <2>. QED BY <2>1, <2>2 DEF Reported
<1>6. CASE SelectorIdle
  BY <1>6 DEF SelectorIdle, Reported
<1>7. CASE \/ SiteMapper \/ DoMapper \/ DoMapperRaises \/ ValidityFilter
           \/ Deduplicator \/ PairedReplay \/ AttachProvenance \/ UNCHANGED vars
  <2>1. sel' = sel /\ report' = report
    BY <1>7 DEF SiteMapper, DoMapper, DoMapperRaises, ValidityFilter, Deduplicator,
                PairedReplay, AttachProvenance, vars, selection
  <2>2. status' # "selecting" => status # "selecting"
    BY <1>7 DEF SiteMapper, DoMapper, DoMapperRaises, ValidityFilter, Deduplicator,
                PairedReplay, AttachProvenance, vars, AtOnce, Applies
  <2>3. Report' = Report
    BY <2>1 DEF Report, Named, Before
  <2>. QED BY <2>1, <2>2, <2>3 DEF Reported
<1>. QED BY <1>2, <1>3, <1>4, <1>5, <1>6, <1>7 DEF Next

(***************************************************************************)
(* A list has at least as many places as elements.                         *)
(***************************************************************************)
LEMMA ElementsAreFewer ==
    ASSUME NEW S, NEW s \in Seq(S)
    PROVE  IsFiniteSet(Elements(s)) /\ Cardinality(Elements(s)) <= Len(s)
<1>1. PICK n \in Nat : n = Len(s) /\ DOMAIN s = 1..n
  OBVIOUS
<1>2. PICK E : E = Elements(s) /\ E = {s[k] : k \in 1..n}
  BY <1>1 DEF Elements
<1>3. PICK f : f = [k \in 1..n |-> s[k]]
  OBVIOUS
<1>4. f \in [1..n -> E] /\ \A x \in E : \E k \in 1..n : f[k] = x
  BY <1>2, <1>3
<1>5. f \in Surjection(1..n, E)
  BY <1>4 DEF Surjection
<1>6. IsFiniteSet(1..n) /\ Cardinality(1..n) = n
  <2>1. 1 \in Int /\ n \in Int
    OBVIOUS
  <2>2. IsFiniteSet(1..n) /\ Cardinality(1..n) = IF 1 > n THEN 0 ELSE n - 1 + 1
    BY <2>1, FS_Interval
  <2>. QED BY <2>2
<1>7. IsFiniteSet(E) /\ Cardinality(E) <= n
  BY <1>5, <1>6, FS_Surjection
<1>. QED BY <1>1, <1>2, <1>7

(***************************************************************************)
(* Behind an unnamed cluster stand SkippedShown others that come before    *)
(* it, and what comes before it comes before anything worth less.          *)
(***************************************************************************)
LEMMA UnnamedAreCounted ==
    ASSUME IInv, Greedy, Reported,
           NEW i \in sel.skipped, i \notin Named
    PROVE  /\ Cardinality(sel.skipped) > SkippedShown
           /\ \A j \in Named : sel.value[j] >= sel.value[i]
<1>1. PICK v, S : v = sel.value /\ S = sel.skipped
  OBVIOUS
<1>2. S \subseteq Int /\ IsFiniteSet(S) /\ \A j \in S : v[j] \in Int
  <2>1. S \subseteq sel.offered
    BY <1>1 DEF IInv, SelectionType
  <2>. QED BY <1>1, <2>1, FS_Subset DEF Reported, Greedy
<1>3. PICK B : B = [j \in S |-> {k \in S : v[k] > v[j] \/ (v[k] = v[j] /\ k < j)}]
  OBVIOUS
<1>4. \A j \in S : B[j] = {k \in sel.skipped : Before(k, j)}
  BY <1>1, <1>3 DEF Before
<1>5. \A j \in S : B[j] \subseteq S /\ IsFiniteSet(B[j]) /\ Cardinality(B[j]) \in Nat
  <2> SUFFICES ASSUME NEW j \in S
               PROVE  B[j] \subseteq S /\ IsFiniteSet(B[j]) /\ Cardinality(B[j]) \in Nat
    OBVIOUS
  <2>1. B[j] \subseteq S
    BY <1>3
  <2>. QED BY <1>2, <2>1, FS_Subset, FS_CardinalityType
<1>6. SkippedShown \in Nat /\ Cardinality(S) \in Nat
  BY <1>2, GenerationAssumption, FS_CardinalityType DEF GenerationAssumption
<1>7. Named = {j \in S : Cardinality(B[j]) < SkippedShown}
  BY <1>1, <1>4 DEF Named
<1>8. i \in S /\ Cardinality(B[i]) >= SkippedShown
  BY <1>1, <1>5, <1>6, <1>7
<1>9. Cardinality(S) > SkippedShown
  <2>1. i \notin B[i]
    BY <1>2, <1>3, <1>8
  <2>2. B[i] # S /\ B[i] \subseteq S
    BY <1>5, <1>8, <2>1
  <2>3. Cardinality(B[i]) <= Cardinality(S) /\ Cardinality(B[i]) # Cardinality(S)
    BY <1>2, <2>2, FS_Subset
  <2>. QED BY <1>5, <1>6, <1>8, <2>3
<1>10. ASSUME NEW j \in Named PROVE v[j] >= v[i]
  <2>1. j \in S /\ Cardinality(B[j]) < SkippedShown
    BY <1>7
  <2>2. SUFFICES ASSUME v[i] > v[j] PROVE FALSE
    BY <1>2, <1>8, <2>1
  <2>3. B[i] \subseteq B[j]
    <3> SUFFICES ASSUME NEW k \in B[i] PROVE k \in B[j]
      OBVIOUS
    <3>1. k \in S /\ (v[k] > v[i] \/ v[k] = v[i])
      BY <1>3, <1>8
    <3>2. v[k] \in Int /\ v[i] \in Int /\ v[j] \in Int
      BY <1>2, <1>8, <2>1, <3>1
    <3>3. v[k] > v[j]
      BY <2>2, <3>1, <3>2
    <3>. QED BY <1>3, <2>1, <3>1, <3>3
  <2>4. Cardinality(B[i]) <= Cardinality(B[j])
    BY <1>5, <2>1, <2>3, FS_Subset
  <2>. QED BY <1>5, <1>6, <1>8, <2>1, <2>4
<1>. QED BY <1>1, <1>9, <1>10

LEMMA ReportAccounts == IInv /\ Greedy /\ Reported => SelectionAccounts
<1>. SUFFICES ASSUME IInv, Greedy, Reported PROVE SelectionAccounts
  OBVIOUS
<1>1. Books
  BY DEF IInv
<1>2. SUFFICES ASSUME status # "selecting", report # NoReport
               PROVE  /\ report.skipped_total + report.requested >= report.clusters
                      /\ \A i \in sel.offered \ (Elements(sel.requested) \cup report.skipped) :
                           /\ report.skipped_total > SkippedShown
                           /\ \A j \in report.skipped : sel.value[j] >= sel.value[i]
  BY <1>1 DEF SelectionAccounts
<1>3. report = Report
  BY <1>2 DEF Reported
<1>4. /\ report.clusters = Cardinality(sel.offered) /\ report.requested = Len(sel.requested)
      /\ report.skipped = Named /\ report.skipped_total = Cardinality(sel.skipped)
  BY <1>3 DEF Report
<1>5. sel.offered = Elements(sel.requested) \cup sel.skipped
  BY <1>1, <1>2 DEF Books, Greedy
<1>6. Cardinality(sel.skipped) + Len(sel.requested) >= Cardinality(sel.offered)
  <2>1. PICK E, S : E = Elements(sel.requested) /\ S = sel.skipped
    OBVIOUS
  <2>2. sel.requested \in Seq(sel.offered) /\ S \subseteq sel.offered
    BY <2>1 DEF IInv, SelectionType
  <2>3. IsFiniteSet(E) /\ Cardinality(E) <= Len(sel.requested) /\ IsFiniteSet(S)
    BY <2>1, <2>2, ElementsAreFewer, FS_Subset DEF Reported
  <2>4. IsFiniteSet(E \cap S)
    BY <2>3, FS_Subset
  <2>5. Cardinality(E \cup S) = Cardinality(E) + Cardinality(S) - Cardinality(E \cap S)
    BY <2>3, FS_Union
  <2>6. /\ Cardinality(E) \in Nat /\ Cardinality(S) \in Nat
        /\ Cardinality(E \cap S) \in Nat /\ Len(sel.requested) \in Nat
    BY <2>2, <2>3, <2>4, FS_CardinalityType
  <2>7. Cardinality(sel.offered) = Cardinality(E \cup S)
    BY <1>5, <2>1
  <2>. QED BY <2>1, <2>3, <2>5, <2>6, <2>7
<1>. QED BY <1>4, <1>5, <1>6, UnnamedAreCounted

(***************************************************************************)
(* The selector never overdraws its budget and requests no cluster twice;  *)
(* when it is over, each cluster was requested, or is named in the report, *)
(* or is counted there behind SkippedShown named ones worth as much.       *)
(***************************************************************************)
THEOREM SelectionIsAccounted == Spec => []SelectionAccounts
<1>1. Spec => []Greedy
  BY GreedyInit, GreedyNext, PlacedAlways, Invariance, PTL DEF Spec
<1>2. Spec => []Reported
  BY ReportedInit, ReportedNext, PlacedAlways, Invariance, PTL DEF Spec
<1>. QED BY <1>1, <1>2, ReportAccounts, Invariance, PTL
==============================================================================
