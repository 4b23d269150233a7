----------------------------- MODULE Generation ------------------------------
(***************************************************************************)
(* The counterfactual-data-augmentation operators (ops/cda_ops.py) on what *)
(* they keep among the services of a recipe, in any order: sites are       *)
(* identified, branches generated, filtered and collapsed, a selector      *)
(* promotes some of them to replays within a budget, and executed units    *)
(* are reconnected to the branches they came from.                         *)
(*                                                                         *)
(* The selector takes one step per cluster.  The posterior it scores with  *)
(* is the prior, the same for every strategy: nothing in the repository    *)
(* writes strategy_outcomes.                                               *)
(***************************************************************************)
EXTENDS EvidenceTiers, CausalSites, FiniteSets

CONSTANTS
    Episodes,       \* the episodes of the context, a sequence
    Flipping(_),    \* whether a branch's replays flip its episode's outcome
    Unregistered,   \* the tools the filter allows before there are services
    Registered,     \* and the registry's tools
    Worth,          \* P(flip) x uncertainty / cost, in units
    Cost,           \* cost_per_replay
    SkippedShown,   \* how many skipped clusters the report names (20)
    KindSets, StrategyLists, ValueLists, Restrictions, \* parameters considered:
    Budgets, MinValues,                                \* of mappers and selector
    MaxOps, MaxBranches                             \* bounds of the model

ASSUME GenerationAssumption ==
    /\ Episodes \in Seq(DOMAIN Trace) /\ StrategyLists \subseteq Seq(Strategy)
    /\ Worth \in Nat /\ Cost \in Nat \ {0} /\ SkippedShown \in Nat
    /\ Budgets \subseteq Nat /\ MinValues \subseteq Nat
    /\ \A r \in Restrictions : r.kinds \subseteq SiteKind /\ r.max_sites \in Nat
    /\ MaxOps \in Nat /\ MaxBranches \in Nat

VARIABLES
    sites,      \* services["sites"]
    branches,   \* services["branches"]
    rejected,   \* services["rejected_branches"]
    discarded,  \* the ids of branches that are in neither any more
    made,       \* the number of branches ever generated
    tools,      \* the tools the filter knows
    sel,        \* the selection under way, or the last one
    report,     \* ctx.meta["replay_promotion_selector"]
    candidates, \* ctx.candidates: ids of branches
    units,      \* ctx.units
    applied, status

services  == <<sites, branches, rejected, discarded, made, tools>>
selection == <<sel, report>>
context   == <<candidates, units>>
vars == <<sites, branches, rejected, discarded, made, tools, sel, report,
          candidates, units, applied, status>>

Elements(s) == {s[i] : i \in DOMAIN s}
Ids(bs)     == {b.id : b \in Elements(bs)}

NoSelection == [offered |-> {}, value |-> <<>>, pending |-> {}, requested |-> <<>>,
                spent |-> 0, skipped |-> {}, static |-> FALSE, budget |-> 0, min |-> 0]

NoReport == [clusters |-> 0, requested |-> 0]

Init ==
    /\ sites = <<>> /\ branches = <<>> /\ rejected = <<>> /\ discarded = {}
    /\ made = 0 /\ tools = Unregistered /\ sel = NoSelection /\ report = NoReport
    /\ candidates = <<>> /\ units = <<>>
    /\ applied = 0 /\ status = "idle"

Applies == status = "idle" /\ applied < MaxOps /\ applied' = applied + 1

AtOnce == Applies /\ UNCHANGED status
-----------------------------------------------------------------------------
(***************************************************************************)
(* identify                                                                *)
(***************************************************************************)
SiteMapper ==
    /\ AtOnce
    /\ \E kinds \in KindSets : sites' = Sites(Episodes, kinds)
    /\ UNCHANGED <<branches, rejected, discarded, made, tools, selection, context>>

(***************************************************************************)
(* generate: for the strongest sites of the kinds asked for, each          *)
(* strategy's edit, if it has one.                                         *)
(***************************************************************************)
Branch(site, strategy, value, target) ==
    [id |-> 0, site |-> site, strategy |-> strategy, value |-> value,
     action |-> NewAction(site, strategy, value), target |-> target,
     tier |-> SUGGESTED, failed_at |-> "unjudged"]

Strongest(restriction) ==
    LET all     == ByInfluence(sites)
        ordered == Picked(all, {k \in DOMAIN all : all[k].kind \in restriction.kinds})
        cap     == restriction.max_sites
    IN  IF cap = 0 \/ Len(ordered) <= cap THEN ordered ELSE SubSeq(ordered, 1, cap)

Generated(strategies, values, restriction, target) ==
    LET ordered == Strongest(restriction)
    IN  FlattenSeq([k \in DOMAIN ordered |->
          LET apt == Picked(strategies, {j \in DOMAIN strategies :
                                           /\ Offers(strategies[j], ordered[k], values)
                                           /\ Editable(ordered[k])})
          IN  [j \in DOMAIN apt |->
                 Branch(ordered[k], apt[j], NewValue(apt[j], ordered[k], values), target)]])

Numbered(bs) == [j \in DOMAIN bs |-> [bs[j] EXCEPT !.id = made + j]]

DoMapper ==
    /\ sites # <<>> /\ AtOnce
    /\ \E strategies \in StrategyLists, values \in ValueLists,
          restriction \in Restrictions, target \in BOOLEAN :
         LET new == Generated(strategies, values, restriction, target) IN
         /\ made + Len(new) <= MaxBranches
         /\ branches' = branches \o Numbered(new)
         /\ made' = made + Len(new)
    /\ UNCHANGED <<sites, rejected, discarded, tools, selection, context>>

\* Without sites, or to regenerate without a model, the mapper raises.
DoMapperRaises ==
    /\ Applies /\ status' = "raised"
    /\ UNCHANGED <<services, selection, context>>
-----------------------------------------------------------------------------
(***************************************************************************)
(* filter: hard constraints in the order of ValidationVector.HARD, then    *)
(* whether the same experiment was accepted before in this pass.           *)
(***************************************************************************)
\* Mutant: a variable is one experiment, whatever it is set to.
SignatureOfVariable(b) ==
    <<b.site.ep, b.site.step, b.site.kind, b.site.name, b.site.at>>

\* What a site's variable is called: unlike a field, a line of reasoning or
\* a block goes by its number.
Signature(b) ==
    <<b.site.ep, b.site.step, b.site.kind, b.site.name,
      IF b.site.kind \in {"Rationale", "TextSpan"} THEN b.site.at ELSE 0, b.action>>

Hard(b) ==
    <<[name |-> "schema_validity",        holds |-> b.action.tool \in tools],
      [name |-> "intervention_fidelity",  holds |-> b.action # Recorded(b.site)],
      [name |-> "invariant_preservation", holds |-> InvariantsHold(b.site, b.action)],
      [name |-> "target_outcome_shift",   holds |-> b.target]>>

FirstFailure(b) ==
    LET failed == {k \in 1..4 : ~Hard(b)[k].holds}
    IN  IF failed = {} THEN "none" ELSE Hard(b)[Min(failed)].name

\* What has been seen are the signatures of the branches accepted so far,
\* which are those of all the branches so far that did not fail.
Seen(bs, i) == {Signature(bs[j]) : j \in {k \in 1..(i - 1) : FirstFailure(bs[k]) = "none"}}

FailedAt(bs, i, dropIdentical) ==
    LET failed == FirstFailure(bs[i])
    IN  IF failed = "none" /\ dropIdentical /\ Signature(bs[i]) \in Seen(bs, i)
        THEN "diversity" ELSE failed

\* A rejected branch keeps the tier it had.
Judged(b, failed) ==
    [b EXCEPT !.failed_at = failed,
              !.tier = IF failed = "none" THEN CONSTRAINT_VALIDATED ELSE @]

Filtered(bs, dropIdentical) ==
    LET judged == [i \in DOMAIN bs |-> Judged(bs[i], FailedAt(bs, i, dropIdentical))]
        passed == {i \in DOMAIN bs : judged[i].failed_at = "none"}
    IN  [accepted |-> Picked(judged, passed),
         rejected |-> Picked(judged, DOMAIN bs \ passed)]

\* Mutant: what was rejected stays among the branches.
KeptAll(pass) == pass.accepted \o pass.rejected

\* What goes on to the operators downstream.
Kept(pass) == pass.accepted

ValidityFilter ==
    /\ AtOnce
    /\ \E keepRejected, dropIdentical \in BOOLEAN :
         LET pass == Filtered(branches, dropIdentical) IN
         /\ branches' = Kept(pass)
         /\ rejected' = IF keepRejected THEN rejected \o pass.rejected ELSE rejected
         /\ discarded' = IF keepRejected THEN discarded ELSE discarded \cup Ids(pass.rejected)
    /\ UNCHANGED <<sites, made, tools, selection, context>>
-----------------------------------------------------------------------------
(***************************************************************************)
(* A cluster is the branches with one signature; its first branch stands   *)
(* for it, and of its members the one of the most influential site is its  *)
(* representative.                                                         *)
(***************************************************************************)
Members(bs, i) == {j \in DOMAIN bs : Signature(bs[j]) = Signature(bs[i])}

Clusters(bs) == {i \in DOMAIN bs : \A j \in Members(bs, i) : i <= j}

Representative(bs, i) ==
    CHOOSE j \in Members(bs, i) :
        \A k \in Members(bs, i) : \/ bs[j].site.score > bs[k].site.score
                                  \/ bs[j].site.score = bs[k].site.score /\ j <= k

Deduplicated(bs) ==
    LET leaders == PlacesIn(bs, Clusters(bs))
    IN  [k \in DOMAIN leaders |-> bs[Representative(bs, leaders[k])]]

Deduplicator ==
    /\ AtOnce
    /\ branches' = Deduplicated(branches)
    /\ discarded' = discarded \cup (Ids(branches) \ Ids(Deduplicated(branches)))
    /\ UNCHANGED <<sites, rejected, made, tools, selection, context>>
-----------------------------------------------------------------------------
(***************************************************************************)
(* validate: P(flip) x novelty x coverage x uncertainty / cost.  A cluster *)
(* is of one episode, so its coverage is one over that episode's clusters. *)
(***************************************************************************)
Value(bs, i) ==
    LET ofEpisode == {j \in Clusters(bs) : bs[j].site.ep = bs[i].site.ep}
    IN  Worth \div (Cardinality(Members(bs, i)) * Cardinality(ofEpisode))

BeginSelector ==
    /\ branches # <<>> /\ Applies /\ status' = "selecting"
    /\ \E static \in BOOLEAN, budget \in Budgets, min \in MinValues :
         sel' = [offered |-> Clusters(branches),
                 value |-> [i \in Clusters(branches) |-> Value(branches, i)],
                 pending |-> Clusters(branches), requested |-> <<>>, spent |-> 0,
                 skipped |-> {}, static |-> static, budget |-> budget, min |-> min]
    /\ UNCHANGED <<services, report, context>>

\* Without branches the selector only reports that.
SelectorIdle ==
    /\ branches = <<>> /\ AtOnce /\ report' = NoReport
    /\ UNCHANGED <<services, sel, context>>

\* Mutant: the next in the list, whatever its value.
BestByPosition(i) == i \in sel.pending /\ \A j \in sel.pending : i <= j

\* The first of the most valuable clusters that are left.
Best(i) ==
    /\ i \in sel.pending
    /\ \A j \in sel.pending : \/ sel.value[i] > sel.value[j]
                              \/ sel.value[i] = sel.value[j] /\ i <= j

\* The list of the clusters is sorted by value, stably.
Before(i, j) == \/ sel.value[i] > sel.value[j]
                \/ sel.value[i] = sel.value[j] /\ i < j

\* Mutant: the budget may be overstepped by one replay.
AffordsOneMore(i) == sel.spent <= sel.budget /\ sel.value[i] >= sel.min

Affords(i) == sel.spent + Cost <= sel.budget /\ sel.value[i] >= sel.min

Request ==
    /\ status = "selecting"
    /\ \E i \in sel.pending :
         /\ Best(i) /\ Affords(i)
         /\ sel' = [sel EXCEPT !.requested = Append(@, i), !.spent = @ + Cost,
                               !.pending = @ \ {i}]
    /\ UNCHANGED <<services, report, context, applied, status>>

(***************************************************************************)
(* When the best of what is left is not worth it or cannot be paid for, it *)
(* is recorded as skipped; static packing records all but the first        *)
(* request, those it has requested too.                                    *)
(***************************************************************************)
Skipped ==
    IF sel.static /\ sel.requested # <<>> THEN sel.offered \ {sel.requested[1]}
    ELSE sel.pending

Stop ==
    /\ status = "selecting"
    /\ \E i \in sel.pending : Best(i) /\ ~Affords(i)
    /\ sel' = [sel EXCEPT !.skipped = Skipped, !.pending = {}]
    /\ UNCHANGED <<services, report, context, applied, status>>

\* Mutant: the report names the first clusters by position.
NamedByPosition ==
    {i \in sel.skipped : Cardinality({j \in sel.skipped : j < i}) < SkippedShown}

\* skipped[:20], of the list of the skipped clusters.
Named ==
    {i \in sel.skipped : Cardinality({j \in sel.skipped : Before(j, i)}) < SkippedShown}

Report == [clusters |-> Cardinality(sel.offered), requested |-> Len(sel.requested),
           skipped |-> Named, skipped_total |-> Cardinality(sel.skipped)]

\* The selection is reported and the representatives' interventions become
\* candidates.
Promote ==
    /\ status = "selecting" /\ sel.pending = {}
    /\ status' = "idle" /\ report' = Report
    /\ candidates' = candidates \o
         [k \in DOMAIN sel.requested |-> branches[Representative(branches, sel.requested[k])]]
    /\ UNCHANGED <<services, sel, units, applied>>
-----------------------------------------------------------------------------
(***************************************************************************)
(* paired_replay, as Recipe has it: every candidate is answered by a unit. *)
(***************************************************************************)
Unit(b) == [id |-> b.id, tier |-> IF Flipping(b) THEN REPRODUCIBLE ELSE SUGGESTED,
            generation |-> "none", before |-> OBSERVED]

PairedReplay ==
    /\ AtOnce
    /\ units' = units \o [k \in DOMAIN candidates |-> Unit(candidates[k])]
    /\ candidates' = <<>> /\ tools' = Registered
    /\ UNCHANGED <<sites, branches, rejected, discarded, made, selection>>

(***************************************************************************)
(* A unit learns which branch it came from while that is still there.      *)
(***************************************************************************)
Attached(u) ==
    IF u.id \notin Ids(branches) THEN u
    ELSE LET b == CHOOSE x \in Elements(branches) : x.id = u.id
         IN  [u EXCEPT !.generation = b.strategy, !.before = b.tier]

AttachProvenance ==
    /\ AtOnce
    /\ units' = [k \in DOMAIN units |-> Attached(units[k])]
    /\ UNCHANGED <<services, selection, candidates>>

Next ==
    \/ SiteMapper \/ DoMapper \/ DoMapperRaises \/ ValidityFilter \/ Deduplicator
    \/ BeginSelector \/ SelectorIdle \/ Request \/ Stop \/ Promote
    \/ PairedReplay \/ AttachProvenance

Spec == Init /\ [][Next]_vars
-----------------------------------------------------------------------------
(***************************************************************************)
(* Every branch ever generated is in one place: among the branches, among  *)
(* the rejected ones, or given up by an operator that says so; nothing is  *)
(* lost between operators and nothing is both accepted and rejected.       *)
(***************************************************************************)
BranchesAccounted ==
    /\ Ids(branches) \cup Ids(rejected) \cup discarded = 1..made
    /\ Ids(branches) \cap Ids(rejected) = {}
    /\ (Ids(branches) \cup Ids(rejected)) \cap discarded = {}
    /\ \A s \in {branches, rejected} : Cardinality(Ids(s)) = Len(s)

\* The selector's own books: the budget is a ceiling, no cluster is requested
\* twice, each is requested, pending or skipped.
Books ==
    /\ sel.spent = Cost * Len(sel.requested) /\ sel.spent <= sel.budget
    /\ \A j, k \in DOMAIN sel.requested : sel.requested[j] = sel.requested[k] => j = k
    /\ sel.offered = Elements(sel.requested) \cup sel.pending \cup sel.skipped
    /\ Elements(sel.requested) \cap sel.pending = {}

(***************************************************************************)
(* The selector's books balance in every state, and its report says of     *)
(* each cluster without a replay ("recorded, not silently dropped") what   *)
(* the code can say: the cluster is named, or it is one of those that are  *)
(* only counted, behind SkippedShown named ones worth at least as much.    *)
(***************************************************************************)
SelectionAccounts ==
    /\ Books
    /\ status # "selecting" /\ report # NoReport =>
         /\ report.skipped_total + report.requested >= report.clusters
         /\ \A i \in sel.offered \ (Elements(sel.requested) \cup report.skipped) :
              /\ report.skipped_total > SkippedShown
              /\ \A j \in report.skipped : sel.value[j] >= sel.value[i]

(***************************************************************************)
(* What the budget buys is the most valuable part of the clusters, in the  *)
(* sequential as in the static mode, and it goes unspent only on clusters  *)
(* below the threshold.                                                    *)
(***************************************************************************)
SelectionIsGreedy ==
    status = "idle" =>
        \A i \in sel.offered \ Elements(sel.requested) :
            /\ \A j \in Elements(sel.requested) : sel.value[j] >= sel.value[i]
            /\ sel.spent + Cost <= sel.budget => sel.value[i] < sel.min

(***************************************************************************)
(* Deduplication before the filter loses no hypothesis: as long as every   *)
(* branch declares a target, the experiments the filter accepts are the    *)
(* same without the collapsed branches.                                    *)
(***************************************************************************)
Experiments(bs) == {Signature(b) : b \in Elements(Filtered(bs, TRUE).accepted)}

DedupKeepsHypotheses ==
    (\A b \in Elements(branches) : b.target) =>
        Experiments(Deduplicated(branches)) = Experiments(branches)

=============================================================================
