----------------------------- MODULE CausalSites -----------------------------
(***************************************************************************)
(* The variables of a recorded trajectory that a do() can act on, and the  *)
(* edits that do so (ops/cda_ops.py).  Pure operators on traces.           *)
(*                                                                         *)
(* A text is its lines and whether a line break ends it; a line is a       *)
(* sequence of tokens, ":" and "=" among them, and <<>> a blank one.  How  *)
(* tokens are spaced is left out.  An action is a tool with arguments,     *)
(* [tool, args], where args gives each argument's name its text.           *)
(***************************************************************************)
EXTENDS Integers, FiniteSets, SequencesExt, Lists

CONSTANTS
    Trace,          \* [episodes -> sequences of actions], the recorded steps
    RationalePaths, \* paths whose lines are reasoning
    ContextPaths,   \* paths whose blocks were retrieved
    Regenerated(_)  \* the value a model gives for a site, <<>> for none

ASSUME TraceAssumption ==
    \A ep \in DOMAIN Trace :
        /\ IsList(Trace[ep])
        /\ \A k \in DOMAIN Trace[ep] : \A a \in DOMAIN Trace[ep][k].args :
              IsList(Trace[ep][k].args[a].lines)

(***************************************************************************)
(* Texts.  Joined is "\n".join: a blank last line leaves only the break    *)
(* before it.                                                              *)
(***************************************************************************)
NoText == [lines |-> <<>>, nl |-> FALSE]

Joined(lines) ==
    IF lines = <<>> \/ lines = <<<<>>>> THEN NoText
    ELSE IF Last(lines) = <<>> THEN [lines |-> Front(lines), nl |-> TRUE]
    ELSE [lines |-> lines, nl |-> FALSE]

OneLine(text) == Len(text.lines) <= 1 /\ ~text.nl

Content(action) == IF "content" \in DOMAIN action.args THEN action.args["content"] ELSE NoText

\* The only token of an argument that is a path.
PathOf(action) ==
    IF "path" \in DOMAIN action.args /\ action.args["path"].lines # <<>>
    THEN action.args["path"].lines[1][1] ELSE ""

(***************************************************************************)
(* content.split("\n\n"): a break after a break ends a block, but it takes *)
(* two breaks, so that of the blank lines in a row every other one ends a  *)
(* block, and three blank lines leave a blank block.                       *)
(***************************************************************************)
EndsBlock(lines, i) ==
    /\ lines[i] = <<>>
    /\ (i - Max({j \in 1..(i - 1) : j = 1 \/ lines[j] # <<>>})) % 2 = 1

Blocks(text) ==
    LET lines == text.lines \o IF text.nl THEN <<<<>>>> ELSE <<>>
        ends  == Append(PlacesIn(lines, {i \in 2..(Len(lines) - 1) : EndsBlock(lines, i)}),
                        Len(lines) + 1)
    IN  [k \in DOMAIN ends |->
           SubSeq(lines, IF k = 1 THEN 1 ELSE ends[k - 1] + 1, ends[k] - 1)]

NotBlank(block) == \E k \in DOMAIN block : block[k] # <<>>

JoinBlocks(blocks) ==
    Joined(FlattenSeq([b \in DOMAIN blocks |->
             IF b = 1 THEN blocks[b] ELSE <<<<>>>> \o blocks[b]]))
-----------------------------------------------------------------------------
(***************************************************************************)
(* identify: the sites of a step, in the order the mapper lists them.      *)
(* Scores are in thousandths: position is (index + 1) / n_steps.           *)
(***************************************************************************)
SiteKind == {"AgentAction", "ToolArgument", "StructuredField", "SemanticTriple",
             "Rationale", "TextSpan"}

Relations == {"is", "has", "uses", "requires", "returns", "imports"}

FieldMatches(line)  == Len(line) >= 3 /\ line[1] \notin {":", "="} /\ line[2] \in {":", "="}
TripleMatches(line) == Len(line) >= 3 /\ line[2] \in Relations

InterventionSite(ep, step, kind, name, at, value, score) ==
    [ep |-> ep, step |-> step, kind |-> kind, name |-> name, at |-> at,
     value |-> value, score |-> score]

Weighted(ep, step, weight) == (1000 * weight * step) \div (10 * Len(Trace[ep]))

ActionSites(ep, step) ==
    <<InterventionSite(ep, step, "AgentAction", <<>>, 0, <<Trace[ep][step].tool>>,
                       Weighted(ep, step, 5))>>

\* Arguments in the order in which actions write them.
ArgumentSites(ep, step) ==
    LET args  == Trace[ep][step].args
        order == <<"path", "content", "query">>
        names == Picked(order, {j \in 1..3 : /\ order[j] \in DOMAIN args
                                             /\ OneLine(args[order[j]])})
    IN  [j \in DOMAIN names |->
           InterventionSite(ep, step, "ToolArgument", <<names[j]>>, 0,
                            FlattenSeq(args[names[j]].lines), Weighted(ep, step, 7))]

FieldSites(ep, step) ==
    LET lines == Content(Trace[ep][step]).lines
        hits  == PlacesIn(lines, {k \in DOMAIN lines : FieldMatches(lines[k])})
    IN  [j \in DOMAIN hits |->
           InterventionSite(ep, step, "StructuredField", <<lines[hits[j]][1]>>, hits[j],
                            SubSeq(lines[hits[j]], 3, Len(lines[hits[j]])),
                            Weighted(ep, step, 8))]

TripleSites(ep, step) ==
    LET lines == Content(Trace[ep][step]).lines
        hits  == PlacesIn(lines, {k \in DOMAIN lines : TripleMatches(lines[k])})
    IN  [j \in DOMAIN hits |->
           InterventionSite(ep, step, "SemanticTriple", SubSeq(lines[hits[j]], 1, 2),
                            hits[j], SubSeq(lines[hits[j]], 3, Len(lines[hits[j]])),
                            Weighted(ep, step, 6))]

\* Earlier reasoning weighs more.
RationaleSites(ep, step) ==
    LET lines == Content(Trace[ep][step]).lines
        hits  == IF PathOf(Trace[ep][step]) \in RationalePaths
                 THEN PlacesIn(lines, {k \in DOMAIN lines : lines[k] # <<>>})
                 ELSE <<>>
    IN  [j \in DOMAIN hits |->
           InterventionSite(ep, step, "Rationale", <<>>, hits[j], lines[hits[j]],
                            (900 * (Len(lines) + 1 - hits[j])) \div Len(lines))]

SpanSites(ep, step) ==
    LET blocks == Blocks(Content(Trace[ep][step]))
        hits   == IF PathOf(Trace[ep][step]) \in ContextPaths
                  THEN PlacesIn(blocks, {k \in DOMAIN blocks : NotBlank(blocks[k])})
                  ELSE <<>>
    IN  [j \in DOMAIN hits |->
           InterventionSite(ep, step, "TextSpan", <<>>, hits[j],
                            FlattenSeq(blocks[hits[j]]), Weighted(ep, step, 5))]

SitesOfStep(ep, step) ==
    ActionSites(ep, step) \o ArgumentSites(ep, step) \o FieldSites(ep, step)
      \o TripleSites(ep, step) \o RationaleSites(ep, step) \o SpanSites(ep, step)

Sites(episodes, kinds) ==
    LET all == FlattenSeq([e \in DOMAIN episodes |->
                 FlattenSeq([i \in DOMAIN Trace[episodes[e]] |->
                   SitesOfStep(episodes[e], i)])])
    IN  Picked(all, {k \in DOMAIN all : all[k].kind \in kinds})

\* sorted by score, the strongest first, ties in the order listed.
ByInfluence(sites) ==
    LET Stronger(i, j) == \/ sites[i].score > sites[j].score
                          \/ sites[i].score = sites[j].score /\ i < j
        Before(i) == {j \in DOMAIN sites : Stronger(j, i)}
    IN  [k \in DOMAIN sites |->
           sites[CHOOSE i \in DOMAIN sites : Cardinality(Before(i)) = k - 1]]
-----------------------------------------------------------------------------
(***************************************************************************)
(* generate: what a strategy puts in a site's place, if anything.          *)
(***************************************************************************)
Strategy == {"mask_edit", "retrieve_edit", "rationale_edit", "semantic_triple_edit",
             "descendant_regeneration"}

Offers(strategy, site, values) ==
    \/ strategy = "mask_edit"
    \/ strategy = "retrieve_edit" /\ values # <<>>
    \/ strategy = "rationale_edit" /\ site.kind = "Rationale"
    \/ strategy = "semantic_triple_edit" /\ site.kind = "SemanticTriple"
    \/ strategy = "descendant_regeneration" /\ Regenerated(site) # <<>>

NewValue(strategy, site, values) ==
    CASE strategy \in {"mask_edit", "rationale_edit"} -> <<>>
      [] strategy = "retrieve_edit" -> values[1]
      [] strategy = "semantic_triple_edit" -> IF values = <<>> THEN <<"unspecified">> ELSE values[1]
      [] strategy = "descendant_regeneration" -> Regenerated(site)

(***************************************************************************)
(* A field's line keeps what stands before its first colon, or else before *)
(* its first equals sign; a line of reasoning that is not truncated is     *)
(* edited as if it were a field.  A triple keeps all but its last word.    *)
(***************************************************************************)
SetField(line, value) ==
    LET sep == IF Contains(line, ":") THEN ":" ELSE "="
        key == IF Contains(line, sep)
               THEN SubSeq(line, 1, SelectInSeq(line, LAMBDA t : t = sep) - 1) ELSE line
    IN  key \o <<sep>> \o value

SetObject(line, value) == Front(line) \o value

EditLine(text, at, line) == Joined(ReplaceAt(text.lines, at, line))

\* The block is counted among all blocks, and dropped among those not blank.
DropBlock(text, at) ==
    LET all    == Blocks(text)
        blocks == Picked(all, {k \in DOMAIN all : NotBlank(all[k])})
    IN  JoinBlocks(IF at \in DOMAIN blocks THEN RemoveAt(blocks, at) ELSE blocks)

EditedText(site, text, strategy, value) ==
    CASE site.kind = "TextSpan" -> DropBlock(text, site.at)
      [] site.kind = "Rationale" /\ strategy = "rationale_edit" ->
            Joined(SubSeq(text.lines, 1, site.at - 1))
      [] site.kind = "SemanticTriple" ->
            EditLine(text, site.at, SetObject(text.lines[site.at], value))
      [] OTHER -> EditLine(text, site.at, SetField(text.lines[site.at], value))

Recorded(site) == Trace[site.ep][site.step]

\* Only an action on a path can be replaced by a read of it.
Editable(site) == site.kind = "AgentAction" => "path" \in DOMAIN Recorded(site).args

NewAction(site, strategy, value) ==
    LET action == Recorded(site)
        With(arg, text) == [action EXCEPT !.args = [@ EXCEPT ![arg] = text]]
    IN  CASE site.kind = "AgentAction" ->
               [tool |-> "read_file", args |-> [path |-> action.args["path"]]]
          [] site.kind = "ToolArgument" -> With(site.name[1], Joined(<<value>>))
          [] OTHER -> With("content", EditedText(site, Content(action), strategy, value))
-----------------------------------------------------------------------------
(***************************************************************************)
(* filter: only the site's own locus may differ.                           *)
(***************************************************************************)
InvariantsHold(site, new) ==
    LET old == Recorded(site)
        changed == {a \in DOMAIN old.args : old.args[a] # new.args[a]}
    IN  /\ old.tool = new.tool \/ site.kind = "AgentAction"
        /\ DOMAIN old.args = DOMAIN new.args
        /\ IF site.kind = "ToolArgument" THEN changed = {site.name[1]}
           ELSE "path" \notin changed /\ \A a, b \in changed : a = b
=============================================================================
