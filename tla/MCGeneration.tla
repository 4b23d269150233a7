---------------------------- MODULE MCGeneration -----------------------------
(***************************************************************************)
(* Generation from two short trajectories.  The first writes a note whose  *)
(* only line is a field and reasoning of two lines; the second retrieves   *)
(* context with a blank block and calls a tool nobody registered.          *)
(***************************************************************************)
EXTENDS Generation

Doc(lines, nl) == [lines |-> lines, nl |-> nl]

Path(p) == Doc(<<<<p>>>>, FALSE)

Write(p, doc) == [tool |-> "write_file", args |-> [path |-> Path(p), content |-> doc]]

MCTrace ==
    [e1 |-> <<Write("config.yaml", Doc(<<<<"version", ":", "v1">>, <<"retries", "=", "2">>>>, TRUE)),
              Write("thoughts.md", Doc(<<<<"pydantic", "requires", "v1">>>>, FALSE))>>,
     e2 |-> <<Write("context.md", Doc(<<<<"old">>, <<>>, <<>>, <<>>, <<"new">>>>, FALSE)),
              [tool |-> "search", args |-> [query |-> Doc(<<<<"v2">>>>, FALSE)]]>>]

MCEpisodes == <<"e1", "e2">>

MCRegenerated(site) == IF site.kind = "StructuredField" THEN <<"v2">> ELSE <<>>

MCFlipping(b) == b.strategy = "retrieve_edit"

MCKindSets == {{"StructuredField"}, {"ToolArgument", "AgentAction"},
               {"Rationale", "SemanticTriple", "TextSpan"}}

MCStrategyLists == {<<"mask_edit", "retrieve_edit">>, <<"mask_edit", "rationale_edit">>,
                    <<"semantic_triple_edit", "descendant_regeneration">>}

MCValueLists == {<<>>, <<<<"v1">>>>, <<<<>>>>}

MCRestrictions == {[kinds |-> SiteKind, max_sites |-> 0],
                   [kinds |-> SiteKind \ {"TextSpan", "AgentAction"}, max_sites |-> 2]}
=============================================================================
