--------------------------- MODULE MCPairedReplay ----------------------------
(***************************************************************************)
(* PairedReplay on two candidates and up to two processes.  Fork point f1  *)
(* belongs to a failed episode, f2 to one recorded as a success, f3 has no *)
(* snapshot; the second candidate shares f1 with the first or not.         *)
(***************************************************************************)
EXTENDS PairedReplay

CONSTANTS c1, c2, f1, f2, f3, w1, w2

MCBatches == {[c \in {c1, c2} |-> IF c = c1 THEN f1 ELSE f] : f \in {f1, f2, f3}}

\* validate_parallel; engine.run with and without its mechanisms;
\* pipeline_depmig, which memoizes but never stops early.
MCModes ==
    {[memoize |-> TRUE, early_stop |-> TRUE, pooled |-> TRUE, workers |-> {w1, w2}],
     [memoize |-> TRUE, early_stop |-> TRUE, pooled |-> FALSE, workers |-> {w1}],
     [memoize |-> FALSE, early_stop |-> FALSE, pooled |-> FALSE, workers |-> {w1}],
     [memoize |-> TRUE, early_stop |-> FALSE, pooled |-> FALSE, workers |-> {w1}]}
=============================================================================
