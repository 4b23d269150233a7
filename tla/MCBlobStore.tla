----------------------------- MODULE MCBlobStore -----------------------------
(* Instances of BlobStore for TLC: trees over two paths with one node.     *)
EXTENDS BlobStore, TLC

CONSTANTS a, b, n

MCTree(S) == [q \in Paths |-> IF q \in S THEN n ELSE Absent]

MCTrees == [Paths -> Nodes \cup {Absent}]

(* A tree's digest is a name for it.                                       *)
MCDigest == [t \in MCTrees |-> <<"v2", {q \in Paths : t[q] # Absent}>>]

MCLegacy == (<<"v1", {a}>> :> MCTree({a}))

MCWorkspaces == {MCTree({}), MCTree({a, b})}

(* Collectors do the same thing, and so do readers.                        *)
Symmetry == Permutations(Collectors) \cup Permutations(Readers)

(* Any three of the four processes take part.                              *)
ThreeProcesses ==
    Cardinality({c \in Collectors : put[c].pc # "policy" \/ taken[c] # <<>>})
      + Cardinality({r \in Readers : restore[r].pc # "idle"}) <= 3
=============================================================================
