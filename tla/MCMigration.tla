----------------------------- MODULE MCMigration -----------------------------
(* A run with a tree without a pointer, two trees that differ in their     *)
(* stale pointers only (one of them stored under its old digest), and one  *)
(* whose environment another machine had named.                            *)
EXTENDS Migration, TLC

CONSTANTS m1, w1, w2, e1, e2, pytest, pin, src, fix, s1, s2, s3, ep

Old(n) == [whole |-> TRUE, env |-> n, named |-> FALSE, here |-> FALSE]

Elsewhere(n) == [whole |-> TRUE, env |-> n, named |-> TRUE, here |-> FALSE]

MCRequested == [n \in Names |-> {pytest, pin}]

Stored(v2, base, ptr) == [v2 |-> v2, of |-> [base |-> base, ptr |-> ptr]]

MCOriginal ==
    s1 :> Stored(TRUE, src, NoPointer) @@ s2 :> Stored(FALSE, src, Old(e1))
    @@ s3 :> Stored(TRUE, fix, Elsewhere(e2)) @@ ep :> Stored(TRUE, fix, Old(e2))

Symmetry == Permutations(Workers)
=============================================================================
