------------------------------ MODULE MCSlicing ------------------------------
(***************************************************************************)
(* Slicing on every deterministic world of three atoms, even those where   *)
(* the whole no longer flips when it is rebuilt from its atoms, on a       *)
(* structured family of worlds of four and of five atoms (uneven chunks),  *)
(* on a wholly flaky one, and on the atomic cases.                         *)
(***************************************************************************)
EXTENDS Slicing

Three == <<1, 2, 3>>
Four  == <<1, 2, 3, 4>>
Five  == <<1, 2, 3, 4, 5>>

World(s, flips(_)) ==
    [edits |-> s, oracle |-> [t \in SUBSET AtomsOf(s) |-> {flips(t)}]]

AllOfThree ==
    {World(Three, LAMBDA t : t \in flipping) :
        flipping \in SUBSET (SUBSET AtomsOf(Three) \ {{}})}

\* Two causes, each of which flips, and a combination that undoes the flip
\* in anything short of the whole intervention.
Caused(s, causes, undo) ==
    World(s, LAMBDA t : /\ \E cause \in causes : cause \subseteq t
                        /\ undo \subseteq t => t = AtomsOf(s))

SomeOfFour ==
    {Caused(Four, {a, b}, undo) :
        a, b \in SUBSET AtomsOf(Four) \ {{}},
        undo \in {u \in SUBSET AtomsOf(Four) : Cardinality(u) >= 2}}

SomeOfFive ==
    {Caused(Five, {{1, 5}, a}, undo) :
        a \in SUBSET AtomsOf(Five) \ {{}},
        undo \in {u \in SUBSET AtomsOf(Five) : Cardinality(u) >= 3}}

Flaky(s) == [edits |-> s, oracle |-> [t \in SUBSET AtomsOf(s) |-> BOOLEAN]]

MCCases == AllOfThree \cup SomeOfFour \cup SomeOfFive
             \cup {Flaky(Five), Flaky(<<1>>), Flaky(<<>>)}
=============================================================================
