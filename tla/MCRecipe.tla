------------------------------ MODULE MCRecipe ------------------------------
(***************************************************************************)
(* Recipes over four episodes: a failing and a passing one collected here, *)
(* a failing one of a previous run, and an imported one.  Of the fixes in  *)
(* the tables one works, one is for a step the episode has not, and one    *)
(* names a tool that is not registered.                                    *)
(***************************************************************************)
EXTENDS Recipe

MCToy == <<"failed", "passed">>
MCOld == <<"loaded">>
MCImported == <<"imported">>

Fix(n)    == Intervention("fix", 1, n)
LateFix   == Intervention("fix", 4, 1)
OtherTool == Fix(4)

Writes(path, parts) == [path |-> path, parts |-> parts]

MCTrace == [failed   |-> <<Writes("solution.py", 2), Writes(NoPath, 0),
                          Writes("notes.md", 1)>>,
            passed   |-> <<Writes("solution.py", 1), Writes(NoPath, 0)>>,
            loaded   |-> <<Writes("solution.py", 1)>>,
            imported |-> <<Writes("context.md", 2)>>]

None == [e \in Episodes |-> <<>>]

MCTable == [toy       |-> [None EXCEPT !["failed"] = <<Fix(1)>>],
            fix_table |-> [None EXCEPT !["failed"] = <<Fix(2), LateFix>>],
            resample  |-> [None EXCEPT !["failed"] = <<OtherTool>>, !["loaded"] = <<Fix(1)>>]]

MCUnappliable == {[ep |-> "failed", iv |-> OtherTool]}

MCRevised == [iv \in {Fix(2)} |-> Fix(3)]

Cures == {[ep |-> e, iv |-> Fix(n)] : e \in {"failed", "loaded", "imported"}, n \in {1, 3}}
         \cup {[ep |-> "loaded", iv |-> Intervention("read", 1, 1)]}

Harmless == {[ep |-> "passed", iv |-> Intervention("message", 1, 1)]}

MCWorlds == {[works |-> Cures \cup Harmless, diverging |-> {}],
             [works |-> Cures, diverging |-> {<<"failed", 1>>}]}
=============================================================================
