SPECIFICATION Spec
CONSTANTS
    Trace <- MCTrace
    RationalePaths = {"thoughts.md"}
    ContextPaths = {"context.md"}
    Regenerated <- MCRegenerated
    Episodes <- MCEpisodes
    Flipping <- MCFlipping
    Unregistered = {"write_file", "read_file", "run_pytest", "run_check", "send_report"}
    Registered = {"write_file", "read_file", "run_pytest", "send_report"}
    \* 360 has all the quotients five branches can ask for.
    Worth = 360
    Cost = 1
    SkippedShown = 1
    KindSets <- MCKindSets
    StrategyLists <- MCStrategyLists
    ValueLists <- MCValueLists
    Restrictions <- MCRestrictions
    Budgets = {3}
    MinValues = {0, 100}
    MaxOps = 5
    MaxBranches = 5
INVARIANTS
    BranchesAccounted
    SelectionAccounts
    SelectionIsGreedy
    DedupKeepsHypotheses
\* A recipe ends.
CHECK_DEADLOCK FALSE
