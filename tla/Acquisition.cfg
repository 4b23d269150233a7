SPECIFICATION AcqSpec
CONSTANTS
    NoLimit = NoLimit
    Cands = {1, 2, 3, 4}
    Episode <- MCEpisode
    Task <- MCTask
    Family <- MCFamily
    Source <- MCSource
    Fork <- MCFork
    Probes <- MCProbes
    NRepro = 2
    Policies = {"exhaustive", "random", "adaptive"}
    Budgets <- MCBudgets
    Durations = {1}
    Diverging <- MCDiverging
    FirstMisses = {1, 2, 3}
INVARIANTS
    OverstepIsLastCandidate
    BreadthFirst
    BillIsOrderFree
\* run returns.
CHECK_DEADLOCK FALSE
