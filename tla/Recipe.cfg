SPECIFICATION Spec
CONSTANTS
    NoPath = NoPath
    Paths = {"solution.py", "context.md"}
    Trace <- MCTrace
    Toy <- MCToy
    Old <- MCOld
    Imported <- MCImported
    Successful = {"passed"}
    Table <- MCTable
    Revised <- MCRevised
    Unappliable <- MCUnappliable
    NRepro = 2
    BudgetReplays = 3
    Worlds <- MCWorlds
    MaxOps = 5
    MaxUnits = 3
    MaxCands = 3
INVARIANTS
    ExportedCasesReplay
    ProposalsAnsweredOnce
PROPERTIES
    ProposalsAreKept
    EvidenceCostsReplays
    DedupeKeepsCorrections
\* A recipe ends.
CHECK_DEADLOCK FALSE
