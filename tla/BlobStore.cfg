SPECIFICATION Spec
CONSTANTS
    a = a
    b = b
    n = n
    Absent = Absent
    Collectors = {c1, c2}
    Readers = {r1, r2}
    Dests = {e1}
    Paths = {a, b}
    Nodes = {n}
    Digest <- MCDigest
    Legacy <- MCLegacy
    Workspaces <- MCWorkspaces
    MaxSteps = 1
    MaxMishaps = 1
SYMMETRY Symmetry
CONSTRAINT ThreeProcesses
INVARIANTS
    TreesAreWhole
    RestoredIsRecorded
    SnapshotIsForkPoint
    MetaDescribesTree
PROPERTIES
    StoredStays
\* Every process may have ended, crashed or raised.
CHECK_DEADLOCK FALSE
