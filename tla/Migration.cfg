SPECIFICATION Spec
CONSTANTS
    m1 = m1
    w1 = w1
    w2 = w2
    e1 = e1
    e2 = e2
    pytest = pytest
    pin = pin
    src = src
    fix = fix
    s1 = s1
    s2 = s2
    s3 = s3
    ep = ep
    Migrators = {m1}
    Workers = {w1, w2}
    Names = {e1, e2}
    Packages = {pytest, pin}
    Requested <- MCRequested
    BuildEnvs = TRUE
    MaxMishaps = 1
    Bases = {src, fix}
    Original <- MCOriginal
    NoTree = NoTree
    Snaps = {s1, s2, s3}
    Eps = {ep}
SYMMETRY Symmetry
INVARIANTS
    RunsInBuiltEnv
    MigratedRunRestores
    TreesAreKept
    UpgradedPointersAreBuilt
\* Workers may all have ended a replay; they start another.
