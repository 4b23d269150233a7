SPECIFICATION Spec
CONSTANTS
    Cases <- MCCases
INVARIANTS
    MinimalIsRevalidated
    OneMinimal
    ProbesBounded
\* minimize_unit returns.
CHECK_DEADLOCK FALSE
