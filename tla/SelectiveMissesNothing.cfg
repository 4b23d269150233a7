SPECIFICATION EventSpec
CONSTANTS
    pydantic = pydantic
    click = click
    t1 = t1
    t2 = t2
    ep1 = ep1
    ep2 = ep2
    ep3 = ep3
    w = w
    x = x
    y = y
    z = z
    recorded = recorded
    other = other
    NoClaim = NoClaim
    Weak = Weak
    Families = {pydantic, click}
    Versions = {recorded, other}
    Today <- MCToday
    Eps <- MCEps
    Length <- MCLength
    TaskOf <- MCTaskOf
    FamilyOf <- MCFamilyOf
    Units <- MCUnits
    StepOf <- MCStepOf
    NRepro = 2
INVARIANTS
    SelectiveMissesNothing
\* The event is over when both modes are, or one has raised.
CHECK_DEADLOCK FALSE
