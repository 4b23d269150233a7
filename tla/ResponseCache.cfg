SPECIFICATION CacheSpec
CONSTANTS
    p1 = p1
    p2 = p2
    plain = plain
    short = short
    long = long
    cold = cold
    hot = hot
    m = m
    NoAnswer = NoAnswer
    Procs = {p1, p2}
    Params = {cold, hot}
    Messages = {m}
    Answers = {plain, short, long}
    Length <- MCLength
    Says <- MCSays
INVARIANTS
    HitsAreAnswers
    OnlyMetEntriesRaise
PROPERTIES
    TornEntriesHeal
