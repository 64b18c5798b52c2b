SPECIFICATION FairSpec
CONSTANTS
    A = A
    B = B
    s1 = s1
    s2 = s2
    Members = {A, B}
    Sessions = {s1}
    From <- MCFrom
    To <- MCTo
    Inputs = {"list", "refuse", "drop", "rejoin"}
    NoPkt = NoPkt
    MaxAnswers = 1
INVARIANTS TypeOK AcceptedIsOver AcceptedReachesBoth
PROPERTIES OffersEnd PartiesForget
CHECK_DEADLOCK FALSE
