SPECIFICATION Spec
CONSTANTS
    A = A
    B = B
    s1 = s1
    s2 = s2
    Members = {A, B}
    Sessions = {s1}
    From <- MCFrom
    To <- MCTo
    Inputs = {}
    NoPkt = NoPkt
    MaxAnswers = 1
INVARIANT ConsistentOutcome
CHECK_DEADLOCK FALSE
