\* A session that runs ought not to be launched again.
SPECIFICATION Spec
CONSTANTS
    A = A
    B = B
    s1 = s1
    s2 = s2
    Members = {A, B}
    Sessions = {s1}
    From <- MCFrom
    To <- MCTo
    Inputs = {"list"}
    NoPkt = NoPkt
    MaxAnswers = 1
INVARIANT LaunchedOnce
CHECK_DEADLOCK FALSE
