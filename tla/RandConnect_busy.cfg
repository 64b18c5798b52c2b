\* The parties of an accepted offer ought to be both in session.
SPECIFICATION Spec
CONSTANTS
    A = A
    B = B
    s1 = s1
    s2 = s2
    Members = {A, B}
    Sessions = {s1}
    From <- MCFrom
    To <- MCTo
    Inputs = {"refuse"}
    NoPkt = NoPkt
    MaxAnswers = 1
INVARIANT NobodyAlone
CHECK_DEADLOCK FALSE
