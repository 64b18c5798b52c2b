SPECIFICATION Spec
CONSTANTS
    a = a
    b = b
    q = q
    i = i
    Sessions = {a, q}
    Announces = {a}
    Searches = {q}
    To <- MCTo
    Unreachable = {}
    Lossy = {}
    Slow = {}
    NoSession = NoSession
INVARIANT AskedOnce
CHECK_DEADLOCK FALSE
