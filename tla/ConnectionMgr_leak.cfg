SPECIFICATION Spec
CONSTANTS
    a = a
    b = b
    q = q
    i = i
    Sessions = {a, b}
    Announces = {a, b}
    Searches = {}
    To <- MCTo
    Unreachable = {}
    Lossy = {}
    Slow = {}
    NoSession = NoSession
INVARIANT UnneededIsClosed
CHECK_DEADLOCK FALSE
