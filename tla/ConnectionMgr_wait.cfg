SPECIFICATION Spec
CONSTANTS
    a = a
    b = b
    q = q
    i = i
    Sessions = {a}
    Announces = {a}
    Searches = {}
    To <- MCTo
    Unreachable = {}
    Lossy = {}
    Slow = {}
    NoSession = NoSession
INVARIANT ReplyEndsWait
CHECK_DEADLOCK FALSE
