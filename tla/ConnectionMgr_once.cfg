SPECIFICATION FairSpec
CONSTANTS
    a = a
    b = b
    q = q
    i = i
    Sessions = {a, i, q}
    Announces = {a}
    Searches = {q}
    To <- MCTo
    Unreachable = {i}
    Lossy = {i}
    Slow = {i}
    NoSession = NoSession
INVARIANTS TypeOK SentOnce HandshakesAreKept AnnouncesLetGo NeverCutOff
PROPERTY ThreadsFinish
CHECK_DEADLOCK FALSE
