SPECIFICATION Spec
CONSTANTS
    Users = {A}
    Assets = {m}
    Files = {}
    Reachable = {}
    Inputs = {"queue", "online"}
INVARIANT QueuedIsKept
CHECK_DEADLOCK FALSE
