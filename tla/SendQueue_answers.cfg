SPECIFICATION FairSpec
CONSTANTS
    Users = {A}
    Assets = {f, m}
    Files = {f}
    Reachable = {A}
    Inputs = {"queue", "send", "remove", "online", "offline", "fail", "restart"}
INVARIANTS
    TypeOK
    RowsAreListed
PROPERTY QueueDrains
CHECK_DEADLOCK FALSE
