\* Every rx thread runs: what a client's request must lead to, and who sees whom
\* when clients leave, unjoin and lose their connections.
CONSTANTS
    Users = {u1, u2}
    Extra = {}
    Returning = u1
    Skts <- MCSkts
    Owner <- MCOwner
    PermLevels = {2}
    FriendLevels = {2}
    Inputs = {"leave", "unJoin", "drop"}
SPECIFICATION FairSpec
INVARIANTS MutualVisibility JoinedIsMember
PROPERTIES JoinAnswered LeaveDone LostForgotten
CHECK_DEADLOCK FALSE
