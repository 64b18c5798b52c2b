\* An accepted user ought to stay accepted.
CONSTANTS
    Users = {u1, u2}
    Extra = {}
    Returning = u1
    Skts <- MCSkts
    Owner <- MCOwner
    PermLevels = {3}
    FriendLevels = {2}
    Inputs = {"decide"}
SPECIFICATION Spec
PROPERTY GrantIsKept
CHECK_DEADLOCK FALSE
