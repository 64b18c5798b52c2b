\* A pending request ought to wait for the admin.
CONSTANTS
    Users = {u1, u2}
    Extra = {}
    Returning = u1
    Skts <- MCSkts
    Owner <- MCOwner
    PermLevels = {2}
    FriendLevels = {1}
    Inputs = {"decide"}
SPECIFICATION Spec
PROPERTY RequestAwaitsAdmin
CHECK_DEADLOCK FALSE
