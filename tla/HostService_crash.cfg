\* A client with a reply ought to be known after a restart.
CONSTANTS
    Users = {u1, u2}
    Extra = {}
    Returning = u1
    Skts <- MCSkts
    Owner <- MCOwner
    PermLevels = {2}
    FriendLevels = {1}
    Inputs = {"restart"}
SPECIFICATION Spec
PROPERTY RepliedIsKnown
CHECK_DEADLOCK FALSE
