\* A member list ought to show connected members only.
CONSTANTS
    Users = {u1, u2}
    Extra = {}
    Returning = u1
    Skts <- MCSkts
    Owner <- MCOwner
    PermLevels = {2}
    FriendLevels = {2}
    Inputs = {"leave"}
SPECIFICATION Spec
INVARIANT ShownAreClients
CHECK_DEADLOCK FALSE
