\* Three clients, one socket each, all permitted: joins and leaves interleave.
CONSTANTS
    Users = {u1, u2, u3}
    Extra = {}
    Returning = u1
    Skts <- MCSkts
    Owner <- MCOwner
    PermLevels = {2}
    FriendLevels = {2}
    Inputs = {"leave"}
SPECIFICATION Spec
SYMMETRY Symmetry
INVARIANTS MutualVisibility JoinedIsMember
CHECK_DEADLOCK FALSE
