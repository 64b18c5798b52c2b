\* Two clients, a changing permission, an admin who decides, restarts.
CONSTANTS
    Users = {u1, u2}
    Extra = {}
    Returning = u1
    Skts <- MCSkts
    Owner <- MCOwner
    PermLevels = {0, 2}
    FriendLevels = {1}
    Inputs = {"rejoin", "leave", "decide", "restart"}
SPECIFICATION Spec
SYMMETRY Symmetry
INVARIANTS TypeOK RecordDurable
CHECK_DEADLOCK FALSE
