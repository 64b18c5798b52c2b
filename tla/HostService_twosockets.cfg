\* A joined member ought to be active, whatever becomes of its other socket.
CONSTANTS
    Users = {u1, u2}
    Extra = {x}
    Returning = u1
    Skts <- MCSkts
    Owner <- MCOwner
    PermLevels = {2}
    FriendLevels = {2}
    Inputs = {"drop"}
SPECIFICATION Spec
INVARIANT JoinedIsActive
CHECK_DEADLOCK FALSE
