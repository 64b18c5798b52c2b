\* User u1 comes back with a second socket x while the host still has the first; the
\* admin may ignore and permit users meanwhile.
CONSTANTS
    Users = {u1, u2}
    Extra = {x}
    Returning = u1
    Skts <- MCSkts
    Owner <- MCOwner
    PermLevels = {2}
    FriendLevels = {0, 2}
    Inputs = {"drop"}
SPECIFICATION Spec
INVARIANTS JoinedIsMember NoStaleConnectId
PROPERTY JoinsAreAtomic
CHECK_DEADLOCK FALSE
