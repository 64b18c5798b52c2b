SPECIFICATION Spec
CONSTANTS
    a = a
    b = b
    gui = gui
    Skts = {a, b}
    Outgoing = {b}
    Others = {gui}
    Inputs = {"remote", "own", "other", "unlocked", "delete"}
INVARIANTS TypeOK LostOnce EndedIsClosed DeletedIsUnused WaitsForItselfIfRaced LockedToErase
CHECK_DEADLOCK FALSE
