SPECIFICATION Spec
CONSTANTS
    a = a
    b = b
    gui = gui
    Skts = {a, b}
    Outgoing = {}
    Others = {gui}
    Inputs = {"cross", "other"}
INVARIANT LostIsTold
CHECK_DEADLOCK FALSE
