SPECIFICATION Spec
CONSTANTS
    a = a
    b = b
    gui = gui
    Skts = {a, b}
    Outgoing = {b}
    Others = {gui}
    Inputs = {"remote"}
INVARIANT EndedIsUnlisted
CHECK_DEADLOCK FALSE
