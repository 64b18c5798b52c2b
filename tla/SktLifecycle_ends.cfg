SPECIFICATION FairSpec
CONSTANTS
    a = a
    b = b
    gui = gui
    Skts = {a, b}
    Outgoing = {b}
    Others = {gui}
    Inputs = {"remote", "own", "cross", "unlocked"}
INVARIANTS LostOnce EndedIsClosed
PROPERTIES ClosesEnd SktEnds LinksAreKept
CHECK_DEADLOCK FALSE
