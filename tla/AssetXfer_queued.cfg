SPECIFICATION Spec
CONSTANTS
    k1 = k1
    k2 = k2
    Skts = {k1, k2}
    MaxSends = 2
    N = 2
    Inputs = {"queued"}
INVARIANT ReceivedWhole
CHECK_DEADLOCK FALSE
