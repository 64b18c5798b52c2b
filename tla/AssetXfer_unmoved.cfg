SPECIFICATION Spec
CONSTANTS
    k1 = k1
    k2 = k2
    Skts = {k1, k2}
    MaxSends = 1
    N = 2
    Inputs = {"unmoved"}
INVARIANT SuccessIsHeld
CHECK_DEADLOCK FALSE
