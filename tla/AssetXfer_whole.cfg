SPECIFICATION FairSpec
CONSTANTS
    k1 = k1
    k2 = k2
    Skts = {k1, k2}
    MaxSends = 3
    N = 3
    Inputs = {"lost", "error", "deny"}
INVARIANTS TypeOK ReceivedWhole PartialsEnd SuccessIsHeld
PROPERTY SendsEnd
CHECK_DEADLOCK FALSE
