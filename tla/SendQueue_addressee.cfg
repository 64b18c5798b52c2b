SPECIFICATION Spec
CONSTANTS
    Users = {A, B}
    Assets = {m, n}
    Files = {}
    Reachable = {}
    Inputs = {"send", "online"}
SYMMETRY Symmetry
INVARIANT AddresseeOnly
CHECK_DEADLOCK FALSE
