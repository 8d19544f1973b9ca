SPECIFICATION StreamSpec
CONSTANTS
    d1 = d1
    d2 = d2
    Devices = {d1, d2}
    SmmuOf <- TwoSmmus
    SidOf <- Distinct
    Ssids = {s1}
    Pgts = {p1, p2}
    None = None
    Dangling = Dangling
    TwoLevel = TRUE
    Split = 256
    Dwords = 8
    L1Count = 256
    MaxNodes = 2
SYMMETRY Symmetry
INVARIANT UnmapEffective
