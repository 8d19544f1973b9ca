SPECIFICATION SmmuSpec
CONSTANTS
    NumSmmus = 3
    EvtqN = 2
    MaxEvents = 7
    d1 = d1
    d2 = d2
    Devices = {d1, d2}
    SmmuOf <- TwoSmmus
    SidOf <- Distinct
    Ssids = {s1, s2}
    Pgts = {p1, p2}
    None = None
    Dangling = Dangling
    TwoLevel = FALSE
    Split = 256
    Dwords = 8
    L1Count = 256
    MaxNodes = 2
INVARIANTS DumpIsRight Translates  MemoryFollowsUse
PROPERTIES EventsInOrder DumpReturns  InitMeansEnabled
CHECK_DEADLOCK FALSE
