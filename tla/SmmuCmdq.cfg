SPECIFICATION FairSpec
CONSTANTS
    N = 4
    Hyp = TRUE
    MaxCalls = 4
INVARIANTS SyncComplete NeverOverrun
PROPERTIES InOrder Returns
