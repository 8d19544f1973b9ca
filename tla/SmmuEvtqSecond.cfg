SPECIFICATION EvtqSpec
CONSTANTS
    EvtqN = 2
    MaxEvents = 7
INVARIANT LossReported
