SPECIFICATION GovernedSpec
INVARIANT FailureIsReported
CHECK_DEADLOCK FALSE
