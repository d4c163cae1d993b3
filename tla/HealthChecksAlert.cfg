CONSTANTS
    Resources = {r1, r2}
    RetryLimits = {0, 1, 2}
    MaxChecks = 2
SPECIFICATION Spec
INVARIANT UnavailableIsAlerted
CHECK_DEADLOCK FALSE
