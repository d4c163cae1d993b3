CONSTANTS
    Resources = {r1, r2}
    RetryLimits = {0, 1, 2}
    MaxChecks = 2
SPECIFICATION Spec
INVARIANTS TypeOK RetriesAreBounded 
PROPERTIES Terminates
CHECK_DEADLOCK FALSE
