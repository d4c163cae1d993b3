CONSTANTS
    Servers = {s1}
    Requests = {r1, r2}
    RecurringJob = job
    MaxValues = {0, 1, 2}
    Unset = unset
    Empty = empty
    Default = 2
    MaxTaken = 3
    MaxEdits = 1
    MaxFaults = 1
    MaxBulk = 1
SYMMETRY Symmetry
SPECIFICATION Spec
INVARIANTS TypeOK OldestGoFirst RetainsMaximum ExcessIsInFlight
PROPERTY TrimAfterCreate
