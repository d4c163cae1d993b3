CONSTANTS
    ann = ann
    bob = bob
    cat = cat
    manager = manager
    security = security
    Users = {ann, bob, cat}
    Roles = {approver, manager, security}
    Approver = approver
    NoUser = nobody
    Workers = {w1, w2}
    Quantity = 2
    MaxJobs = 3
    Configs <- SingleLevel
SPECIFICATION Spec
PROPERTY OnlyPendingIsStarted
