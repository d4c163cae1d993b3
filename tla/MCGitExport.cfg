CONSTANTS
    d1 = d1
    d2 = d2
    f1 = f1
    f2 = f2
    Contents = {d1, d2}
    Files = {f1, f2}
    Exporters = {e1, e2}
    InitialTrees <- MCTrees
    PageSize = 1
    MaxCommits = 4
    MaxEdits = 1
    MaxRequests = 2
SYMMETRY Symmetry
SPECIFICATION Spec
INVARIANTS TypeOK ReportedIsOnBranch
PROPERTIES OnlyContentDir ExportIsExact
CHECK_DEADLOCK FALSE
