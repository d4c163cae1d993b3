CONSTANTS
    f1 = f1
    f2 = f2
    x1 = x1
    x2 = x2
    c1 = c1
    c2 = c2
    Plugins <- MCPlugins
    Orders = {x1, x2}
    Approvers = {"fin", "it", "lead", "boss"}
    GroupsOf <- MCGroupsOf
    Costs = {4, 5, 9}
    RateLimit = 5
    Hooks = {"ou", "metal", "static", "default"}
    Accounts = {"u", "v"}
    Groups <- MCGroups
    Mapping <- MCMapping
    OtherCase = {"Qa"}
    Trees <- MCTrees
    Records <- MCRecords
    FirstRoles <- MCFirstRoles
    FirstAdmins = {{"u"}}
    MaxUsers = 2
    Files = {f1, f2}
    FirstContents <- MCFirstContents
    Edits <- MCEdits
    FlatName <- MCFlatName
    Seconds <- MCSeconds
    MaxRuns = 2
    Families <- AllFamilies
    Jobs = {x1, x2}
    Containers = {c1, c2}
    Names = {"steve", "other"}
    Filled <- MCFilled
    MaxRows = 2
    Steve = "steve"
    ConfigNames = {main, fork}
    Requests = {x1, x2}
    MaxSaves = 4
SYMMETRY Alike
SPECIFICATION PartSpec
CHECK_DEADLOCK FALSE
INVARIANTS AllTypeOK RolesFollowDirectory OriginalIsKept ClaimedIsFixed PassedStaysPassed StoredIsRecent
PROPERTIES EnoughApprovers FinanceFirst GivenInOwnOU  MoveKeeps   OtherRowsStay AloneIsExact OneValue
