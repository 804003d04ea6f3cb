SPECIFICATION Spec
CONSTANTS
    t1 = t1
    t2 = t2
    Requests = {r1, r2}
    Tabs = {t1, t2}
    Urls <- MCUrls
    Origins = {"a", "b", "local"}
    Required = {"local"}
    Origin <- MCOrigin
    None = None
    Home <- MCHome
    Allowed <- MCAllowed
    Targets <- MCTargets
    Picks <- MCPicks
    Roams <- MCRoams
    Varies <- MCVaries
    MaxLoads = 1
    MaxChanges = 2
SYMMETRY Either
INVARIANTS TypeOK PerformedAtMostOnce NavigatedMeansLeft OnlyListedPagesAreActedOn NoActWaitsForThePage
PROPERTIES ReadsFollowTheSwitch RequestsOnlyGoOn ImplementsErrands
CHECK_DEADLOCK FALSE
