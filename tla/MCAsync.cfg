CONSTANTS
    f1 = f1
    f2 = f2
    f3 = f3
    h1 = h1
    h2 = h2
    v1 = v1
    v2 = v2
    e1 = e1
    e2 = e2
    l1 = l1
    l2 = l2
    Nothing = Nothing
    NoValue = NoValue
    Fns = {f1, f2, f3}
    OptionSets <- MCOptionSets
    MaxDone = 5
    Handlers = {h1, h2}
    Values = {v1, v2}
    MaxAdded = 3
    MaxSettles = 3
    MaxHolds = 2
    MaxReadyFns = 2
    TimerElements = {e1}
    Labels = {l1, l2}
    TimerFns = {f1, f2}
    MaxTimers = 3
    SubCount = 3
    SubValues = {v1, v2}
    AjaxKinds = {"xhr", "sync", "jsonp"}
    MaxRequests = 2
    MaxAjaxOps = 4
SPECIFICATION Spec
CHECK_DEADLOCK FALSE
INVARIANTS MasterFollows TimersAgree
PROPERTIES EveryoneInTurn KeepsPromise WaitsEnd RequestsEnd
