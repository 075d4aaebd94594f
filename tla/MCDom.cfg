CONSTANTS
    fn1 = fn1
    fn2 = fn2
    e1 = e1
    e2 = e2
    Depth = 3
    EventTypes = {"click", "focusin"}
    Functions = {fn1, fn2}
    Namespaced = {fn1}
    MaxBinds = 2
    MaxNested = 2
    MaxEventOps = 3
    FxElements = {e1, e2}
    FxKinds = {"show", "hide", "toggle", "to", "delay"}
    QuickKinds = {"hide"}
    MaxFxOps = 3
    AskedTypes <- MCAsked
    ExtraConverters <- MCExtra
    Redirects <- MCRedirects
    WidgetCount = 2
    DragOptions <- MCDragOptions
    MaxPresses = 2
    MaxDragOps = 1
    Pages = {0, 5, 9}
    Offsets = {0, 2}
    Margins = {0, 1}
    Grids = {0, 3}
    Parents <- MCParents
    Labels = {"a", "b"}
    IdNode = 3
    Groups <- MCGroups
    Negated <- MCNegated
    Contexts = {1, 3}
    MaxQueries = 2
    MaxChanges = 1
    ChildNodes = {1, 2, 3, 4}
    Arrangements <- MCArrangements
    nodeName <- MCnodeName
    MaxRuns = 2
    MaxChildChanges = 1
SPECIFICATION Spec
CHECK_DEADLOCK FALSE
INVARIANTS EventsAgree AnswersConvert DragsAsAsked SelectsInOrder PlaceIsTold
PROPERTIES QueuesEnd
