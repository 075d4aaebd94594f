CONSTANTS
    timer = timer
    machines = machines
    sun = sun
    processing = processing
    evac = evac
    Null = Null
    Subsystems = {machines, sun, processing}
    Ticker = {}
    Background = {processing}
    NoTickCheck = {sun}
    priority <- MCpriority
    Sleepers = {machines}
    Failures = FALSE
    MaxAsleep = 1
    TopPriority = 11
SPECIFICATION LiveSpec
INVARIANTS PriorityTotals
PROPERTIES FiresInTurn
