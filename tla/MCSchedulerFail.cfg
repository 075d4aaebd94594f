CONSTANTS
    timer = timer
    machines = machines
    sun = sun
    processing = processing
    evac = evac
    Null = Null
    Subsystems = {timer, machines, sun, processing}
    Ticker = {timer}
    Background = {processing}
    NoTickCheck = {sun}
    priority <- MCpriority
    Sleepers = {machines}
    Failures = TRUE
    MaxAsleep = 2
    TopPriority = 10
SPECIFICATION Spec
INVARIANTS QueueInOrder SleepersComeBack
