CONSTANTS
    ship = ship
    berth = berth
    home = home
    away = away
    transition = transition
    console = console
    Programs = {ship, berth}
    NoTag = NoTag
    MESSAGE_RESEND_TIME = 2
    Destructible = {berth}
    Landmarks = {home, away}
    Transition = transition
    NoLandmark = NoLandmark
    Start = home
    DefaultController = ship
    docking_controller <- MCdocking_controller
    dock_target <- MCdock_target
    Users = {console}
    NoUser = NoUser
    Overmap = TRUE
    LongJumps = TRUE
    Warmup = TRUE
    MaxCallbacks = 2
SPECIFICATION Spec
INVARIANTS LaunchProtocol TransitIsReal
PROPERTIES BerthsKept
