CONSTANTS
    a = a
    b = b
    c = c
    d = d
    e = e
    Lists <- MCLists
    Things = {a, b, c, d}
    NoThing = NoThing
    home <- MChome
    Kills = {"processing"}
    Unchecked = {}
    Unwrapped = {}
    DoubleKill = FALSE
    BUCKET_LEN = 2
    Waits = {0, 1, 2}
    Hashes = {1}
    MaxTimedEvents = 3
    MaxTime = 3
    Refs = {a, b}
    collection_timeout <- MCcollection_timeout
    MaxGcTime = 4
SPECIFICATION ServerSpec
CHECK_DEADLOCK FALSE
INVARIANTS MachineListsAgree BucketsHold
PROPERTIES EachOnce HasTurn TimersRun GarbageKept
