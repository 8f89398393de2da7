SPECIFICATION Spec
CONSTANTS
    Peers = {"p"}
    CriticalLength = 1
    RxLength = 1
    MaxRejected = 2
    MaxOperations = 7
    MaxResets = 1
    Scales = {"p", "q"}
    WorkerCycles = {1}
    CommandLength = 2
    EventLength = 1
    MaxUnread = 2
    MaxConnections = 2
    MaxChoices = 2
    InboxLength = 1
    MaxRequests = 2
    Images = {"p", "q"}
    ImageSize = 2
    MaxGenerations = 8
    MaxBoots = 4
    Networks = {n1, n2}
    MaxPresses = 1
    Capacity = 1
    MaxShots = 1
    MaxChanges = 1
    MaxFailures = 1
    MaxCrashes = 1
    QueueLength = 1
    MaxEvents = 2
    MaxSaves = 1
    MaxRaises = 2
    MaxToggles = 3
SYMMETRY NetworkSymmetry
INVARIANTS
    EndIsAnnounced
    ChoiceHeld
    LeaseIsCarried
    SessionHasItsBytes
    AlwaysBootable
    AccessOnlyWhenAsked
    ConfirmedHasWorked
    ClosedIsExplained
    StopsOnce
    LoadFindsLastSave
    OverlapCancels
    SyncingListens
PROPERTIES
    KeepsPromise
    QueuedIsHeard
CHECK_DEADLOCK FALSE
