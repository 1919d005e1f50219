SPECIFICATION FairSpec
CONSTANTS
    hub = hub
    keyboard = keyboard
    disk = disk
    NoEndpoint = NoEndpoint
    InterruptEndpoints = {hub, keyboard}
    BulkEndpoints = {disk}
    PollingInterval <- Intervals
    AsyncPackets = {1}
    SyncPackets = {1, 2}
    MaxTransfers = 3
    MaxErrors = 1
\* The model may stop once all transfers have been made.
CHECK_DEADLOCK FALSE
INVARIANTS
    TypeOK
    ToggleInStep
    RateHonoured
PROPERTIES
    FramesBeginClean
    ServedInTurn
