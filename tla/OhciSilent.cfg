SPECIFICATION FairSpec
CONSTANTS
    hub = hub
    keyboard = keyboard
    disk = disk
    NoEndpoint = NoEndpoint
    InterruptEndpoints = {hub, keyboard}
    BulkEndpoints = {}
    PollingInterval <- Intervals
    AsyncPackets = {1}
    SyncPackets = {}
    MaxTransfers = 3
    MaxErrors = 0
CHECK_DEADLOCK FALSE
PROPERTIES
    CallbackIsCalled
