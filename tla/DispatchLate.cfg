\* SMI sources latch while the dispatcher runs.
CONSTANTS
    Requests <- Asynchronous
    MaxRegistrations = 2
    MAXIMUM_SWI_VALUE = 2
    CommandPorts <- SwPorts
    SleepTypes <- Sleeps
    HwSources <- Events
    AsyncSmi = TRUE
SPECIFICATION Spec
PROPERTY LateSmiKept
