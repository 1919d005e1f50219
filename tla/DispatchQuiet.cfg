\* One SMI source fires at a time; children of every protocol.
CONSTANTS
    Requests <- AllKinds
    MaxRegistrations = 3
    MAXIMUM_SWI_VALUE = 2
    CommandPorts <- SwPorts
    SleepTypes <- Sleeps
    HwSources <- Events
    AsyncSmi = FALSE
SPECIFICATION FairSpec
INVARIANTS
    TypeOK
    UniqueSwValues
    EnablesMatchRecords
    NothingLost
    TimersRestarted
PROPERTY Served
