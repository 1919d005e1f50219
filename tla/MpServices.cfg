SPECIFICATION FairSpec
CONSTANTS
    NumberOfProcessors = 3
    MaxRequests = 2
    MaxChanges = 1
    AllCalls <- SomeAllCalls
    ThisCalls <- SomeThisCalls
    MaxDelta = 1
    CarefulCallers = TRUE
    PromptAPs = TRUE
\* The model stops once all calls have been made.
CHECK_DEADLOCK FALSE
INVARIANTS
    TypeOK
    OwnTask
    EndedAccounted
    OneByOne
    IdleIsParked
    OneCpuPerStack
    OneBsp
PROPERTIES
    CallsEnd
