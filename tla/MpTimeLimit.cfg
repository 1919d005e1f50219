SPECIFICATION Spec
CONSTANTS
    NumberOfProcessors = 3
    MaxRequests = 2
    MaxChanges = 0
    AllCalls <- SomeAllCalls
    ThisCalls <- SomeThisCalls
    MaxDelta = 1
    CarefulCallers = TRUE
    PromptAPs = TRUE
\* The model stops once all requests have been made.
CHECK_DEADLOCK FALSE
INVARIANT
    TimeLimitHonoured
