SPECIFICATION Spec
CONSTANTS
    Cpus = {c1, c2, c3}
    c1 = c1
    c2 = c2
    c3 = c3
    Cores <- OneCore
    CoreOf <- SharedCore
    NoCpu = NoCpu
    MtrrsConfigured = FALSE
    LongTimeouts = FALSE
    CleanGiveUp = TRUE
    MaxSmi = 2
SYMMETRY CpuSymmetry
\* The model stops once all MaxSmi SMIs have been served.
CHECK_DEADLOCK FALSE
INVARIANTS
    TypeOK
    SingleBsp
    ApFindsBsp
    LockHolds
    ApCountIsExact
    RunIsZeroOutside
    ModeAgreement
    SwitchHonoured
    ReadyMeansAllIn
PROPERTIES
    KeepsPromise
