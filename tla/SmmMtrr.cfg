SPECIFICATION Spec
CONSTANTS
    Cpus = {c1, c2, c3}
    c1 = c1
    c2 = c2
    c3 = c3
    Cores <- TwoCores
    CoreOf <- Siblings
    NoCpu = NoCpu
    MtrrsConfigured = TRUE
    LongTimeouts = TRUE
    CleanGiveUp = TRUE
    MaxSmi = 2
SYMMETRY SiblingSymmetry
\* The model stops once all MaxSmi SMIs have been served.
CHECK_DEADLOCK FALSE
INVARIANTS
    NoNormalModeCode
    BackupIsOs
    HandlersSeeSmmMtrrs
    OsSeesOsMtrrs
PROPERTIES
    QuietExit
