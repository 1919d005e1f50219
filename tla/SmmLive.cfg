SPECIFICATION FairSpec
CONSTANTS
    Cpus = {c1, c2}
    c1 = c1
    c2 = c2
    c3 = c3
    Cores <- TwoCores
    CoreOf <- Siblings
    NoCpu = NoCpu
    MtrrsConfigured = TRUE
    LongTimeouts = TRUE
    CleanGiveUp = TRUE
    MaxSmi = 2
\* The model stops once all MaxSmi SMIs have been served.
CHECK_DEADLOCK FALSE
PROPERTIES
    EveryoneLeaves
    SmiServed
