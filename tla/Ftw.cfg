SPECIFICATION FairSpec
CONSTANTS
  Parts <- SafeParts
  MaxWrites = 3
  MaxCuts = 3
\* The driver rests when the bounded writes are made.
CHECK_DEADLOCK FALSE
INVARIANTS
  TypeOK
  SettledWhenIdle
PROPERTIES
  StoreIsAtomic
  Recovers
