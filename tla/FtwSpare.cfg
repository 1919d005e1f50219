SPECIFICATION Spec
CONSTANTS
  Parts <- SmallParts
  MaxWrites = 2
  MaxCuts = 1
\* The driver rests when the bounded writes are made.
CHECK_DEADLOCK FALSE
INVARIANT NothingIsLost
