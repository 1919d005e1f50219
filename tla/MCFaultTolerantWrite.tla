------------------------ MODULE MCFaultTolerantWrite ------------------------
EXTENDS FaultTolerantWrite

\* A 4 KB part whose log does not fill up, and 64 KB ones whose log does.
SafeParts == {[sector |-> "4K", cap |-> 4], [sector |-> "64K", cap |-> 1],
              [sector |-> "64K", cap |-> 2]}

\* A 4 KB part whose log fills up.
SmallParts == {[sector |-> "4K", cap |-> 1]}
=============================================================================
