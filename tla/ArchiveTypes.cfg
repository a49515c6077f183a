\* The instance of Archive.cfg: the type invariant.
SPECIFICATION Spec
CONSTANTS
    Files <- TwoFiles
    Links <- TwoLinks
    FileOf <- OfFirst
    Swaps <- BothSwaps
    MaxFaults = 2
    MaxChanges = 2
    World <- Everything
INVARIANTS
    TypeOK
\* An archive ends once it has settled.
CHECK_DEADLOCK FALSE
