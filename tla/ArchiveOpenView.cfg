\* An open Project installs a View of a session after its archive began.
SPECIFICATION Spec
CONSTANTS
    Files <- OneFile
    Links <- OneLink
    FileOf <- OfFirst
    Swaps <- BothSwaps
    MaxFaults = 0
    MaxChanges = 1
    World <- OnlyHold
INVARIANT
    OpenViewReads
\* An archive ends once it has settled.
CHECK_DEADLOCK FALSE
