\* A link swapped by two renames, a stop between them, the root away meanwhile.
SPECIFICATION Spec
CONSTANTS
    Files <- OneFile
    Links <- OneLink
    FileOf <- OfFirst
    Swaps <- Renames
    MaxFaults = 1
    MaxChanges = 1
    World <- OnlyRoot
INVARIANT
    LinkPutBack
\* An archive ends once it has settled.
CHECK_DEADLOCK FALSE
