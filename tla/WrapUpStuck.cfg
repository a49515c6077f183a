\* The location of a copy is retired between its move and its record.
SPECIFICATION FairSpec
CONSTANTS
    Entries <- NoEntries
    Layouts <- OneLayout
    Leftovers <- NoEntries
    Copies <- OneFrame
    FrameOf <- FrameOfOne
    MaxOps = 1
    MaxGen = 1
    MaxRev = 1
    MaxFaults = 1
    MaxChanges = 1
    World <- OnlyRetire
PROPERTY
    TrashRunsToItsEnd
\* A Project may end Closed with nothing left to ask of it.
CHECK_DEADLOCK FALSE
