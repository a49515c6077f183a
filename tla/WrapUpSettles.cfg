\* Trash, archives and recovery over the two copies of a rejected frame, with a
\* fault at any step, PlateVault started again after it, and a copy or its location
\* gone meanwhile, or a copy the OS Trash refuses.
SPECIFICATION FairSpec
CONSTANTS
    Entries <- NoEntries
    Layouts <- OneLayout
    Leftovers <- NoEntries
    Copies <- OneFrame
    FrameOf <- FrameOfOne
    MaxOps = 2
    MaxGen = 1
    MaxRev = 1
    MaxFaults = 1
    MaxChanges = 1
    World <- CopyWorld
INVARIANTS
    RecordedIsTrashed
PROPERTY
    WrapUpSettles
\* A Project may end Closed with nothing left to ask of it.
CHECK_DEADLOCK FALSE
