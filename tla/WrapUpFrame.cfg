\* The two copies of a rejected frame, one of them changed before the move, and
\* a stop between the two refusals.
SPECIFICATION Spec
CONSTANTS
    Entries <- NoEntries
    Layouts <- OneLayout
    Leftovers <- NoEntries
    Copies <- OneFrame
    FrameOf <- FrameOfOne
    MaxOps = 1
    MaxGen = 1
    MaxRev = 1
    MaxFaults = 1
    MaxChanges = 1
    World <- CopyWorld
INVARIANT
    FrameWhole
\* A Project may end Closed with nothing left to ask of it.
CHECK_DEADLOCK FALSE
