\* The instance of WrapUpSettles.cfg: the type invariant.
SPECIFICATION Spec
CONSTANTS
    Entries <- NoEntries
    Layouts <- OneLayout
    Leftovers <- NoEntries
    Copies <- OneFrame
    FrameOf <- FrameOfOne
    MaxOps = 2
    MaxGen = 2
    MaxRev = 1
    MaxFaults = 1
    MaxChanges = 1
    World <- CopyWorld
INVARIANTS
    TypeOK
\* A Project may end Closed with nothing left to ask of it.
CHECK_DEADLOCK FALSE
