\* Clean up, Close and recovery over a View of two entries, the names of which
\* an Apply may swap, with edits, a crash and a change from outside.
SPECIFICATION Spec
CONSTANTS
    Entries <- TwoEntries
    Layouts <- BothLayouts
    Leftovers <- OneLeftover
    Copies <- NoCopies
    FrameOf <- FrameOfOne
    MaxOps = 2
    MaxGen = 2
    MaxRev = 2
    MaxFaults = 1
    MaxChanges = 1
    World <- ViewWorld
INVARIANTS
    RecordedIsRemoved
    LockedIsApplied
PROPERTY
    ImplementsLifecycle
\* A Project may end Closed with nothing left to ask of it.
CHECK_DEADLOCK FALSE
