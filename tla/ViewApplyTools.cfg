\* Three Applies of two callers while tools write and hold, with a fault.
SPECIFICATION Spec
CONSTANTS
    f1 = f1
    c1 = c1
    c2 = c2
    Entry = Entry
    Absent = Absent
    Alien = Alien
    Tool <- OneTool
    Callers <- TwoCallers
    World <- Tools
    MaxGen = 3
    MaxRev = 1
    MaxFaults = 1
INVARIANTS
    TypeOK
    Agreement
    ViewRecoverable
PROPERTIES
    ImplementsPromise
    EditInWaitKeeps
\* The Applies and edits are bounded, so the user may have nothing left to ask.
CHECK_DEADLOCK FALSE
