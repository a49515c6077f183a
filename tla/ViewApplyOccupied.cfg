\* The name View/ taken while the old View stands aside.
SPECIFICATION Spec
CONSTANTS
    f1 = f1
    c1 = c1
    c2 = c2
    Entry = Entry
    Absent = Absent
    Alien = Alien
    Tool <- OneTool
    Callers <- OneCaller
    World <- Occupying
    MaxGen = 2
    MaxRev = 0
    MaxFaults = 1
INVARIANTS
    FailedKeepsOldView
\* The Applies and edits are bounded, so the user may have nothing left to ask.
CHECK_DEADLOCK FALSE
