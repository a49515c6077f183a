\* A review takes a kept file away between the build and the swap of an Apply.
SPECIFICATION Spec
CONSTANTS
    f1 = f1
    c1 = c1
    c2 = c2
    Entry = Entry
    Absent = Absent
    Alien = Alien
    Tool <- OneTool
    Callers <- OneCaller
    World <- Interrupting
    MaxGen = 3
    MaxRev = 0
    MaxFaults = 0
INVARIANTS
    NeverRefused
\* The Applies and edits are bounded, so the user may have nothing left to ask.
CHECK_DEADLOCK FALSE
