\* The last write of a review lands in the next Apply.
SPECIFICATION Spec
CONSTANTS
    f1 = f1
    c1 = c1
    c2 = c2
    Entry = Entry
    Absent = Absent
    Alien = Alien
    Tool <- OneTool
    Callers <- OneCaller
    World <- Overlapping
    MaxGen = 3
    MaxRev = 0
    MaxFaults = 0
INVARIANTS
    LeftoversRecorded
\* The Applies and edits are bounded, so the user may have nothing left to ask.
CHECK_DEADLOCK FALSE
