\* A kept file deleted between the sheet and the listing, over three Applies.
SPECIFICATION FairSpec
CONSTANTS
    f1 = f1
    c1 = c1
    c2 = c2
    Entry = Entry
    Absent = Absent
    Alien = Alien
    Tool <- OneTool
    Callers <- OneCaller
    World <- Deleting
    MaxGen = 3
    MaxRev = 0
    MaxFaults = 0
PROPERTIES
    InstalledEndsApplied
\* The Applies and edits are bounded, so the user may have nothing left to ask.
CHECK_DEADLOCK FALSE
