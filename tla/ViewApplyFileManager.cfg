\* Three Applies in front of a user's file manager that deletes, adds and replaces
\* anything in the View folders at any moment.
SPECIFICATION Spec
CONSTANTS
    f1 = f1
    c1 = c1
    c2 = c2
    Entry = Entry
    Absent = Absent
    Alien = Alien
    Tool <- OneTool
    Callers <- OneCaller
    World <- FileManager
    MaxGen = 3
    MaxRev = 0
    MaxFaults = 0
PROPERTIES
    NoFileLost
\* The Applies and edits are bounded, so the user may have nothing left to ask.
CHECK_DEADLOCK FALSE
