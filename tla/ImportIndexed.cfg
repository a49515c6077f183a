\* One file whose destination is unmounted once, and comes back.
SPECIFICATION Spec
CONSTANTS
    a = a
    b = b
    Imports <- OneImport
    Files <- OneFile
    Modes <- Moves
    MaxRev = 1
    MaxEdits = 0
    MaxFaults = 0
    MaxChanges = 1
    World <- OnlyMounts
INVARIANTS
    SettledIsIndexed
\* A settled import does nothing more.
CHECK_DEADLOCK FALSE
