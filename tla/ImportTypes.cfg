\* The instance of Import.cfg: the type invariant.
SPECIFICATION Spec
CONSTANTS
    a = a
    b = b
    Imports <- OneImport
    Files <- TwoFiles
    Modes <- BothModes
    MaxRev = 2
    MaxEdits = 1
    MaxFaults = 1
    MaxChanges = 1
    World <- Everything
INVARIANTS
    TypeOK
\* A settled import does nothing more.
CHECK_DEADLOCK FALSE
