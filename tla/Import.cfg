\* One import of one file, copied or moved: checks of the preview and edits in
\* review, a run with a stop and two changes of any kind from outside, interrupted
\* and retried until it settles.
SPECIFICATION FairSpec
CONSTANTS
    a = a
    b = b
    Imports <- OneImport
    Files <- OneFile
    Modes <- BothModes
    MaxRev = 2
    MaxEdits = 1
    MaxFaults = 1
    MaxChanges = 2
    World <- Everything
INVARIANTS
    ChoiceStands
PROPERTIES
    LandsOnce
    SourceLeavesForCopy
    StartedSettles
\* A settled import does nothing more.
CHECK_DEADLOCK FALSE
