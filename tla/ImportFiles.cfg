\* One import of two files, copied or moved: checks of the preview and edits in
\* review, a run with a stop and a change of any kind from outside, interrupted
\* and retried until it settles.
SPECIFICATION FairSpec
CONSTANTS
    a = a
    b = b
    Imports <- OneImport
    Files <- TwoFiles
    Modes <- BothModes
    MaxRev = 2
    MaxEdits = 1
    MaxFaults = 1
    MaxChanges = 1
    World <- Everything
INVARIANTS
    ChoiceStands
PROPERTIES
    LandsOnce
    SourceLeavesForCopy
    StartedSettles
\* A settled import does nothing more.
CHECK_DEADLOCK FALSE
