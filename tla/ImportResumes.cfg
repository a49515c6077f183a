\* One file through a started import whose run stops once.
SPECIFICATION FairSpec
CONSTANTS
    a = a
    b = b
    Imports <- OneImport
    Files <- OneFile
    Modes <- BothModes
    MaxRev = 1
    MaxEdits = 0
    MaxFaults = 1
    MaxChanges = 1
    World <- OnlyMounts
PROPERTIES
    ImportResumes
\* A settled import does nothing more.
CHECK_DEADLOCK FALSE
