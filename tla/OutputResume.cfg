\* A copy each in two Projects, a stop, and a file deleted before it is listed.
SPECIFICATION FairSpec
CONSTANTS
    Projects <- TwoProjects
    MaxCopies = 1
    MaxWrites = 3
    MaxFaults = 1
    MaxChanges = 2
    World <- OnlyDeletes
PROPERTY
    ResumeFinishes
\* A Project may be closed with nothing left to do.
CHECK_DEADLOCK FALSE
