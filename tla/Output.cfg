\* One Project, two copies to one name, with a stop and two changes from outside
\* of any kind.
SPECIFICATION FairSpec
CONSTANTS
    Projects <- OneProject
    MaxCopies = 2
    MaxWrites = 3
    MaxFaults = 1
    MaxChanges = 2
    World <- Everything
INVARIANTS
    ListedStays
    SettledHeld
PROPERTIES
    CopySettles
    FileListed
\* A Project may be closed with nothing left to do.
CHECK_DEADLOCK FALSE
