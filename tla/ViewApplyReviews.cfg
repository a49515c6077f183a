\* Leftovers reviewed between three Applies, with two faults and a tool that may
\* hold its file for ever, under the fairness of the run.
SPECIFICATION FairSpec
CONSTANTS
    f1 = f1
    c1 = c1
    c2 = c2
    Entry = Entry
    Absent = Absent
    Alien = Alien
    Tool <- OneTool
    Callers <- OneCaller
    World <- Reviewing
    MaxGen = 3
    MaxRev = 0
    MaxFaults = 2
INVARIANTS
    LeftoversRecorded
    NeverRefused
    ForeignAccounted
PROPERTIES
    EveryApplyEnds
    InstalledEndsApplied
\* The Applies and edits are bounded, so the user may have nothing left to ask.
CHECK_DEADLOCK FALSE
