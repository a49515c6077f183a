\* Two items of every kind of operation on every kind of volume, each the kept
\* copy of the other, with two stops and a change of a source.
SPECIFICATION FairSpec
CONSTANTS
    k1 = k1
    Items <- Two
    Keeps <- OneKeep
    ReliedOn <- Mutual
    Kinds <- AllKinds
    Volumes <- Any
    World <- OnlySources
    MaxFaults = 2
    MaxChanges = 1
INVARIANTS
    OneCopyStays
PROPERTIES
    ImplementsPromise
    OperationSettles
\* A settled operation does nothing more.
CHECK_DEADLOCK FALSE
