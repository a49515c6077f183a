\* A Copy or Move of one item onto every kind of volume, with two stops and three
\* changes from outside of any kind.
SPECIFICATION Spec
CONSTANTS
    k1 = k1
    Items <- One
    Keeps <- NoKeeps
    ReliedOn <- Alone
    Kinds <- Transfers
    Volumes <- Any
    World <- Everything
    MaxFaults = 2
    MaxChanges = 3
INVARIANTS
    TypeOK
    NothingHidden
PROPERTIES
    RetiresProven
    SettlesTruthfully
    ForeignBytesStay
\* A settled operation does nothing more.
CHECK_DEADLOCK FALSE
