\* One item published by copy, its run stopped once.
SPECIFICATION Spec
CONSTANTS
    k1 = k1
    Items <- One
    Keeps <- NoKeeps
    ReliedOn <- Alone
    Kinds <- Transfers
    Volumes <- Copying
    World <- Quiet
    MaxFaults = 1
    MaxChanges = 0
INVARIANTS
    PartialGoes
\* A settled operation does nothing more.
CHECK_DEADLOCK FALSE
