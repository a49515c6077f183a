\* The instance of CaptureWatch.cfg: the type invariant, and what ends.
SPECIFICATION FairSpec
CONSTANTS
    v1 = v1
    v2 = v2
    r1 = r1
    r2 = r2
    r3 = r3
    None = None
    Locations = {l1}
    Roots = {r1, r2, r3}
    Volumes = {v1, v2}
    VolumeOf <- TwoAndOne
    MaxCalls = 2
    MaxChanges = 1
    MaxRemovals = 1
    World <- Prompt
INVARIANTS
    TypeOK
PROPERTIES
    ReleaseReturns
    RemovedLetsGo
\* Every change and removal may be over and discovery have nothing to do.
CHECK_DEADLOCK FALSE
