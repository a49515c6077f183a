\* A location mapped to a folder of another volume, while the removals of both
\* volumes are asked for.
SPECIFICATION Spec
CONSTANTS
    v1 = v1
    v2 = v2
    r1 = r1
    r2 = r2
    r3 = r3
    None = None
    Locations = {l1}
    Roots = {r1, r3}
    Volumes = {v1, v2}
    VolumeOf <- RootEach
    MaxCalls = 2
    MaxChanges = 1
    MaxRemovals = 2
    World = {"remap"}
INVARIANT
    HeldClear
\* Every change and removal may be over and discovery have nothing to do.
CHECK_DEADLOCK FALSE
