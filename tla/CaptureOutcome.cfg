\* A location mapped to another folder of its volume and back while a removal of
\* the volume is asked for and refused.
SPECIFICATION FairSpec
CONSTANTS
    v1 = v1
    v2 = v2
    r1 = r1
    r2 = r2
    r3 = r3
    None = None
    Locations = {l1}
    Roots = {r1, r2}
    Volumes = {v1}
    VolumeOf <- OneVolume
    MaxCalls = 2
    MaxChanges = 2
    MaxRemovals = 1
    World = {"remap"}
PROPERTY
    EndsFollowed
\* Every change and removal may be over and discovery have nothing to do.
CHECK_DEADLOCK FALSE
