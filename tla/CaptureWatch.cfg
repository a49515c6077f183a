\* A location of two folders on a volume that may be mounted, with a change by the
\* user and a removal or a pull, under the fairness of discovery.
SPECIFICATION FairSpec
CONSTANTS
    v1 = v1
    v2 = v2
    r1 = r1
    r2 = r2
    r3 = r3
    None = None
    Locations = {l1}
    Roots = {r1, r2}
    Volumes = {v1}
    VolumeOf <- OneVolume
    MaxCalls = 2
    MaxChanges = 1
    MaxRemovals = 1
    World <- Prompt
INVARIANTS
    HeldClear
PROPERTIES
    NamesNothingNew
    EndsFollowed
\* Every change and removal may be over and discovery have nothing to do.
CHECK_DEADLOCK FALSE
