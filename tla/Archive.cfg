\* Two frames, the first read by two kept links, through every step of an
\* archive of either origin and either way of swapping links, with two stops and
\* two changes from outside of any kind.
SPECIFICATION FairSpec
CONSTANTS
    Files <- TwoFiles
    Links <- TwoLinks
    FileOf <- OfFirst
    Swaps <- BothSwaps
    MaxFaults = 2
    MaxChanges = 2
    World <- Everything
INVARIANTS
    KeptLinksRead
    NoLinkLost
PROPERTIES
    ForeignLinkStays
    ImplementsPromise
    ArchiveSettles
\* An archive ends once it has settled.
CHECK_DEADLOCK FALSE
