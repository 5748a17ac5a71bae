SPECIFICATION ShareSpec
CONSTANTS
    t1 = t1
    ann = ann
    bob = bob
    c1 = c1
    c2 = c2
    j1 = j1
    j2 = j2
    Tab <- OneTab
    Member <- TwoMembers
    Typed <- AsMembers
    Call <- OneCall
    Job <- TwoJobs
    Null = Null
    Empty = Empty
    IncompleteKeys = TRUE
    MaxDocs = 2
SYMMETRY Swaps
INVARIANTS ShareTypeOK ShownIsAuthentic DownloadIsVerified BusyHasHandler
PROPERTIES ImplementsMailbox
