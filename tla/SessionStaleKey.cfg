SPECIFICATION SessionSpec
CONSTANTS
    t1 = t1
    ann = ann
    bob = bob
    c1 = c1
    c2 = c2
    c3 = c3
    Tab <- OneTab
    Member <- TwoMembers
    Call <- ThreeCalls
    Null = Null
    Empty = Empty
    IncompleteKeys = FALSE
INVARIANTS KeyMatchesUser
