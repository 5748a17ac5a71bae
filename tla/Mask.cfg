SPECIFICATION FairSpec
CONSTANTS
    HashSize = 4
    IntMax = 15
    SizeMax = 63
    SigLen = 3
    ULen = 3
    MaxLen = 63
CHECK_DEADLOCK FALSE
INVARIANTS TypeOK EachByteOnce OpensAsSealed
PROPERTIES Ends
