SPECIFICATION Spec
CONSTANTS
    NoName = NoName
    Identity <- TwoUsers
    Document <- OneMemo
    Text = {"t1", "t2"}
    Master = {2, 5}
    Exp <- Exps
    Mul <- Times
    H <- Hashes
    Hash <- Digests
    Generator = {7, 9}
    Ephemeral = {4}
    MaxRuns = 7
CHECK_DEADLOCK FALSE
INVARIANTS TypeOK AcceptsOwnOnly OpensForReceiverOnly
PROPERTIES ImplementsProvenance
