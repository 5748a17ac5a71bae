SPECIFICATION FairPageSpec
CONSTANTS
    ann = ann
    p1 = p1
    o1 = o1
    r1 = r1
    r2 = r2
    tab1 = tab1
    tab2 = tab2
    Address <- OneMember
    Lower <- SameOne
    Member <- OneMember
    Password <- OnePassword
    OTP <- OneOTP
    Request <- TwoSlots
    Page <- TwoPages
    Null = Null
    OtpLifetime = 1
    TtlDelay = 1
    KeygenMayFail = TRUE
    MaxTime = 0
    MaxPending = 2
    MaxCrashes = 0
INVARIANTS PageTypeOK SuccessOnce OtpIsInMail
PROPERTIES SubmittingEnds
CHECK_DEADLOCK FALSE
