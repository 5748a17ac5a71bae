SPECIFICATION FairServiceSpec
CONSTANTS
    ann = ann
    Ann = Ann
    p1 = p1
    p2 = p2
    o1 = o1
    r1 = r1
    r2 = r2
    c1 = c1
    Address <- Spelt
    Lower <- SpeltLow
    Member <- OneMember
    Password <- TwoPasswords
    OTP <- OneOTP
    Request <- TwoSlots
    Client <- OneClient
    Null = Null
    OtpLifetime = 1
    TtlDelay = 1
    KeygenMayFail = FALSE
    MaxTime = 0
    MaxPending = 1
    MaxCrashes = 1
INVARIANTS TypeOK ServiceTypeOK KeyIsServed AccountHasKeyFile KeyInv
PROPERTIES IncompleteIsTransient KeyCompleted
