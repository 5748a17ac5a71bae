SPECIFICATION Spec
CONSTANTS
    ann = ann
    p1 = p1
    p2 = p2
    o1 = o1
    o2 = o2
    r1 = r1
    r2 = r2
    Address <- OneMember
    Lower <- SameOne
    Member <- OneMember
    Password <- TwoPasswords
    OTP <- TwoOTPs
    Request <- TwoSlots
    Null = Null
    OtpLifetime = 1
    TtlDelay = 1
    KeygenMayFail = TRUE
    MaxTime = 2
    MaxPending = 2
    MaxCrashes = 1
SYMMETRY Swaps
INVARIANTS OneAccountPerAddress OneOfferPerAddress WinnerOwnsAccount
PROPERTIES ImplementsEnrolment OfferStaysRedeemable
