SPECIFICATION SSpec
CONSTANTS
    r1 = r1  r2 = r2  r3 = r3
    browser = browser  script = script
    pw1 = pw1  pw2 = pw2
    Requests = {r1, r2, r3}
    Clients <- MCClients
    Browsers <- MCBrowsers
    Passwords <- MCPasswords
    Old = old
    None = none
    MaxExpiries = 1
SYMMETRY MCSymmetry
CHECK_DEADLOCK FALSE
INVARIANTS
    STypeOK
    EntryEarned
    RefusedForCause
    SignedOutStaysOut
PROPERTY
    LogoutHolds
