SPECIFICATION Spec
CONSTANTS
    a = a
    b = b
    r1 = r1
    r2 = r2
    IPs <- MCIPs
    Requests <- MCRequests
    Limits <- MCLimits
    DefaultLimits <- Lax
    MostAttempts = 3
    MostSeconds = 4
    NoLockout = NoLockout
    Idle = Idle
PROPERTIES
    LockoutHoldsUntilExpiry
