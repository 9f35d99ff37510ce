\* One user, two logins at once; the second failure locks for good. No faults.
CONSTANTS
    None = None  k1 = k1  k2 = k2  u1 = u1  u2 = u2
    Devices = {k1, k2}
    PreEnrolled = {k1}
    DeviceUser <- OwnTerminal
    Users = {u1}
    SoftLimit = 1
    HardLimit = 2
    LockTime = 1
    MaxClock = 1
    Logins = {l1, l2}
    Faults = FALSE
SPECIFICATION Spec
PROPERTIES HardLockIsFinal
