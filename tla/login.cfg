\* A user of any role, two logins at once or one after the other, terminals enrolled, blocked or revoked meanwhile; faults.
CONSTANTS
    None = None  k1 = k1  k2 = k2  u1 = u1  u2 = u2
    Devices = {k1, k2}
    PreEnrolled = {k2}
    DeviceUser <- OwnTerminal
    Users = {u1}
    SoftLimit = 2
    HardLimit = 4
    LockTime = 1
    MaxClock = 1
    Logins = {l1, l2}
    Faults = TRUE
SPECIFICATION Spec
SYMMETRY LoginSymmetry
INVARIANTS LoginTypeOK
PROPERTIES OutOfServiceIsFinal ImplementsLockout
