\* One sync at a time, no faults: a batch of three.
CONSTANTS
    d1 = d1  d2 = d2  a1 = a1  a2 = a2  t1 = t1  t2 = t2  t3 = t3
    None = None  NoRow = NoRow
    Ids = {t1, t2, t3}
    Devices = {d1}
    PreEnrolled = {d1}
    Agents = {a1}
    DeviceAgent <- OneAgent
    Holds <- OwnTickets
    Signer <- AllSignedByD1
    LocalTime <- AllOnTime
    MaxDrift = 1
    BatchMax = 3
    MaxClock = 1
    SyncHandlers = {h1}
    Supervisors = {}
    Enrollers = {}
    Admins = {}
    Faults = FALSE
SPECIFICATION Spec
INVARIANTS ChainVerifiesInSomeOrder
