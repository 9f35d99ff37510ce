\* Two concurrent syncs of one ticket and a cancellation, no faults.
CONSTANTS
    d1 = d1  d2 = d2  a1 = a1  a2 = a2  t1 = t1  t2 = t2  t3 = t3
    None = None  NoRow = NoRow
    Ids = {t1}
    Devices = {d1}
    PreEnrolled = {d1}
    Agents = {a1}
    DeviceAgent <- OneAgent
    Holds <- OwnTickets
    Signer <- AllSignedByD1
    LocalTime <- AllOnTime
    MaxDrift = 1
    BatchMax = 1
    MaxClock = 1
    SyncHandlers = {h1, h2}
    Supervisors = {s1}
    Enrollers = {}
    Admins = {}
    Faults = FALSE
SPECIFICATION Spec
PROPERTIES CancelledIsFinal
