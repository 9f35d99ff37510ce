\* One sync at a time and two blocks or revocations of the terminal at once; no faults.
CONSTANTS
    d1 = d1  d2 = d2  a1 = a1  a2 = a2  t1 = t1  t2 = t2  t3 = t3
    None = None  NoRow = NoRow
    Ids = {t1, t2}
    Devices = {d1}
    PreEnrolled = {d1}
    Agents = {a1}
    DeviceAgent <- OneAgent
    Holds <- OwnTickets
    Signer <- AllSignedByD1
    LocalTime <- Dates
    MaxDrift = 1
    BatchMax = 2
    MaxClock = 0
    SyncHandlers = {h1}
    Supervisors = {}
    Enrollers = {}
    Admins = {m1, m2}
    Faults = FALSE
SPECIFICATION FairSpec
INVARIANTS DeactivationIsAudited FlagIsNeverSilent
PROPERTIES BatchIsAnswered DrainedDeviceIsSilent DeactivationCompletes
