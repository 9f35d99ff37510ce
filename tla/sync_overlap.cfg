\* One ticket, sent by two syncs at once, of its phone and of the same phone enrolled again for another agent, and cancelled before, while and after; faults.
CONSTANTS
    d1 = d1  d2 = d2  a1 = a1  a2 = a2  t1 = t1  t2 = t2  t3 = t3
    None = None  NoRow = NoRow
    Ids = {t2}
    Devices = {d1, d2}
    PreEnrolled = {d1, d2}
    Agents = {a1, a2}
    DeviceAgent <- AgentPerDevice
    Holds <- EnrolledAgain
    Signer <- SignerByDevice
    LocalTime <- Dates
    MaxDrift = 1
    BatchMax = 2
    MaxClock = 1
    SyncHandlers = {h1, h2}
    Supervisors = {s1}
    Enrollers = {}
    Admins = {}
    Faults = TRUE
SPECIFICATION Spec
INVARIANTS TypeOK Acknowledged OutcomesAreAudited SignedByItsDevice ChainIsGrounded
PROPERTIES SettledTicketIsFinal ImplementsLedger
SYMMETRY SlotSymmetry
