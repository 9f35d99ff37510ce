\* Enrollments, blocks and revocations at once, any of which may die.
CONSTANTS
    None = None
    Devices = {k1, k2}
    PreEnrolled = {k1}
    Enrollers = {e1, e2}
    Admins = {m1, m2}
    Faults = TRUE
SPECIFICATION RegistrySpec
INVARIANTS RegistryTypeOK DeactivationLogIsTruthful
PROPERTIES ImplementsTerminalLife
