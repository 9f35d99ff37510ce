\* A terminal is revoked, then blocked.
CONSTANTS
    None = None
    Devices = {k1}
    PreEnrolled = {k1}
    Enrollers = {}
    Admins = {m1, m2}
    Faults = FALSE
SPECIFICATION RegistrySpec
PROPERTIES RevocationIsFinal
