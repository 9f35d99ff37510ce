\* A phone with one ticket, enrolled again and again by overlapping enrollments, two syncs at once; the network loses, the application is killed.
CONSTANTS
    None = None
    Keys = {1, 2}
    Ids = {t1}
    BatchMax = 1
    Syncs = {h1, h2}
SPECIFICATION FairSpec
INVARIANTS PhoneTypeOK SentIsStored EnrolledOnceSignsRight
PROPERTIES PendingIsDelivered
