\* One closing, two receivers at once, no faults.
CONSTANTS
    None = None  a1 = a1  t1 = t1  t2 = t2
    Ids = {t2}
    Agents = {a1}
    AgentOf <- OneAgent
    Amount <- Amounts
    Days = {1}
    Threshold = 1
    Counted = {0, 2}
    MaxDeposits = 2
    Closers = {c1}
    Receivers = {r1, r2}
    Mayors = {}
    Mortal = {}
SPECIFICATION Spec
INVARIANTS OneDepositPerClosure
