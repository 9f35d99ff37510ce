\* One day of one agent with one ticket; a closing, two receivers and two mayors at once, the closing and one of each may die; deposits under, over and just at the threshold.
CONSTANTS
    None = None  a1 = a1  t1 = t1  t2 = t2
    Ids = {t2}
    Agents = {a1}
    AgentOf <- OneAgent
    Amount <- Amounts
    Days = {1}
    Threshold = 1
    Counted = {0, 1, 2}
    MaxDeposits = 2
    Closers = {c1}
    Receivers = {r1, r2}
    Mayors = {m1, m2}
    Mortal = {c1, r2, m2}
SPECIFICATION FairSpec
INVARIANTS CashTypeOK FiguresAgree LogIsTruthful MoneyIsTraced
PROPERTIES CollectedIsClosed SettledClosureIsFinal RequestsTakeEffect
