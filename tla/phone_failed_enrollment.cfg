\* A phone with a terminal, a second enrollment that the server never hears of.
CONSTANTS
    None = None
    Keys = {1, 2}
    Ids = {t1}
    BatchMax = 1
    Syncs = {h1}
SPECIFICATION Spec
INVARIANTS OneTerminalSignsRight
