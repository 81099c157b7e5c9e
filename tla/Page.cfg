SPECIFICATION PageFairSpec
CONSTANTS
    Cards = {k1, k2}
    Stored = {k1}
    PageUrls = {"u1", "u2"}
    TabIds = {t1, t2}
    MaxClicks = 2
    MaxChanges = 2
    MaxReads = 1
    MaxLosses = 1
INVARIANTS
    NoBlankTab
PROPERTIES
    WaitEnds
CHECK_DEADLOCK FALSE
