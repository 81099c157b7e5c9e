SPECIFICATION QuietSpec
CONSTANTS
    Sessions = {root}
    root = root
    MaxQueue = 3
    MaxCrash = 2
    Fails = {"ensure", "tick", "release"}
    Viewers = {"onRecord", "inTurn"}
INVARIANTS
    NoTurnCut
PROPERTIES
    PutAway
