SPECIFICATION FairSpec
CONSTANTS
    Sessions = {root, child}
    root = root
    child = child
    MaxQueue = 4
    MaxCrash = 0
    Fails = {"ensure", "tick"}
    Viewers = {}
PROPERTIES
    ArchivedGone
