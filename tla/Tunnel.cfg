SPECIFICATION CalmSpec
CONSTANTS
    Conns = {1, 2, 3, 4}
    Previews = {"p1", "p2"}
    MaxSets = 3
INVARIANTS
    LiveIsRegistered
    WaitersHeard
PROPERTIES
    Reconnects
