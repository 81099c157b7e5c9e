SPECIFICATION MCSpec
CONSTANTS
    Servers = {m1, m2}
    Agents = {g1}
    TurnIds = {t1, t2}
    MaxTurns = 3
    MaxEdits = 1
    Sessions = {s1, s2}
    Scratch = {s2}
    MaxKeyEdits = 2
    MaxPushes = 2
    Crew = {a1, a3}
    Subagents = {a3}
    Presets = {"standard", "minimal"}
    Excluded = {"minimal"}
    Offers = {"o1", "o2"}
    MaxMoves = 2
    MaxTold = 1
    Names = {1, 2}
    Chart = {1}
    Rooms = {r1}
    MaxPageEdits = 2
    MaxOther = 2
    Owners = {w1, w2}
    MaxBuilds = 3
    MaxMishaps = 3
    Team = {b1, b2}
    MAX_INSTRUCTIONS_BYTES = 1
    MaxTexts = 2
    MaxSleeps = 2
    MaxSteps = 2
    MaxFaults = 1
    Paths = {p1, p2, x1}
    Attachments = {x1}
    Callers = {c1, c2}
    MaxVersions = 2
    MaxCalls = 2
    Handlers = {h1, h2}
    MaxSetups = 3
    MaxRebuilds = 1
    MaxBoxes = 2
    MaxTroubles = 2
    Askers = {q1, q2}
    MaxTree = 2
    MaxNaps = 2
    MaxSetbacks = 1
    Repos = {"r1"}
    Makers = {k1, k2}
    Visits = {v1}
    MaxMade = 2
    MaxStops = 1
    Family = {1, 2, 3, 4}
    Parent <- MCParent
    Delegated = {2, 3}
    MaxComings = 4
    MaxOpened = 2
INVARIANTS
    NeverAMix
    EditsReach
    ToolsFollow
    PickServed
    OneLiveBuild
    BaselineCurrent
    NoticeOnce
    GuardHonoured
    SetupOnce
    ServedForGood
    SnapshotCurrent
    RightRepository
    CountsMatch
PROPERTIES
    TurnStable
CHECK_DEADLOCK FALSE
