SPECIFICATION McpFairSpec
CONSTANTS
  Urls = {u1, u2}
  MaxTokens = 2
  MaxEvents = 2
  Fibers = {f1, f2}
INVARIANTS
  NoOrphanClient
PROPERTY MountFollows
