SPECIFICATION McpSpec
CONSTANTS
  Urls = {u1}
  MaxTokens = 3
  MaxEvents = 2
  Fibers = {f1, f2}
INVARIANT SignInWins
