SPECIFICATION Spec
CONSTANTS
  Players = {p1, p2, p3}
  Teamplay = FALSE
  TickSpeed = 1
  EndSeconds = 1
  TeambalanceTime = 1
  PlayerSlots = 64
  MatchSwap = 1
  ResetOnMatchEnd = FALSE
  Warmups = {0, 1}
  Countdowns = {0, 1}
  ReadyModes = {0, 1, 2}
  Minimums = {0, 1, 2}
  Commands <- Settings
  Lobby = TRUE
  MaxMiscount = 0
  Seconds <- UntilReady
  Reloads = FALSE
  Orders <- AllOrders
SYMMETRY Symmetry
INVARIANTS TypeOK TeamSizes WorldPaused WaitsForPlayers
PROPERTIES LastPlayerResets MatchNeedsPlayers
