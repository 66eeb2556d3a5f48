SPECIFICATION Spec
CONSTANTS
  Players = {p1, p2}
  Teamplay = TRUE
  TickSpeed = 1
  EndSeconds = 1
  TeambalanceTime = 1
  PlayerSlots = 64
  MatchSwap = 1
  ResetOnMatchEnd = FALSE
  Warmups = {1}
  Countdowns = {0}
  ReadyModes = {0}
  Minimums = {1}
  Commands <- Nothing
  Lobby = TRUE
  MaxMiscount = 0
  Seconds <- UntilReady
  Reloads = TRUE
  Orders <- AllOrders
SYMMETRY Symmetry
INVARIANTS TeamSizes
