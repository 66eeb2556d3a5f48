SPECIFICATION Spec
CONSTANTS
  Players = {p1, p2, p3, p4}
  Teamplay = TRUE
  TickSpeed = 1
  EndSeconds = 1
  TeambalanceTime = 1
  PlayerSlots = 64
  MatchSwap = 2
  ResetOnMatchEnd = TRUE
  Warmups = {1}
  Countdowns = {0}
  ReadyModes = {3}
  Minimums = {1}
  Commands <- Moves
  Lobby = FALSE
  MaxMiscount = 0
  Seconds <- UntilReady
  Reloads = TRUE
  Orders <- AllOrders
SYMMETRY Symmetry
INVARIANTS TeamSizes BalancerAwake SomeoneToWaitFor
