SPECIFICATION LiveSpec
CONSTANTS
  Players = {p1, p2, p3}
  Teamplay = TRUE
  TickSpeed = 1
  EndSeconds = 1
  TeambalanceTime = 1
  PlayerSlots = 64
  MatchSwap = 1
  ResetOnMatchEnd = FALSE
  Warmups = {1}
  Countdowns = {1}
  ReadyModes = {0, 1}
  Minimums = {1}
  Commands <- Everything
  Lobby = FALSE
  MaxMiscount = 0
  Seconds <- Pauses
  Reloads = TRUE
  Orders <- OneOrder

PROPERTIES GameGoesOn TeamsEvenOut
