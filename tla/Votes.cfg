SPECIFICATION Spec
CONSTANTS
  Clients = {1, 2}
  MaxRoom = 1
  Configs <- FourConfigs
  YesPercentage = 50
  MaxVotes = 2
INVARIANTS TypeOK OneBallotToAClient VictimIsThere PassedByThoseHere EndsInTime
