SPECIFICATION FairSpec
CONSTANTS
  Seats = {1, 2, 3}
  Kind <- HumanKind
  TimeControl = "Casual"
  TurnTime = 1
  ResponseTime = 1
  Watchdog = 2
  TurnSets <- DrawTurn
  MaxWins = 0
  MaxKyoku = 1
  MaxTurns = 1
  MaxIds = 3
INVARIANTS TypeOK OpenDecisionWaits
PROPERTIES Contract DefaultExactlyWhenLate EveryDecisionEnds
