SPECIFICATION FairSpec
CONSTANTS
  Seats = {1, 2}
  Kind <- PairKind
  TimeControl = "Unlimited"
  TurnTime = 1
  ResponseTime = 1
  Watchdog = 2
  TurnSets <- AnyTurn
  MaxWins = 2
  MaxKyoku = 2
  MaxTurns = 1
  MaxIds = 2
INVARIANTS AutomatedSeatNeverWaited JournalIsPublicPlusWithheld NoFutureLeak
PROPERTY OpenOnlyForConnectedHuman
