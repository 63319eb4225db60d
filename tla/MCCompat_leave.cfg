SPECIFICATION Spec
CONSTANT
  Parts = {"match"}
  \* two Ranked connections and a validation: see MCCompat
  C = {"a1", "a2", "b1"}
  Token = {"A", "B"}
  TokenOf <- TwoTokens
  KindOf <- OneValidates
  Quitters = {"a2", "b1"}
  Revocable = {"A"}
  MaxInterruptions = 1
  BatchSize = 2
  MaxActive = 1
  MaxQueue = 2
  \* two Bots and a built-in one over two Kyoku of two Decisions
  Seats = {"e", "s", "built"}
  Bots = {"e", "s"}
  Grace = 1
  Bank = 2
  TurnTime = 3
  MaxKyoku = 2
  MaxTurns = 2
  MayFail = TRUE
PROPERTIES
  MatchOutlivesItsBots
CHECK_DEADLOCK FALSE
