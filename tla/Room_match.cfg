SPECIFICATION Spec
CONSTANTS
  h = h
  g = g
  a = a
  j = j
  b = b
  c = c
  P = {h, g, a, b}
  Kind <- FullKind
  Token <- FullToken
  Mode <- BothModes
  ThreePlayer = {"three"}
  SeatCount <- ThreeOrOne
  Limits = {3, 4}
  Saves = {FALSE}
  LoopBound = 2
  MaxWins = 1
CHECK_DEADLOCK FALSE
INVARIANTS TypeOK RosterSound PresentPlayersPlay OnlyDesertedRoomsExpire
PROPERTIES ResultsAreSeen LeaversStayOut
