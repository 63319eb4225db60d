SPECIFICATION FairSpec
CONSTANTS
  h = h
  g = g
  a = a
  j = j
  b = b
  c = c
  P = {h, a, b}
  Kind <- MixedKind
  Token <- MixedToken
  Mode <- OneMode
  ThreePlayer = {}
  SeatCount <- Two
  Limits = {3}
  Saves = {FALSE}
  LoopBound = 2
  MaxWins = 0
CHECK_DEADLOCK FALSE

PROPERTIES DisconnectedAreForgotten
