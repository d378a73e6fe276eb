SPECIFICATION Spec
CONSTANTS
  d1 = d1
  d2 = d2
  u1 = u1
  u2 = u2
  Deck <- MCOneDeck
  Url <- MCOneUrl
  MaxDue = 1
  Targets <- MCOneTarget
  Edits <- MCAnyEdit
  MaxEdits = 1
  MaxMoves = 1
  MaxRestarts = 0
PROPERTIES
  NoPhantomDue
CHECK_DEADLOCK FALSE
