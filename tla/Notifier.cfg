SPECIFICATION Spec
CONSTANTS
  d1 = d1
  d2 = d2
  u1 = u1
  u2 = u2
  Deck <- MCOneDeck
  Url <- MCTwoUrls
  MaxDue = 2
  Targets <- MCTwoTargets
  Edits <- MCAnyEdit
  MaxEdits = 2
  MaxMoves = 1
  MaxRestarts = 1
INVARIANTS
  BaselineWasHeard
PROPERTIES
  NoStaleTarget
  EditsTakeEffect
  DueIsTold
  EmptiedDecksAreZeroed
CHECK_DEADLOCK FALSE
