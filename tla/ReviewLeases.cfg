SPECIFICATION Spec
CONSTANTS
  c1 = c1
  c2 = c2
  k1 = k1
  k2 = k2
  Client <- MCClient
  Language <- MCLanguage
  Card <- MCCard
  deckOf <- MCDeckOf
  TerminalCap = 1
  TerminalDrop = 1
  MaxTokens = 2
  MaxChanges = 2
  MaxHandles = 2
INVARIANTS
  LeasesExclusive
  OneSessionPerClient
  AtMostOnce
  AnswersWhatWasShown
  LeaseInv
SYMMETRY Symmetry
PROPERTIES
  EndedForGood
  ImplementsContract
