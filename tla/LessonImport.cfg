SPECIFICATION Spec
CONSTANTS
  tab1 = tab1
  Page <- MCOnePage
  Type <- MCType
  Key <- MCKey
  Level <- MCLevel
  Label <- MCLabel
  Batches <- MCBatches
  Start <- MCStart
  Models <- MCModels
  MaxRequests = 3
  MaxChanges = 1
  MaxCrashes = 1
INVARIANTS
  NoTwins
  Repeatable
  ExactForDistinctCards
  ReceiptsAreTrue
  ConfirmedIsDurable
PROPERTIES
  CommitsWhatWasPreviewed
