SPECIFICATION Spec
CONSTANTS
  tab1 = tab1
  Page <- MCOnePage
  Type <- MCType
  Key <- MCKey
  Level <- MCLevel
  Label <- MCLabel
  Batches <- MCBatches
  Start <- MCStart
  Models <- MCModels
  MaxRequests = 2
  MaxChanges = 0
  MaxCrashes = 0
PROPERTIES
  PreviewIsExact
