SPECIFICATION Spec
CONSTANTS
  p1 = p1
  p2 = p2
  t1 = t1
  t2 = t2
  Process <- MCProcess
  Task <- MCTask
  Ops <- MCProduction
  MaxGeneration = 3
  MaxCancels = 2
  MaxOrphans = 2
SYMMETRY Symmetry
INVARIANTS
  OwnerHoldsWhileOpen
