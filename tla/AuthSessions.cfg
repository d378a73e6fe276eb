SPECIFICATION Spec
CONSTANTS
  b1 = b1
  b2 = b2
  t1 = t1
  t2 = t2
  proxy = proxy
  Token <- MCToken
  Browser <- MCBrowser
  Remote <- MCRemote
  remoteOf <- MCRemoteOf
  Password <- MCPassword
  Idle = 4
  Absolute = 5
  MaxAttempts = 2
  BaseDelay = 1
  MaxDelay = 3
  Window = 3
  MaxTime = 6
SYMMETRY Symmetry
INVARIANTS
  ActiveSessionsStay
  FewSlips
PROPERTIES
  EndedForGood
  AcceptedInTime
  BlocksGrow
