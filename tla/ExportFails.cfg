SPECIFICATION Spec
CONSTANTS
  p1 = p1
  p2 = p2
  t1 = t1
  t2 = t2
  Process <- MCOneProcess
  Task <- MCTask
  Ops <- MCExport
  MaxGeneration = 3
  MaxCancels = 1
  MaxOrphans = 1
PROPERTIES
  ExportLeavesItUsable
