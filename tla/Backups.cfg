CONSTANTS
  Changes = {c1}
  Interval = 1
  Grace = 1
  MaxCrashes = 1
  MaxTools = 1
  MaxSpoilt = 1
  MaxJumps = 1
SPECIFICATION Spec
INVARIANTS BundlesAreWhole HealthIsTrue
PROPERTIES ReportsAreTrue DailyGoesOn
