SPECIFICATION Spec
CONSTANTS
  s1 = s1  s2 = s2
  Source <- TwoSources
  Threshold = 2  Cooldown = 4  Interval = 2  ReloadEvery = 2  MaxFetch = 2  Beat = 2  Ttl = 4
  MaxEdit = 0  MaxKill = 1
CHECK_DEADLOCK FALSE
INVARIANTS RetriesArePaced RestsAreDue HeartbeatLapsesForACause
