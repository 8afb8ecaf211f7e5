SPECIFICATION FairSpec
CONSTANTS
  s1 = s1  s2 = s2
  Source <- OneSource
  Threshold = 2  Cooldown = 3  Interval = 2  ReloadEvery = 2  MaxFetch = 1  Beat = 1  Ttl = 2
  MaxEdit = 2  MaxKill = 1
CHECK_DEADLOCK FALSE
INVARIANTS TypeOK ReloadsAreHonoured
PROPERTIES RegistryIsFollowed EnabledSourcesArePolled
