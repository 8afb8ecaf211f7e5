SPECIFICATION FairSpec
CONSTANTS
  Site = {s1}
  Profile = {p1, p2}
  Link = {a, b}
  Ttl = 3
  MaxRetries = 3
  MaxBackoff = 2
  LinkLimit = 1
  PageSize = 3
INVARIANTS
  EveryProfileIsTried
  LinksComeOnce
PROPERTIES
  DecisionsAreFresh
  EveryPollEnds
