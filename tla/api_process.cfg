SPECIFICATION FairSpec
CONSTANTS
  r1 = r1  r2 = r2  r3 = r3  k1 = k1
  Request = {r1, r2, r3}
  Offers <- PostRetryAndRead
  Key = {k1}
  NoKey = NoKey
  PoolSize = 1
  Items = 1
  MaxPool = 6
  MaxFault = 1
  Nobody = Nobody
CHECK_DEADLOCK FALSE
INVARIANTS
  OnePoolUnlessReplaced OutagesHaveACause StoredAnswersAreOfDoneWork RepeatsHaveACause
PROPERTY EveryRequestIsAnswered
