SPECIFICATION Spec
CONSTANTS
  s1 = s1  s2 = s2  u1 = u1  u2 = u2  u3 = u3  d1 = d1
  c1 = c1  c2 = c2  c3 = c3
  Undated = Undated  NoItem = NoItem  NoCluster = NoCluster  NoKey = NoKey
  Source = {s1, s2}
  Item <- ThreeItems
  Cluster <- ThreeClusters
  EventKey = {k1}
  Worker = {w1}
  Near <- Chain
  ClusterLimit = 500
  MaxPush = 3
  MaxFault = 1
CHECK_DEADLOCK FALSE
PROPERTY StoriesOpenOnlyWhenNoneIsNear
