SPECIFICATION Spec
CONSTANTS
  k1 = k1  k2 = k2  r1 = r1  r2 = r2  r3 = r3  r4 = r4  r5 = r5  r6 = r6  r7 = r7
  Request <- Mixed
  DefaultLimit = 2
  ResearchLimit = 1
  SseLimit = 2
  Window = 2
  MaxTime = 4
CHECK_DEADLOCK FALSE
SYMMETRY Alike
INVARIANTS RateIsBounded SlotsAreCounted StreamsAreBounded
PROPERTY RefusalsAreDue
