\* Five requests, three callers and room for two, a token every other tick.
SPECIFICATION Spec
CONSTANTS
  Requests = {r1, r2, r3, r4, r5}
  Headers <- MCHeaders
  None = None
  Shared = Shared
  Burst = 1
  Interval = 2
  IdleTicks = 2
  Delay = 0
  MaxEntries = 2
  MaxTime = 3
SYMMETRY RequestSymmetry
CONSTRAINT FourWithoutProxy
CHECK_DEADLOCK FALSE
INVARIANTS RateKept MapBounded
PROPERTIES RefusedOnlyOverRate
