\* Two calls, one restart, tokens that live for one tick or none.
SPECIFICATION FairSpec
CONSTANTS
  Calls = {c1, c2}
  NoCall = NoCall
  Lifetimes = {0, 1}
  MaxIssued = 3
  MaxTime = 2
  MaxCrashes = 1
CHECK_DEADLOCK FALSE
INVARIANT RefreshKept
PROPERTIES NeverOlder CallsReturn
