\* Startup, refreshes and shutdown with three providers of every type.
SPECIFICATION Spec
CONSTANTS
  p1 = p1  p2 = p2  p3 = p3
  m = m  g = g  h = h  x = x
  r1 = r1
  Registered <- Order
  Ids = {m, g, h, x}
  Globs = {g, h}
  Wanted = {m, x}
  Match <- Pairs
  Caps = {"vision", "tools"}
  Overrides <- Overriding
  MaxLoad = 1
  Deployments <- Cases
  Budget <- Limited
  Reqs = {r1}
  MaxSignals = 2
INVARIANTS
  RoutedToItsServers
  LeastLoadedFirst
  AutoRouted
  LookupsAgree
  BudgetOfPrimary
  DetailsOptional
  SurpriseCostsItself
  ServesUntilStopped
PROPERTIES
  StopEnds
CHECK_DEADLOCK FALSE
