\* Up to three candidates, two models of which one has a budget of one token.
SPECIFICATION Spec
CONSTANTS
  big = big  small = small
  Models = {big, small}
  ProviderNames = {p1, p2}
  MaxCandidates = 3
  Backoffs = {1, 4}
  TicksPerSecond = 2
  MaxTokens = 2
  Budget <- SmallBudget
INVARIANTS
  StatusTellsOutcome
  MetricsMatchAttempts
