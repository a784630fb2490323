\* Both protocols, all wrappings, up to three texts, cut anywhere.
SPECIFICATION FairSpec
CONSTANTS
  Dialects = {"openai", "anthropic"}
  Wrappings = {"bare", "bounded", "timed"}
  MaxTexts = 3
CHECK_DEADLOCK FALSE
INVARIANTS
  InOrder
  WholeStream
PROPERTIES
  DisconnectEndsServing
  AnthropicLeavesNothing
