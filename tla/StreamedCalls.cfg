\* Two letters, answers of three frames, no conversation.
SPECIFICATION Spec
CONSTANTS
  ToGrammar <- schemaToGBNF
  Letters = {"a", "b"}
  Deltas <- MCDeltas
  MaxFrames = 3
  MaxMessages = 0
  MaxCalls = 1
  Schemas = {}
  ChatRequests = {}
  EmbedCalls = {}
  Values = {}
CHECK_DEADLOCK FALSE
INVARIANTS CallsStreamed
