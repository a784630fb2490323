\* Answers of five frames, conversations of six messages, schemas of three levels.
SPECIFICATION Spec
CONSTANTS
  ToGrammar <- schemaToGBNF
  Letters = {"a", "b"}
  Deltas <- MCDeltas
  MaxFrames = 5
  MaxMessages = 6
  MaxCalls = 2
  Schemas <- MCSchemas
  ChatRequests <- MCChatRequests
  EmbedCalls <- MCEmbedCalls
  Values <- MCValues
CHECK_DEADLOCK FALSE
INVARIANTS StreamAsUnary ResultsFollowCalls GrammarExact RequestKept EmbeddingsKept
