---------------------------- MODULE MCChatHandler ----------------------------
EXTENDS ChatHandler, TLC

CONSTANTS big, small

SmallBudget == [m \in {small} |-> 1]
=============================================================================
