\* Two turns of any kind over two conversations, while a sync replaces the two
\* chunks there are. The system may stop: nobody is obliged to ask.
SPECIFICATION Spec
CONSTANTS
  Limit = 1
  TopK = 1
  MaxIterations = 2
  MaxTurns = 2
  MaxConversations = 2
  MaxChunks = 2
INVARIANTS
  TypeOK
  CitationsSound
  AnsweredOrNot
  EvaluationLeavesNothing
  WindowBound
PROPERTIES
  TurnEnds
CHECK_DEADLOCK FALSE
CONSTRAINT TurnsLeft
