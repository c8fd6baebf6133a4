SPECIFICATION FairSpec
CONSTANTS
  a1 = a1
  a2 = a2
  Threads = {a1, a2}
  Ops = 4
  SQS = 2
  CQS = 4
  NCids = 3
  Word = 8
  None = None
INVARIANTS CidsDistinct CompletionFound OwnCompletion NoOverwrite
PROPERTIES ImplementsChannel
CHECK_DEADLOCK FALSE
