CONSTANTS
  Token <- Kinds
  NRsSeq = 2
  NCtx = 12
  Limit = 10
  Line = 4
  MaxAuto = 1
  MaxPrompts = 2
  Scenarios <- MCCorrect
SPECIFICATION Spec
INVARIANT InjectBehindFuncStart
PROPERTY ImplementsConversation
CHECK_DEADLOCK FALSE
