CONSTANTS
  a = a
  eos = eos
  stop = stop
  Vocab <- MCVocab
  Eos = eos
  Stops <- MCStops
  NoToken = NoToken
  Prompts <- MCPrompts
  Limits = {0, 1, 3, 4}
  Tensors <- OneTensor
  Times = {1, 3}
  TdrBudget = 3
  RecentCap = 2
  Slack = 2
  WorkMax = 68
SPECIFICATION FairSpec
INVARIANTS TypeOK AnswerOK TdrIsSignalled BudgetSuffices
PROPERTIES ControlSeesCommitted GenerationSpec AlwaysAnswers
CHECK_DEADLOCK FALSE
