CONSTANTS
  a = a
  eos = eos
  stop = stop
  Vocab <- MCVocab
  Eos = eos
  Stops <- MCStops
  NoToken = NoToken
  Prompts <- OnePrompt
  Limits = {0, 1, 2}
  Tensors <- MCTensors
  Times = {1}
  TdrBudget = 2
  RecentCap = 2
  Slack = 64
  WorkMax = 200
SPECIFICATION Spec
INVARIANTS LimitRespected
CHECK_DEADLOCK FALSE
