CONSTANTS
  a = a
  b = b
  ab = ab
  eos = eos
  Chars <- MCChars
  Tokens <- MCTokens
  Eos = eos
  Piece <- MCPiece
  Language <- MCLanguage
  Rejects <- MCRejects
  Answers <- MCAnswers
  Chains <- DistinctChains
  Limits = {1, 3, 5}
SPECIFICATION Spec
INVARIANTS ScanLagsOneToken BlockIsJustified GrammarInStep AnswerIsExact
CHECK_DEADLOCK FALSE
