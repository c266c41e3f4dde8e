CONSTANTS
  None = None
  TokenId = {"a", ";", "ERROR", "HELPTOKEN", "PLACEHOLDER", "NOT", "IN"}
  Ids = {"a", ";", "ERROR", "HELPTOKEN", "PLACEHOLDER3", "NOT", "IN"}
  MaxToks = 4
  Leads = {1}
  Inputs <- MCInputs
  MaxCalls = 2
SPECIFICATION MCSpec
INVARIANTS IInv TokensNameText CaretOnToken FailureExplained LookaheadInStatement StatementsOfInput ResultsStand
PROPERTIES CallReturns
CHECK_DEADLOCK FALSE
