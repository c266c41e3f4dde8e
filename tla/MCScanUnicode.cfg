CONSTANTS
  Chosen = {"unicode"}
  Inputs <- MCTexts
  Char <- MCChar
  Clients = {"Tokens"}
  Keyword <- MCWords
  ExpPrefix <- MCPrefix
  AllowedExp <- MCWords
  MaxPlaceholderIdx = 3
SPECIFICATION Spec
INVARIANTS IdentNormalized
CHECK_DEADLOCK FALSE
