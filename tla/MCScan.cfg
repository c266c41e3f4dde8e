CONSTANTS
  Chosen = {"comments", "lines", "operators", "numbers", "clients", "words", "strings", "names", "escapes", "bits", "hex", "dollar"}
  Encoders = {"string", "bytes", "restricted", "unrestricted"}
  Inputs <- MCInputs
  Char <- MCChar
  Clients = {"Tokens", "Split", "Last"}
  Keyword <- MCKeywords
  Reserved <- MCReserved
  ExpPrefix <- MCPrefix
  AllowedExp <- MCWords
  MaxPlaceholderIdx = 3
SPECIFICATION Spec
INVARIANTS TypeOK TokensCutRight ClientResults LiteralValues IdentNormalized RoundTrip
PROPERTIES Returns CutsInput
CHECK_DEADLOCK FALSE
