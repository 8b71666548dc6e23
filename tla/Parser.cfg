\* Every construct in every other, and every loss or doubling of a token.
CONSTANTS
  Source <- MCSource
  Identifier <- MCIdentifier
  Literal <- MCLiteral
  MaxDepth = 8
SPECIFICATION ParserSpec
INVARIANTS ParserTypeOK Reproduces AcceptedIsWhole DamageIsLocal
PROPERTY Ends
\* A file is parsed once.
CHECK_DEADLOCK FALSE
