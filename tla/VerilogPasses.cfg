CHECK_DEADLOCK FALSE
SPECIFICATION Spec
CONSTANTS
  MaxTerms = 2
  MaxPasses = 3
  Passes <- MCPasses
  Files <- MCFiles
INVARIANTS
  TypeOK
  ValuesKept
  WidthsKept
  TermsKept
  FreshWires
