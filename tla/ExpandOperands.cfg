CHECK_DEADLOCK FALSE
SPECIFICATION Spec
CONSTANTS
  MaxTerms = 2
  MaxPasses = 2
  Passes <- MCPasses
  Files <- MCFiles
INVARIANT ExpandKeepsOperands
