SPECIFICATION OutboxSpec
CONSTANTS
  o1 = o1
  d1 = d1
  Origin = Origin
  Untracked = Untracked
  Ops <- MCOps
  Declarations <- MCDeclarations
  DeclarationOf <- MCDeclarationOf
  ToolOf <- MCToolOf
  Notices = {n1, n2}
  MaxTries = 2
  MaxMishaps = 2
  Resumed = TRUE
CONSTRAINT OnePreState
INVARIANTS
  TransactionsTellTrue
  SentOncePerReason
PROPERTIES
  RowsAreDecided
