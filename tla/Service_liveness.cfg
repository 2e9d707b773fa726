SPECIFICATION CastSpec
CONSTANTS
  o1 = o1
  o2 = o2
  o3 = o3
  o4 = o4
  Casts <- HatchOrResume
  d1 = d1
  d2 = d2
  human = human
  Nobody = Nobody
  Origin = Origin
  Untracked = Untracked
  Ops <- FourOps
  Declarations <- TwoDeclarations
  DeclarationOf <- OneElsewhere
  ToolOf <- HatchAndComposites
  Repairers = {}
  Operators = {human}
  MutationQueueDepth = 1
  MaxFaults = 0
  MaxCrashes = 1
PROPERTIES
  EveryCallEnds
  LeftoversAreDecided
  ParkedUntilResolved
