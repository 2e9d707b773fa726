SPECIFICATION Spec
CONSTANTS
  o1 = o1
  o2 = o2
  o3 = o3
  d1 = d1
  Nobody = Nobody
  Origin = Origin
  Untracked = Untracked
  Ops <- ThreeOps
  Declarations <- OneDeclaration
  DeclarationOf <- ThreeOnOne
  ToolOf <- OneOfEach
  Repairers = {o3}
  Operators = {}
  MutationQueueDepth = 1
  MaxFaults = 1
  MaxCrashes = 1
INVARIANTS
  ForgottenNeverActed
  RecoveryMeetsNoLiveCall
PROPERTIES
  IntentBeforeEffect
  CompletedIsTrue
  ImplementsLedger
