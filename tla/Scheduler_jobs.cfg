SPECIFICATION FairSpec
CONSTANTS
  a1 = a1
  a2 = a2
  b1 = b1
  b2 = b2
  ja = ja
  jb = jb
  d1 = d1
  NoAttempt = NoAttempt
  Origin = Origin
  Untracked = Untracked
  Declarations <- OneDeclaration
  Ops <- FourOps
  Jobs <- TwoJobs
  JobOf <- AttemptsOfTwo
  HomeOf <- TwoAtHome
  DeclarationOf <- FourAtHome
  ToolOf <- FourAutoMerges
  Skippable = {jb}
  Granted = {ja}
  LongLived = FALSE
  MaxCrashes = 1
  MaxFaults = 1
INVARIANTS
  ActsAtMostOnce
  CancelledNeverActs
PROPERTIES
  DueJobsAreDecided
