SPECIFICATION MonitoringSpec
CONSTANTS
  c1 = c1
  w1 = w1
  w2 = w2
  d1 = d1
  s1 = s1
  s2 = s2
  Calls <- MCCalls
  Waits <- MCWaitCalls
  Sessions <- MCSessions
  NoSession = NoSession
  DeclarationIds <- MCDeclarations
  Mutation = "mutation"
  Nobody = Nobody
  MutationQueueDepth = 0
  PerSession = 1
  PerProcess = 2
  Asked <- MCAsked
  Limit = 2
  Cap = 2
  PollInterval = 1
  Backoffs <- MCBackoffs
INVARIANT NoEntryOutlives
CHECK_DEADLOCK FALSE
