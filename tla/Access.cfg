SPECIFICATION FairSpec
CONSTANTS
  Ids = {d1}
  Requests = {r1}
  Capabilities = {mutate, inspect}
  Instance = {inspect}
  Contract = {mutate, inspect}
  Ceiling = {mutate, inspect}
  NoRow = NoRow
  MaxGeneration = 2
  MaxEpoch = 2
  Clients = {c1}
  GrantIds = {1}
  Tokens = {1, 2, 3}
  Scopes <- MCScopes
  ScopeOf <- MCScopeOf
  MaxClients = 1
  None = None
  SessionIds = {1, 2}
  Streams = {1}
  MaxSessions = 1
  MaxPending = 1
  MaxStreams = 1
CONSTRAINT Bounded
INVARIANTS AuthorityIsCurrent OneRefreshPerGrant
PROPERTIES StreamsCatchUp

