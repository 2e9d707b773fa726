SPECIFICATION WatcherFairSpec
CONSTANTS
  f1 = f1
  g = g
  p1 = p1
  p2 = p2
  Files = {f1, g}
  Older = {g}
  NameOf <- OneName
  Paths = {p1, p2}
  Permitted = {p1}
  NoFile = NoFile
  MaxRestarts = 1
  MaxFailings = 1
  MaxMeddling = 1
  Careful <- MCCareful
INVARIANTS DeliveredOnce CommitsWithinPlan OpenIsFollowed
PROPERTIES FilesSurvive InboxDrains
