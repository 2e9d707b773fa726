SPECIFICATION Spec
CONSTANTS
  Instances = {i1, i2, i3}
  None = None
  NoName = NoName
  SegmentLines = 2
  MaxRecords = 5
  Latest = 2
  KeptBackups = 1
  KeptSnapshots = 1
  MaxContents = 1
  MaxStamps = 1
  MaxFaults = 1
  Careful <- MCCareful
SYMMETRY Symmetry
INVARIANTS AckedStaysReadable NoFalseBreak FailureNamesWayBack FallenAreSeen
