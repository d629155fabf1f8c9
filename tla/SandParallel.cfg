\* A Sand turn with two caller tools in one segment.
SPECIFICATION FairSpec
CONSTANTS
  a = a
  Calls = {a, b}
  Hosted = {}
  Fetches = {}
  Blobs = {}
  Requests <- ParallelSand
  MaxPendingTools = 2
  MaxBlob = 1
  MaxBlobs = 1
  MaxFrames = 6
  MaxSteps = 2
  MaxUses = 1
PROPERTIES
  ImplementsAgentTurn
CHECK_DEADLOCK FALSE
