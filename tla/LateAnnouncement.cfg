\* One serial Agent v1 turn whose stream announces its call late.
SPECIFICATION ProfileSpec
CONSTANTS
  a = a
  Calls = {a}
  Hosted = {}
  Fetches = {}
  Blobs = {}
  Requests <- SerialAgent
  MaxPendingTools = 1
  MaxBlob = 1
  MaxBlobs = 1
  MaxFrames = 6
  MaxSteps = 2
  MaxUses = 1
INVARIANTS
  UnmatchedHadNoExec
CHECK_DEADLOCK FALSE
