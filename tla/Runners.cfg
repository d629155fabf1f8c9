\* Runs of both profiles.
SPECIFICATION FairSpec
CONSTANTS
  a = a
  Calls = {a, b}
  Hosted = {w, f}
  Fetches = {f}
  Blobs = {k1, k2}
  Requests <- MCRequests
  MaxPendingTools = 2
  MaxBlob = 1
  MaxBlobs = 1
  MaxFrames = 6
  MaxSteps = 2
  MaxUses = 2
INVARIANTS
  ProfileTypeOK
  SerialCallsTold
  NoResultWaitsForItsCall
  NoVanishedCall
  BlobAccounting
  ToldCallsRecoverable
PROPERTIES
  ImplementsAgentTurn
  SilentRunEnds
\* Runs end.
CHECK_DEADLOCK FALSE
