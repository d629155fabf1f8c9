CONSTANTS
    Formats = {"claude", "chat", "responses"}
    Calls = {c1}
    Hosted = {h1}
    TokenCounts = {1, 9}
    MaxEvents = 5
    MaxBytes = 40
SPECIFICATION Spec
INVARIANTS TypeOK TextOnce BodyHasStreamedItems ReplayIsSame SnapshotBytes
PROPERTY ImplementsResponseStream
CHECK_DEADLOCK FALSE
