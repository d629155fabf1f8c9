CONSTANTS
    Formats = {"claude", "chat", "responses"}
    Calls = {c1}
    Hosted = {h1}
    TokenCounts = {1, 9}
    MaxEvents = 3
    MaxBytes = 100
SPECIFICATION Spec
INVARIANT BodyInStreamOrder
CHECK_DEADLOCK FALSE
