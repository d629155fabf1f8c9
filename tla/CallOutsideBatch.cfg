CONSTANTS
    s1 = s1
    s2 = s2
    Sessions = {s1, s2}
    Resolvers = {}
    Restart = boot
    Tools = {1, 2}
    MayCall <- MCMayCall
    MaxStops = 0
    Nobody = nobody
SPECIFICATION Spec
INVARIANT PendingCovered
