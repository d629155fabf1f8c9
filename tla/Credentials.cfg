\* Two callers, any number of requests; ticks of ten seconds, the ten minutes of the caches and the
\* minute of margin cut to two.
SPECIFICATION Spec
CONSTANTS
  Requests = {r1, r2}
  s1 = s1
  s2 = s2
  k1 = k1
  a1 = a1
  Subjects = {s1, s2}
  Keys = {k1}
  Accounts = {a1}
  Auths <- MCAuths
  None = None
  TTL = 2
  Margin = 2
  RefreshTimeout = 1
  ConfigTimeout = 1
  MaxTime = 2
  Lifetimes = {1, 4}
INVARIANTS
  TypeOK
  RunsAsConfigured
PROPERTIES
  CachedTokenLasts
  EveryRequestEnds
