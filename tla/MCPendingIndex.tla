--------------------------- MODULE MCPendingIndex ---------------------------
EXTENDS PendingIndex

CONSTANTS s1, s2

\* The second session shares one id with the first.
MCMayCall == s1 :> {1, 2} @@ s2 :> {2}
=============================================================================
