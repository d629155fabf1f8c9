--------------------------- MODULE MCCredentials ---------------------------
(* Credentials for TLC: one account and key held in every form a file takes. *)
EXTENDS Credentials, TLC
CONSTANTS s1, s2, k1, a1

A(kind, account, key, token, control) ==
  [kind |-> kind, account |-> account, key |-> key, token |-> token, control |-> control]
Jwt(s) == [sub |-> s, exp |-> 2]
Opaque == [sub |-> None, exp |-> Never]

\* A JWT (and a key that may turn out to be somebody else's), the same file
\* with an opaque token, without a key, without an account, never exchanged.
MCAuths ==
  {A("run", a1, k1, Jwt(s1), TRUE), A("run", a1, None, Jwt(s1), TRUE), A("run", a1, k1, Opaque, FALSE),
   A("refresh", a1, k1, Opaque, FALSE), A("refresh", None, k1, NoToken, FALSE),
   A("refresh", None, k1, Jwt(s1), FALSE)}
=============================================================================
