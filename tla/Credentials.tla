---------------------------- MODULE Credentials ----------------------------
(***************************************************************************)
(* The credential of a request before its run starts: the identity check   *)
(* and token exchange of bootstrapCursorRun, Refresh as the host calls it,  *)
(* and the regional endpoint lookup.  Requests of one credential share a    *)
(* refresh flight, requests of one identity an endpoint flight; a flight    *)
(* has a deadline of its own and goes on when the request that started it   *)
(* has gone.  A clock runs so that tokens and cache entries get old.        *)
(*                                                                          *)
(* A token is what the code can read of it: the subject of the JWT, None    *)
(* for an opaque one, and its expiry.  What the upstream answers is any     *)
(* token or an error.                                                       *)
(***************************************************************************)
EXTENDS Integers, FiniteSets

CONSTANTS
  Requests,       \* callers, each with one request after the other
  Subjects,       \* identities a JWT may name
  Keys,           \* API keys
  Accounts,       \* account ids of the credential files
  Auths,          \* the credentials requests may carry
  None,           \* an empty field
  TTL,            \* identityCheckCacheTTL and serverConfigCacheTTL
  Margin,         \* how long before its expiry a token is not reused
  RefreshTimeout, \* deadline of a refresh flight
  Lifetimes,      \* how long the upstream's tokens may last
  ConfigTimeout,  \* serverConfigTimeout, deadline of an endpoint flight
  MaxTime         \* bound on the clock

\* The expiry of a token that has none: later than any instant compared to it.
Never == MaxTime + TTL + Margin + 1
Token == [sub : Subjects \union {None}, exp : Nat]
NoToken == [sub |-> None, exp |-> 0]

\* kind: a model run, or the host's own Refresh; control: base_url is the
\* control plane, whose regional endpoint has to be asked for.
Auth == [kind : {"run", "refresh"}, account : Accounts \union {None},
         key : Keys \union {None}, token : Token, control : BOOLEAN]

\* The margin of one minute covers the ten seconds of the endpoint lookup.
ASSUME CredentialAssumption ==
  /\ TTL \in Nat /\ MaxTime \in Nat /\ RefreshTimeout \in Nat /\ ConfigTimeout \in Nat
  /\ Lifetimes \subseteq Nat
  /\ Margin \in Nat /\ ConfigTimeout < Margin
  /\ Auths \subseteq Auth /\ Auths # {}
  /\ None \notin Subjects \union Keys \union Accounts

VARIABLES now, req, refreshing, resolving, identity, endpoint
vars == <<now, req, refreshing, resolving, identity, endpoint>>

FlightKeys == (Accounts \union {None}) \X Keys
CacheKeys == Keys \X Subjects
Identities == Subjects \union {None}
NoFlight == [due |-> 0, sub |-> None, on |-> FALSE]
Flight == [due : 0..(MaxTime + RefreshTimeout + ConfigTimeout), sub : Identities, on : BOOLEAN]
NoEntry == [token |-> NoToken, until |-> 0]

\* over: the call has returned, with what it was for or with an error.
Labels == {"over", "check", "refresh", "wait", "minted", "resolve", "asking", "ready"}
Over == [at |-> "over", auth |-> CHOOSE a \in Auths : TRUE, token |-> NoToken, cached |-> FALSE]

Init ==
  /\ now = 0
  /\ req = [r \in Requests |-> Over]
  /\ refreshing = [k \in FlightKeys |-> NoFlight]
  /\ resolving = [i \in Identities |-> NoFlight]
  /\ identity = [k \in CacheKeys |-> NoEntry]
  /\ endpoint = [i \in Identities |-> 0]

KeyOf(a) == <<a.account, a.key>>
Goto(r, at) == req' = [req EXCEPT ![r] = IF at = "over" THEN Over ELSE [@ EXCEPT !.at = at]]

---------------------------------------------------------------------------
(* executorCredential: a run needs an access token and an account. *)
Begin(r) ==
  /\ req[r].at = "over"
  /\ \E a \in Auths :
       req' = [req EXCEPT ![r] =
                 IF a.kind = "run" /\ (a.token = NoToken \/ a.account = None) THEN Over
                 ELSE [Over EXCEPT !.auth = a, !.token = a.token,
                         !.at = IF a.kind = "refresh" THEN "refresh" ELSE "check"]]
  /\ UNCHANGED <<now, refreshing, resolving, identity, endpoint>>

Hit(e) == now < e.until

(* validateCursorCredentialIdentity up to the call of Refresh. *)
CheckIdentity(r) ==
  LET a == req[r].auth
      e == identity[<<a.key, a.token.sub>>]
  IN
  /\ req[r].at = "check"
  /\ CASE a.token.sub = None -> Goto(r, "resolve")
       [] a.token.sub # None /\ a.key = None -> Goto(r, "over")
       [] a.token.sub # None /\ a.key # None /\ Hit(e) ->
            req' = [req EXCEPT ![r].at = "resolve", ![r].token = e.token, ![r].cached = TRUE]
       [] OTHER -> Goto(r, "refresh")
  /\ UNCHANGED <<now, refreshing, resolving, identity, endpoint>>

(* A credential with nothing but an API key adopts the first identity. *)
Activating(a) == a.account = None /\ a.token = NoToken

(* Refresh up to its select: the caller starts the flight of its account and *)
(* key or joins the one under way.                                           *)
Refresh(r) ==
  LET a == req[r].auth
      k == KeyOf(a)
      refused == a.key = None \/ (a.account = None /\ ~Activating(a))
  IN
  /\ req[r].at = "refresh"
  /\ Goto(r, IF refused THEN "over" ELSE "wait")
  /\ refreshing' = IF refused \/ refreshing[k].on THEN refreshing
                   ELSE [refreshing EXCEPT ![k] =
                           [due |-> now + RefreshTimeout, sub |-> a.token.sub, on |-> TRUE]]
  /\ UNCHANGED <<now, resolving, identity, endpoint>>

\* Mutant of Waiting: only callers whose token names the flight's subject are
\* answered.
WaitingAlike(k) == {r \in Requests : /\ req[r].at = "wait" /\ KeyOf(req[r].auth) = k
                                     /\ req[r].auth.token.sub = refreshing[k].sub}

\* The callers that select on the flight.
Waiting(k) == {r \in Requests : req[r].at = "wait" /\ KeyOf(req[r].auth) = k}

(* refreshOnce fails: transport, status, body or deadline. *)
RefreshFails(k) ==
  /\ refreshing[k].on
  /\ refreshing' = [refreshing EXCEPT ![k] = NoFlight]
  /\ req' = [r \in Requests |-> IF r \in Waiting(k) THEN Over ELSE req[r]]
  /\ UNCHANGED <<now, resolving, identity, endpoint>>

Minted == [sub : Subjects, exp : {now + l : l \in Lifetimes}] \union {[sub |-> None, exp |-> Never]}

(* refreshOnce returns a token.  It is held against the credential of the  *)
(* caller that started the flight, and every waiting caller gets it.       *)
RefreshReturns(k) ==
  /\ refreshing[k].on
  /\ refreshing' = [refreshing EXCEPT ![k] = NoFlight]
  /\ \E t \in Minted :
       LET other == refreshing[k].sub # None /\ t.sub # refreshing[k].sub IN
       req' = [r \in Requests |->
                 IF r \notin Waiting(k) THEN req[r]
                 ELSE IF other THEN Over
                 ELSE [req[r] EXCEPT !.at = "minted", !.token = t]]
  /\ UNCHANGED <<now, resolving, identity, endpoint>>

Smaller(a, b) == IF a < b THEN a ELSE b

\* Mutant of Until: the entry lasts as long as the token.
UntilExpiry(t) == Smaller(now + TTL, t.exp)

\* The end of an identityCheckCache entry.
Until(t) == Smaller(now + TTL, t.exp - Margin)

\* Mutant of SameIdentity: the check of refreshOnce is taken to be enough.
SameAsFlight(r) == req[r].token.sub # None

\* The refreshed token names the subject of the caller's own credential.
SameIdentity(r) == req[r].token.sub # None /\ req[r].token.sub = req[r].auth.token.sub

\* Mutant of Mismatch: the exchange is tried again until the identities agree.
MismatchRetried(r) == Goto(r, "refresh")

Mismatch(r) == Goto(r, "over")

(* Refresh after its select, and for a run the rest of                     *)
(* validateCursorCredentialIdentity.                                       *)
Adopt(r) ==
  LET a == req[r].auth
      t == req[r].token
  IN
  /\ req[r].at = "minted"
  /\ \/ /\ a.kind = "refresh"
        /\ Goto(r, "over")
        /\ UNCHANGED identity
     \/ /\ a.kind = "run" /\ ~SameIdentity(r)
        /\ Mismatch(r)
        /\ UNCHANGED identity
     \/ /\ a.kind = "run" /\ SameIdentity(r)
        /\ Goto(r, "resolve")
        /\ identity' = [identity EXCEPT ![<<a.key, a.token.sub>>] = [token |-> t, until |-> Until(t)]]
  /\ UNCHANGED <<now, refreshing, resolving, endpoint>>

(* resolveCursorAgentBaseURL up to its select. *)
Resolve(r) ==
  LET i == req[r].token.sub
      known == ~req[r].auth.control \/ now < endpoint[i]
  IN
  /\ req[r].at = "resolve"
  /\ Goto(r, IF known THEN "ready" ELSE "asking")
  /\ resolving' = IF known \/ resolving[i].on THEN resolving
                  ELSE [resolving EXCEPT ![i] = [due |-> now + ConfigTimeout, sub |-> i, on |-> TRUE]]
  /\ UNCHANGED <<now, refreshing, identity, endpoint>>

Asking(i) == {r \in Requests : req[r].at = "asking" /\ req[r].token.sub = i}

(* fetchCursorServerConfig returns an endpoint, which is cached, or fails. *)
ConfigReturns(i) ==
  /\ resolving[i].on
  /\ resolving' = [resolving EXCEPT ![i] = NoFlight]
  /\ \E ok \in BOOLEAN :
       /\ endpoint' = IF ok THEN [endpoint EXCEPT ![i] = now + TTL] ELSE endpoint
       /\ req' = [r \in Requests |->
                    CASE r \notin Asking(i) -> req[r]
                      [] r \in Asking(i) /\ ok -> [req[r] EXCEPT !.at = "ready"]
                      [] OTHER -> Over]
  /\ UNCHANGED <<now, refreshing, identity>>

(* The run opens its stream with the token and the endpoint. *)
Run(r) ==
  /\ req[r].at = "ready"
  /\ Goto(r, "over")
  /\ UNCHANGED <<now, refreshing, resolving, identity, endpoint>>

(* The caller's context ends while it selects on a flight; the flight has  *)
(* a context of its own.  A context that ends together with the answer and *)
(* wins the select is one that ended just before it.                       *)
Leave(r) ==
  /\ req[r].at \in {"wait", "asking"}
  /\ Goto(r, "over")
  /\ UNCHANGED <<now, refreshing, resolving, identity, endpoint>>

(* Time passes while everybody waits: local steps take none on the scale   *)
(* of the deadlines, and no flight outlives its own.                       *)
Tick ==
  /\ now < MaxTime
  /\ \A r \in Requests : req[r].at \in {"wait", "asking", "over"}
  /\ \A k \in FlightKeys : refreshing[k].on => now < refreshing[k].due
  /\ \A i \in Identities : resolving[i].on => now < resolving[i].due
  /\ now' = now + 1
  /\ UNCHANGED <<req, refreshing, resolving, identity, endpoint>>

RequestStep(r) == CheckIdentity(r) \/ Refresh(r) \/ Adopt(r) \/ Resolve(r) \/ Run(r)
FlightStep == \/ \E k \in FlightKeys : RefreshFails(k) \/ RefreshReturns(k)
              \/ \E i \in Identities : ConfigReturns(i)

Next ==
  \/ \E r \in Requests : Begin(r) \/ RequestStep(r) \/ Leave(r)
  \/ FlightStep
  \/ Tick

\* A runnable goroutine runs, and a flight ends by its deadline.
Fairness ==
  /\ \A r \in Requests : WF_vars(RequestStep(r))
  /\ \A k \in FlightKeys : WF_vars(RefreshFails(k) \/ RefreshReturns(k))
  /\ \A i \in Identities : WF_vars(ConfigReturns(i))

Spec == Init /\ [][Next]_vars /\ Fairness

---------------------------------------------------------------------------
\* Type invariant of the requests, flights and caches, and: who waits selects
\* on a flight that is under way (refreshGroup, endpointGroup).
TypeOK ==
  /\ now \in 0..MaxTime
  /\ req \in [Requests -> [at : Labels, auth : Auths, token : Token, cached : BOOLEAN]]
  /\ refreshing \in [FlightKeys -> Flight]
  /\ resolving \in [Identities -> Flight]
  /\ identity \in [CacheKeys -> [token : Token, until : (-Margin)..(MaxTime + TTL)]]
  /\ endpoint \in [Identities -> 0..(MaxTime + TTL)]
  /\ \A r \in Requests : req[r].at = "wait" => refreshing[KeyOf(req[r].auth)].on
  /\ \A r \in Requests : req[r].at = "asking" => resolving[req[r].token.sub].on

\* A run whose credential names an identity runs with a token of that
\* identity, though the flight that minted it was checked against the
\* credential of another caller and its endpoint was looked up by another.
RunsAsConfigured ==
  \A r \in Requests :
    req[r].at = "ready" /\ req[r].auth.token.sub # None
      => req[r].token.sub = req[r].auth.token.sub

\* A token taken from the cache has not expired when its run starts, however
\* long the endpoint lookup in between takes: the entry ends a margin earlier.
CachedTokenLasts ==
  [][\A r \in Requests :
       req[r].at = "ready" /\ req'[r].at = "over" /\ req[r].cached
         => now < req[r].token.exp]_vars

\* Every request ends: no caller waits for an exchange that nobody finishes.
EveryRequestEnds == \A r \in Requests : req[r].at # "over" ~> req[r].at = "over"
=============================================================================
