-------------------------- MODULE CredentialsProofs --------------------------
(***************************************************************************)
(* Proofs about Credentials for any number of callers, credentials and     *)
(* identities: a run never gets a token of another identity, and a token   *)
(* taken from the cache outlives the endpoint lookup.                      *)
(***************************************************************************)
EXTENDS Credentials, TLAPS

\* The identity cache holds tokens of the subject they are filed under, and
\* leaves them a margin before they expire.
CacheSound ==
  \A k \in Keys, s \in Subjects :
    LET e == identity[<<k, s>>] IN
    0 < e.until => e.token.sub = s /\ e.until + Margin <= e.token.exp

\* A run that has passed its identity check holds a token of its identity.
Checked ==
  \A r \in Requests :
    req[r].at \in {"resolve", "asking", "ready"} /\ req[r].auth.token.sub # None
      => req[r].token.sub = req[r].auth.token.sub

\* A cached token has its margin left when the lookup begins, and the lookup
\* under way ends before the token does.
CachedLasts ==
  \A r \in Requests :
    req[r].cached =>
      /\ req[r].at \in {"resolve", "asking", "ready"}
      /\ req[r].at = "resolve" => now + Margin < req[r].token.exp
      /\ req[r].at = "asking" => resolving[req[r].token.sub].due < req[r].token.exp
      /\ req[r].at = "ready" => now < req[r].token.exp

\* Who waits for a refresh, or has got its token, has an API key.
Keyed ==
  \A r \in Requests : req[r].at \in {"wait", "minted"} => KeyOf(req[r].auth) \in FlightKeys

\* A flight is within its deadline.
FlightsTimely ==
  \A i \in Identities :
    resolving[i].on => now <= resolving[i].due /\ resolving[i].due <= now + ConfigTimeout

IInv == TypeOK /\ CacheSound /\ Checked /\ CachedLasts /\ Keyed /\ FlightsTimely

-----------------------------------------------------------------------------
LEMMA OverType ==
    Over \in [at : Labels, auth : Auths, token : Token, cached : BOOLEAN]
<1>1. (CHOOSE a \in Auths : TRUE) \in Auths
  BY CredentialAssumption
<1> QED BY <1>1 DEF Over, Labels, Token, NoToken

LEMMA Initial == Init => IInv
<1> SUFFICES ASSUME Init PROVE IInv
  OBVIOUS
<1> USE CredentialAssumption DEF Init
<1>1. TypeOK
  BY OverType DEF TypeOK, Over, NoFlight, Flight, NoEntry, Token, NoToken, Identities
<1>2. CacheSound
  BY DEF CacheSound, CacheKeys, NoEntry
<1>3. Checked /\ CachedLasts /\ Keyed
  BY DEF Checked, CachedLasts, Keyed, Over
<1>4. FlightsTimely
  BY DEF FlightsTimely, NoFlight
<1> QED BY <1>1, <1>2, <1>3, <1>4 DEF IInv

-----------------------------------------------------------------------------
(***************************************************************************)
(* Steps.  Most actions change one request and leave the clock and the     *)
(* caches alone; OneMoves says which facts about the requests are left to *)
(* show then.                                                              *)
(***************************************************************************)

RequestType == [at : Labels, auth : Auths, token : Token, cached : BOOLEAN]

\* What IInv says of one request.
RequestOK(r) ==
  /\ req[r].at = "wait" => refreshing[KeyOf(req[r].auth)].on
  /\ req[r].at \in {"wait", "minted"} => KeyOf(req[r].auth) \in FlightKeys
  /\ req[r].at = "asking" => resolving[req[r].token.sub].on
  /\ req[r].at \in {"resolve", "asking", "ready"} /\ req[r].auth.token.sub # None
       => req[r].token.sub = req[r].auth.token.sub
  /\ req[r].cached =>
       /\ req[r].at \in {"resolve", "asking", "ready"}
       /\ req[r].at = "resolve" => now + Margin < req[r].token.exp
       /\ req[r].at = "asking" => resolving[req[r].token.sub].due < req[r].token.exp
       /\ req[r].at = "ready" => now < req[r].token.exp

\* What it says of the rest.
CachesOK ==
  /\ now \in 0..MaxTime
  /\ refreshing \in [FlightKeys -> Flight]
  /\ resolving \in [Identities -> Flight]
  /\ identity \in [CacheKeys -> [token : Token, until : (-Margin)..(MaxTime + TTL)]]
  /\ endpoint \in [Identities -> 0..(MaxTime + TTL)]
  /\ CacheSound
  /\ FlightsTimely

LEMMA Parts == IInv <=> /\ CachesOK
                        /\ req \in [Requests -> RequestType]
                        /\ \A r \in Requests : RequestOK(r)
BY DEF IInv, TypeOK, CachesOK, Checked, CachedLasts, Keyed, RequestOK, RequestType

LEMMA PartsNext == IInv' <=> /\ CachesOK'
                             /\ (req \in [Requests -> RequestType])'
                             /\ \A r \in Requests : RequestOK(r)'
BY DEF IInv, TypeOK, CachesOK, Checked, CachedLasts, Keyed, RequestOK, RequestType, CacheSound, FlightsTimely

\* One request moves on, by itself.
LEMMA OneMoves ==
    ASSUME IInv, NEW r \in Requests, UNCHANGED <<now, refreshing, resolving, identity, endpoint>>,
           NEW new \in RequestType, req' = [req EXCEPT ![r] = new],
           RequestOK(r)'
    PROVE  IInv'
<1>1. CachesOK'
  BY Parts DEF CachesOK, CacheSound, FlightsTimely
<1>2. (req \in [Requests -> RequestType])'
  BY Parts DEF RequestType
<1>3. \A q \in Requests : RequestOK(q)'
  <2> SUFFICES ASSUME NEW q \in Requests, q # r PROVE RequestOK(q)'
    OBVIOUS
  <2> QED BY Parts DEF RequestOK
<1> QED BY <1>1, <1>2, <1>3, PartsNext

\* A request that is over, or has not yet passed its check, owes nothing.
LEMMA RequestEnds ==
    ASSUME IInv, NEW r \in Requests, UNCHANGED <<now, refreshing, resolving, identity, endpoint>>,
           Goto(r, "over")
    PROVE  IInv'
<1>1. req' = [req EXCEPT ![r] = Over] /\ Over \in RequestType
  BY OverType DEF Goto, RequestType
<1>2. RequestOK(r)'
  BY <1>1, Parts DEF RequestOK, Over
<1> QED BY <1>1, <1>2, OneMoves

LEMMA BeginStep ==
    ASSUME IInv, NEW r \in Requests, Begin(r)
    PROVE  IInv'
<1>1. PICK a \in Auths :
        req' = [req EXCEPT ![r] =
                 IF a.kind = "run" /\ (a.token = NoToken \/ a.account = None) THEN Over
                 ELSE [Over EXCEPT !.auth = a, !.token = a.token,
                         !.at = IF a.kind = "refresh" THEN "refresh" ELSE "check"]]
  BY DEF Begin
<1>2. a \in Auth
  BY CredentialAssumption
<1> DEFINE new == IF a.kind = "run" /\ (a.token = NoToken \/ a.account = None) THEN Over
                  ELSE [Over EXCEPT !.auth = a, !.token = a.token,
                          !.at = IF a.kind = "refresh" THEN "refresh" ELSE "check"]
<1>3. new \in RequestType /\ new.at \in {"over", "refresh", "check"} /\ new.cached = FALSE
  BY <1>2, OverType DEF RequestType, Over, Auth, Labels
<1>4. req'[r] = new
  BY <1>1, Parts
<1>5. RequestOK(r)'
  BY <1>3, <1>4 DEF RequestOK
<1> QED BY <1>1, <1>3, <1>5, OneMoves DEF Begin

\* The cache is hit, the check is skipped or refused, or Refresh is called.
LEMMA CheckIdentityStep ==
    ASSUME IInv, NEW r \in Requests, CheckIdentity(r)
    PROVE  IInv'
<1> DEFINE a == req[r].auth
           e == identity[<<a.key, a.token.sub>>]
<1>1. req[r] \in RequestType /\ a \in Auths /\ a \in Auth /\ RequestOK(r) /\ CachesOK
  BY Parts, CredentialAssumption DEF RequestType
<1>2. req[r].cached = FALSE /\ UNCHANGED <<now, refreshing, resolving, identity, endpoint>>
  BY <1>1 DEF RequestOK, CheckIdentity, RequestType
<1>3. CASE a.token.sub = None
  <2> DEFINE new == [req[r] EXCEPT !.at = "resolve"]
  <2>1. req' = [req EXCEPT ![r] = new] /\ new \in RequestType
    BY <1>1, <1>3 DEF CheckIdentity, Goto, RequestType, Labels
  <2>2. req'[r] = new
    BY <2>1, Parts
  <2>3. RequestOK(r)'
    BY <1>1, <1>2, <1>3, <2>2 DEF RequestOK, RequestType
  <2> QED BY <1>2, <2>1, <2>3, OneMoves
<1>4. CASE a.token.sub # None /\ a.key = None
  BY <1>2, <1>4, RequestEnds DEF CheckIdentity
<1>5. CASE a.token.sub # None /\ a.key # None /\ Hit(e)
  <2> DEFINE new == [req[r] EXCEPT !.at = "resolve", !.token = e.token, !.cached = TRUE]
  <2>1. a.key \in Keys /\ a.token.sub \in Subjects
    BY <1>1, <1>5 DEF Auth, Token
  <2>2. e \in [token : Token, until : (-Margin)..(MaxTime + TTL)]
    BY <1>1, <2>1 DEF CachesOK, CacheKeys
  <2>3. e.token.sub = a.token.sub /\ e.until + Margin <= e.token.exp /\ now < e.until
    BY <1>1, <1>5, <2>1, <2>2, CredentialAssumption DEF CachesOK, CacheSound, Hit
  <2>4. req' = [req EXCEPT ![r] = new]
    BY <1>1, <1>5, Parts DEF CheckIdentity, RequestType
  <2>5. new \in RequestType /\ req'[r] = new
    BY <1>1, <2>2, <2>4, Parts DEF RequestType, Labels
  <2>6. new.at = "resolve" /\ new.token = e.token /\ new.auth = a
    BY <1>1 DEF RequestType
  <2>7. now + Margin < e.token.exp
    BY <1>1, <2>2, <2>3, CredentialAssumption DEF CachesOK, Token
  <2>8. RequestOK(r)'
    BY <1>2, <2>3, <2>5, <2>6, <2>7 DEF RequestOK
  <2> QED BY <1>2, <2>4, <2>5, <2>8, OneMoves
<1>6. CASE a.token.sub # None /\ a.key # None /\ ~Hit(e)
  <2> DEFINE new == [req[r] EXCEPT !.at = "refresh"]
  <2>1. req' = [req EXCEPT ![r] = new] /\ new \in RequestType
    BY <1>1, <1>6 DEF CheckIdentity, Goto, RequestType, Labels
  <2>2. req'[r] = new
    BY <2>1, Parts
  <2>3. RequestOK(r)'
    BY <1>1, <1>2, <2>2 DEF RequestOK, RequestType
  <2> QED BY <1>2, <2>1, <2>3, OneMoves
<1> QED BY <1>3, <1>4, <1>5, <1>6

LEMMA RefreshStep ==
    ASSUME IInv, NEW r \in Requests, Refresh(r)
    PROVE  IInv'
<1> DEFINE a == req[r].auth
           k == KeyOf(a)
           refused == a.key = None \/ (a.account = None /\ ~Activating(a))
<1>1. req[r] \in RequestType /\ a \in Auths /\ a \in Auth /\ RequestOK(r) /\ CachesOK
  BY Parts, CredentialAssumption DEF RequestType
<1>2. CASE refused
  <2>1. Goto(r, "over") /\ UNCHANGED <<now, refreshing, resolving, identity, endpoint>>
    BY <1>2 DEF Refresh
  <2> QED BY <2>1, RequestEnds
<1>3. CASE ~refused
  <2> DEFINE new == [req[r] EXCEPT !.at = "wait"]
  <2>1. k \in FlightKeys
    BY <1>1, <1>3 DEF KeyOf, FlightKeys, Auth
  <2>2. /\ refreshing' \in [FlightKeys -> Flight]
        /\ refreshing'[k].on
        /\ \A j \in FlightKeys : refreshing[j].on => refreshing'[j].on
    <3>1. CASE refreshing[k].on
      BY <1>1, <1>3, <2>1, <3>1 DEF Refresh, CachesOK
    <3>2. CASE ~refreshing[k].on
      <4> DEFINE fl == [due |-> now + RefreshTimeout, sub |-> a.token.sub, on |-> TRUE]
      <4>1. refreshing' = [refreshing EXCEPT ![k] = fl]
        BY <1>3, <3>2 DEF Refresh
      <4>2. fl \in Flight
        BY <1>1, CredentialAssumption DEF Flight, Identities, CachesOK, Auth, Token
      <4> QED BY <1>1, <2>1, <4>1, <4>2 DEF CachesOK
    <3> QED BY <3>1, <3>2
  <2>3. req' = [req EXCEPT ![r] = new] /\ new \in RequestType
    BY <1>1, <1>3 DEF Refresh, Goto, RequestType, Labels
  <2>4. CachesOK'
    BY <1>1, <2>2 DEF Refresh, CachesOK, CacheSound, FlightsTimely
  <2>5. (req \in [Requests -> RequestType])'
    BY <2>3, Parts
  <2>6. req'[r] = new /\ \A q \in Requests : q # r => req'[q] = req[q]
    BY <2>3, Parts
  <2>7. RequestOK(r)'
    BY <1>1, <2>1, <2>2, <2>6 DEF RequestOK, RequestType, Refresh
  <2>8. ASSUME NEW q \in Requests, q # r PROVE RequestOK(q)'
    <3>1. req'[q] = req[q] /\ req[q] \in RequestType /\ RequestOK(q)
      BY <2>6, <2>8, Parts
    <3>2. req[q].at = "wait" => refreshing'[KeyOf(req[q].auth)].on
      <4> SUFFICES ASSUME req[q].at = "wait" PROVE refreshing'[KeyOf(req[q].auth)].on
        OBVIOUS
      <4> QED BY <2>2, <3>1 DEF RequestOK
    <3> QED BY <3>1, <3>2 DEF RequestOK, Refresh
  <2> QED BY <2>4, <2>5, <2>7, <2>8, PartsNext
<1> QED BY <1>2, <1>3

\* A flight ends and its callers with it; nobody else waits for it.
LEMMA FlightEnds ==
    ASSUME IInv, NEW k \in FlightKeys, NEW to,
           refreshing' = [refreshing EXCEPT ![k] = NoFlight],
           UNCHANGED <<now, resolving, identity, endpoint>>,
           req' = [r \in Requests |-> IF r \in Waiting(k) THEN to[r] ELSE req[r]],
           \A r \in Requests :
             r \in Waiting(k) =>
               /\ to[r] \in RequestType
               /\ to[r].at \in {"over", "minted"} /\ ~to[r].cached
               /\ to[r].at = "minted" => KeyOf(to[r].auth) \in FlightKeys
    PROVE  IInv'
<1>1. CachesOK /\ req \in [Requests -> RequestType] /\ \A r \in Requests : RequestOK(r)
  BY Parts
<1>2. NoFlight \in Flight
  BY CredentialAssumption DEF NoFlight, Flight, Identities
<1>3. CachesOK'
  BY <1>1, <1>2 DEF CachesOK, CacheSound, FlightsTimely
<1>4. (req \in [Requests -> RequestType])'
  BY <1>1 DEF RequestType
<1>5. ASSUME NEW r \in Requests PROVE RequestOK(r)'
  <2>1. CASE r \in Waiting(k)
    <3>1. req'[r] = to[r]
      BY <2>1
    <3> QED BY <2>1, <3>1 DEF RequestOK
  <2>2. CASE r \notin Waiting(k)
    <3>1. req'[r] = req[r] /\ RequestOK(r)
      BY <1>1, <2>2
    <3>2. req[r].at = "wait" => KeyOf(req[r].auth) # k /\ KeyOf(req[r].auth) \in FlightKeys
      BY <2>2, <3>1 DEF Waiting, RequestOK
    <3>3. req[r].at = "wait" => refreshing'[KeyOf(req[r].auth)].on
      BY <1>1, <3>1, <3>2 DEF CachesOK, RequestOK
    <3> QED BY <3>1, <3>3 DEF RequestOK
  <2> QED BY <2>1, <2>2
<1> QED BY <1>3, <1>4, <1>5, PartsNext

LEMMA RefreshFailsStep ==
    ASSUME IInv, NEW k \in FlightKeys, RefreshFails(k)
    PROVE  IInv'
<1> DEFINE to == [r \in Requests |-> Over]
<1>1. \A r \in Requests : to[r] \in RequestType /\ to[r].at = "over" /\ ~to[r].cached
  BY OverType DEF RequestType, Over
<1>2. req' = [r \in Requests |-> IF r \in Waiting(k) THEN to[r] ELSE req[r]]
  BY DEF RefreshFails
<1> HIDE DEF to
<1> QED BY <1>1, <1>2, FlightEnds DEF RefreshFails

LEMMA RefreshReturnsStep ==
    ASSUME IInv, NEW k \in FlightKeys, RefreshReturns(k)
    PROVE  IInv'
<1>1. PICK t \in Minted :
        LET other == refreshing[k].sub # None /\ t.sub # refreshing[k].sub IN
        req' = [r \in Requests |->
                  IF r \notin Waiting(k) THEN req[r]
                  ELSE IF other THEN Over
                  ELSE [req[r] EXCEPT !.at = "minted", !.token = t]]
  BY DEF RefreshReturns
<1> DEFINE other == refreshing[k].sub # None /\ t.sub # refreshing[k].sub
           to == [r \in Requests |->
                    IF other THEN Over ELSE [req[r] EXCEPT !.at = "minted", !.token = t]]
<1>2. CachesOK /\ req \in [Requests -> RequestType] /\ \A r \in Requests : RequestOK(r)
  BY Parts
<1>3. t \in Token
  BY <1>2, CredentialAssumption DEF Minted, Token, Never, CachesOK
<1>4. ASSUME NEW r \in Requests, r \in Waiting(k)
      PROVE  /\ to[r] \in RequestType
             /\ to[r].at \in {"over", "minted"} /\ ~to[r].cached
             /\ to[r].at = "minted" => KeyOf(to[r].auth) \in FlightKeys
  <2>1. req[r] \in RequestType /\ req[r].at = "wait" /\ KeyOf(req[r].auth) = k /\ RequestOK(r)
    BY <1>2, <1>4 DEF Waiting
  <2>2. req[r].cached = FALSE
    BY <2>1 DEF RequestOK, RequestType
  <2>3. CASE other
    BY <2>3, OverType DEF RequestType, Over
  <2>4. CASE ~other
    <3>1. to[r] = [req[r] EXCEPT !.at = "minted", !.token = t]
      BY <2>4
    <3> QED BY <1>3, <2>1, <2>2, <3>1 DEF RequestType, Labels
  <2> QED BY <2>3, <2>4
<1>5. req' = [r \in Requests |-> IF r \in Waiting(k) THEN to[r] ELSE req[r]]
  BY <1>1
<1> HIDE DEF to
<1> QED BY <1>4, <1>5, FlightEnds DEF RefreshReturns

LEMMA AdoptStep ==
    ASSUME IInv, NEW r \in Requests, Adopt(r)
    PROVE  IInv'
<1> DEFINE a == req[r].auth
           t == req[r].token
<1>1. req[r] \in RequestType /\ a \in Auths /\ a \in Auth /\ RequestOK(r) /\ CachesOK
  BY Parts, CredentialAssumption DEF RequestType
<1>2. CASE Goto(r, "over") /\ UNCHANGED identity
  BY <1>2, RequestEnds DEF Adopt
<1>3. CASE /\ SameIdentity(r)
           /\ Goto(r, "resolve")
           /\ identity' = [identity EXCEPT ![<<a.key, a.token.sub>>] = [token |-> t, until |-> Until(t)]]
  <2> DEFINE new == [req[r] EXCEPT !.at = "resolve"]
             e == [token |-> t, until |-> Until(t)]
  <2>1. a.key \in Keys /\ a.token.sub \in Subjects /\ t \in Token
    BY <1>1, <1>3 DEF Adopt, RequestOK, FlightKeys, KeyOf, SameIdentity, Auth, Token, RequestType
  <2>2. /\ Until(t) \in (-Margin)..(MaxTime + TTL)
        /\ Until(t) + Margin <= t.exp
    BY <1>1, <2>1, CredentialAssumption DEF Until, Smaller, Token, CachesOK
  <2>3. CachesOK'
    <3>1. identity' \in [CacheKeys -> [token : Token, until : (-Margin)..(MaxTime + TTL)]]
      BY <1>1, <1>3, <2>1, <2>2 DEF CachesOK
    <3>2. CacheSound'
      <4> SUFFICES ASSUME NEW k \in Keys, NEW s \in Subjects, 0 < identity'[<<k, s>>].until
                   PROVE  /\ identity'[<<k, s>>].token.sub = s
                          /\ identity'[<<k, s>>].until + Margin <= identity'[<<k, s>>].token.exp
        BY DEF CacheSound
      <4>1. <<k, s>> \in CacheKeys /\ <<a.key, a.token.sub>> \in CacheKeys
        BY <2>1 DEF CacheKeys
      <4>2. CASE <<k, s>> = <<a.key, a.token.sub>>
        <5>1. identity'[<<k, s>>] = e
          BY <1>1, <1>3, <4>1, <4>2 DEF CachesOK
        <5> QED BY <1>3, <2>2, <4>2, <5>1 DEF SameIdentity
      <4>3. CASE <<k, s>> # <<a.key, a.token.sub>>
        <5>1. identity'[<<k, s>>] = identity[<<k, s>>]
          BY <1>1, <1>3, <4>1, <4>3 DEF CachesOK
        <5> QED BY <1>1, <5>1 DEF CachesOK, CacheSound
      <4> QED BY <4>2, <4>3
    <3> QED BY <1>1, <3>1, <3>2 DEF Adopt, CachesOK, FlightsTimely
  <2>4. req' = [req EXCEPT ![r] = new] /\ new \in RequestType
    BY <1>1, <1>3 DEF Goto, RequestType, Labels
  <2>5. (req \in [Requests -> RequestType])'
    BY <2>4, Parts
  <2>6. RequestOK(r)'
    <3>1. req'[r] = new /\ ~new.cached /\ new.at = "resolve" /\ new.token = t /\ new.auth = a
      BY <1>1, <2>4, Parts DEF Adopt, RequestOK, RequestType
    <3> QED BY <1>3, <3>1 DEF RequestOK, SameIdentity
  <2>7. ASSUME NEW q \in Requests, q # r PROVE RequestOK(q)'
    <3>1. req'[q] = req[q] /\ RequestOK(q)
      BY <2>4, <2>7, Parts
    <3> QED BY <3>1 DEF RequestOK, Adopt
  <2> QED BY <2>3, <2>5, <2>6, <2>7, PartsNext
<1> QED BY <1>2, <1>3 DEF Adopt, Mismatch

LEMMA ResolveStep ==
    ASSUME IInv, NEW r \in Requests, Resolve(r)
    PROVE  IInv'
<1> DEFINE i == req[r].token.sub
           known == ~req[r].auth.control \/ now < endpoint[i]
           new == [req[r] EXCEPT !.at = IF known THEN "ready" ELSE "asking"]
<1>1. /\ CachesOK /\ req \in [Requests -> RequestType] /\ RequestOK(r)
      /\ req[r] \in RequestType /\ i \in Identities /\ req[r].at = "resolve"
  BY Parts DEF RequestType, Token, Identities, Resolve
<1>2. req' = [req EXCEPT ![r] = new] /\ new \in RequestType
  BY <1>1 DEF Resolve, Goto, RequestType, Labels
<1>3. req'[r] = new /\ \A q \in Requests : q # r => req'[q] = req[q]
  BY <1>1, <1>2
<1>4. UNCHANGED <<now, refreshing, identity, endpoint>>
  BY DEF Resolve
<1>5. /\ resolving' \in [Identities -> Flight]
      /\ \A j \in Identities : resolving[j].on => resolving'[j] = resolving[j]
      /\ ~known => resolving'[i].on
      /\ \A j \in Identities : resolving'[j].on =>
           now <= resolving'[j].due /\ resolving'[j].due <= now + ConfigTimeout
  <2>1. CASE known \/ resolving[i].on
    <3>1. resolving' = resolving
      BY <2>1 DEF Resolve
    <3> QED BY <1>1, <2>1, <3>1 DEF CachesOK, FlightsTimely
  <2>2. CASE ~(known \/ resolving[i].on)
    <3> DEFINE fl == [due |-> now + ConfigTimeout, sub |-> i, on |-> TRUE]
    <3>1. resolving' = [resolving EXCEPT ![i] = fl]
      BY <2>2 DEF Resolve
    <3>2. fl \in Flight
      BY <1>1, CredentialAssumption DEF Flight, Identities, CachesOK
    <3>3. resolving'[i] = fl /\ \A j \in Identities : j # i => resolving'[j] = resolving[j]
      BY <1>1, <3>1 DEF CachesOK
    <3>4. now <= fl.due /\ fl.due <= now + ConfigTimeout /\ fl.on
      BY <1>1, CredentialAssumption DEF CachesOK
    <3> QED BY <1>1, <2>2, <3>1, <3>2, <3>3, <3>4 DEF CachesOK, FlightsTimely
  <2> QED BY <2>1, <2>2
<1>6. CachesOK'
  BY <1>1, <1>4, <1>5 DEF CachesOK, CacheSound, FlightsTimely
<1>7. RequestOK(r)'
  <2>1. req[r].cached => now + Margin < req[r].token.exp
    BY <1>1 DEF RequestOK
  <2>2. CASE known
    <3>1. new.at = "ready" /\ new.token = req[r].token /\ new.auth = req[r].auth /\ new.cached = req[r].cached
      BY <1>1, <2>2 DEF RequestType
    <3>2. req[r].cached => now < req[r].token.exp
      BY <1>1, <2>1, CredentialAssumption DEF CachesOK, RequestType, Token
    <3> QED BY <1>1, <1>3, <1>4, <3>1, <3>2 DEF RequestOK
  <2>3. CASE ~known
    <3>1. new.at = "asking" /\ new.token = req[r].token /\ new.auth = req[r].auth /\ new.cached = req[r].cached
      BY <1>1, <2>3 DEF RequestType
    <3>2. resolving'[i] \in Flight /\ resolving'[i].due <= now + ConfigTimeout
      BY <1>1, <1>5, <2>3
    <3>3. req[r].cached => resolving'[i].due < req[r].token.exp
      BY <1>1, <2>1, <3>2, CredentialAssumption DEF CachesOK, RequestType, Token, Flight
    <3> QED BY <1>1, <1>3, <1>4, <1>5, <2>3, <3>1, <3>3 DEF RequestOK
  <2> QED BY <2>2, <2>3
<1>8. ASSUME NEW q \in Requests, q # r PROVE RequestOK(q)'
  <2>1. req'[q] = req[q] /\ RequestOK(q) /\ req[q].token.sub \in Identities
    BY <1>3, <1>8, Parts DEF RequestType, Token, Identities
  <2> QED BY <1>4, <1>5, <2>1 DEF RequestOK
<1> QED BY <1>1, <1>2, <1>6, <1>7, <1>8, PartsNext

LEMMA ConfigReturnsStep ==
    ASSUME IInv, NEW i \in Identities, ConfigReturns(i)
    PROVE  IInv'
<1>1. PICK ok \in BOOLEAN :
       /\ endpoint' = IF ok THEN [endpoint EXCEPT ![i] = now + TTL] ELSE endpoint
       /\ req' = [r \in Requests |->
                    CASE r \notin Asking(i) -> req[r]
                      [] r \in Asking(i) /\ ok -> [req[r] EXCEPT !.at = "ready"]
                      [] OTHER -> Over]
  BY DEF ConfigReturns
<1>2. /\ UNCHANGED <<now, refreshing, identity>>
      /\ resolving' = [resolving EXCEPT ![i] = NoFlight]
      /\ resolving[i].on
  BY DEF ConfigReturns
<1>3. CachesOK /\ req \in [Requests -> RequestType] /\ \A r \in Requests : RequestOK(r)
  BY Parts
<1>4. NoFlight \in Flight /\ ~NoFlight.on
  BY CredentialAssumption DEF NoFlight, Flight, Identities
<1>5. /\ resolving'[i] = NoFlight
      /\ \A j \in Identities : j # i => resolving'[j] = resolving[j]
      /\ resolving' \in [Identities -> Flight]
  BY <1>2, <1>3, <1>4 DEF CachesOK
<1>6. CachesOK'
  <2>1. endpoint' \in [Identities -> 0..(MaxTime + TTL)]
    BY <1>1, <1>3, CredentialAssumption DEF CachesOK
  <2>2. FlightsTimely'
    BY <1>2, <1>3, <1>4, <1>5 DEF CachesOK, FlightsTimely
  <2> QED BY <1>2, <1>3, <1>5, <2>1, <2>2 DEF CachesOK, CacheSound
<1>7. ASSUME NEW r \in Requests PROVE req'[r] \in RequestType /\ RequestOK(r)'
  <2>1. req[r] \in RequestType /\ RequestOK(r) /\ req[r].token.sub \in Identities
    BY <1>3 DEF RequestType, Token, Identities
  <2>2. CASE r \notin Asking(i)
    <3>1. req'[r] = req[r]
      BY <1>1, <2>2
    <3>2. req[r].at = "asking" => resolving'[req[r].token.sub] = resolving[req[r].token.sub]
      BY <1>5, <2>1, <2>2 DEF Asking
    <3> QED BY <1>2, <2>1, <3>1, <3>2 DEF RequestOK
  <2>3. CASE r \in Asking(i) /\ ok
    <3> DEFINE new == [req[r] EXCEPT !.at = "ready"]
    <3>1. req'[r] = new
      BY <1>1, <2>3
    <3>2. /\ new \in RequestType /\ new.at = "ready" /\ new.token = req[r].token
          /\ new.auth = req[r].auth /\ new.cached = req[r].cached
      BY <2>1 DEF RequestType, Labels
    <3>3. req[r].at = "asking" /\ req[r].token.sub = i
      BY <2>3 DEF Asking
    <3>4. req[r].cached => now < req[r].token.exp
      <4>1. now <= resolving[i].due /\ resolving[i] \in Flight
        BY <1>2, <1>3 DEF CachesOK, FlightsTimely
      <4>2. req[r].cached => resolving[i].due < req[r].token.exp
        BY <2>1, <3>3 DEF RequestOK
      <4> QED BY <1>3, <2>1, <4>1, <4>2, CredentialAssumption DEF CachesOK, RequestType, Token, Flight
    <3> QED BY <1>2, <2>1, <3>1, <3>2, <3>3, <3>4 DEF RequestOK
  <2>4. CASE r \in Asking(i) /\ ~ok
    <3>1. req'[r] = Over
      BY <1>1, <2>4
    <3> QED BY <3>1, OverType DEF RequestOK, RequestType, Over
  <2> QED BY <2>2, <2>3, <2>4
<1>8. (req \in [Requests -> RequestType])'
  <2>1. req' = [r \in Requests |-> req'[r]]
    BY <1>1
  <2> QED BY <1>7, <2>1 DEF RequestType
<1> QED BY <1>6, <1>7, <1>8, PartsNext

\* Nobody ages but those who wait, and no flight outlives its deadline.
LEMMA TickStep ==
    ASSUME IInv, Tick
    PROVE  IInv'
<1>1. CachesOK /\ req \in [Requests -> RequestType] /\ \A r \in Requests : RequestOK(r)
  BY Parts
<1>2. UNCHANGED <<req, refreshing, resolving, identity, endpoint>> /\ now' = now + 1
  BY DEF Tick
<1>3. CachesOK'
  <2>1. now' \in 0..MaxTime
    BY <1>1, <1>2, CredentialAssumption DEF Tick, CachesOK
  <2>2. FlightsTimely'
    <3> SUFFICES ASSUME NEW i \in Identities, resolving[i].on
                 PROVE  now + 1 <= resolving[i].due /\ resolving[i].due <= now + 1 + ConfigTimeout
      BY <1>2 DEF FlightsTimely
    <3>1. resolving[i] \in Flight /\ now < resolving[i].due /\ resolving[i].due <= now + ConfigTimeout
      BY <1>1 DEF CachesOK, FlightsTimely, Tick
    <3> QED BY <1>1, <3>1, CredentialAssumption DEF CachesOK, Flight
  <2> QED BY <1>1, <1>2, <2>1, <2>2 DEF CachesOK, CacheSound
<1>4. ASSUME NEW r \in Requests PROVE RequestOK(r)'
  <2>1. req[r].at \in {"wait", "asking", "over"} /\ RequestOK(r)
    BY <1>1 DEF Tick
  <2> QED BY <1>2, <2>1 DEF RequestOK
<1> QED BY <1>1, <1>2, <1>3, <1>4, PartsNext

LEMMA StepKeepsInvariant == IInv /\ [Next]_vars => IInv'
<1> SUFFICES ASSUME IInv, [Next]_vars PROVE IInv'
  OBVIOUS
<1>1. ASSUME NEW r \in Requests, Begin(r) \/ RequestStep(r) \/ Leave(r) PROVE IInv'
  <2>1. CASE Run(r) \/ Leave(r)
    BY <2>1, RequestEnds DEF Run, Leave
  <2> QED BY <1>1, <2>1, BeginStep, CheckIdentityStep, RefreshStep, AdoptStep, ResolveStep
          DEF RequestStep
<1>2. CASE FlightStep
  BY <1>2, RefreshFailsStep, RefreshReturnsStep, ConfigReturnsStep DEF FlightStep
<1>3. CASE Tick
  BY <1>3, TickStep
<1>4. CASE UNCHANGED vars
  BY <1>4 DEF vars, IInv, TypeOK, CacheSound, Checked, CachedLasts, Keyed, FlightsTimely
<1> QED BY <1>1, <1>2, <1>3, <1>4 DEF Next

-----------------------------------------------------------------------------
\* The inductive invariant holds in every state.
THEOREM Invariance == Spec => []IInv
BY Initial, StepKeepsInvariant, PTL DEF Spec

\* Whoever waits for a refresh or an endpoint selects on a flight that is under
\* way, and every cache entry and token has its type.
THEOREM TypeCorrect == Spec => []TypeOK
<1>1. IInv => TypeOK
  BY DEF IInv
<1> QED BY <1>1, Invariance, PTL

\* A run never starts with a token of another identity than the credential
\* names, whichever caller's flight minted it (validateCursorCredentialIdentity).
THEOREM RunsAsConfiguredHolds == Spec => []RunsAsConfigured
<1>1. IInv => RunsAsConfigured
  BY DEF IInv, Checked, RunsAsConfigured
<1> QED BY <1>1, Invariance, PTL

\* A token from identityCheckCache is still good when the run starts: its
\* margin is longer than the endpoint lookup may take.
THEOREM CachedTokenLastsHolds == Spec => CachedTokenLasts
<1>1. IInv => \A r \in Requests : req[r].at = "ready" /\ req[r].cached => now < req[r].token.exp
  BY DEF IInv, CachedLasts
<1>2. IInv /\ [Next]_vars =>
        [\A r \in Requests :
           req[r].at = "ready" /\ req'[r].at = "over" /\ req[r].cached
             => now < req[r].token.exp]_vars
  BY <1>1
<1> QED BY <1>2, Invariance, PTL DEF Spec, CachedTokenLasts
=============================================================================
