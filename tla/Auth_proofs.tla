----------------------------- MODULE Auth_proofs -----------------------------
(***************************************************************************)
(* A retired key is out after the TTL, and a published one is found, for   *)
(* every number of keys and threads, every TTL and every horizon.          *)
(***************************************************************************)
EXTENDS Auth, TLAPS

USE DEF issuer, caches

\* A kid was seen last at the present moment, if it is published.
IssuerInv ==
    \A k \in Kids : seen[k] <= now /\ (k \in published => seen[k] = now)

\* A client is not older than any key it remembers or has in its set.
CacheInv ==
    /\ client <= now
    /\ \A c \in Times : \A k \in keys[c] \cup jwks[c] : seen[k] >= c

\* The same of the client a request took, and of the answer it waits for: the
\* client was at most TTL old when the request took it, so its keys are fresh.
FreshRequest(r) ==
    /\ r.at <= now /\ r.client <= now
    /\ r.step \notin {"idle", "admitted", "unknown", "refused", "unreachable"}
          => r.at - r.client <= TTL
    /\ \A k \in r.reply : seen[k] >= r.client
    /\ r.step = "decode" => seen[r.kid] >= r.client
    /\ r.step = "admitted" => r.at - seen[r.kid] <= TTL

\* A key published all the while is in the last answer.
SteadyRequest(r) ==
    /\ r.steady => r.kid \in published
    /\ r.step = "lastReply" /\ r.steady => r.kid \in r.reply
    /\ r.step = "unknown" => ~r.steady

RequestInv == \A t \in Threads : FreshRequest(request[t]) /\ SteadyRequest(request[t])

AuthInv == AuthTypeOK /\ IssuerInv /\ CacheInv /\ RequestInv

\* Clock readings are integers.
LEMMA Clocks ==
    ASSUME AuthTypeOK
    PROVE  /\ now \in Int /\ client \in Int /\ Times \subseteq Int /\ 0 \in Times
           /\ \A k \in Kids : seen[k] \in Int
BY AuthAssumption DEF AuthTypeOK, Times, None, NeverSeen

\* An answer leaves the rest of the request as it was.
LEMMA VerdictTyped ==
    ASSUME AuthTypeOK, NEW t \in Threads, NEW v \in Steps, Verdict(t, v)
    PROVE  /\ request' \in [Threads -> Request]
           /\ request'[t] = [request[t] EXCEPT !.step = v, !.client = 0, !.reply = {}]
           /\ \A u \in Threads \ {t} : request'[u] = request[u]
<1> DEFINE r == [request[t] EXCEPT !.step = v, !.client = 0, !.reply = {}]
<1>1. r \in Request
  BY Clocks DEF AuthTypeOK, Request
<1>2. request' = [request EXCEPT ![t] = r]
  BY DEF Verdict, AuthTypeOK
<1> QED BY <1>1, <1>2 DEF AuthTypeOK

LEMMA AuthInvInit == AuthInit => AuthInv
<1> SUFFICES ASSUME AuthInit PROVE AuthInv
    OBVIOUS
<1> USE AuthAssumption DEF AuthInit, Times, None, NeverSeen
<1>1. AuthTypeOK
  BY DEF AuthTypeOK, Request, Steps
<1>2. IssuerInv /\ CacheInv
  BY DEF IssuerInv, CacheInv
<1>3. RequestInv
  <2>1. ASSUME NEW t \in Threads
        PROVE  /\ request[t].step = "idle" /\ request[t].at = 0 /\ request[t].client = 0
               /\ request[t].reply = {} /\ ~request[t].steady
    OBVIOUS
  <2>2. now = 0
    OBVIOUS
  <2> HIDE DEF AuthInit
  <2> QED BY <2>1, <2>2 DEF RequestInv, FreshRequest, SteadyRequest
<1> QED BY <1>1, <1>2, <1>3 DEF AuthInv

\* The clock and the issuer only ever make a key seen later.
LEMMA IssuerKeeps ==
    ASSUME AuthInv, Second \/ \E k \in Kids : Publish(k) \/ Retire(k)
    PROVE  AuthInv'
<1> USE DEF AuthInv
<1>1. AuthTypeOK' => \A k \in Kids : seen'[k] \in Int
  BY AuthAssumption DEF AuthTypeOK, Times, NeverSeen
<1>2. CASE Second
  <2>1. /\ now' = now + 1 /\ now' \in Times /\ UNCHANGED <<published, caches, request>>
        /\ seen' = [k \in Kids |-> IF k \in published THEN now + 1 ELSE seen[k]]
    BY <1>2, AuthAssumption DEF Second, AuthTypeOK, Times
  <2>2. \A k \in Kids : /\ seen'[k] >= seen[k] /\ seen'[k] <= now'
                        /\ k \in published' => seen'[k] = now'
    BY <2>1, Clocks DEF IssuerInv
  <2>3. AuthTypeOK'
    BY <2>1 DEF AuthTypeOK
  <2>4. CacheInv'
    <3>1. client' <= now'
      BY <2>1, Clocks DEF CacheInv
    <3>2. ASSUME NEW c \in Times, NEW k \in keys[c] \cup jwks[c] PROVE seen'[k] >= c
      <4>1. k \in Kids /\ seen[k] >= c /\ c \in Int
        BY Clocks DEF CacheInv, AuthTypeOK
      <4> QED BY <4>1, <2>2, <2>3, <1>1, Clocks
    <3> QED BY <2>1, <3>1, <3>2 DEF CacheInv
  <2>5. ASSUME NEW t \in Threads PROVE FreshRequest(request[t])' /\ SteadyRequest(request[t])'
    <3>1. FreshRequest(request[t]) /\ SteadyRequest(request[t]) /\ request[t] \in Request
      BY DEF RequestInv, AuthTypeOK
    <3>2. /\ request[t].kid \in Kids /\ request[t].reply \subseteq Kids
          /\ request[t].at \in Int /\ request[t].client \in Int
      BY <3>1, Clocks DEF Request
    <3>3. \A k \in Kids : seen[k] \in Int /\ seen'[k] \in Int
      BY <2>3, <1>1, Clocks
    <3> QED BY <2>1, <2>2, <3>1, <3>2, <3>3, Clocks, AuthAssumption DEF FreshRequest, SteadyRequest
  <2> QED BY <2>2, <2>3, <2>4, <2>5 DEF IssuerInv, RequestInv
<1>3. CASE \E k \in Kids : Publish(k)
  <2>1. PICK k \in Kids : Publish(k)
    BY <1>3
  <2>2. UNCHANGED <<now, caches, request>> /\ published' = published \cup {k}
        /\ seen' = [seen EXCEPT ![k] = now]
    BY <2>1 DEF Publish
  <2>3. \A j \in Kids : /\ seen'[j] >= seen[j] /\ seen'[j] <= now
                        /\ j \in published' => seen'[j] = now
    BY <2>2, Clocks DEF IssuerInv, AuthTypeOK
  <2>4. AuthTypeOK'
    BY <2>2 DEF AuthTypeOK
  <2>5. CacheInv'
    <3>1. ASSUME NEW c \in Times, NEW j \in keys[c] \cup jwks[c] PROVE seen'[j] >= c
      <4>1. j \in Kids /\ seen[j] >= c /\ c \in Int
        BY Clocks DEF CacheInv, AuthTypeOK
      <4> QED BY <4>1, <2>3, <2>4, <1>1, Clocks
    <3> QED BY <2>2, <3>1 DEF CacheInv
  <2>6. ASSUME NEW t \in Threads PROVE FreshRequest(request[t])' /\ SteadyRequest(request[t])'
    <3>1. FreshRequest(request[t]) /\ SteadyRequest(request[t]) /\ request[t] \in Request
      BY DEF RequestInv, AuthTypeOK
    <3>2. /\ request[t].kid \in Kids /\ request[t].reply \subseteq Kids
          /\ request[t].at \in Int /\ request[t].client \in Int
      BY <3>1, Clocks DEF Request
    <3>3. \A j \in Kids : seen[j] \in Int /\ seen'[j] \in Int
      BY <2>4, <1>1, Clocks
    <3> QED BY <2>2, <2>3, <3>1, <3>2, <3>3, Clocks, AuthAssumption DEF FreshRequest, SteadyRequest
  <2> QED BY <2>2, <2>3, <2>4, <2>5, <2>6 DEF IssuerInv, RequestInv
<1>4. CASE \E k \in Kids : Retire(k)
  <2>1. PICK k \in Kids : Retire(k)
    BY <1>4
  <2>2. UNCHANGED <<now, seen, caches>> /\ published' = published \ {k}
        /\ request' = [t \in Threads |->
              [request[t] EXCEPT !.steady = @ /\ request[t].kid # k]]
    BY <2>1 DEF Retire
  <2>3. ASSUME NEW t \in Threads
        PROVE  /\ request'[t] \in Request
               /\ FreshRequest(request[t])' /\ SteadyRequest(request[t])'
    <3>1. FreshRequest(request[t]) /\ SteadyRequest(request[t]) /\ request[t] \in Request
      BY DEF RequestInv, AuthTypeOK
    <3>2. request'[t] = [request[t] EXCEPT !.steady = @ /\ request[t].kid # k]
      BY <2>2
    <3> DEFINE s == request[t].steady /\ request[t].kid # k
    <3>3. s \in BOOLEAN
      OBVIOUS
    <3>4. request'[t] = [request[t] EXCEPT !.steady = s]
      BY <3>2
    <3>5. s => request[t].steady /\ request[t].kid # k
      OBVIOUS
    <3> HIDE DEF s
    <3>6. request'[t] \in Request
      BY <3>1, <3>3, <3>4 DEF Request
    <3>7. FreshRequest(request[t])'
      BY <2>2, <3>1, <3>4 DEF FreshRequest, Request
    <3>8. SteadyRequest(request[t])'
      BY <2>2, <3>1, <3>4, <3>5 DEF SteadyRequest, Request
    <3> QED BY <3>6, <3>7, <3>8
  <2>4. AuthTypeOK'
    BY <2>2, <2>3 DEF AuthTypeOK
  <2> QED BY <2>2, <2>3, <2>4 DEF IssuerInv, CacheInv, RequestInv
<1> QED BY <1>2, <1>3, <1>4

\* What a thread does to its own request and to the caches.
LEMMA ThreadKeeps ==
    ASSUME AuthInv, NEW t \in Threads,
           \/ \E k \in Kids : Get(t, k)
           \/ Lookup(t) \/ Answer(t) \/ Store(t) \/ Unreachable(t) \/ Decode(t)
    PROVE  AuthInv'
<1> USE AuthAssumption DEF AuthInv, Times, None, NeverSeen
<1> DEFINE r == request[t]
<1>1. r \in Request /\ FreshRequest(r) /\ SteadyRequest(r)
  BY DEF RequestInv, AuthTypeOK
<1>2. SUFFICES /\ AuthTypeOK' /\ CacheInv' /\ UNCHANGED <<now, issuer>>
               /\ FreshRequest(request[t])' /\ SteadyRequest(request[t])'
               /\ \A u \in Threads \ {t} : request'[u] = request[u]
  <2>1. ASSUME NEW u \in Threads \ {t}
        PROVE  FreshRequest(request[u])' /\ SteadyRequest(request[u])'
    BY <1>2 DEF RequestInv, FreshRequest, SteadyRequest
  <2> QED BY <1>2, <2>1 DEF RequestInv, IssuerInv
<1>3. CASE \E k \in Kids : Get(t, k)
  <2>1. PICK k \in Kids : Get(t, k)
    BY <1>3
  <2>2. /\ client' \in Times /\ client' <= now /\ now - client' <= TTL
        /\ UNCHANGED <<now, issuer, keys, jwks, jwksAt>>
        /\ request' = [request EXCEPT ![t] =
              [step |-> "lookup", kid |-> k, client |-> client', at |-> now,
               reply |-> {}, steady |-> k \in published]]
    BY <2>1 DEF Get, Takes, Stale, AuthTypeOK, CacheInv
  <2>3. AuthTypeOK' /\ CacheInv'
    BY <2>2 DEF AuthTypeOK, CacheInv, Request, Steps
  <2>4. request'[t] = [step |-> "lookup", kid |-> k, client |-> client', at |-> now,
                       reply |-> {}, steady |-> k \in published]
    BY <2>2 DEF AuthTypeOK
  <2>5. now - client' <= TTL /\ client' <= now /\ now <= now
    BY <2>2, Clocks
  <2> QED BY <2>2, <2>3, <2>4, <2>5 DEF FreshRequest, SteadyRequest, AuthTypeOK
<1>4. CASE Lookup(t)
  <2> DEFINE known == r.kid \in keys[r.client] \cup Cached(r.client)
  <2>1. /\ UNCHANGED <<now, issuer, client, jwks, jwksAt>>
        /\ keys' = IF known THEN [keys EXCEPT ![r.client] = @ \cup {r.kid}] ELSE keys
        /\ r.step = "lookup"
        /\ \E s \in {"decode", "fetch", "refresh"} :
              /\ s = "decode" => known
              /\ request' = [request EXCEPT ![t].step = s]
    BY <1>4 DEF Lookup, Step
  <2>2. PICK s \in {"decode", "fetch", "refresh"} :
              /\ s = "decode" => known
              /\ request' = [request EXCEPT ![t].step = s]
    BY <2>1
  <2>3. request'[t] = [r EXCEPT !.step = s] /\ r.client \in Times /\ r.kid \in Kids
    BY <1>1, <2>2 DEF AuthTypeOK, Request
  <2>4. known => seen[r.kid] >= r.client
    BY <1>1, <2>3 DEF CacheInv, Cached, AuthTypeOK
  <2>5. AuthTypeOK'
    BY <1>1, <2>1, <2>2, <2>3 DEF AuthTypeOK, Request, Steps
  <2>6. CacheInv'
    BY <2>1, <2>3, <2>4 DEF CacheInv, AuthTypeOK
  <2> QED BY <1>1, <2>1, <2>2, <2>3, <2>4, <2>5, <2>6
          DEF FreshRequest, SteadyRequest, AuthTypeOK, Request
<1>5. CASE Answer(t)
  <2>1. /\ UNCHANGED <<now, issuer, caches>> /\ r.step \in {"fetch", "refresh"}
        /\ request' = [request EXCEPT
              ![t].step = IF @ = "fetch" THEN "reply" ELSE "lastReply", ![t].reply = published]
    BY <1>5 DEF Answer
  <2>2. request'[t] = [r EXCEPT !.step = IF @ = "fetch" THEN "reply" ELSE "lastReply",
                                !.reply = published]
    BY <2>1 DEF AuthTypeOK
  <2>3. AuthTypeOK' /\ CacheInv'
    BY <1>1, <2>1 DEF AuthTypeOK, CacheInv, Request, Steps
  <2> QED BY <1>1, <2>1, <2>2, <2>3 DEF FreshRequest, SteadyRequest, IssuerInv, AuthTypeOK, Request
<1>6. CASE Store(t)
  <2> DEFINE found == r.kid \in r.reply
  <2>1. /\ UNCHANGED <<now, issuer, client>> /\ r.step \in {"reply", "lastReply"}
        /\ jwks' = [jwks EXCEPT ![r.client] = r.reply]
        /\ jwksAt' = [jwksAt EXCEPT ![r.client] = now]
        /\ keys' = IF found THEN [keys EXCEPT ![r.client] = @ \cup {r.kid}] ELSE keys
    BY <1>6 DEF Store
  <2>2. r.client \in Times /\ r.kid \in Kids /\ r.reply \subseteq Kids
    BY <1>1 DEF Request
  <2>3. \A k \in r.reply : seen[k] >= r.client
    BY <1>1 DEF FreshRequest
  <2>4. CacheInv'
    BY <2>1, <2>2, <2>3 DEF CacheInv, AuthTypeOK
  <2>5. CASE found /\ request' = [request EXCEPT ![t].step = "decode"]
    <3>1. request'[t] = [r EXCEPT !.step = "decode"]
      BY <2>5 DEF AuthTypeOK
    <3>2. AuthTypeOK'
      BY <1>1, <2>1, <2>2, <2>5 DEF AuthTypeOK, Request, Steps
    <3> QED BY <1>1, <2>1, <2>3, <2>4, <2>5, <3>1, <3>2
            DEF FreshRequest, SteadyRequest, AuthTypeOK, Request
  <2>6. CASE ~found /\ request' = [request EXCEPT ![t].step = "refresh"]
    <3>1. request'[t] = [r EXCEPT !.step = "refresh"]
      BY <2>6 DEF AuthTypeOK
    <3>2. AuthTypeOK'
      BY <1>1, <2>1, <2>2, <2>6 DEF AuthTypeOK, Request, Steps
    <3> QED BY <1>1, <2>1, <2>3, <2>4, <2>6, <3>1, <3>2
            DEF FreshRequest, SteadyRequest, AuthTypeOK, Request
  <2>7. CASE ~found /\ r.step = "lastReply" /\ Verdict(t, "unknown")
    <3>1. /\ request'[t] = [r EXCEPT !.step = "unknown", !.client = 0, !.reply = {}]
          /\ request' \in [Threads -> Request]
          /\ \A u \in Threads \ {t} : request'[u] = request[u]
      BY <2>7, VerdictTyped DEF Steps
    <3>2. AuthTypeOK'
      BY <2>1, <2>2, <3>1 DEF AuthTypeOK
    <3> QED BY <1>1, <2>1, <2>4, <2>7, <3>1, <3>2 DEF FreshRequest, SteadyRequest, AuthTypeOK,
       Request
  <2> QED BY <1>6, <2>5, <2>6, <2>7 DEF Store, Step
<1>7. CASE Unreachable(t)
  <2>1. /\ UNCHANGED <<now, issuer, client, keys, jwksAt>> /\ Verdict(t, "unreachable")
        /\ jwks' = [jwks EXCEPT ![r.client] = {}]
    BY <1>7 DEF Unreachable, FetchRaises
  <2>2. /\ request'[t] = [r EXCEPT !.step = "unreachable", !.client = 0, !.reply = {}]
        /\ request' \in [Threads -> Request]
        /\ \A u \in Threads \ {t} : request'[u] = request[u]
    BY <2>1, VerdictTyped DEF Steps
  <2>3. AuthTypeOK'
    BY <1>1, <2>1, <2>2 DEF AuthTypeOK, Request
  <2>4. CacheInv'
    BY <1>1, <2>1 DEF CacheInv, AuthTypeOK, Request
  <2> QED BY <1>1, <2>1, <2>2, <2>3, <2>4 DEF FreshRequest, SteadyRequest, AuthTypeOK, Request
<1>8. CASE Decode(t)
  <2>1. PICK v \in {"admitted", "refused"} : Verdict(t, v)
    BY <1>8 DEF Decode
  <2>2. AuthTypeOK /\ v \in Steps
    BY DEF Steps
  <2>3. UNCHANGED <<now, issuer, caches>> /\ r.step = "decode"
    BY <1>8 DEF Decode
  <2>4. /\ request'[t] = [r EXCEPT !.step = v, !.client = 0, !.reply = {}]
        /\ request' \in [Threads -> Request]
        /\ \A u \in Threads \ {t} : request'[u] = request[u]
    <3> HIDE DEF AuthInv, Times
    <3> QED BY <2>1, <2>2, VerdictTyped
  <2>5. AuthTypeOK' /\ CacheInv'
    BY <2>3, <2>4 DEF AuthTypeOK, CacheInv
  <2>6. r.at \in Int /\ r.client \in Int /\ seen[r.kid] \in Int
    BY <1>1, Clocks DEF Request
  <2>7. r.at - seen[r.kid] <= TTL
    BY <1>1, <2>3, <2>6 DEF FreshRequest
  <2> QED BY <1>1, <2>3, <2>4, <2>5, <2>7 DEF FreshRequest, SteadyRequest, AuthTypeOK, Request
<1> QED BY <1>3, <1>4, <1>5, <1>6, <1>7, <1>8

\* Clients, their keys and the requests are consistent with the issuer's past.
THEOREM AuthInvariant == AuthSpec => []AuthInv
<1>1. AuthInv /\ [AuthNext]_authVars => AuthInv'
  <2> SUFFICES ASSUME AuthInv, [AuthNext]_authVars PROVE AuthInv'
      OBVIOUS
  <2>1. CASE UNCHANGED authVars
    BY <2>1 DEF authVars, AuthInv, AuthTypeOK, IssuerInv, CacheInv, RequestInv, FreshRequest,
       SteadyRequest
  <2>2. CASE AuthNext
    BY <2>2, IssuerKeeps, ThreadKeeps DEF AuthNext
  <2> QED BY <2>1, <2>2
<1> QED BY <1>1, AuthInvInit, PTL DEF AuthSpec

\* Every value the shared JWKS client holds is one its code could have put there.
THEOREM AuthTypeCorrect == AuthSpec => []AuthTypeOK
BY AuthInvariant, PTL DEF AuthInv

\* A retired key is out after the TTL.
THEOREM AdmittedKeysAreFresh == AuthSpec => []KeysAreFresh
<1>1. AuthInv => KeysAreFresh
  BY DEF AuthInv, RequestInv, FreshRequest, KeysAreFresh
<1> QED BY <1>1, AuthInvariant, PTL

\* No token is refused for want of a key that was published all the while.
THEOREM PublishedKeysAreFound == AuthSpec => []UnknownOnlyIfRetired
<1>1. AuthInv => UnknownOnlyIfRetired
  BY DEF AuthInv, RequestInv, SteadyRequest, UnknownOnlyIfRetired
<1> QED BY <1>1, AuthInvariant, PTL
=============================================================================
