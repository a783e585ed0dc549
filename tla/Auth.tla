-------------------------------- MODULE Auth --------------------------------
(***************************************************************************)
(* The gate of api/auth.py in front of the endpoints, as deployed (Access   *)
(* enabled, no test mode): the process keeps one PyJWKClient for an hour,   *)
(* and the threads that took it go on with it after another thread has      *)
(* replaced it.  PyJWKClient and the issuer of the keys are external: the   *)
(* client fetches the published keys when it has none, looks once more for  *)
(* a kid it does not know, and remembers every key it has handed out for    *)
(* as long as it lives (cache_keys=True).                                   *)
(***************************************************************************)
EXTENDS Integers

CONSTANTS
    Kids,       \* names of signing keys
    Threads,    \* the threads that serve requests
    TTL,        \* _JWKS_CACHE_TTL_SECONDS
    Horizon     \* bound: the clock stops there

ASSUME AuthAssumption == TTL \in Nat /\ Horizon \in Nat

VARIABLES
    now,        \* time.monotonic()
    published,  \* the kids the issuer publishes
    seen,       \* history: when each kid was published last
    client,     \* _JWKSCache._client, named by its _fetched_at
    keys,       \* of every client: the kids it remembers
    jwks,       \* of every client: its cached key set; {} is none
    jwksAt,     \* of every client: when that set was stored
    request     \* what every thread is doing

authVars == <<now, published, seen, client, keys, jwks, jwksAt, request>>
issuer == <<published, seen>>
caches == <<client, keys, jwks, jwksAt>>

Times == 0..Horizon
None == -1
NeverSeen == -(TTL + 1)

Steps == {"idle", "lookup", "fetch", "refresh", "reply", "lastReply", "decode",
          "admitted", "unknown", "refused", "unreachable"}

Request == [step : Steps, kid : Kids, client : Times, at : Times, reply : SUBSET Kids,
            steady : BOOLEAN]

AuthTypeOK ==
    /\ now \in Times
    /\ published \in SUBSET Kids
    /\ seen \in [Kids -> Times \cup {NeverSeen}]
    /\ client \in Times \cup {None}
    /\ keys \in [Times -> SUBSET Kids]
    /\ jwks \in [Times -> SUBSET Kids]
    /\ jwksAt \in [Times -> Times]
    /\ request \in [Threads -> Request]

AuthInit ==
    /\ now = 0
    /\ published \in SUBSET Kids \ {{}}
    /\ seen = [k \in Kids |-> IF k \in published THEN 0 ELSE NeverSeen]
    /\ client = None
    /\ keys = [c \in Times |-> {}]
    /\ jwks = [c \in Times |-> {}]
    /\ jwksAt = [c \in Times |-> 0]
    /\ \E k \in Kids : request = [t \in Threads |->
          [step |-> "idle", kid |-> k, client |-> 0, at |-> 0,
           reply |-> {}, steady |-> FALSE]]

-----------------------------------------------------------------------------
(* the clock and the issuer *)

Second ==
    /\ now < Horizon
    /\ now' = now + 1
    /\ seen' = [k \in Kids |-> IF k \in published THEN now + 1 ELSE seen[k]]
    /\ UNCHANGED <<published, caches, request>>

Publish(k) ==
    /\ k \notin published
    /\ published' = published \cup {k}
    /\ seen' = [seen EXCEPT ![k] = now]
    /\ UNCHANGED <<now, caches, request>>

\* The issuer retires a key, never its last one.
Retire(k) ==
    /\ k \in published /\ published # {k}
    /\ published' = published \ {k}
    /\ request' = [t \in Threads |->
          [request[t] EXCEPT !.steady = @ /\ request[t].kid # k]]
    /\ UNCHANGED <<now, seen, caches>>

-----------------------------------------------------------------------------
(* a request *)

Step(t, from, to) ==
    /\ request[t].step = from
    /\ request' = [request EXCEPT ![t].step = to]

\* The request is answered, and its local variables are gone.
Verdict(t, verdict) ==
    request' = [request EXCEPT ![t].step = verdict, ![t].client = 0, ![t].reply = {}]

Stale == now - client > TTL

\* A request whose token names k takes the client c.
Takes(t, k, c) ==
    /\ request[t].step \in {"idle", "admitted", "unknown", "refused", "unreachable"}
    /\ client' = c
    /\ request' = [request EXCEPT ![t] =
          [step |-> "lookup", kid |-> k, client |-> c, at |-> now,
           reply |-> {}, steady |-> k \in published]]
    /\ UNCHANGED <<now, issuer, keys, jwks, jwksAt>>

\* mutant: a client once made is kept for ever
GetKeeping(t, k) ==
    Takes(t, k, IF client = None THEN now ELSE client)

\* mutant: the first request finds no client and makes none
GetUnmade(t, k) ==
    Takes(t, k, IF client # None /\ Stale THEN now ELSE client)

\* _JWKSCache.get, under its lock.
Get(t, k) ==
    Takes(t, k, IF client = None \/ Stale THEN now ELSE client)

\* The set a client has cached, unless it is older than its lifespan.
Cached(c) == IF now - jwksAt[c] > TTL THEN {} ELSE jwks[c]

\* get_signing_key_from_jwt, outside the lock: a remembered key, one of the
\* cached set, or the set must be fetched.
Lookup(t) ==
    LET r == request[t]
        known == r.kid \in keys[r.client] \cup Cached(r.client)
    IN /\ \/ known /\ Step(t, "lookup", "decode")
          \/ ~known /\ Cached(r.client) = {} /\ Step(t, "lookup", "fetch")
          \/ ~known /\ Cached(r.client) # {} /\ Step(t, "lookup", "refresh")
       /\ keys' = IF known THEN [keys EXCEPT ![r.client] = @ \cup {r.kid}] ELSE keys
       /\ UNCHANGED <<now, issuer, client, jwks, jwksAt>>

\* The issuer answers with what it publishes at that moment.
Answer(t) ==
    /\ request[t].step \in {"fetch", "refresh"}
    /\ request' = [request EXCEPT
          ![t].step = IF @ = "fetch" THEN "reply" ELSE "lastReply",
          ![t].reply = published]
    /\ UNCHANGED <<now, issuer, caches>>

\* The answer is stored, perhaps over a newer one, and searched.
Store(t) ==
    LET r == request[t]
        found == r.kid \in r.reply
    IN /\ r.step \in {"reply", "lastReply"}
       /\ \/ found /\ Step(t, r.step, "decode")
          \/ ~found /\ Step(t, "reply", "refresh")
          \/ ~found /\ r.step = "lastReply" /\ Verdict(t, "unknown")
       /\ jwks' = [jwks EXCEPT ![r.client] = r.reply]
       /\ jwksAt' = [jwksAt EXCEPT ![r.client] = now]
       /\ keys' = IF found THEN [keys EXCEPT ![r.client] = @ \cup {r.kid}] ELSE keys
       /\ UNCHANGED <<now, issuer, client>>

\* The issuer cannot be reached: the client drops its set and raises.
FetchRaises(t, verdict) ==
    /\ request[t].step \in {"fetch", "refresh"}
    /\ Verdict(t, verdict)
    /\ jwks' = [jwks EXCEPT ![request[t].client] = {}]
    /\ UNCHANGED <<now, issuer, client, keys, jwksAt>>

\* mutant: PyJWKClientError caught before its subclass for connections
UnreachableIsRefused(t) == FetchRaises(t, "unknown")

Unreachable(t) == FetchRaises(t, "unreachable")

\* jwt.decode with the key, and the API key after it: either may refuse.
Decode(t) ==
    /\ request[t].step = "decode"
    /\ Verdict(t, "admitted") \/ Verdict(t, "refused")
    /\ UNCHANGED <<now, issuer, caches>>

AuthNext ==
    \/ Second
    \/ \E k \in Kids : Publish(k) \/ Retire(k)
    \/ \E t \in Threads :
          \/ \E k \in Kids : Get(t, k)
          \/ Lookup(t) \/ Answer(t) \/ Store(t) \/ Unreachable(t) \/ Decode(t)

AuthSpec == AuthInit /\ [][AuthNext]_authVars

-----------------------------------------------------------------------------
(* Properties *)

\* An admitted request's key was still published at most the TTL before it
\* took its client, whatever the client remembers and however late its thread
\* is: a retired key is out after the TTL.
KeysAreFresh ==
    \A t \in Threads :
       request[t].step = "admitted" => request[t].at - seen[request[t].kid] <= TTL

\* A token is refused (401) for want of its key only if the key was not
\* published all the while: an outage of the issuer is answered 503, and a key
\* newer than the cached set is found.
UnknownOnlyIfRetired ==
    \A t \in Threads : request[t].step = "unknown" => ~request[t].steady
=============================================================================
