------------------------------ MODULE TokenAuth -----------------------------
(***************************************************************************)
(* services/auth: Authenticate with its cache of users, the verifier, and  *)
(* the fetcher with its cache of keys, called by concurrent handlers.  The *)
(* fetcher has no lock.  Time passes in ticks; the only steps that take    *)
(* any are the request for the keys and the one to the backend.            *)
(***************************************************************************)
EXTENDS TenantFilter

CONSTANTS
  Handlers, Kids,
  Tokens,       \* records [alg, kid, sound, nbf, exp, sub, groups]
  TokenTTL,     \* auth.jwt.cache.tokenTtl
  JwksTTL,      \* auth.jwt.cache.jwksTtl
  Timeout,      \* of the client that fetches keys
  MaxTime       \* bound: on the clock

ASSUME TimesAssumption ==
  /\ TokenTTL \in Nat \ {0} /\ JwksTTL \in Nat \ {0} /\ Timeout \in Nat /\ MaxTime \in Nat
  /\ \A t \in Tokens : t.exp \in Nat /\ t.nbf \in Nat

\* "none" stands for a token without a key id.
ASSUME KidAssumption == "none" \notin Kids

VARIABLES
  now,
  algorithm,    \* auth.jwt.algorithm, HS256 with a secret or RS256 with a JWKS URL
  published,    \* the keys that the JWKS endpoint publishes
  withdrawn,    \* when the key that is withdrawn last was published; MaxTime + 1 before
  keys,         \* cache of the fetcher
  cacheTime,
  renewed,      \* history: when the keys were first replaced with no answer left that has
                \* the withdrawn key; 0 before
  userCache,    \* when the cached user of each token expires; 0 when there is none
  crashed,      \* the runtime has found concurrent accesses to the cache of the fetcher
  pc,           \* where each handler is
  token,        \* the token of its request
  deadline,     \* of its request for the keys
  got,          \* the keys of the response that it has still to store
  excused       \* history: its fetch failed, or another one replaced what it stored

authVars == <<now, algorithm, published, withdrawn, keys, cacheTime, renewed, userCache,
              crashed, pc, token, deadline, got, excused>>
cacheVars == <<keys, cacheTime, renewed, userCache, crashed>>
fetcherVars == <<keys, cacheTime, renewed, deadline, got, excused>>
worldVars == <<now, algorithm, published, withdrawn, useProjectID>>

Never == MaxTime + 1
NoToken == [alg |-> "none", kid |-> "none", sound |-> FALSE, nbf |-> 0, exp |-> 0,
            sub |-> FALSE, groups |-> {}]

AuthTypeOK ==
  /\ now \in 0..MaxTime /\ algorithm \in {"HS256", "RS256"} /\ useProjectID \in BOOLEAN
  /\ published \subseteq Kids /\ withdrawn \in 0..Never
  /\ keys \subseteq Kids /\ cacheTime \in 0..MaxTime /\ renewed \in 0..MaxTime
  /\ userCache \in [Tokens -> 0..MaxTime + TokenTTL] /\ crashed \in BOOLEAN
  /\ token \in [Handlers -> Tokens \cup {NoToken}]
  /\ deadline \in [Handlers -> 0..MaxTime + Timeout]
  /\ got \in [Handlers -> SUBSET Kids] /\ excused \in [Handlers -> BOOLEAN]

AuthInit ==
  /\ now = 0 /\ algorithm \in {"HS256", "RS256"} /\ useProjectID \in BOOLEAN
  /\ published = Kids /\ withdrawn = Never
  /\ keys = {} /\ cacheTime = 0 /\ renewed = 0     \* the cache is empty, whatever its time
  /\ userCache = [t \in Tokens |-> 0] /\ crashed = FALSE
  /\ token = [h \in Handlers |-> NoToken] /\ deadline = [h \in Handlers |-> 0]
  /\ got = [h \in Handlers |-> {}] /\ excused = [h \in Handlers |-> FALSE]

Goto(h, place) == pc' = [pc EXCEPT ![h] = place]

\* An access to the map of keys while another handler writes to it may end the process.
MayCrash(h) ==
  \/ crashed' = FALSE
  \/ (\E o \in Handlers \ {h} : pc[o] = "fill") /\ crashed' = TRUE

\* Authenticate looks into the cache of users.
LoadUser(h) ==
  /\ pc[h] = "load"
  /\ \/ now < userCache[token[h]] /\ Goto(h, "process")
     \/ userCache[token[h]] = 0 /\ Goto(h, "verify")
     \/ userCache[token[h]] \in 1..now /\ Goto(h, "evict")
  /\ UNCHANGED <<worldVars, fetcherVars, userCache, crashed, token>>

\* It removes what has expired, or has been stored again since.
EvictUser(h) ==
  /\ pc[h] = "evict"
  /\ userCache' = [userCache EXCEPT ![token[h]] = 0]
  /\ Goto(h, "verify")
  /\ UNCHANGED <<worldVars, fetcherVars, crashed, token>>

\* fetchJWKS makes its request.
StartFetch(h) == Goto(h, "fetch") /\ deadline' = [deadline EXCEPT ![h] = now + Timeout]

\* keyFunc: handleHMACKey, or handleRSAKey, where GetPublicKey looks for the key in the
\* cache; how old the cache is it looks at afterwards.
FindKey(h) ==
  /\ pc[h] = "verify"
  /\ LET t == token[h]
     IN \/ (t.alg # algorithm \/ (algorithm = "RS256" /\ t.kid = "none"))
           /\ Goto(h, "denied") /\ UNCHANGED <<deadline, crashed>>
        \/ t.alg = algorithm /\ algorithm = "HS256"
           /\ Goto(h, "claims") /\ UNCHANGED <<deadline, crashed>>
        \/ /\ t.alg = algorithm /\ algorithm = "RS256" /\ t.kid # "none"
           /\ MayCrash(h)
           /\ \/ t.kid \in keys /\ Goto(h, "fresh") /\ UNCHANGED deadline
              \/ t.kid \notin keys /\ StartFetch(h)
  /\ UNCHANGED <<worldVars, keys, cacheTime, renewed, got, excused, userCache, token>>

\* Mutant: the age of the cache is not looked at.
TrustKey(h) ==
  /\ pc[h] = "fresh"
  /\ Goto(h, "claims")
  /\ UNCHANGED <<worldVars, fetcherVars, userCache, crashed, token>>

\* GetPublicKey uses the key it has found if the cache, which another handler may have
\* replaced meanwhile, is fresh.
CheckAge(h) ==
  /\ pc[h] = "fresh"
  /\ \/ now - cacheTime < JwksTTL /\ Goto(h, "claims") /\ UNCHANGED deadline
     \/ ~(now - cacheTime < JwksTTL) /\ StartFetch(h)
  /\ UNCHANGED <<worldVars, keys, cacheTime, renewed, got, excused, userCache, crashed, token>>

\* The endpoint answers with the keys of this moment.
FetchAnswered(h) ==
  /\ pc[h] = "fetch"
  /\ got' = [got EXCEPT ![h] = published]
  /\ Goto(h, "body")
  /\ UNCHANGED <<worldVars, keys, cacheTime, renewed, deadline, excused, userCache, crashed, token>>

\* The request fails, times out, or its answer is no JWKS.
FetchFails(h) ==
  /\ pc[h] \in {"fetch", "body"}
  /\ got' = [got EXCEPT ![h] = {}] /\ deadline' = [deadline EXCEPT ![h] = 0]
  /\ excused' = [excused EXCEPT ![h] = TRUE]
  /\ Goto(h, "denied")
  /\ UNCHANGED <<worldVars, keys, cacheTime, renewed, userCache, crashed, token>>

\* fetchJWKS has read the answer and puts an empty map in the place of the cache.
NewKeys(h) ==
  /\ pc[h] = "body"
  /\ keys' = {} /\ cacheTime' = now
  /\ renewed' = IF renewed = 0 /\ withdrawn + Timeout < now THEN now ELSE renewed
  /\ deadline' = [deadline EXCEPT ![h] = 0]
  /\ Goto(h, "fill")
  /\ excused' = [o \in Handlers |-> excused[o] \/ (o # h /\ pc[o] \in {"fill", "found"})]
  /\ UNCHANGED <<worldVars, got, userCache, crashed, token>>

\* Mutant: only one key of the answer is stored.
StoreOneKey(h) ==
  /\ pc[h] = "fill"
  /\ MayCrash(h)
  /\ \/ \E k \in got[h] : keys' = keys \cup {k}
     \/ got[h] = {} /\ UNCHANGED keys
  /\ got' = [got EXCEPT ![h] = {}]
  /\ Goto(h, "found")
  /\ UNCHANGED <<worldVars, cacheTime, renewed, deadline, excused, userCache, token>>

\* It stores the keys one by one, in whatever map is the cache by then.
StoreKey(h) ==
  /\ pc[h] = "fill"
  /\ MayCrash(h)
  /\ \/ \E k \in got[h] : /\ keys' = keys \cup {k}
                          /\ got' = [got EXCEPT ![h] = @ \ {k}]
                          /\ UNCHANGED pc
     \/ got[h] = {} /\ Goto(h, "found") /\ UNCHANGED <<keys, got>>
  /\ UNCHANGED <<worldVars, cacheTime, renewed, deadline, excused, userCache, token>>

\* GetPublicKey looks again.
FindFetchedKey(h) ==
  /\ pc[h] = "found"
  /\ MayCrash(h)
  /\ Goto(h, IF token[h].kid \in keys THEN "claims" ELSE "denied")
  /\ UNCHANGED <<worldVars, fetcherVars, userCache, token>>

\* Mutant: exp is not looked at.
validateStart(t) == ~(t.nbf > now)

\* The signature (external) and validateClaims; a token without iat is one that is not
\* sound, and nbf is the later one of its nbf and its iat.
validateClaims(t) == t.exp # 0 /\ ~(t.exp < now) /\ ~(t.nbf > now)
Verified(t) == t.sound /\ validateClaims(t) /\ t.sub

\* VerifyToken and Authenticate go on with the key; the user is cached.
StoreUser(h) ==
  /\ pc[h] = "claims"
  /\ \/ /\ Verified(token[h])
        /\ userCache' = [userCache EXCEPT ![token[h]] = now + TokenTTL]
        /\ Goto(h, "process")
     \/ ~Verified(token[h]) /\ Goto(h, "denied") /\ UNCHANGED userCache
  /\ UNCHANGED <<worldVars, fetcherVars, crashed, token>>

\* CleanupCache; nothing calls it.
CleanupCache ==
  /\ \E t \in Tokens : userCache[t] # 0 /\ now > userCache[t]
  /\ userCache' = [t \in Tokens |-> IF now > userCache[t] THEN 0 ELSE userCache[t]]
  /\ UNCHANGED <<worldVars, fetcherVars, crashed, pc, token>>

\* The issuer withdraws a key.
Withdraw(k) ==
  /\ algorithm = "RS256" /\ withdrawn = Never
  /\ published' = published \ {k} /\ withdrawn' = now
  /\ UNCHANGED <<now, algorithm, useProjectID, fetcherVars, userCache, crashed, pc, token>>

\* Time passes, but not beyond a deadline nor within a computation.
Tick ==
  /\ now < MaxTime
  /\ \A h \in Handlers : \/ pc[h] \in {"idle", "forward"}
                         \/ pc[h] \in {"fetch", "body"} /\ now < deadline[h]
  /\ now' = now + 1
  /\ UNCHANGED <<algorithm, useProjectID, published, withdrawn, fetcherVars, userCache, crashed,
                 pc, token>>

AuthStep(h) ==
  \/ LoadUser(h) \/ EvictUser(h) \/ FindKey(h) \/ CheckAge(h)
  \/ FetchAnswered(h) \/ FetchFails(h) \/ NewKeys(h) \/ StoreKey(h) \/ FindFetchedKey(h)
  \/ StoreUser(h)
=============================================================================
