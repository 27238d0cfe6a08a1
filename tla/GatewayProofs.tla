---------------------------- MODULE GatewayProofs ---------------------------
(***************************************************************************)
(* How long a token is accepted, and when one is refused, for any number   *)
(* of handlers, any tokens and times to live: the two caches and the fetch *)
(* add up to the bounds that ExpiredTokenFades and WithdrawnKeyFades state,*)
(* and a good token is refused only for the reasons of GoodTokenAccepted.  *)
(***************************************************************************)
EXTENDS Gateway, TLAPS

TimeTypes ==
  /\ now \in 0..MaxTime /\ cacheTime \in Nat /\ withdrawn \in Nat /\ renewed \in Nat
  /\ published \subseteq Kids /\ keys \subseteq Kids
  /\ userCache \in [Tokens -> Nat] /\ deadline \in [Handlers -> Nat]
  /\ got \in [Handlers -> SUBSET Kids]
  /\ pc \in [Handlers -> Places] /\ token \in [Handlers -> Tokens \cup {NoToken}]
  /\ \A h \in Handlers : pc[h] # "idle" => token[h] \in Tokens

\* A user is cached for tokenTtl after a moment at which the token was valid.
ExpiryInv ==
  /\ \A t \in Tokens : userCache[t] <= t.exp + TokenTTL
  /\ \A h \in Handlers : pc[h] = "process" => now < token[h].exp + TokenTTL

\* A fetch is over by its deadline, and a handler that fills the cache takes no time.
FetchInv ==
  /\ cacheTime <= now
  /\ \A t \in Tokens : userCache[t] <= now + TokenTTL
  /\ \A h \in Handlers :
       /\ pc[h] \in {"fetch", "body"} => now <= deadline[h] /\ deadline[h] <= now + Timeout
       /\ pc[h] \in {"fill", "found"} => cacheTime = now

\* When a withdrawn key may still be: in an answer that is being read, in an answer that
\* is being stored, in the cache of keys, with a handler that has yet to look at the age
\* of that cache, behind a token that is being verified, behind a cached user and behind
\* one who is let in.  Once the keys are renewed only a handler that found the key
\* before, at this same moment, still has it.
LastFetch == withdrawn + Timeout
LastVerified == LastFetch + JwksTTL
Unpublished(t) == algorithm = "RS256" /\ t.kid \notin published

KeyInv ==
  /\ withdrawn = Never => published = Kids
  /\ \A h \in Handlers : \A k \in got[h] \ published :
       /\ pc[h] = "body" => deadline[h] <= LastFetch
       /\ pc[h] = "fill" => now <= LastFetch
  /\ \A k \in keys \ published : cacheTime <= LastFetch
RenewedInv ==
  /\ renewed # 0 => LastFetch < renewed /\ renewed <= now /\ keys \subseteq published
  /\ \A h \in Handlers :
       pc[h] = "fresh" /\ Unpublished(token[h]) =>
         renewed = now \/ (renewed = 0 /\ cacheTime <= LastFetch)
UserInv ==
  /\ \A h \in Handlers :
       pc[h] = "claims" /\ Unpublished(token[h]) => now < LastVerified \/ renewed = now
  /\ \A t \in Tokens :
       Unpublished(t) => \/ userCache[t] < LastVerified + TokenTTL
                        \/ userCache[t] <= renewed + TokenTTL
  /\ \A h \in Handlers :
       pc[h] = "process" /\ Unpublished(token[h]) => \/ now + 1 < LastVerified + TokenTTL
                                                   \/ now < renewed + TokenTTL

TimeInv == TimeTypes /\ ExpiryInv /\ FetchInv /\ KeyInv /\ RenewedInv /\ UserInv

\* LoadUser lets in a cached user before the entry expires.
LEMMA LoadUserStep ==
  ASSUME TimeInv, NEW h \in Handlers, LoadUser(h)
  PROVE  TimeInv'
<1> USE DEF TimeInv, TimeTypes
<1>1. UNCHANGED <<renewed, now, cacheTime, withdrawn, published, keys, userCache, deadline, got, token, algorithm>>
  BY Zenon DEF LoadUser, worldVars, fetcherVars
<1>2. PICK place \in {"process", "verify", "evict"} :
        /\ pc[h] = "load" /\ pc' = [pc EXCEPT ![h] = place]
        /\ place = "process" => now < userCache[token[h]]
  BY Zenon DEF LoadUser, Goto
<1>3. TimeTypes'
  BY SMTT(30), <1>1, <1>2 DEF Places
<1>4. ExpiryInv'
  BY SMTT(30), <1>1, <1>2, TimesAssumption DEF ExpiryInv
<1>5. FetchInv'
  BY SMTT(30), <1>1, <1>2, TimesAssumption DEF FetchInv
<1>6. KeyInv'
  BY SMTT(30), <1>1, <1>2 DEF KeyInv, LastFetch
<1>7. RenewedInv'
  BY SMTT(30), <1>1, <1>2, TimesAssumption DEF RenewedInv, KeyInv, FetchInv, LastFetch,
     Unpublished, Never
<1>8. UserInv'
  BY SMTT(30), <1>1, <1>2, TimesAssumption DEF UserInv, RenewedInv, KeyInv, FetchInv,
     LastVerified, LastFetch, Unpublished
<1> HIDE DEF TimeTypes
<1>9. QED
  BY <1>3, <1>4, <1>5, <1>6, <1>7, <1>8, Zenon

\* EvictUser only removes an entry.
LEMMA EvictUserStep ==
  ASSUME TimeInv, NEW h \in Handlers, EvictUser(h)
  PROVE  TimeInv'
<1> USE DEF TimeInv, TimeTypes
<1>1. UNCHANGED <<renewed, now, cacheTime, withdrawn, published, keys, deadline, got, token, algorithm>>
  BY Zenon DEF EvictUser, Goto, worldVars, fetcherVars
<1>2. /\ pc[h] = "evict" /\ pc' = [pc EXCEPT ![h] = "verify"]
      /\ userCache' = [userCache EXCEPT ![token[h]] = 0]
  BY Zenon DEF EvictUser, Goto, worldVars, fetcherVars
<1>3. TimeTypes'
  BY SMTT(30), <1>1, <1>2, TimesAssumption DEF Places
<1>4. ExpiryInv'
  BY SMTT(30), <1>1, <1>2, TimesAssumption DEF ExpiryInv
<1>5. FetchInv'
  BY SMTT(30), <1>1, <1>2, TimesAssumption DEF FetchInv
<1>6. KeyInv'
  BY SMTT(30), <1>1, <1>2, TimesAssumption DEF KeyInv, FetchInv, LastFetch, Never
<1>7. RenewedInv'
  BY SMTT(30), <1>1, <1>2, TimesAssumption DEF RenewedInv, KeyInv, FetchInv, LastFetch,
     Unpublished, Never
<1>8. UserInv'
  BY SMTT(30), <1>1, <1>2, TimesAssumption DEF UserInv, RenewedInv, KeyInv, FetchInv,
     LastVerified, LastFetch, Unpublished
<1> HIDE DEF TimeTypes
<1>9. QED
  BY <1>3, <1>4, <1>5, <1>6, <1>7, <1>8, Zenon

\* FindKey takes a key from a fresh cache only, and gives a fetch its deadline.
LEMMA FindKeyStep ==
  ASSUME TimeInv, NEW h \in Handlers, FindKey(h)
  PROVE  TimeInv'
<1> USE DEF TimeInv, TimeTypes
<1>1. UNCHANGED <<renewed, now, cacheTime, withdrawn, published, keys, userCache, got, token, algorithm>>
  BY Zenon DEF FindKey, StartFetch, Goto, worldVars
<1>2. PICK place \in {"denied", "claims", "fetch", "fresh"} :
        /\ pc[h] = "verify" /\ pc' = [pc EXCEPT ![h] = place]
        /\ deadline' = IF place = "fetch" THEN [deadline EXCEPT ![h] = now + Timeout] ELSE deadline
        /\ place = "claims" => algorithm = "HS256"
        /\ place = "fresh" => token[h].kid \in keys
  BY Zenon DEF FindKey, StartFetch, Goto, worldVars
<1>3. TimeTypes'
  BY SMTT(30), <1>1, <1>2, TimesAssumption DEF Places
<1>4. ExpiryInv'
  BY SMTT(30), <1>1, <1>2, TimesAssumption DEF ExpiryInv
<1>5. FetchInv'
  BY SMTT(30), <1>1, <1>2, TimesAssumption DEF FetchInv
<1>6. KeyInv'
  BY SMTT(30), <1>1, <1>2, TimesAssumption DEF KeyInv, FetchInv, LastFetch, Never
<1>7. RenewedInv'
  BY SMTT(30), <1>1, <1>2, TimesAssumption DEF RenewedInv, KeyInv, FetchInv, LastFetch,
     Unpublished, Never
<1>8. UserInv'
  BY SMTT(30), <1>1, <1>2, TimesAssumption DEF UserInv, RenewedInv, KeyInv, FetchInv,
     LastVerified, LastFetch, Unpublished
<1> HIDE DEF TimeTypes
<1>9. QED
  BY <1>3, <1>4, <1>5, <1>6, <1>7, <1>8, Zenon

\* CheckAge takes a key that was found if the cache is fresh, and it is then not older
\* than the key or was replaced just now.
LEMMA CheckAgeStep ==
  ASSUME TimeInv, NEW h \in Handlers, CheckAge(h)
  PROVE  TimeInv'
<1> USE DEF TimeInv, TimeTypes
<1>1. UNCHANGED <<renewed, now, cacheTime, withdrawn, published, keys, userCache, got, token, algorithm>>
  BY Zenon DEF CheckAge, StartFetch, Goto, worldVars
<1>2. PICK place \in {"claims", "fetch"} :
        /\ pc[h] = "fresh" /\ pc' = [pc EXCEPT ![h] = place]
        /\ deadline' = IF place = "fetch" THEN [deadline EXCEPT ![h] = now + Timeout] ELSE deadline
        /\ place = "claims" => now - cacheTime < JwksTTL
  BY Zenon DEF CheckAge, StartFetch, Goto, worldVars
<1>3. TimeTypes'
  BY SMTT(30), <1>1, <1>2, TimesAssumption DEF Places
<1>4. ExpiryInv'
  BY SMTT(30), <1>1, <1>2, TimesAssumption DEF ExpiryInv
<1>5. FetchInv'
  BY SMTT(30), <1>1, <1>2, TimesAssumption DEF FetchInv
<1>6. KeyInv'
  BY SMTT(30), <1>1, <1>2, TimesAssumption DEF KeyInv, FetchInv, LastFetch, Never
<1>7. RenewedInv'
  BY SMTT(30), <1>1, <1>2, TimesAssumption DEF RenewedInv, KeyInv, FetchInv, LastFetch,
     Unpublished, Never
<1>8. UserInv'
  BY SMTT(30), <1>1, <1>2, TimesAssumption DEF UserInv, RenewedInv, KeyInv, FetchInv,
     LastVerified, LastFetch, Unpublished
<1> HIDE DEF TimeTypes
<1>9. QED
  BY <1>3, <1>4, <1>5, <1>6, <1>7, <1>8, Zenon

\* FetchAnswered brings keys that are published.
LEMMA FetchAnsweredStep ==
  ASSUME TimeInv, NEW h \in Handlers, FetchAnswered(h)
  PROVE  TimeInv'
<1> USE DEF TimeInv, TimeTypes
<1>1. UNCHANGED <<renewed, now, cacheTime, withdrawn, published, keys, userCache, deadline, token, algorithm>>
  BY Zenon DEF FetchAnswered, Goto, worldVars
<1>2. /\ pc[h] = "fetch" /\ pc' = [pc EXCEPT ![h] = "body"]
      /\ got' = [got EXCEPT ![h] = published]
  BY Zenon DEF FetchAnswered, Goto, worldVars
<1>3. TimeTypes'
  BY SMTT(30), <1>1, <1>2, TimesAssumption DEF Places
<1>4. ExpiryInv'
  BY SMTT(30), <1>1, <1>2, TimesAssumption DEF ExpiryInv
<1>5. FetchInv'
  BY SMTT(30), <1>1, <1>2, TimesAssumption DEF FetchInv
<1>6. KeyInv'
  BY SMTT(30), <1>1, <1>2, TimesAssumption DEF KeyInv, FetchInv, LastFetch, Never
<1>7. RenewedInv'
  BY SMTT(30), <1>1, <1>2, TimesAssumption DEF RenewedInv, KeyInv, FetchInv, LastFetch,
     Unpublished, Never
<1>8. UserInv'
  BY SMTT(30), <1>1, <1>2, TimesAssumption DEF UserInv, RenewedInv, KeyInv, FetchInv,
     LastVerified, LastFetch, Unpublished
<1> HIDE DEF TimeTypes
<1>9. QED
  BY <1>3, <1>4, <1>5, <1>6, <1>7, <1>8, Zenon

\* FetchFails refuses the token.
LEMMA FetchFailsStep ==
  ASSUME TimeInv, NEW h \in Handlers, FetchFails(h)
  PROVE  TimeInv'
<1> USE DEF TimeInv, TimeTypes
<1>1. UNCHANGED <<renewed, now, cacheTime, withdrawn, published, keys, userCache, token, algorithm>>
  BY Zenon DEF FetchFails, Goto, worldVars
<1>2. /\ pc[h] \in {"fetch", "body"} /\ pc' = [pc EXCEPT ![h] = "denied"]
      /\ got' = [got EXCEPT ![h] = {}] /\ deadline' = [deadline EXCEPT ![h] = 0]
  BY Zenon DEF FetchFails, Goto, worldVars
<1>3. TimeTypes'
  BY SMTT(30), <1>1, <1>2, TimesAssumption DEF Places
<1>4. ExpiryInv'
  BY SMTT(30), <1>1, <1>2, TimesAssumption DEF ExpiryInv
<1>5. FetchInv'
  BY SMTT(30), <1>1, <1>2, TimesAssumption DEF FetchInv
<1>6. KeyInv'
  BY SMTT(30), <1>1, <1>2, TimesAssumption DEF KeyInv, FetchInv, LastFetch, Never
<1>7. RenewedInv'
  BY SMTT(30), <1>1, <1>2, TimesAssumption DEF RenewedInv, KeyInv, FetchInv, LastFetch,
     Unpublished, Never
<1>8. UserInv'
  BY SMTT(30), <1>1, <1>2, TimesAssumption DEF UserInv, RenewedInv, KeyInv, FetchInv,
     LastVerified, LastFetch, Unpublished
<1> HIDE DEF TimeTypes
<1>9. QED
  BY <1>3, <1>4, <1>5, <1>6, <1>7, <1>8, Zenon

\* NewKeys empties the cache before the deadline of the answer.
LEMMA NewKeysStep ==
  ASSUME TimeInv, NEW h \in Handlers, NewKeys(h)
  PROVE  TimeInv'
<1> USE DEF TimeInv, TimeTypes
<1>1. UNCHANGED <<now, withdrawn, published, userCache, got, token, algorithm>>
  BY Zenon DEF NewKeys, Goto, worldVars
<1>2. /\ pc[h] = "body" /\ pc' = [pc EXCEPT ![h] = "fill"]
      /\ keys' = {} /\ cacheTime' = now
      /\ renewed' = IF renewed = 0 /\ withdrawn + Timeout < now THEN now ELSE renewed
      /\ deadline' = [deadline EXCEPT ![h] = 0]
  BY Zenon DEF NewKeys, Goto, worldVars
<1>3. TimeTypes'
  BY SMTT(30), <1>1, <1>2, TimesAssumption DEF Places
<1>4. ExpiryInv'
  BY SMTT(30), <1>1, <1>2, TimesAssumption DEF ExpiryInv
<1>5. FetchInv'
  BY SMTT(30), <1>1, <1>2, TimesAssumption DEF FetchInv
<1>6. KeyInv'
  BY SMTT(30), <1>1, <1>2, TimesAssumption DEF KeyInv, FetchInv, LastFetch, Never
<1>7. RenewedInv'
  BY SMTT(30), <1>1, <1>2, TimesAssumption DEF RenewedInv, KeyInv, FetchInv, LastFetch,
     Unpublished, Never
<1>8. UserInv'
  BY SMTT(30), <1>1, <1>2, TimesAssumption DEF UserInv, RenewedInv, KeyInv, FetchInv,
     LastVerified, LastFetch, Unpublished
<1> HIDE DEF TimeTypes
<1>9. QED
  BY <1>3, <1>4, <1>5, <1>6, <1>7, <1>8, Zenon

\* StoreKey stores no key later than its answer was read.
LEMMA StoreKeyStep ==
  ASSUME TimeInv, NEW h \in Handlers, StoreKey(h)
  PROVE  TimeInv'
<1> USE DEF TimeInv, TimeTypes
<1>1. UNCHANGED <<renewed, now, cacheTime, withdrawn, published, userCache, deadline, token, algorithm>>
  BY Zenon DEF StoreKey, Goto, worldVars
<1>2. /\ pc[h] = "fill"
      /\ \/ \E k \in got[h] : /\ keys' = keys \cup {k} /\ pc' = pc
                              /\ got' = [got EXCEPT ![h] = @ \ {k}]
         \/ pc' = [pc EXCEPT ![h] = "found"] /\ UNCHANGED <<keys, got>>
  BY Zenon DEF StoreKey, Goto, worldVars
<1>3. TimeTypes'
  BY SMTT(30), <1>1, <1>2, TimesAssumption DEF Places
<1>4. ExpiryInv'
  BY SMTT(30), <1>1, <1>2, TimesAssumption DEF ExpiryInv
<1>5. FetchInv'
  BY SMTT(30), <1>1, <1>2, TimesAssumption DEF FetchInv
<1>6. KeyInv'
  BY SMTT(30), <1>1, <1>2, TimesAssumption DEF KeyInv, FetchInv, LastFetch, Never
<1>7. RenewedInv'
  BY SMTT(30), <1>1, <1>2, TimesAssumption DEF RenewedInv, KeyInv, FetchInv, LastFetch,
     Unpublished, Never
<1>8. UserInv'
  BY SMTT(30), <1>1, <1>2, TimesAssumption DEF UserInv, RenewedInv, KeyInv, FetchInv,
     LastVerified, LastFetch, Unpublished
<1> HIDE DEF TimeTypes
<1>9. QED
  BY <1>3, <1>4, <1>5, <1>6, <1>7, <1>8, Zenon

\* FindFetchedKey finds keys of a cache that was filled at this moment.
LEMMA FindFetchedKeyStep ==
  ASSUME TimeInv, NEW h \in Handlers, FindFetchedKey(h)
  PROVE  TimeInv'
<1> USE DEF TimeInv, TimeTypes
<1>1. UNCHANGED <<renewed, now, cacheTime, withdrawn, published, keys, userCache, deadline, got, token, algorithm>>
  BY Zenon DEF FindFetchedKey, Goto, worldVars, fetcherVars
<1>2. PICK place \in {"claims", "denied"} :
        /\ pc[h] = "found" /\ pc' = [pc EXCEPT ![h] = place]
        /\ place = "claims" => token[h].kid \in keys
  BY ZenonT(60) DEF FindFetchedKey, Goto, worldVars, fetcherVars
<1>3. TimeTypes'
  BY SMTT(30), <1>1, <1>2, TimesAssumption DEF Places
<1>4. ExpiryInv'
  BY SMTT(30), <1>1, <1>2, TimesAssumption DEF ExpiryInv
<1>5. FetchInv'
  BY SMTT(30), <1>1, <1>2, TimesAssumption DEF FetchInv
<1>6. KeyInv'
  BY SMTT(30), <1>1, <1>2, TimesAssumption DEF KeyInv, FetchInv, LastFetch, Never
<1>7. RenewedInv'
  BY SMTT(30), <1>1, <1>2, TimesAssumption DEF RenewedInv, KeyInv, FetchInv, LastFetch,
     Unpublished, Never
<1>8. UserInv'
  BY SMTT(30), <1>1, <1>2, TimesAssumption DEF UserInv, RenewedInv, KeyInv, FetchInv,
     LastVerified, LastFetch, Unpublished
<1> HIDE DEF TimeTypes
<1>9. QED
  BY <1>3, <1>4, <1>5, <1>6, <1>7, <1>8, Zenon

\* StoreUser caches the user of a token that is valid now.
LEMMA StoreUserStep ==
  ASSUME TimeInv, NEW h \in Handlers, StoreUser(h)
  PROVE  TimeInv'
<1> USE DEF TimeInv, TimeTypes
<1>1. UNCHANGED <<renewed, now, cacheTime, withdrawn, published, keys, deadline, got, token, algorithm>>
  BY Zenon DEF StoreUser, Goto, Verified, validateClaims, worldVars, fetcherVars
<1>2. /\ pc[h] = "claims"
      /\ \/ /\ ~(token[h].exp < now) /\ pc' = [pc EXCEPT ![h] = "process"]
            /\ userCache' = [userCache EXCEPT ![token[h]] = now + TokenTTL]
         \/ pc' = [pc EXCEPT ![h] = "denied"] /\ userCache' = userCache
  BY Zenon DEF StoreUser, Goto, Verified, validateClaims, worldVars, fetcherVars
<1>3. TimeTypes'
  BY SMTT(30), <1>1, <1>2, TimesAssumption DEF Places
<1>4. ExpiryInv'
  BY SMTT(30), <1>1, <1>2, TimesAssumption DEF ExpiryInv
<1>5. FetchInv'
  BY SMTT(30), <1>1, <1>2, TimesAssumption DEF FetchInv
<1>6. KeyInv'
  BY SMTT(30), <1>1, <1>2, TimesAssumption DEF KeyInv, FetchInv, LastFetch, Never
<1>7. RenewedInv'
  BY SMTT(30), <1>1, <1>2, TimesAssumption DEF RenewedInv, KeyInv, FetchInv, LastFetch,
     Unpublished, Never
<1>8. UserInv'
  BY SMTT(30), <1>1, <1>2, TimesAssumption DEF UserInv, RenewedInv, KeyInv, FetchInv,
     LastVerified, LastFetch, Unpublished
<1> HIDE DEF TimeTypes
<1>9. QED
  BY <1>3, <1>4, <1>5, <1>6, <1>7, <1>8, Zenon

\* CleanupCache only removes entries.
LEMMA CleanupStep ==
  ASSUME TimeInv, CleanupCache
  PROVE  TimeInv'
<1> USE DEF TimeInv, TimeTypes
<1>1. UNCHANGED <<renewed, now, cacheTime, withdrawn, published, keys, deadline, got, token, algorithm>>
  BY Zenon DEF CleanupCache, worldVars, fetcherVars
<1>2. /\ pc' = pc
      /\ userCache' = [t \in Tokens |-> IF now > userCache[t] THEN 0 ELSE userCache[t]]
  BY Zenon DEF CleanupCache, worldVars, fetcherVars
<1>3. TimeTypes'
  BY SMTT(30), <1>1, <1>2, TimesAssumption DEF Places
<1>4. ExpiryInv'
  BY SMTT(30), <1>1, <1>2, TimesAssumption DEF ExpiryInv
<1>5. FetchInv'
  BY SMTT(30), <1>1, <1>2, TimesAssumption DEF FetchInv
<1>6. KeyInv'
  BY SMTT(30), <1>1, <1>2, TimesAssumption DEF KeyInv, FetchInv, LastFetch, Never
<1>7. RenewedInv'
  BY SMTT(30), <1>1, <1>2, TimesAssumption DEF RenewedInv, KeyInv, FetchInv, LastFetch,
     Unpublished, Never
<1>8. UserInv'
  BY SMTT(30), <1>1, <1>2, TimesAssumption DEF UserInv, RenewedInv, KeyInv, FetchInv,
     LastVerified, LastFetch, Unpublished
<1> HIDE DEF TimeTypes
<1>9. QED
  BY <1>3, <1>4, <1>5, <1>6, <1>7, <1>8, Zenon

\* Withdraw: whatever is known of the key now was so when it was published.
LEMMA WithdrawStep ==
  ASSUME TimeInv, NEW x \in Kids, Withdraw(x)
  PROVE  TimeInv'
<1> USE DEF TimeInv, TimeTypes
<1>1. UNCHANGED <<renewed, now, cacheTime, keys, userCache, deadline, got, token, algorithm>>
  BY Zenon DEF Withdraw, fetcherVars
<1>2. /\ pc' = pc /\ withdrawn = Never
      /\ published' = published \ {x} /\ withdrawn' = now
  BY Zenon DEF Withdraw, fetcherVars
<1>3. TimeTypes'
  BY SMTT(30), <1>1, <1>2, TimesAssumption DEF Places
<1>4. ExpiryInv'
  BY SMTT(30), <1>1, <1>2, TimesAssumption DEF ExpiryInv
<1>5. FetchInv'
  BY SMTT(30), <1>1, <1>2, TimesAssumption DEF FetchInv
<1>6. KeyInv'
  BY SMTT(30), <1>1, <1>2, TimesAssumption DEF KeyInv, FetchInv, LastFetch, Never
<1>7. RenewedInv'
  BY SMTT(30), <1>1, <1>2, TimesAssumption DEF RenewedInv, KeyInv, FetchInv, LastFetch,
     Unpublished, Never
<1>8. UserInv'
  BY SMTT(30), <1>1, <1>2, TimesAssumption DEF UserInv, RenewedInv, KeyInv, FetchInv,
     LastVerified, LastFetch, Unpublished
<1> HIDE DEF TimeTypes
<1>9. QED
  BY <1>3, <1>4, <1>5, <1>6, <1>7, <1>8, Zenon

\* Time passes only while handlers wait.
LEMMA TickStep ==
  ASSUME TimeInv, Tick
  PROVE  TimeInv'
<1> USE DEF TimeInv, TimeTypes
<1>1. UNCHANGED <<renewed, cacheTime, withdrawn, published, keys, userCache, deadline, got, token, algorithm>>
  BY Zenon DEF Tick, fetcherVars
<1>2. /\ pc' = pc /\ now < MaxTime /\ now' = now + 1
      /\ \A h \in Handlers : \/ pc[h] \in {"idle", "forward"}
                             \/ pc[h] \in {"fetch", "body"} /\ now < deadline[h]
  BY Zenon DEF Tick, fetcherVars
<1>3. TimeTypes'
  BY SMTT(30), <1>1, <1>2, TimesAssumption DEF Places
<1>4. ExpiryInv'
  BY SMTT(30), <1>1, <1>2, TimesAssumption DEF ExpiryInv
<1>5. FetchInv'
  BY SMTT(30), <1>1, <1>2, TimesAssumption DEF FetchInv
<1>6. KeyInv'
  BY SMTT(30), <1>1, <1>2, TimesAssumption DEF KeyInv, FetchInv, LastFetch, Never
<1>7. RenewedInv'
  BY SMTT(30), <1>1, <1>2, TimesAssumption DEF RenewedInv, KeyInv, FetchInv, LastFetch,
     Unpublished, Never
<1>8. UserInv'
  BY SMTT(30), <1>1, <1>2, TimesAssumption DEF UserInv, RenewedInv, KeyInv, FetchInv,
     LastVerified, LastFetch, Unpublished
<1> HIDE DEF TimeTypes
<1>9. QED
  BY <1>3, <1>4, <1>5, <1>6, <1>7, <1>8, Zenon

\* Respond, by whichever way it is reached, ends the request.
LEMMA RespondStep ==
  ASSUME TimeInv, NEW h \in Handlers, Respond(h)
  PROVE  TimeInv'
<1> USE DEF TimeInv, TimeTypes
<1>1. UNCHANGED <<renewed, now, cacheTime, withdrawn, published, keys, userCache, deadline, got, algorithm>>
  BY Zenon DEF Respond, Goto, worldVars, cacheVars
<1>2. /\ pc' = [pc EXCEPT ![h] = "idle"]
      /\ token' = [token EXCEPT ![h] = NoToken]
  BY SMTT(30) DEF Respond, Goto, worldVars, cacheVars
<1>3. TimeTypes'
  BY SMTT(30), <1>1, <1>2, TimesAssumption DEF Places
<1>4. ExpiryInv'
  BY SMTT(30), <1>1, <1>2, TimesAssumption DEF ExpiryInv
<1>5. FetchInv'
  BY SMTT(30), <1>1, <1>2, TimesAssumption DEF FetchInv
<1>6. KeyInv'
  BY SMTT(30), <1>1, <1>2, TimesAssumption DEF KeyInv, FetchInv, LastFetch, Never
<1>7. RenewedInv'
  BY SMTT(30), <1>1, <1>2, TimesAssumption DEF RenewedInv, KeyInv, FetchInv, LastFetch,
     Unpublished, Never
<1>8. UserInv'
  BY SMTT(30), <1>1, <1>2, TimesAssumption DEF UserInv, RenewedInv, KeyInv, FetchInv,
     LastVerified, LastFetch, Unpublished
<1> HIDE DEF TimeTypes
<1>9. QED
  BY <1>3, <1>4, <1>5, <1>6, <1>7, <1>8, Zenon

\* The steps of a handler that is not in Authenticate.
LEMMA FlowStep ==
  ASSUME TimeInv, NEW h \in Handlers,
         \/ Deny(h) \/ Forwarded(h) \/ (\E r \in Requests : Process(h, r))
         \/ (\E t \in Tokens \cup {NoToken} : ServeHTTP(h, t))
  PROVE  TimeInv'
<1>1. CASE Respond(h)
  BY SMTT(30), <1>1, RespondStep
<1>2. ASSUME NEW t \in Tokens, ServeHTTP(h, t), ~Respond(h)
      PROVE  TimeInv'
  <2>1. /\ UNCHANGED <<renewed, now, cacheTime, withdrawn, published, keys, userCache, deadline, got, algorithm>>
        /\ pc' = [pc EXCEPT ![h] = "load"] /\ token' = [token EXCEPT ![h] = t]
    BY SMTT(30), <1>2 DEF ServeHTTP, Goto, worldVars, cacheVars
  <2> USE <2>1, TimesAssumption DEF TimeInv, TimeTypes
  <2>2. TimeTypes'
    BY SMTT(30) DEF Places
  <2>3. ExpiryInv' /\ FetchInv'
    BY SMTT(30) DEF ExpiryInv, FetchInv
  <2>4. KeyInv' /\ RenewedInv' /\ UserInv'
    BY SMTT(30) DEF KeyInv, RenewedInv, UserInv, LastVerified, LastFetch, Unpublished, Never
  <2> HIDE DEF TimeTypes
  <2>5. QED
    BY <2>2, <2>3, <2>4, Zenon
<1>3. ASSUME NEW r \in Requests, Process(h, r), ~Respond(h)
      PROVE  TimeInv'
  <2>1. /\ UNCHANGED <<renewed, now, cacheTime, withdrawn, published, keys, userCache, deadline, got, token,
                       algorithm>>
        /\ pc[h] = "process" /\ pc' = [pc EXCEPT ![h] = "forward"]
    BY SMTT(30), <1>3 DEF Process, Goto, worldVars, cacheVars
  <2> USE <2>1, TimesAssumption DEF TimeInv, TimeTypes
  <2>2. TimeTypes'
    BY SMTT(30) DEF Places
  <2>3. ExpiryInv' /\ FetchInv'
    BY SMTT(30) DEF ExpiryInv, FetchInv
  <2>4. KeyInv' /\ RenewedInv' /\ UserInv'
    BY SMTT(30) DEF KeyInv, RenewedInv, UserInv, LastVerified, LastFetch, Unpublished, Never
  <2> HIDE DEF TimeTypes
  <2>5. QED
    BY SMTT(30), <2>2, <2>3, <2>4
<1>4. ServeHTTP(h, NoToken) => Respond(h)
  BY Zenon DEF ServeHTTP
<1>5. QED
  BY SMTT(30), <1>1, <1>2, <1>3, <1>4 DEF Deny, Forwarded

\* Every step.
LEMMA TimeStep ==
  ASSUME TimeInv, [Next]_vars
  PROVE  TimeInv'
<1>1. ASSUME NEW h \in Handlers, AuthStep(h)
      PROVE  TimeInv'
  BY SMTT(30), <1>1, LoadUserStep, EvictUserStep, FindKeyStep, CheckAgeStep, FetchAnsweredStep,
     FetchFailsStep, NewKeysStep,
     StoreKeyStep, FindFetchedKeyStep, StoreUserStep DEF AuthStep
<1>2. CASE UNCHANGED vars
  BY SMTT(30), <1>2 DEF vars, authVars, TimeInv, TimeTypes, ExpiryInv, FetchInv,
     KeyInv, RenewedInv, UserInv,
     LastVerified, LastFetch, Unpublished
<1>3. QED
  BY SMTT(30), <1>1, <1>2, FlowStep, TickStep, CleanupStep, WithdrawStep DEF Next,
     HandlerStep

\* At first nothing is cached and no key withdrawn.
LEMMA TimeInit == Init => TimeInv
<1> SUFFICES ASSUME Init PROVE TimeInv
  BY SMTT(30)
<1> USE TimesAssumption DEF Init, AuthInit
<1>1. TimeTypes
  BY DEF TimeTypes, Places, Never
<1>2. ExpiryInv /\ FetchInv
  BY DEF ExpiryInv, FetchInv
<1>3. KeyInv /\ RenewedInv
  BY Zenon DEF KeyInv, RenewedInv
<1>4. UserInv
  BY DEF UserInv, LastVerified, LastFetch, Never
<1>5. QED
  BY SMTT(30), <1>1, <1>2, <1>3, <1>4 DEF TimeInv

\* Authenticate accepts no token tokenTtl or longer after it has expired, whatever
\* handlers cache for each other and evict from under each other.
THEOREM ExpiryBound == Spec => []ExpiredTokenFades
<1>1. TimeInv /\ [Next]_vars => TimeInv'
  BY SMTT(30), TimeStep
<1>2. TimeInv => ExpiredTokenFades
  BY SMTT(30), TimesAssumption DEF TimeInv, TimeTypes, ExpiryInv, ExpiredTokenFades
<1>3. QED
  BY TimeInit, <1>1, <1>2, PTL DEF Spec

\* A withdrawn key is trusted for at most one fetch, one life of the cache of keys and
\* one of the cache of users, and, because GetPublicKey looks for the key before it looks
\* at cacheTime, at the moment when the keys are next replaced and for one more life of
\* the cache of users: unsynchronised fetches cannot prolong that.
THEOREM WithdrawalBound == Spec => []WithdrawnKeyFades
<1>1. TimeInv /\ [Next]_vars => TimeInv'
  BY TimeStep, Zenon
<1>2. TimeInv => WithdrawnKeyFades
  BY SMTT(30), TimesAssumption DEF TimeInv, TimeTypes, UserInv, LastVerified,
     LastFetch, Unpublished,
     WithdrawnKeyFades
<1>3. QED
  BY TimeInit, <1>1, <1>2, PTL DEF Spec
-----------------------------------------------------------------------------
\* A token that is good, with a key that is published.
GoodToken(h) ==
  /\ token[h].alg = algorithm /\ Verified(token[h])
  /\ algorithm = "HS256" \/ token[h].kid \in published

\* What a handler that asks for the keys can rely on: its answer has all the keys
\* that are published since, and unless another handler has replaced the cache
\* they are all in the cache or still to be stored.
Accepting(h) ==
  /\ pc[h] \in {"fresh", "fetch", "body", "fill", "found"} => algorithm = "RS256"
  /\ pc[h] = "body" => published \subseteq got[h]
  /\ pc[h] = "fill" => published \subseteq keys \cup got[h] \/ excused[h]
  /\ pc[h] = "found" => published \subseteq keys \/ excused[h]
  /\ pc[h] = "denied" => ~GoodToken(h) \/ excused[h]

AcceptTypes ==
  /\ algorithm \in {"HS256", "RS256"} /\ excused \in [Handlers -> BOOLEAN]
  /\ got \in [Handlers -> SUBSET Kids] /\ published \subseteq Kids
  /\ pc \in [Handlers -> Places] /\ token \in [Handlers -> Tokens \cup {NoToken}]

AcceptInv == AcceptTypes /\ \A h \in Handlers : Accepting(h)

\* A handler that does not move keeps what it relies on: keys are only added, unless
\* the cache is replaced, which excuses it, and keys are only withdrawn.
LEMMA StayingKeeps ==
  ASSUME AcceptInv, NEW o \in Handlers,
         UNCHANGED <<now, algorithm>>, published' \subseteq published,
         token'[o] = token[o], pc'[o] = pc[o], got'[o] = got[o],
         excused[o] => excused'[o],
         pc[o] \in {"fill", "found"} => keys \subseteq keys' \/ excused'[o]
  PROVE  Accepting(o)'
<1>1. Verified(token[o])' <=> Verified(token[o])
  BY Zenon DEF Verified, validateClaims
<1>2. GoodToken(o)' => GoodToken(o)
  BY <1>1, Zenon DEF GoodToken
<1>3. Accepting(o)
  BY Zenon DEF AcceptInv
<1>4. QED
  BY SMTT(30), <1>2, <1>3 DEF Accepting

\* keyFunc refuses a token for its algorithm or for want of a key id.
LEMMA FindKeyKeeps ==
  ASSUME AcceptInv, NEW h \in Handlers, FindKey(h) \/ CheckAge(h)
  PROVE  AcceptInv'
<1>1. UNCHANGED <<now, algorithm, published, keys, got, excused, token>>
  BY SMTT(30) DEF FindKey, CheckAge, worldVars
<1>2. PICK place \in {"denied", "claims", "fetch", "fresh"} :
        /\ pc' = [pc EXCEPT ![h] = place]
        /\ place \in {"fresh", "fetch"} => algorithm = "RS256"
        /\ place = "denied" => \/ token[h].alg # algorithm
                               \/ algorithm = "RS256" /\ token[h].kid = "none"
  <2>1. CASE FindKey(h)
    BY <2>1, Zenon DEF FindKey, StartFetch, Goto
  <2>2. CASE CheckAge(h)
    BY <2>2, Zenon DEF CheckAge, StartFetch, Goto, AcceptInv, Accepting
  <2>3. QED
    BY <2>1, <2>2, Zenon
<1>3. AcceptTypes'
  BY <1>1, <1>2, Zenon DEF AcceptInv, AcceptTypes, Places
<1>4. pc'[h] = place /\ \A o \in Handlers \ {h} : pc'[o] = pc[o]
  BY SMTT(30), <1>2 DEF AcceptInv, AcceptTypes
<1>5. ASSUME NEW o \in Handlers \ {h} PROVE Accepting(o)'
  BY <1>1, <1>4, StayingKeeps, Zenon
<1>6. place = "denied" => ~GoodToken(h)'
  BY SMTT(30), <1>1, <1>2, KidAssumption DEF GoodToken, AcceptInv, AcceptTypes
<1>7. Accepting(h)'
  BY <1>1, <1>2, <1>4, <1>6, Zenon DEF Accepting
<1>8. QED
  BY SMTT(30), <1>3, <1>5, <1>7 DEF AcceptInv

\* A fetch that fails excuses the refusal; one that is answered brings every key.
LEMMA FetchKeeps ==
  ASSUME AcceptInv, NEW h \in Handlers, FetchFails(h) \/ FetchAnswered(h)
  PROVE  AcceptInv'
<1>1. UNCHANGED <<now, algorithm, published, keys, token>>
  BY Zenon DEF FetchFails, FetchAnswered, worldVars
<1>2. CASE FetchFails(h)
  <2>1. /\ got' = [got EXCEPT ![h] = {}] /\ excused' = [excused EXCEPT ![h] = TRUE]
        /\ pc' = [pc EXCEPT ![h] = "denied"]
    BY <1>2, Zenon DEF FetchFails, Goto
  <2>2. AcceptTypes'
    BY SMTT(30), <1>1, <2>1 DEF AcceptInv, AcceptTypes, Places
  <2>3. ASSUME NEW o \in Handlers \ {h} PROVE Accepting(o)'
    <3>1. pc'[o] = pc[o] /\ got'[o] = got[o] /\ (excused[o] => excused'[o])
      BY <2>1, Zenon DEF AcceptInv, AcceptTypes
    <3>2. QED
      BY <1>1, <3>1, StayingKeeps, Zenon
  <2>4. pc'[h] = "denied" /\ excused'[h]
    BY <2>1, Zenon DEF AcceptInv, AcceptTypes
  <2>5. Accepting(h)'
    BY <2>4, Zenon DEF Accepting
  <2>6. QED
    BY <2>2, <2>3, <2>5, Zenon DEF AcceptInv
<1>3. CASE FetchAnswered(h)
  <2>1. /\ got' = [got EXCEPT ![h] = published] /\ excused' = excused
        /\ pc' = [pc EXCEPT ![h] = "body"] /\ pc[h] = "fetch"
    BY <1>3, Zenon DEF FetchAnswered, Goto
  <2>2. AcceptTypes'
    BY SMTT(30), <1>1, <2>1 DEF AcceptInv, AcceptTypes, Places
  <2>3. ASSUME NEW o \in Handlers \ {h} PROVE Accepting(o)'
    <3>1. pc'[o] = pc[o] /\ got'[o] = got[o]
      BY <2>1, Zenon DEF AcceptInv, AcceptTypes
    <3>2. QED
      BY <1>1, <2>1, <3>1, StayingKeeps, Zenon
  <2>4. pc'[h] = "body" /\ got'[h] = published /\ algorithm = "RS256"
    BY <2>1, Zenon DEF AcceptInv, AcceptTypes, Accepting
  <2>5. Accepting(h)'
    BY <1>1, <2>4, Zenon DEF Accepting
  <2>6. QED
    BY <2>2, <2>3, <2>5 DEF AcceptInv
<1>4. QED
  BY <1>2, <1>3, Zenon

\* fetchJWKS empties the cache under the others, and has its own keys to store.
LEMMA NewKeysKeeps ==
  ASSUME AcceptInv, NEW h \in Handlers, NewKeys(h)
  PROVE  AcceptInv'
<1>1. UNCHANGED <<now, algorithm, published, token, got>>
  BY Zenon DEF NewKeys, worldVars
<1>2. /\ pc[h] = "body" /\ pc' = [pc EXCEPT ![h] = "fill"]
      /\ excused' = [o \in Handlers |-> excused[o] \/ (o # h /\ pc[o] \in {"fill", "found"})]
  BY Zenon DEF NewKeys, Goto
<1>3. AcceptTypes'
  BY <1>1, <1>2, Zenon DEF AcceptInv, AcceptTypes, Places
<1>4. ASSUME NEW o \in Handlers \ {h} PROVE Accepting(o)'
  <2>1. /\ pc'[o] = pc[o] /\ (excused[o] => excused'[o])
        /\ pc[o] \in {"fill", "found"} => excused'[o]
    BY ZenonT(60), <1>2 DEF AcceptInv, AcceptTypes
  <2>2. QED
    BY <1>1, <2>1, StayingKeeps, Zenon
<1>5. pc'[h] = "fill" /\ published \subseteq got[h] /\ algorithm = "RS256"
  BY <1>2, Zenon DEF AcceptInv, AcceptTypes, Accepting
<1>6. Accepting(h)'
  BY <1>1, <1>5, Zenon DEF Accepting
<1>7. QED
  BY SMTT(30), <1>3, <1>4, <1>6 DEF AcceptInv

\* A key that is stored is in the cache; when all are, none is missing.
LEMMA StoreKeyKeeps ==
  ASSUME AcceptInv, NEW h \in Handlers, StoreKey(h)
  PROVE  AcceptInv'
<1>1. UNCHANGED <<now, algorithm, published, token, excused>> /\ pc[h] = "fill"
  BY Zenon DEF StoreKey, worldVars
<1>2. algorithm = "RS256" /\ (published \subseteq keys \cup got[h] \/ excused[h])
  BY <1>1, Zenon DEF AcceptInv, Accepting
<1>3. CASE got[h] = {} /\ Goto(h, "found") /\ UNCHANGED <<keys, got>>
  <2>1. AcceptTypes'
    BY <1>1, <1>3, Zenon DEF AcceptInv, AcceptTypes, Places, Goto
  <2>2. pc'[h] = "found" /\ \A o \in Handlers \ {h} : pc'[o] = pc[o]
    BY <1>3, Zenon DEF AcceptInv, AcceptTypes, Goto
  <2>3. ASSUME NEW o \in Handlers \ {h} PROVE Accepting(o)'
    BY <1>1, <1>3, <2>2, StayingKeeps, Zenon
  <2>4. Accepting(h)'
    BY SMTT(30), <1>1, <1>2, <1>3, <2>2 DEF Accepting
  <2>5. QED
    BY <2>1, <2>3, <2>4, Zenon DEF AcceptInv
<1>4. ASSUME NEW k \in got[h], keys' = keys \cup {k}, got' = [got EXCEPT ![h] = @ \ {k}], UNCHANGED pc
      PROVE  AcceptInv'
  <2>1. AcceptTypes'
    BY <1>1, <1>4, Zenon DEF AcceptInv, AcceptTypes, Places
  <2>2. got'[h] = got[h] \ {k} /\ \A o \in Handlers \ {h} : got'[o] = got[o]
    BY SMTT(30), <1>4 DEF AcceptInv, AcceptTypes
  <2>3. ASSUME NEW o \in Handlers \ {h} PROVE Accepting(o)'
    BY <1>1, <1>4, <2>2, StayingKeeps, Zenon
  <2>4. keys' \cup got'[h] = keys \cup got[h]
    BY SMTT(30), <1>4, <2>2
  <2>5. Accepting(h)'
    BY <1>1, <1>2, <1>4, <2>4, Zenon DEF Accepting
  <2>6. QED
    BY SMTT(30), <2>1, <2>3, <2>5 DEF AcceptInv
<1>5. QED
  BY <1>3, <1>4, Zenon DEF StoreKey

\* A step of one handler that touches neither the keys nor what the others know, to
\* a place where it relies on nothing, or with a reason to refuse the token.
LEMMA MoveKeeps ==
  ASSUME AcceptInv, NEW h \in Handlers, NEW place \in Places,
         UNCHANGED <<now, algorithm, published, keys, got>>,
         pc' = [pc EXCEPT ![h] = place],
         NEW t \in Tokens \cup {NoToken}, token' = [token EXCEPT ![h] = t],
         NEW e \in BOOLEAN, excused' = [excused EXCEPT ![h] = e],
         place \notin {"fresh", "fetch", "body", "fill", "found"},
         place = "denied" => ~GoodToken(h)' \/ excused'[h]
  PROVE  AcceptInv'
<1>1. AcceptTypes'
  BY Zenon DEF AcceptInv, AcceptTypes
<1>2. ASSUME NEW o \in Handlers \ {h} PROVE Accepting(o)'
  <2>1. pc'[o] = pc[o] /\ token'[o] = token[o] /\ excused'[o] = excused[o]
    BY Zenon DEF AcceptInv, AcceptTypes
  <2>2. QED
    BY <2>1, StayingKeeps, Zenon
<1>3. pc'[h] = place
  BY SMTT(30) DEF AcceptInv, AcceptTypes
<1>4. Accepting(h)'
  BY SMTT(30), <1>3 DEF Accepting
<1>5. QED
  BY <1>1, <1>2, <1>4, Zenon DEF AcceptInv

\* When GetPublicKey looks again, a published key is there unless it is excused.
LEMMA FindFetchedKeyKeeps ==
  ASSUME AcceptInv, NEW h \in Handlers, FindFetchedKey(h)
  PROVE  AcceptInv'
<1>1. UNCHANGED <<now, algorithm, published, keys, got, excused, token>> /\ pc[h] = "found"
  BY Zenon DEF FindFetchedKey, worldVars, fetcherVars
<1>2. PICK place \in {"claims", "denied"} :
        pc' = [pc EXCEPT ![h] = place] /\ (place = "denied" => token[h].kid \notin keys)
  BY ZenonT(60) DEF FindFetchedKey, Goto
<1>3. algorithm = "RS256" /\ (published \subseteq keys \/ excused[h])
  BY <1>1, Zenon DEF AcceptInv, Accepting
<1>4. place = "denied" => ~GoodToken(h)' \/ excused'[h]
  BY <1>1, <1>2, <1>3, Zenon DEF GoodToken
<1>5. place \in Places /\ token[h] \in Tokens \cup {NoToken} /\ excused[h] \in BOOLEAN
  BY Zenon DEF AcceptInv, AcceptTypes, Places
<1>6. token' = [token EXCEPT ![h] = token[h]] /\ excused' = [excused EXCEPT ![h] = excused[h]]
  BY <1>1, Zenon DEF AcceptInv, AcceptTypes
<1>7. place \notin {"fresh", "fetch", "body", "fill", "found"}
  BY SMTT(30), <1>2
<1>8. QED
  BY <1>1, <1>2, <1>4, <1>5, <1>6, <1>7, MoveKeeps, Zenon

\* VerifyToken refuses a token whose signature or claims are no good.
LEMMA StoreUserKeeps ==
  ASSUME AcceptInv, NEW h \in Handlers, StoreUser(h)
  PROVE  AcceptInv'
<1>1. UNCHANGED <<now, algorithm, published, keys, got, excused, token>>
  BY Zenon DEF StoreUser, worldVars, fetcherVars
<1>2. PICK place \in {"process", "denied"} :
        pc' = [pc EXCEPT ![h] = place] /\ (place = "denied" => ~Verified(token[h]))
  BY Zenon DEF StoreUser, Goto
<1>3. Verified(token[h])' <=> Verified(token[h])
  BY <1>1, Zenon DEF Verified, validateClaims
<1>4. place = "denied" => ~GoodToken(h)' \/ excused'[h]
  BY <1>1, <1>2, <1>3, Zenon DEF GoodToken
<1>5. place \in Places /\ token[h] \in Tokens \cup {NoToken} /\ excused[h] \in BOOLEAN
  BY Zenon DEF AcceptInv, AcceptTypes, Places
<1>6. token' = [token EXCEPT ![h] = token[h]] /\ excused' = [excused EXCEPT ![h] = excused[h]]
  BY <1>1, Zenon DEF AcceptInv, AcceptTypes
<1>7. place \notin {"fresh", "fetch", "body", "fill", "found"}
  BY SMTT(30), <1>2
<1>8. QED
  BY <1>1, <1>2, <1>4, <1>5, <1>6, <1>7, MoveKeeps, Zenon

\* The cache of users decides where Authenticate goes on.
LEMMA CacheOfUsersKeeps ==
  ASSUME AcceptInv, NEW h \in Handlers, LoadUser(h) \/ EvictUser(h)
  PROVE  AcceptInv'
<1>1. UNCHANGED <<now, algorithm, published, keys, got, excused, token>>
  BY Zenon DEF LoadUser, EvictUser, worldVars, fetcherVars
<1>2. PICK place \in {"process", "verify", "evict"} : pc' = [pc EXCEPT ![h] = place]
  BY Zenon DEF LoadUser, EvictUser, Goto
<1>3. place \in Places /\ token[h] \in Tokens \cup {NoToken} /\ excused[h] \in BOOLEAN
  BY Zenon DEF AcceptInv, AcceptTypes, Places
<1>4. token' = [token EXCEPT ![h] = token[h]] /\ excused' = [excused EXCEPT ![h] = excused[h]]
  BY <1>1, Zenon DEF AcceptInv, AcceptTypes
<1>5. place \notin {"fresh", "fetch", "body", "fill", "found"} /\ place # "denied"
  BY <1>2, Zenon
<1>6. QED
  BY <1>1, <1>2, <1>3, <1>4, <1>5, MoveKeeps, Zenon

\* A request begins and ends outside Authenticate.
LEMMA FlowKeeps ==
  ASSUME AcceptInv, NEW h \in Handlers,
         \/ Deny(h) \/ Forwarded(h) \/ (\E r \in Requests : Process(h, r))
         \/ (\E t \in Tokens \cup {NoToken} : ServeHTTP(h, t))
  PROVE  AcceptInv'
<1>1. UNCHANGED <<now, algorithm, published, keys, got>>
  BY SMTT(30) DEF Deny, Forwarded, Process, ServeHTTP, Respond, worldVars, cacheVars
<1>2. token[h] \in Tokens \cup {NoToken} /\ excused[h] \in BOOLEAN
      /\ token = [token EXCEPT ![h] = token[h]] /\ excused = [excused EXCEPT ![h] = excused[h]]
  BY SMTT(30) DEF AcceptInv, AcceptTypes
<1>3. CASE Respond(h)
  <2>1. /\ pc' = [pc EXCEPT ![h] = "idle"] /\ token' = [token EXCEPT ![h] = NoToken]
        /\ excused' = [excused EXCEPT ![h] = FALSE]
    BY <1>3, Zenon DEF Respond, Goto
  <2>2. "idle" \in Places /\ FALSE \in BOOLEAN /\ NoToken \in Tokens \cup {NoToken}
    BY Zenon DEF Places
  <2>3. QED
    BY <1>1, <2>1, <2>2, MoveKeeps, Zenon
<1>4. ASSUME NEW t \in Tokens \cup {NoToken}, ServeHTTP(h, t), ~Respond(h)
      PROVE  AcceptInv'
  <2>1. /\ pc' = [pc EXCEPT ![h] = "load"] /\ token' = [token EXCEPT ![h] = t]
        /\ excused' = [excused EXCEPT ![h] = excused[h]]
    BY <1>2, <1>4, Zenon DEF ServeHTTP, Goto
  <2>2. "load" \in Places
    BY Zenon DEF Places
  <2>3. QED
    BY <1>1, <1>2, <2>1, <2>2, MoveKeeps, Zenon
<1>5. ASSUME NEW r \in Requests, Process(h, r), ~Respond(h)
      PROVE  AcceptInv'
  <2>1. /\ pc' = [pc EXCEPT ![h] = "forward"] /\ token' = token /\ excused' = excused
    BY <1>5, Zenon DEF Process, Goto
  <2>2. "forward" \in Places
    BY Zenon DEF Places
  <2>3. QED
    BY ZenonT(60), <1>1, <1>2, <2>1, <2>2, MoveKeeps
<1>6. QED
  BY <1>3, <1>4, <1>5, Zenon DEF Deny, Forwarded

\* No time passes while a handler uses its keys, and withdrawing one only asks for less.
LEMMA WorldKeeps ==
  ASSUME AcceptInv, Tick \/ CleanupCache \/ (\E k \in Kids : Withdraw(k)) \/ UNCHANGED vars
  PROVE  AcceptInv'
<1>1. /\ UNCHANGED <<algorithm, keys, got, excused, pc, token>> /\ published' \subseteq published
  BY Zenon DEF Tick, CleanupCache, Withdraw, vars, authVars, fetcherVars, worldVars
<1>2. AcceptTypes'
  BY <1>1, Zenon DEF AcceptInv, AcceptTypes
<1>3. CASE UNCHANGED now
  <2>1. ASSUME NEW o \in Handlers PROVE Accepting(o)'
    <3>1. /\ UNCHANGED <<now, algorithm>> /\ published' \subseteq published
          /\ token'[o] = token[o] /\ pc'[o] = pc[o] /\ got'[o] = got[o]
          /\ excused[o] => excused'[o]
      BY <1>1, <1>3, Zenon
    <3>2. keys \subseteq keys'
      BY <1>1, Zenon
    <3>3. QED
      BY <3>1, <3>2, StayingKeeps, Zenon
  <2>2. QED
    BY <1>2, <2>1, Zenon DEF AcceptInv
<1>4. CASE Tick
  <2>1. \A h \in Handlers : pc[h] \in {"idle", "forward", "fetch", "body"}
    BY ZenonT(60), <1>4 DEF Tick
  <2>2. ASSUME NEW h \in Handlers PROVE Accepting(h)'
    <3>1. Accepting(h) /\ pc[h] \in {"idle", "forward", "fetch", "body"}
      BY <2>1, Zenon DEF AcceptInv
    <3>2. QED
      BY <1>1, <3>1, Zenon DEF Accepting
  <2>3. QED
    BY <1>2, <2>2 DEF AcceptInv
<1>5. QED
  BY <1>3, <1>4, Zenon DEF CleanupCache, Withdraw, vars, authVars, worldVars

\* Authenticate refuses a token that is good and whose key is published only if the keys
\* could not be fetched or another handler emptied the cache between its own fetch and
\* its use of it; no other interleaving of the unsynchronised fetcher loses a key.
THEOREM GoodTokensPass == Spec => []GoodTokenAccepted
<1>1. Init => AcceptInv
  <2> SUFFICES ASSUME Init PROVE AcceptInv
    BY Zenon
  <2>1. AcceptTypes
    BY SMTT(30) DEF Init, AuthInit, AcceptTypes, Places
  <2>2. ASSUME NEW h \in Handlers PROVE Accepting(h)
    BY Zenon DEF Init, AuthInit, Accepting
  <2>3. QED
    BY SMTT(30), <2>1, <2>2 DEF AcceptInv
<1>2. AcceptInv /\ [Next]_vars => AcceptInv'
  <2> SUFFICES ASSUME AcceptInv, [Next]_vars PROVE AcceptInv'
    BY Zenon
  <2>1. ASSUME NEW h \in Handlers, AuthStep(h) PROVE AcceptInv'
    BY SMTT(30), <2>1, CacheOfUsersKeeps, FindKeyKeeps, FetchKeeps, NewKeysKeeps,
       StoreKeyKeeps,
       FindFetchedKeyKeeps, StoreUserKeeps DEF AuthStep
  <2>2. QED
    BY <2>1, FlowKeeps, WorldKeeps, Zenon DEF Next, HandlerStep
<1>3. AcceptInv => GoodTokenAccepted
  BY Zenon DEF AcceptInv, Accepting, GoodToken, GoodTokenAccepted
<1>4. QED
  BY <1>1, <1>2, <1>3, PTL DEF Spec
=============================================================================
