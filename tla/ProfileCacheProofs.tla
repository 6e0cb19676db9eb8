--------------------------- MODULE ProfileCacheProofs --------------------------
(* Proofs about the profile cache, for any tokens, users, requests and
   lifetimes. *)
EXTENDS ProfileCache, TLAPS

USE ProfileCacheAssumption

(* A token is accepted by the service that signed it, as an access token, until
   it expires. *)
THEOREM AccessTokensAreAccepted ==
  ASSUME NEW p \in KeyPairs, NEW u, NEW expiry \in Nat, NEW time \in Nat, time < expiry
  PROVE  ValidateAccessToken(p, GenerateAccessToken(p, u, expiry), time) = u
  BY DEF ValidateAccessToken, GenerateAccessToken, GenerateToken

(* A refresh token is never accepted as an access token, whichever keys the
   service that looks at it and the service that signed it have. *)
THEOREM RefreshTokensAreNoAccessTokens ==
  ASSUME NEW p \in KeyPairs, NEW q \in KeyPairs, NEW u, NEW expiry \in Nat, NEW time \in Nat
  PROVE  ValidateAccessToken(p, GenerateRefreshToken(q, u, expiry), time) = NoUser
  BY DEF ValidateAccessToken, GenerateRefreshToken, GenerateToken

LEMMA TypeInit == Init => TypeOK
  BY DEF Init, TypeOK, Nothing

LEMMA RemainingType ==
  ASSUME NEW t \in Tokens, now \in 0..MaxNow
  PROVE  Remaining(t) \in 0..MaxNow /\ (Remaining(t) > 0 => now < Claims[t].expiry)
  BY DEF Remaining

(* A Set with a lifetime stores it, or leaves the cache alone. *)
LEMMA SetStores ==
  ASSUME TypeOK, NEW k \in Keys, NEW u \in Users, NEW ttl \in Nat \ {0}, Set(k, u, ttl)
  PROVE  /\ cache' \in [Keys -> [user : Users \cup {NoUser}, ttl : Nat]]
         /\ \A j \in Keys : cache'[j] = cache[j] \/ (j = k /\ cache'[j] = [user |-> u, ttl |-> ttl])
<1> DEFINE e == [user |-> u, ttl |-> IF ttl = 0 THEN DefaultTTL ELSE ttl]
<1>1. e = [user |-> u, ttl |-> ttl]
  OBVIOUS
<1>2. cache' = [cache EXCEPT ![k] = e] \/ cache' = cache
  BY DEF Set
<1> HIDE DEF e
<1> QED
  BY <1>1, <1>2 DEF TypeOK

(* What a request that stores an entry stores. *)
LEMMA Stores ==
  ASSUME TypeOK, NEW r \in Requests, SetProfile(r) \/ SetHint(r)
  PROVE  \E k \in {ProfileKey(found[r]), HintKey(token[r])}, ttl \in 1..ProfileTTL :
           /\ k \in Keys
           /\ Set(k, found[r], ttl)
<1>1. TTL(r) \in 1..ProfileTTL
  BY DEF TTL, TypeOK, SetProfile, SetHint
<1>2. found[r] \in Users /\ token[r] \in Tokens
  BY DEF SetProfile, SetHint, TypeOK
<1>3. ProfileKey(found[r]) \in Keys /\ HintKey(token[r]) \in Keys
  BY <1>2 DEF ProfileKey, HintKey, Keys
<1> QED
  BY <1>1, <1>3 DEF SetProfile, SetHint

(* Whom the auth service takes a request for, and why. *)
LEMMA Validated ==
  ASSUME NEW t \in Tokens, keys \in KeyPairs, ValidateAccessToken(keys, Claims[t], now) # NoUser
  PROVE  /\ ValidateAccessToken(keys, Claims[t], now) = Claims[t].user
         /\ Claims[t].key = keys.access /\ Claims[t].use = "access" /\ now < Claims[t].expiry
  BY DEF ValidateAccessToken

LEMMA TypeStep == TypeOK /\ [Next]_vars => TypeOK'
<1> SUFFICES ASSUME TypeOK, [Next]_vars
             PROVE  TypeOK'
  OBVIOUS
<1> USE DEF TypeOK
<1>1. ASSUME NEW r \in Requests, Refuse(r) \/ Arrive(r)
      PROVE  TypeOK'
  BY <1>1, RemainingType DEF Refuse, Arrive, request
<1>2. ASSUME NEW r \in Requests, ReadHint(r)
      PROVE  TypeOK'
  <2>1. Get(HintKey(token[r])) \subseteq Users \cup {NoUser}
    BY DEF Get, HintKey, Keys
  <2> QED
    BY <1>2, <2>1 DEF ReadHint
<1>3. ASSUME NEW r \in Requests, ReadProfile(r)
      PROVE  TypeOK'
  <2>1. Get(ProfileKey(found[r])) \subseteq Users \cup {NoUser}
    BY <1>3 DEF ReadProfile, Get, ProfileKey, Keys
  <2> QED
    BY <1>3, <2>1 DEF ReadProfile
<1>4. ASSUME NEW r \in Requests, AskAuth(r)
      PROVE  TypeOK'
  BY <1>4, Validated DEF AskAuth
<1>5. ASSUME NEW r \in Requests, SetProfile(r) \/ SetHint(r)
      PROVE  TypeOK'
  <2>1. found[r] \in Users
    BY <1>5 DEF SetProfile, SetHint
  <2>2. PICK k \in {ProfileKey(found[r]), HintKey(token[r])}, ttl \in 1..ProfileTTL :
          k \in Keys /\ Set(k, found[r], ttl)
    BY <1>5, Stores
  <2>3. ttl \in Nat \ {0}
    OBVIOUS
  <2>4. cache' \in [Keys -> [user : Users \cup {NoUser}, ttl : Nat]]
    BY <2>1, <2>2, <2>3, SetStores
  <2> QED
    BY <1>5, <2>4 DEF SetProfile, SetHint, request
<1>6. CASE Tick
  <2>1. \A e \in [user : Users \cup {NoUser}, ttl : Nat] : Older(e) \in [user : Users \cup {NoUser}, ttl : Nat]
    BY DEF Older, Nothing
  <2> QED
    BY <1>6, <2>1 DEF Tick, request
<1>7. CASE RestartAuth
  BY <1>7 DEF RestartAuth, request
<1>8. CASE UNCHANGED vars
  BY <1>8 DEF vars
<1> QED
  BY <1>1, <1>2, <1>3, <1>4, <1>5, <1>6, <1>7, <1>8 DEF Next, Proceed

(* Every reachable state of the requests and the cache is well formed. *)
THEOREM CacheTypeCorrect == Spec => []TypeOK
  BY TypeInit, TypeStep, PTL DEF Spec

--------------------------------------------------------------------------------
(* The argument.  A request that has come after the expiry of its token finds
   it expired for good, so the auth service refuses it; only requests for
   which something remains look into the cache or write to it, and those write
   what the auth service has just vouched for. *)

Vouched(r) == token[r] \in Genuine /\ found[r] = Claims[token[r]].user /\ r \in inTime

RequestOK(r) ==
  /\ pc[r] \notin {"idle", "error"} /\ r \notin inTime => Claims[token[r]].expiry <= now
  /\ pc[r] = "hint" => r \in inTime
  /\ pc[r] \in {"profile", "ok"} => Vouched(r)
  /\ pc[r] \in {"setProfile", "setHint"} => Vouched(r)

CacheInv == EntriesAreVerified /\ \A r \in Requests : RequestOK(r)

LEMMA CacheInit == Init => CacheInv
  BY DEF Init, CacheInv, RequestOK, EntriesAreVerified, Nothing, Keys, HintKey, ProfileKey

(* What a Set of a vouched user leaves in the cache. *)
LEMMA SetVerified ==
  ASSUME TypeOK, EntriesAreVerified, NEW r \in Requests, Vouched(r),
         SetProfile(r) \/ SetHint(r)
  PROVE  EntriesAreVerified'
<1>1. PICK k \in {ProfileKey(found[r]), HintKey(token[r])}, ttl \in 1..ProfileTTL :
        k \in Keys /\ Set(k, found[r], ttl)
  BY Stores
<1>2. found[r] \in Users
  BY DEF SetProfile, SetHint, TypeOK
<1>3. \A j \in Keys : cache'[j] = cache[j] \/ (j = k /\ cache'[j] = [user |-> found[r], ttl |-> ttl])
  BY <1>1, <1>2, SetStores
<1>4. ASSUME NEW t \in Tokens
      PROVE  HintKey(t) \in Keys /\ (HintKey(t) = k => token[r] = t)
  BY <1>1 DEF Keys, HintKey, ProfileKey
<1>5. ASSUME NEW u \in Users
      PROVE  ProfileKey(u) \in Keys /\ (ProfileKey(u) = k => found[r] = u)
  BY <1>1 DEF Keys, HintKey, ProfileKey
<1>6. \A t \in Tokens : LET u == cache'[HintKey(t)].user IN
        u # NoUser => t \in Genuine /\ u = Claims[t].user
  BY <1>3, <1>4 DEF EntriesAreVerified, Vouched
<1>7. \A u \in Users : cache'[ProfileKey(u)].user \in {NoUser, u}
  BY <1>3, <1>5 DEF EntriesAreVerified
<1>8. \A j \in Keys : cache'[j].ttl <= ProfileTTL
  BY <1>3 DEF EntriesAreVerified
<1> QED
  BY <1>6, <1>7, <1>8 DEF EntriesAreVerified, HintKey, ProfileKey

LEMMA CacheStep == TypeOK /\ CacheInv /\ [Next]_vars => CacheInv'
<1> SUFFICES ASSUME TypeOK, CacheInv, [Next]_vars
             PROVE  CacheInv'
  OBVIOUS
<1> USE DEF TypeOK, CacheInv
<1>1. ASSUME NEW r \in Requests, Arrive(r)
      PROVE  CacheInv'
  <2>1. EntriesAreVerified'
    BY <1>1 DEF Arrive, EntriesAreVerified
  <2>2. RequestOK(r)'
    BY <1>1, RemainingType DEF Arrive, RequestOK
  <2>3. \A q \in Requests \ {r} : RequestOK(q)'
    BY <1>1 DEF Arrive, RequestOK, Vouched
  <2> QED
    BY <2>1, <2>2, <2>3
<1>2. ASSUME NEW r \in Requests, ReadHint(r)
      PROVE  CacheInv'
  <2>1. \A u \in Get(HintKey(token[r])) :
          u # NoUser => token[r] \in Genuine /\ u = Claims[token[r]].user
    BY DEF Get, EntriesAreVerified
  <2>2. RequestOK(r)'
    BY <1>2, <2>1 DEF ReadHint, RequestOK, Vouched
  <2>3. \A q \in Requests \ {r} : RequestOK(q)'
    BY <1>2 DEF ReadHint, RequestOK, Vouched
  <2> QED
    BY <1>2, <2>2, <2>3 DEF ReadHint, EntriesAreVerified
<1>3. ASSUME NEW r \in Requests, ReadProfile(r)
      PROVE  CacheInv'
  <2>1. \A u \in Get(ProfileKey(found[r])) : u # NoUser => u = found[r]
    BY <1>3 DEF ReadProfile, Get, EntriesAreVerified
  <2>2. RequestOK(r)'
    BY <1>3, <2>1 DEF ReadProfile, RequestOK, Vouched
  <2>3. \A q \in Requests \ {r} : RequestOK(q)'
    BY <1>3 DEF ReadProfile, RequestOK, Vouched
  <2> QED
    BY <1>3, <2>2, <2>3 DEF ReadProfile, EntriesAreVerified
<1>4. ASSUME NEW r \in Requests, AskAuth(r)
      PROVE  CacheInv'
  <2>1. RequestOK(r)'
    <3>1. CASE pc'[r] = "error"
      BY <1>4, <3>1 DEF AskAuth, RequestOK
    <3>2. CASE pc'[r] # "error"
      <4>1. /\ pc[r] = "call" /\ pc'[r] \in {"setProfile", "ok"}
            /\ found'[r] = ValidateAccessToken(keys, Claims[token[r]], now) /\ found'[r] # NoUser
            /\ UNCHANGED <<now, token, inTime>>
        BY <1>4, <3>2 DEF AskAuth
      <4>2. /\ found'[r] = Claims[token[r]].user /\ Claims[token[r]].key = keys.access
            /\ Claims[token[r]].use = "access" /\ now < Claims[token[r]].expiry
        BY <4>1, Validated
      <4>3. token[r] \in Genuine
        BY <4>2 DEF Genuine, GenerateAccessToken, GenerateToken
      <4>4. r \in inTime
        BY <4>1, <4>2 DEF RequestOK
      <4> QED
        BY <4>1, <4>2, <4>3, <4>4 DEF RequestOK, Vouched
    <3> QED
      BY <3>1, <3>2
  <2>2. \A q \in Requests \ {r} : RequestOK(q)'
    BY <1>4 DEF AskAuth, RequestOK, Vouched
  <2> QED
    BY <1>4, <2>1, <2>2 DEF AskAuth, EntriesAreVerified
<1>5. ASSUME NEW r \in Requests, SetProfile(r) \/ SetHint(r)
      PROVE  CacheInv'
  <2>1. Vouched(r)
    BY <1>5 DEF SetProfile, SetHint, RequestOK
  <2>2. EntriesAreVerified'
    BY <1>5, <2>1, SetVerified
  <2>3. \A q \in Requests : RequestOK(q)'
    BY <1>5, <2>1 DEF SetProfile, SetHint, RequestOK, Vouched, request
  <2> QED
    BY <2>2, <2>3
<1>6. CASE Tick
  <2>1. \A k \in Keys : cache'[k].user \in {NoUser, cache[k].user} /\ cache'[k].ttl <= cache[k].ttl
    BY <1>6 DEF Tick, Older, Nothing
  <2>1a. \A k \in Keys : cache[k].ttl \in Nat /\ cache'[k].ttl \in Nat
    BY TypeStep
  <2>2. EntriesAreVerified'
    BY <2>1, <2>1a DEF EntriesAreVerified, Keys, HintKey, ProfileKey
  <2>3. \A q \in Requests : RequestOK(q)'
    BY <1>6 DEF Tick, RequestOK, Vouched, request
  <2> QED
    BY <2>2, <2>3
<1>7. ASSUME NEW r \in Requests, Refuse(r)
      PROVE  CacheInv'
  <2>1. RequestOK(r)'
    BY <1>7 DEF Refuse, RequestOK
  <2>2. \A q \in Requests \ {r} : RequestOK(q)'
    BY <1>7 DEF Refuse, RequestOK, Vouched, request
  <2> QED
    BY <1>7, <2>1, <2>2 DEF Refuse, EntriesAreVerified
<1>8. CASE RestartAuth
  BY <1>8 DEF RestartAuth, RequestOK, Vouched, EntriesAreVerified, request
<1>9. CASE UNCHANGED vars
  BY <1>9 DEF vars, RequestOK, Vouched, EntriesAreVerified
<1> QED
  BY <1>1, <1>2, <1>3, <1>4, <1>5, <1>6, <1>7, <1>8, <1>9 DEF Next, Proceed

LEMMA CacheInvariant == Spec => []CacheInv
  BY CacheInit, CacheStep, CacheTypeCorrect, PTL DEF Spec

(* Nothing enters the cache that the auth service has not vouched for. *)
THEOREM CacheHoldsVerified == Spec => []EntriesAreVerified
<1>1. CacheInv => EntriesAreVerified
  BY DEF CacheInv
<1> QED
  BY <1>1, CacheInvariant, PTL

(* No token, forged or not, obtains the profile of another user. *)
THEOREM ProfilesAreApart == Spec => []OwnProfileOnly
<1>1. CacheInv => OwnProfileOnly
  BY DEF CacheInv, RequestOK, Vouched, OwnProfileOnly
<1> QED
  BY <1>1, CacheInvariant, PTL

(* A token that has expired obtains nothing, although its entries outlive it. *)
THEOREM ExpiryIsKept == Spec => []ExpiredTokensEndHere
<1>1. CacheInv => ExpiredTokensEndHere
  BY DEF CacheInv, RequestOK, Vouched, ExpiredTokensEndHere
<1> QED
  BY <1>1, CacheInvariant, PTL

================================================================================
