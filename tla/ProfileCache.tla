------------------------------ MODULE ProfileCache -----------------------------
(***************************************************************************)
(* GetUserProfile of the gateway (internal/app/gateway.go) and its cache   *)
(* in Redis (internal/adapters/redis/cache.go).                            *)
(*                                                                         *)
(* The gateway has no key to check an access token with: it reads the      *)
(* claims without verifying them and asks the auth service.  Two entries   *)
(* save it the question: a hint from the hash of a token to a user, and    *)
(* the profile of that user.  They are written one after the other, they   *)
(* expire on their own and Redis may drop or refuse them, while requests   *)
(* with the same token, or with other tokens of the same user, overlap.    *)
(*                                                                         *)
(* A client may send what it likes for an access token: one that it made   *)
(* up, or a refresh token.                                                 *)
(***************************************************************************)
EXTENDS AccessTokens

CONSTANTS
  Requests,
  Tokens,             \* what clients send, told apart by its hash
  Claims,             \* the claims in each token, and the key it is signed with
  ProfileTTL,         \* profileCacheTTL
  DefaultTTL,         \* what Redis' Set falls back to
  MaxNow              \* bound: the clock stops here

ASSUME ProfileCacheAssumption ==
  /\ \A t \in Tokens : LET c == Claims[t] IN
       /\ c = GenerateToken(c.user, c.expiry, c.use, c.key)
       /\ c.user \in Users /\ c.expiry \in 0..MaxNow
  /\ ProfileTTL \in Nat \ {0}
  /\ DefaultTTL \in Nat \ {0}
  /\ MaxNow \in Nat

VARIABLES
  now,
  keys,               \* the secrets of the auth service
  cache,              \* Redis: value and time to live under each key
  pc,                 \* where each request is
  token,              \* the token it came with
  remaining,          \* what was left of that token when it came
  found,              \* the user whose profile it has, or the hint it read
  inTime              \* history: the requests that came before their token expired

vars == <<now, keys, cache, pc, token, remaining, found, inTime>>
request == <<token, remaining, found, inTime>>

(* The access tokens among them, from before or after any restart. *)
Genuine ==
  {t \in Tokens : \E p \in KeyPairs :
     Claims[t] = GenerateAccessToken(p, Claims[t].user, Claims[t].expiry)}

Nothing == [user |-> NoUser, ttl |-> 0]
Keys == ({"profile:tok"} \X Tokens) \cup ({"profile:user"} \X Users)
ProfileKey(u) == <<"profile:user", u>>

HintKey(t) == <<"profile:tok", t>>

TypeOK ==
  /\ now \in 0..MaxNow
  /\ keys \in KeyPairs
  /\ cache \in [Keys -> [user : Users \cup {NoUser}, ttl : Nat]]
  /\ pc \in [Requests -> {"idle", "hint", "profile", "call", "setProfile", "setHint", "ok", "error"}]
  /\ token \in [Requests -> Tokens]
  /\ remaining \in [Requests -> 0..MaxNow]
  /\ found \in [Requests -> Users \cup {NoUser}]
  /\ inTime \subseteq Requests
  /\ \A r \in Requests : pc[r] \in {"profile", "setProfile", "setHint"} => found[r] \in Users
  /\ \A r \in Requests : pc[r] \in {"setProfile", "setHint"} => remaining[r] > 0

Init ==
  /\ now = 0
  /\ keys \in KeyPairs
  /\ cache = [k \in Keys |-> Nothing]
  /\ pc = [r \in Requests |-> "idle"]
  /\ token \in [Requests -> Tokens]
  /\ remaining = [r \in Requests |-> 0]
  /\ found = [r \in Requests |-> NoUser]
  /\ inTime = {}

--------------------------------------------------------------------------------
(* Redis. *)

(* Get: an absent key, one that Redis has evicted and an error read alike. *)
Get(k) == {NoUser, cache[k].user}

(* Set: it takes effect, or fails; a lost reply is an effect too. *)
Set(k, u, ttl) ==
  \/ cache' = [cache EXCEPT ![k] = [user |-> u, ttl |-> IF ttl = 0 THEN DefaultTTL ELSE ttl]]
  \/ UNCHANGED cache

(* Time passes: what has no time left is gone. *)
Older(e) == IF e.ttl > 1 THEN [e EXCEPT !.ttl = @ - 1] ELSE Nothing

Tick ==
  /\ now < MaxNow
  /\ now' = now + 1
  /\ cache' = [k \in Keys |-> Older(cache[k])]
  /\ UNCHANGED <<keys, pc, request>>

--------------------------------------------------------------------------------
(* GetUserProfile. *)

(* Bug: a token that has expired is not caught. *)
Remaining_Unclamped(t) == Claims[t].expiry - now

(* accessTokenTTLRemaining; claims without an expiry read as expired. *)
Remaining(t) == IF Claims[t].expiry > now THEN Claims[t].expiry - now ELSE 0

(* Bug: cachedProfile does not look at what remains of the token. *)
Arrive_NoCheck(r) ==
  /\ pc[r] \in {"idle", "ok", "error"}
  /\ \E t \in Tokens :
       /\ token' = [token EXCEPT ![r] = t]
       /\ remaining' = [remaining EXCEPT ![r] = Remaining(t)]
       /\ inTime' = IF now < Claims[t].expiry THEN inTime \cup {r} ELSE inTime \ {r}
       /\ pc' = [pc EXCEPT ![r] = "hint"]
  /\ found' = [found EXCEPT ![r] = NoUser]
  /\ UNCHANGED <<now, keys, cache>>

(* The next request of this goroutine; cachedProfile only looks if something
   remains of the token. *)
Arrive(r) ==
  /\ pc[r] \in {"idle", "ok", "error"}
  /\ \E t \in Tokens :
       /\ token' = [token EXCEPT ![r] = t]
       /\ remaining' = [remaining EXCEPT ![r] = Remaining(t)]
       /\ inTime' = IF now < Claims[t].expiry THEN inTime \cup {r} ELSE inTime \ {r}
       /\ pc' = [pc EXCEPT ![r] = IF Remaining(t) > 0 THEN "hint" ELSE "call"]
  /\ found' = [found EXCEPT ![r] = NoUser]
  /\ UNCHANGED <<now, keys, cache>>

(* A request whose Authorization header is missing or holds no token. *)
Refuse(r) ==
  /\ pc[r] \in {"idle", "ok", "error"}
  /\ pc' = [pc EXCEPT ![r] = "error"]
  /\ UNCHANGED <<now, keys, cache, request>>

ReadHint(r) ==
  /\ pc[r] = "hint"
  /\ \E u \in Get(HintKey(token[r])) :
       /\ found' = [found EXCEPT ![r] = u]
       /\ pc' = [pc EXCEPT ![r] = IF u = NoUser THEN "call" ELSE "profile"]
  /\ UNCHANGED <<now, keys, cache, token, remaining, inTime>>

ReadProfile(r) ==
  /\ pc[r] = "profile"
  /\ \E u \in Get(ProfileKey(found[r])) :
       /\ found' = [found EXCEPT ![r] = u]
       /\ pc' = [pc EXCEPT ![r] = IF u = NoUser THEN "call" ELSE "ok"]
  /\ UNCHANGED <<now, keys, cache, token, remaining, inTime>>

(* The auth service is started again, perhaps from another configuration. *)
RestartAuth ==
  /\ keys' \in KeyPairs
  /\ UNCHANGED <<now, cache, pc, request>>

(* The question to the auth service, with its retries: the breaker may refuse
   it, and every attempt may fail. *)
AskAuth(r) ==
  /\ pc[r] = "call"
  /\ \/ /\ found' = [found EXCEPT ![r] = ValidateAccessToken(keys, Claims[token[r]], now)]
        /\ found'[r] # NoUser
        /\ pc' = [pc EXCEPT ![r] = IF remaining[r] > 0 THEN "setProfile" ELSE "ok"]
     \/ /\ pc' = [pc EXCEPT ![r] = "error"]
        /\ UNCHANGED found
  /\ UNCHANGED <<now, keys, cache, token, remaining, inTime>>

(* Bug: an entry lives as long as the token. *)
TTL_AsToken(r) == remaining[r]

TTL(r) == IF remaining[r] < ProfileTTL THEN remaining[r] ELSE ProfileTTL

SetProfile(r) ==
  /\ pc[r] = "setProfile"
  /\ Set(ProfileKey(found[r]), found[r], TTL(r))
  /\ pc' = [pc EXCEPT ![r] = "setHint"]
  /\ UNCHANGED <<now, keys, request>>

SetHint(r) ==
  /\ pc[r] = "setHint"
  /\ Set(HintKey(token[r]), found[r], TTL(r))
  /\ pc' = [pc EXCEPT ![r] = "ok"]
  /\ UNCHANGED <<now, keys, request>>

Proceed(r) ==
  ReadHint(r) \/ ReadProfile(r) \/ AskAuth(r) \/ SetProfile(r) \/ SetHint(r)

Next ==
  \/ \E r \in Requests : Refuse(r) \/ Arrive(r) \/ Proceed(r)
  \/ Tick
  \/ RestartAuth

Spec == Init /\ [][Next]_vars

--------------------------------------------------------------------------------

(* A request is answered with the profile of the user its token was issued to,
   and with none at all if its token is forged or a refresh token, whatever keys
   the auth service was restarted with: what a token claims is used to look into
   the cache before anyone has verified it, and what is found there was put
   there by other requests. *)
OwnProfileOnly ==
  \A r \in Requests : pc[r] = "ok" =>
    token[r] \in Genuine /\ found[r] = Claims[token[r]].user

(* Only requests that came before their token expired are answered.  The
   entries of a token do outlive it, for their lifetime is computed before the
   auth service is asked and starts after it has answered; what guards them is
   that every request computes the rest of its token anew. *)
ExpiredTokensEndHere ==
  \A r \in Requests : pc[r] = "ok" => r \in inTime

(* What the cache holds was vouched for: a hint belongs to a token that the auth
   service has accepted and names its user, a profile is filed under its own
   user, and neither is kept for longer than ProfileTTL, whatever Redis is
   configured to fall back to (Set is never asked for a lifetime of zero). *)
EntriesAreVerified ==
  /\ \A t \in Tokens : LET u == cache[HintKey(t)].user IN
       u # NoUser => t \in Genuine /\ u = Claims[t].user
  /\ \A u \in Users : cache[ProfileKey(u)].user \in {NoUser, u}
  /\ \A k \in Keys : cache[k].ttl <= ProfileTTL

================================================================================
