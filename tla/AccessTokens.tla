------------------------------ MODULE AccessTokens -----------------------------
(***************************************************************************)
(* The tokens of internal/adapters/jwt/jwt.go.  Access and refresh tokens  *)
(* are both signed claims; what keeps one from being taken for the other   *)
(* is the key, and the use that the claims name.  The keys come from the   *)
(* configuration, so they may be others, or trade places, when the auth    *)
(* service is started again while its tokens are still around.             *)
(***************************************************************************)
EXTENDS Naturals

CONSTANTS
  Users,
  KeyPairs     \* the secrets that an auth service is started with

ASSUME KeysAssumption == \A p \in KeyPairs : p.access # p.refresh

NoUser == "none"

(* generateToken; the id and the time of issue tell tokens apart only. *)
GenerateToken(user, expiry, use, key) ==
  [user |-> user, expiry |-> expiry, use |-> use, key |-> key]

GenerateAccessToken(p, user, expiry) == GenerateToken(user, expiry, "access", p.access)
GenerateRefreshToken(p, user, expiry) == GenerateToken(user, expiry, "refresh", p.refresh)

(* Bug: the use of the token is not looked at. *)
ValidateAccessToken_AnyUse(p, t, time) ==
  IF t.key = p.access /\ time < t.expiry THEN t.user ELSE NoUser

(* The user a token speaks for, if the signature, the expiry and the use are
   as they should be at that time. *)
ValidateAccessToken(p, t, time) ==
  IF t.key = p.access /\ time < t.expiry /\ t.use = "access" THEN t.user ELSE NoUser

================================================================================
