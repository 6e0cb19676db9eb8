----------------------------- MODULE MCProfileCache ----------------------------
(* Two sessions of one user, one that ends early, a session of another user, a
   refresh token, and an auth service whose keys may trade places. *)
EXTENDS ProfileCache, TLC

CONSTANTS r1, r2, early, late, refresh, other, alice, bob

Before == [access |-> "k1", refresh |-> "k2"]
After == [access |-> "k2", refresh |-> "k1"]
MCKeyPairs == {Before, After}

MCClaims == early :> GenerateAccessToken(Before, alice, 2)
              @@ late :> GenerateAccessToken(Before, alice, 3)
              @@ refresh :> GenerateRefreshToken(Before, alice, 3)
              @@ other :> GenerateAccessToken(After, bob, 3)

(* Requests are interchangeable. *)
Symmetry == Permutations(Requests)

================================================================================
