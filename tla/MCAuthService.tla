----------------------------- MODULE MCAuthService -----------------------------
(* Small instances of the auth service. *)
EXTENDS AuthService, TLC

(* Requests are interchangeable: they differ only in what they are sent. *)
Symmetry == Permutations(Requests)

================================================================================
