---------------------------- MODULE MCSessionSystem ----------------------------
(* Small instances of the clients with the auth service. *)
EXTENDS SessionSystem, TLC

(* Requests, and devices, are interchangeable. *)
Symmetry == Permutations(Requests) \cup Permutations(Clients)

================================================================================
