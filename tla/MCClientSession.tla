----------------------------- MODULE MCClientSession ---------------------------
(* Small instances of the clients and their sessions. *)
EXTENDS ClientSession, TLC

(* Requests, and devices, are interchangeable. *)
Symmetry == Permutations(Calls) \cup Permutations(Clients)

================================================================================
