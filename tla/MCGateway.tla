-------------------------------- MODULE MCGateway ------------------------------
(* Small instances of the gateway. *)
EXTENDS Gateway, TLC

CONSTANTS c1, c2

(* Requests are interchangeable: they differ only in what they ask for. *)
Symmetry == Permutations(Calls)

================================================================================
