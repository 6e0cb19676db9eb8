------------------------------ MODULE MCResilience -----------------------------
(* Small instances of the gateway's resilience. *)
EXTENDS Resilience, TLC

(* Calls are interchangeable. *)
Symmetry == Permutations(Calls)

================================================================================
