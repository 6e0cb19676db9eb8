------------------------------ MODULE MCLifecycle ------------------------------
(* A configuration that is complete, and what may be wrong with it. *)
EXTENDS Lifecycle

Complete == [sections |-> Sections, password |-> TRUE, access |-> "k1", refresh |-> "k2",
             shared |-> "none", connectTimeout |-> TRUE]

(* One section or the password is missing, or there is no connect timeout, or
   the secrets are any. *)
MCConfigs ==
  {[Complete EXCEPT !.sections = @ \ {s}] : s \in Sections}
    \cup {[Complete EXCEPT !.password = FALSE], [Complete EXCEPT !.connectTimeout = FALSE]}
    \cup {[Complete EXCEPT !.access = a, !.refresh = r, !.shared = s] : a, r, s \in Secrets}

================================================================================
