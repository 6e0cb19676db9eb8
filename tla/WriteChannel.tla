------------------------------ MODULE WriteChannel -----------------------------
(***************************************************************************)
(* What the gateway promises to a client that asks for a change, free of   *)
(* breakers, attempts and error tables.  The request reaches a use case at *)
(* most once, perhaps after the client was answered.  The answer is a      *)
(* success, an error of the client's, or it says nothing.                  *)
(***************************************************************************)

CONSTANTS
  Calls,      \* the requests of clients
  Denials     \* the errors that are answered with a status below 500

ASSUME DenialsAssumption == {"none", "ok", "error", "unknown"} \cap Denials = {}

VARIABLES
  fate,       \* what became of what each request asks for
  reply,      \* what the use case returned, if someone was there to hear it
  verdict     \* what the client was answered

vars == <<fate, reply, verdict>>

Init ==
  /\ fate = [c \in Calls |-> "unsent"]
  /\ reply = [c \in Calls |-> "none"]
  /\ verdict = [c \in Calls |-> "none"]

(* The gateway answers by itself: an error of the client's, or that the
   service is not available. *)
Refuse(c) ==
  /\ fate[c] = "unsent"
  /\ fate' = [fate EXCEPT ![c] = "undone"]
  /\ \E e \in Denials \cup {"unknown"} : verdict' = [verdict EXCEPT ![c] = e]
  /\ UNCHANGED reply

Send(c) ==
  /\ fate[c] = "unsent"
  /\ fate' = [fate EXCEPT ![c] = "sent"]
  /\ UNCHANGED <<reply, verdict>>

(* What a use case may return: one that fails may still have done what it was
   asked for. *)
Results == [done |-> {"ok", "error"}, undone |-> Denials \cup {"error"}]

(* Bug: a request for a change is tried again, too. *)
TakeUp_Again(c, f) ==
  /\ fate[c] = "sent"
  /\ f \in DOMAIN Results /\ UNCHANGED fate
  /\ \E e \in Results[f] \cup {reply[c]} : reply' = [reply EXCEPT ![c] = e]
  /\ UNCHANGED verdict

(* The use case runs, while the client waits for it or later. *)
TakeUp(c, f) ==
  /\ fate[c] = "sent"
  /\ fate' = [fate EXCEPT ![c] = f]
  /\ \E e \in Results[f] \cup {reply[c]} : reply' = [reply EXCEPT ![c] = e]
  /\ UNCHANGED verdict

(* The client is answered, at any time after its request was sent. *)
Answer(c) ==
  /\ fate[c] # "unsent" /\ verdict[c] = "none"
  /\ \E v \in ({reply[c]} \cap (Denials \cup {"ok"})) \cup {"unknown"} :
       verdict' = [verdict EXCEPT ![c] = v]
  /\ UNCHANGED <<fate, reply>>

Next ==
  \E c \in Calls :
    Refuse(c) \/ Send(c) \/ TakeUp(c, "done") \/ TakeUp(c, "undone") \/ Answer(c)

Spec == Init /\ [][Next]_vars

--------------------------------------------------------------------------------

TypeOK ==
  /\ fate \in [Calls -> {"unsent", "sent", "done", "undone"}]
  /\ reply \in [Calls -> Denials \cup {"none", "ok", "error"}]
  /\ verdict \in [Calls -> Denials \cup {"none", "ok", "unknown"}]

(* An answer that says something is true for good: what was asked for has been
   done, or has not been and will not be (app/gateway.go over fault.go, which
   tries no write again). *)
VerdictsAreFinal ==
  \A c \in Calls :
    /\ verdict[c] = "ok" => fate[c] = "done"
    /\ verdict[c] \in Denials => fate[c] = "undone"

================================================================================
