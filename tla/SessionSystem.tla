----------------------------- MODULE SessionSystem -----------------------------
(***************************************************************************)
(* The clients of one user and the auth service in full: the clients of    *)
(* ClientSession ask, the gateway passes on what they ask for as           *)
(* WriteChannel promises, and the use cases of AuthService answer, one SQL *)
(* statement at a time.                                                    *)
(*                                                                         *)
(* A call arrives where AuthService has a request, and it is taken up when *)
(* its use case ends: by then its effect is there or never will be.        *)
(***************************************************************************)
EXTENDS AuthService

CONSTANTS
  Clients,    \* the user's devices
  Denials     \* the errors that are answered with a status below 500

VARIABLES
  fate, reply, verdict,   \* the gateway's promise, as in WriteChannel
  wants,      \* what each request asks for, from the moment it is sent
  presents,   \* the refresh token that it presents
  held,       \* the refresh token that each client holds
  waiting     \* the request whose answer each client waits for

channel == <<fate, reply, verdict>>
clients == <<wants, presents, held, waiting>>
systemVars == <<vars, channel, clients>>

(* The registration that made the user's account. *)
Account == IF users = {} THEN None ELSE (CHOOSE u \in users : TRUE).id

(* The clients, what they are promised of their sessions, and what is proved
   of that. *)
Sessions == INSTANCE ClientSessionProofs
  WITH Calls <- Requests, open <- Active, exchanged <- Exchanged, account <- Account,
       op <- wants, token <- presents

(* The user has one address and one name on every device. *)
ASSUME SystemAssumption ==
  /\ \E e \in Emails, n \in Usernames : Emails = {e} /\ Usernames = {n}
  /\ {"none", "ok", "error", "unknown"} \cap Denials = {}
  /\ Sessions!TokenErrors \cup Sessions!AccountErrors \cup {"ErrInvalidCredentials"}
       \subseteq Denials

SystemInit ==
  /\ Init
  /\ fate = [p \in Requests |-> "unsent"]
  /\ reply = [p \in Requests |-> "none"]
  /\ verdict = [p \in Requests |-> "none"]
  /\ wants = [p \in Requests |-> "none"]
  /\ presents = [p \in Requests |-> None]
  /\ held = [d \in Clients |-> None]
  /\ waiting = [d \in Clients |-> None]

Begin(d, p, o) == Sessions!Ask(d, p, o) /\ UNCHANGED vars

Hear(d, p) == Sessions!Adopt(d, p) /\ UNCHANGED vars

(* The use case that a call asks for makes its first statement. *)
Serve(p) ==
  /\ fate[p] = "sent"
  /\ \/ wants[p] = "register" /\ \E e \in Emails, n \in Usernames : RegisterFind(p, e, n)
     \/ wants[p] = "login" /\ \E e \in Emails : LoginFind(p, e)
     \/ wants[p] = "refresh" /\ RefreshFind(p, presents[p])
     \/ wants[p] = "logout" /\ LogoutFind(p, presents[p])

(* What the call asked for has been done. *)
Took(p) ==
  \/ wants[p] = "logout" /\ presents[p] \notin Active
  \/ p \in issued
  \/ Account = p

(* The answer of the use case, as the gateway's error tables bring it back. *)
Said(p) ==
  CASE answer[p] = "invalid" ->
         IF wants[p] = "login" THEN "ErrInvalidCredentials" ELSE "ErrInvalidRefreshToken"
    [] answer[p] = "revoked" -> "ErrRevokedRefreshToken"
    [] answer[p] = "emailTaken" -> "ErrEmailAlreadyExists"
    [] answer[p] = "nameTaken" -> "ErrUserAlreadyExists"
    [] OTHER -> answer[p]

(* The statement that ends a use case ends the call. *)
Work(p) ==
  /\ Serve(p) \/ Proceed(p) \/ Fail(p)
  /\ UNCHANGED clients
  /\ IF pc'[p] = "done"
       THEN Sessions!Ends(p, IF Took(p)' THEN "done" ELSE "undone", Said(p)')
       ELSE UNCHANGED channel

(* The use case fails at its first statement. *)
FailAtOnce(p) ==
  /\ pc[p] = "idle"
  /\ Sessions!Denied(p, "error")
  /\ UNCHANGED <<vars, clients>>

SystemNext ==
  \/ \E d \in Clients, p \in Requests, o \in {"register", "login", "refresh", "logout"} : Begin(d, p, o)
  \/ \E p \in Requests : Work(p) \/ FailAtOnce(p)
  \/ \E d \in Clients, p \in Requests : Hear(d, p)
  \/ \E t \in Requests : Expire(t) /\ UNCHANGED <<channel, clients>>
  \/ CleanupExpiredTokens /\ UNCHANGED <<channel, clients>>

SystemSpec == SystemInit /\ [][SystemNext]_systemVars

--------------------------------------------------------------------------------

(* The clients of the real service see what those of ClientSession see: every
   statement of every use case is a step of a promised kind, or of no concern
   to them. *)
ClientsSpec == Sessions!SessionSpec

================================================================================
