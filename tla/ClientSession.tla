------------------------------ MODULE ClientSession ----------------------------
(***************************************************************************)
(* The clients of one user, on several devices, and what the system as a   *)
(* whole promises them about their sessions.  It composes the promise of   *)
(* the gateway (WriteChannel, which Gateway implements) with that of the   *)
(* auth service (SessionLedger, which AuthService implements).             *)
(*                                                                         *)
(* A client presents the refresh token it was sent last, waits for one     *)
(* answer at a time and may tire of waiting.  A request that creates a     *)
(* refresh token gives it its name.                                        *)
(***************************************************************************)
EXTENDS WriteChannel

CONSTANTS
  Clients,    \* the user's devices
  None

TokenErrors == {"ErrInvalidRefreshToken", "ErrRevokedRefreshToken"}
AccountErrors == {"ErrEmailAlreadyExists", "ErrUserAlreadyExists"}

ASSUME ClientAssumption ==
  /\ TokenErrors \cup AccountErrors \cup {"ErrInvalidCredentials"} \subseteq Denials
  /\ None \notin Calls

VARIABLES
  issued, open, exchanged,   \* the sessions, as in SessionLedger
  expired,    \* the sessions whose expires_at has passed
  account,    \* the registration that made the user's account
  op,         \* what each request asks for
  token,      \* the refresh token that a request presents
  held,       \* the refresh token that each client holds
  waiting     \* the request whose answer each client waits for

Ledger == INSTANCE SessionLedger WITH Sessions <- Calls

sessions == <<issued, open, exchanged>>
requests == <<op, token>>
clients == <<held, waiting>>
sessionVars == <<vars, sessions, expired, account, requests, clients>>

SessionInit ==
  /\ Init
  /\ Ledger!Init
  /\ expired = {}
  /\ account = None
  /\ op = [c \in Calls |-> "none"]
  /\ token = [c \in Calls |-> None]
  /\ held = [d \in Clients |-> None]
  /\ waiting = [d \in Clients |-> None]

--------------------------------------------------------------------------------
(* A client asks: without a token to register or to log in, with its token to
   refresh or to log out.  A request that the gateway refuses by itself leaves
   the client where it was and is left out. *)

Presents(o) == o \in {"refresh", "logout"}

Ask(d, c, o) ==
  /\ op[c] = "none" /\ waiting[d] = None
  /\ Presents(o) <=> held[d] # None
  /\ op' = [op EXCEPT ![c] = o]
  /\ token' = [token EXCEPT ![c] = held[d]]
  /\ Send(c)
  /\ waiting' = [waiting EXCEPT ![d] = c]
  /\ UNCHANGED held

Begin(d, c, o) ==
  /\ Ask(d, c, o)
  /\ UNCHANGED <<sessions, expired, account>>

(* What a use case returns when nobody waits for it does not matter. *)
Ends(c, f, e) == TakeUp(c, f) /\ reply'[c] = IF verdict[c] = "none" THEN e ELSE "none"

(* What was done is done, also when the use case never hears that it was. *)
Done(c) == \E e \in {"ok", "error"} : Ends(c, "done", e)
Denied(c, e) == Ends(c, "undone", e)

(* The use case fails before it changes anything. *)
Failed(c) ==
  /\ account # c /\ Denied(c, "error")
  /\ UNCHANGED <<sessions, expired, account, requests, clients>>

(* The account is made before its first token, and may be left without one. *)
Enrol(c) ==
  /\ op[c] = "register" /\ fate[c] = "sent"
  /\ account = None /\ account' = c
  /\ UNCHANGED <<vars, sessions, expired, requests, clients>>

Register(c) ==
  /\ op[c] = "register"
  /\ \/ account = c /\ Done(c) /\ Ledger!Issue(c)
     \/ account = c /\ Ends(c, "done", "error") /\ UNCHANGED sessions
     \/ /\ account \notin {None, c} /\ UNCHANGED sessions
        /\ \E e \in AccountErrors : Denied(c, e)
  /\ UNCHANGED <<expired, account, requests, clients>>

(* Bug: the token is handed out and its row is not stored. *)
Login_Unstored(c) ==
  /\ op[c] = "login"
  /\ account # None /\ Done(c)
  /\ open' = open \cup {c}
  /\ UNCHANGED <<issued, exchanged, expired, account, requests, clients>>

(* A user that has an account may mistype the password. *)
Login(c) ==
  /\ op[c] = "login"
  /\ \/ account # None /\ Done(c) /\ Ledger!Issue(c)
     \/ Denied(c, "ErrInvalidCredentials") /\ UNCHANGED sessions
  /\ UNCHANGED <<expired, account, requests, clients>>

(* Whether a token is past use depends on clocks when it expired just now. *)
Spent(t) == t \notin open \/ t \in expired

(* The alarm closes the sessions of its snapshot: any that are open, since
   some may have been opened after it was taken. *)
Alarm(c) ==
  /\ \E e \in {"ErrRevokedRefreshToken", "error"} : Denied(c, e)
  /\ UNCHANGED sessions \/ \E S \in SUBSET open : Ledger!Close(S)

Refresh(c) ==
  /\ op[c] = "refresh"
  /\ \/ Done(c) /\ Ledger!Exchange(token[c], c)
     \/ Spent(token[c]) /\ Denied(c, "ErrInvalidRefreshToken") /\ UNCHANGED sessions
     \/ Spent(token[c]) /\ Alarm(c)
  /\ UNCHANGED <<expired, account, requests, clients>>

(* Bug: the access token is dropped and the refresh token left. *)
Logout_KeepsRow(c) ==
  /\ op[c] = "logout"
  /\ Done(c)
  /\ UNCHANGED <<sessions, expired, account, requests, clients>>

(* A token that is closed already counts as logged out. *)
Logout(c) ==
  /\ op[c] = "logout"
  /\ Done(c)
  /\ IF token[c] \in open THEN Ledger!Close({token[c]}) ELSE UNCHANGED sessions
  /\ UNCHANGED <<expired, account, requests, clients>>

(* The client is answered.  A client that tires of waiting knows as much as one
   whose answer says nothing, and fares the same here.  It keeps the token of a
   success and drops one that was refused for what it is. *)
Adopt(d, c) ==
  /\ waiting[d] = c /\ Answer(c)
  /\ held' = [held EXCEPT ![d] =
                IF verdict'[c] = "ok" THEN (IF op[c] = "logout" THEN None ELSE c)
                ELSE IF verdict'[c] \in TokenErrors THEN None ELSE @]
  /\ waiting' = [waiting EXCEPT ![d] = None]
  /\ UNCHANGED requests

Hear(d, c) ==
  /\ Adopt(d, c)
  /\ UNCHANGED <<sessions, expired, account>>

(* Time passes the expiry of a session. *)
Expire(t) ==
  /\ t \in issued \ expired
  /\ expired' = expired \cup {t}
  /\ UNCHANGED <<vars, sessions, account, requests, clients>>

(* The hourly job deletes the rows of expired sessions. *)
Cleanup ==
  /\ Ledger!Close(open \cap expired)
  /\ open \cap expired # {}
  /\ UNCHANGED <<vars, expired, account, requests, clients>>

SessionNext ==
  \/ \E d \in Clients, c \in Calls, o \in {"register", "login", "refresh", "logout"} : Begin(d, c, o)
  \/ \E c \in Calls : Enrol(c) \/ Register(c) \/ Login(c) \/ Refresh(c) \/ Logout(c) \/ Failed(c)
  \/ \E d \in Clients, c \in Calls : Hear(d, c)
  \/ \E t \in Calls : Expire(t)
  \/ Cleanup

SessionSpec == SessionInit /\ [][SessionNext]_sessionVars

--------------------------------------------------------------------------------

SessionTypeOK ==
  /\ TypeOK
  /\ Ledger!TypeOK
  /\ expired \subseteq issued
  /\ account \in Calls \cup {None}
  /\ op \in [Calls -> {"none", "register", "login", "refresh", "logout"}]
  /\ token \in [Calls -> Calls \cup {None}]
  /\ held \in [Clients -> Calls \cup {None}]
  /\ waiting \in [Clients -> Calls \cup {None}]

(* The requests whose clients do not know what became of them. *)
Lost == {c \in Calls : verdict[c] = "unknown"}

(* No client that plays by the rules is logged out: a refresh is refused for
   its token only if a token has expired or the answer to an earlier refresh
   or logout of the user's has not arrived (app/auth.go RefreshTokens behind
   app/gateway.go). *)
HonestClientsStayIn ==
  \A c \in Calls :
    verdict[c] \in TokenErrors =>
      expired # {} \/ \E q \in Lost : Presents(op[q])

(* No session is left open behind the user's back: every session that can be
   used is held by a client, or its answer is under way to one, or it is the
   heir that an answer which did not arrive would have delivered.  So after a
   logout that was answered, only lost answers leave anything open. *)
NoStraySessions ==
  \A t \in open \ expired :
    t \in Lost \/ \E d \in Clients : t \in {held[d], waiting[d]}

================================================================================
