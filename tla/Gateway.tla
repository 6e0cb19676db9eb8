--------------------------------- MODULE Gateway -------------------------------
(***************************************************************************)
(* One HTTP request through the gateway, from its handler over the circuit *)
(* breaker and the gRPC client to a use case of the auth or the notes      *)
(* service, and its error back through three tables: the backend turns it  *)
(* into a gRPC status, the client turns that into a domain error, the      *)
(* handler turns that into an HTTP status.                                 *)
(*                                                                         *)
(* The requests go through the breaker of Resilience.  What this module    *)
(* adds is the message on the wire: the gateway may stop waiting for it,   *)
(* and the backend may act on it later all the same.                       *)
(***************************************************************************)
EXTENDS Resilience

CONSTANT Ops          \* the operations that the requests ask for

VARIABLES
  op,                 \* what each request asks for
  wire,               \* its attempts that the backend has yet to take up
  cause,              \* what the use case made of the current attempt
  effects,            \* how often the backend did what was asked for
  last,               \* the error of the last attempt, as the client maps it
  answer              \* the error that the HTTP answer is made from

requests == <<op, wire, cause, effects, last, answer>>
gatewayVars == <<vars, requests>>

--------------------------------------------------------------------------------
(* The errors of the use cases, by operation.  Any other error of theirs is
   "Internal" to everyone outside. *)

UseCaseErrors ==
  [Register |-> {"ErrInvalidEmail", "ErrPasswordTooShort", "ErrPasswordTooWeak", "ErrEmptyUsername",
                 "ErrUsernameTooLong", "ErrEmailAlreadyExists", "ErrUserAlreadyExists"},
   Login |-> {"ErrInvalidCredentials"},
   RefreshTokens |-> {"ErrInvalidRefreshToken", "ErrRevokedRefreshToken", "ErrUserNotFound"},
   Logout |-> {},
   GetUserProfile |-> {"ErrUserNotFound"},
   CreateNote |-> {"ErrEmptyNoteTitle", "ErrNoteTitleTooLong", "ErrNoteContentTooLarge"},
   GetNote |-> {"ErrNoteNotFound"},
   ListNotes |-> {},
   UpdateNote |-> {"ErrNoteNotFound", "ErrNoteNotFoundOrNotOwned", "ErrEmptyNoteTitle",
                   "ErrNoteTitleTooLong", "ErrNoteContentTooLarge"},
   DeleteNote |-> {"ErrNoteNotFoundOrNotOwned"}]

ASSUME GatewayAssumption == Ops \subseteq DOMAIN UseCaseErrors

Writes == {"Register", "Login", "RefreshTokens", "Logout", "CreateNote", "UpdateNote", "DeleteNote"}
NotesOps == {"CreateNote", "GetNote", "ListNotes", "UpdateNote", "DeleteNote"}
TokenOps == NotesOps \cup {"GetUserProfile"}

(* Bug: the gateway retries an operation that is not a read. *)
Retried_Creates == {"GetUserProfile", "GetNote", "ListNotes", "CreateNote"}

(* The operations that go through the retry loop; the others pass the breaker
   only. *)
Retried == {"GetUserProfile", "GetNote", "ListNotes"}

--------------------------------------------------------------------------------
(* The three tables. *)

AuthCodes ==
  [Unauthenticated |-> {"ErrInvalidCredentials", "ErrInvalidRefreshToken", "ErrRevokedRefreshToken"},
   AlreadyExists |-> {"ErrEmailAlreadyExists", "ErrUserAlreadyExists"},
   NotFound |-> {"ErrUserNotFound"},
   InvalidArgument |-> {"ErrInvalidEmail", "ErrEmptyUsername", "ErrUsernameTooLong",
                        "ErrPasswordTooShort", "ErrPasswordTooWeak"}]

(* Bug: one error of the repository is forgotten. *)
NotesCodes_Forgets ==
  [Unauthenticated |-> {"ErrUnauthorized"},
   NotFound |-> {"ErrNoteNotFound"},
   InvalidArgument |-> {"ErrEmptyNoteTitle", "ErrNoteTitleTooLong", "ErrNoteContentTooLarge"}]

NotesCodes ==
  [Unauthenticated |-> {"ErrUnauthorized"},
   NotFound |-> {"ErrNoteNotFound", "ErrNoteNotFoundOrNotOwned"},
   InvalidArgument |-> {"ErrEmptyNoteTitle", "ErrNoteTitleTooLong", "ErrNoteContentTooLarge"}]

Codes(o, e) ==
  LET table == IF o \in NotesOps THEN NotesCodes ELSE AuthCodes
  IN {code \in DOMAIN table : e \in table[code]}

(* Bug: an error that no table knows is put down to the request. *)
StatusFromError_Default(o, e) ==
  IF e = "ErrUnauthorized" THEN [code |-> "Unauthenticated", text |-> e]
  ELSE IF Codes(o, e) # {} THEN [code |-> CHOOSE code \in Codes(o, e) : TRUE, text |-> e]
  ELSE [code |-> "InvalidArgument", text |-> "internal"]

(* A status carries its code and, for an error that is named above, its text;
   the interceptor answers for both services when a token is not valid. *)
StatusFromError(o, e) ==
  IF e = "ErrUnauthorized" THEN [code |-> "Unauthenticated", text |-> e]
  ELSE IF Codes(o, e) # {} THEN [code |-> CHOOSE code \in Codes(o, e) : TRUE, text |-> e]
  ELSE [code |-> "Internal", text |-> "internal"]

(* The client goes by the text first, then by the code. *)
StatusMessages ==
  {"ErrInvalidCredentials", "ErrInvalidRefreshToken", "ErrRevokedRefreshToken", "ErrUnauthorized",
   "ErrEmailAlreadyExists", "ErrUserAlreadyExists", "ErrUserNotFound",
   "ErrNoteNotFound", "ErrNoteNotFoundOrNotOwned",
   "ErrInvalidEmail", "ErrEmptyUsername", "ErrUsernameTooLong", "ErrPasswordTooShort",
   "ErrPasswordTooWeak", "ErrEmptyNoteTitle", "ErrNoteTitleTooLong", "ErrNoteContentTooLarge"}

StatusToDomain(st, notFound) ==
  LET byCode == [Unavailable |-> "ErrServiceUnavailable", Unauthenticated |-> "ErrUnauthorized",
                 NotFound |-> notFound, AlreadyExists |-> "ErrUserAlreadyExists",
                 InvalidArgument |-> "ErrInvalidParams"]
  IN IF st.text \in StatusMessages THEN st.text
     ELSE IF st.code \in DOMAIN byCode THEN byCode[st.code]
     ELSE st.code

(* Bug: a backend that is too slow is the client's fault. *)
HTTPStatus_Timeout(e) ==
  CASE e = "ok" -> 200
    [] e \in {"DeadlineExceeded", "TooManyRequests"} -> 408
    [] e \in {"ErrNoteNotFound", "ErrNoteNotFoundOrNotOwned"} -> 404
    [] OTHER -> 500

(* Successes all stand for 200. *)
HTTPStatus(e) ==
  CASE e = "ok" -> 200
    [] e \in {"ErrInvalidParams", "ErrInvalidEmail", "ErrEmptyUsername", "ErrUsernameTooLong",
              "ErrPasswordTooShort", "ErrPasswordTooWeak", "ErrEmptyNoteTitle",
              "ErrNoteTitleTooLong", "ErrNoteContentTooLarge", "BadRequest"} -> 400
    [] e \in {"ErrUnauthorized", "ErrInvalidCredentials", "ErrInvalidRefreshToken",
              "ErrRevokedRefreshToken", "NoToken"} -> 401
    [] e \in {"ErrUserNotFound", "ErrNoteNotFound", "ErrNoteNotFoundOrNotOwned"} -> 404
    [] e \in {"ErrEmailAlreadyExists", "ErrUserAlreadyExists"} -> 409
    [] e = "TooManyRequests" -> 429
    [] e \in {"ErrServiceUnavailable", "ErrCircuitOpen"} -> 503
    [] OTHER -> 500

Infra == {"ErrServiceUnavailable", "DeadlineExceeded"}

(* Bug: every error counts against the backend. *)
Class_AnyError(e) == IF e = "ok" THEN "ok" ELSE "infra"

(* What an error is to the breaker: isInfraError. *)
Class(e) ==
  CASE e = "ok" -> "ok"
    [] e \in Infra -> "infra"
    [] e = "Canceled" -> "canceled"
    [] OTHER -> "business"

--------------------------------------------------------------------------------

GatewayInit ==
  /\ Init
  /\ op = [c \in Calls |-> "none"]
  /\ wire = [c \in Calls |-> {}]
  /\ cause = [c \in Calls |-> "none"]
  /\ effects = [c \in Calls |-> 0]
  /\ last = [c \in Calls |-> "none"]
  /\ answer = [c \in Calls |-> "none"]

New(c, o) ==
  /\ pc[c] = "idle"
  /\ op[c] = "none"
  /\ op' = [op EXCEPT ![c] = o]

(* What the gateway answers by itself: a token that is missing or a rate that
   is too high, a body that does not parse or lacks a field, a text that fails
   validation. *)
Refusals(o) ==
  {IF o \in TokenOps THEN "NoToken" ELSE "TooManyRequests"}
    \cup (IF o \in {"GetUserProfile", "ListNotes"} THEN {} ELSE {"BadRequest"})
    \cup (IF o = "CreateNote" THEN {"ErrEmptyNoteTitle"} ELSE {})
    \cup (IF o \in {"Register", "Login"} THEN {"ErrInvalidEmail"} ELSE {})
    \cup (IF o = "Register" THEN {"ErrPasswordTooShort", "ErrPasswordTooWeak"} ELSE {})

Refuse(c, o) ==
  /\ New(c, o)
  /\ \E e \in Refusals(o) : answer' = [answer EXCEPT ![c] = e]
  /\ UNCHANGED <<vars, wire, cause, effects, last>>

(* The breaker rejects the call. *)
Shed(c, o) ==
  /\ New(c, o)
  /\ Reject(c)
  /\ answer' = [answer EXCEPT ![c] = "ErrCircuitOpen"]
  /\ UNCHANGED <<wire, cause, effects, last>>

(* The breaker admits the call and the client sends its first attempt. *)
Send(c, o) ==
  /\ New(c, o)
  /\ Allow(c)
  /\ c \in reads' <=> o \in Retried
  /\ wire' = [wire EXCEPT ![c] = {1}]
  /\ UNCHANGED <<cause, effects, last, answer>>

(* The use case in the backend: it does what is asked for, or refuses, or
   fails, and a failure may hide that it was done (a reply of the database is
   lost, an account is there and storing its token fails). *)
BackendResults(o) ==
  {[error |-> e, done |-> 0] : e \in UseCaseErrors[o] \cup {"Internal"}
                                       \cup (IF o \in TokenOps THEN {"ErrUnauthorized"} ELSE {})}
  \cup {[error |-> "ok", done |-> 1], [error |-> "Internal", done |-> 1]}

(* Whether or not anyone still waits, the backend may take up an attempt. *)
Handle(c, n) ==
  /\ n \in wire[c]
  /\ wire' = [wire EXCEPT ![c] = @ \ {n}]
  /\ \E result \in BackendResults(op[c]) :
       /\ effects' = [effects EXCEPT ![c] = @ + result.done]
       /\ cause' = IF n = attempt[c] /\ pc[c] = "run"
                   THEN [cause EXCEPT ![c] = result.error] ELSE cause
  /\ UNCHANGED <<vars, op, last, answer>>

(* What the client may get to see of an attempt: the status that the use case
   ended with, if there is one yet, or one that the transport makes up (other
   codes of the transport fare as Canceled does).  The profile of a user that
   is not found, and a note, have errors of their own. *)
Replies(c) ==
  (IF cause[c] \in {"none", "ok"} THEN {} ELSE {StatusFromError(op[c], cause[c])})
    \cup {[code |-> code, text |-> "transport"] : code \in {"Unavailable", "DeadlineExceeded", "Canceled"}}

Received(c, e) ==
  \/ e = "ok" /\ cause[c] = "ok"
  \/ \E st \in Replies(c) :
       e = StatusToDomain(st, IF op[c] \in NotesOps THEN "ErrNoteNotFound" ELSE "ErrUserNotFound")

Errors == StatusMessages \cup Infra \cup
            {"ok", "Internal", "Canceled", "ErrInvalidParams", "ErrCircuitOpen",
             "BadRequest", "NoToken", "TooManyRequests"}

Settle(c) ==
  /\ Attempt(c)
  /\ \E e \in Errors :
       /\ Received(c, e)
       /\ outcome'[c] = Class(e)
       /\ last' = [last EXCEPT ![c] = e]
  /\ UNCHANGED <<op, wire, cause, effects, answer>>

(* Bug: the next attempt goes by the number after its own. *)
Retry_Ahead(c) ==
  /\ Backoff(c)
  /\ \/ /\ pc'[c] = "run"
        /\ wire' = [wire EXCEPT ![c] = @ \cup {attempt'[c] + 1}]
        /\ cause' = [cause EXCEPT ![c] = "none"]
        /\ UNCHANGED last
     \/ /\ pc'[c] = "record"
        /\ last' = [last EXCEPT ![c] = IF outcome'[c] = "infra" THEN "DeadlineExceeded" ELSE "Canceled"]
        /\ UNCHANGED <<wire, cause>>
  /\ UNCHANGED <<op, effects, answer>>

(* The retry loop waits and sends the next attempt, or its context ends. *)
Retry(c) ==
  /\ Backoff(c)
  /\ \/ /\ pc'[c] = "run"
        /\ wire' = [wire EXCEPT ![c] = @ \cup {attempt'[c]}]
        /\ cause' = [cause EXCEPT ![c] = "none"]
        /\ UNCHANGED last
     \/ /\ pc'[c] = "record"
        /\ last' = [last EXCEPT ![c] = IF outcome'[c] = "infra" THEN "DeadlineExceeded" ELSE "Canceled"]
        /\ UNCHANGED <<wire, cause>>
  /\ UNCHANGED <<op, effects, answer>>

(* The breaker takes note of the result and the handler answers. *)
Respond(c) ==
  /\ Record(c)
  /\ answer' = [answer EXCEPT ![c] = last[c]]
  /\ UNCHANGED <<op, wire, cause, effects, last>>

GatewayNext ==
  \/ \E c \in Calls, o \in Ops : Refuse(c, o) \/ Shed(c, o) \/ Send(c, o)
  \/ \E c \in Calls, n \in 1..MaxAttempts : Handle(c, n)
  \/ \E c \in Calls : Settle(c) \/ Retry(c) \/ Respond(c)
  \/ (Elapse \/ Backend) /\ UNCHANGED requests

GatewaySpec == GatewayInit /\ [][GatewayNext]_gatewayVars

--------------------------------------------------------------------------------

Answered == {c \in Calls : answer[c] # "none"}

GatewayTypeOK ==
  /\ TypeOK
  /\ op \in [Calls -> Ops \cup {"none"}]
  /\ wire \in [Calls -> SUBSET (1..MaxAttempts)]
  /\ cause \in [Calls -> Errors \cup {"none"}]
  /\ effects \in [Calls -> 0..MaxAttempts]
  /\ last \in [Calls -> Errors \cup {"none"}]
  /\ answer \in [Calls -> Errors \cup {"none"}]

(* An operation that changes something is done at most once for one HTTP
   request, also when the gateway gave up on an attempt that the backend takes
   up later: only reads are tried again. *)
WritesHappenOnce ==
  \A c \in Calls : op[c] \in Writes => effects[c] + Cardinality(wire[c]) <= 1

(* An answer below 500 to a write is final: the operation was done if it is a
   success and was not, and will not be, if it is an error of the client.  The
   same holds for a rejection by the breaker.  Any other answer from 500 says
   nothing: the operation may have been done, or may still be. *)
AnswersAreFinal ==
  \A c \in Answered :
    op[c] \in Writes /\ (HTTPStatus(answer[c]) < 500 \/ answer[c] = "ErrCircuitOpen")
      => /\ wire[c] = {}
         /\ (effects[c] = 1) <=> (answer[c] = "ok")

(* The detour over gRPC loses nothing: the error that the use case ended with
   is the one the client is answered with, unless no reply arrived in time. *)
SameErrorAtTheEdge ==
  \A c \in Answered :
    answer[c] \notin Refusals(op[c]) \cup Infra \cup {"ErrCircuitOpen", "Canceled"}
      => answer[c] = cause[c]

(* The breaker counts outages only: there is an answer that reports one for
   every failure it has counted, whatever errors clients cause. *)
FailuresAreOutages ==
  failures <= Cardinality({c \in Calls : answer[c] \in Infra})

--------------------------------------------------------------------------------
(* A request for a change, as WriteChannel has it. *)

IsWrite(c) == op[c] \in Writes

Denials == {e \in Errors : 200 < HTTPStatus(e) /\ HTTPStatus(e) < 500}

Fate(c) ==
  IF ~IsWrite(c) THEN "unsent"
  ELSE IF wire[c] # {} THEN "sent"
  ELSE IF effects[c] = 1 THEN "done" ELSE "undone"

(* What a result of the backend says, when "none" stands for itself. *)
Said(e, other) == IF e \in Denials \cup {"none", "ok"} THEN e ELSE other

Channel == INSTANCE WriteChannel
  WITH fate <- [c \in Calls |-> Fate(c)],
       reply <- [c \in Calls |-> IF IsWrite(c) THEN Said(cause[c], "error") ELSE "none"],
       verdict <- [c \in Calls |-> IF IsWrite(c) THEN Said(answer[c], "unknown") ELSE "none"]

(* The gateway keeps the promise of WriteChannel to every request for a
   change: one run of its use case at most, and an answer below 500 only if
   that is what the use case ended with. *)
ChannelSpec == Channel!Spec

================================================================================
