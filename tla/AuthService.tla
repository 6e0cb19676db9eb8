------------------------------ MODULE AuthService ------------------------------
(***************************************************************************)
(* The auth service: the use cases of internal/app/auth.go running         *)
(* concurrently over the two tables of the auth database, one SQL          *)
(* statement at a time.                                                    *)
(*                                                                         *)
(* Every request is a member of Requests and handles one call.  A request  *)
(* creates at most one user row and at most one refresh token (uuids and   *)
(* token hashes are unique), so both are named by the request that made    *)
(* them.  A client presents only tokens it was sent.                       *)
(*                                                                         *)
(* Statements run at READ COMMITTED: an UPDATE or a DELETE picks its rows  *)
(* from a snapshot, waits for the row locks that other transactions hold,  *)
(* and then looks at the row again.                                        *)
(***************************************************************************)
EXTENDS Naturals, FiniteSets

CONSTANTS
  Requests,    \* gRPC calls, one use case execution each
  Emails,
  Usernames,
  EmailLike,   \* the usernames that contain the text "email"
  None

ASSUME AuthAssumption ==
  /\ EmailLike \subseteq Usernames
  /\ None \notin Requests \cup Emails \cup Usernames

VARIABLES
  users,     \* table users: records [id, email, name]
  stored,    \* table refresh_tokens: the tokens that have a row
  revoked,   \*   rows with is_revoked = true
  expired,   \*   tokens whose expires_at has passed
  owner,     \*   user_id of the row
  issued,    \* history: every token whose row was ever committed
  pc,        \* what each request does next
  op,        \* the use case each request executes
  form,      \* the email and the username a request was sent
  tok,       \* the refresh token a request presents
  uid,       \* the user a request acts for, once known
  seen,      \* the rows in the snapshot of its revoke-all statement
  answer     \* what the client learns

tables == <<users, stored, revoked, expired, owner, issued>>
inputs == <<op, form, tok>>
vars == <<users, stored, revoked, expired, owner, issued,
          pc, op, form, tok, uid, seen, answer>>

Users == [id : Requests, email : Emails, name : Usernames]

(* Requests that hold results of earlier statements, at the next statement. *)
Midway == {"create", "store", "consume", "commit", "scan", "revokeAll", "revoke"}

(* A request between two statements of a refresh. *)
Refreshing(p) == pc[p] \in {"consume", "commit", "scan", "revokeAll"}

TypeOK ==
  /\ users \subseteq Users
  /\ stored \subseteq Requests
  /\ revoked \subseteq Requests
  /\ expired \subseteq Requests
  /\ owner \in [Requests -> Requests \cup {None}]
  /\ issued \subseteq Requests
  /\ pc \in [Requests -> {"idle", "done"} \cup Midway]
  /\ op \in [Requests -> {"none", "register", "login", "refresh", "logout"}]
  /\ form \in [Requests -> [email : Emails \cup {None}, name : Usernames \cup {None}]]
  /\ tok \in [Requests -> Requests \cup {None}]
  /\ uid \in [Requests -> Requests \cup {None}]
  /\ seen \in [Requests -> SUBSET Requests]
  /\ answer \in [Requests -> {"none", "ok", "error", "invalid", "revoked",
                              "emailTaken", "nameTaken"}]
  /\ \A p \in Requests : pc[p] = "create" => form[p] \in [email : Emails, name : Usernames]
  /\ \A p \in Requests : Refreshing(p) => tok[p] \in Requests

Init ==
  /\ users = {}
  /\ stored = {}
  /\ revoked = {}
  /\ expired = {}
  /\ owner = [p \in Requests |-> None]
  /\ issued = {}
  /\ pc = [p \in Requests |-> "idle"]
  /\ op = [p \in Requests |-> "none"]
  /\ form = [p \in Requests |-> [email |-> None, name |-> None]]
  /\ tok = [p \in Requests |-> None]
  /\ uid = [p \in Requests |-> None]
  /\ seen = [p \in Requests |-> {}]
  /\ answer = [p \in Requests |-> "none"]

(* Rows a refresh could still consume. *)
Active == stored \ revoked

(* Bug: the WHERE clause lost its user_id. *)
ActiveOf_AnyUser(u) == Active

(* tokenRevokeAllByUserQuery: WHERE user_id = $1 AND is_revoked = false. *)
ActiveOf(u) == {t \in Active : owner[t] = u}

(* tokenCleanupQuery: WHERE expires_at < NOW() OR is_revoked = true. *)
Dead == stored \cap (revoked \cup expired)

(* Tokens that reached a client. *)
Delivered == {t \in issued : answer[t] = "ok"}

(* Bug: the rotation reads the row first and updates it later, unlocked. *)
Locked_Never(t) == FALSE

(* Bug: the transaction is neither committed nor rolled back on the pool. *)
Locked_Leaked(t) == \E q \in Requests : op[q] = "refresh" /\ pc[q] \in {"commit", "done"} /\ tok[q] = t

(* The row is locked by a rotation between its UPDATE and its COMMIT. *)
Locked(t) == \E q \in Requests : pc[q] = "commit" /\ tok[q] = t

Goto(p, next) ==
  /\ pc' = [pc EXCEPT ![p] = next]
  /\ UNCHANGED answer

Reply(p, a) ==
  /\ pc' = [pc EXCEPT ![p] = "done"]
  /\ answer' = [answer EXCEPT ![p] = a]

(* A statement took effect; its reply may still be lost on the way back. *)
ReplyOrLose(p, a) == \E r \in {a, "error"} : Reply(p, r)

--------------------------------------------------------------------------------
(* Register: look the email up, insert the user, store its first token. *)

RegisterFind(p, e, n) ==
  /\ pc[p] = "idle"
  /\ op' = [op EXCEPT ![p] = "register"]
  /\ form' = [form EXCEPT ![p] = [email |-> e, name |-> n]]
  /\ IF \E u \in users : u.email = e THEN Reply(p, "emailTaken") ELSE Goto(p, "create")
  /\ UNCHANGED <<tables, tok, uid, seen>>

(* Bug: the email lookup is trusted and the column is not UNIQUE. *)
Clashes_NameOnly(f) == {c \in {"name"} : \E u \in users : u[c] = f[c]}

(* The UNIQUE columns of users on which the new row collides. *)
Clashes(f) == {c \in {"email", "name"} : \E u \in users : u[c] = f[c]}

(* Bug: a violated constraint is passed on unmapped. *)
ViolationAnswer_Raw(c, f) == c

(* mapUniqueViolation: the detail text quotes the colliding value, so a
   username that contains "email" is taken for an email collision. *)
ViolationAnswer(c, f) ==
  IF c = "email" \/ f.name \in EmailLike THEN "emailTaken" ELSE "nameTaken"

RegisterCreate(p) ==
  /\ pc[p] = "create"
  /\ \/ /\ Clashes(form[p]) = {}
        /\ users' = users \cup {[id |-> p, email |-> form[p].email, name |-> form[p].name]}
        /\ uid' = [uid EXCEPT ![p] = p]
        /\ Goto(p, "store")
     \/ /\ \E c \in Clashes(form[p]) : Reply(p, ViolationAnswer(c, form[p]))
        /\ UNCHANGED <<users, uid>>
  /\ UNCHANGED <<stored, revoked, expired, owner, issued, inputs, seen>>

(* Login: look the user up and verify the password, then store a token. *)
LoginFind(p, e) ==
  /\ pc[p] = "idle"
  /\ op' = [op EXCEPT ![p] = "login"]
  /\ form' = [form EXCEPT ![p] = [email |-> e, name |-> None]]
  /\ \/ \E u \in users :
          /\ u.email = e
          /\ uid' = [uid EXCEPT ![p] = u.id]
          /\ Goto(p, "store")
     \/ Reply(p, "invalid") /\ UNCHANGED uid    \* unknown email or wrong password
  /\ UNCHANGED <<tables, tok, seen>>

(* The row that a request adds to refresh_tokens, named by the request. *)
InsertToken(p, u) ==
  /\ stored' = stored \cup {p}
  /\ owner' = [owner EXCEPT ![p] = u]
  /\ issued' = issued \cup {p}

StoreToken(p) ==
  /\ pc[p] = "store"
  /\ InsertToken(p, uid[p])
  /\ ReplyOrLose(p, "ok")
  /\ UNCHANGED <<users, revoked, expired, inputs, uid, seen>>

--------------------------------------------------------------------------------
(* Refresh: read the row, consume it and insert its heir in one transaction;
   a token that is revoked, or that cannot be consumed any more, raises the
   reuse alarm, which revokes every session of the user. *)

(* The user row is never deleted, so FindByID adds no outcome of its own. *)
RefreshFind(p, t) ==
  /\ pc[p] = "idle"
  /\ op' = [op EXCEPT ![p] = "refresh"]
  /\ tok' = [tok EXCEPT ![p] = t]
  /\ \/ t \notin stored /\ Reply(p, "invalid") /\ UNCHANGED uid
     \/ t \in stored \ revoked /\ t \in expired /\ Reply(p, "invalid") /\ UNCHANGED uid
     \/ /\ t \in stored
        /\ uid' = [uid EXCEPT ![p] = owner[t]]
        /\ \/ t \in revoked /\ Goto(p, "scan")
           \/ t \notin revoked \cup expired /\ Goto(p, "consume")
  /\ UNCHANGED <<tables, form, seen>>

(* The conditional UPDATE of the rotation waits for the row lock.  NOW() is
   the start of the transaction: a token that expired after RefreshFind may
   have expired before or after it, and an expired row is not waited for. *)
Consumable(p) == tok[p] \in Active /\ owner[tok[p]] = uid[p]

(* Bug: FOR UPDATE NOWAIT, a busy row counts as consumed. *)
RotateConsume_NoWait(p) ==
  /\ pc[p] = "consume"
  /\ \/ Consumable(p) /\ ~Locked(tok[p]) /\ Goto(p, "commit")
     \/ (~Consumable(p) \/ Locked(tok[p])) /\ Goto(p, "scan")
  /\ UNCHANGED <<tables, inputs, uid, seen>>

RotateConsume(p) ==
  /\ pc[p] = "consume"
  /\ \/ ~Locked(tok[p]) /\ Goto(p, IF Consumable(p) THEN "commit" ELSE "scan")
     \/ tok[p] \in expired /\ Goto(p, "scan")
  /\ UNCHANGED <<tables, inputs, uid, seen>>

(* Bug: the heir's row copies the flag of the row it replaces. *)
RotateCommit_HeirRevoked(p) ==
  /\ pc[p] = "commit"
  /\ InsertToken(p, owner[tok[p]])
  /\ revoked' = revoked \cup {tok[p], p}
  /\ ReplyOrLose(p, "ok")
  /\ UNCHANGED <<users, expired, inputs, uid, seen>>

(* Bug: the heir is inserted and the old row left as it was. *)
RotateCommit_KeepOld(p) ==
  /\ pc[p] = "commit"
  /\ InsertToken(p, owner[tok[p]])
  /\ ReplyOrLose(p, "ok")
  /\ UNCHANGED <<users, revoked, expired, inputs, uid, seen>>

(* The transaction commits: the old row is revoked and the heir inserted. *)
RotateCommit(p) ==
  /\ pc[p] = "commit"
  /\ InsertToken(p, owner[tok[p]])
  /\ revoked' = revoked \cup {tok[p]}
  /\ ReplyOrLose(p, "ok")
  /\ UNCHANGED <<users, expired, inputs, uid, seen>>

(* RevokeAllUserTokens takes its snapshot ... *)
RevokeScan(p) ==
  /\ pc[p] = "scan"
  /\ seen' = [seen EXCEPT ![p] = ActiveOf(uid[p])]
  /\ Goto(p, "revokeAll")
  /\ UNCHANGED <<tables, inputs, uid>>

(* ... and revokes the rows of that snapshot once it has all their locks. *)
RevokeAll(p) ==
  /\ pc[p] = "revokeAll"
  /\ \A t \in seen[p] : ~Locked(t)
  /\ revoked' = revoked \cup (seen[p] \cap stored)
  /\ ReplyOrLose(p, "revoked")
  /\ UNCHANGED <<users, stored, expired, owner, issued, inputs, uid, seen>>

--------------------------------------------------------------------------------
(* Logout: one UPDATE, which waits for the row lock; a row that is gone or
   already revoked is a success.  The lookup before it only feeds the log. *)

RevokeToken(p, t) ==
  /\ ~Locked(t)
  /\ revoked' = revoked \cup ({t} \cap stored)
  /\ ReplyOrLose(p, "ok")
  /\ UNCHANGED <<users, stored, expired, owner, issued, form, uid, seen>>

LogoutFind(p, t) ==
  /\ pc[p] = "idle"
  /\ op' = [op EXCEPT ![p] = "logout"]
  /\ tok' = [tok EXCEPT ![p] = t]
  /\ \/ RevokeToken(p, t)
     \/ Locked(t) /\ Goto(p, "revoke") /\ UNCHANGED <<tables, form, uid, seen>>

LogoutRevoke(p) ==
  /\ pc[p] = "revoke"
  /\ RevokeToken(p, tok[p])
  /\ UNCHANGED <<op, tok>>

(* A statement fails, the context ends or the process dies: the request
   stops where it is and its open transaction rolls back.  A request that
   fails at its first statement leaves no trace and is left out. *)
Fail(p) ==
  /\ pc[p] \in Midway
  /\ Reply(p, "error")
  /\ UNCHANGED <<tables, inputs, uid, seen>>

(* The hourly job of runTokenCleanup. *)
CleanupExpiredTokens ==
  /\ Dead # {}
  /\ \A t \in Dead : ~Locked(t)
  /\ stored' = stored \ Dead
  /\ revoked' = revoked \ Dead
  /\ UNCHANGED <<users, expired, owner, issued, pc, inputs, uid, seen, answer>>

(* Time passes the expiry of a token. *)
Expire(t) ==
  /\ t \in stored \ expired
  /\ expired' = expired \cup {t}
  /\ UNCHANGED <<users, stored, revoked, owner, issued, pc, inputs, uid, seen, answer>>

(* Every request has been answered. *)
Quiescent ==
  /\ \A p \in Requests : pc[p] = "done"
  /\ UNCHANGED vars

Arrive(p) ==
  \/ \E e \in Emails : LoginFind(p, e) \/ \E n \in Usernames : RegisterFind(p, e, n)
  \/ \E t \in Delivered : RefreshFind(p, t) \/ LogoutFind(p, t)

Proceed(p) ==
  \/ RegisterCreate(p)
  \/ StoreToken(p)
  \/ RotateConsume(p)
  \/ RotateCommit(p)
  \/ RevokeScan(p)
  \/ RevokeAll(p)
  \/ LogoutRevoke(p)

Next ==
  \/ \E p \in Requests : Arrive(p) \/ Proceed(p) \/ Fail(p)
  \/ \E t \in Requests : Expire(t)
  \/ CleanupExpiredTokens
  \/ Quiescent

Spec == Init /\ [][Next]_vars

(* A request that was accepted keeps running; nobody has to send one. *)
FairSpec == Spec /\ \A p \in Requests : WF_vars(Proceed(p))

--------------------------------------------------------------------------------
(* Tokens that a refresh put in the place of s. *)
Heirs(s) == {t \in issued : op[t] = "refresh" /\ tok[t] = s}

(* A refresh token is exchanged at most once, however many requests present
   it at the same time and whether or not their replies arrive
   (RotateRefreshToken's conditional UPDATE). *)
SingleUse == \A s \in issued : \A t, u \in Heirs(s) : t = u

(* Once Logout has answered, its token is dead for good: it is not active and
   no refresh that got hold of it earlier is about to exchange it. *)
LogoutEndsToken ==
  \A p \in Requests :
     op[p] = "logout" /\ answer[p] = "ok" =>
       /\ tok[p] \notin Active
       /\ \A q \in Requests : pc[q] = "commit" => tok[q] # tok[p]

(* The alarm of rejectRefreshReuse is never raised against a client that used
   its token once: the token had expired, or another request that is over
   presented it too, or raised an earlier alarm that swept it. *)
AlarmHasCause ==
  \A p \in Requests :
     pc[p] \in {"scan", "revokeAll"} \/ answer[p] = "revoked" =>
       \/ tok[p] \in expired
       \/ \E q \in Requests \ {p} :
             /\ pc[q] = "done"
             /\ tok[q] = tok[p] \/ (tok[p] \in seen[q] /\ uid[q] = uid[p])

(* A token that is presented again is noticed.  After the alarm is answered,
   the session that took its place is closed, and so is every session that
   was open when the sweep began.  (A token that merely expired is set aside:
   two refreshes of it may begin on both sides of its expiry.)  The alarm is
   left out, with "invalid", only for a token that expired or whose row the
   cleanup has deleted. *)
ReuseClosesHeir ==
  \A p \in Requests : op[p] = "refresh" =>
    /\ answer[p] = "revoked" => seen[p] \cap Active = {}
    /\ answer[p] = "revoked" /\ tok[p] \notin expired => Heirs(tok[p]) \cap Active = {}
    /\ answer[p] = "invalid" => tok[p] \notin stored \ expired

(* A request revokes sessions of its own user only, the user to whom the
   token it presents was issued (WHERE user_id in RevokeAllUserTokens). *)
UserIsolation ==
  [][\A t \in revoked' \ revoked :
        \E p \in Requests :
           pc[p] # "done" /\ pc'[p] = "done" /\ owner[tok'[p]] = owner[t]]_vars

(* A name for which a registration is refused belongs to another account.  A
   username that contains "email" may be reported as the email. *)
RefusedFairly(p) ==
  /\ answer[p] = "nameTaken" => \E u \in users : u.id # p /\ u.name = form[p].name
  /\ answer[p] = "emailTaken" =>
       \E u \in users :
         /\ u.id # p
         /\ u.email = form[p].email \/ (u.name = form[p].name /\ u.name \in EmailLike)

(* Registrations that run concurrently agree on who has which name: no two
   accounts share an email or a username, every session belongs to an
   account, and a registration is refused only for what another account has
   (the UNIQUE columns behind the lookup of Register). *)
RegistrationsAgree ==
  /\ \A u, v \in users : u.email = v.email \/ u.name = v.name => u = v
  /\ \A t \in issued : \E u \in users : u.id = owner[t]
  /\ \A p \in Requests : RefusedFairly(p)

(* A request that was accepted is answered: none waits for ever for a row
   lock (RotateRefreshToken commits or rolls back on every path). *)
EveryRequestAnswered == \A p \in Requests : (pc[p] \in Midway) ~> (pc[p] = "done")

--------------------------------------------------------------------------------
(* Why the session properties hold: the inductive invariant. *)

(* Rows belong to tokens whose request is over, tokens never change hands,
   and a request that is still running has minted no token. *)
TablesInv ==
  /\ revoked \subseteq stored
  /\ stored \subseteq issued
  /\ \A p \in Requests : pc[p] # "done" => p \notin issued /\ answer[p] = "none"
  /\ \A p \in Requests : op[p] \in {"refresh", "logout"} => tok[p] \in issued
  /\ \A t \in issued : op[t] = "refresh" => owner[t] = owner[tok[t]]

(* What a request is in the middle of. *)
StageInv ==
  \A p \in Requests :
     /\ pc[p] \in {"create", "store"} => op[p] \in {"register", "login"}
     /\ Refreshing(p) => op[p] = "refresh" /\ uid[p] = owner[tok[p]]
     /\ pc[p] = "revoke" => op[p] = "logout"

(* The row lock: a token in the middle of a rotation stays active, for that
   rotation alone. *)
LockInv ==
  \A p \in Requests : pc[p] = "commit" =>
     /\ tok[p] \in Active
     /\ \A q \in Requests : pc[q] = "commit" /\ tok[q] = tok[p] => q = p

(* A token that was exchanged or logged out is not active. *)
SpentInv ==
  /\ \A t \in issued : op[t] = "refresh" => tok[t] \notin Active
  /\ \A p \in Requests : op[p] = "logout" /\ answer[p] = "ok" => tok[p] \notin Active

(* The alarm is raised for a token that is dead, and its snapshot holds the
   live heir of that token until that heir is revoked. *)
AlarmInv ==
  \A p \in Requests :
     /\ pc[p] = "revokeAll" => \A t \in seen[p] : t \in issued /\ owner[t] = uid[p]
     /\ pc[p] \in {"scan", "revokeAll"} /\ tok[p] \notin expired => tok[p] \notin Active
     /\ pc[p] = "revokeAll" /\ tok[p] \notin expired => Heirs(tok[p]) \cap Active \subseteq seen[p]
     /\ op[p] = "refresh" /\ answer[p] = "revoked" /\ tok[p] \notin expired =>
           tok[p] \notin Active /\ Heirs(tok[p]) \cap Active = {}

(* What an alarm has swept stays dead, and so does a row that was not there. *)
SweptInv ==
  \A p \in Requests :
     /\ seen[p] \subseteq issued
     /\ answer[p] = "revoked" => seen[p] \cap Active = {}
     /\ op[p] = "refresh" /\ answer[p] = "invalid" => tok[p] \notin stored \ expired

(* A dead token expired, was presented by a request that is over, or was
   swept by an alarm of its user. *)
CauseInv ==
  \A t \in issued \ Active :
     \/ t \in expired
     \/ \E q \in Requests :
           /\ pc[q] = "done"
           /\ tok[q] = t \/ (t \in seen[q] /\ uid[q] = owner[t])

SessionInv ==
  TablesInv /\ StageInv /\ LockInv /\ SpentInv /\ AlarmInv /\ SweptInv /\ CauseInv

(* An account appears before the token that its registration stores, and it
   never disappears. *)
AccountInv ==
  /\ RegistrationsAgree
  /\ \A u \in users : pc[u.id] \notin {"idle", "create"}
  /\ \A p \in Requests : pc[p] = "store" => \E u \in users : u.id = uid[p]

(* The tables, seen as the ledger of sessions. *)
Exchanged == {<<tok[t], t>> : t \in {x \in issued : op[x] = "refresh"}}

Ledger == INSTANCE SessionLedger
  WITH Sessions <- Requests, open <- Active, exchanged <- Exchanged

(* The auth service keeps the promise of SessionLedger: every step of every
   use case issues, exchanges or closes sessions as the ledger does. *)
LedgerSpec == Ledger!Spec

(* domain/err.go:15: a registration refused with "user with this email
   already exists" met an account with that email. *)
EmailTakenIsReal ==
  \A p \in Requests :
     answer[p] = "emailTaken" => \E u \in users : u.email = form[p].email

(* postgres/auth.go:316: when the alarm for a token that was used twice has
   been answered, with "all user tokens revoked", no session survives that
   descends from one it swept. *)
NoExchangeEscapes ==
  \A p \in Requests :
     answer[p] = "revoked" /\ tok[p] \notin expired
       => \A s \in seen[p] : Heirs(s) \cap Active = {}

================================================================================
