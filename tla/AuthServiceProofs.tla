--------------------------- MODULE AuthServiceProofs ---------------------------
(* Proofs about the auth service, for any set of requests and any accounts,
   first by itself and then with one user's clients before it. *)
EXTENDS SessionSystem, TLAPS

(* Type correctness: every use case, statement by statement, keeps the tables
   and the requests well formed. *)
LEMMA TypeInit == Init => TypeOK
  BY DEF Init, TypeOK, Midway, Refreshing

LEMMA TypeStep == TypeOK /\ [Next]_vars => TypeOK'
<1> SUFFICES ASSUME TypeOK, [Next]_vars
             PROVE  TypeOK'
  OBVIOUS
<1> USE DEF TypeOK, Midway, Refreshing, tables, inputs, Goto, Reply, ReplyOrLose, InsertToken
<1>1. ASSUME NEW p \in Requests, NEW e \in Emails, NEW n \in Usernames, RegisterFind(p, e, n)
      PROVE  TypeOK'
  <2>1. CASE Reply(p, "emailTaken")
    BY <1>1, <2>1 DEF RegisterFind
  <2>2. CASE Goto(p, "create")
    BY <1>1, <2>2 DEF RegisterFind
  <2> QED
    BY <1>1, <2>1, <2>2 DEF RegisterFind
<1>2. ASSUME NEW p \in Requests, RegisterCreate(p)
      PROVE  TypeOK'
  <2>1. CASE Clashes(form[p]) = {} /\ Goto(p, "store")
    <3>1. [id |-> p, email |-> form[p].email, name |-> form[p].name] \in Users
      BY <1>2 DEF RegisterCreate, Users
    <3>2. users' \subseteq Users
      BY <1>2, <2>1, <3>1 DEF RegisterCreate
    <3>3. uid' \in [Requests -> Requests \cup {None}]
      BY <1>2, <2>1 DEF RegisterCreate
    <3> QED
      BY <1>2, <2>1, <3>2, <3>3 DEF RegisterCreate
  <2>2. ASSUME NEW c \in Clashes(form[p]), Reply(p, ViolationAnswer(c, form[p])),
               UNCHANGED <<users, uid>>
        PROVE  TypeOK'
    <3>1. ViolationAnswer(c, form[p]) \in {"emailTaken", "nameTaken"}
      BY DEF ViolationAnswer
    <3> QED
      BY <1>2, <2>2, <3>1 DEF RegisterCreate
  <2> QED
    BY <1>2, <2>1, <2>2 DEF RegisterCreate
<1>3. ASSUME NEW p \in Requests, NEW e \in Emails, LoginFind(p, e)
      PROVE  TypeOK'
  <2>1. form' \in [Requests -> [email : Emails \cup {None}, name : Usernames \cup {None}]]
        /\ \A q \in Requests \ {p} : form'[q] = form[q]
    BY <1>3 DEF LoginFind
  <2>2. CASE Reply(p, "invalid") /\ UNCHANGED uid
    BY <1>3, <2>1, <2>2 DEF LoginFind
  <2>3. ASSUME NEW u \in users, uid' = [uid EXCEPT ![p] = u.id], Goto(p, "store")
        PROVE  TypeOK'
    <3>1. u.id \in Requests
      BY DEF Users
    <3> QED
      BY <1>3, <2>1, <2>3, <3>1 DEF LoginFind
  <2> QED
    BY <1>3, <2>2, <2>3 DEF LoginFind
<1>4. ASSUME NEW p \in Requests, StoreToken(p)
      PROVE  TypeOK'
  BY <1>4 DEF StoreToken
<1>5. ASSUME NEW p \in Requests, NEW t \in Delivered, RefreshFind(p, t)
      PROVE  TypeOK'
  <2>1. t \in Requests
    BY DEF Delivered
  <2>2. CASE Reply(p, "invalid") /\ UNCHANGED uid
    BY <1>5, <2>1, <2>2 DEF RefreshFind
  <2>3. ASSUME NEW next \in {"scan", "consume"}, Goto(p, next),
               uid' = [uid EXCEPT ![p] = owner[t]]
        PROVE  TypeOK'
    BY <1>5, <2>1, <2>3 DEF RefreshFind
  <2> QED
    BY <1>5, <2>2, <2>3 DEF RefreshFind
<1>6. ASSUME NEW p \in Requests, RotateConsume(p)
      PROVE  TypeOK'
  BY <1>6 DEF RotateConsume
<1>7. ASSUME NEW p \in Requests, RotateCommit(p)
      PROVE  TypeOK'
  BY <1>7 DEF RotateCommit
<1>8. ASSUME NEW p \in Requests, RevokeScan(p)
      PROVE  TypeOK'
  BY <1>8 DEF RevokeScan, ActiveOf, Active
<1>9. ASSUME NEW p \in Requests, RevokeAll(p)
      PROVE  TypeOK'
  BY <1>9 DEF RevokeAll
<1>10. ASSUME NEW p \in Requests, NEW t \in Delivered, LogoutFind(p, t)
       PROVE  TypeOK'
  <2>1. t \in Requests
    BY DEF Delivered
  <2>2. CASE RevokeToken(p, t)
    BY <1>10, <2>1, <2>2 DEF LogoutFind, RevokeToken
  <2>3. CASE Goto(p, "revoke")
    BY <1>10, <2>1, <2>3 DEF LogoutFind, RevokeToken
  <2> QED
    BY <1>10, <2>2, <2>3 DEF LogoutFind
<1>11. ASSUME NEW p \in Requests, Fail(p)
       PROVE  TypeOK'
  BY <1>11 DEF Fail
<1>12. CASE CleanupExpiredTokens
  BY <1>12 DEF CleanupExpiredTokens, Dead
<1>13. ASSUME NEW t \in Requests, Expire(t)
       PROVE  TypeOK'
  BY <1>13 DEF Expire
<1>14. CASE UNCHANGED vars
  BY <1>14 DEF vars
<1>15. ASSUME NEW p \in Requests, LogoutRevoke(p)
       PROVE  TypeOK'
  BY <1>15 DEF LogoutRevoke, RevokeToken
<1> QED
  BY <1>1, <1>2, <1>3, <1>4, <1>5, <1>6, <1>7, <1>8, <1>9, <1>10, <1>11, <1>12, <1>13, <1>14,
     <1>15
  DEF Next, Arrive, Proceed, Quiescent

(* Every reachable state is well formed. *)
THEOREM TypeCorrect == Spec => []TypeOK
  BY TypeInit, TypeStep, PTL DEF Spec

--------------------------------------------------------------------------------
(* An arriving registration only looks the email up. *)
LEMMA RegisterFindKeeps ==
  ASSUME TypeOK, SessionInv,
         NEW p \in Requests, NEW e \in Emails, NEW n \in Usernames, RegisterFind(p, e, n)
  PROVE  SessionInv'
<1> USE DEF SessionInv, TypeOK, Midway, Refreshing, Active, Heirs, Delivered, Locked,
        tables, inputs, Goto, Reply, ReplyOrLose, InsertToken, RegisterFind
<1>1. TablesInv'
  <2>1. CASE Reply(p, "emailTaken")
    BY <2>1 DEF TablesInv
  <2>2. CASE Goto(p, "create")
    BY <2>2 DEF TablesInv
  <2> QED
    BY <2>1, <2>2
<1>2. StageInv'
  BY DEF StageInv
<1>3. LockInv'
  BY DEF LockInv
<1>4. SpentInv'
  BY DEF SpentInv
<1>5. AlarmInv'
  BY DEF AlarmInv
<1>6. CauseInv'
  BY DEF CauseInv
<1>7. SweptInv'
  BY DEF TablesInv, SweptInv
<1> QED
  BY <1>1, <1>2, <1>3, <1>4, <1>5, <1>6, <1>7

(* The user row is of no concern to the sessions. *)
LEMMA RegisterCreateKeeps ==
  ASSUME TypeOK, SessionInv,
         NEW p \in Requests, RegisterCreate(p)
  PROVE  SessionInv'
<1> USE DEF SessionInv, TypeOK, Midway, Refreshing, Active, Heirs, Delivered, Locked,
        tables, inputs, Goto, Reply, ReplyOrLose, InsertToken, RegisterCreate, ViolationAnswer
<1>1. TablesInv'
  BY DEF TablesInv
<1>2. StageInv'
  BY DEF StageInv
<1>3. LockInv'
  BY DEF LockInv
<1>4. SpentInv'
  BY DEF SpentInv
<1>5. AlarmInv'
  BY DEF AlarmInv
<1>6. CauseInv'
  BY DEF CauseInv
<1>7. SweptInv'
  BY DEF TablesInv, SweptInv
<1> QED
  BY <1>1, <1>2, <1>3, <1>4, <1>5, <1>6, <1>7

(* An arriving login only looks the user up. *)
LEMMA LoginFindKeeps ==
  ASSUME TypeOK, SessionInv,
         NEW p \in Requests, NEW e \in Emails, LoginFind(p, e)
  PROVE  SessionInv'
<1> USE DEF SessionInv, TypeOK, Midway, Refreshing, Active, Heirs, Delivered, Locked,
        tables, inputs, Goto, Reply, ReplyOrLose, InsertToken, LoginFind
<1>1. TablesInv'
  <2>1. CASE Reply(p, "invalid") /\ UNCHANGED uid
    BY <2>1 DEF TablesInv
  <2>2. CASE Goto(p, "store")
    BY <2>2 DEF TablesInv
  <2> QED
    BY <2>1, <2>2
<1>2. StageInv'
  BY DEF StageInv
<1>3. LockInv'
  BY DEF LockInv
<1>4. SpentInv'
  BY DEF SpentInv
<1>5. AlarmInv'
  BY DEF AlarmInv
<1>6. CauseInv'
  BY DEF CauseInv
<1>7. SweptInv'
  BY DEF TablesInv, SweptInv
<1> QED
  BY <1>1, <1>2, <1>3, <1>4, <1>5, <1>6, <1>7

(* A first token enters the table active; nothing descends from it yet. *)
LEMMA StoreTokenKeeps ==
  ASSUME TypeOK, SessionInv,
         NEW p \in Requests, StoreToken(p)
  PROVE  SessionInv'
<1> USE DEF SessionInv, TypeOK, Midway, Refreshing, Active, Heirs, Delivered, Locked,
        tables, inputs, Goto, Reply, ReplyOrLose, InsertToken, StoreToken
<1>1. TablesInv'
  BY DEF StageInv, TablesInv
<1>2. StageInv'
  BY DEF TablesInv, StageInv
<1>3. LockInv'
  BY DEF LockInv
<1>4. SpentInv'
  BY DEF TablesInv, StageInv, SpentInv
<1>5. AlarmInv'
  BY DEF TablesInv, StageInv, AlarmInv
<1>6. CauseInv'
  BY DEF TablesInv, CauseInv
<1>7. SweptInv'
  BY DEF TablesInv, SweptInv
<1> QED
  BY <1>1, <1>2, <1>3, <1>4, <1>5, <1>6, <1>7

(* A refresh that starts the alarm has read a revoked row. *)
LEMMA RefreshFindKeeps ==
  ASSUME TypeOK, SessionInv,
         NEW p \in Requests, NEW t \in Delivered, RefreshFind(p, t)
  PROVE  SessionInv'
<1> USE DEF SessionInv, TypeOK, Midway, Refreshing, Active, Heirs, Delivered, Locked,
        tables, inputs, Goto, Reply, ReplyOrLose, InsertToken, RefreshFind
<1>1. TablesInv'
  BY DEF TablesInv
<1>2. StageInv'
  BY DEF StageInv
<1>3. LockInv'
  BY DEF LockInv
<1>4. SpentInv'
  BY DEF TablesInv, SpentInv
<1>5. AlarmInv'
  BY DEF TablesInv, AlarmInv
<1>6. CauseInv'
  BY DEF CauseInv
<1>7. SweptInv'
  BY DEF TablesInv, SweptInv
<1> QED
  BY <1>1, <1>2, <1>3, <1>4, <1>5, <1>6, <1>7

(* The row lock is free, so the rotation becomes its only holder; if it
   loses, the token it presents is dead or has expired. *)
LEMMA RotateConsumeKeeps ==
  ASSUME TypeOK, SessionInv,
         NEW p \in Requests, RotateConsume(p)
  PROVE  SessionInv'
<1> USE DEF SessionInv, TypeOK, Midway, Refreshing, Active, Heirs, Delivered, Locked,
        tables, inputs, Goto, Reply, ReplyOrLose, InsertToken, RotateConsume, Consumable
<1>1. TablesInv'
  BY DEF TablesInv
<1>2. StageInv'
  BY DEF StageInv
<1>3. LockInv'
  BY DEF LockInv
<1>4. SpentInv'
  BY DEF SpentInv
<1>5. AlarmInv'
  BY DEF StageInv, AlarmInv
<1>6. CauseInv'
  BY DEF CauseInv
<1>7. SweptInv'
  BY DEF TablesInv, SweptInv
<1> QED
  BY <1>1, <1>2, <1>3, <1>4, <1>5, <1>6, <1>7

(* The locked token was active, so it had no heir; the rotation spends it. *)
LEMMA RotateCommitKeeps ==
  ASSUME TypeOK, SessionInv,
         NEW p \in Requests, RotateCommit(p)
  PROVE  SessionInv'
<1> USE DEF SessionInv, TypeOK, Midway, Refreshing, Active, Heirs, Delivered, Locked,
        tables, inputs, Goto, Reply, ReplyOrLose, InsertToken, RotateCommit
<1>1. TablesInv'
  BY DEF LockInv, TablesInv
<1>2. StageInv'
  BY DEF TablesInv, StageInv
<1>3. LockInv'
  BY DEF LockInv
<1>4. SpentInv'
  BY DEF TablesInv, SpentInv
<1>5. AlarmInv'
  BY DEF TablesInv, StageInv, LockInv, SpentInv, AlarmInv
<1>6. CauseInv'
  BY DEF TablesInv, CauseInv
<1>7. SweptInv'
  BY DEF TablesInv, SweptInv
<1> QED
  BY <1>1, <1>2, <1>3, <1>4, <1>5, <1>6, <1>7

(* The snapshot of the alarm holds every live heir of the reused token. *)
LEMMA RevokeScanKeeps ==
  ASSUME TypeOK, SessionInv,
         NEW p \in Requests, RevokeScan(p)
  PROVE  SessionInv'
<1> USE DEF SessionInv, TypeOK, Midway, Refreshing, Active, Heirs, Delivered, Locked,
        tables, inputs, Goto, Reply, ReplyOrLose, InsertToken, RevokeScan, ActiveOf
<1>1. TablesInv'
  BY DEF TablesInv
<1>2. StageInv'
  BY DEF StageInv
<1>3. LockInv'
  BY DEF LockInv
<1>4. SpentInv'
  BY DEF SpentInv
<1>5. AlarmInv'
  <2>1. pc[p] = "scan" /\ pc'[p] = "revokeAll" /\ seen'[p] = ActiveOf(uid[p])
    OBVIOUS
  <2>2. \A q \in Requests \ {p} : pc'[q] = pc[q] /\ seen'[q] = seen[q]
    OBVIOUS
  <2>3. \A t \in seen'[p] : t \in issued /\ owner[t] = uid[p]
    BY <2>1 DEF TablesInv
  <2>4. Refreshing(p) /\ tok[p] \in issued /\ uid[p] = owner[tok[p]] /\ op[p] = "refresh"
    BY <2>1 DEF StageInv, TablesInv
  <2>5. ASSUME NEW h \in Heirs(tok[p]) \cap Active
        PROVE  owner[h] = uid[p]
    BY <2>4, <2>5 DEF TablesInv
  <2> QED
    BY <2>1, <2>2, <2>3, <2>4, <2>5 DEF AlarmInv
<1>6. CauseInv'
  BY DEF CauseInv
<1>7. SweptInv'
  BY DEF TablesInv, SweptInv
<1> QED
  BY <1>1, <1>2, <1>3, <1>4, <1>5, <1>6, <1>7

(* No swept row is locked, so no rotation loses its token under way. *)
LEMMA RevokeAllKeeps ==
  ASSUME TypeOK, SessionInv,
         NEW p \in Requests, RevokeAll(p)
  PROVE  SessionInv'
<1> USE DEF SessionInv, TypeOK, Midway, Refreshing, Active, Heirs, Delivered, Locked,
        tables, inputs, Goto, Reply, ReplyOrLose, InsertToken, RevokeAll
<1>1. TablesInv'
  BY DEF TablesInv
<1>2. StageInv'
  BY DEF StageInv
<1>3. LockInv'
  BY DEF LockInv
<1>4. SpentInv'
  BY DEF SpentInv
<1>5. AlarmInv'
  BY DEF AlarmInv
<1>6. CauseInv'
  <2>1. pc'[p] = "done" /\ \A q \in Requests : pc[q] = "done" => pc'[q] = "done"
    OBVIOUS
  <2>2. ASSUME NEW t \in issued, t \in Active, t \notin Active'
        PROVE  t \in seen[p] /\ uid[p] = owner[t]
    BY <2>2 DEF AlarmInv
  <2> QED
    BY <2>1, <2>2 DEF CauseInv
<1>7. SweptInv'
  BY DEF TablesInv, SweptInv
<1> QED
  BY <1>1, <1>2, <1>3, <1>4, <1>5, <1>6, <1>7

(* A logout that finds the row locked changes nothing but its own stage. *)
LEMMA LogoutWaitsKeeps ==
  ASSUME TypeOK, SessionInv,
         NEW p \in Requests, NEW t \in Delivered, LogoutFind(p, t), Goto(p, "revoke")
  PROVE  SessionInv'
<1> USE DEF SessionInv, TypeOK, Midway, Refreshing, Active, Heirs, Delivered, Locked,
        tables, inputs, Goto, Reply, ReplyOrLose, LogoutFind, RevokeToken
<1>1. TablesInv'
  BY DEF TablesInv
<1>2. StageInv'
  BY DEF StageInv
<1>3. LockInv'
  BY DEF LockInv
<1>4. SpentInv'
  BY DEF TablesInv, SpentInv
<1>5. AlarmInv'
  BY DEF AlarmInv
<1>6. CauseInv'
  BY DEF CauseInv
<1>7. SweptInv'
  BY DEF TablesInv, SweptInv
<1> QED
  BY <1>1, <1>2, <1>3, <1>4, <1>5, <1>6, <1>7

(* A logout revokes a row that no rotation holds. *)
LEMMA LogoutRevokesKeeps ==
  ASSUME TypeOK, SessionInv,
         NEW p \in Requests, NEW t \in issued, RevokeToken(p, t),
         \/ /\ pc[p] = "idle"
            /\ op' = [op EXCEPT ![p] = "logout"]
            /\ tok' = [tok EXCEPT ![p] = t]
         \/ pc[p] = "revoke" /\ t = tok[p] /\ UNCHANGED <<op, tok>>
  PROVE  SessionInv'
<1> USE DEF SessionInv, TypeOK, Midway, Refreshing, Active, Heirs, Locked,
        tables, inputs, Goto, Reply, ReplyOrLose, RevokeToken
<1>0. /\ op'[p] = "logout" /\ tok'[p] = t
      /\ \A q \in Requests \ {p} : op'[q] = op[q] /\ tok'[q] = tok[q]
      /\ pc[p] \in {"idle", "revoke"} /\ p \notin issued
  BY DEF StageInv, TablesInv
<1>1. TablesInv'
  BY <1>0 DEF TablesInv
<1>2. StageInv'
  BY <1>0 DEF StageInv
<1>3. LockInv'
  BY <1>0 DEF LockInv
<1>4. SpentInv'
  BY <1>0 DEF SpentInv
<1>5. AlarmInv'
  BY <1>0 DEF AlarmInv
<1>6. CauseInv'
  BY <1>0 DEF CauseInv
<1>7. SweptInv'
  BY <1>0 DEF TablesInv, SweptInv
<1> QED
  BY <1>1, <1>2, <1>3, <1>4, <1>5, <1>6, <1>7

LEMMA LogoutKeeps ==
  ASSUME TypeOK, SessionInv, NEW p \in Requests,
         LogoutRevoke(p) \/ \E t \in Delivered : LogoutFind(p, t)
  PROVE  SessionInv'
<1>1. CASE LogoutRevoke(p)
  <2>1. pc[p] = "revoke" /\ tok[p] \in issued
    BY <1>1 DEF LogoutRevoke, SessionInv, StageInv, TablesInv
  <2> QED
    BY <1>1, <2>1, LogoutRevokesKeeps DEF LogoutRevoke
<1>2. ASSUME NEW t \in Delivered, LogoutFind(p, t)
      PROVE  SessionInv'
  BY <1>2, LogoutWaitsKeeps, LogoutRevokesKeeps DEF LogoutFind, Delivered
<1> QED
  BY <1>1, <1>2

(* A failed request releases its row lock and changes no row. *)
LEMMA FailKeeps ==
  ASSUME TypeOK, SessionInv,
         NEW p \in Requests, Fail(p)
  PROVE  SessionInv'
<1> USE DEF SessionInv, TypeOK, Midway, Refreshing, Active, Heirs, Delivered, Locked,
        tables, inputs, Goto, Reply, ReplyOrLose, InsertToken, Fail
<1>1. TablesInv'
  BY DEF TablesInv
<1>2. StageInv'
  BY DEF StageInv
<1>3. LockInv'
  BY DEF LockInv
<1>4. SpentInv'
  BY DEF SpentInv
<1>5. AlarmInv'
  BY DEF AlarmInv
<1>6. CauseInv'
  BY DEF CauseInv
<1>7. SweptInv'
  BY DEF TablesInv, SweptInv
<1> QED
  BY <1>1, <1>2, <1>3, <1>4, <1>5, <1>6, <1>7

(* The cleanup removes dead rows only, and waits for the locked ones. *)
LEMMA CleanupKeeps ==
  ASSUME TypeOK, SessionInv,
         CleanupExpiredTokens
  PROVE  SessionInv'
<1> USE DEF SessionInv, TypeOK, Midway, Refreshing, Active, Heirs, Delivered, Locked,
        tables, inputs, Goto, Reply, ReplyOrLose, InsertToken, CleanupExpiredTokens, Dead
<1>1. TablesInv'
  BY DEF TablesInv
<1>2. StageInv'
  BY DEF StageInv
<1>3. LockInv'
  BY DEF LockInv
<1>4. SpentInv'
  BY DEF SpentInv
<1>5. AlarmInv'
  BY DEF AlarmInv
<1>6. CauseInv'
  BY DEF CauseInv
<1>7. SweptInv'
  BY DEF TablesInv, SweptInv
<1> QED
  BY <1>1, <1>2, <1>3, <1>4, <1>5, <1>6, <1>7

(* Expiry changes no row. *)
LEMMA ExpireKeeps ==
  ASSUME TypeOK, SessionInv,
         NEW t \in Requests, Expire(t)
  PROVE  SessionInv'
<1> USE DEF SessionInv, TypeOK, Midway, Refreshing, Active, Heirs, Delivered, Locked,
        tables, inputs, Goto, Reply, ReplyOrLose, InsertToken, Expire
<1>1. TablesInv'
  BY DEF TablesInv
<1>2. StageInv'
  BY DEF StageInv
<1>3. LockInv'
  BY DEF LockInv
<1>4. SpentInv'
  BY DEF SpentInv
<1>5. AlarmInv'
  BY DEF AlarmInv
<1>6. CauseInv'
  BY DEF CauseInv
<1>7. SweptInv'
  BY DEF TablesInv, SweptInv
<1> QED
  BY <1>1, <1>2, <1>3, <1>4, <1>5, <1>6, <1>7

(* A step that changes nothing. *)
LEMMA StutterKeeps == SessionInv /\ UNCHANGED vars => SessionInv'
  BY DEF vars, SessionInv, TablesInv, StageInv, LockInv, SpentInv, AlarmInv, SweptInv,
         CauseInv, Refreshing, Active, Heirs

LEMMA SessionInit == Init => SessionInv
  BY DEF Init, SessionInv, TablesInv, StageInv, LockInv, SpentInv, AlarmInv, SweptInv,
         CauseInv, Refreshing, Active, Heirs

LEMMA SessionStep == TypeOK /\ SessionInv /\ [Next]_vars => SessionInv'
<1> SUFFICES ASSUME TypeOK, SessionInv, [Next]_vars
             PROVE  SessionInv'
  OBVIOUS
<1>1. ASSUME NEW p \in Requests, NEW e \in Emails, NEW n \in Usernames, RegisterFind(p, e, n)
     PROVE  SessionInv'
  BY <1>1, RegisterFindKeeps
<1>2. ASSUME NEW p \in Requests, RegisterCreate(p)
     PROVE  SessionInv'
  BY <1>2, RegisterCreateKeeps
<1>3. ASSUME NEW p \in Requests, NEW e \in Emails, LoginFind(p, e)
     PROVE  SessionInv'
  BY <1>3, LoginFindKeeps
<1>4. ASSUME NEW p \in Requests, StoreToken(p)
     PROVE  SessionInv'
  BY <1>4, StoreTokenKeeps
<1>5. ASSUME NEW p \in Requests, NEW t \in Delivered, RefreshFind(p, t)
     PROVE  SessionInv'
  BY <1>5, RefreshFindKeeps
<1>6. ASSUME NEW p \in Requests, RotateConsume(p)
     PROVE  SessionInv'
  BY <1>6, RotateConsumeKeeps
<1>7. ASSUME NEW p \in Requests, RotateCommit(p)
     PROVE  SessionInv'
  BY <1>7, RotateCommitKeeps
<1>8. ASSUME NEW p \in Requests, RevokeScan(p)
     PROVE  SessionInv'
  BY <1>8, RevokeScanKeeps
<1>9. ASSUME NEW p \in Requests, RevokeAll(p)
     PROVE  SessionInv'
  BY <1>9, RevokeAllKeeps
<1>10. ASSUME NEW p \in Requests, LogoutRevoke(p) \/ \E t \in Delivered : LogoutFind(p, t)
      PROVE  SessionInv'
  BY <1>10, LogoutKeeps
<1>11. ASSUME NEW p \in Requests, Fail(p)
      PROVE  SessionInv'
  BY <1>11, FailKeeps
<1>12. CASE CleanupExpiredTokens
  BY <1>12, CleanupKeeps
<1>13. ASSUME NEW t \in Requests, Expire(t)
      PROVE  SessionInv'
  BY <1>13, ExpireKeeps
<1>14. CASE UNCHANGED vars
  BY <1>14, StutterKeeps
<1> QED
  BY <1>1, <1>2, <1>3, <1>4, <1>5, <1>6, <1>7, <1>8, <1>9, <1>10, <1>11, <1>12, <1>13, <1>14
  DEF Next, Arrive, Proceed, Quiescent

(* The inductive invariant of the refresh tokens: who holds a row lock, which
   tokens are spent, and what an alarm has in its snapshot. *)
THEOREM SessionsSound == Spec => []SessionInv
  BY TypeInit, TypeStep, SessionInit, SessionStep, PTL DEF Spec

--------------------------------------------------------------------------------
(* Only a rotation gives a token an heir. *)
LEMMA HeirsGrow ==
  ASSUME TypeOK, SessionInv, [Next]_vars
  PROVE  /\ issued \subseteq issued'
         /\ \A t \in issued : op'[t] = op[t] /\ tok'[t] = tok[t]
         /\ \A t \in issued' \ issued :
               op'[t] = "refresh" => pc[t] = "commit" /\ tok'[t] = tok[t]
         /\ \A t, u \in issued' \ issued : t = u
<1> USE DEF SessionInv, TypeOK, TablesInv, StageInv, tables, inputs
<1>1. CASE UNCHANGED <<issued, op, tok>>
  BY <1>1
<1>2. ASSUME NEW p \in Requests, pc[p] = "idle", UNCHANGED issued,
             \A q \in Requests \ {p} : op'[q] = op[q] /\ tok'[q] = tok[q]
      PROVE  \A t \in issued : op'[t] = op[t] /\ tok'[t] = tok[t]
  BY <1>2
<1>3. ASSUME NEW p \in Requests, Arrive(p)
      PROVE  /\ pc[p] = "idle"
             /\ UNCHANGED issued
             /\ \A q \in Requests \ {p} : op'[q] = op[q] /\ tok'[q] = tok[q]
  BY <1>3 DEF Arrive, RegisterFind, LoginFind, RefreshFind, LogoutFind, RevokeToken
<1>4. ASSUME NEW p \in Requests, StoreToken(p) \/ RotateCommit(p)
      PROVE  /\ issued' = issued \cup {p}
             /\ UNCHANGED <<op, tok>>
             /\ pc[p] = "commit" \/ op[p] \in {"register", "login"}
  BY <1>4 DEF StoreToken, RotateCommit, InsertToken
<1>5. [Next]_vars =>
        \/ UNCHANGED <<issued, op, tok>>
        \/ \E p \in Requests : Arrive(p) \/ StoreToken(p) \/ RotateCommit(p)
  BY DEF Next, Proceed, RegisterCreate, RotateConsume, RevokeScan, RevokeAll, LogoutRevoke,
         RevokeToken, Fail, CleanupExpiredTokens, Expire, Quiescent, vars
<1> QED
  BY <1>1, <1>2, <1>3, <1>4, <1>5

LEMMA SingleUseStep ==
  ASSUME TypeOK, SessionInv, SingleUse, [Next]_vars
  PROVE  SingleUse'
<1> SUFFICES ASSUME NEW t \in issued', NEW u \in issued',
                    op'[t] = "refresh", op'[u] = "refresh", tok'[t] = tok'[u]
             PROVE  t = u
  BY DEF SingleUse, Heirs
<1>1. CASE t \in issued /\ u \in issued
  <2>1. tok[t] \in issued
    BY <1>1, HeirsGrow DEF SessionInv, TablesInv, TypeOK
  <2> QED
    BY <1>1, <2>1, HeirsGrow DEF SingleUse, Heirs
<1>2. ASSUME NEW x \in issued, NEW y \in issued' \ issued,
             op'[x] = "refresh", op'[y] = "refresh", tok'[x] = tok'[y]
      PROVE  FALSE
  <2>1. y \in Requests /\ pc[y] = "commit" /\ tok'[y] = tok[y]
    BY <1>2, HeirsGrow, TypeStep DEF TypeOK
  <2>2. tok[y] \in Active
    BY <2>1 DEF SessionInv, LockInv
  <2>3. tok[x] \notin Active
    BY <1>2, HeirsGrow DEF SessionInv, SpentInv
  <2> QED
    BY <1>2, <2>1, <2>2, <2>3, HeirsGrow
<1> QED
  BY <1>1, <1>2, HeirsGrow

(* A refresh token is exchanged at most once (RotateRefreshToken). *)
THEOREM RefreshTokensAreSingleUse == Spec => []SingleUse
<1>1. Init => SingleUse
  BY DEF Init, SingleUse, Heirs
<1>2. TypeOK /\ SessionInv /\ SingleUse /\ [Next]_vars => SingleUse'
  BY SingleUseStep
<1> QED
  BY <1>1, <1>2, TypeCorrect, SessionsSound, PTL DEF Spec

(* After Logout has answered its token is dead, also for a refresh that read
   it as active before (RevokeToken waits for the rotation's row lock). *)
THEOREM LogoutIsFinal == Spec => []LogoutEndsToken
<1>1. SessionInv => LogoutEndsToken
  BY DEF SessionInv, SpentInv, LockInv, LogoutEndsToken
<1> QED
  BY <1>1, SessionsSound, PTL

(* The answered alarm has closed the session that replaced the reused token. *)
THEOREM ReuseIsContained == Spec => []ReuseClosesHeir
<1>1. TypeOK /\ SessionInv => ReuseClosesHeir
  BY DEF TypeOK, SessionInv, AlarmInv, SweptInv, ReuseClosesHeir
<1> QED
  BY <1>1, TypeCorrect, SessionsSound, PTL

(* A step revokes tokens of one user only, the one whose token it presents. *)
THEOREM AlarmsStayWithTheUser == Spec => UserIsolation
<1> DEFINE Owned == \A t \in revoked' \ revoked :
                      \E p \in Requests :
                         pc[p] # "done" /\ pc'[p] = "done" /\ owner[tok'[p]] = owner[t]
<1>1. ASSUME TypeOK, SessionInv, Next
      PROVE  Owned \/ UNCHANGED vars
  <2> USE <1>1 DEF TypeOK, Reply, ReplyOrLose, inputs
  <2>1. ASSUME NEW p \in Requests, RotateCommit(p)
        PROVE  Owned
    BY <2>1 DEF RotateCommit
  <2>2. ASSUME NEW p \in Requests, RevokeAll(p)
        PROVE  Owned
    <3>1. pc[p] = "revokeAll" /\ pc'[p] = "done" /\ tok' = tok
      BY <2>2 DEF RevokeAll
    <3>2. uid[p] = owner[tok[p]]
      BY <3>1 DEF SessionInv, StageInv, Refreshing
    <3>3. \A t \in seen[p] : owner[t] = uid[p]
      BY <3>1 DEF SessionInv, AlarmInv
    <3>4. revoked' \ revoked \subseteq seen[p]
      BY <2>2 DEF RevokeAll
    <3> QED
      BY <3>1, <3>2, <3>3, <3>4
  <2>3. ASSUME NEW p \in Requests, NEW t \in Delivered, LogoutFind(p, t), RevokeToken(p, t)
        PROVE  Owned
    BY <2>3 DEF LogoutFind, RevokeToken, Delivered
  <2>5. ASSUME NEW p \in Requests, LogoutRevoke(p)
        PROVE  Owned
    BY <2>5 DEF LogoutRevoke, RevokeToken
  <2>4. CASE revoked' \subseteq revoked
    BY <2>4
  <2> QED
    BY <2>1, <2>2, <2>3, <2>4, <2>5
    DEF Next, Arrive, Proceed, RegisterFind, RegisterCreate, LoginFind, StoreToken, RefreshFind,
        RotateConsume, RevokeScan, LogoutFind, Fail, CleanupExpiredTokens, Expire, Quiescent,
        tables
<1>2. TypeOK /\ SessionInv /\ [Next]_vars => [Owned]_vars
  BY <1>1
<1> QED
  BY <1>2, TypeCorrect, SessionsSound, PTL DEF Spec, UserIsolation

--------------------------------------------------------------------------------
(* What a step never touches: what a request was sent, once it runs, and
   everything about a request that is over. *)
LEMMA Frames ==
  ASSUME TypeOK, [Next]_vars
  PROVE  /\ expired \subseteq expired'
         /\ users \subseteq users'
         /\ \A p \in Requests :
              /\ pc[p] # "idle" => tok'[p] = tok[p] /\ form'[p] = form[p]
              /\ pc[p] = "done" => pc'[p] = "done" /\ seen'[p] = seen[p]
                                   /\ uid'[p] = uid[p] /\ answer'[p] = answer[p]
              /\ Refreshing(p) => uid'[p] = uid[p]
<1> USE DEF TypeOK, Refreshing, Goto, Reply, ReplyOrLose, tables, inputs
<1>1. ASSUME NEW q \in Requests, Arrive(q)
      PROVE  /\ UNCHANGED <<expired, users>>
             /\ pc[q] = "idle"
             /\ \A p \in Requests \ {q} :
                  /\ pc'[p] = pc[p] /\ tok'[p] = tok[p] /\ form'[p] = form[p]
                  /\ seen'[p] = seen[p] /\ uid'[p] = uid[p] /\ answer'[p] = answer[p]
  BY <1>1 DEF Arrive, RegisterFind, LoginFind, RefreshFind, LogoutFind, RevokeToken
<1>2. ASSUME NEW q \in Requests, RegisterCreate(q)
      PROVE  /\ UNCHANGED <<expired, inputs, seen>> /\ users \subseteq users'
             /\ pc[q] = "create"
             /\ \A p \in Requests \ {q} :
                  pc'[p] = pc[p] /\ uid'[p] = uid[p] /\ answer'[p] = answer[p]
  BY <1>2 DEF RegisterCreate
<1>3. ASSUME NEW q \in Requests,
             StoreToken(q) \/ RotateConsume(q) \/ RotateCommit(q) \/ RevokeScan(q)
               \/ RevokeAll(q) \/ LogoutRevoke(q) \/ Fail(q)
      PROVE  /\ UNCHANGED <<expired, users, inputs, uid>>
             /\ pc[q] \notin {"idle", "done"}
             /\ \A p \in Requests \ {q} :
                  pc'[p] = pc[p] /\ seen'[p] = seen[p] /\ answer'[p] = answer[p]
  BY <1>3 DEF StoreToken, RotateConsume, RotateCommit, RevokeScan, RevokeAll, LogoutRevoke,
              RevokeToken, Fail, Midway
<1>4. ASSUME CleanupExpiredTokens \/ (\E t \in Requests : Expire(t)) \/ UNCHANGED vars
      PROVE  expired \subseteq expired' /\ UNCHANGED <<users, pc, inputs, seen, uid, answer>>
  BY <1>4 DEF CleanupExpiredTokens, Expire, vars
<1>5. \/ \E q \in Requests : Arrive(q)
      \/ \E q \in Requests : RegisterCreate(q)
      \/ \E q \in Requests :
           StoreToken(q) \/ RotateConsume(q) \/ RotateCommit(q) \/ RevokeScan(q)
             \/ RevokeAll(q) \/ LogoutRevoke(q) \/ Fail(q)
      \/ CleanupExpiredTokens \/ (\E t \in Requests : Expire(t)) \/ UNCHANGED vars
  BY DEF Next, Proceed, Quiescent
<1>6. CASE \E q \in Requests : Arrive(q)
  BY <1>1, <1>6
<1>7. CASE \E q \in Requests : RegisterCreate(q)
  BY <1>2, <1>7
<1>8. CASE \E q \in Requests :
             StoreToken(q) \/ RotateConsume(q) \/ RotateCommit(q) \/ RevokeScan(q)
               \/ RevokeAll(q) \/ LogoutRevoke(q) \/ Fail(q)
  BY <1>3, <1>8
<1>9. CASE CleanupExpiredTokens \/ (\E t \in Requests : Expire(t)) \/ UNCHANGED vars
  BY <1>4, <1>9
<1> QED
  BY <1>5, <1>6, <1>7, <1>8, <1>9

(* The alarm starts in two places only. *)
LEMMA AlarmStarts ==
  ASSUME TypeOK, SessionInv, [Next]_vars, NEW p \in Requests,
         pc'[p] \in {"scan", "revokeAll"} \/ answer'[p] = "revoked",
         pc[p] \notin {"scan", "revokeAll"}, answer[p] # "revoked"
  PROVE  /\ tok'[p] \in issued
         /\ tok'[p] \in Active => tok'[p] \in expired
         /\ uid'[p] = owner[tok'[p]]
         /\ pc[p] # "done"
<1> USE DEF TypeOK, Goto, Reply, ReplyOrLose, tables, inputs
<1>1. ASSUME NEW t \in Delivered, RefreshFind(p, t)
      PROVE  t \in issued /\ t \notin Active /\ tok'[p] = t /\ uid'[p] = owner[t] /\ pc[p] = "idle"
  BY <1>1 DEF RefreshFind, Delivered, Active
<1>2. ASSUME RotateConsume(p)
      PROVE  /\ pc[p] = "consume"
             /\ tok'[p] = tok[p] /\ uid'[p] = uid[p]
             /\ ~Consumable(p) \/ tok[p] \in expired
  BY <1>2 DEF RotateConsume
<1>3. CASE RotateConsume(p)
  <2>1. /\ tok[p] \in issued
        /\ uid[p] = owner[tok[p]]
    BY <1>2, <1>3 DEF SessionInv, TablesInv, StageInv, Refreshing
  <2> QED
    BY <1>2, <1>3, <2>1 DEF Consumable
<1>4. ASSUME NEW q \in Requests, RegisterCreate(q)
      PROVE  FALSE
  BY <1>4 DEF RegisterCreate, ViolationAnswer
<1>5. ASSUME NEW q \in Requests, Arrive(q)
      PROVE  \E t \in Delivered : q = p /\ RefreshFind(p, t)
  BY <1>5 DEF Arrive, RegisterFind, LoginFind, RefreshFind, LogoutFind, RevokeToken
<1>6. ASSUME NEW q \in Requests,
             StoreToken(q) \/ RotateConsume(q) \/ RotateCommit(q) \/ RevokeScan(q)
               \/ RevokeAll(q) \/ LogoutRevoke(q) \/ Fail(q)
      PROVE  q = p /\ RotateConsume(p)
  BY <1>6 DEF StoreToken, RotateConsume, RotateCommit, RevokeScan, RevokeAll, LogoutRevoke,
              RevokeToken, Fail
<1>7. CASE UNCHANGED <<pc, answer>>
  BY <1>7
<1> QED
  BY <1>1, <1>3, <1>2, <1>4, <1>5, <1>6, <1>7
  DEF Next, Proceed, CleanupExpiredTokens, Expire, Quiescent, vars

(* No client that used its token once is answered with the reuse alarm. *)
THEOREM AlarmsAreJustified == Spec => []AlarmHasCause
<1>1. Init => AlarmHasCause
  BY DEF Init, AlarmHasCause
<1>2. TypeOK /\ SessionInv /\ AlarmHasCause /\ [Next]_vars => AlarmHasCause'
  <2> SUFFICES ASSUME TypeOK, SessionInv, AlarmHasCause, [Next]_vars, NEW p \in Requests,
                      pc'[p] \in {"scan", "revokeAll"} \/ answer'[p] = "revoked"
               PROVE  \/ tok'[p] \in expired'
                      \/ \E q \in Requests \ {p} :
                           /\ pc'[q] = "done"
                           /\ tok'[q] = tok'[p] \/ (tok'[p] \in seen'[q] /\ uid'[q] = uid'[p])
    BY DEF AlarmHasCause
  <2>1. CASE pc[p] \in {"scan", "revokeAll"} \/ answer[p] = "revoked"
    <3>1. pc[p] \in {"scan", "revokeAll", "done"}
      BY <2>1 DEF SessionInv, TablesInv
    <3>2. tok'[p] = tok[p] /\ uid'[p] = uid[p]
      BY <3>1, Frames DEF Refreshing
    <3> QED
      BY <2>1, <3>2, Frames DEF AlarmHasCause
  <2>2. CASE pc[p] \notin {"scan", "revokeAll"} /\ answer[p] # "revoked"
    <3>1. /\ tok'[p] \in issued
          /\ tok'[p] \in Active => tok'[p] \in expired
          /\ uid'[p] = owner[tok'[p]]
          /\ pc[p] # "done"
      BY <2>2, AlarmStarts
    <3>2. \/ tok'[p] \in expired
          \/ \E q \in Requests :
               /\ pc[q] = "done"
               /\ tok[q] = tok'[p] \/ (tok'[p] \in seen[q] /\ uid[q] = owner[tok'[p]])
      BY <3>1 DEF SessionInv, CauseInv
    <3> QED
      BY <3>1, <3>2, Frames
  <2> QED
    BY <2>1, <2>2
<1> QED
  BY <1>1, <1>2, TypeCorrect, SessionsSound, PTL DEF Spec

--------------------------------------------------------------------------------
(* Registrations agree: accounts are created once, before their sessions. *)
LEMMA AccountStep ==
  ASSUME TypeOK, SessionInv, AccountInv, [Next]_vars
  PROVE  AccountInv'
<1> USE DEF TypeOK, Goto, Reply, ReplyOrLose, tables, inputs, Users
<1>1. ASSUME NEW p \in Requests, RegisterCreate(p)
      PROVE  AccountInv'
  <2>1. pc[p] = "create" /\ p \notin issued
    BY <1>1 DEF RegisterCreate, SessionInv, TablesInv
  <2>2. ASSUME Clashes(form[p]) = {}, Goto(p, "store"), uid' = [uid EXCEPT ![p] = p],
               users' = users \cup {[id |-> p, email |-> form[p].email, name |-> form[p].name]}
        PROVE  AccountInv'
    <3>1. \A u \in users : u.email # form[p].email /\ u.name # form[p].name
      BY <2>2 DEF Clashes
    <3>2. issued' = issued /\ owner' = owner /\ form' = form
      BY <1>1 DEF RegisterCreate
    <3> DEFINE row == [id |-> p, email |-> form[p].email, name |-> form[p].name]
    <3>3. users' = users \cup {row}
      BY <2>2
    <3>r. row.id = p /\ row.email = form[p].email /\ row.name = form[p].name
      OBVIOUS
    <3> HIDE DEF row
    <3>4. \A u, v \in users' : u.email = v.email \/ u.name = v.name => u = v
      BY <3>1, <3>3, <3>r DEF AccountInv, RegistrationsAgree
    <3>5. \A t \in issued' : \E u \in users' : u.id = owner'[t]
      BY <3>2, <3>3 DEF AccountInv, RegistrationsAgree
    <3>6. \A q \in Requests : RefusedFairly(q)'
      BY <2>2, <3>2, <3>3 DEF AccountInv, RegistrationsAgree, RefusedFairly
    <3>7. \A u \in users' : pc'[u.id] \notin {"idle", "create"}
      BY <2>2, <3>3, <3>r DEF AccountInv
    <3>8. \E u \in users' : u.id = uid'[p]
      BY <2>2, <3>3, <3>r
    <3>9. \A q \in Requests : pc'[q] = "store" => \E u \in users' : u.id = uid'[q]
      BY <2>2, <3>3, <3>8 DEF AccountInv
    <3> QED
      BY <3>4, <3>5, <3>6, <3>7, <3>9 DEF AccountInv, RegistrationsAgree
  <2>3. ASSUME NEW c \in Clashes(form[p]), Reply(p, ViolationAnswer(c, form[p])),
               UNCHANGED <<users, uid>>
        PROVE  AccountInv'
    <3>1. \A u \in users : u.id # p
      BY <2>1 DEF AccountInv
    <3>2. issued' = issued /\ owner' = owner /\ form' = form
      BY <1>1 DEF RegisterCreate
    <3>3. RefusedFairly(p)'
      BY <2>3, <3>1, <3>2 DEF ViolationAnswer, Clashes, RefusedFairly
    <3>4. ASSUME NEW q \in Requests \ {p}
          PROVE  RefusedFairly(q)'
      BY <2>3, <3>2 DEF AccountInv, RegistrationsAgree, RefusedFairly
    <3> QED
      BY <2>1, <2>3, <3>2, <3>3, <3>4 DEF AccountInv, RegistrationsAgree
  <2> QED
    BY <1>1, <2>2, <2>3 DEF RegisterCreate
<1>2. ASSUME NEW p \in Requests, StoreToken(p)
      PROVE  AccountInv'
  BY <1>2 DEF StoreToken, InsertToken, AccountInv, RegistrationsAgree, RefusedFairly
<1>3. ASSUME NEW p \in Requests, RotateCommit(p)
      PROVE  AccountInv'
  <2>1. pc[p] = "commit" /\ tok[p] \in issued
    BY <1>3 DEF RotateCommit, SessionInv, LockInv, TablesInv, Active
  <2> QED
    BY <1>3, <2>1 DEF RotateCommit, InsertToken, AccountInv, RegistrationsAgree, RefusedFairly
<1>4. ASSUME NEW p \in Requests, Arrive(p)
      PROVE  AccountInv'
  <2>1. ASSUME pc[p] = "idle", pc'[p] # "idle", RefusedFairly(p)',
               UNCHANGED <<users, issued, owner>>,
               pc'[p] = "store" => \E u \in users : u.id = uid'[p],
               \A q \in Requests \ {p} :
                  /\ pc'[q] = pc[q] /\ uid'[q] = uid[q]
                  /\ form'[q] = form[q] /\ answer'[q] = answer[q]
        PROVE  AccountInv'
    <3>1. \A u \in users : u.id \in Requests \ {p}
      BY <2>1 DEF AccountInv
    <3>2. \A q \in Requests \ {p} : RefusedFairly(q)'
      BY <2>1 DEF AccountInv, RegistrationsAgree, RefusedFairly
    <3>3. RegistrationsAgree'
      BY <2>1, <3>2 DEF AccountInv, RegistrationsAgree
    <3> QED
      BY <2>1, <3>1, <3>3 DEF AccountInv
  <2>2. answer[p] = "none"
    BY <1>4 DEF Arrive, RegisterFind, LoginFind, RefreshFind, LogoutFind, SessionInv, TablesInv
  <2>3. ASSUME NEW e \in Emails, NEW n \in Usernames, RegisterFind(p, e, n)
        PROVE  AccountInv'
    <3>1. \A u \in users : u.id # p
      BY <2>3 DEF RegisterFind, AccountInv
    <3>2. RefusedFairly(p)'
      BY <2>2, <2>3, <3>1 DEF RegisterFind, RefusedFairly
    <3> QED
      BY <2>1, <2>3, <3>2 DEF RegisterFind
  <2>4. ASSUME NEW e \in Emails, LoginFind(p, e)
        PROVE  AccountInv'
    <3>1. CASE Reply(p, "invalid")
      BY <2>1, <2>4, <3>1 DEF LoginFind, RefusedFairly
    <3>2. CASE Goto(p, "store")
      BY <2>1, <2>2, <2>4, <3>2 DEF LoginFind, RefusedFairly
    <3> QED
      BY <2>4, <3>1, <3>2 DEF LoginFind
  <2>5. ASSUME NEW t \in Delivered, RefreshFind(p, t)
        PROVE  AccountInv'
    BY <2>1, <2>2, <2>5 DEF RefreshFind, RefusedFairly
  <2>6. ASSUME NEW t \in Delivered, LogoutFind(p, t)
        PROVE  AccountInv'
    BY <2>1, <2>2, <2>6 DEF LogoutFind, RevokeToken, RefusedFairly
  <2> QED
    BY <1>4, <2>3, <2>4, <2>5, <2>6 DEF Arrive
<1>5. ASSUME NEW p \in Requests,
             RotateConsume(p) \/ RevokeScan(p) \/ RevokeAll(p) \/ LogoutRevoke(p) \/ Fail(p)
      PROVE  AccountInv'
  <2>1. /\ UNCHANGED <<users, issued, owner, form, uid>>
        /\ pc[p] # "idle" /\ pc'[p] \notin {"idle", "create", "store"}
        /\ answer'[p] \notin {"nameTaken", "emailTaken"}
        /\ \A q \in Requests \ {p} : pc'[q] = pc[q] /\ answer'[q] = answer[q]
    BY <1>5 DEF RotateConsume, RevokeScan, RevokeAll, LogoutRevoke, RevokeToken, Fail, Midway,
                SessionInv, TablesInv
  <2> QED
    BY <2>1 DEF AccountInv, RegistrationsAgree, RefusedFairly
<1>6. CASE UNCHANGED <<users, issued, owner, form, uid, pc, answer>>
  BY <1>6 DEF AccountInv, RegistrationsAgree, RefusedFairly
<1> QED
  BY <1>1, <1>2, <1>3, <1>4, <1>5, <1>6
  DEF Next, Proceed, CleanupExpiredTokens, Expire, Quiescent, vars

(* No two accounts share an email or a username, every session belongs to an
   account, and a registration is refused only for what another account has. *)
THEOREM AccountsAreUnique == Spec => []RegistrationsAgree
<1>1. Init => AccountInv
  BY DEF Init, AccountInv, RegistrationsAgree, RefusedFairly
<1>2. TypeOK /\ SessionInv /\ AccountInv /\ [Next]_vars => AccountInv'
  BY AccountStep
<1>3. AccountInv => RegistrationsAgree
  BY DEF AccountInv
<1> QED
  BY <1>1, <1>2, <1>3, TypeCorrect, SessionsSound, PTL DEF Spec

--------------------------------------------------------------------------------
(* A step that issues nothing and opens nothing is a Close or a stutter. *)
LEMMA CloseOrStutter ==
  ASSUME TypeOK, SessionInv, [Next]_vars, issued' = issued, Active' \subseteq Active
  PROVE  [Ledger!Next]_(Ledger!vars)
<1>1. Exchanged' = Exchanged
  BY HeirsGrow DEF Exchanged
<1>2. Active' = Active \ (Active \ Active')
  OBVIOUS
<1>3. CASE Active \ Active' # {}
  BY <1>1, <1>2, <1>3 DEF Ledger!Next, Ledger!Close
<1>4. CASE Active \ Active' = {}
  BY <1>1, <1>2, <1>4 DEF Ledger!vars
<1> QED
  BY <1>3, <1>4

(* Storing a first token issues it, ... *)
LEMMA StoreIssues ==
  ASSUME TypeOK, SessionInv, NEW p \in Requests, StoreToken(p)
  PROVE  Ledger!Issue(p)
<1>1. p \notin issued /\ p \notin revoked /\ op[p] # "refresh"
  BY DEF StoreToken, SessionInv, TablesInv, StageInv
<1>2. Active' = Active \cup {p} /\ issued' = issued \cup {p}
  BY <1>1 DEF StoreToken, InsertToken, Active
<1>3. Exchanged' = Exchanged
  BY <1>1 DEF StoreToken, InsertToken, inputs, Exchanged
<1> QED
  BY <1>1, <1>2, <1>3 DEF Ledger!Issue

(* ... the commit of a rotation exchanges its token, ... *)
LEMMA CommitExchanges ==
  ASSUME TypeOK, SessionInv, NEW p \in Requests, RotateCommit(p)
  PROVE  tok[p] \in Requests /\ Ledger!Exchange(tok[p], p)
<1>1. p \notin issued /\ p \notin revoked /\ op[p] = "refresh" /\ tok[p] \in Active
  BY DEF RotateCommit, SessionInv, TablesInv, StageInv, LockInv, Refreshing
<1>2. tok[p] \in Requests /\ tok[p] # p
  BY <1>1 DEF TypeOK, Active, SessionInv, TablesInv
<1>3. Active' = (Active \ {tok[p]}) \cup {p} /\ issued' = issued \cup {p}
  BY <1>1, <1>2 DEF RotateCommit, InsertToken, Active
<1>4. Exchanged' = Exchanged \cup {<<tok[p], p>>}
  BY <1>1 DEF RotateCommit, InsertToken, inputs, Exchanged
<1> QED
  BY <1>1, <1>2, <1>3, <1>4 DEF Ledger!Exchange

(* ... and logout, alarm and cleanup close. *)
THEOREM ImplementsLedger == Spec => LedgerSpec
<1>1. Init => Ledger!Init
  BY DEF Init, Ledger!Init, Active, Exchanged
<1>2. TypeOK /\ SessionInv /\ [Next]_vars => [Ledger!Next]_(Ledger!vars)
  <2> SUFFICES ASSUME TypeOK, SessionInv, [Next]_vars
               PROVE  [Ledger!Next]_(Ledger!vars)
    OBVIOUS
  <2>1. \/ \E p \in Requests : StoreToken(p) \/ RotateCommit(p)
        \/ issued' = issued /\ Active' \subseteq Active
    BY DEF Next, Arrive, Proceed, RegisterFind, RegisterCreate, LoginFind, RefreshFind,
           RotateConsume, RevokeScan, RevokeAll, LogoutFind, LogoutRevoke, RevokeToken, Fail,
           CleanupExpiredTokens, Dead, Expire, Quiescent, vars, tables, Active
  <2> QED
    BY <2>1, StoreIssues, CommitExchanges, CloseOrStutter DEF Ledger!Next
<1> QED
  BY <1>1, <1>2, TypeCorrect, SessionsSound, PTL DEF Spec, LedgerSpec, Ledger!Spec

(* What is proved of the ledger holds of the service: a refresh token that is
   not active is never active again, whatever requests race for it, ... *)
THEOREM DeadTokensStayDead == Spec => Ledger!ClosedForGood
  BY ImplementsLedger, Ledger!ClosedStaysClosed DEF LedgerSpec

(* ... and the tokens that were put in each other's place form a chain of which
   at most the last one is active. *)
THEOREM TokensFormChains == Spec => []Ledger!OneLiveHeir
  BY ImplementsLedger, Ledger!LineageIsAChain DEF LedgerSpec

--------------------------------------------------------------------------------
(* One user's clients and the service, for any number of requests and devices. *)

USE AuthAssumption, SystemAssumption

(* How a call and its use case hang together: the use case that runs is the one
   the client asked for, it runs while the call is on its way, and a success
   that is heard is a success. *)
CallOf(p) ==
  /\ wants[p] = "none" <=> fate[p] = "unsent"
  /\ pc[p] = "idle" => op[p] = "none"
  /\ pc[p] # "idle" => op[p] = wants[p]
  /\ fate[p] = "unsent" => pc[p] = "idle"
  /\ pc[p] \in Midway => fate[p] = "sent"
  /\ pc[p] = "done" => fate[p] \in {"done", "undone"}
  /\ fate[p] \in {"unsent", "sent"} => reply[p] = "none"
  /\ verdict[p] = "ok" => reply[p] = "ok"
  /\ reply[p] = "ok" => answer[p] = "ok" /\ pc[p] = "done"
  /\ op[p] \in {"refresh", "logout"} => tok[p] = presents[p]
  /\ wants[p] \in {"refresh", "logout"} => presents[p] \in Delivered

(* What a use case has made of the tables. *)
MadeBy(p) ==
  /\ pc[p] = "create" => op[p] = "register"
  /\ pc[p] = "store" /\ op[p] = "register" => uid[p] = p
  /\ answer[p] = "ok" /\ op[p] # "logout" => p \in issued

SystemTypes ==
  /\ fate \in [Requests -> {"unsent", "sent", "done", "undone"}]
  /\ reply \in [Requests -> Denials \cup {"none", "ok", "error"}]
  /\ verdict \in [Requests -> Denials \cup {"none", "ok", "unknown"}]
  /\ wants \in [Requests -> {"none", "register", "login", "refresh", "logout"}]
  /\ presents \in [Requests -> Requests \cup {None}]
  /\ held \in [Clients -> Requests \cup {None}]
  /\ waiting \in [Clients -> Requests \cup {None}]

AuthInv == TypeOK /\ SessionInv /\ AccountInv

SystemInv ==
  /\ AuthInv
  /\ SystemTypes
  /\ \A p \in Requests : CallOf(p) /\ MadeBy(p)
  /\ \A u \in users : op[u.id] = "register"
  /\ \A d \in Clients : held[d] # None => held[d] \in Delivered

LEMMA SystemStart == SystemInit => SystemInv
<1> SUFFICES ASSUME SystemInit
             PROVE  SystemInv
  OBVIOUS
<1>1. Init /\ users = {}
  BY DEF SystemInit, Init
<1>2. AuthInv
  BY <1>1, TypeInit, SessionInit DEF Init, AuthInv, AccountInv, RegistrationsAgree,
     RefusedFairly
<1>3. SystemTypes
  BY DEF SystemInit, SystemTypes
<1>4. \A p \in Requests : CallOf(p) /\ MadeBy(p)
  BY DEF SystemInit, Init, CallOf, MadeBy, Midway
<1> QED
  BY <1>1, <1>2, <1>3, <1>4 DEF SystemInv, SystemInit

(* There is one account, if any. *)
LEMMA OneAccount ==
  ASSUME TypeOK, AccountInv
  PROVE  /\ users = {} => Account = None
         /\ \A u \in users : Account = u.id /\ u.id \in Requests /\ Account # None
<1>1. ASSUME NEW u \in users
      PROVE  u.id \in Requests /\ \A v \in users : v = u
  <2>1. PICK e \in Emails : Emails = {e}
    OBVIOUS
  <2>2. \A v \in users : v.email = e /\ v.id \in Requests
    BY <2>1 DEF TypeOK, Users
  <2> QED
    BY <2>2 DEF AccountInv, RegistrationsAgree
<1>2. ASSUME NEW u \in users
      PROVE  (CHOOSE v \in users : TRUE) = u
  BY <1>1
<1> QED
  BY <1>1, <1>2 DEF Account

--------------------------------------------------------------------------------
(* The steps of the whole are steps of the auth service. *)
LEMMA ServeArrives ==
  ASSUME SystemInv, NEW p \in Requests, Serve(p)
  PROVE  Arrive(p) /\ fate[p] = "sent"
<1>1. wants[p] \in {"refresh", "logout"} => presents[p] \in Delivered
  BY DEF SystemInv, CallOf
<1> QED
  BY <1>1 DEF Serve, Arrive

LEMMA StepsOfTheService == SystemInv /\ [SystemNext]_systemVars => [Next]_vars
<1> SUFFICES ASSUME SystemInv, SystemNext
             PROVE  [Next]_vars
  BY DEF systemVars
<1>1. ASSUME NEW p \in Requests, Work(p)
      PROVE  Next
  BY <1>1, ServeArrives DEF Work, Next
<1> QED
  BY <1>1 DEF SystemNext, Begin, FailAtOnce, Hear, Next

LEMMA AuthKeeps ==
  ASSUME AuthInv, [Next]_vars
  PROVE  AuthInv'
  BY TypeStep, SessionStep, AccountStep DEF AuthInv

(* What a statement does to its own request, ... *)
LEMMA OwnStep ==
  ASSUME SystemInv, NEW p \in Requests, Serve(p) \/ Proceed(p) \/ Fail(p)
  PROVE  /\ fate[p] = "sent" /\ pc[p] # "done"
         /\ op'[p] = wants[p]
         /\ wants[p] \in {"refresh", "logout"} => tok'[p] = presents[p]
         /\ pc'[p] \in Midway \cup {"done"}
<1> USE DEF SystemInv, AuthInv, TypeOK, CallOf, Goto, Reply, ReplyOrLose, inputs
<1>1. CASE Serve(p)
  BY <1>1 DEF Serve, RegisterFind, LoginFind, RefreshFind, LogoutFind, RevokeToken, Midway
<1>2. CASE Proceed(p) \/ Fail(p)
  <2>1. pc[p] \in Midway /\ UNCHANGED inputs /\ pc'[p] \in Midway \cup {"done"}
    BY <1>2 DEF Proceed, RegisterCreate, StoreToken, RotateConsume, RotateCommit, RevokeScan,
                RevokeAll, LogoutRevoke, RevokeToken, Fail, Midway
  <2>2. pc[p] # "idle" /\ pc[p] # "done"
    BY <2>1 DEF Midway
  <2> QED
    BY <2>1, <2>2
<1> QED
  BY <1>1, <1>2

(* ... and to the others: nothing. *)
LEMMA OtherSteps ==
  ASSUME SystemInv, NEW p \in Requests, Serve(p) \/ Proceed(p) \/ Fail(p),
         NEW q \in Requests \ {p}
  PROVE  /\ pc'[q] = pc[q] /\ op'[q] = op[q] /\ tok'[q] = tok[q]
         /\ uid'[q] = uid[q] /\ answer'[q] = answer[q]
<1> USE DEF SystemInv, AuthInv, TypeOK, Goto, Reply, ReplyOrLose, inputs
<1>1. CASE Serve(p)
  BY <1>1 DEF Serve, RegisterFind, LoginFind, RefreshFind, LogoutFind, RevokeToken
<1>2. CASE Proceed(p) \/ Fail(p)
  BY <1>2 DEF Proceed, RegisterCreate, StoreToken, RotateConsume, RotateCommit, RevokeScan,
              RevokeAll, LogoutRevoke, RevokeToken, Fail
<1> QED
  BY <1>1, <1>2

--------------------------------------------------------------------------------
(* The invariant is kept. *)

LEMMA DeliveredStay ==
  ASSUME AuthInv, [Next]_vars
  PROVE  Delivered \subseteq Delivered'
<1>1. \A t \in Delivered : t \in Requests /\ pc[t] = "done"
  BY DEF Delivered, AuthInv, TypeOK, SessionInv, TablesInv
<1> QED
  BY <1>1, Frames, HeirsGrow DEF Delivered, AuthInv

LEMMA EndsCall ==
  ASSUME SystemTypes, NEW p \in Requests, NEW f \in {"done", "undone"}, NEW e, Sessions!Ends(p, f, e)
  PROVE  /\ fate[p] = "sent" /\ verdict' = verdict
         /\ fate' = [fate EXCEPT ![p] = f]
         /\ reply'[p] = IF verdict[p] = "none" THEN e ELSE "none"
         /\ \A q \in Requests \ {p} : reply'[q] = reply[q]
         /\ reply' \in [Requests -> Denials \cup {"none", "ok", "error"}]
<1>1. PICK r \in Sessions!Results[f] \cup {reply[p]} : reply' = [reply EXCEPT ![p] = r]
  BY DEF Sessions!Ends, Sessions!TakeUp
<1>2. r \in Denials \cup {"none", "ok", "error"}
  BY <1>1 DEF SystemTypes, Sessions!Results
<1> QED
  BY <1>1, <1>2 DEF SystemTypes, Sessions!Ends, Sessions!TakeUp

LEMMA WorkKeeps ==
  ASSUME SystemInv, NEW p \in Requests, Work(p)
  PROVE  SystemInv'
<1>1. /\ fate[p] = "sent" /\ pc[p] # "done" /\ reply[p] = "none"
      /\ op'[p] = wants[p] /\ pc'[p] \in Midway \cup {"done"}
      /\ wants[p] \in {"refresh", "logout"} => tok'[p] = presents[p]
      /\ UNCHANGED <<wants, presents, held, waiting>>
  BY OwnStep DEF Work, clients, SystemInv, CallOf
<1>2. \A q \in Requests \ {p} :
         /\ pc'[q] = pc[q] /\ op'[q] = op[q] /\ tok'[q] = tok[q]
         /\ uid'[q] = uid[q] /\ answer'[q] = answer[q]
  BY OtherSteps DEF Work
<1>3. AuthInv /\ [Next]_vars /\ AuthInv'
  BY StepsOfTheService, AuthKeeps DEF SystemInv, SystemNext
<1>4. Delivered \subseteq Delivered' /\ issued \subseteq issued'
  BY <1>3, DeliveredStay, HeirsGrow DEF AuthInv
<1>5. /\ verdict' = verdict /\ SystemTypes'
      /\ \A q \in Requests \ {p} : fate'[q] = fate[q] /\ reply'[q] = reply[q]
      /\ \/ pc'[p] # "done" /\ fate'[p] = "sent" /\ reply'[p] = "none"
         \/ /\ pc'[p] = "done" /\ fate'[p] \in {"done", "undone"}
            /\ reply'[p] = "ok" => answer'[p] = "ok"
  <2>1. CASE pc'[p] # "done"
    BY <1>1, <2>1 DEF Work, channel, SystemInv, SystemTypes
  <2>2. CASE pc'[p] = "done"
    <3>1. PICK f \in {"done", "undone"} : Sessions!Ends(p, f, Said(p)')
      BY <2>2 DEF Work
    <3>2. Said(p)' = "ok" => answer'[p] = "ok"
      BY DEF Said
    <3>3. reply'[p] = "ok" => answer'[p] = "ok"
      BY <3>1, <3>2, EndsCall DEF SystemInv
    <3> QED
      BY <1>1, <2>2, <3>1, <3>3, EndsCall DEF SystemInv, SystemTypes
  <2> QED
    BY <2>1, <2>2
<1>6. ASSUME NEW q \in Requests
      PROVE  CallOf(q)'
  <2>1. CallOf(q)
    BY DEF SystemInv
  <2>2. CASE q = p
    <3>1. verdict[q] # "ok" /\ wants[q] # "none"
      BY <1>1, <2>1, <2>2 DEF CallOf
    <3> QED
      BY <1>1, <1>4, <1>5, <2>1, <2>2, <3>1 DEF CallOf, Midway
  <2>3. CASE q # p
    BY <1>1, <1>2, <1>4, <1>5, <2>1, <2>3 DEF CallOf
  <2> QED
    BY <2>2, <2>3
<1>7. ASSUME NEW q \in Requests
      PROVE  MadeBy(q)'
  <2>1. MadeBy(q) /\ CallOf(q)
    BY DEF SystemInv
  <2>2. CASE q # p
    BY <1>2, <1>4, <2>1, <2>2 DEF MadeBy
  <2>3. ASSUME q = p, Serve(p)
        PROVE  MadeBy(q)'
    <3>1. pc[p] = "idle" /\ answer[p] # "ok"
      BY <2>3 DEF Serve, RegisterFind, LoginFind, RefreshFind, LogoutFind, SystemInv, AuthInv,
                  SessionInv, TablesInv
    <3> QED
      BY <2>3, <3>1 DEF MadeBy, Serve, RegisterFind, LoginFind, RefreshFind, LogoutFind,
                  RevokeToken, Goto, Reply, ReplyOrLose, SystemInv, AuthInv, TypeOK
  <2>4. ASSUME q = p, RegisterCreate(p)
        PROVE  MadeBy(q)'
    BY <1>3, <2>1, <2>4 DEF MadeBy, RegisterCreate, ViolationAnswer, Goto, Reply, inputs, AuthInv,
                            TypeOK, SessionInv, TablesInv
  <2>5. ASSUME q = p, StoreToken(p) \/ RotateCommit(p)
        PROVE  MadeBy(q)'
    BY <2>5 DEF MadeBy, StoreToken, RotateCommit, InsertToken, Reply, ReplyOrLose, inputs,
                SystemInv, AuthInv, TypeOK
  <2>6. ASSUME q = p, RotateConsume(p) \/ RevokeScan(p) \/ RevokeAll(p) \/ Fail(p)
        PROVE  MadeBy(q)'
    <3>1. pc'[p] \notin {"create", "store"} /\ (answer'[p] = "ok" => answer[p] = "ok") /\ op' = op
      BY <2>6 DEF RotateConsume, RevokeScan, RevokeAll, Fail, Goto, Reply, ReplyOrLose, inputs,
                  SystemInv, AuthInv, TypeOK
    <3> QED
      BY <1>4, <2>1, <2>6, <3>1 DEF MadeBy
  <2>7. ASSUME q = p, LogoutRevoke(p)
        PROVE  MadeBy(q)'
    <3>1. op'[p] = "logout" /\ pc'[p] = "done"
      BY <2>7 DEF LogoutRevoke, RevokeToken, Reply, ReplyOrLose, SystemInv, AuthInv, TypeOK,
                  SessionInv, StageInv
    <3> QED
      BY <2>7, <3>1 DEF MadeBy
  <2> QED
    BY <2>2, <2>3, <2>4, <2>5, <2>6, <2>7 DEF Work, Proceed
<1>8. \A u \in users' : op'[u.id] = "register"
  <2>1. ASSUME NEW u \in users
        PROVE  op'[u.id] = "register"
    <3>1. u.id \in Requests /\ pc[u.id] # "idle" /\ op[u.id] = "register"
      BY DEF SystemInv, AuthInv, TypeOK, Users, AccountInv
    <3>2. op[u.id] = wants[u.id]
      BY <3>1 DEF SystemInv, CallOf
    <3> QED
      BY <1>1, <1>2, <3>1, <3>2
  <2>2. users' \subseteq users \/ RegisterCreate(p)
    BY DEF Work, Serve, RegisterFind, LoginFind, RefreshFind, LogoutFind, Proceed, StoreToken,
           RotateConsume, RotateCommit, RevokeScan, RevokeAll, LogoutRevoke, RevokeToken, Fail,
           tables
  <2>3. CASE RegisterCreate(p)
    <3>1. op'[p] = "register"
      BY <2>3 DEF RegisterCreate, inputs, SystemInv, MadeBy
    <3>2. \A u \in users' : u \in users \/ u.id = p
      BY <2>3 DEF RegisterCreate
    <3> QED
      BY <2>1, <3>1, <3>2
  <2> QED
    BY <2>1, <2>2, <2>3
<1> QED
  BY <1>1, <1>3, <1>4, <1>5, <1>6, <1>7, <1>8 DEF SystemInv

LEMMA FailAtOnceKeeps ==
  ASSUME SystemInv, NEW p \in Requests, FailAtOnce(p)
  PROVE  SystemInv'
<1>1. /\ fate[p] = "sent" /\ pc[p] = "idle" /\ verdict' = verdict
      /\ fate' = [fate EXCEPT ![p] = "undone"] /\ reply'[p] \in {"none", "error"}
      /\ \A q \in Requests \ {p} : reply'[q] = reply[q]
      /\ reply' \in [Requests -> Denials \cup {"none", "ok", "error"}]
      /\ UNCHANGED <<vars, clients>>
  BY EndsCall DEF FailAtOnce, Sessions!Denied, SystemInv
<1>2. AuthInv'
  BY <1>1, AuthKeeps DEF SystemInv
<1>3. SystemTypes'
  BY <1>1 DEF SystemInv, SystemTypes, clients
<1>4. ASSUME NEW q \in Requests
      PROVE  CallOf(q)'
  <2>1. CallOf(q)
    BY DEF SystemInv
  <2>2. UNCHANGED <<pc, op, tok, answer, wants, presents, Delivered>>
    BY <1>1 DEF vars, clients, Delivered
  <2>3. CASE q = p
    <3>1. verdict[q] # "ok" /\ wants[q] # "none" /\ fate'[q] = "undone"
      BY <1>1, <2>1, <2>3 DEF CallOf, SystemInv, SystemTypes
    <3> QED
      BY <1>1, <2>1, <2>2, <2>3, <3>1 DEF CallOf, Midway
  <2>4. CASE q # p
    BY <1>1, <2>1, <2>2, <2>4 DEF CallOf, SystemInv, SystemTypes
  <2> QED
    BY <2>3, <2>4
<1>5. UNCHANGED <<pc, op, uid, answer, issued, users, held, Delivered>>
  BY <1>1 DEF vars, clients, Delivered
<1>6. \A q \in Requests : MadeBy(q)'
  BY <1>5 DEF SystemInv, MadeBy
<1> QED
  BY <1>2, <1>3, <1>4, <1>5, <1>6 DEF SystemInv

LEMMA BeginKeeps ==
  ASSUME SystemInv, NEW d \in Clients, NEW p \in Requests,
         NEW o \in {"register", "login", "refresh", "logout"}, Begin(d, p, o)
  PROVE  SystemInv'
<1>1. /\ wants[p] = "none" /\ (Sessions!Presents(o) <=> held[d] # None)
      /\ wants' = [wants EXCEPT ![p] = o] /\ presents' = [presents EXCEPT ![p] = held[d]]
      /\ fate[p] = "unsent" /\ fate' = [fate EXCEPT ![p] = "sent"]
      /\ waiting' = [waiting EXCEPT ![d] = p]
      /\ UNCHANGED <<vars, reply, verdict, held>>
  BY DEF Begin, Sessions!Ask, Sessions!Send
<1>2. AuthInv'
  BY <1>1, AuthKeeps DEF SystemInv
<1>3. SystemTypes'
  BY <1>1 DEF SystemInv, SystemTypes
<1>4. UNCHANGED <<pc, op, tok, uid, answer, issued, users, Delivered>>
  BY <1>1 DEF vars, Delivered
<1>5. ASSUME NEW q \in Requests
      PROVE  CallOf(q)'
  <2>1. CallOf(q)
    BY DEF SystemInv
  <2>2. CASE q = p
    <3>1. wants'[q] = o /\ presents'[q] = held[d] /\ fate'[q] = "sent"
      BY <1>1, <2>2 DEF SystemInv, SystemTypes
    <3>2. o \in {"refresh", "logout"} => held[d] \in Delivered
      BY <1>1 DEF Sessions!Presents, SystemInv
    <3>3. pc[q] = "idle" /\ op[q] = "none" /\ reply[q] = "none" /\ verdict[q] # "ok"
      BY <1>1, <2>1, <2>2 DEF CallOf
    <3> QED
      BY <1>1, <1>4, <2>1, <3>1, <3>2, <3>3 DEF CallOf, Midway
  <2>3. CASE q # p
    <3>1. wants'[q] = wants[q] /\ presents'[q] = presents[q] /\ fate'[q] = fate[q]
      BY <1>1, <2>3 DEF SystemInv, SystemTypes
    <3> QED
      BY <1>1, <1>4, <2>1, <3>1 DEF CallOf
  <2> QED
    BY <2>2, <2>3
<1>6. \A q \in Requests : MadeBy(q)'
  BY <1>4 DEF SystemInv, MadeBy
<1> QED
  BY <1>1, <1>2, <1>3, <1>4, <1>5, <1>6 DEF SystemInv

(* The token of a success was delivered. *)
LEMMA HearKeeps ==
  ASSUME SystemInv, NEW d \in Clients, NEW p \in Requests, Hear(d, p)
  PROVE  SystemInv'
<1>1. PICK v \in ({reply[p]} \cap (Denials \cup {"ok"})) \cup {"unknown"} :
         verdict' = [verdict EXCEPT ![p] = v]
  BY DEF Hear, Sessions!Adopt, Sessions!Answer
<1>2. /\ verdict'[p] = v /\ \A q \in Requests \ {p} : verdict'[q] = verdict[q]
      /\ v = "ok" => reply[p] = "ok"
  BY <1>1 DEF SystemInv, SystemTypes
<1>3. /\ held' = [held EXCEPT ![d] = IF v = "ok" THEN (IF wants[p] = "logout" THEN None ELSE p)
                                    ELSE IF v \in Sessions!TokenErrors THEN None ELSE held[d]]
      /\ waiting' = [waiting EXCEPT ![d] = None]
      /\ UNCHANGED <<vars, fate, reply, wants, presents>>
  BY <1>2 DEF Hear, Sessions!Adopt, Sessions!Answer, Sessions!requests
<1>4. AuthInv'
  BY <1>3, AuthKeeps DEF SystemInv
<1>5. UNCHANGED <<pc, op, tok, uid, answer, issued, users, Delivered>>
  BY <1>3 DEF vars, Delivered
<1>6. SystemTypes'
  <2>1. v \in Denials \cup {"none", "ok", "unknown"}
    OBVIOUS
  <2> QED
    BY <1>1, <1>3, <2>1 DEF SystemInv, SystemTypes
<1>7. \A q \in Requests : CallOf(q)' /\ MadeBy(q)'
  BY <1>2, <1>3, <1>5 DEF SystemInv, CallOf, MadeBy
<1>8. ASSUME v = "ok", wants[p] # "logout"
      PROVE  p \in Delivered
  BY <1>2, <1>8 DEF SystemInv, CallOf, MadeBy, Delivered
<1>9. \A e \in Clients : held'[e] # None => held'[e] \in Delivered
  BY <1>3, <1>8 DEF SystemInv, SystemTypes
<1> QED
  BY <1>4, <1>5, <1>6, <1>7, <1>9 DEF SystemInv

(* Time, the hourly job, and steps that change nothing. *)
LEMMA TimeKeeps ==
  ASSUME SystemInv, UNCHANGED <<channel, clients>>,
         CleanupExpiredTokens \/ (\E t \in Requests : Expire(t)) \/ UNCHANGED vars
  PROVE  SystemInv'
<1>1. UNCHANGED <<pc, op, tok, uid, answer, issued, users, channel, clients>>
  BY DEF CleanupExpiredTokens, Expire, vars, inputs
<1>2. AuthInv'
  BY AuthKeeps DEF SystemInv, Next
<1>3. UNCHANGED <<fate, reply, verdict, wants, presents, held, waiting, Delivered>>
  BY <1>1 DEF channel, clients, Delivered
<1>4. SystemTypes'
  BY <1>3 DEF SystemInv, SystemTypes
<1>5. \A q \in Requests : CallOf(q)' /\ MadeBy(q)'
  BY <1>1, <1>3 DEF SystemInv, CallOf, MadeBy
<1> QED
  BY <1>1, <1>2, <1>3, <1>4, <1>5 DEF SystemInv

LEMMA SystemStepKeeps == SystemInv /\ [SystemNext]_systemVars => SystemInv'
  BY BeginKeeps, WorkKeeps, FailAtOnceKeeps, HearKeeps, TimeKeeps DEF SystemNext, systemVars

(* A use case runs for the call that asked for it, while that call is on its
   way, and the clients present tokens that they were sent. *)
THEOREM SystemSound == SystemSpec => []SystemInv
  BY SystemStart, SystemStepKeeps, PTL DEF SystemSpec

(* Under its clients the auth service does what AuthService allows: it is sent
   nothing that is not assumed there. *)
THEOREM SystemUsesService == SystemSpec => Spec
<1>1. SystemInit => Init
  BY DEF SystemInit
<1> QED
  BY <1>1, StepsOfTheService, SystemSound, PTL DEF SystemSpec, Spec

--------------------------------------------------------------------------------
(* The refinement.  Each statement is a step of the clients' specification: the
   one that makes the account enrols the user, the one that ends a use case ends
   the call, the others change nothing that a client could tell. *)

Promised == [Sessions!SessionNext]_(Sessions!sessionVars)

LEMMA UseCases ==
  ASSUME NEW p \in Requests,
         \/ Sessions!Enrol(p) \/ Sessions!Register(p) \/ Sessions!Login(p)
         \/ Sessions!Refresh(p) \/ Sessions!Logout(p) \/ Sessions!Failed(p)
  PROVE  Promised
  BY DEF Promised, Sessions!SessionNext

(* What is not in the tables is no concern of the sessions. *)
LEMMA SameTables ==
  ASSUME SystemInv, [Next]_vars, UNCHANGED <<users, expired, issued, Active>>
  PROVE  UNCHANGED <<Sessions!sessions, expired, Account>>
<1>1. Exchanged' = Exchanged
  BY HeirsGrow DEF Exchanged, SystemInv, AuthInv
<1> QED
  BY <1>1 DEF Sessions!sessions, Account

LEMMA Stutters ==
  ASSUME SystemInv, [Next]_vars, UNCHANGED <<users, expired, issued, Active, channel, clients>>
  PROVE  Promised
<1>1. UNCHANGED <<Sessions!sessions, expired, Account>>
  BY SameTables
<1>2. UNCHANGED <<Sessions!vars, Sessions!requests, Sessions!clients>>
  BY DEF channel, clients, Sessions!vars, Sessions!requests, Sessions!clients
<1> QED
  BY <1>1, <1>2 DEF Promised, Sessions!sessionVars

(* How a call ends. *)
LEMMA WorkEnds ==
  ASSUME SystemInv, NEW p \in Requests, Work(p), pc'[p] = "done"
  PROVE  /\ Sessions!Ends(p, IF Took(p)' THEN "done" ELSE "undone", Said(p)')
         /\ UNCHANGED <<wants, Sessions!requests, Sessions!clients>>
  BY DEF Work, clients, Sessions!requests, Sessions!clients

LEMMA WorkDenies ==
  ASSUME SystemInv, NEW p \in Requests, Work(p), pc'[p] = "done",
         wants[p] # "logout", Account # p, UNCHANGED <<users, expired, issued, Active>>
  PROVE  /\ Sessions!Denied(p, Said(p)')
         /\ UNCHANGED <<wants, Sessions!sessions, expired, Account, Sessions!requests, Sessions!clients>>
<1>1. pc[p] # "done" /\ [Next]_vars
  BY OwnStep, StepsOfTheService DEF Work, SystemNext
<1>2. p \notin issued
  BY <1>1 DEF SystemInv, AuthInv, SessionInv, TablesInv
<1>3. UNCHANGED <<Sessions!sessions, expired, Account>>
  BY <1>1, SameTables
<1>4. ~Took(p)'
  BY <1>2, <1>3, WorkEnds DEF Took
<1> QED
  BY <1>3, <1>4, WorkEnds DEF Sessions!Denied

(* An account is made by a registration. *)
LEMMA AccountOf ==
  ASSUME SystemInv
  PROVE  /\ Account \in Requests \cup {None}
         /\ Account # None => op[Account] = "register" /\ pc[Account] \notin {"idle", "create"}
         /\ users # {} <=> Account # None
         /\ \A u \in users : Account = u.id
  BY OneAccount DEF SystemInv, AuthInv, AccountInv

LEMMA RegisterFindRefines ==
  ASSUME SystemInv, NEW p \in Requests, NEW e \in Emails, NEW n \in Usernames,
         Work(p), wants[p] = "register", RegisterFind(p, e, n)
  PROVE  Promised
<1>1. pc[p] = "idle" /\ UNCHANGED <<users, expired, issued, Active>> /\ [Next]_vars
  BY StepsOfTheService DEF RegisterFind, tables, Active, SystemNext
<1>2. CASE (\E u \in users : u.email = e) /\ Reply(p, "emailTaken")
  <2>1. Account \notin {None, p}
    BY <1>1, <1>2, AccountOf
  <2>2. answer'[p] = "emailTaken" /\ pc'[p] = "done"
    BY <1>2 DEF Reply, SystemInv, AuthInv, TypeOK
  <2>3. Said(p)' = "ErrEmailAlreadyExists"
    BY <2>2 DEF Said
  <2>4. Sessions!Register(p)
    BY <1>1, <2>1, <2>2, <2>3, WorkDenies DEF Sessions!Register, Sessions!AccountErrors
  <2> QED
    BY <2>4, UseCases
<1>3. CASE Goto(p, "create")
  BY <1>1, <1>3, Stutters DEF Work, Goto, SystemInv, AuthInv, TypeOK
<1> QED
  BY <1>2, <1>3 DEF RegisterFind

LEMMA RegisterCreateRefines ==
  ASSUME SystemInv, NEW p \in Requests, Work(p), RegisterCreate(p)
  PROVE  Promised
<1>1. /\ pc[p] = "create" /\ op[p] = "register" /\ wants[p] = "register" /\ fate[p] = "sent"
      /\ UNCHANGED <<expired, issued, Active>> /\ [Next]_vars
  BY StepsOfTheService DEF RegisterCreate, Active, SystemNext, SystemInv, MadeBy, CallOf, Midway
<1>2. /\ form[p].email \in Emails
      /\ \A u \in users : u.email \in Emails
  BY <1>1 DEF SystemInv, AuthInv, TypeOK, Users
<1>3. ASSUME Clashes(form[p]) = {}, Goto(p, "store"),
             users' = users \cup {[id |-> p, email |-> form[p].email, name |-> form[p].name]}
      PROVE  Promised
  <2>1. users = {}
    BY <1>2, <1>3 DEF Clashes
  <2>2. Account = None
    BY <2>1 DEF Account
  <2>3. Account' = p
    <3> DEFINE row == [id |-> p, email |-> form[p].email, name |-> form[p].name]
    <3>1. users' = {row} /\ row.id = p
      BY <1>3, <2>1
    <3> HIDE DEF row
    <3>2. (CHOOSE u \in {row} : TRUE) = row
      OBVIOUS
    <3> QED
      BY <3>1, <3>2 DEF Account
  <2>4. Exchanged' = Exchanged
    BY <1>1, HeirsGrow DEF Exchanged, SystemInv, AuthInv
  <2>5. UNCHANGED <<channel, clients>>
    BY <1>3 DEF Work, Goto, SystemInv, AuthInv, TypeOK
  <2>6. Sessions!Enrol(p)
    BY <1>1, <2>2, <2>3, <2>4, <2>5
    DEF Sessions!Enrol, Sessions!vars, Sessions!sessions, Sessions!requests, Sessions!clients,
        channel, clients
  <2> QED
    BY <2>6, UseCases
<1>4. ASSUME NEW c \in Clashes(form[p]), Reply(p, ViolationAnswer(c, form[p])), UNCHANGED users
      PROVE  Promised
  <2>1. Account \notin {None, p}
    BY <1>1, <1>4, AccountOf DEF Clashes
  <2>2. answer'[p] \in {"emailTaken", "nameTaken"} /\ pc'[p] = "done"
    BY <1>4 DEF Reply, ViolationAnswer, SystemInv, AuthInv, TypeOK
  <2>3. Said(p)' \in Sessions!AccountErrors
    BY <2>2 DEF Said, Sessions!AccountErrors
  <2>4. Sessions!Register(p)
    BY <1>1, <1>4, <2>1, <2>2, <2>3, WorkDenies DEF Sessions!Register
  <2> QED
    BY <2>4, UseCases
<1> QED
  BY <1>3, <1>4 DEF RegisterCreate

LEMMA LoginFindRefines ==
  ASSUME SystemInv, NEW p \in Requests, NEW e \in Emails,
         Work(p), wants[p] = "login", LoginFind(p, e)
  PROVE  Promised
<1>1. pc[p] = "idle" /\ UNCHANGED <<users, expired, issued, Active>> /\ [Next]_vars
  BY StepsOfTheService DEF LoginFind, tables, Active, SystemNext
<1>2. CASE Reply(p, "invalid")
  <2>1. answer'[p] = "invalid" /\ pc'[p] = "done" /\ Account # p
    BY <1>1, <1>2, AccountOf DEF Reply, SystemInv, AuthInv, TypeOK
  <2>2. Said(p)' = "ErrInvalidCredentials"
    BY <1>1, <2>1, WorkDenies DEF Said
  <2>3. Sessions!Login(p)
    BY <1>1, <2>1, <2>2, WorkDenies DEF Sessions!Login
  <2> QED
    BY <2>3, UseCases
<1>3. CASE Goto(p, "store")
  BY <1>1, <1>3, Stutters DEF Work, Goto, SystemInv, AuthInv, TypeOK
<1> QED
  BY <1>2, <1>3 DEF LoginFind

LEMMA StoreTokenRefines ==
  ASSUME SystemInv, NEW p \in Requests, Work(p), StoreToken(p)
  PROVE  Promised
<1>1. /\ pc[p] = "store" /\ op[p] \in {"register", "login"} /\ wants[p] = op[p]
      /\ UNCHANGED <<users, expired>> /\ pc'[p] = "done" /\ answer'[p] \in {"ok", "error"}
      /\ p \in issued'
  BY DEF StoreToken, InsertToken, ReplyOrLose, Reply, SystemInv, CallOf, AuthInv, TypeOK, SessionInv,
         StageInv
<1>2. Account # None /\ Account' = Account
  BY <1>1, AccountOf DEF SystemInv, AuthInv, AccountInv, Account
<1>3. op[p] = "register" => Account = p
  BY <1>1, AccountOf DEF SystemInv, AuthInv, AccountInv, MadeBy
<1>4. Sessions!Done(p)
  <2>1. Took(p)'
    BY <1>1 DEF Took
  <2>2. Said(p)' = answer'[p]
    BY <1>1 DEF Said
  <2> QED
    BY <1>1, <2>1, <2>2, WorkEnds DEF Sessions!Done
<1>5. Sessions!Ledger!Issue(p)
  BY StoreIssues DEF Ledger!Issue, Sessions!Ledger!Issue, SystemInv, AuthInv
<1>6. Sessions!Register(p) \/ Sessions!Login(p)
  BY <1>1, <1>2, <1>3, <1>4, <1>5, WorkEnds DEF Sessions!Register, Sessions!Login
<1> QED
  BY <1>6, UseCases

LEMMA RefreshFindRefines ==
  ASSUME SystemInv, NEW p \in Requests, Work(p), wants[p] = "refresh", RefreshFind(p, presents[p])
  PROVE  Promised
<1>1. pc[p] = "idle" /\ UNCHANGED <<users, expired, issued, Active>> /\ [Next]_vars
  BY StepsOfTheService DEF RefreshFind, tables, Active, SystemNext
<1>2. CASE Reply(p, "invalid")
  <2>1. answer'[p] = "invalid" /\ pc'[p] = "done" /\ Account # p
    BY <1>1, <1>2, AccountOf DEF Reply, SystemInv, AuthInv, TypeOK
  <2>2. Said(p)' = "ErrInvalidRefreshToken"
    BY <1>1, <2>1, WorkDenies DEF Said
  <2>3. Sessions!Spent(presents[p])
    <3>1. ~(Goto(p, "scan") \/ Goto(p, "consume"))
      BY <2>1 DEF Goto, SystemInv, AuthInv, TypeOK
    <3> QED
      BY <3>1 DEF RefreshFind, Active, Sessions!Spent
  <2>4. Sessions!Refresh(p)
    BY <1>1, <2>1, <2>2, <2>3, WorkDenies DEF Sessions!Refresh
  <2> QED
    BY <2>4, UseCases
<1>3. CASE Goto(p, "scan") \/ Goto(p, "consume")
  BY <1>1, <1>3, Stutters DEF Work, Goto, SystemInv, AuthInv, TypeOK
<1> QED
  BY <1>2, <1>3 DEF RefreshFind

(* Statements in the middle of a refresh. *)
LEMMA RotateConsumeRefines ==
  ASSUME SystemInv, NEW p \in Requests, Work(p), RotateConsume(p) \/ RevokeScan(p)
  PROVE  Promised
<1>1. /\ UNCHANGED <<users, expired, issued, Active>> /\ [Next]_vars
      /\ pc'[p] # "done"
  BY StepsOfTheService
  DEF RotateConsume, RevokeScan, Goto, tables, Active, SystemNext, SystemInv, AuthInv, TypeOK
<1> QED
  BY <1>1, Stutters DEF Work

LEMMA RotateCommitRefines ==
  ASSUME SystemInv, NEW p \in Requests, Work(p), RotateCommit(p)
  PROVE  Promised
<1>1. /\ pc[p] = "commit" /\ op[p] = "refresh" /\ wants[p] = "refresh" /\ presents[p] = tok[p]
      /\ UNCHANGED <<users, expired>> /\ pc'[p] = "done" /\ answer'[p] \in {"ok", "error"}
      /\ p \in issued'
  BY DEF RotateCommit, InsertToken, ReplyOrLose, Reply, SystemInv, CallOf, AuthInv, TypeOK, SessionInv,
         StageInv, Refreshing
<1>2. Sessions!Done(p)
  <2>1. Took(p)'
    BY <1>1 DEF Took
  <2>2. Said(p)' = answer'[p]
    BY <1>1 DEF Said
  <2> QED
    BY <1>1, <2>1, <2>2, WorkEnds DEF Sessions!Done
<1>3. Sessions!Ledger!Exchange(presents[p], p)
  BY <1>1, CommitExchanges DEF Ledger!Exchange, Sessions!Ledger!Exchange, SystemInv, AuthInv
<1>4. Account' = Account
  BY <1>1 DEF Account
<1>5. Sessions!Refresh(p)
  BY <1>1, <1>2, <1>3, <1>4, WorkEnds DEF Sessions!Refresh
<1> QED
  BY <1>5, UseCases

LEMMA RevokeAllRefines ==
  ASSUME SystemInv, NEW p \in Requests, Work(p), RevokeAll(p)
  PROVE  Promised
<1>1. /\ pc[p] = "revokeAll" /\ op[p] = "refresh" /\ wants[p] = "refresh" /\ presents[p] = tok[p]
      /\ UNCHANGED <<users, expired, issued>> /\ pc'[p] = "done"
      /\ answer'[p] \in {"revoked", "error"} /\ [Next]_vars
      /\ Active' = Active \ seen[p]
  BY StepsOfTheService
  DEF RevokeAll, ReplyOrLose, Reply, SystemInv, CallOf, AuthInv, TypeOK, SessionInv, StageInv,
      Refreshing, SystemNext, Active
<1>2. UNCHANGED <<Exchanged, Account>> /\ Account # p
  <2>1. Exchanged' = Exchanged
    BY <1>1, HeirsGrow DEF Exchanged, SystemInv, AuthInv
  <2> QED
    BY <1>1, <2>1, AccountOf DEF Account
<1>3. \E e \in {"ErrRevokedRefreshToken", "error"} : Sessions!Denied(p, e)
  <2>1. ~Took(p)'
    BY <1>1, <1>2, WorkEnds DEF Took, SystemInv, AuthInv, SessionInv, TablesInv
  <2>2. Said(p)' \in {"ErrRevokedRefreshToken", "error"}
    BY <1>1 DEF Said
  <2> QED
    BY <1>1, <2>1, <2>2, WorkEnds DEF Sessions!Denied
<1>4. Sessions!Spent(presents[p])
  BY <1>1 DEF Sessions!Spent, SystemInv, AuthInv, SessionInv, AlarmInv
<1>5. UNCHANGED Sessions!sessions \/ \E S \in SUBSET Active : Sessions!Ledger!Close(S)
  <2>1. CASE Active' = Active
    BY <1>1, <1>2, <2>1 DEF Sessions!sessions
  <2>2. CASE Active' # Active
    <3>1. Active \cap seen[p] \in SUBSET Active
      OBVIOUS
    <3>2. Sessions!Ledger!Close(Active \cap seen[p])
      BY <1>1, <1>2, <2>2 DEF Sessions!Ledger!Close
    <3> QED
      BY <3>1, <3>2
  <2> QED
    BY <2>1, <2>2
<1>6. Sessions!Refresh(p)
  BY <1>1, <1>2, <1>3, <1>4, <1>5, WorkEnds DEF Sessions!Refresh, Sessions!Alarm
<1> QED
  BY <1>6, UseCases

LEMMA RevokeTokenRefines ==
  ASSUME SystemInv, NEW p \in Requests, Work(p), wants[p] = "logout", RevokeToken(p, presents[p])
  PROVE  Promised
<1>1. /\ UNCHANGED <<users, expired, issued>> /\ pc'[p] = "done"
      /\ answer'[p] \in {"ok", "error"} /\ [Next]_vars
      /\ Active' = Active \ {presents[p]}
  BY StepsOfTheService
  DEF RevokeToken, ReplyOrLose, Reply, SystemInv, AuthInv, TypeOK, SystemNext, Active
<1>2. UNCHANGED <<Exchanged, Account>>
  BY <1>1, HeirsGrow DEF Exchanged, Account, SystemInv, AuthInv
<1>3. Sessions!Done(p)
  <2>1. Took(p)'
    BY <1>1 DEF Took, Work, clients
  <2>2. Said(p)' = answer'[p]
    BY <1>1 DEF Said
  <2> QED
    BY <1>1, <2>1, <2>2, WorkEnds DEF Sessions!Done
<1>4. IF presents[p] \in Active THEN Sessions!Ledger!Close({presents[p]}) ELSE UNCHANGED Sessions!sessions
  BY <1>1, <1>2 DEF Sessions!Ledger!Close, Sessions!sessions
<1>5. Sessions!Logout(p)
  BY <1>1, <1>2, <1>3, <1>4, WorkEnds DEF Sessions!Logout
<1> QED
  BY <1>5, UseCases

LEMMA LogoutRefines ==
  ASSUME SystemInv, NEW p \in Requests, Work(p),
         \/ wants[p] = "logout" /\ LogoutFind(p, presents[p])
         \/ LogoutRevoke(p)
  PROVE  Promised
<1>1. CASE LogoutRevoke(p)
  <2>1. wants[p] = "logout" /\ presents[p] = tok[p]
    BY <1>1 DEF LogoutRevoke, SystemInv, CallOf, AuthInv, SessionInv, StageInv
  <2> QED
    BY <1>1, <2>1, RevokeTokenRefines DEF LogoutRevoke
<1>2. ASSUME LogoutFind(p, presents[p]), Goto(p, "revoke"), UNCHANGED tables
      PROVE  Promised
  <2>1. UNCHANGED <<users, expired, issued, Active>> /\ pc'[p] # "done" /\ [Next]_vars
    BY <1>2, StepsOfTheService DEF Goto, tables, Active, SystemNext, SystemInv, AuthInv, TypeOK
  <2> QED
    BY <2>1, Stutters DEF Work
<1> QED
  BY <1>1, <1>2, RevokeTokenRefines DEF LogoutFind

(* A registration that fails after it made the account has done something; so
   has a logout whose token somebody else has closed meanwhile, as far as its
   client can tell.  Any other use case that fails has not. *)
LEMMA FailRefines ==
  ASSUME SystemInv, NEW p \in Requests, Work(p), Fail(p)
  PROVE  Promised
<1>1. /\ pc[p] \in Midway /\ wants[p] = op[p] /\ pc'[p] = "done" /\ answer'[p] = "error"
      /\ UNCHANGED <<users, expired, issued, Active>> /\ [Next]_vars
  BY StepsOfTheService
  DEF Fail, Reply, tables, Active, Midway, SystemInv, CallOf, AuthInv, TypeOK, SystemNext
<1>2. UNCHANGED <<Sessions!sessions, Account, wants, presents>>
  BY <1>1, SameTables DEF Work, clients
<1>3. Said(p)' = "error"
  BY <1>1 DEF Said
<1>4. CASE Account # p /\ ~(wants[p] = "logout" /\ presents[p] \notin Active)
  <2>1. p \notin issued'
    BY <1>1, OwnStep DEF Work, SystemInv, AuthInv, SessionInv, TablesInv
  <2>2. ~Took(p)'
    BY <1>1, <1>2, <1>4, <2>1 DEF Took
  <2>3. Sessions!Denied(p, "error")
    BY <1>1, <1>3, <2>2, WorkEnds DEF Sessions!Denied
  <2>4. Sessions!Failed(p)
    BY <1>1, <1>2, <1>4, <2>3, WorkEnds DEF Sessions!Failed
  <2> QED
    BY <2>4, UseCases
<1>6. CASE wants[p] = "logout" /\ presents[p] \notin Active
  <2>1. Sessions!Ends(p, "done", "error")
    BY <1>1, <1>2, <1>3, <1>6, WorkEnds DEF Took
  <2>2. Sessions!Logout(p)
    BY <1>1, <1>2, <1>3, <1>6, <2>1, WorkEnds DEF Sessions!Logout, Sessions!Done
  <2> QED
    BY <2>2, UseCases
<1>5. CASE Account = p
  <2>1. wants[p] = "register"
    BY <1>1, <1>5, AccountOf
  <2>2. UNCHANGED <<Sessions!sessions, Account>>
    BY <1>1, SameTables
  <2>3. Sessions!Ends(p, "done", "error")
    BY <1>1, <1>3, <1>5, <2>2, WorkEnds DEF Took
  <2>4. Sessions!Register(p)
    BY <1>1, <1>5, <2>1, <2>2, <2>3, WorkEnds DEF Sessions!Register
  <2> QED
    BY <2>4, UseCases
<1> QED
  BY <1>4, <1>5, <1>6

LEMMA WorkRefines ==
  ASSUME SystemInv, NEW p \in Requests, Work(p)
  PROVE  Promised
<1>1. CASE Serve(p)
  BY <1>1, RegisterFindRefines, LoginFindRefines, RefreshFindRefines, LogoutRefines DEF Serve
<1>2. CASE Proceed(p)
  BY <1>2, RegisterCreateRefines, StoreTokenRefines, RotateConsumeRefines, RotateCommitRefines,
     RevokeAllRefines, LogoutRefines DEF Proceed
<1> QED
  BY <1>1, <1>2, FailRefines DEF Work

LEMMA FailAtOnceRefines ==
  ASSUME SystemInv, NEW p \in Requests, FailAtOnce(p)
  PROVE  Promised
<1>1. /\ UNCHANGED <<users, expired, issued, Active, clients>> /\ [Next]_vars
      /\ pc[p] = "idle" /\ Sessions!Denied(p, "error")
  BY DEF FailAtOnce, vars, Active
<1>2. UNCHANGED <<Sessions!sessions, expired, Account>> /\ Account # p
  BY <1>1, SameTables, AccountOf
<1>3. Sessions!Failed(p)
  BY <1>1, <1>2 DEF Sessions!Failed, Sessions!requests, Sessions!clients, clients
<1> QED
  BY <1>3, UseCases

(* The clients act as they do in ClientSession. *)
LEMMA ClientsRefine ==
  ASSUME SystemInv, NEW d \in Clients, NEW p \in Requests,
         \/ Hear(d, p)
         \/ \E o \in {"register", "login", "refresh", "logout"} : Begin(d, p, o)
  PROVE  Promised
<1>1. UNCHANGED <<users, expired, issued, Active>> /\ [Next]_vars
  BY DEF Hear, Begin, vars, Active
<1>2. UNCHANGED <<Sessions!sessions, expired, Account>>
  BY <1>1, SameTables
<1>3. \/ Sessions!Hear(d, p)
      \/ \E o \in {"register", "login", "refresh", "logout"} : Sessions!Begin(d, p, o)
  BY <1>2 DEF Hear, Begin, Sessions!Hear, Sessions!Begin
<1> QED
  BY <1>3 DEF Promised, Sessions!SessionNext

LEMMA TimeRefines ==
  ASSUME SystemInv, UNCHANGED <<channel, clients>>,
         CleanupExpiredTokens \/ (\E t \in Requests : Expire(t)) \/ UNCHANGED vars
  PROVE  Promised
<1>0. UNCHANGED <<Sessions!vars, Sessions!requests, Sessions!clients>> /\ [Next]_vars
  BY DEF channel, clients, Sessions!vars, Sessions!requests, Sessions!clients, Next
<1>1. CASE UNCHANGED vars
  BY <1>0, <1>1, Stutters DEF vars, Active
<1>2. ASSUME NEW t \in Requests, Expire(t)
      PROVE  Promised
  <2>1. t \in issued \ expired
    BY <1>2 DEF Expire, SystemInv, AuthInv, SessionInv, TablesInv
  <2>2. UNCHANGED <<users, issued, Active, op, tok>>
    BY <1>2 DEF Expire, Active, inputs
  <2>3. UNCHANGED <<Sessions!sessions, Account>>
    BY <2>2 DEF Sessions!sessions, Account, Exchanged
  <2>4. Sessions!Expire(t)
    BY <1>0, <1>2, <2>1, <2>3 DEF Expire, Sessions!Expire
  <2> QED
    BY <2>4 DEF Promised, Sessions!SessionNext
<1>3. CASE CleanupExpiredTokens
  <2>1. UNCHANGED <<users, expired, issued>> /\ Active' = Active \ expired
    BY <1>3 DEF CleanupExpiredTokens, Active, Dead
  <2>2. UNCHANGED <<Account, Exchanged>>
    BY <1>0, <2>1, HeirsGrow DEF Account, Exchanged, SystemInv, AuthInv
  <2>3. CASE Active \cap expired = {}
    BY <1>0, <2>1, <2>3, Stutters
  <2>4. CASE Active \cap expired # {}
    <3>1. Sessions!Cleanup
      BY <1>0, <2>1, <2>2, <2>4 DEF Sessions!Cleanup, Sessions!Ledger!Close
    <3> QED
      BY <3>1 DEF Promised, Sessions!SessionNext
  <2> QED
    BY <2>3, <2>4
<1> QED
  BY <1>1, <1>2, <1>3

(* The refinement of the whole: whatever statements of however many use cases
   come between each other, clients see what ClientSession allows. *)
THEOREM SystemKeepsSessions == SystemSpec => ClientsSpec
<1>1. SystemInit => Sessions!SessionInit
  BY DEF SystemInit, Init, Sessions!SessionInit, Sessions!Init, Sessions!Ledger!Init, Active,
         Exchanged, Account
<1>2. SystemInv /\ [SystemNext]_systemVars => [Sessions!SessionNext]_(Sessions!sessionVars)
  BY WorkRefines, FailAtOnceRefines, ClientsRefine, TimeRefines DEF SystemNext, systemVars, Promised
<1> QED
  BY <1>1, <1>2, SystemSound, PTL DEF SystemSpec, ClientsSpec, Sessions!SessionSpec

--------------------------------------------------------------------------------
(* What is proved of ClientSession holds of the clients of the real service. *)

LEMMA SessionsApply ==
  /\ {"none", "ok", "error", "unknown"} \cap Denials = {}
  /\ Sessions!TokenErrors \cup Sessions!AccountErrors \cup {"ErrInvalidCredentials"}
       \subseteq Denials
  /\ None \notin Requests
  OBVIOUS

(* A client that uses the token it was sent last is logged out by nothing that
   the use cases do to each other's rows. *)
THEOREM HonestClientsOfTheService == SystemSpec => []Sessions!HonestClientsStayIn
  BY SystemKeepsSessions, SessionsApply, Sessions!HonestClientsAreSafe DEF ClientsSpec

(* A session of the real service that can be used is held by a client, or its
   answer is under way, or an answer was lost that would have brought it. *)
THEOREM NoStraySessionsAtTheService == SystemSpec => []Sessions!NoStraySessions
  BY SystemKeepsSessions, SessionsApply, Sessions!NothingStaysOpenUnseen DEF ClientsSpec

(* The calls of the clients keep to the channel that the gateway promises, so
   what a client is told of a call stays true. *)
THEOREM SystemKeepsVerdicts == SystemSpec => []Sessions!VerdictsAreFinal
  BY SystemKeepsSessions, SessionsApply, Sessions!VerdictsCanBeTrusted DEF ClientsSpec

================================================================================
