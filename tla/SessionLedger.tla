----------------------------- MODULE SessionLedger -----------------------------
(***************************************************************************)
(* What the auth service promises about refresh tokens, free of requests,  *)
(* tables and locks.  A session is one refresh token.  It is issued open,  *)
(* it is exchanged at most once, in one indivisible step that closes it    *)
(* and opens its heir, and once closed it stays closed.                    *)
(***************************************************************************)
EXTENDS TLAPS

CONSTANT Sessions

VARIABLES
  issued,     \* every session that was ever opened
  open,       \* the sessions a client can still exchange
  exchanged   \* pairs <<s, t>>: session s was given up for session t

vars == <<issued, open, exchanged>>

Init ==
  /\ issued = {}
  /\ open = {}
  /\ exchanged = {}

(* A registration or a login opens a session. *)
Issue(t) ==
  /\ t \notin issued
  /\ issued' = issued \cup {t}
  /\ open' = open \cup {t}
  /\ UNCHANGED exchanged

(* A refresh gives up one open session for a new one. *)
Exchange(s, t) ==
  /\ s \in open
  /\ t \notin issued
  /\ issued' = issued \cup {t}
  /\ open' = (open \ {s}) \cup {t}
  /\ exchanged' = exchanged \cup {<<s, t>>}

(* Logout, the reuse alarm and the cleanup close sessions. *)
Close(S) ==
  /\ S # {}
  /\ open' = open \ S
  /\ UNCHANGED <<issued, exchanged>>

Next ==
  \/ \E t \in Sessions : Issue(t)
  \/ \E s, t \in Sessions : Exchange(s, t)
  \/ \E S \in SUBSET open : Close(S)

Spec == Init /\ [][Next]_vars

--------------------------------------------------------------------------------

TypeOK ==
  /\ issued \subseteq Sessions
  /\ open \subseteq issued
  /\ exchanged \subseteq issued \X issued

(* Of the sessions that descend from one another at most one is open: a
   session that was exchanged is closed, it has one heir, and an heir has one
   parent (app/auth.go RefreshTokens over postgres RotateRefreshToken). *)
OneLiveHeir ==
  \A x, y \in exchanged :
     /\ x[1] \notin open
     /\ (x[1] = y[1]) <=> (x[2] = y[2])

(* A closed session is never opened again, whatever is exchanged later. *)
ClosedForGood == [][\A t \in issued : t \notin open => t \notin open']_vars

--------------------------------------------------------------------------------
(* What the ledger promises, for any set of sessions. *)

(* Open sessions were issued, and only issued ones are exchanged. *)
LEMMA LedgerTypeInit == Init => TypeOK
  BY DEF Init, TypeOK

LEMMA LedgerTypeStep == TypeOK /\ [Next]_vars => TypeOK'
<1> USE DEF TypeOK
<1>1. ASSUME TypeOK, NEW t \in Sessions, Issue(t)
      PROVE  TypeOK'
  BY <1>1 DEF Issue
<1>2. ASSUME TypeOK, NEW s \in Sessions, NEW t \in Sessions, Exchange(s, t)
      PROVE  TypeOK'
  BY <1>2 DEF Exchange
<1>3. ASSUME TypeOK, NEW S \in SUBSET open, Close(S)
      PROVE  TypeOK'
  BY <1>3 DEF Close
<1> QED
  BY <1>1, <1>2, <1>3 DEF Next, vars

(* Well-formedness of the ledger. *)
THEOREM LedgerTypeCorrect == Spec => []TypeOK
  BY LedgerTypeInit, LedgerTypeStep, PTL DEF Spec

(* A session that was exchanged is closed and has one heir; an heir has one
   parent. *)
THEOREM LineageIsAChain == Spec => []OneLiveHeir
<1>1. Init => OneLiveHeir
  BY DEF Init, OneLiveHeir
<1>2. TypeOK /\ OneLiveHeir /\ [Next]_vars => OneLiveHeir'
  <2> SUFFICES ASSUME TypeOK, OneLiveHeir, [Next]_vars
               PROVE  OneLiveHeir'
    OBVIOUS
  <2>1. ASSUME NEW t \in Sessions, Issue(t)
        PROVE  OneLiveHeir'
    <3>1. \A x \in exchanged : x[1] # t
      BY <2>1 DEF TypeOK, Issue
    <3> QED
      BY <2>1, <3>1 DEF OneLiveHeir, Issue
  <2>2. ASSUME NEW s \in Sessions, NEW t \in Sessions, Exchange(s, t)
        PROVE  OneLiveHeir'
    <3>1. \A x \in exchanged : x[1] # t /\ x[2] # t /\ x[1] # s
      BY <2>2 DEF TypeOK, OneLiveHeir, Exchange
    <3>2. s # t
      BY <2>2 DEF TypeOK, Exchange
    <3> QED
      BY <2>2, <3>1, <3>2 DEF OneLiveHeir, Exchange
  <2>3. ASSUME NEW S \in SUBSET open, Close(S)
        PROVE  OneLiveHeir'
    BY <2>3 DEF OneLiveHeir, Close
  <2>4. CASE UNCHANGED vars
    BY <2>4 DEF OneLiveHeir, vars
  <2> QED
    BY <2>1, <2>2, <2>3, <2>4 DEF Next
<1> QED
  BY <1>1, <1>2, LedgerTypeCorrect, PTL DEF Spec

(* No step opens a session that was issued before and is closed. *)
THEOREM ClosedStaysClosed == Spec => ClosedForGood
<1>1. TypeOK /\ [Next]_vars => [\A t \in issued : t \notin open => t \notin open']_vars
  BY DEF TypeOK, Next, Issue, Exchange, Close
<1> QED
  BY <1>1, LedgerTypeCorrect, PTL DEF Spec, ClosedForGood

================================================================================
