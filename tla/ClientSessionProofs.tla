--------------------------- MODULE ClientSessionProofs --------------------------
(* Proofs about clients and their sessions, for any number of requests and of
   devices. *)
EXTENDS ClientSession, TLAPS

USE DenialsAssumption, ClientAssumption

(* The steps are those of the gateway's promise and of the auth service's. *)
LEMMA StepsOfTheChannel == [SessionNext]_sessionVars => [Next]_vars
<1> SUFFICES ASSUME [SessionNext]_sessionVars
             PROVE  [Next]_vars
  OBVIOUS
<1>1. ASSUME NEW d \in Clients, NEW c \in Calls, NEW o, Begin(d, c, o)
      PROVE  Next
  BY <1>1 DEF Begin, Ask, Next
<1>2. ASSUME NEW c \in Calls, Register(c) \/ Login(c) \/ Refresh(c) \/ Logout(c) \/ Failed(c)
      PROVE  Next
  BY <1>2 DEF Register, Login, Refresh, Logout, Failed, Alarm, Done, Denied, Ends, Next
<1>3. ASSUME NEW d \in Clients, NEW c \in Calls, Hear(d, c)
      PROVE  Next
  BY <1>3 DEF Hear, Adopt, Next
<1>4. CASE Cleanup \/ (\E t \in Calls : Expire(t)) \/ \E c \in Calls : Enrol(c)
  BY <1>4 DEF Cleanup, Expire, Enrol
<1>5. CASE UNCHANGED sessionVars
  BY <1>5 DEF sessionVars
<1> QED
  BY <1>1, <1>2, <1>3, <1>4, <1>5 DEF SessionNext

LEMMA StepsOfTheLedger ==
  ASSUME \A c \in Calls : Presents(op[c]) => token[c] \in Calls, SessionTypeOK, [SessionNext]_sessionVars
  PROVE  [Ledger!Next]_sessions
<1>1. ASSUME NEW d \in Clients, NEW c \in Calls, NEW o, Begin(d, c, o) \/ Hear(d, c)
      PROVE  UNCHANGED sessions
  BY <1>1 DEF Begin, Ask, Hear, Adopt
<1>2. ASSUME NEW S \in SUBSET open, Ledger!Close(S)
      PROVE  Ledger!Next
  BY <1>2 DEF Ledger!Next
<1>3. ASSUME NEW c \in Calls, Register(c) \/ Login(c)
      PROVE  [Ledger!Next]_sessions
  BY <1>3 DEF Register, Login, Ledger!Next
<1>4. ASSUME NEW c \in Calls, Refresh(c)
      PROVE  [Ledger!Next]_sessions
  BY <1>2, <1>4 DEF Refresh, Alarm, Ledger!Next, Presents
<1>5. ASSUME NEW c \in Calls, Logout(c) \/ Failed(c)
      PROVE  [Ledger!Next]_sessions
  BY <1>2, <1>5 DEF Logout, Failed
<1>6. CASE Cleanup \/ (\E t \in Calls : Expire(t)) \/ \E c \in Calls : Enrol(c)
  BY <1>2, <1>6 DEF Cleanup, Expire, Enrol
<1>7. CASE UNCHANGED sessionVars
  BY <1>7 DEF sessionVars
<1> QED
  BY <1>1, <1>3, <1>4, <1>5, <1>6, <1>7 DEF SessionNext

--------------------------------------------------------------------------------
(* The argument.  A client holds the token of its last success and presents
   it, so a token is presented by one client.  What a client is answered is
   what its use case ended with.  As long as every refresh and every logout is
   answered and nothing expires, the token of a client is open until its own
   request has closed it. *)

Types == SessionTypeOK

CallInv(c) ==
  /\ op[c] = "none" <=> fate[c] = "unsent"
  /\ fate[c] \in {"unsent", "sent"} => reply[c] = "none"
  /\ verdict[c] \in {"none", "unknown", reply[c]}
  /\ reply[c] = "ok" => fate[c] = "done"
  /\ reply[c] \in Denials => fate[c] = "undone"
  /\ op[c] # "none" /\ verdict[c] = "none" => \E d \in Clients : waiting[d] = c
  /\ op[c] = "none" => verdict[c] = "none"

TokenInv(c) ==
  /\ c \in issued => fate[c] = "done" /\ op[c] # "logout"
  /\ reply[c] = "ok" /\ op[c] # "logout" => c \in issued
  /\ Presents(op[c]) => token[c] \in issued
  /\ Presents(op[c]) /\ fate[c] = "done" => token[c] \notin open
  /\ reply[c] \in TokenErrors => Presents(op[c]) /\ (token[c] \notin open \/ token[c] \in expired)

ClientInv(d) ==
  /\ waiting[d] # None =>
       /\ op[waiting[d]] # "none" /\ verdict[waiting[d]] = "none"
       /\ token[waiting[d]] = held[d]
       /\ Presents(op[waiting[d]]) <=> held[d] # None
  /\ held[d] # None => held[d] \in issued /\ verdict[held[d]] = "ok"
  /\ \A e \in Clients \ {d} :
       /\ held[d] # None => held[e] # held[d]
       /\ waiting[d] # None => waiting[e] # waiting[d]

Quiet == expired = {} /\ \A q \in Calls : verdict[q] = "unknown" => ~Presents(op[q])

QuietInv ==
  Quiet =>
    /\ \A c \in Calls : reply[c] \notin TokenErrors
    /\ \A c \in Calls : reply[c] = "ok" /\ verdict[c] = "none" /\ op[c] # "logout" => c \in open
    /\ \A d \in Clients :
         held[d] # None =>
           held[d] \in open \/ (waiting[d] # None /\ fate[waiting[d]] = "done")

CallsInv == \A c \in Calls : CallInv(c)
TokensInv == \A c \in Calls : TokenInv(c)
ClientsInv == \A d \in Clients : ClientInv(d)

SessionInv == Types /\ CallsInv /\ TokensInv /\ ClientsInv /\ QuietInv /\ NoStraySessions

LEMMA SessionStart == SessionInit => SessionInv
<1> SUFFICES ASSUME SessionInit
             PROVE  SessionInv
  OBVIOUS
<1> USE DEF SessionInit, Init, Ledger!Init
<1>1. Types
  BY DEF Types, SessionTypeOK, TypeOK, Ledger!TypeOK
<1>2. CallsInv
  BY DEF CallsInv, CallInv
<1>3. TokensInv
  BY DEF TokensInv, TokenInv, Presents, TokenErrors
<1>4. ClientsInv
  BY DEF ClientsInv, ClientInv
<1>5. QuietInv /\ NoStraySessions
  BY DEF QuietInv, TokenErrors, NoStraySessions
<1> QED
  BY <1>1, <1>2, <1>3, <1>4, <1>5 DEF SessionInv

(* A client that presents a token while all is quiet finds it open. *)
LEMMA QuietTokenIsOpen ==
  ASSUME SessionInv, Quiet, NEW c \in Calls, fate[c] = "sent", Presents(op[c])
  PROVE  /\ token[c] \in open /\ token[c] \notin expired /\ verdict[c] = "none"
         /\ \E d \in Clients : waiting[d] = c /\ held[d] = token[c]
<1>1. op[c] # "none" /\ reply[c] = "none"
  BY DEF SessionInv, CallsInv, CallInv
<1>2. verdict[c] = "none"
  BY <1>1 DEF Quiet, SessionInv, CallsInv, CallInv
<1>3. PICK d \in Clients : waiting[d] = c
  BY <1>1, <1>2 DEF SessionInv, CallsInv, CallInv
<1>4. held[d] = token[c] /\ held[d] # None
  BY <1>3 DEF SessionInv, ClientsInv, ClientInv
<1>5. held[d] \in open
  BY <1>3, <1>4 DEF SessionInv, QuietInv
<1> QED
  BY <1>2, <1>3, <1>4, <1>5 DEF Quiet

(* Nobody holds a token that nobody was sent. *)
LEMMA NobodyHolds ==
  ASSUME SessionInv, NEW c \in Calls, verdict[c] # "ok"
  PROVE  \A d \in Clients : held[d] # c
  BY DEF SessionInv, ClientsInv, ClientInv

--------------------------------------------------------------------------------
(* What the end of a use case does to its request. *)
Fits(f, e) ==
  \/ f = "done" /\ e \in {"ok", "error"}
  \/ f = "undone" /\ e \in Denials \cup {"error"}

LEMMA EndsEffect ==
  ASSUME SessionInv, NEW c \in Calls, NEW f, NEW e, Ends(c, f, e), Fits(f, e)
  PROVE  /\ fate[c] = "sent" /\ op[c] # "none" /\ reply[c] = "none"
         /\ fate' = [fate EXCEPT ![c] = f] /\ verdict' = verdict
         /\ \A b \in Calls \ {c} : reply'[b] = reply[b]
         /\ reply'[c] = IF verdict[c] = "none" THEN e ELSE "none"
         /\ TypeOK'
<1>1. /\ fate[c] = "sent" /\ verdict' = verdict
      /\ fate' = [fate EXCEPT ![c] = f]
      /\ reply'[c] = IF verdict[c] = "none" THEN e ELSE "none"
  BY DEF Ends, TakeUp
<1>2. op[c] # "none" /\ reply[c] = "none"
  BY <1>1 DEF SessionInv, CallsInv, CallInv
<1>3. PICK r : reply' = [reply EXCEPT ![c] = r]
  BY DEF Ends, TakeUp
<1>4. r \in Denials \cup {"none", "ok", "error"} /\ f \in {"done", "undone"}
  BY <1>1, <1>3 DEF Fits, SessionInv, Types, SessionTypeOK, TypeOK
<1> QED
  BY <1>1, <1>2, <1>3, <1>4 DEF SessionInv, Types, SessionTypeOK, TypeOK

LEMMA EndsKeeps ==
  ASSUME SessionInv, NEW c \in Calls, NEW f, NEW e, Ends(c, f, e), Fits(f, e),
         UNCHANGED <<requests, clients>>, issued \subseteq issued'
  PROVE  CallsInv' /\ ClientsInv'
<1>1. UNCHANGED <<op, token, held, waiting, verdict>>
  BY EndsEffect DEF requests, clients
<1>2. CallsInv'
  <2> SUFFICES ASSUME NEW b \in Calls
               PROVE  CallInv(b)'
    BY DEF CallsInv
  <2>1. CallInv(b)
    BY DEF SessionInv, CallsInv
  <2>2. CASE b = c
    BY <1>1, <2>1, <2>2, EndsEffect DEF CallInv, Fits, SessionInv, Types, SessionTypeOK, TypeOK
  <2>3. CASE b # c
    BY <1>1, <2>1, <2>3, EndsEffect DEF CallInv, SessionInv, Types, SessionTypeOK, TypeOK
  <2> QED
    BY <2>2, <2>3
<1>3. ClientsInv'
  BY <1>1 DEF SessionInv, ClientsInv, ClientInv, Presents
<1> QED
  BY <1>2, <1>3

(* A registration or a login opens a session. *)
LEMMA IssueKeeps ==
  ASSUME SessionInv, NEW c \in Calls, Register(c) \/ Login(c), Done(c), Ledger!Issue(c)
  PROVE  SessionInv'
<1>1. /\ op[c] \in {"register", "login"}
      /\ issued' = issued \cup {c} /\ open' = open \cup {c} /\ c \notin issued
      /\ UNCHANGED <<exchanged, expired, account, requests, clients>>
  BY DEF Register, Login, Ledger!Issue
<1>0. PICK e \in {"ok", "error"} : Ends(c, "done", e) /\ Fits("done", e)
  BY DEF Done, Fits
<1>2. UNCHANGED <<op, token, held, waiting, verdict>>
  BY <1>0, <1>1, EndsEffect DEF requests, clients
<1>3. CallsInv' /\ ClientsInv'
  BY <1>0, <1>1, EndsKeeps
<1>4. Types'
  <2>1. TypeOK'
    BY <1>0, <1>1, EndsEffect
  <2> QED
    BY <1>1, <1>2, <2>1 DEF SessionInv, Types, SessionTypeOK, Ledger!TypeOK
<1>5. TokensInv'
  <2> SUFFICES ASSUME NEW b \in Calls
               PROVE  TokenInv(b)'
    BY DEF TokensInv
  <2>1. TokenInv(b) /\ CallInv(b)
    BY DEF SessionInv, TokensInv, CallsInv
  <2>2. CASE b = c
    <3>1. ~Presents(op[b]) /\ reply'[b] \in {"ok", "error", "none"} /\ fate'[b] = "done"
      BY <1>0, <1>1, <2>2, EndsEffect DEF Presents, SessionInv, Types, SessionTypeOK, TypeOK
    <3> QED
      BY <1>1, <1>2, <2>2, <3>1 DEF TokenInv, TokenErrors, Presents
  <2>3. CASE b # c
    <3>1. fate'[b] = fate[b] /\ reply'[b] = reply[b]
      BY <1>0, <1>1, <2>3, EndsEffect DEF SessionInv, Types, SessionTypeOK, TypeOK
    <3> QED
      BY <1>1, <1>2, <2>1, <2>3, <3>1 DEF TokenInv, Presents
  <2> QED
    BY <2>2, <2>3
<1>6. QuietInv'
  <2> SUFFICES ASSUME Quiet'
               PROVE  QuietInv'
    BY DEF QuietInv
  <2>1. Quiet
    BY <1>1, <1>2 DEF Quiet, Presents
  <2>2. reply'[c] \in {"ok", "error", "none"} /\ \A b \in Calls \ {c} : reply'[b] = reply[b] /\ fate'[b] = fate[b]
    BY <1>0, <1>1, EndsEffect DEF SessionInv, Types, SessionTypeOK, TypeOK
  <2>3. fate[c] = "sent"
    BY <1>0, <1>1, EndsEffect
  <2>4. \A d \in Clients : waiting[d] # None => waiting[d] \in Calls
    BY DEF SessionInv, Types, SessionTypeOK
  <2> QED
    BY <1>1, <1>2, <2>1, <2>2, <2>3, <2>4 DEF QuietInv, SessionInv, TokenErrors
<1>7. NoStraySessions'
  <2>1. c \in Lost' \/ \E d \in Clients : waiting[d] = c
    BY <1>0, <1>1, EndsEffect DEF Lost, SessionInv, CallsInv, CallInv
  <2>2. Lost' = Lost
    BY <1>2 DEF Lost
  <2> QED
    BY <1>1, <1>2, <2>1, <2>2 DEF NoStraySessions, SessionInv
<1> QED
  BY <1>3, <1>4, <1>5, <1>6, <1>7 DEF SessionInv

(* A refresh puts a session in the place of the one that it closes. *)
LEMMA ExchangeKeeps ==
  ASSUME SessionInv, NEW c \in Calls, Refresh(c), Done(c), Ledger!Exchange(token[c], c)
  PROVE  SessionInv'
<1>1. /\ op[c] = "refresh" /\ token[c] \in open /\ c \notin issued
      /\ issued' = issued \cup {c} /\ open' = (open \ {token[c]}) \cup {c}
      /\ exchanged' = exchanged \cup {<<token[c], c>>}
      /\ UNCHANGED <<expired, account, requests, clients>>
  BY DEF Refresh, Ledger!Exchange
<1>0. PICK e \in {"ok", "error"} : Ends(c, "done", e) /\ Fits("done", e)
  BY DEF Done, Fits
<1>2. UNCHANGED <<op, token, held, waiting, verdict>>
  BY <1>0, <1>1, EndsEffect DEF requests, clients
<1>3. CallsInv' /\ ClientsInv'
  BY <1>0, <1>1, EndsKeeps
<1>4. token[c] \in issued /\ open \subseteq issued /\ issued \subseteq Calls /\ fate[c] = "sent"
  BY <1>0, <1>1, EndsEffect DEF SessionInv, Types, SessionTypeOK, Ledger!TypeOK
<1>5. Types'
  <2>1. TypeOK'
    BY <1>0, <1>1, EndsEffect
  <2>2. Ledger!TypeOK'
    BY <1>1, <1>4 DEF SessionInv, Types, SessionTypeOK, Ledger!TypeOK
  <2> QED
    BY <1>1, <1>2, <2>1, <2>2 DEF SessionInv, Types, SessionTypeOK
<1>6. TokensInv'
  <2> SUFFICES ASSUME NEW b \in Calls
               PROVE  TokenInv(b)'
    BY DEF TokensInv
  <2>1. TokenInv(b)
    BY DEF SessionInv, TokensInv
  <2>2. CASE b = c
    <3>1. reply'[b] \in {"ok", "error", "none"} /\ fate'[b] = "done"
      BY <1>0, <1>1, <2>2, EndsEffect DEF SessionInv, Types, SessionTypeOK, TypeOK
    <3> QED
      BY <1>1, <1>2, <1>4, <2>2, <3>1 DEF TokenInv, TokenErrors, Presents
  <2>3. CASE b # c
    <3>1. fate'[b] = fate[b] /\ reply'[b] = reply[b]
      BY <1>0, <1>1, <2>3, EndsEffect DEF SessionInv, Types, SessionTypeOK, TypeOK
    <3>2. Presents(op[b]) => token[b] # c
      BY <1>1, <2>1 DEF TokenInv
    <3> QED
      BY <1>1, <1>2, <2>1, <2>3, <3>1, <3>2 DEF TokenInv, Presents
  <2> QED
    BY <2>2, <2>3
<1>7. QuietInv'
  <2> SUFFICES ASSUME Quiet'
               PROVE  QuietInv'
    BY DEF QuietInv
  <2>1. Quiet
    BY <1>1, <1>2 DEF Quiet, Presents
  <2>2. reply'[c] \in {"ok", "error", "none"} /\ \A b \in Calls \ {c} : reply'[b] = reply[b] /\ fate'[b] = fate[b]
    BY <1>0, <1>1, EndsEffect DEF SessionInv, Types, SessionTypeOK, TypeOK
  <2>3. fate'[c] = "done"
    BY <1>0, <1>1, EndsEffect DEF SessionInv, Types, SessionTypeOK, TypeOK
  <2>4. PICK d \in Clients : waiting[d] = c /\ held[d] = token[c]
    BY <1>1, <1>4, <2>1, QuietTokenIsOpen DEF Presents
  <2>5. held[d] # None /\ verdict[token[c]] = "ok" /\ \A x \in Clients \ {d} : held[x] # token[c]
    BY <1>4, <2>4 DEF SessionInv, ClientsInv, ClientInv
  <2>6. \A b \in Calls : reply'[b] = "ok" /\ verdict[b] = "none" /\ op[b] # "logout" => b \in open'
    BY <1>1, <2>1, <2>2, <2>5 DEF QuietInv, SessionInv
  <2>7. ASSUME NEW x \in Clients, held[x] # None
        PROVE  held[x] \in open' \/ (waiting[x] # None /\ fate'[waiting[x]] = "done")
    <3>1. CASE x = d
      BY <2>3, <2>4, <3>1
    <3>2. CASE x # d
      <4>1. held[x] \in open \/ (waiting[x] # None /\ fate[waiting[x]] = "done")
        BY <2>1, <2>7 DEF SessionInv, QuietInv
      <4>2. waiting[x] \in Calls \cup {None}
        BY DEF SessionInv, Types, SessionTypeOK
      <4> QED
        BY <1>1, <1>4, <2>2, <2>5, <3>2, <4>1, <4>2
    <3> QED
      BY <3>1, <3>2
  <2> QED
    BY <1>2, <2>1, <2>2, <2>6, <2>7 DEF QuietInv, SessionInv, TokenErrors
<1>8. NoStraySessions'
  <2>1. c \in Lost' \/ \E d \in Clients : waiting[d] = c
    BY <1>0, <1>1, EndsEffect DEF Lost, SessionInv, CallsInv, CallInv
  <2>2. Lost' = Lost
    BY <1>2 DEF Lost
  <2> QED
    BY <1>1, <1>2, <2>1, <2>2 DEF NoStraySessions, SessionInv
<1> QED
  BY <1>3, <1>5, <1>6, <1>7, <1>8 DEF SessionInv

(* A use case that opens nothing.  What it closes is not the token of a client
   that goes on with it. *)
LEMMA CloseKeeps ==
  ASSUME SessionInv, NEW c \in Calls, NEW f, NEW e, Ends(c, f, e), Fits(f, e),
         UNCHANGED <<issued, exchanged, expired, requests, clients>>,
         open' \subseteq open, account' \in Calls \cup {None},
         e \in TokenErrors => Presents(op[c]) /\ Spent(token[c]),
         e = "ok" => op[c] = "logout",
         Presents(op[c]) /\ f = "done" => token[c] \notin open',
         Quiet => open' = open \/ (op[c] = "logout" /\ f = "done" /\ open' = open \ {token[c]})
  PROVE  SessionInv'
<1>1. UNCHANGED <<op, token, held, waiting, verdict>>
  BY EndsEffect DEF requests, clients
<1>2. CallsInv' /\ ClientsInv'
  BY EndsKeeps
<1>3. fate[c] = "sent" /\ fate'[c] = f /\ reply'[c] \in {e, "none"}
  BY EndsEffect DEF SessionInv, Types, SessionTypeOK, TypeOK
<1>4. \A b \in Calls \ {c} : reply'[b] = reply[b] /\ fate'[b] = fate[b]
  BY EndsEffect DEF SessionInv, Types, SessionTypeOK, TypeOK
<1>5. Types'
  <2>1. TypeOK'
    BY EndsEffect
  <2>2. Ledger!TypeOK'
    BY DEF SessionInv, Types, SessionTypeOK, Ledger!TypeOK
  <2> QED
    BY <1>1, <2>1, <2>2 DEF SessionInv, Types, SessionTypeOK
<1>6. TokensInv'
  <2> SUFFICES ASSUME NEW b \in Calls
               PROVE  TokenInv(b)'
    BY DEF TokensInv
  <2>1. TokenInv(b)
    BY DEF SessionInv, TokensInv
  <2>2. CASE b = c
    <3>1. c \notin issued
      BY <1>3, <2>1, <2>2 DEF TokenInv
    <3>2. reply'[c] \in TokenErrors => Presents(op[c]) /\ (token[c] \notin open' \/ token[c] \in expired)
      BY <1>3 DEF Spent, TokenErrors
    <3> QED
      BY <1>1, <1>3, <2>1, <2>2, <3>1, <3>2 DEF TokenInv, Presents
  <2>3. CASE b # c
    BY <1>1, <1>4, <2>1, <2>3 DEF TokenInv, Presents
  <2> QED
    BY <2>2, <2>3
<1>7. QuietInv'
  <2> SUFFICES ASSUME Quiet'
               PROVE  QuietInv'
    BY DEF QuietInv
  <2>1. Quiet
    BY <1>1 DEF Quiet, Presents
  <2>2. Presents(op[c]) => /\ ~Spent(token[c])
                           /\ \E d \in Clients : waiting[d] = c /\ held[d] = token[c]
    BY <1>3, <2>1, QuietTokenIsOpen DEF Spent
  <2>3. \A b \in Calls : reply'[b] \notin TokenErrors
    BY <1>3, <1>4, <2>1, <2>2 DEF SessionInv, QuietInv, TokenErrors
  <2>4. \A x \in Clients : waiting[x] \in Calls \cup {None}
    BY DEF SessionInv, Types, SessionTypeOK
  <2>5. CASE open' = open
    BY <1>1, <1>3, <1>4, <2>1, <2>3, <2>4, <2>5 DEF QuietInv, SessionInv
  <2>6. CASE op[c] = "logout" /\ f = "done" /\ open' = open \ {token[c]}
    <3>1. PICK d \in Clients : waiting[d] = c /\ held[d] = token[c]
      BY <2>2, <2>6 DEF Presents
    <3>2. token[c] \in issued
      BY <2>6 DEF SessionInv, TokensInv, TokenInv, Presents
    <3>3. held[d] # None /\ verdict[token[c]] = "ok" /\ \A x \in Clients \ {d} : held[x] # token[c]
      BY <3>1, <3>2 DEF SessionInv, ClientsInv, ClientInv, Types, SessionTypeOK, Ledger!TypeOK
    <3>4. \A b \in Calls : reply'[b] = "ok" /\ verdict[b] = "none" /\ op[b] # "logout" => b \in open'
      BY <1>4, <2>1, <2>6, <3>3 DEF QuietInv, SessionInv
    <3>5. ASSUME NEW x \in Clients, held[x] # None
          PROVE  held[x] \in open' \/ (waiting[x] # None /\ fate'[waiting[x]] = "done")
      <4>1. held[x] \in open \/ (waiting[x] # None /\ fate[waiting[x]] = "done")
        BY <2>1, <3>5 DEF SessionInv, QuietInv
      <4> QED
        BY <1>3, <1>4, <2>4, <2>6, <3>1, <3>3, <4>1
    <3> QED
      BY <1>1, <2>3, <3>4, <3>5 DEF QuietInv
  <2> QED
    BY <2>1, <2>5, <2>6
<1>8. NoStraySessions'
  <2>1. Lost' = Lost
    BY <1>1 DEF Lost
  <2> QED
    BY <1>1, <2>1 DEF NoStraySessions, SessionInv
<1> QED
  BY <1>2, <1>5, <1>6, <1>7, <1>8 DEF SessionInv

LEMMA UseCaseKeeps ==
  ASSUME SessionInv, NEW c \in Calls,
         Register(c) \/ Login(c) \/ Refresh(c) \/ Logout(c) \/ Failed(c)
  PROVE  SessionInv'
<1> USE DEF Denied
<1>0. /\ account \in Calls \cup {None}
      /\ Spent(token[c]) /\ Quiet /\ Presents(op[c]) => fate[c] # "sent"
      /\ "error" \notin TokenErrors /\ Fits("undone", "error")
  BY QuietTokenIsOpen DEF Spent, SessionInv, Types, SessionTypeOK, TokenErrors, Fits
<1>1. CASE Register(c)
  <2>0. ~Presents(op[c]) /\ UNCHANGED <<expired, account, requests, clients>>
    BY <1>1 DEF Register, Presents
  <2>1. CASE Done(c) /\ Ledger!Issue(c)
    BY <1>1, <2>1, IssueKeeps
  <2>2. CASE Ends(c, "done", "error") /\ UNCHANGED sessions
    BY <1>0, <2>0, <2>2, CloseKeeps DEF Fits, sessions
  <2>3. ASSUME NEW e \in AccountErrors, Denied(c, e), UNCHANGED sessions
        PROVE  SessionInv'
    <3>1. Fits("undone", e) /\ e \notin TokenErrors /\ e # "ok"
      BY DEF AccountErrors, TokenErrors, Fits
    <3> QED
      BY <1>0, <2>0, <2>3, <3>1, CloseKeeps DEF sessions
  <2> QED
    BY <1>1, <2>1, <2>2, <2>3 DEF Register
<1>2. CASE Login(c)
  <2>1. CASE Done(c) /\ Ledger!Issue(c)
    BY <1>2, <2>1, IssueKeeps
  <2>2. CASE Denied(c, "ErrInvalidCredentials") /\ UNCHANGED sessions
    <3>1. ~Presents(op[c]) /\ UNCHANGED <<expired, account, requests, clients>>
      BY <1>2 DEF Login, Presents
    <3> QED
      BY <1>0, <2>2, <3>1, CloseKeeps DEF Fits, sessions, TokenErrors
  <2> QED
    BY <1>2, <2>1, <2>2 DEF Login
<1>3. CASE Refresh(c)
  <2>0. op[c] = "refresh" /\ Presents(op[c]) /\ UNCHANGED <<expired, account, requests, clients>>
    BY <1>3 DEF Refresh, Presents
  <2>1. CASE Done(c) /\ Ledger!Exchange(token[c], c)
    BY <1>3, <2>1, ExchangeKeeps
  <2>2. CASE Spent(token[c]) /\ Denied(c, "ErrInvalidRefreshToken") /\ UNCHANGED sessions
    BY <1>0, <2>0, <2>2, CloseKeeps DEF Fits, sessions, TokenErrors
  <2>3. CASE Spent(token[c]) /\ Alarm(c)
    <3>1. PICK e \in {"ErrRevokedRefreshToken", "error"} : Ends(c, "undone", e)
      BY <2>3 DEF Alarm
    <3>2. UNCHANGED <<issued, exchanged>> /\ open' \subseteq open
      BY <2>3 DEF Alarm, sessions, Ledger!Close
    <3>3. fate[c] = "sent"
      BY <3>1 DEF Ends, TakeUp
    <3>4. ~Quiet
      BY <1>0, <2>0, <2>3, <3>3
    <3>5. Fits("undone", e) /\ e # "ok"
      BY DEF Fits, TokenErrors
    <3> HIDE DEF Quiet
    <3> QED
      BY <1>0, <2>0, <2>3, <3>1, <3>2, <3>4, <3>5, CloseKeeps
  <2> QED
    BY <1>3, <2>1, <2>2, <2>3 DEF Refresh
<1>4. CASE Logout(c)
  <2>1. /\ op[c] = "logout" /\ Presents(op[c])
        /\ UNCHANGED <<expired, account, requests, clients>>
    BY <1>4 DEF Logout, Presents
  <2>2. UNCHANGED <<issued, exchanged>> /\ open' = open \ {token[c]}
    BY <1>4 DEF Logout, sessions, Ledger!Close
  <2>3. PICK e \in {"ok", "error"} : Ends(c, "done", e)
    BY <1>4 DEF Logout, Done
  <2>4. Fits("done", e) /\ e \notin TokenErrors
    BY DEF Fits, TokenErrors
  <2> QED
    BY <1>0, <2>1, <2>2, <2>3, <2>4, CloseKeeps
<1>5. CASE Failed(c)
  <2>1. Ends(c, "undone", "error") /\ UNCHANGED <<sessions, expired, account, requests, clients>>
    BY <1>5 DEF Failed
  <2> QED
    BY <1>0, <2>1, CloseKeeps DEF sessions
<1> QED
  BY <1>1, <1>2, <1>3, <1>4, <1>5

(* The account is of no concern to the sessions. *)
LEMMA EnrolKeeps ==
  ASSUME SessionInv, NEW c \in Calls, Enrol(c)
  PROVE  SessionInv'
<1>1. /\ UNCHANGED <<fate, reply, verdict, issued, open, exchanged, expired, op, token, held, waiting>>
      /\ account' \in Calls
  BY DEF Enrol, vars, sessions, requests, clients
<1>2. Types'
  BY <1>1 DEF SessionInv, Types, SessionTypeOK, TypeOK, Ledger!TypeOK
<1>3. CallsInv' /\ TokensInv' /\ ClientsInv'
  BY <1>1 DEF SessionInv, CallsInv, CallInv, TokensInv, TokenInv, ClientsInv, ClientInv, Presents
<1>4. QuietInv' /\ NoStraySessions'
  BY <1>1 DEF SessionInv, QuietInv, Quiet, Presents, NoStraySessions, Lost
<1> QED
  BY <1>2, <1>3, <1>4 DEF SessionInv

LEMMA BeginKeeps ==
  ASSUME SessionInv, NEW d \in Clients, NEW c \in Calls,
         NEW o \in {"register", "login", "refresh", "logout"}, Begin(d, c, o)
  PROVE  SessionInv'
<1>1. /\ op[c] = "none" /\ waiting[d] = None /\ (Presents(o) <=> held[d] # None)
      /\ op' = [op EXCEPT ![c] = o] /\ token' = [token EXCEPT ![c] = held[d]]
      /\ fate' = [fate EXCEPT ![c] = "sent"] /\ waiting' = [waiting EXCEPT ![d] = c]
      /\ UNCHANGED <<reply, verdict, issued, open, exchanged, expired, account, held>>
  BY DEF Begin, Ask, Send, sessions
<1>2. fate[c] = "unsent" /\ reply[c] = "none" /\ verdict[c] = "none" /\ c \notin issued
  BY <1>1 DEF SessionInv, CallsInv, CallInv, TokensInv, TokenInv
<1>3. Types'
  <2>1. TypeOK'
    BY <1>1 DEF SessionInv, Types, SessionTypeOK, TypeOK
  <2> QED
    BY <1>1, <2>1 DEF SessionInv, Types, SessionTypeOK, Ledger!TypeOK
<1>4. \A x \in Clients : waiting[x] # c
  BY <1>1 DEF SessionInv, ClientsInv, ClientInv
<1>5. CallsInv'
  <2> SUFFICES ASSUME NEW b \in Calls
               PROVE  CallInv(b)'
    BY DEF CallsInv
  <2>1. CallInv(b)
    BY DEF SessionInv, CallsInv
  <2>2. CASE b = c
    <3>1. waiting'[d] = c
      BY <1>1 DEF SessionInv, Types, SessionTypeOK
    <3> QED
      BY <1>1, <1>2, <2>2, <3>1 DEF CallInv, SessionInv, Types, SessionTypeOK, TypeOK
  <2>3. CASE b # c
    <3>1. fate'[b] = fate[b] /\ op'[b] = op[b]
      BY <1>1, <2>3 DEF SessionInv, Types, SessionTypeOK, TypeOK
    <3>2. op[b] # "none" /\ verdict[b] = "none" => \E x \in Clients : waiting'[x] = b
      BY <1>1, <2>1 DEF CallInv, SessionInv, Types, SessionTypeOK
    <3> QED
      BY <1>1, <2>1, <3>1, <3>2 DEF CallInv
  <2> QED
    BY <2>2, <2>3
<1>6. TokensInv'
  <2> SUFFICES ASSUME NEW b \in Calls
               PROVE  TokenInv(b)'
    BY DEF TokensInv
  <2>1. TokenInv(b)
    BY DEF SessionInv, TokensInv
  <2>2. CASE b = c
    <3>1. op'[b] = o /\ token'[b] = held[d] /\ fate'[b] = "sent" /\ reply'[b] = "none"
      BY <1>1, <1>2, <2>2 DEF SessionInv, Types, SessionTypeOK, TypeOK
    <3>2. held[d] # None => held[d] \in issued
      BY DEF SessionInv, ClientsInv, ClientInv
    <3> QED
      BY <1>1, <1>2, <2>2, <3>1, <3>2 DEF TokenInv, TokenErrors, Presents
  <2>3. CASE b # c
    <3>1. fate'[b] = fate[b] /\ op'[b] = op[b] /\ token'[b] = token[b]
      BY <1>1, <2>3 DEF SessionInv, Types, SessionTypeOK, TypeOK
    <3> QED
      BY <1>1, <2>1, <3>1 DEF TokenInv, Presents
  <2> QED
    BY <2>2, <2>3
<1>7. ClientsInv'
  <2> SUFFICES ASSUME NEW x \in Clients
               PROVE  ClientInv(x)'
    BY DEF ClientsInv
  <2>1. ClientInv(x)
    BY DEF SessionInv, ClientsInv
  <2>2. c # None /\ (waiting[x] # None => waiting[x] \in Calls)
    BY DEF SessionInv, Types, SessionTypeOK
  <2>3. \A y \in Clients : waiting'[y] = IF y = d THEN c ELSE waiting[y]
    BY <1>1 DEF SessionInv, Types, SessionTypeOK
  <2>4. CASE x = d
    <3>1. op'[c] = o /\ token'[c] = held[d]
      BY <1>1 DEF SessionInv, Types, SessionTypeOK
    <3>2. o # "none"
      OBVIOUS
    <3> QED
      BY <1>1, <1>2, <1>4, <2>1, <2>2, <2>3, <2>4, <3>1, <3>2 DEF ClientInv, Presents
  <2>5. CASE x # d
    <3>1. waiting[x] # None => op'[waiting[x]] = op[waiting[x]] /\ token'[waiting[x]] = token[waiting[x]]
      BY <1>1, <1>4, <2>2 DEF SessionInv, Types, SessionTypeOK
    <3>2. UNCHANGED <<held, issued, verdict>> /\ waiting'[x] = waiting[x]
      BY <1>1, <2>3, <2>5
    <3>3. \A y \in Clients \ {x} : waiting[x] # None => waiting'[y] # waiting[x]
      BY <1>4, <2>1, <2>3 DEF ClientInv
    <3> QED
      BY <2>1, <3>1, <3>2, <3>3 DEF ClientInv, Presents
  <2> QED
    BY <2>4, <2>5
<1>8. QuietInv'
  <2> SUFFICES ASSUME Quiet'
               PROVE  QuietInv'
    BY DEF QuietInv
  <2>1. \A b \in Calls \ {c} : op'[b] = op[b] /\ fate'[b] = fate[b]
    BY <1>1 DEF SessionInv, Types, SessionTypeOK, TypeOK
  <2>2. Quiet
    BY <1>1, <1>2, <2>1 DEF Quiet, Presents
  <2>3. waiting[d] = None /\ \A x \in Clients \ {d} : waiting'[x] = waiting[x]
    BY <1>1 DEF SessionInv, Types, SessionTypeOK
  <2>4. \A x \in Clients : waiting[x] \in Calls \cup {None} /\ waiting[x] # c
    BY <1>4 DEF SessionInv, Types, SessionTypeOK
  <2> QED
    BY <1>1, <1>2, <2>1, <2>2, <2>3, <2>4 DEF QuietInv, SessionInv
<1>9. NoStraySessions'
  <2>1. Lost' = Lost
    BY <1>1 DEF Lost
  <2>2. \A x \in Clients : x # d => waiting'[x] = waiting[x]
    BY <1>1 DEF SessionInv, Types, SessionTypeOK
  <2>3. \A t \in open : t # waiting[d]
    BY <1>1 DEF SessionInv, Types, SessionTypeOK, Ledger!TypeOK
  <2> QED
    BY <1>1, <2>1, <2>2, <2>3 DEF NoStraySessions, SessionInv
<1> QED
  BY <1>3, <1>5, <1>6, <1>7, <1>8, <1>9 DEF SessionInv

LEMMA HearKeeps ==
  ASSUME SessionInv, NEW d \in Clients, NEW c \in Calls, Hear(d, c)
  PROVE  SessionInv'
<1> DEFINE v == verdict'[c]
<1>1. /\ verdict[c] = "none" /\ waiting[d] = c
      /\ v \in ({reply[c]} \cap (Denials \cup {"ok"})) \cup {"unknown"}
      /\ verdict' = [verdict EXCEPT ![c] = v]
      /\ waiting' = [waiting EXCEPT ![d] = None]
      /\ held' = [held EXCEPT ![d] = IF v = "ok" THEN (IF op[c] = "logout" THEN None ELSE c)
                                     ELSE IF v \in TokenErrors THEN None ELSE held[d]]
      /\ UNCHANGED <<fate, reply, op, token, issued, open, exchanged, expired, account>>
  BY DEF Hear, Adopt, Answer, requests, sessions, SessionInv, Types, SessionTypeOK, TypeOK
<1> HIDE DEF v
<1>2. \A b \in Calls \ {c} : verdict'[b] = verdict[b]
  BY <1>1 DEF SessionInv, Types, SessionTypeOK, TypeOK
<1>3. v = verdict'[c] /\ v # "none"
  BY <1>1 DEF v
<1>4. /\ held[d] # None <=> Presents(op[c])
      /\ token[c] = held[d] /\ op[c] # "none" /\ c # None
  BY <1>1 DEF SessionInv, ClientsInv, ClientInv
<1>5. \A x \in Clients : held[x] # c
  BY <1>1, NobodyHolds
<1>6. /\ waiting'[d] = None /\ \A x \in Clients \ {d} : waiting'[x] = waiting[x] /\ held'[x] = held[x]
      /\ held'[d] = IF v = "ok" THEN (IF op[c] = "logout" THEN None ELSE c)
                    ELSE IF v \in TokenErrors THEN None ELSE held[d]
  BY <1>1 DEF SessionInv, Types, SessionTypeOK
<1>7. CallInv(c) /\ TokenInv(c)
  BY DEF SessionInv, CallsInv, TokensInv
<1>8. Types'
  <2>1. TypeOK'
    BY <1>1 DEF SessionInv, Types, SessionTypeOK, TypeOK
  <2> QED
    BY <1>1, <2>1 DEF SessionInv, Types, SessionTypeOK, Ledger!TypeOK
<1>9. CallsInv'
  <2> SUFFICES ASSUME NEW b \in Calls
               PROVE  CallInv(b)'
    BY DEF CallsInv
  <2>1. CallInv(b)
    BY DEF SessionInv, CallsInv
  <2>2. CASE b = c
    BY <1>1, <1>3, <1>4, <2>1, <2>2 DEF CallInv
  <2>3. CASE b # c
    <3>1. op[b] # "none" /\ verdict[b] = "none" => \E x \in Clients : waiting'[x] = b
      BY <1>1, <1>6, <2>1, <2>3 DEF CallInv
    <3> QED
      BY <1>1, <1>2, <2>1, <2>3, <3>1 DEF CallInv
  <2> QED
    BY <2>2, <2>3
<1>10. TokensInv'
  BY <1>1 DEF SessionInv, TokensInv, TokenInv, Presents
<1>11. ClientsInv'
  <2> SUFFICES ASSUME NEW x \in Clients
               PROVE  ClientInv(x)'
    BY DEF ClientsInv
  <2>1. ClientInv(x) /\ waiting[x] \in Calls \cup {None} /\ held[x] \in Calls \cup {None}
    BY DEF SessionInv, ClientsInv, Types, SessionTypeOK
  <2>2. v = "ok" => reply[c] = "ok"
    BY <1>1
  <2>3. CASE x = d
    <3>1. held'[d] # None => held'[d] \in issued /\ verdict'[held'[d]] = "ok"
      BY <1>2, <1>3, <1>5, <1>6, <1>7, <2>1, <2>2, <2>3 DEF ClientInv, TokenInv
    <3>2. \A y \in Clients \ {d} : held'[d] # None => held'[y] # held'[d]
      BY <1>5, <1>6, <2>1, <2>3 DEF ClientInv
    <3> QED
      BY <1>1, <1>6, <2>3, <3>1, <3>2 DEF ClientInv
  <2>4. CASE x # d
    <3>1. waiting'[x] = waiting[x] /\ held'[x] = held[x] /\ (waiting[x] # None => waiting[x] # c)
      BY <1>1, <1>6, <2>1, <2>4 DEF ClientInv
    <3>2. held[x] # None => verdict'[held[x]] = "ok"
      BY <1>2, <1>5, <2>1 DEF ClientInv
    <3>3. waiting[x] # None => verdict'[waiting[x]] = "none"
      BY <1>2, <2>1, <3>1 DEF ClientInv
    <3>4. \A y \in Clients \ {x} :
             /\ held'[x] # None => held'[y] # held'[x]
             /\ waiting'[x] # None => waiting'[y] # waiting'[x]
      BY <1>5, <1>6, <2>1, <2>4 DEF ClientInv
    <3> QED
      BY <1>1, <2>1, <3>1, <3>2, <3>3, <3>4 DEF ClientInv, Presents
  <2> QED
    BY <2>3, <2>4
<1>12. QuietInv'
  <2> SUFFICES ASSUME Quiet'
               PROVE  QuietInv'
    BY DEF QuietInv
  <2>1. Quiet /\ (v = "unknown" => ~Presents(op[c]))
    BY <1>1, <1>2, <1>3 DEF Quiet, Presents
  <2>2. \A b \in Calls : reply[b] \notin TokenErrors
    BY <2>1 DEF SessionInv, QuietInv
  <2>3. \A b \in Calls : reply[b] = "ok" /\ verdict'[b] = "none" /\ op[b] # "logout" => b \in open
    BY <1>2, <1>3, <2>1 DEF SessionInv, QuietInv
  <2>4. ASSUME NEW x \in Clients, held'[x] # None
        PROVE  held'[x] \in open \/ (waiting'[x] # None /\ fate[waiting'[x]] = "done")
    <3>1. CASE x # d
      BY <1>6, <2>1, <2>4, <3>1 DEF SessionInv, QuietInv
    <3>2. CASE x = d /\ v = "ok"
      BY <1>1, <1>6, <2>1, <2>4, <3>2 DEF SessionInv, QuietInv
    <3>3. CASE x = d /\ v # "ok"
      <4>1. held[d] # None /\ held'[d] = held[d] /\ Presents(op[c])
        BY <1>4, <1>6, <2>4, <3>3
      <4>2. reply[c] \in Denials
        BY <1>1, <2>1, <3>3, <4>1
      <4>3. held[d] \in open
        BY <1>1, <1>7, <2>1, <4>1, <4>2 DEF SessionInv, QuietInv, CallInv
      <4> QED
        BY <3>3, <4>1, <4>3
    <3> QED
      BY <3>1, <3>2, <3>3
  <2> QED
    BY <1>1, <2>2, <2>3, <2>4 DEF QuietInv
<1>13. NoStraySessions'
  <2> SUFFICES ASSUME NEW t \in open \ expired
               PROVE  t \in Lost' \/ \E x \in Clients : t \in {held'[x], waiting'[x]}
    BY <1>1 DEF NoStraySessions
  <2>1. t \in Calls /\ t \in issued
    BY DEF SessionInv, Types, SessionTypeOK, Ledger!TypeOK
  <2>2. CASE t \in Lost
    BY <1>1, <1>2, <2>2 DEF Lost
  <2>3. ASSUME NEW x \in Clients \ {d}, t \in {held[x], waiting[x]}
        PROVE  t \in {held'[x], waiting'[x]}
    BY <1>6, <2>3
  <2>4. CASE t = held[d]
    <3>1. Presents(op[c]) /\ t = token[c]
      BY <1>4, <2>1, <2>4
    <3>2. v # "ok" /\ v \notin TokenErrors
      BY <1>1, <1>7, <3>1 DEF TokenInv, CallInv, TokenErrors
    <3> QED
      BY <1>6, <2>4, <3>2
  <2>5. CASE t = waiting[d]
    <3>1. t = c /\ fate[c] = "done" /\ op[c] # "logout"
      BY <1>1, <1>7, <2>1, <2>5 DEF TokenInv
    <3>2. v \in {"ok", "unknown"}
      BY <1>1, <1>7, <3>1 DEF CallInv
    <3> QED
      BY <1>3, <1>6, <3>1, <3>2 DEF Lost
  <2> QED
    BY <2>2, <2>3, <2>4, <2>5 DEF SessionInv, NoStraySessions
<1> QED
  BY <1>8, <1>9, <1>10, <1>11, <1>12, <1>13 DEF SessionInv

(* Time and the hourly job. *)
LEMMA TimeKeeps ==
  ASSUME SessionInv, Cleanup \/ \E t \in Calls : Expire(t)
  PROVE  SessionInv'
<1>1. /\ UNCHANGED <<fate, reply, verdict, issued, exchanged, account, op, token, held, waiting>>
      /\ open' \subseteq open /\ expired \subseteq expired' /\ expired' \subseteq issued
      /\ expired' # {}
  BY DEF Cleanup, Expire, Ledger!Close, vars, sessions, requests, clients,
         SessionInv, Types, SessionTypeOK, Ledger!TypeOK
<1>2. Types'
  <2>1. TypeOK'
    BY <1>1 DEF SessionInv, Types, SessionTypeOK, TypeOK
  <2> QED
    BY <1>1, <2>1 DEF SessionInv, Types, SessionTypeOK, Ledger!TypeOK
<1>3. CallsInv' /\ ClientsInv'
  BY <1>1 DEF SessionInv, CallsInv, CallInv, ClientsInv, ClientInv, Presents
<1>4. TokensInv'
  BY <1>1 DEF SessionInv, TokensInv, TokenInv, Presents
<1>5. QuietInv'
  BY <1>1 DEF QuietInv, Quiet
<1>6. NoStraySessions'
  BY <1>1 DEF SessionInv, NoStraySessions, Lost
<1> QED
  BY <1>2, <1>3, <1>4, <1>5, <1>6 DEF SessionInv

LEMMA SessionStepKeeps == SessionInv /\ [SessionNext]_sessionVars => SessionInv'
<1> SUFFICES ASSUME SessionInv, [SessionNext]_sessionVars
             PROVE  SessionInv'
  OBVIOUS
<1>1. ASSUME UNCHANGED sessionVars
      PROVE  SessionInv'
  <2>1. UNCHANGED <<fate, reply, verdict, issued, open, exchanged, expired, account, op, token, held, waiting>>
    BY <1>1 DEF sessionVars, vars, sessions, requests, clients
  <2>2. Types'
    BY <2>1 DEF SessionInv, Types, SessionTypeOK, TypeOK, Ledger!TypeOK
  <2>3. CallsInv' /\ TokensInv' /\ ClientsInv'
    BY <2>1 DEF SessionInv, CallsInv, CallInv, TokensInv, TokenInv, ClientsInv, ClientInv, Presents
  <2>4. QuietInv' /\ NoStraySessions'
    BY <2>1 DEF SessionInv, QuietInv, Quiet, Presents, NoStraySessions, Lost
  <2> QED
    BY <2>2, <2>3, <2>4 DEF SessionInv
<1> QED
  BY <1>1, BeginKeeps, UseCaseKeeps, EnrolKeeps, HearKeeps, TimeKeeps DEF SessionNext

LEMMA SessionHolds == SessionSpec => []SessionInv
  BY SessionStart, SessionStepKeeps, PTL DEF SessionSpec

--------------------------------------------------------------------------------
(* The results. *)

(* The state of clients and requests is well formed, and the sessions are the
   ledger's. *)
THEOREM SessionsTypeCorrect == SessionSpec => []SessionTypeOK
<1>1. SessionInv => SessionTypeOK
  BY DEF SessionInv, Types
<1> QED
  BY <1>1, SessionHolds, PTL

(* No client that uses the token it was sent last is logged out, unless a
   session has expired or the answer to a refresh or a logout was lost. *)
THEOREM HonestClientsAreSafe == SessionSpec => []HonestClientsStayIn
<1>1. SessionInv => HonestClientsStayIn
  <2> SUFFICES ASSUME SessionInv, NEW c \in Calls, verdict[c] \in TokenErrors
               PROVE  expired # {} \/ \E q \in Lost : Presents(op[q])
    BY DEF HonestClientsStayIn
  <2>1. reply[c] \in TokenErrors
    BY DEF SessionInv, CallsInv, CallInv, TokenErrors
  <2>2. ~Quiet
    BY <2>1 DEF SessionInv, QuietInv
  <2> QED
    BY <2>2 DEF Quiet, Lost
<1> QED
  BY <1>1, SessionHolds, PTL

(* Every session that can be used is in a client's hands, on its way there, or
   lost with an answer. *)
THEOREM NothingStaysOpenUnseen == SessionSpec => []NoStraySessions
<1>1. SessionInv => NoStraySessions
  BY DEF SessionInv
<1> QED
  BY <1>1, SessionHolds, PTL

(* What a client is told of its request, a success or an error of its own, is
   so for good. *)
THEOREM VerdictsCanBeTrusted == SessionSpec => []VerdictsAreFinal
<1>1. SessionInv => VerdictsAreFinal
  BY DEF SessionInv, CallsInv, CallInv, VerdictsAreFinal
<1> QED
  BY <1>1, SessionHolds, PTL

(* The composition takes nothing but steps of the gateway's promise and of the
   auth service's: what holds of either holds of the whole. *)
THEOREM SessionsUseBothPromises == SessionSpec => Spec /\ Ledger!Spec
<1>1. SessionInit => Init /\ Ledger!Init
  BY DEF SessionInit
<1>2. SessionInv => SessionTypeOK /\ \A c \in Calls : Presents(op[c]) => token[c] \in Calls
  BY DEF SessionInv, Types, TokensInv, TokenInv, SessionTypeOK, Ledger!TypeOK
<1>3. SessionInv /\ [SessionNext]_sessionVars => [Ledger!Next]_Ledger!vars
  BY <1>2, StepsOfTheLedger DEF sessions, Ledger!vars
<1> QED
  BY <1>1, <1>3, StepsOfTheChannel, SessionHolds, PTL DEF SessionSpec, Spec, Ledger!Spec

================================================================================
