------------------------------ MODULE GatewayProofs ----------------------------
(* Proofs about requests through the gateway, for any number of requests, any
   thresholds and any number of attempts. *)
EXTENDS Gateway, ResilienceProofs

USE ResilienceAssumption, GatewayAssumption

(* Every step of the gateway is one of the breaker and its calls, or leaves
   them alone. *)
LEMMA StepsOfTheBreaker == [GatewayNext]_gatewayVars => [Next]_vars
<1> SUFFICES ASSUME [GatewayNext]_gatewayVars
             PROVE  [Next]_vars
  OBVIOUS
<1>1. ASSUME NEW c \in Calls, NEW o \in Ops, Refuse(c, o) \/ Shed(c, o) \/ Send(c, o)
      PROVE  [Next]_vars
  BY <1>1 DEF Refuse, Shed, Send, Next
<1>2. ASSUME NEW c \in Calls, NEW n \in 1..MaxAttempts, Handle(c, n)
      PROVE  [Next]_vars
  BY <1>2 DEF Handle
<1>3. ASSUME NEW c \in Calls, Settle(c) \/ Retry(c) \/ Respond(c)
      PROVE  [Next]_vars
  BY <1>3 DEF Settle, Retry, Respond, Next, Proceed
<1> QED
  BY <1>1, <1>2, <1>3 DEF GatewayNext, gatewayVars, Next

(* The gateway uses the breaker as Resilience describes it: what is proved of
   the breaker holds of the gateway. *)
THEOREM GatewayUsesBreaker == GatewaySpec => Spec
<1>1. GatewayInit => Init
  BY DEF GatewayInit
<1> QED
  BY <1>1, StepsOfTheBreaker, PTL DEF GatewaySpec, Spec

--------------------------------------------------------------------------------
(* What the client makes of the status of an error is that error. *)

BackendErrors(o) == UseCaseErrors[o] \cup {"Internal", "ErrUnauthorized"}

LEMMA ErrorsAreKnown ==
  ASSUME NEW o \in Ops
  PROVE  /\ UseCaseErrors[o] \subseteq StatusMessages
         /\ "Internal" \notin UseCaseErrors[o] /\ "ok" \notin UseCaseErrors[o]
  BY DEF UseCaseErrors, StatusMessages

LEMMA ErrorsHaveCodes ==
  ASSUME NEW o \in Ops, NEW e \in UseCaseErrors[o]
  PROVE  Codes(o, e) # {}
<1>1. CASE o \in NotesOps
  BY <1>1, SMTT(60) DEF UseCaseErrors, NotesOps, NotesCodes, Codes
<1>2. CASE o \notin NotesOps
  BY <1>2, SMTT(60) DEF UseCaseErrors, NotesOps, AuthCodes, Codes
<1> QED
  BY <1>1, <1>2

LEMMA MapsBack ==
  ASSUME NEW o \in Ops, NEW e \in BackendErrors(o), NEW nf
  PROVE  StatusToDomain(StatusFromError(o, e), nf) = e
<1>1. CASE e = "ErrUnauthorized"
  BY <1>1 DEF StatusFromError, StatusToDomain, StatusMessages
<1>2. CASE e \in UseCaseErrors[o]
  <2>1. StatusFromError(o, e).text = e
    BY <1>2, ErrorsHaveCodes DEF StatusFromError
  <2> QED
    BY <1>2, <2>1, ErrorsAreKnown DEF StatusToDomain
<1>3. CASE e = "Internal"
  <2>1. Codes(o, e) = {}
    <3>1. CASE o \in NotesOps
      BY <1>3, <3>1 DEF NotesCodes, Codes
    <3>2. CASE o \notin NotesOps
      BY <1>3, <3>2 DEF AuthCodes, Codes
    <3> QED
      BY <3>1, <3>2
  <2> DEFINE st == StatusFromError(o, e)
  <2>2. st = [code |-> "Internal", text |-> "internal"]
    BY <1>3, <2>1 DEF StatusFromError
  <2>3. st.code = "Internal" /\ st.text \notin StatusMessages
    BY <2>2 DEF StatusMessages
  <2> HIDE DEF st
  <2>4. StatusToDomain(st, nf) = "Internal"
    BY <2>3 DEF StatusToDomain
  <2> QED
    BY <1>3, <2>4 DEF st
<1> QED
  BY <1>1, <1>2, <1>3 DEF BackendErrors

--------------------------------------------------------------------------------
(* The argument.  An attempt is on the wire until the backend takes it up, so
   what was done and what may still be done never exceed the attempts that
   were sent, and a write sends one.  Once the backend has taken a write up,
   the result is known for good: the gateway answers with it, or with an error
   of the transport. *)

Types ==
  /\ op \in [Calls -> Ops \cup {"none"}]
  /\ wire \in [Calls -> SUBSET (1..MaxAttempts)]
  /\ cause \in [Calls -> Errors \cup {"none"}]
  /\ effects \in [Calls -> Nat]
  /\ last \in [Calls -> Errors \cup {"none"}]
  /\ answer \in [Calls -> Errors \cup {"none"}]

Pristine(c) ==
  pc[c] = "idle" /\ wire[c] = {} /\ effects[c] = 0 /\ cause[c] = "none" /\ answer[c] = "none"

WireOK(c) ==
  /\ op[c] = "none" => Pristine(c)
  /\ wire[c] \subseteq 1..attempt[c]
  /\ effects[c] + Cardinality(wire[c]) <= attempt[c]
  /\ pc[c] # "idle" => (c \in reads <=> op[c] \in Retried)
  /\ pc[c] = "backoff" => c \in reads
  /\ op[c] \in Writes => effects[c] + Cardinality(wire[c]) <= 1

CauseOK(c) ==
  /\ cause[c] # "none" => cause[c] \in BackendErrors(op[c]) \cup {"ok"}
  /\ op[c] \in Writes /\ cause[c] # "none" => wire[c] = {}
  /\ op[c] \in Writes /\ cause[c] = "ok" => effects[c] = 1
  /\ op[c] \in Writes /\ cause[c] \notin {"none", "ok", "Internal"} => effects[c] = 0

Truthful(c, e) == e \in Infra \cup {"Canceled"} \/ (e = cause[c] /\ e # "none")

Refused(c) ==
  /\ answer[c] \in Refusals(op[c]) \cup {"ErrCircuitOpen"}
  /\ wire[c] = {} /\ effects[c] = 0

AnswerOK(c) ==
  /\ pc[c] # "idle" => answer[c] = "none"
  /\ pc[c] = "record" => Truthful(c, last[c]) /\ (outcome[c] = "infra" => last[c] \in Infra)
  /\ answer[c] # "none" => Refused(c) \/ Truthful(c, answer[c])

CallOK(c) == WireOK(c) /\ CauseOK(c) /\ AnswerOK(c)

GatewayInv == Types /\ \A c \in Calls : CallOK(c)

LEMMA GatewayStart == GatewayInit => GatewayInv
<1> SUFFICES ASSUME GatewayInit
             PROVE  GatewayInv
  OBVIOUS
<1> USE DEF GatewayInit, Init
<1>1. Types
  BY DEF Types
<1>2. Cardinality({}) = 0
  BY FS_EmptySet
<1>3. ASSUME NEW c \in Calls
      PROVE  CallOK(c)
  BY <1>2 DEF CallOK, WireOK, CauseOK, AnswerOK, Pristine, Writes
<1> QED
  BY <1>1, <1>3 DEF GatewayInv

(* What a step of the breaker and of the calls does to the calls. *)
LEMMA StepsOfOneCall ==
  ASSUME TypeOK, NEW c \in Calls, Reject(c) \/ Allow(c) \/ Proceed(c)
  PROVE  /\ \A d \in Calls \ {c} : /\ pc'[d] = pc[d]
                                   /\ attempt'[d] = attempt[d]
                                   /\ outcome'[d] = outcome[d]
                                   /\ d \in reads' <=> d \in reads
<1> USE DEF TypeOK
<1>1. CASE Reject(c)
  BY <1>1 DEF Reject
<1>2. CASE Allow(c)
  BY <1>2 DEF Allow, Start
<1>3. CASE Attempt(c)
  BY <1>3 DEF Attempt
<1>4. CASE Backoff(c)
  BY <1>4 DEF Backoff
<1>5. CASE Record(c)
  BY <1>5 DEF Record
<1> QED
  BY <1>1, <1>2, <1>3, <1>4, <1>5 DEF Proceed

StepOf(c) ==
  \/ \E o \in Ops : Refuse(c, o) \/ Shed(c, o) \/ Send(c, o)
  \/ \E n \in 1..MaxAttempts : Handle(c, n)
  \/ Settle(c) \/ Retry(c) \/ Respond(c)

(* A request leaves the others alone. *)
LEMMA OthersUntouched ==
  ASSUME GatewayInv, NEW c \in Calls, NEW d \in Calls \ {c}, StepOf(c)
  PROVE  /\ op'[d] = op[d] /\ wire'[d] = wire[d] /\ cause'[d] = cause[d]
         /\ effects'[d] = effects[d] /\ last'[d] = last[d] /\ answer'[d] = answer[d]
<1> USE DEF GatewayInv, Types
<1> DEFINE Untouched == /\ op'[d] = op[d] /\ wire'[d] = wire[d] /\ cause'[d] = cause[d]
                        /\ effects'[d] = effects[d] /\ last'[d] = last[d] /\ answer'[d] = answer[d]
<1>1. ASSUME NEW o \in Ops, Refuse(c, o) \/ Shed(c, o) \/ Send(c, o)
      PROVE  Untouched
  BY <1>1 DEF Refuse, Shed, Send, New
<1>2. ASSUME NEW n \in 1..MaxAttempts, Handle(c, n)
      PROVE  Untouched
  BY <1>2 DEF Handle
<1>3. CASE Settle(c) \/ Retry(c) \/ Respond(c)
  BY <1>3 DEF Settle, Retry, Respond
<1> QED
  BY <1>1, <1>2, <1>3 DEF StepOf

LEMMA OthersKeep ==
  ASSUME TypeOK, GatewayInv, NEW c \in Calls, NEW d \in Calls \ {c}, StepOf(c)
  PROVE  CallOK(d)'
<1>1. /\ pc'[d] = pc[d] /\ attempt'[d] = attempt[d] /\ outcome'[d] = outcome[d]
      /\ d \in reads' <=> d \in reads
  <2>1. CASE Reject(c) \/ Allow(c) \/ Proceed(c)
    BY <2>1, StepsOfOneCall
  <2>2. CASE UNCHANGED vars
    BY <2>2 DEF vars
  <2>3. (Reject(c) \/ Allow(c) \/ Proceed(c)) \/ UNCHANGED vars
    BY DEF StepOf, Refuse, Shed, Send, Handle, Settle, Retry, Respond, Proceed
  <2> QED
    BY <2>1, <2>2, <2>3
<1>2. /\ op'[d] = op[d] /\ wire'[d] = wire[d] /\ cause'[d] = cause[d]
      /\ effects'[d] = effects[d] /\ last'[d] = last[d] /\ answer'[d] = answer[d]
  BY OthersUntouched
<1> QED
  BY <1>1, <1>2 DEF GatewayInv, CallOK, WireOK, CauseOK, AnswerOK, Pristine, Truthful, Refused

LEMMA BackendErrorsTyped ==
  ASSUME NEW o \in Ops
  PROVE  BackendErrors(o) \subseteq Errors /\ "ok" \notin BackendErrors(o) /\ "none" \notin BackendErrors(o)
<1>1. BackendErrors(o) \subseteq Errors
  BY ErrorsAreKnown DEF BackendErrors, Errors, StatusMessages
<1>2. "none" \notin UseCaseErrors[o]
  BY ErrorsAreKnown DEF StatusMessages
<1> QED
  BY <1>1, <1>2, ErrorsAreKnown DEF BackendErrors

LEMMA RefusalsTyped ==
  ASSUME NEW o \in Ops
  PROVE  Refusals(o) \subseteq Errors \ (Infra \cup {"ok", "none"})
  BY DEF Refusals, Errors, StatusMessages, Infra

(* What the backend returns for an operation. *)
LEMMA ResultsTyped ==
  ASSUME NEW o \in Ops, NEW result \in BackendResults(o)
  PROVE  /\ result.done \in 0..1
         /\ result.error \in BackendErrors(o) \cup {"ok"}
         /\ result.error = "ok" => result.done = 1
         /\ result.error \notin {"ok", "Internal"} => result.done = 0
<1>1. CASE result \in {[error |-> "ok", done |-> 1], [error |-> "Internal", done |-> 1]}
  BY <1>1 DEF BackendErrors
<1>2. ASSUME NEW e \in BackendErrors(o), result = [error |-> e, done |-> 0]
      PROVE  result.done = 0 /\ result.error = e /\ e # "ok"
  BY <1>2, BackendErrorsTyped
<1>3. \/ result \in {[error |-> "ok", done |-> 1], [error |-> "Internal", done |-> 1]}
      \/ \E e \in BackendErrors(o) : result = [error |-> e, done |-> 0]
  BY DEF BackendResults, BackendErrors
<1> QED
  BY <1>1, <1>2, <1>3

(* What the client receives is the result of the use case, or an error of the
   transport. *)
LEMMA ReceivedIsTruthful ==
  ASSUME GatewayInv, NEW c \in Calls, op[c] \in Ops, NEW e, Received(c, e)
  PROVE  Truthful(c, e)
<1> DEFINE nf == IF op[c] \in NotesOps THEN "ErrNoteNotFound" ELSE "ErrUserNotFound"
<1>1. CASE e = "ok" /\ cause[c] = "ok"
  BY <1>1 DEF Truthful
<1>2. ASSUME cause[c] \notin {"none", "ok"}, e = StatusToDomain(StatusFromError(op[c], cause[c]), nf)
      PROVE  Truthful(c, e)
  <2>1. cause[c] \in BackendErrors(op[c])
    BY <1>2 DEF GatewayInv, CallOK, CauseOK
  <2>2. e = cause[c]
    BY <1>2, <2>1, MapsBack
  <2> QED
    BY <1>2, <2>2 DEF Truthful
<1>3. ASSUME NEW code \in {"Unavailable", "DeadlineExceeded", "Canceled"},
             e = StatusToDomain([code |-> code, text |-> "transport"], nf)
      PROVE  Truthful(c, e)
  <2> DEFINE st == [code |-> code, text |-> "transport"]
  <2>1. st.code = code /\ st.text \notin StatusMessages
    BY DEF StatusMessages
  <2> HIDE DEF st
  <2>2. StatusToDomain(st, nf) \in Infra \cup {"Canceled"}
    BY <2>1 DEF StatusToDomain, Infra
  <2> QED
    BY <1>3, <2>2 DEF Truthful, st
<1> QED
  BY <1>1, <1>2, <1>3 DEF Received, Replies

LEMMA GatewayTypes == TypeOK /\ GatewayInv /\ [GatewayNext]_gatewayVars => Types'
<1> SUFFICES ASSUME TypeOK, GatewayInv, [GatewayNext]_gatewayVars
             PROVE  Types'
  OBVIOUS
<1> USE DEF GatewayInv, Types
<1>1. ASSUME NEW c \in Calls, NEW o \in Ops, Refuse(c, o)
      PROVE  Types'
  BY <1>1, RefusalsTyped DEF Refuse, New
<1>2. ASSUME NEW c \in Calls, NEW o \in Ops, Shed(c, o) \/ Send(c, o)
      PROVE  Types'
  BY <1>2 DEF Shed, Send, New, Errors
<1>3. ASSUME NEW c \in Calls, NEW n \in 1..MaxAttempts, Handle(c, n)
      PROVE  Types'
  <2>1. op[c] \in Ops
    BY <1>3 DEF Handle, CallOK, WireOK, Pristine
  <2>2. PICK result \in BackendResults(op[c]) :
          /\ effects' = [effects EXCEPT ![c] = @ + result.done]
          /\ cause' = cause \/ cause' = [cause EXCEPT ![c] = result.error]
    BY <1>3 DEF Handle
  <2>3. result.done \in Nat /\ result.error \in Errors
    BY <2>1, ResultsTyped, BackendErrorsTyped DEF Errors
  <2> QED
    BY <1>3, <2>2, <2>3 DEF Handle
<1>4. ASSUME NEW c \in Calls, Settle(c)
      PROVE  Types'
  BY <1>4 DEF Settle
<1>5. ASSUME NEW c \in Calls, Retry(c)
      PROVE  Types'
  <2>1. pc'[c] = "run" => attempt'[c] \in 1..MaxAttempts
    BY <1>5 DEF Retry, Backoff, TypeOK
  <2> QED
    BY <1>5, <2>1 DEF Retry, Errors, Infra
<1>6. ASSUME NEW c \in Calls, Respond(c)
      PROVE  Types'
  BY <1>6 DEF Respond
<1>7. CASE UNCHANGED requests
  BY <1>7 DEF requests
<1> QED
  BY <1>1, <1>2, <1>3, <1>4, <1>5, <1>6, <1>7 DEF GatewayNext, gatewayVars, requests

--------------------------------------------------------------------------------
(* One lemma per action: what it does to its own request. *)

LEMMA OpsNamed == "none" \notin Ops /\ Writes \cap Retried = {}
  BY DEF UseCaseErrors, Writes, Retried

LEMMA WireFinite ==
  ASSUME Types, NEW c \in Calls
  PROVE  IsFiniteSet(wire[c]) /\ Cardinality(wire[c]) \in Nat
<1>1. IsFiniteSet(1..MaxAttempts) /\ wire[c] \subseteq 1..MaxAttempts
  BY FS_Interval DEF Types
<1> QED
  BY <1>1, FS_Subset, FS_CardinalityType

LEMMA RefuseKeeps ==
  ASSUME TypeOK, GatewayInv, NEW c \in Calls, NEW o \in Ops, Refuse(c, o) \/ Shed(c, o)
  PROVE  CallOK(c)'
<1>1. Pristine(c) /\ op'[c] = o
  BY DEF Refuse, Shed, New, GatewayInv, CallOK, WireOK, Types
<1>2. UNCHANGED <<pc, attempt, reads, wire, cause, effects, last>>
  BY DEF Refuse, Shed, Reject, vars
<1>3. answer'[c] \in Refusals(o) \cup {"ErrCircuitOpen"}
  BY DEF Refuse, Shed, GatewayInv, Types
<1>4. Cardinality({}) = 0 /\ attempt[c] \in Nat
  BY FS_EmptySet DEF TypeOK
<1>5. WireOK(c)'
  <2>1. wire'[c] = {} /\ effects'[c] = 0 /\ pc'[c] = "idle" /\ attempt'[c] \in Nat
    BY <1>1, <1>2, <1>4 DEF Pristine
  <2>2. Cardinality(wire'[c]) = 0
    BY <1>4, <2>1
  <2> QED
    BY <1>1, <2>1, <2>2, OpsNamed DEF WireOK
<1>6. CauseOK(c)'
  BY <1>1, <1>2 DEF CauseOK, Pristine
<1>7. AnswerOK(c)'
  BY <1>1, <1>2, <1>3 DEF AnswerOK, Refused, Pristine
<1> QED
  BY <1>5, <1>6, <1>7 DEF CallOK

LEMMA SendKeeps ==
  ASSUME TypeOK, GatewayInv, NEW c \in Calls, NEW o \in Ops, Send(c, o)
  PROVE  CallOK(c)'
<1>1. Pristine(c) /\ op'[c] = o
  BY DEF Send, New, GatewayInv, CallOK, WireOK, Types
<1>2. pc'[c] = "run" /\ attempt'[c] = 1 /\ (c \in reads' <=> o \in Retried)
  BY DEF Send, Allow, Start, TypeOK
<1>3. wire'[c] = {1} /\ UNCHANGED <<cause, effects, last, answer>>
  BY DEF Send, GatewayInv, Types
<1>4. Cardinality({1}) = 1
  BY FS_Singleton
<1>5. WireOK(c)'
  BY <1>1, <1>2, <1>3, <1>4, OpsNamed DEF WireOK, Pristine
<1>6. CauseOK(c)'
  BY <1>1, <1>3 DEF CauseOK, Pristine
<1>7. AnswerOK(c)'
  BY <1>1, <1>2, <1>3 DEF AnswerOK, Pristine
<1> QED
  BY <1>5, <1>6, <1>7 DEF CallOK

LEMMA HandleKeeps ==
  ASSUME TypeOK, GatewayInv, NEW c \in Calls, NEW n \in 1..MaxAttempts, Handle(c, n)
  PROVE  CallOK(c)'
<1> USE DEF GatewayInv, Types
<1>0. CallOK(c) /\ op[c] \in Ops /\ n \in wire[c]
  BY DEF Handle, CallOK, WireOK, Pristine
<1>1. /\ UNCHANGED <<pc, attempt, reads, outcome, op, last, answer>>
      /\ wire'[c] = wire[c] \ {n}
  BY DEF Handle, vars
<1>2. PICK result \in BackendResults(op[c]) :
        /\ effects'[c] = effects[c] + result.done
        /\ cause'[c] = cause[c] \/ (pc[c] = "run" /\ cause'[c] = result.error)
  BY DEF Handle
<1>3. /\ result.done \in 0..1
      /\ result.error \in BackendErrors(op[c]) \cup {"ok"}
      /\ result.error = "ok" => result.done = 1
      /\ result.error \notin {"ok", "Internal"} => result.done = 0
  BY <1>0, ResultsTyped
<1>4. /\ Cardinality(wire[c]) \in Nat \ {0}
      /\ Cardinality(wire'[c]) = Cardinality(wire[c]) - 1
      /\ Cardinality(wire'[c]) = 0 => wire'[c] = {}
  <2>1. IsFiniteSet(wire[c]) /\ Cardinality(wire[c]) \in Nat
    BY WireFinite
  <2>2. IsFiniteSet(wire[c] \ {n}) /\ Cardinality(wire[c] \ {n}) = Cardinality(wire[c]) - 1
    BY <1>0, <2>1, FS_RemoveElement
  <2>3. Cardinality(wire'[c]) \in Nat
    BY <1>1, <2>2, FS_CardinalityType
  <2>4. Cardinality(wire[c]) # 0
    BY <1>0, <2>1, FS_EmptySet
  <2> QED
    BY <1>1, <2>1, <2>2, <2>3, <2>4, FS_EmptySet
<1>5. WireOK(c)'
  <2>1. effects[c] \in Nat /\ attempt[c] \in Nat
    BY DEF TypeOK
  <2> QED
    BY <1>0, <1>1, <1>2, <1>3, <1>4, <2>1, OpsNamed DEF CallOK, WireOK
<1>6. CauseOK(c)'
  <2>1. CASE op[c] \in Writes
    <3>1. effects[c] = 0 /\ wire'[c] = {} /\ cause[c] = "none"
      <4>1. effects[c] + Cardinality(wire[c]) <= 1 /\ effects[c] \in Nat
        BY <1>0, <2>1 DEF CallOK, WireOK
      <4>2. effects[c] = 0 /\ Cardinality(wire'[c]) = 0
        BY <1>4, <4>1
      <4> QED
        BY <1>0, <1>4, <2>1, <4>2 DEF CallOK, CauseOK
    <3> QED
      BY <1>1, <1>2, <1>3, <2>1, <3>1, BackendErrorsTyped, <1>0 DEF CauseOK
  <2>2. CASE op[c] \notin Writes
    BY <1>0, <1>1, <1>2, <1>3, <2>2 DEF CallOK, CauseOK
  <2> QED
    BY <2>1, <2>2
<1>7. AnswerOK(c)'
  BY <1>0, <1>1, <1>2 DEF CallOK, AnswerOK, Refused, Truthful
<1> QED
  BY <1>5, <1>6, <1>7 DEF CallOK

LEMMA SettleKeeps ==
  ASSUME TypeOK, GatewayInv, NEW c \in Calls, Settle(c)
  PROVE  CallOK(c)'
<1> USE DEF GatewayInv, Types
<1>0. CallOK(c) /\ op[c] \in Ops /\ pc[c] = "run"
  BY DEF Settle, Attempt, CallOK, WireOK, Pristine
<1>1. /\ UNCHANGED <<attempt, reads, op, wire, cause, effects, answer>>
      /\ pc'[c] \in {"backoff", "record"}
      /\ pc'[c] = "backoff" => c \in reads
  BY DEF Settle, Attempt, TypeOK
<1>2. PICK e \in Errors : Received(c, e) /\ outcome'[c] = Class(e) /\ last'[c] = e
  BY DEF Settle
<1>3. Truthful(c, e) /\ (Class(e) = "infra" => e \in Infra)
  BY <1>0, <1>2, ReceivedIsTruthful DEF Class
<1>4. WireOK(c)'
  BY <1>0, <1>1, OpsNamed DEF CallOK, WireOK
<1>5. CauseOK(c)'
  BY <1>0, <1>1 DEF CallOK, CauseOK
<1>6. AnswerOK(c)'
  BY <1>0, <1>1, <1>2, <1>3 DEF CallOK, AnswerOK, Truthful
<1> QED
  BY <1>4, <1>5, <1>6 DEF CallOK

LEMMA RetryKeeps ==
  ASSUME TypeOK, GatewayInv, NEW c \in Calls, Retry(c)
  PROVE  CallOK(c)'
<1> USE DEF GatewayInv, Types
<1>0. /\ CallOK(c) /\ op[c] \in Ops /\ pc[c] = "backoff"
      /\ op[c] \in Retried /\ op[c] \notin Writes
  BY OpsNamed DEF Retry, Backoff, CallOK, WireOK, Pristine
<1>1. UNCHANGED <<reads, op, effects, answer>>
  BY DEF Retry, Backoff
<1>2. CASE pc'[c] = "run"
  <2>1. attempt'[c] = attempt[c] + 1 /\ attempt[c] \in Nat
    BY <1>2 DEF Retry, Backoff, TypeOK
  <2>2. wire'[c] = wire[c] \cup {attempt'[c]} /\ cause'[c] = "none"
    BY <1>2 DEF Retry
  <2>3. IsFiniteSet(wire[c]) /\ Cardinality(wire[c]) \in Nat /\ attempt'[c] \notin wire[c]
    BY <1>0, <2>1, WireFinite DEF CallOK, WireOK
  <2>4. Cardinality(wire'[c]) = Cardinality(wire[c]) + 1
    BY <2>2, <2>3, FS_AddElement
  <2>5. WireOK(c)'
    <3>1. wire'[c] \subseteq 1..attempt'[c]
      BY <1>0, <2>1, <2>2 DEF CallOK, WireOK
    <3> QED
      BY <1>0, <1>1, <1>2, <2>1, <2>3, <2>4, <3>1, OpsNamed DEF CallOK, WireOK
  <2>6. CauseOK(c)' /\ AnswerOK(c)'
    BY <1>0, <1>1, <1>2, <2>2 DEF CallOK, CauseOK, AnswerOK
  <2> QED
    BY <2>5, <2>6 DEF CallOK
<1>3. CASE pc'[c] = "record"
  <2>1. UNCHANGED <<attempt, wire, cause>>
    BY <1>3 DEF Retry, Backoff, TypeOK
  <2>2. last'[c] = IF outcome'[c] = "infra" THEN "DeadlineExceeded" ELSE "Canceled"
    BY <1>3 DEF Retry
  <2>3. Truthful(c, last[c])' /\ (outcome'[c] = "infra" => last'[c] \in Infra)
    BY <2>2 DEF Truthful, Infra
  <2> QED
    BY <1>0, <1>1, <1>3, <2>1, <2>3, OpsNamed DEF CallOK, WireOK, CauseOK, AnswerOK
<1>4. pc'[c] \in {"run", "record"}
  BY DEF Retry, Backoff, TypeOK
<1> QED
  BY <1>2, <1>3, <1>4

LEMMA RespondKeeps ==
  ASSUME TypeOK, GatewayInv, NEW c \in Calls, Respond(c)
  PROVE  CallOK(c)'
<1> USE DEF GatewayInv, Types
<1>0. CallOK(c) /\ op[c] \in Ops /\ pc[c] = "record"
  BY DEF Respond, Record, CallOK, WireOK, Pristine
<1>1. /\ UNCHANGED <<reads, attempt, op, wire, cause, effects, last>>
      /\ pc'[c] = "idle" /\ answer'[c] = last[c]
  BY DEF Respond, Record, TypeOK
<1> QED
  BY <1>0, <1>1, OpsNamed DEF CallOK, WireOK, CauseOK, AnswerOK, Truthful

LEMMA GatewayStepKeeps == TypeOK /\ GatewayInv /\ [GatewayNext]_gatewayVars => GatewayInv'
<1> SUFFICES ASSUME TypeOK, GatewayInv, [GatewayNext]_gatewayVars
             PROVE  GatewayInv'
  OBVIOUS
<1>1. Types'
  BY GatewayTypes
<1>2. ASSUME NEW c \in Calls, StepOf(c)
      PROVE  \A d \in Calls : CallOK(d)'
  <2>1. CallOK(c)'
    BY <1>2, RefuseKeeps, SendKeeps, HandleKeeps, SettleKeeps, RetryKeeps, RespondKeeps DEF StepOf
  <2> QED
    BY <1>2, <2>1, OthersKeep
<1>3. CASE UNCHANGED requests /\ UNCHANGED calls
  <2>1. UNCHANGED <<op, wire, cause, effects, last, answer, pc, reads, attempt, outcome>>
    BY <1>3 DEF requests, calls
  <2> SUFFICES ASSUME NEW c \in Calls
               PROVE  CallOK(c)'
    BY <1>1 DEF GatewayInv
  <2> USE <2>1 DEF GatewayInv, CallOK
  <2>2. WireOK(c)'
    BY DEF WireOK, Pristine
  <2>3. CauseOK(c)'
    BY DEF CauseOK
  <2>4. AnswerOK(c)'
    BY DEF AnswerOK, Truthful, Refused
  <2> QED
    BY <2>2, <2>3, <2>4
<1>4. (\E c \in Calls : StepOf(c)) \/ (UNCHANGED requests /\ UNCHANGED calls)
  BY DEF GatewayNext, StepOf, Elapse, Backend, gatewayVars, vars, calls
<1> QED
  BY <1>1, <1>2, <1>3, <1>4 DEF GatewayInv

LEMMA GatewayHolds == GatewaySpec => [](TypeOK /\ GatewayInv)
<1>1. GatewaySpec => []TypeOK
  BY GatewayUsesBreaker, BreakerTypeCorrect, PTL
<1> QED
  BY <1>1, GatewayStart, GatewayStepKeeps, PTL DEF GatewaySpec

--------------------------------------------------------------------------------
(* The results. *)

(* The gateway's state is well formed; in particular the backend never does
   what one request asks for more often than the retry loop may attempt it. *)
THEOREM GatewayTypeCorrect == GatewaySpec => []GatewayTypeOK
<1>1. TypeOK /\ GatewayInv => GatewayTypeOK
  <2> SUFFICES ASSUME TypeOK, GatewayInv
               PROVE  GatewayTypeOK
    OBVIOUS
  <2>1. ASSUME NEW c \in Calls
        PROVE  effects[c] \in 0..MaxAttempts
    <3>1. effects[c] \in Nat /\ attempt[c] \in 0..MaxAttempts /\ Cardinality(wire[c]) \in Nat
      BY WireFinite DEF GatewayInv, Types, TypeOK
    <3>2. effects[c] + Cardinality(wire[c]) <= attempt[c]
      BY DEF GatewayInv, CallOK, WireOK
    <3> QED
      BY <3>1, <3>2
  <2> QED
    BY <2>1 DEF GatewayTypeOK, GatewayInv, Types
<1> QED
  BY <1>1, GatewayHolds, PTL

(* A write is done at most once for one HTTP request, whatever the gateway
   retries and however late the backend takes an attempt up. *)
THEOREM WritesAreNotRepeated == GatewaySpec => []WritesHappenOnce
<1>1. GatewayInv => WritesHappenOnce
  BY DEF GatewayInv, CallOK, WireOK, WritesHappenOnce
<1> QED
  BY <1>1, GatewayHolds, PTL

(* An answer below 500 to a write, and a rejection by the breaker, are final. *)
THEOREM AnswersCanBeTrusted == GatewaySpec => []AnswersAreFinal
<1>1. GatewayInv => AnswersAreFinal
  <2> SUFFICES ASSUME GatewayInv, NEW c \in Calls, answer[c] # "none", op[c] \in Writes,
                      HTTPStatus(answer[c]) < 500 \/ answer[c] = "ErrCircuitOpen"
               PROVE  wire[c] = {} /\ ((effects[c] = 1) <=> (answer[c] = "ok"))
    BY DEF AnswersAreFinal, Answered
  <2>1. op[c] \in Ops /\ CallOK(c)
    <3>1. op[c] # "none"
      BY DEF Writes
    <3> QED
      BY <3>1 DEF GatewayInv, Types
  <2>2. CASE Refused(c)
    BY <2>1, <2>2, RefusalsTyped DEF Refused
  <2>3. CASE Truthful(c, answer[c])
    <3>1. answer[c] \notin Infra \cup {"Canceled", "Internal"}
      BY <2>1 DEF HTTPStatus, Infra
    <3>2. answer[c] = cause[c] /\ cause[c] \notin {"none", "Internal"}
      BY <2>3, <3>1 DEF Truthful
    <3> QED
      BY <2>1, <3>2 DEF CallOK, CauseOK
  <2> QED
    BY <2>1, <2>2, <2>3 DEF CallOK, AnswerOK
<1> QED
  BY <1>1, GatewayHolds, PTL

(* The error of the use case is the one the client is answered with, unless
   the gateway refused the request itself or no reply arrived in time. *)
THEOREM ErrorsSurviveTheDetour == GatewaySpec => []SameErrorAtTheEdge
<1>1. GatewayInv => SameErrorAtTheEdge
  BY DEF GatewayInv, CallOK, AnswerOK, Refused, Truthful, SameErrorAtTheEdge, Answered
<1> QED
  BY <1>1, GatewayHolds, PTL

--------------------------------------------------------------------------------
(* Each failure that the breaker counts is answered for. *)

Outages == {c \in Calls : answer[c] \in Infra}

LEMMA OutagesStart == GatewayInit => FailuresAreOutages
<1> SUFFICES ASSUME GatewayInit
             PROVE  FailuresAreOutages
  OBVIOUS
<1>1. failures = 0 /\ IsFiniteSet(Outages)
  BY FS_Subset DEF GatewayInit, Init, Outages
<1>2. Cardinality(Outages) \in Nat
  BY <1>1, FS_CardinalityType
<1> QED
  BY <1>1, <1>2 DEF FailuresAreOutages, Outages

LEMMA OutagesStep ==
  TypeOK /\ GatewayInv /\ FailuresAreOutages /\ [GatewayNext]_gatewayVars => FailuresAreOutages'
<1> SUFFICES ASSUME TypeOK, GatewayInv, FailuresAreOutages, [GatewayNext]_gatewayVars
             PROVE  FailuresAreOutages'
  OBVIOUS
<1>1. IsFiniteSet(Outages) /\ Cardinality(Outages) \in Nat
  BY FS_Subset, FS_CardinalityType DEF Outages
<1>2. ASSUME failures' = failures, Outages' = Outages
      PROVE  FailuresAreOutages'
  BY <1>2 DEF FailuresAreOutages, Outages
<1>3. ASSUME NEW c \in Calls, NEW o \in Ops, Refuse(c, o) \/ Shed(c, o)
      PROVE  failures' = failures /\ Outages' = Outages
  <2>1. answer[c] = "none" /\ "none" \notin Infra
    BY <1>3 DEF Refuse, Shed, New, GatewayInv, CallOK, WireOK, Pristine, Infra
  <2>2. PICK e \in Refusals(o) \cup {"ErrCircuitOpen"} : answer' = [answer EXCEPT ![c] = e]
    BY <1>3 DEF Refuse, Shed
  <2>3. e \notin Infra
    BY <2>2, RefusalsTyped DEF Infra
  <2>4. Outages' = Outages
    BY <2>1, <2>2, <2>3 DEF Outages, GatewayInv, Types
  <2>5. failures' = failures
    BY <1>3 DEF Refuse, Shed, Reject, vars, breaker
  <2> QED
    BY <2>4, <2>5
<1>4. ASSUME NEW c \in Calls, NEW o \in Ops, Send(c, o)
      PROVE  failures' = failures /\ Outages' = Outages
  BY <1>4 DEF Send, Allow, breaker, Outages
<1>5. ASSUME NEW c \in Calls, NEW n \in 1..MaxAttempts, Handle(c, n)
      PROVE  failures' = failures /\ Outages' = Outages
  BY <1>5 DEF Handle, vars, Outages
<1>6. ASSUME NEW c \in Calls, Settle(c) \/ Retry(c)
      PROVE  failures' = failures /\ Outages' = Outages
  BY <1>6 DEF Settle, Retry, Attempt, Backoff, breaker, Outages
<1>7. ASSUME NEW c \in Calls, Respond(c)
      PROVE  FailuresAreOutages'
  <2>1. /\ answer[c] = "none" /\ "none" \notin Infra
        /\ outcome[c] = "infra" => last[c] \in Infra
    BY <1>7 DEF Respond, Record, GatewayInv, CallOK, AnswerOK, Infra
  <2>2. answer' = [answer EXCEPT ![c] = last[c]]
    BY <1>7 DEF Respond
  <2>3. CASE last[c] \in Infra
    <3>1. Outages' = Outages \cup {c} /\ c \notin Outages
      BY <2>1, <2>2, <2>3 DEF Outages, GatewayInv, Types
    <3>2. Cardinality(Outages') = Cardinality(Outages) + 1
      BY <1>1, <3>1, FS_AddElement
    <3>3. failures' <= failures + 1
      BY <1>7 DEF Respond, Record, RecordFailure, RecordSuccess, Reset, UpTo, TypeOK
    <3>4. failures \in Nat /\ failures' \in Nat
      BY <1>7, RecordEffect DEF Respond, TypeOK
    <3> QED
      BY <1>1, <3>2, <3>3, <3>4 DEF FailuresAreOutages, Outages
  <2>4. CASE last[c] \notin Infra
    <3>1. Outages' = Outages
      BY <2>1, <2>2, <2>4 DEF Outages, GatewayInv, Types
    <3>2. failures' <= failures
      BY <1>7, <2>1, <2>4 DEF Respond, Record, RecordSuccess, Reset, TypeOK
    <3>3. failures \in Nat /\ failures' \in Nat
      BY <1>7, RecordEffect DEF Respond, TypeOK
    <3> QED
      BY <1>1, <3>1, <3>2, <3>3 DEF FailuresAreOutages, Outages
  <2> QED
    BY <2>3, <2>4
<1>8. CASE (Elapse \/ Backend) /\ UNCHANGED requests
  <2>1. failures' = failures /\ Outages' = Outages
    BY <1>8 DEF Elapse, Backend, breaker, requests, Outages
  <2> QED
    BY <1>2, <2>1
<1>9. CASE UNCHANGED gatewayVars
  <2>1. failures' = failures /\ Outages' = Outages
    BY <1>9 DEF gatewayVars, vars, requests, Outages
  <2> QED
    BY <1>2, <2>1
<1> QED
  BY <1>2, <1>3, <1>4, <1>5, <1>6, <1>7, <1>8, <1>9 DEF GatewayNext

(* The breaker never counts more failures than requests were answered with an
   outage, whatever errors clients cause. *)
THEOREM OnlyOutagesTrip == GatewaySpec => []FailuresAreOutages
  BY GatewayHolds, OutagesStart, OutagesStep, PTL DEF GatewaySpec

--------------------------------------------------------------------------------
(* A request for a change takes the steps of WriteChannel, alone. *)

Reply(c) == IF IsWrite(c) THEN Said(cause[c], "error") ELSE "none"
Verdict(c) == IF IsWrite(c) THEN Said(answer[c], "unknown") ELSE "none"

Same(c) == Fate(c)' = Fate(c) /\ Reply(c)' = Reply(c) /\ Verdict(c)' = Verdict(c)

Refusing(c) ==
  /\ Fate(c) = "unsent" /\ Fate(c)' = "undone"
  /\ Reply(c)' = Reply(c)
  /\ Verdict(c)' \in Denials \cup {"unknown"}

Sending(c) ==
  /\ Fate(c) = "unsent" /\ Fate(c)' = "sent"
  /\ Reply(c)' = Reply(c) /\ Verdict(c)' = Verdict(c)

TakingUp(c, f) ==
  /\ Fate(c) = "sent" /\ Fate(c)' = f
  /\ Reply(c)' \in Channel!Results[f] \cup {Reply(c)}
  /\ Verdict(c)' = Verdict(c)

Answering(c) ==
  /\ Fate(c) # "unsent" /\ Fate(c)' = Fate(c)
  /\ Reply(c)' = Reply(c)
  /\ Verdict(c) = "none"
  /\ Verdict(c)' \in ({Reply(c)} \cap (Denials \cup {"ok"})) \cup {"unknown"}

ChannelStep(c) ==
  \/ Refusing(c) \/ Sending(c) \/ TakingUp(c, "done") \/ TakingUp(c, "undone") \/ Answering(c)

(* A function that differs from another at one argument at most. *)
LEMMA ChangedAtOne ==
  ASSUME NEW S, NEW G, NEW H, NEW c \in S,
         G = [d \in S |-> G[d]], H = [d \in S |-> H[d]],
         \A d \in S \ {c} : H[d] = G[d]
  PROVE  H = [G EXCEPT ![c] = H[c]] /\ (H[c] = G[c] => H = G)
  OBVIOUS

LEMMA StepsLift ==
  ASSUME NEW c \in Calls, ChannelStep(c) \/ Same(c), \A d \in Calls \ {c} : Same(d)
  PROVE  [Channel!Next]_Channel!vars
<1> DEFINE F == [d \in Calls |-> Fate(d)]
           R == [d \in Calls |-> IF IsWrite(d) THEN Said(cause[d], "error") ELSE "none"]
           V == [d \in Calls |-> IF IsWrite(d) THEN Said(answer[d], "unknown") ELSE "none"]
<1>1. /\ R = [d \in Calls |-> Reply(d)] /\ R' = [d \in Calls |-> Reply(d)']
      /\ V = [d \in Calls |-> Verdict(d)] /\ V' = [d \in Calls |-> Verdict(d)']
      /\ F' = [d \in Calls |-> Fate(d)']
  BY DEF Reply, Verdict
<1>2. /\ \A d \in Calls : F[d] = Fate(d) /\ R[d] = Reply(d) /\ V[d] = Verdict(d)
      /\ \A d \in Calls : F'[d] = Fate(d)' /\ R'[d] = Reply(d)' /\ V'[d] = Verdict(d)'
  BY <1>1
<1>3. /\ F = [d \in Calls |-> F[d]] /\ F' = [d \in Calls |-> F'[d]]
      /\ R = [d \in Calls |-> R[d]] /\ R' = [d \in Calls |-> R'[d]]
      /\ V = [d \in Calls |-> V[d]] /\ V' = [d \in Calls |-> V'[d]]
  BY <1>1
<1> HIDE DEF F, R, V
<1>4. /\ F' = [F EXCEPT ![c] = Fate(c)'] /\ (Fate(c)' = Fate(c) => F' = F)
      /\ R' = [R EXCEPT ![c] = Reply(c)'] /\ (Reply(c)' = Reply(c) => R' = R)
      /\ V' = [V EXCEPT ![c] = Verdict(c)'] /\ (Verdict(c)' = Verdict(c) => V' = V)
  <2>1. \A d \in Calls \ {c} : F'[d] = F[d] /\ R'[d] = R[d] /\ V'[d] = V[d]
    BY <1>2 DEF Same
  <2>2. F' = [F EXCEPT ![c] = F'[c]] /\ (F'[c] = F[c] => F' = F)
    BY <1>3, <2>1, ChangedAtOne
  <2>3. R' = [R EXCEPT ![c] = R'[c]] /\ (R'[c] = R[c] => R' = R)
    BY <1>3, <2>1, ChangedAtOne
  <2>4. V' = [V EXCEPT ![c] = V'[c]] /\ (V'[c] = V[c] => V' = V)
    BY <1>3, <2>1, ChangedAtOne
  <2> QED
    BY <1>2, <2>2, <2>3, <2>4
<1>5. CASE Refusing(c)
  <2>1. Channel!Refuse(c)
    BY <1>2, <1>4, <1>5 DEF Refusing, Channel!Refuse, F, R, V
  <2> QED
    BY <2>1 DEF Channel!Next
<1>6. CASE Sending(c)
  <2>1. Channel!Send(c)
    BY <1>2, <1>4, <1>6 DEF Sending, Channel!Send, F, R, V
  <2> QED
    BY <2>1 DEF Channel!Next
<1>7. ASSUME NEW f \in {"done", "undone"}, TakingUp(c, f)
      PROVE  Channel!TakeUp(c, f)
  BY <1>2, <1>4, <1>7 DEF TakingUp, Channel!TakeUp, F, R, V
<1>8. CASE Answering(c)
  <2>1. Channel!Answer(c)
    BY <1>2, <1>4, <1>8 DEF Answering, Channel!Answer, F, R, V
  <2> QED
    BY <2>1 DEF Channel!Next
<1>9. CASE Same(c)
  BY <1>4, <1>9 DEF Same, Channel!vars, F, R, V
<1> QED
  BY <1>5, <1>6, <1>7, <1>8, <1>9 DEF ChannelStep, Channel!Next

(* The backend takes a write up once, and nothing was known of it before. *)
LEMMA TakenUpOnce ==
  ASSUME TypeOK, GatewayInv, NEW c \in Calls, NEW n \in 1..MaxAttempts, Handle(c, n), op[c] \in Writes
  PROVE  wire[c] # {} /\ wire'[c] = {} /\ effects[c] = 0 /\ cause[c] = "none"
<1>1. n \in wire[c] /\ wire'[c] = wire[c] \ {n} /\ CallOK(c)
  BY DEF Handle, GatewayInv, Types
<1>2. IsFiniteSet(wire[c]) /\ Cardinality(wire[c]) \in Nat /\ effects[c] \in Nat
  BY WireFinite DEF GatewayInv, Types
<1>3. /\ Cardinality(wire[c]) # 0
      /\ IsFiniteSet(wire'[c]) /\ Cardinality(wire'[c]) = Cardinality(wire[c]) - 1
  <2>1. IsFiniteSet(wire[c] \ {n}) /\ Cardinality(wire[c] \ {n}) = Cardinality(wire[c]) - 1
    BY <1>1, <1>2, FS_RemoveElement
  <2>2. Cardinality(wire[c]) # 0
    BY <1>1, <1>2, FS_EmptySet
  <2> QED
    BY <1>1, <2>1, <2>2
<1>4. effects[c] + Cardinality(wire[c]) <= 1
  BY <1>1 DEF CallOK, WireOK
<1>5. effects[c] = 0 /\ Cardinality(wire'[c]) = 0
  BY <1>2, <1>3, <1>4
<1> QED
  BY <1>1, <1>3, <1>5, FS_EmptySet DEF CallOK, CauseOK

LEMMA OutagesSayNothing ==
  ASSUME NEW e \in Infra \cup {"Canceled", "Internal"}
  PROVE  e \notin Denials \cup {"none", "ok"}
  BY DEF Infra, Denials, HTTPStatus

(* The errors below 500 are what WriteChannel assumes of its Denials. *)
LEMMA DenialsAreErrors == Denials \cap {"none", "ok", "error", "unknown"} = {}
  BY DEF Denials, Errors, StatusMessages, Infra, HTTPStatus

(* A new request is refused, shed or sent. *)
LEMMA NewOnChannel ==
  ASSUME TypeOK, GatewayInv, NEW c \in Calls, NEW o \in Ops, Refuse(c, o) \/ Shed(c, o) \/ Send(c, o)
  PROVE  ChannelStep(c) \/ Same(c)
<1>1. Pristine(c) /\ op[c] = "none" /\ op'[c] = o
  BY DEF Refuse, Shed, Send, New, GatewayInv, CallOK, WireOK, Types
<1>2. /\ Fate(c) = "unsent" /\ Reply(c) = "none" /\ Verdict(c) = "none"
      /\ cause'[c] = "none" /\ effects'[c] = 0
  BY <1>1 DEF Refuse, Shed, Send, Pristine, Fate, IsWrite, Reply, Verdict, Writes
<1>3. Reply(c)' = "none"
  BY <1>2 DEF Reply, Said
<1>4. CASE o \notin Writes
  BY <1>1, <1>2, <1>3, <1>4 DEF Same, Fate, IsWrite, Verdict
<1>5. CASE o \in Writes /\ (Refuse(c, o) \/ Shed(c, o))
  <2>1. wire'[c] = {}
    BY <1>1, <1>5 DEF Refuse, Shed, Pristine
  <2>2. answer'[c] \in Refusals(o) \cup {"ErrCircuitOpen"}
    BY <1>5 DEF Refuse, Shed, GatewayInv, Types
  <2>3. answer'[c] \notin {"none", "ok"}
    BY <2>2, RefusalsTyped
  <2>4. Verdict(c)' \in Denials \cup {"unknown"}
    BY <1>1, <1>5, <2>3 DEF Verdict, IsWrite, Said
  <2>5. Fate(c)' = "undone"
    BY <1>1, <1>2, <1>5, <2>1 DEF Fate, IsWrite
  <2> QED
    BY <1>2, <1>3, <2>4, <2>5 DEF ChannelStep, Refusing
<1>6. CASE o \in Writes /\ Send(c, o)
  <2>1. wire'[c] # {} /\ answer'[c] = "none"
    BY <1>1, <1>6 DEF Send, Pristine, GatewayInv, Types
  <2>2. Fate(c)' = "sent" /\ Verdict(c)' = "none"
    BY <1>1, <1>6, <2>1 DEF Fate, IsWrite, Verdict, Said
  <2> QED
    BY <1>2, <1>3, <2>2 DEF ChannelStep, Sending
<1> QED
  BY <1>4, <1>5, <1>6

LEMMA HandleOnChannel ==
  ASSUME TypeOK, GatewayInv, NEW c \in Calls, NEW n \in 1..MaxAttempts, Handle(c, n)
  PROVE  ChannelStep(c) \/ Same(c)
<1>1. op' = op /\ answer' = answer
  BY DEF Handle
<1>2. CASE op[c] \notin Writes
  BY <1>1, <1>2 DEF Same, Fate, IsWrite, Reply, Verdict
<1>3. CASE op[c] \in Writes
  <2>1. wire[c] # {} /\ wire'[c] = {} /\ effects[c] = 0 /\ cause[c] = "none"
    BY <1>3, TakenUpOnce
  <2>2. op[c] \in Ops
    BY <1>3 DEF GatewayInv, Types, Writes
  <2>3. PICK result \in BackendResults(op[c]) :
          /\ effects'[c] = effects[c] + result.done
          /\ cause'[c] = cause[c] \/ cause'[c] = result.error
    BY DEF Handle, GatewayInv, Types
  <2>4. /\ result.done \in 0..1
        /\ result.error \in BackendErrors(op[c]) \cup {"ok"}
        /\ result.error = "ok" => result.done = 1
        /\ result.error \notin {"ok", "Internal"} => result.done = 0
    BY <2>2, ResultsTyped
  <2>5. Fate(c) = "sent" /\ Fate(c)' = IF result.done = 1 THEN "done" ELSE "undone"
    BY <1>1, <1>3, <2>1, <2>3, <2>4 DEF Fate, IsWrite
  <2>6. Verdict(c)' = Verdict(c)
    BY <1>1 DEF Verdict, IsWrite
  <2>7. Reply(c)' = Reply(c) \/ Reply(c)' = Said(result.error, "error")
    BY <1>1, <2>3 DEF Reply, IsWrite
  <2>8. result.error # "none"
    BY <2>2, <2>4, BackendErrorsTyped
  <2>9. CASE result.done = 1
    <3>1. Said(result.error, "error") \in {"ok", "error"}
      BY <2>4, <2>9, OutagesSayNothing DEF Said
    <3> QED
      BY <2>5, <2>6, <2>7, <2>9, <3>1 DEF ChannelStep, TakingUp, Channel!Results
  <2>10. CASE result.done = 0
    <3>1. Said(result.error, "error") \in Denials \cup {"error"}
      BY <2>4, <2>8, <2>10 DEF Said
    <3> QED
      BY <2>5, <2>6, <2>7, <2>10, <3>1 DEF ChannelStep, TakingUp, Channel!Results
  <2> QED
    BY <2>4, <2>9, <2>10
<1> QED
  BY <1>2, <1>3

LEMMA RespondOnChannel ==
  ASSUME TypeOK, GatewayInv, NEW c \in Calls, Respond(c)
  PROVE  ChannelStep(c) \/ Same(c)
<1>1. /\ UNCHANGED <<op, wire, cause, effects>>
      /\ answer'[c] = last[c] /\ pc[c] = "record"
  BY DEF Respond, Record, GatewayInv, Types
<1>2. answer[c] = "none" /\ Truthful(c, last[c])
  BY <1>1 DEF GatewayInv, CallOK, AnswerOK
<1>3. Fate(c)' = Fate(c) /\ Reply(c)' = Reply(c)
  BY <1>1 DEF Fate, Reply, IsWrite
<1>4. CASE op[c] \notin Writes
  BY <1>1, <1>3, <1>4 DEF Same, Verdict, IsWrite
<1>5. CASE op[c] \in Writes
  <2>1. Fate(c) # "unsent" /\ Verdict(c) = "none"
    BY <1>2, <1>5 DEF Fate, Verdict, IsWrite, Said
  <2>2. Verdict(c)' = Said(last[c], "unknown") /\ Reply(c) = Said(cause[c], "error")
    BY <1>1, <1>5 DEF Verdict, Reply, IsWrite
  <2>3. CASE last[c] \in Infra \cup {"Canceled"}
    <3>1. Verdict(c)' = "unknown"
      BY <2>2, <2>3, OutagesSayNothing DEF Said
    <3> QED
      BY <1>3, <2>1, <3>1 DEF ChannelStep, Answering
  <2>4. CASE last[c] = cause[c] /\ last[c] # "none"
    <3>1. CASE last[c] \in Denials \cup {"ok"}
      <4>1. Verdict(c)' = last[c] /\ Reply(c) = last[c]
        BY <2>2, <2>4, <3>1 DEF Said
      <4> QED
        BY <1>3, <2>1, <3>1, <4>1 DEF ChannelStep, Answering
    <3>2. CASE last[c] \notin Denials \cup {"ok"}
      <4>1. Verdict(c)' = "unknown"
        BY <2>2, <2>4, <3>2 DEF Said
      <4> QED
        BY <1>3, <2>1, <4>1 DEF ChannelStep, Answering
    <3> QED
      BY <3>1, <3>2
  <2> QED
    BY <1>2, <2>3, <2>4 DEF Truthful
<1> QED
  BY <1>4, <1>5

LEMMA GatewayOnChannel ==
  ASSUME TypeOK, GatewayInv, [GatewayNext]_gatewayVars
  PROVE  [Channel!Next]_Channel!vars
<1>1. ASSUME NEW c \in Calls, StepOf(c)
      PROVE  [Channel!Next]_Channel!vars
  <2>1. ASSUME NEW d \in Calls \ {c}
        PROVE  Same(d)
    <3>1. /\ op'[d] = op[d] /\ wire'[d] = wire[d] /\ cause'[d] = cause[d]
          /\ effects'[d] = effects[d] /\ answer'[d] = answer[d]
      BY <1>1, OthersUntouched
    <3> QED
      BY <3>1 DEF Same, Fate, Reply, Verdict, IsWrite
  <2>2. CASE \E o \in Ops : Refuse(c, o) \/ Shed(c, o) \/ Send(c, o)
    BY <2>2, NewOnChannel, <2>1, StepsLift
  <2>3. CASE \E n \in 1..MaxAttempts : Handle(c, n)
    BY <2>3, HandleOnChannel, <2>1, StepsLift
  <2>4. CASE Settle(c)
    <3>1. Same(c)
      BY <2>4 DEF Settle, Same, Fate, Reply, Verdict, IsWrite
    <3> QED
      BY <2>1, <3>1, StepsLift
  <2>5. CASE Retry(c)
    <3>1. op[c] \notin Writes /\ op' = op
      BY <2>5, OpsNamed DEF Retry, Backoff, GatewayInv, CallOK, WireOK, Pristine
    <3>2. Same(c)
      BY <3>1 DEF Same, Fate, Reply, Verdict, IsWrite
    <3> QED
      BY <2>1, <3>2, StepsLift
  <2>6. CASE Respond(c)
    BY <2>6, RespondOnChannel, <2>1, StepsLift
  <2> QED
    BY <1>1, <2>2, <2>3, <2>4, <2>5, <2>6 DEF StepOf
<1>2. CASE UNCHANGED requests
  <2>1. UNCHANGED <<op, wire, cause, effects, answer>>
    BY <1>2 DEF requests
  <2> QED
    BY <2>1 DEF Channel!vars, Fate, IsWrite
<1> QED
  BY <1>1, <1>2 DEF GatewayNext, StepOf, gatewayVars

(* The gateway implements WriteChannel: to a client, a request for a change
   runs once at most, however the gateway and the backend go on, and it is
   answered with what its use case ended with or with an error that says
   nothing. *)
THEOREM GatewayKeepsPromise == GatewaySpec => ChannelSpec
<1>1. GatewayInit => Channel!Init
  BY DEF GatewayInit, Channel!Init, Fate, IsWrite, Writes
<1> QED
  BY <1>1, GatewayOnChannel, GatewayHolds, PTL DEF GatewaySpec, ChannelSpec, Channel!Spec

================================================================================
