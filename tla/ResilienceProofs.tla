---------------------------- MODULE ResilienceProofs ---------------------------
(* Proofs about the circuit breaker and the retry loop, for any number of
   calls and any thresholds. *)
EXTENDS Resilience, FiniteSetTheorems, TLAPS

USE ResilienceAssumption

(* A counter stays below its bound. *)
LEMMA UpToBounded ==
  ASSUME NEW bound \in Nat, NEW n \in 0..bound
  PROVE  UpTo(n, bound) \in 0..bound /\ (n < bound => UpTo(n, bound) = n + 1)
         /\ (n = bound => UpTo(n, bound) = bound)
  BY DEF UpTo

LEMMA TypeInit == Init => TypeOK
<1>1. Init => FlagsOK
  BY DEF Init, FlagsOK
<1> QED
  BY <1>1 DEF Init, TypeOK, Results

(* The flags of the breaker and of the backend stay Boolean. *)
LEMMA FlagsStep == FlagsOK /\ [Next]_vars => FlagsOK'
<1> SUFFICES ASSUME FlagsOK, [Next]_vars
             PROVE  FlagsOK'
  OBVIOUS
<1> USE DEF FlagsOK
<1>1. ASSUME NEW c \in Calls, Allow(c)
      PROVE  FlagsOK'
  BY <1>1 DEF Allow, breaker
<1>2. ASSUME NEW c \in Calls, Reject(c) \/ Attempt(c) \/ Backoff(c)
      PROVE  FlagsOK'
  BY <1>2 DEF Reject, Attempt, Backoff, breaker
<1>3. ASSUME NEW c \in Calls, Record(c)
      PROVE  FlagsOK'
  <2>1. elapsed' = FALSE \/ elapsed' = elapsed
    BY <1>3 DEF Record, RecordFailure, Trip, RecordSuccess, Reset
  <2> QED
    BY <1>3, <2>1 DEF Record
<1>4. CASE Elapse
  BY <1>4 DEF Elapse
<1>5. CASE Backend
  BY <1>5 DEF Backend, breaker
<1>6. CASE UNCHANGED vars
  BY <1>6 DEF vars
<1> QED
  BY <1>1, <1>2, <1>3, <1>4, <1>5, <1>6 DEF Next, Proceed

(* What the recorded result does to the breaker. *)
LEMMA RecordEffect ==
  ASSUME TypeOK, NEW c \in Calls, Record(c)
  PROVE  /\ state' \in {"closed", "open", "halfOpen"}
         /\ failures' \in 0..ErrorThreshold
         /\ successes' \in 0..SuccessThreshold
<1> USE UpToBounded DEF TypeOK
<1>1. CASE outcome[c] = "infra"
  BY <1>1 DEF Record, RecordFailure, Trip
<1>2. CASE outcome[c] = "ok"
  BY <1>2 DEF Record, RecordSuccess, Reset
<1>3. CASE outcome[c] \notin {"infra", "ok"}
  BY <1>3 DEF Record
<1> QED
  BY <1>1, <1>2, <1>3

LEMMA TypeStep == TypeOK /\ [Next]_vars => TypeOK'
<1> SUFFICES ASSUME TypeOK, [Next]_vars
             PROVE  TypeOK'
  OBVIOUS
<1> USE DEF TypeOK, breaker, calls
<1>0. FlagsOK'
  BY FlagsStep
<1>1. ASSUME NEW c \in Calls, Allow(c)
      PROVE  TypeOK'
  BY <1>0, <1>1 DEF Allow, Start
<1>2. ASSUME NEW c \in Calls, Reject(c)
      PROVE  TypeOK'
  BY <1>0, <1>2 DEF Reject
<1>3. ASSUME NEW c \in Calls, Attempt(c)
      PROVE  TypeOK'
  <2>1. Answers \subseteq Results
    BY DEF Answers, Results
  <2> QED
    BY <1>0, <1>3, <2>1 DEF Attempt
<1>4. ASSUME NEW c \in Calls, Backoff(c)
      PROVE  TypeOK'
  BY <1>0, <1>4 DEF Backoff, Results
<1>5. ASSUME NEW c \in Calls, Record(c)
      PROVE  TypeOK'
  <2>1. /\ pc' \in [Calls -> {"idle", "run", "backoff", "record"}]
        /\ UNCHANGED <<up, reads, attempt, outcome>>
        /\ probes' \subseteq Calls
    BY <1>5 DEF Record
  <2>2. \A d \in Calls : pc'[d] = "backoff" => attempt'[d] < MaxAttempts
    BY <1>5 DEF Record
  <2> QED
    BY <1>0, <1>5, <2>1, <2>2, RecordEffect
<1>6. CASE Elapse
  BY <1>0, <1>6 DEF Elapse
<1>7. CASE Backend
  BY <1>0, <1>7 DEF Backend
<1>8. CASE UNCHANGED vars
  BY <1>0, <1>8 DEF vars
<1> QED
  BY <1>1, <1>2, <1>3, <1>4, <1>5, <1>6, <1>7, <1>8 DEF Next, Proceed

(* Every reachable state of the breaker and its calls is well formed. *)
THEOREM BreakerTypeCorrect == Spec => []TypeOK
  BY TypeInit, TypeStep, PTL DEF Spec

--------------------------------------------------------------------------------
(* The operation and the backoff touch neither the breaker nor the set of
   outstanding calls. *)
LEMMA RunningKeepsBreaker ==
  ASSUME TypeOK, NEW c \in Calls, Attempt(c) \/ Backoff(c) \/ Reject(c)
  PROVE  UNCHANGED breaker /\ Outstanding' = Outstanding
  BY DEF TypeOK, Attempt, Backoff, Reject, Outstanding

LEMMA FlagHasOwnerStep == TypeOK /\ FlagHasOwner /\ [Next]_vars => FlagHasOwner'
<1> SUFFICES ASSUME TypeOK, FlagHasOwner, [Next]_vars
             PROVE  FlagHasOwner'
  OBVIOUS
<1>1. ASSUME NEW c \in Calls, Allow(c)
      PROVE  FlagHasOwner'
  <2>1. Outstanding' # {}
    BY <1>1 DEF Allow, Start, Outstanding, TypeOK
  <2> QED
    BY <1>1, <2>1 DEF Allow, breaker, FlagHasOwner, TypeOK
<1>2. ASSUME NEW c \in Calls, Attempt(c) \/ Backoff(c) \/ Reject(c)
      PROVE  FlagHasOwner'
  BY <1>2, RunningKeepsBreaker DEF breaker, FlagHasOwner
<1>3. ASSUME NEW c \in Calls, Record(c)
      PROVE  FlagHasOwner'
  <2> USE UpToBounded DEF TypeOK, FlagHasOwner
  <2>1. CASE outcome[c] = "infra"
    BY <1>3, <2>1 DEF Record, RecordFailure, Trip
  <2>2. CASE outcome[c] = "ok"
    BY <1>3, <2>2 DEF Record, RecordSuccess, Reset
  <2>3. CASE outcome[c] \notin {"infra", "ok"}
    BY <1>3, <2>3 DEF Record
  <2> QED
    BY <2>1, <2>2, <2>3
<1>4. CASE Elapse
  BY <1>4 DEF Elapse, calls, FlagHasOwner, Outstanding
<1>5. CASE Backend \/ UNCHANGED vars
  BY <1>5 DEF Backend, vars, breaker, calls, FlagHasOwner, Outstanding
<1> QED
  BY <1>1, <1>2, <1>3, <1>4, <1>5 DEF Next, Proceed

(* The in-flight flag is never left up without a call that will clear it. *)
THEOREM NoWedge == Spec => []FlagHasOwner
<1>1. Init => FlagHasOwner
  BY DEF Init, FlagHasOwner
<1>2. TypeOK /\ FlagHasOwner /\ [Next]_vars => FlagHasOwner'
  BY FlagHasOwnerStep
<1> QED
  BY <1>1, <1>2, BreakerTypeCorrect, PTL DEF Spec

--------------------------------------------------------------------------------
(* While the breaker is not closed, a call is admitted only in exchange for
   the flag, and a call that reports gives up at least what it frees. *)
THEOREM BackendLoadIsBounded == Spec => LoadNeverGrows
<1> DEFINE Shrinks == state # "closed" /\ state' # "closed" => Load' <= Load
<1>1. ASSUME TypeOK, FlagHasOwner, [Next]_vars
      PROVE  Shrinks
  <2>1. IsFiniteSet(Outstanding) /\ Cardinality(Outstanding) \in Nat
    BY FS_Subset, FS_CardinalityType DEF Outstanding
  <2>1a. Load <= Load
    BY <2>1 DEF Load
  <2>2. ASSUME NEW c \in Calls, Allow(c), state # "closed"
        PROVE  Load' <= Load
    <3>1. Outstanding' = Outstanding \cup {c} /\ c \notin Outstanding
      BY <1>1, <2>2 DEF Allow, Start, Outstanding, TypeOK
    <3>2. Cardinality(Outstanding') = Cardinality(Outstanding) + 1
      BY <2>1, <3>1, FS_AddElement
    <3>3. halfOpenInFlight = FALSE /\ halfOpenInFlight' = TRUE
      BY <1>1, <2>2 DEF Allow, Rejecting, FlagHasOwner, TypeOK
    <3> QED
      BY <2>1, <3>2, <3>3 DEF Load
  <2>3. ASSUME NEW c \in Calls, Record(c)
        PROVE  Load' <= Load
    <3>1. Outstanding' = Outstanding \ {c} /\ c \in Outstanding
      BY <1>1, <2>3 DEF Record, Outstanding, TypeOK
    <3>2. Cardinality(Outstanding') = Cardinality(Outstanding) - 1
      BY <2>1, <3>1, FS_RemoveElement
    <3>3. halfOpenInFlight' = FALSE
      BY <2>3 DEF Record
    <3> QED
      BY <2>1, <3>2, <3>3 DEF Load
  <2>4. ASSUME NEW c \in Calls, Attempt(c) \/ Backoff(c) \/ Reject(c)
        PROVE  Load' <= Load
    <3>1. UNCHANGED <<halfOpenInFlight, Outstanding>>
      BY <1>1, <2>4, RunningKeepsBreaker DEF breaker
    <3> QED
      BY <2>1a, <3>1 DEF Load
  <2>5. CASE Elapse \/ Backend \/ UNCHANGED vars
    <3>1. UNCHANGED <<halfOpenInFlight, pc>>
      BY <2>5 DEF Elapse, Backend, vars, breaker, calls
    <3>2. UNCHANGED Outstanding
      BY <3>1 DEF Outstanding
    <3> QED
      BY <2>1a, <3>1, <3>2 DEF Load
  <2> QED
    BY <1>1, <2>2, <2>3, <2>4, <2>5 DEF Next, Proceed
<1>2. TypeOK /\ FlagHasOwner /\ [Next]_vars => [Shrinks]_vars
  BY <1>1
<1> QED
  BY <1>2, BreakerTypeCorrect, NoWedge, PTL DEF Spec, LoadNeverGrows
================================================================================
