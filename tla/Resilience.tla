------------------------------- MODULE Resilience ------------------------------
(***************************************************************************)
(* The gateway's protection of one backend (internal/fault/fault.go): a    *)
(* circuit breaker around every call, and inside it a retry loop around    *)
(* the calls that only read.                                               *)
(*                                                                         *)
(* A call is a goroutine of the gateway.  It takes the breaker's mutex     *)
(* twice, in allow and in record, and runs the operation in between        *)
(* without it, so the breaker may have changed state, more than once, by   *)
(* the time a result is recorded.                                          *)
(***************************************************************************)
EXTENDS Naturals, FiniteSets

CONSTANTS
  Calls,              \* goroutines that call the backend, one call at a time
  ErrorThreshold,
  SuccessThreshold,
  MaxAttempts

ASSUME ResilienceAssumption ==
  /\ IsFiniteSet(Calls)
  /\ ErrorThreshold \in Nat \ {0}
  /\ SuccessThreshold \in Nat \ {0}
  /\ MaxAttempts \in Nat \ {0}

VARIABLES
  state,              \* CircuitState
  failures,
  successes,
  halfOpenInFlight,
  elapsed,            \* more than Timeout has passed since lastChange
  up,                 \* the backend answers in time
  pc,                 \* where each call is
  reads,              \* the calls that go through the retry loop
  attempt,            \* attempts of the operation so far
  outcome,            \* what the operation, or the breaker, returned last
  probes              \* history: calls let through since the breaker last tripped

breaker == <<state, failures, successes, halfOpenInFlight, elapsed>>
calls == <<pc, reads, attempt, outcome>>
vars == <<state, failures, successes, halfOpenInFlight, elapsed, up,
          pc, reads, attempt, outcome, probes>>

(* Errors, as isInfraError and ShouldRetry tell them apart: the backend is
   unreachable or too slow; it answered with an error of its own; the caller
   went away. *)
Results == {"ok", "infra", "business", "canceled"}

FlagsOK ==
  /\ halfOpenInFlight \in BOOLEAN
  /\ elapsed \in BOOLEAN
  /\ up \in BOOLEAN

TypeOK ==
  /\ FlagsOK
  /\ state \in {"closed", "open", "halfOpen"}
  /\ failures \in 0..ErrorThreshold
  /\ successes \in 0..SuccessThreshold
  /\ pc \in [Calls -> {"idle", "run", "backoff", "record"}]
  /\ reads \subseteq Calls
  /\ attempt \in [Calls -> 0..MaxAttempts]
  /\ outcome \in [Calls -> Results \cup {"none", "rejected"}]
  /\ probes \subseteq Calls
  /\ \A c \in Calls : pc[c] = "backoff" => attempt[c] < MaxAttempts

Init ==
  /\ state = "closed"
  /\ failures = 0
  /\ successes = 0
  /\ halfOpenInFlight = FALSE
  /\ elapsed = FALSE
  /\ up = TRUE
  /\ pc = [c \in Calls |-> "idle"]
  /\ reads = {}
  /\ attempt = [c \in Calls |-> 0]
  /\ outcome = [c \in Calls |-> "none"]
  /\ probes = {}

(* Counters are compared with their threshold only, so they stop there: the
   bound of the model. *)
UpTo(n, bound) == IF n < bound THEN n + 1 ELSE bound

--------------------------------------------------------------------------------
(* allow: the breaker admits a call or rejects it. *)

(* Bug: half-open state does not limit the calls. *)
Rejecting_OpenOnly == state = "open" /\ ~elapsed

Rejecting ==
  \/ state = "open" /\ ~elapsed
  \/ state = "halfOpen" /\ halfOpenInFlight

Reject(c) ==
  /\ pc[c] = "idle"
  /\ Rejecting
  /\ outcome' = [outcome EXCEPT ![c] = "rejected"]
  /\ UNCHANGED <<breaker, up, pc, reads, attempt, probes>>

Start(c) ==
  /\ pc' = [pc EXCEPT ![c] = "run"]
  /\ attempt' = [attempt EXCEPT ![c] = 1]
  /\ outcome' = [outcome EXCEPT ![c] = "none"]
  /\ reads' \in {reads \cup {c}, reads \ {c}}

(* Bug: every probe starts the count of successes again. *)
Allow_Recounts(c) ==
  /\ pc[c] = "idle"
  /\ ~Rejecting
  /\ Start(c)
  /\ IF state = "closed"
     THEN UNCHANGED <<breaker, probes>>
     ELSE /\ state' = "halfOpen"
          /\ elapsed' = FALSE
          /\ halfOpenInFlight' = TRUE
          /\ probes' = probes \cup {c}
          /\ successes' = 0
          /\ UNCHANGED failures
  /\ UNCHANGED up

Allow(c) ==
  /\ pc[c] = "idle"
  /\ ~Rejecting
  /\ Start(c)
  /\ IF state = "closed"
     THEN UNCHANGED <<breaker, probes>>
     ELSE /\ state' = "halfOpen"
          /\ elapsed' = FALSE
          /\ halfOpenInFlight' = TRUE
          /\ probes' = probes \cup {c}
          /\ UNCHANGED <<failures, successes>>
  /\ UNCHANGED up

(* The timer of an open breaker runs out. *)
Elapse ==
  /\ state = "open"
  /\ ~elapsed
  /\ elapsed' = TRUE
  /\ UNCHANGED <<state, failures, successes, halfOpenInFlight, up, calls, probes>>

--------------------------------------------------------------------------------
(* The operation and, for reads, retryExecute around it. *)

ShouldRetry(o) == o = "infra"

(* What the backend, or the caller's context, makes of one attempt. *)
Answers == (IF up THEN {"ok", "business"} ELSE {"infra"}) \cup {"canceled"}

(* Bug: attempt > maxAttempts where the code has attempt >= maxAttempts. *)
Attempt_OneMore(c) ==
  /\ pc[c] = "run"
  /\ \E o \in Answers :
       /\ outcome' = [outcome EXCEPT ![c] = o]
       /\ pc' = [pc EXCEPT ![c] =
                   IF c \in reads /\ ShouldRetry(o) /\ attempt[c] <= MaxAttempts
                   THEN "backoff" ELSE "record"]
  /\ UNCHANGED <<breaker, up, reads, attempt, probes>>

Attempt(c) ==
  /\ pc[c] = "run"
  /\ \E o \in Answers :
       /\ outcome' = [outcome EXCEPT ![c] = o]
       /\ pc' = [pc EXCEPT ![c] =
                   IF c \in reads /\ ShouldRetry(o) /\ attempt[c] < MaxAttempts
                   THEN "backoff" ELSE "record"]
  /\ UNCHANGED <<breaker, up, reads, attempt, probes>>

(* The backoff timer fires, or the context ends first, cancelled by the
   caller or by its deadline. *)
Backoff(c) ==
  /\ pc[c] = "backoff"
  /\ \/ /\ attempt' = [attempt EXCEPT ![c] = @ + 1]
        /\ pc' = [pc EXCEPT ![c] = "run"]
        /\ UNCHANGED outcome
     \/ /\ \E o \in {"canceled", "infra"} : outcome' = [outcome EXCEPT ![c] = o]
        /\ pc' = [pc EXCEPT ![c] = "record"]
        /\ UNCHANGED attempt
  /\ UNCHANGED <<breaker, up, reads, probes>>

--------------------------------------------------------------------------------
(* record: whatever call returns, and whenever it was admitted, its result
   goes to the breaker as it is now. *)

Trip ==
  /\ state' = "open"
  /\ elapsed' = FALSE
  /\ successes' = 0

RecordFailure ==
  /\ failures' = UpTo(failures, ErrorThreshold)
  /\ IF state = "halfOpen" \/ (state = "closed" /\ failures' = ErrorThreshold)
     THEN Trip
     ELSE UNCHANGED <<state, elapsed, successes>>

Reset ==
  /\ state' = "closed"
  /\ failures' = 0
  /\ successes' = 0
  /\ elapsed' = FALSE

RecordSuccess ==
  \/ /\ state = "closed"
     /\ failures' = 0
     /\ UNCHANGED <<state, elapsed, successes>>
  \/ /\ state = "halfOpen"
     /\ UpTo(successes, SuccessThreshold) = SuccessThreshold
     /\ Reset
  \/ /\ state = "open" \/ (state = "halfOpen" /\ successes + 1 < SuccessThreshold)
     /\ successes' = UpTo(successes, SuccessThreshold)
     /\ UNCHANGED <<state, failures, elapsed>>

(* Bug: the early return for errors of the caller comes before the flag. *)
Record_ClearsLate(c) ==
  /\ pc[c] = "record"
  /\ pc' = [pc EXCEPT ![c] = "idle"]
  /\ CASE outcome[c] = "infra" -> RecordFailure /\ halfOpenInFlight' = FALSE
       [] outcome[c] = "ok" -> RecordSuccess /\ halfOpenInFlight' = FALSE
       [] OTHER -> UNCHANGED <<state, failures, successes, elapsed, halfOpenInFlight>>
  /\ probes' = IF state' = "halfOpen" THEN probes \ {c} ELSE {}
  /\ UNCHANGED <<up, reads, attempt, outcome>>

Record(c) ==
  /\ pc[c] = "record"
  /\ pc' = [pc EXCEPT ![c] = "idle"]
  /\ halfOpenInFlight' = FALSE
  /\ CASE outcome[c] = "infra" -> RecordFailure
       [] outcome[c] = "ok" -> RecordSuccess
       [] OTHER -> UNCHANGED <<state, failures, successes, elapsed>>
  /\ probes' = IF state' = "halfOpen" THEN probes \ {c} ELSE {}
  /\ UNCHANGED <<up, reads, attempt, outcome>>

(* The backend goes away and comes back. *)
Backend ==
  /\ up' = ~up
  /\ UNCHANGED <<breaker, calls, probes>>

Proceed(c) == Attempt(c) \/ Backoff(c) \/ Record(c)

Next ==
  \/ \E c \in Calls : Allow(c) \/ Reject(c) \/ Proceed(c)
  \/ Elapse
  \/ Backend

Spec == Init /\ [][Next]_vars

(* An admitted call ends: attempts have a deadline, backoffs a timer.  No one
   promises that there is traffic, or that the backend comes back. *)
FairSpec == Spec /\ \A c \in Calls : WF_vars(Proceed(c))

--------------------------------------------------------------------------------

(* Calls that were admitted and have not reported back. *)
Outstanding == {c \in Calls : pc[c] # "idle"}

(* The in-flight flag is up only in half-open state and while some call that
   will take it down is outstanding, so no admitted call can wedge the
   breaker; the failure count is below the threshold exactly when it is
   closed, and a closed breaker starts counting successes from zero. *)
FlagHasOwner ==
  /\ halfOpenInFlight => state = "halfOpen" /\ Outstanding # {}
  /\ (state = "closed") <=> (failures < ErrorThreshold)
  /\ state = "closed" => successes = 0
  /\ elapsed => state = "open"

(* The load that calls put on the backend, the one probe aside. *)
Load == Cardinality(Outstanding) - (IF halfOpenInFlight THEN 1 ELSE 0)

(* While the breaker is not closed the load never grows: at any time at most
   one more call is outstanding than when it tripped.  (It is not true that
   only one probe is: see AtMostOneProbe.) *)
LoadNeverGrows ==
  [][state # "closed" /\ state' # "closed" => Load' <= Load]_vars

(* A probe always ends and lets the next one in (record clears the flag on
   every path, before its early returns). *)
ProbeEnds == halfOpenInFlight ~> ~halfOpenInFlight

(* If the backend stays up and calls keep succeeding, the breaker closes and
   stays closed. *)
Recovers ==
  (<>[]up /\ []<>(\E c \in Calls : pc[c] = "record" /\ outcome[c] = "ok"))
    => <>[](state = "closed")

(* fault.go:226, "circuit breaker rejected concurrent half-open probe": while
   the breaker is half-open no two probes are under way. *)
AtMostOneProbe == state = "halfOpen" => \A c, d \in probes : c = d

================================================================================
