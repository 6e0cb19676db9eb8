------------------------------- MODULE Lifecycle -------------------------------
(***************************************************************************)
(* One process of the system from its start to its exit, as                *)
(* internal/bootstrap runs it: resources are acquired one after another,   *)
(* requests are served until a signal or a failure of the server, and then *)
(* Wait calls the shutdown hooks in order.  Requests, the hourly cleanup   *)
(* and the shutdown deadline run beside all of this.                       *)
(***************************************************************************)
EXTENDS Configuration

CONSTANTS
  Calls,      \* requests that reach the server
  Configs     \* the configurations a process may find

ASSUME LifecycleAssumption == Configs \subseteq Config

VARIABLES
  service,    \* the program: cmd/auth, cmd/notes or cmd/gateway
  config,     \* what Load returns
  phase,      \* what the main goroutine does
  at,         \* the step of the set-up, or the hook, it has reached
  open,       \* resources that were acquired and not released
  accepting,  \* new requests still reach a handler
  call,       \* what became of each request
  grace,      \* how the server is being stopped
  cleanup,    \* the goroutine of runTokenCleanup
  cancelled,  \* its context is cancelled
  late,       \* the shutdown deadline has passed
  cause,      \* why serving ended
  failed,     \* a hook returned an error
  answer      \* what the main function gets back

main == <<service, config, cause, phase, at, failed, answer>>
worker == <<cleanup, cancelled>>
vars == <<service, config, phase, at, open, accepting, call, grace, cleanup, cancelled,
          late, cause, failed, answer>>

Services == {"auth", "notes", "gateway"}

(* StartAuth, StartNotes, StartGateway: what is done first and what then.
   load, logger, sections, migrate and jwt hold nothing. *)
FirstStep == "load"

StepAfter ==
  LET Backend == [load |-> "logger", logger |-> "sections", sections |-> "migrate",
                  migrate |-> "db", db |-> "jwt", jwt |-> "server"]
  IN [auth    |-> Backend,
      notes   |-> Backend,
      gateway |-> [load |-> "logger", logger |-> "sections", sections |-> "authClient",
                   authClient |-> "notesClient", notesClient |-> "redis", redis |-> "server"]]

(* Bug: the database is closed before the cleanup is stopped. *)
HookAfter_DbEarly ==
  [auth    |-> [server |-> "db", db |-> "cleanup", cleanup |-> "return"],
   notes   |-> [server |-> "db", db |-> "return"],
   gateway |-> [server |-> "authClient", authClient |-> "notesClient",
                notesClient |-> "redis", redis |-> "return"]]

(* The hooks that are handed to Wait, which begins with the server. *)
HookAfter ==
  [auth    |-> [server |-> "cleanup", cleanup |-> "db", db |-> "return"],
   notes   |-> [server |-> "db", db |-> "return"],
   gateway |-> [server |-> "authClient", authClient |-> "notesClient",
                notesClient |-> "redis", redis |-> "return"]]

(* Bug: one close is missing when the address of the server is taken. *)
Undo_Forgets(s) ==
  CASE s \in {"jwt", "server"} /\ service # "gateway" -> {"db"}
    [] s = "notesClient" -> {"authClient"}
    [] s = "redis" -> {"notesClient", "authClient"}
    [] s = "server" /\ service = "gateway" -> {"redis", "notesClient"}
    [] OTHER -> {}

(* What is closed before a failed step s returns its error. *)
Undo(s) ==
  CASE s \in {"jwt", "server"} /\ service # "gateway" -> {"db"}
    [] s = "notesClient" -> {"authClient"}
    [] s = "redis" -> {"notesClient", "authClient"}
    [] s = "server" /\ service = "gateway" -> {"redis", "notesClient", "authClient"}
    [] OTHER -> {}

(* What a step checks before it does anything. *)
Passes(s) ==
  CASE s = "logger" -> "Logging" \in config.sections
    [] s = "sections" -> IF service = "gateway" THEN RequireGatewayConfig(config)
                         ELSE EnsurePostgresAndGRPC(config)
    [] s = "jwt" -> IF service = "auth" THEN EnsureAuthJWT(config) ELSE EnsureNotesJWT(config)
    [] s \in {"authClient", "notesClient"} -> "GRPCClient" \in config.sections
    [] s = "redis" -> "Redis" \in config.sections
    [] OTHER -> TRUE

(* The sections that a step dereferences without looking. *)
Uses(s) ==
  CASE s \in {"migrate", "db"} -> {"Postgres"}
    [] s = "authClient" -> {"Logging"}
    [] s = "server" /\ service = "auth" -> {"Logging", "JWT", "GRPC", "Shutdown"}
    [] s = "server" /\ service = "notes" -> {"Logging", "GRPC", "Shutdown"}
    [] s = "server" /\ service = "gateway" -> {"HTTP", "Shutdown"}
    [] OTHER -> {}

Blind == ~(Uses(at) \subseteq config.sections)

(* setupPostgres waits for Postgres without a deadline. *)
DatabaseSteps == {"migrate", "db"}

(* Bug: the context with the timeout is not handed on. *)
Bounded_Never(s) == s \notin DatabaseSteps \cup {"authClient", "notesClient"}

(* A step that ends by itself, whatever it waits for: a client waits for its
   connection until the connect timeout, if there is one. *)
Bounded(s) ==
  /\ s \notin DatabaseSteps
  /\ s \in {"authClient", "notesClient"} => config.connectTimeout

(* What a failed step leaves behind itself: NewRedisCache keeps the client
   whose first PING failed. *)
Abandoned(s) == IF s = "redis" THEN {"redis"} ELSE {}

(* What the handlers and the cleanup use. *)
Needs == IF service = "gateway" THEN {"authClient", "notesClient", "redis"} ELSE {"db"}

Resources == {"db", "server", "authClient", "notesClient", "redis"}

Running == {c \in Calls : call[c] = "running"}

FlagsOK ==
  accepting \in BOOLEAN /\ cancelled \in BOOLEAN /\ late \in BOOLEAN /\ failed \in BOOLEAN

PlaceOK ==
  /\ service \in Services
  /\ config \in Configs
  /\ phase \in {"setup", "serving", "shutdown", "exited"}
  /\ phase = "setup" => at = "server" \/ at \in DOMAIN StepAfter[service]
  /\ phase \in {"serving", "shutdown"} => at \in DOMAIN HookAfter[service]
  /\ open \subseteq Needs \cup {"server"}
  /\ call \in [Calls -> {"none", "running", "done"}]
  /\ grace \in {"off", "graceful", "forced"}
  /\ cleanup \in {"off", "idle", "busy", "ended"}
  /\ service # "auth" => cleanup = "off"
  /\ cause \in {"none", "signal", "crash"}
  /\ answer \in {"none", "ok", "error", "panic"}

TypeOK == PlaceOK /\ FlagsOK

Init ==
  /\ service \in Services
  /\ config \in Configs
  /\ phase = "setup" /\ at = FirstStep /\ open = {}
  /\ accepting = FALSE /\ call = [c \in Calls |-> "none"] /\ grace = "off"
  /\ cleanup = "off" /\ cancelled = FALSE /\ late = FALSE
  /\ cause = "none" /\ failed = FALSE /\ answer = "none"

--------------------------------------------------------------------------------
(* The start. *)

Acquire ==
  /\ phase = "setup" /\ at # "server" /\ ~Blind
  /\ Passes(at)
  /\ open' = open \cup ({at} \cap Resources)
  /\ at' = StepAfter[service][at]
  /\ UNCHANGED <<service, config, phase, accepting, call, grace, worker, late, cause, failed, answer>>

Serve ==
  /\ phase = "setup" /\ at = "server" /\ ~Blind
  /\ open' = open \cup {"server"}
  /\ phase' = "serving"
  /\ accepting' = TRUE
  /\ cleanup' = IF service = "auth" THEN "idle" ELSE "off"
  /\ UNCHANGED <<service, config, at, call, grace, cancelled, late, cause, failed, answer>>

(* A check fails, or a step that does more than check: what was opened is
   closed.  But no one recovers when a nil pointer is dereferenced. *)
SetupFails ==
  /\ phase = "setup"
  /\ ~Passes(at) \/ at \notin {"sections", "jwt"}
  /\ open' = IF Blind THEN open ELSE (open \ Undo(at)) \cup Abandoned(at)
  /\ answer' = IF Blind THEN "panic" ELSE "error"
  /\ phase' = "exited"
  /\ UNCHANGED <<service, config, at, accepting, call, grace, worker, late, cause, failed>>

SetupStep == Acquire \/ Serve \/ SetupFails

--------------------------------------------------------------------------------
(* Requests, and the cleanup that runs every hour. *)

Accept(c) ==
  /\ phase # "exited" /\ accepting
  /\ call[c] = "none"
  /\ call' = [call EXCEPT ![c] = "running"]
  /\ UNCHANGED <<main, open, accepting, grace, worker, late>>

Finish(c) ==
  /\ phase # "exited"
  /\ call[c] = "running"
  /\ call' = [call EXCEPT ![c] = "done"]
  /\ UNCHANGED <<main, open, accepting, grace, worker, late>>

(* The select of runTokenCleanup may take a tick also when it is cancelled. *)
CleanupTick ==
  /\ phase # "exited"
  /\ cleanup = "idle" /\ cleanup' = "busy"
  /\ UNCHANGED <<main, open, accepting, call, grace, cancelled, late>>

CleanupReturns ==
  /\ phase # "exited"
  /\ cleanup = "busy" /\ cleanup' = "idle"
  /\ UNCHANGED <<main, open, accepting, call, grace, cancelled, late>>

CleanupEnds ==
  /\ phase # "exited"
  /\ cleanup = "idle" /\ cancelled /\ cleanup' = "ended"
  /\ UNCHANGED <<main, open, accepting, call, grace, cancelled, late>>

--------------------------------------------------------------------------------
(* Wait. *)

(* A signal, or an error of the server; a server returns without an error
   only after it was stopped, which the hooks do. *)
StopServing(why) ==
  /\ phase = "serving"
  /\ cause' = why
  /\ phase' = "shutdown"
  /\ UNCHANGED <<service, config, at, open, accepting, call, grace, worker, late, failed, answer>>

(* context.WithTimeout for all hooks together. *)
Expire ==
  /\ phase = "shutdown" /\ ~late /\ late' = TRUE
  /\ UNCHANGED <<main, open, accepting, call, grace, worker>>

(* Bug: only the error of the last hook is kept. *)
HookDone_KeepsLast(error) ==
  /\ failed' = error
  /\ at' = HookAfter[service][at]
  /\ \/ at' # "return" /\ UNCHANGED <<phase, answer>>
     \/ /\ at' = "return"
        /\ phase' = "exited"
        /\ answer' = IF cause = "signal" /\ ~failed' THEN "ok" ELSE "error"

(* Bug: the loop goes on after the last hook. *)
HookDone_NoEnd(error) ==
  /\ failed' = (failed \/ error)
  /\ at' = HookAfter[service][at]
  /\ UNCHANGED <<phase, answer>>

(* The next hook, or the return of Wait. *)
HookDone(error) ==
  /\ failed' = (failed \/ error)
  /\ at' = HookAfter[service][at]
  /\ \/ at' # "return" /\ UNCHANGED <<phase, answer>>
     \/ /\ at' = "return"
        /\ phase' = "exited"
        /\ answer' = IF cause = "signal" /\ ~failed' THEN "ok" ELSE "error"

AtHook(h) == phase = "shutdown" /\ at = h

(* GracefulStop, or ShutdownWithContext, begins and closes the listener. *)
StopServer ==
  /\ AtHook("server") /\ grace = "off"
  /\ grace' = "graceful"
  /\ UNCHANGED <<main, open, accepting, call, worker, late>>

(* The connections are told to take no further request. *)
Drain ==
  /\ AtHook("server") /\ grace = "graceful" /\ accepting
  /\ accepting' = FALSE
  /\ UNCHANGED <<main, open, call, grace, worker, late>>

(* The deadline: Server.Stop cuts the connections and with them the contexts
   of the handlers, and goes on waiting for GracefulStop. *)
ForceStop ==
  /\ AtHook("server") /\ service # "gateway" /\ grace = "graceful" /\ late
  /\ grace' = "forced" /\ accepting' = FALSE
  /\ UNCHANGED <<main, open, call, worker, late>>

ServerStopped ==
  /\ AtHook("server") /\ grace # "off" /\ ~accepting /\ Running = {}
  /\ open' = open \ {"server"}
  /\ HookDone(FALSE)
  /\ UNCHANGED <<service, config, cause, accepting, call, grace, worker, late>>

(* The deadline at the gateway: ShutdownWithContext returns its error and the
   handlers run on. *)
ServerAbandoned ==
  /\ AtHook("server") /\ service = "gateway" /\ grace = "graceful" /\ late
  /\ open' = open \ {"server"} /\ accepting' = FALSE
  /\ HookDone(TRUE)
  /\ UNCHANGED <<service, config, cause, call, grace, worker, late>>

(* Bug: the hook waits for the cleanup without stopping it. *)
CancelCleanup_Forgotten ==
  /\ AtHook("cleanup") /\ cleanup = "ended" /\ ~cancelled
  /\ cancelled' = TRUE
  /\ UNCHANGED <<main, open, accepting, call, grace, cleanup, late>>

CancelCleanup ==
  /\ AtHook("cleanup") /\ ~cancelled
  /\ cancelled' = TRUE
  /\ UNCHANGED <<main, open, accepting, call, grace, cleanup, late>>

CleanupJoined ==
  /\ AtHook("cleanup") /\ cancelled /\ cleanup = "ended"
  /\ HookDone(FALSE)
  /\ UNCHANGED <<service, config, cause, open, accepting, call, grace, worker, late>>

Release(r) ==
  /\ AtHook(r)
  /\ open' = open \ {r}
  /\ \E error \in {FALSE, r # "db"} : HookDone(error)
  /\ UNCHANGED <<service, config, cause, accepting, call, grace, worker, late>>

ShutdownStep ==
  \/ StopServer \/ Drain \/ ForceStop \/ ServerStopped \/ ServerAbandoned
  \/ CancelCleanup \/ CleanupJoined
  \/ \E r \in {"db", "authClient", "notesClient", "redis"} : Release(r)

(* The process has exited. *)
Exited == phase = "exited" /\ UNCHANGED vars

Next ==
  \/ SetupStep
  \/ \E c \in Calls : Accept(c) \/ Finish(c)
  \/ CleanupTick \/ CleanupReturns \/ CleanupEnds
  \/ StopServing("signal") \/ StopServing("crash")
  \/ Expire \/ ShutdownStep \/ Exited

Spec == Init /\ [][Next]_vars

(* A statement or a handler need not return until its context is cancelled.
   A Go select picks at random among the cases that are ready. *)
Fairness ==
  /\ WF_vars(Bounded(at) /\ SetupStep)
  /\ WF_vars(ShutdownStep)
  /\ WF_vars(Expire)
  /\ \A c \in Calls : WF_vars(grace = "forced" /\ Finish(c))
  /\ WF_vars(cancelled /\ CleanupReturns)
  /\ SF_vars(CleanupEnds)

FairSpec == Spec /\ Fairness

--------------------------------------------------------------------------------
(* While a handler or the cleanup runs, the database or the clients it uses
   are open; at the gateway only until the shutdown deadline. *)
UsersBeforeResources ==
  (Running # {} \/ cleanup \in {"idle", "busy"}) =>
     Needs \subseteq open \/ (service = "gateway" /\ late)

(* However a process ends, after a failed start or after the hooks, what it
   acquired is released. *)
NothingLeaks ==
  phase = "exited" => open = IF cause = "none" THEN Abandoned(at) ELSE {}

(* A process that returns no error was asked to stop, and every handler had
   returned before its hooks went on. *)
HonestExit == answer = "ok" => cause = "signal" /\ ~failed /\ Running = {}

(* No step of a start relies on a part of the configuration that no earlier
   step has checked: none dereferences a section that is missing, a service
   never serves on a key that is too short, and the auth service never signs
   both kinds of tokens with one key, whichever secrets stand in for others. *)
ChecksComeFirst ==
  /\ answer # "panic"
  /\ phase \in {"serving", "shutdown"} /\ service # "gateway" =>
        ResolvedAccessSecret(config) \in Long
  /\ phase \in {"serving", "shutdown"} /\ service = "auth" =>
        ResolvedRefreshSecret(config) \in Long \ {ResolvedAccessSecret(config)}

(* If the connect timeouts are set (waitUntilReady), a start ends, in service
   or with an error, also when a backend is down: nothing but Postgres, which
   is waited for without a deadline, can hold it up. *)
StartEnds ==
  (phase = "setup" /\ config.connectTimeout) ~> (phase # "setup" \/ at \in DatabaseSteps)

(* A shutdown ends, also when handlers and statements hang until they are
   cancelled. *)
ShutdownEnds == (phase = "shutdown") ~> (phase = "exited")

--------------------------------------------------------------------------------
(* Why they hold: the inductive invariant. *)

(* What is open when the set-up has reached a step, or the shutdown a hook. *)
Acquired ==
  CASE at = "jwt" -> {"db"}
    [] at = "notesClient" -> {"authClient"}
    [] at = "redis" -> {"authClient", "notesClient"}
    [] at = "server" -> Needs
    [] OTHER -> {}

Remaining ==
  CASE at = "server" -> Needs \cup {"server"}
    [] at = "notesClient" -> {"notesClient", "redis"}
    [] at = "redis" -> {"redis"}
    [] OTHER -> Needs

OpenInv ==
  /\ phase = "setup" => open = Acquired
  /\ phase = "serving" => open = Needs \cup {"server"} /\ at = "server"
  /\ phase = "shutdown" => open = Remaining
  /\ NothingLeaks

(* Nothing runs before the server does. *)
BeforeInv ==
  /\ phase \in {"setup", "serving"} => cause = "none" /\ answer = "none"
  /\ phase = "shutdown" => cause # "none" /\ answer = "none"
  /\ phase = "setup" \/ (phase = "exited" /\ cause = "none") =>
        ~accepting /\ Running = {} /\ cleanup = "off"

(* After the hook of the server no handler runs, save at a gateway that gave
   up on them; after the hook of the cleanup it has ended. *)
AfterInv ==
  /\ phase = "exited" \/ (phase = "shutdown" /\ at # "server") =>
        ~accepting /\ (Running = {} \/ (service = "gateway" /\ late /\ failed))
  /\ phase = "exited" \/ (phase = "shutdown" /\ at = "db") => cleanup \in {"off", "ended"}

(* What the steps so far have found out about the configuration. *)
CheckedInv ==
  phase = "setup" =>
    /\ at \notin {"load", "logger"} => "Logging" \in config.sections
    /\ at \notin {"load", "logger", "sections"} =>
          IF service = "gateway" THEN RequireGatewayConfig(config) ELSE EnsurePostgresAndGRPC(config)
    /\ at = "server" /\ service = "auth" => EnsureAuthJWT(config)
    /\ at = "server" /\ service = "notes" => EnsureNotesJWT(config)

LifecycleInv ==
  /\ CheckedInv /\ ChecksComeFirst
  /\ OpenInv /\ BeforeInv /\ AfterInv
  /\ UsersBeforeResources /\ HonestExit

================================================================================
