---------------------------- MODULE LifecycleProofs ----------------------------
(* Proofs about the life of a process, for any number of requests. *)
EXTENDS Lifecycle, TLAPS

(* The order of the set-up. *)
LEMMA SetupOrder ==
  ASSUME PlaceOK, phase = "setup"
  PROVE  /\ at \in Needs \cup {"load", "logger", "sections", "migrate", "jwt", "server"}
         /\ at # "server" => at \in DOMAIN StepAfter[service]
         /\ at # "server" => StepAfter[service][at] \in {"server"} \cup DOMAIN StepAfter[service]
  BY DEF PlaceOK, Services, StepAfter, Needs

(* The order of the hooks. *)
LEMMA HookOrder ==
  ASSUME PlaceOK, phase \in {"serving", "shutdown"}
  PROVE  HookAfter[service][at] \in {"return"} \cup DOMAIN HookAfter[service]
  BY DEF PlaceOK, Services, HookAfter

(* The server is stopped first. *)
LEMMA ServerHook ==
  ASSUME NEW s \in Services
  PROVE  "server" \in DOMAIN HookAfter[s]
  BY DEF Services, HookAfter

LEMMA TypeInit == Init => TypeOK
<1>1. Init => PlaceOK
  BY DEF Init, PlaceOK, Services, FirstStep, StepAfter
<1>2. Init => FlagsOK
  BY DEF Init, FlagsOK
<1> QED
  BY <1>1, <1>2 DEF TypeOK

(* The end of a hook leads to the next one or to the exit. *)
LEMMA HookDoneType ==
  ASSUME PlaceOK, phase = "shutdown", NEW error, HookDone(error)
  PROVE  /\ phase' \in {"shutdown", "exited"}
         /\ phase' = "shutdown" => at' \in DOMAIN HookAfter[service]
         /\ answer' \in {"none", "ok", "error", "panic"}
<1>1. answer \in {"none", "ok", "error", "panic"}
  BY DEF PlaceOK
<1> QED
  BY <1>1, HookOrder DEF HookDone

LEMMA FlagsStep == FlagsOK /\ [Next]_vars => FlagsOK'
<1> SUFFICES ASSUME FlagsOK, [Next]_vars
             PROVE  FlagsOK'
  OBVIOUS
<1> USE DEF FlagsOK
<1>1. CASE SetupStep \/ Expire \/ Exited \/ UNCHANGED vars
  BY <1>1 DEF SetupStep, Acquire, Serve, SetupFails, Expire, Exited, vars, main, worker
<1>2. ASSUME NEW c \in Calls, Accept(c) \/ Finish(c)
      PROVE  FlagsOK'
  BY <1>2 DEF Accept, Finish, main, worker
<1>3. CASE CleanupTick \/ CleanupReturns \/ CleanupEnds \/ CancelCleanup
  BY <1>3 DEF CleanupTick, CleanupReturns, CleanupEnds, CancelCleanup, main
<1>4. ASSUME NEW why \in {"signal", "crash"}, StopServing(why)
      PROVE  FlagsOK'
  BY <1>4 DEF StopServing, worker
<1>5. CASE StopServer \/ Drain \/ ForceStop
  BY <1>5 DEF StopServer, Drain, ForceStop, main, worker
<1>6. CASE ServerStopped \/ ServerAbandoned \/ CleanupJoined
  BY <1>6 DEF ServerStopped, ServerAbandoned, CleanupJoined, HookDone, worker
<1>7. ASSUME NEW r \in {"db", "authClient", "notesClient", "redis"}, Release(r)
      PROVE  FlagsOK'
  BY <1>7 DEF Release, HookDone, worker
<1> QED
  BY <1>1, <1>2, <1>3, <1>4, <1>5, <1>6, <1>7 DEF Next, ShutdownStep

LEMMA PlaceStep == PlaceOK /\ [Next]_vars => PlaceOK'
<1> SUFFICES ASSUME PlaceOK, [Next]_vars
             PROVE  PlaceOK'
  OBVIOUS
<1> USE DEF PlaceOK, Needs
<1>1. CASE Acquire
  BY <1>1, SetupOrder DEF Acquire, Resources, worker
<1>2. CASE Serve
  BY <1>2, ServerHook DEF Serve
<1>3. CASE SetupFails
  <2>1. Abandoned(at) \subseteq Needs
    BY <1>3, SetupOrder DEF SetupFails, Abandoned
  <2> QED
    BY <1>3, <2>1 DEF SetupFails, worker
<1>4. ASSUME NEW c \in Calls, Accept(c) \/ Finish(c)
      PROVE  PlaceOK'
  BY <1>4 DEF Accept, Finish, main, worker
<1>5. CASE CleanupTick \/ CleanupReturns \/ CleanupEnds
  BY <1>5 DEF CleanupTick, CleanupReturns, CleanupEnds, main
<1>6. ASSUME NEW why \in {"signal", "crash"}, StopServing(why)
      PROVE  PlaceOK'
  BY <1>6 DEF StopServing, worker
<1>7. CASE StopServer \/ Drain \/ ForceStop \/ CancelCleanup \/ Expire
  BY <1>7 DEF StopServer, Drain, ForceStop, CancelCleanup, Expire, main, worker
<1>8. CASE ServerStopped \/ ServerAbandoned \/ CleanupJoined
  <2>1. PICK error \in BOOLEAN : HookDone(error)
    BY <1>8 DEF ServerStopped, ServerAbandoned, CleanupJoined
  <2> QED
    BY <1>8, <2>1, HookDoneType
       DEF ServerStopped, ServerAbandoned, CleanupJoined, AtHook, worker
<1>9. ASSUME NEW r \in {"db", "authClient", "notesClient", "redis"}, Release(r)
      PROVE  PlaceOK'
  <2>1. PICK error : HookDone(error)
    BY <1>9 DEF Release
  <2> QED
    BY <1>9, <2>1, HookDoneType DEF Release, AtHook, worker
<1>10. CASE UNCHANGED vars
  BY <1>10 DEF vars
<1> QED
  BY <1>1, <1>2, <1>3, <1>4, <1>5, <1>6, <1>7, <1>8, <1>9, <1>10
     DEF Next, SetupStep, ShutdownStep, Exited

(* Every reachable state of a process is well typed. *)
THEOREM LifecycleTypeCorrect == Spec => []TypeOK
<1>1. TypeOK /\ [Next]_vars => TypeOK'
  BY PlaceStep, FlagsStep DEF TypeOK
<1> QED
  BY <1>1, TypeInit, PTL DEF Spec

--------------------------------------------------------------------------------
(* The inductive invariant. *)

LEMMA LifecycleInvInit == Init => LifecycleInv
<1> SUFFICES ASSUME Init
             PROVE  LifecycleInv
  OBVIOUS
<1>1. Running = {}
  BY DEF Init, Running
<1>2. OpenInv
  BY DEF Init, OpenInv, Acquired, FirstStep, NothingLeaks
<1>3. BeforeInv /\ AfterInv
  BY <1>1 DEF Init, BeforeInv, AfterInv
<1>4. CheckedInv /\ ChecksComeFirst
  BY DEF Init, CheckedInv, ChecksComeFirst, FirstStep
<1>5. UsersBeforeResources /\ HonestExit
  BY <1>1 DEF Init, UsersBeforeResources, HonestExit
<1> QED
  BY <1>2, <1>3, <1>4, <1>5 DEF LifecycleInv

(* A step finds every section that it uses. *)
LEMMA NeverBlind ==
  ASSUME TypeOK, LifecycleInv, phase = "setup"
  PROVE  ~Blind
<1>1. PlaceOK /\ CheckedInv
  BY DEF TypeOK, LifecycleInv
<1>2. CASE at \in {"migrate", "db"}
  <2>1. service # "gateway"
    BY <1>1, <1>2 DEF PlaceOK, Services, StepAfter
  <2> QED
    BY <1>1, <1>2, <2>1 DEF CheckedInv, EnsurePostgresAndGRPC, Blind, Uses
<1>3. CASE at = "authClient"
  BY <1>1, <1>3 DEF CheckedInv, Blind, Uses
<1>4. CASE at = "server"
  <2>1. CASE service = "auth"
    BY <1>1, <1>4, <2>1 DEF CheckedInv, EnsurePostgresAndGRPC, EnsureAuthJWT, Blind, Uses
  <2>2. CASE service = "notes"
    BY <1>1, <1>4, <2>2 DEF CheckedInv, EnsurePostgresAndGRPC, Blind, Uses
  <2>3. CASE service = "gateway"
    BY <1>1, <1>4, <2>3 DEF CheckedInv, RequireGatewayConfig, Blind, Uses
  <2> QED
    BY <1>1, <2>1, <2>2, <2>3 DEF PlaceOK, Services
<1>5. CASE at \notin {"migrate", "db", "authClient", "server"}
  BY <1>5 DEF Blind, Uses
<1> QED
  BY <1>2, <1>3, <1>4, <1>5

(* A start learns about its configuration step by step. *)
LEMMA CheckedStep == TypeOK /\ LifecycleInv /\ [Next]_vars => CheckedInv' /\ ChecksComeFirst'
<1> SUFFICES ASSUME TypeOK, LifecycleInv, [Next]_vars
             PROVE  CheckedInv' /\ ChecksComeFirst'
  OBVIOUS
<1>0. PlaceOK /\ CheckedInv /\ ChecksComeFirst
  BY DEF TypeOK, LifecycleInv
<1>1. CASE Acquire
  <2>1. phase' = "setup" /\ phase = "setup" /\ UNCHANGED <<service, config, answer>> /\ Passes(at)
        /\ at \in DOMAIN StepAfter[service] /\ at' = StepAfter[service][at]
    BY <1>0, <1>1 DEF Acquire, PlaceOK
  <2>2. CASE service = "gateway"
    <3>1. \/ at = "load" /\ at' = "logger"
          \/ at = "logger" /\ at' = "sections"
          \/ at = "sections" /\ at' = "authClient"
          \/ at \in {"authClient", "notesClient", "redis"} /\ at' \in {"notesClient", "redis", "server"}
      BY <2>1, <2>2 DEF StepAfter
    <3>2. CheckedInv'
      BY <1>0, <2>1, <2>2, <3>1 DEF CheckedInv, Passes
    <3> QED
      BY <1>0, <2>1, <3>2 DEF ChecksComeFirst
  <2>3. CASE service # "gateway"
    <3>1. \/ at = "load" /\ at' = "logger"
          \/ at = "logger" /\ at' = "sections"
          \/ at = "sections" /\ at' = "migrate"
          \/ at \in {"migrate", "db"} /\ at' \in {"db", "jwt"}
          \/ at = "jwt" /\ at' = "server"
      BY <1>0, <2>1, <2>3 DEF PlaceOK, Services, StepAfter
    <3>2. CheckedInv'
      BY <1>0, <2>1, <2>3, <3>1 DEF CheckedInv, Passes
    <3> QED
      BY <1>0, <2>1, <3>2 DEF ChecksComeFirst
  <2> QED
    BY <2>2, <2>3
<1>2. CASE Serve
  <2>1. phase' = "serving" /\ phase = "setup" /\ at = "server" /\ UNCHANGED <<service, config, answer>>
    BY <1>2 DEF Serve
  <2>2. service \in {"auth", "notes", "gateway"}
    BY <1>0 DEF PlaceOK, Services
  <2> QED
    BY <1>0, <2>1, <2>2 DEF CheckedInv, ChecksComeFirst, EnsureAuthJWT, EnsureNotesJWT
<1>3. CASE SetupFails
  <2>1. ~Blind
    BY <1>3, NeverBlind DEF SetupFails
  <2> QED
    BY <1>0, <1>3, <2>1 DEF SetupFails, CheckedInv, ChecksComeFirst
<1>5. ASSUME NEW why \in {"signal", "crash"}, StopServing(why)
      PROVE  CheckedInv' /\ ChecksComeFirst'
  BY <1>0, <1>5 DEF StopServing, CheckedInv, ChecksComeFirst
<1>6. CASE UNCHANGED <<service, config, phase, at, answer>>
  BY <1>0, <1>6 DEF CheckedInv, ChecksComeFirst
<1>7. CASE ServerStopped \/ ServerAbandoned \/ CleanupJoined
           \/ \E r \in {"db", "authClient", "notesClient", "redis"} : Release(r)
  <2>1. phase = "shutdown" /\ phase' \in {"shutdown", "exited"} /\ UNCHANGED <<service, config>>
        /\ (answer' = answer \/ answer' \in {"ok", "error"})
    BY <1>7 DEF ServerStopped, ServerAbandoned, CleanupJoined, Release, AtHook, HookDone
  <2> QED
    BY <1>0, <2>1 DEF CheckedInv, ChecksComeFirst
<1>8. (\E c \in Calls : Accept(c) \/ Finish(c)) \/ CleanupTick \/ CleanupReturns \/ CleanupEnds
      \/ Expire \/ StopServer \/ Drain \/ ForceStop \/ CancelCleanup \/ Exited \/ UNCHANGED vars
      => UNCHANGED <<service, config, phase, at, answer>>
  BY DEF Accept, Finish, CleanupTick, CleanupReturns, CleanupEnds, Expire, StopServer, Drain,
         ForceStop, CancelCleanup, Exited, vars, main
<1> QED
  BY <1>1, <1>2, <1>3, <1>5, <1>6, <1>7, <1>8 DEF Next, SetupStep, ShutdownStep

(* Steps of the workers do not touch what the main goroutine holds. *)
LEMMA WorkersKeepOpen ==
  ASSUME LifecycleInv, UNCHANGED <<main, open>>
  PROVE  OpenInv'
<1>1. UNCHANGED <<service, cause, phase, at, open>>
  BY DEF main
<1>2. UNCHANGED <<Acquired, Remaining, Needs>> /\ Abandoned(at)' = Abandoned(at)
  BY <1>1 DEF Acquired, Remaining, Needs, Abandoned
<1> QED
  BY <1>1, <1>2 DEF LifecycleInv, OpenInv, NothingLeaks

(* What is open follows from the place of the main goroutine. *)
LEMMA OpenStep == TypeOK /\ LifecycleInv /\ [Next]_vars => OpenInv'
<1> SUFFICES ASSUME TypeOK, LifecycleInv, [Next]_vars
             PROVE  OpenInv'
  OBVIOUS
<1>0. PlaceOK /\ OpenInv /\ BeforeInv
  BY DEF TypeOK, LifecycleInv
<1> USE DEF OpenInv, NothingLeaks
<1>1. CASE Acquire
  <2>1. phase' = "setup" /\ at \in DOMAIN StepAfter[service] /\ at' = StepAfter[service][at]
        /\ open' = Acquired \cup ({at} \cap Resources) /\ service' = service
    BY <1>0, <1>1 DEF Acquire, PlaceOK
  <2>2. Needs' = Needs
    BY <2>1 DEF Needs
  <2>3. CASE service = "gateway"
    <3>1. \/ at \in {"load", "logger", "sections"} /\ at' \in {"logger", "sections", "authClient"}
          \/ at = "authClient" /\ at' = "notesClient"
          \/ at = "notesClient" /\ at' = "redis"
          \/ at = "redis" /\ at' = "server"
      BY <2>1, <2>3 DEF StepAfter
    <3>2. open' = Acquired'
      BY <2>1, <2>2, <2>3, <3>1 DEF Acquired, Resources, Needs
    <3> QED
      BY <2>1, <3>2
  <2>4. CASE service # "gateway"
    <3>1. \/ at \in {"load", "logger", "sections", "migrate"}
             /\ at' \in {"logger", "sections", "migrate", "db"}
          \/ at = "db" /\ at' = "jwt"
          \/ at = "jwt" /\ at' = "server"
      BY <1>0, <2>1, <2>4 DEF PlaceOK, Services, StepAfter
    <3>2. open' = Acquired'
      BY <2>1, <2>2, <2>4, <3>1 DEF Acquired, Resources, Needs
    <3> QED
      BY <2>1, <3>2
  <2> QED
    BY <2>3, <2>4
<1>2. CASE Serve
  BY <1>0, <1>2 DEF Serve, Acquired, Needs
<1>3. CASE SetupFails
  <2>1. open' = Abandoned(at)
    <3>1. ~Blind
      BY <1>3, NeverBlind DEF SetupFails
    <3> QED
      BY <1>0, <1>3, <3>1 DEF SetupFails, PlaceOK, Services, StepAfter, Acquired, Undo, Abandoned, Needs
  <2> QED
    BY <1>0, <1>3, <2>1 DEF SetupFails, BeforeInv, Abandoned
<1>4. ASSUME NEW why \in {"signal", "crash"}, StopServing(why)
      PROVE  OpenInv'
  BY <1>0, <1>4 DEF StopServing, Remaining, Needs
<1>5. CASE ServerStopped \/ ServerAbandoned
  <2>1. at = "server" /\ phase = "shutdown" /\ open' = Needs
    BY <1>0, <1>5 DEF ServerStopped, ServerAbandoned, AtHook, Remaining, Needs
  <2>2. at' \in {"cleanup", "db", "authClient"} /\ phase' = "shutdown" /\ Needs' = Needs
    BY <1>0, <1>5, <2>1
       DEF ServerStopped, ServerAbandoned, HookDone, HookAfter, PlaceOK, Services, Needs
  <2> QED
    BY <2>1, <2>2 DEF Remaining
<1>6. CASE CleanupJoined
  <2>1. at' = "db" /\ phase' = "shutdown" /\ open' = Needs /\ Needs' = Needs
    BY <1>0, <1>6
       DEF CleanupJoined, AtHook, HookDone, HookAfter, PlaceOK, Services, Remaining, Needs
  <2> QED
    BY <2>1 DEF Remaining
<1>7. ASSUME NEW r \in {"db", "authClient", "notesClient", "redis"}, Release(r)
      PROVE  OpenInv'
  <2>1. at = r /\ phase = "shutdown" /\ open' = Remaining \ {r} /\ at' = HookAfter[service][r]
    BY <1>0, <1>7 DEF Release, AtHook, HookDone
  <2>2. (at' = "return" <=> phase' = "exited") /\ phase' \in {"shutdown", "exited"} /\ cause' # "none"
    BY <1>0, <1>7, <2>1 DEF Release, HookDone, BeforeInv
  <2>3. CASE r = "db"
    <3>1. at' = "return" /\ open' = {}
      BY <1>0, <2>1, <2>3 DEF PlaceOK, Services, HookAfter, Remaining, Needs
    <3> QED
      BY <2>2, <3>1
  <2>4. CASE r = "authClient"
    <3>1. at' = "notesClient" /\ open' = {"notesClient", "redis"}
      BY <1>0, <2>1, <2>4 DEF PlaceOK, Services, HookAfter, Remaining, Needs
    <3> QED
      BY <2>2, <3>1 DEF Remaining
  <2>5. CASE r = "notesClient"
    <3>1. at' = "redis" /\ open' = {"redis"}
      BY <1>0, <2>1, <2>5 DEF PlaceOK, Services, HookAfter, Remaining
    <3> QED
      BY <2>2, <3>1 DEF Remaining
  <2>6. CASE r = "redis"
    <3>1. at' = "return" /\ open' = {}
      BY <1>0, <2>1, <2>6 DEF PlaceOK, Services, HookAfter, Remaining
    <3> QED
      BY <2>2, <3>1
  <2> QED
    BY <2>3, <2>4, <2>5, <2>6
<1>8. CASE UNCHANGED <<main, open>>
  BY <1>8, WorkersKeepOpen
<1>9. (\E c \in Calls : Accept(c) \/ Finish(c)) \/ CleanupTick \/ CleanupReturns \/ CleanupEnds
      \/ Expire \/ StopServer \/ Drain \/ ForceStop \/ CancelCleanup \/ Exited \/ UNCHANGED vars
      => UNCHANGED <<main, open>>
  BY DEF Accept, Finish, CleanupTick, CleanupReturns, CleanupEnds, Expire, StopServer, Drain,
         ForceStop, CancelCleanup, Exited, vars, main
<1> QED
  BY <1>1, <1>2, <1>3, <1>4, <1>5, <1>6, <1>7, <1>8, <1>9 DEF Next, SetupStep, ShutdownStep

(* Nothing runs before the server does. *)
LEMMA BeforeStep == TypeOK /\ LifecycleInv /\ [Next]_vars => BeforeInv'
<1> SUFFICES ASSUME TypeOK, LifecycleInv, [Next]_vars
             PROVE  BeforeInv'
  OBVIOUS
<1>0. PlaceOK /\ OpenInv /\ BeforeInv
  BY DEF TypeOK, LifecycleInv
<1> USE DEF BeforeInv
<1>1. CASE Acquire \/ SetupFails
  BY <1>0, <1>1 DEF Acquire, SetupFails, worker, Running
<1>2. CASE Serve
  BY <1>0, <1>2 DEF Serve
<1>3. ASSUME NEW why \in {"signal", "crash"}, StopServing(why)
      PROVE  BeforeInv'
  BY <1>0, <1>3 DEF StopServing
<1>4. CASE \E c \in Calls : Accept(c) \/ Finish(c)
  <2>1. UNCHANGED <<cause, phase, answer, accepting, cleanup>> /\ phase # "exited"
    BY <1>4 DEF Accept, Finish, main, worker
  <2>2. phase # "setup" \/ \E c \in Calls : Finish(c)
    BY <1>0, <1>4 DEF Accept
  <2>3. phase = "setup" => Running' = {}
    BY <1>0, <2>2 DEF Finish, Running
  <2> QED
    BY <1>0, <2>1, <2>3
<1>5. CASE CleanupTick \/ CleanupReturns \/ CleanupEnds
  <2>1. UNCHANGED <<cause, phase, answer, accepting, call>> /\ phase \notin {"setup", "exited"}
    BY <1>0, <1>5 DEF CleanupTick, CleanupReturns, CleanupEnds, main
  <2> QED
    BY <1>0, <2>1
<1>6. CASE Expire \/ StopServer \/ Drain \/ ForceStop \/ CancelCleanup
  <2>1. phase = "shutdown" /\ UNCHANGED <<cause, phase, answer>>
    BY <1>6 DEF Expire, StopServer, Drain, ForceStop, CancelCleanup, AtHook, main
  <2> QED
    BY <1>0, <2>1
<1>7. CASE ServerStopped \/ ServerAbandoned \/ CleanupJoined
           \/ \E r \in {"db", "authClient", "notesClient", "redis"} : Release(r)
  <2>1. phase = "shutdown" /\ cause' = cause
        /\ (phase' = "exited" \/ UNCHANGED <<phase, answer>>)
    BY <1>7 DEF ServerStopped, ServerAbandoned, CleanupJoined, Release, HookDone, AtHook
  <2> QED
    BY <1>0, <2>1
<1>8. CASE Exited \/ UNCHANGED vars
  BY <1>0, <1>8 DEF Exited, vars, Running
<1> QED
  BY <1>1, <1>2, <1>3, <1>4, <1>5, <1>6, <1>7, <1>8 DEF Next, SetupStep, ShutdownStep

(* The hooks leave no handler and no cleanup behind. *)
LEMMA AfterStep == TypeOK /\ LifecycleInv /\ [Next]_vars => AfterInv'
<1> SUFFICES ASSUME TypeOK, LifecycleInv, [Next]_vars
             PROVE  AfterInv'
  OBVIOUS
<1>0. PlaceOK /\ OpenInv /\ BeforeInv /\ AfterInv
  BY DEF TypeOK, LifecycleInv
<1> USE DEF AfterInv
<1>1. CASE Acquire \/ Serve \/ \E why \in {"signal", "crash"} : StopServing(why)
  <2>1. phase' \in {"setup", "serving"} \/ (phase' = "shutdown" /\ at' = "server")
    BY <1>0, <1>1 DEF Acquire, Serve, StopServing, OpenInv
  <2> QED
    BY <2>1
<1>2. CASE SetupFails
  BY <1>0, <1>2 DEF SetupFails, BeforeInv, worker, Running
<1>3. CASE \E c \in Calls : Accept(c)
  <2>1. UNCHANGED <<phase, at, cleanup>> /\ phase # "exited" /\ accepting
    BY <1>3 DEF Accept, main, worker
  <2>2. ~(phase = "shutdown" /\ at # "server")
    BY <1>0, <2>1
  <2> QED
    BY <2>1, <2>2
<1>4. ASSUME UNCHANGED <<service, phase, at, failed, cleanup>>, Running' \subseteq Running,
             accepting' => accepting, late => late'
      PROVE  AfterInv'
  BY <1>0, <1>4
<1>5. CASE CleanupTick \/ CleanupReturns \/ CleanupEnds
  <2>1. UNCHANGED <<service, phase, at, failed, accepting, call, late>> /\ cleanup \in {"idle", "busy"}
    BY <1>5 DEF CleanupTick, CleanupReturns, CleanupEnds, main
  <2>2. phase # "exited" /\ ~(phase = "shutdown" /\ at = "db")
    BY <1>0, <2>1
  <2> QED
    BY <1>0, <2>1, <2>2 DEF Running
<1>6. CASE (\E c \in Calls : Finish(c)) \/ Expire \/ StopServer \/ Drain \/ ForceStop
           \/ CancelCleanup \/ Exited \/ UNCHANGED vars
  <2>1. UNCHANGED <<service, phase, at, failed, cleanup>>
    BY <1>6 DEF Finish, Expire, StopServer, Drain, ForceStop, CancelCleanup, Exited, main, worker, vars
  <2>2. (accepting' => accepting) /\ (late => late')
    BY <1>6 DEF Finish, Expire, StopServer, Drain, ForceStop, CancelCleanup, Exited, main, worker, vars
  <2>3. Running' \subseteq Running
    <3>1. (UNCHANGED call) \/ \E c \in Calls : Finish(c)
      BY <1>6 DEF Expire, StopServer, Drain, ForceStop, CancelCleanup, Exited, vars
    <3> QED
      BY <1>0, <3>1 DEF Finish, Running, PlaceOK
  <2> QED
    BY <1>4, <2>1, <2>2, <2>3
<1>7. CASE ServerStopped
  <2>1. ~accepting' /\ Running' = {} /\ UNCHANGED cleanup
    BY <1>7 DEF ServerStopped, Running, worker
  <2>2. phase' = "shutdown" /\ (at' = "db" => cleanup = "off")
    BY <1>0, <1>7 DEF ServerStopped, AtHook, HookDone, PlaceOK, Services, HookAfter
  <2> QED
    BY <2>1, <2>2
<1>8. CASE ServerAbandoned
  <2>1. service' = "gateway" /\ late' /\ ~accepting' /\ failed' /\ UNCHANGED cleanup
    BY <1>8 DEF ServerAbandoned, HookDone, worker
  <2>2. cleanup = "off"
    BY <1>0, <2>1, <1>8 DEF ServerAbandoned, PlaceOK
  <2> QED
    BY <2>1, <2>2
<1>9. CASE CleanupJoined
  <2>1. UNCHANGED <<service, accepting, call, late, cleanup>> /\ cleanup = "ended" /\ (failed => failed')
    BY <1>9 DEF CleanupJoined, HookDone, worker
  <2>2. phase = "shutdown" /\ at # "server"
    BY <1>9 DEF CleanupJoined, AtHook
  <2> QED
    BY <1>0, <2>1, <2>2 DEF Running
<1>10. ASSUME NEW r \in {"db", "authClient", "notesClient", "redis"}, Release(r)
       PROVE  AfterInv'
  <2>1. UNCHANGED <<service, accepting, call, late, cleanup>> /\ (failed => failed')
    BY <1>10 DEF Release, HookDone, worker
  <2>2. phase = "shutdown" /\ at = r
    BY <1>10 DEF Release, AtHook
  <2>3. cleanup \in {"off", "ended"}
    BY <1>0, <2>2 DEF PlaceOK, Services, HookAfter
  <2> QED
    BY <1>0, <2>1, <2>2, <2>3 DEF Running
<1> QED
  BY <1>1, <1>2, <1>3, <1>5, <1>6, <1>7, <1>8, <1>9, <1>10 DEF Next, SetupStep, ShutdownStep

(* Users of a resource are gone before it is released. *)
LEMMA UsersFollow ==
  ASSUME PlaceOK, OpenInv, BeforeInv, AfterInv
  PROVE  UsersBeforeResources
<1> SUFFICES ASSUME Running # {} \/ cleanup \in {"idle", "busy"}
             PROVE  Needs \subseteq open \/ (service = "gateway" /\ late)
  BY DEF UsersBeforeResources
<1>1. phase \notin {"setup"} /\ ~(phase = "exited" /\ cause = "none")
  BY DEF BeforeInv
<1>2. CASE phase = "serving"
  BY <1>2 DEF OpenInv
<1>3. CASE phase = "exited"
  BY <1>3 DEF AfterInv
<1>4. CASE phase = "shutdown"
  <2>1. CASE at \in {"server", "cleanup"}
    BY <1>4, <2>1 DEF OpenInv, Remaining
  <2>2. CASE at = "db"
    <3>1. service # "gateway"
      BY <1>4, <2>2 DEF PlaceOK, HookAfter
    <3>2. Running = {} /\ cleanup \in {"off", "ended"}
      BY <1>4, <2>2, <3>1 DEF AfterInv
    <3> QED
      BY <3>2
  <2>3. CASE at \in {"authClient", "notesClient", "redis"}
    <3>1. service = "gateway"
      BY <1>4, <2>3 DEF PlaceOK, Services, HookAfter
    <3>2. cleanup = "off"
      BY <3>1 DEF PlaceOK
    <3> QED
      BY <1>4, <2>3, <3>1, <3>2 DEF AfterInv
  <2> QED
    BY <1>4, <2>1, <2>2, <2>3 DEF PlaceOK, Services, HookAfter
<1> QED
  BY <1>1, <1>2, <1>3, <1>4 DEF PlaceOK

(* The answer of a process is fixed when it exits. *)
LEMMA HonestStep == TypeOK /\ LifecycleInv /\ [Next]_vars => HonestExit'
<1> SUFFICES ASSUME TypeOK, LifecycleInv, [Next]_vars, answer' = "ok"
             PROVE  cause' = "signal" /\ ~failed' /\ Running' = {}
  BY DEF HonestExit
<1>0. BeforeInv /\ AfterInv /\ HonestExit /\ AfterInv'
  BY AfterStep DEF LifecycleInv
<1>1. CASE ServerStopped \/ ServerAbandoned \/ CleanupJoined
           \/ \E r \in {"db", "authClient", "notesClient", "redis"} : Release(r)
  <2>1. phase' = "exited" /\ cause' = "signal" /\ ~failed'
    BY <1>0, <1>1
       DEF ServerStopped, ServerAbandoned, CleanupJoined, Release, AtHook, HookDone, BeforeInv
  <2> QED
    BY <1>0, <2>1 DEF AfterInv
<1>2. CASE SetupFails
  BY <1>2 DEF SetupFails
<1>3. CASE UNCHANGED answer
  <2>1. phase = "exited"
    BY <1>0, <1>3, PlaceStep DEF BeforeInv, TypeOK, PlaceOK
  <2>2. UNCHANGED vars
    BY <1>3, <2>1
       DEF Next, SetupStep, ShutdownStep, Acquire, Serve, SetupFails, Accept, Finish, CleanupTick,
           CleanupReturns, CleanupEnds, StopServing, Expire, StopServer, Drain, ForceStop,
           ServerStopped, ServerAbandoned, CancelCleanup, CleanupJoined, Release, AtHook, Exited
  <2> QED
    BY <1>0, <1>3, <2>2 DEF HonestExit, vars, Running
<1>4. \/ UNCHANGED answer \/ SetupFails
      \/ ServerStopped \/ ServerAbandoned \/ CleanupJoined
      \/ \E r \in {"db", "authClient", "notesClient", "redis"} : Release(r)
  BY DEF Next, SetupStep, ShutdownStep, Acquire, Serve, Accept, Finish, CleanupTick,
         CleanupReturns, CleanupEnds, StopServing, Expire, StopServer, Drain, ForceStop,
         CancelCleanup, Exited, vars, main
<1> QED
  BY <1>1, <1>2, <1>3, <1>4

(* What is open, who runs and why the process stops fit together. *)
THEOREM LifecycleSound == Spec => []LifecycleInv
<1>1. TypeOK /\ TypeOK' /\ LifecycleInv /\ [Next]_vars => LifecycleInv'
  <2> SUFFICES ASSUME TypeOK, TypeOK', LifecycleInv, [Next]_vars
               PROVE  LifecycleInv'
    OBVIOUS
  <2>1. /\ PlaceOK' /\ OpenInv' /\ BeforeInv' /\ AfterInv' /\ HonestExit'
        /\ CheckedInv' /\ ChecksComeFirst'
    BY CheckedStep, OpenStep, BeforeStep, AfterStep, HonestStep DEF TypeOK
  <2>2. (PlaceOK /\ OpenInv /\ BeforeInv /\ AfterInv => UsersBeforeResources)'
    BY UsersFollow, PTL
  <2> QED
    BY <2>1, <2>2 DEF LifecycleInv
<1> QED
  BY <1>1, LifecycleInvInit, LifecycleTypeCorrect, PTL DEF Spec

(* Handlers and the cleanup never run on closed resources, save at a gateway
   whose shutdown deadline has passed. *)
THEOREM ResourcesOutliveUsers == Spec => []UsersBeforeResources
<1>1. LifecycleInv => UsersBeforeResources
  BY DEF LifecycleInv
<1> QED
  BY <1>1, LifecycleSound, PTL

(* A process that exits has released what it had acquired. *)
THEOREM EverythingIsReleased == Spec => []NothingLeaks
<1>1. LifecycleInv => NothingLeaks
  BY DEF LifecycleInv, OpenInv
<1> QED
  BY <1>1, LifecycleSound, PTL

(* No step relies on a part of the configuration that was not checked. *)
THEOREM ConfigurationIsChecked == Spec => []ChecksComeFirst
<1>1. LifecycleInv => ChecksComeFirst
  BY DEF LifecycleInv
<1> QED
  BY <1>1, LifecycleSound, PTL

(* A process reports success only if its shutdown was complete. *)
THEOREM SuccessIsComplete == Spec => []HonestExit
<1>1. LifecycleInv => HonestExit
  BY DEF LifecycleInv
<1> QED
  BY <1>1, LifecycleSound, PTL

================================================================================
