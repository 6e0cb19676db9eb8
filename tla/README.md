# TLA+ model of notes-microservices

TLA+ modules, TLC configurations and TLAPS proofs about the services in
`../src`: what they do to their shared state when many requests run at once,
when statements fail, when replies are lost, when time passes and when a process
is told to stop.

Contents: [the system](#the-system) · [modules](#modules) ·
[how the models correspond to the code](#how-the-models-correspond-to-the-code) ·
[runs and bounds](#runs-and-bounds) · [fairness](#fairness) · [proofs](#proofs) ·
[findings](#findings) · [not modelled](#not-modelled) · [plan](#plan)

## The system

Three programs. The **gateway** takes HTTP requests and forwards each as one
gRPC call to the **auth service** or the **notes service**, which each own a
PostgreSQL database.

| Part | State it keeps | Operations | What is hard |
|---|---|---|---|
| auth service: `internal/app/auth.go`, `internal/adapters/postgres/auth.go` | tables `users`, `refresh_tokens` | Register, Login, RefreshTokens, Logout, GetUserProfile, a periodic cleanup | every use case is several SQL statements; requests interleave between them, wait for row locks, fail half way, lose their replies; tokens expire in between |
| notes service: `internal/app/notes.go`, `internal/adapters/postgres/notes.go` | table `notes` | Create, Get, List, Update, Delete | update is read, modify, write; a listing is two statements; users may name each other's notes |
| circuit breaker and retry: `internal/fault/fault.go` | per backend: state, counters, in-flight flag, time of the last change | allow, record, trip, the retry loop | the mutex is released while the operation runs, so results are recorded in a state other than the one that admitted the call |
| gateway use cases and gRPC clients: `internal/app/gateway.go`, `internal/adapters/grpc/clients.go` | the calls under way | one operation per route, through the breaker; reads also through the retry loop | the gateway may give up on an attempt that the backend carries out all the same |
| profile cache: `internal/app/gateway.go`, `internal/adapters/redis/cache.go` | two keys per entry in Redis, with lifetimes | get and set inside GetUserProfile | the cache is consulted for tokens that nobody has verified; keys vanish one by one |
| error mapping: `internal/adapters/grpc/helpers.go`, `internal/adapters/http/helpers.go` | none | domain error → gRPC status → domain error → HTTP status | three tables in two packages that must agree |
| access tokens: `internal/adapters/jwt/jwt.go`, the interceptor in `internal/adapters/grpc/server.go` | the two keys | issue, validate | access and refresh tokens differ only by key and stated use; a restart may bring other keys |
| process lifecycle: `internal/bootstrap`, `internal/adapters/grpc/server.go` | what is open, what runs, which shutdown hook is next | StartAuth, StartNotes, StartGateway, Wait, Server.Stop, the cleanup goroutine | set-up that fails half way; shutdown against a deadline while handlers and statements hang |
| configuration: `internal/config/config.go`, the checks in `internal/bootstrap/helpers.go` | eight sections, each possibly nil; secrets that stand in for one another | load, resolve, the `ensure…`/`require…` checks | each start needs other sections and checks them in other steps than it uses them |
| stateless parts: HTTP handlers and middleware, bcrypt, domain validation | none | binding, validation, forwarding | |

Interaction: HTTP handler → gateway use case → (profile cache) → breaker →
(retry loop) → gRPC client with a deadline per attempt → interceptor → gRPC
handler → use case → repository → SQL. A caller that gives up cancels its context;
the statements of the backend then fail or have already taken effect. Clients hold the refresh token they were
sent last, retry when they hear nothing, and share one user with other devices.

What makes each part correct:

* auth: a refresh token is exchanged at most once; logout is final; the alarm for
  a reused token is raised only with a cause, closes what it should, and stays
  with its user; accounts are unique; no request waits for ever.
* notes: deleted notes stay deleted; an acknowledged write is there until the next;
  changes are lost to overlapping updates only; users are apart; pages are bounded
  and agree with the total.
* breaker: it cannot wedge, it does not let load grow on a failing backend, it
  closes again.
* gateway: a write happens at most once per request, answers can be trusted, errors
  survive the detour, clients' errors do not trip the breaker.
* cache and tokens: nobody is shown another user's profile, or any with a forged,
  an expired or a refresh token, whatever the auth service is restarted with.
* lifecycle: nothing is used after it was closed, nothing leaks, the exit code is
  honest, shutdowns end, and so do starts that have a connect timeout and do not wait for Postgres.
* configuration: nothing is relied on that was not checked before.
* the whole, as clients see it: whoever hears all answers stays logged in, and no
  usable session is left that nobody holds.

## Modules

| Module | Models | Extends / uses |
|---|---|---|
| `SessionLedger` | what the auth service promises about refresh tokens: sessions are issued, exchanged, closed | |
| `WriteChannel` | what the gateway promises to a request for a change: one run of its use case at most, and an answer that is final or says nothing | |
| `AuthService` | the auth use cases, one SQL statement at a time | instance of `SessionLedger` (refinement) |
| `NotesService` | the notes use cases, one SQL statement at a time | |
| `NotesTenant` | the notes service as one of its users sees it | `NotesService`; instance of `NotesService` with that user alone (refinement) |
| `Resilience` | one circuit breaker with its concurrent calls and the retry loop | |
| `Gateway` | whole requests through the gateway: refusal, breaker, attempts on the wire, backend, error tables, answer | `Resilience`; instance of `WriteChannel` (refinement) |
| `AccessTokens` | issuing and validating tokens by key, use and expiry | |
| `ProfileCache` | GetUserProfile over Redis, tokens of every kind and an auth service that restarts | `AccessTokens` |
| `Configuration` | what a configuration may lack, and the checks of it | |
| `Lifecycle` | each of the three programs from loading its configuration to exit | `Configuration` |
| `ClientSession` | the devices of one user, with lost answers, over the two promises | `WriteChannel`; instance of `SessionLedger` (composition) |
| `SessionSystem` | the same devices over the statements of the auth use cases | `AuthService`; instance of `ClientSession` (composition, refinement) |
| `MC…` | symmetry and values for TLC | the module of the same name |
| `…Proofs` | theorems and proofs | the module of the same name, TLAPS |

`SessionLedger` holds its own three theorems; `NotesProofs` is also about `NotesTenant`, and
`AuthServiceProofs` also about `SessionSystem`.

The abstract specifications are where the parts meet: `AuthService` implements
`SessionLedger`, `Gateway` implements `WriteChannel`, and `ClientSession` composes the
two abstract ones. `SessionSystem` puts the detailed `AuthService` in the place of the ledger and
implements `ClientSession`, so what is proved of the clients there holds over the real
statements.

Definitions named `X_Something` and commented "Bug:" are faulty variants of `X`.
Nothing uses them: they are the mutants `PROJECT.json` lists, one per checked
property, and with `X` replaced by its variant the property is violated.

## How the models correspond to the code

`PROJECT.json` maps each definition to the lines it stands for. The decisions that
are not visible there:

**AuthService.** A request names what it creates: request `p` stands for the user
row a registration of `p` inserts and for the token that `p` mints (user ids and
token ids are fresh UUIDs). `pc[p]` is the next statement: `create`, `store`,
`consume`, `commit`, `scan`, `revokeAll`, `revoke`. A rotation holds the lock of its row
while `pc = "commit"`; whoever needs the row waits (`Locked`): another rotation at `consume`, save
for an expired row, which its WHERE clause passes over; an alarm at `revokeAll`; a logout at
`revoke`, where `LogoutFind` leaves it (otherwise the one UPDATE is part of its arrival). The reuse alarm takes
its READ COMMITTED snapshot in `RevokeScan` (`seen`) and takes effect in `RevokeAll`,
when no row of the snapshot is locked; a row inserted in between is not seen. `NOW()`
is the start of the transaction, so a token that expired after `RefreshFind` may
or may not still be consumed. `Expire` is the passing of time. The cleanup is one atomic DELETE,
which waits for the rotations of the rows it deletes. `Fail` is a failed
statement, an ended context or a crash, with the rollback it causes; `ReplyOrLose` is
an effect whose reply may be lost. Which of two violated UNIQUE constraints is
reported is left open. A request that fails in its first statement leaves no
trace and is left out. `owner`, `issued`, `seen` and the requests' fields are never
reset, so they are also the history the properties speak of.

**NotesService.** Every statement is autocommitted. An update reads in `UpdateFind` and
writes the whole row back in `UpdateWrite`; a listing counts and then selects.
`stale` (another write came between the two statements), `writer` and `deleted` are
histories. Texts stand for titles and contents by whether they pass validation;
which notes make up a page is left open, because the order by `updated_at` is not
modelled, and `LastWriteShows` is about titles and contents (the `updated_at` that is answered
is Go's clock, the one in the row the trigger's). Postgres takes a negative LIMIT or OFFSET for
an error (`SelectAnswer`); `PagesAgree` says what a client may expect without using the clamps of
the code, so a missing clamp breaks it. A first statement that fails leaves no trace and is left out.

**Resilience.** `Allow`/`Reject` and `Record` are the two critical sections;
`Attempt` and `Backoff` run outside of the mutex. Counters stop at their threshold,
which is all the code compares them with. `elapsed` stands for
`time.Since(lastChange) > Timeout`. `up` says whether replies come back in time.
`probes` is a history.

**Gateway.** Its actions conjoin the actions of `Resilience`, so each slot in `Calls`
is one HTTP request. The code has a breaker per backend; here requests to both share one, so a trip
caused by one backend may also reject requests to the other: more behaviours than the code has, and
each property holds of all of them. `wire[c]` is the set of attempts that were sent and that the
backend has not taken up; `Handle` may take them up in any order, also after the
gateway has given up on them or has answered. `cause` is what the use case made of the
current attempt. The three tables are written out error by error, for the errors the
use cases can return; wrapped errors are their innermost domain error. Other codes of
the transport fare like `Canceled`, successes all stand for 200, and the
cache is not consulted here (`ProfileCache` has it). For `WriteChannel` a request that
has an attempt on the wire is `sent`, and otherwise `done` or `undone` by whether its use
case has taken effect; answers of 500 and above say nothing (`unknown`), and requests
that only read do not take part.

**WriteChannel.** It has no breaker, wire or tables. A use case that fails may still have
done what it was asked for (`Results`): a registration stores the user and then
fails to store the first token.

**ClientSession.** `issued`, `open` and `exchanged` are the variables of `SessionLedger`, and every
change of them is one of its actions; `fate`, `reply` and `verdict` are those of
`WriteChannel`. The clients are external to the repository: a client presents the token it was
sent last, waits for one answer at a time, keeps the token of a success and drops a
token that was refused for what it is. `unknown` stands for an answer of 500 and above, for one
that is lost, and for a client that tires of waiting; the request may still be taken up
after that. Which sessions an alarm closes is left open (`Alarm`), which includes the
session that escapes in finding 1. A registration is two steps, as in the code: the account
first (`Enrol`), then its first token, and the account may be left without one.

**SessionSystem.** Each call is a request of `AuthService`. The call carries what its client
asked for, its use case runs through the actions of `AuthService` unchanged, and the
statement that ends it takes the call up (`Work`): what `WriteChannel` is told was done is
whether the row of the use case is there or, for a logout, whether its token is no longer
active, also when somebody else closed it (`Took`), and the error is the one that the error tables
bring back (`Said`). `open` is the set of active tokens and `account` the registration that made the
user's row. A first statement that fails, which `AuthService` leaves out because it
changes nothing there, is `FailAtOnce`, since its client hears of it.

**NotesTenant.** `View` blanks what belongs to requests of others; what is left is to be a
behaviour of `NotesService` with one user. No variable is added, and nothing is said about
other users that the queries do not say.

**ProfileCache.** A request takes the steps of `GetUserProfile` one at a time: hint,
profile, question to the auth service, two Sets. `Get` returns the value or nothing: a
miss, an eviction, a restart and an error of Redis read alike; `Set` may fail or
take effect without a reply. The auth service looks at a token with `ValidateAccessToken` and
the keys it has at that moment; `RestartAuth` may change them, also so that the two trade
places, which the start's checks allow. Forged tokens and refresh tokens carry any
claims but have a hash of their own; a token is genuine if an auth service with some
of the `KeyPairs` issued it as an access token. All clocks agree. Profiles do not change (no route changes a user).

**Configuration and Lifecycle.** `config` is what `Load` returned: which sections are not nil, how good
the secrets are and whether the connect timeouts are positive. Each step of a start
has the check it makes (`Passes`) and the sections that it dereferences without looking
(`Uses`); a step that is `Blind` panics. `Bounded` steps end by themselves: all but the
connection of a client without a connect timeout and the `DatabaseSteps`, for which
`setupPostgres` passes no deadline, so that a Postgres that accepts and never answers holds them up
for ever. `StartEnds` therefore says that with a connect timeout a start ends or is waiting for
Postgres. Other values (addresses,
lifetimes, limits) are looked at by no check and are left out.

`at` is the next step of the set-up, then the next shutdown hook
(`StepAfter`, `HookAfter`: the order in `bootstrap.go`). `grace` follows `Server.Stop`:
GracefulStop waits for handlers, and the deadline turns it into Stop. The HTTP
server gives up waiting at the deadline and leaves its handlers running. A
signal during set-up simply kills the process and is left out. A server returns without an error
only once it was stopped, so what `Wait` does then (`bootstrap/helpers.go:43`) comes after a hook
and has no step of its own in `StopServing`.

## Runs and bounds

| Run | Instance | States | Shows |
|---|---|---|---|
| `auth_sessions` | `AuthSessions.cfg`: 4 requests, one account, fair | 1.0 million | `TypeOK`, `SingleUse`, `LogoutEndsToken`, `AlarmHasCause`, `ReuseClosesHeir`, `EveryRequestAnswered` |
| `auth_accounts` | `AuthAccounts.cfg`: 4 requests, 2 emails, 2 usernames, one containing "email" | 465,000 | `RegistrationsAgree`, `UserIsolation`, and `LedgerSpec`: every step is a step of the ledger |
| `auth_escape` | `AuthEscape.cfg`: 4 requests | violated | `NoExchangeEscapes`, see findings |
| `auth_email_taken` | `AuthEmailTaken.cfg`: 4 requests | violated | `EmailTakenIsReal`, see findings |
| `resilience` | `Resilience.cfg`: 3 calls, thresholds 2 and 2, 2 attempts, fair | 766,000 | `TypeOK`, `FlagHasOwner`, `LoadNeverGrows`, `ProbeEnds`, `Recovers` |
| `resilience_probe` | `ResilienceProbe.cfg`: 3 calls, thresholds 2 and 2, 1 attempt | violated | `AtMostOneProbe`, see findings |
| `gateway` | `Gateway.cfg`: 2 requests, 7 of the 10 operations, thresholds 1 and 1, 2 attempts | 1.6 million | `GatewayTypeOK`, `WritesHappenOnce`, `AnswersAreFinal`, `SameErrorAtTheEdge`, `FailuresAreOutages`, and `ChannelSpec`: every step is a step of `WriteChannel` |
| `client_sessions` | `ClientSession.cfg`: 2 devices, 4 requests | 398,000 | `SessionTypeOK`, `HonestClientsStayIn`, `NoStraySessions` |
| `profile_cache` | `ProfileCache.cfg`: 2 requesting goroutines; 4 tokens (two access tokens of one user, one ending early; a refresh token of that user; an access token of another, signed with the keys traded); 2 pairs of keys; clock to 3; lifetime of an entry 2 | 1.4 million | `TypeOK`, `OwnProfileOnly`, `ExpiredTokensEndHere`, `EntriesAreVerified` |
| `session_system` | `SessionSystem.cfg`: 2 devices, 4 requests | 1.8 million | `ClientsSpec`: every statement of every use case is a step that `ClientSession` allows |
| `notes` | `Notes.cfg`: 3 requests of 2 users, 2 texts of which one fails validation, limits and offsets on both sides of each clamp | 240,000 | `NoResurrection`, `LastWriteShows`, `PagesAgree`, `OnlyRacesLoseUpdates`, and `TenantIsAlone`: each user has a service to herself |
| `lifecycle` | `Lifecycle.cfg`: each program, 3 requests, a complete configuration and every one that lacks a section, the password or the connect timeout, or has any three secrets; fair | 94,000 | `TypeOK`, `UsersBeforeResources`, `NothingLeaks`, `HonestExit`, `ChecksComeFirst`, `StartEnds`, `ShutdownEnds` |

Why the bounds are enough to be interesting:

* Auth: a registration, two refreshes of its token, of which the later raises the
  alarm, and a refresh, a logout or another alarm that meets the heir: four
  requests. Two accounts with swapped names need four. A lock needs a holder and a
  waiter.
* Breaker: a call admitted before the trip, a running probe, and a call that
  is let in because of the first: three calls. Counters are only compared with
  their thresholds, so 2 shows "not yet" and "now"; the theorems hold for all values.
* Gateway: what one request does depends on others only through the breaker: one
  request trips it, the other is shed or is the probe. Two attempts are one that
  is late and one that is current. The three operations left out (ListNotes, Logout,
  DeleteNote) take the path of GetNote, RefreshTokens and UpdateNote and end in a
  subset of the ways in which these can; the theorems hold for all ten.
* Clients: a registration, a refresh whose answer is lost, the retry that raises the alarm, and a
  login on a second device that the alarm closes or misses: four requests of two
  devices. The same four go through the statements in `session_system`.
* Cache: an entry can be written by one token and read with another, of the same
  user, of another user or forged; lifetime 2 lets an entry age, and outlive its
  token by the time of one call. Keys that trade places are the worst that a restart can do.
* Notes: a note, an update of it and what comes between its statements, by the same user or
  another: three requests. A create and two updates that overlap are three as well, so the run
  reaches the race that `OnlyRacesLoseUpdates` is about; `ListOffset` and `ListLimit` meet
  values on both sides of each clamp.
* Lifecycle: handlers are alike; three are more than any action looks at. One fault of
  a configuration at a time: a start stops at the first that it meets.

The bounds of the model itself: `MaxNow` stops the clock of `ProfileCache`; the
counters of `Resilience` stop at their thresholds; a request of `AuthService`,
`NotesService`, `Gateway` and `ClientSession` is used once, so their number bounds
everything. A model in which everything is over may stutter (`Quiescent`, `Exited`), so every run
checks for deadlock, except `client_sessions` and `session_system`: their clients stop when the four
requests are used up.

Symmetry: requests (and devices) are interchangeable; the users of `notes` are not, since one
of them looks. Runs with a liveness property use none.

## Fairness

* `AuthService`: weak fairness of each accepted request's next statement
  (`Proceed`). A statement returns or fails, because its context has a deadline and a
  lock is released by the end of its holder's transaction. Nothing is assumed
  about arrivals, expiry or the cleanup.
* `Resilience`: weak fairness of each admitted call: an attempt has a deadline, a
  backoff a timer. No assumption about traffic, the backend or the timer of an
  open breaker: `Recovers` states its conditions itself.
* `Lifecycle`: weak fairness of the main goroutine's set-up steps that end by themselves
  (`Bounded`: a client connects within its timeout, if it has one; the statements of the
  start on Postgres are not assumed to return), of its shutdown
  steps and of the deadline. A handler returns only if it is cut by a forced stop, a statement of
  the cleanup only once it is cancelled. Strong fairness of the end of the cleanup
  loop: its `select` may pick the tick whenever both cases are ready, but Go picks
  at random.
* `Gateway`, `ProfileCache`, `NotesService`, `ClientSession` and `SessionSystem` claim no liveness. The
  compositions need none: a client may give up at any time, and a request that was
  sent need never be taken up.

## Proofs

Every invariant and every action property above, and all four refinements, are proved for every
value of the constants. The argument is the same in each module: the type invariant
is inductive; the properties are not, so they are strengthened to an inductive
invariant. The runs check the properties, not the strengthenings, which the proofs establish for
every instance.

| Module | Theorems | The invariant and why it is needed |
|---|---|---|
| `SessionLedger` | `LedgerTypeCorrect`, `LineageIsAChain`, `ClosedStaysClosed` | with `TypeOK` (only issued sessions were exchanged) both are inductive |
| `AuthServiceProofs` | `TypeCorrect`, `SessionsSound`, `RefreshTokensAreSingleUse`, `LogoutIsFinal`, `ReuseIsContained`, `AlarmsStayWithTheUser`, `AlarmsAreJustified`, `AccountsAreUnique`, `ImplementsLedger`, `DeadTokensStayDead`, `TokensFormChains` | `SessionInv`: a token in the middle of a rotation is active and belongs to that rotation alone (the row lock); a token that was exchanged or logged out is dead; the snapshot of an alarm holds the live heir until it is revoked; a dead token has a cause; what an alarm has swept stays dead. Without the lock two rotations could pass the check together |
| `AuthServiceProofs`, on `SessionSystem` | `SystemSound`, `SystemUsesService`, `SystemKeepsSessions`, `HonestClientsOfTheService`, `NoStraySessionsAtTheService`, `SystemKeepsVerdicts` | `SystemInv`: the use case of a call is the one its client asked for, with the token it presents; a call that was sent and is not taken up is one whose use case has not ended, and its row is not there yet |
| `NotesProofs` | `NotesTypeCorrect`, `NotesSound`, `DeletedStaysDeleted`, `AcknowledgedIsStored`, `TenantsAreApart`, `TenantsAreAlone`, `UpdatesAreLostOnlyToRaces`, `ListingsAgree` | `NotesInv`: the copy held by an update that is not stale is the row with the fields it was sent; who wrote a row is over, so its copy no longer changes. `ListsInv` for the listings: as long as a listing that has counted is not stale, its count is still the number of the user's notes (`CountsStay`), so the page it selects fits (`PageFits`) and, with limit and offset in range, is not rejected. `TenantInv` for the tenant's view: a row belongs to the user whose request made it, an update between its statements works on a note of its own user, and a request that nobody has sent has left no trace |
| `ResilienceProofs` | `BreakerTypeCorrect`, `NoWedge`, `BackendLoadIsBounded` | `FlagHasOwner`: whenever the in-flight flag is up, some admitted call has yet to record, and will clear it |
| `GatewayProofs` | `GatewayUsesBreaker`, `GatewayTypeCorrect`, `WritesAreNotRepeated`, `AnswersCanBeTrusted`, `ErrorsSurviveTheDetour`, `OnlyOutagesTrip`, `GatewayKeepsPromise` | `GatewayInv`: effects and attempts on the wire together never exceed the attempts sent; once a write was taken up its cause says whether it was done; what is about to be answered is that cause or an error of the transport. `MapsBack` is the fact about the three tables |
| `ProfileCacheProofs` | `CacheTypeCorrect`, `CacheHoldsVerified`, `ProfilesAreApart`, `ExpiryIsKept`, `AccessTokensAreAccepted`, `RefreshTokensAreNoAccessTokens` | `CacheInv`: what a request is about to store, or has read, was vouched for by the auth service for that very token |
| `LifecycleProofs` | `LifecycleTypeCorrect`, `LifecycleSound`, `ResourcesOutliveUsers`, `EverythingIsReleased`, `SuccessIsComplete`, `ConfigurationIsChecked` | `LifecycleInv`: what the steps so far have checked holds of the configuration (`CheckedInv`); what is open follows from the step or hook that is next, and nothing runs before the server or after its hook, save at a gateway past its deadline |
| `ClientSessionProofs` | `SessionsTypeCorrect`, `HonestClientsAreSafe`, `NothingStaysOpenUnseen`, `VerdictsCanBeTrusted`, `SessionsUseBothPromises` | `SessionInv`: each token is held by one client at most and each request awaited by one at most; what a client is answered is what its use case ended with; and as long as nothing has expired and no refresh or logout has gone unanswered (`Quiet`), no token was refused and a client's token is open until its own request has closed it |

Theorems connect the modules. `ImplementsLedger` maps the auth service onto the
ledger (`open` is the set of active tokens, `exchanged` the pairs of a token and the
one a refresh put in its place), so the ledger's theorems carry over
(`DeadTokensStayDead`, `TokensFormChains`). `GatewayUsesBreaker` shows that the gateway's
steps are the breaker's, so `NoWedge` and `BackendLoadIsBounded` hold of it too. `GatewayKeepsPromise` maps the gateway onto `WriteChannel`.
`SessionsUseBothPromises` shows that each step of `ClientSession` is a step, or a stutter, of
`WriteChannel` and of `SessionLedger`, so that it assumes no more of the two services than they
were shown to keep; `VerdictsCanBeTrusted` is `WriteChannel`'s `VerdictsAreFinal` carried over.
For the auth half that argument is a theorem: `SystemKeepsSessions` shows that the clients over
the statements of `AuthService` implement `ClientSession`, so that what is proved there of
honest clients and of stray sessions is proved of the statements (`HonestClientsOfTheService`,
`NoStraySessionsAtTheService`). It rests on `SystemUsesService`: the clients add no behaviour to the service, so its
invariants hold in the system. The gateway is still its promise there: that the
product of `Gateway` and `AuthService` implements `ClientSession` is not stated as one theorem.

`TenantsAreAlone` is the strongest statement of isolation here: for any user, blanking everything
that belongs to others leaves a behaviour of a notes service without others. `TenantsAreApart`
(an action property: only its owner's requests touch or see a note) follows the same conditions
on `user_id` and is proved beside it.

The assumptions are those named in the modules: in `Resilience`, finitely many calls and
thresholds of at least 1; in `Gateway`, that the operations are among the ten of the table;
in `AccessTokens`, that the two keys of a pair differ, which `EnsureAuthJWT` checks at the start and
`ConfigurationIsChecked` shows; in `ProfileCache`, that tokens are well-formed and lifetimes are positive;
in `Lifecycle`, that configurations are configurations; in `WriteChannel` and `ClientSession`, which errors
are denials; in `AuthService`, `NotesService` and `ClientSession`, that `None` is not a value of the data; in `NotesTenant`,
that the tenant is a user; in `SessionSystem`, that the one user has one address and one name, and
that the errors about tokens, accounts and passwords are denials.

Only model-checked: the liveness properties (`EveryRequestAnswered`, `ProbeEnds`,
`Recovers`, `StartEnds`, `ShutdownEnds`), which need reasoning about fairness and ENABLED that
TLAPS does not do, and the three violated statements. Only proved: the type invariant of
`NotesService` and `OwnersOnly`, of which `TenantIsAlone` checks the sharper form.

## Findings

1. **The reuse alarm can miss a session** (`auth_escape`). After an alarm the code logs
   "all user tokens revoked" (`internal/adapters/postgres/auth.go:316`). A rotation of
   the same user that has consumed its token but not committed is waited for, yet the
   row it inserts is not in the sweep's snapshot and stays active. What does hold is
   `ReuseClosesHeir`: all that the alarm saw is closed, and so is the heir of the reused token.
2. **A username can be reported as a taken email** (`auth_email_taken`).
   `mapUniqueViolation` looks for "email" in the detail of the violation, which quotes
   the colliding value, so the taken username `myemail` is answered with "user with
   this email already exists". What does hold is `RegistrationsAgree`: the registration is refused for something
   that another account has.
3. **Two half-open probes at once** (`resilience_probe`). `record` clears
   `halfOpenInFlight` for every call, also one admitted before the breaker tripped, so
   a second probe joins the first although `allow` means to reject it ("circuit
   breaker rejected concurrent half-open probe", `internal/fault/fault.go:226`). What does hold
   is `LoadNeverGrows`.

Behaviour worth knowing that no text in the repository contradicts is listed under
"hazards" with a note: for instance that an update writes back fields it did not send,
that the Redis client is not closed when its first PING fails, or that a timeout
counts as an outage and is answered 500.

## Not modelled

* Logging, request ids, access log, recovery middleware, health and
  readiness routes: no effect on the state above.
* Values of the configuration that no check looks at, such as lifetimes of zero (see the hazard
  at `internal/bootstrap/helpers.go:223`), and the parsing of files and environment.
* Signing and hashing, message conversion, JSON: pure functions on data the
  properties do not tell apart. A signature is whether the keys agree; validation of
  emails, names, passwords and texts is modelled by its outcome.
* `golang-migrate`, `pgxpool`, Redis, fiber and gRPC themselves: modelled by how the code
  uses them, where marked external.
* Repository methods that no use case calls, and `Cache.Delete`.
* A panic inside an operation that the breaker runs (see the hazard at
  `internal/fault/fault.go:112`).
* Generated protobuf code, entry points and deployment files: no behaviour of their own.

## Plan

Done: the modules, runs and theorems above, in the order ledger and auth service,
breaker, notes, lifecycle, profile cache, gateway; then the configuration, the access
tokens, the agreement of pages and totals, the gateway's promise and the clients' sessions over both promises; then
the clients over the statements of the auth service, and the notes service as each user sees it.

Next:

1. Compose `ProfileCache` with `Gateway`: a cached answer while the breaker is open,
   the two Sets after a retried read, and the request's deadline over all of them.
2. Liveness of a request through the gateway: it is answered, whatever the backend does.
3. The order of a listing, to state what a client that walks through the pages may
   rely on.
4. The conditions under which the alarm does close every session of the user, as a theorem that
   bounds finding 1 further than `ReuseClosesHeir` does.
5. `Gateway` in the place of `WriteChannel` in `SessionSystem`: one theorem that the product of the two
   detailed modules implements `ClientSession`.
