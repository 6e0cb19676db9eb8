------------------------------ MODULE Configuration ----------------------------
(***************************************************************************)
(* The configuration a process starts from (internal/config/config.go) and *)
(* the checks of it in internal/bootstrap/helpers.go.  Each section is a   *)
(* pointer that stays nil when nothing names it, and each program needs    *)
(* other sections and other secrets.                                       *)
(***************************************************************************)

Sections == {"Postgres", "Logging", "Shutdown", "GRPC", "GRPCClient", "JWT", "HTTP", "Redis"}

(* Blank, shorter than minJWTSecretLength, or long enough. *)
Long == {"k1", "k2"}
Secrets == {"none", "short"} \cup Long

Config ==
  [sections : SUBSET Sections,     \* the others are nil
   password : BOOLEAN,             \* Postgres.Password is not blank
   access : Secrets, refresh : Secrets, shared : Secrets,
   connectTimeout : BOOLEAN]       \* the ConnectTimeouts of the clients are positive

(* The one secret stands in for each of the two that is blank; a nil JWT
   section resolves to nothing. *)
Resolved(c, own) ==
  IF "JWT" \notin c.sections THEN "none" ELSE IF own # "none" THEN own ELSE c.shared

ResolvedAccessSecret(c) == Resolved(c, c.access)
ResolvedRefreshSecret(c) == Resolved(c, c.refresh)

EnsurePostgresAndGRPC(c) == {"Postgres", "GRPC", "Shutdown"} \subseteq c.sections /\ c.password

(* Bug: the secrets are compared as they were written. *)
EnsureAuthJWT_Raw(c) ==
  /\ "JWT" \in c.sections
  /\ {ResolvedAccessSecret(c), ResolvedRefreshSecret(c)} \subseteq Long
  /\ c.access # c.refresh

EnsureAuthJWT(c) ==
  /\ "JWT" \in c.sections
  /\ {ResolvedAccessSecret(c), ResolvedRefreshSecret(c)} \subseteq Long
  /\ ResolvedAccessSecret(c) # ResolvedRefreshSecret(c)

EnsureNotesJWT(c) == "JWT" \in c.sections /\ ResolvedAccessSecret(c) \in Long

RequireGatewayConfig(c) == {"GRPCClient", "Redis", "HTTP", "Shutdown"} \subseteq c.sections

================================================================================
