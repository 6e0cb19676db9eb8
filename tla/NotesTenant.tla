------------------------------ MODULE NotesTenant ------------------------------
(***************************************************************************)
(* The notes service as one of its users sees it.  Nothing in the code     *)
(* keeps users apart but the condition on user_id in every query; what     *)
(* these conditions add up to is that each user has a service to herself:  *)
(* NotesService with no other user, refined by NotesService with many.     *)
(***************************************************************************)
EXTENDS NotesService

CONSTANT Tenant    \* the user who looks

ASSUME TenantAssumption == Tenant \in Users

(* The requests that carry an access token of the tenant. *)
Ours == {p \in Requests : user[p] = Tenant}

(* What the tenant sees of a table that has an entry for each request. *)
View(f, nothing) == [p \in Requests |-> IF p \in Ours THEN f[p] ELSE nothing]

Alone == INSTANCE NotesService
  WITH Users <- {Tenant},
       stored <- stored \cap Ours, deleted <- deleted \cap Ours, stale <- stale \cap Ours,
       owner <- View(owner, None), text <- View(text, Blank), writer <- View(writer, None),
       pc <- View(pc, "idle"), op <- View(op, "none"), user <- View(user, None),
       target <- View(target, None), form <- View(form, Blank), copy <- View(copy, Blank),
       asked <- View(asked, [limit |-> 0, offset |-> 0]), total <- View(total, 0),
       page <- View(page, {}), answer <- View(answer, "none")

(* Whatever other users do, to their own notes or with the ids of the tenant's,
   the tenant is served as if she were alone: her notes, totals, pages and
   answers change by her own requests only, and as they would without others
   (AND user_id = $n in every query of postgres/notes.go). *)
TenantIsAlone == Alone!Spec

--------------------------------------------------------------------------------
(* Why it holds: the inductive invariant. *)

(* A row belongs to the user of the request that made it, and an update
   between its statements works on a note of its own user. *)
OwnersInv ==
  /\ \A n \in Requests : owner[n] \in {None, user[n]}
  /\ \A p \in Requests : pc[p] = "write" => owner[target[p]] = user[p]

(* A request that nobody has sent has left no trace. *)
Untouched(p) ==
  /\ user[p] = None /\ op[p] = "none" /\ target[p] = None /\ form[p] = Blank
  /\ owner[p] = None /\ text[p] = Blank /\ writer[p] = None
  /\ copy[p] = Blank /\ asked[p] = [limit |-> 0, offset |-> 0]
  /\ total[p] = 0 /\ page[p] = {} /\ answer[p] = "none"
  /\ p \notin stored \cup deleted \cup stale

TenantInv ==
  OwnersInv /\ \A p \in Requests : IF pc[p] = "idle" THEN Untouched(p) ELSE user[p] \in Users

================================================================================
