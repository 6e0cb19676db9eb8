------------------------------ MODULE NotesService -----------------------------
(***************************************************************************)
(* The notes service: the use cases of internal/app/notes.go running       *)
(* concurrently over the table notes, one autocommitted SQL statement at a *)
(* time.  An update is two statements, SELECT and UPDATE of the whole row, *)
(* and a listing is two, COUNT and SELECT; nothing locks the row between   *)
(* them.                                                                   *)
(*                                                                         *)
(* A request creates at most one note, so notes are named by the request   *)
(* that made them.  A client may ask for any id.                           *)
(***************************************************************************)
EXTENDS Integers, FiniteSets

CONSTANTS
  Requests,      \* gRPC calls, one use case execution each
  Users,
  Texts,         \* titles and contents
  BadTitles,     \* blank, or longer than maxNoteTitleLen
  BadContents,   \* larger than maxNoteContentLen
  Limits,        \* what clients ask for in limit and in offset
  Offsets,
  DefaultListLimit,
  MaxListLimit,
  None

ASSUME NotesAssumption ==
  /\ IsFiniteSet(Requests)
  /\ BadTitles \subseteq Texts /\ BadContents \subseteq Texts
  /\ Limits \subseteq Int /\ Offsets \subseteq Int
  /\ DefaultListLimit \in Nat /\ MaxListLimit \in Nat
  /\ 0 < DefaultListLimit /\ DefaultListLimit <= MaxListLimit
  /\ None \notin Requests \cup Users \cup Texts

VARIABLES
  stored,    \* table notes: the notes that have a row
  owner,     \*   user_id of the row
  text,      \*   title and content of the row
  deleted,   \* history: notes whose row was deleted
  writer,    \* history: the request that wrote the row last
  pc,        \* what each request does next
  op,        \* the use case each request executes
  user,      \* the user of the access token
  target,    \* the note a request names
  form,      \* the title and the content a request was sent, None if left out
  copy,      \* the note as the use case holds it, answered in the end
  asked,     \* limit and offset of a listing
  total,     \* what COUNT returned
  page,      \* the notes that the listing returned
  stale,     \* history: requests whose first statement no longer tells the truth
  answer     \* what the client learns

table == <<stored, owner, text, deleted, writer>>
inputs == <<op, user, target, form, asked>>
lists == <<total, page>>
vars == <<stored, owner, text, deleted, writer, pc, op, user, target, form,
          copy, asked, total, page, stale, answer>>

Notes == [title : Texts, content : Texts]
Patches == [title : Texts \cup {None}, content : Texts \cup {None}]
Blank == [title |-> None, content |-> None]

(* The table, the requests and what they were asked, and their work. *)
TableOK ==
  /\ stored \subseteq Requests
  /\ owner \in [Requests -> Users \cup {None}]
  /\ text \in [Requests -> Notes \cup {Blank}]
  /\ deleted \subseteq Requests
  /\ writer \in [Requests -> Requests \cup {None}]
  /\ \A n \in stored : owner[n] \in Users /\ text[n] \in Notes /\ writer[n] \in Requests

InputsOK ==
  /\ op \in [Requests -> {"none", "create", "get", "update", "delete", "list"}]
  /\ user \in [Requests -> Users \cup {None}]
  /\ target \in [Requests -> Requests \cup {None}]
  /\ form \in [Requests -> Patches]
  /\ asked \in [Requests -> [limit : Limits \cup {0}, offset : Offsets \cup {0}]]

WorkOK ==
  /\ pc \in [Requests -> {"idle", "write", "select", "done"}]
  /\ answer \in [Requests -> {"none", "ok", "error", "invalid", "notFound", "rejected"}]
  /\ copy \in [Requests -> Notes \cup {Blank}]
  /\ total \in [Requests -> Nat]
  /\ page \in [Requests -> SUBSET Requests]
  /\ stale \subseteq Requests
  /\ \A p \in Requests : pc[p] = "write" => copy[p] \in Notes /\ target[p] \in Requests

TypeOK == TableOK /\ InputsOK /\ WorkOK

Init ==
  /\ stored = {}
  /\ owner = [n \in Requests |-> None]
  /\ text = [n \in Requests |-> Blank]
  /\ deleted = {}
  /\ writer = [n \in Requests |-> None]
  /\ pc = [p \in Requests |-> "idle"]
  /\ op = [p \in Requests |-> "none"]
  /\ user = [p \in Requests |-> None]
  /\ target = [p \in Requests |-> None]
  /\ form = [p \in Requests |-> Blank]
  /\ copy = [p \in Requests |-> Blank]
  /\ asked = [p \in Requests |-> [limit |-> 0, offset |-> 0]]
  /\ total = [p \in Requests |-> 0]
  /\ page = [p \in Requests |-> {}]
  /\ stale = {}
  /\ answer = [p \in Requests |-> "none"]

(* The interceptor's user calls a use case. *)
Call(p, name, u, n, f) ==
  /\ pc[p] = "idle"
  /\ op' = [op EXCEPT ![p] = name]
  /\ user' = [user EXCEPT ![p] = u]
  /\ target' = [target EXCEPT ![p] = n]
  /\ form' = [form EXCEPT ![p] = f]

Goto(p, next) ==
  /\ pc' = [pc EXCEPT ![p] = next]
  /\ UNCHANGED answer

Reply(p, a) ==
  /\ pc' = [pc EXCEPT ![p] = "done"]
  /\ answer' = [answer EXCEPT ![p] = a]

(* A statement took effect; its reply may still be lost on the way back. *)
ReplyOrLose(p, a) == \E reply \in {a, "error"} : Reply(p, reply)

(* Bug: the query lost its AND user_id. *)
Mine_AnyUser(n, u) == n \in stored

(* WHERE id = $1 AND user_id = $2. *)
Mine(n, u) == n \in stored /\ owner[n] = u

(* WHERE user_id = $1. *)
Owned(u) == {n \in stored : owner[n] = u}

Fits(f) == f.title \notin BadTitles /\ f.content \notin BadContents

(* Requests between the two statements of an update of n, or of a listing
   of u's notes. *)
Updating(n) == {q \in Requests : pc[q] = "write" /\ target[q] = n}
Listing(u) == {q \in Requests : pc[q] = "select" /\ user[q] = u}

--------------------------------------------------------------------------------

CreateNote(p, u, f) ==
  /\ Call(p, "create", u, p, f)
  /\ \/ /\ Fits(f)
        /\ stored' = stored \cup {p}
        /\ owner' = [owner EXCEPT ![p] = u]
        /\ text' = [text EXCEPT ![p] = f]
        /\ writer' = [writer EXCEPT ![p] = p]
        /\ copy' = [copy EXCEPT ![p] = f]
        /\ stale' = stale \cup Listing(u)
        /\ ReplyOrLose(p, "ok")
     \/ /\ ~Fits(f)
        /\ Reply(p, "invalid")
        /\ UNCHANGED <<stored, owner, text, writer, copy, stale>>
  /\ UNCHANGED <<deleted, asked, lists>>

GetNote(p, u, n) ==
  /\ Call(p, "get", u, n, Blank)
  /\ \/ Mine(n, u) /\ copy' = [copy EXCEPT ![p] = text[n]] /\ Reply(p, "ok")
     \/ ~Mine(n, u) /\ Reply(p, "notFound") /\ UNCHANGED copy
  /\ UNCHANGED <<table, asked, lists, stale>>

(* Bug: a field that was left out is written as it came, NULL. *)
ApplyUpdate_Nulls(t, f) == f

(* ApplyUpdate: the note that was read, with the fields that were sent. *)
ApplyUpdate(t, f) ==
  [c \in {"title", "content"} |-> IF f[c] = None THEN t[c] ELSE f[c]]

UpdateFind(p, u, n, f) ==
  /\ Call(p, "update", u, n, f)
  /\ \/ /\ Mine(n, u) /\ Fits(f)
        /\ copy' = [copy EXCEPT ![p] = ApplyUpdate(text[n], f)]
        /\ Goto(p, "write")
     \/ Mine(n, u) /\ ~Fits(f) /\ Reply(p, "invalid") /\ UNCHANGED copy
     \/ ~Mine(n, u) /\ Reply(p, "notFound") /\ UNCHANGED copy
  /\ UNCHANGED <<table, asked, lists, stale>>

(* Bug: INSERT ... ON CONFLICT DO UPDATE. *)
UpdateWrite_Upsert(p) ==
  LET n == target[p] IN
  /\ pc[p] = "write"
  /\ stored' = stored \cup {n}
  /\ text' = [text EXCEPT ![n] = copy[p]]
  /\ writer' = [writer EXCEPT ![n] = p]
  /\ stale' = stale \cup (Updating(n) \ {p})
  /\ ReplyOrLose(p, "ok")
  /\ UNCHANGED <<owner, deleted, inputs, copy, lists>>

(* Bug: title and content change places in the arguments. *)
UpdateWrite_Swapped(p) ==
  LET n == target[p] IN
  /\ pc[p] = "write"
  /\ \/ /\ Mine(n, user[p])
        /\ text' = [text EXCEPT ![n] = [title |-> copy[p].content, content |-> copy[p].title]]
        /\ writer' = [writer EXCEPT ![n] = p]
        /\ stale' = stale \cup (Updating(n) \ {p})
        /\ ReplyOrLose(p, "ok")
     \/ /\ ~Mine(n, user[p])
        /\ Reply(p, "notFound")
        /\ UNCHANGED <<text, writer, stale>>
  /\ UNCHANGED <<stored, owner, deleted, inputs, copy, lists>>

(* The whole row is written back, whatever happened to it since. *)
UpdateWrite(p) ==
  LET n == target[p] IN
  /\ pc[p] = "write"
  /\ \/ /\ Mine(n, user[p])
        /\ text' = [text EXCEPT ![n] = copy[p]]
        /\ writer' = [writer EXCEPT ![n] = p]
        /\ stale' = stale \cup (Updating(n) \ {p})
        /\ ReplyOrLose(p, "ok")
     \/ /\ ~Mine(n, user[p])
        /\ Reply(p, "notFound")
        /\ UNCHANGED <<text, writer, stale>>
  /\ UNCHANGED <<stored, owner, deleted, inputs, copy, lists>>

DeleteNote(p, u, n) ==
  /\ Call(p, "delete", u, n, Blank)
  /\ \/ /\ Mine(n, u)
        /\ stored' = stored \ {n}
        /\ deleted' = deleted \cup {n}
        /\ stale' = stale \cup Listing(u)
        /\ ReplyOrLose(p, "ok")
     \/ /\ ~Mine(n, u)
        /\ Reply(p, "notFound")
        /\ UNCHANGED <<stored, deleted, stale>>
  /\ UNCHANGED <<owner, text, writer, copy, asked, lists>>

--------------------------------------------------------------------------------
(* ListNotes: COUNT, then one page. *)

(* Bug: the limit of the client is taken as it is. *)
ListLimit_Raw(l) == l

ListLimit(l) ==
  IF l <= 0 THEN DefaultListLimit ELSE IF l > MaxListLimit THEN MaxListLimit ELSE l

(* Bug: the offset of the client is taken as it is. *)
ListOffset_Raw(o) == o

ListOffset(o) == IF o < 0 THEN 0 ELSE o

(* Postgres takes a negative LIMIT or OFFSET for an error. *)
SelectAnswer(limit, offset) == IF limit < 0 \/ offset < 0 THEN "rejected" ELSE "ok"

(* LIMIT $2 OFFSET $3 of n rows. *)
PageSize(n, limit, offset) ==
  IF SelectAnswer(limit, offset) = "rejected" \/ n <= offset THEN 0
  ELSE IF n - offset < limit THEN n - offset ELSE limit

ListCount(p, u, l, o) ==
  /\ Call(p, "list", u, None, Blank)
  /\ asked' = [asked EXCEPT ![p] = [limit |-> l, offset |-> o]]
  /\ total' = [total EXCEPT ![p] = Cardinality(Owned(u))]
  /\ Goto(p, "select")
  /\ UNCHANGED <<table, copy, page, stale>>

(* Which notes are on the page depends on updated_at, left open here. *)
ListSelect(p) ==
  LET limit == ListLimit(asked[p].limit)
      offset == ListOffset(asked[p].offset)
  IN
  /\ pc[p] = "select"
  /\ \E S \in SUBSET Owned(user[p]) :
       /\ Cardinality(S) = PageSize(Cardinality(Owned(user[p])), limit, offset)
       /\ page' = [page EXCEPT ![p] = S]
  /\ Reply(p, SelectAnswer(limit, offset))
  /\ UNCHANGED <<table, inputs, copy, total, stale>>

(* The second statement fails, the context ends or the process dies. *)
Fail(p) ==
  /\ pc[p] \in {"write", "select"}
  /\ Reply(p, "error")
  /\ UNCHANGED <<table, inputs, copy, lists, stale>>

(* Every request has been answered. *)
Quiescent ==
  /\ \A p \in Requests : pc[p] = "done"
  /\ UNCHANGED vars

Arrive(p, u) ==
  \/ \E f \in Notes : CreateNote(p, u, f)
  \/ \E n \in Requests : GetNote(p, u, n) \/ DeleteNote(p, u, n)
  \/ \E n \in Requests, f \in Patches : UpdateFind(p, u, n, f)
  \/ \E l \in Limits, o \in Offsets : ListCount(p, u, l, o)

Proceed(p) == UpdateWrite(p) \/ ListSelect(p) \/ Fail(p)

Next ==
  \/ \E p \in Requests : Proceed(p) \/ \E u \in Users : Arrive(p, u)
  \/ Quiescent

Spec == Init /\ [][Next]_vars

--------------------------------------------------------------------------------
(* A note that was deleted stays deleted, also when an update had read it
   before (UPDATE matches no row; the answer is not found). *)
NoResurrection == deleted \cap stored = {}

(* A note keeps its owner, and what changes or deletes it is a request of
   its owner. *)
Kept(n) ==
  /\ owner'[n] = owner[n]
  /\ n \notin stored' \/ text'[n] # text[n] =>
       \E p \in Requests : pc[p] # "done" /\ pc'[p] = "done" /\ user'[p] = owner[n]

GivenToOwner(p) ==
  answer'[p] = "ok" /\ op'[p] \in {"get", "update", "delete"} => owner[target'[p]] = user'[p]

Apart ==
  /\ \A n \in stored : Kept(n)
  /\ \A p \in Requests : (pc[p] # "done" /\ pc'[p] = "done") => GivenToOwner(p)

(* A note never changes owner, and it is changed, deleted or given out only
   by a request of its owner (every query has AND user_id). *)
OwnersOnly == [][Apart]_vars

(* What the service answers to the last request that wrote a note is what
   the row holds: an acknowledged create or update is there until the next
   write, and a later read returns it. *)
LastWriteShows == \A n \in stored : text[n] = copy[writer[n]]

Raced(n, c) ==
  text'[n][c] # text[n][c] =>
    LET w == writer'[n] IN
    /\ pc[w] = "write" /\ pc'[w] = "done" /\ target[w] = n
    /\ form[w][c] # None \/ w \in stale

OverwritesAreRaced == \A n \in stored \cap stored', c \in {"title", "content"} : Raced(n, c)

(* A field that an update did not send changes only if another update of the
   same note was written between its two statements.  (Then the change of
   that other update is lost.) *)
OnlyRacesLoseUpdates == [][OverwritesAreRaced]_vars

(* How many notes a client that asks for l may expect: a limit that makes no
   sense counts as none, and a negative offset as zero. *)
Expected(l) ==
  CASE l \in 1..MaxListLimit -> l
    [] l > MaxListLimit -> MaxListLimit
    [] OTHER -> DefaultListLimit

Skipped(o) == IF o \in Nat THEN o ELSE 0

(* A page of c notes and the total n do not contradict each other: the page
   shows nothing that the total does not count, and it is shorter than
   expected only at the end of the list. *)
PageOfTotal(c, n, l, o) ==
  /\ c = 0 \/ Skipped(o) + c <= n
  /\ c = Expected(l) \/ n <= Skipped(o) + c

(* No listing is refused by the database, whatever limit and offset its client
   sends.  A page holds notes of the caller only, never more than the client
   may expect, and agrees with the total unless a note was created or deleted
   between the two statements of the listing. *)
PagesAgree ==
  \A p \in Requests : op[p] = "list" =>
    /\ answer[p] # "rejected"
    /\ answer[p] = "ok" =>
         /\ \A n \in page[p] : owner[n] = user[p]
         /\ Cardinality(page[p]) <= Expected(asked[p].limit)
         /\ \/ p \in stale
            \/ PageOfTotal(Cardinality(page[p]), total[p], asked[p].limit, asked[p].offset)

--------------------------------------------------------------------------------
(* Why they hold: the inductive invariant. *)

(* A row, or its trace in deleted, belongs to a create that is over; an
   update between its statements has found its note. *)
RowsInv ==
  /\ \A n \in stored \cup deleted : pc[n] = "done"
  /\ \A p \in Requests : pc[p] = "write" =>
        op[p] = "update" /\ target[p] \in stored \cup deleted
  /\ \A p \in Requests : pc[p] = "select" => op[p] = "list"

(* The copy of an update that is not stale is the row with its own fields. *)
CopyInv ==
  \A p \in Requests : pc[p] = "write" /\ p \notin stale =>
     copy[p] = ApplyUpdate(text[target[p]], form[p])

(* Requests that wrote a row are over, so their copy is final. *)
WriterInv == \A n \in stored : pc[writer[n]] = "done"

(* The count of a listing that is not stale is still right, the limit and the
   offset of its SELECT are in range, and the notes of an answered page keep
   their rows' owners: their creates are over. *)
ListsInv ==
  \A p \in Requests :
    /\ pc[p] = "select" /\ p \notin stale => total[p] = Cardinality(Owned(user[p]))
    /\ answer[p] = "ok" => pc[p] = "done"
    /\ answer[p] # "rejected"
    /\ op[p] = "list" /\ answer[p] = "ok" => \A n \in page[p] : pc[n] = "done"

NotesInv == RowsInv /\ CopyInv /\ WriterInv /\ NoResurrection /\ LastWriteShows

================================================================================
