------------------------------ MODULE NotesProofs ------------------------------
(* Proofs about the notes service, for any number of requests, users, notes
   and texts. *)
EXTENDS NotesTenant, FiniteSetTheorems, TLAPS

USE NotesAssumption, TenantAssumption

(* The patched note is a note. *)
LEMMA PatchedIsNote ==
  ASSUME NEW t \in Notes, NEW f \in Patches
  PROVE  ApplyUpdate(t, f) \in Notes
<1>1. \A c \in {"title", "content"} : ApplyUpdate(t, f)[c] \in Texts
  BY DEF ApplyUpdate, Notes, Patches
<1> QED
  BY <1>1 DEF ApplyUpdate, Notes

(* COUNT of a finite table is a number. *)
LEMMA CountIsNat ==
  ASSUME TypeOK, NEW u
  PROVE  Cardinality(Owned(u)) \in Nat
  BY FS_Subset, FS_CardinalityType DEF TypeOK, TableOK, Owned

LEMMA TypeInit == Init => TypeOK
  BY DEF Init, TypeOK, TableOK, InputsOK, WorkOK, Notes, Patches, Blank

(* A call fills in its own inputs only, and was idle. *)
LEMMA CallTypes ==
  ASSUME TypeOK, NEW p \in Requests, NEW u \in Users, NEW n \in Requests \cup {None},
         NEW f \in Patches, NEW name \in {"create", "get", "update", "delete", "list"},
         Call(p, name, u, n, f), UNCHANGED asked
  PROVE  InputsOK'
  BY DEF Call, TypeOK, InputsOK

(* Where a request goes next, and what it answers. *)
LEMMA ReplyTypes ==
  ASSUME TypeOK, NEW p \in Requests,
         \/ \E a \in {"ok", "error", "invalid", "notFound", "rejected"} :
               Reply(p, a) \/ ReplyOrLose(p, a)
         \/ \E next \in {"write", "select"} : Goto(p, next)
  PROVE  /\ pc' \in [Requests -> {"idle", "write", "select", "done"}]
         /\ answer' \in [Requests -> {"none", "ok", "error", "invalid", "notFound", "rejected"}]
         /\ \A q \in Requests \ {p} : pc'[q] = pc[q]
  BY DEF Reply, ReplyOrLose, Goto, TypeOK, WorkOK

LEMMA PatchTypes == Blank \in Patches /\ Notes \subseteq Patches
  BY DEF Blank, Patches, Notes

LEMMA TypeStep == TypeOK /\ [Next]_vars => TypeOK'
<1> SUFFICES ASSUME TypeOK, [Next]_vars
             PROVE  TypeOK'
  OBVIOUS
<1>1. ASSUME NEW p \in Requests, NEW u \in Users, NEW f \in Notes, CreateNote(p, u, f)
      PROVE  TypeOK'
  <2>1. InputsOK'
    BY <1>1, CallTypes, PatchTypes DEF CreateNote
  <2>2. TableOK'
    BY <1>1 DEF CreateNote, TypeOK, TableOK
  <2>3. pc'[p] = "done"
    BY <1>1 DEF CreateNote, Reply, ReplyOrLose, TypeOK, WorkOK
  <2>4. /\ copy' \in [Requests -> Notes \cup {Blank}]
        /\ stale' \subseteq Requests
        /\ UNCHANGED lists
        /\ \A q \in Requests \ {p} : copy'[q] = copy[q] /\ target'[q] = target[q]
    BY <1>1 DEF CreateNote, Call, Listing, TypeOK, WorkOK, InputsOK
  <2>5. /\ pc' \in [Requests -> {"idle", "write", "select", "done"}]
        /\ answer' \in [Requests -> {"none", "ok", "error", "invalid", "notFound", "rejected"}]
        /\ \A q \in Requests \ {p} : pc'[q] = pc[q]
    BY <1>1, ReplyTypes DEF CreateNote
  <2>6. WorkOK'
    BY <2>3, <2>4, <2>5 DEF lists, TypeOK, WorkOK
  <2> QED
    BY <2>1, <2>2, <2>6 DEF TypeOK
<1>2. ASSUME NEW p \in Requests, NEW u \in Users, NEW n \in Requests, GetNote(p, u, n)
      PROVE  TypeOK'
  <2>1. InputsOK'
    BY <1>2, CallTypes, PatchTypes DEF GetNote
  <2>2. TableOK'
    BY <1>2 DEF GetNote, table, TypeOK, TableOK
  <2>3. pc'[p] = "done"
    BY <1>2 DEF GetNote, Reply, TypeOK, WorkOK
  <2>4. WorkOK'
    BY <1>2, <2>3, ReplyTypes DEF GetNote, Mine, Call, TypeOK, TableOK, WorkOK, InputsOK, lists
  <2> QED
    BY <2>1, <2>2, <2>4 DEF TypeOK
<1>3. ASSUME NEW p \in Requests, NEW u \in Users, NEW n \in Requests, DeleteNote(p, u, n)
      PROVE  TypeOK'
  <2>1. InputsOK'
    BY <1>3, CallTypes, PatchTypes DEF DeleteNote
  <2>2. TableOK'
    BY <1>3 DEF DeleteNote, TypeOK, TableOK
  <2>3. pc'[p] = "done"
    BY <1>3 DEF DeleteNote, Reply, ReplyOrLose, TypeOK, WorkOK
  <2>4. WorkOK'
    BY <1>3, <2>3, ReplyTypes DEF DeleteNote, Call, Listing, TypeOK, WorkOK, InputsOK, lists
  <2> QED
    BY <2>1, <2>2, <2>4 DEF TypeOK
<1>4. ASSUME NEW p \in Requests, NEW u \in Users, NEW n \in Requests, NEW f \in Patches,
             UpdateFind(p, u, n, f)
      PROVE  TypeOK'
  <2>1. InputsOK'
    BY <1>4, CallTypes DEF UpdateFind
  <2>2. TableOK'
    BY <1>4 DEF UpdateFind, table, TypeOK, TableOK
  <2>3. target'[p] = n
    BY <1>4 DEF UpdateFind, Call, TypeOK, InputsOK
  <2>4. CASE pc'[p] = "write"
    <3>1. Mine(n, u) /\ copy' = [copy EXCEPT ![p] = ApplyUpdate(text[n], f)]
      BY <1>4, <2>4 DEF UpdateFind, Reply, TypeOK, WorkOK
    <3>2. ApplyUpdate(text[n], f) \in Notes
      BY <3>1, PatchedIsNote DEF Mine, TypeOK, TableOK
    <3> QED
      BY <1>4, <2>1, <2>2, <2>3, <3>1, <3>2, ReplyTypes
         DEF UpdateFind, Call, TypeOK, WorkOK, InputsOK, lists
  <2>5. CASE pc'[p] # "write"
    <3>1. UNCHANGED copy
      BY <1>4, <2>5 DEF UpdateFind, Goto, TypeOK, WorkOK
    <3> QED
      BY <1>4, <2>1, <2>2, <2>5, <3>1, ReplyTypes
         DEF UpdateFind, Call, TypeOK, WorkOK, InputsOK, lists
  <2> QED
    BY <2>4, <2>5
<1>5. ASSUME NEW p \in Requests, NEW u \in Users, NEW l \in Limits, NEW o \in Offsets,
             ListCount(p, u, l, o)
      PROVE  TypeOK'
  <2>1. InputsOK'
    BY <1>5, PatchTypes DEF ListCount, Call, TypeOK, InputsOK
  <2>2. TableOK'
    BY <1>5 DEF ListCount, table, TypeOK, TableOK
  <2>3. WorkOK'
    BY <1>5, ReplyTypes, CountIsNat DEF ListCount, Goto, Call, TypeOK, WorkOK, InputsOK
  <2> QED
    BY <2>1, <2>2, <2>3 DEF TypeOK
<1>6. ASSUME NEW p \in Requests, UpdateWrite(p)
      PROVE  TypeOK'
  <2>1. pc[p] = "write" /\ pc'[p] = "done"
    BY <1>6 DEF UpdateWrite, Reply, ReplyOrLose, TypeOK, WorkOK
  <2>2. copy[p] \in Notes /\ target[p] \in Requests
    BY <2>1 DEF TypeOK, WorkOK
  <2>3. TableOK'
    BY <1>6, <2>2 DEF UpdateWrite, TypeOK, TableOK
  <2>4. InputsOK'
    BY <1>6 DEF UpdateWrite, inputs, TypeOK, InputsOK
  <2>5. stale' \subseteq Requests /\ UNCHANGED <<copy, total, page, target>>
    BY <1>6 DEF UpdateWrite, Updating, inputs, lists, TypeOK, WorkOK
  <2>6. /\ pc' \in [Requests -> {"idle", "write", "select", "done"}]
        /\ answer' \in [Requests -> {"none", "ok", "error", "invalid", "notFound", "rejected"}]
        /\ \A q \in Requests \ {p} : pc'[q] = pc[q]
    BY <1>6, ReplyTypes DEF UpdateWrite
  <2>7. WorkOK'
    BY <2>1, <2>5, <2>6 DEF TypeOK, WorkOK
  <2> QED
    BY <2>3, <2>4, <2>7 DEF TypeOK
<1>7. ASSUME NEW p \in Requests, ListSelect(p) \/ Fail(p)
      PROVE  TypeOK'
  <2>1. pc'[p] = "done"
    BY <1>7 DEF ListSelect, Fail, Reply, TypeOK, WorkOK
  <2>2. TableOK' /\ InputsOK'
    BY <1>7 DEF ListSelect, Fail, table, inputs, TypeOK, TableOK, InputsOK
  <2>3. UNCHANGED <<copy, total, stale, target>>
    BY <1>7 DEF ListSelect, Fail, inputs, lists
  <2>4. Owned(user[p]) \subseteq Requests
    BY DEF Owned, TypeOK, TableOK
  <2>5. UNCHANGED page \/ \E S \in SUBSET Requests : page' = [page EXCEPT ![p] = S]
    BY <1>7, <2>4 DEF ListSelect, Fail, lists
  <2>6. page' \in [Requests -> SUBSET Requests]
    BY <2>5 DEF TypeOK, WorkOK
  <2>7. WorkOK'
    BY <1>7, <2>1, <2>3, <2>6, ReplyTypes DEF ListSelect, SelectAnswer, Fail, TypeOK, WorkOK
  <2> QED
    BY <2>2, <2>7 DEF TypeOK
<1>8. CASE UNCHANGED vars
  BY <1>8 DEF vars, TypeOK, TableOK, InputsOK, WorkOK
<1> QED
  BY <1>1, <1>2, <1>3, <1>4, <1>5, <1>6, <1>7, <1>8
     DEF Next, Proceed, Arrive, Quiescent

(* Every reachable state of the notes service is well formed. *)
THEOREM NotesTypeCorrect == Spec => []TypeOK
  BY TypeInit, TypeStep, PTL DEF Spec

--------------------------------------------------------------------------------
(* What a step does to the rows: a table of the effects of every action. *)
LEMMA InvInit == Init => NotesInv
  BY DEF Init, NotesInv, RowsInv, CopyInv, WriterInv, NoResurrection, LastWriteShows

(* Requests that are not p keep their place and their copy. *)
LEMMA Others ==
  ASSUME TypeOK, NEW p \in Requests,
         \/ \E u \in Users : Arrive(p, u)
         \/ Proceed(p)
  PROVE  \A q \in Requests \ {p} :
            /\ pc'[q] = pc[q] /\ op'[q] = op[q] /\ target'[q] = target[q]
            /\ form'[q] = form[q] /\ copy'[q] = copy[q]
<1> USE DEF TypeOK, WorkOK, InputsOK, Reply, ReplyOrLose, Goto
<1>1. ASSUME NEW u \in Users, Arrive(p, u)
      PROVE  \A q \in Requests \ {p} : pc'[q] = pc[q]
  BY <1>1 DEF Arrive, CreateNote, GetNote, DeleteNote, UpdateFind, ListCount
<1>2. ASSUME NEW u \in Users, Arrive(p, u)
      PROVE  \A q \in Requests \ {p} :
                /\ op'[q] = op[q] /\ target'[q] = target[q] /\ form'[q] = form[q]
  BY <1>2 DEF Arrive, CreateNote, GetNote, DeleteNote, UpdateFind, ListCount, Call
<1>3. ASSUME NEW u \in Users, Arrive(p, u)
      PROVE  \A q \in Requests \ {p} : copy'[q] = copy[q]
  BY <1>3 DEF Arrive, CreateNote, GetNote, DeleteNote, UpdateFind, ListCount
<1>4. CASE Proceed(p)
  BY <1>4 DEF Proceed, UpdateWrite, ListSelect, Fail, inputs
<1> QED
  BY <1>1, <1>2, <1>3, <1>4

(* A step that leaves the table alone and ends no update keeps the invariant:
   the requests it is about are neither rows nor writers yet. *)
LEMMA QuietStep ==
  ASSUME TypeOK, NotesInv, NEW p \in Requests, pc[p] # "done",
         UNCHANGED <<table, stale>>,
         \A q \in Requests \ {p} :
            /\ pc'[q] = pc[q] /\ op'[q] = op[q] /\ target'[q] = target[q]
            /\ form'[q] = form[q] /\ copy'[q] = copy[q],
         pc'[p] = "select" => op'[p] = "list",
         \/ pc'[p] # "write"
         \/ /\ op'[p] = "update" /\ target'[p] \in stored
            /\ copy'[p] = ApplyUpdate(text[target'[p]], form'[p])
  PROVE  NotesInv'
<1> USE DEF NotesInv, table
<1>1. RowsInv'
  BY DEF RowsInv, TypeOK, TableOK
<1>2. CopyInv'
  BY DEF CopyInv, ApplyUpdate
<1>3. \A n \in stored : writer[n] \in Requests \ {p}
  BY DEF WriterInv, TypeOK, TableOK
<1>4. WriterInv'
  BY <1>3 DEF WriterInv
<1>5. NoResurrection' /\ LastWriteShows'
  BY <1>3 DEF NoResurrection, LastWriteShows
<1> QED
  BY <1>1, <1>2, <1>4, <1>5

(* A new row belongs to the request that creates it, which was no row and
   no writer before. *)
LEMMA CreateStep ==
  ASSUME TypeOK, NotesInv, NEW p \in Requests, NEW u \in Users, NEW f \in Notes,
         CreateNote(p, u, f)
  PROVE  NotesInv'
<1>1. \A q \in Requests \ {p} :
         /\ pc'[q] = pc[q] /\ op'[q] = op[q] /\ target'[q] = target[q]
         /\ form'[q] = form[q] /\ copy'[q] = copy[q]
  BY Others DEF Arrive
<1>2. pc[p] = "idle" /\ pc'[p] = "done"
  BY DEF CreateNote, Call, Reply, ReplyOrLose, TypeOK, WorkOK
<1>3. CASE ~Fits(f)
  <2>1. UNCHANGED <<table, stale>>
    BY <1>3 DEF CreateNote, table
  <2> QED
    BY <1>1, <1>2, <2>1, QuietStep
<1>4. CASE Fits(f)
  <2>1. p \notin stored \cup deleted
    BY <1>2 DEF NotesInv, RowsInv
  <2>2. /\ stored' = stored \cup {p} /\ deleted' = deleted /\ stale \subseteq stale'
        /\ text' = [text EXCEPT ![p] = f] /\ writer' = [writer EXCEPT ![p] = p]
        /\ copy'[p] = f
    BY <1>4 DEF CreateNote, TypeOK, WorkOK
  <2>3. text'[p] = f /\ writer'[p] = p
        /\ \A n \in Requests \ {p} : text'[n] = text[n] /\ writer'[n] = writer[n]
    BY <2>2 DEF TypeOK, TableOK
  <2>4. \A n \in stored : n # p /\ writer[n] \in Requests \ {p}
    BY <1>2, <2>1 DEF NotesInv, WriterInv, TypeOK, TableOK
  <2>5. RowsInv'
    BY <1>1, <1>2, <2>2 DEF NotesInv, RowsInv, TypeOK, TableOK
  <2>6. CopyInv'
    <3> SUFFICES ASSUME NEW q \in Requests, pc'[q] = "write", q \notin stale'
                 PROVE  copy'[q] = ApplyUpdate(text'[target'[q]], form'[q])
      BY DEF CopyInv, ApplyUpdate
    <3>1. q # p /\ pc[q] = "write" /\ q \notin stale
      BY <1>1, <1>2, <2>2
    <3>2. target[q] \in Requests \ {p}
      BY <3>1, <2>1 DEF NotesInv, RowsInv, TypeOK, WorkOK
    <3> QED
      BY <1>1, <2>3, <3>1, <3>2 DEF NotesInv, CopyInv, ApplyUpdate
  <2>7. WriterInv'
    BY <1>1, <1>2, <2>2, <2>3, <2>4 DEF NotesInv, WriterInv, TypeOK, TableOK
  <2>8. NoResurrection' /\ LastWriteShows'
    BY <1>1, <2>1, <2>2, <2>3, <2>4
       DEF NotesInv, NoResurrection, LastWriteShows, TypeOK, TableOK
  <2> QED
    BY <2>5, <2>6, <2>7, <2>8 DEF NotesInv
<1> QED
  BY <1>3, <1>4

(* A deleted row leaves its trace in deleted. *)
LEMMA DeleteStep ==
  ASSUME TypeOK, NotesInv, NEW p \in Requests, NEW u \in Users, NEW n \in Requests,
         DeleteNote(p, u, n)
  PROVE  NotesInv'
<1>1. \A q \in Requests \ {p} :
         /\ pc'[q] = pc[q] /\ op'[q] = op[q] /\ target'[q] = target[q]
         /\ form'[q] = form[q] /\ copy'[q] = copy[q]
  BY Others DEF Arrive
<1>2. pc[p] = "idle" /\ pc'[p] = "done"
  BY DEF DeleteNote, Call, Reply, ReplyOrLose, TypeOK, WorkOK
<1>3. UNCHANGED <<text, writer, copy>> /\ stale \subseteq stale'
      /\ stored' \subseteq stored /\ deleted \subseteq deleted'
      /\ stored' \cup deleted' = stored \cup deleted
      /\ (deleted \cap stored = {} => deleted' \cap stored' = {})
  BY DEF DeleteNote, Mine
<1>4. RowsInv'
  BY <1>1, <1>2, <1>3 DEF NotesInv, RowsInv, TypeOK, TableOK
<1>5. CopyInv'
  BY <1>1, <1>2, <1>3 DEF NotesInv, CopyInv, ApplyUpdate
<1>6. WriterInv'
  BY <1>1, <1>2, <1>3 DEF NotesInv, WriterInv, TypeOK, TableOK
<1>7. NoResurrection' /\ LastWriteShows'
  BY <1>3 DEF NotesInv, NoResurrection, LastWriteShows
<1> QED
  BY <1>4, <1>5, <1>6, <1>7 DEF NotesInv

(* A write makes every other update of the note stale. *)
LEMMA WriteStep ==
  ASSUME TypeOK, NotesInv, NEW p \in Requests, UpdateWrite(p), Mine(target[p], user[p])
  PROVE  NotesInv'
<1> DEFINE n == target[p]
<1>1. \A q \in Requests \ {p} :
         /\ pc'[q] = pc[q] /\ op'[q] = op[q] /\ target'[q] = target[q]
         /\ form'[q] = form[q] /\ copy'[q] = copy[q]
  BY Others DEF Proceed
<1>2. pc[p] = "write" /\ pc'[p] = "done" /\ n \in stored
  BY DEF UpdateWrite, Mine, Reply, ReplyOrLose, TypeOK, WorkOK
<1>3. /\ UNCHANGED <<stored, deleted, copy, target, form>>
      /\ text' = [text EXCEPT ![n] = copy[p]] /\ writer' = [writer EXCEPT ![n] = p]
      /\ stale' = stale \cup (Updating(n) \ {p})
  BY DEF UpdateWrite, inputs
<1>4. text'[n] = copy[p] /\ writer'[n] = p
      /\ \A m \in Requests \ {n} : text'[m] = text[m] /\ writer'[m] = writer[m]
  BY <1>2, <1>3 DEF TypeOK, TableOK
<1>5. RowsInv'
  BY <1>1, <1>2, <1>3 DEF NotesInv, RowsInv, TypeOK, TableOK
<1>6. CopyInv'
  <2> SUFFICES ASSUME NEW q \in Requests, pc'[q] = "write", q \notin stale'
               PROVE  copy'[q] = ApplyUpdate(text'[target'[q]], form'[q])
    BY DEF CopyInv, ApplyUpdate
  <2>1. q # p /\ pc[q] = "write" /\ q \notin stale /\ target[q] # n
    BY <1>1, <1>2, <1>3 DEF Updating
  <2>2. target[q] \in Requests \ {n}
    BY <2>1 DEF TypeOK, WorkOK
  <2> QED
    BY <1>1, <1>4, <2>1, <2>2 DEF NotesInv, CopyInv, ApplyUpdate
<1>7. \A m \in stored : m # n => writer[m] \in Requests \ {p}
  BY <1>2 DEF NotesInv, WriterInv, TypeOK, TableOK
<1>8. WriterInv'
  BY <1>1, <1>2, <1>3, <1>4, <1>7 DEF NotesInv, WriterInv, TypeOK, TableOK
<1>9. NoResurrection' /\ LastWriteShows'
  BY <1>1, <1>3, <1>4, <1>7 DEF NotesInv, NoResurrection, LastWriteShows, TypeOK, TableOK
<1> QED
  BY <1>5, <1>6, <1>8, <1>9 DEF NotesInv

LEMMA InvStep == TypeOK /\ NotesInv /\ [Next]_vars => NotesInv'
<1> SUFFICES ASSUME TypeOK, NotesInv, [Next]_vars
             PROVE  NotesInv'
  OBVIOUS
<1>1. ASSUME NEW p \in Requests, NEW u \in Users, NEW n \in Requests, GetNote(p, u, n)
      PROVE  NotesInv'
  <2>1. UNCHANGED <<table, stale>> /\ pc[p] = "idle" /\ pc'[p] = "done"
    BY <1>1 DEF GetNote, Call, Reply, TypeOK, WorkOK
  <2> QED
    BY <1>1, <2>1, Others, QuietStep DEF Arrive
<1>2. ASSUME NEW p \in Requests, NEW u \in Users, NEW l \in Limits, NEW o \in Offsets,
             ListCount(p, u, l, o)
      PROVE  NotesInv'
  <2>1. UNCHANGED <<table, stale>> /\ pc[p] = "idle" /\ pc'[p] = "select"
    BY <1>2 DEF ListCount, Call, Goto, TypeOK, WorkOK
  <2>2. op'[p] = "list"
    BY <1>2 DEF ListCount, Call, TypeOK, InputsOK
  <2> QED
    BY <1>2, <2>1, <2>2, Others, QuietStep DEF Arrive
<1>3. ASSUME NEW p \in Requests, NEW u \in Users, NEW n \in Requests, NEW f \in Patches,
             UpdateFind(p, u, n, f)
      PROVE  NotesInv'
  <2>1. UNCHANGED <<table, stale>> /\ pc[p] = "idle"
    BY <1>3 DEF UpdateFind, Call
  <2>2. op'[p] = "update" /\ target'[p] = n /\ form'[p] = f
    BY <1>3 DEF UpdateFind, Call, TypeOK, InputsOK
  <2>3. pc'[p] # "write" \/ (n \in stored /\ copy'[p] = ApplyUpdate(text[n], f))
    BY <1>3 DEF UpdateFind, Mine, Reply, TypeOK, WorkOK
  <2>4. pc'[p] # "select"
    BY <1>3 DEF UpdateFind, Goto, Reply, TypeOK, WorkOK
  <2> QED
    BY <1>3, <2>1, <2>2, <2>3, <2>4, Others, QuietStep DEF Arrive
<1>4. ASSUME NEW p \in Requests, ListSelect(p) \/ Fail(p)
             \/ (UpdateWrite(p) /\ ~Mine(target[p], user[p]))
      PROVE  NotesInv'
  <2>1. UNCHANGED <<table, stale>> /\ pc[p] # "done" /\ pc'[p] = "done"
    BY <1>4 DEF ListSelect, Fail, UpdateWrite, table, Reply, TypeOK, WorkOK
  <2> QED
    BY <1>4, <2>1, Others, QuietStep DEF Proceed
<1>5. CASE UNCHANGED vars
  BY <1>5 DEF vars, NotesInv, RowsInv, CopyInv, ApplyUpdate, WriterInv, NoResurrection,
              LastWriteShows
<1> QED
  BY <1>1, <1>2, <1>3, <1>4, <1>5, CreateStep, DeleteStep, WriteStep
     DEF Next, Proceed, Arrive, Quiescent

(* The rows, the copies in flight and the writers always fit together. *)
THEOREM NotesSound == Spec => []NotesInv
  BY InvInit, InvStep, NotesTypeCorrect, PTL DEF Spec

(* A deleted note is never brought back by an update that had read it. *)
THEOREM DeletedStaysDeleted == Spec => []NoResurrection
<1>1. NotesInv => NoResurrection
  BY DEF NotesInv
<1> QED
  BY <1>1, NotesSound, PTL

(* The row holds what its last writer was answered. *)
THEOREM AcknowledgedIsStored == Spec => []LastWriteShows
<1>1. NotesInv => LastWriteShows
  BY DEF NotesInv
<1> QED
  BY <1>1, NotesSound, PTL

--------------------------------------------------------------------------------
(* Which request a step that ends one belongs to. *)
LEMMA OneActor ==
  ASSUME TypeOK, NEW p \in Requests, Proceed(p) \/ \E u \in Users : Arrive(p, u),
         NEW q \in Requests, pc[q] # "done", pc'[q] = "done"
  PROVE  q = p
  BY Others

(* Notes are changed, deleted and given out for their owner only. *)
THEOREM TenantsAreApart == Spec => OwnersOnly
<1>1. ASSUME TypeOK, NotesInv, NEW p \in Requests, NEW u \in Users, Arrive(p, u)
      PROVE  Apart
  <2>0. \A q \in Requests : pc[q] # "done" /\ pc'[q] = "done" => q = p
    BY <1>1, OneActor
  <2> USE DEF TypeOK, Apart, Kept, GivenToOwner
  <2>1. pc[p] = "idle" /\ user'[p] = u
    BY <1>1 DEF Arrive, CreateNote, GetNote, DeleteNote, UpdateFind, ListCount, Call, InputsOK
  <2>2. ASSUME NEW f \in Notes, CreateNote(p, u, f)
        PROVE  Apart
    <3>1. p \notin stored
      BY <1>1, <2>1 DEF NotesInv, RowsInv
    <3>2. op'[p] = "create"
      BY <1>1, <2>2 DEF CreateNote, Call, InputsOK
    <3>3. \A n \in stored : n \in stored' /\ owner'[n] = owner[n] /\ text'[n] = text[n]
      BY <1>1, <2>2, <3>1 DEF CreateNote, TableOK
    <3> QED
      BY <1>1, <3>2, <3>3, <2>0
  <2>3. ASSUME NEW n \in Requests, GetNote(p, u, n)
        PROVE  Apart
    <3>1. UNCHANGED <<stored, owner, text>> /\ target'[p] = n
      BY <1>1, <2>3 DEF GetNote, Call, table, InputsOK
    <3>2. answer'[p] = "ok" => owner[n] = u
      BY <1>1, <2>3 DEF GetNote, Mine, Reply, WorkOK
    <3> QED
      BY <1>1, <2>1, <3>1, <3>2, <2>0
  <2>4. ASSUME NEW n \in Requests, DeleteNote(p, u, n)
        PROVE  Apart
    <3>1. UNCHANGED <<owner, text>> /\ target'[p] = n /\ pc'[p] = "done"
      BY <1>1, <2>4 DEF DeleteNote, Call, Reply, ReplyOrLose, InputsOK, WorkOK
    <3>2. UNCHANGED stored \/ (stored' = stored \ {n} /\ owner[n] = u)
      BY <1>1, <2>4 DEF DeleteNote, Mine
    <3>3. answer'[p] = "ok" => owner[n] = u
      BY <1>1, <2>4 DEF DeleteNote, Mine, Reply, ReplyOrLose, WorkOK
    <3> QED
      BY <1>1, <2>1, <3>1, <3>2, <3>3, <2>0
  <2>5. ASSUME NEW n \in Requests, NEW f \in Patches, UpdateFind(p, u, n, f)
        PROVE  Apart
    <3>1. UNCHANGED <<stored, owner, text>>
      BY <1>1, <2>5 DEF UpdateFind, table
    <3>2. pc'[p] = "done" => answer'[p] # "ok"
      BY <1>1, <2>5 DEF UpdateFind, Goto, Reply, WorkOK
    <3> QED
      BY <1>1, <3>1, <3>2, <2>0
  <2>6. ASSUME NEW l \in Limits, NEW o \in Offsets, ListCount(p, u, l, o)
        PROVE  Apart
    <3>1. UNCHANGED <<stored, owner, text>> /\ pc'[p] # "done"
      BY <1>1, <2>6 DEF ListCount, table, Goto, WorkOK
    <3> QED
      BY <1>1, <3>1, <2>0
  <2> QED
    BY <1>1, <2>2, <2>3, <2>4, <2>5, <2>6 DEF Arrive
<1>2. ASSUME TypeOK, NotesInv, NEW p \in Requests, Proceed(p)
      PROVE  Apart
  <2>0. \A q \in Requests : pc[q] # "done" /\ pc'[q] = "done" => q = p
    BY <1>2, OneActor
  <2> USE DEF TypeOK, Apart, Kept, GivenToOwner
  <2>1. CASE UpdateWrite(p)
    <3>1. pc[p] = "write" /\ pc'[p] = "done" /\ UNCHANGED <<stored, owner, user, target>>
      BY <1>2, <2>1 DEF UpdateWrite, inputs, Reply, ReplyOrLose, WorkOK
    <3>2. text' # text \/ answer'[p] = "ok" => owner[target[p]] = user[p]
      BY <1>2, <2>1 DEF UpdateWrite, Mine, Reply, WorkOK
    <3>3. \A n \in stored : text'[n] # text[n] => n = target[p]
      BY <1>2, <2>1 DEF UpdateWrite, TableOK
    <3> QED
      BY <1>2, <3>1, <3>2, <3>3, <2>0
  <2>2. CASE ListSelect(p) \/ Fail(p)
    <3>1. UNCHANGED <<stored, owner, text, op>>
      BY <1>2, <2>2 DEF ListSelect, Fail, table, inputs
    <3>2. answer'[p] = "ok" => pc[p] = "select"
      BY <1>2, <2>2 DEF ListSelect, Fail, Reply, WorkOK
    <3>3. pc[p] = "select" => op[p] = "list"
      BY <1>2 DEF NotesInv, RowsInv
    <3> QED
      BY <1>2, <3>1, <3>2, <3>3, <2>0
  <2> QED
    BY <1>2, <2>1, <2>2 DEF Proceed
<1>3. TypeOK /\ NotesInv /\ [Next]_vars => [Apart]_vars
  BY <1>1, <1>2 DEF Next, Quiescent
<1> QED
  BY <1>3, NotesTypeCorrect, NotesSound, PTL DEF Spec, OwnersOnly

(* A field that was not sent is lost to a concurrent write only. *)
THEOREM UpdatesAreLostOnlyToRaces == Spec => OnlyRacesLoseUpdates
<1>1. ASSUME TypeOK, NotesInv, NEW p \in Requests, NEW u \in Users, Arrive(p, u)
      PROVE  OverwritesAreRaced
  <2>1. pc[p] = "idle"
    BY <1>1 DEF Arrive, CreateNote, GetNote, DeleteNote, UpdateFind, ListCount, Call
  <2>2. p \notin stored
    BY <1>1, <2>1 DEF NotesInv, RowsInv
  <2>3. UNCHANGED text \/ \E f \in Notes : text' = [text EXCEPT ![p] = f]
    BY <1>1 DEF Arrive, CreateNote, GetNote, DeleteNote, UpdateFind, ListCount, table
  <2>4. \A n \in stored : text'[n] = text[n]
    BY <1>1, <2>2, <2>3 DEF TypeOK, TableOK
  <2> QED
    BY <2>4 DEF OverwritesAreRaced, Raced
<1>2. ASSUME TypeOK, NotesInv, NEW p \in Requests, Proceed(p)
      PROVE  OverwritesAreRaced
  <2>1. CASE UpdateWrite(p) /\ Mine(target[p], user[p])
    <3>1. pc[p] = "write" /\ pc'[p] = "done"
      BY <1>2, <2>1 DEF UpdateWrite, Reply, ReplyOrLose, TypeOK, WorkOK
    <3>2. text' = [text EXCEPT ![target[p]] = copy[p]] /\ writer' = [writer EXCEPT ![target[p]] = p]
      BY <2>1 DEF UpdateWrite
    <3>3. ASSUME NEW n \in stored, NEW c \in {"title", "content"}, text'[n][c] # text[n][c]
          PROVE  n = target[p] /\ writer'[n] = p /\ text'[n] = copy[p]
      BY <1>2, <3>2, <3>3 DEF TypeOK, TableOK
    <3>4. ASSUME NEW c \in {"title", "content"}, p \notin stale, form[p][c] = None
          PROVE  copy[p][c] = text[target[p]][c]
      BY <1>2, <3>1, <3>4 DEF NotesInv, CopyInv, ApplyUpdate
    <3> QED
      BY <1>2, <2>1, <3>1, <3>3, <3>4 DEF OverwritesAreRaced, Raced, UpdateWrite
  <2>2. CASE ~(UpdateWrite(p) /\ Mine(target[p], user[p]))
    <3>1. UNCHANGED text
      BY <1>2, <2>2 DEF Proceed, UpdateWrite, ListSelect, Fail, table
    <3> QED
      BY <3>1 DEF OverwritesAreRaced, Raced
  <2> QED
    BY <2>1, <2>2
<1>3. TypeOK /\ NotesInv /\ [Next]_vars => [OverwritesAreRaced]_vars
  BY <1>1, <1>2 DEF Next, Quiescent
<1> QED
  BY <1>3, NotesTypeCorrect, NotesSound, PTL DEF Spec, OnlyRacesLoseUpdates

--------------------------------------------------------------------------------
(* Whatever the client asks for, limit and offset are brought into range. *)
LEMMA RangeOfLists ==
  /\ \A l \in Limits \cup {0} : ListLimit(l) \in Nat /\ ListLimit(l) = Expected(l)
  /\ \A o \in Offsets \cup {0} : ListOffset(o) \in Nat /\ ListOffset(o) = Skipped(o)
<1>1. ASSUME NEW l \in Int
      PROVE  ListLimit(l) \in Nat /\ ListLimit(l) = Expected(l)
  BY DEF ListLimit, Expected
<1>2. ASSUME NEW o \in Int
      PROVE  ListOffset(o) \in Nat /\ ListOffset(o) = Skipped(o)
  BY DEF ListOffset, Skipped
<1>3. Limits \cup {0} \subseteq Int /\ Offsets \cup {0} \subseteq Int
  OBVIOUS
<1> QED
  BY <1>1, <1>2, <1>3

(* The database accepts what is in range, and its page fits what it counts. *)
LEMMA PageFits ==
  ASSUME NEW n \in Nat, NEW limit \in Nat, NEW offset \in Nat
  PROVE  LET c == PageSize(n, limit, offset) IN
         /\ SelectAnswer(limit, offset) = "ok"
         /\ c \in Nat /\ c <= limit
         /\ c = 0 \/ offset + c <= n
         /\ c = limit \/ n <= offset + c
<1>1. SelectAnswer(limit, offset) = "ok"
  BY DEF SelectAnswer
<1>2. CASE n <= offset
  BY <1>1, <1>2 DEF PageSize
<1>3. CASE n > offset /\ n - offset < limit
  BY <1>1, <1>3 DEF PageSize
<1>4. CASE n > offset /\ limit <= n - offset
  BY <1>1, <1>4 DEF PageSize
<1> QED
  BY <1>2, <1>3, <1>4

(* What a step leaves to the listings of other requests. *)
LEMMA OtherLists ==
  ASSUME TypeOK, NEW p \in Requests,
         (\E u \in Users : Arrive(p, u)) \/ Proceed(p)
  PROVE  /\ stale \subseteq stale'
         /\ \A q \in Requests \ {p} :
               /\ user'[q] = user[q] /\ asked'[q] = asked[q]
               /\ total'[q] = total[q] /\ page'[q] = page[q] /\ answer'[q] = answer[q]
<1> USE DEF TypeOK, WorkOK, InputsOK, Reply, ReplyOrLose, Goto, lists
<1>1. ASSUME NEW u \in Users, Arrive(p, u)
      PROVE  stale \subseteq stale' /\ \A q \in Requests \ {p} : answer'[q] = answer[q]
  BY <1>1 DEF Arrive, CreateNote, GetNote, DeleteNote, UpdateFind, ListCount
<1>2. ASSUME NEW u \in Users, Arrive(p, u)
      PROVE  \A q \in Requests \ {p} :
                /\ user'[q] = user[q] /\ asked'[q] = asked[q]
                /\ total'[q] = total[q] /\ page'[q] = page[q]
  BY <1>2 DEF Arrive, CreateNote, GetNote, DeleteNote, UpdateFind, ListCount, Call
<1>3. CASE Proceed(p)
  BY <1>3 DEF Proceed, UpdateWrite, ListSelect, Fail, inputs
<1> QED
  BY <1>1, <1>2, <1>3

(* The owner of a note is written once, by the create that makes it. *)
LEMMA OwnersStay ==
  ASSUME TypeOK, NEW p \in Requests,
         (\E u \in Users : Arrive(p, u)) \/ Proceed(p),
         NEW n \in Requests, pc[n] = "done"
  PROVE  owner'[n] = owner[n] /\ pc'[n] = "done"
<1>1. pc[p] # "done"
  BY DEF Arrive, CreateNote, GetNote, DeleteNote, UpdateFind, ListCount, Call,
         Proceed, UpdateWrite, ListSelect, Fail
<1>2. UNCHANGED owner \/ \E u \in Users : owner' = [owner EXCEPT ![p] = u]
  BY DEF Arrive, CreateNote, GetNote, DeleteNote, UpdateFind, ListCount, table,
         Proceed, UpdateWrite, ListSelect, Fail
<1> QED
  BY <1>1, <1>2, Others DEF TypeOK, TableOK

(* A create or a delete makes the listings of its user stale; the notes of
   everybody else are the same before and after. *)
LEMMA CountsStay ==
  ASSUME TypeOK, NotesInv, NEW p \in Requests,
         (\E u \in Users : Arrive(p, u)) \/ Proceed(p),
         NEW q \in Requests \ {p}, pc[q] = "select", q \notin stale'
  PROVE  Owned(user[q])' = Owned(user[q])
<1>1. user'[q] = user[q]
  BY OtherLists
<1>2. UNCHANGED <<stored, owner>> => Owned(user[q])' = Owned(user[q])
  BY <1>1 DEF Owned
<1>3. ASSUME NEW u \in Users, NEW f \in Notes, CreateNote(p, u, f), Fits(f)
      PROVE  Owned(user[q])' = Owned(user[q])
  <2>1. p \notin stored
    BY <1>3 DEF CreateNote, Call, NotesInv, RowsInv
  <2>2. stored' = stored \cup {p} /\ owner' = [owner EXCEPT ![p] = u] /\ user[q] # u
    BY <1>3 DEF CreateNote, Listing
  <2>3. owner'[p] = u /\ \A n \in stored : owner'[n] = owner[n]
    BY <2>1, <2>2 DEF TypeOK, TableOK
  <2> QED
    BY <1>1, <2>1, <2>2, <2>3 DEF Owned
<1>4. ASSUME NEW u \in Users, NEW n \in Requests, DeleteNote(p, u, n), Mine(n, u)
      PROVE  Owned(user[q])' = Owned(user[q])
  <2>1. stored' = stored \ {n} /\ UNCHANGED owner /\ owner[n] = u /\ user[q] # u
    BY <1>4 DEF DeleteNote, Mine, Listing
  <2> QED
    BY <1>1, <2>1 DEF Owned
<1> QED
  BY <1>2, <1>3, <1>4
     DEF Arrive, CreateNote, GetNote, DeleteNote, UpdateFind, ListCount, table,
         Proceed, UpdateWrite, ListSelect, Fail

(* The page that a listing selects is what PagesAgree says of it. *)
LEMMA SelectStep ==
  ASSUME TypeOK, NotesInv, ListsInv, NEW p \in Requests, ListSelect(p)
  PROVE  /\ answer'[p] = "ok"
         /\ \A n \in page'[p] : owner[n] = user[p] /\ pc[n] = "done" /\ n # p
         /\ Cardinality(page'[p]) <= Expected(asked[p].limit)
         /\ \/ p \in stale
            \/ PageOfTotal(Cardinality(page'[p]), total[p], asked[p].limit, asked[p].offset)
<1> DEFINE limit == ListLimit(asked[p].limit)
           offset == ListOffset(asked[p].offset)
           count == Cardinality(Owned(user[p]))
<1>1. PICK S \in SUBSET Owned(user[p]) :
         /\ Cardinality(S) = PageSize(count, limit, offset)
         /\ page' = [page EXCEPT ![p] = S]
  BY DEF ListSelect
<1>2. pc[p] = "select" /\ page'[p] = S /\ answer'[p] = SelectAnswer(limit, offset)
  BY <1>1 DEF ListSelect, Reply, TypeOK, WorkOK
<1>3. \A n \in S : owner[n] = user[p] /\ pc[n] = "done" /\ n # p
  BY <1>2 DEF Owned, NotesInv, RowsInv
<1>4. asked[p].limit \in Limits \cup {0} /\ asked[p].offset \in Offsets \cup {0}
  BY DEF TypeOK, InputsOK
<1>5. limit \in Nat /\ limit = Expected(asked[p].limit)
  BY <1>4, RangeOfLists
<1>6. offset \in Nat /\ offset = Skipped(asked[p].offset)
  BY <1>4, RangeOfLists
<1>7. count \in Nat
  BY CountIsNat
<1> HIDE DEF limit, offset, count
<1>8. /\ SelectAnswer(limit, offset) = "ok"
      /\ Cardinality(S) <= limit
      /\ Cardinality(S) = 0 \/ offset + Cardinality(S) <= count
      /\ Cardinality(S) = limit \/ count <= offset + Cardinality(S)
  BY <1>1, <1>5, <1>6, <1>7, PageFits
<1>9. p \in stale \/ total[p] = count
  BY <1>2 DEF ListsInv, count
<1>10. \/ p \in stale
       \/ PageOfTotal(Cardinality(page'[p]), total[p], asked[p].limit, asked[p].offset)
  BY <1>2, <1>5, <1>6, <1>8, <1>9 DEF PageOfTotal
<1> QED
  BY <1>2, <1>3, <1>5, <1>8, <1>10

(* Every listing: the ones in progress and the ones that were answered. *)
LEMMA ListsStep ==
  ASSUME TypeOK, NotesInv, ListsInv, PagesAgree, NEW p \in Requests,
         (\E u \in Users : Arrive(p, u)) \/ Proceed(p)
  PROVE  ListsInv' /\ PagesAgree'
<1> DEFINE Agrees(q) ==
             /\ \A n \in page[q] : owner[n] = user[q] /\ pc[n] = "done"
             /\ Cardinality(page[q]) <= Expected(asked[q].limit)
             /\ \/ q \in stale
                \/ PageOfTotal(Cardinality(page[q]), total[q], asked[q].limit, asked[q].offset)
           Counts(q) ==
             /\ pc[q] = "select" /\ q \notin stale => total[q] = Cardinality(Owned(user[q]))
             /\ answer[q] = "ok" => pc[q] = "done"
             /\ answer[q] # "rejected"
<1>1. \A q \in Requests : page[q] \subseteq Requests
  BY DEF TypeOK, WorkOK
<1>2. ASSUME NEW q \in Requests \ {p}
      PROVE  Counts(q)'
  <2>1. stale \subseteq stale' /\ pc'[q] = pc[q]
        /\ total'[q] = total[q] /\ answer'[q] = answer[q]
    BY Others, OtherLists
  <2>2. pc[q] = "select" /\ q \notin stale' => Cardinality(Owned(user[q]))' = Cardinality(Owned(user[q]))
    BY CountsStay
  <2> QED
    BY <2>1, <2>2 DEF ListsInv
<1>3. ASSUME NEW q \in Requests \ {p}, op'[q] = "list", answer'[q] = "ok"
      PROVE  Agrees(q)'
  <2>1. /\ op[q] = "list" /\ answer[q] = "ok" /\ stale \subseteq stale'
        /\ user'[q] = user[q] /\ asked'[q] = asked[q]
        /\ total'[q] = total[q] /\ page'[q] = page[q]
    BY <1>3, Others, OtherLists
  <2>2. \A n \in page[q] : owner[n] = user[q] /\ pc[n] = "done"
    BY <2>1 DEF ListsInv, PagesAgree
  <2>3. \A n \in page[q] : owner'[n] = owner[n] /\ pc'[n] = "done"
    BY <1>1, <2>2, OwnersStay
  <2> QED
    BY <2>1, <2>2, <2>3 DEF PagesAgree
<1>4. CASE ListSelect(p)
  <2>1. pc'[p] = "done" /\ UNCHANGED <<owner, user, asked, total, stale>>
    BY <1>4 DEF ListSelect, Reply, table, inputs, TypeOK, WorkOK
  <2>2. page'[p] \subseteq Requests
    BY <1>4, TypeStep DEF Next, Proceed, TypeOK, WorkOK
  <2>3. \A n \in page'[p] : owner'[n] = user'[p] /\ pc'[n] = "done"
    BY <1>4, <2>1, <2>2, SelectStep, OwnersStay
  <2>4. Agrees(p)' /\ answer'[p] = "ok"
    BY <1>4, <2>1, <2>3, SelectStep
  <2> QED
    BY <1>2, <1>3, <2>1, <2>4 DEF ListsInv, PagesAgree
<1>5. CASE ~ListSelect(p)
  <2> USE DEF TypeOK, WorkOK, InputsOK, Reply, ReplyOrLose, Goto
  <2>1. ASSUME NEW u \in Users, NEW l \in Limits, NEW o \in Offsets, ListCount(p, u, l, o)
        PROVE  /\ answer'[p] \notin {"ok", "rejected"}
               /\ total'[p] = Cardinality(Owned(user'[p])) /\ UNCHANGED table
    BY <2>1 DEF ListCount, Call, ListsInv
  <2>2. ASSUME NEW u \in Users, ~\E l \in Limits, o \in Offsets : ListCount(p, u, l, o),
               Arrive(p, u)
        PROVE  /\ op'[p] # "list" /\ pc'[p] # "select" /\ answer'[p] # "rejected"
               /\ answer'[p] = "ok" => pc'[p] = "done"
    BY <2>2 DEF Arrive, CreateNote, GetNote, DeleteNote, UpdateFind, Call, ListsInv
  <2>3. ASSUME UpdateWrite(p) \/ Fail(p)
        PROVE  ~(op'[p] = "list" /\ answer'[p] = "ok") /\ pc'[p] = "done" /\ answer'[p] # "rejected"
    BY <2>3 DEF UpdateWrite, Fail, inputs, NotesInv, RowsInv
  <2>4. ~(op'[p] = "list" /\ answer'[p] = "ok")
    BY <1>5, <2>1, <2>2, <2>3 DEF Proceed
  <2>5. Counts(p)'
    BY <1>5, <2>1, <2>2, <2>3 DEF Proceed, table, Owned
  <2> QED
    BY <1>2, <1>3, <2>4, <2>5 DEF ListsInv, PagesAgree
<1> QED
  BY <1>4, <1>5

(* Every listing is accepted by the database, answers with its caller's notes,
   no more than she may expect, and agrees with the total unless a note came
   or went meanwhile. *)
THEOREM ListingsAgree == Spec => []PagesAgree
<1>1. Init => ListsInv /\ PagesAgree
  BY DEF Init, ListsInv, PagesAgree
<1>2. TypeOK /\ NotesInv /\ ListsInv /\ PagesAgree /\ [Next]_vars => ListsInv' /\ PagesAgree'
  <2>1. TypeOK /\ ListsInv /\ PagesAgree /\ UNCHANGED vars => ListsInv' /\ PagesAgree'
    BY DEF vars, ListsInv, PagesAgree, Owned
  <2> QED
    BY <2>1, ListsStep DEF Next, Quiescent
<1> QED
  BY <1>1, <1>2, NotesTypeCorrect, NotesSound, PTL DEF Spec
--------------------------------------------------------------------------------
(* Each user has a service to herself. *)

LEMMA TenantStart == Init => TenantInv
  BY DEF Init, TenantInv, OwnersInv, Untouched

LEMMA TenantStep == TypeOK /\ TenantInv /\ [Next]_vars => TenantInv'
<1> SUFFICES ASSUME TypeOK, TenantInv, [Next]_vars
             PROVE  TenantInv'
  OBVIOUS
<1> USE DEF TypeOK, TableOK, InputsOK, WorkOK, TenantInv, OwnersInv, Untouched, table, inputs,
            lists, Call, Goto, Reply, ReplyOrLose, Mine, Listing, Updating
<1>1. ASSUME NEW p \in Requests, NEW u \in Users, NEW f \in Notes, CreateNote(p, u, f)
      PROVE  TenantInv'
  BY <1>1 DEF CreateNote
<1>2. ASSUME NEW p \in Requests, NEW u \in Users, NEW n \in Requests, GetNote(p, u, n)
      PROVE  TenantInv'
  BY <1>2 DEF GetNote
<1>3. ASSUME NEW p \in Requests, NEW u \in Users, NEW n \in Requests, DeleteNote(p, u, n)
      PROVE  TenantInv'
  BY <1>3 DEF DeleteNote
<1>4. ASSUME NEW p \in Requests, NEW u \in Users, NEW n \in Requests, NEW f \in Patches,
             UpdateFind(p, u, n, f)
      PROVE  TenantInv'
  BY <1>4 DEF UpdateFind
<1>5. ASSUME NEW p \in Requests, NEW u \in Users, NEW l \in Limits, NEW o \in Offsets,
             ListCount(p, u, l, o)
      PROVE  TenantInv'
  BY <1>5 DEF ListCount
<1>6. ASSUME NEW p \in Requests, UpdateWrite(p)
      PROVE  TenantInv'
  BY <1>6 DEF UpdateWrite
<1>7. ASSUME NEW p \in Requests, ListSelect(p)
      PROVE  TenantInv'
  BY <1>7 DEF ListSelect
<1>8. ASSUME NEW p \in Requests, Fail(p)
      PROVE  TenantInv'
  BY <1>8 DEF Fail
<1>9. CASE UNCHANGED vars
  BY <1>9 DEF vars
<1> QED
  BY <1>1, <1>2, <1>3, <1>4, <1>5, <1>6, <1>7, <1>8, <1>9 DEF Next, Arrive, Proceed, Quiescent

(* The tenant finds in her own table what the queries find for her. *)
LEMMA SameRows ==
  ASSUME TypeOK, TenantInv
  PROVE  /\ Alone!Owned(Tenant) = Owned(Tenant)
         /\ \A n \in Requests : Alone!Mine(n, Tenant) <=> Mine(n, Tenant)
         /\ \A n \in Owned(Tenant) : n \in Ours /\ View(text, Blank)[n] = text[n]
  BY DEF TypeOK, TableOK, TenantInv, OwnersInv, Alone!Owned, Owned, Alone!Mine, Mine, View, Ours

(* Her service counts as this one does. *)
LEMMA SameCount == \A S : Alone!Cardinality(S) = Cardinality(S)
  BY DEF Alone!Cardinality, Cardinality

(* A request of somebody else does not touch what the tenant sees. *)
LEMMA TheirsAreUnseen ==
  ASSUME TypeOK, TenantInv, NEW p \in Requests, user'[p] # Tenant,
         IF pc[p] = "idle" THEN user[p] = None ELSE user[p] # Tenant,
         (\E u \in Users : Arrive(p, u)) \/ Proceed(p)
  PROVE  UNCHANGED Alone!vars
<1>1. Ours' = Ours /\ p \notin Ours
  BY OtherLists DEF Ours
<1>2. \A q \in Ours :
        /\ pc'[q] = pc[q] /\ op'[q] = op[q] /\ user'[q] = user[q] /\ target'[q] = target[q]
        /\ form'[q] = form[q] /\ copy'[q] = copy[q] /\ asked'[q] = asked[q]
        /\ total'[q] = total[q] /\ page'[q] = page[q] /\ answer'[q] = answer[q]
  BY <1>1, Others, OtherLists DEF Ours
<1>3. /\ \A q \in Ours : owner'[q] = owner[q] /\ text'[q] = text[q] /\ writer'[q] = writer[q]
      /\ stored' \cap Ours = stored \cap Ours /\ deleted' \cap Ours = deleted \cap Ours
      /\ stale' \cap Ours = stale \cap Ours
  <2> USE DEF TypeOK, TableOK, InputsOK, WorkOK, Ours, Mine, TenantInv, OwnersInv
  <2>1. ASSUME NEW u \in Users, NEW f \in Notes, CreateNote(p, u, f)
        PROVE  <1>3!:
    BY <1>1, <2>1 DEF CreateNote, Call, Listing
  <2>2. ASSUME NEW u \in Users, NEW n \in Requests, DeleteNote(p, u, n)
        PROVE  <1>3!:
    BY <1>1, <2>2 DEF DeleteNote, Call, Listing
  <2>3. CASE UpdateWrite(p)
    BY <1>1, <2>3 DEF UpdateWrite, Updating
  <2>4. CASE UNCHANGED <<table, stale>>
    BY <2>4 DEF table
  <2> QED
    BY <2>1, <2>2, <2>3, <2>4
    DEF Arrive, Proceed, GetNote, UpdateFind, ListCount, ListSelect, Fail
<1> QED
  BY <1>1, <1>2, <1>3 DEF Alone!vars, View

(* What the tenant sees of her own requests.  A request that arrives joins her
   view with what it had before, which is nothing. *)
Joins(p) ==
  /\ Ours' = Ours \cup {p}
  /\ IF pc[p] = "idle" THEN Untouched(p) /\ p \notin Ours ELSE p \in Ours

LEMMA ViewOfNothingNew ==
  ASSUME NEW p \in Requests, Joins(p)
  PROVE  /\ UNCHANGED owner => UNCHANGED View(owner, None)
         /\ UNCHANGED text => UNCHANGED View(text, Blank)
         /\ UNCHANGED writer => UNCHANGED View(writer, None)
         /\ UNCHANGED op => UNCHANGED View(op, "none")
         /\ UNCHANGED user => UNCHANGED View(user, None)
         /\ UNCHANGED target => UNCHANGED View(target, None)
         /\ UNCHANGED form => UNCHANGED View(form, Blank)
         /\ UNCHANGED copy => UNCHANGED View(copy, Blank)
         /\ UNCHANGED asked => UNCHANGED View(asked, [limit |-> 0, offset |-> 0])
         /\ UNCHANGED total => UNCHANGED View(total, 0)
         /\ UNCHANGED page => UNCHANGED View(page, {})
         /\ UNCHANGED answer => UNCHANGED View(answer, "none")
         /\ UNCHANGED stored => UNCHANGED (stored \cap Ours)
         /\ UNCHANGED deleted => UNCHANGED (deleted \cap Ours)
         /\ UNCHANGED stale => UNCHANGED (stale \cap Ours)
  BY DEF Joins, Untouched, View

LEMMA ViewOfOurs ==
  ASSUME TypeOK, NEW p \in Requests, Joins(p), NEW v
  PROVE  /\ pc' = [pc EXCEPT ![p] = v] =>
              View(pc, "idle")' = [View(pc, "idle") EXCEPT ![p] = v]
         /\ op' = [op EXCEPT ![p] = v] =>
              View(op, "none")' = [View(op, "none") EXCEPT ![p] = v]
         /\ user' = [user EXCEPT ![p] = v] =>
              View(user, None)' = [View(user, None) EXCEPT ![p] = v]
         /\ target' = [target EXCEPT ![p] = v] =>
              View(target, None)' = [View(target, None) EXCEPT ![p] = v]
         /\ form' = [form EXCEPT ![p] = v] =>
              View(form, Blank)' = [View(form, Blank) EXCEPT ![p] = v]
         /\ copy' = [copy EXCEPT ![p] = v] =>
              View(copy, Blank)' = [View(copy, Blank) EXCEPT ![p] = v]
         /\ asked' = [asked EXCEPT ![p] = v] =>
              View(asked, [limit |-> 0, offset |-> 0])' =
                [View(asked, [limit |-> 0, offset |-> 0]) EXCEPT ![p] = v]
         /\ total' = [total EXCEPT ![p] = v] =>
              View(total, 0)' = [View(total, 0) EXCEPT ![p] = v]
         /\ page' = [page EXCEPT ![p] = v] =>
              View(page, {})' = [View(page, {}) EXCEPT ![p] = v]
         /\ answer' = [answer EXCEPT ![p] = v] =>
              View(answer, "none")' = [View(answer, "none") EXCEPT ![p] = v]
<1> USE DEF View
<1>1. Ours' = Ours \cup {p} /\ Ours \subseteq Requests /\ (p \in Ours \/ Untouched(p))
  BY DEF Joins, Ours
<1>2. /\ DOMAIN pc = Requests /\ DOMAIN op = Requests /\ DOMAIN user = Requests
      /\ DOMAIN target = Requests /\ DOMAIN form = Requests /\ DOMAIN copy = Requests
      /\ DOMAIN asked = Requests /\ DOMAIN total = Requests /\ DOMAIN page = Requests
      /\ DOMAIN answer = Requests
  BY DEF TypeOK, InputsOK, WorkOK
<1>3. ASSUME pc' = [pc EXCEPT ![p] = v]
      PROVE  View(pc, "idle")' = [View(pc, "idle") EXCEPT ![p] = v]
  BY <1>1, <1>2, <1>3
<1>4. ASSUME op' = [op EXCEPT ![p] = v]
      PROVE  View(op, "none")' = [View(op, "none") EXCEPT ![p] = v]
  BY <1>1, <1>2, <1>4
<1>5. ASSUME user' = [user EXCEPT ![p] = v]
      PROVE  View(user, None)' = [View(user, None) EXCEPT ![p] = v]
  BY <1>1, <1>2, <1>5
<1>6. ASSUME target' = [target EXCEPT ![p] = v]
      PROVE  View(target, None)' = [View(target, None) EXCEPT ![p] = v]
  BY <1>1, <1>2, <1>6
<1>7. ASSUME form' = [form EXCEPT ![p] = v]
      PROVE  View(form, Blank)' = [View(form, Blank) EXCEPT ![p] = v]
  BY <1>1, <1>2, <1>7
<1>8. ASSUME copy' = [copy EXCEPT ![p] = v]
      PROVE  View(copy, Blank)' = [View(copy, Blank) EXCEPT ![p] = v]
  BY <1>1, <1>2, <1>8
<1>9. ASSUME asked' = [asked EXCEPT ![p] = v]
      PROVE  View(asked, [limit |-> 0, offset |-> 0])' = [View(asked, [limit |-> 0, offset |-> 0]) EXCEPT ![p] = v]
  BY <1>1, <1>2, <1>9
<1>10. ASSUME total' = [total EXCEPT ![p] = v]
      PROVE  View(total, 0)' = [View(total, 0) EXCEPT ![p] = v]
  BY <1>1, <1>2, <1>10
<1>11. ASSUME page' = [page EXCEPT ![p] = v]
      PROVE  View(page, {})' = [View(page, {}) EXCEPT ![p] = v]
  BY <1>1, <1>2, <1>11
<1>12. ASSUME answer' = [answer EXCEPT ![p] = v]
      PROVE  View(answer, "none")' = [View(answer, "none") EXCEPT ![p] = v]
  BY <1>1, <1>2, <1>12
<1> QED
  BY <1>3, <1>4, <1>5, <1>6, <1>7, <1>8, <1>9, <1>10, <1>11, <1>12

LEMMA ViewOfOurRows ==
  ASSUME TypeOK, NEW p \in Requests, Joins(p), NEW n \in Ours \cup {p}, NEW v
  PROVE  /\ owner' = [owner EXCEPT ![n] = v] =>
              View(owner, None)' = [View(owner, None) EXCEPT ![n] = v]
         /\ text' = [text EXCEPT ![n] = v] =>
              View(text, Blank)' = [View(text, Blank) EXCEPT ![n] = v]
         /\ writer' = [writer EXCEPT ![n] = v] =>
              View(writer, None)' = [View(writer, None) EXCEPT ![n] = v]
<1> USE DEF View
<1>1. Ours' = Ours \cup {p} /\ Ours \subseteq Requests /\ (p \in Ours \/ Untouched(p))
  BY DEF Joins, Ours
<1>2. /\ DOMAIN owner = Requests /\ DOMAIN text = Requests /\ DOMAIN writer = Requests
  BY DEF TypeOK, TableOK
<1>3. ASSUME owner' = [owner EXCEPT ![n] = v]
      PROVE  View(owner, None)' = [View(owner, None) EXCEPT ![n] = v]
  BY <1>1, <1>2, <1>3 DEF Untouched
<1>4. ASSUME text' = [text EXCEPT ![n] = v]
      PROVE  View(text, Blank)' = [View(text, Blank) EXCEPT ![n] = v]
  BY <1>1, <1>2, <1>4 DEF Untouched
<1>5. ASSUME writer' = [writer EXCEPT ![n] = v]
      PROVE  View(writer, None)' = [View(writer, None) EXCEPT ![n] = v]
  BY <1>1, <1>2, <1>5 DEF Untouched
<1> QED
  BY <1>3, <1>4, <1>5

(* A call of the tenant's. *)
LEMMA OurCall ==
  ASSUME TypeOK, TenantInv, NEW p \in Requests, NEW name, NEW n, NEW f,
         Call(p, name, Tenant, n, f)
  PROVE  Joins(p) /\ Alone!Call(p, name, Tenant, n, f)
<1>1. Joins(p)
  BY DEF Joins, Call, Ours, TenantInv, Untouched, TypeOK, InputsOK
<1>2. View(pc, "idle")[p] = "idle"
  BY DEF View, Call
<1> QED
  BY <1>1, <1>2, ViewOfOurs DEF Call, Alone!Call

(* The answer to the tenant. *)
LEMMA OurReply ==
  ASSUME TypeOK, NEW p \in Requests, Joins(p), NEW a
  PROVE  /\ Reply(p, a) => Alone!Reply(p, a)
         /\ ReplyOrLose(p, a) => Alone!ReplyOrLose(p, a)
         /\ Goto(p, a) => Alone!Goto(p, a)
<1>1. ASSUME NEW r, Reply(p, r)
      PROVE  Alone!Reply(p, r)
  BY <1>1, ViewOfOurs DEF Reply, Alone!Reply
<1>2. ASSUME Goto(p, a)
      PROVE  Alone!Goto(p, a)
  BY <1>2, ViewOfOurs, ViewOfNothingNew DEF Goto, Alone!Goto
<1> QED
  BY <1>1, <1>2 DEF ReplyOrLose, Alone!ReplyOrLose

(* Every request of the tenant's is, in her view, one of a service of her own. *)
LEMMA OurArrival ==
  ASSUME TypeOK, TenantInv, TenantInv', NEW p \in Requests, Arrive(p, Tenant)
  PROVE  Alone!Arrive(p, Tenant)
<1>1. ASSUME NEW f \in Notes, CreateNote(p, Tenant, f)
      PROVE  Alone!CreateNote(p, Tenant, f)
  <2>1. Joins(p) /\ Alone!Call(p, "create", Tenant, p, f)
    BY <1>1, OurCall DEF CreateNote
  <2>2. UNCHANGED <<deleted \cap Ours, View(asked, [limit |-> 0, offset |-> 0]), Alone!lists>>
    BY <1>1, <2>1, ViewOfNothingNew DEF CreateNote, lists, Alone!lists
  <2>3. CASE Fits(f)
    <3>1. stored' \cap Ours' = (stored \cap Ours) \cup {p}
      BY <1>1, <2>1, <2>3 DEF CreateNote, Joins, Untouched
    <3>2. stale' \cap Ours' = (stale \cap Ours) \cup Alone!Listing(Tenant)
      BY <1>1, <2>1, <2>3 DEF CreateNote, Joins, Untouched, Listing, Alone!Listing, View, Ours,
         Call, TypeOK, InputsOK
    <3>3. /\ owner' = [owner EXCEPT ![p] = Tenant] /\ text' = [text EXCEPT ![p] = f]
          /\ writer' = [writer EXCEPT ![p] = p] /\ copy' = [copy EXCEPT ![p] = f]
      BY <1>1, <2>3 DEF CreateNote
    <3>o. View(owner, None)' = [View(owner, None) EXCEPT ![p] = Tenant]
      BY <2>1, <3>3, ViewOfOurRows
    <3>t. View(text, Blank)' = [View(text, Blank) EXCEPT ![p] = f]
      BY <2>1, <3>3, ViewOfOurRows
    <3>w. View(writer, None)' = [View(writer, None) EXCEPT ![p] = p]
      BY <2>1, <3>3, ViewOfOurRows
    <3>c. View(copy, Blank)' = [View(copy, Blank) EXCEPT ![p] = f]
      BY <2>1, <3>3, ViewOfOurs
    <3>4. Alone!ReplyOrLose(p, "ok")
      BY <1>1, <2>1, <2>3, OurReply DEF CreateNote
    <3> QED
      BY <2>1, <2>2, <2>3, <3>1, <3>2, <3>o, <3>t, <3>w, <3>c, <3>4 DEF Fits, Alone!CreateNote, Alone!Fits
  <2>4. CASE ~Fits(f)
    BY <1>1, <2>1, <2>2, <2>4, ViewOfNothingNew, OurReply DEF CreateNote, Fits,
       Alone!CreateNote, Alone!Fits
  <2> QED
    BY <2>3, <2>4
<1>2. ASSUME NEW n \in Requests, GetNote(p, Tenant, n)
      PROVE  Alone!GetNote(p, Tenant, n)
  <2>1. Joins(p) /\ Alone!Call(p, "get", Tenant, n, Blank)
    BY <1>2, OurCall DEF GetNote, Alone!Blank, Blank
  <2>2. UNCHANGED <<Alone!table, View(asked, [limit |-> 0, offset |-> 0]), Alone!lists,
                    stale \cap Ours>>
    BY <1>2, <2>1, ViewOfNothingNew DEF GetNote, table, Alone!table, lists, Alone!lists
  <2>3. CASE Mine(n, Tenant)
    <3>1. View(text, Blank)[n] = text[n]
      BY <2>3, SameRows DEF Mine, Owned, TypeOK, TableOK
    <3>2. View(copy, Blank)' = [View(copy, Blank) EXCEPT ![p] = text[n]]
      BY <1>2, <2>1, <2>3, ViewOfOurs DEF GetNote
    <3>3. Alone!Reply(p, "ok") /\ Alone!Mine(n, Tenant)
      BY <1>2, <2>1, <2>3, SameRows, OurReply DEF GetNote
    <3> QED
      BY <2>1, <2>2, <3>1, <3>2, <3>3 DEF Alone!GetNote, Alone!Blank, Blank
  <2>4. CASE ~Mine(n, Tenant)
    <3>1. Alone!Reply(p, "notFound") /\ ~Alone!Mine(n, Tenant) /\ UNCHANGED View(copy, Blank)
      BY <1>2, <2>1, <2>4, SameRows, ViewOfNothingNew, OurReply DEF GetNote
    <3> QED
      BY <2>1, <2>2, <3>1 DEF Alone!GetNote, Alone!Blank, Blank
  <2> QED
    BY <2>3, <2>4
<1>3. ASSUME NEW n \in Requests, DeleteNote(p, Tenant, n)
      PROVE  Alone!DeleteNote(p, Tenant, n)
  <2>1. Joins(p) /\ Alone!Call(p, "delete", Tenant, n, Blank)
    BY <1>3, OurCall DEF DeleteNote
  <2>2. UNCHANGED <<View(owner, None), View(text, Blank), View(writer, None), View(copy, Blank),
                    View(asked, [limit |-> 0, offset |-> 0]), Alone!lists>>
    BY <1>3, <2>1, ViewOfNothingNew DEF DeleteNote, lists, Alone!lists
  <2>3. CASE Mine(n, Tenant)
    <3>1. n \in Ours /\ p \notin Ours /\ p \notin stored \cup deleted \cup stale
      BY <1>3, <2>1, <2>3, SameRows DEF Mine, Owned, TypeOK, TableOK, Joins, DeleteNote, Call,
         Untouched
    <3>2. /\ stored' \cap Ours' = (stored \cap Ours) \ {n}
          /\ deleted' \cap Ours' = (deleted \cap Ours) \cup {n}
      BY <1>3, <2>1, <2>3, <3>1 DEF DeleteNote, Joins
    <3>3. stale' \cap Ours' = (stale \cap Ours) \cup Alone!Listing(Tenant)
      BY <1>3, <2>1, <2>3, <3>1 DEF DeleteNote, Joins, Listing, Alone!Listing, View, Ours,
         Call, TypeOK, InputsOK
    <3>4. Alone!ReplyOrLose(p, "ok") /\ Alone!Mine(n, Tenant)
      BY <1>3, <2>1, <2>3, SameRows, OurReply DEF DeleteNote
    <3> QED
      BY <2>1, <2>2, <3>2, <3>3, <3>4 DEF Alone!DeleteNote, Alone!Blank, Blank
  <2>4. CASE ~Mine(n, Tenant)
    <3>1. /\ Alone!Reply(p, "notFound") /\ ~Alone!Mine(n, Tenant)
          /\ UNCHANGED <<stored \cap Ours, deleted \cap Ours, stale \cap Ours>>
      BY <1>3, <2>1, <2>4, SameRows, ViewOfNothingNew, OurReply DEF DeleteNote
    <3> QED
      BY <2>1, <2>2, <3>1 DEF Alone!DeleteNote, Alone!Blank, Blank
  <2> QED
    BY <2>3, <2>4
<1>4. ASSUME NEW n \in Requests, NEW f \in Patches, UpdateFind(p, Tenant, n, f)
      PROVE  Alone!UpdateFind(p, Tenant, n, f)
  <2>1. Joins(p) /\ Alone!Call(p, "update", Tenant, n, f)
    BY <1>4, OurCall DEF UpdateFind
  <2>2. UNCHANGED <<Alone!table, View(asked, [limit |-> 0, offset |-> 0]), Alone!lists,
                    stale \cap Ours>>
    BY <1>4, <2>1, ViewOfNothingNew DEF UpdateFind, table, Alone!table, lists, Alone!lists
  <2>3. CASE Mine(n, Tenant) /\ Fits(f)
    <3>1. View(text, Blank)[n] = text[n]
      BY <2>3, SameRows DEF Mine, Owned, TypeOK, TableOK
    <3>2. View(copy, Blank)' = [View(copy, Blank) EXCEPT ![p] = ApplyUpdate(text[n], f)]
      BY <1>4, <2>1, <2>3, ViewOfOurs DEF UpdateFind
    <3>3. Alone!Goto(p, "write") /\ Alone!Mine(n, Tenant)
      BY <1>4, <2>1, <2>3, SameRows, OurReply DEF UpdateFind
    <3> QED
      BY <2>1, <2>2, <2>3, <3>1, <3>2, <3>3 DEF Alone!UpdateFind, Alone!Fits, Fits,
         Alone!ApplyUpdate, ApplyUpdate
  <2>4. CASE Mine(n, Tenant) /\ ~Fits(f)
    <3>1. Alone!Reply(p, "invalid") /\ Alone!Mine(n, Tenant) /\ UNCHANGED View(copy, Blank)
      BY <1>4, <2>1, <2>4, SameRows, ViewOfNothingNew, OurReply DEF UpdateFind
    <3> QED
      BY <2>1, <2>2, <2>4, <3>1 DEF Alone!UpdateFind, Alone!Fits, Fits
  <2>5. CASE ~Mine(n, Tenant)
    <3>1. Alone!Reply(p, "notFound") /\ ~Alone!Mine(n, Tenant) /\ UNCHANGED View(copy, Blank)
      BY <1>4, <2>1, <2>5, SameRows, ViewOfNothingNew, OurReply DEF UpdateFind
    <3> QED
      BY <2>1, <2>2, <3>1 DEF Alone!UpdateFind
  <2> QED
    BY <2>3, <2>4, <2>5
<1>5. ASSUME NEW l \in Limits, NEW o \in Offsets, ListCount(p, Tenant, l, o)
      PROVE  Alone!ListCount(p, Tenant, l, o)
  <2>1. Joins(p) /\ Alone!Call(p, "list", Tenant, None, Blank)
    BY <1>5, OurCall DEF ListCount
  <2>2. UNCHANGED <<Alone!table, View(copy, Blank), View(page, {}), stale \cap Ours>>
    BY <1>5, <2>1, ViewOfNothingNew DEF ListCount, table, Alone!table
  <2>3. View(asked, [limit |-> 0, offset |-> 0])' =
          [View(asked, [limit |-> 0, offset |-> 0]) EXCEPT ![p] = [limit |-> l, offset |-> o]]
    BY <1>5, <2>1, ViewOfOurs DEF ListCount
  <2>4. View(total, 0)' = [View(total, 0) EXCEPT ![p] = Cardinality(Alone!Owned(Tenant))]
    BY <1>5, <2>1, SameRows, ViewOfOurs DEF ListCount
  <2>5. Alone!Goto(p, "select")
    BY <1>5, <2>1, OurReply DEF ListCount
  <2> QED
    BY <2>1, <2>2, <2>3, <2>4, <2>5, SameCount DEF Alone!ListCount, Alone!Blank, Blank
<1> QED
  BY <1>1, <1>2, <1>3, <1>4, <1>5 DEF Arrive, Alone!Arrive, Notes, Alone!Notes, Patches,
     Alone!Patches

LEMMA OurProgress ==
  ASSUME TypeOK, TenantInv, NEW p \in Requests, user[p] = Tenant, Proceed(p)
  PROVE  Alone!Proceed(p)
<1>1. Joins(p) /\ p \in Ours
  BY DEF Joins, Ours, Proceed, UpdateWrite, ListSelect, Fail, inputs
<1>2. /\ View(pc, "idle")[p] = pc[p] /\ View(user, None)[p] = Tenant
      /\ View(target, None)[p] = target[p] /\ View(copy, Blank)[p] = copy[p]
      /\ View(asked, [limit |-> 0, offset |-> 0])[p] = asked[p]
  BY <1>1 DEF View
<1>3. ASSUME UpdateWrite(p)
      PROVE  Alone!UpdateWrite(p)
  <2>1. /\ UNCHANGED <<Alone!inputs, View(copy, Blank), Alone!lists, View(owner, None)>>
        /\ UNCHANGED <<stored \cap Ours, deleted \cap Ours>> /\ pc[p] = "write"
        /\ target[p] \in Requests
    BY <1>1, <1>3, ViewOfNothingNew
    DEF UpdateWrite, inputs, Alone!inputs, lists, Alone!lists, TypeOK, WorkOK
  <2>2. Alone!Mine(target[p], Tenant) <=> Mine(target[p], Tenant)
    BY <2>1, SameRows
  <2>3. CASE Mine(target[p], Tenant)
    <3>1. target[p] \in Ours
      BY <2>1, <2>3, SameRows DEF Mine, Owned, TypeOK, TableOK
    <3>2. View(text, Blank)' = [View(text, Blank) EXCEPT ![target[p]] = copy[p]]
      BY <1>1, <1>3, <2>3, <3>1, ViewOfOurRows DEF UpdateWrite, Ours
    <3>3. View(writer, None)' = [View(writer, None) EXCEPT ![target[p]] = p]
      BY <1>1, <1>3, <2>3, <3>1, ViewOfOurRows DEF UpdateWrite, Ours
    <3>4. stale' \cap Ours' = (stale \cap Ours) \cup (Alone!Updating(target[p]) \ {p})
      <4>1. stale' = stale \cup (Updating(target[p]) \ {p}) /\ Ours' = Ours
        BY <1>1, <1>3, <2>3 DEF UpdateWrite, Ours, Joins
      <4>2. Alone!Updating(target[p]) = Updating(target[p])
        BY <2>1, <2>3 DEF Alone!Updating, Updating, View, Ours, TenantInv, OwnersInv, Mine
      <4>3. Updating(target[p]) \subseteq Ours
        BY <2>1, <2>3 DEF Updating, Ours, TenantInv, OwnersInv, Mine
      <4> QED
        BY <4>1, <4>2, <4>3
    <3>5. Alone!ReplyOrLose(p, "ok")
      BY <1>1, <1>3, <2>3, OurReply DEF UpdateWrite, Ours
    <3> QED
      BY <1>2, <2>1, <2>2, <2>3, <3>2, <3>3, <3>4, <3>5 DEF Alone!UpdateWrite
  <2>4. CASE ~Mine(target[p], Tenant)
    <3>1. /\ Alone!Reply(p, "notFound")
          /\ UNCHANGED <<View(text, Blank), View(writer, None), stale \cap Ours>>
      BY <1>1, <1>3, <2>4, ViewOfNothingNew, OurReply DEF UpdateWrite, Ours
    <3> QED
      BY <1>2, <2>1, <2>2, <2>4, <3>1 DEF Alone!UpdateWrite
  <2> QED
    BY <2>3, <2>4
<1>4. ASSUME ListSelect(p)
      PROVE  Alone!ListSelect(p)
  <2>1. /\ UNCHANGED <<Alone!table, Alone!inputs, View(copy, Blank), View(total, 0)>>
        /\ UNCHANGED (stale \cap Ours)
    BY <1>1, <1>4, ViewOfNothingNew DEF ListSelect, inputs, Alone!inputs, table, Alone!table
  <2>2. /\ Alone!Reply(p, SelectAnswer(ListLimit(asked[p].limit), ListOffset(asked[p].offset)))
        /\ pc[p] = "select"
    BY <1>1, <1>4, OurReply DEF ListSelect
  <2>3. PICK S \in SUBSET Owned(Tenant) :
          /\ Cardinality(S) = PageSize(Cardinality(Owned(Tenant)),
                                       ListLimit(asked[p].limit), ListOffset(asked[p].offset))
          /\ page' = [page EXCEPT ![p] = S]
    BY <1>4 DEF ListSelect
  <2>4. View(page, {})' = [View(page, {}) EXCEPT ![p] = S]
    BY <1>1, <2>3, ViewOfOurs
  <2> QED
    BY <1>2, <2>1, <2>2, <2>3, <2>4, SameRows, SameCount DEF Alone!ListSelect, PageSize, Alone!PageSize,
       SelectAnswer, Alone!SelectAnswer, ListLimit, Alone!ListLimit, ListOffset, Alone!ListOffset
<1>5. ASSUME Fail(p)
      PROVE  Alone!Fail(p)
  <2>1. UNCHANGED <<Alone!table, Alone!inputs, View(copy, Blank), Alone!lists, stale \cap Ours>>
    BY <1>1, <1>5, ViewOfNothingNew
    DEF Fail, inputs, Alone!inputs, table, Alone!table, lists, Alone!lists
  <2>2. Alone!Reply(p, "error") /\ pc[p] \in {"write", "select"}
    BY <1>1, <1>5, OurReply DEF Fail
  <2> QED
    BY <1>2, <2>1, <2>2 DEF Alone!Fail
<1> QED
  BY <1>3, <1>4, <1>5 DEF Proceed, Alone!Proceed

(* For any set of users and any one of them, the service with all of them is,
   in her view, a service with no user but her. *)
THEOREM TenantsAreAlone == Spec => TenantIsAlone
<1>1. Init => Alone!Init
  BY DEF Init, Alone!Init, View, Ours, Alone!Blank, Blank
<1>2. TypeOK /\ TenantInv /\ TenantInv' /\ [Next]_vars => [Alone!Next]_(Alone!vars)
  <2> SUFFICES ASSUME TypeOK, TenantInv, TenantInv', [Next]_vars
               PROVE  [Alone!Next]_(Alone!vars)
    OBVIOUS
  <2>1. ASSUME NEW p \in Requests, Proceed(p)
        PROVE  [Alone!Next]_(Alone!vars)
    <3>1. user'[p] = user[p] /\ pc[p] # "idle"
      BY <2>1 DEF Proceed, UpdateWrite, ListSelect, Fail, inputs
    <3> QED
      BY <2>1, <3>1, OurProgress, TheirsAreUnseen DEF Alone!Next
  <2>2. ASSUME NEW p \in Requests, NEW u \in Users, Arrive(p, u)
        PROVE  [Alone!Next]_(Alone!vars)
    <3>1. user'[p] = u /\ pc[p] = "idle" /\ user[p] = None
      BY <2>2 DEF Arrive, CreateNote, GetNote, DeleteNote, UpdateFind, ListCount, Call, TypeOK,
         InputsOK, TenantInv, Untouched
    <3> QED
      BY <2>2, <3>1, OurArrival, TheirsAreUnseen DEF Alone!Next
  <2>3. CASE UNCHANGED vars
    BY <2>3 DEF vars, Alone!vars, View, Ours
  <2> QED
    BY <2>1, <2>2, <2>3 DEF Next, Quiescent
<1>3. Spec => []TenantInv
  BY TenantStart, TenantStep, NotesTypeCorrect, PTL DEF Spec
<1> QED
  BY <1>1, <1>2, <1>3, NotesTypeCorrect, PTL DEF Spec, TenantIsAlone, Alone!Spec

================================================================================
