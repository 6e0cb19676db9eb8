---------------------------- MODULE MCNotesService -----------------------------
(* Small instances of the notes service. *)
EXTENDS NotesTenant, TLC

(* Requests are interchangeable: they differ only in what they are sent. *)
Symmetry == Permutations(Requests)

(* Limits and offsets on both sides of every clamp. *)
MCLimits == {0, 2}
MCOffsets == {-1, 1}

================================================================================
