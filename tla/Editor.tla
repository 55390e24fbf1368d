------------------------------- MODULE Editor -------------------------------
(***************************************************************************)
(* What the Studio's Edit menu promises: a linear history of the open      *)
(* document.  An edit appends the content it replaces to the past and      *)
(* forgets the future; undo and redo walk along that line; opening a       *)
(* document forgets both.  A request that is refused changes nothing.      *)
(* Only a failed write may leave anything else behind.                     *)
(***************************************************************************)
EXTENDS Naturals, Sequences, SequencesExt

CONSTANTS Documents, Contents, Cap    \* Cap: how far undo reaches

VARIABLES doc,       \* the open document
          present,   \* what each document contains
          past,      \* contents that undo goes back to, the last one first to go
          future,    \* contents that redo goes back to, likewise
          status     \* how the last request ended

editor == <<doc, present, past, future, status>>

Statuses == {"none", "ok", "refused", "failed"}

\* A new document has nothing to undo.
Init ==
  /\ doc \in Documents
  /\ present \in [Documents -> Contents]
  /\ past = << >>
  /\ future = << >>
  /\ status = "none"

\* Only the open document changes.
DocChanges == present' = [present EXCEPT ![doc] = present'[doc]] /\ present'[doc] \in Contents

Capped(s) == IF Len(s) > Cap THEN Tail(s) ELSE s

Edit ==
  /\ DocChanges
  /\ past' = Capped(Append(past, present[doc]))
  /\ future' = << >>
  /\ status' = "ok"
  /\ UNCHANGED doc

Undo ==
  /\ past # << >>
  /\ present' = [present EXCEPT ![doc] = Last(past)]
  /\ past' = Front(past)
  /\ future' = Append(future, present[doc])
  /\ status' = "ok"
  /\ UNCHANGED doc

Redo ==
  /\ future # << >>
  /\ present' = [present EXCEPT ![doc] = Last(future)]
  /\ future' = Front(future)
  /\ past' = Append(past, present[doc])
  /\ status' = "ok"
  /\ UNCHANGED doc

\* The answer to it comes with a Keep.
Open ==
  /\ doc' \in Documents
  /\ past' = << >>
  /\ future' = << >>
  /\ UNCHANGED <<present, status>>

\* An explicit Save, or a request that is refused.
Keep ==
  /\ status' \in {"ok", "refused"}
  /\ UNCHANGED <<doc, present, past, future>>

\* A write failed: the open document may be damaged, the others may not.
Fail ==
  /\ status' = "failed"
  /\ DocChanges
  /\ \/ UNCHANGED <<past, future>>
     \/ past # << >> /\ past' = Front(past) /\ future' = Append(future, present[doc])
     \/ future # << >> /\ future' = Front(future) /\ past' = Append(past, present[doc])
  /\ UNCHANGED doc

Next == Edit \/ Undo \/ Redo \/ Open \/ Keep \/ Fail

Spec == Init /\ [][Next]_editor
=============================================================================
