------------------------------ MODULE Executors ------------------------------
(***************************************************************************)
(* The executors of adminos/domain/actions.py as a table: what each kind   *)
(* of action writes to a Gmail thread, when its executor finds the effect  *)
(* already there, and what its read-back accepts.  Labels carry only the   *)
(* three names the executors tell apart; the folder stands for whatever    *)
(* label or destination an action names.                                   *)
(***************************************************************************)
EXTENDS Naturals, FiniteSets

Labels == {"INBOX", "TRASH", "FOLDER"}

ThreadKinds == {"label", "archive", "move", "trash", "untrash"}

Kinds == ThreadKinds \cup {"draft", "send"}

\* What one write adds to and removes from the labels of a thread.
Adds == [label |-> {"FOLDER"}, archive |-> {}, move |-> {"FOLDER"},
         trash |-> {"TRASH"}, untrash |-> {}]

Removes == [label |-> {}, archive |-> {"INBOX"}, move |-> {"INBOX"},
            trash |-> {}, untrash |-> {"TRASH"}]

\* A move writes both halves in one call, so it never rests half done.
Modified(kind, labels) == (labels \ Removes[kind]) \cup Adds[kind]

\* The read-back of a thread action: everything added is there, everything
\* removed is gone.
Shown(kind, labels) ==
  /\ Adds[kind] \subseteq labels
  /\ Removes[kind] \cap labels = {}

\* Whether an executor reads before it writes.  A label is written blindly; a
\* draft looks for one to adopt only when an earlier attempt left no reference.
LooksFirst(kind, attempts, ref) ==
  CASE kind = "label" -> FALSE
    [] kind = "draft" -> attempts > 1 /\ ref = 0
    [] OTHER          -> TRUE
=============================================================================
