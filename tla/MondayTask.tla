----------------------------- MODULE MondayTask -----------------------------
(* One Monday item from one piece of evidence: POST /monday/tasks, as        *)
(* create_task in adminos/api/admin.py and create_task_from_evidence in       *)
(* adminos/domain/tasks.py carry it out, over the board they share with       *)
(* people.                                                                    *)
(*                                                                            *)
(* The endpoint is a coroutine on the one event loop and its database calls   *)
(* are synchronous, so a request runs without interruption from one call to   *)
(* Monday to the next.  Each action below is one such stretch: it starts with *)
(* Monday's answer and ends when the next call is sent.                       *)
(*                                                                            *)
(* A task is an idempotency key: one piece of evidence with the casefolded    *)
(* title.  Two titles of one task differ only in their case, so they share a  *)
(* workflow run and a mapping row although verify_item compares them exactly. *)
EXTENDS Integers, FiniteSets

CONSTANTS
  Requests,   \* the HTTP requests that may arrive
  Tasks,      \* idempotency keys; the admin_os_id reserved for a key is the key
  Titles,     \* the titles asked for, and the names people give items
  KeyOf,      \* KeyOf[title]: the key a title falls under
  Alike,      \* pairs of titles find_duplicates scores above its threshold
  Certain,    \* tasks whose newest classification has full confidence
  NoTask,     \* the Admin OS ID column of an item a person typed in
  NoItem,     \* no item: nothing at an id, nothing in flight
  NoTitle,    \* the title of a request that has not arrived
  MaxItems,   \* bound on the items the board ever holds
  MaxEdits    \* bound on what people do to the board

ASSUME MondayAssumption ==
  /\ KeyOf \in [Titles -> Tasks]
  /\ Alike \subseteq Titles \X Titles
  /\ \A s, t \in Titles : KeyOf[s] = KeyOf[t] => <<s, t>> \in Alike
  /\ Certain \subseteq Tasks
  /\ NoTask \notin Tasks /\ NoTitle \notin Titles
  /\ MaxItems \in Nat /\ MaxEdits \in Nat

Ids == 1..MaxItems
Item == [tag : Tasks \cup {NoTask}, name : Titles]

ASSUME NoItemAssumption == NoItem \notin Ids /\ NoItem \notin Item

VARIABLES
  run,      \* run[t]: the workflow_runs row of a key
  mapping,  \* mapping[t]: its external_mappings row
  steps,    \* steps[t]: its workflow_steps rows
  req,      \* req[r]: a request, with what its session has loaded
  board,    \* board[i]: the item with id i, as Monday holds it
  wire,     \* wire[r]: a create Monday may still carry out for a request that gave up
  used,     \* how many item ids Monday has given out
  edits,    \* how often people have changed the board
  raced,    \* tasks looked up while another create of theirs was under way
  crossed   \* tasks two attempts of which were past the gate at once

rows == <<run, mapping, steps>>
monday == <<board, wire, used>>
seenBy == <<raced, crossed>>
vars == <<rows, req, monday, edits, seenBy>>

NoRun == [state |-> "absent", attempts |-> 0]
NoMapping == [state |-> "absent", item |-> NoItem]

NotArrived == [pc |-> "new", title |-> NoTitle, confirmed |-> FALSE, seen |-> {},
               item |-> NoItem, loaded |-> NoMapping, base |-> 0, step |-> "none"]

Init ==
  /\ run = [t \in Tasks |-> NoRun]
  /\ mapping = [t \in Tasks |-> NoMapping]
  /\ steps = [t \in Tasks |-> {}]
  /\ req = [r \in Requests |-> NotArrived]
  /\ board = [i \in Ids |-> NoItem]
  /\ wire = [r \in Requests |-> NoItem]
  /\ used = 0 /\ edits = 0
  /\ raced = {} /\ crossed = {}

TaskOf(r) == KeyOf[req[r].title]
OnBoard == {i \in Ids : board[i] # NoItem}
Tagged(t) == {i \in OnBoard : board[i].tag = t}
PastTheGate(t) == {r \in Requests : req[r].pc \in {"find", "create", "read"} /\ TaskOf(r) = t}

\* Titles the board holds that resemble this one, finished items included.
Resembling(title) == {i \in OnBoard : <<title, board[i].name>> \in Alike}

\* A new item takes the next id.
Stamped(item) == /\ used < MaxItems
                 /\ used' = used + 1
                 /\ board' = [board EXCEPT ![used + 1] = item]

-----------------------------------------------------------------------------
\* The request arrives and Monday answers its reading of the whole board.
Ask(r, title, confirmed) ==
  /\ req[r].pc = "new"
  /\ req' = [req EXCEPT ![r] = [NotArrived EXCEPT !.pc = "gate", !.title = title,
                                  !.confirmed = confirmed, !.seen = Resembling(title)]]
  /\ UNCHANGED <<rows, monday, edits, seenBy>>

\* Created unprompted only at full certainty, on a board with nothing like it.
Allowed(r) == req[r].confirmed \/ (TaskOf(r) \in Certain /\ req[r].seen = {})

Refuse(r) ==
  /\ req[r].pc = "gate" /\ ~Allowed(r)
  /\ req' = [req EXCEPT ![r].pc = "refused"]
  /\ UNCHANGED <<rows, monday, edits, seenBy>>

\* A run that reserved a mapping already keeps it, whatever came of it.
Reserved(t) == IF mapping[t] = NoMapping THEN [NoMapping EXCEPT !.state = "pending"] ELSE mapping[t]

\* Mutant: a retry numbers its steps from one again
ReserveRenumbered(r) ==
  LET t == TaskOf(r) IN
  /\ req[r].pc = "gate" /\ Allowed(r)
  /\ run' = [run EXCEPT ![t] = [state |-> "running", attempts |-> @.attempts + 1]]
  /\ mapping' = [mapping EXCEPT ![t] = Reserved(t)]
  /\ req' = [req EXCEPT ![r].pc = "find", ![r].loaded = Reserved(t)]
  /\ crossed' = IF PastTheGate(t) = {} THEN crossed ELSE crossed \cup {t}
  /\ UNCHANGED <<steps, monday, edits, raced>>

\* The run and the reservation are committed before the first call that could
\* create anything; the session keeps the rows as it loaded them.
Reserve(r) ==
  LET t == TaskOf(r) IN
  /\ req[r].pc = "gate" /\ Allowed(r)
  /\ run' = [run EXCEPT ![t] = [state |-> "running", attempts |-> @.attempts + 1]]
  /\ mapping' = [mapping EXCEPT ![t] = Reserved(t)]
  /\ req' = [req EXCEPT ![r].pc = "find", ![r].loaded = Reserved(t), ![r].base = Cardinality(steps[t])]
  /\ crossed' = IF PastTheGate(t) = {} THEN crossed ELSE crossed \cup {t}
  /\ UNCHANGED <<steps, monday, edits, raced>>

-----------------------------------------------------------------------------
\* Mutant: the item is looked up by its title
FoundByName(r) == {i \in OnBoard : board[i].name = req[r].title}

\* Mutant: only an item still under its own title is found
FoundUnrenamed(r) == {i \in Tagged(TaskOf(r)) : board[i].name = req[r].title}

\* find_by_admin_os_id: the item is looked up by its stamp and never its name.
FoundFor(r) == Tagged(TaskOf(r))

CreateUnderWay(r) ==
  \E q \in Requests \ {r} : \/ req[q].pc = "create" /\ TaskOf(q) = TaskOf(r)
                            \/ wire[q] # NoItem /\ wire[q].tag = TaskOf(r)

Looked(r) == raced' = IF CreateUnderWay(r) THEN raced \cup {TaskOf(r)} ELSE raced

FindNothing(r) ==
  /\ req[r].pc = "find" /\ FoundFor(r) = {}
  /\ req' = [req EXCEPT ![r].pc = "create", ![r].step = "create_item"]
  /\ Looked(r)
  /\ UNCHANGED <<rows, monday, edits, crossed>>

\* More than one item under the stamp is an error; see Fail.
Adopt(r) ==
  /\ req[r].pc = "find" /\ Cardinality(FoundFor(r)) = 1
  /\ \E i \in FoundFor(r) :
       req' = [req EXCEPT ![r].pc = "read", ![r].item = i, ![r].step = "adopt_item"]
  /\ Looked(r)
  /\ UNCHANGED <<rows, monday, edits, crossed>>

Wanted(r) == [tag |-> TaskOf(r), name |-> req[r].title]

Create(r) ==
  /\ req[r].pc = "create"
  /\ Stamped(Wanted(r))
  /\ req' = [req EXCEPT ![r].pc = "read", ![r].item = used + 1]
  /\ UNCHANGED <<rows, wire, edits, seenBy>>

-----------------------------------------------------------------------------
\* Mutant: the step before the verification is recorded though it never ended.
RecordedAnyway(r, reached, verified) ==
  {[name |-> req[r].step, seq |-> req[r].base + 1, ok |-> TRUE],
   [name |-> "verify_item", seq |-> req[r].base + 2, ok |-> verified]}

\* The rows the last commit writes.  A step's identity is (run, name, sequence):
\* one that another attempt recorded first fails the whole commit.
Recorded(r, reached, verified) ==
  LET first == IF reached THEN {[name |-> req[r].step, seq |-> req[r].base + 1, ok |-> TRUE]} ELSE {}
  IN first \cup {[name |-> "verify_item", seq |-> req[r].base + Cardinality(first) + 1, ok |-> verified]}

Collides(t, new) == \E s \in steps[t], n \in new : s.name = n.name /\ s.seq = n.seq

\* A flush writes the columns that differ from what the session loaded.
Flushed(t, loaded, wanted) ==
  [state |-> IF wanted.state = loaded.state THEN mapping[t].state ELSE wanted.state,
   item |-> IF wanted.item = loaded.item THEN mapping[t].item ELSE wanted.item]

Commit(r, new, wanted, outcome) ==
  LET t == TaskOf(r) IN
  IF Collides(t, new)
  THEN UNCHANGED rows
  ELSE /\ steps' = [steps EXCEPT ![t] = @ \cup new]
       /\ mapping' = [mapping EXCEPT ![t] = Flushed(t, req[r].loaded, wanted)]
       /\ run' = [run EXCEPT ![t].state = outcome]

Finished(r) == req' = [req EXCEPT ![r] = [NotArrived EXCEPT !.pc = "done"]]

\* The rows a failed attempt leaves: the mapping keeps its item, if it had one.
FailedMapping(r) == [req[r].loaded EXCEPT !.state = "failed"]

\* verify_item on the separate read: there, under its stamp, by the very title.
ReadsBack(r) == LET i == req[r].item IN i \in OnBoard /\ board[i] = Wanted(r)

Verify(r) ==
  /\ req[r].pc = "read" /\ ReadsBack(r)
  /\ Commit(r, Recorded(r, TRUE, TRUE), [state |-> "verified", item |-> req[r].item], "succeeded")
  /\ Finished(r)
  /\ UNCHANGED <<monday, edits, seenBy>>

Mismatch(r) ==
  /\ req[r].pc = "read" /\ ~ReadsBack(r)
  /\ Commit(r, Recorded(r, TRUE, FALSE), FailedMapping(r), "failed")
  /\ Finished(r)
  /\ UNCHANGED <<monday, edits, seenBy>>

\* A MondayError from any of the three calls: no contact, an error response, or
\* two items under the stamp.  The step it had reached is recorded with it.
Fail(r) ==
  /\ req[r].pc \in {"find", "create", "read"}
  /\ Commit(r, Recorded(r, req[r].pc = "read", FALSE), FailedMapping(r), "failed")
  /\ Finished(r)
  /\ IF req[r].pc = "find" THEN Looked(r) ELSE UNCHANGED raced
  /\ UNCHANGED <<monday, edits, crossed>>

\* The create times out while Monday still has it: a MondayError as well.
GiveUp(r) ==
  /\ req[r].pc = "create"
  /\ wire' = [wire EXCEPT ![r] = Wanted(r)]
  /\ Commit(r, Recorded(r, FALSE, FALSE), FailedMapping(r), "failed")
  /\ Finished(r)
  /\ UNCHANGED <<board, used, edits, seenBy>>

\* Monday carries out a create nobody waits for, or never does.
LandLate(r) ==
  /\ wire[r] # NoItem
  /\ Stamped(wire[r])
  /\ wire' = [wire EXCEPT ![r] = NoItem]
  /\ UNCHANGED <<rows, req, edits, seenBy>>

Vanish(r) ==
  /\ wire[r] # NoItem
  /\ wire' = [wire EXCEPT ![r] = NoItem]
  /\ UNCHANGED <<rows, req, board, used, edits, seenBy>>

\* The process dies: every request is gone with what it had not committed, and
\* the creates that were under way are now nobody's.
Crash ==
  /\ \E r \in Requests : req[r].pc \in {"gate", "find", "create", "read"}
  /\ wire' = [r \in Requests |-> IF req[r].pc = "create" THEN Wanted(r) ELSE wire[r]]
  /\ req' = [r \in Requests |-> IF req[r].pc \in {"gate", "find", "create", "read"}
                                THEN [NotArrived EXCEPT !.pc = "done"] ELSE req[r]]
  /\ UNCHANGED <<rows, board, used, edits, seenBy>>

-----------------------------------------------------------------------------
\* People work on the same board.
Edited == edits < MaxEdits /\ edits' = edits + 1

TypeIn(name) ==
  /\ Edited
  /\ Stamped([tag |-> NoTask, name |-> name])
  /\ UNCHANGED <<rows, req, wire, seenBy>>

Rename(i, name) ==
  /\ Edited
  /\ i \in OnBoard /\ board' = [board EXCEPT ![i].name = name]
  /\ UNCHANGED <<rows, req, wire, used, seenBy>>

Delete(i) ==
  /\ Edited
  /\ i \in OnBoard /\ board' = [board EXCEPT ![i] = NoItem]
  /\ UNCHANGED <<rows, req, wire, used, seenBy>>

Next ==
  \/ \E r \in Requests :
       \/ \E title \in Titles, confirmed \in BOOLEAN : Ask(r, title, confirmed)
       \/ Refuse(r) \/ Reserve(r)
       \/ FindNothing(r) \/ Adopt(r) \/ Create(r)
       \/ Verify(r) \/ Mismatch(r) \/ Fail(r) \/ GiveUp(r)
       \/ LandLate(r) \/ Vanish(r)
  \/ Crash
  \/ \E name \in Titles : TypeIn(name)
  \/ \E i \in Ids, name \in Titles : Rename(i, name)
  \/ \E i \in Ids : Delete(i)

Spec == Init /\ [][Next]_vars

-----------------------------------------------------------------------------
Run == [state : {"absent", "running", "succeeded", "failed"}, attempts : Nat]
Mapping == [state : {"absent", "pending", "verified", "failed"}, item : Ids \cup {NoItem}]
Step == [name : {"create_item", "adopt_item", "verify_item"}, seq : Nat, ok : BOOLEAN]
Request ==
  [pc : {"new", "gate", "refused", "find", "create", "read", "done"},
   title : Titles \cup {NoTitle}, confirmed : BOOLEAN, seen : SUBSET Ids,
   item : Ids \cup {NoItem}, base : Nat, step : {"none", "create_item", "adopt_item"},
   loaded : Mapping]

\* Every variable holds a value of the kind the rows, the requests and the board have.
TypeOK ==
  /\ run \in [Tasks -> Run] /\ mapping \in [Tasks -> Mapping]
  /\ steps \in [Tasks -> SUBSET Step]
  /\ req \in [Requests -> Request]
  /\ board \in [Ids -> Item \cup {NoItem}]
  /\ wire \in [Requests -> Item \cup {NoItem}]
  /\ used \in 0..MaxItems /\ edits \in 0..MaxEdits
  /\ raced \subseteq Tasks /\ crossed \subseteq Tasks

\* Whatever crashed, failed, timed out or was retried, the board holds at most
\* one item of a task, unless one attempt looked it up while the create of
\* another was still under way.
OneItemPerTask == \A t \in Tasks \ raced : Cardinality(Tagged(t)) <= 1

\* The steps of a run number what happened in order, one number each, over all
\* its attempts, unless two of them overlapped.
AuditInOrder ==
  \A t \in Tasks \ crossed : {s.seq : s \in steps[t]} = 1..Cardinality(steps[t])

\* A task moves to another item only when its item is gone from the board (or
\* two creates of it raced): renaming the item, or asking again in another
\* case, never leads to a second one.
ItemKept ==
  [][\A t \in Tasks \ raced :
       mapping[t].item \notin {NoItem, mapping'[t].item} => mapping[t].item \notin OnBoard]_vars

\* What create_task_from_evidence says of a retry: it finds the item the first
\* attempt stamped and adopts it.  So a request for a task left unsettled, with
\* no other attempt under way, passes the gate when nothing but that task's own
\* item resembles its title and certainty is not what is missing.
RetryReachesItsItem ==
  \A r \in Requests :
    /\ req[r].pc = "gate"
    /\ TaskOf(r) \in Certain
    /\ mapping[TaskOf(r)].state \in {"pending", "failed"}
    /\ PastTheGate(TaskOf(r)) = {}
    /\ req[r].seen \subseteq Tagged(TaskOf(r))
    => Allowed(r)
=============================================================================
