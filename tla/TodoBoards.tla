----------------------------- MODULE TodoBoards -----------------------------
(* The older to-do endpoints: creating an item on one of two Monday boards    *)
(* and setting the metadata of several at once (create_todo,                  *)
(* update_todo_action_metadata and perform_bulk_update_todo_action_metadata   *)
(* in main.py).                                                               *)
(*                                                                            *)
(* Nothing is kept but at Monday.  A request awaits Monday for the columns of *)
(* a board, once a board, and then for one update after another; a call that  *)
(* gets no answer may have been carried out, or may be later.  An update by itself *)
(* is a bulk of one, and so is a creation, whose item Monday names.           *)
EXTENDS Requests, Sequences, FiniteSets

CONSTANTS
  Todos,      \* items that are or may come to be on the boards
  TodoLists,  \* the lists, each with a board of its own
  Configured, \* the lists whose board the environment names
  ListOf,     \* ListOf[i]: the list an item is or would be on
  Bulks       \* what a request may ask for (bound)

BoardColumns == {"action", "plan", "status"}
Unset == "unset"
NewItem == "new item"
BlankItem == [c \in BoardColumns |-> Unset]
NotOnBoard == [c \in BoardColumns |-> "not on the board"]
TodoUpdate == [item : Todos \cup {NewItem}, list : TodoLists, action : {Unset, "decision", "call"}, plan : {Unset, "house"}]

ASSUME TodoAssumption ==
  /\ NewItem \notin Todos /\ Configured \subseteq TodoLists /\ ListOf \in [Todos -> TodoLists]
  /\ Bulks \subseteq Seq(TodoUpdate) /\ {"bulks", "byhand"} \subseteq Kinds

VARIABLES
  board,   \* board[i]: what Monday holds of an item
  columns, \* columns[l]: the columns the board of a list has
  bulks,   \* bulks[h]: a request in flight, or the last one that ended
  late     \* calls without an answer that may still be carried out

todoVars == <<board, columns, bulks, late>>

NoBulk == [updates |-> <<>>, known |-> [l \in {} |-> {}], done |-> <<>>,
           before |-> [i \in Todos |-> NotOnBoard], touched |-> {}]

TodoInit ==
  /\ board \in [Todos -> {NotOnBoard, [BlankItem EXCEPT !["status"] = "done"]}]
  /\ columns = [l \in TodoLists |-> BoardColumns]
  /\ bulks = [h \in Handlers |-> NoBulk] /\ late = {}

-----------------------------------------------------------------------------
(* One update                                                                 *)

AllAsked(q) == Len(q.done) = Len(q.updates)
UpdateNow(q) == q.updates[Len(q.done) + 1]

\* The columns an update names; what awaits a decision is not started again.
NamedColumns(u) ==
  {c \in {"action", "plan"} : u[c] # Unset} \cup (IF u.action = "decision" THEN {"status"} ELSE {})

\* build_action_column_values_from_columns.
ValuesNamed(u) == [c \in NamedColumns(u) |-> IF c = "status" THEN "not started" ELSE u[c]]

\* Mutant: the values of one update are still there for the next
ValuesCarried(q) ==
  LET so(k) == ValuesNamed(q.updates[k])
      n == Len(q.done) + 1
      by(c) == CHOOSE k \in 1..n : c \in DOMAIN so(k) /\ \A j \in k + 1..n : c \notin DOMAIN so(j)
  IN [c \in UNION {DOMAIN so(k) : k \in 1..n} |-> so(by(c))[c]]

\* The values that go out for the update it is at.
ValuesSent(q) == ValuesNamed(UpdateNow(q))

\* Where a call takes effect: its item, if it is there, or a new one.
Targets(call) ==
  {i \in Todos :
     /\ ListOf[i] = call.list
     /\ IF call.item = NewItem THEN board[i] = NotOnBoard ELSE i = call.item /\ board[i] # NotOnBoard}

Accepted(call) == DOMAIN call.values \subseteq columns[call.list] /\ Targets(call) # {}

\* change_multiple_column_values and create_item, at Monday.
CarriedOut(call, i) ==
  [board EXCEPT ![i] = [c \in BoardColumns |->
     IF c \in DOMAIN call.values THEN call.values[c]
     ELSE IF call.item = NewItem THEN Unset ELSE @[c]]]

Reported(q, ok) == [q EXCEPT !.done = Append(@, ok)]
AlsoTouched(h, i) == [o \in Handlers |-> IF o = h THEN bulks[o] ELSE [bulks[o] EXCEPT !.touched = @ \cup {i}]]

-----------------------------------------------------------------------------
(* Requests                                                                   *)

BeginBulk(h, updates) ==
  /\ Spend("bulks") /\ AllAsked(bulks[h])
  /\ bulks' = [bulks EXCEPT ![h] = [NoBulk EXCEPT !.updates = updates, !.before = board]]
  /\ UNCHANGED <<board, columns, late>>

\* get_todo_target and require_board_column: the update fails and the next goes on.
RefuseUpdate(h) ==
  LET q == bulks[h]
      u == UpdateNow(q)
  IN
  /\ ~AllAsked(q)
  /\ \/ u.list \notin Configured
     \/ u.list \in DOMAIN q.known /\ ~(NamedColumns(u) \subseteq q.known[u.list])
     \/ u.list \in DOMAIN q.known /\ NamedColumns(u) = {} /\ u.item # NewItem
  /\ bulks' = [bulks EXCEPT ![h] = Reported(q, FALSE)]
  /\ UNCHANGED <<left, board, columns, late>>

\* get_board_columns_by_title, once for each board of the request.
ReadColumns(h, answered) ==
  LET q == bulks[h]
      l == UpdateNow(q).list
  IN
  /\ ~AllAsked(q) /\ l \in Configured \ DOMAIN q.known
  /\ NamedColumns(UpdateNow(q)) # {} \/ UpdateNow(q).item # NewItem
  /\ bulks' = [bulks EXCEPT ![h] =
       IF answered THEN [q EXCEPT !.known = [m \in DOMAIN @ \cup {l} |-> IF m = l THEN columns[l] ELSE @[m]]]
       ELSE Reported(q, FALSE)]
  /\ UNCHANGED <<left, board, columns, late>>

\* update_monday_item_columns and create_monday_item: answered, refused, or left
\* without an answer and carried out at once, later or never.
Send(h, answer) ==
  LET q == bulks[h]
      u == UpdateNow(q)
      call == [item |-> u.item, list |-> u.list, values |-> ValuesSent(q)]
  IN
  /\ ~AllAsked(q) /\ u.list \in Configured
  /\ \/ u.item = NewItem /\ NamedColumns(u) = {}
     \/ NamedColumns(u) # {} /\ u.list \in DOMAIN q.known /\ NamedColumns(u) \subseteq q.known[u.list]
  /\ CASE answer = "done" -> \E i \in Targets(call) :
            /\ Accepted(call) /\ board' = CarriedOut(call, i)
            /\ bulks' = [AlsoTouched(h, i) EXCEPT ![h] =
                 Reported([q EXCEPT !.updates[Len(q.done) + 1].item = i], TRUE)]
            /\ UNCHANGED late
       [] answer = "lost" -> \E i \in Targets(call) :
            /\ Accepted(call) /\ board' = CarriedOut(call, i)
            /\ bulks' = [AlsoTouched(h, i) EXCEPT ![h] = Reported([q EXCEPT !.touched = @ \cup {i}], FALSE)]
            /\ UNCHANGED late
       [] answer = "still out" ->
            /\ late' = late \cup {call} /\ bulks' = [bulks EXCEPT ![h] = Reported(q, FALSE)]
            /\ UNCHANGED board
       [] answer = "refused" ->
            /\ bulks' = [bulks EXCEPT ![h] = Reported(q, FALSE)]
            /\ UNCHANGED <<board, late>>
  /\ UNCHANGED <<left, columns>>

\* Monday carries out a call whose request gave up on it.
LateCall(call, i) ==
  /\ call \in late /\ late' = late \ {call}
  /\ Accepted(call) /\ i \in Targets(call) /\ board' = CarriedOut(call, i)
  /\ bulks' = [o \in Handlers |-> [bulks[o] EXCEPT !.touched = @ \cup {i}]]
  /\ UNCHANGED <<left, columns>>

\* People finish or delete items and change what columns a board has.
EditedByHand(i, to) ==
  /\ Spend("byhand") /\ board[i] # NotOnBoard /\ board' = [board EXCEPT ![i] = to]
  /\ bulks' = [o \in Handlers |-> [bulks[o] EXCEPT !.touched = @ \cup {i}]]
  /\ UNCHANGED <<columns, late>>

ColumnsChanged(l, to) ==
  /\ Spend("byhand") /\ columns' = [columns EXCEPT ![l] = to]
  /\ UNCHANGED <<board, bulks, late>>

TodoNext ==
  \/ \E h \in Handlers :
       \/ left["bulks"] > 0 /\ \E updates \in Bulks : BeginBulk(h, updates)
       \/ RefuseUpdate(h)
       \/ \E answered \in BOOLEAN : ReadColumns(h, answered)
       \/ \E answer \in {"done", "lost", "still out", "refused"} : Send(h, answer)
  \/ \E call \in late, i \in Todos : LateCall(call, i)
  \/ left["byhand"] > 0 /\
       \/ \E i \in Todos : \E to \in {NotOnBoard, [board[i] EXCEPT !["status"] = "done"]} : EditedByHand(i, to)
       \/ \E l \in TodoLists, c \in BoardColumns : ColumnsChanged(l, BoardColumns \ {c})

TodoSpec == TodoInit /\ BudgetInit /\ [][TodoNext]_<<todoVars, left>>

-----------------------------------------------------------------------------
(* Properties                                                                 *)

\* What is at Monday, in flight and on its way has the shape the code gives it.
TodoTypeOK ==
  /\ \A i \in Todos : DOMAIN board[i] = BoardColumns
  /\ columns \in [TodoLists -> SUBSET BoardColumns]
  /\ \A h \in Handlers : bulks[h].updates \in Seq(TodoUpdate) /\ Len(bulks[h].done) <= Len(bulks[h].updates)
  /\ \A call \in late : call.list \in Configured /\ DOMAIN call.values \subseteq BoardColumns

\* What an update says of a column of its item, and the updates of a request
\* that were reported done to an item.
Told(u, c) == IF c # "status" THEN u[c] ELSE IF u.action = "decision" THEN "not started" ELSE Unset
DoneTo(q, i) == {k \in DOMAIN q.done : q.done[k] /\ q.updates[k].item = i}

\* A report is true of the boards: of an item nobody else touched since a request
\* began, and none of whose calls was left without an answer, every column reads
\* what the last update that was reported done and named it said, and what it
\* read before if none did; what was reported failed, or was never asked,
\* changed nothing.
ReportTellsBoard ==
  \A h \in Handlers :
    LET q == bulks[h] IN
    \A i \in Todos \ q.touched : q.updates # <<>> =>
      LET was == IF q.before[i] = NotOnBoard /\ DoneTo(q, i) # {} THEN BlankItem ELSE q.before[i] IN
      \A c \in BoardColumns :
        LET telling == {k \in DoneTo(q, i) : Told(q.updates[k], c) # Unset} IN
        /\ telling = {} => board[i][c] = was[c]
        /\ \A k \in telling : (\A j \in telling : j <= k) => board[i][c] = Told(q.updates[k], c)
=============================================================================
