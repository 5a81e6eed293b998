--------------------------- MODULE MondayTaskProofs ---------------------------
(* Proofs about MondayTask, for every set of requests, tasks and titles and    *)
(* every bound: each property that the run monday_task checks.                 *)
(*                                                                             *)
(* The strengthening counts, beside the items of a task, the creates that may  *)
(* still bring one: those a request waits for and those nobody waits for any   *)
(* more.  It says where the steps of a run end while one attempt is past the   *)
(* gate, and whose item a mapping names.                                       *)
EXTENDS MondayTask, FiniteSetTheorems, TLAPS

\* A request under way has a title, and one that creates or reads back knows how it
\* comes to its item.
UnderWayOK ==
  \A r \in Requests :
    /\ req[r].pc \in {"gate", "find", "create", "read"} => req[r].title \in Titles
    /\ req[r].pc \in {"create", "read"} => req[r].step # "none"

\* A create nobody waits for is that of a request that is over.
WireOK == \A r \in Requests : wire[r] # NoItem => req[r].pc = "done"

\* The requests a create of the task may still come from.
Creators(t) == {q \in Requests : \/ req[q].pc = "create" /\ TaskOf(q) = t
                                 \/ wire[q] # NoItem /\ wire[q].tag = t}

\* A task has one item, or one create that may bring it.
OneSource ==
  \A t \in Tasks \ raced :
    /\ \A i, j \in Tagged(t) : i = j
    /\ \A p, q \in Creators(t) : p = q
    /\ Tagged(t) = {} \/ Creators(t) = {}

\* One attempt is past the gate at a time, and numbers on from the last step.
OneAttempt ==
  \A t \in Tasks \ crossed :
    /\ \A p, q \in PastTheGate(t) : p = q
    /\ \A q \in PastTheGate(t) : req[q].base = Cardinality(steps[t])

StepsFinite == \A t \in Tasks : IsFiniteSet(steps[t])

\* Items are under the ids that Monday has given out.
BoardOK == \A i \in OnBoard : i <= used

\* The item a mapping names was stamped for it, if it is still there.
MappingOK ==
  \A t \in Tasks : mapping[t].item # NoItem =>
    /\ mapping[t].item <= used
    /\ mapping[t].item \in OnBoard => board[mapping[t].item].tag = t

IInv ==
  /\ TypeOK /\ UnderWayOK /\ WireOK /\ OneSource /\ OneAttempt /\ StepsFinite
  /\ BoardOK /\ MappingOK /\ AuditInOrder

-----------------------------------------------------------------------------
(* The parts of the strengthening, each kept by what does not disturb it      *)

\* Creates that end and items that go never make a second source.
LEMMA OneSourceKept ==
  ASSUME OneSource, raced \subseteq raced',
         \A t \in Tasks : Creators(t)' \subseteq Creators(t) /\ Tagged(t)' \subseteq Tagged(t)
  PROVE  OneSource'
  <1> SUFFICES ASSUME NEW t \in Tasks \ raced'
               PROVE  /\ \A i, j \in Tagged(t)' : i = j
                      /\ \A p, q \in Creators(t)' : p = q
                      /\ Tagged(t)' = {} \/ Creators(t)' = {}
    BY DEF OneSource
  <1>1. /\ \A i, j \in Tagged(t) : i = j
        /\ \A p, q \in Creators(t) : p = q
        /\ Tagged(t) = {} \/ Creators(t) = {}
    BY DEF OneSource
  <1>2. Creators(t)' \subseteq Creators(t) /\ Tagged(t)' \subseteq Tagged(t)
    OBVIOUS
  <1> QED BY <1>1, <1>2

\* No new attempt passes the gate, and no steps come beneath one that has.
LEMMA OneAttemptKept ==
  ASSUME OneAttempt, crossed \subseteq crossed',
         \A t \in Tasks : /\ PastTheGate(t)' \subseteq PastTheGate(t)
                          /\ \A q \in PastTheGate(t)' : req'[q].base = req[q].base
                          /\ t \notin crossed /\ PastTheGate(t)' # {} => steps'[t] = steps[t]
  PROVE  OneAttempt'
  <1> SUFFICES ASSUME NEW t \in Tasks \ crossed'
               PROVE  /\ \A p, q \in PastTheGate(t)' : p = q
                      /\ \A q \in PastTheGate(t)' : req'[q].base = Cardinality(steps'[t])
    BY DEF OneAttempt
  <1>1. /\ \A p, q \in PastTheGate(t) : p = q
        /\ \A q \in PastTheGate(t) : req[q].base = Cardinality(steps[t])
    BY DEF OneAttempt
  <1>2. /\ PastTheGate(t)' \subseteq PastTheGate(t)
        /\ \A q \in PastTheGate(t)' : req'[q].base = req[q].base
        /\ PastTheGate(t)' # {} => steps'[t] = steps[t]
    OBVIOUS
  <1>3. \A p, q \in PastTheGate(t)' : p = q
    BY <1>1, <1>2
  <1>4. ASSUME NEW q \in PastTheGate(t)' PROVE req'[q].base = Cardinality(steps'[t])
    <2>1. steps'[t] = steps[t] /\ q \in PastTheGate(t) /\ req'[q].base = req[q].base
      BY <1>2
    <2> QED BY <1>1, <2>1
  <1> QED BY <1>3, <1>4

\* The board loses items and keeps the stamps of the others.
LEMMA BoardKept ==
  ASSUME TypeOK, BoardOK, MappingOK, UNCHANGED <<mapping, used>>,
         \A i \in Ids : board'[i] # NoItem => board[i] # NoItem /\ board'[i].tag = board[i].tag
  PROVE  BoardOK' /\ MappingOK'
  <1>1. BoardOK'
    BY DEF BoardOK, OnBoard
  <1>2. MappingOK'
    BY DEF MappingOK, OnBoard
  <1> QED BY <1>1, <1>2

\* The rows, as they were.
LEMMA RowsKept ==
  ASSUME StepsFinite, AuditInOrder, UNCHANGED steps, crossed \subseteq crossed'
  PROVE  StepsFinite' /\ AuditInOrder'
  BY DEF StepsFinite, AuditInOrder

\* A request under way is for a task, whose stamp its item will carry.
LEMMA TaskOfIs ==
  ASSUME IInv, NEW r \in Requests, req[r].pc \in {"gate", "find", "create", "read"}
  PROVE  /\ TaskOf(r) \in Tasks /\ req[r].title \in Titles
         /\ Wanted(r) \in Item /\ Wanted(r).tag = TaskOf(r) /\ Wanted(r) # NoItem
         /\ wire[r] = NoItem
  <1>1. req[r].title \in Titles /\ wire[r] = NoItem
    BY DEF IInv, UnderWayOK, WireOK
  <1>2. TaskOf(r) \in Tasks
    BY <1>1, MondayAssumption DEF TaskOf
  <1>3. Wanted(r) \in Item /\ Wanted(r).tag = TaskOf(r)
    BY <1>1, <1>2 DEF Wanted, Item
  <1> QED BY <1>1, <1>2, <1>3, NoItemAssumption

\* A stamped item is new on the board, under its own task.
LEMMA StampedIs ==
  ASSUME TypeOK, BoardOK, NEW item \in Item, Stamped(item)
  PROVE  /\ used' \in 0..MaxItems /\ used + 1 \in Ids
         /\ board' \in [Ids -> Item \cup {NoItem}]
         /\ BoardOK'
         /\ \A t : Tagged(t)' = Tagged(t) \cup (IF item.tag = t THEN {used + 1} ELSE {})
         /\ UNCHANGED mapping /\ MappingOK => MappingOK'
  <1>1. /\ used < MaxItems /\ used \in 0..MaxItems /\ MaxItems \in Nat
        /\ used' = used + 1 /\ board' = [board EXCEPT ![used + 1] = item]
        /\ board \in [Ids -> Item \cup {NoItem}]
    BY MondayAssumption DEF Stamped, TypeOK
  <1>2. used' \in 0..MaxItems /\ used + 1 \in Ids /\ used \in Int
    BY <1>1 DEF Ids
  <1>3. /\ board' \in [Ids -> Item \cup {NoItem}] /\ board'[used + 1] = item
        /\ \A i \in Ids : i # used + 1 => board'[i] = board[i]
    BY <1>1, <1>2
  <1>4. item # NoItem /\ board[used + 1] = NoItem
    BY <1>2, NoItemAssumption DEF BoardOK, OnBoard
  <1>5. \A i \in Ids : i \in Int
    BY <1>1 DEF Ids
  <1>6. OnBoard' = OnBoard \cup {used + 1}
    BY <1>2, <1>3, <1>4 DEF OnBoard
  <1>7. BoardOK'
    <2>1. \A i \in OnBoard : i \in Ids
      BY DEF OnBoard
    <2> QED BY <1>1, <1>2, <1>5, <1>6, <2>1 DEF BoardOK
  <1>8. ASSUME NEW t PROVE Tagged(t)' = Tagged(t) \cup (IF item.tag = t THEN {used + 1} ELSE {})
    <2>1. \A i \in OnBoard : i \in Ids /\ i # used + 1
      BY <1>4 DEF OnBoard
    <2> QED BY <1>3, <1>6, <2>1 DEF Tagged
  <1>9. UNCHANGED mapping /\ MappingOK => MappingOK'
    <2> SUFFICES ASSUME UNCHANGED mapping, MappingOK, NEW t \in Tasks, mapping[t].item # NoItem
                 PROVE  /\ mapping[t].item <= used'
                        /\ mapping[t].item \in OnBoard' => board'[mapping[t].item].tag = t
      BY DEF MappingOK
    <2>1. mapping[t].item \in Ids /\ mapping[t].item <= used
      BY DEF MappingOK, TypeOK, Mapping
    <2>2. mapping[t].item # used + 1
      BY <1>2, <1>5, <2>1
    <2> QED BY <1>1, <1>2, <1>3, <1>5, <1>6, <2>1, <2>2 DEF MappingOK
  <1> QED BY <1>2, <1>3, <1>7, <1>8, <1>9

\* When a create is carried out, the item takes the place of the create.
LEMMA OneSourceLands ==
  ASSUME TypeOK, BoardOK, OneSource, NEW r \in Requests, NEW item \in Item, Stamped(item),
         r \in Creators(item.tag), UNCHANGED raced,
         \A t \in Tasks : Creators(t)' \subseteq Creators(t) \ (IF item.tag = t THEN {r} ELSE {})
  PROVE  OneSource'
  <1> SUFFICES ASSUME NEW t \in Tasks \ raced
               PROVE  /\ \A i, j \in Tagged(t)' : i = j
                      /\ \A p, q \in Creators(t)' : p = q
                      /\ Tagged(t)' = {} \/ Creators(t)' = {}
    BY DEF OneSource
  <1>1. /\ \A i, j \in Tagged(t) : i = j
        /\ \A p, q \in Creators(t) : p = q
        /\ Tagged(t) = {} \/ Creators(t) = {}
    BY DEF OneSource
  <1>2. Tagged(t)' = Tagged(t) \cup (IF item.tag = t THEN {used + 1} ELSE {})
    BY StampedIs
  <1>3. Creators(t)' \subseteq Creators(t) \ (IF item.tag = t THEN {r} ELSE {})
    OBVIOUS
  <1>4. CASE item.tag = t
    <2>1. r \in Creators(t)
      BY <1>4
    <2>2. Tagged(t)' = {used + 1} /\ Creators(t)' = {}
      BY <1>1, <1>2, <1>3, <1>4, <2>1
    <2> QED BY <2>2
  <1>5. CASE item.tag # t
    BY <1>1, <1>2, <1>3, <1>5
  <1> QED BY <1>4, <1>5

-----------------------------------------------------------------------------
(* The last commit of an attempt                                              *)

\* The rows recorded are one or two steps, numbered on from the base.
LEMMA RecordedIs ==
  ASSUME NEW r \in Requests, req[r] \in Request, NEW reached \in BOOLEAN, NEW verified \in BOOLEAN,
         reached => req[r].step # "none"
  PROVE  \E v \in Step : \E f \in Step :
           /\ f.seq = req[r].base + 1
           /\ \/ Recorded(r, reached, verified) = {v} /\ v.seq = req[r].base + 1
              \/ Recorded(r, reached, verified) = {f, v} /\ v.seq = req[r].base + 2
  <1> DEFINE first == IF reached THEN {[name |-> req[r].step, seq |-> req[r].base + 1, ok |-> TRUE]} ELSE {}
             v(n) == [name |-> "verify_item", seq |-> req[r].base + n, ok |-> verified]
             f == [name |-> "verify_item", seq |-> req[r].base + 1, ok |-> TRUE]
  <1>1. req[r].base \in Nat /\ req[r].step \in {"none", "create_item", "adopt_item"}
    BY DEF Request
  <1>2. Recorded(r, reached, verified) =
          first \cup {[name |-> "verify_item", seq |-> req[r].base + Cardinality(first) + 1, ok |-> verified]}
    BY DEF Recorded
  <1>3. CASE reached
    <2> DEFINE g == [name |-> req[r].step, seq |-> req[r].base + 1, ok |-> TRUE]
    <2>1. first = {g} /\ g \in Step /\ g.seq = req[r].base + 1
      BY <1>1, <1>3 DEF Step
    <2>2. Cardinality(first) = 1
      BY <2>1, FS_Singleton
    <2>3. req[r].base + Cardinality(first) + 1 = req[r].base + 2
      BY <1>1, <2>2
    <2>4. Recorded(r, reached, verified) = {g, v(2)} /\ v(2).seq = req[r].base + 2 /\ v(2) \in Step
      BY <1>1, <1>2, <2>1, <2>3 DEF Step
    <2> HIDE DEF g, v
    <2> QED BY <2>1, <2>4
  <1>4. CASE ~reached
    <2>1. first = {} /\ f \in Step /\ f.seq = req[r].base + 1
      BY <1>1, <1>4 DEF Step
    <2>2. Cardinality(first) = 0
      BY <2>1, FS_EmptySet
    <2>3. req[r].base + Cardinality(first) + 1 = req[r].base + 1
      BY <1>1, <2>2
    <2>4. Recorded(r, reached, verified) = {v(1)} /\ v(1).seq = req[r].base + 1 /\ v(1) \in Step
      BY <1>1, <1>2, <2>1, <2>3 DEF Step
    <2> HIDE DEF f, v
    <2> QED BY <2>1, <2>4
  <1> QED BY <1>3, <1>4

\* One step more, numbered on, leaves the numbers in order.
LEMMA StepAdded ==
  ASSUME NEW S \in SUBSET Step, IsFiniteSet(S), {s.seq : s \in S} = 1..Cardinality(S),
         NEW v \in Step, v.seq = Cardinality(S) + 1
  PROVE  /\ IsFiniteSet(S \cup {v}) /\ Cardinality(S \cup {v}) = Cardinality(S) + 1
         /\ {s.seq : s \in S \cup {v}} = 1..Cardinality(S \cup {v})
  <1>1. Cardinality(S) \in Nat
    BY FS_CardinalityType
  <1>2. v \notin S
    <2> SUFFICES ASSUME v \in S PROVE FALSE
      OBVIOUS
    <2>1. v.seq \in 1..Cardinality(S)
      OBVIOUS
    <2> QED BY <1>1, <2>1
  <1>3. IsFiniteSet(S \cup {v}) /\ Cardinality(S \cup {v}) = Cardinality(S) + 1
    BY <1>2, FS_AddElement
  <1>4. {s.seq : s \in S \cup {v}} = {s.seq : s \in S} \cup {v.seq}
    OBVIOUS
  <1>5. 1..Cardinality(S) \cup {Cardinality(S) + 1} = 1..(Cardinality(S) + 1)
    BY <1>1
  <1> QED BY <1>3, <1>4, <1>5

\* The session of a request is over.
LEMMA FinishedIs ==
  ASSUME IInv, NEW r \in Requests, Finished(r)
  PROVE  /\ req' \in [Requests -> Request]
         /\ req'[r].pc = "done" /\ \A q \in Requests \ {r} : req'[q] = req[q]
         /\ UnderWayOK'
         /\ \A t \in Tasks : PastTheGate(t)' = PastTheGate(t) \ {r}
  <1>1. req \in [Requests -> Request]
    BY DEF IInv, TypeOK
  <1>2. [NotArrived EXCEPT !.pc = "done"] \in Request
    BY DEF NotArrived, NoMapping, Request, Mapping
  <1>3. [NotArrived EXCEPT !.pc = "done"].pc = "done"
    BY DEF NotArrived
  <1>4. req' = [req EXCEPT ![r] = [NotArrived EXCEPT !.pc = "done"]]
    BY DEF Finished
  <1>5. /\ req' \in [Requests -> Request]
        /\ req'[r].pc = "done" /\ \A q \in Requests \ {r} : req'[q] = req[q]
    BY <1>1, <1>2, <1>3, <1>4
  <1>6. UnderWayOK'
    BY <1>5 DEF IInv, UnderWayOK
  <1>7. \A t \in Tasks : PastTheGate(t)' = PastTheGate(t) \ {r}
    BY <1>5 DEF PastTheGate, TaskOf
  <1> QED BY <1>5, <1>6, <1>7

\* What the last commit of an attempt keeps, whatever it records: a step recorded
\* by another attempt fails it, and a mapping is moved only to an item of the task.
LEMMA CommitOK ==
  ASSUME IInv, NEW r \in Requests, req[r].pc \in {"find", "create", "read"},
         NEW reached \in BOOLEAN, NEW verified \in BOOLEAN, reached => req[r].pc = "read",
         NEW wanted \in Mapping,
         wanted.item = req[r].loaded.item \/ wanted.item \in Tagged(TaskOf(r)),
         NEW outcome \in {"succeeded", "failed"},
         Commit(r, Recorded(r, reached, verified), wanted, outcome), Finished(r),
         UNCHANGED <<board, used, crossed>>
  PROVE  /\ run' \in [Tasks -> Run] /\ mapping' \in [Tasks -> Mapping] /\ steps' \in [Tasks -> SUBSET Step]
         /\ StepsFinite' /\ OneAttempt' /\ AuditInOrder' /\ BoardOK' /\ MappingOK'
  <1> USE DEF IInv
  <1> DEFINE t == TaskOf(r)
             new == Recorded(r, reached, verified)
  <1>1. /\ run \in [Tasks -> Run] /\ mapping \in [Tasks -> Mapping] /\ steps \in [Tasks -> SUBSET Step]
        /\ req[r] \in Request /\ t \in Tasks
    BY TaskOfIs DEF TypeOK
  <1>2. \A u \in Tasks : PastTheGate(u)' = PastTheGate(u) \ {r} /\ PastTheGate(u)' \subseteq PastTheGate(u)
    BY FinishedIs
  <1>3. \A q \in Requests \ {r} : req'[q] = req[q]
    BY FinishedIs
  <1>4. r \in PastTheGate(t)
    BY DEF PastTheGate
  <1>5. BoardOK'
    BY DEF BoardOK, OnBoard
  <1>6. CASE UNCHANGED rows
    <2> USE <1>6 DEF rows
    <2>1. StepsFinite' /\ AuditInOrder'
      BY RowsKept
    <2>2. OneAttempt'
      <3>1. \A u \in Tasks : \A q \in PastTheGate(u)' : req'[q].base = req[q].base
        BY <1>2, <1>3 DEF PastTheGate
      <3> QED BY <1>2, <3>1, OneAttemptKept
    <2>3. MappingOK'
      BY DEF MappingOK, OnBoard
    <2> QED BY <1>1, <1>5, <2>1, <2>2, <2>3
  <1>7. CASE ~UNCHANGED rows
    <2>1. /\ ~Collides(t, new)
          /\ steps' = [steps EXCEPT ![t] = @ \cup new]
          /\ mapping' = [mapping EXCEPT ![t] = Flushed(t, req[r].loaded, wanted)]
          /\ run' = [run EXCEPT ![t].state = outcome]
      BY <1>7 DEF Commit
    <2>2. PICK v \in Step, f \in Step :
           /\ f.seq = req[r].base + 1
           /\ \/ new = {v} /\ v.seq = req[r].base + 1
              \/ new = {f, v} /\ v.seq = req[r].base + 2
      <3>1. reached => req[r].step # "none"
        BY DEF UnderWayOK
      <3> QED BY <1>1, <3>1, RecordedIs
    <2> HIDE DEF t, new
    <2>3. run' \in [Tasks -> Run]
      BY <1>1, <2>1 DEF Run
    <2>4. Flushed(t, req[r].loaded, wanted) \in Mapping
      BY <1>1 DEF Flushed, Mapping
    <2>5. mapping' \in [Tasks -> Mapping] /\ \A u \in Tasks : u # t => mapping'[u] = mapping[u]
      BY <1>1, <2>1, <2>4
    <2>6. /\ steps' \in [Tasks -> SUBSET Step] /\ steps'[t] = steps[t] \cup new
          /\ \A u \in Tasks : u # t => steps'[u] = steps[u]
      BY <1>1, <2>1, <2>2
    <2>7. StepsFinite'
      <3>1. IsFiniteSet(steps[t] \cup {v}) /\ IsFiniteSet((steps[t] \cup {f}) \cup {v})
        <4>1. IsFiniteSet(steps[t]) /\ IsFiniteSet(steps[t] \cup {f})
          BY <1>1, FS_AddElement DEF StepsFinite
        <4> QED BY <4>1, FS_AddElement
      <3>2. new = {v} \/ new = {f, v}
        BY <2>2
      <3>3. steps[t] \cup new = steps[t] \cup {v} \/ steps[t] \cup new = (steps[t] \cup {f}) \cup {v}
        BY <3>2
      <3>4. IsFiniteSet(steps'[t])
        BY <2>6, <3>1, <3>3
      <3> QED BY <2>6, <3>4 DEF StepsFinite
    <2>8. OneAttempt'
      <3>1. \A u \in Tasks : \A q \in PastTheGate(u)' : req'[q].base = req[q].base
        BY <1>2, <1>3 DEF PastTheGate
      <3>2. ASSUME NEW u \in Tasks, u \notin crossed, PastTheGate(u)' # {} PROVE steps'[u] = steps[u]
        <4>1. u # t
          BY <1>2, <1>4, <3>2 DEF OneAttempt
        <4> QED BY <2>6, <4>1
      <3> QED BY <1>2, <3>1, <3>2, OneAttemptKept
    <2>9. AuditInOrder'
      <3> SUFFICES ASSUME NEW u \in Tasks \ crossed
                   PROVE  {s.seq : s \in steps'[u]} = 1..Cardinality(steps'[u])
        BY DEF AuditInOrder
      <3>1. CASE u # t
        BY <2>6, <3>1 DEF AuditInOrder
      <3>2. CASE u = t
        <4>1. /\ req[r].base = Cardinality(steps[t]) /\ IsFiniteSet(steps[t]) /\ steps[t] \in SUBSET Step
              /\ {s.seq : s \in steps[t]} = 1..Cardinality(steps[t])
          BY <1>1, <1>4, <3>2 DEF OneAttempt, StepsFinite, AuditInOrder
        <4>2. CASE new = {v} /\ v.seq = req[r].base + 1
          <5>1. steps'[u] = steps[t] \cup {v} /\ v.seq = Cardinality(steps[t]) + 1
            BY <2>6, <3>2, <4>1, <4>2
          <5> QED BY <4>1, <5>1, StepAdded
        <4>3. CASE new = {f, v} /\ v.seq = req[r].base + 2
          <5> DEFINE S == steps[t] \cup {f}
          <5>1. /\ IsFiniteSet(S) /\ Cardinality(S) = Cardinality(steps[t]) + 1 /\ S \in SUBSET Step
                /\ {s.seq : s \in S} = 1..Cardinality(S)
            BY <2>2, <4>1, StepAdded
          <5>2. Cardinality(steps[t]) \in Nat
            BY <4>1, FS_CardinalityType
          <5>3. v.seq = Cardinality(S) + 1
            BY <4>1, <4>3, <5>1, <5>2
          <5>4. steps'[u] = S \cup {v}
            BY <2>6, <3>2, <4>3
          <5> HIDE DEF S
          <5> QED BY <5>1, <5>3, <5>4, StepAdded
        <4> QED BY <2>2, <4>2, <4>3
      <3> QED BY <3>1, <3>2
    <2>10. MappingOK'
      <3> SUFFICES ASSUME NEW u \in Tasks, mapping'[u].item # NoItem
                   PROVE  /\ mapping'[u].item <= used
                          /\ mapping'[u].item \in OnBoard => board[mapping'[u].item].tag = u
        BY DEF MappingOK, OnBoard
      <3>1. CASE mapping'[u].item = mapping[u].item
        BY <3>1 DEF MappingOK
      <3>2. CASE mapping'[u].item # mapping[u].item
        <4>1. u = t
          BY <2>5, <3>2
        <4>2. mapping'[t].item = wanted.item /\ wanted.item # req[r].loaded.item
          BY <1>1, <2>1, <3>2, <4>1 DEF Flushed
        <4>3. wanted.item \in Tagged(t)
          BY <4>2 DEF t
        <4> QED BY <4>1, <4>2, <4>3 DEF Tagged, BoardOK
      <3> QED BY <3>1, <3>2
    <2> QED BY <1>5, <2>3, <2>5, <2>6, <2>7, <2>8, <2>9, <2>10
  <1> QED BY <1>6, <1>7

-----------------------------------------------------------------------------
(* A request up to the gate and past it                                       *)

\* A request that waits neither for a create, nor before nor after the step, leaves
\* the creators as they are.
LEMMA SameCreators ==
  ASSUME NEW r \in Requests, req[r].pc # "create", req'[r].pc # "create",
         \A q \in Requests \ {r} : req'[q] = req[q], UNCHANGED <<board, wire>>
  PROVE  \A t \in Tasks : Creators(t)' = Creators(t) /\ Tagged(t)' = Tagged(t)
  BY DEF Creators, Tagged, TaskOf, OnBoard

LEMMA AskOK ==
  ASSUME IInv, NEW r \in Requests, NEW title \in Titles, NEW confirmed \in BOOLEAN,
         Ask(r, title, confirmed)
  PROVE  IInv'
  <1> USE DEF IInv
  <1> DEFINE row == [NotArrived EXCEPT !.pc = "gate", !.title = title, !.confirmed = confirmed,
                                       !.seen = Resembling(title)]
  <1>1. /\ TypeOK /\ req[r].pc = "new" /\ req' = [req EXCEPT ![r] = row]
        /\ UNCHANGED <<rows, monday, edits, seenBy>>
    BY DEF Ask
  <1>2. row \in Request /\ row.pc = "gate" /\ row.title = title
    BY DEF NotArrived, NoMapping, Request, Mapping, Resembling, OnBoard
  <1> HIDE DEF row
  <1>3. req' \in [Requests -> Request] /\ req'[r] = row /\ \A q \in Requests \ {r} : req'[q] = req[q]
    BY <1>1, <1>2 DEF TypeOK
  <1> USE <1>1 DEF rows, monday, seenBy
  <1>4. TypeOK' /\ UnderWayOK' /\ WireOK'
    BY <1>2, <1>3 DEF TypeOK, UnderWayOK, WireOK
  <1>5. OneSource'
    BY <1>2, <1>3, SameCreators, OneSourceKept
  <1>6. OneAttempt'
    <2>1. \A t \in Tasks : PastTheGate(t)' = PastTheGate(t)
      BY <1>2, <1>3 DEF PastTheGate, TaskOf
    <2>2. \A t \in Tasks : \A q \in PastTheGate(t) : req'[q] = req[q]
      BY <1>3 DEF PastTheGate
    <2> QED BY <2>1, <2>2, OneAttemptKept
  <1>7. StepsFinite' /\ AuditInOrder' /\ BoardOK' /\ MappingOK'
    BY RowsKept, BoardKept
  <1> QED BY <1>4, <1>5, <1>6, <1>7

LEMMA RefuseOK ==
  ASSUME IInv, NEW r \in Requests, Refuse(r)
  PROVE  IInv'
  <1> USE DEF IInv
  <1>1. /\ TypeOK /\ req[r].pc = "gate" /\ req' = [req EXCEPT ![r].pc = "refused"]
        /\ UNCHANGED <<rows, monday, edits, seenBy>>
    BY DEF Refuse
  <1>2. /\ req' \in [Requests -> Request] /\ req'[r].pc = "refused"
        /\ \A q \in Requests \ {r} : req'[q] = req[q]
    <2> HIDE DEF IInv
    <2> DEFINE row == [req[r] EXCEPT !.pc = "refused"]
    <2>1. req \in [Requests -> Request] /\ req' = [req EXCEPT ![r] = row]
      BY <1>1 DEF TypeOK
    <2>2. row \in Request /\ row.pc = "refused"
      BY <2>1 DEF Request
    <2> HIDE DEF row
    <2> QED BY <2>1, <2>2
  <1> USE <1>1 DEF rows, monday, seenBy
  <1>3. TypeOK' /\ UnderWayOK' /\ WireOK'
    BY <1>2 DEF TypeOK, UnderWayOK, WireOK
  <1>4. OneSource'
    BY <1>2, SameCreators, OneSourceKept
  <1>5. OneAttempt'
    <2>1. \A t \in Tasks : PastTheGate(t)' = PastTheGate(t)
      BY <1>2 DEF PastTheGate, TaskOf
    <2>2. \A t \in Tasks : \A q \in PastTheGate(t) : req'[q] = req[q]
      BY <1>2 DEF PastTheGate
    <2> QED BY <2>1, <2>2, OneAttemptKept
  <1>6. StepsFinite' /\ AuditInOrder' /\ BoardOK' /\ MappingOK'
    BY RowsKept, BoardKept
  <1> QED BY <1>3, <1>4, <1>5, <1>6

LEMMA ReserveOK ==
  ASSUME IInv, NEW r \in Requests, Reserve(r)
  PROVE  IInv'
  <1> USE DEF IInv
  <1> DEFINE t == TaskOf(r)
  <1>1. /\ TypeOK /\ req[r].pc = "gate"
        /\ run' = [run EXCEPT ![t] = [state |-> "running", attempts |-> @.attempts + 1]]
        /\ mapping' = [mapping EXCEPT ![t] = Reserved(t)]
        /\ req' = [req EXCEPT ![r].pc = "find", ![r].loaded = Reserved(t), ![r].base = Cardinality(steps[t])]
        /\ crossed' = IF PastTheGate(t) = {} THEN crossed ELSE crossed \cup {t}
        /\ UNCHANGED <<steps, monday, edits, raced>>
    BY DEF Reserve
  <1>2. t \in Tasks /\ Cardinality(steps[t]) \in Nat
    <2>1. t \in Tasks
      BY <1>1, TaskOfIs
    <2>2. IsFiniteSet(steps[t])
      BY <2>1 DEF StepsFinite
    <2> QED BY <2>1, <2>2, FS_CardinalityType
  <1>3. /\ Reserved(t) \in Mapping
        /\ Reserved(t).item = mapping[t].item
    <2>1. mapping[t] \in Mapping
      BY <1>1, <1>2 DEF TypeOK
    <2> QED BY <2>1 DEF Reserved, NoMapping, Mapping
  <1>4. /\ req' \in [Requests -> Request] /\ req'[r].pc = "find" /\ req'[r].title = req[r].title
        /\ req'[r].base = Cardinality(steps[t]) /\ \A q \in Requests \ {r} : req'[q] = req[q]
    <2> DEFINE row == [req[r] EXCEPT !.pc = "find", !.loaded = Reserved(t), !.base = Cardinality(steps[t])]
    <2>1. req' = [req EXCEPT ![r] = row]
      BY <1>1
    <2>2. /\ row \in Request /\ row.pc = "find" /\ row.title = req[r].title /\ row.base = Cardinality(steps[t])
      <3>1. req[r] \in Request
        BY <1>1 DEF TypeOK
      <3> HIDE DEF t
      <3> QED BY <1>2, <1>3, <3>1 DEF Request
    <2> HIDE DEF row
    <2> QED BY <1>1, <2>1, <2>2 DEF TypeOK
  <1>5. /\ mapping' \in [Tasks -> Mapping] /\ \A u \in Tasks : mapping'[u].item = mapping[u].item
        /\ run' \in [Tasks -> Run]
    <2> HIDE DEF t
    <2>1. mapping' \in [Tasks -> Mapping] /\ \A u \in Tasks : mapping'[u].item = mapping[u].item
      BY <1>1, <1>2, <1>3 DEF TypeOK
    <2>2. run' \in [Tasks -> Run]
      BY <1>1, <1>2 DEF TypeOK, Run
    <2> QED BY <2>1, <2>2
  <1>6. crossed \subseteq crossed' /\ crossed' \subseteq Tasks
    BY <1>1, <1>2 DEF TypeOK
  <1>7. UNCHANGED <<steps, board, wire, used, edits, raced>>
    BY <1>1 DEF monday
  <1>8. TypeOK'
    BY <1>1, <1>4, <1>5, <1>6, <1>7 DEF TypeOK
  <1>9. UnderWayOK' /\ WireOK'
    BY <1>1, <1>4, <1>7 DEF UnderWayOK, WireOK
  <1>10. OneSource'
    <2>1. req[r].pc # "create" /\ req'[r].pc # "create"
      BY <1>1, <1>4
    <2>2. \A u \in Tasks : Creators(u)' = Creators(u) /\ Tagged(u)' = Tagged(u)
      BY <1>4, <1>7, <2>1, SameCreators
    <2> QED BY <1>7, <2>2, OneSourceKept
  <1>11. OneAttempt'
    <2> SUFFICES ASSUME NEW u \in Tasks \ crossed'
                 PROVE  /\ \A p, q \in PastTheGate(u)' : p = q
                        /\ \A q \in PastTheGate(u)' : req'[q].base = Cardinality(steps[u])
      BY <1>7 DEF OneAttempt
    <2>1. PastTheGate(u)' = PastTheGate(u) \cup (IF u = t THEN {r} ELSE {})
      BY <1>1, <1>4 DEF PastTheGate, TaskOf
    <2>2. u \notin crossed
      BY <1>6
    <2>3. CASE u = t
      <3>1. PastTheGate(u) = {}
        BY <1>1, <2>3
      <3> QED BY <1>4, <2>1, <2>3, <3>1
    <2>4. CASE u # t
      <3>1. \A q \in PastTheGate(u) : req'[q] = req[q]
        BY <1>1, <1>4 DEF PastTheGate
      <3> QED BY <2>1, <2>2, <2>4, <3>1 DEF OneAttempt
    <2> QED BY <2>3, <2>4
  <1>12. StepsFinite' /\ AuditInOrder'
    BY <1>6, <1>7, RowsKept
  <1>13. BoardOK' /\ MappingOK'
    BY <1>5, <1>7 DEF BoardOK, MappingOK, OnBoard
  <1> QED BY <1>8, <1>9, <1>10, <1>11, <1>12, <1>13

-----------------------------------------------------------------------------
(* The item is looked for, adopted or created                                 *)

LEMMA FindNothingOK ==
  ASSUME IInv, NEW r \in Requests, FindNothing(r)
  PROVE  IInv'
  <1> USE DEF IInv
  <1> DEFINE t == TaskOf(r)
  <1>1. /\ TypeOK /\ req[r].pc = "find" /\ Tagged(t) = {}
        /\ req' = [req EXCEPT ![r].pc = "create", ![r].step = "create_item"]
        /\ raced' = IF CreateUnderWay(r) THEN raced \cup {t} ELSE raced
        /\ UNCHANGED <<run, mapping, steps, board, wire, used, edits, crossed>>
    BY DEF FindNothing, FoundFor, Looked, rows, monday
  <1>2. t \in Tasks /\ req[r].title \in Titles /\ wire[r] = NoItem
    BY <1>1, TaskOfIs
  <1>3. /\ req' \in [Requests -> Request] /\ req'[r].pc = "create" /\ req'[r].title = req[r].title
        /\ req'[r].base = req[r].base /\ \A q \in Requests \ {r} : req'[q] = req[q]
        /\ req'[r].step = "create_item"
    <2> DEFINE row == [req[r] EXCEPT !.pc = "create", !.step = "create_item"]
    <2>1. req' = [req EXCEPT ![r] = row]
      BY <1>1
    <2>2. req[r] \in Request
      BY <1>1 DEF TypeOK
    <2>3. row \in Request /\ row.title = req[r].title /\ row.base = req[r].base
      BY <1>1, <2>2 DEF Request
    <2>4. row.pc = "create" /\ row.step = "create_item"
      BY <2>2 DEF Request
    <2> HIDE DEF row
    <2> QED BY <1>1, <2>1, <2>3, <2>4 DEF TypeOK
  <1>4. raced \subseteq raced' /\ raced' \subseteq Tasks
    BY <1>1, <1>2 DEF TypeOK
  <1>5. TypeOK'
    BY <1>1, <1>3, <1>4 DEF TypeOK
  <1>6. UnderWayOK' /\ WireOK'
    BY <1>1, <1>2, <1>3 DEF UnderWayOK, WireOK
  <1>7. OneSource'
    <2> SUFFICES ASSUME NEW u \in Tasks \ raced'
                 PROVE  /\ \A i, j \in Tagged(u)' : i = j
                        /\ \A p, q \in Creators(u)' : p = q
                        /\ Tagged(u)' = {} \/ Creators(u)' = {}
      BY DEF OneSource
    <2>1. Tagged(u)' = Tagged(u)
      BY <1>1 DEF Tagged, OnBoard
    <2>2. Creators(u)' = Creators(u) \cup (IF u = t THEN {r} ELSE {})
      BY <1>1, <1>2, <1>3 DEF Creators, TaskOf
    <2>3. u \notin raced
      BY <1>4
    <2>4. CASE u = t
      <3>1. ~CreateUnderWay(r)
        BY <1>1, <2>4
      <3>2. Creators(u) = {}
        BY <1>1, <1>2, <2>4, <3>1 DEF CreateUnderWay, Creators
      <3> QED BY <1>1, <2>1, <2>2, <2>4, <3>2
    <2>5. CASE u # t
      BY <2>1, <2>2, <2>3, <2>5 DEF OneSource
    <2> QED BY <2>4, <2>5
  <1>8. OneAttempt'
    <2>1. \A u \in Tasks : PastTheGate(u)' = PastTheGate(u)
      BY <1>1, <1>3 DEF PastTheGate, TaskOf
    <2>2. \A u \in Tasks : \A q \in PastTheGate(u) : req'[q].base = req[q].base
      BY <1>3 DEF PastTheGate
    <2> QED BY <1>1, <2>1, <2>2, OneAttemptKept
  <1>9. StepsFinite' /\ AuditInOrder' /\ BoardOK' /\ MappingOK'
    BY <1>1, RowsKept, BoardKept
  <1> QED BY <1>5, <1>6, <1>7, <1>8, <1>9

LEMMA AdoptOK ==
  ASSUME IInv, NEW r \in Requests, Adopt(r)
  PROVE  IInv'
  <1> USE DEF IInv
  <1>1. /\ TypeOK /\ req[r].pc = "find"
        /\ raced' = IF CreateUnderWay(r) THEN raced \cup {TaskOf(r)} ELSE raced
        /\ UNCHANGED <<run, mapping, steps, board, wire, used, edits, crossed>>
    BY DEF Adopt, Looked, rows, monday
  <1>2. PICK i \in Ids : req' = [req EXCEPT ![r].pc = "read", ![r].item = i, ![r].step = "adopt_item"]
    BY DEF Adopt, FoundFor, Tagged, OnBoard
  <1>3. /\ req' \in [Requests -> Request] /\ req'[r].pc = "read" /\ req'[r].title = req[r].title
        /\ req'[r].base = req[r].base /\ req'[r].step = "adopt_item"
        /\ \A q \in Requests \ {r} : req'[q] = req[q]
    <2> DEFINE row == [req[r] EXCEPT !.pc = "read", !.item = i, !.step = "adopt_item"]
    <2>1. req' = [req EXCEPT ![r] = row]
      BY <1>2
    <2>2. req[r] \in Request
      BY <1>1 DEF TypeOK
    <2>3. row \in Request /\ row.title = req[r].title /\ row.base = req[r].base
      BY <1>2, <2>2 DEF Request
    <2>4. row.pc = "read" /\ row.step = "adopt_item"
      BY <2>2 DEF Request
    <2> HIDE DEF row
    <2> QED BY <1>1, <2>1, <2>3, <2>4 DEF TypeOK
  <1>4. raced \subseteq raced' /\ raced' \subseteq Tasks
    BY <1>1, TaskOfIs DEF TypeOK
  <1>5. TypeOK'
    BY <1>1, <1>3, <1>4 DEF TypeOK
  <1>6. UnderWayOK' /\ WireOK'
    BY <1>1, <1>3 DEF UnderWayOK, WireOK
  <1>7. OneSource'
    <2>1. \A u \in Tasks : Creators(u)' = Creators(u) /\ Tagged(u)' = Tagged(u)
      BY <1>1, <1>3, SameCreators
    <2> QED BY <1>4, <2>1, OneSourceKept
  <1>8. OneAttempt'
    <2>1. \A u \in Tasks : PastTheGate(u)' = PastTheGate(u)
      BY <1>1, <1>3 DEF PastTheGate, TaskOf
    <2>2. \A u \in Tasks : \A q \in PastTheGate(u) : req'[q].base = req[q].base
      BY <1>3 DEF PastTheGate
    <2> QED BY <1>1, <2>1, <2>2, OneAttemptKept
  <1>9. StepsFinite' /\ AuditInOrder' /\ BoardOK' /\ MappingOK'
    BY <1>1, RowsKept, BoardKept
  <1> QED BY <1>5, <1>6, <1>7, <1>8, <1>9

LEMMA CreateOK ==
  ASSUME IInv, NEW r \in Requests, Create(r)
  PROVE  IInv'
  <1> USE DEF IInv
  <1>1. /\ TypeOK /\ req[r].pc = "create" /\ Stamped(Wanted(r))
        /\ req' = [req EXCEPT ![r].pc = "read", ![r].item = used + 1]
        /\ UNCHANGED <<run, mapping, steps, wire, edits, raced, crossed>>
    BY DEF Create, rows, seenBy
  <1>2. TaskOf(r) \in Tasks /\ Wanted(r) \in Item /\ Wanted(r).tag = TaskOf(r) /\ wire[r] = NoItem
    BY <1>1, TaskOfIs
  <1>3. /\ used' \in 0..MaxItems /\ used + 1 \in Ids /\ board' \in [Ids -> Item \cup {NoItem}]
        /\ BoardOK' /\ MappingOK'
    BY <1>1, <1>2, StampedIs
  <1>4. /\ req' \in [Requests -> Request] /\ req'[r].pc = "read" /\ req'[r].title = req[r].title
        /\ req'[r].base = req[r].base /\ req'[r].step = req[r].step
        /\ \A q \in Requests \ {r} : req'[q] = req[q]
    <2> DEFINE row == [req[r] EXCEPT !.pc = "read", !.item = used + 1]
    <2>1. req' = [req EXCEPT ![r] = row]
      BY <1>1
    <2>2. req[r] \in Request
      BY <1>1 DEF TypeOK
    <2>3. row \in Request /\ row.title = req[r].title /\ row.base = req[r].base
      BY <1>3, <2>2 DEF Request
    <2>4. row.pc = "read" /\ row.step = req[r].step
      BY <2>2 DEF Request
    <2> HIDE DEF row
    <2> QED BY <1>1, <2>1, <2>3, <2>4 DEF TypeOK
  <1>5. TypeOK'
    BY <1>1, <1>3, <1>4 DEF TypeOK
  <1>6. UnderWayOK' /\ WireOK'
    BY <1>1, <1>4 DEF UnderWayOK, WireOK
  <1>7. OneSource'
    <2>1. \A t \in Tasks : Creators(t)' \subseteq Creators(t) \ (IF Wanted(r).tag = t THEN {r} ELSE {})
      BY <1>1, <1>2, <1>4 DEF Creators, TaskOf
    <2>2. r \in Creators(Wanted(r).tag)
      BY <1>1, <1>2 DEF Creators
    <2> QED BY <1>1, <1>2, <2>1, <2>2, OneSourceLands
  <1>8. OneAttempt'
    <2>1. \A u \in Tasks : PastTheGate(u)' = PastTheGate(u)
      BY <1>1, <1>4 DEF PastTheGate, TaskOf
    <2>2. \A u \in Tasks : \A q \in PastTheGate(u) : req'[q].base = req[q].base
      BY <1>4 DEF PastTheGate
    <2> QED BY <1>1, <2>1, <2>2, OneAttemptKept
  <1>9. StepsFinite' /\ AuditInOrder'
    BY <1>1, RowsKept
  <1> QED BY <1>3, <1>5, <1>6, <1>7, <1>8, <1>9

-----------------------------------------------------------------------------
(* The end of an attempt                                                      *)

LEMMA EndedOK ==
  ASSUME IInv, NEW r \in Requests, req[r].pc \in {"find", "create", "read"},
         NEW reached \in BOOLEAN, NEW verified \in BOOLEAN, reached => req[r].pc = "read",
         NEW wanted \in Mapping,
         wanted.item = req[r].loaded.item \/ wanted.item \in Tagged(TaskOf(r)),
         NEW outcome \in {"succeeded", "failed"},
         Commit(r, Recorded(r, reached, verified), wanted, outcome), Finished(r),
         UNCHANGED <<board, used, edits, crossed>>, raced \subseteq raced', raced' \subseteq Tasks,
         wire' = wire \/ (req[r].pc = "create" /\ wire' = [wire EXCEPT ![r] = Wanted(r)])
  PROVE  IInv'
  <1> USE DEF IInv
  <1>1. /\ run' \in [Tasks -> Run] /\ mapping' \in [Tasks -> Mapping] /\ steps' \in [Tasks -> SUBSET Step]
        /\ StepsFinite' /\ OneAttempt' /\ AuditInOrder' /\ BoardOK' /\ MappingOK'
    BY CommitOK
  <1>2. /\ req' \in [Requests -> Request] /\ UnderWayOK'
        /\ req'[r].pc = "done" /\ \A q \in Requests \ {r} : req'[q] = req[q]
    BY FinishedIs
  <1>3. TaskOf(r) \in Tasks /\ Wanted(r) \in Item /\ Wanted(r).tag = TaskOf(r) /\ wire[r] = NoItem
    BY TaskOfIs
  <1>4. /\ wire' \in [Requests -> Item \cup {NoItem}]
        /\ \A q \in Requests \ {r} : wire'[q] = wire[q]
        /\ wire'[r] = NoItem \/ (req[r].pc = "create" /\ wire'[r] = Wanted(r))
    BY <1>3 DEF TypeOK
  <1>5. TypeOK'
    BY <1>1, <1>2, <1>4 DEF TypeOK
  <1>6. WireOK'
    BY <1>2, <1>4 DEF WireOK
  <1>7. OneSource'
    <2>1. \A t \in Tasks : Tagged(t)' = Tagged(t)
      BY DEF Tagged, OnBoard
    <2>2. \A t \in Tasks : Creators(t)' \subseteq Creators(t)
      BY <1>2, <1>3, <1>4 DEF Creators, TaskOf
    <2> QED BY <2>1, <2>2, OneSourceKept
  <1> QED BY <1>1, <1>2, <1>5, <1>6, <1>7

LEMMA VerifyOK ==
  ASSUME IInv, NEW r \in Requests, Verify(r)
  PROVE  IInv'
  <1> DEFINE wanted == [state |-> "verified", item |-> req[r].item]
  <1>1. /\ req[r].pc = "read" /\ req[r].item \in OnBoard /\ board[req[r].item] = Wanted(r)
        /\ Commit(r, Recorded(r, TRUE, TRUE), wanted, "succeeded") /\ Finished(r)
        /\ UNCHANGED <<board, wire, used, edits, raced, crossed>>
    BY DEF Verify, ReadsBack, monday, seenBy
  <1>2. wanted \in Mapping /\ wanted.item \in Tagged(TaskOf(r)) /\ raced \subseteq Tasks
    <2>1. req[r].item \in Ids
      BY <1>1 DEF OnBoard
    <2> QED BY <1>1, <2>1, TaskOfIs DEF Mapping, Tagged, IInv, TypeOK
  <1> HIDE DEF wanted
  <1> QED BY <1>1, <1>2, EndedOK

\* What an attempt that fails asks of the mapping.
LEMMA FailedMappingIs ==
  ASSUME IInv, NEW r \in Requests
  PROVE  FailedMapping(r) \in Mapping /\ FailedMapping(r).item = req[r].loaded.item /\ raced \subseteq Tasks
  <1>1. req[r].loaded \in Mapping /\ raced \subseteq Tasks
    BY DEF IInv, TypeOK, Request
  <1> QED BY <1>1 DEF FailedMapping, Mapping

LEMMA MismatchOK ==
  ASSUME IInv, NEW r \in Requests, Mismatch(r)
  PROVE  IInv'
  <1>1. /\ req[r].pc = "read"
        /\ Commit(r, Recorded(r, TRUE, FALSE), FailedMapping(r), "failed") /\ Finished(r)
        /\ UNCHANGED <<board, wire, used, edits, raced, crossed>>
    BY DEF Mismatch, monday, seenBy
  <1> QED BY <1>1, FailedMappingIs, EndedOK

LEMMA FailOK ==
  ASSUME IInv, NEW r \in Requests, Fail(r)
  PROVE  IInv'
  <1> DEFINE reached == req[r].pc = "read"
  <1>1. /\ req[r].pc \in {"find", "create", "read"}
        /\ Commit(r, Recorded(r, reached, FALSE), FailedMapping(r), "failed") /\ Finished(r)
        /\ raced' = raced \/ raced' = raced \cup {TaskOf(r)}
        /\ UNCHANGED <<board, wire, used, edits, crossed>>
    BY DEF Fail, Looked, monday
  <1>2. raced \subseteq raced' /\ raced' \subseteq Tasks
    BY <1>1, TaskOfIs, FailedMappingIs
  <1>3. reached \in BOOLEAN /\ (reached => req[r].pc = "read")
    OBVIOUS
  <1> HIDE DEF reached
  <1> QED BY <1>1, <1>2, <1>3, FailedMappingIs, EndedOK

LEMMA GiveUpOK ==
  ASSUME IInv, NEW r \in Requests, GiveUp(r)
  PROVE  IInv'
  <1>1. /\ req[r].pc = "create" /\ wire' = [wire EXCEPT ![r] = Wanted(r)]
        /\ Commit(r, Recorded(r, FALSE, FALSE), FailedMapping(r), "failed") /\ Finished(r)
        /\ UNCHANGED <<board, used, edits, raced, crossed>>
    BY DEF GiveUp, seenBy
  <1> QED BY <1>1, FailedMappingIs, EndedOK

-----------------------------------------------------------------------------
(* Creates nobody waits for, and the end of the process                       *)

LEMMA LandLateOK ==
  ASSUME IInv, NEW r \in Requests, LandLate(r)
  PROVE  IInv'
  <1> USE DEF IInv
  <1>1. /\ TypeOK /\ wire[r] # NoItem /\ Stamped(wire[r])
        /\ wire' = [wire EXCEPT ![r] = NoItem]
        /\ UNCHANGED <<run, mapping, steps, req, edits, raced, crossed>>
    BY DEF LandLate, rows, seenBy
  <1>2. /\ wire[r] \in Item /\ wire' \in [Requests -> Item \cup {NoItem}]
        /\ wire'[r] = NoItem /\ \A q \in Requests \ {r} : wire'[q] = wire[q]
        /\ req[r].pc = "done"
    BY <1>1 DEF TypeOK, WireOK
  <1>3. /\ used' \in 0..MaxItems /\ board' \in [Ids -> Item \cup {NoItem}]
        /\ BoardOK' /\ MappingOK'
    BY <1>1, <1>2, StampedIs
  <1>4. TypeOK' /\ UnderWayOK' /\ WireOK'
    BY <1>1, <1>2, <1>3 DEF TypeOK, UnderWayOK, WireOK
  <1>5. OneSource'
    <2>1. \A t \in Tasks : Creators(t)' \subseteq Creators(t) \ (IF wire[r].tag = t THEN {r} ELSE {})
      BY <1>1, <1>2 DEF Creators, TaskOf
    <2>2. r \in Creators(wire[r].tag)
      BY <1>1 DEF Creators
    <2> QED BY <1>1, <1>2, <2>1, <2>2, OneSourceLands
  <1>6. OneAttempt' /\ StepsFinite' /\ AuditInOrder'
    <2>1. \A t : PastTheGate(t)' = PastTheGate(t)
      BY <1>1 DEF PastTheGate, TaskOf
    <2> QED BY <1>1, <2>1 DEF OneAttempt, StepsFinite, AuditInOrder
  <1> QED BY <1>3, <1>4, <1>5, <1>6

LEMMA VanishOK ==
  ASSUME IInv, NEW r \in Requests, Vanish(r)
  PROVE  IInv'
  <1> USE DEF IInv
  <1>1. /\ TypeOK /\ wire' = [wire EXCEPT ![r] = NoItem]
        /\ UNCHANGED <<run, mapping, steps, req, board, used, edits, raced, crossed>>
    BY DEF Vanish, rows, seenBy
  <1>2. /\ wire' \in [Requests -> Item \cup {NoItem}]
        /\ \A q \in Requests : wire'[q] \in {wire[q], NoItem}
    BY <1>1 DEF TypeOK
  <1>3. TypeOK' /\ UnderWayOK' /\ WireOK'
    BY <1>1, <1>2 DEF TypeOK, UnderWayOK, WireOK
  <1>4. OneSource'
    <2>1. \A t \in Tasks : Creators(t)' \subseteq Creators(t) /\ Tagged(t)' \subseteq Tagged(t)
      BY <1>1, <1>2 DEF Creators, TaskOf, Tagged, OnBoard
    <2> QED BY <1>1, <2>1, OneSourceKept
  <1>5. OneAttempt' /\ StepsFinite' /\ AuditInOrder'
    <2>1. \A t : PastTheGate(t)' = PastTheGate(t)
      BY <1>1 DEF PastTheGate, TaskOf
    <2> QED BY <1>1, <2>1 DEF OneAttempt, StepsFinite, AuditInOrder
  <1>6. BoardOK' /\ MappingOK'
    BY <1>1, BoardKept
  <1> QED BY <1>3, <1>4, <1>5, <1>6

LEMMA CrashOK ==
  ASSUME IInv, Crash
  PROVE  IInv'
  <1> USE DEF IInv
  <1> DEFINE dying(q) == req[q].pc \in {"gate", "find", "create", "read"}
             over == [NotArrived EXCEPT !.pc = "done"]
  <1>1. /\ TypeOK
        /\ wire' = [r \in Requests |-> IF req[r].pc = "create" THEN Wanted(r) ELSE wire[r]]
        /\ req' = [r \in Requests |-> IF dying(r) THEN over ELSE req[r]]
        /\ UNCHANGED <<run, mapping, steps, board, used, edits, raced, crossed>>
    BY DEF Crash, rows, seenBy
  <1>2. over \in Request /\ over.pc = "done"
    BY DEF NotArrived, NoMapping, Request, Mapping
  <1> HIDE DEF over
  <1>3. /\ req' \in [Requests -> Request]
        /\ \A q \in Requests : req'[q] = req[q] \/ (dying(q) /\ req'[q].pc = "done")
        /\ \A q \in Requests : ~(req'[q].pc \in {"gate", "find", "create", "read"})
    BY <1>1, <1>2 DEF TypeOK
  <1>4. /\ wire' \in [Requests -> Item \cup {NoItem}]
        /\ \A q \in Requests : req[q].pc = "create" => wire'[q] = Wanted(q) /\ Wanted(q).tag = TaskOf(q)
        /\ \A q \in Requests : req[q].pc # "create" => wire'[q] = wire[q]
    <2>1. \A q \in Requests : req[q].pc = "create" => Wanted(q) \in Item /\ Wanted(q).tag = TaskOf(q)
      BY TaskOfIs
    <2> QED BY <1>1, <2>1 DEF TypeOK
  <1>5. TypeOK'
    BY <1>1, <1>3, <1>4 DEF TypeOK
  <1>6. UnderWayOK' /\ WireOK'
    BY <1>1, <1>2, <1>3, <1>4 DEF UnderWayOK, WireOK
  <1>7. OneSource'
    <2>1. \A t \in Tasks : Tagged(t)' = Tagged(t)
      BY <1>1 DEF Tagged, OnBoard
    <2>2. \A t \in Tasks : Creators(t)' \subseteq Creators(t)
      BY <1>3, <1>4 DEF Creators
    <2> QED BY <1>1, <2>1, <2>2, OneSourceKept
  <1>8. OneAttempt'
    <2>1. \A t : PastTheGate(t)' = {}
      BY <1>3 DEF PastTheGate
    <2> QED BY <2>1 DEF OneAttempt
  <1>9. StepsFinite' /\ AuditInOrder' /\ BoardOK' /\ MappingOK'
    BY <1>1, RowsKept, BoardKept
  <1> QED BY <1>5, <1>6, <1>7, <1>8, <1>9

-----------------------------------------------------------------------------
(* People on the board                                                        *)

\* What people do leaves the attempts and their rows alone.
LEMMA PeopleKeepRows ==
  ASSUME IInv, UNCHANGED <<run, mapping, steps, req, wire, raced, crossed>>, Edited
  PROVE  /\ edits' \in 0..MaxEdits
         /\ UnderWayOK' /\ WireOK' /\ OneAttempt' /\ StepsFinite' /\ AuditInOrder'
         /\ \A t : Creators(t)' = Creators(t)
  <1> USE DEF IInv
  <1>1. edits' \in 0..MaxEdits
    BY MondayAssumption DEF Edited, TypeOK
  <1>2. UnderWayOK' /\ WireOK'
    BY DEF UnderWayOK, WireOK
  <1>3. OneAttempt' /\ StepsFinite' /\ AuditInOrder'
    <2>1. \A t : PastTheGate(t)' = PastTheGate(t)
      BY DEF PastTheGate, TaskOf
    <2> QED BY <2>1 DEF OneAttempt, StepsFinite, AuditInOrder
  <1>4. \A t : Creators(t)' = Creators(t)
    BY DEF Creators, TaskOf
  <1> QED BY <1>1, <1>2, <1>3, <1>4

LEMMA TypeInOK ==
  ASSUME IInv, NEW name \in Titles, TypeIn(name)
  PROVE  IInv'
  <1> USE DEF IInv
  <1> DEFINE typed == [tag |-> NoTask, name |-> name]
  <1>1. /\ TypeOK /\ Edited /\ Stamped(typed)
        /\ UNCHANGED <<run, mapping, steps, req, wire, raced, crossed>>
    BY DEF TypeIn, rows, seenBy
  <1>2. typed \in Item /\ typed.tag = NoTask
    BY DEF Item
  <1> HIDE DEF typed
  <1>3. /\ used' \in 0..MaxItems /\ board' \in [Ids -> Item \cup {NoItem}]
        /\ BoardOK' /\ MappingOK' /\ \A t \in Tasks : Tagged(t)' = Tagged(t)
    BY <1>1, <1>2, StampedIs, MondayAssumption
  <1>4. /\ edits' \in 0..MaxEdits
        /\ UnderWayOK' /\ WireOK' /\ OneAttempt' /\ StepsFinite' /\ AuditInOrder'
        /\ \A t : Creators(t)' = Creators(t)
    BY <1>1, PeopleKeepRows
  <1>5. TypeOK'
    BY <1>1, <1>3, <1>4 DEF TypeOK
  <1>6. OneSource'
    BY <1>1, <1>3, <1>4, OneSourceKept
  <1> QED BY <1>3, <1>4, <1>5, <1>6

LEMMA RenameOK ==
  ASSUME IInv, NEW i \in Ids, NEW name \in Titles, Rename(i, name)
  PROVE  IInv'
  <1> USE DEF IInv
  <1>1. /\ TypeOK /\ Edited /\ i \in OnBoard /\ board' = [board EXCEPT ![i].name = name]
        /\ UNCHANGED <<run, mapping, steps, req, wire, used, raced, crossed>>
    BY DEF Rename, rows, seenBy
  <1>2. /\ board' \in [Ids -> Item \cup {NoItem}]
        /\ \A j \in Ids : /\ board'[j] # NoItem => board[j] # NoItem /\ board'[j].tag = board[j].tag
    <2>1. board[i] \in Item /\ board \in [Ids -> Item \cup {NoItem}]
      BY <1>1 DEF OnBoard, TypeOK
    <2>2. [board[i] EXCEPT !.name = name] \in Item /\ [board[i] EXCEPT !.name = name].tag = board[i].tag
      BY <2>1 DEF Item
    <2>3. board' = [board EXCEPT ![i] = [board[i] EXCEPT !.name = name]] /\ board[i] # NoItem
      BY <1>1 DEF OnBoard
    <2> QED BY <2>1, <2>2, <2>3
  <1>3. /\ edits' \in 0..MaxEdits
        /\ UnderWayOK' /\ WireOK' /\ OneAttempt' /\ StepsFinite' /\ AuditInOrder'
        /\ \A t : Creators(t)' = Creators(t)
    BY <1>1, PeopleKeepRows
  <1>4. TypeOK'
    BY <1>1, <1>2, <1>3 DEF TypeOK
  <1>5. OneSource'
    <2>1. \A t \in Tasks : Tagged(t)' \subseteq Tagged(t)
      BY <1>2 DEF Tagged, OnBoard
    <2> QED BY <1>1, <1>3, <2>1, OneSourceKept
  <1>6. BoardOK' /\ MappingOK'
    BY <1>1, <1>2, BoardKept
  <1> QED BY <1>3, <1>4, <1>5, <1>6

LEMMA DeleteOK ==
  ASSUME IInv, NEW i \in Ids, Delete(i)
  PROVE  IInv'
  <1> USE DEF IInv
  <1>1. /\ TypeOK /\ Edited /\ board' = [board EXCEPT ![i] = NoItem]
        /\ UNCHANGED <<run, mapping, steps, req, wire, used, raced, crossed>>
    BY DEF Delete, rows, seenBy
  <1>2. /\ board' \in [Ids -> Item \cup {NoItem}]
        /\ \A j \in Ids : board'[j] # NoItem => board[j] # NoItem /\ board'[j].tag = board[j].tag
    BY <1>1 DEF TypeOK
  <1>3. /\ edits' \in 0..MaxEdits
        /\ UnderWayOK' /\ WireOK' /\ OneAttempt' /\ StepsFinite' /\ AuditInOrder'
        /\ \A t : Creators(t)' = Creators(t)
    BY <1>1, PeopleKeepRows
  <1>4. TypeOK'
    BY <1>1, <1>2, <1>3 DEF TypeOK
  <1>5. OneSource'
    <2>1. \A t \in Tasks : Tagged(t)' \subseteq Tagged(t)
      BY <1>2 DEF Tagged, OnBoard
    <2> QED BY <1>1, <1>3, <2>1, OneSourceKept
  <1>6. BoardOK' /\ MappingOK'
    BY <1>1, <1>2, BoardKept
  <1> QED BY <1>3, <1>4, <1>5, <1>6

-----------------------------------------------------------------------------
(* The theorems                                                               *)

LEMMA InitOK == Init => IInv
  <1> SUFFICES ASSUME Init PROVE IInv
    OBVIOUS
  <1> USE DEF Init
  <1>1. NoRun \in Run /\ NoMapping \in Mapping /\ NotArrived \in Request /\ NotArrived.pc = "new"
    BY DEF NoRun, Run, NoMapping, Mapping, NotArrived, Request
  <1>2. TypeOK
    BY <1>1, MondayAssumption DEF TypeOK
  <1>3. UnderWayOK /\ WireOK
    BY <1>1 DEF UnderWayOK, WireOK
  <1>4. OneSource /\ BoardOK
    <2>1. \A t : Tagged(t) = {} /\ Creators(t) = {}
      BY <1>1 DEF Tagged, OnBoard, Creators
    <2> QED BY <2>1 DEF OneSource, BoardOK, OnBoard
  <1>5. OneAttempt
    <2>1. \A t : PastTheGate(t) = {}
      BY <1>1 DEF PastTheGate
    <2> QED BY <2>1 DEF OneAttempt
  <1>6. StepsFinite /\ AuditInOrder
    <2>1. \A t \in Tasks : steps[t] = {}
      OBVIOUS
    <2>2. IsFiniteSet({}) /\ Cardinality({}) = 0
      BY FS_EmptySet
    <2> QED BY <2>1, <2>2 DEF StepsFinite, AuditInOrder
  <1>7. MappingOK
    BY DEF MappingOK, NoMapping
  <1> QED BY <1>2, <1>3, <1>4, <1>5, <1>6, <1>7 DEF IInv

LEMMA NextOK == IInv /\ [Next]_vars => IInv'
  <1> SUFFICES ASSUME IInv, [Next]_vars PROVE IInv'
    OBVIOUS
  <1>1. ASSUME NEW r \in Requests, NEW title \in Titles, NEW confirmed \in BOOLEAN, Ask(r, title, confirmed)
        PROVE  IInv'
    BY <1>1, AskOK
  <1>2. ASSUME NEW r \in Requests,
               \/ Refuse(r) \/ Reserve(r)
               \/ FindNothing(r) \/ Adopt(r) \/ Create(r)
               \/ Verify(r) \/ Mismatch(r) \/ Fail(r) \/ GiveUp(r)
               \/ LandLate(r) \/ Vanish(r)
        PROVE  IInv'
    BY <1>2, RefuseOK, ReserveOK, FindNothingOK, AdoptOK, CreateOK, VerifyOK, MismatchOK, FailOK,
       GiveUpOK, LandLateOK, VanishOK
  <1>3. CASE Crash
    BY <1>3, CrashOK
  <1>4. ASSUME NEW name \in Titles, TypeIn(name)
        PROVE  IInv'
    BY <1>4, TypeInOK
  <1>5. ASSUME NEW i \in Ids, NEW name \in Titles, Rename(i, name)
        PROVE  IInv'
    BY <1>5, RenameOK
  <1>6. ASSUME NEW i \in Ids, Delete(i)
        PROVE  IInv'
    BY <1>6, DeleteOK
  <1>7. CASE UNCHANGED vars
    <2> USE <1>7 DEF IInv, vars, rows, monday, seenBy
    <2>1. TypeOK' /\ UnderWayOK' /\ WireOK' /\ StepsFinite' /\ AuditInOrder'
      BY DEF TypeOK, UnderWayOK, WireOK, StepsFinite, AuditInOrder
    <2>2. OneSource' /\ OneAttempt'
      BY DEF OneSource, OneAttempt, Tagged, OnBoard, Creators, PastTheGate, TaskOf
    <2>3. BoardOK' /\ MappingOK'
      BY DEF BoardOK, MappingOK, OnBoard
    <2> QED BY <2>1, <2>2, <2>3
  <1> QED BY <1>1, <1>2, <1>3, <1>4, <1>5, <1>6, <1>7 DEF Next

LEMMA Invariant == Spec => []IInv
  BY InitOK, NextOK, PTL DEF Spec

\* Every row, request and board column holds a value of its kind.
THEOREM MondayTyped == Spec => []TypeOK
  <1>1. IInv => TypeOK
    BY DEF IInv
  <1> QED BY <1>1, Invariant, PTL

\* Whatever crashed, failed, timed out or was retried, the board holds at most one
\* item of a task that was never looked up during another create of it
\* (create_task_from_evidence, find_by_admin_os_id).
THEOREM AtMostOneItem == Spec => []OneItemPerTask
  <1>1. IInv => OneItemPerTask
    <2> SUFFICES ASSUME IInv, NEW t \in Tasks \ raced PROVE Cardinality(Tagged(t)) <= 1
      BY DEF OneItemPerTask
    <2>1. \A i, j \in Tagged(t) : i = j
      BY DEF IInv, OneSource
    <2>2. CASE Tagged(t) = {}
      BY <2>2, FS_EmptySet
    <2>3. CASE Tagged(t) # {}
      <3>1. PICK i : i \in Tagged(t)
        BY <2>3
      <3>2. Tagged(t) = {i}
        BY <2>1, <3>1
      <3>3. Cardinality({i}) = 1
        BY FS_Singleton
      <3> QED BY <3>2, <3>3
    <2> QED BY <2>2, <2>3
  <1> QED BY <1>1, Invariant, PTL

\* The steps of a run number what happened in order over all its attempts, unless
\* two of them were past the gate at once (AuditLog.step).
THEOREM StepsNumbered == Spec => []AuditInOrder
  <1>1. IInv => AuditInOrder
    BY DEF IInv
  <1> QED BY <1>1, Invariant, PTL

\* A commit moves the mapping of a task, looked up during no other create of it, to
\* another item only when the one it named is gone.
LEMMA MovedOnlyWhenGone ==
  ASSUME IInv, [Next]_vars, NEW t \in Tasks \ raced,
         mapping[t].item \notin {NoItem, mapping'[t].item}
  PROVE  mapping[t].item \notin OnBoard
  <1> USE DEF IInv
  <1>1. mapping \in [Tasks -> Mapping]
    BY DEF TypeOK
  <1>2. ASSUME NEW r \in Requests, NEW reached, NEW verified, NEW outcome,
               Commit(r, Recorded(r, reached, verified), FailedMapping(r), outcome)
        PROVE  mapping'[t].item = mapping[t].item
    <2>1. FailedMapping(r).item = req[r].loaded.item
      BY FailedMappingIs
    <2> QED BY <1>1, <1>2, <2>1 DEF Commit, rows, Flushed
  <1>3. ASSUME NEW r \in Requests, Reserve(r)
        PROVE  mapping'[t].item = mapping[t].item
    <2>1. mapping' = [mapping EXCEPT ![TaskOf(r)] = Reserved(TaskOf(r))]
      BY <1>3 DEF Reserve
    <2> QED BY <1>1, <2>1 DEF Reserved, NoMapping
  <1>4. \E r \in Requests : Verify(r)
    <2>1. ~UNCHANGED mapping
      OBVIOUS
    <2>2. \A r \in Requests : ~Mismatch(r) /\ ~Fail(r) /\ ~GiveUp(r) /\ ~Reserve(r)
      BY <1>2, <1>3 DEF Mismatch, Fail, GiveUp
    <2> QED BY <2>1, <2>2 DEF Next, vars, rows, Ask, Refuse, FindNothing, Adopt, Create, LandLate,
               Vanish, Crash, TypeIn, Rename, Delete
  <1>5. PICK r \in Requests : Verify(r)
    BY <1>4
  <1>6. /\ req[r].pc = "read" /\ req[r].item \in OnBoard /\ board[req[r].item] = Wanted(r)
        /\ Commit(r, Recorded(r, TRUE, TRUE), [state |-> "verified", item |-> req[r].item], "succeeded")
    BY <1>5 DEF Verify, ReadsBack
  <1>7. TaskOf(r) = t /\ mapping'[t].item = req[r].item
    <2> DEFINE wanted == [state |-> "verified", item |-> req[r].item]
               u == TaskOf(r)
    <2>1. mapping' = mapping \/ mapping' = [mapping EXCEPT ![u] = Flushed(u, req[r].loaded, wanted)]
      BY <1>6 DEF Commit, rows
    <2>2. Flushed(u, req[r].loaded, wanted).item \in {mapping[u].item, req[r].item}
      BY DEF Flushed
    <2> HIDE DEF wanted, u
    <2>3. u = t /\ mapping'[t].item = req[r].item
      BY <1>1, <2>1, <2>2
    <2> QED BY <2>3 DEF u
  <1>8. req[r].item \in Tagged(t)
    BY <1>6, <1>7, TaskOfIs DEF Tagged
  <1>9. mapping[t].item \in OnBoard => mapping[t].item \in Tagged(t)
    BY DEF MappingOK, Tagged
  <1> QED BY <1>7, <1>8, <1>9 DEF OneSource

\* A task moves to another item only when its item is gone from the board, or two
\* creates of it raced (the mapping row that create_task_from_evidence flushes).
THEOREM TaskKeepsItsItem == Spec => ItemKept
  <1>1. IInv /\ [Next]_vars =>
          [\A t \in Tasks \ raced :
             mapping[t].item \notin {NoItem, mapping'[t].item} => mapping[t].item \notin OnBoard]_vars
    BY MovedOnlyWhenGone
  <1> QED BY <1>1, Invariant, PTL DEF Spec, ItemKept
=============================================================================
