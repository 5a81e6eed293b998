------------------------ MODULE ActionExecutionProofs ------------------------
(***************************************************************************)
(* Proofs about ActionExecution, for every set of actions, items, requests *)
(* and every bound: the types, that nothing half done is ever committed,   *)
(* that the row lock makes one writer per action, that the committed       *)
(* record implements ActionPromise, and what the record shows of Gmail.    *)
(*                                                                         *)
(* The first strengthening, IInv, follows one request's transaction t.     *)
(* What makes a commit safe is what t has flushed (RowsOK, ItemsOK), and   *)
(* that is only preserved because t works on one action at a time (CurOK)  *)
(* and because two requests never hold one row (LocksOK).                  *)
(*                                                                         *)
(* The second, EffectInv, adds what is in the mailbox: a row is true of    *)
(* it (RowTrue) whether it is committed, flushed or only loaded, and what  *)
(* it says of a draft stays so, since a draft never comes back; and of an  *)
(* action nothing excuses, one draft at most was ever written.             *)
(***************************************************************************)
EXTENDS ActionExecution, FiniteSetTheorems, TLAPS

Busy == {"check", "look", "write", "verify"}
Outcomes == {"completed", "failed"}

\* t works on one of its actions between two awaits of a loop turn, on a row it
\* has locked unless it only reads back, and never comes back to a finished one.
CurOK(t) ==
  /\ t.pc \in Busy => t.cur \in t.todo
  /\ t.pc \notin Busy => t.cur = NoAction
  /\ t.pc \in {"check", "look", "write"} => t.cur \in t.held
  /\ t.pc = "idle" => t.held = {} /\ t.iheld = {} /\ t.todo = {}
  /\ t.todo \cap t.held \subseteq {t.cur}

\* What is still to run may be attempted once more.
BoundOK(t) ==
  \A a \in t.todo \ {t.cur} :
    t.obj[a].state = "completed" \/ t.obj[a].attempts < MaxAttempts

\* A loaded outcome is still an outcome in the row; what t has finished with
\* has one; and t never touches an action that was not recorded.
RowsOK(t) ==
  \A a \in Actions :
    /\ t.obj[a].state \in Outcomes => Seen(t, a).state \in Outcomes
    /\ a \in t.held \ {t.cur} => t.row[a].state \in Outcomes
    /\ a \in t.todo \cup t.held => action[a].state # "absent"

\* An item row t has written carries the outcome of an action t has finished with.
ItemsOK(t) ==
  \A i \in t.iheld :
    /\ t.irow[i] = t.iobj[i] /\ t.irow[i] \in {"executed", "failed"}
    /\ \E a \in t.held \ {t.cur} :
         ItemOf[a] = i /\ (t.irow[i] = "executed" => t.row[a].state = "completed")

TxOK(t) == CurOK(t) /\ BoundOK(t) /\ RowsOK(t) /\ ItemsOK(t)

ScopeOK == \A a \in scope.actions : action[a].state # "absent"
DecisionOK == decision.item # NoItem => decision.to \in Verdicts
MailOK == \A d \in live : text[d] # 0
LocksOK == \A r, q \in Requests : r # q => tx[r].held \cap tx[q].held = {}

IInv ==
  /\ TypeOK /\ NeverHalfDone /\ ScopeOK /\ DecisionOK /\ MailOK /\ LocksOK
  /\ \A r \in Requests : TxOK(tx[r])
-----------------------------------------------------------------------------
(* What the operators on one transaction do                                *)

With(t, p, todo, cur, held, obj, row, iheld, iobj, irow) ==
  [t EXCEPT !.pc = p, !.todo = todo, !.cur = cur, !.held = held, !.obj = obj,
            !.row = row, !.iheld = iheld, !.iobj = iobj, !.irow = irow]

\* A transaction is its fields, whichever of them a step replaces.
LEMMA Replaced ==
  ASSUME NEW t \in TxType,
         NEW p \in {"idle", "ready", "check", "look", "write", "verify"},
         NEW todo \in SUBSET Actions, NEW cur \in Actions \cup {NoAction},
         NEW held \in SUBSET Actions, NEW iheld \in SUBSET Items,
         NEW obj \in [Actions -> Row], NEW row \in [Actions -> Row],
         NEW iobj \in [Items -> ItemStates], NEW irow \in [Items -> ItemStates]
  PROVE  LET s == With(t, p, todo, cur, held, obj, row, iheld, iobj, irow)
         IN  /\ s \in TxType
             /\ s.pc = p /\ s.todo = todo /\ s.cur = cur /\ s.held = held
             /\ s.obj = obj /\ s.row = row /\ s.iheld = iheld /\ s.iobj = iobj
             /\ s.irow = irow /\ s.wrote = t.wrote
<1> DEFINE t1 == [t EXCEPT !.pc = p]
           t2 == [t1 EXCEPT !.todo = todo]
           t3 == [t2 EXCEPT !.cur = cur]
           t4 == [t3 EXCEPT !.held = held]
           t5 == [t4 EXCEPT !.obj = obj]
           t6 == [t5 EXCEPT !.row = row]
           t7 == [t6 EXCEPT !.iheld = iheld]
           t8 == [t7 EXCEPT !.iobj = iobj]
           t9 == [t8 EXCEPT !.irow = irow]
<1>1. /\ t1 \in TxType /\ t1.wrote = t.wrote /\ t1.pc = p
  BY DEF TxType
<1> HIDE DEF t1
<1>2. /\ t2 \in TxType /\ t2.wrote = t.wrote /\ t2.pc = p /\ t2.todo = todo
  BY <1>1 DEF TxType
<1> HIDE DEF t2
<1>3. /\ t3 \in TxType /\ t3.wrote = t.wrote /\ t3.pc = p /\ t3.todo = todo /\ t3.cur = cur
  BY <1>2 DEF TxType
<1> HIDE DEF t3
<1>4. /\ t4 \in TxType /\ t4.wrote = t.wrote /\ t4.pc = p /\ t4.todo = todo /\ t4.cur = cur
      /\ t4.held = held
  BY <1>3 DEF TxType
<1> HIDE DEF t4
<1>5. /\ t5 \in TxType /\ t5.wrote = t.wrote /\ t5.pc = p /\ t5.todo = todo /\ t5.cur = cur
      /\ t5.held = held /\ t5.obj = obj
  BY <1>4 DEF TxType
<1> HIDE DEF t5
<1>6. /\ t6 \in TxType /\ t6.wrote = t.wrote /\ t6.pc = p /\ t6.todo = todo /\ t6.cur = cur
      /\ t6.held = held /\ t6.obj = obj /\ t6.row = row
  BY <1>5 DEF TxType
<1> HIDE DEF t6
<1>7. /\ t7 \in TxType /\ t7.wrote = t.wrote /\ t7.pc = p /\ t7.todo = todo /\ t7.cur = cur
      /\ t7.held = held /\ t7.obj = obj /\ t7.row = row /\ t7.iheld = iheld
  BY <1>6 DEF TxType
<1> HIDE DEF t7
<1>8. /\ t8 \in TxType /\ t8.wrote = t.wrote /\ t8.pc = p /\ t8.todo = todo /\ t8.cur = cur
      /\ t8.held = held /\ t8.obj = obj /\ t8.row = row /\ t8.iheld = iheld
      /\ t8.iobj = iobj
  BY <1>7 DEF TxType
<1> HIDE DEF t8
<1>9. /\ t9 \in TxType /\ t9.wrote = t.wrote /\ t9.pc = p /\ t9.todo = todo /\ t9.cur = cur
      /\ t9.held = held /\ t9.obj = obj /\ t9.row = row /\ t9.iheld = iheld
      /\ t9.iobj = iobj /\ t9.irow = irow
  BY <1>8 DEF TxType
<1>. QED
  BY <1>9 DEF With, t1, t2, t3, t4, t5, t6, t7, t8

\* What the end of an attempt with t leaves in the transaction s.
EndedShape(t, s, o, w, verdict) ==
  LET i == ItemOf[t.cur]
      changes == t.iobj[i] # verdict
  IN  /\ s.pc = "ready" /\ s.cur = NoAction /\ s.wrote = t.wrote
      /\ s.todo = t.todo \ {t.cur} /\ s.held = t.held \cup {t.cur}
      /\ \A b \in Actions : /\ s.obj[b] = IF b = t.cur THEN o ELSE t.obj[b]
                           /\ s.row[b] = IF b = t.cur THEN w ELSE t.row[b]
      /\ s.iheld = IF changes THEN t.iheld \cup {i} ELSE t.iheld
      /\ \A j \in Items : /\ s.iobj[j] = IF j = i THEN verdict ELSE t.iobj[j]
                         /\ s.irow[j] = IF j = i /\ changes THEN verdict ELSE t.irow[j]

LEMMA EndedFacts ==
  ASSUME NEW t \in TxType, t.cur \in Actions, NEW o \in Row, NEW w \in Row,
         NEW verdict \in ItemStates
  PROVE  /\ Ended(t, o, w, verdict) \in TxType
         /\ EndedShape(t, Ended(t, o, w, verdict), o, w, verdict)
<1> DEFINE i == ItemOf[t.cur]
           changes == t.iobj[i] # verdict
           todo == t.todo \ {t.cur}
           held == t.held \cup {t.cur}
           obj == [t.obj EXCEPT ![t.cur] = o]
           row == [t.row EXCEPT ![t.cur] = w]
           iheld == IF changes THEN t.iheld \cup {i} ELSE t.iheld
           iobj == [t.iobj EXCEPT ![i] = verdict]
           irow == [t.irow EXCEPT ![i] = IF changes THEN verdict ELSE t.irow[i]]
<1>1. i \in Items
  BY ActionsAssumption
<1>2. /\ todo \in SUBSET Actions /\ held \in SUBSET Actions /\ iheld \in SUBSET Items
      /\ obj \in [Actions -> Row] /\ row \in [Actions -> Row]
      /\ iobj \in [Items -> ItemStates] /\ irow \in [Items -> ItemStates]
  BY <1>1 DEF TxType
<1>. HIDE DEF todo, held, obj, row, iheld, iobj, irow
<1>. DEFINE s == Ended(t, o, w, verdict)
<1>4. s = With(t, "ready", todo, NoAction, held, obj, row, iheld, iobj, irow)
  BY Zenon DEF Ended, With, todo, held, obj, row, iheld, iobj, irow
<1>. HIDE DEF s
<1>5. /\ s \in TxType
      /\ s.pc = "ready" /\ s.todo = todo /\ s.cur = NoAction /\ s.held = held
      /\ s.obj = obj /\ s.row = row /\ s.iheld = iheld /\ s.iobj = iobj
      /\ s.irow = irow /\ s.wrote = t.wrote
  BY <1>2, <1>4, Replaced
<1>. QED
  BY <1>1, <1>5 DEF EndedShape, TxType, s, todo, held, obj, row, iheld, iobj, irow

\* A transaction that ends an attempt with an outcome stays sound.
LEMMA EndedOK ==
  ASSUME NEW t \in TxType, TxOK(t), t.pc \in Busy, NEW o \in Row, NEW w \in Row,
         NEW verdict \in {"executed", "failed"},
         w.state \in Outcomes, verdict = "executed" => w.state = "completed"
  PROVE  /\ Ended(t, o, w, verdict) \in TxType /\ TxOK(Ended(t, o, w, verdict))
         /\ Ended(t, o, w, verdict).held = t.held \cup {t.cur}
<1> DEFINE s == Ended(t, o, w, verdict)
           a == t.cur
           i == ItemOf[a]
<1>1. a \in Actions /\ a \in t.todo /\ i \in Items /\ NoAction \notin Actions
  BY ActionsAssumption DEF TxOK, CurOK, TxType
<1>2. verdict \in ItemStates
  BY DEF ItemStates
<1>3. s \in TxType /\ EndedShape(t, s, o, w, verdict)
  BY <1>1, <1>2, EndedFacts
<1>. HIDE DEF s
<1>4. /\ t.obj \in [Actions -> Row] /\ t.row \in [Actions -> Row]
      /\ t.iobj \in [Items -> ItemStates] /\ t.irow \in [Items -> ItemStates]
      /\ t.todo \subseteq Actions /\ t.held \subseteq Actions /\ t.iheld \subseteq Items
  BY DEF TxType
<1>5. CurOK(s)
  BY <1>1, <1>3 DEF EndedShape, TxOK, CurOK, Busy
<1>6. BoundOK(s)
  BY <1>1, <1>3, <1>4 DEF EndedShape, TxOK, BoundOK
<1>7. RowsOK(s)
  BY <1>1, <1>3, <1>4 DEF EndedShape, TxOK, RowsOK, Seen
<1>8. ItemsOK(s)
  <2> SUFFICES ASSUME NEW j \in s.iheld
               PROVE  /\ s.irow[j] = s.iobj[j] /\ s.irow[j] \in {"executed", "failed"}
                      /\ \E b \in s.held \ {s.cur} :
                           ItemOf[b] = j /\ (s.irow[j] = "executed" => s.row[b].state = "completed")
    BY DEF ItemsOK
  <2>1. CASE j = i /\ t.iobj[i] # verdict
    <3>1. s.irow[j] = verdict /\ s.iobj[j] = verdict
      BY <1>1, <1>3, <1>4, <2>1 DEF EndedShape
    <3>2. a \in s.held \ {s.cur} /\ ItemOf[a] = j /\ s.row[a] = w
      BY <1>1, <1>3, <1>4, <2>1 DEF EndedShape
    <3>. QED
      BY <3>1, <3>2
  <2>2. CASE ~(j = i /\ t.iobj[i] # verdict)
    <3>1. j \in t.iheld /\ j \in Items
      BY <1>3, <1>4, <2>2 DEF EndedShape
    <3>2. s.irow[j] = t.irow[j] /\ s.iobj[j] = t.iobj[j]
      BY <1>3, <1>4, <2>2, <3>1 DEF EndedShape
    <3>3. PICK b \in t.held \ {t.cur} :
            ItemOf[b] = j /\ (t.irow[j] = "executed" => t.row[b].state = "completed")
      BY <3>1 DEF TxOK, ItemsOK
    <3>4. b \in s.held \ {s.cur} /\ s.row[b] = t.row[b]
      BY <1>1, <1>3, <1>4, <3>3 DEF EndedShape
    <3>. QED
      BY <3>1, <3>2, <3>3, <3>4 DEF TxOK, ItemsOK
  <2>. QED
    BY <2>1, <2>2
<1>. QED
  BY <1>3, <1>5, <1>6, <1>7, <1>8 DEF EndedShape, TxOK, s

LEMMA SeenRow ==
  ASSUME NEW t \in TxType, NEW a \in Actions, action \in [Actions -> Row]
  PROVE  Seen(t, a) \in Row /\ t.obj[a] \in Row
BY DEF Seen, TxType

LEMMA SettledOK ==
  ASSUME NEW t \in TxType, TxOK(t), t.pc \in Busy, NEW m \in 0 .. MaxText,
         action \in [Actions -> Row]
  PROVE  /\ Settled(t, m) \in TxType /\ TxOK(Settled(t, m))
         /\ Settled(t, m).held = t.held \cup {t.cur}
<1> DEFINE o == t.obj[t.cur]
           w == Seen(t, t.cur)
           o1 == [o EXCEPT !.state = "completed", !.msg = m]
           w1 == [w EXCEPT !.state = "completed", !.msg = Put(w.msg, o.msg, m)]
<1>1. t.cur \in Actions
  BY DEF TxOK, CurOK, TxType
<1>2. o \in Row /\ w \in Row
  BY <1>1, SeenRow
<1>3. o1 \in Row /\ w1 \in Row /\ w1.state = "completed"
  BY <1>2 DEF Row, ActionStates, Put
<1>4. Settled(t, m) = Ended(t, o1, w1, "executed")
  BY DEF Settled
<1>. HIDE DEF o1, w1
<1>. QED
  BY <1>3, <1>4, EndedOK DEF Outcomes

LEMMA FailedOK ==
  ASSUME NEW t \in TxType, TxOK(t), t.pc \in Busy, NEW m \in 0 .. MaxText,
         action \in [Actions -> Row]
  PROVE  /\ Failed(t, m) \in TxType /\ TxOK(Failed(t, m))
         /\ Failed(t, m).held = t.held \cup {t.cur}
<1> DEFINE o == t.obj[t.cur]
           w == Seen(t, t.cur)
           o1 == [o EXCEPT !.state = "failed", !.msg = m]
           w1 == [w EXCEPT !.state = Put(w.state, o.state, "failed"),
                           !.msg = Put(w.msg, o.msg, m)]
<1>1. t.cur \in Actions
  BY DEF TxOK, CurOK, TxType
<1>2. o \in Row /\ w \in Row
  BY <1>1, SeenRow
<1>3. o.state = "failed" => w.state \in Outcomes
  BY <1>1 DEF TxOK, RowsOK, Outcomes
<1>4. o1 \in Row /\ w1 \in Row /\ w1.state \in Outcomes
  BY <1>2, <1>3 DEF Row, ActionStates, Put, Outcomes
<1>5. Failed(t, m) = Ended(t, o1, w1, "failed")
  BY DEF Failed
<1>. HIDE DEF o1, w1
<1>. QED
  BY <1>4, <1>5, EndedOK

\* An attempt begins: one more than the last, on a row now locked.
BegunShape(t, s, a) ==
  LET w == Seen(t, a)
      again == IF t.obj[a].state = "approved" THEN "prepared" ELSE t.obj[a].state
  IN  /\ s.cur = a /\ s.todo = t.todo /\ s.held = t.held \cup {a} /\ s.wrote = t.wrote
      /\ s.iheld = t.iheld /\ s.iobj = t.iobj /\ s.irow = t.irow
      /\ \A b \in Actions \ {a} : s.obj[b] = t.obj[b] /\ s.row[b] = t.row[b]
      /\ s.obj[a].state = again /\ s.obj[a].attempts = t.obj[a].attempts + 1
      /\ s.obj[a].ref = t.obj[a].ref /\ s.obj[a].msg = t.obj[a].msg
      /\ s.row[a].state = Put(w.state, t.obj[a].state, again)
      /\ s.row[a].attempts = t.obj[a].attempts + 1
      /\ s.row[a].ref = w.ref /\ s.row[a].msg = w.msg
      /\ s.pc = IF t.obj[a].attempts > 0 THEN "check" ELSE FirstCall(a, s.obj[a])

LEMMA BegunOK ==
  ASSUME NEW t \in TxType, TxOK(t), t.pc = "ready", NEW a \in t.todo,
         t.obj[a].state # "completed", action \in [Actions -> Row]
  PROVE  /\ Begun(t, a) \in TxType /\ TxOK(Begun(t, a))
         /\ Begun(t, a).held = t.held \cup {a}
         /\ Begun(t, a).pc \in {"check", "look", "write"}
         /\ BegunShape(t, Begun(t, a), a)
<1> DEFINE o == t.obj[a]
           w == Seen(t, a)
           n == [o EXCEPT !.state = IF o.state = "approved" THEN "prepared" ELSE o.state,
                          !.attempts = o.attempts + 1]
           v == [w EXCEPT !.state = Put(w.state, o.state, n.state), !.attempts = n.attempts]
           p == IF n.attempts > 1 THEN "check" ELSE FirstCall(a, n)
           obj == [t.obj EXCEPT ![a] = n]
           row == [t.row EXCEPT ![a] = v]
           t1 == [t EXCEPT !.cur = a]
           t2 == [t1 EXCEPT !.held = t.held \cup {a}]
           t3 == [t2 EXCEPT !.obj = obj]
           t4 == [t3 EXCEPT !.row = row]
           s == [t4 EXCEPT !.pc = p]
<1>1. a \in Actions /\ t.cur = NoAction /\ NoAction \notin Actions /\ a # NoAction
  BY ActionsAssumption DEF TxOK, CurOK, TxType, Busy
<1>2. o \in Row /\ w \in Row
  BY <1>1, SeenRow
<1>3. o.attempts < MaxAttempts
  BY <1>1 DEF TxOK, BoundOK
<1>. HIDE DEF n, v
<1>4. /\ n \in Row /\ v \in Row
      /\ n.state \in Outcomes => o.state = "failed" /\ v.state = w.state
      /\ n.state = IF o.state = "approved" THEN "prepared" ELSE o.state
      /\ v.state = Put(w.state, o.state, n.state)
      /\ n.attempts = o.attempts + 1 /\ n.ref = o.ref /\ n.msg = o.msg
      /\ v.attempts = o.attempts + 1 /\ v.ref = w.ref /\ v.msg = w.msg
  <2> DEFINE st == IF o.state = "approved" THEN "prepared" ELSE o.state
             k == o.attempts + 1
  <2>0. st \in ActionStates /\ k \in 0 .. MaxAttempts
    BY <1>2, <1>3, BoundsAssumption DEF Row, ActionStates
  <2>. HIDE DEF st, k
  <2>1. [o EXCEPT !.state = st, !.attempts = k] \in Row
    BY <1>2, <2>0 DEF Row
  <2>2. n = [o EXCEPT !.state = st, !.attempts = k]
    BY Zenon DEF n, st, k
  <2>3. n \in Row /\ n.attempts \in 0 .. MaxAttempts /\ n.state \in ActionStates /\ n.state = st
    BY <1>2, <2>0, <2>1, <2>2 DEF Row
  <2>. HIDE DEF n
  <2>4. v \in Row /\ v.state = Put(w.state, o.state, n.state)
    BY <1>2, <2>3 DEF Row, Put, v
  <2>5. n.attempts = o.attempts + 1 /\ n.ref = o.ref /\ n.msg = o.msg
    BY <1>2, <2>2 DEF Row, k
  <2>6. v.attempts = n.attempts /\ v.ref = w.ref /\ v.msg = w.msg
    BY <1>2 DEF Row, v
  <2>. QED
    BY <2>3, <2>4, <2>5, <2>6 DEF Put, Outcomes, st
<1>5. /\ p \in {"check", "look", "write"}
      /\ p = IF o.attempts > 0 THEN "check" ELSE FirstCall(a, n)
  BY <1>2, <1>4, BoundsAssumption DEF FirstCall, Row
<1>. HIDE DEF p
<1>6. /\ t.obj \in [Actions -> Row] /\ t.row \in [Actions -> Row]
      /\ t.iobj \in [Items -> ItemStates] /\ t.irow \in [Items -> ItemStates]
      /\ t.todo \subseteq Actions /\ t.held \subseteq Actions /\ t.iheld \subseteq Items
  BY DEF TxType
<1>7. obj \in [Actions -> Row] /\ row \in [Actions -> Row]
  BY <1>4, <1>6
<1>8. /\ \A b \in Actions : obj[b] = IF b = a THEN n ELSE t.obj[b]
      /\ \A b \in Actions : row[b] = IF b = a THEN v ELSE t.row[b]
  BY <1>4, <1>6
<1>. HIDE DEF obj, row
<1>9. /\ t1 \in TxType /\ t1.wrote = t.wrote /\ t1.pc = t.pc /\ t1.cur = a /\ t1.held = t.held /\ t1.todo = t.todo
      /\ t1.iheld = t.iheld /\ t1.iobj = t.iobj /\ t1.irow = t.irow
  BY <1>1 DEF TxType
<1>. HIDE DEF t1
<1>10. /\ t2 \in TxType /\ t2.wrote = t.wrote /\ t2.cur = a /\ t2.held = t.held \cup {a} /\ t2.todo = t.todo
       /\ t2.iheld = t.iheld /\ t2.iobj = t.iobj /\ t2.irow = t.irow
  BY <1>1, <1>6, <1>9 DEF TxType
<1>. HIDE DEF t2
<1>11. /\ t3 \in TxType /\ t3.wrote = t.wrote /\ t3.cur = a /\ t3.held = t.held \cup {a} /\ t3.todo = t.todo
       /\ t3.iheld = t.iheld /\ t3.iobj = t.iobj /\ t3.irow = t.irow /\ t3.obj = obj
  BY <1>7, <1>10 DEF TxType
<1>. HIDE DEF t3
<1>12. /\ t4 \in TxType /\ t4.wrote = t.wrote /\ t4.cur = a /\ t4.held = t.held \cup {a} /\ t4.todo = t.todo
       /\ t4.iheld = t.iheld /\ t4.iobj = t.iobj /\ t4.irow = t.irow /\ t4.obj = obj
       /\ t4.row = row
  BY <1>7, <1>11 DEF TxType
<1>. HIDE DEF t4
<1>13. /\ s \in TxType /\ s.wrote = t.wrote /\ s.cur = a /\ s.held = t.held \cup {a} /\ s.todo = t.todo
       /\ s.iheld = t.iheld /\ s.iobj = t.iobj /\ s.irow = t.irow /\ s.obj = obj
       /\ s.row = row /\ s.pc = p
  BY <1>5, <1>12 DEF TxType
<1>14. s = Begun(t, a)
  BY Zenon DEF Begun, n, v, p, obj, row, t1, t2, t3, t4
<1>. HIDE DEF s
<1>15. CurOK(s)
  BY <1>1, <1>5, <1>6, <1>13 DEF TxOK, CurOK, Busy
<1>16. BoundOK(s)
  BY <1>1, <1>6, <1>8, <1>13 DEF TxOK, BoundOK
<1>17. RowsOK(s)
  <2> SUFFICES ASSUME NEW b \in Actions
               PROVE  /\ s.obj[b].state \in Outcomes => Seen(s, b).state \in Outcomes
                      /\ b \in s.held \ {s.cur} => s.row[b].state \in Outcomes
                      /\ b \in s.todo \cup s.held => action[b].state # "absent"
    BY DEF RowsOK
  <2>1. CASE b = a
    BY <1>1, <1>4, <1>8, <1>13, <2>1 DEF TxOK, RowsOK, Seen, Outcomes
  <2>2. CASE b # a
    BY <1>1, <1>8, <1>13, <2>2 DEF TxOK, RowsOK, Seen
  <2>. QED
    BY <2>1, <2>2
<1>18. ItemsOK(s)
  <2> SUFFICES ASSUME NEW j \in s.iheld
               PROVE  /\ s.irow[j] = s.iobj[j] /\ s.irow[j] \in {"executed", "failed"}
                      /\ \E b \in s.held \ {s.cur} :
                           ItemOf[b] = j /\ (s.irow[j] = "executed" => s.row[b].state = "completed")
    BY DEF ItemsOK
  <2>1. PICK b \in t.held \ {t.cur} :
          ItemOf[b] = j /\ (t.irow[j] = "executed" => t.row[b].state = "completed")
    BY <1>13 DEF TxOK, ItemsOK
  <2>2. b \in Actions /\ b # a
    BY <1>1, <1>6, <2>1 DEF TxOK, CurOK
  <2>3. b \in s.held \ {s.cur} /\ s.row[b] = t.row[b]
    BY <1>8, <1>13, <2>1, <2>2
  <2>. QED
    BY <1>13, <2>1, <2>3 DEF TxOK, ItemsOK
<1>19. BegunShape(t, s, a)
  BY <1>1, <1>4, <1>5, <1>8, <1>13 DEF BegunShape
<1>. QED
  BY <1>5, <1>13, <1>14, <1>15, <1>16, <1>17, <1>18, <1>19 DEF TxOK

\* The write is made: the row says executed until it is read back.
WrittenTo(t, ref) ==
  LET o == t.obj[t.cur]
      w == t.row[t.cur]
  IN  [t EXCEPT !.pc = "verify",
                !.obj = [t.obj EXCEPT ![t.cur] = [o EXCEPT !.state = "executed", !.ref = ref]],
                !.row = [t.row EXCEPT ![t.cur] = [w EXCEPT !.state = "executed",
                                                           !.ref = Put(w.ref, o.ref, ref)]]]

WrittenShape(t, u, ref) ==
  /\ u.pc = "verify" /\ u.cur = t.cur /\ u.todo = t.todo /\ u.held = t.held
  /\ u.wrote = t.wrote /\ u.iheld = t.iheld /\ u.iobj = t.iobj /\ u.irow = t.irow
  /\ \A b \in Actions \ {t.cur} : u.obj[b] = t.obj[b] /\ u.row[b] = t.row[b]
  /\ u.obj[t.cur].state = "executed" /\ u.obj[t.cur].attempts = t.obj[t.cur].attempts
  /\ u.obj[t.cur].ref = ref /\ u.obj[t.cur].msg = t.obj[t.cur].msg
  /\ u.row[t.cur].state = "executed" /\ u.row[t.cur].attempts = t.row[t.cur].attempts
  /\ u.row[t.cur].ref = Put(t.row[t.cur].ref, t.obj[t.cur].ref, ref)
  /\ u.row[t.cur].msg = t.row[t.cur].msg

LEMMA WrittenOK ==
  ASSUME NEW t \in TxType, TxOK(t), t.pc \in {"look", "write"}, NEW ref \in 0 .. MaxDrafts
  PROVE  /\ WrittenTo(t, ref) \in TxType /\ TxOK(WrittenTo(t, ref))
         /\ WrittenShape(t, WrittenTo(t, ref), ref)
<1> DEFINE a == t.cur
           o == t.obj[a]
           w == t.row[a]
           n == [o EXCEPT !.state = "executed", !.ref = ref]
           v == [w EXCEPT !.state = "executed", !.ref = Put(w.ref, o.ref, ref)]
           obj == [t.obj EXCEPT ![a] = n]
           row == [t.row EXCEPT ![a] = v]
           t1 == [t EXCEPT !.pc = "verify"]
           t2 == [t1 EXCEPT !.obj = obj]
           u == [t2 EXCEPT !.row = row]
<1>1. a \in Actions /\ a \in t.todo /\ a \in t.held
  BY DEF TxOK, CurOK, TxType, Busy
<1>2. o \in Row /\ w \in Row
  BY <1>1 DEF TxType
<1>3. /\ n \in Row /\ v \in Row /\ n.state = "executed" /\ v.state = "executed"
      /\ n.attempts = o.attempts /\ n.ref = ref /\ n.msg = o.msg
      /\ v.attempts = w.attempts /\ v.ref = Put(w.ref, o.ref, ref) /\ v.msg = w.msg
  BY <1>2 DEF Row, ActionStates, Put
<1>. HIDE DEF n, v
<1>5. /\ obj \in [Actions -> Row] /\ row \in [Actions -> Row]
      /\ \A b \in Actions : obj[b] = IF b = a THEN n ELSE t.obj[b]
      /\ \A b \in Actions : row[b] = IF b = a THEN v ELSE t.row[b]
  BY <1>3 DEF TxType
<1>. HIDE DEF obj, row
<1>6. /\ t1 \in TxType /\ t1.wrote = t.wrote /\ t1.pc = "verify" /\ t1.cur = a /\ t1.held = t.held
      /\ t1.todo = t.todo /\ t1.iheld = t.iheld /\ t1.iobj = t.iobj /\ t1.irow = t.irow
  BY DEF TxType
<1>. HIDE DEF t1
<1>7. /\ t2 \in TxType /\ t2.wrote = t.wrote /\ t2.pc = "verify" /\ t2.cur = a /\ t2.held = t.held
      /\ t2.todo = t.todo /\ t2.iheld = t.iheld /\ t2.iobj = t.iobj /\ t2.irow = t.irow
      /\ t2.obj = obj
  BY <1>5, <1>6 DEF TxType
<1>. HIDE DEF t2
<1>8. /\ u \in TxType /\ u.wrote = t.wrote /\ u.pc = "verify" /\ u.cur = a /\ u.held = t.held
      /\ u.todo = t.todo /\ u.iheld = t.iheld /\ u.iobj = t.iobj /\ u.irow = t.irow
      /\ u.obj = obj /\ u.row = row
  BY <1>5, <1>7 DEF TxType
<1>9. WrittenTo(t, ref) = u
  BY Zenon DEF WrittenTo, n, v, obj, row, t1, t2
<1>. HIDE DEF u
<1>10. CurOK(u)
  BY <1>8 DEF TxOK, CurOK, Busy
<1>11. BoundOK(u)
  BY <1>1, <1>5, <1>8 DEF TxOK, BoundOK, TxType
<1>12. RowsOK(u)
  BY <1>1, <1>3, <1>5, <1>8 DEF TxOK, RowsOK, Seen, Outcomes
<1>13. ItemsOK(u)
  <2> SUFFICES ASSUME NEW j \in u.iheld
               PROVE  /\ u.irow[j] = u.iobj[j] /\ u.irow[j] \in {"executed", "failed"}
                      /\ \E b \in u.held \ {u.cur} :
                           ItemOf[b] = j /\ (u.irow[j] = "executed" => u.row[b].state = "completed")
    BY DEF ItemsOK
  <2>1. PICK b \in t.held \ {t.cur} :
          ItemOf[b] = j /\ (t.irow[j] = "executed" => t.row[b].state = "completed")
    BY <1>8 DEF TxOK, ItemsOK
  <2>2. b \in u.held \ {u.cur} /\ u.row[b] = t.row[b]
    BY <1>5, <1>8, <2>1 DEF TxType
  <2>. QED
    BY <1>8, <2>1, <2>2 DEF TxOK, ItemsOK
<1>14. TxOK(u)
  BY <1>10, <1>11, <1>12, <1>13 DEF TxOK
<1>15. WrittenShape(t, u, ref)
  BY <1>1, <1>3, <1>5, <1>8 DEF WrittenShape
<1>. QED
  BY <1>8, <1>9, <1>14, <1>15

LEMMA PerformedIs ==
  ASSUME NEW t, NEW ref
  PROVE  Performed(t, ref) =
           IF RequireVerification THEN WrittenTo(t, ref)
           ELSE Settled(WrittenTo(t, ref), IF KindOf[t.cur] = "send" THEN t.obj[t.cur].msg ELSE 0)
BY Zenon DEF Performed, WrittenTo

LEMMA PerformedOK ==
  ASSUME NEW t \in TxType, TxOK(t), t.pc \in {"look", "write"}, NEW ref \in 0 .. MaxDrafts,
         action \in [Actions -> Row]
  PROVE  /\ Performed(t, ref) \in TxType /\ TxOK(Performed(t, ref))
         /\ Performed(t, ref).held = t.held
<1> DEFINE u == WrittenTo(t, ref)
           m == IF KindOf[t.cur] = "send" THEN t.obj[t.cur].msg ELSE 0
<1>1. u \in TxType /\ TxOK(u) /\ WrittenShape(t, u, ref)
  BY WrittenOK
<1>2. t.cur \in Actions /\ t.cur \in t.held
  BY DEF TxOK, CurOK, TxType, Busy
<1>3. m \in 0 .. MaxText
  BY <1>2, BoundsAssumption DEF TxType, Row
<1>4. Performed(t, ref) = IF RequireVerification THEN u ELSE Settled(u, m)
  BY PerformedIs
<1>. HIDE DEF u, m
<1>5. u.pc \in Busy /\ u.held = t.held /\ u.held \cup {u.cur} = t.held
  BY <1>1, <1>2 DEF WrittenShape, Busy
<1>6. CASE RequireVerification
  BY <1>1, <1>4, <1>5, <1>6
<1>7. CASE ~RequireVerification
  <2>1. /\ Settled(u, m) \in TxType /\ TxOK(Settled(u, m))
        /\ Settled(u, m).held = u.held \cup {u.cur}
    BY <1>1, <1>3, <1>5, SettledOK
  <2>. QED
    BY <1>4, <1>5, <1>7, <2>1
<1>. QED
  BY <1>6, <1>7

\* Moving on to the next Gmail call, noting a write, and passing over an action
\* that is completed already.
LEMMA CallOK ==
  ASSUME NEW t \in TxType, TxOK(t), t.pc \in {"check", "look"}, NEW p \in {"look", "write"}
  PROVE  /\ [t EXCEPT !.pc = p] \in TxType /\ TxOK([t EXCEPT !.pc = p])
         /\ [t EXCEPT !.pc = p].held = t.held
<1> DEFINE s == [t EXCEPT !.pc = p]
<1>1. /\ s \in TxType /\ s.pc = p /\ s.cur = t.cur /\ s.held = t.held /\ s.todo = t.todo
      /\ s.iheld = t.iheld /\ s.iobj = t.iobj /\ s.irow = t.irow /\ s.obj = t.obj
      /\ s.row = t.row
  BY DEF TxType
<1>. HIDE DEF s
<1>2. TxOK(s)
  BY <1>1 DEF TxOK, CurOK, BoundOK, RowsOK, ItemsOK, Seen, Busy
<1>. QED
  BY <1>1, <1>2 DEF s

LEMMA WroteOK ==
  ASSUME NEW t \in TxType, TxOK(t), NEW W \in SUBSET Actions
  PROVE  /\ [t EXCEPT !.wrote = W] \in TxType /\ TxOK([t EXCEPT !.wrote = W])
         /\ [t EXCEPT !.wrote = W].held = t.held /\ [t EXCEPT !.wrote = W].pc = t.pc
         /\ [t EXCEPT !.wrote = W].cur = t.cur /\ [t EXCEPT !.wrote = W].obj = t.obj
<1> DEFINE s == [t EXCEPT !.wrote = W]
<1>1. /\ s \in TxType /\ s.pc = t.pc /\ s.cur = t.cur /\ s.held = t.held /\ s.todo = t.todo
      /\ s.iheld = t.iheld /\ s.iobj = t.iobj /\ s.irow = t.irow /\ s.obj = t.obj
      /\ s.row = t.row
  BY DEF TxType
<1>. HIDE DEF s
<1>2. TxOK(s)
  BY <1>1 DEF TxOK, CurOK, BoundOK, RowsOK, ItemsOK, Seen
<1>. QED
  BY <1>1, <1>2 DEF s

LEMMA SkipOK ==
  ASSUME NEW t \in TxType, TxOK(t), t.pc = "ready", NEW todo \in SUBSET t.todo
  PROVE  /\ [t EXCEPT !.todo = todo] \in TxType /\ TxOK([t EXCEPT !.todo = todo])
         /\ [t EXCEPT !.todo = todo].held = t.held
<1> DEFINE s == [t EXCEPT !.todo = todo]
<1>1. /\ s \in TxType /\ s.pc = t.pc /\ s.cur = t.cur /\ s.held = t.held /\ s.todo = todo
      /\ s.iheld = t.iheld /\ s.iobj = t.iobj /\ s.irow = t.irow /\ s.obj = t.obj
      /\ s.row = t.row
  BY DEF TxType
<1>. HIDE DEF s
<1>2. TxOK(s)
  BY <1>1 DEF TxOK, CurOK, BoundOK, RowsOK, ItemsOK, Seen, Busy
<1>. QED
  BY <1>1, <1>2 DEF s
-----------------------------------------------------------------------------
(* What a request must not forget                                           *)

\* A request's step replaces its transaction by a sound one and takes no row
\* another request holds.
Steps(r) ==
  \E s \in TxType :
    /\ TxOK(s) /\ tx' = [tx EXCEPT ![r] = s]
    /\ \A q \in Requests \ {r} : s.held \cap tx[q].held = {}

MailType ==
  /\ labels \in [Items -> SUBSET Labels]
  /\ live \subseteq DraftIds /\ deleted \subseteq DraftIds
  /\ sent \subseteq DraftIds \X (1 .. MaxText)
  /\ text \in [DraftIds -> 0 .. MaxText]
  /\ madeFor \in [DraftIds -> Actions \cup {NoAction}]
  /\ thread \in [DraftIds -> Items \cup {NoItem}]

HistType ==
  /\ stuck \in BOOLEAN /\ overtaken \subseteq Items
  /\ lost \subseteq Actions /\ stale \subseteq Actions /\ raced \subseteq DraftIds

\* With the committed rows unchanged, soundness only depends on the request.
LEMMA SameRows ==
  ASSUME NEW q \in Requests, NEW s, s = tx'[q], TxOK(s), action' = action
  PROVE  TxOK(tx[q])'
BY DEF TxOK, CurOK, BoundOK, RowsOK, ItemsOK, Seen

\* A step of one request keeps the invariant when the committed rows stay and
\* the mailbox is left in order.
LEMMA RequestStep ==
  ASSUME IInv, NEW r \in Requests, Steps(r), UNCHANGED dbVars,
         MailType', MailOK', HistType'
  PROVE  IInv'
<1>1. PICK s \in TxType :
        /\ TxOK(s) /\ tx' = [tx EXCEPT ![r] = s]
        /\ \A q \in Requests \ {r} : s.held \cap tx[q].held = {}
  BY DEF Steps
<1>2. tx \in [Requests -> TxType]
  BY DEF IInv, TypeOK
<1>3. /\ tx' \in [Requests -> TxType] /\ tx'[r] = s
      /\ \A q \in Requests \ {r} : tx'[q] = tx[q]
  BY <1>1, <1>2
<1>4. action' = action /\ item' = item /\ scope' = scope /\ decision' = decision /\ permits' = permits
  BY DEF dbVars
<1>5. TypeOK'
  BY <1>3, <1>4 DEF IInv, TypeOK, MailType, HistType
<1>6. NeverHalfDone' /\ ScopeOK' /\ DecisionOK'
  BY <1>4 DEF IInv, NeverHalfDone, ScopeOK, DecisionOK
<1>7. LocksOK'
  BY <1>1, <1>3 DEF IInv, LocksOK
<1>8. ASSUME NEW q \in Requests PROVE TxOK(tx[q])'
  <2>1. CASE q = r
    BY <1>1, <1>3, <1>4, <2>1, SameRows
  <2>2. CASE q # r
    <3>1. TxOK(tx[q])
      BY DEF IInv
    <3>. QED
      BY <1>3, <1>4, <2>2, <3>1 DEF TxOK, CurOK, BoundOK, RowsOK, ItemsOK, Seen
  <2>. QED
    BY <2>1, <2>2
<1>. QED
  BY <1>5, <1>6, <1>7, <1>8 DEF IInv

LEMMA MailUnchanged ==
  ASSUME IInv, UNCHANGED gmailVars
  PROVE  MailType' /\ MailOK'
<1>1. /\ labels' = labels /\ live' = live /\ text' = text /\ madeFor' = madeFor
      /\ thread' = thread /\ sent' = sent /\ deleted' = deleted
  BY DEF gmailVars
<1>. QED
  BY <1>1 DEF IInv, TypeOK, MailType, MailOK

LEMMA HistUnchanged ==
  ASSUME IInv, UNCHANGED <<stuck, histVars>>
  PROVE  HistType'
BY DEF IInv, TypeOK, HistType, histVars

\* What the invariant says of one request.
LEMMA OneRequest ==
  ASSUME IInv, NEW r \in Requests
  PROVE  /\ tx[r] \in TxType /\ TxOK(tx[r]) /\ action \in [Actions -> Row]
         /\ \A q \in Requests \ {r} : tx[r].held \cap tx[q].held = {}
BY DEF IInv, TypeOK, LocksOK

LEMMA SettleSteps ==
  ASSUME IInv, NEW r \in Requests, tx[r].pc \in Busy, NEW m \in 0 .. MaxText, Settle(r, m)
  PROVE  Steps(r)
<1>1. /\ Settled(tx[r], m) \in TxType /\ TxOK(Settled(tx[r], m))
      /\ Settled(tx[r], m).held = tx[r].held \cup {tx[r].cur}
  BY OneRequest, SettledOK
<1>2. \A q \in Requests \ {r} : tx[r].cur \notin tx[q].held
  BY DEF Settle, MayWrite, RowFree
<1>3. \A q \in Requests \ {r} : Settled(tx[r], m).held \cap tx[q].held = {}
  BY <1>1, <1>2, OneRequest
<1>. QED
  BY <1>1, <1>3 DEF Steps, Settle

LEMMA FailSteps ==
  ASSUME IInv, NEW r \in Requests, tx[r].pc \in Busy, NEW m \in 0 .. MaxText, Fail(r, m)
  PROVE  Steps(r)
<1>1. /\ Failed(tx[r], m) \in TxType /\ TxOK(Failed(tx[r], m))
      /\ Failed(tx[r], m).held = tx[r].held \cup {tx[r].cur}
  BY OneRequest, FailedOK
<1>2. \A q \in Requests \ {r} : tx[r].cur \notin tx[q].held
  BY DEF Fail, MayWrite, RowFree
<1>3. \A q \in Requests \ {r} : Failed(tx[r], m).held \cap tx[q].held = {}
  BY <1>1, <1>2, OneRequest
<1>. QED
  BY <1>1, <1>3 DEF Steps, Fail

LEMMA PerformSteps ==
  ASSUME IInv, NEW r \in Requests, NEW t \in TxType, TxOK(t), t.held = tx[r].held,
         t.pc \in {"look", "write"}, NEW ref \in 0 .. MaxDrafts, Perform(r, t, ref)
  PROVE  Steps(r)
<1>1. /\ Performed(t, ref) \in TxType /\ TxOK(Performed(t, ref))
      /\ Performed(t, ref).held = tx[r].held
  BY OneRequest, PerformedOK
<1>2. \A q \in Requests \ {r} : Performed(t, ref).held \cap tx[q].held = {}
  BY <1>1, OneRequest
<1>. QED
  BY <1>1, <1>2 DEF Steps, Perform

\* A request that ends in any way is idle, holds nothing and has nothing to do.
LEMMA IdleOK == IdleTx \in TxType /\ TxOK(IdleTx) /\ IdleTx.held = {}
<1>1. NoRow \in Row
  BY BoundsAssumption DEF NoRow, Row, ActionStates
<1>2. IdleTx \in TxType
  BY <1>1, BoundsAssumption DEF IdleTx, TxType, ItemStates
<1>3. /\ IdleTx.pc = "idle" /\ IdleTx.cur = NoAction /\ IdleTx.held = {} /\ IdleTx.iheld = {}
      /\ IdleTx.todo = {} /\ \A a \in Actions : IdleTx.obj[a].state = "absent"
  BY DEF IdleTx, NoRow
<1>. QED
  BY <1>2, <1>3 DEF TxOK, CurOK, BoundOK, RowsOK, ItemsOK, Busy, Outcomes

LEMMA EndSteps ==
  ASSUME IInv, NEW r \in Requests, tx' = [tx EXCEPT ![r] = IdleTx]
  PROVE  Steps(r)
BY IdleOK DEF Steps

-----------------------------------------------------------------------------
(* Each action keeps the invariant                                         *)

\* A request starts with the committed rows of what it will act on.
LEMMA LoadedOK ==
  ASSUME IInv, NEW kind \in {"scope", "retry", "verify"}, NEW id \in 0 .. MaxScopes,
         NEW chosen \in SUBSET Actions, \A a \in chosen : action[a].state # "absent"
  PROVE  /\ Loaded(kind, chosen, id) \in TxType
         /\ Bounded(chosen) => TxOK(Loaded(kind, chosen, id))
         /\ Loaded(kind, chosen, id).held = {}
<1> DEFINE s == Loaded(kind, chosen, id)
<1>1. NoRow \in Row /\ NoAction \notin Actions
  BY ActionsAssumption, BoundsAssumption DEF NoRow, Row, ActionStates
<1>2. action \in [Actions -> Row] /\ item \in [Items -> ItemStates] /\ permits \subseteq Kinds
  BY DEF IInv, TypeOK
<1>3. s \in TxType
  BY <1>1, <1>2 DEF Loaded, TxType, ItemStates
<1>4. /\ s.pc = "ready" /\ s.cur = NoAction /\ s.todo = chosen /\ s.held = {} /\ s.iheld = {}
      /\ \A a \in Actions : s.obj[a] = IF a \in chosen THEN action[a] ELSE NoRow
  BY DEF Loaded
<1>. HIDE DEF s
<1>5. ASSUME Bounded(chosen) PROVE BoundOK(s)
  BY <1>4, <1>5 DEF BoundOK, Bounded
<1>6. CurOK(s) /\ RowsOK(s) /\ ItemsOK(s)
  BY <1>4 DEF CurOK, RowsOK, ItemsOK, Seen, Busy, Outcomes, NoRow
<1>. QED
  BY <1>3, <1>4, <1>5, <1>6 DEF TxOK, s

LEMMA StartScopeInv ==
  ASSUME IInv, NEW r \in Requests, StartScope(r)
  PROVE  IInv'
<1>1. scope.actions \in SUBSET Actions /\ scope.id \in 0 .. MaxScopes
  BY DEF IInv, TypeOK
<1>2. \A a \in scope.actions : action[a].state # "absent"
  BY DEF IInv, ScopeOK
<1>3. /\ Loaded("scope", scope.actions, scope.id) \in TxType
      /\ TxOK(Loaded("scope", scope.actions, scope.id))
      /\ Loaded("scope", scope.actions, scope.id).held = {}
  BY <1>1, <1>2, LoadedOK DEF StartScope
<1>4. Steps(r)
  BY <1>3 DEF Steps, StartScope
<1>. QED
  BY <1>4, RequestStep, MailUnchanged, HistUnchanged DEF StartScope

LEMMA StartRetryInv ==
  ASSUME IInv, NEW r \in Requests, NEW a \in Actions, StartRetry(r, a)
  PROVE  IInv'
<1>1. 0 \in 0 .. MaxScopes
  BY BoundsAssumption
<1>2. /\ Loaded("retry", {a}, 0) \in TxType /\ TxOK(Loaded("retry", {a}, 0))
      /\ Loaded("retry", {a}, 0).held = {}
  BY <1>1, LoadedOK DEF StartRetry
<1>3. Steps(r)
  BY <1>2 DEF Steps, StartRetry
<1>. QED
  BY <1>3, RequestStep, MailUnchanged, HistUnchanged DEF StartRetry

\* A verification reads back at once, on a row it has not locked.
LEMMA StartVerifyInv ==
  ASSUME IInv, NEW r \in Requests, NEW a \in Actions, StartVerify(r, a)
  PROVE  IInv'
<1> DEFINE l == Loaded("verify", {a}, 0)
           s == [l EXCEPT !.pc = "verify", !.cur = a]
<1>1. 0 \in 0 .. MaxScopes
  BY BoundsAssumption
<1>2. l \in TxType
  BY <1>1, LoadedOK DEF StartVerify
<1>3. /\ l.todo = {a} /\ l.held = {} /\ l.iheld = {}
      /\ \A b \in Actions : l.obj[b] = IF b = a THEN action[b] ELSE NoRow
  BY DEF Loaded
<1>. HIDE DEF l
<1>4. s \in TxType /\ s.pc = "verify" /\ s.cur = a /\ s.todo = {a} /\ s.held = {}
      /\ s.iheld = {} /\ s.obj = l.obj
  BY <1>2, <1>3 DEF TxType
<1>5. tx' = [tx EXCEPT ![r] = s]
  BY DEF StartVerify, l
<1>. HIDE DEF s
<1>6. TxOK(s)
  BY <1>3, <1>4 DEF StartVerify, TxOK, CurOK, BoundOK, RowsOK, ItemsOK, Seen, Busy, Outcomes,
                    NoRow
<1>7. Steps(r)
  BY <1>4, <1>5, <1>6 DEF Steps
<1>. QED
  BY <1>7, RequestStep, MailUnchanged, HistUnchanged DEF StartVerify

LEMMA SkipCompletedInv ==
  ASSUME IInv, NEW r \in Requests, SkipCompleted(r)
  PROVE  IInv'
<1>1. PICK a \in tx[r].todo : tx' = [tx EXCEPT ![r].todo = @ \ {a}]
  BY DEF SkipCompleted
<1>2. tx[r].pc = "ready" /\ tx[r].todo \ {a} \in SUBSET tx[r].todo
  BY DEF SkipCompleted
<1>3. /\ [tx[r] EXCEPT !.todo = tx[r].todo \ {a}] \in TxType
      /\ TxOK([tx[r] EXCEPT !.todo = tx[r].todo \ {a}])
      /\ [tx[r] EXCEPT !.todo = tx[r].todo \ {a}].held = tx[r].held
  BY <1>2, OneRequest, SkipOK
<1>4. Steps(r)
  BY <1>1, <1>3, OneRequest DEF Steps
<1>. QED
  BY <1>4, RequestStep, MailUnchanged, HistUnchanged DEF SkipCompleted

LEMMA BeginInv ==
  ASSUME IInv, NEW r \in Requests, Begin(r)
  PROVE  IInv'
<1>1. PICK a \in tx[r].todo :
        /\ tx[r].obj[a].state # "completed" /\ RowFree(r, a)
        /\ tx' = [tx EXCEPT ![r] = Begun(tx[r], a)]
        /\ stale' = IF tx[r].obj[a] # action[a] THEN stale \cup {a} ELSE stale
  BY DEF Begin
<1>2. tx[r].pc = "ready" /\ tx[r] \in TxType
  BY OneRequest DEF Begin
<1>3. /\ Begun(tx[r], a) \in TxType /\ TxOK(Begun(tx[r], a))
      /\ Begun(tx[r], a).held = tx[r].held \cup {a}
  BY <1>1, <1>2, OneRequest, BegunOK
<1>4. \A q \in Requests \ {r} : (tx[r].held \cup {a}) \cap tx[q].held = {}
  BY <1>1, OneRequest DEF RowFree
<1>5. Steps(r)
  BY <1>1, <1>3, <1>4 DEF Steps
<1>6. HistType'
  BY <1>1, <1>2 DEF Begin, IInv, TypeOK, HistType, TxType
<1>. QED
  BY <1>5, <1>6, RequestStep, MailUnchanged DEF Begin

\* What a read-back records is a message id the record can hold.
LEMMA ReadBackType ==
  ASSUME IInv, NEW t \in TxType, t.cur \in Actions
  PROVE  /\ Verified(t) => ReadBack(t) \in 0 .. MaxText
         /\ Unread(t) \in 0 .. MaxText /\ t.obj[t.cur].msg \in 0 .. MaxText
<1>1. t.obj[t.cur] \in Row /\ t.obj[t.cur].msg \in 0 .. MaxText
  BY DEF TxType, Row
<1>2. Unread(t) \in 0 .. MaxText
  BY <1>1, BoundsAssumption DEF Unread
<1>3. ASSUME Verified(t) PROVE ReadBack(t) \in 0 .. MaxText
  <2>1. CASE KindOf[t.cur] = "draft"
    <3>1. t.obj[t.cur].ref \in live
      BY <1>3, <2>1 DEF Verified, ThreadKinds
    <3>2. text \in [DraftIds -> 0 .. MaxText] /\ live \subseteq DraftIds
      BY DEF IInv, TypeOK
    <3>. QED
      BY <2>1, <3>1, <3>2 DEF ReadBack
  <2>2. CASE KindOf[t.cur] # "draft"
    BY <1>1, <2>2 DEF ReadBack
  <2>. QED
    BY <2>1, <2>2
<1>. QED
  BY <1>1, <1>2, <1>3

LEMMA BusyRequest ==
  ASSUME IInv, NEW r \in Requests, tx[r].pc \in Busy
  PROVE  tx[r].cur \in Actions /\ tx[r].obj[tx[r].cur] \in Row
<1>1. tx[r] \in TxType /\ tx[r].cur \in tx[r].todo
  BY OneRequest DEF TxOK, CurOK
<1>. QED
  BY <1>1 DEF TxType

\* Going on to the next call is a step of the request.
LEMMA CallSteps ==
  ASSUME IInv, NEW r \in Requests, tx[r].pc \in {"check", "look"}, NEW p \in {"look", "write"},
         tx' = [tx EXCEPT ![r].pc = p]
  PROVE  Steps(r)
<1>1. /\ [tx[r] EXCEPT !.pc = p] \in TxType /\ TxOK([tx[r] EXCEPT !.pc = p])
      /\ [tx[r] EXCEPT !.pc = p].held = tx[r].held
  BY OneRequest, CallOK
<1>. QED
  BY <1>1, OneRequest DEF Steps

LEMMA CheckFirstInv ==
  ASSUME IInv, NEW r \in Requests, CheckFirst(r)
  PROVE  IInv'
<1>1. tx[r].pc \in Busy /\ tx[r].pc = "check"
  BY DEF CheckFirst, Busy
<1>2. CASE Verified(tx[r]) /\ Settle(r, ReadBack(tx[r]))
  <2>1. ReadBack(tx[r]) \in 0 .. MaxText
    BY <1>1, <1>2, OneRequest, BusyRequest, ReadBackType
  <2>. QED
    BY <1>1, <1>2, <2>1, SettleSteps, RequestStep, MailUnchanged, HistUnchanged DEF CheckFirst
<1>3. CASE tx' = [tx EXCEPT ![r].pc = FirstCall(tx[r].cur, tx[r].obj[tx[r].cur])]
  <2>1. FirstCall(tx[r].cur, tx[r].obj[tx[r].cur]) \in {"look", "write"}
    BY DEF FirstCall
  <2>2. Steps(r)
    BY <1>1, <1>3, <2>1, CallSteps
  <2>. QED
    BY <2>2, RequestStep, MailUnchanged, HistUnchanged DEF CheckFirst
<1>. QED
  BY <1>2, <1>3 DEF CheckFirst

LEMMA LookThreadInv ==
  ASSUME IInv, NEW r \in Requests, LookThread(r)
  PROVE  IInv'
<1>1. tx[r].pc = "look" /\ 0 \in 0 .. MaxDrafts
  BY BoundsAssumption DEF LookThread
<1>2. Steps(r)
  <2>1. CASE Perform(r, tx[r], 0)
    BY <1>1, <2>1, OneRequest, PerformSteps
  <2>2. CASE tx' = [tx EXCEPT ![r].pc = "write"]
    BY <1>1, <2>2, CallSteps
  <2>. QED
    BY <2>1, <2>2 DEF LookThread
<1>. QED
  BY <1>2, RequestStep, MailUnchanged, HistUnchanged DEF LookThread

LEMMA LookDraftInv ==
  ASSUME IInv, NEW r \in Requests, LookDraft(r)
  PROVE  IInv'
<1>1. tx[r].pc = "look" /\ live \subseteq DraftIds
  BY DEF LookDraft, IInv, TypeOK
<1>2. Steps(r)
  <2>1. ASSUME NEW d \in live, Perform(r, tx[r], d) PROVE Steps(r)
    <3>1. d \in 0 .. MaxDrafts
      BY <1>1, <2>1, BoundsAssumption DEF DraftIds
    <3>. QED
      BY <1>1, <2>1, <3>1, OneRequest, PerformSteps
  <2>2. CASE tx' = [tx EXCEPT ![r].pc = "write"]
    BY <1>1, <2>2, CallSteps
  <2>. QED
    BY <2>1, <2>2 DEF LookDraft
<1>. QED
  BY <1>2, RequestStep, MailUnchanged, HistUnchanged DEF LookDraft

LEMMA LookSendInv ==
  ASSUME IInv, NEW r \in Requests, LookSend(r)
  PROVE  IInv'
<1>1. tx[r].pc = "look" /\ tx[r].pc \in Busy
  BY DEF LookSend, Busy
<1>2. tx[r].obj[tx[r].cur].msg \in 0 .. MaxText
  BY <1>1, BusyRequest DEF Row
<1>3. Steps(r)
  <2>1. CASE Fail(r, tx[r].obj[tx[r].cur].msg)
    BY <1>1, <1>2, <2>1, FailSteps
  <2>2. CASE tx' = [tx EXCEPT ![r].pc = "write"]
    BY <1>1, <2>2, CallSteps
  <2>. QED
    BY <2>1, <2>2 DEF LookSend
<1>. QED
  BY <1>3, RequestStep, MailUnchanged, HistUnchanged DEF LookSend

LEMMA ReadBackActionInv ==
  ASSUME IInv, NEW r \in Requests, ReadBackAction(r)
  PROVE  IInv'
<1>1. tx[r].pc \in Busy
  BY DEF ReadBackAction, Busy
<1>2. /\ Verified(tx[r]) => ReadBack(tx[r]) \in 0 .. MaxText
      /\ Unread(tx[r]) \in 0 .. MaxText
  BY <1>1, OneRequest, BusyRequest, ReadBackType
<1>3. Steps(r)
  BY <1>1, <1>2, SettleSteps, FailSteps DEF ReadBackAction
<1>. QED
  BY <1>3, RequestStep, MailUnchanged, HistUnchanged DEF ReadBackAction

LEMMA ReadErrorInv ==
  ASSUME IInv, NEW r \in Requests, ReadError(r)
  PROVE  IInv'
<1>1. tx[r].pc \in Busy
  BY DEF ReadError, Busy
<1>2. tx[r].obj[tx[r].cur].msg \in 0 .. MaxText
  BY <1>1, BusyRequest DEF Row
<1>3. Steps(r)
  BY <1>1, <1>2, FailSteps DEF ReadError
<1>. QED
  BY <1>3, RequestStep, MailUnchanged, HistUnchanged DEF ReadError

\* However Gmail answers a write, the request goes on or ends.
LEMMA AnsweredSteps ==
  ASSUME IInv, NEW r \in Requests, tx[r].pc = "write", NEW ans \in Answers,
         NEW ref \in 0 .. MaxDrafts, Answered(r, ans, ref)
  PROVE  Steps(r)
<1> DEFINE t == [tx[r] EXCEPT !.wrote = Noted(r, ans)]
<1>1. tx[r].pc \in Busy /\ tx[r] \in TxType /\ tx[r].cur \in Actions
  BY OneRequest, BusyRequest DEF Busy
<1>2. Noted(r, ans) \in SUBSET Actions
  BY <1>1 DEF Noted, TxType
<1>3. /\ t \in TxType /\ TxOK(t) /\ t.held = tx[r].held /\ t.pc = tx[r].pc
      /\ t.cur = tx[r].cur /\ t.obj = tx[r].obj
  BY <1>2, OneRequest, WroteOK
<1>4. CASE ans = "ok"
  <2>1. Perform(r, t, ref)
    BY <1>4 DEF Answered
  <2>. HIDE DEF t
  <2>. QED
    BY <1>3, <2>1, PerformSteps
<1>5. CASE ans = "none"
  BY <1>5, EndSteps DEF Answered
<1>6. CASE ans \notin {"ok", "none"}
  <2>1. MayWrite(r, "failed") /\ tx' = [tx EXCEPT ![r] = Failed(t, t.obj[t.cur].msg)]
    BY <1>6 DEF Answered
  <2>. HIDE DEF t
  <2>2. t.obj[t.cur].msg \in 0 .. MaxText
    BY <1>1, <1>3, BusyRequest DEF Row
  <2>3. /\ Failed(t, t.obj[t.cur].msg) \in TxType /\ TxOK(Failed(t, t.obj[t.cur].msg))
        /\ Failed(t, t.obj[t.cur].msg).held = t.held \cup {t.cur}
    BY <1>1, <1>3, <2>2, OneRequest, FailedOK
  <2>4. \A q \in Requests \ {r} : (t.held \cup {t.cur}) \cap tx[q].held = {}
    BY <1>3, <2>1, OneRequest DEF MayWrite, RowFree
  <2>. QED
    BY <2>1, <2>3, <2>4 DEF Steps
<1>. QED
  BY <1>4, <1>5, <1>6

LEMMA ForgetType ==
  ASSUME IInv, NEW r \in Requests, tx[r].pc = "write", NEW ans \in Answers, Forget(r, ans),
         UNCHANGED <<stuck, stale, raced, overtaken>>
  PROVE  HistType'
<1>1. tx[r] \in TxType /\ tx[r].cur \in Actions
  BY OneRequest, BusyRequest DEF Busy
<1>2. Noted(r, ans) \subseteq Actions
  BY <1>1 DEF Noted, TxType
<1>. QED
  BY <1>2 DEF Forget, HistType, IInv, TypeOK

LEMMA WriteThreadInv ==
  ASSUME IInv, NEW r \in Requests, NEW ans \in Answers, WriteThread(r, ans)
  PROVE  IInv'
<1> DEFINE i == ItemOf[tx[r].cur]
           k == KindOf[tx[r].cur]
<1>1. tx[r].pc = "write" /\ tx[r].pc \in Busy /\ k \in ThreadKinds
  BY DEF WriteThread, Busy
<1>2. Steps(r)
  BY <1>1, BoundsAssumption, AnsweredSteps DEF WriteThread
<1>3. HistType'
  BY <1>1, ForgetType DEF WriteThread
<1>4. \A L \in SUBSET Labels : Modified(k, L) \in SUBSET Labels
  <2>1. Adds[k] \subseteq Labels
    BY <1>1 DEF Labels, Adds, ThreadKinds
  <2>. QED
    BY <2>1 DEF Modified
<1>5. i \in Items
  BY <1>1, BusyRequest, ActionsAssumption
<1>6. labels' \in [Items -> SUBSET Labels]
  BY <1>4, <1>5 DEF WriteThread, IInv, TypeOK
<1>7. MailType' /\ MailOK'
  BY <1>6 DEF WriteThread, IInv, TypeOK, MailType, MailOK
<1>. QED
  BY <1>2, <1>3, <1>7, RequestStep DEF WriteThread

LEMMA CreateDraftInv ==
  ASSUME IInv, NEW r \in Requests, NEW d \in Minted, NEW ans \in Answers, CreateDraft(r, d, ans)
  PROVE  IInv'
<1>1. tx[r].pc = "write" /\ tx[r].pc \in Busy /\ d \in DraftIds /\ d \in 0 .. MaxDrafts
  BY BoundsAssumption DEF CreateDraft, Busy, Minted, DraftIds
<1>2. Steps(r)
  BY <1>1, AnsweredSteps DEF CreateDraft
<1>3. HistType'
  BY <1>1, ForgetType DEF CreateDraft
<1>4. tx[r].cur \in Actions /\ ItemOf[tx[r].cur] \in Items
  BY <1>1, BusyRequest, ActionsAssumption
<1>5. MailType' /\ MailOK'
  <2>1. CASE ans = "error"
    BY <2>1 DEF CreateDraft, IInv, TypeOK, MailType, MailOK
  <2>2. CASE ans # "error"
    <3>1. /\ live' = live \cup {d} /\ text' = [text EXCEPT ![d] = 1]
          /\ madeFor' = [madeFor EXCEPT ![d] = tx[r].cur]
          /\ thread' = [thread EXCEPT ![d] = ItemOf[tx[r].cur]]
          /\ UNCHANGED <<labels, sent, deleted>>
      BY <2>2 DEF CreateDraft
    <3>2. /\ live \subseteq DraftIds /\ text \in [DraftIds -> 0 .. MaxText]
          /\ madeFor \in [DraftIds -> Actions \cup {NoAction}]
          /\ thread \in [DraftIds -> Items \cup {NoItem}]
          /\ \A e \in live : text[e] # 0 /\ 1 \in 0 .. MaxText
      BY BoundsAssumption DEF IInv, TypeOK, MailOK
    <3>3. live' \subseteq DraftIds /\ text' \in [DraftIds -> 0 .. MaxText] /\ MailOK'
      <4>1. live' \subseteq DraftIds
        BY <1>1, <3>1, <3>2
      <4>2. text' \in [DraftIds -> 0 .. MaxText]
        BY <1>1, <3>1, <3>2, BoundsAssumption
      <4>3. \A e \in live' : text'[e] # 0
        BY <1>1, <3>1, <3>2
      <4>. QED
        BY <4>1, <4>2, <4>3 DEF MailOK
    <3>4. /\ madeFor' \in [DraftIds -> Actions \cup {NoAction}]
          /\ thread' \in [DraftIds -> Items \cup {NoItem}]
      BY <1>1, <1>4, <3>1, <3>2
    <3>. QED
      BY <3>1, <3>3, <3>4 DEF IInv, TypeOK, MailType
  <2>. QED
    BY <2>1, <2>2
<1>. QED
  BY <1>2, <1>3, <1>5, RequestStep DEF CreateDraft

LEMMA SendDraftInv ==
  ASSUME IInv, NEW r \in Requests, NEW ans \in Answers, SendDraft(r, ans)
  PROVE  IInv'
<1> DEFINE d == tx[r].obj[tx[r].cur].ref
<1>1. tx[r].pc = "write" /\ tx[r].pc \in Busy
  BY DEF SendDraft, Busy
<1>2. d \in 0 .. MaxDrafts
  BY <1>1, BusyRequest DEF Row
<1>3. Steps(r)
  BY <1>1, <1>2, AnsweredSteps DEF SendDraft
<1>4. HistType'
  BY <1>1, ForgetType DEF SendDraft
<1>5. MailType' /\ MailOK'
  <2>1. CASE ans = "error"
    BY <2>1 DEF SendDraft, IInv, TypeOK, MailType, MailOK
  <2>2. CASE ans # "error"
    <3>1. d \in live /\ d \in DraftIds /\ text[d] \in 1 .. MaxText
      BY <2>2, BoundsAssumption DEF SendDraft, IInv, TypeOK, MailOK
    <3>. QED
      BY <2>2, <3>1 DEF SendDraft, IInv, TypeOK, MailType, MailOK
  <2>. QED
    BY <2>1, <2>2
<1>. QED
  BY <1>3, <1>4, <1>5, RequestStep DEF SendDraft

LEMMA RefuseInv ==
  ASSUME IInv, NEW r \in Requests, Refuse(r)
  PROVE  IInv'
<1>1. HistType'
  BY OneRequest DEF Refuse, IInv, TypeOK, HistType, TxType
<1>. QED
  BY <1>1, EndSteps, RequestStep, MailUnchanged DEF Refuse

LEMMA AbortInv ==
  ASSUME IInv, NEW r \in Requests, Abort(r)
  PROVE  IInv'
<1>1. HistType'
  BY OneRequest DEF Abort, IInv, TypeOK, HistType, TxType
<1>. QED
  BY <1>1, EndSteps, RequestStep, MailUnchanged DEF Abort

-----------------------------------------------------------------------------
(* Steps that change the committed rows, and steps of no request           *)

\* What is recorded stays recorded, and an outcome stays an outcome.
RowsKept ==
  \A a \in Actions :
    /\ action[a].state \in Outcomes => action'[a].state \in Outcomes
    /\ action[a].state # "absent" => action'[a].state # "absent"

LEMMA KeptOK ==
  ASSUME NEW q \in Requests, TxOK(tx[q]), tx'[q] = tx[q], RowsKept
  PROVE  TxOK(tx[q])'
<1>1. CurOK(tx[q])' /\ BoundOK(tx[q])' /\ ItemsOK(tx[q])'
  BY DEF TxOK, CurOK, BoundOK, ItemsOK
<1>2. RowsOK(tx[q])'
  BY DEF TxOK, RowsOK, Seen, RowsKept
<1>. QED
  BY <1>1, <1>2 DEF TxOK

LEMMA OtherStep ==
  ASSUME IInv, tx' = tx, RowsKept, TypeOK', NeverHalfDone', ScopeOK', DecisionOK', MailOK'
  PROVE  IInv'
<1>1. LocksOK'
  BY DEF IInv, LocksOK
<1>2. \A q \in Requests : TxOK(tx[q])'
  BY KeptOK DEF IInv
<1>. QED
  BY <1>1, <1>2 DEF IInv

\* An item whose row is written has an action of the request that ended with the
\* outcome the row carries; and every row a request commits is an outcome.
LEMMA CommitRows ==
  ASSUME IInv, NEW r \in Requests, Commit(r)
  PROVE  /\ \A a \in tx[r].held : /\ tx[r].row[a] \in Row /\ tx[r].row[a].state \in Outcomes
                                 /\ action[a].state # "absent"
         /\ \A i \in tx[r].iheld :
              /\ tx[r].irow[i] \in {"executed", "failed"}
              /\ \E a \in tx[r].held :
                   ItemOf[a] = i /\ (tx[r].irow[i] = "executed" => tx[r].row[a].state = "completed")
<1>1. tx[r] \in TxType /\ TxOK(tx[r]) /\ tx[r].pc = "ready"
  BY OneRequest DEF Commit
<1>2. tx[r].cur = NoAction /\ tx[r].held \subseteq Actions /\ NoAction \notin Actions
  BY <1>1, ActionsAssumption DEF TxOK, CurOK, TxType, Busy
<1>3. ASSUME NEW a \in tx[r].held
      PROVE  /\ tx[r].row[a] \in Row /\ tx[r].row[a].state \in Outcomes
             /\ action[a].state # "absent"
  BY <1>1, <1>2 DEF TxOK, RowsOK, TxType
<1>4. ASSUME NEW i \in tx[r].iheld
      PROVE  /\ tx[r].irow[i] \in {"executed", "failed"}
             /\ \E a \in tx[r].held :
                  ItemOf[a] = i /\ (tx[r].irow[i] = "executed" => tx[r].row[a].state = "completed")
  BY <1>1 DEF TxOK, ItemsOK
<1>. QED
  BY <1>3, <1>4

LEMMA CommitInv ==
  ASSUME IInv, NEW r \in Requests, Commit(r)
  PROVE  IInv'
<1>1. \A a \in tx[r].held : /\ tx[r].row[a] \in Row /\ tx[r].row[a].state \in Outcomes
                           /\ action[a].state # "absent"
  BY CommitRows
<1>2. /\ action \in [Actions -> Row] /\ item \in [Items -> ItemStates]
      /\ tx \in [Requests -> TxType] /\ tx[r] \in TxType
  BY DEF IInv, TypeOK
<1>3. /\ action' = [a \in Actions |-> IF a \in tx[r].held THEN tx[r].row[a] ELSE action[a]]
      /\ item' = [i \in Items |-> IF i \in tx[r].iheld THEN tx[r].irow[i] ELSE item[i]]
      /\ tx' = [tx EXCEPT ![r] = IdleTx]
      /\ UNCHANGED <<decision, permits, gmailVars, stuck, lost, stale, raced>>
  BY DEF Commit
<1>4. action' \in [Actions -> Row] /\ RowsKept
  BY <1>1, <1>2, <1>3 DEF RowsKept, Outcomes
<1>5. item' \in [Items -> ItemStates]
  BY <1>2, <1>3 DEF TxType
<1>6. /\ tx' \in [Requests -> TxType] /\ tx'[r] = IdleTx
      /\ \A q \in Requests \ {r} : tx'[q] = tx[q]
  BY <1>2, <1>3, IdleOK
<1>7. /\ scope' \in [id: 0 .. MaxScopes, state: {"none", "current", "executed"},
                      actions: SUBSET Actions, stale: SUBSET Items]
      /\ scope'.actions = scope.actions
  BY DEF Commit, IInv, TypeOK
<1>8. TypeOK'
  <2>1. overtaken' \subseteq Items
    BY <1>2 DEF Commit, IInv, TypeOK, TxType
  <2>. QED
    BY <1>3, <1>4, <1>5, <1>6, <1>7, <2>1 DEF IInv, TypeOK, gmailVars
<1>9. NeverHalfDone'
  BY <1>1, <1>3 DEF IInv, NeverHalfDone, Outcomes
<1>10. ScopeOK'
  BY <1>4, <1>7 DEF IInv, TypeOK, ScopeOK, RowsKept
<1>11. DecisionOK' /\ MailOK'
  BY <1>3 DEF IInv, DecisionOK, MailOK, gmailVars
<1>12. LocksOK'
  BY <1>6, IdleOK DEF IInv, LocksOK
<1>13. ASSUME NEW q \in Requests PROVE TxOK(tx[q])'
  <2>1. CASE q = r
    BY <1>6, <2>1 DEF TxOK, CurOK, BoundOK, RowsOK, ItemsOK, IdleTx, NoRow, Busy, Outcomes
  <2>2. CASE q # r
    BY <1>4, <1>6, <2>2, KeptOK DEF IInv
  <2>. QED
    BY <2>1, <2>2
<1>. QED
  BY <1>8, <1>9, <1>10, <1>11, <1>12, <1>13 DEF IInv

LEMMA AuthoriseInv ==
  ASSUME IInv, NEW a \in Actions, NEW b \in Actions, Authorise(a, b)
  PROVE  IInv'
<1> DEFINE n == [state |-> "approved", attempts |-> 0, ref |-> action[b].ref, msg |-> action[b].msg]
<1>1. action \in [Actions -> Row] /\ action[b] \in Row /\ action[a].state = "absent"
  BY DEF Authorise, IInv, TypeOK
<1>2. n \in Row /\ n.state = "approved"
  BY <1>1, BoundsAssumption DEF Row, ActionStates
<1>3. /\ action' = [action EXCEPT ![a] = n]
      /\ UNCHANGED <<item, scope, decision, permits, gmailVars, tx, stuck, histVars>>
  BY DEF Authorise
<1>. HIDE DEF n
<1>4. action' \in [Actions -> Row] /\ RowsKept /\ NeverHalfDone'
  BY <1>1, <1>2, <1>3 DEF RowsKept, IInv, NeverHalfDone, Outcomes
<1>5. TypeOK'
  BY <1>3, <1>4 DEF IInv, TypeOK, gmailVars, histVars
<1>6. ScopeOK' /\ DecisionOK' /\ MailOK'
  BY <1>3, <1>4 DEF IInv, TypeOK, RowsKept, ScopeOK, DecisionOK, MailOK, gmailVars
<1>. QED
  BY <1>3, <1>4, <1>5, <1>6, OtherStep

\* Preparing plans what was approved or never recorded, and nothing else.
LEMMA PrepareInv ==
  ASSUME IInv, NEW chosen \in SUBSET Items, Prepare(chosen)
  PROVE  IInv'
<1> DEFINE due == Outstanding(chosen)
           planned == {a \in due : action[a].state \in {"absent", "approved"}}
<1>1. /\ action' = [a \in Actions |->
           IF a \in planned THEN [action[a] EXCEPT !.state = "prepared"] ELSE action[a]]
      /\ scope' = [id |-> scope.id + 1, state |-> "current", actions |-> due, stale |-> {}]
      /\ scope.id < MaxScopes
      /\ UNCHANGED <<item, decision, permits, gmailVars, tx, stuck, histVars>>
  BY DEF Prepare
<1>2. /\ due \subseteq Actions /\ planned \subseteq due
      /\ \A a \in due : action[a].state = "absent" => a \in planned
      /\ \A a \in planned : action[a].state \in {"absent", "approved"}
  BY DEF Outstanding
<1>. HIDE DEF due, planned
<1>3. action \in [Actions -> Row] /\ scope.id \in 0 .. MaxScopes
  BY DEF IInv, TypeOK
<1>4. action' \in [Actions -> Row] /\ RowsKept /\ NeverHalfDone'
  <2>1. \A a \in Actions : [action[a] EXCEPT !.state = "prepared"] \in Row
    BY <1>3 DEF Row, ActionStates
  <2>2. action' \in [Actions -> Row]
    BY <1>1, <1>3, <2>1
  <2>3. \A a \in Actions :
          IF a \in planned THEN action'[a].state = "prepared" ELSE action'[a] = action[a]
    BY <1>1, <1>3 DEF Row
  <2>. QED
    BY <1>2, <2>2, <2>3 DEF RowsKept, IInv, NeverHalfDone, Outcomes
<1>5. ScopeOK'
  <2>1. \A a \in due : action'[a].state # "absent"
    BY <1>1, <1>2, <1>3 DEF Row
  <2>. QED
    BY <1>1, <2>1 DEF ScopeOK
<1>6. scope' \in [id: 0 .. MaxScopes, state: {"none", "current", "executed"},
                  actions: SUBSET Actions, stale: SUBSET Items]
  BY <1>1, <1>2, <1>3, BoundsAssumption
<1>7. TypeOK'
  BY <1>1, <1>4, <1>6 DEF IInv, TypeOK, gmailVars, histVars
<1>8. DecisionOK' /\ MailOK'
  BY <1>1 DEF IInv, DecisionOK, MailOK, gmailVars
<1>. QED
  BY <1>1, <1>4, <1>5, <1>7, <1>8, OtherStep

LEMMA DecideInv ==
  ASSUME IInv, \/ \E i \in Items, v \in Verdicts : DecideRead(i, v)
               \/ DecideWrite
               \/ \E k \in Revocable : Reconfigure(k)
  PROVE  IInv'
<1>1. CASE \E i \in Items, v \in Verdicts : DecideRead(i, v)
  <2>1. PICK i \in Items, v \in Verdicts : DecideRead(i, v)
    BY <1>1
  <2>2. TypeOK' /\ DecisionOK'
    BY <2>1, ChoicesAssumption
       DEF DecideRead, IInv, TypeOK, DecisionOK, ItemStates, gmailVars, histVars
  <2>. QED
    BY <2>1, <2>2, OtherStep
       DEF DecideRead, IInv, RowsKept, NeverHalfDone, ScopeOK, MailOK, gmailVars
<1>2. CASE DecideWrite
  <2>1. decision.item \in Items /\ decision.to \in ItemStates
    BY <1>2 DEF DecideWrite, IInv, TypeOK
  <2>2. /\ item' \in [Items -> ItemStates]
        /\ scope' \in [id: 0 .. MaxScopes, state: {"none", "current", "executed"},
                        actions: SUBSET Actions, stale: SUBSET Items]
        /\ scope'.actions = scope.actions
    BY <1>2, <2>1 DEF DecideWrite, IInv, TypeOK
  <2>3. decision' \in [item: Items \cup {NoItem}, to: ItemStates, scope: 0 .. MaxScopes]
    BY <1>2, BoundsAssumption DEF DecideWrite, NoDecision, ItemStates
  <2>4. TypeOK'
    BY <1>2, <2>2, <2>3 DEF DecideWrite, IInv, TypeOK, gmailVars, histVars
  <2>5. DecisionOK' /\ ScopeOK'
    BY <1>2, <2>2 DEF DecideWrite, NoDecision, DecisionOK, ScopeOK, IInv
  <2>. QED
    BY <1>2, <2>4, <2>5, OtherStep
       DEF DecideWrite, IInv, RowsKept, NeverHalfDone, MailOK, gmailVars
<1>3. CASE \E k \in Revocable : Reconfigure(k)
  <2>1. TypeOK'
    BY <1>3, ChoicesAssumption DEF Reconfigure, IInv, TypeOK, gmailVars, histVars
  <2>. QED
    BY <1>3, <2>1, OtherStep
       DEF Reconfigure, IInv, RowsKept, NeverHalfDone, ScopeOK, DecisionOK, MailOK, gmailVars
<1>. QED
  BY <1>1, <1>2, <1>3

LEMMA BlockInv ==
  ASSUME IInv, NEW r \in Requests, Block(r)
  PROVE  IInv'
<1>1. TypeOK'
  BY DEF Block, IInv, TypeOK, dbVars, gmailVars, histVars
<1>. QED
  BY <1>1, OtherStep
     DEF Block, IInv, RowsKept, NeverHalfDone, ScopeOK, DecisionOK, MailOK, dbVars, gmailVars

LEMMA RestartInv ==
  ASSUME IInv, Restart
  PROVE  IInv'
<1>1. /\ tx' = [r \in Requests |-> IdleTx] /\ stuck' = FALSE
      /\ lost' = lost \cup UNION {tx[r].wrote : r \in Requests}
      /\ UNCHANGED <<dbVars, gmailVars, stale, raced, overtaken>>
  BY DEF Restart
<1>2. tx' \in [Requests -> TxType] /\ LocksOK'
  BY <1>1, IdleOK DEF LocksOK
<1>3. lost' \subseteq Actions
  BY <1>1 DEF IInv, TypeOK, TxType
<1>4. TypeOK'
  BY <1>1, <1>2, <1>3 DEF IInv, TypeOK, dbVars, gmailVars
<1>5. NeverHalfDone' /\ ScopeOK' /\ DecisionOK' /\ MailOK'
  BY <1>1 DEF IInv, NeverHalfDone, ScopeOK, DecisionOK, MailOK, dbVars, gmailVars
<1>6. \A r \in Requests : TxOK(tx[r])'
  BY <1>1 DEF TxOK, CurOK, BoundOK, RowsOK, ItemsOK, IdleTx, NoRow, Busy, Outcomes
<1>. QED
  BY <1>2, <1>4, <1>5, <1>6 DEF IInv

LEMMA PersonInv ==
  ASSUME IInv, Person
  PROVE  IInv'
<1>1. tx' = tx /\ UNCHANGED <<dbVars, stuck, lost, stale, overtaken>>
  BY DEF Person, WriteOwnDraft, EditDraft, DeleteDraft, ReturnThread, histVars
<1>2. MailType' /\ MailOK' /\ raced' \subseteq DraftIds
  <2>1. CASE \E i \in Items, d \in DraftIds : WriteOwnDraft(i, d)
    BY <2>1, BoundsAssumption DEF WriteOwnDraft, IInv, TypeOK, MailType, MailOK, histVars
  <2>2. CASE \E d \in DraftIds : EditDraft(d)
    <3>1. PICK d \in DraftIds : EditDraft(d)
      BY <2>2
    <3>2. /\ text \in [DraftIds -> 0 .. MaxText] /\ text[d] \in Nat /\ text[d] < MaxText
          /\ text' = [text EXCEPT ![d] = text[d] + 1]
      BY <3>1, BoundsAssumption DEF EditDraft, IInv, TypeOK
    <3>3. text' \in [DraftIds -> 0 .. MaxText] /\ text'[d] # 0
      BY <3>2, BoundsAssumption
    <3>4. MailOK'
      BY <3>1, <3>2, <3>3 DEF EditDraft, IInv, TypeOK, MailOK
    <3>. QED
      BY <3>1, <3>3, <3>4 DEF EditDraft, IInv, TypeOK, MailType
  <2>3. CASE \E d \in DraftIds : DeleteDraft(d)
    BY <2>3 DEF DeleteDraft, IInv, TypeOK, MailType, MailOK, histVars
  <2>4. CASE \E i \in Items : ReturnThread(i)
    BY <2>4 DEF ReturnThread, IInv, TypeOK, MailType, MailOK, Labels, histVars
  <2>. QED
    BY <2>1, <2>2, <2>3, <2>4 DEF Person
<1>3. TypeOK'
  BY <1>1, <1>2 DEF IInv, TypeOK, MailType, dbVars
<1>. QED
  BY <1>1, <1>2, <1>3, OtherStep
     DEF IInv, RowsKept, NeverHalfDone, ScopeOK, DecisionOK, dbVars

-----------------------------------------------------------------------------
(* The inductive invariant                                                 *)

LEMMA InitInv == Init => IInv
<1> SUFFICES ASSUME Init PROVE IInv
  OBVIOUS
<1>1. NoRow \in Row /\ NoRow.state = "absent"
  BY BoundsAssumption DEF NoRow, Row, ActionStates
<1>2. TypeOK
  <2>1. action \in [Actions -> Row] /\ item \in [Items -> ItemStates]
    BY <1>1 DEF Init, ItemStates
  <2>2. /\ scope \in [id: 0 .. MaxScopes, state: {"none", "current", "executed"},
                      actions: SUBSET Actions, stale: SUBSET Items]
        /\ decision \in [item: Items \cup {NoItem}, to: ItemStates, scope: 0 .. MaxScopes]
        /\ permits \subseteq Kinds
    BY BoundsAssumption DEF Init, NoDecision, ItemStates
  <2>3. MailType
    BY BoundsAssumption DEF Init, MailType, Labels
  <2>4. HistType /\ tx \in [Requests -> TxType]
    BY IdleOK DEF Init, HistType
  <2>. QED
    BY <2>1, <2>2, <2>3, <2>4 DEF TypeOK, MailType, HistType
<1>3. NeverHalfDone /\ ScopeOK /\ DecisionOK /\ MailOK /\ LocksOK
  BY <1>1, IdleOK
     DEF Init, NeverHalfDone, ScopeOK, DecisionOK, NoDecision, MailOK, LocksOK
<1>4. \A r \in Requests : TxOK(tx[r])
  BY IdleOK DEF Init
<1>. QED
  BY <1>2, <1>3, <1>4 DEF IInv

LEMMA ProceedInv ==
  ASSUME IInv, NEW r \in Requests, Proceed(r)
  PROVE  IInv'
BY SkipCompletedInv, BeginInv, CheckFirstInv, LookThreadInv, LookDraftInv, LookSendInv,
   WriteThreadInv, SendDraftInv, CreateDraftInv, ReadBackActionInv, ReadErrorInv,
   CommitInv, RefuseInv
   DEF Proceed

LEMMA NextInv == IInv /\ [Next]_vars => IInv'
<1> SUFFICES ASSUME IInv, [Next]_vars PROVE IInv'
  OBVIOUS
<1>1. CASE Threadpool
  BY <1>1, AuthoriseInv, PrepareInv, DecideInv DEF Threadpool
<1>2. ASSUME NEW r \in Requests, Start(r) PROVE IInv'
  BY <1>2, StartScopeInv, StartRetryInv, StartVerifyInv DEF Start
<1>3. ASSUME NEW r \in Requests, Proceed(r) \/ Abort(r) \/ Block(r) PROVE IInv'
  BY <1>3, ProceedInv, AbortInv, BlockInv
<1>4. CASE Restart
  BY <1>4, RestartInv
<1>5. CASE Person
  BY <1>5, PersonInv
<1>6. CASE UNCHANGED vars
  <2>1. UNCHANGED <<dbVars, gmailVars, tx, stuck, histVars>>
    BY <1>6 DEF vars
  <2>2. TypeOK'
    BY <2>1 DEF IInv, TypeOK, dbVars, gmailVars, histVars
  <2>. QED
    BY <2>1, <2>2, OtherStep
       DEF IInv, RowsKept, NeverHalfDone, ScopeOK, DecisionOK, MailOK, dbVars, gmailVars
<1>. QED
  BY <1>1, <1>2, <1>3, <1>4, <1>5, <1>6 DEF Next

LEMMA Inductive == Spec => []IInv
BY InitInv, NextInv, PTL DEF Spec

-----------------------------------------------------------------------------
(* What follows for every run                                              *)

\* Every variable keeps its type, whatever the requests in flight, the answers
\* lost and the restarts.
THEOREM TypeCorrect == Spec => []TypeOK
<1>1. IInv => TypeOK
  BY DEF IInv
<1>. QED
  BY <1>1, Inductive, PTL

\* No committed row ever says executed: the state between the write and its
\* read-back is seen by nobody outside the request (execute_action).
THEOREM NothingHalfDone == Spec => []NeverHalfDone
<1>1. IInv => NeverHalfDone
  BY DEF IInv
<1>. QED
  BY <1>1, Inductive, PTL

\* Two requests never work towards a write for one action at the same time: the
\* lock taken by the first flush of an attempt is enough.
THEOREM OneWriter == Spec => []OneWriterPerAction
<1>1. IInv => OneWriterPerAction
  <2> SUFFICES ASSUME IInv, NEW r \in Requests, NEW q \in Requests, r # q,
                      tx[r].pc \in {"check", "look", "write"},
                      tx[q].pc \in {"check", "look", "write"}
               PROVE  tx[r].cur # tx[q].cur
    BY DEF OneWriterPerAction
  <2>1. tx[r].cur \in tx[r].held /\ tx[q].cur \in tx[q].held
    BY OneRequest DEF TxOK, CurOK
  <2>. QED
    BY <2>1, OneRequest
<1>. QED
  BY <1>1, Inductive, PTL

-----------------------------------------------------------------------------
(* The record implements ActionPromise                                     *)

\* What a reader of the record sees of the actions.
RecordedStates == [a \in Actions |-> action[a].state]

\* A commit is a settlement of the rows the request holds.
LEMMA CommitSettles ==
  ASSUME IInv, NEW r \in Requests, Commit(r)
  PROVE  Promise!Next
<1> DEFINE S == tx[r].held
           outcome == [a \in S |-> tx[r].row[a].state]
<1>1. /\ \A a \in S : /\ tx[r].row[a] \in Row /\ tx[r].row[a].state \in Outcomes
                     /\ action[a].state # "absent"
      /\ \A i \in tx[r].iheld :
           /\ tx[r].irow[i] \in {"executed", "failed"}
           /\ \E a \in S :
                ItemOf[a] = i /\ (tx[r].irow[i] = "executed" => tx[r].row[a].state = "completed")
  BY CommitRows
<1>2. S \in SUBSET Actions
  BY OneRequest DEF TxType
<1>3. outcome \in [S -> Promise!Outcomes]
  BY <1>1 DEF Promise!Outcomes, Outcomes
<1>4. action' = [a \in Actions |-> IF a \in S THEN tx[r].row[a] ELSE action[a]]
  BY DEF Commit
<1>5. item' = [i \in Items |-> IF i \in tx[r].iheld THEN tx[r].irow[i] ELSE item[i]]
  BY DEF Commit
<1>6. [a \in Actions |-> action'[a].state]
        = [a \in Actions |-> IF a \in S THEN outcome[a] ELSE RecordedStates[a]]
  BY <1>2, <1>4 DEF RecordedStates
<1>7. item' \in [Items -> {"executed", "failed"} \cup {item[i] : i \in Items}]
  BY <1>1, <1>5
<1>8. \A i \in Items : item'[i] # item[i] =>
        /\ item'[i] \in {"executed", "failed"}
        /\ \E a \in S : ItemOf[a] = i /\ (item'[i] = "executed" => outcome[a] = "completed")
  BY <1>1, <1>5
<1>9. \A a \in S : RecordedStates[a] # "absent"
  BY <1>1, <1>2 DEF RecordedStates
<1>. HIDE DEF S, outcome
<1>10. PICK T \in SUBSET Actions : T = S
  BY <1>2
<1>11. PICK out \in [T -> Promise!Outcomes] : out = outcome
  BY <1>3, <1>10
<1>12. Promise!Settle(T, out)
  BY <1>6, <1>7, <1>8, <1>9, <1>10, <1>11 DEF Promise!Settle, RecordedStates
<1>. QED
  BY <1>12 DEF Promise!Next

LEMMA StepsKeepPromise ==
  ASSUME IInv, [Next]_vars
  PROVE  Promise!Next \/ UNCHANGED <<RecordedStates, item>>
<1>0. action \in [Actions -> Row]
  BY DEF IInv, TypeOK
<1>1. ASSUME UNCHANGED <<action, item>> PROVE UNCHANGED <<RecordedStates, item>>
  BY <1>1 DEF RecordedStates
<1>2. ASSUME NEW a \in Actions, NEW b \in Actions, Authorise(a, b) PROVE Promise!Next
  <2>1. /\ action' = [action EXCEPT ![a] = [state |-> "approved", attempts |-> 0,
                                            ref |-> action[b].ref, msg |-> action[b].msg]]
        /\ item' = item /\ action[a].state = "absent"
    BY <1>2 DEF Authorise
  <2>2. [c \in Actions |-> action'[c].state] = [RecordedStates EXCEPT ![a] = "approved"]
    BY <1>0, <2>1 DEF RecordedStates
  <2>3. Promise!Approve(a)
    BY <2>1, <2>2 DEF Promise!Approve, RecordedStates
  <2>. QED
    BY <2>3 DEF Promise!Next
<1>3. ASSUME NEW chosen \in SUBSET Items, Prepare(chosen) PROVE Promise!Next
  <2> DEFINE planned == {a \in Outstanding(chosen) : action[a].state \in {"absent", "approved"}}
  <2>1. /\ action' = [a \in Actions |->
             IF a \in planned THEN [action[a] EXCEPT !.state = "prepared"] ELSE action[a]]
        /\ item' = item
    BY <1>3 DEF Prepare
  <2>2. planned \in SUBSET Actions
    BY DEF Outstanding
  <2>3. \A a \in planned : action[a].state \in {"absent", "approved"}
    OBVIOUS
  <2>. HIDE DEF planned
  <2>4. [a \in Actions |-> action'[a].state]
          = [a \in Actions |-> IF a \in planned THEN "prepared" ELSE RecordedStates[a]]
    BY <1>0, <2>1 DEF RecordedStates, Row
  <2>5. PICK T \in SUBSET Actions : T = planned
    BY <2>2
  <2>6. Promise!Plan(T)
    BY <2>1, <2>3, <2>4, <2>5 DEF Promise!Plan, RecordedStates
  <2>. QED
    BY <2>6 DEF Promise!Next
<1>4. CASE DecideWrite
  <2>1. decision.item \in Items /\ decision.to \in {"approved", "dismissed", "deferred"}
    BY <1>4, ChoicesAssumption DEF DecideWrite, IInv, TypeOK, DecisionOK
  <2>2. item' = [item EXCEPT ![decision.item] = decision.to] /\ action' = action
    BY <1>4 DEF DecideWrite
  <2>3. Promise!Redecide({decision.item}, decision.to)
    <3>1. item \in [Items -> ItemStates]
      BY DEF IInv, TypeOK
    <3>. QED
      BY <2>1, <2>2, <3>1 DEF Promise!Redecide
  <2>4. {decision.item} \in SUBSET Items
    BY <2>1
  <2>. QED
    BY <2>1, <2>3, <2>4 DEF Promise!Next
<1>5. CASE Threadpool
  <2>1. CASE \E i \in Items, v \in Verdicts : DecideRead(i, v)
    BY <1>1, <2>1 DEF DecideRead
  <2>2. CASE \E k \in Revocable : Reconfigure(k)
    BY <1>1, <2>2 DEF Reconfigure
  <2>. QED
    BY <1>2, <1>3, <1>4, <1>5, <2>1, <2>2 DEF Threadpool
<1>6. ASSUME NEW r \in Requests, Start(r) \/ Abort(r) \/ Block(r)
      PROVE  UNCHANGED <<RecordedStates, item>>
  BY <1>1, <1>6 DEF Start, StartScope, StartRetry, StartVerify, Abort, Block, dbVars
<1>7. ASSUME NEW r \in Requests, Proceed(r)
      PROVE  Promise!Next \/ UNCHANGED <<RecordedStates, item>>
  <2>1. CASE Commit(r)
    BY <2>1, CommitSettles
  <2>2. CASE ~Commit(r)
    <3>1. UNCHANGED dbVars
      BY <1>7, <2>2
         DEF Proceed, SkipCompleted, Begin, CheckFirst, LookThread, LookDraft, LookSend,
             WriteThread, SendDraft, CreateDraft, ReadBackAction, ReadError, Refuse
    <3>. QED
      BY <1>1, <3>1 DEF dbVars
  <2>. QED
    BY <2>1, <2>2
<1>8. CASE Restart
  BY <1>1, <1>8 DEF Restart, dbVars
<1>9. CASE Person
  BY <1>1, <1>9 DEF Person, WriteOwnDraft, EditDraft, DeleteDraft, ReturnThread, dbVars
<1>10. CASE UNCHANGED vars
  BY <1>1, <1>10 DEF vars, dbVars
<1>. QED
  BY <1>5, <1>6, <1>7, <1>8, <1>9, <1>10 DEF Next

\* Read between requests, the actions and items of a review only ever move as
\* ActionPromise allows, through every crash, retry and interleaving.
THEOREM RecordKeepsPromise == Spec => PromiseKept
<1>1. Init => Promise!Init
  BY DEF Init, Promise!Init, NoRow
<1>2. IInv /\ [Next]_vars => [Promise!Next]_<<[a \in Actions |-> action[a].state], item>>
  BY StepsKeepPromise DEF RecordedStates
<1>. QED
  BY <1>1, <1>2, Inductive, PTL DEF Spec, PromiseKept, Promise!Spec

-----------------------------------------------------------------------------
(* What the record says of the mailbox.  A row names a draft that was once *)
(* on its item's thread (RowTrue), whatever a request copies of a row it   *)
(* loaded agrees with what it will overwrite (Copies), and the item it     *)
(* loaded is still executed if the committed one is (ItemsTrue).           *)

\* Drafts that left the mailbox, and drafts that were ever in it.
Gone == deleted \cup {s[1] : s \in sent}
Known == live \cup Gone

\* What row w of action a says is so, of the drafts k ever known, those g that
\* are gone, and the threads h they are on.
RowTrue(a, w, k, g, h) ==
  /\ w.ref # 0 => w.ref \in k /\ h[w.ref] = ItemOf[a] /\ KindOf[a] \in {"draft", "send"}
  /\ KindOf[a] = "draft" /\ w.state = "completed" => w.ref # 0
  /\ KindOf[a] = "send" /\ w.state # "absent" => w.ref # 0
  /\ KindOf[a] = "send" /\ w.state = "completed" => w.ref \in g

RowsTrue(t, k, g, h) ==
  \A a \in Actions : RowTrue(a, t.obj[a], k, g, h) /\ RowTrue(a, t.row[a], k, g, h)

\* What t loaded of a row, and what it has flushed of it, against the committed
\* row: no reference is lost, and a send keeps what it was authorised to send.
CopyOf(t, a) ==
  LET w == Seen(t, a)
  IN  /\ (t.obj[a].ref # 0 \/ action[a].ref # 0) => w.ref # 0
      /\ KindOf[a] = "send" /\ a \in t.todo \cup t.held =>
           /\ t.obj[a].ref = action[a].ref /\ t.obj[a].msg = action[a].msg
           /\ w.ref = action[a].ref /\ w.msg = action[a].msg

Copies(t) == \A a \in Actions : CopyOf(t, a)

\* An executed item that t has loaded was executed then, unless t has written
\* it or was overtaken; and what ended without writing it left it true.
ItemsTrue(t) ==
  /\ \A i \in Items \ (t.iheld \cup overtaken) :
       item[i] = "executed" /\ (\E a \in t.todo \cup t.held : ItemOf[a] = i) =>
         t.iobj[i] = "executed"
  /\ \A a \in t.held \ {t.cur} :
       ItemOf[a] \notin t.iheld /\ t.iobj[ItemOf[a]] = "executed" => t.row[a].state = "completed"

\* What was written was locked, and an attempt under way has been counted.
Counted(t) ==
  /\ t.wrote \subseteq t.held
  /\ t.pc \in {"check", "look", "write"} => t.row[t.cur].attempts # 0
  /\ t.pc = "check" => t.obj[t.cur].attempts > 1

TxTrue(t, k, g, h) == RowsTrue(t, k, g, h) /\ Copies(t) /\ ItemsTrue(t) /\ Counted(t)

\* A send is only sent after it was compared with what had been approved.
Compared(t, x, c) ==
  t.pc = "write" /\ KindOf[t.cur] = "send" =>
    LET o == t.obj[t.cur] IN x[o.ref] = o.msg \/ o.ref \in c

\* The attempts a step of t has flushed are those it saw, or more than none.
Carried(t, s) ==
  \A a \in s.held : s.row[a].attempts = Seen(t, a).attempts \/ s.row[a].attempts # 0

LEMMA EndedTrue ==
  ASSUME NEW t \in TxType, TxOK(t), t.pc \in Busy, NEW o \in Row, NEW w \in Row,
         NEW verdict \in {"executed", "failed"}, NEW k, NEW g, NEW h, TxTrue(t, k, g, h),
         action \in [Actions -> Row],
         RowTrue(t.cur, o, k, g, h), RowTrue(t.cur, w, k, g, h),
         (o.ref # 0 \/ action[t.cur].ref # 0) => w.ref # 0,
         KindOf[t.cur] = "send" =>
           /\ o.ref = action[t.cur].ref /\ o.msg = action[t.cur].msg
           /\ w.ref = action[t.cur].ref /\ w.msg = action[t.cur].msg,
         verdict = "executed" => w.state = "completed",
         w.attempts = Seen(t, t.cur).attempts
  PROVE  LET s == Ended(t, o, w, verdict)
         IN  TxTrue(s, k, g, h) /\ Carried(t, s) /\ s.wrote = t.wrote /\ s.pc = "ready"
<1> DEFINE s == Ended(t, o, w, verdict)
           a == t.cur
           i == ItemOf[a]
<1>1. a \in Actions /\ a \in t.todo /\ i \in Items /\ NoAction \notin Actions
  BY ActionsAssumption DEF TxOK, CurOK, TxType
<1>2. verdict \in ItemStates
  BY DEF ItemStates
<1>3. s \in TxType /\ EndedShape(t, s, o, w, verdict)
  BY <1>1, <1>2, EndedFacts
<1>. HIDE DEF s
<1>4. /\ t.todo \subseteq Actions /\ t.held \subseteq Actions /\ t.iheld \subseteq Items
      /\ t.wrote \subseteq Actions /\ t.wrote \subseteq t.held
  BY DEF TxType, TxTrue, Counted
<1>5. RowsTrue(s, k, g, h)
  BY <1>1, <1>3 DEF EndedShape, TxTrue, RowsTrue
<1>6. Copies(s)
  <2> SUFFICES ASSUME NEW b \in Actions PROVE CopyOf(s, b)
    BY DEF Copies
  <2>1. CASE b = a
    <3>1. s.obj[b] = o /\ Seen(s, b) = w
      BY <1>1, <1>3, <2>1 DEF EndedShape, Seen
    <3>. QED
      BY <2>1, <3>1 DEF CopyOf
  <2>2. CASE b # a
    <3>1. s.obj[b] = t.obj[b] /\ Seen(s, b) = Seen(t, b)
      BY <1>3, <2>2 DEF EndedShape, Seen
    <3>2. b \in s.todo \cup s.held => b \in t.todo \cup t.held
      BY <1>3, <2>2 DEF EndedShape
    <3>. QED
      BY <3>1, <3>2 DEF TxTrue, Copies, CopyOf
  <2>. QED
    BY <2>1, <2>2
<1>7. ItemsTrue(s)
  <2>1. s.todo \cup s.held = t.todo \cup t.held /\ s.held \ {s.cur} = (t.held \ {t.cur}) \cup {a}
    BY <1>1, <1>3, <1>4 DEF EndedShape
  <2>2. \A j \in Items : j \notin s.iheld => j \notin t.iheld /\ s.iobj[j] = t.iobj[j]
    BY <1>3 DEF EndedShape
  <2>3. i \notin s.iheld => s.iobj[i] = verdict
    BY <1>1, <1>3 DEF EndedShape
  <2>4. ASSUME NEW j \in Items \ (s.iheld \cup overtaken), item[j] = "executed",
               \E b \in s.todo \cup s.held : ItemOf[b] = j
        PROVE  s.iobj[j] = "executed"
    BY <2>1, <2>2, <2>4 DEF TxTrue, ItemsTrue
  <2>5. ASSUME NEW b \in s.held \ {s.cur}, ItemOf[b] \notin s.iheld, s.iobj[ItemOf[b]] = "executed"
        PROVE  s.row[b].state = "completed"
    <3>1. CASE b = a
      BY <1>1, <1>3, <2>3, <2>5, <3>1 DEF EndedShape
    <3>2. CASE b # a
      <4>1. b \in t.held \ {t.cur} /\ b \in Actions /\ ItemOf[b] \in Items /\ s.row[b] = t.row[b]
        BY <1>3, <1>4, <2>1, <3>2, ActionsAssumption DEF EndedShape
      <4>. QED
        BY <2>2, <2>5, <4>1 DEF TxTrue, ItemsTrue
    <3>. QED
      BY <3>1, <3>2
  <2>. QED
    BY <2>4, <2>5 DEF ItemsTrue
<1>8. Counted(s)
  BY <1>3, <1>4 DEF EndedShape, Counted
<1>9. Carried(t, s)
  BY <1>1, <1>3, <1>4 DEF EndedShape, Carried, Seen
<1>. QED
  BY <1>3, <1>5, <1>6, <1>7, <1>8, <1>9 DEF EndedShape, TxTrue, s

\* What a transaction knows of the send it works on, and of the row it sees.
LEMMA CurTrue ==
  ASSUME NEW t \in TxType, TxOK(t), t.pc \in Busy, NEW k, NEW g, NEW h, TxTrue(t, k, g, h),
         action \in [Actions -> Row], RowTrue(t.cur, action[t.cur], k, g, h)
  PROVE  /\ t.cur \in Actions /\ t.cur \in t.todo /\ action[t.cur].state # "absent"
         /\ t.obj[t.cur] \in Row /\ Seen(t, t.cur) \in Row
         /\ RowTrue(t.cur, t.obj[t.cur], k, g, h) /\ RowTrue(t.cur, Seen(t, t.cur), k, g, h)
         /\ CopyOf(t, t.cur)
         /\ KindOf[t.cur] = "send" =>
              t.obj[t.cur].ref # 0 /\ t.obj[t.cur].ref \in k /\ h[t.obj[t.cur].ref] = ItemOf[t.cur]
<1>1. t.cur \in Actions /\ t.cur \in t.todo
  BY DEF TxOK, CurOK, TxType
<1>2. action[t.cur].state # "absent"
  BY <1>1 DEF TxOK, RowsOK
<1>3. t.obj[t.cur] \in Row /\ Seen(t, t.cur) \in Row
  BY <1>1, SeenRow
<1>4. RowTrue(t.cur, t.obj[t.cur], k, g, h) /\ RowTrue(t.cur, Seen(t, t.cur), k, g, h)
  BY <1>1 DEF TxTrue, RowsTrue, Seen
<1>5. CopyOf(t, t.cur)
  BY <1>1 DEF TxTrue, Copies
<1>. QED
  BY <1>1, <1>2, <1>3, <1>4, <1>5 DEF CopyOf, RowTrue

LEMMA SettledTrue ==
  ASSUME NEW t \in TxType, TxOK(t), t.pc \in Busy, NEW k, NEW g, NEW h, TxTrue(t, k, g, h),
         action \in [Actions -> Row], RowTrue(t.cur, action[t.cur], k, g, h),
         NEW m \in 0 .. MaxText,
         KindOf[t.cur] = "draft" => t.obj[t.cur].ref # 0,
         KindOf[t.cur] = "send" => t.obj[t.cur].ref \in g /\ m = t.obj[t.cur].msg
  PROVE  LET s == Settled(t, m)
         IN  TxTrue(s, k, g, h) /\ Carried(t, s) /\ s.wrote = t.wrote /\ s.pc = "ready"
<1> DEFINE o == t.obj[t.cur]
           w == Seen(t, t.cur)
           o1 == [o EXCEPT !.state = "completed", !.msg = m]
           w1 == [w EXCEPT !.state = "completed", !.msg = Put(w.msg, o.msg, m)]
<1>1. /\ t.cur \in Actions /\ t.cur \in t.todo /\ o \in Row /\ w \in Row
      /\ RowTrue(t.cur, o, k, g, h) /\ RowTrue(t.cur, w, k, g, h) /\ CopyOf(t, t.cur)
      /\ KindOf[t.cur] = "send" => o.ref # 0
  BY CurTrue
<1>2. /\ o1 \in Row /\ o1.state = "completed" /\ o1.ref = o.ref /\ o1.msg = m
      /\ w1 \in Row /\ w1.state = "completed" /\ w1.ref = w.ref
      /\ w1.msg = Put(w.msg, o.msg, m) /\ w1.attempts = w.attempts
  BY <1>1 DEF Row, ActionStates, Put
<1>3. Settled(t, m) = Ended(t, o1, w1, "executed")
  BY DEF Settled
<1>. HIDE DEF o1, w1
<1>4. RowTrue(t.cur, o1, k, g, h)
  BY <1>1, <1>2 DEF RowTrue
<1>5. RowTrue(t.cur, w1, k, g, h)
  BY <1>1, <1>2 DEF RowTrue, CopyOf
<1>6. /\ (o1.ref # 0 \/ action[t.cur].ref # 0) => w1.ref # 0
      /\ KindOf[t.cur] = "send" =>
           /\ o1.ref = action[t.cur].ref /\ o1.msg = action[t.cur].msg
           /\ w1.ref = action[t.cur].ref /\ w1.msg = action[t.cur].msg
  BY <1>1, <1>2 DEF CopyOf, Put
<1>7. "executed" \in {"executed", "failed"} /\ w1.attempts = Seen(t, t.cur).attempts
  BY <1>2
<1>. DEFINE s == Ended(t, o1, w1, "executed")
<1>8. TxTrue(s, k, g, h) /\ Carried(t, s) /\ s.wrote = t.wrote /\ s.pc = "ready"
  BY <1>2, <1>4, <1>5, <1>6, <1>7, EndedTrue
<1>. QED
  BY <1>3, <1>8

LEMMA FailedTrue ==
  ASSUME NEW t \in TxType, TxOK(t), t.pc \in Busy, NEW k, NEW g, NEW h, TxTrue(t, k, g, h),
         action \in [Actions -> Row], RowTrue(t.cur, action[t.cur], k, g, h),
         NEW m \in 0 .. MaxText, KindOf[t.cur] = "send" => m = t.obj[t.cur].msg
  PROVE  LET s == Failed(t, m)
         IN  TxTrue(s, k, g, h) /\ Carried(t, s) /\ s.wrote = t.wrote /\ s.pc = "ready"
<1> DEFINE o == t.obj[t.cur]
           w == Seen(t, t.cur)
           o1 == [o EXCEPT !.state = "failed", !.msg = m]
           w1 == [w EXCEPT !.state = Put(w.state, o.state, "failed"),
                           !.msg = Put(w.msg, o.msg, m)]
<1>1. /\ t.cur \in Actions /\ t.cur \in t.todo /\ o \in Row /\ w \in Row
      /\ RowTrue(t.cur, o, k, g, h) /\ RowTrue(t.cur, w, k, g, h) /\ CopyOf(t, t.cur)
      /\ KindOf[t.cur] = "send" => o.ref # 0
  BY CurTrue
<1>2. /\ o1 \in Row /\ o1.state = "failed" /\ o1.ref = o.ref /\ o1.msg = m
      /\ w1 \in Row /\ w1.state \in {w.state, "failed"} /\ w1.ref = w.ref
      /\ w1.msg = Put(w.msg, o.msg, m) /\ w1.attempts = w.attempts
  BY <1>1 DEF Row, ActionStates, Put
<1>3. Failed(t, m) = Ended(t, o1, w1, "failed")
  BY DEF Failed
<1>. HIDE DEF o1, w1
<1>4. RowTrue(t.cur, o1, k, g, h)
  BY <1>1, <1>2 DEF RowTrue
<1>5. RowTrue(t.cur, w1, k, g, h)
  BY <1>1, <1>2 DEF RowTrue, CopyOf
<1>6. /\ (o1.ref # 0 \/ action[t.cur].ref # 0) => w1.ref # 0
      /\ KindOf[t.cur] = "send" =>
           /\ o1.ref = action[t.cur].ref /\ o1.msg = action[t.cur].msg
           /\ w1.ref = action[t.cur].ref /\ w1.msg = action[t.cur].msg
  BY <1>1, <1>2 DEF CopyOf, Put
<1>7. "failed" \in {"executed", "failed"} /\ w1.attempts = Seen(t, t.cur).attempts
  BY <1>2
<1>. DEFINE s == Ended(t, o1, w1, "failed")
<1>8. TxTrue(s, k, g, h) /\ Carried(t, s) /\ s.wrote = t.wrote /\ s.pc = "ready"
  BY <1>2, <1>4, <1>5, <1>6, <1>7, EndedTrue
<1>. QED
  BY <1>3, <1>8

LEMMA WrittenTrue ==
  ASSUME NEW t \in TxType, TxOK(t), t.pc \in {"look", "write"}, NEW k, NEW g, NEW h,
         TxTrue(t, k, g, h), action \in [Actions -> Row],
         RowTrue(t.cur, action[t.cur], k, g, h), NEW ref \in 0 .. MaxDrafts,
         ref # 0 => ref \in k /\ h[ref] = ItemOf[t.cur],
         KindOf[t.cur] = "draft" => ref # 0,
         KindOf[t.cur] = "send" => ref = t.obj[t.cur].ref,
         KindOf[t.cur] \in ThreadKinds => ref = 0
  PROVE  LET u == WrittenTo(t, ref)
         IN  TxTrue(u, k, g, h) /\ Carried(t, u) /\ u.wrote = t.wrote /\ u.pc = "verify"
<1> DEFINE u == WrittenTo(t, ref)
           a == t.cur
<1>1. WrittenShape(t, u, ref)
  BY WrittenOK
<1>. HIDE DEF u
<1>2. /\ a \in Actions /\ a \in t.todo /\ t.obj[a] \in Row /\ Seen(t, a) \in Row
      /\ RowTrue(a, t.obj[a], k, g, h) /\ RowTrue(a, Seen(t, a), k, g, h) /\ CopyOf(t, a)
      /\ KindOf[a] = "send" => t.obj[a].ref # 0
  BY CurTrue DEF Busy
<1>3. a \in t.held /\ t.held \subseteq Actions /\ t.wrote \subseteq t.held
  BY DEF TxOK, CurOK, TxTrue, Counted, TxType
<1>4. Seen(t, a) = t.row[a] /\ Seen(u, a) = u.row[a]
  BY <1>1, <1>3 DEF WrittenShape, Seen
<1>5. KindOf[a] \in {"draft", "send"} \/ KindOf[a] \in ThreadKinds
  BY <1>2, ActionsAssumption DEF Kinds
<1>6. RowsTrue(u, k, g, h)
  <2>1. RowTrue(a, u.obj[a], k, g, h)
    BY <1>1, <1>2, <1>5 DEF WrittenShape, RowTrue
  <2>2. RowTrue(a, u.row[a], k, g, h)
    BY <1>1, <1>2, <1>4, <1>5 DEF WrittenShape, RowTrue, Put, CopyOf
  <2>3. \A b \in Actions \ {a} : u.obj[b] = t.obj[b] /\ u.row[b] = t.row[b]
    BY <1>1 DEF WrittenShape
  <2>. QED
    BY <2>1, <2>2, <2>3 DEF TxTrue, RowsTrue
<1>7. Copies(u)
  <2> SUFFICES ASSUME NEW b \in Actions PROVE CopyOf(u, b)
    BY DEF Copies
  <2>1. CASE b = a
    <3>1. KindOf[a] \in ThreadKinds => t.row[a].ref = 0 /\ action[a].ref = 0
      BY <1>2, <1>4 DEF RowTrue, ThreadKinds
    <3>. QED
      BY <1>1, <1>2, <1>3, <1>4, <1>5, <2>1, <3>1 DEF WrittenShape, CopyOf, Put
  <2>2. CASE b # a
    <3>1. u.obj[b] = t.obj[b] /\ Seen(u, b) = Seen(t, b)
      BY <1>1, <2>2 DEF WrittenShape, Seen
    <3>. QED
      BY <1>1, <3>1 DEF WrittenShape, TxTrue, Copies, CopyOf
  <2>. QED
    BY <2>1, <2>2
<1>8. ItemsTrue(u)
  <2>1. \A b \in t.held \ {a} : u.row[b] = t.row[b]
    BY <1>1, <1>3 DEF WrittenShape
  <2>. QED
    BY <1>1, <2>1 DEF WrittenShape, TxTrue, ItemsTrue
<1>9. Counted(u)
  BY <1>1, <1>3 DEF WrittenShape, Counted
<1>10. Carried(t, u)
  BY <1>1, <1>3, <1>4 DEF WrittenShape, Carried, Seen
<1>. QED
  BY <1>1, <1>6, <1>7, <1>8, <1>9, <1>10 DEF WrittenShape, TxTrue, u

LEMMA PerformedTrue ==
  ASSUME NEW t \in TxType, TxOK(t), t.pc \in {"look", "write"}, NEW k, NEW g, NEW h,
         TxTrue(t, k, g, h), action \in [Actions -> Row],
         RowTrue(t.cur, action[t.cur], k, g, h), NEW ref \in 0 .. MaxDrafts,
         ref # 0 => ref \in k /\ h[ref] = ItemOf[t.cur],
         KindOf[t.cur] = "draft" => ref # 0,
         KindOf[t.cur] = "send" => ref = t.obj[t.cur].ref,
         KindOf[t.cur] = "send" /\ ~RequireVerification => ref \in g,
         KindOf[t.cur] \in ThreadKinds => ref = 0
  PROVE  LET s == Performed(t, ref)
         IN  TxTrue(s, k, g, h) /\ Carried(t, s) /\ s.wrote = t.wrote /\ s.pc # "write"
<1> DEFINE u == WrittenTo(t, ref)
           m == IF KindOf[t.cur] = "send" THEN t.obj[t.cur].msg ELSE 0
           s == Settled(u, m)
<1>1. /\ u \in TxType /\ TxOK(u) /\ WrittenShape(t, u, ref)
      /\ TxTrue(u, k, g, h) /\ Carried(t, u) /\ u.wrote = t.wrote /\ u.pc = "verify"
  BY WrittenOK, WrittenTrue
<1>2. Performed(t, ref) = IF RequireVerification THEN u ELSE s
  BY PerformedIs
<1>. HIDE DEF u
<1>3. t.cur \in Actions /\ t.obj[t.cur] \in Row /\ t.held \subseteq Actions
  BY CurTrue DEF Busy, TxType
<1>4. m \in 0 .. MaxText
  BY <1>3, BoundsAssumption DEF Row
<1>5. CASE RequireVerification
  BY <1>1, <1>2, <1>5
<1>6. CASE ~RequireVerification
  <2>1. /\ u.cur = t.cur /\ u.pc \in Busy /\ u.obj[u.cur].ref = ref
        /\ u.obj[u.cur].msg = t.obj[t.cur].msg /\ u.held = t.held
    BY <1>1 DEF WrittenShape, Busy
  <2>2. KindOf[u.cur] = "send" => u.obj[u.cur].ref \in g /\ m = u.obj[u.cur].msg
    BY <1>6, <2>1
  <2>. HIDE DEF m
  <2>3. TxTrue(s, k, g, h) /\ Carried(u, s) /\ s.wrote = u.wrote /\ s.pc = "ready"
    BY <1>1, <1>4, <2>1, <2>2, SettledTrue
  <2>4. s.held = u.held \cup {u.cur}
    BY <1>1, <1>4, <2>1, SettledOK
  <2>5. t.cur \in t.held
    BY DEF TxOK, CurOK
  <2>6. Carried(t, s)
    BY <1>1, <2>1, <2>3, <2>4, <2>5 DEF Carried, Seen
  <2>. QED
    BY <1>1, <1>2, <1>6, <2>3, <2>6
<1>. QED
  BY <1>5, <1>6

LEMMA BegunTrue ==
  ASSUME NEW t \in TxType, TxOK(t), t.pc = "ready", NEW a \in t.todo,
         t.obj[a].state # "completed", action \in [Actions -> Row],
         NEW k, NEW g, NEW h, TxTrue(t, k, g, h), RowTrue(a, action[a], k, g, h)
  PROVE  LET s == Begun(t, a)
         IN  /\ TxTrue(s, k, g, h) /\ Carried(t, s) /\ s.wrote = t.wrote /\ s.cur = a
             /\ s.pc = "write" => KindOf[a] # "send" /\ (KindOf[a] = "draft" => t.obj[a].attempts = 0)
<1> DEFINE s == Begun(t, a)
           o == t.obj[a]
           w == Seen(t, a)
<1>1. s \in TxType /\ BegunShape(t, s, a) /\ s.pc \in {"check", "look", "write"}
  BY BegunOK
<1>. HIDE DEF s
<1>2. /\ a \in Actions /\ o \in Row /\ w \in Row /\ action[a].state # "absent"
      /\ t.held \subseteq Actions /\ t.wrote \subseteq t.held
      /\ t.cur = NoAction /\ a \notin t.held /\ NoAction \notin Actions
  BY SeenRow, ActionsAssumption DEF TxOK, CurOK, RowsOK, TxTrue, Counted, TxType, Busy
<1>3. /\ RowTrue(a, o, k, g, h) /\ RowTrue(a, w, k, g, h) /\ CopyOf(t, a)
      /\ w = action[a] /\ KindOf[a] = "send" => w.ref # 0 /\ o.ref # 0
  BY <1>2 DEF TxTrue, RowsTrue, Copies, CopyOf, RowTrue, Seen
<1>4. RowsTrue(s, k, g, h)
  <2>1. RowTrue(a, s.obj[a], k, g, h)
    BY <1>1, <1>2, <1>3 DEF BegunShape, RowTrue
  <2>2. RowTrue(a, s.row[a], k, g, h)
    BY <1>1, <1>2, <1>3 DEF BegunShape, RowTrue, Put, CopyOf
  <2>3. \A b \in Actions \ {a} : s.obj[b] = t.obj[b] /\ s.row[b] = t.row[b]
    BY <1>1 DEF BegunShape
  <2>. QED
    BY <2>1, <2>2, <2>3 DEF TxTrue, RowsTrue
<1>5. Copies(s)
  <2> SUFFICES ASSUME NEW b \in Actions PROVE CopyOf(s, b)
    BY DEF Copies
  <2>1. CASE b = a
    BY <1>1, <1>2, <1>3, <2>1 DEF BegunShape, CopyOf, Seen
  <2>2. CASE b # a
    <3>1. s.obj[b] = t.obj[b] /\ Seen(s, b) = Seen(t, b)
      BY <1>1, <2>2 DEF BegunShape, Seen
    <3>2. b \in s.todo \cup s.held => b \in t.todo \cup t.held
      BY <1>1, <2>2 DEF BegunShape
    <3>. QED
      BY <3>1, <3>2 DEF TxTrue, Copies, CopyOf
  <2>. QED
    BY <2>1, <2>2
<1>6. ItemsTrue(s)
  <2>1. /\ s.todo \cup s.held = t.todo \cup t.held /\ s.held \ {s.cur} = t.held \ {t.cur}
        /\ \A b \in t.held \ {t.cur} : s.row[b] = t.row[b]
    BY <1>1, <1>2 DEF BegunShape
  <2>. QED
    BY <1>1, <2>1 DEF BegunShape, TxTrue, ItemsTrue
<1>7. s.row[a].attempts # 0
  BY <1>1, <1>2, BoundsAssumption DEF BegunShape, Row
<1>8. Counted(s) /\ Carried(t, s)
  <2>1. s.pc = "check" => s.obj[a].attempts > 1
    BY <1>1, <1>2, BoundsAssumption DEF BegunShape, FirstCall, Row
  <2>. QED
    BY <1>1, <1>2, <1>7, <2>1 DEF BegunShape, Counted, Carried, Seen
<1>9. s.pc = "write" => KindOf[a] # "send" /\ (KindOf[a] = "draft" => o.attempts = 0)
  BY <1>1, <1>2, BoundsAssumption DEF BegunShape, FirstCall, LooksFirst, Row
<1>. QED
  BY <1>1, <1>4, <1>5, <1>6, <1>8, <1>9 DEF BegunShape, TxTrue, s

LEMMA LoadedTrue ==
  ASSUME action \in [Actions -> Row], item \in [Items -> ItemStates],
         NEW chosen \in SUBSET Actions, NEW kind, NEW id, NEW k, NEW g, NEW h,
         \A a \in Actions : RowTrue(a, action[a], k, g, h)
  PROVE  LET s == Loaded(kind, chosen, id)
         IN  TxTrue(s, k, g, h) /\ s.wrote = {} /\ s.held = {} /\ s.pc = "ready"
<1> DEFINE s == Loaded(kind, chosen, id)
<1>1. /\ s.pc = "ready" /\ s.todo = chosen /\ s.cur = NoAction /\ s.wrote = {} /\ s.held = {}
      /\ s.iheld = {}
      /\ \A a \in Actions : s.obj[a] = (IF a \in chosen THEN action[a] ELSE NoRow) /\ s.row[a] = NoRow
      /\ \A i \in Items : (\E a \in chosen : ItemOf[a] = i) => s.iobj[i] = item[i]
  BY DEF Loaded
<1>. HIDE DEF s
<1>2. NoRow.state = "absent" /\ NoRow.ref = 0
  BY DEF NoRow
<1>3. RowsTrue(s, k, g, h)
  BY <1>1, <1>2 DEF RowsTrue, RowTrue
<1>4. Copies(s)
  BY <1>1, <1>2 DEF Copies, CopyOf, Seen
<1>5. ItemsTrue(s) /\ Counted(s)
  BY <1>1 DEF ItemsTrue, Counted
<1>. QED
  BY <1>1, <1>3, <1>4, <1>5 DEF TxTrue, s

LEMMA IdleTrue ==
  ASSUME NEW k, NEW g, NEW h
  PROVE  /\ TxTrue(IdleTx, k, g, h) /\ IdleTx.wrote = {} /\ IdleTx.held = {}
         /\ IdleTx.pc = "idle" /\ IdleTx.cur = NoAction
<1>1. /\ IdleTx.pc = "idle" /\ IdleTx.todo = {} /\ IdleTx.cur = NoAction /\ IdleTx.wrote = {}
      /\ IdleTx.held = {} /\ \A a \in Actions : IdleTx.obj[a] = NoRow /\ IdleTx.row[a] = NoRow
  BY DEF IdleTx
<1>2. NoRow.state = "absent" /\ NoRow.ref = 0
  BY DEF NoRow
<1>. QED
  BY <1>1, <1>2 DEF TxTrue, RowsTrue, RowTrue, Copies, CopyOf, Seen, ItemsTrue, Counted

\* Moving to another call, passing over an action and noting a write change none
\* of this.
LEMMA MovedTrue ==
  ASSUME NEW t \in TxType, TxOK(t), t.cur \in t.held \/ t.pc \notin {"check", "look", "write"},
         NEW k, NEW g, NEW h, TxTrue(t, k, g, h), NEW s \in TxType,
         s.cur = t.cur, s.held = t.held, s.iheld = t.iheld, s.iobj = t.iobj, s.obj = t.obj,
         s.row = t.row, s.todo \subseteq t.todo, s.wrote \subseteq t.held,
         s.pc \in {"look", "write"} => t.pc \in {"check", "look", "write"},
         s.pc # "check" \/ t.pc = "check"
  PROVE  TxTrue(s, k, g, h) /\ Carried(t, s)
<1>1. \A a \in Actions : Seen(s, a) = Seen(t, a)
  BY DEF Seen
<1>2. RowsTrue(s, k, g, h) /\ Copies(s)
  BY <1>1 DEF TxTrue, RowsTrue, Copies, CopyOf
<1>3. ItemsTrue(s)
  BY DEF TxTrue, ItemsTrue
<1>4. Counted(s)
  BY DEF TxTrue, Counted
<1>5. Carried(t, s)
  BY DEF Carried, Seen
<1>. QED
  BY <1>2, <1>3, <1>4, <1>5 DEF TxTrue
-----------------------------------------------------------------------------
(* How the mailbox moves                                                   *)

\* A draft is on one thread, and there because an action or a person wrote it.
Placed ==
  \A d \in DraftIds :
    /\ text[d] = 0 => thread[d] = NoItem /\ madeFor[d] = NoAction
    /\ madeFor[d] # NoAction =>
         KindOf[madeFor[d]] = "draft" /\ thread[d] = ItemOf[madeFor[d]]
    /\ text[d] # 0 /\ madeFor[d] = NoAction => d \in OwnDrafts
    /\ d \in Known => text[d] # 0

\* What excuses a second draft for a, and every draft ever written for a.
Excused(a) ==
  \/ a \in lost \cup stale
  \/ \E d \in OwnDrafts : thread[d] = ItemOf[a]
  \/ \E d \in DraftIds \ live : madeFor[d] = a

Made(a) == {d \in DraftIds : madeFor[d] = a}

\* Nothing was written for an action that was never attempted, nor for one whose
\* draft is about to be.
OnceMadeFor(a) ==
  /\ \A d, e \in Made(a) : d = e
  /\ action[a].attempts = 0 /\ (\A r \in Requests : a \notin tx[r].wrote) => Made(a) = {}
  /\ \A r \in Requests : a \in tx[r].held /\ tx[r].row[a].attempts = 0 => Made(a) = {}
  /\ \A r \in Requests : tx[r].pc = "write" /\ tx[r].cur = a => Made(a) = {}

OnceMade == \A a \in Actions : Excused(a) \/ OnceMadeFor(a)

ActionsTrue == \A a \in Actions : RowTrue(a, action[a], Known, Gone, thread)

EffectInv ==
  /\ Placed /\ SentWasApproved /\ ActionsTrue /\ ExecutedItemHasCompletedAction /\ OnceMade
  /\ \A r \in Requests : /\ TxTrue(tx[r], Known, Gone, thread)
                         /\ Compared(tx[r], text, raced)

\* A step may write new drafts and end old ones; it moves none, and what is gone
\* stays gone.
MailMoves ==
  /\ \A d \in DraftIds : text[d] # 0 => thread'[d] = thread[d] /\ madeFor'[d] = madeFor[d]
  /\ Known \subseteq Known' /\ Gone \subseteq Gone'
  /\ \A d \in live' : d \in live \/ text[d] = 0
  /\ lost \subseteq lost' /\ stale \subseteq stale' /\ raced \subseteq raced'

LEMMA KnownDrafts ==
  ASSUME IInv
  PROVE  Known \subseteq DraftIds /\ live \subseteq Known /\ Gone \subseteq Known
BY DEF IInv, TypeOK, Known, Gone

LEMMA RowKept ==
  ASSUME IInv, Placed, MailMoves, NEW a, NEW w, RowTrue(a, w, Known, Gone, thread)
  PROVE  RowTrue(a, w, Known', Gone', thread')
<1>1. w.ref \in Known => w.ref \in Known' /\ thread'[w.ref] = thread[w.ref]
  BY KnownDrafts DEF Placed, MailMoves
<1>. QED
  BY <1>1 DEF RowTrue, MailMoves

LEMMA TxKept ==
  ASSUME IInv, Placed, MailMoves, NEW t, TxTrue(t, Known, Gone, thread)
  PROVE  TxTrue(t, Known', Gone', thread')
<1>1. RowsTrue(t, Known', Gone', thread')
  BY RowKept DEF TxTrue, RowsTrue
<1>. QED
  BY <1>1 DEF TxTrue

LEMMA ExcusedKept ==
  ASSUME IInv, Placed, MailMoves, NEW a \in Actions, Excused(a)
  PROVE  Excused(a)'
<1>1. ItemOf[a] \in Items /\ ItemOf[a] # NoItem /\ a # NoAction /\ OwnDrafts \subseteq DraftIds
  BY ActionsAssumption, ChoicesAssumption
<1>2. CASE a \in lost \cup stale
  BY <1>2 DEF MailMoves, Excused
<1>3. CASE \E d \in OwnDrafts : thread[d] = ItemOf[a]
  <2>1. PICK d \in OwnDrafts : thread[d] = ItemOf[a]
    BY <1>3
  <2>2. d \in DraftIds /\ text[d] # 0 /\ thread'[d] = thread[d]
    BY <1>1, <2>1 DEF Placed, MailMoves
  <2>. QED
    BY <2>1, <2>2 DEF Excused
<1>4. CASE \E d \in DraftIds \ live : madeFor[d] = a
  <2>1. PICK d \in DraftIds \ live : madeFor[d] = a
    BY <1>4
  <2>2. text[d] # 0 /\ madeFor'[d] = a /\ d \notin live'
    BY <1>1, <2>1 DEF Placed, MailMoves
  <2>. QED
    BY <2>1, <2>2 DEF Excused
<1>. QED
  BY <1>2, <1>3, <1>4 DEF Excused

\* The mailbox is as it was.
LEMMA MailStays ==
  ASSUME IInv, EffectInv, UNCHANGED <<live, text, madeFor, thread, sent, deleted>>,
         lost \subseteq lost', stale \subseteq stale', raced \subseteq raced'
  PROVE  /\ MailMoves /\ Placed' /\ Known' = Known /\ Gone' = Gone
         /\ \A a \in Actions : Made(a)' = Made(a)
         /\ \A a \in Actions : Excused(a) => Excused(a)'
<1>1. MailMoves /\ Known' = Known /\ Gone' = Gone
  BY DEF MailMoves, Known, Gone
<1>2. Placed'
  BY <1>1 DEF EffectInv, Placed
<1>3. \A a \in Actions : Excused(a) => Excused(a)'
  BY <1>1, ExcusedKept DEF EffectInv
<1>. QED
  BY <1>1, <1>2, <1>3 DEF Made

\* The message s that left the mailbox was approved.
Sanctioned(s) ==
  \E a \in Actions :
    /\ KindOf[a] = "send" /\ action[a].state # "absent"
    /\ action[a].ref = s[1] /\ thread[s[1]] = ItemOf[a]
    /\ action[a].msg = s[2] \/ s[1] \in raced

\* What was sent stays approved while the sends keep what they were authorised
\* to send.
SendsKept ==
  \A a \in Actions : KindOf[a] = "send" /\ action[a].state # "absent" =>
    /\ action'[a].state # "absent"
    /\ action'[a].ref = action[a].ref /\ action'[a].msg = action[a].msg

LEMMA SentKept ==
  ASSUME IInv, EffectInv, MailMoves, SendsKept, NEW s \in sent
  PROVE  Sanctioned(s)'
<1>1. PICK a \in Actions :
        /\ KindOf[a] = "send" /\ action[a].state # "absent"
        /\ action[a].ref = s[1] /\ thread[s[1]] = ItemOf[a]
        /\ action[a].msg = s[2] \/ s[1] \in raced
  BY DEF EffectInv, SentWasApproved
<1>2. s[1] \in DraftIds /\ text[s[1]] # 0
  BY KnownDrafts DEF EffectInv, Placed, Known, Gone
<1>3. action'[a].state # "absent" /\ action'[a].ref = s[1] /\ action'[a].msg = action[a].msg
  BY <1>1 DEF SendsKept
<1>4. thread'[s[1]] = ItemOf[a] /\ (s[1] \in raced => s[1] \in raced')
  BY <1>1, <1>2 DEF MailMoves
<1>. QED
  BY <1>1, <1>3, <1>4 DEF Sanctioned

LEMMA NothingSent ==
  ASSUME IInv, EffectInv, MailMoves, SendsKept, sent' = sent
  PROVE  SentWasApproved'
<1>1. \A s \in sent : Sanctioned(s)'
  BY SentKept
<1>. QED
  BY <1>1 DEF SentWasApproved, Sanctioned
-----------------------------------------------------------------------------
(* A step of one request                                                  *)

Only(r) == \A q \in Requests \ {r} : tx'[q] = tx[q]

\* What the request r must not forget, and what it must know before it writes.
Remembers(r) ==
  /\ Carried(tx[r], tx'[r])
  /\ \A a \in tx[r].wrote : a \in tx'[r].wrote \/ a \in lost'
  /\ \A a \in Actions : tx'[r].pc = "write" /\ tx'[r].cur = a /\ KindOf[a] = "draft" =>
       Excused(a)' \/ Made(a) = {}

LEMMA OnceFor ==
  ASSUME IInv, EffectInv, IInv', NEW r \in Requests, Only(r), action' = action,
         MailMoves, Remembers(r), NEW a \in Actions, Made(a)' = Made(a), ~Excused(a)'
  PROVE  OnceMadeFor(a)'
<1>1. OnceMadeFor(a) /\ a \notin lost'
  BY ExcusedKept DEF EffectInv, OnceMade, Excused
<1>3. \A q \in Requests : tx[q].wrote \subseteq tx[q].held
  BY DEF EffectInv, TxTrue, Counted
<1>4. (\A q \in Requests : a \notin tx'[q].wrote) => \A q \in Requests : a \notin tx[q].wrote
  BY <1>1 DEF Only, Remembers
<1>5. ASSUME a \in tx'[r].held, tx'[r].row[a].attempts = 0 PROVE Made(a) = {}
  <2>1. Seen(tx[r], a).attempts = 0
    BY <1>5 DEF Remembers, Carried
  <2>2. CASE a \in tx[r].held
    BY <1>1, <2>1, <2>2 DEF OnceMadeFor, Seen
  <2>3. CASE a \notin tx[r].held
    <3>1. \A q \in Requests : a \notin tx[q].wrote
      BY <1>3, <1>5, <2>3 DEF IInv, LocksOK, Only
    <3>. QED
      BY <1>1, <2>1, <2>3, <3>1 DEF OnceMadeFor, Seen
  <2>. QED
    BY <2>2, <2>3
<1>6. ASSUME tx'[r].pc = "write", tx'[r].cur = a PROVE Made(a) = {}
  <2>1. CASE KindOf[a] = "draft"
    BY <1>6, <2>1 DEF Remembers
  <2>2. CASE KindOf[a] # "draft"
    BY <2>2, ActionsAssumption DEF EffectInv, Placed, Made
  <2>. QED
    BY <2>1, <2>2
<1>7. \A q \in Requests : a \in tx'[q].held /\ tx'[q].row[a].attempts = 0 => Made(a) = {}
  BY <1>1, <1>5 DEF Only, OnceMadeFor
<1>8. \A q \in Requests : tx'[q].pc = "write" /\ tx'[q].cur = a => Made(a) = {}
  BY <1>1, <1>6 DEF Only, OnceMadeFor
<1>9. (\A d, e \in Made(a) : d = e)'
  BY <1>1 DEF OnceMadeFor
<1>. QED
  BY <1>1, <1>4, <1>7, <1>8, <1>9 DEF OnceMadeFor

LEMMA OnceStep ==
  ASSUME IInv, EffectInv, IInv', NEW r \in Requests, Only(r), action' = action,
         madeFor' = madeFor, MailMoves, Remembers(r)
  PROVE  OnceMade'
<1>1. \A a \in Actions : Made(a)' = Made(a)
  BY DEF Made
<1>2. \A a \in Actions : ~Excused(a)' => OnceMadeFor(a)'
  BY <1>1, OnceFor
<1>. QED
  BY <1>2 DEF OnceMade

\* A request's step keeps the effects when its own transaction still tells them
\* and the mailbox moved as it may.
LEMMA EffectStep ==
  ASSUME IInv, EffectInv, IInv', NEW r \in Requests, Only(r), UNCHANGED <<dbVars, overtaken>>,
         MailMoves, Placed', SentWasApproved', OnceMade',
         TxTrue(tx'[r], Known', Gone', thread'), Compared(tx'[r], text', raced'),
         \A q \in Requests \ {r} : Compared(tx[q], text', raced')
  PROVE  EffectInv'
<1>1. action' = action /\ item' = item /\ overtaken' = overtaken
  BY DEF dbVars
<1>2. ActionsTrue'
  BY <1>1, RowKept DEF EffectInv, ActionsTrue
<1>3. ExecutedItemHasCompletedAction'
  BY <1>1 DEF EffectInv, ExecutedItemHasCompletedAction
<1>4. ASSUME NEW q \in Requests
      PROVE  TxTrue(tx[q], Known, Gone, thread)' /\ Compared(tx[q], text, raced)'
  <2>1. TxTrue(tx'[q], Known', Gone', thread') /\ Compared(tx'[q], text', raced')
    <3>1. CASE q = r
      BY <3>1
    <3>2. CASE q # r
      <4>1. tx'[q] = tx[q] /\ TxTrue(tx[q], Known, Gone, thread)
        BY <3>2 DEF Only, EffectInv
      <4>2. TxTrue(tx[q], Known', Gone', thread')
        BY <4>1, TxKept DEF EffectInv
      <4>. QED
        BY <3>2, <4>1, <4>2
    <3>. QED
      BY <3>1, <3>2
  <2>. QED
    BY <1>1, <2>1 DEF TxTrue, RowsTrue, RowTrue, Copies, CopyOf, Seen, ItemsTrue, Counted, Compared
<1>. QED
  BY <1>2, <1>3, <1>4 DEF EffectInv

\* Most steps leave the mailbox alone.
LEMMA QuietStep ==
  ASSUME IInv, EffectInv, IInv', NEW r \in Requests, Only(r), UNCHANGED <<dbVars, overtaken>>,
         UNCHANGED <<live, text, madeFor, thread, sent, deleted, raced>>,
         lost \subseteq lost', stale \subseteq stale', Remembers(r),
         TxTrue(tx'[r], Known, Gone, thread), Compared(tx'[r], text, raced)
  PROVE  EffectInv'
<1>1. MailMoves /\ Placed' /\ Known' = Known /\ Gone' = Gone
  BY MailStays
<1>2. action' = action
  BY DEF dbVars
<1>3. SentWasApproved' /\ OnceMade'
  BY <1>1, <1>2, NothingSent, OnceStep DEF SendsKept
<1>4. \A q \in Requests \ {r} : Compared(tx[q], text', raced')
  BY DEF EffectInv
<1>. QED
  BY <1>1, <1>3, <1>4, EffectStep

LEMMA OneEffect ==
  ASSUME IInv, EffectInv, NEW r \in Requests
  PROVE  /\ tx[r] \in TxType /\ TxOK(tx[r]) /\ action \in [Actions -> Row]
         /\ TxTrue(tx[r], Known, Gone, thread) /\ Compared(tx[r], text, raced)
         /\ \A a \in Actions : RowTrue(a, action[a], Known, Gone, thread)
         /\ tx[r].pc \in Busy => tx[r].cur \in Actions
         /\ tx[r].wrote \subseteq tx[r].held /\ tx[r].held \subseteq Actions
<1>1. tx[r].pc \in Busy => tx[r].cur \in Actions
  BY BusyRequest
<1>. QED
  BY <1>1, OneRequest DEF EffectInv, ActionsTrue, TxTrue, Counted, TxType

LEMMA Replacing ==
  ASSUME IInv, NEW r \in Requests, NEW s, tx' = [tx EXCEPT ![r] = s]
  PROVE  tx'[r] = s /\ Only(r)
BY DEF IInv, TypeOK, Only

\* The ways a step of a request with the mailbox untouched can go.
LEMMA EndEffect ==
  ASSUME IInv, EffectInv, IInv', NEW r \in Requests, NEW s, tx' = [tx EXCEPT ![r] = s],
         UNCHANGED <<dbVars, gmailVars, histVars>>,
         TxTrue(s, Known, Gone, thread), Carried(tx[r], s), s.wrote = tx[r].wrote, s.pc # "write"
  PROVE  EffectInv'
<1>1. tx'[r] = s /\ Only(r)
  BY Replacing
<1>2. /\ UNCHANGED <<live, text, madeFor, thread, sent, deleted, raced, overtaken>>
      /\ lost' = lost /\ stale' = stale
  BY DEF gmailVars, histVars
<1>3. Remembers(r) /\ Compared(tx'[r], text, raced)
  BY <1>1 DEF Remembers, Compared
<1>. QED
  BY <1>1, <1>2, <1>3, QuietStep

LEMMA SettleEffect ==
  ASSUME IInv, EffectInv, IInv', NEW r \in Requests, tx[r].pc \in Busy, NEW m \in 0 .. MaxText,
         Settle(r, m), UNCHANGED <<dbVars, gmailVars, histVars>>,
         KindOf[tx[r].cur] = "draft" => tx[r].obj[tx[r].cur].ref # 0,
         KindOf[tx[r].cur] = "send" =>
           tx[r].obj[tx[r].cur].ref \in Gone /\ m = tx[r].obj[tx[r].cur].msg
  PROVE  EffectInv'
<1> DEFINE s == Settled(tx[r], m)
<1>1. TxTrue(s, Known, Gone, thread) /\ Carried(tx[r], s) /\ s.wrote = tx[r].wrote /\ s.pc = "ready"
  BY OneEffect, SettledTrue
<1>2. tx' = [tx EXCEPT ![r] = s]
  BY DEF Settle
<1>. HIDE DEF s
<1>. QED
  BY <1>1, <1>2, EndEffect

LEMMA FailEffect ==
  ASSUME IInv, EffectInv, IInv', NEW r \in Requests, tx[r].pc \in Busy, NEW m \in 0 .. MaxText,
         Fail(r, m), UNCHANGED <<dbVars, gmailVars, histVars>>,
         KindOf[tx[r].cur] = "send" => m = tx[r].obj[tx[r].cur].msg
  PROVE  EffectInv'
<1> DEFINE s == Failed(tx[r], m)
<1>1. TxTrue(s, Known, Gone, thread) /\ Carried(tx[r], s) /\ s.wrote = tx[r].wrote /\ s.pc = "ready"
  BY OneEffect, FailedTrue
<1>2. tx' = [tx EXCEPT ![r] = s]
  BY DEF Fail
<1>. HIDE DEF s
<1>. QED
  BY <1>1, <1>2, EndEffect

LEMMA AdoptEffect ==
  ASSUME IInv, EffectInv, IInv', NEW r \in Requests, tx[r].pc = "look", NEW ref \in 0 .. MaxDrafts,
         Perform(r, tx[r], ref), UNCHANGED <<dbVars, gmailVars, histVars>>,
         ref # 0 => ref \in live /\ thread[ref] = ItemOf[tx[r].cur],
         KindOf[tx[r].cur] \in {"draft"} \cup ThreadKinds,
         KindOf[tx[r].cur] = "draft" <=> ref # 0
  PROVE  EffectInv'
<1> DEFINE s == Performed(tx[r], ref)
<1>1. tx' = [tx EXCEPT ![r] = s]
  BY DEF Perform
<1>2. /\ tx[r] \in TxType /\ TxOK(tx[r]) /\ tx[r].pc \in {"look", "write"}
      /\ TxTrue(tx[r], Known, Gone, thread)
      /\ action \in [Actions -> Row]
      /\ RowTrue(tx[r].cur, action[tx[r].cur], Known, Gone, thread)
  BY OneEffect DEF Busy
<1>3. /\ ref # 0 => ref \in Known /\ thread[ref] = ItemOf[tx[r].cur]
      /\ KindOf[tx[r].cur] = "draft" => ref # 0
      /\ KindOf[tx[r].cur] # "send"
      /\ KindOf[tx[r].cur] \in ThreadKinds => ref = 0
  BY DEF Known, ThreadKinds
<1>4. /\ KindOf[tx[r].cur] = "send" => ref = tx[r].obj[tx[r].cur].ref
      /\ KindOf[tx[r].cur] = "send" /\ ~RequireVerification => ref \in Gone
  BY <1>3
<1>5. TxTrue(s, Known, Gone, thread) /\ Carried(tx[r], s) /\ s.wrote = tx[r].wrote /\ s.pc # "write"
  BY <1>2, <1>3, <1>4, PerformedTrue
<1>. HIDE DEF s
<1>. QED
  BY <1>1, <1>5, EndEffect

LEMMA CallEffect ==
  ASSUME IInv, EffectInv, IInv', NEW r \in Requests, tx[r].pc \in {"check", "look"},
         NEW p \in {"look", "write"}, tx' = [tx EXCEPT ![r].pc = p],
         UNCHANGED <<dbVars, gmailVars, histVars>>,
         p = "write" /\ KindOf[tx[r].cur] = "draft" => Excused(tx[r].cur) \/ Made(tx[r].cur) = {},
         p = "write" /\ KindOf[tx[r].cur] = "send" =>
           text[tx[r].obj[tx[r].cur].ref] = tx[r].obj[tx[r].cur].msg
  PROVE  EffectInv'
<1> DEFINE t == tx[r]
           s == [t EXCEPT !.pc = p]
<1>1. tx' = [tx EXCEPT ![r] = s]
  OBVIOUS
<1>2. /\ t \in TxType /\ TxOK(t) /\ TxTrue(t, Known, Gone, thread) /\ t.wrote \subseteq t.held
      /\ t.cur \in t.held /\ t.cur \in Actions
  BY OneEffect DEF TxOK, CurOK, Busy
<1>3. /\ s \in TxType /\ s.pc = p /\ s.cur = t.cur /\ s.held = t.held /\ s.todo = t.todo
      /\ s.iheld = t.iheld /\ s.iobj = t.iobj /\ s.obj = t.obj
      /\ s.row = t.row /\ s.wrote = t.wrote
  BY <1>2 DEF TxType
<1>. HIDE DEF s
<1>4. TxTrue(s, Known, Gone, thread) /\ Carried(t, s)
  BY <1>2, <1>3, MovedTrue
<1>5. tx'[r] = s /\ Only(r)
  BY <1>1, Replacing
<1>6. /\ UNCHANGED <<live, text, madeFor, thread, sent, deleted, raced, overtaken>>
      /\ lost' = lost /\ stale' = stale
  BY DEF gmailVars, histVars
<1>7. Excused(t.cur) => Excused(t.cur)'
  BY <1>2, <1>6, MailStays
<1>8. Remembers(r)
  <2>1. ASSUME NEW a \in Actions, tx'[r].pc = "write", tx'[r].cur = a, KindOf[a] = "draft"
        PROVE  Excused(a)' \/ Made(a) = {}
    <3>1. a = t.cur
      BY <1>3, <1>5, <2>1
    <3>2. Excused(a) \/ Made(a) = {}
      BY <1>3, <1>5, <2>1, <3>1
    <3>3. Excused(a) => Excused(a)'
      BY <1>6, MailStays
    <3>. QED
      BY <3>2, <3>3
  <2>2. Carried(tx[r], tx'[r]) /\ \A a \in tx[r].wrote : a \in tx'[r].wrote
    BY <1>3, <1>4, <1>5
  <2>. QED
    BY <2>1, <2>2 DEF Remembers
<1>9. Compared(tx'[r], text, raced)
  BY <1>3, <1>5 DEF Compared
<1>. QED
  BY <1>4, <1>5, <1>6, <1>8, <1>9, QuietStep

\* s starts from what l loaded.
Starts(l, s) ==
  /\ l.held = {} /\ l.iheld = {} /\ s.pc \in {"ready", "verify"} /\ s.todo = l.todo
  /\ s.held = {} /\ s.wrote = {} /\ s.iheld = {}
  /\ s.obj = l.obj /\ s.row = l.row /\ s.iobj = l.iobj

LEMMA StartEffect ==
  ASSUME IInv, EffectInv, IInv', NEW r \in Requests, NEW l, NEW s, tx[r].pc = "idle",
         TxTrue(l, Known, Gone, thread), Starts(l, s),
         tx' = [tx EXCEPT ![r] = s], UNCHANGED <<dbVars, gmailVars, histVars>>
  PROVE  EffectInv'
<1>1. tx[r].held = {}
  BY OneEffect DEF TxOK, CurOK
<1>2. \A a \in Actions : Seen(s, a) = Seen(l, a)
  BY DEF Seen, Starts
<1>3. RowsTrue(s, Known, Gone, thread) /\ Copies(s)
  BY <1>2 DEF TxTrue, RowsTrue, Copies, CopyOf, Starts
<1>4. ItemsTrue(s) /\ Counted(s)
  BY DEF TxTrue, ItemsTrue, Counted, Starts
<1>5. TxTrue(s, Known, Gone, thread)
  BY <1>3, <1>4 DEF TxTrue
<1>6. tx[r].wrote = {} /\ s.wrote = {} /\ s.held = {} /\ s.pc # "write"
  BY <1>1, OneEffect DEF Starts
<1>7. Carried(tx[r], s) /\ s.wrote = tx[r].wrote
  BY <1>6 DEF Carried
<1>. QED
  BY <1>5, <1>6, <1>7, EndEffect

LEMMA StartsEffect ==
  ASSUME IInv, EffectInv, IInv', NEW r \in Requests, Start(r)
  PROVE  EffectInv'
<1>1. ASSUME NEW kind, NEW id, NEW chosen \in SUBSET Actions
      PROVE  LET l == Loaded(kind, chosen, id)
             IN  /\ TxTrue(l, Known, Gone, thread)
                 /\ l.pc = "ready" /\ l.held = {} /\ l.iheld = {} /\ l.wrote = {}
  <2> DEFINE l == Loaded(kind, chosen, id)
  <2>1. l.iheld = {}
    BY DEF Loaded
  <2>2. item \in [Items -> ItemStates]
    BY DEF IInv, TypeOK
  <2>3. TxTrue(l, Known, Gone, thread) /\ l.wrote = {} /\ l.held = {} /\ l.pc = "ready"
    BY <2>2, OneEffect, LoadedTrue
  <2>. QED
    BY <2>1, <2>3
<1>2. ASSUME NEW kind, NEW id, NEW chosen \in SUBSET Actions, tx[r].pc = "idle",
             tx' = [tx EXCEPT ![r] = Loaded(kind, chosen, id)],
             UNCHANGED <<dbVars, gmailVars, stuck, histVars>>
      PROVE  EffectInv'
  <2> DEFINE l == Loaded(kind, chosen, id)
  <2>1. TxTrue(l, Known, Gone, thread) /\ l.pc = "ready" /\ l.held = {} /\ l.iheld = {} /\ l.wrote = {}
    BY <1>1
  <2>2. tx' = [tx EXCEPT ![r] = l] /\ UNCHANGED <<dbVars, gmailVars, histVars>>
    BY <1>2
  <2>3. Starts(l, l)
    BY <2>1 DEF Starts
  <2>. HIDE DEF l
  <2>. QED
    BY <1>2, <2>1, <2>2, <2>3, StartEffect
<1>3. CASE StartScope(r)
  <2>1. scope.actions \in SUBSET Actions
    BY DEF IInv, TypeOK
  <2>. QED
    BY <1>2, <1>3, <2>1 DEF StartScope
<1>4. ASSUME NEW a \in Actions, StartRetry(r, a) PROVE EffectInv'
  <2>1. {a} \in SUBSET Actions
    OBVIOUS
  <2>. QED
    BY <1>2, <1>4, <2>1 DEF StartRetry
<1>5. ASSUME NEW a \in Actions, StartVerify(r, a) PROVE EffectInv'
  <2> DEFINE l == Loaded("verify", {a}, 0)
             s == [l EXCEPT !.pc = "verify", !.cur = a]
  <2>1. TxTrue(l, Known, Gone, thread) /\ l.pc = "ready" /\ l.held = {} /\ l.iheld = {} /\ l.wrote = {}
    BY <1>1
  <2>2. Starts(l, s)
    BY DEF Loaded, Starts
  <2>3. tx' = [tx EXCEPT ![r] = s] /\ UNCHANGED <<dbVars, gmailVars, histVars>> /\ tx[r].pc = "idle"
    BY <1>5 DEF StartVerify
  <2>. HIDE DEF s, l
  <2>. QED
    BY <2>1, <2>2, <2>3, StartEffect
<1>. QED
  BY <1>3, <1>4, <1>5 DEF Start

LEMMA SkipCompletedEffect ==
  ASSUME IInv, EffectInv, IInv', NEW r \in Requests, SkipCompleted(r)
  PROVE  EffectInv'
<1>1. PICK a \in tx[r].todo : tx' = [tx EXCEPT ![r].todo = @ \ {a}]
  BY DEF SkipCompleted
<1> DEFINE s == [tx[r] EXCEPT !.todo = tx[r].todo \ {a}]
<1>2. /\ tx[r] \in TxType /\ TxOK(tx[r]) /\ tx[r].pc = "ready"
      /\ TxTrue(tx[r], Known, Gone, thread) /\ tx[r].wrote \subseteq tx[r].held
  BY OneEffect DEF SkipCompleted
<1>3. /\ s \in TxType /\ s.cur = tx[r].cur /\ s.held = tx[r].held /\ s.iheld = tx[r].iheld
      /\ s.iobj = tx[r].iobj /\ s.obj = tx[r].obj /\ s.row = tx[r].row
      /\ s.todo \subseteq tx[r].todo /\ s.wrote = tx[r].wrote /\ s.pc = "ready"
  BY <1>2 DEF TxType
<1>4. tx' = [tx EXCEPT ![r] = s] /\ UNCHANGED <<dbVars, gmailVars, histVars>>
  BY <1>1 DEF SkipCompleted
<1>. HIDE DEF s
<1>5. TxTrue(s, Known, Gone, thread) /\ Carried(tx[r], s)
  BY <1>2, <1>3, MovedTrue
<1>. QED
  BY <1>3, <1>4, <1>5, EndEffect

LEMMA BeginEffect ==
  ASSUME IInv, EffectInv, IInv', NEW r \in Requests, Begin(r)
  PROVE  EffectInv'
<1>1. PICK a \in tx[r].todo :
        /\ tx[r].obj[a].state # "completed" /\ RowFree(r, a)
        /\ tx' = [tx EXCEPT ![r] = Begun(tx[r], a)]
        /\ stale' = IF tx[r].obj[a] # action[a] THEN stale \cup {a} ELSE stale
  BY DEF Begin
<1> DEFINE s == Begun(tx[r], a)
<1>2. /\ tx[r] \in TxType /\ TxOK(tx[r]) /\ tx[r].pc = "ready" /\ a \in Actions
      /\ TxTrue(tx[r], Known, Gone, thread) /\ action \in [Actions -> Row]
      /\ RowTrue(a, action[a], Known, Gone, thread)
  BY <1>1, OneEffect DEF Begin, TxType
<1>3. /\ TxTrue(s, Known, Gone, thread) /\ Carried(tx[r], s) /\ s.wrote = tx[r].wrote /\ s.cur = a
      /\ s.pc = "write" =>
           KindOf[a] # "send" /\ (KindOf[a] = "draft" => tx[r].obj[a].attempts = 0)
  BY <1>1, <1>2, BegunTrue
<1>. HIDE DEF s
<1>4. tx'[r] = s /\ Only(r)
  BY <1>1, Replacing DEF s
<1>5. /\ UNCHANGED <<live, text, madeFor, thread, sent, deleted, raced, overtaken>>
      /\ UNCHANGED dbVars /\ lost' = lost /\ stale \subseteq stale'
  BY <1>1 DEF Begin, gmailVars
<1>6. ASSUME s.pc = "write", KindOf[a] = "draft", ~Excused(a)' PROVE Made(a) = {}
  <2>1. a \notin stale' /\ ~Excused(a)
    BY <1>2, <1>5, <1>6, MailStays DEF Excused
  <2>2. action[a].attempts = 0
    BY <1>1, <1>3, <1>6, <2>1
  <2>3. a \notin tx[r].held
    BY <1>1, <1>2, ActionsAssumption DEF TxOK, CurOK, Busy
  <2>4. \A q \in Requests : a \notin tx[q].wrote
    BY <1>1, <2>3, OneEffect DEF RowFree
  <2>. QED
    BY <1>2, <2>1, <2>2, <2>4 DEF EffectInv, OnceMade, OnceMadeFor
<1>7. Remembers(r)
  <2>1. ASSUME NEW b \in Actions, tx'[r].pc = "write", tx'[r].cur = b, KindOf[b] = "draft"
        PROVE  Excused(b)' \/ Made(b) = {}
    <3>1. b = a
      BY <1>3, <1>4, <2>1
    <3>. QED
      BY <1>4, <1>6, <2>1, <3>1
  <2>. QED
    BY <1>3, <1>4, <2>1 DEF Remembers
<1>8. Compared(tx'[r], text, raced)
  BY <1>3, <1>4 DEF Compared
<1>. QED
  BY <1>3, <1>4, <1>5, <1>7, <1>8, QuietStep

\* What a successful read-back shows.
LEMMA VerifiedTrue ==
  ASSUME IInv, EffectInv, NEW r \in Requests, tx[r].pc \in Busy, Verified(tx[r])
  PROVE  /\ ReadBack(tx[r]) \in 0 .. MaxText
         /\ KindOf[tx[r].cur] = "draft" => tx[r].obj[tx[r].cur].ref # 0
         /\ KindOf[tx[r].cur] = "send" =>
              /\ tx[r].obj[tx[r].cur].ref \in Gone
              /\ ReadBack(tx[r]) = tx[r].obj[tx[r].cur].msg
<1>1. tx[r].cur \in Actions /\ tx[r] \in TxType
  BY OneEffect
<1>2. ReadBack(tx[r]) \in 0 .. MaxText
  BY <1>1, ReadBackType
<1>3. ASSUME KindOf[tx[r].cur] = "draft" PROVE tx[r].obj[tx[r].cur].ref # 0
  <2>1. tx[r].obj[tx[r].cur].ref \in live
    BY <1>3 DEF Verified, ThreadKinds
  <2>. QED
    BY <2>1 DEF IInv, TypeOK, DraftIds
<1>4. ASSUME KindOf[tx[r].cur] = "send"
      PROVE  /\ tx[r].obj[tx[r].cur].ref \in Gone
             /\ ReadBack(tx[r]) = tx[r].obj[tx[r].cur].msg
  <2>1. tx[r].obj[tx[r].cur].ref \notin live /\ ReadBack(tx[r]) = tx[r].obj[tx[r].cur].msg
    BY <1>4 DEF Verified, ReadBack, ThreadKinds
  <2>2. tx[r].obj[tx[r].cur].ref \in Known
    BY <1>1, <1>4, OneEffect, CurTrue
  <2>. QED
    BY <2>1, <2>2 DEF Known
<1>. QED
  BY <1>2, <1>3, <1>4

LEMMA CheckFirstEffect ==
  ASSUME IInv, EffectInv, IInv', NEW r \in Requests, CheckFirst(r)
  PROVE  EffectInv'
<1> DEFINE a == tx[r].cur
           o == tx[r].obj[a]
<1>1. tx[r].pc = "check" /\ tx[r].pc \in Busy /\ UNCHANGED <<dbVars, gmailVars, histVars>>
  BY DEF CheckFirst, Busy
<1>2. CASE Verified(tx[r]) /\ Settle(r, ReadBack(tx[r]))
  BY <1>1, <1>2, VerifiedTrue, SettleEffect
<1>3. CASE ~Verified(tx[r]) /\ tx' = [tx EXCEPT ![r].pc = FirstCall(a, o)]
  <2> DEFINE p == FirstCall(a, o)
  <2>1. a \in Actions /\ o \in Row /\ o.attempts > 1
    BY <1>1, BusyRequest DEF EffectInv, TxTrue, Counted
  <2>2. p \in {"look", "write"} /\ tx' = [tx EXCEPT ![r].pc = p]
    BY <1>3 DEF FirstCall
  <2>3. p = "write" => KindOf[a] # "send"
    BY DEF FirstCall, LooksFirst
  <2>4. ASSUME p = "write", KindOf[a] = "draft" PROVE Excused(a)
    <3>1. o.ref # 0 /\ o.ref \notin live
      BY <1>3, <2>1, <2>4 DEF FirstCall, LooksFirst, Verified, ThreadKinds
    <3>2. o.ref \in Known /\ thread[o.ref] = ItemOf[a]
      BY <2>1, <3>1 DEF EffectInv, TxTrue, RowsTrue, RowTrue
    <3>3. o.ref \in DraftIds /\ text[o.ref] # 0
      BY <3>2, KnownDrafts DEF EffectInv, Placed
    <3>4. CASE madeFor[o.ref] = NoAction
      BY <3>2, <3>3, <3>4 DEF EffectInv, Placed, Excused
    <3>5. CASE madeFor[o.ref] # NoAction
      <4>0. madeFor[o.ref] \in Actions
        BY <3>3, <3>5 DEF IInv, TypeOK
      <4>1. /\ madeFor[o.ref] \in Actions /\ KindOf[madeFor[o.ref]] = "draft"
            /\ ItemOf[madeFor[o.ref]] = ItemOf[a]
        BY <3>2, <3>3, <3>5, <4>0 DEF EffectInv, Placed
      <4>2. madeFor[o.ref] = a
        BY <2>1, <2>4, <4>1, ActionsAssumption
      <4>. QED
        BY <3>1, <3>3, <4>2 DEF Excused
    <3>. QED
      BY <3>4, <3>5
  <2>. HIDE DEF p
  <2>. QED
    BY <1>1, <2>2, <2>3, <2>4, CallEffect
<1>. QED
  BY <1>2, <1>3 DEF CheckFirst

LEMMA LookThreadEffect ==
  ASSUME IInv, EffectInv, IInv', NEW r \in Requests, LookThread(r)
  PROVE  EffectInv'
<1>1. tx[r].pc = "look" /\ UNCHANGED <<dbVars, gmailVars, histVars>>
  BY DEF LookThread
<1>2. KindOf[tx[r].cur] \in ThreadKinds /\ KindOf[tx[r].cur] \notin {"draft", "send"}
  BY DEF LookThread, ThreadKinds
<1>3. CASE Perform(r, tx[r], 0)
  <2>1. 0 \in 0 .. MaxDrafts
    BY BoundsAssumption
  <2>. QED
    BY <1>1, <1>2, <1>3, <2>1, AdoptEffect
<1>4. CASE tx' = [tx EXCEPT ![r].pc = "write"]
  BY <1>1, <1>2, <1>4, CallEffect
<1>. QED
  BY <1>3, <1>4 DEF LookThread

LEMMA LookDraftEffect ==
  ASSUME IInv, EffectInv, IInv', NEW r \in Requests, LookDraft(r)
  PROVE  EffectInv'
<1> DEFINE a == tx[r].cur
<1>1. /\ tx[r].pc = "look" /\ KindOf[a] = "draft" /\ a \in Actions
      /\ UNCHANGED <<dbVars, gmailVars, histVars>>
  BY OneEffect DEF LookDraft, Busy
<1>2. ASSUME NEW d \in live, thread[d] = ItemOf[a], Perform(r, tx[r], d) PROVE EffectInv'
  <2>1. d \in 0 .. MaxDrafts /\ d # 0
    BY <1>2 DEF IInv, TypeOK, DraftIds
  <2>. QED
    BY <1>1, <1>2, <2>1, AdoptEffect
<1>3. ASSUME {d \in live : thread[d] = ItemOf[a]} = {}, tx' = [tx EXCEPT ![r].pc = "write"]
      PROVE  EffectInv'
  <2>1. ASSUME NEW d \in Made(a) PROVE Excused(a)
    <3>1. d \in DraftIds /\ madeFor[d] = a /\ a # NoAction
      BY <1>1, <2>1, ActionsAssumption DEF Made
    <3>2. thread[d] = ItemOf[a]
      BY <3>1 DEF EffectInv, Placed
    <3>. QED
      BY <1>3, <3>1, <3>2 DEF Excused
  <2>. QED
    BY <1>1, <1>3, <2>1, CallEffect
<1>. QED
  BY <1>2, <1>3 DEF LookDraft

LEMMA LookSendEffect ==
  ASSUME IInv, EffectInv, IInv', NEW r \in Requests, LookSend(r)
  PROVE  EffectInv'
<1> DEFINE o == tx[r].obj[tx[r].cur]
<1>1. /\ tx[r].pc = "look" /\ tx[r].pc \in Busy /\ KindOf[tx[r].cur] = "send"
      /\ UNCHANGED <<dbVars, gmailVars, histVars>>
  BY DEF LookSend, Busy
<1>2. CASE text[o.ref] = o.msg /\ tx' = [tx EXCEPT ![r].pc = "write"]
  BY <1>1, <1>2, CallEffect
<1>3. CASE Fail(r, o.msg)
  <2>1. o.msg \in 0 .. MaxText
    BY <1>1, BusyRequest DEF Row
  <2>. QED
    BY <1>1, <1>3, <2>1, FailEffect
<1>. QED
  BY <1>2, <1>3 DEF LookSend

LEMMA ReadBackActionEffect ==
  ASSUME IInv, EffectInv, IInv', NEW r \in Requests, ReadBackAction(r)
  PROVE  EffectInv'
<1>1. tx[r].pc \in Busy /\ UNCHANGED <<dbVars, gmailVars, histVars>>
  BY DEF ReadBackAction, Busy
<1>2. CASE Verified(tx[r]) /\ Settle(r, ReadBack(tx[r]))
  BY <1>1, <1>2, VerifiedTrue, SettleEffect
<1>3. CASE Fail(r, Unread(tx[r]))
  <2>1. Unread(tx[r]) \in 0 .. MaxText
    BY <1>1, OneEffect, ReadBackType
  <2>2. KindOf[tx[r].cur] = "send" => Unread(tx[r]) = tx[r].obj[tx[r].cur].msg
    BY DEF Unread
  <2>. QED
    BY <1>1, <1>3, <2>1, <2>2, FailEffect
<1>. QED
  BY <1>2, <1>3 DEF ReadBackAction

LEMMA ReadErrorEffect ==
  ASSUME IInv, EffectInv, IInv', NEW r \in Requests, ReadError(r)
  PROVE  EffectInv'
<1>1. /\ tx[r].pc \in Busy /\ UNCHANGED <<dbVars, gmailVars, histVars>>
      /\ Fail(r, tx[r].obj[tx[r].cur].msg)
  BY DEF ReadError, Busy
<1>2. tx[r].obj[tx[r].cur].msg \in 0 .. MaxText
  BY <1>1, BusyRequest DEF Row
<1>. QED
  BY <1>1, <1>2, FailEffect

-----------------------------------------------------------------------------
(* Gmail writes, and the drafts they make                                  *)

\* A write that was performed is noted until the request commits, or is lost.
LEMMA NotedTrue ==
  ASSUME NEW t \in TxType, TxOK(t), t.pc = "write", NEW k, NEW g, NEW h, TxTrue(t, k, g, h),
         NEW W \in SUBSET t.held
  PROVE  LET s == [t EXCEPT !.wrote = W]
         IN  /\ s \in TxType /\ TxOK(s) /\ TxTrue(s, k, g, h) /\ Carried(t, s) /\ s.wrote = W
             /\ s.pc = "write" /\ s.cur = t.cur /\ s.obj = t.obj /\ s.held = t.held /\ s.row = t.row
<1> DEFINE s == [t EXCEPT !.wrote = W]
<1>1. s \in TxType /\ TxOK(s)
  BY WroteOK DEF TxType
<1>2. /\ s.wrote = W /\ s.pc = "write" /\ s.cur = t.cur /\ s.obj = t.obj /\ s.held = t.held
      /\ s.row = t.row /\ s.todo = t.todo /\ s.iheld = t.iheld /\ s.iobj = t.iobj
  BY DEF TxType
<1>3. t.cur \in t.held
  BY DEF TxOK, CurOK
<1>. HIDE DEF s
<1>4. TxTrue(s, k, g, h) /\ Carried(t, s)
  BY <1>1, <1>2, <1>3, MovedTrue
<1>. QED
  BY <1>1, <1>2, <1>4 DEF s

\* However Gmail answers, the request still tells the mailbox k, g, h as it is.
LEMMA AnsweredTrue ==
  ASSUME IInv, EffectInv, NEW r \in Requests, tx[r].pc = "write", NEW ans \in Answers,
         NEW ref \in 0 .. MaxDrafts, Answered(r, ans, ref), Forget(r, ans),
         NEW k, NEW g, NEW h, TxTrue(tx[r], k, g, h),
         RowTrue(tx[r].cur, action[tx[r].cur], k, g, h),
         ans = "ok" =>
           /\ ref # 0 => ref \in k /\ h[ref] = ItemOf[tx[r].cur]
           /\ KindOf[tx[r].cur] = "draft" => ref # 0
           /\ KindOf[tx[r].cur] = "send" => ref = tx[r].obj[tx[r].cur].ref /\ ref \in g
           /\ KindOf[tx[r].cur] \in ThreadKinds => ref = 0
  PROVE  /\ Only(r) /\ tx'[r].pc # "write" /\ TxTrue(tx'[r], k, g, h)
         /\ Carried(tx[r], tx'[r]) /\ lost \subseteq lost'
         /\ \A a \in Noted(r, ans) : a \in tx'[r].wrote \/ a \in lost'
<1> DEFINE t == [tx[r] EXCEPT !.wrote = Noted(r, ans)]
<1>1. /\ tx[r] \in TxType /\ TxOK(tx[r]) /\ tx[r].cur \in Actions /\ tx[r].pc \in Busy
      /\ tx[r].wrote \subseteq tx[r].held /\ tx[r].cur \in tx[r].held
      /\ action \in [Actions -> Row]
  BY OneEffect DEF Busy, TxOK, CurOK
<1>2. Noted(r, ans) \in SUBSET tx[r].held
  BY <1>1 DEF Noted
<1>3. /\ t \in TxType /\ TxOK(t) /\ TxTrue(t, k, g, h) /\ Carried(tx[r], t)
      /\ t.wrote = Noted(r, ans) /\ t.pc = "write" /\ t.cur = tx[r].cur /\ t.obj = tx[r].obj
      /\ t.held = tx[r].held /\ t.row = tx[r].row
  BY <1>1, <1>2, NotedTrue
<1>4. /\ ans = "ok" => tx' = [tx EXCEPT ![r] = Performed(t, ref)]
      /\ ans = "none" => tx' = [tx EXCEPT ![r] = IdleTx]
      /\ ans \notin {"ok", "none"} => tx' = [tx EXCEPT ![r] = Failed(t, t.obj[t.cur].msg)]
  BY DEF Answered, Perform
<1>. HIDE DEF t
<1>5. ASSUME NEW s, Carried(t, s) PROVE Carried(tx[r], s)
  BY <1>3, <1>5 DEF Carried, Seen
<1>6. lost \subseteq lost' /\ (ans = "none" => Noted(r, ans) \subseteq lost')
  BY DEF Forget
<1>7. CASE ans = "ok"
  <2> DEFINE s == Performed(t, ref)
  <2>1. /\ ref # 0 => ref \in k /\ h[ref] = ItemOf[t.cur]
        /\ KindOf[t.cur] = "draft" => ref # 0
        /\ KindOf[t.cur] = "send" => ref = t.obj[t.cur].ref
        /\ KindOf[t.cur] = "send" /\ ~RequireVerification => ref \in g
        /\ KindOf[t.cur] \in ThreadKinds => ref = 0
        /\ t.pc \in {"look", "write"} /\ RowTrue(t.cur, action[t.cur], k, g, h)
    BY <1>3, <1>7
  <2>2. TxTrue(s, k, g, h) /\ Carried(t, s) /\ s.wrote = t.wrote /\ s.pc # "write"
    BY <1>1, <1>3, <2>1, PerformedTrue
  <2>. HIDE DEF s
  <2>3. tx'[r] = s /\ Only(r)
    BY <1>4, <1>7, Replacing DEF s
  <2>. QED
    BY <1>3, <1>5, <1>6, <2>2, <2>3
<1>8. CASE ans = "none"
  <2>1. tx'[r] = IdleTx /\ Only(r)
    BY <1>4, <1>8, Replacing
  <2>2. TxTrue(IdleTx, k, g, h) /\ IdleTx.held = {} /\ IdleTx.pc = "idle"
    BY IdleTrue
  <2>3. Carried(tx[r], IdleTx)
    BY <2>2 DEF Carried
  <2>. QED
    BY <1>6, <1>8, <2>1, <2>2, <2>3
<1>9. CASE ans \notin {"ok", "none"}
  <2> DEFINE m == t.obj[t.cur].msg
             s == Failed(t, m)
  <2>1. m \in 0 .. MaxText /\ t.pc \in Busy
    BY <1>1, <1>3, BusyRequest DEF Row
  <2>2. RowTrue(t.cur, action[t.cur], k, g, h)
    BY <1>3
  <2>3. tx'[r] = s /\ Only(r)
    BY <1>4, <1>9, Replacing
  <2>4. TxTrue(s, k, g, h) /\ Carried(t, s) /\ s.wrote = t.wrote /\ s.pc = "ready"
    <3>1. KindOf[t.cur] = "send" => m = t.obj[t.cur].msg
      OBVIOUS
    <3>. HIDE DEF m
    <3>. QED
      BY <1>1, <1>3, <2>1, <2>2, <3>1, FailedTrue
  <2>. HIDE DEF s
  <2>. QED
    BY <1>3, <1>5, <1>6, <2>3, <2>4
<1>. QED
  BY <1>7, <1>8, <1>9

LEMMA AnswerRemembered ==
  ASSUME IInv, EffectInv, NEW r \in Requests, NEW ans \in Answers, tx'[r].pc # "write",
         Carried(tx[r], tx'[r]), \A a \in Noted(r, ans) : a \in tx'[r].wrote \/ a \in lost'
  PROVE  Remembers(r) /\ Compared(tx'[r], text', raced')
BY DEF Remembers, Noted, Compared

\* A write that was refused, or a label, leaves every draft as it was.
LEMMA NoDraftWritten ==
  ASSUME IInv, EffectInv, IInv', NEW r \in Requests, tx[r].pc = "write", NEW ans \in Answers,
         NEW ref \in 0 .. MaxDrafts, Answered(r, ans, ref), Forget(r, ans),
         ans = "error" \/ (KindOf[tx[r].cur] \in ThreadKinds /\ ref = 0),
         UNCHANGED <<dbVars, live, text, madeFor, thread, sent, deleted, stale, raced, overtaken>>
  PROVE  EffectInv'
<1>1. /\ TxTrue(tx[r], Known, Gone, thread) /\ tx[r].cur \in Actions
      /\ RowTrue(tx[r].cur, action[tx[r].cur], Known, Gone, thread)
  BY OneEffect DEF Busy
<1>2. ans = "ok" => KindOf[tx[r].cur] \notin {"draft", "send"} /\ ref = 0
  BY DEF ThreadKinds
<1>3. /\ Only(r) /\ tx'[r].pc # "write" /\ TxTrue(tx'[r], Known, Gone, thread)
      /\ Carried(tx[r], tx'[r]) /\ lost \subseteq lost'
      /\ \A a \in Noted(r, ans) : a \in tx'[r].wrote \/ a \in lost'
  BY <1>1, <1>2, AnsweredTrue
<1>4. Remembers(r) /\ Compared(tx'[r], text, raced)
  BY <1>3, AnswerRemembered
<1>. QED
  BY <1>3, <1>4, QuietStep

LEMMA WriteThreadEffect ==
  ASSUME IInv, EffectInv, IInv', NEW r \in Requests, NEW ans \in Answers, WriteThread(r, ans)
  PROVE  EffectInv'
<1>1. 0 \in 0 .. MaxDrafts
  BY BoundsAssumption
<1>2. /\ tx[r].pc = "write" /\ KindOf[tx[r].cur] \in ThreadKinds
      /\ Answered(r, ans, 0) /\ Forget(r, ans)
      /\ UNCHANGED <<dbVars, live, text, madeFor, thread, sent, deleted, stale, raced, overtaken>>
  BY DEF WriteThread
<1>. QED
  BY <1>1, <1>2, NoDraftWritten

\* A draft r made for its action a, d.
DraftMade(r, a, d) ==
  /\ d \in DraftIds /\ text[d] = 0 /\ KindOf[a] = "draft" /\ a \in Actions
  /\ live' = live \cup {d} /\ text' = [text EXCEPT ![d] = 1]
  /\ madeFor' = [madeFor EXCEPT ![d] = a] /\ thread' = [thread EXCEPT ![d] = ItemOf[a]]

LEMMA DraftMoves ==
  ASSUME IInv, EffectInv, NEW r \in Requests, NEW a, NEW d, DraftMade(r, a, d),
         UNCHANGED <<sent, deleted, stale, raced>>, lost \subseteq lost'
  PROVE  /\ MailMoves /\ Placed' /\ d \notin Known
         /\ d \in Known' /\ thread'[d] = ItemOf[a] /\ d \in 0 .. MaxDrafts /\ d # 0
         /\ \A b \in Actions \ {a} : Made(b)' = Made(b)
         /\ Made(a)' \subseteq Made(a) \cup {d}
<1>1. /\ text \in [DraftIds -> 0 .. MaxText] /\ madeFor \in [DraftIds -> Actions \cup {NoAction}]
      /\ thread \in [DraftIds -> Items \cup {NoItem}]
  BY DEF IInv, TypeOK
<1>2. d \notin Known /\ madeFor[d] = NoAction /\ d \in DraftIds
  BY DEF EffectInv, Placed, DraftMade
<1>3. Known' = Known \cup {d} /\ Gone' = Gone
  BY DEF Known, Gone, DraftMade
<1>4. \A e \in DraftIds : /\ text'[e] = IF e = d THEN 1 ELSE text[e]
                          /\ madeFor'[e] = IF e = d THEN a ELSE madeFor[e]
                          /\ thread'[e] = IF e = d THEN ItemOf[a] ELSE thread[e]
  BY <1>1, <1>2 DEF DraftMade
<1>5. MailMoves
  BY <1>3, <1>4 DEF MailMoves, DraftMade
<1>6. a \in Actions /\ a # NoAction /\ KindOf[a] = "draft"
  BY ActionsAssumption DEF DraftMade
<1>7. Placed'
  <2> SUFFICES ASSUME NEW e \in DraftIds
               PROVE  /\ text'[e] = 0 => thread'[e] = NoItem /\ madeFor'[e] = NoAction
                      /\ madeFor'[e] # NoAction =>
                           KindOf[madeFor'[e]] = "draft" /\ thread'[e] = ItemOf[madeFor'[e]]
                      /\ text'[e] # 0 /\ madeFor'[e] = NoAction => e \in OwnDrafts
                      /\ e \in Known' => text'[e] # 0
    BY DEF Placed
  <2>1. CASE e = d
    BY <1>4, <1>6, <2>1
  <2>2. CASE e # d
    BY <1>3, <1>4, <2>2 DEF EffectInv, Placed
  <2>. QED
    BY <2>1, <2>2
<1>8. \A b \in Actions \ {a} : Made(b)' = Made(b)
  BY <1>2, <1>4, ActionsAssumption DEF Made
<1>9. Made(a)' \subseteq Made(a) \cup {d}
  BY <1>4 DEF Made
<1>10. d \in 0 .. MaxDrafts /\ d # 0
  BY <1>2, BoundsAssumption DEF DraftIds
<1>. QED
  BY <1>2, <1>3, <1>4, <1>5, <1>7, <1>8, <1>9, <1>10

LEMMA OtherCompared ==
  ASSUME IInv, EffectInv, NEW q \in Requests, raced' = raced,
         \A e \in Known : text'[e] = text[e]
  PROVE  Compared(tx[q], text', raced')
<1> SUFFICES ASSUME tx[q].pc = "write", KindOf[tx[q].cur] = "send"
             PROVE  LET o == tx[q].obj[tx[q].cur] IN text'[o.ref] = o.msg \/ o.ref \in raced'
  BY DEF Compared
<1>1. tx[q].obj[tx[q].cur].ref \in Known
  <2>1. tx[q].pc \in Busy /\ tx[q].cur \in Actions
    BY OneEffect DEF Busy
  <2>. QED
    BY <2>1, OneEffect, CurTrue
<1>. QED
  BY <1>1, OneEffect DEF Compared

\* Whoever writes a draft for a is the only one at it, has counted the attempt
\* and knows no other draft.
LEMMA OneDraft ==
  ASSUME IInv, EffectInv, IInv', NEW r \in Requests, tx[r].pc = "write", Only(r),
         tx'[r].pc # "write", NEW a, a = tx[r].cur, a \in Actions, Remembers(r),
         NEW d, Made(a)' \subseteq Made(a) \cup {d}, MailMoves,
         a \in tx'[r].wrote \/ a \in lost', ~Excused(a)'
  PROVE  OnceMadeFor(a)'
<1>1. OnceMadeFor(a) /\ a \notin lost'
  BY ExcusedKept DEF EffectInv, OnceMade, Excused
<1>2. Made(a) = {}
  BY <1>1 DEF OnceMadeFor
<1>3. a \in tx[r].held /\ tx[r].row[a].attempts # 0
  BY DEF IInv, TxOK, CurOK, EffectInv, TxTrue, Counted
<1>4. \A q \in Requests \ {r} : a \notin tx[q].held /\ tx'[q] = tx[q]
  BY <1>3 DEF IInv, LocksOK, Only
<1>5. \A q \in Requests : a \in tx'[q].held => tx'[q].row[a].attempts # 0
  BY <1>3, <1>4 DEF Remembers, Carried, Seen
<1>6. \A q \in Requests : ~(tx'[q].pc = "write" /\ tx'[q].cur = a)
  BY <1>4 DEF IInv, TxOK, CurOK
<1>7. \E q \in Requests : a \in tx'[q].wrote
  BY <1>1
<1>8. (\A e, f \in Made(a) : e = f)'
  BY <1>2
<1>. QED
  BY <1>5, <1>6, <1>7, <1>8 DEF OnceMadeFor

LEMMA CreateDraftEffect ==
  ASSUME IInv, EffectInv, IInv', NEW r \in Requests, NEW ans \in Answers, NEW d \in Minted,
         CreateDraft(r, d, ans)
  PROVE  EffectInv'
<1> SUFFICES ASSUME NEW a, a = tx[r].cur PROVE EffectInv'
  OBVIOUS
<1>1. /\ tx[r].pc = "write" /\ KindOf[a] = "draft" /\ Answered(r, ans, d) /\ Forget(r, ans)
      /\ UNCHANGED <<dbVars, sent, deleted, stale, raced, overtaken>>
      /\ d \in DraftIds /\ d \in 0 .. MaxDrafts /\ d # 0
  BY BoundsAssumption DEF CreateDraft, Minted, DraftIds
<1>2. /\ TxTrue(tx[r], Known, Gone, thread) /\ a \in Actions
      /\ RowTrue(a, action[a], Known, Gone, thread)
  BY <1>1, OneEffect DEF Busy
<1>3. CASE ans = "error"
  <2>1. UNCHANGED <<live, text, madeFor, thread>>
    BY <1>3 DEF CreateDraft
  <2>. QED
    BY <1>1, <1>3, <2>1, NoDraftWritten
<1>4. CASE ans # "error"
  <2>1. DraftMade(r, a, d) /\ lost \subseteq lost'
    BY <1>1, <1>2, <1>4 DEF CreateDraft, DraftMade, Forget
  <2>2. /\ MailMoves /\ Placed' /\ d \notin Known /\ d \in Known' /\ thread'[d] = ItemOf[a]
        /\ \A b \in Actions \ {a} : Made(b)' = Made(b)
        /\ Made(a)' \subseteq Made(a) \cup {d}
    BY <1>1, <2>1, DraftMoves
  <2>3. /\ TxTrue(tx[r], Known', Gone', thread') /\ RowTrue(a, action[a], Known', Gone', thread')
    BY <1>2, <2>2, TxKept, RowKept DEF EffectInv
  <2>4. /\ Only(r) /\ tx'[r].pc # "write" /\ TxTrue(tx'[r], Known', Gone', thread')
        /\ Carried(tx[r], tx'[r]) /\ lost \subseteq lost'
        /\ \A b \in Noted(r, ans) : b \in tx'[r].wrote \/ b \in lost'
    BY <1>1, <2>2, <2>3, AnsweredTrue DEF ThreadKinds
  <2>5. Remembers(r) /\ Compared(tx'[r], text', raced')
    BY <2>4, AnswerRemembered
  <2>6. action' = action
    BY <1>1 DEF dbVars
  <2>7. SentWasApproved'
    BY <1>1, <2>2, <2>6, NothingSent DEF SendsKept
  <2>8. OnceMade'
    <3>1. ASSUME NEW b \in Actions, b # a, ~Excused(b)' PROVE OnceMadeFor(b)'
      BY <2>2, <2>4, <2>5, <2>6, <3>1, OnceFor
    <3>2. ASSUME ~Excused(a)' PROVE OnceMadeFor(a)'
      <4>1. a \in tx'[r].wrote \/ a \in lost'
        BY <1>1, <1>4, <2>4 DEF Noted, ThreadKinds
      <4>. QED
        BY <1>1, <1>2, <2>2, <2>4, <2>5, <3>2, <4>1, OneDraft
    <3>. QED
      BY <3>1, <3>2 DEF OnceMade
  <2>9. \A q \in Requests \ {r} : Compared(tx[q], text', raced')
    <3>1. \A e \in Known : text'[e] = text[e]
      BY <2>1, <2>2, KnownDrafts DEF DraftMade, IInv, TypeOK
    <3>. QED
      BY <1>1, <3>1, OtherCompared
  <2>. QED
    BY <1>1, <2>2, <2>4, <2>5, <2>7, <2>8, <2>9, EffectStep
<1>. QED
  BY <1>3, <1>4

LEMMA SendDraftEffect ==
  ASSUME IInv, EffectInv, IInv', NEW r \in Requests, NEW ans \in Answers, SendDraft(r, ans)
  PROVE  EffectInv'
<1> SUFFICES ASSUME NEW a, NEW o, NEW d, a = tx[r].cur, o = tx[r].obj[a], d = o.ref
             PROVE  EffectInv'
  OBVIOUS
<1>1. /\ tx[r].pc = "write" /\ KindOf[a] = "send" /\ Answered(r, ans, d) /\ Forget(r, ans)
      /\ UNCHANGED <<dbVars, text, madeFor, thread, deleted, stale, raced, overtaken>>
      /\ tx[r].pc \in Busy
  BY DEF SendDraft, Busy
<1>2. /\ TxTrue(tx[r], Known, Gone, thread) /\ RowTrue(a, action[a], Known, Gone, thread)
      /\ a \in Actions /\ a \in tx[r].todo /\ action[a].state # "absent"
      /\ o \in Row /\ d # 0 /\ d \in Known /\ thread[d] = ItemOf[a] /\ CopyOf(tx[r], a)
  BY <1>1, OneEffect, CurTrue
<1>3. d \in 0 .. MaxDrafts
  BY <1>2 DEF Row
<1>4. action' = action /\ lost \subseteq lost'
  BY <1>1 DEF dbVars, Forget
<1>5. CASE ans = "error"
  <2>1. UNCHANGED <<live, sent>>
    BY <1>5 DEF SendDraft
  <2>. QED
    BY <1>1, <1>3, <1>5, <2>1, NoDraftWritten
<1>6. CASE ans # "error"
  <2>1. live' = live \ {d} /\ sent' = sent \cup {<<d, text[d]>>} /\ d \in live
    BY <1>6 DEF SendDraft
  <2>2. Known' = Known /\ Gone' = Gone \cup {d}
    <3>1. {s[1] : s \in sent'} = {s[1] : s \in sent} \cup {d}
      <4>1. \A m : \A s : s = <<d, m>> => s[1] = d
        OBVIOUS
      <4>2. PICK s \in sent' : s = <<d, text[d]>>
        BY <2>1
      <4>3. s[1] = d
        BY <4>1, <4>2
      <4>4. \A u : u \in sent' <=> u \in sent \/ u = s
        BY <2>1, <4>2
      <4>. QED
        BY <4>3, <4>4
    <3>2. Gone' = Gone \cup {d}
      BY <1>1, <3>1 DEF Gone
    <3>. QED
      BY <2>1, <3>2 DEF Known
  <2>3. MailMoves
    BY <1>1, <1>4, <2>1, <2>2 DEF MailMoves
  <2>4. Placed'
    BY <1>1, <2>2 DEF EffectInv, Placed
  <2>5. TxTrue(tx[r], Known', Gone', thread') /\ RowTrue(a, action[a], Known', Gone', thread')
    BY <1>2, <2>3, TxKept, RowKept DEF EffectInv
  <2>6. d \in Known' /\ thread'[d] = ItemOf[a] /\ d \in Gone'
    BY <1>1, <1>2, <2>2
  <2>7. /\ Only(r) /\ tx'[r].pc # "write" /\ TxTrue(tx'[r], Known', Gone', thread')
        /\ Carried(tx[r], tx'[r])
        /\ \A b \in Noted(r, ans) : b \in tx'[r].wrote \/ b \in lost'
    <3>1. KindOf[a] = "send" => d = o.ref /\ d \in Gone'
      BY <2>6
    <3>2. KindOf[a] \notin ThreadKinds /\ KindOf[a] # "draft"
      BY <1>1 DEF ThreadKinds
    <3>. QED
      BY <1>1, <1>2, <1>3, <2>5, <2>6, <3>1, <3>2, AnsweredTrue
  <2>8. Remembers(r) /\ Compared(tx'[r], text', raced')
    BY <2>7, AnswerRemembered
  <2>9. OnceMade'
    BY <1>1, <1>4, <2>3, <2>7, <2>8, OnceStep
  <2>10. SentWasApproved'
    <3>1. \A s \in sent : Sanctioned(s)'
      BY <1>4, <2>3, SentKept DEF SendsKept
    <3>2. ASSUME NEW s, s = <<d, text[d]>> PROVE Sanctioned(s)'
      <4>1. action[a].ref = d /\ action[a].msg = o.msg
        BY <1>1, <1>2 DEF CopyOf
      <4>2. text[d] = o.msg \/ d \in raced
        BY <1>1, OneEffect DEF Compared
      <4>3. s[1] = d /\ s[2] = text[d]
        BY <3>2
      <4>. QED
        BY <1>1, <1>2, <1>4, <2>6, <4>1, <4>2, <4>3 DEF Sanctioned
    <3>3. \A s \in sent' : Sanctioned(s)'
      BY <1>1, <2>1, <3>1, <3>2
    <3>. QED
      BY <3>3 DEF SentWasApproved, Sanctioned
  <2>11. \A q \in Requests \ {r} : Compared(tx[q], text', raced')
    BY <1>1, OtherCompared
  <2>. QED
    BY <1>1, <2>3, <2>4, <2>7, <2>8, <2>9, <2>10, <2>11, EffectStep
<1>. QED
  BY <1>5, <1>6

-----------------------------------------------------------------------------
(* The end of a request, and the steps of others                           *)

LEMMA EndsEffect ==
  ASSUME IInv, EffectInv, IInv', NEW r \in Requests, tx' = [tx EXCEPT ![r] = IdleTx],
         lost' = lost \cup tx[r].wrote, UNCHANGED <<dbVars, gmailVars, stale, raced, overtaken>>
  PROVE  EffectInv'
<1>1. tx'[r] = IdleTx /\ Only(r)
  BY Replacing
<1>2. /\ TxTrue(IdleTx, Known, Gone, thread) /\ IdleTx.wrote = {} /\ IdleTx.held = {}
      /\ IdleTx.pc = "idle" /\ IdleTx.cur = NoAction
  BY IdleTrue
<1>3. Remembers(r) /\ Compared(tx'[r], text, raced)
  BY <1>1, <1>2 DEF Remembers, Carried, Compared
<1>4. UNCHANGED <<live, text, madeFor, thread, sent, deleted, raced>>
  BY DEF gmailVars
<1>. QED
  BY <1>1, <1>2, <1>3, <1>4, QuietStep

\* What a step that leaves the mailbox and the requests alone may do to the rows.
RowsFollow ==
  /\ SendsKept
  /\ \A a \in Actions :
       /\ RowTrue(a, action'[a], Known, Gone, thread)
       /\ action[a].state = "completed" => action'[a].state = "completed"
       /\ action'[a].attempts = 0 => action[a].attempts = 0 \/ KindOf[a] # "draft"
       /\ \A r \in Requests : CopyOf(tx[r], a)'
  /\ \A i \in Items : item'[i] = "executed" => item[i] = "executed"

LEMMA RecordStep ==
  ASSUME IInv, EffectInv, tx' = tx, RowsFollow,
         UNCHANGED <<live, text, madeFor, thread, sent, deleted, histVars>>
  PROVE  EffectInv'
<1>1. /\ UNCHANGED <<live, text, madeFor, thread, sent, deleted>>
      /\ lost' = lost /\ stale' = stale /\ raced' = raced /\ overtaken' = overtaken
  BY DEF histVars
<1>2. /\ MailMoves /\ Placed' /\ Known' = Known /\ Gone' = Gone
      /\ \A a \in Actions : Made(a)' = Made(a)
      /\ \A a \in Actions : Excused(a) => Excused(a)'
  BY <1>1, MailStays
<1>3. SentWasApproved'
  BY <1>1, <1>2, NothingSent DEF RowsFollow
<1>4. ActionsTrue'
  BY <1>1, <1>2 DEF RowsFollow, ActionsTrue
<1>5. ExecutedItemHasCompletedAction'
  BY <1>1 DEF RowsFollow, EffectInv, ExecutedItemHasCompletedAction
<1>6. OnceMade'
  <2> SUFFICES ASSUME NEW a \in Actions, ~Excused(a)' PROVE OnceMadeFor(a)'
    BY DEF OnceMade
  <2>1. OnceMadeFor(a)
    BY <1>2 DEF EffectInv, OnceMade
  <2>2. Made(a)' = Made(a) /\ (KindOf[a] # "draft" => Made(a) = {})
    BY <1>2, ActionsAssumption DEF EffectInv, Placed, Made
  <2>. QED
    BY <2>1, <2>2 DEF OnceMadeFor, RowsFollow
<1>7. ASSUME NEW r \in Requests
      PROVE  TxTrue(tx[r], Known, Gone, thread)' /\ Compared(tx[r], text, raced)'
  <2>1. RowsTrue(tx[r], Known, Gone, thread)' /\ Counted(tx[r])' /\ Compared(tx[r], text, raced)'
    BY <1>1, <1>2 DEF EffectInv, TxTrue, RowsTrue, RowTrue, Counted, Compared
  <2>2. Copies(tx[r])'
    BY DEF RowsFollow, Copies
  <2>3. ItemsTrue(tx[r])'
    BY <1>1 DEF EffectInv, TxTrue, ItemsTrue, RowsFollow
  <2>. QED
    BY <2>1, <2>2, <2>3 DEF TxTrue
<1>. QED
  BY <1>2, <1>3, <1>4, <1>5, <1>6, <1>7 DEF EffectInv

LEMMA SameActions ==
  ASSUME IInv, EffectInv, tx' = tx, action' = action,
         \A i \in Items : item'[i] = "executed" => item[i] = "executed",
         UNCHANGED <<live, text, madeFor, thread, sent, deleted, histVars>>
  PROVE  EffectInv'
<1>1. RowsFollow
  BY DEF RowsFollow, SendsKept, EffectInv, ActionsTrue, TxTrue, Copies, CopyOf, Seen
<1>. QED
  BY <1>1, RecordStep

LEMMA AuthoriseEffect ==
  ASSUME IInv, EffectInv, NEW a \in Actions, NEW b \in Actions, Authorise(a, b)
  PROVE  EffectInv'
<1>1. /\ KindOf[a] = "send" /\ action[a].state = "absent"
      /\ KindOf[b] = "draft" /\ ItemOf[b] = ItemOf[a] /\ action[b].state = "completed"
      /\ tx' = tx /\ item' = item
      /\ UNCHANGED <<live, text, madeFor, thread, sent, deleted, histVars>>
  BY DEF Authorise, gmailVars
<1>2. \A c \in Actions :
        action'[c] = IF c = a THEN [state |-> "approved", attempts |-> 0,
                                    ref |-> action[b].ref, msg |-> action[b].msg]
                     ELSE action[c]
  BY DEF Authorise, IInv, TypeOK
<1>3. action[b].ref # 0 /\ action[b].ref \in Known /\ thread[action[b].ref] = ItemOf[a]
  BY <1>1 DEF EffectInv, ActionsTrue, RowTrue
<1>4. /\ action'[a].state = "approved" /\ action'[a].attempts = 0
      /\ action'[a].ref = action[b].ref
      /\ \A c \in Actions \ {a} : action'[c] = action[c]
  BY <1>2
<1>5. \A q \in Requests : a \notin tx[q].todo \cup tx[q].held
  BY <1>1 DEF IInv, TxOK, RowsOK
<1>6. ASSUME NEW q \in Requests, NEW c \in Actions PROVE CopyOf(tx[q], c)'
  <2>1. CASE c = a
    BY <1>1, <1>3, <1>4, <1>5, <2>1 DEF CopyOf, Seen
  <2>2. CASE c # a
    BY <1>1, <1>4, <2>2 DEF EffectInv, TxTrue, Copies, CopyOf, Seen
  <2>. QED
    BY <2>1, <2>2
<1>7. SendsKept
  BY <1>1, <1>4 DEF SendsKept
<1>8. ASSUME NEW c \in Actions
      PROVE  /\ RowTrue(c, action'[c], Known, Gone, thread)
             /\ action[c].state = "completed" => action'[c].state = "completed"
             /\ action'[c].attempts = 0 => action[c].attempts = 0 \/ KindOf[c] # "draft"
  <2>1. CASE c = a
    BY <1>1, <1>3, <1>4, <2>1 DEF RowTrue
  <2>2. CASE c # a
    BY <1>4, <2>2 DEF EffectInv, ActionsTrue
  <2>. QED
    BY <2>1, <2>2
<1>9. RowsFollow
  BY <1>1, <1>6, <1>7, <1>8 DEF RowsFollow
<1>. QED
  BY <1>1, <1>9, RecordStep

LEMMA PrepareEffect ==
  ASSUME IInv, EffectInv, NEW chosen \in SUBSET Items, Prepare(chosen)
  PROVE  EffectInv'
<1>1. /\ tx' = tx /\ item' = item
      /\ UNCHANGED <<live, text, madeFor, thread, sent, deleted, histVars>>
  BY DEF Prepare, gmailVars
<1>2. ASSUME NEW a \in Actions
      PROVE  \/ action'[a] = action[a]
             \/ /\ action'[a] = [action[a] EXCEPT !.state = "prepared"]
                /\ action[a].state \in {"absent", "approved"}
                /\ action[a].state = "absent" => KindOf[a] # "send"
  BY DEF Prepare, Outstanding
<1>3. ASSUME NEW a \in Actions
      PROVE  /\ action'[a].ref = action[a].ref /\ action'[a].msg = action[a].msg
             /\ action'[a].attempts = action[a].attempts
             /\ action'[a].state \in {action[a].state, "prepared"}
             /\ action'[a].state # action[a].state => action[a].state # "completed"
             /\ KindOf[a] = "send" /\ action[a].state = "absent" => action'[a].state = "absent"
             /\ action[a].state # "absent" => action'[a].state # "absent"
  <2>1. action[a] \in Row
    BY DEF IInv, TypeOK
  <2>. QED
    BY <1>2, <2>1 DEF Row
<1>4. \A a \in Actions, r \in Requests : CopyOf(tx[r], a)'
  BY <1>1, <1>3 DEF EffectInv, TxTrue, Copies, CopyOf, Seen
<1>5. \A a \in Actions : RowTrue(a, action'[a], Known, Gone, thread)
  BY <1>3 DEF EffectInv, ActionsTrue, RowTrue
<1>6. RowsFollow
  BY <1>1, <1>3, <1>4, <1>5 DEF RowsFollow, SendsKept
<1>. QED
  BY <1>1, <1>6, RecordStep

LEMMA DecideEffect ==
  ASSUME IInv, EffectInv, \/ \E i \in Items, v \in Verdicts : DecideRead(i, v)
                          \/ DecideWrite
                          \/ \E k \in Revocable : Reconfigure(k)
  PROVE  EffectInv'
<1>1. tx' = tx /\ action' = action /\ UNCHANGED <<live, text, madeFor, thread, sent, deleted, histVars>>
  BY DEF DecideRead, DecideWrite, Reconfigure, gmailVars
<1>2. \A i \in Items : item'[i] = "executed" => item[i] = "executed"
  <2>1. CASE DecideWrite
    <3>1. decision.to # "executed"
      BY <2>1, ChoicesAssumption DEF DecideWrite, IInv, DecisionOK
    <3>. QED
      BY <2>1, <3>1 DEF DecideWrite, IInv, TypeOK
  <2>2. CASE ~DecideWrite
    BY <2>2 DEF DecideRead, Reconfigure
  <2>. QED
    BY <2>1, <2>2
<1>. QED
  BY <1>1, <1>2, SameActions

LEMMA RestartEffect ==
  ASSUME IInv, EffectInv, Restart
  PROVE  EffectInv'
<1>1. /\ action' = action /\ item' = item /\ overtaken' = overtaken /\ raced' = raced
      /\ UNCHANGED <<live, text, madeFor, thread, sent, deleted>>
      /\ lost' = lost \cup UNION {tx[r].wrote : r \in Requests} /\ stale' = stale
      /\ tx' = [r \in Requests |-> IdleTx]
  BY DEF Restart, dbVars, gmailVars
<1>2. /\ MailMoves /\ Placed' /\ Known' = Known /\ Gone' = Gone
      /\ \A a \in Actions : Made(a)' = Made(a)
      /\ \A a \in Actions : Excused(a) => Excused(a)'
  BY <1>1, MailStays
<1>3. SentWasApproved' /\ ActionsTrue' /\ ExecutedItemHasCompletedAction'
  <2>1. SentWasApproved'
    BY <1>1, <1>2, NothingSent DEF SendsKept
  <2>. QED
    BY <1>1, <1>2, <2>1 DEF EffectInv, ActionsTrue, ExecutedItemHasCompletedAction
<1>4. \A r \in Requests : tx'[r] = IdleTx
  BY <1>1
<1>5. OnceMade'
  <2> SUFFICES ASSUME NEW a \in Actions, ~Excused(a)' PROVE OnceMadeFor(a)'
    BY DEF OnceMade
  <2>1. OnceMadeFor(a) /\ a \notin lost'
    BY <1>2 DEF EffectInv, OnceMade, Excused
  <2>2. \A r \in Requests : a \notin tx[r].wrote
    BY <1>1, <2>1
  <2>3. Made(a)' = Made(a) /\ a # NoAction
    BY <1>2, ActionsAssumption
  <2>. QED
    BY <1>1, <1>4, <2>1, <2>2, <2>3, IdleTrue DEF OnceMadeFor
<1>6. ASSUME NEW r \in Requests
      PROVE  TxTrue(tx[r], Known, Gone, thread)' /\ Compared(tx[r], text, raced)'
  <2>1. TxTrue(IdleTx, Known, Gone, thread)' /\ IdleTx.pc = "idle"
    BY <1>1, <1>2, IdleTrue
       DEF TxTrue, RowsTrue, RowTrue, Copies, CopyOf, Seen, ItemsTrue, Counted, IdleTx, NoRow
  <2>. QED
    BY <1>4, <2>1 DEF Compared
<1>. QED
  BY <1>2, <1>3, <1>5, <1>6 DEF EffectInv

\* What a commit writes over each row, and over each item.
LEMMA CommitTrue ==
  ASSUME IInv, EffectInv, NEW r \in Requests, Commit(r)
  PROVE  /\ \A a \in Actions : RowTrue(a, action'[a], Known, Gone, thread)
         /\ SendsKept /\ ExecutedItemHasCompletedAction'
         /\ \A a \in Actions : action'[a] = IF a \in tx[r].held THEN tx[r].row[a] ELSE action[a]
         /\ \A q \in Requests \ {r} : tx'[q] = tx[q]
         /\ tx'[r] = IdleTx
<1> DEFINE t == tx[r]
<1>1. /\ t.pc = "ready" /\ t.cur = NoAction /\ t.held \subseteq Actions /\ t.iheld \subseteq Items
      /\ TxTrue(t, Known, Gone, thread) /\ NoAction \notin Actions
  BY OneEffect, ActionsAssumption DEF Commit, TxOK, CurOK, Busy, TxType
<1>2. /\ \A a \in Actions : action'[a] = IF a \in t.held THEN t.row[a] ELSE action[a]
      /\ \A i \in Items : item'[i] = IF i \in t.iheld THEN t.irow[i] ELSE item[i]
      /\ overtaken \subseteq overtaken'
  BY DEF Commit
<1>3. \A a \in Actions : RowTrue(a, action'[a], Known, Gone, thread)
  BY <1>1, <1>2 DEF TxTrue, RowsTrue, EffectInv, ActionsTrue
<1>4. SendsKept
  <2> SUFFICES ASSUME NEW a \in Actions, KindOf[a] = "send", action[a].state # "absent",
                      a \in t.held
               PROVE  /\ t.row[a].state # "absent"
                      /\ t.row[a].ref = action[a].ref /\ t.row[a].msg = action[a].msg
    BY <1>2 DEF SendsKept
  <2>1. t.row[a].state # "absent"
    BY CommitRows DEF Outcomes
  <2>2. CopyOf(t, a)
    BY <1>1 DEF TxTrue, Copies
  <2>. QED
    BY <2>1, <2>2 DEF CopyOf, Seen
<1>5. ASSUME NEW i \in Items \ overtaken', item'[i] = "executed"
      PROVE  \E a \in Actions : ItemOf[a] = i /\ action'[a].state = "completed"
  <2>1. CASE i \in t.iheld
    <3>1. PICK a \in t.held : ItemOf[a] = i /\ t.row[a].state = "completed"
      BY <1>2, <1>5, <2>1, CommitRows
    <3>. QED
      BY <1>1, <1>2, <3>1
  <2>2. CASE i \notin t.iheld
    <3>1. item[i] = "executed" /\ i \notin overtaken
      BY <1>2, <1>5, <2>2
    <3>2. PICK a \in Actions : ItemOf[a] = i /\ action[a].state = "completed"
      BY <3>1 DEF EffectInv, ExecutedItemHasCompletedAction
    <3>3. CASE a \in t.held
      <4>1. t.iobj[i] = "executed"
        BY <1>1, <2>2, <3>1, <3>2, <3>3 DEF TxTrue, ItemsTrue
      <4>2. t.row[a].state = "completed"
        BY <1>1, <2>2, <3>2, <3>3, <4>1 DEF TxTrue, ItemsTrue
      <4>. QED
        BY <1>2, <3>2, <3>3, <4>2
    <3>4. CASE a \notin t.held
      BY <1>2, <3>2, <3>4
    <3>. QED
      BY <3>3, <3>4
  <2>. QED
    BY <2>1, <2>2
<1>6. ExecutedItemHasCompletedAction'
  BY <1>5 DEF ExecutedItemHasCompletedAction
<1>7. (\A q \in Requests \ {r} : tx'[q] = tx[q]) /\ tx'[r] = IdleTx
  BY DEF Commit, IInv, TypeOK
<1>. QED
  BY <1>2, <1>3, <1>4, <1>6, <1>7

LEMMA CommitEffect ==
  ASSUME IInv, EffectInv, NEW r \in Requests, Commit(r)
  PROVE  EffectInv'
<1>1. /\ UNCHANGED <<live, text, madeFor, thread, sent, deleted>>
      /\ lost' = lost /\ stale' = stale /\ raced' = raced
  BY DEF Commit, gmailVars
<1>2. /\ MailMoves /\ Placed' /\ Known' = Known /\ Gone' = Gone
      /\ \A a \in Actions : Made(a)' = Made(a)
      /\ \A a \in Actions : Excused(a) => Excused(a)'
  BY <1>1, MailStays
<1>3. /\ \A a \in Actions : RowTrue(a, action'[a], Known, Gone, thread)
      /\ SendsKept /\ ExecutedItemHasCompletedAction'
      /\ \A a \in Actions : action'[a] = IF a \in tx[r].held THEN tx[r].row[a] ELSE action[a]
      /\ \A q \in Requests \ {r} : tx'[q] = tx[q]
      /\ tx'[r] = IdleTx
  BY CommitTrue
<1>4. SentWasApproved' /\ ActionsTrue'
  <2>1. SentWasApproved'
    BY <1>1, <1>2, <1>3, NothingSent
  <2>. QED
    BY <1>1, <1>2, <1>3, <2>1 DEF ActionsTrue
<1>5. /\ TxTrue(tx[r], Known, Gone, thread) /\ tx[r].wrote \subseteq tx[r].held
      /\ IdleTx.wrote = {} /\ IdleTx.held = {} /\ IdleTx.pc = "idle"
  BY OneEffect, IdleTrue
<1>6. OnceMade'
  <2> SUFFICES ASSUME NEW a \in Actions, ~Excused(a)' PROVE OnceMadeFor(a)'
    BY DEF OnceMade
  <2>1. OnceMadeFor(a) /\ Made(a)' = Made(a)
    BY <1>2 DEF EffectInv, OnceMade
  <2>2. ASSUME action'[a].attempts = 0, \A q \in Requests : a \notin tx'[q].wrote
        PROVE  Made(a) = {}
    <3>1. CASE a \in tx[r].held
      BY <1>3, <2>1, <2>2, <3>1 DEF OnceMadeFor
    <3>2. CASE a \notin tx[r].held
      <4>1. \A q \in Requests : a \notin tx[q].wrote
        BY <1>3, <1>5, <2>2, <3>2
      <4>. QED
        BY <1>3, <2>1, <2>2, <3>2, <4>1 DEF OnceMadeFor
    <3>. QED
      BY <3>1, <3>2
  <2>3. \A q \in Requests : \/ tx'[q].held = {} /\ tx'[q].pc = "idle"
                            \/ tx'[q] = tx[q]
    BY <1>3, <1>5
  <2>4. \A q \in Requests : a \in tx'[q].held /\ tx'[q].row[a].attempts = 0 => Made(a) = {}
    BY <2>1, <2>3 DEF OnceMadeFor
  <2>5. \A q \in Requests : tx'[q].pc = "write" /\ tx'[q].cur = a => Made(a) = {}
    BY <2>1, <2>3 DEF OnceMadeFor
  <2>6. (\A d, e \in Made(a) : d = e)'
    BY <2>1 DEF OnceMadeFor
  <2>. QED
    BY <2>1, <2>2, <2>4, <2>5, <2>6 DEF OnceMadeFor
<1>7. ASSUME NEW q \in Requests \ {r} PROVE Copies(tx[q])'
  <2> SUFFICES ASSUME NEW a \in Actions PROVE CopyOf(tx[q], a)'
    BY DEF Copies
  <2>1. tx'[q] = tx[q] /\ CopyOf(tx[q], a) /\ CopyOf(tx[r], a)
    BY <1>3 DEF EffectInv, TxTrue, Copies
  <2>2. CASE a \in tx[r].held
    <3>1. a \notin tx[q].held
      BY <2>2 DEF IInv, LocksOK
    <3>. QED
      BY <1>3, <2>1, <2>2, <3>1 DEF CopyOf, Seen
  <2>3. CASE a \notin tx[r].held
    BY <1>3, <2>1, <2>3 DEF CopyOf, Seen
  <2>. QED
    BY <2>2, <2>3
<1>8. ASSUME NEW q \in Requests \ {r} PROVE ItemsTrue(tx[q])'
  <2>1. tx'[q] = tx[q] /\ ItemsTrue(tx[q])
    BY <1>3 DEF EffectInv, TxTrue
  <2>2. ASSUME NEW i \in Items \ (tx[q].iheld \cup overtaken'), item'[i] = "executed",
               \E a \in tx[q].todo \cup tx[q].held : ItemOf[a] = i
        PROVE  tx[q].iobj[i] = "executed"
    <3>1. i \notin tx[r].iheld /\ i \notin overtaken
      BY <2>2 DEF Commit
    <3>2. item[i] = "executed"
      BY <2>2, <3>1 DEF Commit
    <3>. QED
      BY <2>1, <2>2, <3>1, <3>2 DEF ItemsTrue
  <2>. QED
    BY <2>1, <2>2 DEF ItemsTrue
<1>9. ASSUME NEW q \in Requests
      PROVE  TxTrue(tx[q], Known, Gone, thread)' /\ Compared(tx[q], text, raced)'
  <2>1. CASE q = r
    <3>1. TxTrue(IdleTx, Known, Gone, thread)'
      BY IdleTrue
         DEF TxTrue, RowsTrue, RowTrue, Copies, CopyOf, Seen, ItemsTrue, Counted, IdleTx, NoRow
    <3>. QED
      BY <1>3, <1>5, <2>1, <3>1 DEF Compared
  <2>2. CASE q # r
    <3>1. tx'[q] = tx[q] /\ Copies(tx[q])' /\ ItemsTrue(tx[q])'
      BY <1>3, <1>7, <1>8, <2>2
    <3>2. RowsTrue(tx[q], Known, Gone, thread)' /\ Counted(tx[q])'
      BY <1>1, <1>2, <3>1 DEF EffectInv, TxTrue, RowsTrue, RowTrue, Counted
    <3>3. Compared(tx[q], text, raced)'
      BY <1>1, <3>1 DEF EffectInv, Compared
    <3>. QED
      BY <3>1, <3>2, <3>3 DEF TxTrue
  <2>. QED
    BY <2>1, <2>2
<1>. QED
  BY <1>2, <1>3, <1>4, <1>6, <1>9 DEF EffectInv

\* A person writes, edits and deletes drafts, and the record is none the wiser.
LEMMA MailStep ==
  ASSUME IInv, EffectInv, tx' = tx, UNCHANGED <<dbVars, lost, stale, overtaken, sent>>,
         MailMoves, Placed', madeFor' = madeFor,
         \A q \in Requests : Compared(tx[q], text', raced')
  PROVE  EffectInv'
<1>1. action' = action /\ item' = item /\ overtaken' = overtaken
  BY DEF dbVars
<1>2. SentWasApproved'
  BY <1>1, NothingSent DEF SendsKept
<1>3. ActionsTrue' /\ ExecutedItemHasCompletedAction'
  BY <1>1, RowKept DEF EffectInv, ActionsTrue, ExecutedItemHasCompletedAction
<1>4. OnceMade'
  <2> SUFFICES ASSUME NEW a \in Actions, ~Excused(a)' PROVE OnceMadeFor(a)'
    BY DEF OnceMade
  <2>1. OnceMadeFor(a) /\ Made(a)' = Made(a)
    BY ExcusedKept DEF EffectInv, OnceMade, Made
  <2>. QED
    BY <1>1, <2>1 DEF OnceMadeFor
<1>5. ASSUME NEW q \in Requests
      PROVE  TxTrue(tx[q], Known, Gone, thread)' /\ Compared(tx[q], text, raced)'
  <2>1. TxTrue(tx[q], Known', Gone', thread') /\ Compared(tx[q], text', raced')
    BY TxKept DEF EffectInv
  <2>. QED
    BY <1>1, <2>1 DEF TxTrue, RowsTrue, RowTrue, Copies, CopyOf, Seen, ItemsTrue, Counted, Compared
<1>. QED
  BY <1>2, <1>3, <1>4, <1>5 DEF EffectInv

LEMMA PersonEffect ==
  ASSUME IInv, EffectInv, Person
  PROVE  EffectInv'
<1>0. /\ text \in [DraftIds -> 0 .. MaxText] /\ thread \in [DraftIds -> Items \cup {NoItem}]
      /\ madeFor \in [DraftIds -> Actions \cup {NoAction}]
  BY DEF IInv, TypeOK
<1>1. ASSUME NEW i \in Items, NEW d \in DraftIds, WriteOwnDraft(i, d) PROVE EffectInv'
  <2>1. /\ tx' = tx /\ madeFor' = madeFor /\ raced' = raced /\ d \in OwnDrafts /\ text[d] = 0
        /\ UNCHANGED <<dbVars, lost, stale, overtaken, sent, deleted>> /\ live' = live \cup {d}
        /\ \A e \in DraftIds : /\ text'[e] = IF e = d THEN 1 ELSE text[e]
                               /\ thread'[e] = IF e = d THEN i ELSE thread[e]
    BY <1>0, <1>1 DEF WriteOwnDraft, histVars
  <2>2. d \notin Known /\ Known' = Known \cup {d} /\ Gone' = Gone
    BY <2>1 DEF EffectInv, Placed, Known, Gone
  <2>3. MailMoves
    BY <2>1, <2>2 DEF MailMoves
  <2>4. Placed'
    BY <2>1, <2>2 DEF EffectInv, Placed
  <2>5. \A q \in Requests : Compared(tx[q], text', raced')
    <3>1. \A e \in Known : text'[e] = text[e]
      BY <2>1, <2>2, KnownDrafts
    <3>. QED
      BY <2>1, <3>1, OtherCompared
  <2>. QED
    BY <2>1, <2>3, <2>4, <2>5, MailStep
<1>2. ASSUME NEW d \in DraftIds, EditDraft(d) PROVE EffectInv'
  <2>1. /\ tx' = tx /\ madeFor' = madeFor /\ thread' = thread /\ live' = live /\ d \in live
        /\ raced \subseteq raced'
        /\ UNCHANGED <<dbVars, lost, stale, overtaken, sent, deleted>>
        /\ \A e \in DraftIds : text'[e] = IF e = d THEN text[e] + 1 ELSE text[e]
    BY <1>0, <1>2 DEF EditDraft
  <2>2. Known' = Known /\ Gone' = Gone /\ text[d] # 0 /\ text'[d] # 0
    BY <1>0, <2>1, BoundsAssumption DEF EffectInv, Placed, Known, Gone
  <2>3. MailMoves
    BY <2>1, <2>2 DEF MailMoves
  <2>4. Placed'
    BY <2>1, <2>2 DEF EffectInv, Placed
  <2>5. ASSUME NEW q \in Requests PROVE Compared(tx[q], text', raced')
    <3> SUFFICES ASSUME tx[q].pc = "write", KindOf[tx[q].cur] = "send", NEW o,
                        o = tx[q].obj[tx[q].cur]
                 PROVE  text'[o.ref] = o.msg \/ o.ref \in raced'
      BY DEF Compared
    <3>1. tx[q].pc \in Busy /\ tx[q].cur \in Actions
      BY OneEffect DEF Busy
    <3>2. o.ref \in DraftIds
      BY <3>1, OneEffect, CurTrue, KnownDrafts
    <3>3. CASE o.ref = d
      BY <1>2, <3>3 DEF EditDraft, Sending
    <3>4. CASE o.ref # d
      <4>1. text[o.ref] = o.msg \/ o.ref \in raced
        BY OneEffect DEF Compared
      <4>. QED
        BY <2>1, <3>2, <3>4, <4>1
    <3>. QED
      BY <3>3, <3>4
  <2>. QED
    BY <2>1, <2>3, <2>4, <2>5, MailStep
<1>3. ASSUME NEW d \in DraftIds, DeleteDraft(d) PROVE EffectInv'
  <2>1. /\ tx' = tx /\ madeFor' = madeFor /\ thread' = thread /\ text' = text /\ raced' = raced
        /\ live' = live \ {d} /\ deleted' = deleted \cup {d} /\ d \in live
        /\ UNCHANGED <<dbVars, lost, stale, overtaken, sent>>
    BY <1>3 DEF DeleteDraft, histVars
  <2>2. Known' = Known /\ Gone' = Gone \cup {d}
    BY <2>1 DEF Known, Gone
  <2>3. MailMoves
    BY <2>1, <2>2 DEF MailMoves
  <2>4. Placed'
    BY <2>1, <2>2 DEF EffectInv, Placed
  <2>5. \A q \in Requests : Compared(tx[q], text', raced')
    BY <2>1, OneEffect
  <2>. QED
    BY <2>1, <2>3, <2>4, <2>5, MailStep
<1>4. ASSUME NEW i \in Items, ReturnThread(i) PROVE EffectInv'
  <2>1. /\ tx' = tx /\ action' = action /\ item' = item
        /\ UNCHANGED <<live, text, madeFor, thread, sent, deleted, histVars>>
    BY <1>4 DEF ReturnThread, dbVars
  <2>. QED
    BY <2>1, SameActions
<1>. QED
  BY <1>1, <1>2, <1>3, <1>4 DEF Person

LEMMA ProceedEffect ==
  ASSUME IInv, EffectInv, IInv', NEW r \in Requests, Proceed(r)
  PROVE  EffectInv'
<1>1. CASE Refuse(r)
  BY <1>1, EndsEffect DEF Refuse
<1>2. ASSUME NEW ans \in Answers, WriteThread(r, ans) \/ SendDraft(r, ans) PROVE EffectInv'
  BY <1>2, WriteThreadEffect, SendDraftEffect
<1>3. ASSUME NEW ans \in Answers, NEW d \in Minted, CreateDraft(r, d, ans) PROVE EffectInv'
  BY <1>3, CreateDraftEffect
<1>. QED
  BY <1>1, <1>2, <1>3, SkipCompletedEffect, BeginEffect, CheckFirstEffect, LookThreadEffect,
     LookDraftEffect, LookSendEffect, ReadBackActionEffect, ReadErrorEffect, CommitEffect
     DEF Proceed

LEMMA NextEffect == IInv /\ EffectInv /\ IInv' /\ [Next]_vars => EffectInv'
<1> SUFFICES ASSUME IInv, EffectInv, IInv', [Next]_vars PROVE EffectInv'
  OBVIOUS
<1>1. ASSUME NEW a \in Actions, NEW b \in Actions, Authorise(a, b) PROVE EffectInv'
  BY <1>1, AuthoriseEffect
<1>2. ASSUME NEW chosen \in SUBSET Items, Prepare(chosen) PROVE EffectInv'
  BY <1>2, PrepareEffect
<1>3. ASSUME NEW r \in Requests, Start(r) \/ Proceed(r) \/ Abort(r) \/ Block(r) PROVE EffectInv'
  <2>1. CASE Abort(r)
    BY <2>1, EndsEffect DEF Abort
  <2>2. CASE Block(r)
    <3>1. /\ tx' = tx /\ action' = action /\ item' = item
          /\ UNCHANGED <<live, text, madeFor, thread, sent, deleted, histVars>>
      BY <2>2 DEF Block, dbVars, gmailVars
    <3>. QED
      BY <3>1, SameActions
  <2>. QED
    BY <1>3, <2>1, <2>2, StartsEffect, ProceedEffect
<1>4. CASE UNCHANGED vars
  <2>1. /\ tx' = tx /\ action' = action /\ item' = item
        /\ UNCHANGED <<live, text, madeFor, thread, sent, deleted, histVars>>
    BY <1>4 DEF vars, dbVars, gmailVars
  <2>. QED
    BY <2>1, SameActions
<1>. QED
  BY <1>1, <1>2, <1>3, <1>4, DecideEffect, RestartEffect, PersonEffect DEF Next, Threadpool

LEMMA InitEffect == Init => EffectInv
<1> SUFFICES ASSUME Init PROVE EffectInv
  OBVIOUS
<1>1. /\ \A a \in Actions : action[a] = NoRow
      /\ \A i \in Items : item[i] = "approved"
      /\ live = {} /\ sent = {} /\ deleted = {}
      /\ \A d \in DraftIds : text[d] = 0 /\ madeFor[d] = NoAction /\ thread[d] = NoItem
      /\ \A r \in Requests : tx[r] = IdleTx
  BY DEF Init
<1>2. Known = {} /\ Gone = {}
  BY <1>1 DEF Known, Gone
<1>3. Placed /\ SentWasApproved
  BY <1>1, <1>2 DEF Placed, SentWasApproved
<1>4. ActionsTrue
  BY <1>1 DEF ActionsTrue, RowTrue, NoRow
<1>5. ExecutedItemHasCompletedAction
  BY <1>1 DEF ExecutedItemHasCompletedAction
<1>6. OnceMade
  <2>1. \A a \in Actions : Made(a) = {}
    BY <1>1, ActionsAssumption DEF Made
  <2>. QED
    BY <2>1 DEF OnceMade, OnceMadeFor
<1>7. \A r \in Requests : TxTrue(tx[r], Known, Gone, thread) /\ Compared(tx[r], text, raced)
  BY <1>1, IdleTrue DEF Compared
<1>. QED
  BY <1>3, <1>4, <1>5, <1>6, <1>7 DEF EffectInv

LEMMA EffectInductive == Spec => []EffectInv
<1>1. Init => EffectInv
  BY InitEffect
<1>2. IInv /\ EffectInv /\ IInv' /\ [Next]_vars => EffectInv'
  BY NextEffect
<1>. QED
  BY <1>1, <1>2, Inductive, PTL DEF Spec

-----------------------------------------------------------------------------
(* What the mailbox and the record owe each other                          *)

\* A completed draft action names a draft that was in the mailbox, and a
\* completed send one that left it, through every retry, overlap and restart.
THEOREM CompletedWorkShows == Spec => []CompletedHasEffect
<1>1. EffectInv => CompletedHasEffect
  BY DEF EffectInv, ActionsTrue, RowTrue, CompletedHasEffect, Known, Gone
<1>. QED
  BY <1>1, EffectInductive, PTL

\* Nothing but what a person approved is ever sent, except a draft edited
\* between the look that compared it and the send.
THEOREM OnlyApprovedSent == Spec => []SentWasApproved
<1>1. EffectInv => SentWasApproved
  BY DEF EffectInv
<1>. QED
  BY <1>1, EffectInductive, PTL

\* An item reads executed only while one of its actions is completed, unless two
\* requests had it loaded at once.
THEOREM ExecutedItemsBacked == Spec => []ExecutedItemHasCompletedAction
<1>1. EffectInv => ExecutedItemHasCompletedAction
  BY DEF EffectInv
<1>. QED
  BY <1>1, EffectInductive, PTL

\* A second draft for one approval has one of the excuses that retrying leaves
\* open: a lost record, a stale row, a person's draft, or a first draft gone.
THEOREM SecondDraftsExplained == Spec => []SecondDraftOnlyAfterLoss
<1>1. IInv /\ EffectInv => SecondDraftOnlyAfterLoss
  <2> SUFFICES ASSUME IInv, EffectInv, NEW a \in Actions, ~Excused(a)
               PROVE  ~(Cardinality(DraftsOf(a)) > 1)
    BY DEF SecondDraftOnlyAfterLoss, Excused
  <2>1. \A d, e \in DraftsOf(a) : d = e
    BY DEF EffectInv, OnceMade, OnceMadeFor, Made, DraftsOf, IInv, TypeOK
  <2>2. CASE DraftsOf(a) = {}
    BY <2>2, FS_EmptySet
  <2>3. CASE DraftsOf(a) # {}
    <3>1. PICK d : DraftsOf(a) = {d}
      BY <2>1, <2>3
    <3>2. Cardinality({d}) = 1
      BY FS_Singleton
    <3>. QED
      BY <3>1, <3>2
  <2>. QED
    BY <2>2, <2>3
<1>. QED
  BY <1>1, Inductive, EffectInductive, PTL
=============================================================================
