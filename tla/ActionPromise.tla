---------------------------- MODULE ActionPromise ----------------------------
(***************************************************************************)
(* What the record of an approved action promises anyone who reads it      *)
(* between requests: an action is approved, then planned, then has an      *)
(* outcome; an outcome may be replaced by another outcome and by nothing   *)
(* else; and an item reads executed only through an action recorded as     *)
(* completed in the same transaction.  ActionExecution keeps it, and       *)
(* ActionScopes, whose items begin before anything is decided about them.  *)
(***************************************************************************)
CONSTANTS Actions, Items, ItemOf

VARIABLES state, item

Outcomes == {"completed", "failed"}

Init ==
  /\ state = [a \in Actions |-> "absent"]
  /\ item \in [Items -> {"pending", "approved"}]

\* A person approves sending one draft.
Approve(a) ==
  /\ state[a] = "absent"
  /\ state' = [state EXCEPT ![a] = "approved"]
  /\ UNCHANGED item

\* A prepare request plans everything not yet planned in what it covers.
Plan(S) ==
  /\ \A a \in S : state[a] \in {"absent", "approved"}
  /\ state' = [a \in Actions |-> IF a \in S THEN "prepared" ELSE state[a]]
  /\ UNCHANGED item

\* A request that ran actions commits: planned or settled ones get an outcome,
\* and an item that becomes executed has an action that completed.
Settle(S, outcome) ==
  /\ \A a \in S : state[a] # "absent"
  /\ state' = [a \in Actions |-> IF a \in S THEN outcome[a] ELSE state[a]]
  /\ item' \in [Items -> {"executed", "failed"} \cup {item[i] : i \in Items}]
  /\ \A i \in Items : item'[i] # item[i] =>
       /\ item'[i] \in {"executed", "failed"}
       /\ \E a \in S : ItemOf[a] = i /\ (item'[i] = "executed" => outcome[a] = "completed")

\* A person decides about an item, or about some together.
Redecide(S, verdict) ==
  /\ item' = [i \in Items |-> IF i \in S THEN verdict ELSE item[i]]
  /\ UNCHANGED state

Next ==
  \/ \E a \in Actions : Approve(a)
  \/ \E S \in SUBSET Actions : Plan(S)
  \/ \E S \in SUBSET Actions : \E outcome \in [S -> Outcomes] : Settle(S, outcome)
  \/ \E S \in SUBSET Items, v \in {"approved", "dismissed", "deferred"} : Redecide(S, v)

Spec == Init /\ [][Next]_<<state, item>>
=============================================================================
