--------------------------- MODULE MCActionScopes ---------------------------
(* A row of a capability that trashes and restores, and a row of one that     *)
(* only archives.  Requests of one kind are interchangeable.                  *)
(*                                                                            *)
(* Every behaviour has one of the shapes below, chosen at the start, which    *)
(* gives much to one part of the program and little to the rest: MCSpec takes *)
(* the steps of Spec that stay within it.                                     *)
EXTENDS ActionScopes

CONSTANTS i1, i2, mail, notes

VARIABLE shape

MCCapabilityOf == [i \in Items |-> IF i = i1 THEN mail ELSE notes]
MCPermitted == [c \in Capabilities |-> IF c = mail THEN {"trash", "untrash"} \cap Intents ELSE {"archive"}]
MCRecommended == [i \in Items |-> IF i = i1 THEN "trash" ELSE "archive"]
MCDecisions == [i \in Items |-> 2]

TLC == INSTANCE TLC
MCSymmetry == TLC!Permutations(Deciders) \cup TLC!Permutations(Preparers)

\* The rows that are worked, the intents a person names, the decisions on each row,
\* the requests of each kind in flight at once, the scopes opened, and whether there
\* are executions and the review is set aside.
TwoRows ==
  [rows |-> {i1, i2}, intents |-> {"archive", "trash"}, decisions |-> 1, deciders |-> 1,
   preparers |-> 1, scopes |-> 2, executes |-> TRUE, aside |-> FALSE]
OneRow == [TwoRows EXCEPT !.rows = {i1}, !.intents = {"trash", "untrash"}]
Redecided == [OneRow EXCEPT !.decisions = 2, !.deciders = 2]
LaidAside == [OneRow EXCEPT !.preparers = 2, !.aside = TRUE]
Overlapping == [OneRow EXCEPT !.preparers = 2, !.scopes = 3, !.executes = FALSE]

MCInit == Init /\ shape \in {TwoRows, Redecided, LaidAside, Overlapping}

\* There is room for one more decision on these rows, and one more preparation.
RoomToDecide(S) ==
  /\ Cardinality({h \in Deciders : deciding[h].on # {}}) < shape.deciders
  /\ \A i \in S : DecisionsMade(i) < shape.decisions
RoomToPrepare == Cardinality({h \in Preparers : preparing[h].phase # "none"}) < shape.preparers
RoomToOpen == opened < shape.scopes

Keys == {CapabilityOf[i] : i \in shape.rows} \cup {NoCapability}

DecideSteps(h) ==
  \/ \E S \in SUBSET shape.rows :
       /\ RoomToDecide(S)
       /\ \E kind \in DecisionKinds, k \in shape.intents : Decide(h, S, kind, k)
  \/ \E dates \in [deciding[h].on -> 0 .. opened] : DecideFinish(h, dates)
  \/ DecideLost(h)

PrepareSteps(h) ==
  \/ /\ RoomToPrepare /\ RoomToOpen
     /\ \E c \in Keys, ids \in SUBSET shape.rows : PrepareRead(h, c, ids)
  \/ RoomToOpen /\ PrepareOpen(h)
  \/ PrepareCommit(h) \/ PrepareLost(h)

ExecuteSteps ==
  \/ \E n \in DOMAIN scopes, restated \in SUBSET shape.rows : ExecuteScope(n, restated)
  \/ \E a \in Pairs : Retry(a) \/ \E answered \in BOOLEAN : Verify(a, answered)
  \/ \E i \in Items, outcome \in {"completed", "failed"}, written \in BOOLEAN :
       RunOne(i, outcome, written)
  \/ ExecuteFinish \/ ExecuteLost

MCNext ==
  \/ \E h \in Deciders : DecideSteps(h) /\ UNCHANGED shape
  \/ \E h \in Preparers : PrepareSteps(h) /\ UNCHANGED shape
  \/ shape.executes /\ ExecuteSteps /\ UNCHANGED shape
  \/ shape.aside /\ (Abandon \/ AbandonFinish) /\ UNCHANGED shape

MCSpec == MCInit /\ [][MCNext]_<<vars, shape>>
=============================================================================
