-------------------------- MODULE ActionScopesProofs --------------------------
(* Proofs about ActionScopes, for every set of items, capabilities, intents   *)
(* and requests in flight, every arrangement of them and every bound: each    *)
(* property that its runs check, and that the record implements               *)
(* ActionPromise.                                                             *)
(*                                                                            *)
(* The strengthening says what the requests in flight still know of the rows  *)
(* they read: a preparation brings at most one new row to an item, all of it  *)
(* approved; until it commits, an opened scope has read every older one, and  *)
(* a decision it could not see is dated after it; an execution has left, or   *)
(* has an outcome for, every row of its scope.                                *)
EXTENDS ActionScopes, FiniteSetTheorems, SequenceTheorems, TLAPS

\* The intents recorded for an item are those of the rows it has.
RecordedIsThere ==
  \A i \in Items : \A n \in DOMAIN recorded[i] : action[<<i, recorded[i][n]>>] # "absent"

\* What is there, being prepared or approved on an item has been approved.
OnlyApproved ==
  /\ \A a \in Pairs : action[a] # "absent" => a \in approvals
  /\ \A h \in Preparers : preparing[h].actions \subseteq approvals
  /\ \A i \in Items : item[i].intent \in Intents => <<i, item[i].intent>> \in approvals

\* A decision in flight brings its items to one state.
DecidingOK ==
  \A h \in Deciders : \E v \in {"approved", "dismissed", "deferred"} :
    \A i \in deciding[h].on : deciding[h].has[i].state = v

\* A preparation brings at most one new row to an item, all of its capability; once
\* it has inserted them nobody else has, or will.
PreparingOK ==
  \A h \in Preparers :
    LET p == preparing[h] IN
    /\ p.fresh \subseteq p.actions
    /\ \A a \in p.actions : a \in p.fresh \/ action[a] # "absent"
    /\ \A a, b \in p.fresh : a[1] = b[1] => a = b
    /\ p.capability # NoCapability => \A a \in p.actions : CapabilityOf[a[1]] = p.capability
    /\ p.phase = "open" => \A a \in p.fresh :
         /\ action[a] = "absent"
         /\ \A g \in Preparers \ {h} : preparing[g].phase = "open" => a \notin preparing[g].fresh

\* A scope about to be committed has read every older one it has to supersede.
OpeningOK ==
  \A h \in Preparers :
    LET p == preparing[h] IN
    p.phase = "open" =>
      /\ p.basis <= Len(scopes)
      /\ \A m \in 1 .. p.basis :
           \/ m \in p.open \/ scopes[m].state # "current"
           \/ p.capability # NoCapability /\ scopes[m].capability # p.capability

\* The rows of a scope are there, and all of its capability.
ScopeRowsOK ==
  \A n \in DOMAIN scopes :
    /\ scopes[n].basis < n
    /\ \A a \in scopes[n].actions :
         /\ action[a] # "absent"
         /\ scopes[n].capability # NoCapability => CapabilityOf[a[1]] = scopes[n].capability

\* A decision that an opened scope could not see, and does not know to be in
\* flight, is dated after it.
DatedAfter(s) ==
  /\ s.created <= opened
  /\ \A a \in s.actions :
       \/ a[1] \in s.crossed
       \/ /\ item[a[1]].decision = s.read[a[1]] \/ item[a[1]].dated >= s.created
          /\ \A g \in Deciders : a[1] \in deciding[g].on => deciding[g].since >= s.created

DatesOK ==
  /\ \A n \in DOMAIN scopes : DatedAfter(scopes[n])
  /\ \A h \in Preparers : preparing[h].phase = "open" => DatedAfter(preparing[h])

\* An execution runs positions of recorded rows, its outcomes are of rows that
\* are there, and every row of its scope is left to run, run or completed.
ExecutingOK ==
  /\ \A i \in Items : executing.todo[i] \subseteq DOMAIN recorded[i]
  /\ \A a \in Pairs : executing.rows[a] # "none" => action[a] # "absent"
  /\ executing.scope # 0 =>
       /\ executing.open /\ executing.scope \in DOMAIN scopes
       /\ \A i \in Items : \A n \in executing.todo[i] :
            <<i, recorded[i][n]>> \in scopes[executing.scope].actions
       /\ \A a \in scopes[executing.scope].actions :
            \/ \E n \in executing.todo[a[1]] : recorded[a[1]][n] = a[2]
            \/ executing.rows[a] # "none" \/ action[a] = "completed"

\* An execution began at the decisions its scope had read, but for those that
\* crossed it, and an item of it that was withdrawn was decided again since.
BeganStands ==
  executing.scope # 0 =>
    \A i \in Covered(executing.scope) :
      /\ \/ executing.began[i] = scopes[executing.scope].read[i]
         \/ i \in scopes[executing.scope].crossed
      /\ item[i].decision >= executing.began[i]
      /\ item[i].state \in Withdrawn => item[i].decision # executing.began[i]

\* A scope that is still current while the review is set aside has been read to be
\* disarmed, or committed after.
DisarmingOK ==
  setting.on =>
    \A n \in DOMAIN scopes : scopes[n].state = "current" => n \in setting.open \/ scopes[n].late

IInv ==
  /\ TypeOK /\ RecordedIsThere /\ OnlyApproved /\ DecidingOK /\ PreparingOK /\ OpeningOK
  /\ ScopeRowsOK /\ DatesOK /\ ExecutingOK /\ BeganStands /\ DisarmingOK
  /\ ScopesStand /\ NothingWithoutApproval /\ AbandonDisarms

-----------------------------------------------------------------------------
(* The helpers                                                                *)

\* Every scope of the run is one.
LEMMA ScopeTyped ==
  ASSUME Typed, NEW n \in DOMAIN scopes
  PROVE  scopes[n] \in ScopeType /\ scopes[n].actions \subseteq Pairs
  <1>1. scopes \in Seq(ScopeType)
    BY DEF Typed
  <1>2. scopes[n] \in ScopeType
    BY <1>1
  <1> QED BY <1>2 DEF ScopeType

\* Superseding changes the state of the scopes named, and nothing else.
LEMMA SupersededIs ==
  ASSUME Typed, NEW S
  PROVE  /\ Superseded(S) \in Seq(ScopeType) /\ Len(Superseded(S)) = Len(scopes)
         /\ DOMAIN Superseded(S) = DOMAIN scopes
         /\ \A n \in DOMAIN scopes :
              /\ Superseded(S)[n].actions = scopes[n].actions
              /\ Superseded(S)[n].capability = scopes[n].capability
              /\ Superseded(S)[n].read = scopes[n].read
              /\ Superseded(S)[n].crossed = scopes[n].crossed
              /\ Superseded(S)[n].created = scopes[n].created
              /\ Superseded(S)[n].basis = scopes[n].basis
              /\ Superseded(S)[n].late = scopes[n].late
              /\ Superseded(S)[n].state = IF n \in S THEN "superseded" ELSE scopes[n].state
  <1> DEFINE new == Superseded(S)
  <1>1. scopes \in Seq(ScopeType)
    BY DEF Typed
  <1>2. \A n \in DOMAIN scopes : scopes[n] \in ScopeType
    BY <1>1
  <1>3. DOMAIN new = DOMAIN scopes
    BY DEF Superseded
  <1>4. \A n \in DOMAIN scopes :
          new[n] = IF n \in S THEN [scopes[n] EXCEPT !.state = "superseded"] ELSE scopes[n]
    BY DEF Superseded
  <1> HIDE DEF new
  <1>5. ASSUME NEW n \in DOMAIN scopes PROVE new[n] \in ScopeType
    <2>1. scopes[n] \in ScopeType
      BY <1>2
    <2>2. CASE new[n] = scopes[n]
      BY <2>1, <2>2
    <2>3. CASE new[n] = [scopes[n] EXCEPT !.state = "superseded"]
      BY <2>1, <2>3 DEF ScopeType
    <2> QED BY <1>4, <2>2, <2>3
  <1>6. new \in [1 .. Len(scopes) -> ScopeType]
    <2>1. DOMAIN scopes = 1 .. Len(scopes)
      BY <1>1
    <2>2. new = [n \in DOMAIN scopes |-> new[n]]
      BY <1>3 DEF Superseded, new
    <2> QED BY <1>3, <1>5, <2>1, <2>2
  <1>7. new \in Seq(ScopeType) /\ Len(new) = Len(scopes)
    BY <1>1, <1>6
  <1>8. ASSUME NEW n \in DOMAIN scopes
        PROVE /\ new[n].actions = scopes[n].actions
              /\ new[n].capability = scopes[n].capability
              /\ new[n].read = scopes[n].read
              /\ new[n].crossed = scopes[n].crossed
              /\ new[n].created = scopes[n].created
              /\ new[n].basis = scopes[n].basis
              /\ new[n].late = scopes[n].late
              /\ new[n].state = IF n \in S THEN "superseded" ELSE scopes[n].state
    <2>1. scopes[n] \in ScopeType
      BY <1>2
    <2>2. CASE n \notin S
      BY <1>4, <2>2
    <2>3. CASE n \in S
      BY <1>4, <2>1, <2>3 DEF ScopeType
    <2> QED BY <2>2, <2>3
  <1> QED BY <1>3, <1>7, <1>8 DEF new

\* The intents are few.
LEMMA IntentsFinite == IsFiniteSet(Intents)
  <1>1. IsFiniteSet({"label"})
    BY FS_Singleton
  <1>2. IsFiniteSet({"label"} \cup {"archive"})
    BY <1>1, FS_AddElement
  <1>3. IsFiniteSet(({"label"} \cup {"archive"}) \cup {"move"})
    BY <1>2, FS_AddElement
  <1>4. IsFiniteSet((({"label"} \cup {"archive"}) \cup {"move"}) \cup {"trash"})
    BY <1>3, FS_AddElement
  <1>5. IsFiniteSet(((({"label"} \cup {"archive"}) \cup {"move"}) \cup {"trash"}) \cup {"untrash"})
    BY <1>4, FS_AddElement
  <1>6. ThreadKinds = ((({"label"} \cup {"archive"}) \cup {"move"}) \cup {"trash"}) \cup {"untrash"}
    BY DEF ThreadKinds
  <1> QED BY <1>5, <1>6, FS_Subset, ItemsAssumption

\* What an executor writes are labels.
LEMMA ModifiedLabels ==
  ASSUME NEW k \in Intents, NEW l \in SUBSET Labels
  PROVE  Modified(k, l) \in SUBSET Labels
  <1>1. \A m \in ThreadKinds : Adds[m] \subseteq Labels
    BY DEF Adds, Labels, ThreadKinds
  <1>2. k \in ThreadKinds
    BY ItemsAssumption
  <1> QED BY <1>1, <1>2 DEF Modified

LEMMA DecisionsOfType ==
  ASSUME Typed, NEW S
  PROVE  DecisionsOf(S) \in [Items -> Nat]
  BY DEF Typed, DecisionsOf

-----------------------------------------------------------------------------
(* Decisions                                                                  *)

\* What the items are once a decision commits.
LEMMA DecidedIs ==
  ASSUME Typed, NEW h \in Deciders, NEW dates \in [deciding[h].on -> 0 .. opened],
         DecideFinish(h, dates)
  PROVE  /\ Typed'
         /\ \A i \in Items \ deciding[h].on : item'[i] = item[i]
         /\ \A i \in deciding[h].on :
              /\ i \in Items
              /\ item'[i].state = Over(item[i].state, deciding[h].was[i].state, deciding[h].has[i].state)
              /\ item'[i].intent \in {item[i].intent, deciding[h].has[i].intent}
              /\ item'[i].decision = item[i].decision + 1
              /\ item'[i].dated = dates[i] /\ dates[i] >= deciding[h].since
         /\ \A g \in Deciders : deciding'[g] = IF g = h THEN NoDecision ELSE deciding[g]
  <1> DEFINE d == deciding[h]
  <1>1. /\ d \in DecidingType /\ opened \in Nat /\ dates \in [d.on -> 0 .. opened]
        /\ item' = [i \in Items |->
             IF i \notin d.on THEN item[i]
             ELSE [state |-> Over(item[i].state, d.was[i].state, d.has[i].state),
                   intent |-> Over(item[i].intent, d.was[i].intent, d.has[i].intent),
                   decision |-> item[i].decision + 1, dated |-> dates[i]]]
        /\ \A i \in d.on : dates[i] \in d.since .. opened
        /\ approvals' = approvals \cup {a \in Pairs : a[1] \in d.on /\ a[2] = d.has[a[1]].intent}
        /\ deciding' = [deciding EXCEPT ![h] = NoDecision]
        /\ UNCHANGED <<action, recorded, scopes, opened, preparing, executing, setting, abandoned, labels>>
    BY DEF Typed, DecideFinish
  <1> HIDE DEF d
  <1>2. d.on \subseteq Items /\ d.since \in Nat /\ d.was \in [Items -> Columns] /\ d.has \in [Items -> Columns]
    BY <1>1 DEF DecidingType
  <1>3. \A i \in Items : /\ item[i] \in [state: ItemStates, intent: Intents \cup {NoIntent}, decision: Nat, dated: Nat]
                         /\ d.has[i].state \in ItemStates /\ d.has[i].intent \in Intents \cup {NoIntent}
    BY <1>2 DEF Typed, Columns
  <1>4. \A i \in d.on : /\ dates[i] \in Nat /\ dates[i] >= d.since
                        /\ Over(item[i].state, d.was[i].state, d.has[i].state) \in ItemStates
                        /\ Over(item[i].intent, d.was[i].intent, d.has[i].intent) \in Intents \cup {NoIntent}
                        /\ Over(item[i].intent, d.was[i].intent, d.has[i].intent) \in {item[i].intent, d.has[i].intent}
    BY <1>1, <1>2, <1>3 DEF Over
  <1>5. item' \in [Items -> [state: ItemStates, intent: Intents \cup {NoIntent}, decision: Nat, dated: Nat]]
    <2>1. ASSUME NEW i \in Items
          PROVE  item'[i] \in [state: ItemStates, intent: Intents \cup {NoIntent}, decision: Nat, dated: Nat]
      BY <1>1, <1>3, <1>4
    <2> QED BY <1>1, <2>1
  <1>6. NoDecision \in DecidingType
    BY DEF NoDecision, DecidingType, Columns, Blank, ItemStates
  <1>7. deciding' \in [Deciders -> DecidingType]
    BY <1>1, <1>6 DEF Typed
  <1>8. Typed'
    BY <1>1, <1>5, <1>7 DEF Typed
  <1>9. \A g \in Deciders : deciding'[g] = IF g = h THEN NoDecision ELSE deciding[g]
    BY <1>1 DEF Typed
  <1> QED BY <1>1, <1>2, <1>4, <1>8, <1>9 DEF d

\* What stays as it was when only decisions and items change.
LEMMA DecisionsKeep ==
  ASSUME IInv, UNCHANGED <<action, recorded, scopes, opened, preparing, executing, setting,
                           abandoned, labels>>
  PROVE  /\ RecordedOnce' /\ RecordedIsThere' /\ PreparingOK' /\ OpeningOK' /\ ScopeRowsOK'
         /\ ExecutingOK' /\ DisarmingOK' /\ ScopesStand' /\ AbandonDisarms'
  <1> USE DEF IInv
  <1>1. RecordedOnce' /\ RecordedIsThere'
    BY DEF TypeOK, RecordedOnce, There, RecordedIsThere
  <1>2. PreparingOK' /\ OpeningOK' /\ ScopeRowsOK'
    BY DEF PreparingOK, OpeningOK, ScopeRowsOK
  <1>3. ExecutingOK' /\ DisarmingOK' /\ AbandonDisarms'
    BY DEF ExecutingOK, DisarmingOK, AbandonDisarms
  <1>4. ScopesStand'
    BY DEF ScopesStand, CurrentScopesDisjoint, ExecutedScopeSettled, Covered
  <1> QED BY <1>1, <1>2, <1>3, <1>4

\* What an opened scope relies on stands, whatever decision commits or begins.
LEMMA DatedKept ==
  ASSUME Typed, NEW s, DatedAfter(s), s.created \in Nat, s.actions \subseteq Pairs,
         opened' \in Nat, opened' >= opened,
         \A i \in Items :
           \/ item'[i].decision = item[i].decision /\ item'[i].dated = item[i].dated
           \/ \E g \in Deciders : /\ i \in deciding[g].on /\ item'[i].dated \in Nat
                                  /\ item'[i].dated >= deciding[g].since,
         \A g \in Deciders : \/ deciding'[g] = deciding[g] \/ deciding'[g].on = {}
                             \/ deciding'[g].since = opened
  PROVE  DatedAfter(s)'
  <1>1. opened \in Nat /\ s.created <= opened /\ \A g \in Deciders : deciding[g].since \in Nat
    BY DEF DatedAfter, Typed, DecidingType
  <1> SUFFICES ASSUME NEW a \in s.actions, a[1] \notin s.crossed
               PROVE  /\ item'[a[1]].decision = s.read[a[1]] \/ item'[a[1]].dated >= s.created
                      /\ \A g \in Deciders : a[1] \in deciding'[g].on => deciding'[g].since >= s.created
    BY <1>1 DEF DatedAfter
  <1>2. /\ item[a[1]].decision = s.read[a[1]] \/ item[a[1]].dated >= s.created
        /\ \A g \in Deciders : a[1] \in deciding[g].on => deciding[g].since >= s.created
    BY DEF DatedAfter
  <1>3. a[1] \in Items
    BY DEF Pairs
  <1>4. ASSUME NEW g \in Deciders, a[1] \in deciding'[g].on PROVE deciding'[g].since >= s.created
    <2>1. CASE deciding'[g] = deciding[g]
      BY <1>2, <1>4, <2>1
    <2>2. CASE deciding'[g].since = opened
      BY <1>1, <2>2
    <2> QED BY <1>4, <2>1, <2>2
  <1>5. CASE item'[a[1]].decision = item[a[1]].decision /\ item'[a[1]].dated = item[a[1]].dated
    BY <1>2, <1>4, <1>5
  <1>6. CASE \E g \in Deciders : /\ a[1] \in deciding[g].on /\ item'[a[1]].dated \in Nat
                                 /\ item'[a[1]].dated >= deciding[g].since
    <2>1. PICK g \in Deciders : /\ a[1] \in deciding[g].on /\ item'[a[1]].dated \in Nat
                                /\ item'[a[1]].dated >= deciding[g].since
      BY <1>6
    <2>2. deciding[g].since >= s.created
      BY <1>2, <2>1
    <2>3. item'[a[1]].dated >= s.created
      BY <1>1, <2>1, <2>2
    <2> QED BY <1>4, <2>3
  <1> QED BY <1>3, <1>5, <1>6

\* So do all of them, when no scope is opened or committed.
LEMMA DatesKept ==
  ASSUME Typed, DatesOK, UNCHANGED opened, DOMAIN scopes' = DOMAIN scopes,
         \A n \in DOMAIN scopes :
           /\ scopes'[n].actions = scopes[n].actions /\ scopes'[n].read = scopes[n].read
           /\ scopes'[n].crossed = scopes[n].crossed /\ scopes'[n].created = scopes[n].created,
         \A h \in Preparers : preparing'[h].phase = "open" => preparing'[h] = preparing[h],
         \A i \in Items :
           \/ item'[i].decision = item[i].decision /\ item'[i].dated = item[i].dated
           \/ \E g \in Deciders : /\ i \in deciding[g].on /\ item'[i].dated \in Nat
                                  /\ item'[i].dated >= deciding[g].since,
         \A g \in Deciders : \/ deciding'[g] = deciding[g] \/ deciding'[g].on = {}
                             \/ deciding'[g].since = opened
  PROVE  DatesOK'
  <1>1. opened' \in Nat /\ opened' >= opened
    BY DEF Typed
  <1>2. ASSUME NEW n \in DOMAIN scopes PROVE DatedAfter(scopes[n])'
    <2>1. PICK s : s = scopes[n]
      OBVIOUS
    <2>2. s.created \in Nat /\ s.actions \subseteq Pairs /\ DatedAfter(s)
      BY <2>1, ScopeTyped DEF ScopeType, DatesOK
    <2>3. DatedAfter(s)'
      BY <1>1, <2>2, DatedKept
    <2> QED BY <2>1, <2>3 DEF DatedAfter
  <1>3. ASSUME NEW h \in Preparers, preparing'[h].phase = "open" PROVE DatedAfter(preparing[h])'
    <2>1. PICK s : s = preparing[h]
      OBVIOUS
    <2>2. s.created \in Nat /\ s.actions \subseteq Pairs /\ DatedAfter(s)
      BY <1>3, <2>1 DEF Typed, PreparingType, DatesOK
    <2>3. DatedAfter(s)'
      BY <1>1, <2>2, DatedKept
    <2> QED BY <1>3, <2>1, <2>3 DEF DatedAfter
  <1> QED BY <1>2, <1>3 DEF DatesOK

LEMMA DecideOK ==
  ASSUME IInv, NEW h \in Deciders, NEW S \in SUBSET Items, NEW kind \in DecisionKinds,
         NEW k \in Intents, Decide(h, S, kind, k)
  PROVE  IInv'
  <1> USE DEF IInv
  <1> DEFINE verdict == CASE kind = "defer" -> "deferred" [] kind = "dismiss" -> "dismissed" [] OTHER -> "approved"
             d == [on |-> S,
                   was |-> [i \in Items |-> IF i \in S THEN Shows(i) ELSE Blank],
                   has |-> [i \in Items |-> IF i \in S THEN Decided(i, kind, k) ELSE Blank],
                   since |-> opened]
  <1>1. /\ Typed /\ RecordedOnce
        /\ deciding' = [deciding EXCEPT ![h] = d]
        /\ UNCHANGED <<item, action, recorded, scopes, opened, preparing, executing, setting,
                       abandoned, labels, approvals>>
    BY DEF TypeOK, Decide
  <1>2. verdict \in {"approved", "dismissed", "deferred"} /\ verdict \in ItemStates
    BY DEF ItemStates
  <1>3. \A i \in Items : /\ Decided(i, kind, k).state = verdict
                         /\ Decided(i, kind, k) \in Columns
                         /\ Shows(i) \in Columns /\ Blank \in Columns
    <2>1. \A i \in Items : Chosen(i, kind, k) \in Intents \cup {NoIntent}
      BY ItemsAssumption DEF Chosen
    <2>2. \A i \in Items : Shows(i) \in Columns /\ Blank \in Columns
      BY <1>1 DEF Shows, Blank, Columns, ItemStates, Typed
    <2> QED BY <1>2, <2>1, <2>2 DEF Decided, Columns
  <1> HIDE DEF verdict
  <1>4. d \in DecidingType /\ d.on = S /\ d.since = opened /\ \A i \in S : d.has[i].state = verdict
    <2>1. [i \in Items |-> IF i \in S THEN Shows(i) ELSE Blank] \in [Items -> Columns]
      BY <1>3
    <2>2. [i \in Items |-> IF i \in S THEN Decided(i, kind, k) ELSE Blank] \in [Items -> Columns]
      BY <1>3
    <2> QED BY <1>1, <1>3, <2>1, <2>2 DEF DecidingType, Typed
  <1> HIDE DEF d
  <1>5. Typed'
    BY <1>1, <1>4 DEF Typed
  <1>6. \A g \in Deciders : deciding'[g] = IF g = h THEN d ELSE deciding[g]
    BY <1>1 DEF Typed
  <1>7. DecidingOK'
    <2> SUFFICES ASSUME NEW g \in Deciders
                 PROVE  \E v \in {"approved", "dismissed", "deferred"} :
                          \A i \in deciding'[g].on : deciding'[g].has[i].state = v
      BY DEF DecidingOK
    <2>1. CASE g = h
      BY <1>2, <1>4, <1>6, <2>1
    <2>2. CASE g # h
      BY <1>6, <2>2 DEF DecidingOK
    <2> QED BY <2>1, <2>2
  <1>8. DatesOK'
    BY <1>1, <1>4, <1>6, DatesKept
  <1>9. OnlyApproved' /\ NothingWithoutApproval'
    BY <1>1 DEF OnlyApproved, NothingWithoutApproval
  <1>10. BeganStands'
    BY <1>1 DEF BeganStands, Covered
  <1> QED BY <1>1, <1>5, <1>7, <1>8, <1>9, <1>10, DecisionsKeep DEF TypeOK

LEMMA DecideLostOK ==
  ASSUME IInv, NEW h \in Deciders, DecideLost(h)
  PROVE  IInv'
  <1> USE DEF IInv
  <1>1. /\ Typed /\ deciding' = [deciding EXCEPT ![h] = NoDecision]
        /\ UNCHANGED <<item, action, recorded, scopes, opened, preparing, executing, setting,
                       abandoned, labels, approvals>>
    BY DEF TypeOK, DecideLost
  <1>2. NoDecision \in DecidingType /\ NoDecision.on = {}
    BY DEF NoDecision, DecidingType, Columns, Blank, ItemStates
  <1>3. Typed'
    BY <1>1, <1>2 DEF Typed
  <1>4. \A g \in Deciders : deciding'[g] = IF g = h THEN NoDecision ELSE deciding[g]
    BY <1>1 DEF Typed
  <1>5. DecidingOK'
    BY <1>2, <1>4 DEF DecidingOK
  <1>6. DatesOK'
    BY <1>1, <1>2, <1>4, DatesKept
  <1>7. OnlyApproved' /\ NothingWithoutApproval' /\ BeganStands'
    BY <1>1 DEF OnlyApproved, NothingWithoutApproval, BeganStands, Covered
  <1> QED BY <1>1, <1>3, <1>5, <1>6, <1>7, DecisionsKeep DEF TypeOK

LEMMA DecideFinishOK ==
  ASSUME IInv, NEW h \in Deciders, NEW dates \in [deciding[h].on -> 0 .. opened],
         DecideFinish(h, dates)
  PROVE  IInv'
  <1> USE DEF IInv
  <1> DEFINE d == deciding[h]
  <1>1. /\ Typed /\ Typed'
        /\ approvals' = approvals \cup {a \in Pairs : a[1] \in d.on /\ a[2] = d.has[a[1]].intent}
        /\ UNCHANGED <<action, recorded, scopes, opened, preparing, executing, setting, abandoned, labels>>
    BY DecidedIs DEF TypeOK, DecideFinish
  <1>2. /\ \A i \in Items \ d.on : item'[i] = item[i]
        /\ \A i \in d.on :
              /\ i \in Items
              /\ item'[i].intent \in {item[i].intent, d.has[i].intent}
              /\ item'[i].decision = item[i].decision + 1
              /\ item'[i].dated = dates[i] /\ dates[i] >= d.since
        /\ \A g \in Deciders : deciding'[g] = IF g = h THEN NoDecision ELSE deciding[g]
    BY <1>1, DecidedIs
  <1>3. NoDecision.on = {} /\ d.since \in Nat /\ \A i \in d.on : dates[i] \in Nat
    BY <1>1 DEF NoDecision, Typed, DecidingType
  <1> HIDE DEF d
  <1>4. DecidingOK'
    BY <1>2, <1>3 DEF DecidingOK
  <1>5. DatesOK'
    <2>1. \A i \in Items :
            \/ item'[i].decision = item[i].decision /\ item'[i].dated = item[i].dated
            \/ \E g \in Deciders : /\ i \in deciding[g].on /\ item'[i].dated \in Nat
                                   /\ item'[i].dated >= deciding[g].since
      BY <1>2, <1>3 DEF d
    <2>2. \A g \in Deciders : deciding'[g] = deciding[g] \/ deciding'[g].on = {}
      BY <1>2, <1>3
    <2> QED BY <1>1, <2>1, <2>2, DatesKept
  <1>6. OnlyApproved'
    <2>1. approvals \subseteq approvals'
      BY <1>1
    <2>2. ASSUME NEW i \in Items, item'[i].intent \in Intents PROVE <<i, item'[i].intent>> \in approvals'
      <3>1. CASE item'[i].intent = item[i].intent
        BY <2>1, <2>2, <3>1 DEF OnlyApproved
      <3>2. CASE i \in d.on /\ item'[i].intent = d.has[i].intent
        <4>1. <<i, item'[i].intent>> \in Pairs
          BY <2>2 DEF Pairs
        <4> QED BY <1>1, <3>2, <4>1
      <3> QED BY <1>2, <3>1, <3>2
    <2> QED BY <1>1, <2>1, <2>2 DEF OnlyApproved
  <1>7. BeganStands'
    <2> SUFFICES ASSUME executing.scope # 0, NEW i \in Covered(executing.scope)
                 PROVE  /\ item'[i].decision >= executing.began[i]
                        /\ item'[i].state \in Withdrawn => item'[i].decision # executing.began[i]
      BY <1>1 DEF BeganStands, Covered
    <2>1. i \in Items
      <3>1. executing.scope \in DOMAIN scopes
        BY DEF ExecutingOK
      <3>2. scopes[executing.scope].actions \subseteq Pairs
        BY <1>1, <3>1, ScopeTyped
      <3> QED BY <3>2 DEF Covered, Pairs
    <2>2. item[i].decision \in Nat /\ executing.began[i] \in Nat
      BY <1>1, <2>1 DEF Typed, ExecutingType
    <2>3. item'[i] = item[i] \/ item'[i].decision = item[i].decision + 1
      BY <1>2, <2>1
    <2> QED BY <2>2, <2>3 DEF BeganStands
  <1>8. NothingWithoutApproval'
    BY <1>1 DEF NothingWithoutApproval
  <1> QED BY <1>1, <1>4, <1>5, <1>6, <1>7, <1>8, DecisionsKeep DEF TypeOK

-----------------------------------------------------------------------------
(* Preparing                                                                  *)

\* What stays as it was when only preparations change.
LEMMA PreparingKeeps ==
  ASSUME IInv, UNCHANGED <<item, action, recorded, scopes, deciding, executing, setting,
                           abandoned, labels, approvals>>
  PROVE  /\ RecordedOnce' /\ RecordedIsThere' /\ DecidingOK' /\ ScopeRowsOK' /\ ExecutingOK'
         /\ BeganStands' /\ DisarmingOK' /\ ScopesStand' /\ NothingWithoutApproval' /\ AbandonDisarms'
  <1> USE DEF IInv
  <1>1. RecordedOnce' /\ RecordedIsThere'
    BY DEF TypeOK, RecordedOnce, There, RecordedIsThere
  <1>2. DecidingOK' /\ ScopeRowsOK' /\ ExecutingOK'
    BY DEF DecidingOK, ScopeRowsOK, ExecutingOK
  <1>3. BeganStands' /\ ScopesStand'
    BY DEF BeganStands, ScopesStand, CurrentScopesDisjoint, ExecutedScopeSettled, Covered
  <1>4. DisarmingOK' /\ NothingWithoutApproval' /\ AbandonDisarms'
    BY DEF DisarmingOK, NothingWithoutApproval, AbandonDisarms
  <1> QED BY <1>1, <1>2, <1>3, <1>4

\* A request without a preparation.
LEMMA NoPreparationIs ==
  /\ NoPreparation \in PreparingType /\ NoPreparation.phase = "none"
  /\ NoPreparation.actions = {} /\ NoPreparation.fresh = {}
  BY DEF NoPreparation, PreparingType

LEMMA PrepareReadOK ==
  ASSUME IInv, NEW h \in Preparers, NEW c \in Capabilities \cup {NoCapability},
         NEW ids \in SUBSET Items, PrepareRead(h, c, ids)
  PROVE  IInv'
  <1> USE DEF IInv
  <1> DEFINE kept == {i \in ids : c \in {NoCapability, CapabilityOf[i]}}
             due == UNION {Outstanding(i) : i \in kept}
             new == {a \in due : action[a] = "absent"}
             p == [NoPreparation EXCEPT !.phase = "read", !.capability = c, !.actions = due,
                     !.fresh = new, !.read = DecisionsOf({a[1] : a \in due})]
  <1>1. /\ Typed /\ RecordedOnce
        /\ preparing' = [preparing EXCEPT ![h] = p]
        /\ UNCHANGED <<item, action, recorded, scopes, opened, deciding, executing, setting,
                       abandoned, labels, approvals>>
    BY DEF TypeOK, PrepareRead
  <1>2. \A a \in due :
          /\ a \in Pairs /\ a[1] \in kept
          /\ action[a] # "absent" \/ (item[a[1]].state = "approved" /\ a[2] = item[a[1]].intent)
    <2>1. \A i : \A a \in Outstanding(i) :
            /\ a \in Pairs /\ a[1] = i
            /\ action[a] # "absent" \/ (item[a[1]].state = "approved" /\ a[2] = item[a[1]].intent)
      <3> HIDE DEF kept, due
      <3> QED BY DEF Outstanding, Wanted
    <2>2. \A a \in due : \E i \in kept : a \in Outstanding(i)
      BY Zenon
    <2> HIDE DEF due, kept
    <2> QED BY <2>1, <2>2
  <1> HIDE DEF due
  <1>3. p \in PreparingType /\ p.phase = "read" /\ p.capability = c /\ p.actions = due /\ p.fresh = new
    <2>1. DecisionsOf({a[1] : a \in due}) \in [Items -> Nat] /\ due \subseteq Pairs
      BY <1>1, <1>2, DecisionsOfType
    <2> QED BY <2>1 DEF NoPreparation, PreparingType
  <1> HIDE DEF p
  <1>4. Typed' /\ \A g \in Preparers : preparing'[g] = IF g = h THEN p ELSE preparing[g]
    BY <1>1, <1>3 DEF Typed
  <1>5. OnlyApproved'
    <2>1. ASSUME NEW a \in due PROVE a \in approvals
      <3>1. CASE action[a] # "absent"
        BY <1>2, <3>1 DEF OnlyApproved
      <3>2. CASE action[a] = "absent"
        <4>1. a \in Pairs /\ a[2] = item[a[1]].intent
          BY <1>2, <3>2
        <4>2. a = <<a[1], a[2]>> /\ a[1] \in Items /\ a[2] \in Intents
          BY <4>1 DEF Pairs
        <4> QED BY <4>1, <4>2 DEF OnlyApproved
      <3> QED BY <3>1, <3>2
    <2> QED BY <1>1, <1>3, <1>4, <2>1 DEF OnlyApproved
  <1>6. PreparingOK'
    <2>1. ASSUME NEW a \in new, NEW b \in new, a[1] = b[1] PROVE a = b
      <3>1. a \in Pairs /\ b \in Pairs /\ a[2] = item[a[1]].intent /\ b[2] = item[b[1]].intent
        BY <1>2
      <3> QED BY <2>1, <3>1 DEF Pairs
    <2>2. c # NoCapability => \A a \in due : CapabilityOf[a[1]] = c
      BY <1>2
    <2>3. new \subseteq due /\ \A a \in due : a \in new \/ action[a] # "absent"
      OBVIOUS
    <2> HIDE DEF new
    <2> QED BY <1>1, <1>3, <1>4, <2>1, <2>2, <2>3 DEF PreparingOK
  <1>7. OpeningOK'
    BY <1>1, <1>3, <1>4 DEF OpeningOK
  <1>8. DatesOK'
    BY <1>1, <1>3, <1>4, DatesKept
  <1> QED BY <1>1, <1>4, <1>5, <1>6, <1>7, <1>8, PreparingKeeps DEF TypeOK

LEMMA PrepareLostOK ==
  ASSUME IInv, NEW h \in Preparers, PrepareLost(h)
  PROVE  IInv'
  <1> USE DEF IInv
  <1>1. /\ Typed /\ preparing' = [preparing EXCEPT ![h] = NoPreparation]
        /\ UNCHANGED <<item, action, recorded, scopes, opened, deciding, executing, setting,
                       abandoned, labels, approvals>>
    BY DEF TypeOK, PrepareLost
  <1>2. Typed' /\ \A g \in Preparers : preparing'[g] = IF g = h THEN NoPreparation ELSE preparing[g]
    BY <1>1, NoPreparationIs DEF Typed
  <1>3. OnlyApproved' /\ PreparingOK' /\ OpeningOK'
    <2>1. OnlyApproved'
      BY <1>1, <1>2, NoPreparationIs DEF OnlyApproved
    <2>2. PreparingOK'
      <3>1. NoPreparation.capability = NoCapability
        BY DEF NoPreparation
      <3> QED BY <1>1, <1>2, <3>1, NoPreparationIs DEF PreparingOK
    <2>3. OpeningOK'
      BY <1>1, <1>2, NoPreparationIs DEF OpeningOK
    <2> QED BY <2>1, <2>2, <2>3
  <1>4. DatesOK'
    BY <1>1, <1>2, NoPreparationIs, DatesKept
  <1> QED BY <1>1, <1>2, <1>3, <1>4, PreparingKeeps DEF TypeOK

LEMMA PrepareOpenOK ==
  ASSUME IInv, NEW h \in Preparers, PrepareOpen(h)
  PROVE  IInv'
  <1> USE DEF IInv
  <1> DEFINE p == preparing[h]
             c == {i \in Items : \/ item[i].decision # p.read[i]
                                 \/ \E g \in Deciders : i \in deciding[g].on}
             q == [phase |-> "open", capability |-> p.capability, actions |-> p.actions,
                   fresh |-> p.fresh, read |-> p.read, crossed |-> c,
                   created |-> opened + 1, basis |-> Len(scopes), open |-> OpenScopes(p.capability)]
  <1>1. /\ Typed /\ p.phase = "read" /\ opened' = opened + 1
        /\ \A a \in p.fresh : action[a] = "absent" /\ ~Inserted(a)
        /\ preparing' = [preparing EXCEPT ![h] = q]
        /\ UNCHANGED <<item, action, recorded, scopes, deciding, executing, setting,
                       abandoned, labels, approvals>>
    BY DEF TypeOK, PrepareOpen
  <1>2. p \in PreparingType /\ opened \in Nat /\ scopes \in Seq(ScopeType)
    BY <1>1 DEF Typed
  <1>3. c \subseteq Items /\ OpenScopes(p.capability) \subseteq Nat /\ Len(scopes) \in Nat
    BY <1>2 DEF OpenScopes
  <1> HIDE DEF p, c
  <1>4. /\ q \in PreparingType
        /\ q.phase = "open" /\ q.capability = p.capability /\ q.actions = p.actions
        /\ q.fresh = p.fresh /\ q.read = p.read /\ q.crossed = c /\ q.created = opened + 1
        /\ q.basis = Len(scopes) /\ q.open = OpenScopes(p.capability)
    <2>1. /\ q.phase = "open" /\ q.capability = p.capability /\ q.actions = p.actions
          /\ q.fresh = p.fresh /\ q.read = p.read /\ q.crossed = c /\ q.created = opened + 1
          /\ q.basis = Len(scopes) /\ q.open = OpenScopes(p.capability)
      OBVIOUS
    <2>2. /\ p.capability \in Capabilities \cup {NoCapability} /\ p.actions \subseteq Pairs
          /\ p.fresh \subseteq Pairs /\ p.read \in [Items -> Nat]
      BY <1>2 DEF PreparingType
    <2>3. opened + 1 \in Nat
      BY <1>2
    <2>4. q \in PreparingType
      BY <1>3, <2>2, <2>3 DEF PreparingType
    <2> QED BY <2>1, <2>4
  <1> HIDE DEF q
  <1>5. Typed' /\ \A g \in Preparers : preparing'[g] = IF g = h THEN q ELSE preparing[g]
    BY <1>1, <1>2, <1>4 DEF Typed
  <1>6. OnlyApproved'
    BY <1>1, <1>4, <1>5 DEF OnlyApproved, p
  <1>7. PreparingOK'
    <2>1. \A a \in p.fresh : action[a] = "absent" /\ \A g \in Preparers \ {h} :
            preparing[g].phase = "open" => a \notin preparing[g].fresh
      BY <1>1 DEF Inserted
    <2> SUFFICES ASSUME NEW g \in Preparers
                 PROVE  LET r == preparing'[g] IN
                   /\ r.fresh \subseteq r.actions
                   /\ \A a \in r.actions : a \in r.fresh \/ action[a] # "absent"
                   /\ \A a, b \in r.fresh : a[1] = b[1] => a = b
                   /\ r.capability # NoCapability => \A a \in r.actions : CapabilityOf[a[1]] = r.capability
                   /\ r.phase = "open" => \A a \in r.fresh :
                        /\ action[a] = "absent"
                        /\ \A f \in Preparers \ {g} : preparing'[f].phase = "open" => a \notin preparing'[f].fresh
      BY <1>1 DEF PreparingOK
    <2>2. CASE g = h
      BY <1>4, <1>5, <2>1, <2>2 DEF PreparingOK, p
    <2>3. CASE g # h
      <3>1. preparing'[g] = preparing[g]
        BY <1>5, <2>3
      <3>2. ASSUME preparing[g].phase = "open", NEW a \in preparing[g].fresh,
                   NEW f \in Preparers \ {g}, preparing'[f].phase = "open"
            PROVE  a \notin preparing'[f].fresh
        <4>1. CASE f = h
          BY <1>4, <1>5, <2>1, <2>3, <3>2, <4>1
        <4>2. CASE f # h
          BY <1>5, <3>2, <4>2 DEF PreparingOK
        <4> QED BY <4>1, <4>2
      <3> QED BY <3>1, <3>2 DEF PreparingOK
    <2> QED BY <2>2, <2>3
  <1>8. OpeningOK'
    <2>1. \A m \in 1 .. Len(scopes) :
            \/ m \in OpenScopes(p.capability) \/ scopes[m].state # "current"
            \/ p.capability # NoCapability /\ scopes[m].capability # p.capability
      BY <1>2 DEF OpenScopes
    <2>2. Len(scopes) <= Len(scopes)
      BY <1>3
    <2> QED BY <1>1, <1>4, <1>5, <2>1, <2>2 DEF OpeningOK
  <1>9. DatesOK'
    <2>1. opened' \in Nat /\ opened' >= opened
      BY <1>1, <1>2
    <2>2. ASSUME NEW n \in DOMAIN scopes PROVE DatedAfter(scopes[n])'
      <3>1. PICK s : s = scopes[n]
        OBVIOUS
      <3>2. s.created \in Nat /\ s.actions \subseteq Pairs /\ DatedAfter(s)
        BY <1>1, <3>1, ScopeTyped DEF ScopeType, DatesOK
      <3>3. DatedAfter(s)'
        BY <1>1, <2>1, <3>2, DatedKept
      <3> QED BY <1>1, <3>1, <3>3 DEF DatedAfter
    <2>3. ASSUME NEW g \in Preparers, g # h, preparing[g].phase = "open" PROVE DatedAfter(preparing[g])'
      <3>1. PICK s : s = preparing[g]
        OBVIOUS
      <3>2. s.created \in Nat /\ s.actions \subseteq Pairs /\ DatedAfter(s)
        BY <1>1, <2>3, <3>1 DEF Typed, PreparingType, DatesOK
      <3>3. DatedAfter(s)'
        BY <1>1, <2>1, <3>2, DatedKept
      <3>4. preparing'[g] = preparing[g]
        BY <1>5, <2>3
      <3> QED BY <3>1, <3>3, <3>4 DEF DatedAfter
    <2>4. DatedAfter(preparing[h])'
      <3>1. preparing'[h] = q /\ opened + 1 <= opened'
        BY <1>1, <1>2, <1>5
      <3>2. \A a \in p.actions : a[1] \in Items
        BY <1>2 DEF PreparingType, Pairs
      <3>3. \A a \in p.actions :
              \/ a[1] \in c
              \/ item[a[1]].decision = p.read[a[1]] /\ \A g \in Deciders : a[1] \notin deciding[g].on
        BY <3>2 DEF c
      <3> QED BY <1>1, <1>4, <3>1, <3>3 DEF DatedAfter
    <2> QED BY <1>1, <2>2, <2>3, <2>4, <1>5 DEF DatesOK
  <1> QED BY <1>1, <1>5, <1>6, <1>7, <1>8, <1>9, PreparingKeeps DEF TypeOK

\* What committing a scope does to the scopes, and to the rows.
LEMMA PrepareCommitIs ==
  ASSUME IInv, NEW h \in Preparers, PrepareCommit(h)
  PROVE  LET p == preparing[h] IN
         /\ scopes' \in Seq(ScopeType) /\ Len(scopes') = Len(scopes) + 1
         /\ DOMAIN scopes' = DOMAIN scopes \cup {Len(scopes) + 1}
         /\ \A n \in DOMAIN scopes :
              /\ n # Len(scopes) + 1 /\ n < Len(scopes) + 1
              /\ scopes'[n] = Superseded(p.open)[n]
         /\ scopes'[Len(scopes) + 1] =
              [capability |-> p.capability, state |-> "current", actions |-> p.actions,
               read |-> p.read, crossed |-> p.crossed, created |-> p.created,
               basis |-> p.basis, late |-> abandoned \/ setting.on]
         /\ \A a \in Pairs : action'[a] = IF a \in p.fresh THEN "prepared" ELSE action[a]
  <1> DEFINE p == preparing[h]
             row == [capability |-> p.capability, state |-> "current", actions |-> p.actions,
                     read |-> p.read, crossed |-> p.crossed, created |-> p.created,
                     basis |-> p.basis, late |-> abandoned \/ setting.on]
             old == Superseded(p.open)
  <1>1. Typed
    BY DEF IInv, TypeOK
  <1>2. row \in ScopeType
    <2>1. p \in PreparingType
      BY <1>1 DEF Typed
    <2>2. (abandoned \/ setting.on) \in BOOLEAN
      BY <1>1 DEF Typed
    <2> QED BY <2>1, <2>2 DEF ScopeType, PreparingType
  <1>3. scopes' = Append(old, row)
    BY DEF PrepareCommit
  <1>4. old \in Seq(ScopeType) /\ Len(old) = Len(scopes) /\ scopes \in Seq(ScopeType)
    BY <1>1, SupersededIs DEF Typed
  <1>5. \A a \in Pairs : action'[a] = IF a \in p.fresh THEN "prepared" ELSE action[a]
    BY DEF PrepareCommit
  <1> HIDE DEF row, old
  <1>6. /\ scopes' \in Seq(ScopeType) /\ Len(scopes') = Len(scopes) + 1
        /\ \A n \in 1 .. Len(scopes) : scopes'[n] = old[n]
        /\ scopes'[Len(scopes) + 1] = row
    BY <1>2, <1>3, <1>4, AppendProperties
  <1>7. DOMAIN scopes = 1 .. Len(scopes) /\ DOMAIN scopes' = 1 .. Len(scopes) + 1 /\ Len(scopes) \in Nat
    BY <1>4, <1>6
  <1> QED BY <1>5, <1>6, <1>7 DEF row, old

\* The rows of an item grow by the one row that is new, if any.
LEMMA NewRowOK ==
  ASSUME IInv, NEW h \in Preparers, PrepareCommit(h), NEW i \in Items
  PROVE  /\ recorded'[i] \in Seq(Intents)
         /\ \A n \in DOMAIN recorded[i] : n \in DOMAIN recorded'[i] /\ recorded'[i][n] = recorded[i][n]
         /\ \A n \in DOMAIN recorded'[i] : action'[<<i, recorded'[i][n]>>] # "absent"
         /\ Len(recorded'[i]) = Cardinality(There(i)')
         /\ \A k \in There(i)' : \E n \in DOMAIN recorded'[i] : recorded'[i][n] = k
  <1> DEFINE new == preparing[h].fresh
  <1>1. Typed /\ RecordedOnce /\ RecordedIsThere /\ PreparingOK
    BY DEF IInv, TypeOK
  <1>2. recorded[i] \in Seq(Intents) /\ new \subseteq Pairs
        /\ \A a \in new : action[a] = "absent"
    <2>1. preparing[h].phase = "open" /\ preparing[h] \in PreparingType
      BY <1>1 DEF Typed, PrepareCommit
    <2> QED BY <1>1, <2>1 DEF Typed, PreparingType, PreparingOK
  <1>3. recorded'[i] = IF \E k \in Intents : <<i, k>> \in new
                       THEN Append(recorded[i], CHOOSE k \in Intents : <<i, k>> \in new)
                       ELSE recorded[i]
    BY DEF PrepareCommit
  <1>4. \A k \in Intents : action'[<<i, k>>] = IF <<i, k>> \in new THEN "prepared" ELSE action[<<i, k>>]
    BY PrepareCommitIs DEF Pairs
  <1>5. There(i)' = There(i) \cup {k \in Intents : <<i, k>> \in new}
    BY <1>4 DEF There
  <1>6. There(i) \cap {k \in Intents : <<i, k>> \in new} = {}
    BY <1>2 DEF There
  <1>7. /\ Len(recorded[i]) = Cardinality(There(i))
        /\ \A k \in There(i) : \E n \in DOMAIN recorded[i] : recorded[i][n] = k
        /\ \A n \in DOMAIN recorded[i] : recorded[i][n] \in There(i)
    <2>1. \A n \in DOMAIN recorded[i] : recorded[i][n] \in Intents
      BY <1>2
    <2> QED BY <1>1, <2>1 DEF RecordedOnce, RecordedIsThere, There
  <1>8. IsFiniteSet(There(i))
    BY IntentsFinite, FS_Subset DEF There
  <1>9. \A k, l \in Intents : <<i, k>> \in new /\ <<i, l>> \in new => k = l
    <2> SUFFICES ASSUME NEW k \in Intents, NEW l \in Intents, <<i, k>> \in new, <<i, l>> \in new
                 PROVE  <<i, k>> = <<i, l>>
      OBVIOUS
    <2> QED BY <1>1 DEF PreparingOK
  <1> HIDE DEF new
  <1>10. CASE ~\E k \in Intents : <<i, k>> \in new
    <2>1. recorded'[i] = recorded[i] /\ There(i)' = There(i)
      BY <1>3, <1>5, <1>10
    <2>2. \A n \in DOMAIN recorded'[i] : action'[<<i, recorded'[i][n]>>] # "absent"
      BY <1>4, <1>7, <1>10, <2>1 DEF There
    <2> QED BY <1>2, <1>7, <2>1, <2>2
  <1>11. CASE \E k \in Intents : <<i, k>> \in new
    <2>1. PICK k \in Intents : <<i, k>> \in new /\ recorded'[i] = Append(recorded[i], k)
      BY <1>3, <1>11
    <2>2. There(i)' = There(i) \cup {k} /\ k \notin There(i)
      BY <1>5, <1>6, <1>9, <2>1
    <2>3. /\ recorded'[i] \in Seq(Intents) /\ Len(recorded'[i]) = Len(recorded[i]) + 1
          /\ \A n \in 1 .. Len(recorded[i]) : recorded'[i][n] = recorded[i][n]
          /\ recorded'[i][Len(recorded[i]) + 1] = k
      BY <1>2, <2>1, AppendProperties
    <2>4. DOMAIN recorded[i] = 1 .. Len(recorded[i]) /\ DOMAIN recorded'[i] = 1 .. Len(recorded[i]) + 1
          /\ Len(recorded[i]) \in Nat
      BY <1>2, <2>3
    <2>5. Cardinality(There(i)') = Cardinality(There(i)) + 1
      BY <1>8, <2>2, FS_AddElement
    <2>6. \A n \in DOMAIN recorded'[i] : action'[<<i, recorded'[i][n]>>] # "absent"
      <3>1. \A n \in DOMAIN recorded'[i] : recorded'[i][n] \in There(i)'
        BY <1>7, <2>2, <2>3, <2>4
      <3> QED BY <3>1 DEF There
    <2>7. \A l \in There(i)' : \E n \in DOMAIN recorded'[i] : recorded'[i][n] = l
      <3> SUFFICES ASSUME NEW l \in There(i)' PROVE \E n \in DOMAIN recorded'[i] : recorded'[i][n] = l
        OBVIOUS
      <3>1. CASE l = k
        BY <2>3, <2>4, <3>1
      <3>2. CASE l \in There(i)
        BY <1>7, <2>3, <2>4, <3>2
      <3> QED BY <2>2, <3>1, <3>2
    <2>8. \A n \in DOMAIN recorded[i] : n \in DOMAIN recorded'[i] /\ recorded'[i][n] = recorded[i][n]
      BY <2>3, <2>4
    <2>9. Len(recorded'[i]) = Cardinality(There(i)')
      BY <1>7, <2>3, <2>5
    <2> QED BY <2>3, <2>6, <2>7, <2>8, <2>9
  <1> QED BY <1>10, <1>11

LEMMA PrepareCommitOK ==
  ASSUME IInv, NEW h \in Preparers, PrepareCommit(h)
  PROVE  IInv'
  <1> USE DEF IInv
  <1> DEFINE k0 == Len(scopes) + 1
             p == preparing[h]
             row == [capability |-> p.capability, state |-> "current", actions |-> p.actions,
                     read |-> p.read, crossed |-> p.crossed, created |-> p.created,
                     basis |-> p.basis, late |-> abandoned \/ setting.on]
  <1>1. /\ Typed /\ RecordedOnce
        /\ p.phase = "open" /\ preparing' = [preparing EXCEPT ![h] = NoPreparation]
        /\ UNCHANGED <<item, opened, deciding, executing, setting, abandoned, labels, approvals>>
    BY DEF TypeOK, PrepareCommit
  <1>2. /\ scopes' \in Seq(ScopeType) /\ Len(scopes') = Len(scopes) + 1
        /\ DOMAIN scopes' = DOMAIN scopes \cup {k0}
        /\ \A n \in DOMAIN scopes : n # k0 /\ n < k0 /\ scopes'[n] = Superseded(p.open)[n]
        /\ scopes'[k0] = row
        /\ \A a \in Pairs : action'[a] = IF a \in p.fresh THEN "prepared" ELSE action[a]
    BY PrepareCommitIs
  <1>3. /\ row.actions = p.actions /\ row.capability = p.capability /\ row.read = p.read
        /\ row.crossed = p.crossed /\ row.created = p.created /\ row.basis = p.basis
        /\ row.state = "current" /\ (row.late <=> (abandoned \/ setting.on))
    OBVIOUS
  <1>4. /\ p \in PreparingType
        /\ p.fresh \subseteq p.actions
        /\ \A a \in p.actions : a \in p.fresh \/ action[a] # "absent"
        /\ p.capability # NoCapability => \A a \in p.actions : CapabilityOf[a[1]] = p.capability
        /\ \A a \in p.fresh : action[a] = "absent"
        /\ \A g \in Preparers \ {h} : preparing[g].phase = "open" => p.fresh \cap preparing[g].fresh = {}
    <2>1. p \in PreparingType
      BY <1>1 DEF Typed
    <2> QED BY <1>1, <2>1 DEF PreparingOK
  <1>5. /\ p.basis <= Len(scopes) /\ Len(scopes) \in Nat /\ DOMAIN scopes = 1 .. Len(scopes)
        /\ \A m \in 1 .. p.basis :
             \/ m \in p.open \/ scopes[m].state # "current"
             \/ p.capability # NoCapability /\ scopes[m].capability # p.capability
    BY <1>1 DEF OpeningOK, Typed
  <1>6. DatedAfter(p)
    BY <1>1 DEF DatesOK
  <1> HIDE DEF row, k0, p
  <1>7. \A n \in DOMAIN scopes :
          /\ scopes'[n].actions = scopes[n].actions
          /\ scopes'[n].capability = scopes[n].capability
          /\ scopes'[n].read = scopes[n].read
          /\ scopes'[n].crossed = scopes[n].crossed
          /\ scopes'[n].created = scopes[n].created
          /\ scopes'[n].basis = scopes[n].basis
          /\ scopes'[n].late = scopes[n].late
          /\ scopes'[n].state = IF n \in p.open THEN "superseded" ELSE scopes[n].state
          /\ scopes[n].actions \subseteq Pairs
    BY <1>1, <1>2, SupersededIs, ScopeTyped
  <1>8. /\ \A a \in Pairs : action[a] # "absent" => action'[a] = action[a]
        /\ \A a \in p.actions : action'[a] # "absent"
        /\ p.actions \subseteq Pairs /\ p.fresh \subseteq Pairs
    <2>1. p.actions \subseteq Pairs /\ p.fresh \subseteq Pairs
      BY <1>4 DEF PreparingType
    <2> QED BY <1>2, <1>4, <2>1
  <1>9. \A g \in Preparers : preparing'[g] = IF g = h THEN NoPreparation ELSE preparing[g]
    BY <1>1 DEF Typed
  <1>10. Typed'
    <2>1. action' \in [Pairs -> ActionStates]
      <3>1. action' = [a \in Pairs |-> action'[a]]
        BY DEF PrepareCommit
      <3>2. \A a \in Pairs : action'[a] \in ActionStates
        BY <1>1, <1>2 DEF Typed, ActionStates
      <3> QED BY <3>1, <3>2
    <2>2. recorded' \in [Items -> Seq(Intents)]
      <3>1. recorded' = [i \in Items |-> recorded'[i]]
        BY DEF PrepareCommit
      <3>2. \A i \in Items : recorded'[i] \in Seq(Intents)
        BY NewRowOK
      <3> QED BY <3>1, <3>2
    <2>3. preparing' \in [Preparers -> PreparingType]
      BY <1>1, NoPreparationIs DEF Typed
    <2> QED BY <1>1, <1>2, <2>1, <2>2, <2>3 DEF Typed
  <1>11. RecordedOnce' /\ RecordedIsThere'
    BY NewRowOK DEF RecordedOnce, RecordedIsThere
  <1>12. OnlyApproved' /\ NothingWithoutApproval'
    <2>1. p.fresh \subseteq approvals
      BY <1>4 DEF OnlyApproved, p
    <2>2. \A a \in Pairs : action'[a] # "absent" => a \in approvals
      BY <1>2, <2>1 DEF OnlyApproved
    <2>3. \A g \in Preparers : preparing'[g].actions \subseteq approvals
      BY <1>9, NoPreparationIs DEF OnlyApproved
    <2> QED BY <1>1, <2>2, <2>3 DEF OnlyApproved, NothingWithoutApproval
  <1>13. DecidingOK'
    BY <1>1 DEF DecidingOK
  <1>14. PreparingOK'
    <2> SUFFICES ASSUME NEW g \in Preparers
                 PROVE  LET r == preparing'[g] IN
                   /\ r.fresh \subseteq r.actions
                   /\ \A a \in r.actions : a \in r.fresh \/ action'[a] # "absent"
                   /\ \A a, b \in r.fresh : a[1] = b[1] => a = b
                   /\ r.capability # NoCapability => \A a \in r.actions : CapabilityOf[a[1]] = r.capability
                   /\ r.phase = "open" => \A a \in r.fresh :
                        /\ action'[a] = "absent"
                        /\ \A f \in Preparers \ {g} : preparing'[f].phase = "open" => a \notin preparing'[f].fresh
      BY DEF PreparingOK
    <2>1. CASE g = h
      <3>1. NoPreparation.capability = NoCapability
        BY DEF NoPreparation
      <3> QED BY <1>9, <2>1, <3>1, NoPreparationIs
    <2>2. CASE g # h
      <3>1. preparing'[g] = preparing[g] /\ preparing[g].actions \subseteq Pairs
            /\ preparing[g].fresh \subseteq Pairs
        BY <1>1, <1>9, <2>2 DEF Typed, PreparingType
      <3>2. \A a \in preparing[g].actions : a \in preparing[g].fresh \/ action'[a] # "absent"
        BY <1>8, <3>1 DEF PreparingOK
      <3>3. ASSUME preparing[g].phase = "open", NEW a \in preparing[g].fresh
            PROVE  /\ action'[a] = "absent"
                   /\ \A f \in Preparers \ {g} : preparing'[f].phase = "open" => a \notin preparing'[f].fresh
        <4>1. action[a] = "absent" /\ a \notin p.fresh
          BY <1>4, <2>2, <3>3 DEF PreparingOK
        <4>2. action'[a] = "absent"
          BY <1>2, <3>1, <4>1
        <4>3. \A f \in Preparers \ {g} : preparing'[f].phase = "open" => a \notin preparing'[f].fresh
          BY <1>9, <3>3, NoPreparationIs DEF PreparingOK
        <4> QED BY <4>2, <4>3
      <3> QED BY <3>1, <3>2, <3>3 DEF PreparingOK
    <2> QED BY <2>1, <2>2
  <1>15. OpeningOK'
    <2> SUFFICES ASSUME NEW g \in Preparers, preparing'[g].phase = "open"
                 PROVE  /\ preparing'[g].basis <= Len(scopes')
                        /\ \A m \in 1 .. preparing'[g].basis :
                             \/ m \in preparing'[g].open \/ scopes'[m].state # "current"
                             \/ /\ preparing'[g].capability # NoCapability
                                /\ scopes'[m].capability # preparing'[g].capability
      BY DEF OpeningOK
    <2>1. preparing'[g] = preparing[g] /\ preparing[g].basis \in Nat
      BY <1>1, <1>9, NoPreparationIs DEF Typed, PreparingType
    <2>2. /\ preparing[g].basis <= Len(scopes)
          /\ \A m \in 1 .. preparing[g].basis :
               \/ m \in preparing[g].open \/ scopes[m].state # "current"
               \/ /\ preparing[g].capability # NoCapability
                  /\ scopes[m].capability # preparing[g].capability
      BY <2>1 DEF OpeningOK
    <2>3. \A m \in 1 .. preparing[g].basis : m \in DOMAIN scopes
      BY <1>5, <2>1, <2>2
    <2>4. \A m \in 1 .. preparing[g].basis :
            scopes'[m].capability = scopes[m].capability /\ (scopes'[m].state = "current" => scopes[m].state = "current")
      BY <1>7, <2>3
    <2> QED BY <1>2, <1>5, <2>1, <2>2, <2>4
  <1>16. ScopeRowsOK'
    <2> SUFFICES ASSUME NEW n \in DOMAIN scopes'
                 PROVE  /\ scopes'[n].basis < n
                        /\ \A a \in scopes'[n].actions :
                             /\ action'[a] # "absent"
                             /\ scopes'[n].capability # NoCapability => CapabilityOf[a[1]] = scopes'[n].capability
      BY DEF ScopeRowsOK
    <2>1. CASE n \in DOMAIN scopes
      BY <1>7, <1>8, <2>1 DEF ScopeRowsOK
    <2>2. CASE n = k0
      <3>1. p.basis < k0
        BY <1>4, <1>5 DEF k0, PreparingType
      <3> QED BY <1>2, <1>3, <1>4, <1>8, <2>2, <3>1
    <2> QED BY <1>2, <2>1, <2>2
  <1>17. DatesOK'
    <2>1. ASSUME NEW n \in DOMAIN scopes PROVE DatedAfter(scopes[n])'
      <3>1. /\ scopes'[n].actions = scopes[n].actions /\ scopes'[n].read = scopes[n].read
            /\ scopes'[n].crossed = scopes[n].crossed /\ scopes'[n].created = scopes[n].created
        BY <1>7
      <3>2. DatedAfter(scopes[n])
        BY DEF DatesOK
      <3> QED BY <1>1, <3>1, <3>2 DEF DatedAfter
    <2>2. ASSUME NEW n, n = k0 PROVE DatedAfter(scopes[n])'
      <3>1. /\ scopes'[n].actions = p.actions /\ scopes'[n].read = p.read
            /\ scopes'[n].crossed = p.crossed /\ scopes'[n].created = p.created
        BY <1>2, <1>3, <2>2
      <3>2. /\ p.created <= opened
            /\ \A a \in p.actions :
                 \/ a[1] \in p.crossed
                 \/ /\ item[a[1]].decision = p.read[a[1]] \/ item[a[1]].dated >= p.created
                    /\ \A g \in Deciders : a[1] \in deciding[g].on => deciding[g].since >= p.created
        BY <1>6 DEF DatedAfter
      <3> QED BY <1>1, <3>1, <3>2 DEF DatedAfter
    <2>3. ASSUME NEW g \in Preparers, preparing'[g].phase = "open" PROVE DatedAfter(preparing[g])'
      <3>1. preparing'[g] = preparing[g]
        BY <1>9, <2>3, NoPreparationIs
      <3>2. DatedAfter(preparing[g])
        BY <2>3, <3>1 DEF DatesOK
      <3> QED BY <1>1, <3>1, <3>2 DEF DatedAfter
    <2> QED BY <1>2, <2>1, <2>2, <2>3 DEF DatesOK
  <1>18. ExecutingOK'
    <2>1. \A i \in Items : \A n \in executing.todo[i] :
            /\ n \in DOMAIN recorded[i] /\ n \in DOMAIN recorded'[i]
            /\ recorded'[i][n] = recorded[i][n]
      BY NewRowOK DEF ExecutingOK
    <2>2. \A a \in Pairs : executing.rows[a] # "none" => action'[a] # "absent"
      BY <1>8 DEF ExecutingOK
    <2>3. ASSUME executing.scope # 0
          PROVE  /\ executing.open /\ executing.scope \in DOMAIN scopes'
                 /\ \A i \in Items : \A n \in executing.todo[i] :
                      <<i, recorded'[i][n]>> \in scopes'[executing.scope].actions
                 /\ \A a \in scopes'[executing.scope].actions :
                      \/ \E n \in executing.todo[a[1]] : recorded'[a[1]][n] = a[2]
                      \/ executing.rows[a] # "none" \/ action'[a] = "completed"
      <3>1. executing.open /\ executing.scope \in DOMAIN scopes
        BY <2>3 DEF ExecutingOK
      <3>2. executing.scope \in DOMAIN scopes' /\ scopes'[executing.scope].actions = scopes[executing.scope].actions
        BY <1>2, <1>7, <3>1
      <3>3. \A i \in Items : \A n \in executing.todo[i] :
              <<i, recorded'[i][n]>> \in scopes'[executing.scope].actions
        BY <2>1, <2>3, <3>2 DEF ExecutingOK
      <3>4. ASSUME NEW a \in scopes[executing.scope].actions
            PROVE  \/ \E n \in executing.todo[a[1]] : recorded'[a[1]][n] = a[2]
                   \/ executing.rows[a] # "none" \/ action'[a] = "completed"
        <4>1. a \in Pairs /\ a[1] \in Items
          BY <1>1, <3>1, ScopeTyped DEF Pairs
        <4>2. \/ \E n \in executing.todo[a[1]] : recorded[a[1]][n] = a[2]
              \/ executing.rows[a] # "none" \/ action[a] = "completed"
          BY <2>3 DEF ExecutingOK
        <4> QED BY <1>8, <2>1, <4>1, <4>2
      <3> QED BY <3>1, <3>2, <3>3, <3>4
    <2> QED BY <1>1, <2>1, <2>2, <2>3 DEF ExecutingOK
  <1>19. BeganStands'
    <2> SUFFICES ASSUME executing.scope # 0, NEW i \in Covered(executing.scope)'
                 PROVE  /\ \/ executing.began[i] = scopes'[executing.scope].read[i]
                           \/ i \in scopes'[executing.scope].crossed
                        /\ item[i].decision >= executing.began[i]
                        /\ item[i].state \in Withdrawn => item[i].decision # executing.began[i]
      BY <1>1 DEF BeganStands
    <2>1. executing.scope \in DOMAIN scopes
      BY DEF ExecutingOK
    <2>2. i \in Covered(executing.scope)
      BY <1>1, <1>7, <2>1 DEF Covered
    <2> QED BY <1>7, <2>1, <2>2 DEF BeganStands
  <1>20. CurrentScopesDisjoint'
    <2> SUFFICES ASSUME NEW m \in DOMAIN scopes', NEW n \in DOMAIN scopes', m <= scopes'[n].basis,
                        scopes'[m].state = "current", scopes'[n].state = "current",
                        Covered(m)' \cap Covered(n)' # {}
                 PROVE  scopes'[m].capability = NoCapability /\ scopes'[n].capability # NoCapability
      BY DEF CurrentScopesDisjoint
    <2>1. CASE n \in DOMAIN scopes
      <3>1. m <= scopes[n].basis /\ scopes[n].basis \in Nat /\ scopes[n].basis < n
        BY <1>1, <1>7, <2>1, ScopeTyped DEF ScopeType, ScopeRowsOK
      <3>2. m \in DOMAIN scopes
        BY <1>2, <1>5, <2>1, <3>1 DEF k0
      <3>3. Covered(m)' = Covered(m) /\ Covered(n)' = Covered(n)
        BY <1>7, <2>1, <3>2 DEF Covered
      <3> QED BY <1>7, <2>1, <3>1, <3>2, <3>3 DEF ScopesStand, CurrentScopesDisjoint
    <2>2. CASE n = k0
      <3>1. scopes'[n] = row /\ m <= p.basis /\ p.basis \in Nat
        BY <1>2, <1>3, <1>4, <2>2 DEF PreparingType
      <3>2. m \in DOMAIN scopes /\ m \in 1 .. p.basis
        BY <1>2, <1>5, <3>1 DEF k0
      <3>3. scopes[m].state = "current" /\ m \notin p.open /\ scopes'[m].capability = scopes[m].capability
        BY <1>7, <3>2
      <3>4. p.capability # NoCapability /\ scopes[m].capability # p.capability
        BY <1>5, <3>2, <3>3
      <3>5. Covered(m)' = Covered(m)
        BY <1>7, <3>2 DEF Covered
      <3>6. PICK i : i \in Covered(m) /\ i \in Covered(n)'
        BY <3>5
      <3>7. PICK a \in scopes[m].actions : i = a[1]
        BY <3>6 DEF Covered
      <3>8. PICK b \in p.actions : i = b[1]
        BY <1>3, <3>1, <3>6 DEF Covered
      <3>9. CapabilityOf[i] = p.capability
        BY <1>4, <3>4, <3>8
      <3>10. scopes[m].capability # NoCapability => CapabilityOf[i] = scopes[m].capability
        BY <3>2, <3>7 DEF ScopeRowsOK
      <3> QED BY <1>3, <3>1, <3>3, <3>4, <3>9, <3>10
    <2> QED BY <1>2, <2>1, <2>2
  <1>21. ExecutedScopeSettled'
    <2> SUFFICES ASSUME NEW n \in DOMAIN scopes', scopes'[n].state = "executed", NEW a \in scopes'[n].actions
                 PROVE  action'[a] \in {"completed", "failed"}
      BY DEF ExecutedScopeSettled
    <2>1. n \in DOMAIN scopes
      BY <1>2, <1>3
    <2>2. scopes[n].state = "executed" /\ a \in scopes[n].actions /\ a \in Pairs
      BY <1>7, <2>1
    <2>3. action[a] \in {"completed", "failed"}
      BY <2>1, <2>2 DEF ScopesStand, ExecutedScopeSettled
    <2> QED BY <1>8, <2>2, <2>3
  <1>22. AbandonDisarms' /\ DisarmingOK'
    <2>1. \A n \in DOMAIN scopes : scopes'[n].state = "current" => scopes[n].state = "current"
      BY <1>7
    <2> QED BY <1>1, <1>2, <1>3, <1>7, <2>1 DEF AbandonDisarms, DisarmingOK
  <1> QED BY <1>10, <1>11, <1>12, <1>13, <1>14, <1>15, <1>16, <1>17, <1>18, <1>19, <1>20, <1>21,
             <1>22 DEF TypeOK, ScopesStand

-----------------------------------------------------------------------------
(* Executing                                                                  *)

\* What stays as it was when only the execution, the mailbox and the items change.
LEMMA RowsKept ==
  ASSUME IInv, UNCHANGED <<action, recorded, scopes, opened, deciding, preparing, setting,
                           abandoned, approvals>>
  PROVE  /\ RecordedOnce' /\ RecordedIsThere' /\ DecidingOK' /\ PreparingOK' /\ OpeningOK'
         /\ ScopeRowsOK' /\ DisarmingOK' /\ ScopesStand' /\ AbandonDisarms'
  <1> USE DEF IInv
  <1>1. RecordedOnce' /\ RecordedIsThere'
    BY DEF TypeOK, RecordedOnce, There, RecordedIsThere
  <1>2. DecidingOK' /\ PreparingOK' /\ OpeningOK' /\ ScopeRowsOK'
    BY DEF DecidingOK, PreparingOK, OpeningOK, ScopeRowsOK
  <1>3. DisarmingOK' /\ AbandonDisarms'
    BY DEF DisarmingOK, AbandonDisarms
  <1>4. ScopesStand'
    BY DEF ScopesStand, CurrentScopesDisjoint, ExecutedScopeSettled, Covered
  <1> QED BY <1>1, <1>2, <1>3, <1>4

\* The dates stand when no decision commits or begins.
LEMMA DatesStand ==
  ASSUME IInv, UNCHANGED <<opened, deciding, preparing>>, DOMAIN scopes' = DOMAIN scopes,
         \A n \in DOMAIN scopes :
           /\ scopes'[n].actions = scopes[n].actions /\ scopes'[n].read = scopes[n].read
           /\ scopes'[n].crossed = scopes[n].crossed /\ scopes'[n].created = scopes[n].created,
         \A i \in Items : item'[i].decision = item[i].decision /\ item'[i].dated = item[i].dated
  PROVE  DatesOK'
  <1>1. Typed /\ DatesOK
    BY DEF IInv, TypeOK
  <1> QED BY <1>1, DatesKept

\* What Start leaves an execution with.
LEMMA StartIs ==
  ASSUME Typed, NEW n \in Nat, NEW acts \in SUBSET Pairs, Start(n, acts)
  PROVE  /\ executing' \in ExecutingType
         /\ executing'.open = TRUE /\ executing'.scope = n
         /\ \A i \in Items : executing'.todo[i] =
              {m \in DOMAIN recorded[i] : <<i, recorded[i][m]>> \in acts}
         /\ \A a \in Pairs : executing'.rows[a] = "none"
         /\ executing'.began = DecisionsOf({a[1] : a \in acts})
  <1> DEFINE t == [i \in Items |-> {m \in DOMAIN recorded[i] : <<i, recorded[i][m]>> \in acts}]
             b == DecisionsOf({a[1] : a \in acts})
  <1> DEFINE l == [i \in Items |-> IF \E a \in acts : a[1] = i THEN item[i].state ELSE "pending"]
  <1>1. executing' = [NoExecution EXCEPT !.open = TRUE, !.scope = n, !.todo = t, !.loaded = l, !.began = b]
    BY DEF Start
  <1>2. t \in [Items -> SUBSET Nat]
    <2>1. \A i \in Items : DOMAIN recorded[i] \subseteq Nat
      BY DEF Typed
    <2> QED BY <2>1
  <1>3. b \in [Items -> Nat] /\ l \in [Items -> ItemStates]
    BY DecisionsOfType DEF Typed, ItemStates
  <1> HIDE DEF t, b, l
  <1>4. executing' = [open |-> TRUE, scope |-> n, todo |-> t,
                      rows |-> [a \in Pairs |-> "none"], loaded |-> l,
                      states |-> [i \in Items |-> "none"], began |-> b]
    BY <1>1 DEF NoExecution
  <1>5. executing' \in ExecutingType
    BY <1>2, <1>3, <1>4 DEF ExecutingType
  <1>6. executing'.todo = t /\ executing'.began = b
    BY <1>4
  <1> QED BY <1>4, <1>5, <1>6 DEF t, b

LEMMA ExecuteScopeOK ==
  ASSUME IInv, NEW n \in DOMAIN scopes, NEW restated \in SUBSET Items, ExecuteScope(n, restated)
  PROVE  IInv'
  <1> USE DEF IInv
  <1>1. /\ Typed /\ DecisionsStand(n) /\ Start(n, scopes[n].actions)
        /\ UNCHANGED <<item, action, recorded, scopes, opened, deciding, preparing, setting,
                       abandoned, labels, approvals>>
    BY DEF TypeOK, ExecuteScope
  <1>2. scopes[n].actions \subseteq Pairs /\ n \in Nat /\ n # 0
    <2>1. DOMAIN scopes = 1 .. Len(scopes) /\ Len(scopes) \in Nat
      BY <1>1 DEF Typed
    <2> QED BY <1>1, <2>1, ScopeTyped
  <1>3. /\ executing'.open = TRUE /\ executing'.scope = n
        /\ \A i \in Items : executing'.todo[i] =
             {m \in DOMAIN recorded[i] : <<i, recorded[i][m]>> \in scopes[n].actions}
        /\ \A a \in Pairs : executing'.rows[a] = "none"
        /\ executing'.began = DecisionsOf(Covered(n))
        /\ Typed'
    <2>1. Covered(n) = {a[1] : a \in scopes[n].actions}
      BY DEF Covered
    <2>2. executing' \in ExecutingType
      BY <1>1, <1>2, StartIs
    <2>3. Typed'
      BY <1>1, <2>2 DEF Typed
    <2>4. /\ executing'.open = TRUE /\ executing'.scope = n
          /\ \A i \in Items : executing'.todo[i] =
               {m \in DOMAIN recorded[i] : <<i, recorded[i][m]>> \in scopes[n].actions}
          /\ \A a \in Pairs : executing'.rows[a] = "none"
          /\ executing'.began = DecisionsOf({a[1] : a \in scopes[n].actions})
      <3> DEFINE acts == scopes[n].actions
      <3>1. acts \in SUBSET Pairs /\ Start(n, acts) /\ n \in Nat
        BY <1>1, <1>2
      <3> HIDE DEF acts
      <3>2. /\ executing'.open = TRUE /\ executing'.scope = n
            /\ \A i \in Items : executing'.todo[i] =
                 {m \in DOMAIN recorded[i] : <<i, recorded[i][m]>> \in acts}
            /\ \A a \in Pairs : executing'.rows[a] = "none"
            /\ executing'.began = DecisionsOf({a[1] : a \in acts})
        BY <1>1, <3>1, StartIs
      <3> QED BY <3>2 DEF acts
    <2> QED BY <2>1, <2>3, <2>4
  <1>4. /\ RecordedOnce' /\ RecordedIsThere' /\ DecidingOK' /\ PreparingOK' /\ OpeningOK'
        /\ ScopeRowsOK' /\ DisarmingOK' /\ ScopesStand' /\ AbandonDisarms' /\ DatesOK'
    BY <1>1, RowsKept, DatesStand
  <1>5. OnlyApproved' /\ NothingWithoutApproval'
    BY <1>1 DEF OnlyApproved, NothingWithoutApproval
  <1>6. ExecutingOK'
    <2>1. ASSUME NEW a \in scopes[n].actions
          PROVE  \E m \in executing'.todo[a[1]] : recorded[a[1]][m] = a[2]
      <3>1. a \in Pairs /\ action[a] # "absent"
        BY <1>2 DEF ScopeRowsOK
      <3>2. a[1] \in Items /\ a[2] \in Intents /\ a = <<a[1], a[2]>>
        BY <3>1 DEF Pairs
      <3>3. a[2] \in There(a[1])
        BY <3>1, <3>2 DEF There
      <3>4. PICK m \in DOMAIN recorded[a[1]] : recorded[a[1]][m] = a[2]
        BY <3>2, <3>3 DEF TypeOK, RecordedOnce
      <3> QED BY <1>3, <3>2, <3>4
    <2> QED BY <1>1, <1>2, <1>3, <2>1 DEF ExecutingOK
  <1>7. BeganStands'
    <2> SUFFICES ASSUME NEW i \in Covered(n)
                 PROVE  /\ executing'.began[i] = scopes[n].read[i] \/ i \in scopes[n].crossed
                        /\ item[i].decision >= executing'.began[i]
                        /\ item[i].state \notin Withdrawn
      BY <1>1, <1>3 DEF BeganStands, Covered
    <2>1. i \in Items
      BY <1>2 DEF Covered, Pairs
    <2>2. executing'.began[i] = item[i].decision /\ item[i].decision \in Nat
      BY <1>1, <1>3, <2>1 DEF DecisionsOf, Typed
    <2>3. PICK a \in scopes[n].actions : a[1] = i
      BY DEF Covered
    <2>4. i \in scopes[n].crossed \/ item[i].decision = scopes[n].read[i] \/ item[i].dated >= scopes[n].created
      BY <2>3 DEF DatesOK, DatedAfter
    <2>5. item[i].dated < scopes[n].created /\ item[i].dated \in Nat /\ scopes[n].created \in Nat
          /\ item[i].state \notin Withdrawn
      BY <1>1, <2>1, ScopeTyped DEF DecisionsStand, Typed, ScopeType
    <2> QED BY <2>2, <2>4, <2>5
  <1> QED BY <1>3, <1>4, <1>5, <1>6, <1>7 DEF TypeOK

LEMMA RetryOK ==
  ASSUME IInv, NEW a \in Pairs, Retry(a)
  PROVE  IInv'
  <1> USE DEF IInv
  <1>1. /\ Typed /\ Start(0, {a})
        /\ UNCHANGED <<item, action, recorded, scopes, opened, deciding, preparing, setting,
                       abandoned, labels, approvals>>
    BY DEF TypeOK, Retry
  <1>2. /\ executing'.open = TRUE /\ executing'.scope = 0
        /\ \A i \in Items : executing'.todo[i] \subseteq DOMAIN recorded[i]
        /\ \A b \in Pairs : executing'.rows[b] = "none"
        /\ Typed'
    <2>1. 0 \in Nat /\ {a} \in SUBSET Pairs
      OBVIOUS
    <2>2. executing' \in ExecutingType
      BY <1>1, <2>1, StartIs
    <2>3. Typed'
      BY <1>1, <2>2 DEF Typed
    <2>4. /\ executing'.open = TRUE /\ executing'.scope = 0
          /\ \A i \in Items : executing'.todo[i] =
               {m \in DOMAIN recorded[i] : <<i, recorded[i][m]>> \in {a}}
          /\ \A b \in Pairs : executing'.rows[b] = "none"
      BY <1>1, <2>1, StartIs
    <2> QED BY <2>3, <2>4
  <1>3. /\ RecordedOnce' /\ RecordedIsThere' /\ DecidingOK' /\ PreparingOK' /\ OpeningOK'
        /\ ScopeRowsOK' /\ DisarmingOK' /\ ScopesStand' /\ AbandonDisarms' /\ DatesOK'
    BY <1>1, RowsKept, DatesStand
  <1>4. OnlyApproved' /\ NothingWithoutApproval'
    BY <1>1 DEF OnlyApproved, NothingWithoutApproval
  <1>5. ExecutingOK' /\ BeganStands'
    BY <1>1, <1>2 DEF ExecutingOK, BeganStands
  <1> QED BY <1>2, <1>3, <1>4, <1>5 DEF TypeOK

LEMMA RunOneOK ==
  ASSUME IInv, NEW i \in Items, NEW outcome \in {"completed", "failed"}, NEW written \in BOOLEAN,
         RunOne(i, outcome, written)
  PROVE  IInv'
  <1> USE DEF IInv
  <1>1. /\ Typed /\ executing.open
        /\ UNCHANGED <<item, action, recorded, scopes, opened, deciding, preparing, setting,
                       abandoned, approvals>>
    BY DEF TypeOK, RunOne
  <1>2. PICK n \in executing.todo[i] :
          LET k == recorded[i][n] IN
            \/ /\ action[<<i, k>>] = "completed"
               /\ executing' = [executing EXCEPT !.todo[i] = @ \ {n}] /\ UNCHANGED labels
            \/ /\ executing' = [executing EXCEPT
                    !.todo[i] = @ \ {n}, !.rows[<<i, k>>] = outcome,
                    !.states[i] = ItemWritten(i, outcome)]
               /\ labels' = IF written THEN [labels EXCEPT ![i] = Modified(k, @)] ELSE labels
    BY DEF RunOne
  <1> DEFINE k == recorded[i][n]
  <1>3. n \in DOMAIN recorded[i] /\ k \in Intents /\ <<i, k>> \in Pairs /\ action[<<i, k>>] # "absent"
    <2>1. n \in DOMAIN recorded[i] /\ recorded[i] \in Seq(Intents)
      BY <1>1 DEF ExecutingOK, Typed
    <2>2. k \in Intents
      BY <2>1
    <2> QED BY <2>1, <2>2 DEF RecordedIsThere, Pairs
  <1>4. /\ executing'.open = executing.open /\ executing'.scope = executing.scope
        /\ executing'.began = executing.began
        /\ \A j \in Items : executing'.todo[j] = IF j = i THEN executing.todo[i] \ {n} ELSE executing.todo[j]
        /\ \A a \in Pairs : executing'.rows[a] = executing.rows[a]
                            \/ (a = <<i, k>> /\ executing'.rows[a] # "none")
        /\ executing'.rows[<<i, k>>] # "none" \/ action[<<i, k>>] = "completed"
        /\ Typed'
    <2> HIDE DEF k
    <2>1. CASE /\ action[<<i, k>>] = "completed"
               /\ executing' = [executing EXCEPT !.todo[i] = @ \ {n}] /\ UNCHANGED labels
      <3>1. executing' \in ExecutingType
        BY <1>1, <2>1 DEF Typed, ExecutingType
      <3>2. Typed'
        BY <1>1, <2>1, <3>1 DEF Typed, ExecutingType
      <3>3. executing \in ExecutingType
        BY <1>1 DEF Typed, ExecutingType
      <3> QED BY <2>1, <3>2, <3>3 DEF ExecutingType
    <2>2. CASE /\ executing' = [executing EXCEPT
                    !.todo[i] = @ \ {n}, !.rows[<<i, k>>] = outcome,
                    !.states[i] = ItemWritten(i, outcome)]
               /\ labels' = IF written THEN [labels EXCEPT ![i] = Modified(k, @)] ELSE labels
      <3>0. ItemWritten(i, outcome) \in {"none", "executed", "failed"}
        BY DEF ItemWritten
      <3>1. executing' \in ExecutingType
        BY <1>1, <1>3, <2>2, <3>0 DEF Typed, ExecutingType
      <3>2. labels' \in [Items -> SUBSET Labels]
        <4>1. Modified(k, labels[i]) \in SUBSET Labels /\ labels \in [Items -> SUBSET Labels]
          BY <1>1, <1>3, ModifiedLabels DEF Typed
        <4> QED BY <2>2, <4>1
      <3>3. Typed'
        BY <1>1, <3>1, <3>2 DEF Typed, ExecutingType
      <3>4. executing \in ExecutingType
        BY <1>1 DEF Typed, ExecutingType
      <3> QED BY <1>3, <2>2, <3>3, <3>4 DEF ExecutingType
    <2> QED BY <1>2, <2>1, <2>2 DEF k
  <1>5. /\ RecordedOnce' /\ RecordedIsThere' /\ DecidingOK' /\ PreparingOK' /\ OpeningOK'
        /\ ScopeRowsOK' /\ DisarmingOK' /\ ScopesStand' /\ AbandonDisarms' /\ DatesOK'
    BY <1>1, RowsKept, DatesStand
  <1>6. OnlyApproved'
    BY <1>1 DEF OnlyApproved
  <1>7. NothingWithoutApproval'
    <2>1. \A j \in Items : j # i => labels'[j] = labels[j]
      BY <1>1, <1>2 DEF Typed
    <2>2. <<i, k>> \in approvals /\ <<i, k>>[1] = i
      BY <1>3 DEF NothingWithoutApproval
    <2> HIDE DEF k
    <2> QED BY <1>1, <2>1, <2>2 DEF NothingWithoutApproval
  <1>8. ExecutingOK'
    <2> HIDE DEF k
    <2>1. \A j \in Items : executing'.todo[j] \subseteq executing.todo[j]
      BY <1>4
    <2>2. \A a \in Pairs : executing'.rows[a] # "none" => action[a] # "absent"
      BY <1>3, <1>4 DEF ExecutingOK
    <2>3. ASSUME executing.scope # 0, NEW a \in scopes[executing.scope].actions
          PROVE  \/ \E m \in executing'.todo[a[1]] : recorded[a[1]][m] = a[2]
                 \/ executing'.rows[a] # "none" \/ action[a] = "completed"
      <3>1. executing.scope \in DOMAIN scopes
        BY <2>3 DEF ExecutingOK
      <3>2. a \in Pairs /\ a[1] \in Items /\ a = <<a[1], a[2]>>
        BY <1>1, <3>1, ScopeTyped DEF Pairs
      <3>3. CASE \E m \in executing.todo[a[1]] : recorded[a[1]][m] = a[2]
        <4>1. PICK m \in executing.todo[a[1]] : recorded[a[1]][m] = a[2]
          BY <3>3
        <4>2. CASE a[1] = i /\ m = n
          <5>1. a = <<i, k>>
            BY <3>2, <4>1, <4>2 DEF k
          <5> QED BY <1>4, <5>1
        <4>3. CASE ~(a[1] = i /\ m = n)
          <5>1. m \in executing'.todo[a[1]]
            BY <1>4, <3>2, <4>1, <4>3
          <5> QED BY <4>1, <5>1
        <4> QED BY <4>2, <4>3
      <3>4. CASE executing.rows[a] # "none" \/ action[a] = "completed"
        BY <1>4, <3>2, <3>4
      <3> QED BY <2>3, <3>3, <3>4 DEF ExecutingOK
    <2> QED BY <1>1, <1>4, <2>1, <2>2, <2>3 DEF ExecutingOK
  <1>9. BeganStands'
    BY <1>1, <1>4 DEF BeganStands, Covered
  <1> QED BY <1>4, <1>5, <1>6, <1>7, <1>8, <1>9 DEF TypeOK

\* The outcomes of an execution are those of rows that are there.
LEMMA FinishedIs ==
  ASSUME IInv, ExecuteFinish
  PROVE  /\ Typed'
         /\ \A a \in Pairs : /\ action[a] = "absent" <=> action'[a] = "absent"
                             /\ action[a] \in {"completed", "failed"} => action'[a] \in {"completed", "failed"}
                             /\ executing.rows[a] # "none" => action'[a] \in {"completed", "failed"}
         /\ \A i \in Items : /\ item'[i].state \in {item[i].state, "executed", "failed"}
                             /\ item'[i].intent = item[i].intent
                             /\ item'[i].decision = item[i].decision /\ item'[i].dated = item[i].dated
         /\ Len(scopes') = Len(scopes) /\ DOMAIN scopes' = DOMAIN scopes
         /\ \A n \in DOMAIN scopes :
              /\ scopes'[n].actions = scopes[n].actions
              /\ scopes'[n].capability = scopes[n].capability
              /\ scopes'[n].read = scopes[n].read /\ scopes'[n].crossed = scopes[n].crossed
              /\ scopes'[n].created = scopes[n].created /\ scopes'[n].basis = scopes[n].basis
              /\ scopes'[n].late = scopes[n].late
              /\ scopes'[n].state = IF n = executing.scope THEN "executed" ELSE scopes[n].state
         /\ executing' = NoExecution
         /\ UNCHANGED <<recorded, opened, deciding, preparing, setting, abandoned, labels, approvals>>
  <1>1. /\ Typed /\ ExecutingOK
        /\ action' = [a \in Pairs |-> IF executing.rows[a] = "none" THEN action[a] ELSE executing.rows[a]]
        /\ item' = [i \in Items |-> IF executing.states[i] = "none" THEN item[i]
                                    ELSE [item[i] EXCEPT !.state = executing.states[i]]]
        /\ scopes' = IF executing.scope = 0 THEN scopes
                     ELSE [scopes EXCEPT ![executing.scope].state = "executed"]
        /\ executing' = NoExecution
        /\ UNCHANGED <<recorded, opened, deciding, preparing, setting, abandoned, labels, approvals>>
    BY DEF IInv, TypeOK, ExecuteFinish
  <1>2. \A a \in Pairs : /\ executing.rows[a] \in {"none", "completed", "failed"}
                         /\ action[a] \in ActionStates
                         /\ executing.rows[a] # "none" => action[a] # "absent"
    BY <1>1 DEF Typed, ExecutingType, ExecutingOK
  <1>3. /\ action' \in [Pairs -> ActionStates]
        /\ \A a \in Pairs : /\ action[a] = "absent" <=> action'[a] = "absent"
                            /\ action[a] \in {"completed", "failed"} => action'[a] \in {"completed", "failed"}
                            /\ executing.rows[a] # "none" => action'[a] \in {"completed", "failed"}
    BY <1>1, <1>2 DEF ActionStates
  <1>4. \A i \in Items : /\ executing.states[i] \in {"none", "executed", "failed"}
                         /\ item[i] \in [state: ItemStates, intent: Intents \cup {NoIntent}, decision: Nat, dated: Nat]
    BY <1>1 DEF Typed, ExecutingType
  <1>5. /\ item' \in [Items -> [state: ItemStates, intent: Intents \cup {NoIntent}, decision: Nat, dated: Nat]]
        /\ \A i \in Items : /\ item'[i].state \in {item[i].state, "executed", "failed"}
                            /\ item'[i].intent = item[i].intent
                            /\ item'[i].decision = item[i].decision /\ item'[i].dated = item[i].dated
    BY <1>1, <1>4 DEF ItemStates
  <1>6. scopes \in Seq(ScopeType) /\ (executing.scope # 0 => executing.scope \in DOMAIN scopes)
        /\ 0 \notin DOMAIN scopes
    BY <1>1 DEF ExecutingOK, Typed
  <1>7. \A n \in DOMAIN scopes : scopes[n] \in ScopeType
    BY <1>1, ScopeTyped
  <1>8. /\ DOMAIN scopes' = DOMAIN scopes
        /\ \A n \in DOMAIN scopes :
             scopes'[n] = IF n = executing.scope THEN [scopes[n] EXCEPT !.state = "executed"] ELSE scopes[n]
    BY <1>1, <1>6
  <1>9. /\ \A n \in DOMAIN scopes :
             /\ scopes'[n] \in ScopeType
             /\ scopes'[n].actions = scopes[n].actions
             /\ scopes'[n].capability = scopes[n].capability
             /\ scopes'[n].read = scopes[n].read /\ scopes'[n].crossed = scopes[n].crossed
             /\ scopes'[n].created = scopes[n].created /\ scopes'[n].basis = scopes[n].basis
             /\ scopes'[n].late = scopes[n].late
             /\ scopes'[n].state = IF n = executing.scope THEN "executed" ELSE scopes[n].state
    BY <1>7, <1>8 DEF ScopeType
  <1>10. scopes' \in Seq(ScopeType) /\ Len(scopes') = Len(scopes)
    <2>1. DOMAIN scopes = 1 .. Len(scopes) /\ Len(scopes) \in Nat
      BY <1>6
    <2>2. scopes' = [n \in DOMAIN scopes |-> scopes'[n]]
      <3>1. scopes = [n \in DOMAIN scopes |-> scopes[n]]
        BY <1>6
      <3>2. CASE executing.scope = 0
        BY <1>1, <3>1, <3>2
      <3>3. CASE executing.scope # 0
        <4>1. scopes' = [n \in DOMAIN scopes |-> IF n = executing.scope
                           THEN [scopes[n] EXCEPT !.state = "executed"] ELSE scopes[n]]
          BY <1>1, <1>6, <3>3
        <4> QED BY <1>8, <4>1
      <3> QED BY <3>2, <3>3
    <2>3. scopes' \in [1 .. Len(scopes) -> ScopeType]
      BY <1>9, <2>1, <2>2
    <2> QED BY <2>1, <2>3, SeqDef
  <1>11. NoExecution \in ExecutingType
    BY DEF NoExecution, ExecutingType, ItemStates
  <1>12. Typed'
    BY <1>1, <1>3, <1>5, <1>10, <1>11 DEF Typed
  <1> QED BY <1>1, <1>3, <1>5, <1>8, <1>9, <1>10, <1>12

\* Rows that are there before and after stay recorded as they were.
LEMMA RecordedKept ==
  ASSUME Typed, RecordedOnce, RecordedIsThere, UNCHANGED recorded,
         \A a \in Pairs : action[a] = "absent" <=> action'[a] = "absent"
  PROVE  RecordedOnce' /\ RecordedIsThere'
  <1>1. \A i \in Items : There(i)' = There(i)
    BY DEF There, Pairs
  <1>2. \A i \in Items : \A n \in DOMAIN recorded[i] : <<i, recorded[i][n]>> \in Pairs
    <2>1. \A i \in Items : recorded[i] \in Seq(Intents)
      BY DEF Typed
    <2>2. \A i \in Items : \A n \in DOMAIN recorded[i] : recorded[i][n] \in Intents
      BY <2>1
    <2> QED BY <2>2 DEF Pairs
  <1> QED BY <1>1, <1>2 DEF RecordedOnce, RecordedIsThere

\* So do what preparations in flight know of them.
LEMMA PreparingKept ==
  ASSUME Typed, PreparingOK, UNCHANGED preparing,
         \A a \in Pairs : action[a] = "absent" <=> action'[a] = "absent"
  PROVE  PreparingOK'
  <1>1. \A h \in Preparers : preparing[h].actions \subseteq Pairs /\ preparing[h].fresh \subseteq Pairs
    BY DEF Typed, PreparingType
  <1>2. \A h \in Preparers : \A a \in preparing[h].actions \cup preparing[h].fresh :
          action[a] = "absent" <=> action'[a] = "absent"
    BY <1>1
  <1> QED BY <1>2 DEF PreparingOK

LEMMA ExecuteFinishOK ==
  ASSUME IInv, ExecuteFinish
  PROVE  IInv'
  <1> USE DEF IInv
  <1>1. /\ Typed /\ RecordedOnce
        /\ \A a \in Pairs : /\ action[a] = "absent" <=> action'[a] = "absent"
                            /\ action[a] \in {"completed", "failed"} => action'[a] \in {"completed", "failed"}
                            /\ executing.rows[a] # "none" => action'[a] \in {"completed", "failed"}
        /\ \A i \in Items : /\ item'[i].state \in {item[i].state, "executed", "failed"}
                            /\ item'[i].intent = item[i].intent
                            /\ item'[i].decision = item[i].decision /\ item'[i].dated = item[i].dated
        /\ Len(scopes') = Len(scopes) /\ DOMAIN scopes' = DOMAIN scopes
        /\ UNCHANGED <<recorded, opened, deciding, preparing, setting, abandoned, labels, approvals>>
    BY FinishedIs DEF TypeOK
  <1>2. Typed' /\ executing' = NoExecution
    BY FinishedIs
  <1>3. \A n \in DOMAIN scopes :
          /\ scopes'[n].actions = scopes[n].actions
          /\ scopes'[n].capability = scopes[n].capability
          /\ scopes'[n].read = scopes[n].read /\ scopes'[n].crossed = scopes[n].crossed
          /\ scopes'[n].created = scopes[n].created /\ scopes'[n].basis = scopes[n].basis
          /\ scopes'[n].late = scopes[n].late
          /\ scopes'[n].state = IF n = executing.scope THEN "executed" ELSE scopes[n].state
          /\ scopes[n].actions \subseteq Pairs
    BY <1>1, FinishedIs, ScopeTyped
  <1>4. RecordedOnce' /\ RecordedIsThere'
    BY <1>1, RecordedKept
  <1>5. OnlyApproved' /\ NothingWithoutApproval'
    BY <1>1 DEF OnlyApproved, NothingWithoutApproval
  <1>6. PreparingOK' /\ DecidingOK'
    BY <1>1, PreparingKept DEF DecidingOK
  <1>7. ScopeRowsOK'
    BY <1>1, <1>3 DEF ScopeRowsOK
  <1>8. ExecutingOK' /\ BeganStands'
    BY <1>2 DEF ExecutingOK, BeganStands, NoExecution
  <1>9. CurrentScopesDisjoint'
    <2>1. \A n \in DOMAIN scopes : Covered(n)' = Covered(n)
      BY <1>3 DEF Covered
    <2>2. \A n \in DOMAIN scopes : scopes'[n].state = "current" => scopes[n].state = "current"
      BY <1>3
    <2>3. CurrentScopesDisjoint
      BY DEF ScopesStand
    <2> QED BY <1>1, <1>3, <2>1, <2>2, <2>3 DEF CurrentScopesDisjoint
  <1>10. ExecutedScopeSettled'
    <2> SUFFICES ASSUME NEW n \in DOMAIN scopes, scopes'[n].state = "executed", NEW a \in scopes[n].actions
                 PROVE  action'[a] \in {"completed", "failed"}
      BY <1>1, <1>3 DEF ExecutedScopeSettled
    <2>1. a \in Pairs /\ a[1] \in Items
      BY <1>3 DEF Pairs
    <2>2. CASE n = executing.scope
      <3>1. n # 0
        BY <1>1 DEF Typed
      <3>2. executing.todo[a[1]] = {}
        BY <2>1 DEF ExecuteFinish
      <3>3. executing.rows[a] # "none" \/ action[a] = "completed"
        BY <2>2, <3>1, <3>2 DEF ExecutingOK
      <3> QED BY <1>1, <2>1, <3>3
    <2>3. CASE n # executing.scope
      BY <1>1, <1>3, <2>1, <2>3 DEF ScopesStand, ExecutedScopeSettled
    <2> QED BY <2>2, <2>3
  <1>11. AbandonDisarms' /\ DisarmingOK'
    BY <1>1, <1>3 DEF AbandonDisarms, DisarmingOK
  <1>12. DatesOK'
    BY <1>1, <1>3, DatesStand
  <1>13. OpeningOK'
    <2>1. \A h \in Preparers : preparing[h].basis \in Nat
      BY <1>1 DEF Typed, PreparingType
    <2>2. DOMAIN scopes = 1 .. Len(scopes) /\ Len(scopes) \in Nat
      BY <1>1 DEF Typed
    <2>3. \A n \in DOMAIN scopes : scopes'[n].state = "current" => scopes[n].state = "current"
      BY <1>3
    <2>4. \A h \in Preparers : preparing[h].phase = "open" =>
            \A m \in 1 .. preparing[h].basis : m \in DOMAIN scopes
      BY <2>1, <2>2 DEF OpeningOK
    <2> QED BY <1>1, <1>3, <2>3, <2>4 DEF OpeningOK
  <1> QED BY <1>2, <1>4, <1>5, <1>6, <1>7, <1>8, <1>9, <1>10, <1>11, <1>12, <1>13
          DEF TypeOK, ScopesStand

LEMMA ExecuteLostOK ==
  ASSUME IInv, ExecuteLost
  PROVE  IInv'
  <1> USE DEF IInv
  <1>1. /\ Typed /\ executing' = NoExecution
        /\ UNCHANGED <<item, action, recorded, scopes, opened, deciding, preparing, setting,
                       abandoned, labels, approvals>>
    BY DEF TypeOK, ExecuteLost
  <1>2. NoExecution \in ExecutingType
    BY DEF NoExecution, ExecutingType, ItemStates
  <1>3. Typed'
    BY <1>1, <1>2 DEF Typed
  <1>4. /\ RecordedOnce' /\ RecordedIsThere' /\ DecidingOK' /\ PreparingOK' /\ OpeningOK'
        /\ ScopeRowsOK' /\ DisarmingOK' /\ ScopesStand' /\ AbandonDisarms' /\ DatesOK'
    BY <1>1, RowsKept, DatesStand
  <1>5. OnlyApproved' /\ NothingWithoutApproval'
    BY <1>1 DEF OnlyApproved, NothingWithoutApproval
  <1>6. ExecutingOK' /\ BeganStands'
    BY <1>1 DEF ExecutingOK, BeganStands, NoExecution
  <1> QED BY <1>3, <1>4, <1>5, <1>6 DEF TypeOK

LEMMA VerifyOK ==
  ASSUME IInv, NEW a \in Pairs, NEW answered \in BOOLEAN, Verify(a, answered)
  PROVE  IInv'
  <1> USE DEF IInv
  <1> DEFINE shown == answered /\ Shown(a[2], labels[a[1]])
  <1>1. /\ Typed /\ RecordedOnce /\ ~executing.open
        /\ action[a] \in {"completed", "failed"}
        /\ action' = [action EXCEPT ![a] = IF shown THEN "completed" ELSE "failed"]
        /\ item' = [item EXCEPT ![a[1]].state = IF shown THEN "executed" ELSE "failed"]
        /\ UNCHANGED <<recorded, scopes, opened, deciding, preparing, executing, setting,
                       abandoned, labels, approvals>>
    BY DEF TypeOK, Verify, requests
  <1> HIDE DEF shown
  <1>2. /\ action' \in [Pairs -> ActionStates]
        /\ \A b \in Pairs : /\ action[b] = "absent" <=> action'[b] = "absent"
                            /\ action[b] \in {"completed", "failed"} => action'[b] \in {"completed", "failed"}
    BY <1>1 DEF Typed, ActionStates
  <1>3. a[1] \in Items
    BY DEF Pairs
  <1>4. /\ item' \in [Items -> [state: ItemStates, intent: Intents \cup {NoIntent}, decision: Nat, dated: Nat]]
        /\ \A i \in Items : /\ item'[i].state \in {item[i].state, "executed", "failed"}
                            /\ item'[i].intent = item[i].intent
                            /\ item'[i].decision = item[i].decision /\ item'[i].dated = item[i].dated
    <2> DEFINE state == IF shown THEN "executed" ELSE "failed"
    <2>1. state \in {"executed", "failed"} /\ item' = [item EXCEPT ![a[1]].state = state]
      BY <1>1
    <2> HIDE DEF state
    <2>2. item \in [Items -> [state: ItemStates, intent: Intents \cup {NoIntent}, decision: Nat, dated: Nat]]
      BY <1>1 DEF Typed
    <2>3. item' = [j \in Items |-> IF j = a[1] THEN [item[j] EXCEPT !.state = state] ELSE item[j]]
      BY <1>3, <2>1, <2>2
    <2> HIDE DEF shown
    <2>4. ASSUME NEW j \in Items
          PROVE  /\ item'[j] \in [state: ItemStates, intent: Intents \cup {NoIntent}, decision: Nat, dated: Nat]
                 /\ item'[j].state \in {item[j].state, "executed", "failed"}
                 /\ item'[j].intent = item[j].intent
                 /\ item'[j].decision = item[j].decision /\ item'[j].dated = item[j].dated
      <3>1. item[j] \in [state: ItemStates, intent: Intents \cup {NoIntent}, decision: Nat, dated: Nat]
        BY <2>2
      <3>2. item'[j] = [item[j] EXCEPT !.state = state] \/ item'[j] = item[j]
        BY <2>3
      <3>3. state \in ItemStates
        BY <2>1 DEF ItemStates
      <3> QED BY <2>1, <3>1, <3>2, <3>3
    <2> QED BY <2>3, <2>4
  <1>5. Typed'
    BY <1>1, <1>2, <1>4 DEF Typed
  <1>6. RecordedOnce' /\ RecordedIsThere'
    BY <1>1, <1>2, RecordedKept
  <1>7. OnlyApproved' /\ NothingWithoutApproval'
    BY <1>1, <1>2, <1>4 DEF OnlyApproved, NothingWithoutApproval
  <1>8. PreparingOK' /\ DecidingOK' /\ OpeningOK'
    BY <1>1, <1>2, PreparingKept DEF DecidingOK, OpeningOK
  <1>9. \A n \in DOMAIN scopes : scopes[n].actions \subseteq Pairs
    BY <1>1, ScopeTyped
  <1>10. ScopeRowsOK'
    BY <1>1, <1>2, <1>9 DEF ScopeRowsOK
  <1>11. ExecutingOK' /\ BeganStands' /\ DatesOK'
    BY <1>1, <1>2, <1>4, DatesStand DEF ExecutingOK, BeganStands
  <1>12. ScopesStand'
    <2>1. CurrentScopesDisjoint'
      BY <1>1 DEF ScopesStand, CurrentScopesDisjoint, Covered
    <2>2. ExecutedScopeSettled'
      BY <1>1, <1>2, <1>9 DEF ScopesStand, ExecutedScopeSettled
    <2> QED BY <2>1, <2>2 DEF ScopesStand
  <1>13. AbandonDisarms' /\ DisarmingOK'
    BY <1>1 DEF AbandonDisarms, DisarmingOK
  <1> QED BY <1>5, <1>6, <1>7, <1>8, <1>10, <1>11, <1>12, <1>13 DEF TypeOK

-----------------------------------------------------------------------------
(* Setting the review aside                                                   *)

LEMMA AbandonOK ==
  ASSUME IInv, Abandon
  PROVE  IInv'
  <1> USE DEF IInv
  <1>1. /\ Typed /\ setting' = [on |-> TRUE, open |-> OpenScopes(NoCapability)]
        /\ UNCHANGED <<item, action, recorded, scopes, opened, deciding, preparing, executing,
                       abandoned, labels, approvals>>
    BY DEF TypeOK, Abandon
  <1>2. OpenScopes(NoCapability) \subseteq Nat
        /\ \A n \in DOMAIN scopes : scopes[n].state = "current" => n \in OpenScopes(NoCapability)
    BY <1>1 DEF OpenScopes, Typed
  <1>3. Typed'
    BY <1>1, <1>2 DEF Typed
  <1>4. RecordedOnce' /\ RecordedIsThere' /\ OnlyApproved' /\ NothingWithoutApproval'
    BY <1>1 DEF TypeOK, RecordedOnce, There, RecordedIsThere, OnlyApproved, NothingWithoutApproval
  <1>5. DecidingOK' /\ PreparingOK' /\ OpeningOK' /\ ScopeRowsOK' /\ ExecutingOK'
    BY <1>1 DEF DecidingOK, PreparingOK, OpeningOK, ScopeRowsOK, ExecutingOK
  <1>6. BeganStands' /\ ScopesStand'
    BY <1>1 DEF BeganStands, ScopesStand, CurrentScopesDisjoint, ExecutedScopeSettled, Covered
  <1>7. DisarmingOK' /\ AbandonDisarms'
    BY <1>1, <1>2 DEF DisarmingOK, AbandonDisarms
  <1>8. DatesOK'
    BY <1>1, DatesStand
  <1> QED BY <1>3, <1>4, <1>5, <1>6, <1>7, <1>8 DEF TypeOK

LEMMA AbandonFinishOK ==
  ASSUME IInv, AbandonFinish
  PROVE  IInv'
  <1> USE DEF IInv
  <1>1. /\ Typed /\ setting.on /\ setting' = [on |-> FALSE, open |-> {}] /\ abandoned' = TRUE
        /\ scopes' = Superseded(setting.open)
        /\ UNCHANGED <<item, action, recorded, opened, deciding, preparing, executing, labels, approvals>>
    BY DEF TypeOK, AbandonFinish
  <1>2. /\ scopes' \in Seq(ScopeType) /\ Len(scopes') = Len(scopes) /\ DOMAIN scopes' = DOMAIN scopes
        /\ \A n \in DOMAIN scopes :
             /\ scopes'[n].actions = scopes[n].actions
             /\ scopes'[n].capability = scopes[n].capability
             /\ scopes'[n].read = scopes[n].read
             /\ scopes'[n].crossed = scopes[n].crossed
             /\ scopes'[n].created = scopes[n].created
             /\ scopes'[n].basis = scopes[n].basis
             /\ scopes'[n].late = scopes[n].late
             /\ scopes'[n].state = IF n \in setting.open THEN "superseded" ELSE scopes[n].state
    BY <1>1, SupersededIs
  <1>3. Typed'
    BY <1>1, <1>2 DEF Typed
  <1>4. RecordedOnce' /\ RecordedIsThere' /\ OnlyApproved' /\ NothingWithoutApproval'
    BY <1>1 DEF TypeOK, RecordedOnce, There, RecordedIsThere, OnlyApproved, NothingWithoutApproval
  <1>5. DecidingOK' /\ PreparingOK' /\ ScopeRowsOK' /\ ExecutingOK'
    BY <1>1, <1>2 DEF DecidingOK, PreparingOK, ScopeRowsOK, ExecutingOK
  <1>6. OpeningOK'
    <2>1. \A h \in Preparers : preparing[h].basis \in Nat
      BY <1>1 DEF Typed, PreparingType
    <2>2. DOMAIN scopes = 1 .. Len(scopes) /\ Len(scopes) \in Nat
      BY <1>1 DEF Typed
    <2>3. \A h \in Preparers : preparing[h].phase = "open" =>
            \A m \in 1 .. preparing[h].basis : m \in DOMAIN scopes
      BY <2>1, <2>2 DEF OpeningOK
    <2> QED BY <1>1, <1>2, <2>3 DEF OpeningOK
  <1>7. BeganStands'
    <2> SUFFICES ASSUME executing.scope # 0, NEW i \in Covered(executing.scope)'
                 PROVE  /\ \/ executing.began[i] = scopes'[executing.scope].read[i]
                           \/ i \in scopes'[executing.scope].crossed
                        /\ item[i].decision >= executing.began[i]
                        /\ item[i].state \in Withdrawn => item[i].decision # executing.began[i]
      BY <1>1 DEF BeganStands
    <2>1. executing.scope \in DOMAIN scopes
      BY DEF ExecutingOK
    <2>2. i \in Covered(executing.scope)
      BY <1>1, <1>2, <2>1 DEF Covered
    <2> QED BY <1>2, <2>1, <2>2 DEF BeganStands
  <1>8. ScopesStand'
    <2>1. \A n \in DOMAIN scopes : Covered(n)' = Covered(n)
      BY <1>2 DEF Covered
    <2>2. CurrentScopesDisjoint'
      BY <1>2, <2>1 DEF ScopesStand, CurrentScopesDisjoint
    <2>3. ExecutedScopeSettled'
      BY <1>1, <1>2 DEF ScopesStand, ExecutedScopeSettled
    <2> QED BY <2>2, <2>3 DEF ScopesStand
  <1>9. DisarmingOK' /\ AbandonDisarms'
    BY <1>1, <1>2 DEF DisarmingOK, AbandonDisarms
  <1>10. DatesOK'
    BY <1>1, <1>2, DatesStand
  <1> QED BY <1>3, <1>4, <1>5, <1>6, <1>7, <1>8, <1>9, <1>10 DEF TypeOK

-----------------------------------------------------------------------------
(* The theorems                                                               *)

LEMMA InitOK == Init => IInv
  <1> SUFFICES ASSUME Init PROVE IInv
    OBVIOUS
  <1> USE DEF Init
  <1>1. Typed
    <2>1. /\ preparing \in [Preparers -> PreparingType]
          /\ deciding \in [Deciders -> DecidingType]
      BY NoPreparationIs DEF NoDecision, DecidingType, Columns, Blank, ItemStates
    <2>2. NoExecution \in ExecutingType
      BY DEF NoExecution, ExecutingType, ItemStates
    <2>3. scopes \in Seq(ScopeType) /\ recorded \in [Items -> Seq(Intents)]
      OBVIOUS
    <2> QED BY <2>1, <2>2, <2>3 DEF Typed, ItemStates, ActionStates, Labels
  <1>2. RecordedOnce
    <2>1. \A i \in Items : There(i) = {}
      BY DEF There, Pairs
    <2> QED BY <2>1, FS_EmptySet DEF RecordedOnce
  <1>3. RecordedIsThere /\ OnlyApproved /\ NothingWithoutApproval
    BY ItemsAssumption DEF RecordedIsThere, OnlyApproved, NothingWithoutApproval, NoPreparation
  <1>4. DecidingOK /\ PreparingOK /\ OpeningOK /\ ScopeRowsOK
    BY DEF DecidingOK, PreparingOK, OpeningOK, ScopeRowsOK, NoPreparation, NoDecision
  <1>5. ExecutingOK /\ BeganStands /\ DatesOK
    BY DEF ExecutingOK, BeganStands, NoExecution, DatesOK, NoPreparation
  <1>6. ScopesStand /\ AbandonDisarms /\ DisarmingOK
    BY DEF ScopesStand, CurrentScopesDisjoint, ExecutedScopeSettled, AbandonDisarms, DisarmingOK
  <1> QED BY <1>1, <1>2, <1>3, <1>4, <1>5, <1>6 DEF IInv, TypeOK

LEMMA NextOK == IInv /\ [Next]_vars => IInv'
  <1> SUFFICES ASSUME IInv, [Next]_vars PROVE IInv'
    OBVIOUS
  <1>1. ASSUME NEW h \in Deciders, NEW S \in SUBSET Items, NEW kind \in DecisionKinds,
               NEW k \in Intents, Decide(h, S, kind, k)
        PROVE  IInv'
    BY <1>1, DecideOK
  <1>2. ASSUME NEW h \in Deciders, NEW dates \in [deciding[h].on -> 0 .. opened], DecideFinish(h, dates)
        PROVE  IInv'
    BY <1>2, DecideFinishOK
  <1>3. ASSUME NEW h \in Deciders, DecideLost(h)
        PROVE  IInv'
    BY <1>3, DecideLostOK
  <1>4. ASSUME NEW h \in Preparers, NEW c \in Capabilities \cup {NoCapability},
               NEW ids \in SUBSET Items, PrepareRead(h, c, ids)
        PROVE  IInv'
    BY <1>4, PrepareReadOK
  <1>5. ASSUME NEW h \in Preparers, PrepareOpen(h) \/ PrepareCommit(h) \/ PrepareLost(h)
        PROVE  IInv'
    BY <1>5, PrepareOpenOK, PrepareCommitOK, PrepareLostOK
  <1>6. ASSUME NEW n \in DOMAIN scopes, NEW restated \in SUBSET Items, ExecuteScope(n, restated)
        PROVE  IInv'
    BY <1>6, ExecuteScopeOK
  <1>7. ASSUME NEW a \in Pairs, Retry(a)
        PROVE  IInv'
    BY <1>7, RetryOK
  <1>8. ASSUME NEW a \in Pairs, NEW answered \in BOOLEAN, Verify(a, answered)
        PROVE  IInv'
    BY <1>8, VerifyOK
  <1>9. ASSUME NEW i \in Items, NEW outcome \in {"completed", "failed"}, NEW written \in BOOLEAN,
               RunOne(i, outcome, written)
        PROVE  IInv'
    BY <1>9, RunOneOK
  <1>10. CASE ExecuteFinish
    BY <1>10, ExecuteFinishOK
  <1>11. CASE ExecuteLost
    BY <1>11, ExecuteLostOK
  <1>12. CASE Abandon
    BY <1>12, AbandonOK
  <1>13. CASE AbandonFinish
    BY <1>13, AbandonFinishOK
  <1>14. CASE UNCHANGED vars
    <2> USE <1>14 DEF IInv, vars, requests
    <2>1. Typed' /\ OnlyApproved' /\ NothingWithoutApproval'
      BY DEF TypeOK, Typed, OnlyApproved, NothingWithoutApproval
    <2>2. /\ RecordedOnce' /\ RecordedIsThere' /\ DecidingOK' /\ PreparingOK' /\ OpeningOK'
          /\ ScopeRowsOK' /\ DisarmingOK' /\ ScopesStand' /\ AbandonDisarms' /\ DatesOK'
      BY RowsKept, DatesStand
    <2>3. ExecutingOK' /\ BeganStands'
      BY DEF ExecutingOK, BeganStands, Covered
    <2> QED BY <2>1, <2>2, <2>3 DEF TypeOK
  <1> QED BY <1>1, <1>2, <1>3, <1>4, <1>5, <1>6, <1>7, <1>8, <1>9, <1>10, <1>11, <1>12, <1>13,
             <1>14 DEF Next

LEMMA Invariant == Spec => []IInv
  BY InitOK, NextOK, PTL DEF Spec

\* Every variable of a review's decisions, scopes and executions holds a value the
\* code can give it, and an intent is recorded once for each action row of an item.
THEOREM ScopesTyped == Spec => []TypeOK
  <1>1. IInv => TypeOK
    BY DEF IInv
  <1> QED BY <1>1, Invariant, PTL

\* No current scope covers a row of an older one that was committed when it read the
\* open scopes, save an older one prepared without a key, and every action of a scope
\* that reads executed has an outcome (supersede_open_scopes, settle_scope).
THEOREM ScopesStandAlways == Spec => []ScopesStand
  <1>1. IInv => ScopesStand
    BY DEF IInv
  <1> QED BY <1>1, Invariant, PTL

\* No action is recorded and no thread changed for which no decision approved that
\* intent (record_decision: approval is the only route to an action).
THEOREM ApprovalIsTheOnlyRoute == Spec => []NothingWithoutApproval
  <1>1. IInv => NothingWithoutApproval
    BY DEF IInv
  <1> QED BY <1>1, Invariant, PTL

\* An execution begins at the very decisions its scope had read, but on an item whose
\* decision committed while the scope was prepared or was in flight when it was opened
\* (check_decisions_stand, decided_after).
THEOREM ScopeRunsAsConfirmed == Spec => []ConfirmedAsPrepared
  <1>1. IInv => ConfirmedAsPrepared
    BY DEF IInv, BeganStands, ConfirmedAsPrepared
  <1> QED BY <1>1, Invariant, PTL

\* Setting a review aside leaves no scope current, but one that
\* committed after the open scopes had been read (abandon_review).
THEOREM AbandonedIsDisarmed == Spec => []AbandonDisarms
  <1>1. IInv => AbandonDisarms
    BY DEF IInv
  <1> QED BY <1>1, Invariant, PTL

\* A step of a scope that writes to a thread finds the item as it was confirmed,
\* or decided again since (execute_scope).
LEMMA WritesOnlyStanding ==
  ASSUME IInv, [Next]_vars, NEW i \in Items, labels'[i] # labels[i], executing.scope # 0
  PROVE  item[i].state \notin Withdrawn \/ item[i].decision # executing.began[i]
  <1>1. \E outcome \in {"completed", "failed"}, written \in BOOLEAN, j \in Items :
          RunOne(j, outcome, written)
    <2>1. labels' # labels
      OBVIOUS
    <2>2. ~UNCHANGED labels
      BY <2>1
    <2> QED BY <2>2 DEF Next, vars, Decide, DecideFinish, DecideLost, PrepareRead, PrepareOpen,
               PrepareCommit, PrepareLost, ExecuteScope, Retry, ExecuteFinish, ExecuteLost, Verify,
               Abandon, AbandonFinish
  <1>2. PICK outcome \in {"completed", "failed"}, written \in BOOLEAN, j \in Items :
          RunOne(j, outcome, written)
    BY <1>1
  <1>3. PICK n \in executing.todo[j] :
          \/ UNCHANGED labels
          \/ labels' = [labels EXCEPT ![j] = Modified(recorded[j][n], @)]
    BY <1>2 DEF RunOne
  <1>4. labels \in [Items -> SUBSET Labels]
    BY DEF IInv, TypeOK, Typed
  <1>5. i = j
    BY <1>3, <1>4
  <1>6. <<i, recorded[i][n]>> \in scopes[executing.scope].actions
    BY <1>5 DEF IInv, ExecutingOK
  <1>7. i \in Covered(executing.scope)
    BY <1>6 DEF Covered
  <1> QED BY <1>7 DEF IInv, BeganStands

\* A scope never writes to a thread whose latest decision leaves it alone, unless
\* that decision was made after the scope had begun to run.
THEOREM DeclinedIsLeftAlone == Spec => DeclinedStaysUntouched
  <1>1. IInv /\ [Next]_vars =>
          [\A i \in Items : labels'[i] # labels[i] /\ executing.scope # 0 =>
             item[i].state \notin Withdrawn \/ item[i].decision # executing.began[i]]_vars
    BY WritesOnlyStanding
  <1> QED BY <1>1, Invariant, PTL DEF Spec, DeclinedStaysUntouched

-----------------------------------------------------------------------------
(* The record implements ActionPromise                                        *)

\* What a reader of the record sees of the items.
ItemsSeen == [i \in Items |-> item[i].state]

\* The record of an action is that of an item and an intent.
Promise == INSTANCE ActionPromise
  WITH Actions <- Pairs, ItemOf <- [a \in Pairs |-> a[1]],
       state <- action, item <- [i \in Items |-> item[i].state]

\* An item reads what one of its actions in this execution came to.
OutcomesShown ==
  \A i \in Items :
    /\ executing.states[i] = "executed" => \E k \in Intents : executing.rows[<<i, k>>] = "completed"
    /\ executing.states[i] = "failed" => \E k \in Intents : executing.rows[<<i, k>>] # "none"

\* What an execution starts with has come to nothing.
LEMMA StartShows ==
  ASSUME NEW n, NEW acts, Start(n, acts)
  PROVE  OutcomesShown'
  <1>1. executing'.states = [i \in Items |-> "none"]
    BY DEF Start, NoExecution
  <1> QED BY <1>1 DEF OutcomesShown

\* Running an action shows its outcome, in its row and in its item.
LEMMA RunOneShows ==
  ASSUME IInv, OutcomesShown, NEW i \in Items, NEW outcome \in {"completed", "failed"}, NEW written \in BOOLEAN,
         RunOne(i, outcome, written)
  PROVE  OutcomesShown'
  <1>1. Typed /\ executing \in ExecutingType /\ executing.todo[i] \subseteq DOMAIN recorded[i]
    BY DEF IInv, TypeOK, Typed, ExecutingOK
  <1>2. PICK n \in executing.todo[i] :
          \/ executing' = [executing EXCEPT !.todo[i] = @ \ {n}]
          \/ executing' = [executing EXCEPT
               !.todo[i] = @ \ {n}, !.rows[<<i, recorded[i][n]>>] = outcome,
               !.states[i] = ItemWritten(i, outcome)]
    BY DEF RunOne
  <1> DEFINE k == recorded[i][n]
  <1>3. k \in Intents
    <2>1. recorded[i] \in Seq(Intents) /\ n \in DOMAIN recorded[i]
      BY <1>1 DEF Typed
    <2> QED BY <2>1
  <1> HIDE DEF k
  <1>4. CASE executing' = [executing EXCEPT !.todo[i] = @ \ {n}]
    <2>1. executing'.states = executing.states /\ executing'.rows = executing.rows
      BY <1>1, <1>4 DEF ExecutingType
    <2> QED BY <2>1 DEF OutcomesShown
  <1>5. CASE executing' = [executing EXCEPT
               !.todo[i] = @ \ {n}, !.rows[<<i, k>>] = outcome,
               !.states[i] = ItemWritten(i, outcome)]
    <2>1. /\ \A j \in Items : executing'.states[j] =
               IF j = i THEN ItemWritten(i, outcome) ELSE executing.states[j]
          /\ \A a \in Pairs : executing'.rows[a] = IF a = <<i, k>> THEN outcome ELSE executing.rows[a]
      BY <1>1, <1>3, <1>5 DEF ExecutingType
    <2>2. \A j \in Items, m \in Intents : <<j, m>> \in Pairs
      BY DEF Pairs
    <2> SUFFICES ASSUME NEW j \in Items
                 PROVE  /\ executing'.states[j] = "executed" => \E m \in Intents : executing'.rows[<<j, m>>] = "completed"
                        /\ executing'.states[j] = "failed" => \E m \in Intents : executing'.rows[<<j, m>>] # "none"
      BY DEF OutcomesShown
    <2>3. CASE j = i
      BY <1>3, <2>1, <2>2, <2>3 DEF ItemWritten
    <2>4. CASE j # i
      <3>1. \A m \in Intents : executing'.rows[<<j, m>>] = executing.rows[<<j, m>>]
        BY <2>1, <2>2, <2>4
      <3>2. executing'.states[j] = executing.states[j]
        BY <2>1, <2>4
      <3> QED BY <3>1, <3>2 DEF OutcomesShown
    <2> QED BY <2>3, <2>4
  <1> QED BY <1>2, <1>4, <1>5 DEF k

\* So an item always reads what came of one of its actions.
LEMMA OutcomesStayShown == IInv /\ OutcomesShown /\ [Next]_vars => OutcomesShown'
  <1> SUFFICES ASSUME IInv, OutcomesShown, [Next]_vars PROVE OutcomesShown'
    OBVIOUS
  <1>1. ASSUME executing' = executing PROVE OutcomesShown'
    BY <1>1 DEF OutcomesShown
  <1>2. ASSUME executing' = NoExecution PROVE OutcomesShown'
    BY <1>2 DEF OutcomesShown, NoExecution
  <1>3. ASSUME NEW n, NEW restated, ExecuteScope(n, restated) PROVE OutcomesShown'
    BY <1>3, StartShows DEF ExecuteScope
  <1>4. ASSUME NEW a, Retry(a) PROVE OutcomesShown'
    BY <1>4, StartShows DEF Retry
  <1>5. ASSUME NEW i \in Items, NEW outcome \in {"completed", "failed"}, NEW written \in BOOLEAN,
               RunOne(i, outcome, written)
        PROVE  OutcomesShown'
    BY <1>5, RunOneShows
  <1>6. CASE ExecuteFinish \/ ExecuteLost
    BY <1>2, <1>6 DEF ExecuteFinish, ExecuteLost
  <1>7. \/ executing' = executing \/ ExecuteFinish \/ ExecuteLost
        \/ \E n \in DOMAIN scopes, restated \in SUBSET Items : ExecuteScope(n, restated)
        \/ \E a \in Pairs : Retry(a)
        \/ \E i \in Items, outcome \in {"completed", "failed"}, written \in BOOLEAN : RunOne(i, outcome, written)
    BY DEF Next, vars, requests, Decide, DecideFinish, DecideLost, PrepareRead, PrepareOpen,
           PrepareCommit, PrepareLost, Verify, Abandon, AbandonFinish
  <1> QED BY <1>1, <1>3, <1>4, <1>5, <1>6, <1>7

\* A decision that commits is one the promise allows.
LEMMA DecidePromised ==
  ASSUME IInv, NEW h \in Deciders, NEW dates \in [deciding[h].on -> 0 .. opened],
         DecideFinish(h, dates)
  PROVE  Promise!Next
  <1> DEFINE d == deciding[h]
             S == {i \in d.on : d.has[i].state # d.was[i].state}
  <1>1. Typed /\ action' = action /\ d.on \subseteq Items
    BY DEF IInv, TypeOK, DecideFinish, Typed, DecidingType
  <1>2. PICK v \in {"approved", "dismissed", "deferred"} : \A i \in d.on : d.has[i].state = v
    BY DEF IInv, DecidingOK
  <1>3. \A i \in Items : item'[i].state = IF i \in S THEN v ELSE item[i].state
    BY <1>1, <1>2, DecidedIs DEF Over
  <1>4. S \in SUBSET Items
    BY <1>1
  <1> HIDE DEF S
  <1>5. ItemsSeen' = [i \in Items |-> IF i \in S THEN v ELSE ItemsSeen[i]]
    BY <1>3 DEF ItemsSeen
  <1>6. Promise!Redecide(S, v)
    BY <1>1, <1>5 DEF Promise!Redecide, ItemsSeen
  <1> QED BY <1>4, <1>6 DEF Promise!Next

\* Committing a scope plans what it brings in.
LEMMA CommitPromised ==
  ASSUME IInv, NEW h \in Preparers, PrepareCommit(h)
  PROVE  Promise!Next
  <1> DEFINE S == preparing[h].fresh
  <1>1. action \in [Pairs -> ActionStates] /\ S \in SUBSET Pairs /\ item' = item
    BY DEF IInv, TypeOK, Typed, PreparingType, PrepareCommit
  <1>2. action' = [a \in Pairs |-> IF a \in S THEN "prepared" ELSE action[a]]
    BY DEF PrepareCommit
  <1>3. \A a \in S : action[a] = "absent"
    BY DEF IInv, PreparingOK, PrepareCommit
  <1> HIDE DEF S
  <1>4. Promise!Plan(S)
    BY <1>1, <1>2, <1>3 DEF Promise!Plan
  <1> QED BY <1>1, <1>4 DEF Promise!Next

\* The commit of an execution settles what it ran.
LEMMA FinishPromised ==
  ASSUME IInv, OutcomesShown, ExecuteFinish
  PROVE  Promise!Next
  <1> DEFINE S == {a \in Pairs : executing.rows[a] # "none"}
             outcome == [a \in S |-> executing.rows[a]]
  <1>1. /\ Typed /\ executing.rows \in [Pairs -> {"none", "completed", "failed"}]
        /\ executing.states \in [Items -> {"none", "executed", "failed"}]
        /\ \A a \in S : action[a] # "absent"
    BY DEF IInv, TypeOK, Typed, ExecutingOK, ExecutingType
  <1>2. S \in SUBSET Pairs /\ outcome \in [S -> Promise!Outcomes]
    BY <1>1 DEF Promise!Outcomes
  <1>3. action' = [a \in Pairs |-> IF a \in S THEN outcome[a] ELSE action[a]]
    BY DEF ExecuteFinish
  <1>4. ASSUME NEW i \in Items
        PROVE  item'[i].state = IF executing.states[i] = "none" THEN item[i].state ELSE executing.states[i]
    <2>1. item[i] \in [state: ItemStates, intent: Intents \cup {NoIntent}, decision: Nat, dated: Nat]
      BY <1>1 DEF Typed
    <2>2. item'[i] = IF executing.states[i] = "none" THEN item[i]
                     ELSE [item[i] EXCEPT !.state = executing.states[i]]
      BY DEF ExecuteFinish
    <2> QED BY <2>1, <2>2
  <1>5. ASSUME NEW i \in Items, ItemsSeen'[i] # ItemsSeen[i]
        PROVE  /\ ItemsSeen'[i] \in {"executed", "failed"}
               /\ \E a \in S : [b \in Pairs |-> b[1]][a] = i /\ (ItemsSeen'[i] = "executed" => outcome[a] = "completed")
    <2>1. ItemsSeen'[i] = executing.states[i] /\ executing.states[i] \in {"executed", "failed"}
      BY <1>1, <1>4, <1>5 DEF ItemsSeen
    <2>2. PICK k \in Intents : /\ executing.rows[<<i, k>>] # "none"
                               /\ executing.states[i] = "executed" => executing.rows[<<i, k>>] = "completed"
      BY <2>1 DEF OutcomesShown
    <2>3. <<i, k>> \in Pairs /\ <<i, k>>[1] = i
      BY DEF Pairs
    <2> QED BY <2>1, <2>2, <2>3
  <1>6. ItemsSeen' \in [Items -> {"executed", "failed"} \cup {ItemsSeen[i] : i \in Items}]
    <2>1. ASSUME NEW i \in Items PROVE ItemsSeen'[i] \in {"executed", "failed"} \cup {ItemsSeen[j] : j \in Items}
      BY <1>5
    <2>2. ItemsSeen' = [i \in Items |-> ItemsSeen'[i]]
      BY DEF ItemsSeen
    <2> QED BY <2>1, <2>2
  <1> HIDE DEF S, outcome
  <1>7. PICK T \in SUBSET Pairs : T = S
    BY <1>2
  <1>8. PICK out \in [T -> Promise!Outcomes] : out = outcome
    BY <1>2, <1>7
  <1>9. Promise!Settle(T, out)
    <2>1. \A a \in S : action[a] # "absent"
      BY <1>1
    <2>2. \A i \in Items : ItemsSeen'[i] # ItemsSeen[i] =>
            /\ ItemsSeen'[i] \in {"executed", "failed"}
            /\ \E a \in S : [b \in Pairs |-> b[1]][a] = i /\ (ItemsSeen'[i] = "executed" => outcome[a] = "completed")
      BY <1>5
    <2>3. \A a \in T : action[a] # "absent"
      BY <1>7, <2>1
    <2>4. action' = [a \in Pairs |-> IF a \in T THEN out[a] ELSE action[a]]
      BY <1>3, <1>7, <1>8
    <2>5. \A i \in Items : ItemsSeen'[i] # ItemsSeen[i] =>
            /\ ItemsSeen'[i] \in {"executed", "failed"}
            /\ \E a \in T : [b \in Pairs |-> b[1]][a] = i /\ (ItemsSeen'[i] = "executed" => out[a] = "completed")
      BY <1>7, <1>8, <2>2
    <2> HIDE DEF ItemsSeen
    <2> QED BY <1>6, <2>3, <2>4, <2>5 DEF Promise!Settle, ItemsSeen
  <1> QED BY <1>9 DEF Promise!Next

\* A verification settles the one action it reads back.
LEMMA VerifyPromised ==
  ASSUME IInv, NEW a \in Pairs, NEW answered \in BOOLEAN, Verify(a, answered)
  PROVE  Promise!Next
  <1> DEFINE shown == answered /\ Shown(a[2], labels[a[1]])
             S == {a}
             out == IF shown THEN "completed" ELSE "failed"
             seen == IF shown THEN "executed" ELSE "failed"
             outcome == [b \in S |-> out]
  <1>1. Typed /\ a[1] \in Items /\ action[a] # "absent"
    BY DEF IInv, TypeOK, Verify, Pairs
  <1>2. action' = [action EXCEPT ![a] = out] /\ item' = [item EXCEPT ![a[1]].state = seen]
    BY DEF Verify
  <1>3. out \in Promise!Outcomes /\ seen \in {"executed", "failed"} /\ (seen = "executed" => out = "completed")
    BY DEF Promise!Outcomes
  <1> HIDE DEF shown, out, seen
  <1>4. S \in SUBSET Pairs /\ outcome \in [S -> Promise!Outcomes] /\ outcome[a] = out
    BY <1>3
  <1>5. action' = [b \in Pairs |-> IF b \in S THEN outcome[b] ELSE action[b]]
    BY <1>1, <1>2 DEF Typed
  <1>6. \A i \in Items : ItemsSeen'[i] = IF i = a[1] THEN seen ELSE ItemsSeen[i]
    BY <1>1, <1>2 DEF ItemsSeen, Typed
  <1>7. ItemsSeen' \in [Items -> {"executed", "failed"} \cup {ItemsSeen[i] : i \in Items}]
    <2>1. ItemsSeen' = [i \in Items |-> ItemsSeen'[i]]
      BY DEF ItemsSeen
    <2> QED BY <1>3, <1>6, <2>1
  <1>8. \A i \in Items : ItemsSeen'[i] # ItemsSeen[i] =>
          /\ ItemsSeen'[i] \in {"executed", "failed"}
          /\ \E b \in S : [c \in Pairs |-> c[1]][b] = i /\ (ItemsSeen'[i] = "executed" => outcome[b] = "completed")
    BY <1>3, <1>4, <1>6
  <1>9. \A b \in S : action[b] # "absent"
    BY <1>1
  <1> HIDE DEF S, outcome
  <1>10. PICK T \in SUBSET Pairs : T = S
    BY <1>4
  <1>11. PICK shows \in [T -> Promise!Outcomes] : shows = outcome
    BY <1>4, <1>10
  <1>12. Promise!Settle(T, shows)
    BY <1>5, <1>7, <1>8, <1>9, <1>10, <1>11 DEF Promise!Settle, ItemsSeen
  <1> QED BY <1>12 DEF Promise!Next

\* Every other step leaves the record alone.
LEMMA ScopesStepPromised ==
  ASSUME IInv, OutcomesShown, [Next]_vars
  PROVE  Promise!Next \/ UNCHANGED <<action, ItemsSeen>>
  <1>1. \/ \E h \in Deciders : \E dates \in [deciding[h].on -> 0 .. opened] : DecideFinish(h, dates)
        \/ \E h \in Preparers : PrepareCommit(h)
        \/ ExecuteFinish
        \/ \E a \in Pairs, answered \in BOOLEAN : Verify(a, answered)
        \/ action' = action /\ item' = item
    BY DEF Next, vars, Decide, DecideLost, PrepareRead, PrepareOpen, PrepareLost, ExecuteScope,
           Retry, RunOne, ExecuteLost, Abandon, AbandonFinish
  <1>2. action' = action /\ item' = item => UNCHANGED <<action, ItemsSeen>>
    BY DEF ItemsSeen
  <1> QED BY <1>1, <1>2, DecidePromised, CommitPromised, FinishPromised, VerifyPromised

\* Read between requests, decisions, preparations, executions and verifications of
\* a review only ever move its record as ActionPromise allows: no action is planned
\* over an outcome, and an item reads executed only with an action recorded as
\* completed (ensure_actions, execute_scope, verify_one_action).
THEOREM ScopesKeepPromise == Spec => Promise!Spec
  <1>1. Init => Promise!Init /\ OutcomesShown
    BY DEF Init, Promise!Init, OutcomesShown, NoExecution
  <1>2. IInv /\ OutcomesShown /\ [Next]_vars => [Promise!Next]_<<action, [i \in Items |-> item[i].state]>>
    BY ScopesStepPromised DEF ItemsSeen
  <1> QED BY <1>1, <1>2, OutcomesStayShown, Invariant, PTL DEF Spec, Promise!Spec
=============================================================================
