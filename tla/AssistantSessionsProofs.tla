----------------------- MODULE AssistantSessionsProofs -----------------------
(* Proofs about PlaybookRevisions alone, about AssistantSessions, sessions and *)
(* playbook together, and about PlaybookDocument, for every set of             *)
(* capabilities, activities, steps, arrangements, changes and requests and     *)
(* every budget: each property that the run assistant checks of them.          *)
(*                                                                             *)
(* The strengthening of the playbook says what a request in flight still knows *)
(* to be true of the revisions it read.  That of sessions adds that only the   *)
(* last is under way, and what a request may make of the columns it read. That *)
(* of the document says what the document in force and the one a proposal was  *)
(* worked on are like, and what the changes have done to their order so far.   *)
EXTENDS AssistantSessions, PlaybookDocument, NumberSets, SequenceTheorems, FiniteSetTheorems, TLAPS

-----------------------------------------------------------------------------
(* Playbook revisions                                                         *)

\* What a request loaded is there; what it means to replace was agreed to; a
\* revision loaded as no proposal is none; and a proposal about to be written is
\* written over the revision it was based on.
RequestOK(q) ==
  /\ q.kind \in {"confirm", "write"} => q.revision \in DOMAIN revisions
  /\ q.kind \in {"confirm", "write"} /\ q.status # "proposed" =>
       revisions[q.revision].status # "proposed"
  /\ q.kind = "restore" => q.revision \in agreed
  /\ q.kind = "write" => q.current \in agreed
  /\ q.kind = "write" /\ q.status = "proposed" => revisions[q.revision].base = q.current

IInv ==
  /\ PlaybookTypeOK /\ PlaybookStands
  /\ \A h \in Handlers : RequestOK(asking[h])

-----------------------------------------------------------------------------
(* The newest revision                                                        *)

\* Newest is 0 of none, and the largest of them otherwise.
LEMMA NewestIs ==
  ASSUME NEW n \in Nat, NEW S, S \subseteq 1..n
  PROVE  IF S = {} THEN Newest(S) = 0 ELSE Newest(S) \in S /\ \A m \in S : m <= Newest(S)
  <1>1. CASE S = {}
    BY <1>1 DEF Newest
  <1>2. CASE S # {}
    <2>1. \E k \in S : \A m \in S : m <= k
      BY <1>2, Largest
    <2> QED BY <1>2, <2>1 DEF Newest
  <1> QED BY <1>1, <1>2

\* The revisions are numbered from 1.
LEMMA Numbers ==
  ASSUME PlaybookTypeOK
  PROVE  /\ Len(revisions) \in Nat /\ DOMAIN revisions = 1..Len(revisions)
         /\ 0 \notin DOMAIN revisions
         /\ \A n \in DOMAIN revisions : revisions[n] \in RevisionType
  <1>1. revisions \in Seq(RevisionType)
    BY DEF PlaybookTypeOK
  <1>2. Len(revisions) \in Nat /\ DOMAIN revisions = 1..Len(revisions)
    BY <1>1
  <1>3. \A n \in DOMAIN revisions : revisions[n] \in RevisionType
    BY <1>1, <1>2
  <1> QED BY <1>2, <1>3

\* The revision in force was agreed to, and unless a request wrote over another
\* it is the one last put in force.
LEMMA InForceIs ==
  ASSUME IInv
  PROVE  IF revisions = <<>> THEN InForce = 0
         ELSE /\ InForce \in DOMAIN revisions /\ revisions[InForce].status = "active"
              /\ InForce \in agreed
              /\ ~crossed => InForce = latest /\ Numbered({"active"}) = {latest}
  <1> DEFINE S == Numbered({"active"})
  <1>1. S \subseteq 1..Len(revisions) /\ Len(revisions) \in Nat
    BY Numbers DEF IInv, Numbered
  <1>2. IF S = {} THEN InForce = 0 ELSE InForce \in S
    <2> HIDE DEF S
    <2>1. IF S = {} THEN Newest(S) = 0 ELSE Newest(S) \in S
      BY <1>1, NewestIs
    <2>2. InForce = Newest(S)
      BY DEF InForce, S
    <2> QED BY <2>1, <2>2
  <1>3. CASE revisions = <<>>
    BY <1>2, <1>3, Numbers DEF IInv, Numbered
  <1>4. CASE revisions # <<>>
    <2>1. InForce \in S
      BY <1>2, <1>4 DEF IInv, PlaybookStands, SomeInForce
    <2>2. InForce \in DOMAIN revisions /\ revisions[InForce].status = "active"
      BY <2>1 DEF Numbered
    <2>3. InForce \in agreed
      BY <2>2 DEF IInv, PlaybookStands, OnlyAgreedInForce
    <2>4. ~crossed => InForce = latest /\ Numbered({"active"}) = {latest}
      BY <1>4, <2>1 DEF IInv, PlaybookStands, LatestAloneInForce
    <2> QED BY <1>4, <2>2, <2>3, <2>4
  <1> QED BY <1>3, <1>4

\* What a fallback finds was in force once, and is not what it replaces.
LEMMA LastValidIs ==
  ASSUME IInv, NEW broken, NEW keys, LastValid(broken, keys) # 0
  PROVE  LET good == LastValid(broken, keys) IN
         /\ good \in DOMAIN revisions /\ good # broken /\ good \in agreed
         /\ revisions[good].status # "proposed"
  <1> DEFINE S == {n \in Numbered({"superseded", "active"}) \ {broken} : Valid(revisions[n].steps, keys)}
             good == LastValid(broken, keys)
  <1>1. S \subseteq 1..Len(revisions) /\ Len(revisions) \in Nat
    BY Numbers DEF IInv, Numbered
  <1>2. IF S = {} THEN good = 0 ELSE good \in S
    <2>1. good = Newest(S)
      BY DEF LastValid
    <2> HIDE DEF S, good
    <2> QED BY <1>1, <2>1, NewestIs
  <1>3. good \in Numbered({"superseded", "active"}) /\ good # broken
    BY <1>2
  <1> HIDE DEF good
  <1>4. good \in DOMAIN revisions /\ revisions[good].status # "proposed"
    BY <1>3 DEF Numbered
  <1>5. good \in agreed
    BY <1>4 DEF IInv, PlaybookStands, OnlyAgreedInForce
  <1> QED BY <1>3, <1>4, <1>5 DEF good

-----------------------------------------------------------------------------
(* One revision put in force                                                  *)

\* A step that puts revision new in force, sets old aside, leaves the others as
\* they are and adds proposals at most.
PutsInForce(old, new, aside) ==
  /\ DOMAIN revisions \subseteq DOMAIN revisions'
  /\ \A n \in DOMAIN revisions :
       /\ revisions'[n].base = revisions[n].base
       /\ revisions'[n].status =
            IF n = new THEN "active" ELSE IF n = old THEN aside ELSE revisions[n].status
  /\ \A n \in DOMAIN revisions' \ DOMAIN revisions : revisions'[n].status = "proposed"

\* The requests in flight but those that end are as they were.
RequestsWait == \A h \in Handlers : asking'[h] \in {asking[h], Idle}

\* What the requests know survives a step that takes no row away, changes no
\* base, makes no proposal of what is none and forgets nothing agreed to.
LEMMA RequestsStand ==
  ASSUME IInv, RequestsWait, agreed \subseteq agreed',
         DOMAIN revisions \subseteq DOMAIN revisions',
         \A n \in DOMAIN revisions :
           /\ revisions'[n].base = revisions[n].base
           /\ revisions[n].status # "proposed" => revisions'[n].status # "proposed"
  PROVE  \A h \in Handlers : RequestOK(asking[h])'
  <1> SUFFICES ASSUME NEW h \in Handlers PROVE RequestOK(asking[h])'
    OBVIOUS
  <1>1. CASE asking'[h] = Idle
    BY <1>1 DEF RequestOK, Idle
  <1>2. CASE asking'[h] = asking[h]
    <2>1. RequestOK(asking[h])
      BY DEF IInv
    <2> QED BY <1>2, <2>1 DEF RequestOK
  <1> QED BY <1>1, <1>2 DEF RequestsWait

\* Such a step keeps a playbook to work by, agreed to, and the last agreed to.
LEMMA InForceMoves ==
  ASSUME IInv, RequestsWait,
         NEW old \in agreed, NEW new \in DOMAIN revisions, NEW aside \in {"superseded", "invalid"},
         PutsInForce(old, new, aside), agreed \subseteq agreed', new \in agreed',
         ~crossed' => ~crossed /\ latest' = new /\ Numbered({"active"}) \subseteq {old, new}
  PROVE  PlaybookStands' /\ \A h \in Handlers : RequestOK(asking[h])'
  <1>1. new \in DOMAIN revisions' /\ revisions'[new].status = "active"
    BY DEF PutsInForce
  <1>2. SomeInForce'
    BY <1>1 DEF SomeInForce, Numbered
  <1>3. OnlyAgreedInForce'
    <2>1. ASSUME NEW n \in DOMAIN revisions', revisions'[n].status # "proposed" PROVE n \in agreed'
      <3>1. n \in DOMAIN revisions
        BY <2>1 DEF PutsInForce
      <3>2. n = new \/ n = old \/ revisions[n].status # "proposed"
        BY <2>1, <3>1 DEF PutsInForce
      <3> QED BY <3>1, <3>2 DEF IInv, PlaybookStands, OnlyAgreedInForce
    <2> QED BY <2>1 DEF OnlyAgreedInForce
  <1>4. LatestAloneInForce'
    <2>1. ASSUME ~crossed', NEW n \in DOMAIN revisions', revisions'[n].status = "active" PROVE n = new
      <3>1. n \in DOMAIN revisions
        BY <2>1 DEF PutsInForce
      <3>2. n \in {old, new} \/ revisions'[n].status = revisions[n].status
        BY <3>1 DEF PutsInForce
      <3>3. n \in {old, new}
        BY <2>1, <3>1, <3>2 DEF Numbered
      <3>4. old # new => revisions'[old].status # "active" \/ old \notin DOMAIN revisions
        BY DEF PutsInForce
      <3> QED BY <2>1, <3>1, <3>3, <3>4
    <2> QED BY <1>1, <2>1 DEF LatestAloneInForce, Numbered
  <1>5. \A n \in DOMAIN revisions :
           /\ revisions'[n].base = revisions[n].base
           /\ revisions[n].status # "proposed" => revisions'[n].status # "proposed"
    BY DEF PutsInForce
  <1>6. \A h \in Handlers : RequestOK(asking[h])'
    BY <1>5, RequestsStand DEF PutsInForce
  <1> QED BY <1>2, <1>3, <1>4, <1>6 DEF PlaybookStands

\* The rows a fallback writes are revisions, the one it found in force.
LEMMA FallenBackIs ==
  ASSUME IInv, NEW broken \in DOMAIN revisions, NEW good \in DOMAIN revisions, good # broken
  PROVE  LET rows == FallenBack(broken, good) IN
         /\ rows \in Seq(RevisionType) /\ Len(rows) = Len(revisions)
         /\ \A n \in DOMAIN revisions :
              /\ rows[n].base = revisions[n].base
              /\ rows[n].status =
                   IF n = good THEN "active" ELSE IF n = broken THEN "invalid" ELSE revisions[n].status
  <1> DEFINE rows == FallenBack(broken, good)
  <1>1. /\ Len(revisions) \in Nat /\ DOMAIN revisions = 1..Len(revisions)
        /\ \A n \in DOMAIN revisions : revisions[n] \in RevisionType
    BY Numbers DEF IInv
  <1>2. \A n \in DOMAIN revisions :
          /\ rows[n] \in RevisionType /\ rows[n].base = revisions[n].base
          /\ rows[n].status =
               IF n = good THEN "active" ELSE IF n = broken THEN "invalid" ELSE revisions[n].status
    BY <1>1 DEF FallenBack, RevisionType, RevisionStatuses
  <1>3. rows \in [1..Len(revisions) -> RevisionType]
    BY <1>1, <1>2 DEF FallenBack
  <1> HIDE DEF rows
  <1>4. rows \in Seq(RevisionType) /\ Len(rows) = Len(revisions)
    BY <1>1, <1>3
  <1> QED BY <1>2, <1>4 DEF rows

\* The rows a confirmation writes are revisions, the one confirmed in force.
LEMMA ConfirmedIs ==
  ASSUME IInv, NEW old, NEW new
  PROVE  LET rows == Confirmed(old, new) IN
         /\ rows \in Seq(RevisionType) /\ Len(rows) = Len(revisions)
         /\ \A n \in DOMAIN revisions :
              /\ rows[n].base = revisions[n].base
              /\ rows[n].status =
                   IF n = new THEN "active" ELSE IF n = old THEN "superseded" ELSE revisions[n].status
  <1> DEFINE rows == Confirmed(old, new)
  <1>1. /\ Len(revisions) \in Nat /\ DOMAIN revisions = 1..Len(revisions)
        /\ \A n \in DOMAIN revisions : revisions[n] \in RevisionType
    BY Numbers DEF IInv
  <1>2. \A n \in DOMAIN revisions :
          /\ rows[n] \in RevisionType /\ rows[n].base = revisions[n].base
          /\ rows[n].status =
               IF n = new THEN "active" ELSE IF n = old THEN "superseded" ELSE revisions[n].status
    BY <1>1 DEF Confirmed, RevisionType, RevisionStatuses
  <1>3. rows \in [1..Len(revisions) -> RevisionType]
    BY <1>1, <1>2 DEF Confirmed
  <1> HIDE DEF rows
  <1>4. rows \in Seq(RevisionType) /\ Len(rows) = Len(revisions)
    BY <1>1, <1>3
  <1> QED BY <1>2, <1>4 DEF rows

-----------------------------------------------------------------------------
(* The steps                                                                  *)

\* Nothing is spent that is not there.
LEMMA SpendKept ==
  ASSUME BudgetTypeOK, NEW kind \in Kinds, Spend(kind)
  PROVE  BudgetTypeOK'
  BY DEF BudgetTypeOK, Spend

LEMMA BudgetKept ==
  ASSUME BudgetTypeOK,
         Spend("revisions") \/ Spend("edits") \/ Spend("asks") \/ UNCHANGED left
  PROVE  BudgetTypeOK'
  BY SpendKept, PlaybookAssumption DEF BudgetTypeOK

\* The request that ends, ends; the others wait.
LEMMA EndedIs ==
  ASSUME IInv, NEW h \in Handlers, Ended(h)
  PROVE  asking' \in [Handlers -> AskingType] /\ RequestsWait
  BY DEF IInv, PlaybookTypeOK, Ended, RequestsWait, AskingType, Idle

LEMMA ReconfigureStep ==
  ASSUME IInv, NEW keys \in SUBSET Capabilities, Reconfigure(keys)
  PROVE  IInv'
  <1>1. BudgetTypeOK'
    BY BudgetKept DEF IInv, PlaybookTypeOK, Reconfigure
  <1>2. PlaybookTypeOK'
    BY <1>1 DEF IInv, PlaybookTypeOK, Reconfigure
  <1>3. PlaybookStands'
    BY DEF IInv, PlaybookStands, SomeInForce, OnlyAgreedInForce, LatestAloneInForce, Numbered, Reconfigure
  <1>4. \A h \in Handlers : RequestOK(asking[h])'
    BY DEF IInv, RequestOK, Reconfigure
  <1> QED BY <1>2, <1>3, <1>4 DEF IInv

\* A proposal goes behind the revisions read, and leaves them as they are.
LEMMA ProposedIs ==
  ASSUME NEW rows \in Seq(RevisionType), NEW active \in DOMAIN rows, NEW key \in Capabilities
  PROVE  LET more == Proposed(rows, active, key) IN
         /\ more \in Seq(RevisionType) /\ Len(more) = Len(rows) + 1
         /\ \A n \in 1..Len(rows) : more[n] = rows[n]
         /\ more[Len(rows) + 1].status = "proposed"
  <1> DEFINE new == [status |-> "proposed", steps |-> Changed(rows[active].steps, key), base |-> active]
  <1>1. rows[active] \in RevisionType /\ active \in Nat
    OBVIOUS
  <1>2. new \in RevisionType
    BY <1>1 DEF RevisionType, RevisionStatuses, Changed
  <1>3. Proposed(rows, active, key) = Append(rows, new) /\ new.status = "proposed"
    BY DEF Proposed
  <1> HIDE DEF new
  <1> QED BY <1>2, <1>3, AppendProperties

\* The seed is one revision, in force.
LEMMA SeededIs ==
  /\ Seeded \in Seq(RevisionType) /\ Len(Seeded) = 1 /\ DOMAIN Seeded = 1..1
  /\ Seeded[1].status = "active"
  BY PlaybookAssumption DEF Seeded, RevisionType, RevisionStatuses

\* A reading seeds the playbook, finds the one in force, or falls back on one
\* that was agreed to.
LEMMA ReadIs ==
  ASSUME IInv, Found # 0
  PROVE  IF revisions = <<>> THEN InForce = 0 /\ Found = 1 /\ RowsRead = Seeded
         ELSE /\ InForce \in agreed /\ Found \in DOMAIN revisions /\ Found \in agreed
              /\ revisions[Found].status # "proposed"
              /\ RowsRead \in Seq(RevisionType) /\ Len(RowsRead) = Len(revisions)
              /\ \A n \in DOMAIN revisions :
                   /\ RowsRead[n].base = revisions[n].base
                   /\ RowsRead[n].status =
                        IF n = Found THEN "active" ELSE IF n = InForce THEN "invalid" ELSE revisions[n].status
              /\ ~crossed => InForce = latest /\ Numbered({"active"}) = {latest}
  <1>1. CASE revisions = <<>>
    BY <1>1, InForceIs DEF Found, RowsRead
  <1>2. CASE revisions # <<>>
    <2>1. /\ InForce \in DOMAIN revisions /\ revisions[InForce].status = "active"
          /\ InForce \in agreed /\ ~Seedable(enabled) /\ InForce # 0
          /\ ~crossed => InForce = latest /\ Numbered({"active"}) = {latest}
      BY <1>2, InForceIs, Numbers DEF Seedable, IInv
    <2>2. CASE Works(InForce)
      <3>1. Found = InForce /\ RowsRead = revisions
        BY <1>2, <2>1, <2>2 DEF Found, RowsRead
      <3>2. revisions \in Seq(RevisionType)
        BY DEF IInv, PlaybookTypeOK
      <3> QED BY <1>2, <2>1, <3>1, <3>2
    <2>3. CASE ~Works(InForce)
      <3>1. Found = LastValid(InForce, enabled) /\ RowsRead = FallenBack(InForce, Found)
        BY <1>2, <2>1, <2>3 DEF Found, RowsRead
      <3>2. /\ Found \in DOMAIN revisions /\ Found # InForce /\ Found \in agreed
            /\ revisions[Found].status # "proposed"
        BY <3>1, LastValidIs
      <3> QED BY <1>2, <2>1, <3>1, <3>2, FallenBackIs
    <2> QED BY <2>2, <2>3
  <1> QED BY <1>1, <1>2

\* What a request that reads the playbook commits: the rows as the reading left
\* them, and proposals at most.
ReadKept ==
  /\ DOMAIN RowsRead \subseteq DOMAIN revisions'
  /\ \A n \in DOMAIN RowsRead : revisions'[n] = RowsRead[n]
  /\ \A n \in DOMAIN revisions' \ DOMAIN RowsRead : revisions'[n].status = "proposed"

\* A request that reads the playbook keeps what the invariant says of it.
LEMMA ReadMoves ==
  ASSUME IInv, ReadPlaybook, RequestsWait, ReadKept, crossed' = crossed
  PROVE  /\ PlaybookStands' /\ \A h \in Handlers : RequestOK(asking[h])'
         /\ agreed' \subseteq DOMAIN revisions' /\ latest' \in Nat /\ Found \in agreed'
  <1>1. /\ Found # 0 /\ latest' = IF Found = InForce THEN latest ELSE Found
        /\ agreed' = agreed \cup (IF revisions = <<>> THEN {1} ELSE {})
    BY DEF ReadPlaybook
  <1>2. Len(revisions) \in Nat /\ DOMAIN revisions = 1..Len(revisions)
        /\ agreed \subseteq DOMAIN revisions /\ latest \in Nat
    BY Numbers DEF IInv, PlaybookTypeOK
  <1>3. CASE revisions = <<>>
    <2>1. Found = 1 /\ RowsRead = Seeded /\ agreed' = {1} /\ latest' = 1 /\ DOMAIN revisions = {}
      BY <1>1, <1>2, <1>3, ReadIs
    <2>2. /\ 1 \in DOMAIN revisions' /\ revisions'[1].status = "active"
          /\ \A n \in DOMAIN revisions' : n # 1 => revisions'[n].status = "proposed"
      BY <2>1, SeededIs DEF ReadKept
    <2>3. PlaybookStands'
      <3>1. Numbered({"active"})' = {1}
        BY <2>2 DEF Numbered
      <3> QED BY <2>1, <2>2, <3>1 DEF PlaybookStands, SomeInForce, OnlyAgreedInForce, LatestAloneInForce
    <2>4. \A h \in Handlers : RequestOK(asking[h])'
      BY <1>1, <2>1, RequestsStand
    <2> QED BY <2>1, <2>2, <2>3, <2>4
  <1>4. CASE revisions # <<>>
    <2>1. /\ InForce \in agreed /\ Found \in DOMAIN revisions /\ Found \in agreed
          /\ ~crossed => InForce = latest /\ Numbered({"active"}) = {latest}
      BY <1>1, <1>4, ReadIs
    <2>2. DOMAIN RowsRead = DOMAIN revisions
      BY <1>1, <1>2, <1>4, ReadIs
    <2>3. PutsInForce(InForce, Found, "invalid")
      BY <1>1, <1>4, <2>2, ReadIs DEF PutsInForce, ReadKept
    <2>4. ~crossed' => ~crossed /\ latest' = Found /\ Numbered({"active"}) \subseteq {InForce, Found}
      BY <1>1, <2>1
    <2>5. agreed' = agreed /\ latest' \in Nat
      BY <1>1, <1>2, <1>4, <2>1
    <2>6. PlaybookStands' /\ \A h \in Handlers : RequestOK(asking[h])'
      BY <2>1, <2>3, <2>4, <2>5, InForceMoves
    <2> QED BY <1>2, <2>1, <2>2, <2>5, <2>6 DEF ReadKept
  <1> QED BY <1>3, <1>4

\* What is read has the type of the table, and what is found is in it.
LEMMA RowsReadOK ==
  ASSUME IInv, Found # 0
  PROVE  /\ RowsRead \in Seq(RevisionType) /\ DOMAIN RowsRead = 1..Len(RowsRead)
         /\ Len(RowsRead) \in Nat /\ Found \in DOMAIN RowsRead
  <1>1. RowsRead \in Seq(RevisionType) /\ Found \in 1..Len(RowsRead)
    <2>1. CASE revisions = <<>>
      <3>1. Found = 1 /\ RowsRead = Seeded
        BY <2>1, ReadIs
      <3> QED BY <3>1, SeededIs
    <2>2. CASE revisions # <<>>
      <3>1. /\ Found \in DOMAIN revisions /\ RowsRead \in Seq(RevisionType)
            /\ Len(RowsRead) = Len(revisions)
        BY <2>2, ReadIs
      <3> QED BY <3>1, Numbers DEF IInv
    <2> QED BY <2>1, <2>2
  <1> QED BY <1>1

LEMMA ProposeStep ==
  ASSUME IInv, NEW key \in Capabilities, Propose(key)
  PROVE  IInv'
  <1>1. BudgetTypeOK'
    BY BudgetKept DEF IInv, PlaybookTypeOK, Propose
  <1>2. /\ Found # 0 /\ ReadPlaybook /\ revisions' = Proposed(RowsRead, Found, key)
        /\ enabled' = enabled /\ asking' = asking /\ crossed' = crossed /\ RequestsWait
    BY DEF Propose, ReadPlaybook, RequestsWait
  <1>3. /\ revisions' \in Seq(RevisionType) /\ Len(revisions') = Len(RowsRead) + 1
        /\ \A n \in 1..Len(RowsRead) : revisions'[n] = RowsRead[n]
        /\ revisions'[Len(RowsRead) + 1].status = "proposed"
    BY <1>2, RowsReadOK, ProposedIs
  <1>4. DOMAIN revisions' = 1..(Len(RowsRead) + 1)
    BY <1>3
  <1>5. ReadKept
    BY <1>2, <1>3, <1>4, RowsReadOK DEF ReadKept
  <1>6. /\ PlaybookStands' /\ \A h \in Handlers : RequestOK(asking[h])'
        /\ agreed' \subseteq DOMAIN revisions' /\ latest' \in Nat
    BY <1>2, <1>5, ReadMoves
  <1> QED BY <1>1, <1>2, <1>3, <1>6 DEF IInv, PlaybookTypeOK

\* A request begins: nothing it knows is about more than what is there.
LEMMA AskStep ==
  ASSUME IInv, NEW h \in Handlers, NEW request \in AskingType, Ask(h, request), RequestOK(request)
  PROVE  IInv'
  <1>1. BudgetTypeOK'
    BY BudgetKept DEF IInv, PlaybookTypeOK, Ask
  <1>2. PlaybookTypeOK'
    BY <1>1 DEF IInv, PlaybookTypeOK, Ask
  <1>3. PlaybookStands'
    BY DEF IInv, PlaybookStands, SomeInForce, OnlyAgreedInForce, LatestAloneInForce, Numbered, Ask
  <1>4. ASSUME NEW o \in Handlers PROVE RequestOK(asking[o])'
    <2>1. asking'[o] \in {asking[o], request} /\ revisions' = revisions /\ agreed' = agreed
      BY DEF Ask, IInv, PlaybookTypeOK
    <2>2. RequestOK(asking[o])
      BY DEF IInv
    <2> QED BY <2>1, <2>2 DEF RequestOK
  <1> QED BY <1>2, <1>3, <1>4 DEF IInv

LEMMA AskPlaybookStep ==
  ASSUME IInv, NEW h \in Handlers, AskPlaybook(h)
  PROVE  IInv'
  <1>1. enabled \in SUBSET Capabilities
    BY DEF IInv, PlaybookTypeOK
  <1>2. CASE Ask(h, [Idle EXCEPT !.kind = "seed", !.keys = enabled])
    <2> DEFINE q == [Idle EXCEPT !.kind = "seed", !.keys = enabled]
    <2>1. q \in AskingType /\ RequestOK(q)
      BY <1>1 DEF Idle, AskingType, RequestOK
    <2> QED BY <1>2, <2>1, AskStep
  <1>3. CASE /\ InForce # 0
             /\ Ask(h, [Idle EXCEPT !.kind = "restore", !.revision = InForce, !.keys = enabled])
    <2> DEFINE q == [Idle EXCEPT !.kind = "restore", !.revision = InForce, !.keys = enabled]
    <2>1. InForce \in agreed /\ InForce \in Nat
      BY <1>3, InForceIs, Numbers DEF IInv
    <2>2. q \in AskingType /\ RequestOK(q)
      BY <1>1, <2>1 DEF Idle, AskingType, RequestOK
    <2> QED BY <1>3, <2>2, AskStep
  <1> QED BY <1>2, <1>3 DEF AskPlaybook

LEMMA SeedStep ==
  ASSUME IInv, NEW h \in Handlers, Seed(h)
  PROVE  IInv'
  <1>1. /\ asking' \in [Handlers -> AskingType] /\ RequestsWait
        /\ left' = left /\ enabled' = enabled /\ crossed' = crossed
    BY EndedIs DEF Seed
  <1>2. BudgetTypeOK'
    BY <1>1, BudgetKept DEF IInv, PlaybookTypeOK
  <1>3. CASE revisions = <<>>
    <2>1. revisions' = Seeded /\ agreed' = {1} /\ latest' = 1 /\ DOMAIN revisions = {}
      BY <1>3 DEF Seed
    <2>2. PlaybookTypeOK' /\ agreed \subseteq agreed'
      BY <1>1, <1>2, <2>1, SeededIs DEF IInv, PlaybookTypeOK
    <2>3. PlaybookStands'
      <3>1. Numbered({"active"})' = {1} /\ DOMAIN revisions' = {1}
        BY <2>1, SeededIs DEF Numbered
      <3> QED BY <2>1, <3>1 DEF PlaybookStands, SomeInForce, OnlyAgreedInForce, LatestAloneInForce
    <2>4. \A o \in Handlers : RequestOK(asking[o])'
      BY <1>1, <2>1, <2>2, RequestsStand
    <2> QED BY <2>2, <2>3, <2>4 DEF IInv
  <1>4. CASE revisions # <<>>
    <2>1. revisions' = revisions /\ agreed' = agreed /\ latest' = latest
      BY <1>4 DEF Seed
    <2>2. PlaybookTypeOK'
      BY <1>1, <1>2, <2>1 DEF IInv, PlaybookTypeOK
    <2>3. PlaybookStands'
      BY <1>1, <2>1 DEF IInv, PlaybookStands, SomeInForce, OnlyAgreedInForce, LatestAloneInForce, Numbered
    <2>4. \A o \in Handlers : RequestOK(asking[o])'
      BY <1>1, <2>1, RequestsStand
    <2> QED BY <2>2, <2>3, <2>4 DEF IInv
  <1> QED BY <1>3, <1>4

LEMMA RestoreStep ==
  ASSUME IInv, NEW h \in Handlers, Restore(h)
  PROVE  IInv'
  <1> DEFINE broken == asking[h].revision
             good == LastValid(broken, asking[h].keys)
  <1>1. /\ asking' \in [Handlers -> AskingType] /\ RequestsWait /\ asking[h].kind = "restore"
        /\ left' = left /\ enabled' = enabled /\ agreed' = agreed
    BY EndedIs DEF Restore
  <1>2. BudgetTypeOK'
    BY <1>1, BudgetKept DEF IInv, PlaybookTypeOK
  <1>3. broken \in agreed /\ broken \in DOMAIN revisions
    BY <1>1 DEF IInv, RequestOK, PlaybookTypeOK
  <1>4. CASE good = 0
    <2>1. revisions' = revisions /\ latest' = latest /\ crossed' = crossed
      BY <1>4 DEF Restore
    <2>2. PlaybookTypeOK'
      BY <1>1, <1>2, <2>1 DEF IInv, PlaybookTypeOK
    <2>3. PlaybookStands'
      BY <1>1, <2>1 DEF IInv, PlaybookStands, SomeInForce, OnlyAgreedInForce, LatestAloneInForce, Numbered
    <2>4. \A o \in Handlers : RequestOK(asking[o])'
      BY <1>1, <2>1, RequestsStand
    <2> QED BY <2>2, <2>3, <2>4 DEF IInv
  <1>5. CASE good # 0
    <2>1. /\ revisions' = FallenBack(broken, good) /\ latest' = good
          /\ crossed' = (crossed \/ Unread({broken, good}))
      BY <1>5 DEF Restore
    <2>2. good \in DOMAIN revisions /\ good # broken /\ good \in agreed
      BY <1>5, LastValidIs
    <2> HIDE DEF broken, good
    <2>3. /\ revisions' \in Seq(RevisionType) /\ Len(revisions') = Len(revisions)
          /\ \A n \in DOMAIN revisions :
               /\ revisions'[n].base = revisions[n].base
               /\ revisions'[n].status =
                    IF n = good THEN "active" ELSE IF n = broken THEN "invalid" ELSE revisions[n].status
      BY <1>3, <2>1, <2>2, FallenBackIs
    <2>4. DOMAIN revisions' = DOMAIN revisions /\ good \in Nat
      BY <2>2, <2>3, Numbers DEF IInv
    <2>5. PutsInForce(broken, good, "invalid")
      BY <2>3, <2>4 DEF PutsInForce
    <2>6. ~crossed' => ~crossed /\ latest' = good /\ Numbered({"active"}) \subseteq {broken, good}
      BY <2>1 DEF Unread
    <2>7. crossed' \in BOOLEAN
      BY <2>1 DEF IInv, PlaybookTypeOK
    <2>8. PlaybookTypeOK'
      BY <1>1, <1>2, <2>1, <2>3, <2>4, <2>7 DEF IInv, PlaybookTypeOK
    <2> QED BY <1>1, <1>3, <2>2, <2>5, <2>6, <2>8, InForceMoves DEF IInv
  <1> QED BY <1>4, <1>5

LEMMA AskConfirmStep ==
  ASSUME IInv, NEW h \in Handlers, NEW n \in DOMAIN revisions, AskConfirm(h, n)
  PROVE  IInv'
  <1> DEFINE q == [Idle EXCEPT !.kind = "confirm", !.revision = n, !.status = revisions[n].status]
  <1>1. revisions[n] \in RevisionType /\ n \in Nat
    BY Numbers DEF IInv
  <1>2. q \in AskingType /\ RequestOK(q)
    BY <1>1 DEF Idle, AskingType, RequestOK, RevisionType
  <1> QED BY <1>2, AskStep DEF AskConfirm

\* What a confirmation reads in force is there, since it confirms one of several.
LEMMA ReadCurrentStep ==
  ASSUME IInv, NEW h \in Handlers, ReadCurrent(h)
  PROVE  IInv'
  <1> DEFINE q == asking[h]
             write == [q EXCEPT !.kind = "write", !.current = InForce]
  <1>1. /\ revisions' = revisions /\ enabled' = enabled /\ left' = left
        /\ agreed' = agreed /\ latest' = latest /\ crossed' = crossed
    BY DEF ReadCurrent
  <1>2. q.kind = "confirm" /\ q \in AskingType /\ RequestOK(q)
    BY DEF ReadCurrent, IInv, PlaybookTypeOK
  <1>3. revisions # <<>>
    BY <1>2, Numbers DEF IInv, RequestOK
  <1>4. InForce \in agreed /\ InForce \in Nat /\ InForce # 0
    BY <1>3, InForceIs, Numbers DEF IInv
  <1>5. CASE Ended(h)
    <2>1. asking' \in [Handlers -> AskingType] /\ RequestsWait
      BY <1>5, EndedIs
    <2>2. \A o \in Handlers : RequestOK(asking[o])'
      BY <1>1, <2>1, RequestsStand
    <2> QED BY <1>1, <2>1, <2>2, BudgetKept
         DEF IInv, PlaybookTypeOK, PlaybookStands, SomeInForce, OnlyAgreedInForce, LatestAloneInForce, Numbered
  <1>6. CASE /\ ~(q.status = "proposed" /\ InForce # 0 /\ revisions[q.revision].base # InForce)
             /\ asking' = [asking EXCEPT ![h] = write]
    <2>1. write \in AskingType /\ RequestOK(write)
      BY <1>2, <1>4, <1>6 DEF RequestOK, AskingType
    <2>2. asking' \in [Handlers -> AskingType] /\ \A o \in Handlers : asking'[o] \in {asking[o], write}
      BY <1>6, <2>1 DEF IInv, PlaybookTypeOK
    <2> HIDE DEF write
    <2>3. \A o \in Handlers : RequestOK(asking[o])'
      BY <1>1, <2>1, <2>2 DEF IInv, RequestOK
    <2> QED BY <1>1, <2>2, <2>3, BudgetKept
         DEF IInv, PlaybookTypeOK, PlaybookStands, SomeInForce, OnlyAgreedInForce, LatestAloneInForce, Numbered
  <1>7. Ended(h) \/ asking' = [asking EXCEPT ![h] = write]
    BY DEF ReadCurrent, IInv, PlaybookTypeOK
  <1> QED BY <1>5, <1>6, <1>7 DEF ReadCurrent

LEMMA WriteConfirmedStep ==
  ASSUME IInv, NEW h \in Handlers, WriteConfirmed(h)
  PROVE  IInv'
  <1> DEFINE old == asking[h].current
             new == asking[h].revision
  <1>1. /\ asking' \in [Handlers -> AskingType] /\ RequestsWait /\ asking[h].kind = "write"
        /\ left' = left /\ enabled' = enabled
        /\ revisions' = Confirmed(old, new) /\ agreed' = agreed \cup {new} /\ latest' = new
        /\ crossed' = (crossed \/ Unread({old, new}))
    BY EndedIs DEF WriteConfirmed
  <1>2. BudgetTypeOK'
    BY <1>1, BudgetKept DEF IInv, PlaybookTypeOK
  <1>3. old \in agreed /\ new \in DOMAIN revisions
    BY <1>1 DEF IInv, RequestOK
  <1> HIDE DEF old, new
  <1>4. /\ revisions' \in Seq(RevisionType) /\ Len(revisions') = Len(revisions)
        /\ \A n \in DOMAIN revisions :
             /\ revisions'[n].base = revisions[n].base
             /\ revisions'[n].status =
                  IF n = new THEN "active" ELSE IF n = old THEN "superseded" ELSE revisions[n].status
    BY <1>1, ConfirmedIs
  <1>5. DOMAIN revisions' = DOMAIN revisions /\ new \in Nat
    BY <1>3, <1>4, Numbers DEF IInv
  <1>6. PutsInForce(old, new, "superseded")
    BY <1>4, <1>5 DEF PutsInForce
  <1>7. ~crossed' => ~crossed /\ latest' = new /\ Numbered({"active"}) \subseteq {old, new}
    BY <1>1 DEF Unread
  <1>8. crossed' \in BOOLEAN
    BY <1>1 DEF IInv, PlaybookTypeOK
  <1>9. PlaybookTypeOK'
    BY <1>1, <1>2, <1>3, <1>4, <1>5, <1>8 DEF IInv, PlaybookTypeOK
  <1> QED BY <1>1, <1>3, <1>6, <1>7, <1>9, InForceMoves DEF IInv

-----------------------------------------------------------------------------
(* The theorems                                                               *)

LEMMA Starts == PlaybookInit /\ BudgetInit => IInv
  <1> SUFFICES ASSUME PlaybookInit, BudgetInit PROVE IInv
    OBVIOUS
  <1>1. revisions = <<>> /\ DOMAIN revisions = {} /\ revisions \in Seq(RevisionType)
    BY DEF PlaybookInit
  <1>2. BudgetTypeOK
    BY BudgetAssumption DEF BudgetInit, BudgetTypeOK
  <1>3. asking \in [Handlers -> AskingType] /\ \A h \in Handlers : RequestOK(asking[h])
    BY DEF PlaybookInit, Idle, AskingType, RequestOK
  <1>4. PlaybookTypeOK
    BY <1>1, <1>2, <1>3, PlaybookAssumption DEF PlaybookInit, PlaybookTypeOK
  <1>5. PlaybookStands
    BY <1>1 DEF PlaybookStands, SomeInForce, OnlyAgreedInForce, LatestAloneInForce
  <1> QED BY <1>3, <1>4, <1>5 DEF IInv

LEMMA PlaybookUntouched ==
  ASSUME IInv, UNCHANGED playbookVars, BudgetTypeOK'
  PROVE  IInv'
  BY DEF playbookVars, IInv, PlaybookTypeOK, PlaybookStands, SomeInForce,
     OnlyAgreedInForce, LatestAloneInForce, Numbered, RequestOK

LEMMA Inductive == IInv /\ [PlaybookNext]_<<playbookVars, left>> => IInv'
  <1> SUFFICES ASSUME IInv, [PlaybookNext]_<<playbookVars, left>> PROVE IInv'
    OBVIOUS
  <1>1. CASE PlaybookNext
    BY <1>1, ReconfigureStep, ProposeStep, AskPlaybookStep, SeedStep, RestoreStep, AskConfirmStep,
       ReadCurrentStep, WriteConfirmedStep DEF PlaybookNext
  <1>2. CASE UNCHANGED <<playbookVars, left>>
    BY <1>2, PlaybookUntouched, BudgetKept DEF IInv, PlaybookTypeOK
  <1> QED BY <1>1, <1>2

\* Revisions, requests and budgets keep the shape the tables and the code give
\* them: what is agreed to is in the table, and a request knows of one row.
THEOREM PlaybookTypeCorrect == PlaybookSpec => []PlaybookTypeOK
  <1>1. IInv => PlaybookTypeOK
    BY DEF IInv
  <1> QED BY <1>1, Starts, Inductive, PTL DEF PlaybookSpec

\* Whatever is proposed, confirmed, restored and reconfigured, by any number of
\* requests, there is a playbook to work by, it was agreed to, and it is the last
\* agreed to unless a request wrote over one it had not read
\* (confirm_revision, read_active_playbook).
THEOREM PlaybookAlwaysStands == PlaybookSpec => []PlaybookStands
  <1>1. IInv => PlaybookStands
    BY DEF IInv
  <1> QED BY <1>1, Starts, Inductive, PTL DEF PlaybookSpec

\* A proposal that comes into force replaces what it was written against.
LEMMA UndoesNothing ==
  ASSUME IInv, [PlaybookNext]_<<playbookVars, left>>, NEW n \in DOMAIN revisions,
         revisions[n].status = "proposed", revisions'[n].status = "active", ~crossed'
  PROVE  revisions[n].base = latest
  <1>1. ASSUME NEW h \in Handlers, WriteConfirmed(h) PROVE revisions[n].base = latest
    <2> DEFINE old == asking[h].current
               new == asking[h].revision
    <2>1. /\ asking[h].kind = "write" /\ revisions' = Confirmed(old, new)
          /\ crossed' = (crossed \/ Unread({old, new}))
      BY <1>1 DEF WriteConfirmed
    <2>2. RequestOK(asking[h])
      BY DEF IInv
    <2>3. n = new
      <3> HIDE DEF old, new
      <3>1. revisions'[n].status =
              IF n = new THEN "active" ELSE IF n = old THEN "superseded" ELSE revisions[n].status
        BY <2>1, ConfirmedIs
      <3> QED BY <3>1
    <2>4. revisions[n].base = old
      BY <2>1, <2>2, <2>3 DEF RequestOK
    <2>5. revisions # <<>>
      BY Numbers DEF IInv
    <2>6. latest \in Numbered({"active"}) /\ Numbered({"active"}) \subseteq {old, new}
      BY <2>1, <2>5 DEF IInv, PlaybookStands, LatestAloneInForce, Unread
    <2>7. latest # new
      BY <2>3, <2>6 DEF Numbered
    <2> QED BY <2>4, <2>6, <2>7
  <1>2. ASSUME NEW h \in Handlers, Restore(h) PROVE FALSE
    <2> DEFINE broken == asking[h].revision
               good == LastValid(broken, asking[h].keys)
    <2>1. asking[h].kind = "restore" /\ RequestOK(asking[h])
      BY <1>2 DEF Restore, IInv
    <2>2. broken \in DOMAIN revisions
      BY <2>1 DEF RequestOK, IInv, PlaybookTypeOK
    <2>3. good # 0 /\ revisions' = FallenBack(broken, good)
      BY <1>2 DEF Restore
    <2>4. good \in DOMAIN revisions /\ good # broken /\ revisions[good].status # "proposed"
      BY <2>3, LastValidIs
    <2> HIDE DEF broken, good
    <2>5. revisions'[n].status =
            IF n = good THEN "active" ELSE IF n = broken THEN "invalid" ELSE revisions[n].status
      BY <2>2, <2>3, <2>4, FallenBackIs
    <2> QED BY <2>4, <2>5
  <1>3. ASSUME NEW key \in Capabilities, Propose(key) PROVE FALSE
    <2>1. revisions' = Proposed(RowsRead, Found, key) /\ Found # 0
      BY <1>3 DEF Propose, ReadPlaybook
    <2>2. DOMAIN revisions = 1..Len(revisions) /\ revisions # <<>>
      BY Numbers DEF IInv
    <2>3. /\ Len(RowsRead) = Len(revisions) /\ revisions[Found].status # "proposed"
          /\ RowsRead[n].status =
               IF n = Found THEN "active" ELSE IF n = InForce THEN "invalid" ELSE revisions[n].status
      BY <2>1, <2>2, ReadIs
    <2>4. \A m \in 1..Len(RowsRead) : revisions'[m] = RowsRead[m]
      BY <2>1, RowsReadOK, ProposedIs
    <2> QED BY <2>2, <2>3, <2>4
  <1>4. ASSUME NEW h \in Handlers, Seed(h) PROVE FALSE
    BY <1>4, Numbers DEF Seed, IInv
  <1>5. revisions' # revisions
    OBVIOUS
  <1>6. PlaybookNext
    BY <1>5 DEF playbookVars
  <1> QED BY <1>1, <1>2, <1>3, <1>4, <1>5, <1>6
       DEF PlaybookNext, Reconfigure, AskPlaybook, Ask, AskConfirm, ReadCurrent

\* A confirmation undoes nothing agreed to since its proposal was written
\* (confirm_revision), unless a request wrote over a revision it had not read.
THEOREM ConfirmationsUndoNothing == PlaybookSpec => NothingUndone
  <1> DEFINE Kept == \A n \in DOMAIN revisions :
       /\ revisions[n].status = "proposed" /\ revisions'[n].status = "active" /\ ~crossed'
       => revisions[n].base = latest
  <1>1. IInv /\ [PlaybookNext]_<<playbookVars, left>> => [Kept]_playbookVars
    BY UndoesNothing
  <1> QED BY <1>1, Starts, Inductive, PTL DEF PlaybookSpec, NothingUndone

-----------------------------------------------------------------------------
(* Sessions over the playbook                                                 *)

OpenStates == {"proposed", "in_progress"}
LeftStates == {"pending", "in_progress"}

\* Nothing is left to work.
NothingLeft(activity) == \A a \in Activities : activity[a] \notin LeftStates

\* A session that is completed has nothing left, save one put back in hand.
DoneOK(i) ==
  i \notin rewound /\ sessions[i].status = "completed" => NothingLeft(sessions[i].activity)

\* What a request makes of the columns it read: activities go forward, a session
\* is completed only with nothing left, and put under way only from there.
MadeOf(was, has) ==
  /\ \A a \in Activities :
       \/ has.activity[a] \in {was.activity[a], "completed"}
       \/ was.activity[a] = "pending" /\ has.activity[a] = "in_progress"
  /\ has.status = "completed" /\ was.status # "completed" => NothingLeft(has.activity)
  /\ has.status \in OpenStates => was.status \in OpenStates

\* What a request loaded is a session that is there, and what it read as done is
\* done, unless another put it back in hand.
WorkingOK(w) ==
  /\ w.kind # "idle" =>
       /\ w.session \in DOMAIN sessions /\ w.was.status \in SessionStatuses
       /\ w.kind = "activity" => w.activity \in Activities
  /\ w.kind \in {"finish", "write", "hold"} =>
       /\ MadeOf(w.was, w.has) /\ w.has.status \in SessionStatuses
       /\ w.was.activity \in [Activities -> ActivityStates]
       /\ w.has.activity \in [Activities -> ActivityStates]
       /\ w.kind = "finish" => w.has.status = w.was.status
       /\ w.session \notin rewound =>
            \A a \in Activities :
              w.was.activity[a] \notin LeftStates => sessions[w.session].activity[a] \notin LeftStates

\* A session under way is the last one, save those overtaken.
LastUnderWay == \A i \in Open \ overtaken : i = Len(sessions)

SessionInv ==
  /\ AssistantTypeOK /\ LastUnderWay /\ PinnedWasAgreed
  /\ \A i \in DOMAIN sessions : DoneOK(i)
  /\ \A h \in Handlers : WorkingOK(working[h])

AssistantInv == IInv /\ SessionInv

-----------------------------------------------------------------------------
(* One session                                                                *)

\* FirstIn finds an activity of those states, and none only where there is none.
LEMMA FirstInIs ==
  ASSUME NEW s \in SessionType, NEW states
  PROVE  /\ FirstIn(s, states) \in Activities \cup {NoActivity}
         /\ FirstIn(s, states) = NoActivity <=> \A a \in Activities : s.activity[a] \notin states
  <1> DEFINE at == {k \in DOMAIN s.order : s.activity[s.order[k]] \in states}
  <1>1. s.order \in Seq(Activities) /\ {s.order[k] : k \in DOMAIN s.order} = Activities
    BY SessionAssumption DEF SessionType
  <1>2. at \subseteq Nat /\ \A k \in at : s.order[k] \in Activities
    BY <1>1
  <1>3. CASE at = {}
    BY <1>1, <1>3 DEF FirstIn
  <1>4. CASE at # {}
    <2>1. \E k \in at : \A j \in at : k <= j
      <3> HIDE DEF at
      <3> QED BY <1>2, <1>4, Smallest
    <2>2. PICK k \in at : FirstIn(s, states) = s.order[k]
      <3>1. FirstIn(s, states) = s.order[CHOOSE k \in at : \A j \in at : k <= j]
        BY <1>4 DEF FirstIn
      <3> HIDE DEF at
      <3> QED BY <2>1, <3>1
    <2> QED BY <1>2, <1>4, <2>2, SessionAssumption
  <1> QED BY <1>3, <1>4

\* The same of what is left.
LEMMA LeftIs ==
  ASSUME NEW s \in SessionType
  PROVE  FirstIn(s, LeftStates) = NoActivity <=> NothingLeft(s.activity)
  BY FirstInIs DEF NothingLeft

LEMMA UnderWayIs ==
  ASSUME NEW status \in SessionStatuses
  PROVE  /\ UnderWay(status) \in SessionStatuses
         /\ UnderWay(status) = "completed" <=> status = "completed"
         /\ UnderWay(status) \in OpenStates => status \in OpenStates
  BY DEF UnderWay, SessionStatuses, OpenStates

\* A session that is made of another.
SessionMadeOf(s, made) == made \in SessionType /\ made.pinned = s.pinned /\ MadeOf(s, made)

LEMMA BegunActivityMakes ==
  ASSUME NEW s \in SessionType, NEW a \in Activities
  PROVE  SessionMadeOf(s, BegunActivity(s, a))
  <1> DEFINE made == BegunActivity(s, a)
  <1>1. /\ made \in SessionType /\ made.pinned = s.pinned /\ made.status = UnderWay(s.status)
        /\ \A b \in Activities :
             made.activity[b] = IF b = a /\ s.activity[a] = "pending" THEN "in_progress" ELSE s.activity[b]
    BY UnderWayIs DEF BegunActivity, SessionType, ActivityStates
  <1>2. s.status \in SessionStatuses
    BY DEF SessionType
  <1> HIDE DEF made
  <1>3. MadeOf(s, made)
    BY <1>1, <1>2, UnderWayIs DEF MadeOf
  <1> QED BY <1>1, <1>3 DEF SessionMadeOf, made

LEMMA FinishedMakes ==
  ASSUME NEW s \in SessionType
  PROVE  SessionMadeOf(s, WithFinished(s)) /\ WithFinished(s).status = s.status
  <1> DEFINE made == WithFinished(s)
  <1>1. /\ made \in SessionType /\ made.pinned = s.pinned /\ made.status = s.status
        /\ \A a \in Activities : made.activity[a] \in {s.activity[a], "completed"}
    BY DEF WithFinished, SessionType, ActivityStates
  <1> HIDE DEF made
  <1>2. MadeOf(s, made)
    BY <1>1 DEF MadeOf
  <1> QED BY <1>1, <1>2 DEF SessionMadeOf, made

\* The session is completed with the last of its activities.
LEMMA MovedOnIs ==
  ASSUME NEW s \in SessionType
  PROVE  /\ MovedOn(s) \in SessionType /\ MovedOn(s).pinned = s.pinned
         /\ MovedOn(s).activity = s.activity
         /\ MovedOn(s).status = IF NothingLeft(s.activity) THEN "completed" ELSE s.status
  <1> DEFINE next == FirstIn(s, LeftStates)
  <1>1. next \in Activities \cup {NoActivity} /\ (next = NoActivity <=> NothingLeft(s.activity))
    BY FirstInIs, LeftIs
  <1>2. MovedOn(s) = [s EXCEPT !.status = IF next = NoActivity THEN "completed" ELSE @, !.current = next]
    BY DEF MovedOn, LeftStates
  <1> HIDE DEF next
  <1> QED BY <1>1, <1>2 DEF SessionType, SessionStatuses

\* What was made of a session without completing it may be moved on.
LEMMA MovedOnMakes ==
  ASSUME NEW was, NEW s \in SessionType, MadeOf(was, s), s.status # "completed" \/ was.status = "completed"
  PROVE  MadeOf(was, MovedOn(s))
  BY MovedOnIs DEF MadeOf, OpenStates

LEMMA BegunMakes ==
  ASSUME NEW s \in SessionType
  PROVE  SessionMadeOf(s, Begun(s))
  <1> DEFINE first == IF s.current # NoActivity THEN s.current ELSE FirstIn(s, {"pending"})
             opened == [s EXCEPT !.status = UnderWay(@)]
             done == WithFinished(opened)
  <1>1. first \in Activities \cup {NoActivity}
    BY FirstInIs DEF SessionType
  <1>2. Begun(s) = IF first = NoActivity THEN MovedOn(done) ELSE BegunActivity(opened, first)
    BY DEF Begun
  <1>3. /\ opened \in SessionType /\ opened.pinned = s.pinned /\ opened.activity = s.activity
        /\ opened.status = UnderWay(s.status) /\ s.status \in SessionStatuses
    BY UnderWayIs DEF SessionType
  <1> HIDE DEF first, opened
  <1>4. SessionMadeOf(opened, done) /\ done.status = opened.status
    BY <1>3, FinishedMakes
  <1> HIDE DEF done
  <1>5. CASE first # NoActivity
    <2>1. SessionMadeOf(opened, Begun(s))
      BY <1>1, <1>2, <1>3, <1>5, BegunActivityMakes
    <2> QED BY <1>3, <2>1, UnderWayIs DEF SessionMadeOf, MadeOf
  <1>6. CASE first = NoActivity
    <2>1. MadeOf(s, done) /\ done \in SessionType /\ done.pinned = s.pinned
      BY <1>3, <1>4, UnderWayIs DEF SessionMadeOf, MadeOf
    <2>2. done.status # "completed" \/ s.status = "completed"
      BY <1>3, <1>4, UnderWayIs
    <2>3. MadeOf(s, MovedOn(done))
      BY <2>1, <2>2, MovedOnMakes
    <2> QED BY <1>2, <1>6, <2>1, <2>3, MovedOnIs DEF SessionMadeOf
  <1> QED BY <1>5, <1>6

\* The columns of a session.
LEMMA ColumnsAre ==
  ASSUME NEW s \in SessionType
  PROVE  /\ Columns(s) \in ColumnsType
         /\ Columns(s).status = s.status /\ Columns(s).activity = s.activity
         /\ s.status \in SessionStatuses /\ s.activity \in [Activities -> ActivityStates]
         /\ RowAlone(s) \in ColumnsType /\ RowAlone(s).status = s.status
  <1>1. /\ s.status \in SessionStatuses /\ s.current \in Activities \cup {NoActivity}
        /\ s.activity \in [Activities -> ActivityStates]
    BY DEF SessionType
  <1>2. s.activity \in [Activities -> ActivityStates \cup {"unread"}]
    BY <1>1
  <1>3. [a \in Activities |-> "unread"] \in [Activities -> ActivityStates \cup {"unread"}]
    OBVIOUS
  <1>4. Columns(s) = [status |-> s.status, current |-> s.current, activity |-> s.activity]
    BY DEF Columns
  <1>5. RowAlone(s) = [status |-> s.status, current |-> s.current,
                       activity |-> [a \in Activities |-> "unread"]]
    BY <1>4 DEF RowAlone
  <1> QED BY <1>1, <1>2, <1>3, <1>4, <1>5 DEF ColumnsType

\* What is written of a session: each column from one side or the other.
LEMMA WrittenIs ==
  ASSUME NEW now \in SessionType, NEW was \in ColumnsType, NEW has \in ColumnsType,
         has.status \in SessionStatuses, has.activity \in [Activities -> ActivityStates]
  PROVE  LET row == Written(now, was, has) IN
         /\ row \in SessionType /\ row.pinned = now.pinned
         /\ row.status = IF has.status = was.status THEN now.status ELSE has.status
         /\ \A a \in Activities :
              row.activity[a] = IF has.activity[a] = was.activity[a] THEN now.activity[a] ELSE has.activity[a]
  BY DEF Written, SessionType, ColumnsType

\* What was done stays done, unless it is put back in hand.
LEMMA WrittenKeeps ==
  ASSUME NEW now \in SessionType, NEW was \in ColumnsType, NEW has \in ColumnsType,
         has.status \in SessionStatuses, has.activity \in [Activities -> ActivityStates],
         was.status \in SessionStatuses, MadeOf(was, has), ~Rewinds(now, was, has)
  PROVE  LET row == Written(now, was, has) IN
         /\ \A a \in Activities : now.activity[a] \notin LeftStates => row.activity[a] \notin LeftStates
         /\ (/\ now.status = "completed" => NothingLeft(now.activity)
             /\ \A a \in Activities :
                  was.activity[a] \notin LeftStates => now.activity[a] \notin LeftStates
             /\ row.status = "completed") => NothingLeft(row.activity)
  <1> DEFINE row == Written(now, was, has)
  <1>1. /\ row.status = IF has.status = was.status THEN now.status ELSE has.status
        /\ \A a \in Activities :
             row.activity[a] = IF has.activity[a] = was.activity[a] THEN now.activity[a] ELSE has.activity[a]
    BY WrittenIs
  <1> HIDE DEF row
  <1>2. \A a \in Activities : now.activity[a] \notin LeftStates => row.activity[a] \notin LeftStates
    BY <1>1 DEF MadeOf, Rewinds, LeftStates
  <1>3. ASSUME now.status = "completed" => NothingLeft(now.activity), row.status = "completed",
               \A a \in Activities : was.activity[a] \notin LeftStates => now.activity[a] \notin LeftStates
        PROVE  NothingLeft(row.activity)
    <2>1. CASE now.status = "completed"
      BY <1>2, <1>3, <2>1 DEF NothingLeft
    <2>2. CASE now.status # "completed"
      <3>1. NothingLeft(has.activity)
        BY <1>1, <1>3, <2>2 DEF MadeOf
      <3> QED BY <1>1, <1>3, <3>1 DEF NothingLeft
    <2> QED BY <2>1, <2>2
  <1> QED BY <1>2, <1>3 DEF row

-----------------------------------------------------------------------------
(* Opening                                                                    *)

LEMMA SessionsAre ==
  ASSUME SessionInv
  PROVE  /\ sessions \in Seq(SessionType) /\ Len(sessions) \in Nat
         /\ DOMAIN sessions = 1..Len(sessions)
         /\ \A i \in DOMAIN sessions : sessions[i] \in SessionType
  <1>1. sessions \in Seq(SessionType)
    BY DEF SessionInv, AssistantTypeOK
  <1> QED BY <1>1

\* A new session is one, with everything it lists to do or set aside.
LEMMA NewSessionOK ==
  ASSUME NEW order \in Orders, NEW aside \in Asides, NEW standing \in {"open", "completed"},
         Found \in Nat
  PROVE  LET row == NewSession(order, aside, standing) IN
         row \in SessionType /\ row.pinned = Found /\ row.status = "proposed"
  BY DEF NewSession, Prepared, SessionType, SessionStatuses, ActivityStates, ReviewStates

\* Of the sessions under way the newest is set aside, which is the last one.
LEMMA LeftBehindOK ==
  ASSUME SessionInv, NEW reviewed \in BOOLEAN
  PROVE  LET rows == LeftBehind(reviewed) IN
         /\ rows \in Seq(SessionType) /\ Len(rows) = Len(sessions)
         /\ \A i \in DOMAIN sessions :
              /\ rows[i].pinned = sessions[i].pinned /\ rows[i].activity = sessions[i].activity
              /\ rows[i].status = "completed" => sessions[i].status = "completed"
              /\ rows[i].status \in OpenStates => i \in overtaken
  <1> DEFINE rows == LeftBehind(reviewed)
             newest == Newest(Open)
  <1>1. /\ Len(sessions) \in Nat /\ DOMAIN sessions = 1..Len(sessions)
        /\ \A i \in DOMAIN sessions : sessions[i] \in SessionType
    BY SessionsAre
  <1>2. \A i \in DOMAIN sessions :
          /\ rows[i] \in SessionType /\ rows[i].pinned = sessions[i].pinned
          /\ rows[i].status = IF i = newest THEN "abandoned" ELSE sessions[i].status
          /\ rows[i].activity = sessions[i].activity
    BY <1>1 DEF LeftBehind, SessionType, SessionStatuses, ReviewStates
  <1>3. rows \in [1..Len(sessions) -> SessionType]
    BY <1>1, <1>2 DEF LeftBehind
  <1>4. Open \subseteq 1..Len(sessions)
    BY <1>1 DEF Open
  <1>5. \A m \in Open : newest \in Open /\ m <= newest
    BY <1>1, <1>4, NewestIs
  <1> HIDE DEF rows, newest
  <1>6. ASSUME NEW i \in DOMAIN sessions, rows[i].status \in OpenStates PROVE i \in overtaken
    <2>1. i \in Open /\ i # newest
      BY <1>2, <1>6 DEF Open, OpenStates
    <2>2. i \notin overtaken => i = Len(sessions)
      BY <2>1 DEF SessionInv, LastUnderWay
    <2> QED BY <1>1, <1>4, <1>5, <2>1, <2>2
  <1>7. rows \in Seq(SessionType) /\ Len(rows) = Len(sessions)
    BY <1>1, <1>3
  <1> QED BY <1>2, <1>6, <1>7 DEF rows

-----------------------------------------------------------------------------
(* The playbook under a session                                               *)

\* A request that reads the playbook and goes on to commit.
LEMMA ReadStep ==
  ASSUME IInv, ReadPlaybook, revisions' = RowsRead, BudgetTypeOK',
         enabled' = enabled, asking' = asking, crossed' = crossed
  PROVE  IInv' /\ Found \in agreed' /\ Found \in Nat /\ agreed \subseteq agreed'
  <1>1. RequestsWait /\ Found # 0 /\ agreed \subseteq agreed'
    BY DEF RequestsWait, ReadPlaybook
  <1>2. ReadKept
    BY DEF ReadKept
  <1>3. /\ PlaybookStands' /\ \A h \in Handlers : RequestOK(asking[h])'
        /\ agreed' \subseteq DOMAIN revisions' /\ latest' \in Nat /\ Found \in agreed'
    BY <1>1, <1>2, ReadMoves
  <1>4. revisions' \in Seq(RevisionType) /\ Found \in Nat
    BY <1>1, RowsReadOK
  <1> QED BY <1>1, <1>3, <1>4 DEF IInv, PlaybookTypeOK

\* What was agreed to stays so.
LEMMA AgreedGrows ==
  ASSUME IInv, PlaybookNext
  PROVE  agreed \subseteq agreed'
  <1>1. revisions = <<>> => agreed = {}
    BY Numbers DEF IInv, PlaybookTypeOK
  <1> QED BY <1>1 DEF PlaybookNext, Reconfigure, Propose, ReadPlaybook, AskPlaybook, Ask, Seed,
       Restore, AskConfirm, ReadCurrent, WriteConfirmed

-----------------------------------------------------------------------------
(* The steps                                                                  *)

LEMMA StartSessionStep ==
  ASSUME AssistantInv, NEW order \in Orders, NEW aside \in Asides, NEW standing \in {"open", "completed"},
         NEW auto \in BOOLEAN, StartSession(order, aside, standing, auto)
  PROVE  AssistantInv'
  <1> DEFINE row == NewSession(order, aside, standing)
             new == IF auto THEN Begun(row) ELSE row
             rows == LeftBehind(Email \notin aside)
  <1>1. /\ ReadPlaybook /\ revisions' = RowsRead /\ Spend("sessions")
        /\ enabled' = enabled /\ asking' = asking /\ crossed' = crossed
        /\ working' = working /\ overtaken' = overtaken /\ rewound' = rewound
        /\ sessions' = Append(rows, new)
    BY DEF StartSession
  <1>2. BudgetTypeOK'
    BY <1>1, SpendKept, SessionAssumption DEF AssistantInv, IInv, PlaybookTypeOK
  <1>3. IInv' /\ Found \in agreed' /\ Found \in Nat /\ agreed \subseteq agreed'
    BY <1>1, <1>2, ReadStep DEF AssistantInv
  <1>4. row \in SessionType /\ row.pinned = Found /\ row.status = "proposed"
    BY <1>3, NewSessionOK
  <1>5. /\ rows \in Seq(SessionType) /\ Len(rows) = Len(sessions)
        /\ \A i \in DOMAIN sessions :
             /\ rows[i].pinned = sessions[i].pinned /\ rows[i].activity = sessions[i].activity
             /\ rows[i].status = "completed" => sessions[i].status = "completed"
             /\ rows[i].status \in OpenStates => i \in overtaken
    BY LeftBehindOK DEF AssistantInv
  <1>6. Len(sessions) \in Nat /\ DOMAIN sessions = 1..Len(sessions)
    BY SessionsAre DEF AssistantInv
  <1> HIDE DEF row, rows
  <1>7. new \in SessionType /\ new.pinned = Found /\ (new.status = "completed" => NothingLeft(new.activity))
    <2>1. SessionMadeOf(row, Begun(row))
      BY <1>4, BegunMakes
    <2> QED BY <1>4, <2>1 DEF SessionMadeOf, MadeOf
  <1> HIDE DEF new
  <1>8. /\ sessions' \in Seq(SessionType) /\ Len(sessions') = Len(sessions) + 1
        /\ \A i \in DOMAIN sessions : sessions'[i] = rows[i]
        /\ sessions'[Len(sessions) + 1] = new
    BY <1>1, <1>5, <1>6, <1>7, AppendProperties
  <1>9. DOMAIN sessions' = 1..(Len(sessions) + 1)
    BY <1>6, <1>8
  <1>10. AssistantTypeOK'
    BY <1>1, <1>3, <1>6, <1>8, <1>9 DEF AssistantInv, SessionInv, AssistantTypeOK, IInv
  <1>11. LastUnderWay'
    <2>1. ASSUME NEW i \in Open', i \notin overtaken PROVE i = Len(sessions')
      <3>1. i \in DOMAIN sessions' /\ sessions'[i].status \in OpenStates
        BY DEF Open, OpenStates
      <3> QED BY <1>5, <1>6, <1>8, <1>9, <2>1, <3>1
    <2> QED BY <1>1, <2>1 DEF LastUnderWay
  <1>12. PinnedWasAgreed'
    <2>1. ASSUME NEW i \in DOMAIN sessions' PROVE sessions'[i].pinned \in agreed'
      <3>1. i \in DOMAIN sessions \/ i = Len(sessions) + 1
        BY <1>6, <1>9
      <3> QED BY <1>3, <1>5, <1>7, <1>8, <3>1 DEF AssistantInv, SessionInv, PinnedWasAgreed
    <2> QED BY <2>1 DEF PinnedWasAgreed
  <1>13. ASSUME NEW i \in DOMAIN sessions' PROVE DoneOK(i)'
    <2>1. i \in DOMAIN sessions \/ i = Len(sessions) + 1
      BY <1>6, <1>9
    <2>2. i \in DOMAIN sessions => DoneOK(i)
      BY DEF AssistantInv, SessionInv
    <2>3. i \notin rewound /\ sessions'[i].status = "completed" => NothingLeft(sessions'[i].activity)
      BY <1>5, <1>7, <1>8, <2>1, <2>2 DEF DoneOK, NothingLeft
    <2> QED BY <1>1, <2>3 DEF DoneOK, NothingLeft
  <1>14. ASSUME NEW h \in Handlers PROVE WorkingOK(working[h])'
    <2>1. WorkingOK(working[h])
      BY DEF AssistantInv, SessionInv
    <2>2. \A i \in DOMAIN sessions : i \in DOMAIN sessions' /\ sessions'[i].activity = sessions[i].activity
      BY <1>5, <1>6, <1>8, <1>9
    <2> QED BY <1>1, <2>1, <2>2 DEF WorkingOK, MadeOf, NothingLeft
  <1> QED BY <1>3, <1>10, <1>11, <1>12, <1>13, <1>14 DEF AssistantInv, SessionInv

\* Sessions are as they were, and requests know of them what they may.
LEMMA SessionsKept ==
  ASSUME AssistantInv, IInv', agreed \subseteq agreed',
         sessions' = sessions, overtaken' = overtaken, rewound' = rewound,
         working' \in [Handlers -> WorkingType], \A h \in Handlers : WorkingOK(working'[h])
  PROVE  AssistantInv'
  <1>1. AssistantTypeOK' /\ LastUnderWay' /\ PinnedWasAgreed'
    BY DEF AssistantInv, SessionInv, AssistantTypeOK, IInv, LastUnderWay, Open, PinnedWasAgreed
  <1>2. \A i \in DOMAIN sessions' : DoneOK(i)'
    BY DEF AssistantInv, SessionInv, DoneOK, NothingLeft
  <1>3. \A h \in Handlers : WorkingOK(working[h])'
    BY DEF WorkingOK, MadeOf, NothingLeft
  <1> QED BY <1>1, <1>2, <1>3 DEF AssistantInv, SessionInv

\* A request learns something of its session.
LEMMA RequestLearns ==
  ASSUME AssistantInv, IInv', agreed \subseteq agreed', NEW h \in Handlers, NEW w \in WorkingType,
         WorkingOK(w), working' = [working EXCEPT ![h] = w],
         sessions' = sessions, overtaken' = overtaken, rewound' = rewound
  PROVE  AssistantInv'
  <1>1. working \in [Handlers -> WorkingType] /\ \A o \in Handlers : WorkingOK(working[o])
    BY DEF AssistantInv, SessionInv, AssistantTypeOK
  <1>2. working' \in [Handlers -> WorkingType] /\ \A o \in Handlers : working'[o] \in {working[o], w}
    BY <1>1
  <1>3. \A o \in Handlers : WorkingOK(working'[o])
    BY <1>1, <1>2
  <1> QED BY <1>2, <1>3, SessionsKept

LEMMA IdleOK == NotWorking \in WorkingType /\ WorkingOK(NotWorking)
  <1> DEFINE nothing == [status |-> "none", current |-> NoActivity, activity |-> [a \in Activities |-> "unread"]]
  <1>1. nothing \in ColumnsType
    BY DEF ColumnsType
  <1>2. NotWorking = [kind |-> "idle", session |-> 0, activity |-> NoActivity, was |-> nothing, has |-> nothing]
    BY DEF NotWorking
  <1> HIDE DEF nothing
  <1> QED BY <1>1, <1>2 DEF WorkingType, WorkingOK

\* A request loads a session that is there.
LEMMA LoadSessionStep ==
  ASSUME AssistantInv, NEW h \in Handlers, NEW i \in DOMAIN sessions,
         NEW kind \in {"begin", "activity", "advance"}, NEW a \in Activities \cup {NoActivity},
         kind = "activity" => a \in Activities, LoadSession(h, i, kind, a)
  PROVE  AssistantInv'
  <1> DEFINE w == [kind |-> kind, session |-> i, activity |-> a,
                   was |-> RowAlone(sessions[i]), has |-> RowAlone(sessions[i])]
  <1>1. /\ Spend("works") /\ working' = [working EXCEPT ![h] = w]
        /\ UNCHANGED playbookVars /\ sessions' = sessions /\ overtaken' = overtaken /\ rewound' = rewound
    BY DEF LoadSession
  <1>2. BudgetTypeOK'
    BY <1>1, SpendKept, SessionAssumption DEF AssistantInv, IInv, PlaybookTypeOK
  <1>3. IInv' /\ agreed' = agreed
    BY <1>1, <1>2, PlaybookUntouched DEF AssistantInv, playbookVars
  <1>4. i \in Nat /\ sessions[i] \in SessionType
    BY SessionsAre DEF AssistantInv
  <1>5. RowAlone(sessions[i]) \in ColumnsType /\ RowAlone(sessions[i]).status \in SessionStatuses
    BY <1>4, ColumnsAre
  <1>6. w \in WorkingType /\ WorkingOK(w)
    BY <1>4, <1>5 DEF WorkingType, WorkingOK
  <1> HIDE DEF w
  <1> QED BY <1>1, <1>3, <1>6, RequestLearns

\* The session a request reads is one, with its columns as loaded.
LEMMA AsLoadedIs ==
  ASSUME AssistantInv, NEW h \in Handlers, working[h].kind # "idle"
  PROVE  LET i == working[h].session IN
         /\ i \in DOMAIN sessions /\ i \in Nat /\ sessions[i] \in SessionType
         /\ AsLoaded(h) \in SessionType
         /\ AsLoaded(h).status = working[h].was.status /\ AsLoaded(h).activity = sessions[i].activity
         /\ AsLoaded(h) = [sessions[i] EXCEPT !.status = working[h].was.status,
                                              !.current = working[h].was.current]
         /\ working[h] \in WorkingType /\ WorkingOK(working[h])
         /\ working[h].was.current \in Activities \cup {NoActivity}
  <1> DEFINE i == working[h].session
  <1>1. working[h] \in WorkingType /\ WorkingOK(working[h])
    BY DEF AssistantInv, SessionInv, AssistantTypeOK
  <1>2. /\ i \in DOMAIN sessions /\ working[h].was.status \in SessionStatuses
        /\ working[h].was.current \in Activities \cup {NoActivity}
    BY <1>1 DEF WorkingOK, WorkingType, ColumnsType
  <1>3. i \in Nat /\ sessions[i] \in SessionType
    BY <1>2, SessionsAre DEF AssistantInv
  <1>4. AsLoaded(h) = [sessions[i] EXCEPT !.status = working[h].was.status,
                                          !.current = working[h].was.current]
    BY DEF AsLoaded
  <1> HIDE DEF i
  <1> QED BY <1>1, <1>2, <1>3, <1>4 DEF SessionType, i

\* A request reads the activities, and learns what it will write of them.
LEMMA ReadsStep ==
  ASSUME AssistantInv, NEW h \in Handlers, working[h].kind \in {"begin", "activity", "advance"},
         NEW kind \in {"finish", "write", "hold"}, NEW has \in SessionType, Reads(h, kind, has),
         MadeOf(AsLoaded(h), has), kind = "finish" => has.status = AsLoaded(h).status
  PROVE  AssistantInv'
  <1> DEFINE w == [kind |-> kind, session |-> working[h].session, activity |-> working[h].activity,
                   was |-> Columns(AsLoaded(h)), has |-> Columns(has)]
  <1>1. /\ ReadPlaybook /\ revisions' = RowsRead /\ left' = left
        /\ enabled' = enabled /\ asking' = asking /\ crossed' = crossed
        /\ working' = [working EXCEPT ![h] = w]
        /\ sessions' = sessions /\ overtaken' = overtaken /\ rewound' = rewound
    BY DEF Reads, Makes
  <1>2. BudgetTypeOK'
    BY <1>1, BudgetKept DEF AssistantInv, IInv, PlaybookTypeOK
  <1>3. IInv' /\ agreed \subseteq agreed'
    BY <1>1, <1>2, ReadStep DEF AssistantInv
  <1>4. /\ working[h].session \in DOMAIN sessions /\ working[h].session \in Nat
        /\ AsLoaded(h) \in SessionType /\ AsLoaded(h).activity = sessions[working[h].session].activity
        /\ working[h] \in WorkingType
    BY AsLoadedIs
  <1>5. working[h].activity \in Activities \cup {NoActivity}
    BY <1>4 DEF WorkingType
  <1> DEFINE was == Columns(AsLoaded(h))
             made == Columns(has)
  <1>6. /\ was \in ColumnsType /\ made \in ColumnsType
        /\ was.status \in SessionStatuses /\ made.status \in SessionStatuses
        /\ was.status = AsLoaded(h).status /\ made.status = has.status
        /\ was.activity = AsLoaded(h).activity /\ made.activity = has.activity
        /\ was.activity \in [Activities -> ActivityStates] /\ made.activity \in [Activities -> ActivityStates]
    BY <1>4, ColumnsAre
  <1>7. MadeOf(was, made)
    BY <1>6 DEF MadeOf
  <1>8. w = [kind |-> kind, session |-> working[h].session, activity |-> working[h].activity,
             was |-> was, has |-> made]
    OBVIOUS
  <1> HIDE DEF w, was, made
  <1>9. w \in WorkingType
    BY <1>4, <1>5, <1>6, <1>8 DEF WorkingType
  <1>10. WorkingOK(w)
    BY <1>4, <1>6, <1>7, <1>8 DEF WorkingOK
  <1> QED BY <1>1, <1>3, <1>9, <1>10, RequestLearns

LEMMA ReadSessionStep ==
  ASSUME AssistantInv, NEW h \in Handlers, ReadBegin(h) \/ ReadActivity(h) \/ ReadAdvance(h)
  PROVE  AssistantInv'
  <1> DEFINE s == AsLoaded(h)
  <1>1. working[h].kind \in {"begin", "activity", "advance"}
    BY DEF ReadBegin, ReadActivity, ReadAdvance
  <1>2. s \in SessionType /\ WorkingOK(working[h])
    BY <1>1, AsLoadedIs
  <1>3. CASE ReadBegin(h)
    <2>1. PICK kind \in {"hold", "write"} : Reads(h, kind, Begun(s))
      BY <1>3 DEF ReadBegin
    <2>2. SessionMadeOf(s, Begun(s))
      BY <1>2, BegunMakes
    <2> QED BY <1>1, <2>1, <2>2, ReadsStep DEF SessionMadeOf
  <1>4. CASE ReadActivity(h)
    <2>1. working[h].activity \in Activities /\ Reads(h, "write", BegunActivity(s, working[h].activity))
      BY <1>2, <1>4 DEF ReadActivity, WorkingOK
    <2>2. SessionMadeOf(s, BegunActivity(s, working[h].activity))
      BY <1>2, <2>1, BegunActivityMakes
    <2> QED BY <1>1, <2>1, <2>2, ReadsStep DEF SessionMadeOf
  <1>5. CASE ReadAdvance(h)
    <2>1. Reads(h, "finish", WithFinished(s))
      BY <1>5 DEF ReadAdvance
    <2>2. SessionMadeOf(s, WithFinished(s)) /\ WithFinished(s).status = s.status
      BY <1>2, FinishedMakes
    <2> QED BY <1>1, <2>1, <2>2, ReadsStep DEF SessionMadeOf
  <1> QED BY <1>3, <1>4, <1>5

\* An advance reads what remains, as it is by now or as it has it.
LEMMA ReadRemainingStep ==
  ASSUME AssistantInv, NEW h \in Handlers, ReadRemaining(h)
  PROVE  AssistantInv'
  <1> DEFINE i == working[h].session
             was == working[h].was
             has == working[h].has
             Knowing(again, known) ==
               [AsLoaded(h) EXCEPT !.activity = [a \in Activities |-> IF a \in again THEN @[a] ELSE known[a]]]
  <1>1. /\ working[h].kind = "finish" /\ UNCHANGED playbookVars /\ left' = left
        /\ sessions' = sessions /\ overtaken' = overtaken /\ rewound' = rewound
    BY DEF ReadRemaining
  <1>2. PICK again \in SUBSET {a \in Activities : has.activity[a] = was.activity[a]} :
          Makes(h, "write", Knowing(again, was.activity), MovedOn(Knowing(again, has.activity)))
    BY DEF ReadRemaining
  <1>3. /\ i \in DOMAIN sessions /\ i \in Nat /\ sessions[i] \in SessionType
        /\ AsLoaded(h) \in SessionType /\ AsLoaded(h).status = was.status
        /\ AsLoaded(h).activity = sessions[i].activity
        /\ working[h] \in WorkingType /\ WorkingOK(working[h])
    BY <1>1, AsLoadedIs
  <1>4. /\ MadeOf(was, has) /\ has.status = was.status /\ was.status \in SessionStatuses
        /\ was.activity \in [Activities -> ActivityStates] /\ has.activity \in [Activities -> ActivityStates]
        /\ i \notin rewound => \A a \in Activities :
             was.activity[a] \notin LeftStates => sessions[i].activity[a] \notin LeftStates
    BY <1>1, <1>3 DEF WorkingOK
  <1>5. working[h].activity \in Activities \cup {NoActivity}
    BY <1>3 DEF WorkingType
  <1> DEFINE read == Knowing(again, was.activity)
             known == Knowing(again, has.activity)
             made == MovedOn(known)
             w == [kind |-> "write", session |-> i, activity |-> working[h].activity,
                   was |-> Columns(read), has |-> Columns(made)]
  <1>6. working' = [working EXCEPT ![h] = w]
    BY <1>2 DEF Makes
  <1>7. ASSUME NEW f \in [Activities -> ActivityStates]
        PROVE  /\ Knowing(again, f) \in SessionType /\ Knowing(again, f).status = was.status
               /\ \A a \in Activities :
                    Knowing(again, f).activity[a] = IF a \in again THEN sessions[i].activity[a] ELSE f[a]
    BY <1>3 DEF SessionType
  <1>8. /\ read \in SessionType /\ read.status = was.status /\ known \in SessionType
        /\ known.status = was.status
        /\ \A a \in Activities :
             /\ read.activity[a] = IF a \in again THEN sessions[i].activity[a] ELSE was.activity[a]
             /\ known.activity[a] = IF a \in again THEN sessions[i].activity[a] ELSE has.activity[a]
    BY <1>4, <1>7
  <1> HIDE DEF Knowing, read, known
  <1>9. MadeOf(read, known)
    BY <1>4, <1>8 DEF MadeOf, OpenStates
  <1>10. MadeOf(read, made)
    BY <1>8, <1>9, MovedOnMakes
  <1>11. made \in SessionType
    BY <1>8, MovedOnIs
  <1> HIDE DEF made
  <1> DEFINE before == Columns(read)
             after == Columns(made)
  <1>12. /\ before \in ColumnsType /\ after \in ColumnsType
         /\ before.status \in SessionStatuses /\ after.status \in SessionStatuses
         /\ before.status = read.status /\ after.status = made.status
         /\ before.activity = read.activity /\ after.activity = made.activity
         /\ before.activity \in [Activities -> ActivityStates]
         /\ after.activity \in [Activities -> ActivityStates]
    BY <1>8, <1>11, ColumnsAre
  <1>13. MadeOf(before, after)
    BY <1>10, <1>12 DEF MadeOf
  <1>14. i \notin rewound => \A a \in Activities :
           before.activity[a] \notin LeftStates => sessions[i].activity[a] \notin LeftStates
    BY <1>4, <1>8, <1>12
  <1>15. w = [kind |-> "write", session |-> i, activity |-> working[h].activity, was |-> before, has |-> after]
    OBVIOUS
  <1> HIDE DEF w, before, after
  <1>16. w \in WorkingType
    BY <1>3, <1>5, <1>12, <1>15 DEF WorkingType
  <1>17. WorkingOK(w)
    BY <1>3, <1>12, <1>13, <1>14, <1>15 DEF WorkingOK
  <1>18. IInv' /\ agreed' = agreed
    BY <1>1, PlaybookUntouched, BudgetKept DEF AssistantInv, IInv, PlaybookTypeOK, playbookVars
  <1> QED BY <1>1, <1>6, <1>16, <1>17, <1>18, RequestLearns

\* One session is replaced by another that is as far from being under way again,
\* and in which what was done is done, unless it was put back in hand.
LEMMA SessionReplaced ==
  ASSUME AssistantInv, NEW i \in DOMAIN sessions, NEW row, sessions' = [sessions EXCEPT ![i] = row],
         row \in SessionType, row.pinned = sessions[i].pinned,
         overtaken \subseteq overtaken', overtaken' \subseteq DOMAIN sessions,
         rewound \subseteq rewound', rewound' \subseteq DOMAIN sessions,
         i \notin rewound' /\ row.status = "completed" => NothingLeft(row.activity),
         i \notin rewound' => \A a \in Activities :
           sessions[i].activity[a] \notin LeftStates => row.activity[a] \notin LeftStates,
         row.status \in OpenStates /\ sessions[i].status \notin OpenStates => i \in overtaken',
         IInv', agreed \subseteq agreed', working' \in [Handlers -> WorkingType],
         \A h \in Handlers : working'[h] \in {working[h], NotWorking}
  PROVE  AssistantInv'
  <1>1. /\ sessions \in Seq(SessionType) /\ Len(sessions) \in Nat /\ DOMAIN sessions = 1..Len(sessions)
    BY SessionsAre DEF AssistantInv
  <1>2. /\ sessions' \in Seq(SessionType) /\ Len(sessions') = Len(sessions)
        /\ DOMAIN sessions' = DOMAIN sessions
        /\ sessions'[i] = row /\ \A j \in DOMAIN sessions : j # i => sessions'[j] = sessions[j]
    BY <1>1
  <1>3. AssistantTypeOK'
    BY <1>2 DEF AssistantInv, SessionInv, AssistantTypeOK, IInv
  <1>4. LastUnderWay'
    <2>1. ASSUME NEW j \in Open', j \notin overtaken' PROVE j = Len(sessions')
      <3>1. j \in DOMAIN sessions /\ sessions'[j].status \in OpenStates /\ j \notin overtaken
        BY <1>2, <2>1 DEF Open, OpenStates
      <3>2. sessions[j].status \in OpenStates
        BY <1>2, <2>1, <3>1
      <3> QED BY <1>2, <3>1, <3>2 DEF AssistantInv, SessionInv, LastUnderWay, Open, OpenStates
    <2> QED BY <2>1 DEF LastUnderWay
  <1>5. PinnedWasAgreed'
    BY <1>2 DEF AssistantInv, SessionInv, PinnedWasAgreed
  <1>6. ASSUME NEW j \in DOMAIN sessions' PROVE DoneOK(j)'
    <2>1. DoneOK(j)
      BY <1>2 DEF AssistantInv, SessionInv
    <2>2. j \notin rewound' /\ sessions'[j].status = "completed" => NothingLeft(sessions'[j].activity)
      BY <1>2, <2>1 DEF DoneOK
    <2> QED BY <2>2 DEF DoneOK, NothingLeft
  <1>7. ASSUME NEW h \in Handlers PROVE WorkingOK(working[h])'
    <2>1. WorkingOK(working[h]) /\ WorkingOK(NotWorking)
      BY IdleOK DEF AssistantInv, SessionInv
    <2>2. WorkingOK(working'[h])
      BY <2>1
    <2>3. ASSUME NEW j \in DOMAIN sessions, j \notin rewound', NEW a \in Activities,
                 sessions[j].activity[a] \notin LeftStates
          PROVE  sessions'[j].activity[a] \notin LeftStates
      BY <1>2, <2>3
    <2> DEFINE w == working'[h]
    <2>4. WorkingOK(w)
      BY <2>2
    <2> HIDE DEF w
    <2>5. \A j \in DOMAIN sessions : j \in DOMAIN sessions'
      BY <1>2
    <2>6. WorkingOK(w) => 
          /\ w.kind # "idle" =>
               /\ w.session \in DOMAIN sessions' /\ w.was.status \in SessionStatuses
               /\ w.kind = "activity" => w.activity \in Activities
          /\ w.kind \in {"finish", "write", "hold"} =>
               /\ MadeOf(w.was, w.has) /\ w.has.status \in SessionStatuses
               /\ w.was.activity \in [Activities -> ActivityStates]
               /\ w.has.activity \in [Activities -> ActivityStates]
               /\ w.kind = "finish" => w.has.status = w.was.status
               /\ w.session \notin rewound' =>
                    \A a \in Activities :
                      w.was.activity[a] \notin LeftStates => sessions'[w.session].activity[a] \notin LeftStates
      BY <2>3, <2>5 DEF WorkingOK
    <2> QED BY <2>4, <2>6 DEF WorkingOK, MadeOf, NothingLeft, w
  <1> QED BY <1>3, <1>4, <1>5, <1>6, <1>7 DEF AssistantInv, SessionInv

\* A request ends, and writes the columns it changed.
LEMMA WriteSessionStep ==
  ASSUME AssistantInv, NEW h \in Handlers, WriteSession(h)
  PROVE  AssistantInv'
  <1> DEFINE i == working[h].session
             was == working[h].was
             has == working[h].has
             row == Written(sessions[i], was, has)
  <1>1. /\ working[h].kind \in {"write", "hold"} /\ UNCHANGED playbookVars /\ left' = left
        /\ working' = [working EXCEPT ![h] = NotWorking] /\ sessions' = [sessions EXCEPT ![i] = row]
        /\ overtaken' = IF row.status # sessions[i].status /\ was.status # sessions[i].status
                        THEN overtaken \cup {i} ELSE overtaken
        /\ rewound' = IF Rewinds(sessions[i], was, has) THEN rewound \cup {i} ELSE rewound
    BY DEF WriteSession
  <1>2. IInv' /\ agreed' = agreed
    BY <1>1, PlaybookUntouched, BudgetKept DEF AssistantInv, IInv, PlaybookTypeOK, playbookVars
  <1>3. i \in DOMAIN sessions /\ sessions[i] \in SessionType /\ working[h] \in WorkingType
        /\ WorkingOK(working[h])
    BY <1>1, AsLoadedIs
  <1>4. was \in ColumnsType /\ has \in ColumnsType
    BY <1>3 DEF WorkingType
  <1>5. /\ MadeOf(was, has) /\ has.status \in SessionStatuses /\ was.status \in SessionStatuses
        /\ has.activity \in [Activities -> ActivityStates]
        /\ i \notin rewound => \A a \in Activities :
             was.activity[a] \notin LeftStates => sessions[i].activity[a] \notin LeftStates
    BY <1>1, <1>3 DEF WorkingOK
  <1>6. /\ overtaken \subseteq DOMAIN sessions /\ rewound \subseteq DOMAIN sessions
        /\ working \in [Handlers -> WorkingType] /\ DoneOK(i)
    BY <1>3 DEF AssistantInv, SessionInv, AssistantTypeOK
  <1>7. working' \in [Handlers -> WorkingType] /\ \A o \in Handlers : working'[o] \in {working[o], NotWorking}
    BY <1>1, <1>6, IdleOK
  <1> HIDE DEF i, was, has
  <1>8. /\ row \in SessionType /\ row.pinned = sessions[i].pinned
        /\ row.status = IF has.status = was.status THEN sessions[i].status ELSE has.status
    BY <1>3, <1>4, <1>5, WrittenIs
  <1>9. row.status \in OpenStates /\ sessions[i].status \notin OpenStates => i \in overtaken'
    BY <1>1, <1>5, <1>8 DEF MadeOf
  <1>10. /\ overtaken \subseteq overtaken' /\ overtaken' \subseteq DOMAIN sessions
         /\ rewound \subseteq rewound' /\ rewound' \subseteq DOMAIN sessions
    BY <1>1, <1>3, <1>6
  <1>11. i \notin rewound' => i \notin rewound /\ ~Rewinds(sessions[i], was, has)
    BY <1>1
  <1>12. ASSUME i \notin rewound'
         PROVE  /\ row.status = "completed" => NothingLeft(row.activity)
                /\ \A a \in Activities :
                     sessions[i].activity[a] \notin LeftStates => row.activity[a] \notin LeftStates
    <2>1. sessions[i].status = "completed" => NothingLeft(sessions[i].activity)
      BY <1>6, <1>11, <1>12 DEF DoneOK
    <2> QED BY <1>3, <1>4, <1>5, <1>11, <1>12, <2>1, WrittenKeeps
  <1> HIDE DEF row
  <1> QED BY <1>1, <1>2, <1>3, <1>7, <1>8, <1>9, <1>10, <1>12, SessionReplaced

LEMMA RefuseStep ==
  ASSUME AssistantInv, NEW h \in Handlers, RefuseWork(h)
  PROVE  AssistantInv'
  <1>1. /\ UNCHANGED playbookVars /\ left' = left /\ sessions' = sessions /\ overtaken' = overtaken
        /\ rewound' = rewound /\ working' = [working EXCEPT ![h] = NotWorking]
    BY DEF RefuseWork
  <1>2. IInv' /\ agreed' = agreed
    BY <1>1, PlaybookUntouched, BudgetKept DEF AssistantInv, IInv, PlaybookTypeOK, playbookVars
  <1> QED BY <1>1, <1>2, IdleOK, RequestLearns

\* The review behind a session is no part of what is said of it.
LEMMA ReviewMovesStep ==
  ASSUME AssistantInv, NEW i \in DOMAIN sessions, NEW to \in {"open", "completed", "abandoned"},
         ReviewMoves(i, to)
  PROVE  AssistantInv'
  <1> DEFINE row == [sessions[i] EXCEPT !.review = to]
  <1>1. /\ UNCHANGED playbookVars /\ left' = left /\ working' = working /\ overtaken' = overtaken
        /\ rewound' = rewound /\ sessions' = [sessions EXCEPT ![i] = row]
    BY DEF ReviewMoves
  <1>2. IInv' /\ agreed' = agreed
    BY <1>1, PlaybookUntouched, BudgetKept DEF AssistantInv, IInv, PlaybookTypeOK, playbookVars
  <1>3. sessions[i] \in SessionType /\ DoneOK(i)
    BY SessionsAre DEF AssistantInv, SessionInv
  <1>4. /\ row \in SessionType /\ row.pinned = sessions[i].pinned /\ row.status = sessions[i].status
        /\ row.activity = sessions[i].activity
    BY <1>3 DEF SessionType, ReviewStates
  <1> HIDE DEF row
  <1>5. i \notin rewound' /\ row.status = "completed" => NothingLeft(row.activity)
    BY <1>1, <1>3, <1>4 DEF DoneOK
  <1>6. /\ overtaken \subseteq DOMAIN sessions /\ rewound \subseteq DOMAIN sessions
        /\ working \in [Handlers -> WorkingType]
    BY DEF AssistantInv, SessionInv, AssistantTypeOK
  <1> QED BY <1>1, <1>2, <1>4, <1>5, <1>6, SessionReplaced

LEMMA PlaybookStep ==
  ASSUME AssistantInv, PlaybookNext, UNCHANGED sessionVars
  PROVE  AssistantInv'
  <1>1. IInv' /\ agreed \subseteq agreed'
    BY Inductive, AgreedGrows DEF AssistantInv
  <1>2. sessions' = sessions /\ working' = working /\ overtaken' = overtaken /\ rewound' = rewound
    BY DEF sessionVars
  <1>3. working \in [Handlers -> WorkingType] /\ \A h \in Handlers : WorkingOK(working[h])
    BY DEF AssistantInv, SessionInv, AssistantTypeOK
  <1> QED BY <1>1, <1>2, <1>3, SessionsKept

\* Nothing of it is touched but the budget.
LEMMA AssistantUntouched ==
  ASSUME AssistantInv, UNCHANGED assistantVars, BudgetTypeOK'
  PROVE  AssistantInv'
  <1>1. UNCHANGED playbookVars /\ UNCHANGED sessionVars
    BY DEF assistantVars
  <1>2. IInv' /\ agreed' = agreed
    BY <1>1, PlaybookUntouched DEF AssistantInv, playbookVars
  <1>3. sessions' = sessions /\ working' = working /\ overtaken' = overtaken /\ rewound' = rewound
    BY <1>1 DEF sessionVars
  <1>4. working \in [Handlers -> WorkingType] /\ \A h \in Handlers : WorkingOK(working[h])
    BY DEF AssistantInv, SessionInv, AssistantTypeOK
  <1> QED BY <1>2, <1>3, <1>4, SessionsKept

-----------------------------------------------------------------------------
(* The theorems                                                               *)

LEMMA AssistantStarts == AssistantInit /\ BudgetInit => AssistantInv
  <1> SUFFICES ASSUME AssistantInit, BudgetInit PROVE AssistantInv
    OBVIOUS
  <1>1. IInv
    BY Starts DEF AssistantInit
  <1>2. /\ sessions = <<>> /\ DOMAIN sessions = {} /\ sessions \in Seq(SessionType)
        /\ overtaken = {} /\ rewound = {}
    BY DEF AssistantInit
  <1>3. working \in [Handlers -> WorkingType] /\ \A h \in Handlers : WorkingOK(working[h])
    BY IdleOK DEF AssistantInit
  <1>4. AssistantTypeOK
    BY <1>1, <1>2, <1>3 DEF AssistantTypeOK, IInv
  <1> QED BY <1>1, <1>2, <1>3, <1>4 DEF AssistantInv, SessionInv, LastUnderWay, Open, PinnedWasAgreed

LEMMA AssistantInductive == AssistantInv /\ [AssistantNext]_<<assistantVars, left>> => AssistantInv'
  <1> SUFFICES ASSUME AssistantInv, [AssistantNext]_<<assistantVars, left>> PROVE AssistantInv'
    OBVIOUS
  <1>1. CASE PlaybookNext /\ UNCHANGED sessionVars
    BY <1>1, PlaybookStep
  <1>2. ASSUME NEW order \in Orders, NEW aside \in Asides, NEW auto \in BOOLEAN,
               NEW standing \in {"open", "completed"}, StartSession(order, aside, standing, auto)
        PROVE  AssistantInv'
    BY <1>2, StartSessionStep
  <1>3. ASSUME NEW i \in DOMAIN sessions, NEW to \in {"open", "completed", "abandoned"}, ReviewMoves(i, to)
        PROVE  AssistantInv'
    BY <1>3, ReviewMovesStep
  <1>4. ASSUME NEW i \in DOMAIN sessions, NEW h \in Handlers, LoadBegin(h, i) \/ LoadAdvance(h, i)
        PROVE  AssistantInv'
    BY <1>4, LoadSessionStep DEF LoadBegin, LoadAdvance
  <1>5. ASSUME NEW i \in DOMAIN sessions, NEW h \in Handlers, NEW a \in Activities, LoadActivity(h, i, a)
        PROVE  AssistantInv'
    BY <1>5, LoadSessionStep DEF LoadActivity
  <1>6. ASSUME NEW h \in Handlers, ReadBegin(h) \/ ReadActivity(h) \/ ReadAdvance(h) \/ ReadRemaining(h)
        PROVE  AssistantInv'
    BY <1>6, ReadSessionStep, ReadRemainingStep
  <1>7. ASSUME NEW h \in Handlers, WriteSession(h) \/ RefuseWork(h) PROVE AssistantInv'
    BY <1>7, WriteSessionStep, RefuseStep
  <1>8. CASE UNCHANGED <<assistantVars, left>>
    BY <1>8, AssistantUntouched, BudgetKept DEF AssistantInv, IInv, PlaybookTypeOK
  <1> QED BY <1>1, <1>2, <1>3, <1>4, <1>5, <1>6, <1>7, <1>8 DEF AssistantNext, SessionNext

\* Sessions, and requests that work them, keep the shape the tables give them.
THEOREM SessionTypeCorrect == AssistantSpec => []AssistantTypeOK
  <1>1. AssistantInv => AssistantTypeOK
    BY DEF AssistantInv, SessionInv
  <1> QED BY <1>1, AssistantStarts, AssistantInductive, PTL DEF AssistantSpec

\* With sessions opened and worked over it, the playbook still stands: every
\* request that reads it may seed it or fall back on an earlier revision
\* (read_active_playbook, open_session).
THEOREM PlaybookStandsUnderSessions == AssistantSpec => []PlaybookStands
  <1>1. AssistantInv => PlaybookStands
    BY DEF AssistantInv, IInv
  <1> QED BY <1>1, AssistantStarts, AssistantInductive, PTL DEF AssistantSpec

\* The invariant says so of sessions.
LEMMA SessionsStandNow == AssistantInv => SessionStands
  <1> SUFFICES ASSUME AssistantInv PROVE SessionStands
    OBVIOUS
  <1>1. Open \ overtaken \subseteq {Len(sessions)}
    BY DEF AssistantInv, SessionInv, LastUnderWay
  <1>2. IsFiniteSet({Len(sessions)}) /\ Cardinality({Len(sessions)}) = 1
    BY FS_Singleton
  <1>3. Cardinality(Open \ overtaken) <= 1
    BY <1>1, <1>2, FS_Subset
  <1> QED BY <1>3 DEF SessionStands, OneUnderWay, AssistantInv, SessionInv

\* And of what a completed one has left.
LEMMA NothingLeftNow == AssistantInv => CompletedHasNothingLeft
  BY SessionsAre, LeftIs DEF AssistantInv, SessionInv, DoneOK, CompletedHasNothingLeft, LeftStates

\* However many sessions are opened over each other and worked by however many
\* requests, one is under way, save one written over in a state its writer had
\* not loaded, and each runs a playbook that was agreed to (start_session).
THEOREM SessionsAlwaysStand == AssistantSpec => []SessionStands
  BY SessionsStandNow, AssistantStarts, AssistantInductive, PTL DEF AssistantSpec

\* A completed session has no activity left to work, save one that a request put
\* back in hand as it had loaded it, pending, though another had begun and
\* completed it since (advance_session, begin_activity).
THEOREM CompletedSessionsDone == AssistantSpec => []CompletedHasNothingLeft
  BY NothingLeftNow, AssistantStarts, AssistantInductive, PTL DEF AssistantSpec

\* What a session reads it may restore, never a proposal.
LEMMA SessionsUndo ==
  ASSUME AssistantInv, [AssistantNext]_<<assistantVars, left>>, NEW n \in DOMAIN revisions,
         revisions[n].status = "proposed", revisions'[n].status = "active", ~crossed'
  PROVE  revisions[n].base = latest
  <1>1. CASE PlaybookNext
    BY <1>1, UndoesNothing DEF AssistantInv
  <1>2. CASE ReadPlaybook /\ revisions' = RowsRead
    <2>1. Found # 0 /\ revisions # <<>>
      BY <1>2, Numbers DEF ReadPlaybook, AssistantInv, IInv
    <2>2. /\ revisions[Found].status # "proposed"
          /\ RowsRead[n].status =
               IF n = Found THEN "active" ELSE IF n = InForce THEN "invalid" ELSE revisions[n].status
      BY <2>1, ReadIs DEF AssistantInv
    <2> QED BY <1>2, <2>2
  <1>3. CASE UNCHANGED playbookVars
    BY <1>3 DEF playbookVars
  <1>4. PlaybookNext \/ (ReadPlaybook /\ revisions' = RowsRead) \/ UNCHANGED playbookVars
    BY DEF AssistantNext, SessionNext, StartSession, ReviewMoves, LoadBegin, LoadActivity, LoadAdvance,
       LoadSession, ReadBegin, ReadActivity, ReadAdvance, Reads, ReadRemaining, WriteSession, RefuseWork,
       assistantVars
  <1> QED BY <1>1, <1>2, <1>3, <1>4

\* Nor does a session, by what its reading restores, bring in force a proposal
\* written against anything but what it replaces.
THEOREM SessionsUndoNothing == AssistantSpec => NothingUndone
  <1> DEFINE Kept == \A n \in DOMAIN revisions :
       /\ revisions[n].status = "proposed" /\ revisions'[n].status = "active" /\ ~crossed'
       => revisions[n].base = latest
  <1>1. AssistantInv /\ [AssistantNext]_<<assistantVars, left>> => [Kept]_playbookVars
    BY SessionsUndo
  <1> QED BY <1>1, AssistantStarts, AssistantInductive, PTL DEF AssistantSpec, NothingUndone

-----------------------------------------------------------------------------
(* The document: entries and where they rank                                  *)

\* Entries of one kind, no key twice and no position twice.
Distinct(entries, kind) ==
  /\ entries \in Seq(kind) /\ UniqueIn(entries)
  /\ \A entry \in kind : entry.order \in Int

\* A function from 1 to a number is a sequence as long as that.
LEMMA SequenceIs ==
  ASSUME NEW n \in Nat, NEW T, NEW s \in [1..n -> T]
  PROVE  s \in Seq(T) /\ Len(s) = n /\ DOMAIN s = 1..n
  <1>1. s \in Seq(T)
    OBVIOUS
  <1>2. DOMAIN s = 1..Len(s) /\ Len(s) \in Nat /\ DOMAIN s = 1..n
    BY <1>1
  <1>3. Len(s) = n
    BY <1>2
  <1> QED BY <1>1, <1>2, <1>3

\* Of entries in different places, ranks are places, one for each, and an entry
\* at a lower position has the lower.
LEMMA RankPlaces ==
  ASSUME NEW T, NEW e, Distinct(e, T)
  PROVE  /\ \A i \in DOMAIN e : Rank(e, i) \in DOMAIN e
         /\ \A i, j \in DOMAIN e : Rank(e, i) < Rank(e, j) <=> e[i].order < e[j].order
         /\ \A k \in DOMAIN e : \E i \in DOMAIN e : Rank(e, i) = k
         /\ \A i, j \in DOMAIN e : Rank(e, i) = Rank(e, j) => i = j
  <1> DEFINE n == Len(e)
             Ahead(i) == {j \in 1..n : e[j].order < e[i].order \/ (e[j].order = e[i].order /\ j <= i)}
  <1>1. n \in Nat /\ DOMAIN e = 1..n /\ \A i \in 1..n : e[i].order \in Int
    BY DEF Distinct
  <1> HIDE DEF n
  <1>2. \A i \in 1..n : Rank(e, i) = Cardinality(Ahead(i))
    BY <1>1 DEF Rank
  <1>3. IsFiniteSet(1..n) /\ Cardinality(1..n) = n
    BY <1>1, FS_Interval
  <1>4. ASSUME NEW i \in 1..n
        PROVE  /\ IsFiniteSet(Ahead(i)) /\ Cardinality(Ahead(i)) \in 1..n /\ i \in Ahead(i)
    <2>1. Ahead(i) \in SUBSET (1..n) /\ i \in Ahead(i)
      BY <1>1
    <2> HIDE DEF Ahead
    <2>2. IsFiniteSet(Ahead(i)) /\ Cardinality(Ahead(i)) <= n
      BY <2>1, <1>3, FS_Subset
    <2>3. Cardinality(Ahead(i)) \in Nat
      BY <2>2, FS_CardinalityType
    <2>4. Cardinality(Ahead(i)) # 0
      BY <2>1, <2>2, FS_EmptySet
    <2> QED BY <2>1, <2>2, <2>3, <2>4, <1>1
  <1>5. ASSUME NEW i \in 1..n, NEW j \in 1..n, e[i].order < e[j].order
        PROVE  Cardinality(Ahead(i)) < Cardinality(Ahead(j))
    <2>1. Ahead(i) \in SUBSET Ahead(j) /\ j \notin Ahead(i)
      BY <1>1, <1>5
    <2>2. Ahead(i) # Ahead(j)
      BY <2>1, <1>4
    <2> HIDE DEF Ahead
    <2>3. Cardinality(Ahead(i)) <= Cardinality(Ahead(j)) /\ Cardinality(Ahead(i)) # Cardinality(Ahead(j))
      BY <2>1, <2>2, <1>4, FS_Subset
    <2>4. Cardinality(Ahead(i)) \in 1..n /\ Cardinality(Ahead(j)) \in 1..n
      BY <1>4
    <2> QED BY <2>3, <2>4
  <1> DEFINE f == [i \in 1..n |-> Rank(e, i)]
  <1>6. \A i \in 1..n : Rank(e, i) \in 1..n
    BY <1>2, <1>4
  <1>7. \A i, j \in 1..n : e[i].order < e[j].order => Rank(e, i) < Rank(e, j)
    BY <1>2, <1>5
  <1>8. \A i, j \in 1..n : i # j => e[i].order < e[j].order \/ e[j].order < e[i].order
    BY <1>1 DEF Distinct, UniqueIn
  <1>9. \A i, j \in 1..n : Rank(e, i) = Rank(e, j) => i = j
    BY <1>6, <1>7, <1>8
  <1>10. \A k \in 1..n : \E i \in 1..n : Rank(e, i) = k
    <2>1. f \in Injection(1..n, 1..n)
      BY <1>6, <1>9 DEF Injection, IsInjective
    <2> HIDE DEF f
    <2>2. f \in Surjection(1..n, 1..n)
      BY <2>1, <1>3, FS_Injection
    <2>3. \A k \in 1..n : \E i \in 1..n : f[i] = k
      BY <2>2 DEF Surjection
    <2> QED BY <2>3 DEF f
  <1>11. \A i, j \in 1..n : Rank(e, i) < Rank(e, j) <=> e[i].order < e[j].order
    <2> SUFFICES ASSUME NEW i \in 1..n, NEW j \in 1..n
                 PROVE  Rank(e, i) < Rank(e, j) <=> e[i].order < e[j].order
      OBVIOUS
    <2>1. Rank(e, i) \in Int /\ Rank(e, j) \in Int /\ e[i].order \in Int /\ e[j].order \in Int
      BY <1>1, <1>6
    <2>2. CASE i = j
      BY <2>1, <2>2
    <2>3. CASE i # j
      BY <2>1, <2>3, <1>7, <1>8
    <2> QED BY <2>2, <2>3
  <1> QED BY <1>1, <1>6, <1>9, <1>10, <1>11

\* Sorted, they are the same entries, from the lowest position to the highest.
LEMMA InOrderIs ==
  ASSUME NEW T, NEW e, Distinct(e, T)
  PROVE  /\ Distinct(InOrder(e), T) /\ StoredInOrder(InOrder(e))
         /\ Len(InOrder(e)) = Len(e) /\ DOMAIN InOrder(e) = DOMAIN e
         /\ \A i \in DOMAIN e : Rank(e, i) \in DOMAIN e /\ InOrder(e)[Rank(e, i)] = e[i]
         /\ KeySet(InOrder(e)) = KeySet(e)
  <1> DEFINE n == Len(e)
             at(k) == CHOOSE i \in DOMAIN e : Rank(e, i) = k
  <1>1. n \in Nat /\ DOMAIN e = 1..n /\ \A i \in 1..n : e[i] \in T
    BY DEF Distinct
  <1>2. \A k \in 1..n : at(k) \in 1..n /\ Rank(e, at(k)) = k
    BY <1>1, RankPlaces
  <1>3. \A i \in 1..n : Rank(e, i) \in 1..n /\ at(Rank(e, i)) = i
    BY <1>1, <1>2, RankPlaces
  <1>4. InOrder(e) = [k \in 1..n |-> e[at(k)]]
    BY <1>1 DEF InOrder
  <1> HIDE DEF n, at
  <1>5. InOrder(e) \in [1..n -> T]
    BY <1>1, <1>2, <1>4
  <1>6. InOrder(e) \in Seq(T) /\ Len(InOrder(e)) = n /\ DOMAIN InOrder(e) = 1..n
    BY <1>1, <1>5, SequenceIs
  <1>7. \A k \in 1..n : InOrder(e)[k] = e[at(k)]
    BY <1>4
  <1>8. StoredInOrder(InOrder(e))
    <2> SUFFICES ASSUME NEW k \in 1..n, NEW l \in 1..n, k < l
                 PROVE  InOrder(e)[k].order < InOrder(e)[l].order
      BY <1>6 DEF StoredInOrder
    <2>1. Rank(e, at(k)) < Rank(e, at(l)) /\ at(k) \in DOMAIN e /\ at(l) \in DOMAIN e
      BY <1>1, <1>2
    <2>2. e[at(k)].order < e[at(l)].order
      BY <2>1, RankPlaces
    <2> QED BY <2>2, <1>7
  <1>9. UniqueIn(InOrder(e))
    <2> SUFFICES ASSUME NEW k \in 1..n, NEW l \in 1..n, k # l
                 PROVE  InOrder(e)[k].key # InOrder(e)[l].key /\ InOrder(e)[k].order # InOrder(e)[l].order
      BY <1>6 DEF UniqueIn
    <2>1. at(k) # at(l) /\ at(k) \in DOMAIN e /\ at(l) \in DOMAIN e
      BY <1>1, <1>2
    <2> QED BY <2>1, <1>7 DEF Distinct, UniqueIn
  <1>10. KeySet(InOrder(e)) = KeySet(e)
    <2>1. \A i \in 1..n : InOrder(e)[Rank(e, i)] = e[i]
      BY <1>3, <1>7
    <2>2. \A i \in 1..n : e[i].key \in KeySet(InOrder(e))
      BY <1>3, <1>6, <2>1 DEF KeySet
    <2>3. \A k \in 1..n : InOrder(e)[k].key \in KeySet(e)
      BY <1>1, <1>2, <1>7 DEF KeySet
    <2>4. KeySet(e) = {e[i].key : i \in 1..n} /\ KeySet(InOrder(e)) = {InOrder(e)[k].key : k \in 1..n}
      BY <1>1, <1>6 DEF KeySet
    <2> QED BY <2>2, <2>3, <2>4
  <1> QED BY <1>1, <1>2, <1>3, <1>6, <1>7, <1>8, <1>9, <1>10 DEF n, Distinct

\* Entries stored in order stay as they are.
LEMMA InOrderStays ==
  ASSUME NEW T, NEW e, Distinct(e, T), StoredInOrder(e)
  PROVE  InOrder(e) = e
  <1> DEFINE n == Len(e)
  <1>1. n \in Nat /\ DOMAIN e = 1..n /\ \A i \in 1..n : e[i].order \in Int
    BY DEF Distinct
  <1>2. ASSUME NEW i \in 1..n PROVE Rank(e, i) = i
    <2>1. {j \in 1..n : e[j].order < e[i].order \/ (e[j].order = e[i].order /\ j <= i)} = 1..i
      BY <1>1 DEF StoredInOrder
    <2>2. Cardinality(1..i) = i
      BY <1>1, FS_Interval
    <2> QED BY <1>1, <2>1, <2>2 DEF Rank
  <1>3. \A i \in 1..n : InOrder(e)[i] = e[i]
    <2>1. \A i \in DOMAIN e : InOrder(e)[Rank(e, i)] = e[i]
      BY InOrderIs
    <2> QED BY <1>1, <1>2, <2>1
  <1>4. InOrder(e) \in Seq(T) /\ e \in Seq(T) /\ Len(InOrder(e)) = Len(e)
    BY InOrderIs DEF Distinct
  <1> QED BY <1>1, <1>3, <1>4, SeqEqual

\* The position of an entry is found by its key.
LEMMA AtIs ==
  ASSUME NEW e, UniqueIn(e)
  PROVE  /\ \A i \in DOMAIN e : At(e, e[i].key) = i
         /\ \A key : Has(e, key) => At(e, key) \in DOMAIN e /\ e[At(e, key)].key = key
         /\ \A key : Has(e, key) <=> key \in KeySet(e)
  <1>1. ASSUME NEW i \in DOMAIN e PROVE At(e, e[i].key) = i
    BY DEF At, UniqueIn
  <1>2. ASSUME NEW key, Has(e, key) PROVE At(e, key) \in DOMAIN e /\ e[At(e, key)].key = key
    BY <1>2 DEF At, Has
  <1> QED BY <1>1, <1>2 DEF Has, KeySet

\* Entries that are all there, at their positions, are in the order they were in.
LEMMA SameKept ==
  ASSUME NEW old, NEW new,
         \A i \in DOMAIN old : \E j \in DOMAIN new : new[j].key = old[i].key /\ new[j].order = old[i].order,
         KeySet(new) \subseteq KeySet(old)
  PROVE  KeepsOrder(old, new, {}, {})
  <1>1. KeySet(old) \subseteq KeySet(new)
    BY DEF KeySet
  <1>2. ASSUME NEW one, NEW other, WorkedBefore(old, one, other) PROVE WorkedBefore(new, one, other)
    <2>1. PICK i \in DOMAIN old, j \in DOMAIN old :
            old[i].key = one /\ old[j].key = other /\ old[i].order < old[j].order
      BY <1>2 DEF WorkedBefore
    <2>2. PICK k \in DOMAIN new : new[k].key = old[i].key /\ new[k].order = old[i].order
      OBVIOUS
    <2>3. PICK l \in DOMAIN new : new[l].key = old[j].key /\ new[l].order = old[j].order
      OBVIOUS
    <2> QED BY <2>1, <2>2, <2>3 DEF WorkedBefore
  <1> QED BY <1>1, <1>2 DEF KeepsOrder

\* What two changes after another do to an order.
LEMMA KeptInTurn ==
  ASSUME NEW old, NEW mid, NEW new, NEW m1, NEW r1, NEW m2, NEW r2,
         KeepsOrder(old, mid, m1, r1), KeepsOrder(mid, new, m2, r2)
  PROVE  KeepsOrder(old, new, m1 \cup m2, r1 \cup r2)
  <1> DEFINE moved == m1 \cup m2
             removed == r1 \cup r2
             kept == KeySet(old) \ (moved \cup removed)
  <1>1. KeySet(old) \ removed \subseteq KeySet(new)
    BY DEF KeepsOrder
  <1>2. kept \subseteq KeySet(old) \ (m1 \cup r1) /\ kept \subseteq KeySet(mid) \ (m2 \cup r2)
    BY DEF KeepsOrder
  <1>3. ASSUME NEW one \in kept, NEW other \in kept, WorkedBefore(old, one, other)
        PROVE  WorkedBefore(new, one, other)
    <2>1. WorkedBefore(mid, one, other)
      BY <1>2, <1>3 DEF KeepsOrder
    <2> QED BY <1>2, <2>1 DEF KeepsOrder
  <1>4. ASSUME NEW one \in kept, NEW other \in KeySet(new) \ (KeySet(old) \cup moved \cup removed)
        PROVE  WorkedBefore(new, one, other)
    <2>1. CASE other \in KeySet(mid)
      <3>1. WorkedBefore(mid, one, other)
        BY <1>2, <2>1 DEF KeepsOrder
      <3> QED BY <1>2, <2>1, <3>1 DEF KeepsOrder
    <2>2. CASE other \notin KeySet(mid)
      BY <1>2, <2>2 DEF KeepsOrder
    <2> QED BY <2>1, <2>2
  <1> QED BY <1>1, <1>3, <1>4 DEF KeepsOrder

\* An order kept but for some entries is kept but for more.
LEMMA KeptButForMore ==
  ASSUME NEW old, NEW new, NEW m1, NEW r1, NEW m2, NEW r2, m1 \subseteq m2, r1 \subseteq r2,
         KeepsOrder(old, new, m1, r1)
  PROVE  KeepsOrder(old, new, m2, r2)
  BY DEF KeepsOrder

-----------------------------------------------------------------------------
(* Renumbering                                                                *)

\* Spaced entries are at tens, the first at the first.
LEMMA SpacedIs ==
  ASSUME NEW T, T = StepConfig \/ T = ActivityConfig, NEW e \in Seq(T)
  PROVE  /\ Spaced(e) \in Seq(T) /\ Len(Spaced(e)) = Len(e) /\ DOMAIN Spaced(e) = DOMAIN e
         /\ \A i \in DOMAIN e : Spaced(e)[i].key = e[i].key /\ Spaced(e)[i].order = i * ORDER_STEP
         /\ T = ActivityConfig => \A i \in DOMAIN e : Spaced(e)[i].steps = e[i].steps
         /\ StoredInOrder(Spaced(e))
         /\ (\A i, j \in DOMAIN e : e[i].key = e[j].key => i = j) => Distinct(Spaced(e), T)
         /\ KeySet(Spaced(e)) = KeySet(e)
  <1> DEFINE n == Len(e)
             at(i) == [e[i] EXCEPT !.order = i * ORDER_STEP]
  <1>1. n \in Nat /\ DOMAIN e = 1..n /\ \A i \in 1..n : e[i] \in T /\ i * ORDER_STEP \in Int
    BY DEF ORDER_STEP
  <1>2. ASSUME NEW i \in 1..n
        PROVE  /\ at(i) \in T /\ at(i).key = e[i].key /\ at(i).order = i * ORDER_STEP
               /\ T = ActivityConfig => at(i).steps = e[i].steps
    <2>1. CASE T = StepConfig
      <3>1. e[i] \in StepConfig
        BY <1>1, <2>1
      <3>2. StepConfig # ActivityConfig \/ at(i).steps = e[i].steps
        BY <3>1 DEF StepConfig
      <3> QED BY <1>1, <2>1, <3>1, <3>2 DEF StepConfig
    <2>2. CASE T = ActivityConfig
      BY <1>1, <2>2 DEF ActivityConfig
    <2> QED BY <2>1, <2>2
  <1>3. Spaced(e) = [i \in 1..n |-> at(i)]
    BY <1>1 DEF Spaced
  <1> HIDE DEF at, n
  <1>4. Spaced(e) \in [1..n -> T] /\ \A i \in 1..n : Spaced(e)[i] = at(i)
    BY <1>2, <1>3
  <1>5. Spaced(e) \in Seq(T) /\ Len(Spaced(e)) = n /\ DOMAIN Spaced(e) = 1..n
    BY <1>1, <1>4, SequenceIs
  <1>6. \A i \in 1..n : Spaced(e)[i].key = e[i].key /\ Spaced(e)[i].order = i * ORDER_STEP
    BY <1>2, <1>4
  <1>7. StoredInOrder(Spaced(e))
    BY <1>1, <1>5, <1>6 DEF StoredInOrder, ORDER_STEP
  <1>8. \A entry \in T : entry.order \in Int
    BY DEF StepConfig, ActivityConfig
  <1>9. ASSUME \A i, j \in DOMAIN e : e[i].key = e[j].key => i = j PROVE Distinct(Spaced(e), T)
    <2>1. UniqueIn(Spaced(e))
      BY <1>1, <1>5, <1>6, <1>9 DEF UniqueIn, ORDER_STEP
    <2> QED BY <1>5, <1>8, <2>1 DEF Distinct
  <1>10. KeySet(Spaced(e)) = KeySet(e)
    BY <1>1, <1>5, <1>6 DEF KeySet
  <1> QED BY <1>1, <1>2, <1>4, <1>5, <1>6, <1>7, <1>9, <1>10 DEF n

\* Steps are listed if no two are one.
LEMMA StepsListed ==
  ASSUME NEW steps \in Seq(StepConfig), UniqueIn(steps)
  PROVE  Distinct(steps, StepConfig)
  BY DEF Distinct, StepConfig

\* Steps sorted and spaced come in the order of their positions.
LEMMA StepsRenumbered ==
  ASSUME NEW steps, Distinct(steps, StepConfig)
  PROVE  LET new == Spaced(InOrder(steps)) IN
         /\ Distinct(new, StepConfig) /\ StoredInOrder(new) /\ KeySet(new) = KeySet(steps)
         /\ KeepsOrder(steps, new, {}, {})
  <1> DEFINE s == InOrder(steps)
             new == Spaced(s)
  <1>1. /\ Distinct(s, StepConfig) /\ DOMAIN s = DOMAIN steps
        /\ \A i \in DOMAIN steps : Rank(steps, i) \in DOMAIN steps /\ s[Rank(steps, i)] = steps[i]
        /\ KeySet(s) = KeySet(steps)
    <2>1. Distinct(s, StepConfig) /\ DOMAIN s = DOMAIN steps
      BY InOrderIs
    <2>2. \A i \in DOMAIN steps : Rank(steps, i) \in DOMAIN steps /\ s[Rank(steps, i)] = steps[i]
      BY InOrderIs
    <2>3. KeySet(s) = KeySet(steps)
      BY InOrderIs
    <2> QED BY <2>1, <2>2, <2>3
  <1>2. s \in Seq(StepConfig) /\ \A i, j \in DOMAIN s : s[i].key = s[j].key => i = j
    BY <1>1 DEF Distinct, UniqueIn
  <1> HIDE DEF s
  <1>3. /\ Distinct(new, StepConfig) /\ StoredInOrder(new) /\ KeySet(new) = KeySet(s) /\ DOMAIN new = DOMAIN s
        /\ \A i \in DOMAIN s : new[i].key = s[i].key /\ new[i].order = i * ORDER_STEP
    BY <1>2, SpacedIs
  <1> HIDE DEF new
  <1>4. KeySet(s) = KeySet(steps)
    BY <1>1
  <1>5. \A i \in DOMAIN steps : new[Rank(steps, i)].key = steps[i].key
                                /\ new[Rank(steps, i)].order = Rank(steps, i) * ORDER_STEP
    BY <1>1, <1>3
  <1>6. ASSUME NEW one, NEW other, WorkedBefore(steps, one, other) PROVE WorkedBefore(new, one, other)
    <2>1. PICK i \in DOMAIN steps, j \in DOMAIN steps :
            steps[i].key = one /\ steps[j].key = other /\ steps[i].order < steps[j].order
      BY <1>6 DEF WorkedBefore
    <2>2. Rank(steps, i) < Rank(steps, j)
      BY <2>1, RankPlaces
    <2>3. Rank(steps, i) \in DOMAIN new /\ Rank(steps, j) \in DOMAIN new /\ DOMAIN steps = 1..Len(steps) /\ Len(steps) \in Nat
      BY <1>1, <1>3 DEF Distinct
    <2>4. new[Rank(steps, i)].order < new[Rank(steps, j)].order
      BY <1>1, <1>5, <2>2, <2>3 DEF ORDER_STEP
    <2> QED BY <1>5, <2>1, <2>3, <2>4 DEF WorkedBefore
  <1>7. KeepsOrder(steps, new, {}, {})
    BY <1>3, <1>4, <1>6 DEF KeepsOrder
  <1> QED BY <1>3, <1>4, <1>7 DEF new, s

\* Activities of distinct keys, with steps that are listed.
Keyed(activities) ==
  /\ activities \in Seq(ActivityConfig)
  /\ \A i, j \in DOMAIN activities : activities[i].key = activities[j].key => i = j
  /\ \A i \in DOMAIN activities : Distinct(activities[i].steps, StepConfig)

\* A document as it is kept.
WellKept(activities) ==
  /\ Distinct(activities, ActivityConfig) /\ StoredInOrder(activities)
  /\ \A i \in DOMAIN activities : Distinct(activities[i].steps, StepConfig)

\* Kept, it has no key twice.
LEMMA KeptKeyed ==
  ASSUME NEW activities, WellKept(activities)
  PROVE  Keyed(activities)
  BY DEF WellKept, Keyed, Distinct, UniqueIn

\* Renumbered, activities stay where they are, and their steps are as sorted.
LEMMA RenumberedIs ==
  ASSUME NEW activities, Keyed(activities)
  PROVE  LET new == Renumbered(activities) IN
         /\ WellKept(new) /\ Len(new) = Len(activities) /\ DOMAIN new = DOMAIN activities
         /\ KeySet(new) = KeySet(activities)
         /\ \A i \in DOMAIN activities :
              /\ new[i].key = activities[i].key /\ new[i].order = i * ORDER_STEP
              /\ new[i].steps = Spaced(InOrder(activities[i].steps))
  <1> DEFINE n == Len(activities)
             sorted(i) == Spaced(InOrder(activities[i].steps))
             at(i) == [activities[i] EXCEPT !.steps = sorted(i)]
             mid == [i \in 1..n |-> at(i)]
  <1>1. n \in Nat /\ DOMAIN activities = 1..n /\ \A i \in 1..n : activities[i] \in ActivityConfig
    BY DEF Keyed
  <1>2. ASSUME NEW i \in 1..n PROVE Distinct(sorted(i), StepConfig)
    <2>1. Distinct(activities[i].steps, StepConfig)
      BY <1>1 DEF Keyed
    <2> QED BY <2>1, StepsRenumbered
  <1>3. ASSUME NEW i \in 1..n
        PROVE  at(i) \in ActivityConfig /\ at(i).key = activities[i].key /\ at(i).steps = sorted(i)
    <2>1. sorted(i) \in Seq(StepConfig) /\ activities[i] \in ActivityConfig
      BY <1>1, <1>2 DEF Distinct
    <2> HIDE DEF sorted
    <2> QED BY <2>1 DEF ActivityConfig
  <1>4. Renumbered(activities) = Spaced(mid)
    BY <1>1 DEF Renumbered
  <1> HIDE DEF at, sorted, n
  <1>5. mid \in [1..n -> ActivityConfig] /\ \A i \in 1..n : mid[i] = at(i)
    BY <1>3
  <1> HIDE DEF mid
  <1>6. mid \in Seq(ActivityConfig) /\ Len(mid) = n /\ DOMAIN mid = 1..n
    BY <1>1, <1>5, SequenceIs
  <1>7. \A i, j \in DOMAIN mid : mid[i].key = mid[j].key => i = j
    BY <1>1, <1>3, <1>5, <1>6 DEF Keyed
  <1>8. /\ Distinct(Spaced(mid), ActivityConfig) /\ StoredInOrder(Spaced(mid)) /\ KeySet(Spaced(mid)) = KeySet(mid)
        /\ Len(Spaced(mid)) = n /\ DOMAIN Spaced(mid) = 1..n
        /\ \A i \in 1..n : Spaced(mid)[i].key = mid[i].key /\ Spaced(mid)[i].order = i * ORDER_STEP
                           /\ Spaced(mid)[i].steps = mid[i].steps
    BY <1>6, <1>7, SpacedIs
  <1>9. KeySet(mid) = KeySet(activities)
    BY <1>1, <1>3, <1>5, <1>6 DEF KeySet
  <1>10. \A i \in 1..n : Spaced(mid)[i].key = activities[i].key /\ Spaced(mid)[i].steps = sorted(i)
    BY <1>3, <1>5, <1>8
  <1>11. WellKept(Spaced(mid))
    BY <1>2, <1>8, <1>10 DEF WellKept
  <1> QED BY <1>1, <1>4, <1>8, <1>9, <1>10, <1>11 DEF n, sorted

-----------------------------------------------------------------------------
(* Taking out and putting in                                                  *)

\* A sequence with one taken out.
LEMMA RemoveAtIs ==
  ASSUME NEW T, NEW s \in Seq(T), NEW at \in 1..Len(s)
  PROVE  /\ RemoveAt(s, at) \in Seq(T) /\ Len(RemoveAt(s, at)) = Len(s) - 1
         /\ \A i \in 1..Len(s) - 1 : RemoveAt(s, at)[i] = IF i < at THEN s[i] ELSE s[i + 1]
  <1> DEFINE n == Len(s)
             s1 == SubSeq(s, 1, at - 1)
             s2 == SubSeq(s, at + 1, n)
  <1>1. n \in Nat /\ at \in Nat /\ 1 <= at /\ at <= n
    OBVIOUS
  <1>2. s1 \in Seq(T) /\ Len(s1) = at - 1 /\ \A i \in 1..at - 1 : s1[i] = s[i]
    <2>1. 1 \in 1..n + 1 /\ at - 1 \in 0..n
      BY <1>1
    <2> QED BY <1>1, <2>1, SubSeqProperties
  <1>3. s2 \in Seq(T) /\ Len(s2) = n - at /\ \A i \in 1..n - at : s2[i] = s[i + at]
    <2>1. at + 1 \in 1..n + 1 /\ n \in 0..n
      BY <1>1
    <2> QED BY <1>1, <2>1, SubSeqProperties
  <1>4. RemoveAt(s, at) = s1 \o s2
    BY DEF RemoveAt
  <1> HIDE DEF s1, s2, n
  <1>5. /\ s1 \o s2 \in Seq(T) /\ Len(s1 \o s2) = n - 1
        /\ \A i \in 1..n - 1 : (s1 \o s2)[i] = IF i <= at - 1 THEN s1[i] ELSE s2[i - (at - 1)]
    <2>1. /\ s1 \o s2 \in Seq(T) /\ Len(s1 \o s2) = Len(s1) + Len(s2)
          /\ \A i \in 1..Len(s1) + Len(s2) : (s1 \o s2)[i] = IF i <= Len(s1) THEN s1[i] ELSE s2[i - Len(s1)]
      BY <1>2, <1>3, ConcatProperties
    <2>2. Len(s1) = at - 1 /\ Len(s1) + Len(s2) = n - 1
      BY <1>1, <1>2, <1>3
    <2> QED BY <2>1, <2>2
  <1>6. ASSUME NEW i \in 1..n - 1 PROVE (s1 \o s2)[i] = IF i < at THEN s[i] ELSE s[i + 1]
    <2>1. CASE i < at
      BY <1>1, <1>2, <1>5, <2>1
    <2>2. CASE ~(i < at)
      <3>1. i - (at - 1) \in 1..n - at /\ (i - (at - 1)) + at = i + 1
        BY <1>1, <2>2
      <3> QED BY <1>1, <1>3, <1>5, <2>2, <3>1
    <2> QED BY <2>1, <2>2
  <1> QED BY <1>4, <1>5, <1>6 DEF n

\* A sequence with one put in.
LEMMA InsertAtIs ==
  ASSUME NEW T, NEW s \in Seq(T), NEW at \in 1..Len(s) + 1, NEW x \in T
  PROVE  /\ InsertAt(s, at, x) \in Seq(T) /\ Len(InsertAt(s, at, x)) = Len(s) + 1
         /\ InsertAt(s, at, x)[at] = x
         /\ \A i \in 1..Len(s) : i < at => InsertAt(s, at, x)[i] = s[i]
         /\ \A i \in 1..Len(s) : ~(i < at) => InsertAt(s, at, x)[i + 1] = s[i]
  <1> DEFINE n == Len(s)
             s1 == SubSeq(s, 1, at - 1)
             s2 == SubSeq(s, at, n)
             s3 == s1 \o <<x>>
  <1>1. n \in Nat /\ at \in Nat /\ 1 <= at /\ at <= n + 1
    OBVIOUS
  <1>2. s1 \in Seq(T) /\ Len(s1) = at - 1 /\ \A i \in 1..at - 1 : s1[i] = s[i]
    <2>1. 1 \in 1..n + 1 /\ at - 1 \in 0..n
      BY <1>1
    <2> QED BY <1>1, <2>1, SubSeqProperties
  <1>3. s2 \in Seq(T) /\ Len(s2) = n - at + 1 /\ \A i \in 1..n - at + 1 : s2[i] = s[i + at - 1]
    <2>1. at \in 1..n + 1 /\ n \in 0..n
      BY <1>1
    <2> QED BY <1>1, <2>1, SubSeqProperties
  <1>4. InsertAt(s, at, x) = s3 \o s2
    BY DEF InsertAt
  <1>5. s3 \in Seq(T) /\ Len(s3) = at /\ s3[at] = x /\ \A i \in 1..at - 1 : s3[i] = s[i]
    <2>1. <<x>> \in Seq(T) /\ Len(<<x>>) = 1 /\ <<x>>[1] = x
      OBVIOUS
    <2> HIDE DEF s1
    <2> QED BY <1>1, <1>2, <2>1, ConcatProperties
  <1> HIDE DEF s3, s2, n
  <1>6. /\ s3 \o s2 \in Seq(T) /\ Len(s3 \o s2) = n + 1
        /\ \A i \in 1..n + 1 : (s3 \o s2)[i] = IF i <= at THEN s3[i] ELSE s2[i - at]
    <2>1. /\ s3 \o s2 \in Seq(T) /\ Len(s3 \o s2) = Len(s3) + Len(s2)
          /\ \A i \in 1..Len(s3) + Len(s2) : (s3 \o s2)[i] = IF i <= Len(s3) THEN s3[i] ELSE s2[i - Len(s3)]
      BY <1>3, <1>5, ConcatProperties
    <2>2. Len(s3) = at /\ Len(s3) + Len(s2) = n + 1
      BY <1>1, <1>3, <1>5
    <2> QED BY <2>1, <2>2
  <1>7. (s3 \o s2)[at] = x
    BY <1>1, <1>5, <1>6
  <1>8. ASSUME NEW i \in 1..n, i < at PROVE (s3 \o s2)[i] = s[i]
    BY <1>1, <1>5, <1>6, <1>8
  <1>9. ASSUME NEW i \in 1..n, ~(i < at) PROVE (s3 \o s2)[i + 1] = s[i]
    <2>1. (i + 1) - at \in 1..n - at + 1 /\ ((i + 1) - at) + at - 1 = i
      BY <1>1, <1>9
    <2>2. (s3 \o s2)[i + 1] = s2[(i + 1) - at]
      <3>1. i + 1 \in 1..n + 1 /\ ~(i + 1 <= at)
        BY <1>1, <1>9
      <3> QED BY <1>6, <3>1
    <2>3. s2[(i + 1) - at] = s[((i + 1) - at) + at - 1]
      BY <1>3, <2>1
    <2> QED BY <2>1, <2>2, <2>3
  <1> QED BY <1>4, <1>6, <1>7, <1>8, <1>9 DEF n

\* Without one of them, the others are there, in the order they were in.
LEMMA WithoutIs ==
  ASSUME NEW T, NEW e, Distinct(e, T), NEW key, Has(e, key)
  PROVE  LET rest == Without(e, key)
             place(i) == IF i < At(e, key) THEN i ELSE i - 1
         IN  /\ Distinct(rest, T) /\ Len(rest) = Len(e) - 1 /\ KeySet(rest) = KeySet(e) \ {key}
             /\ \A i \in DOMAIN e : e[i].key # key => place(i) \in DOMAIN rest /\ rest[place(i)] = e[i]
             /\ \A k \in DOMAIN rest : \E i \in DOMAIN e : e[i].key # key /\ rest[k] = e[i]
  <1> DEFINE n == Len(e)
             at == At(e, key)
             rest == Without(e, key)
             place(i) == IF i < at THEN i ELSE i - 1
             was(k) == IF k < at THEN k ELSE k + 1
  <1>1. n \in Nat /\ DOMAIN e = 1..n /\ e \in Seq(T) /\ UniqueIn(e)
    BY DEF Distinct
  <1>2. at \in 1..n /\ e[at].key = key
    BY <1>1, AtIs
  <1> HIDE DEF at, n
  <1>3. /\ rest \in Seq(T) /\ Len(rest) = n - 1
        /\ \A k \in 1..n - 1 : rest[k] = e[was(k)]
    BY <1>1, <1>2, RemoveAtIs DEF Without, at, n
  <1> HIDE DEF rest
  <1>4. DOMAIN rest = 1..n - 1
    BY <1>1, <1>3
  <1>5. ASSUME NEW i \in 1..n, e[i].key # key PROVE place(i) \in 1..n - 1 /\ rest[place(i)] = e[i]
    <2>1. i # at
      BY <1>2, <1>5
    <2>2. place(i) \in 1..n - 1 /\ was(place(i)) = i
      BY <1>1, <1>2, <2>1
    <2> QED BY <1>3, <2>2
  <1>6. ASSUME NEW k \in 1..n - 1 PROVE was(k) \in 1..n /\ rest[k] = e[was(k)] /\ e[was(k)].key # key
    <2>1. was(k) \in 1..n /\ was(k) # at
      BY <1>1, <1>2
    <2>2. e[was(k)].key # e[at].key
      BY <1>1, <1>2, <2>1 DEF UniqueIn
    <2> QED BY <1>2, <1>3, <2>1, <2>2
  <1>7. UniqueIn(rest)
    <2> SUFFICES ASSUME NEW k \in 1..n - 1, NEW l \in 1..n - 1, k # l
                 PROVE  rest[k].key # rest[l].key /\ rest[k].order # rest[l].order
      BY <1>4 DEF UniqueIn
    <2>1. was(k) # was(l)
      BY <1>1, <1>2
    <2> HIDE DEF was
    <2> QED BY <1>1, <1>6, <2>1 DEF UniqueIn
  <1>8. KeySet(rest) = KeySet(e) \ {key}
    <2> HIDE DEF was, place
    <2> QED BY <1>1, <1>4, <1>5, <1>6 DEF KeySet
  <1>9. Distinct(rest, T)
    BY <1>3, <1>7 DEF Distinct
  <1> QED BY <1>1, <1>3, <1>4, <1>5, <1>6, <1>8, <1>9 DEF n, at, rest

\* One entry put beside another stands there, and the others are in the order
\* they were in.
LEMMA PutBesideIs ==
  ASSUME NEW T, NEW e, Distinct(e, T), NEW key, NEW anchor, NEW after \in BOOLEAN,
         key # anchor, Has(e, key), Has(e, anchor)
  PROVE  LET put == PutBeside(e, key, anchor, after)
         IN  /\ Distinct(put, T) /\ Len(put) = Len(e) /\ DOMAIN put = DOMAIN e /\ KeySet(put) = KeySet(e)
             /\ StandsBy(KeysOf(put), key, anchor, after)
             /\ \A i \in DOMAIN e : \E k \in DOMAIN put : put[k] = e[i]
             /\ \A i, j \in DOMAIN e : i < j /\ e[i].key # key /\ e[j].key # key =>
                  \E k, l \in DOMAIN put : k < l /\ put[k] = e[i] /\ put[l] = e[j]
  <1> DEFINE n == Len(e)
             at == At(e, key)
             rest == Without(e, key)
             beside == At(rest, anchor)
             to == beside + (IF after THEN 1 ELSE 0)
             put == PutBeside(e, key, anchor, after)
             place(i) == IF i < at THEN i ELSE i - 1
             now(i) == IF i = at THEN to ELSE IF place(i) < to THEN place(i) ELSE place(i) + 1
             was(k) == IF k < to THEN (IF k < at THEN k ELSE k + 1)
                       ELSE IF k = to THEN at ELSE IF k - 1 < at THEN k - 1 ELSE k
  <1>1. n \in Nat /\ DOMAIN e = 1..n /\ \A i \in 1..n : e[i] \in T
    BY DEF Distinct
  <1>2. at \in 1..n /\ e[at].key = key /\ \A i \in 1..n : e[i].key # key <=> i # at
    <2>1. at \in 1..n /\ e[at].key = key
      BY <1>1, AtIs DEF Distinct
    <2> QED BY <1>1, <2>1 DEF Distinct, UniqueIn
  <1>3. /\ Distinct(rest, T) /\ Len(rest) = n - 1 /\ KeySet(rest) = KeySet(e) \ {key}
        /\ \A i \in 1..n : i # at => place(i) \in 1..n - 1 /\ rest[place(i)] = e[i]
    <2>1. Distinct(rest, T) /\ Len(rest) = n - 1 /\ KeySet(rest) = KeySet(e) \ {key}
      BY WithoutIs
    <2>2. DOMAIN rest = 1..n - 1
      BY <1>1, <2>1 DEF Distinct
    <2>3. \A i \in DOMAIN e : e[i].key # key => place(i) \in DOMAIN rest /\ rest[place(i)] = e[i]
      BY WithoutIs
    <2> HIDE DEF place, rest, n, at
    <2> QED BY <1>1, <1>2, <2>1, <2>2, <2>3
  <1> HIDE DEF n, at, rest
  <1>4. rest \in Seq(T) /\ DOMAIN rest = 1..n - 1
    BY <1>1, <1>3 DEF Distinct
  <1>5. beside \in 1..n - 1 /\ rest[beside].key = anchor
    <2>1. anchor \in KeySet(rest)
      BY <1>3 DEF Has, KeySet
    <2> QED BY <1>3, <1>4, <2>1, AtIs DEF Distinct
  <1> HIDE DEF beside
  <1>6. to \in 1..n /\ to \in 1..Len(rest) + 1
    BY <1>1, <1>3, <1>5
  <1>7. put = InsertAt(rest, to, e[at])
    BY DEF PutBeside, rest, beside, at
  <1> HIDE DEF put
  <1>8. put \in Seq(T) /\ Len(put) = n /\ put[to] = e[at]
        /\ \A r \in 1..n - 1 : put[IF r < to THEN r ELSE r + 1] = rest[r]
    <2>1. e[at] \in T
      BY <1>1, <1>2
    <2> HIDE DEF to
    <2>2. PICK x \in T : x = e[at]
      BY <2>1
    <2>3. InsertAt(rest, to, x) \in Seq(T) /\ Len(InsertAt(rest, to, x)) = Len(rest) + 1
      BY <1>4, <1>6, InsertAtIs
    <2>6. InsertAt(rest, to, x)[to] = x
      BY <1>4, <1>6, InsertAtIs
    <2>9. \A i \in 1..Len(rest) : /\ i < to => InsertAt(rest, to, x)[i] = rest[i]
                                  /\ ~(i < to) => InsertAt(rest, to, x)[i + 1] = rest[i]
      <3> HIDE DEF rest
      <3>1. rest \in Seq(T) /\ to \in 1..Len(rest) + 1
        BY <1>4, <1>6
      <3>2. \A i \in 1..Len(rest) : i < to => InsertAt(rest, to, x)[i] = rest[i]
        BY ONLY <3>1, x \in T, InsertAtIs, SMTT(20)
      <3>3. \A i \in 1..Len(rest) : ~(i < to) => InsertAt(rest, to, x)[i + 1] = rest[i]
        BY ONLY <3>1, x \in T, InsertAtIs, SMTT(20)
      <3> QED BY <3>2, <3>3
    <2>7. ASSUME NEW r \in 1..Len(rest), r < to PROVE InsertAt(rest, to, x)[r] = rest[r]
      BY <2>9, <2>7
    <2>8. ASSUME NEW r \in 1..Len(rest), ~(r < to) PROVE InsertAt(rest, to, x)[r + 1] = rest[r]
      BY <2>9, <2>8
    <2>4. put = InsertAt(rest, to, x)
      BY <1>7, <2>2
    <2>5. Len(rest) = n - 1
      BY <1>3
    <2> QED BY <1>1, <2>2, <2>3, <2>4, <2>5, <2>6, <2>7, <2>8
  <1>9. DOMAIN put = 1..n
    BY <1>1, <1>8
  <1>10. ASSUME NEW i \in 1..n PROVE now(i) \in 1..n /\ put[now(i)] = e[i]
    <2>1. CASE i = at
      BY <1>6, <1>8, <2>1
    <2>2. CASE i # at
      <3>1. place(i) \in 1..n - 1 /\ rest[place(i)] = e[i]
        BY <1>3, <2>2
      <3>2. now(i) = IF place(i) < to THEN place(i) ELSE place(i) + 1
        BY <2>2
      <3> HIDE DEF now, place
      <3>3. put[now(i)] = e[i]
        BY <1>8, <3>1, <3>2
      <3> QED BY <1>1, <3>1, <3>2, <3>3
    <2> QED BY <2>1, <2>2
  <1>11. ASSUME NEW i \in 1..n, NEW j \in 1..n, i < j, i # at, j # at PROVE now(i) < now(j)
    BY <1>1, <1>2, <1>6, <1>11
  <1>12. ASSUME NEW k \in 1..n PROVE was(k) \in 1..n /\ now(was(k)) = k
    BY <1>1, <1>2, <1>6
  <1>13. ASSUME NEW k \in 1..n PROVE was(k) \in 1..n /\ put[k] = e[was(k)]
    BY <1>10, <1>12
  <1>14. StandsBy(KeysOf(put), key, anchor, after)
    <2>1. KeysOf(put)[to] = key /\ to \in DOMAIN KeysOf(put) /\ DOMAIN KeysOf(put) = 1..n
      BY <1>2, <1>6, <1>8, <1>9 DEF KeysOf
    <2>2. CASE after
      <3>1. to = beside + 1 /\ beside < to /\ beside \in 1..n
        BY <1>1, <1>5, <2>2
      <3>2. put[beside] = rest[beside]
        BY <1>5, <1>8, <3>1
      <3>3. KeysOf(put)[beside] = anchor
        BY <1>5, <1>9, <3>1, <3>2 DEF KeysOf
      <3> HIDE DEF to
      <3> QED BY <2>1, <2>2, <3>1, <3>3 DEF StandsBy
    <2>3. CASE ~after
      <3>1. to = beside /\ beside + 1 \in 1..n /\ ~(beside < to) /\ to = (beside + 1) - 1
        BY <1>1, <1>5, <2>3
      <3>2. put[beside + 1] = rest[beside]
        BY <1>5, <1>8, <3>1
      <3>3. KeysOf(put)[beside + 1] = anchor
        BY <1>5, <1>9, <3>1, <3>2 DEF KeysOf
      <3> HIDE DEF to
      <3> QED BY <2>1, <2>3, <3>1, <3>3 DEF StandsBy
    <2> QED BY <2>2, <2>3
  <1>15. UniqueIn(put)
    <2> SUFFICES ASSUME NEW k \in 1..n, NEW l \in 1..n, k # l
                 PROVE  put[k].key # put[l].key /\ put[k].order # put[l].order
      BY <1>9 DEF UniqueIn
    <2>1. was(k) # was(l)
      BY <1>12
    <2> HIDE DEF was
    <2>2. was(k) \in DOMAIN e /\ was(l) \in DOMAIN e /\ put[k] = e[was(k)] /\ put[l] = e[was(l)]
      BY <1>1, <1>13
    <2> QED BY <2>1, <2>2 DEF Distinct, UniqueIn
  <1> HIDE DEF now, was, place, to
  <1>16. KeySet(put) = KeySet(e)
    <2>1. ASSUME NEW i \in 1..n PROVE e[i].key \in KeySet(put)
      BY <1>9, <1>10 DEF KeySet
    <2>2. ASSUME NEW k \in 1..n PROVE put[k].key \in KeySet(e)
      BY <1>1, <1>13 DEF KeySet
    <2> QED BY <1>1, <1>9, <2>1, <2>2 DEF KeySet
  <1>17. Distinct(put, T)
    BY <1>8, <1>15 DEF Distinct
  <1>18. ASSUME NEW i \in 1..n, NEW j \in 1..n, i < j, e[i].key # key, e[j].key # key
         PROVE  \E k, l \in 1..n : k < l /\ put[k] = e[i] /\ put[l] = e[j]
    BY <1>2, <1>10, <1>11, <1>18
  <1>19. ASSUME NEW i \in 1..n PROVE \E k \in 1..n : put[k] = e[i]
    BY <1>10
  <1>20. Len(put) = Len(e) /\ DOMAIN put = DOMAIN e /\ DOMAIN e = 1..n
    BY <1>1, <1>8, <1>9 DEF n
  <1> HIDE DEF n, put
  <1>21. \A i \in DOMAIN e : \E k \in DOMAIN put : put[k] = e[i]
    BY <1>19, <1>20
  <1>22. \A i, j \in DOMAIN e : i < j /\ e[i].key # key /\ e[j].key # key =>
            \E k, l \in DOMAIN put : k < l /\ put[k] = e[i] /\ put[l] = e[j]
    BY <1>18, <1>20
  <1> QED BY <1>14, <1>16, <1>17, <1>20, <1>21, <1>22 DEF put

-----------------------------------------------------------------------------
(* What a change says, and the order it keeps                                 *)

\* What each change names.
LEMMA ChangeNames ==
  ASSUME NEW c \in Change
  PROVE  /\ c.op \in {"enable_activity", "disable_activity", "update_intro", "set_monday_scope", "move_activity",
                      "enable_step", "disable_step", "add_step", "remove_step", "move_step"}
         /\ c.after \in BOOLEAN
         /\ c.op # "set_monday_scope" => c.activity \in ActivityKeys
         /\ c.op = "move_activity" => c.anchor \in ActivityKeys
         /\ c.op \in {"enable_step", "disable_step", "add_step", "remove_step", "move_step"} => c.step \in StepKeys
         /\ c.op = "move_step" => c.anchor \in StepKeys
  BY DEF Change

-----------------------------------------------------------------------------
(* The steps of an activity                                                   *)

\* The others keep their order when one is taken out.
LEMMA WithoutKeeps ==
  ASSUME NEW T, NEW e, Distinct(e, T), NEW key, Has(e, key)
  PROVE  KeepsOrder(e, Without(e, key), {}, {key})
  <1> DEFINE rest == Without(e, key)
  <1>1. KeySet(rest) = KeySet(e) \ {key}
    BY WithoutIs
  <1>2. ASSUME NEW i \in DOMAIN e, e[i].key # key PROVE \E k \in DOMAIN rest : rest[k] = e[i]
    BY <1>2, WithoutIs
  <1> HIDE DEF rest
  <1>3. ASSUME NEW one \in KeySet(e) \ {key}, NEW other \in KeySet(e) \ {key}, WorkedBefore(e, one, other)
        PROVE  WorkedBefore(rest, one, other)
    <2>1. PICK i \in DOMAIN e, j \in DOMAIN e : e[i].key = one /\ e[j].key = other /\ e[i].order < e[j].order
      BY <1>3 DEF WorkedBefore
    <2>2. PICK k \in DOMAIN rest, l \in DOMAIN rest : rest[k] = e[i] /\ rest[l] = e[j]
      BY <1>2, <2>1
    <2> QED BY <2>1, <2>2 DEF WorkedBefore
  <1>4. KeepsOrder(e, rest, {}, {key})
    BY <1>1, <1>3 DEF KeepsOrder
  <1> QED BY <1>4 DEF rest

\* Turned on or off, an entry is where it was.
LEMMA SwitchedIs ==
  ASSUME NEW T, T = StepConfig \/ T = ActivityConfig, NEW e, Distinct(e, T), NEW key, Has(e, key), NEW on \in BOOLEAN
  PROVE  LET new == Switched(e, key, on) IN
         /\ Distinct(new, T) /\ DOMAIN new = DOMAIN e
         /\ \A i \in DOMAIN e : new[i].key = e[i].key /\ new[i].order = e[i].order
         /\ T = ActivityConfig => \A i \in DOMAIN e : new[i].steps = e[i].steps
         /\ KeySet(new) = KeySet(e)
  <1> DEFINE n == Len(e)
             at == At(e, key)
             other == [e[at] EXCEPT !.enabled = on]
             new == [e EXCEPT ![at] = other]
  <1>1. /\ n \in Nat /\ DOMAIN e = 1..n /\ e \in Seq(T) /\ e \in [1..n -> T] /\ UniqueIn(e)
    BY DEF Distinct
  <1>2. at \in 1..n /\ e[at] \in T
    BY <1>1, AtIs
  <1>3. Switched(e, key, on) = new
    BY DEF Switched
  <1> HIDE DEF at, n
  <1>4. /\ other \in T /\ other.key = e[at].key /\ other.order = e[at].order
        /\ T = ActivityConfig => other.steps = e[at].steps
    <2>1. CASE T = StepConfig
      <3>1. e[at] \in StepConfig
        BY <1>2, <2>1
      <3>2. StepConfig # ActivityConfig \/ other.steps = e[at].steps
        BY <3>1 DEF StepConfig
      <3> QED BY <2>1, <3>1, <3>2 DEF StepConfig
    <2>2. CASE T = ActivityConfig
      BY <1>2, <2>2 DEF ActivityConfig
    <2> QED BY <2>1, <2>2
  <1> HIDE DEF other
  <1>5. new \in [1..n -> T] /\ \A i \in 1..n : new[i] = IF i = at THEN other ELSE e[i]
    BY <1>1, <1>2, <1>4
  <1> HIDE DEF new
  <1>6. new \in Seq(T) /\ DOMAIN new = 1..n
    BY <1>1, <1>5, SequenceIs
  <1>7. \A i \in 1..n : /\ new[i].key = e[i].key /\ new[i].order = e[i].order
                        /\ T = ActivityConfig => new[i].steps = e[i].steps
    BY <1>4, <1>5
  <1>8. UniqueIn(new)
    BY <1>1, <1>6, <1>7 DEF UniqueIn
  <1>9. KeySet(new) = KeySet(e)
    BY <1>1, <1>6, <1>7 DEF KeySet
  <1> QED BY <1>1, <1>3, <1>6, <1>7, <1>8, <1>9 DEF Distinct

\* An entry put at the end of a list, at a position above all.
LEMMA AppendKeeps ==
  ASSUME NEW T, NEW e, Distinct(e, T), NEW x \in T, ~Has(e, x.key),
         \A i \in DOMAIN e : e[i].order < x.order
  PROVE  LET new == Append(e, x) IN
         /\ Distinct(new, T) /\ KeepsOrder(e, new, {}, {}) /\ KeySet(new) = KeySet(e) \cup {x.key}
         /\ DOMAIN new = 1..Len(e) + 1 /\ new[Len(e) + 1] = x /\ \A i \in DOMAIN e : new[i] = e[i]
  <1> DEFINE n == Len(e)
             new == Append(e, x)
  <1>1. n \in Nat /\ DOMAIN e = 1..n /\ e \in Seq(T) /\ UniqueIn(e) /\ \A t \in T : t.order \in Int
    BY DEF Distinct
  <1>2. new \in Seq(T) /\ Len(new) = n + 1 /\ new[n + 1] = x /\ \A i \in 1..n : new[i] = e[i]
    BY <1>1, AppendProperties
  <1> HIDE DEF new
  <1>3. DOMAIN new = 1..n + 1
    BY <1>1, <1>2
  <1> HIDE DEF n
  <1>4. \A i \in 1..n : e[i].key # x.key /\ e[i].order # x.order /\ e[i].order < x.order
    <2>1. \A i \in 1..n : e[i].order \in Int /\ x.order \in Int
      BY <1>1
    <2> QED BY <1>1, <2>1 DEF Has
  <1>5. UniqueIn(new)
    <2> SUFFICES ASSUME NEW k \in 1..n + 1, NEW l \in 1..n + 1, k # l
                 PROVE  new[k].key # new[l].key /\ new[k].order # new[l].order
      BY <1>3 DEF UniqueIn
    <2>1. CASE k \in 1..n /\ l \in 1..n
      BY <1>1, <1>2, <2>1 DEF UniqueIn
    <2>2. CASE k = n + 1 /\ l \in 1..n
      BY <1>2, <1>4, <2>2
    <2>3. CASE k \in 1..n /\ l = n + 1
      BY <1>2, <1>4, <2>3
    <2> QED BY <1>1, <2>1, <2>2, <2>3
  <1>6. KeySet(new) = KeySet(e) \cup {x.key}
    <2>1. \A k \in 1..n + 1 : new[k].key \in KeySet(e) \cup {x.key}
      BY <1>1, <1>2 DEF KeySet
    <2>2. \A k \in 1..n : e[k].key \in KeySet(new)
      BY <1>1, <1>2, <1>3 DEF KeySet
    <2>3. x.key \in KeySet(new)
      BY <1>1, <1>2, <1>3 DEF KeySet
    <2> QED BY <1>1, <1>3, <2>1, <2>2, <2>3 DEF KeySet
  <1>7. ASSUME NEW one, NEW other, WorkedBefore(e, one, other) PROVE WorkedBefore(new, one, other)
    <2>1. PICK i \in 1..n, j \in 1..n : e[i].key = one /\ e[j].key = other /\ e[i].order < e[j].order
      BY <1>1, <1>7 DEF WorkedBefore
    <2>2. i \in DOMAIN new /\ j \in DOMAIN new /\ new[i] = e[i] /\ new[j] = e[j]
      BY <1>1, <1>2, <1>3
    <2> QED BY <2>1, <2>2 DEF WorkedBefore
  <1>8. ASSUME NEW one \in KeySet(e) PROVE WorkedBefore(new, one, x.key)
    <2>1. PICK i \in 1..n : e[i].key = one
      BY <1>1 DEF KeySet
    <2>2. i \in DOMAIN new /\ new[i] = e[i] /\ n + 1 \in DOMAIN new
      BY <1>1, <1>2, <1>3
    <2> QED BY <1>2, <1>4, <2>1, <2>2 DEF WorkedBefore
  <1>9. KeepsOrder(e, new, {}, {})
    BY <1>6, <1>7, <1>8 DEF KeepsOrder
  <1>10. Distinct(new, T)
    BY <1>1, <1>2, <1>5 DEF Distinct
  <1> QED BY <1>1, <1>2, <1>3, <1>6, <1>9, <1>10 DEF new, n

\* A step added comes after every other.
LEMMA StepAddedIs ==
  ASSUME NEW s, Distinct(s, StepConfig), NEW key \in StepKeys, ~Has(s, key)
  PROVE  Distinct(StepAdded(s, key), StepConfig) /\ KeepsOrder(s, StepAdded(s, key), {}, {})
  <1> DEFINE n == Len(s)
             highest == IF s = <<>> THEN 0 ELSE InOrder(s)[Len(s)].order
             new == [key |-> key, enabled |-> TRUE, order |-> highest + ORDER_STEP]
  <1>1. n \in Nat /\ DOMAIN s = 1..n /\ \A i \in 1..n : s[i].order \in Int
    BY DEF Distinct
  <1>2. highest \in Int /\ \A i \in 1..n : s[i].order <= highest
    <2>1. CASE s = <<>>
      BY <2>1
    <2>2. CASE s # <<>>
      <3>1. /\ DOMAIN InOrder(s) = 1..n /\ StoredInOrder(InOrder(s)) /\ Distinct(InOrder(s), StepConfig)
            /\ \A i \in 1..n : Rank(s, i) \in 1..n /\ InOrder(s)[Rank(s, i)] = s[i]
        <4>1. DOMAIN InOrder(s) = DOMAIN s /\ StoredInOrder(InOrder(s)) /\ Distinct(InOrder(s), StepConfig)
          BY InOrderIs
        <4>2. \A i \in DOMAIN s : Rank(s, i) \in DOMAIN s /\ InOrder(s)[Rank(s, i)] = s[i]
          BY InOrderIs
        <4> QED BY <1>1, <4>1, <4>2
      <3>2. n # 0 /\ n \in 1..n
        BY <1>1, <2>2 DEF Distinct
      <3>3. highest = InOrder(s)[n].order /\ highest \in Int
        BY <2>2, <3>1, <3>2 DEF Distinct
      <3>4. ASSUME NEW i \in 1..n PROVE s[i].order <= highest
        <4>1. CASE Rank(s, i) = n
          BY <1>1, <3>1, <3>3, <4>1
        <4>2. CASE Rank(s, i) # n
          <5>1. Rank(s, i) < n
            BY <1>1, <3>1, <4>2
          <5>2. InOrder(s)[Rank(s, i)].order < InOrder(s)[n].order
            BY <3>1, <3>2, <5>1 DEF StoredInOrder
          <5> QED BY <1>1, <3>1, <3>3, <5>2
        <4> QED BY <4>1, <4>2
      <3> QED BY <3>3, <3>4
    <2> QED BY <2>1, <2>2
  <1> HIDE DEF highest
  <1>3. new \in StepConfig /\ new.key = key /\ \A i \in DOMAIN s : s[i].order < new.order
    BY <1>1, <1>2 DEF StepConfig, ORDER_STEP
  <1>4. StepAdded(s, key) = Append(s, new)
    BY DEF StepAdded, highest
  <1> HIDE DEF new
  <1>5. Distinct(Append(s, new), StepConfig) /\ KeepsOrder(s, Append(s, new), {}, {})
    BY <1>3, AppendKeeps
  <1> QED BY <1>4, <1>5

\* What one change does to the steps of the activity it names: a step that is
\* moved is worked when it was.
LEMMA StepsRewrittenIs ==
  ASSUME NEW s, Distinct(s, StepConfig), NEW c \in Change,
         c.op = "add_step" => ~Has(s, c.step),
         c.op \in {"enable_step", "disable_step", "remove_step"} => Has(s, c.step),
         c.op = "move_step" => Has(s, c.step) /\ Has(s, c.anchor) /\ c.anchor # c.step
  PROVE  /\ Distinct(StepsRewritten(s, c), StepConfig)
         /\ KeepsOrder(s, StepsRewritten(s, c), {}, IF c.op = "remove_step" THEN {c.step} ELSE {})
  <1>1. KeepsOrder(s, s, {}, {})
    BY SameKept
  <1>2. CASE c.op = "add_step"
    <2>1. StepsRewritten(s, c) = StepAdded(s, c.step) /\ c.step \in StepKeys
      BY <1>2, ChangeNames DEF StepsRewritten
    <2> QED BY <1>2, <2>1, StepAddedIs
  <1>3. CASE c.op = "remove_step"
    <2>1. StepsRewritten(s, c) = Without(s, c.step)
      BY <1>3 DEF StepsRewritten
    <2>2. Distinct(Without(s, c.step), StepConfig)
      BY <1>3, WithoutIs
    <2>3. KeepsOrder(s, Without(s, c.step), {}, {c.step})
      BY <1>3, WithoutKeeps
    <2> QED BY <1>3, <2>1, <2>2, <2>3
  <1>4. CASE c.op = "move_step"
    <2> DEFINE t == InOrder(s)
               new == PutBeside(t, c.step, c.anchor, c.after)
    <2>1. StepsRewritten(s, c) = new /\ c.after \in BOOLEAN
      BY <1>4, ChangeNames DEF StepsRewritten
    <2>2. Distinct(t, StepConfig) /\ KeySet(t) = KeySet(s)
      BY InOrderIs
    <2>3. ASSUME NEW i \in DOMAIN s PROVE Rank(s, i) \in DOMAIN t /\ t[Rank(s, i)] = s[i]
      BY InOrderIs
    <2> HIDE DEF t
    <2>4. Has(t, c.step) /\ Has(t, c.anchor)
      BY <1>4, <2>2 DEF Has, KeySet
    <2>5. Distinct(new, StepConfig) /\ KeySet(new) = KeySet(t)
      BY <1>4, <2>1, <2>2, <2>4, PutBesideIs
    <2>6. ASSUME NEW r \in DOMAIN t PROVE \E k \in DOMAIN new : new[k] = t[r]
      BY <1>4, <2>1, <2>2, <2>4, PutBesideIs
    <2> HIDE DEF new
    <2>7. \A i \in DOMAIN s : \E j \in DOMAIN new : new[j].key = s[i].key /\ new[j].order = s[i].order
      BY <2>3, <2>6
    <2>8. KeepsOrder(s, new, {}, {})
      BY <2>2, <2>5, <2>7, SameKept
    <2> QED BY <1>4, <2>1, <2>5, <2>8
  <1>5. CASE c.op \in {"enable_step", "disable_step"}
    <2> DEFINE on == c.op = "enable_step"
               new == Switched(s, c.step, on)
    <2>1. StepsRewritten(s, c) = new /\ on \in BOOLEAN /\ Has(s, c.step)
      BY <1>5 DEF StepsRewritten
    <2> HIDE DEF on
    <2>2. /\ Distinct(new, StepConfig) /\ DOMAIN new = DOMAIN s /\ KeySet(new) = KeySet(s)
          /\ \A i \in DOMAIN s : new[i].key = s[i].key /\ new[i].order = s[i].order
      BY <2>1, SwitchedIs
    <2> HIDE DEF new
    <2>3. KeepsOrder(s, new, {}, {})
      BY <2>2, SameKept
    <2> QED BY <1>5, <2>1, <2>2, <2>3
  <1>6. CASE c.op \notin {"add_step", "remove_step", "move_step", "enable_step", "disable_step"}
    BY <1>1, <1>6 DEF StepsRewritten
  <1> QED BY <1>2, <1>3, <1>4, <1>5, <1>6

-----------------------------------------------------------------------------
(* One change                                                                 *)

\* The steps of an activity are found by its key.
LEMMA KeyedAt ==
  ASSUME NEW a, Keyed(a), NEW i \in DOMAIN a
  PROVE  At(a, a[i].key) = i /\ StepsIn(a, a[i].key) = a[i].steps
  BY DEF Keyed, At, StepsIn

\* Activities stand in a new list as they stood in the old one, but for some that
\* were moved, and any that came in stand behind them.
Stand(old, new, moved) ==
  /\ KeySet(old) \subseteq KeySet(new)
  /\ \A i, j \in DOMAIN old : i < j /\ old[i].key \notin moved /\ old[j].key \notin moved =>
       \E k, l \in DOMAIN new : k < l /\ new[k].key = old[i].key /\ new[l].key = old[j].key
  /\ \A i \in DOMAIN old, l \in DOMAIN new : old[i].key \notin moved /\ new[l].key \notin KeySet(old) =>
       \E k \in DOMAIN new : k < l /\ new[k].key = old[i].key

\* The steps of each activity are worked as they were, but for what a change names.
StepsStand(old, new, c) ==
  \A i \in DOMAIN old : \E k \in DOMAIN new :
    /\ new[k].key = old[i].key
    /\ KeepsOrder(old[i].steps, new[k].steps, {}, StepsNamed({c}, "remove_step", old[i].key))

\* Some changes did no more to the order of a document than they say, and a step
\* that one of them moves is worked when it was.
OrderKept(old, new, changes) ==
  /\ KeepsOrder(old, new, ActivitiesMoved(changes), {})
  /\ \A key \in KeySet(old) :
       KeepsOrder(StepsIn(old, key), StepsIn(new, key), {}, StepsNamed(changes, "remove_step", key))

\* That is more than a proposal promises.
LEMMA OrderKeptObeys ==
  ASSUME NEW old, NEW new, NEW changes, OrderKept(old, new, changes)
  PROVE  Obeys(old, new, changes)
  BY KeptButForMore DEF OrderKept, Obeys

\* Where activities stand is the order they are worked in, once renumbered.
LEMMA StandObeys ==
  ASSUME NEW old, WellKept(old), NEW new, Keyed(new), NEW c,
         Stand(old, new, ActivitiesMoved({c})), StepsStand(old, new, c)
  PROVE  OrderKept(old, Renumbered(new), {c})
  <1> DEFINE out == Renumbered(new)
             moved == ActivitiesMoved({c})
             gone(key) == StepsNamed({c}, "remove_step", key)
  <1>1. /\ WellKept(out) /\ DOMAIN out = DOMAIN new /\ KeySet(out) = KeySet(new)
        /\ \A i \in DOMAIN new : /\ out[i].key = new[i].key /\ out[i].order = i * ORDER_STEP
                                 /\ out[i].steps = Spaced(InOrder(new[i].steps))
    BY RenumberedIs
  <1>2. DOMAIN new = 1..Len(new) /\ Len(new) \in Nat /\ DOMAIN old = 1..Len(old) /\ Len(old) \in Nat
    BY DEF Keyed, WellKept, Distinct
  <1> HIDE DEF out, moved
  <1>3. ASSUME NEW k \in DOMAIN new, NEW l \in DOMAIN new, k < l PROVE WorkedBefore(out, new[k].key, new[l].key)
    <2>1. out[k].order < out[l].order
      BY <1>1, <1>2, <1>3 DEF ORDER_STEP
    <2> QED BY <1>1, <2>1 DEF WorkedBefore
  <1>4. ASSUME NEW one \in KeySet(old) \ moved, NEW other \in KeySet(old) \ moved, WorkedBefore(old, one, other)
        PROVE  WorkedBefore(out, one, other)
    <2>1. PICK i \in DOMAIN old, j \in DOMAIN old :
            old[i].key = one /\ old[j].key = other /\ old[i].order < old[j].order
      BY <1>4 DEF WorkedBefore
    <2>2. i < j
      <3>1. old[i].order \in Int /\ old[j].order \in Int
        BY DEF WellKept, Distinct
      <3>2. ~(j < i) /\ i # j
        BY <2>1, <3>1 DEF WellKept, StoredInOrder
      <3> QED BY <1>2, <3>2
    <2>3. PICK k \in DOMAIN new, l \in DOMAIN new : k < l /\ new[k].key = one /\ new[l].key = other
      BY <2>1, <2>2 DEF Stand, moved
    <2> QED BY <1>3, <2>3
  <1>5. ASSUME NEW one \in KeySet(old) \ moved, NEW other \in KeySet(out) \ KeySet(old)
        PROVE  WorkedBefore(out, one, other)
    <2>1. PICK i \in DOMAIN old : old[i].key = one
      BY DEF KeySet
    <2>2. PICK l \in DOMAIN new : new[l].key = other
      BY <1>1 DEF KeySet
    <2>3. PICK k \in DOMAIN new : k < l /\ new[k].key = one
      BY <2>1, <2>2 DEF Stand, moved
    <2> QED BY <1>3, <2>2, <2>3
  <1>6. KeepsOrder(old, out, moved, {})
    BY <1>1, <1>4, <1>5 DEF KeepsOrder, Stand
  <1>7. ASSUME NEW key \in KeySet(old)
        PROVE  KeepsOrder(StepsIn(old, key), StepsIn(out, key), {}, gone(key))
    <2>1. PICK i \in DOMAIN old : old[i].key = key
      BY DEF KeySet
    <2>2. PICK k \in DOMAIN new :
            new[k].key = key /\ KeepsOrder(old[i].steps, new[k].steps, {}, gone(key))
      BY <2>1 DEF StepsStand
    <2> HIDE DEF gone
    <2>3. StepsIn(old, key) = old[i].steps
      BY <2>1, KeptKeyed, KeyedAt
    <2>4. StepsIn(out, key) = Spaced(InOrder(new[k].steps))
      <3>1. StepsIn(out, out[k].key) = out[k].steps
        BY <1>1, KeptKeyed, KeyedAt
      <3> QED BY <1>1, <2>2, <3>1
    <2>5. KeepsOrder(new[k].steps, Spaced(InOrder(new[k].steps)), {}, {})
      <3>1. Distinct(new[k].steps, StepConfig)
        BY DEF Keyed
      <3> QED BY <3>1, StepsRenumbered
    <2>6. KeepsOrder(old[i].steps, Spaced(InOrder(new[k].steps)), {} \cup {}, gone(key) \cup {})
      BY <2>2, <2>5, KeptInTurn
    <2>7. {} \cup {} = {} /\ gone(key) \cup {} = gone(key)
      OBVIOUS
    <2> QED BY <2>3, <2>4, <2>6, <2>7
  <1> QED BY <1>6, <1>7 DEF OrderKept, moved, out

\* Activities whose places keep their keys stand as they stood.
LEMMA StandAsBefore ==
  ASSUME NEW old, NEW new, NEW n \in Nat, NEW m \in Nat, n <= m, DOMAIN old = 1..n, DOMAIN new = 1..m,
         \A i \in 1..n : new[i].key = old[i].key, NEW moved
  PROVE  Stand(old, new, moved)
  <1>1. \A i \in 1..n : i \in 1..m
    OBVIOUS
  <1>2. KeySet(old) \subseteq KeySet(new)
    BY <1>1 DEF KeySet
  <1>3. \A i, j \in DOMAIN old : i < j => \E k, l \in DOMAIN new : k < l /\ new[k].key = old[i].key /\ new[l].key = old[j].key
    BY <1>1
  <1>4. ASSUME NEW i \in DOMAIN old, NEW l \in DOMAIN new, new[l].key \notin KeySet(old) PROVE i < l
    <2>1. l \notin 1..n
      BY <1>4 DEF KeySet
    <2> QED BY <2>1
  <1>5. \A i \in DOMAIN old, l \in DOMAIN new : new[l].key \notin KeySet(old) =>
          \E k \in DOMAIN new : k < l /\ new[k].key = old[i].key
    BY <1>1, <1>4
  <1> QED BY <1>2, <1>3, <1>5 DEF Stand

\* Entries with the steps they had, wherever they are.
LEMMA StepsAsBefore ==
  ASSUME NEW old, NEW new, NEW c,
         \A i \in DOMAIN old : \E k \in DOMAIN new : new[k].key = old[i].key /\ new[k].steps = old[i].steps
  PROVE  StepsStand(old, new, c)
  <1>1. ASSUME NEW s, NEW m, NEW r PROVE KeepsOrder(s, s, m, r)
    <2>1. KeepsOrder(s, s, {}, {})
      BY SameKept
    <2> QED BY <2>1, KeptButForMore
  <1> SUFFICES ASSUME NEW i \in DOMAIN old
               PROVE  \E k \in DOMAIN new :
                        /\ new[k].key = old[i].key
                        /\ KeepsOrder(old[i].steps, new[k].steps, {}, StepsNamed({c}, "remove_step", old[i].key))
    BY DEF StepsStand
  <1>2. PICK k \in DOMAIN new : new[k].key = old[i].key /\ new[k].steps = old[i].steps
    OBVIOUS
  <1> QED BY <1>1, <1>2

\* An activity put beside another takes its steps along.
LEMMA MovedStands ==
  ASSUME NEW a, WellKept(a), NEW c \in Change, c.op = "move_activity", ~RefusedChange(a, c)
  PROVE  LET new == Rewritten(a, c) IN
         /\ Keyed(new) /\ Stand(a, new, ActivitiesMoved({c})) /\ StepsStand(a, new, c) /\ Len(new) = Len(a)
         /\ StandsBy(KeysOf(new), c.activity, c.anchor, c.after)
  <1> DEFINE new == PutBeside(a, c.activity, c.anchor, c.after)
  <1>1. Rewritten(a, c) = new
    BY DEF Rewritten
  <1>2. c.anchor # c.activity /\ Has(a, c.activity) /\ Has(a, c.anchor) /\ c.after \in BOOLEAN
    BY ChangeNames DEF RefusedChange
  <1>3. Distinct(a, ActivityConfig)
    BY DEF WellKept
  <1>4. /\ Distinct(new, ActivityConfig) /\ Len(new) = Len(a) /\ DOMAIN new = DOMAIN a /\ KeySet(new) = KeySet(a)
        /\ StandsBy(KeysOf(new), c.activity, c.anchor, c.after)
    BY <1>2, <1>3, PutBesideIs
  <1>5. ASSUME NEW i \in DOMAIN a PROVE \E k \in DOMAIN new : new[k] = a[i]
    BY <1>2, <1>3, PutBesideIs
  <1>6. \A i, j \in DOMAIN a : i < j /\ a[i].key # c.activity /\ a[j].key # c.activity =>
          \E k, l \in DOMAIN new : k < l /\ new[k] = a[i] /\ new[l] = a[j]
    <2> DEFINE key == c.activity
               anchor == c.anchor
               after == c.after
    <2>1. key # anchor /\ Has(a, key) /\ Has(a, anchor) /\ after \in BOOLEAN /\ new = PutBeside(a, key, anchor, after)
      BY <1>2
    <2> HIDE DEF key, anchor, after, new
    <2>2. \A i, j \in DOMAIN a : i < j /\ a[i].key # key /\ a[j].key # key =>
            \E k, l \in DOMAIN PutBeside(a, key, anchor, after) :
              k < l /\ PutBeside(a, key, anchor, after)[k] = a[i] /\ PutBeside(a, key, anchor, after)[l] = a[j]
      BY <1>3, <2>1, PutBesideIs
    <2> QED BY <2>1, <2>2 DEF key
  <1> HIDE DEF new
  <1>7. ASSUME NEW k \in DOMAIN new PROVE Distinct(new[k].steps, StepConfig)
    <2>1. PICK i \in DOMAIN a : a[i].key = new[k].key
      BY <1>4 DEF KeySet
    <2>2. PICK l \in DOMAIN new : new[l] = a[i]
      BY <1>5
    <2>3. l = k
      BY <1>4, <2>1, <2>2 DEF Distinct, UniqueIn
    <2>4. Distinct(a[i].steps, StepConfig)
      BY DEF WellKept
    <2> QED BY <2>2, <2>3, <2>4
  <1>8. Keyed(new)
    BY <1>4, <1>7 DEF Keyed, Distinct, UniqueIn
  <1>9. ActivitiesMoved({c}) = {c.activity}
    BY DEF ActivitiesMoved
  <1>10. Stand(a, new, {c.activity})
    BY <1>4, <1>6 DEF Stand, KeySet
  <1>11. StepsStand(a, new, c)
    BY <1>5, StepsAsBefore
  <1> QED BY <1>1, <1>4, <1>8, <1>9, <1>10, <1>11

\* An activity brought in comes last, with steps it may have.
LEMMA AddedStands ==
  ASSUME NEW a, WellKept(a), a # <<>>, NEW c \in Change, c.op = "enable_activity", ~Has(a, c.activity)
  PROVE  LET new == Rewritten(a, c) IN
         Keyed(new) /\ Stand(a, new, ActivitiesMoved({c})) /\ StepsStand(a, new, c) /\ Len(new) = Len(a) + 1
  <1> DEFINE n == Len(a)
             key == c.activity
             step(i) == [key |-> Registered[key][i], enabled |-> TRUE, order |-> i * ORDER_STEP]
             steps == [i \in DOMAIN Registered[key] |-> step(i)]
             x == [key |-> key, enabled |-> TRUE, order |-> a[n].order + ORDER_STEP, steps |-> steps]
             new == Append(a, x)
  <1>1. Rewritten(a, c) = new
    <2>1. Rewritten(a, c) = Append(a, Added(a, c.activity))
      BY DEF Rewritten
    <2>2. Added(a, c.activity) = x
      BY DEF Added
    <2> QED BY <2>1, <2>2
  <1>2. key \in ActivityKeys
    BY ChangeNames
  <1>3. Distinct(a, ActivityConfig) /\ StoredInOrder(a) /\ \A i \in DOMAIN a : Distinct(a[i].steps, StepConfig)
    BY DEF WellKept
  <1>4. n \in Nat /\ n # 0 /\ DOMAIN a = 1..n /\ \A i \in 1..n : a[i].order \in Int
    BY <1>3 DEF Distinct
  <1>5. Registered[key] \in Seq(StepKeys) /\ \A i, j \in DOMAIN Registered[key] : Registered[key][i] = Registered[key][j] => i = j
    <2>1. Registered[key] \in Seq(KnownSteps[key]) /\ IsInjective(Registered[key])
      BY <1>2, DocumentAssumption
    <2>2. KnownSteps[key] \subseteq StepKeys
      BY <1>2 DEF StepKeys
    <2>3. \A i \in 1..Len(Registered[key]) : Registered[key][i] \in StepKeys
      BY <2>1, <2>2
    <2> QED BY <2>1, <2>3 DEF IsInjective
  <1> HIDE DEF key
  <1>6. Distinct(steps, StepConfig)
    <2> DEFINE m == Len(Registered[key])
    <2>1. m \in Nat /\ DOMAIN Registered[key] = 1..m
      BY <1>5
    <2>2. \A i \in 1..m : step(i) \in StepConfig
      BY <1>5, <2>1 DEF StepConfig, ORDER_STEP
    <2>3. \A i \in 1..m : step(i).key = Registered[key][i] /\ step(i).order = i * ORDER_STEP
      OBVIOUS
    <2> HIDE DEF step, m
    <2>4. steps \in Seq(StepConfig) /\ DOMAIN steps = 1..m /\ \A i \in 1..m : steps[i] = step(i)
      BY <2>1, <2>2
    <2> HIDE DEF steps
    <2>5. UniqueIn(steps)
      BY <1>5, <2>1, <2>3, <2>4 DEF UniqueIn, ORDER_STEP
    <2> QED BY <2>4, <2>5, StepsListed
  <1> HIDE DEF steps
  <1>7. x \in ActivityConfig /\ x.key = key /\ x.steps = steps /\ x.order = a[n].order + 10
    BY <1>2, <1>4, <1>6 DEF ActivityConfig, Distinct, ORDER_STEP
  <1> HIDE DEF x
  <1>8. ~Has(a, x.key) /\ \A i \in DOMAIN a : a[i].order < x.order
    <2>1. \A i \in 1..n : i < n => a[i].order < a[n].order
      BY <1>3, <1>4 DEF StoredInOrder
    <2>2. a[n].order \in Int
      BY <1>4
    <2> HIDE DEF n
    <2>3. ASSUME NEW i \in 1..n PROVE a[i].order < x.order
      <3>1. a[i].order \in Int /\ (i < n \/ i = n)
        BY <1>4
      <3> QED BY <1>7, <2>1, <2>2, <3>1
    <2> QED BY <1>4, <1>7, <2>3 DEF key
  <1>9. /\ Distinct(new, ActivityConfig) /\ DOMAIN new = 1..n + 1 /\ new[n + 1] = x
        /\ \A i \in DOMAIN a : new[i] = a[i]
    BY <1>3, <1>7, <1>8, AppendKeeps
  <1> HIDE DEF new, n
  <1>10. Len(new) = n + 1
    BY <1>4, <1>9 DEF Distinct
  <1>11. ASSUME NEW k \in DOMAIN new PROVE Distinct(new[k].steps, StepConfig)
    <2>1. CASE k = n + 1
      BY <1>6, <1>7, <1>9, <2>1
    <2>2. CASE k # n + 1
      BY <1>3, <1>4, <1>9, <2>2
    <2> QED BY <2>1, <2>2
  <1>12. Keyed(new)
    BY <1>9, <1>11 DEF Keyed, Distinct, UniqueIn
  <1>13. Stand(a, new, ActivitiesMoved({c}))
    <2>1. n + 1 \in Nat /\ n <= n + 1 /\ \A i \in 1..n : new[i].key = a[i].key
      BY <1>4, <1>9
    <2>2. DOMAIN a = 1..n /\ DOMAIN new = 1..n + 1
      BY <1>4, <1>9
    <2> QED BY <1>4, <2>1, <2>2, StandAsBefore
  <1>14. StepsStand(a, new, c)
    BY <1>4, <1>9, StepsAsBefore
  <1> QED BY <1>1, <1>10, <1>12, <1>13, <1>14 DEF n

\* An activity turned on or off stays where it is, and its steps with it.
LEMMA SwitchedStands ==
  ASSUME NEW a, WellKept(a), NEW c \in Change, c.op \in {"enable_activity", "disable_activity"}, Has(a, c.activity)
  PROVE  LET new == Rewritten(a, c) IN
         Keyed(new) /\ Stand(a, new, ActivitiesMoved({c})) /\ StepsStand(a, new, c)
  <1> DEFINE n == Len(a)
             key == c.activity
             on == c.op = "enable_activity"
             new == Switched(a, key, on)
  <1>1. Rewritten(a, c) = new
    BY DEF Rewritten
  <1>2. Distinct(a, ActivityConfig) /\ on \in BOOLEAN /\ Has(a, key)
    BY DEF WellKept
  <1>3. n \in Nat /\ DOMAIN a = 1..n /\ n <= n /\ \A i \in 1..n : Distinct(a[i].steps, StepConfig)
    BY <1>2 DEF WellKept, Distinct
  <1> HIDE DEF key, on
  <1>4. /\ Distinct(new, ActivityConfig) /\ DOMAIN new = DOMAIN a
        /\ \A i \in DOMAIN a : new[i].key = a[i].key /\ new[i].order = a[i].order
        /\ ActivityConfig = ActivityConfig => \A i \in DOMAIN a : new[i].steps = a[i].steps
    BY <1>2, SwitchedIs
  <1> HIDE DEF new, n
  <1>5. Keyed(new)
    BY <1>3, <1>4 DEF Keyed, Distinct, UniqueIn
  <1>6. DOMAIN new = 1..n /\ \A i \in 1..n : new[i].key = a[i].key /\ new[i].steps = a[i].steps
    BY <1>3, <1>4
  <1>7. Stand(a, new, ActivitiesMoved({c}))
    BY <1>3, <1>6, StandAsBefore
  <1>8. StepsStand(a, new, c)
    BY <1>3, <1>6, StepsAsBefore
  <1> QED BY <1>1, <1>5, <1>7, <1>8

\* What a change that describes something in a document does not find missing.
LEMMA Described ==
  ASSUME NEW a, NEW c \in Change, ~RefusedChange(a, c),
         c.op \in {"update_intro", "enable_step", "disable_step", "add_step", "remove_step", "move_step"}
  PROVE  LET s == a[At(a, c.activity)].steps IN
         /\ Has(a, c.activity)
         /\ c.op = "add_step" => ~Has(s, c.step)
         /\ c.op \in {"enable_step", "disable_step", "remove_step"} => Has(s, c.step)
         /\ c.op = "move_step" => Has(s, c.step) /\ Has(s, c.anchor) /\ c.anchor # c.step
  BY DEF RefusedChange

\* A change of the steps of one activity leaves the activities where they are and
\* the steps of the others alone.
LEMMA StepsChangeStands ==
  ASSUME NEW a, WellKept(a), NEW c \in Change, ~RefusedChange(a, c),
         c.op \in {"update_intro", "enable_step", "disable_step", "add_step", "remove_step", "move_step"}
  PROVE  LET new == Rewritten(a, c) IN
         Keyed(new) /\ Stand(a, new, ActivitiesMoved({c})) /\ StepsStand(a, new, c)
  <1> DEFINE n == Len(a)
             at == At(a, c.activity)
             s == a[at].steps
             t == StepsRewritten(s, c)
             changed == [a[at] EXCEPT !.steps = t]
             new == [a EXCEPT ![at] = changed]
             gone(key) == StepsNamed({c}, "remove_step", key)
  <1>1. Rewritten(a, c) = new
    BY DEF Rewritten
  <1>2. Distinct(a, ActivityConfig) /\ Keyed(a)
    BY KeptKeyed DEF WellKept
  <1>3. n \in Nat /\ DOMAIN a = 1..n /\ a \in [1..n -> ActivityConfig] /\ n <= n
    BY <1>2 DEF Distinct
  <1>4. at \in 1..n /\ a[at].key = c.activity /\ a[at] \in ActivityConfig
    <2>1. Has(a, c.activity) /\ UniqueIn(a)
      BY <1>2, Described DEF Distinct
    <2> QED BY <1>3, <2>1, AtIs
  <1> HIDE DEF at
  <1>5. Distinct(s, StepConfig)
    BY <1>3, <1>4 DEF WellKept
  <1>6. /\ c.op = "add_step" => ~Has(s, c.step)
        /\ c.op \in {"enable_step", "disable_step", "remove_step"} => Has(s, c.step)
        /\ c.op = "move_step" => Has(s, c.step) /\ Has(s, c.anchor) /\ c.anchor # c.step
    BY Described DEF at
  <1> HIDE DEF s
  <1>7. Distinct(t, StepConfig) /\ KeepsOrder(s, t, {}, IF c.op = "remove_step" THEN {c.step} ELSE {})
    BY <1>5, <1>6, StepsRewrittenIs
  <1> HIDE DEF t
  <1>8. changed \in ActivityConfig /\ changed.key = a[at].key /\ changed.steps = t
    BY <1>4, <1>7 DEF ActivityConfig, Distinct
  <1> HIDE DEF changed
  <1>9. new \in [1..n -> ActivityConfig] /\ \A i \in 1..n : new[i] = IF i = at THEN changed ELSE a[i]
    BY <1>3, <1>4, <1>8
  <1> HIDE DEF new
  <1>10. new \in Seq(ActivityConfig) /\ DOMAIN new = 1..n
    BY <1>3, <1>9, SequenceIs
  <1>11. \A i \in 1..n : new[i].key = a[i].key
    BY <1>8, <1>9
  <1> HIDE DEF n
  <1>12. \A i \in 1..n : Distinct(new[i].steps, StepConfig)
    BY <1>2, <1>3, <1>7, <1>8, <1>9 DEF Keyed
  <1>13. Keyed(new)
    BY <1>2, <1>3, <1>10, <1>11, <1>12 DEF Keyed
  <1>14. Stand(a, new, ActivitiesMoved({c}))
    BY <1>3, <1>10, <1>11, StandAsBefore
  <1>15. StepsStand(a, new, c)
    <2>1. ASSUME NEW i \in 1..n PROVE KeepsOrder(a[i].steps, new[i].steps, {}, gone(a[i].key))
      <3>1. CASE i = at
        <4>1. (IF c.op = "remove_step" THEN {c.step} ELSE {}) \subseteq gone(a[at].key)
          BY <1>4 DEF StepsNamed
        <4> DEFINE out == IF c.op = "remove_step" THEN {c.step} ELSE {}
        <4> HIDE DEF out, gone
        <4>2. KeepsOrder(s, t, {}, out) /\ {} \subseteq {} /\ out \subseteq gone(a[at].key)
          BY <1>7, <4>1 DEF out
        <4>3. KeepsOrder(s, t, {}, gone(a[at].key))
          BY <4>2, KeptButForMore
        <4> QED BY <1>8, <1>9, <3>1, <4>3 DEF s
      <3>2. CASE i # at
        <4> HIDE DEF gone
        <4>1. new[i].steps = a[i].steps
          BY <1>9, <3>2
        <4>2. KeepsOrder(a[i].steps, a[i].steps, {}, {})
          BY SameKept
        <4>3. KeepsOrder(a[i].steps, a[i].steps, {}, gone(a[i].key))
          BY <4>2, KeptButForMore
        <4> QED BY <4>1, <4>3
      <3> QED BY <3>1, <3>2
    <2> HIDE DEF gone
    <2>2. \A i \in DOMAIN a : i \in DOMAIN new /\ new[i].key = a[i].key
                              /\ KeepsOrder(a[i].steps, new[i].steps, {}, gone(a[i].key))
      BY <1>3, <1>10, <1>11, <2>1
    <2> QED BY <2>2 DEF StepsStand, gone
  <1> QED BY <1>1, <1>13, <1>14, <1>15

\* Every change that describes something leaves activities with their own keys,
\* and moves no more than it says.
LEMMA ChangeStands ==
  ASSUME NEW a, WellKept(a), a # <<>>, NEW c \in Change, c.op # "set_monday_scope", ~RefusedChange(a, c)
  PROVE  LET new == Rewritten(a, c) IN
         /\ Keyed(new) /\ Stand(a, new, ActivitiesMoved({c})) /\ StepsStand(a, new, c)
         /\ c.op = "move_activity" => StandsBy(KeysOf(new), c.activity, c.anchor, c.after)
  <1>1. CASE c.op = "move_activity"
    BY <1>1, MovedStands
  <1>2. CASE c.op = "enable_activity" /\ ~Has(a, c.activity)
    BY <1>2, AddedStands
  <1>3. CASE c.op \in {"enable_activity", "disable_activity"} /\ Has(a, c.activity)
    BY <1>3, SwitchedStands
  <1>4. CASE c.op \in {"update_intro", "enable_step", "disable_step", "add_step", "remove_step", "move_step"}
    BY <1>4, StepsChangeStands
  <1>5. c.op = "disable_activity" => Has(a, c.activity)
    BY DEF RefusedChange
  <1> QED BY <1>1, <1>2, <1>3, <1>4, <1>5, ChangeNames

\* A document obeys having had nothing done to it.
LEMMA ObeysNothing ==
  ASSUME NEW a, NEW changes
  PROVE  OrderKept(a, a, changes)
  <1>1. ASSUME NEW s, NEW m, NEW r PROVE KeepsOrder(s, s, m, r)
    <2>1. KeepsOrder(s, s, {}, {})
      BY SameKept
    <2> QED BY <2>1, KeptButForMore
  <1> QED BY <1>1 DEF OrderKept

\* What obeys some changes and then others obeys them all.
LEMMA ObeysInTurn ==
  ASSUME NEW a, NEW b, NEW d, NEW first, NEW then, OrderKept(a, b, first), OrderKept(b, d, then)
  PROVE  OrderKept(a, d, first \cup then)
  <1> DEFINE all == first \cup then
             moved(cs) == ActivitiesMoved(cs)
             gone(cs, key) == StepsNamed(cs, "remove_step", key)
  <1>1. moved(all) = moved(first) \cup moved(then)
    BY DEF ActivitiesMoved
  <1>2. \A key : gone(all, key) = gone(first, key) \cup gone(then, key)
    BY DEF StepsNamed
  <1>3. KeepsOrder(a, b, moved(first), {}) /\ KeepsOrder(b, d, moved(then), {})
    BY DEF OrderKept
  <1>4. ASSUME NEW key \in KeySet(a)
        PROVE  KeepsOrder(StepsIn(a, key), StepsIn(d, key), {}, gone(all, key))
    <2>1. key \in KeySet(b)
      BY <1>3 DEF KeepsOrder
    <2>2. KeepsOrder(StepsIn(a, key), StepsIn(b, key), {}, gone(first, key))
      BY DEF OrderKept
    <2>3. KeepsOrder(StepsIn(b, key), StepsIn(d, key), {}, gone(then, key))
      BY <2>1 DEF OrderKept
    <2> HIDE DEF gone, all
    <2>4. KeepsOrder(StepsIn(a, key), StepsIn(d, key), {} \cup {},
                     gone(first, key) \cup gone(then, key))
      BY <2>2, <2>3, KeptInTurn
    <2> QED BY <1>2, <2>4
  <1> HIDE DEF moved, all
  <1>5. KeepsOrder(a, d, moved(all), {})
    <2>1. KeepsOrder(a, d, moved(first) \cup moved(then), {} \cup {})
      BY <1>3, KeptInTurn
    <2>2. {} \cup {} = {}
      OBVIOUS
    <2> QED BY <1>1, <2>1, <2>2
  <1> QED BY <1>4, <1>5 DEF OrderKept, moved, all

\* Renumbered once more, a document still obeys whatever was done last.
LEMMA RenumberedObeys ==
  ASSUME NEW a, WellKept(a), NEW c
  PROVE  OrderKept(a, Renumbered(a), {c})
  <1> DEFINE n == Len(a)
  <1>1. Keyed(a)
    BY KeptKeyed
  <1>2. n \in Nat /\ DOMAIN a = 1..n /\ n <= n
    BY <1>1 DEF Keyed
  <1> HIDE DEF n
  <1>3. Stand(a, a, ActivitiesMoved({c}))
    BY <1>2, StandAsBefore
  <1>4. StepsStand(a, a, c)
    BY StepsAsBefore
  <1> QED BY <1>1, <1>3, <1>4, StandObeys

\* Renumbering does not touch the keys.
LEMMA RenumberedKeys ==
  ASSUME NEW a, Keyed(a)
  PROVE  KeysOf(Renumbered(a)) = KeysOf(a)
  <1>1. DOMAIN Renumbered(a) = DOMAIN a /\ \A i \in DOMAIN a : Renumbered(a)[i].key = a[i].key
    BY RenumberedIs
  <1> QED BY <1>1 DEF KeysOf

\* What a change that describes something makes of a document: a document as it
\* is kept, its order changed as the change says.
LEMMA AfterChangeIs ==
  ASSUME NEW a, WellKept(a), a # <<>>, NEW c \in Applicable(a)
  PROVE  LET new == AfterChange(a, c) IN
         /\ WellKept(new) /\ new # <<>> /\ OrderKept(a, new, {c})
         /\ c.op = "move_activity" => StandsBy(KeysOf(new), c.activity, c.anchor, c.after)
  <1>1. c \in Change /\ ~RefusedChange(a, c)
    BY DEF Applicable
  <1>2. CASE c.op = "set_monday_scope"
    <2>1. AfterChange(a, c) = a
      BY <1>2 DEF AfterChange
    <2> QED BY <1>2, <2>1, ObeysNothing
  <1>3. CASE c.op # "set_monday_scope"
    <2> DEFINE x == Rewritten(a, c)
               new == Renumbered(x)
    <2>1. Distinct(a, ActivityConfig) /\ StoredInOrder(a)
      BY DEF WellKept
    <2>2. InOrder(a) = a
      BY <2>1, InOrderStays
    <2>3. AfterChange(a, c) = new
      BY <1>3, <2>2 DEF AfterChange
    <2>4. /\ Keyed(x) /\ Stand(a, x, ActivitiesMoved({c})) /\ StepsStand(a, x, c)
          /\ c.op = "move_activity" => StandsBy(KeysOf(x), c.activity, c.anchor, c.after)
      BY <1>1, <1>3, ChangeStands
    <2> HIDE DEF x
    <2>5. WellKept(new) /\ KeySet(new) = KeySet(x) /\ KeysOf(new) = KeysOf(x)
      BY <2>4, RenumberedIs, RenumberedKeys
    <2>6. OrderKept(a, new, {c})
      BY <2>4, StandObeys
    <2>7. new # <<>>
      <3>1. Len(a) # 0 /\ DOMAIN a = 1..Len(a) /\ Len(a) \in Nat
        BY <2>1 DEF Distinct
      <3>2. a[1].key \in KeySet(a)
        BY <3>1 DEF KeySet
      <3>3. a[1].key \in KeySet(new)
        BY <2>4, <2>5, <3>2 DEF Stand
      <3> HIDE DEF new
      <3> QED BY <3>3 DEF KeySet
    <2> QED BY <2>3, <2>4, <2>5, <2>6, <2>7
  <1> QED BY <1>2, <1>3

-----------------------------------------------------------------------------
(* The document in force and the proposal                                     *)

\* The proposal's document was made from the one it was worked on, by its changes.
AsWorked ==
  /\ OrderKept(proposal.base, proposal.worked, Range(proposal.changes))
  /\ proposal.changes # <<>> =>
       /\ OrderKept(proposal.base, proposal.document, Range(proposal.changes))
       /\ LastChange.op = "move_activity" =>
            StandsBy(KeysOf(proposal.document), LastChange.activity, LastChange.anchor, LastChange.after)

\* The document in force validates; both documents of the proposal are as they
\* are kept, there is an activity to add another behind, and the changes have done
\* no more to the order than they say.
DocumentInv ==
  /\ WellKept(playbook) /\ Workable(playbook)
  /\ proposal \in [changes : Seq(Change), base : Seq(ActivityConfig), worked : Seq(ActivityConfig),
                   document : Seq(ActivityConfig)]
  /\ WellKept(proposal.worked) /\ proposal.worked # <<>> /\ WellKept(proposal.document)
  /\ AsWorked

\* A document that validates and is stored in order is as it is kept.
LEMMA WorkableKept ==
  ASSUME NEW a \in Seq(ActivityConfig), Workable(a)
  PROVE  /\ a # <<>> /\ (StoredInOrder(a) => WellKept(a))
  <1>1. a # <<>>
    BY DEF Workable
  <1>2. Distinct(a, ActivityConfig)
    BY DEF Workable, Distinct, ActivityConfig
  <1>3. ASSUME NEW i \in DOMAIN a PROVE Distinct(a[i].steps, StepConfig)
    <2>1. a[i].steps \in Seq(StepConfig)
      <3>1. a[i] \in ActivityConfig
        OBVIOUS
      <3> QED BY <3>1 DEF ActivityConfig
    <2>2. UniqueIn(a[i].steps)
      BY DEF Workable
    <2> QED BY <2>1, <2>2, StepsListed
  <1> QED BY <1>1, <1>2, <1>3 DEF WellKept

\* They stand at first.
LEMMA DocumentStarts == DocumentInit => DocumentInv
  <1> SUFFICES ASSUME DocumentInit PROVE DocumentInv
    OBVIOUS
  <1>1. playbook = ShippedDocument /\ proposal = [changes |-> <<>>, base |-> playbook, worked |-> playbook, document |-> playbook]
    BY DEF DocumentInit
  <1>2. playbook \in Seq(ActivityConfig) /\ Workable(playbook) /\ StoredInOrder(playbook)
    BY <1>1, DocumentAssumption
  <1>3. WellKept(playbook) /\ playbook # <<>>
    BY <1>2, WorkableKept
  <1>4. /\ proposal.changes = <<>> /\ proposal.base = playbook /\ proposal.worked = playbook
        /\ proposal.document = playbook /\ <<>> \in Seq(Change)
    BY <1>1
  <1>5. AsWorked
    BY <1>4, ObeysNothing DEF AsWorked
  <1>6. proposal \in [changes : Seq(Change), base : Seq(ActivityConfig), worked : Seq(ActivityConfig),
                      document : Seq(ActivityConfig)]
    BY <1>1, <1>2, <1>4
  <1> QED BY <1>2, <1>3, <1>4, <1>5, <1>6 DEF DocumentInv

\* A proposal of one more change, on a document that obeys the ones before.
LEMMA ProposedInv ==
  ASSUME DocumentInv, NEW changes \in Seq(Change), NEW worked, WellKept(worked), worked # <<>>,
         OrderKept(playbook, worked, Range(changes)), NEW change \in Change,
         ProposeChanges(changes, worked, change)
  PROVE  DocumentInv'
  <1> DEFINE changed == AfterChange(worked, change)
             all == Append(changes, change)
             document == Renumbered(changed)
  <1>1. /\ change \in Applicable(worked) /\ UNCHANGED playbook
        /\ proposal' = [changes |-> all, base |-> playbook, worked |-> changed, document |-> document]
    BY DEF ProposeChanges
  <1>2. /\ WellKept(changed) /\ changed # <<>> /\ OrderKept(worked, changed, {change})
        /\ change.op = "move_activity" => StandsBy(KeysOf(changed), change.activity, change.anchor, change.after)
    BY <1>1, AfterChangeIs
  <1>3. all \in Seq(Change) /\ Len(all) # 0 /\ all[Len(all)] = change /\ Range(all) = Range(changes) \cup {change}
    <2> DEFINE n == Len(changes)
    <2>1. n \in Nat /\ DOMAIN changes = 1..n
      OBVIOUS
    <2>2. all \in Seq(Change) /\ Len(all) = n + 1 /\ all[n + 1] = change /\ \A i \in 1..n : all[i] = changes[i]
      BY AppendProperties
    <2> HIDE DEF n, all
    <2>3. DOMAIN all = 1..n + 1
      BY <2>1, <2>2
    <2>4. \A i \in 1..n : all[i] \in Range(changes)
      BY <2>1, <2>2 DEF Range
    <2>5. Range(all) \subseteq Range(changes) \cup {change}
      <3>1. \A i \in 1..n + 1 : i \in 1..n \/ i = n + 1
        BY <2>1
      <3> QED BY <2>2, <2>3, <2>4, <3>1 DEF Range
    <2>6. Range(changes) \cup {change} \subseteq Range(all)
      <3>1. \A i \in 1..n : i \in DOMAIN all /\ all[i] = changes[i]
        BY <2>1, <2>2, <2>3
      <3>2. n + 1 \in DOMAIN all
        BY <2>1, <2>3
      <3> QED BY <2>1, <2>2, <3>1, <3>2 DEF Range
    <2> QED BY <2>1, <2>2, <2>5, <2>6
  <1> HIDE DEF changed, all
  <1>4. Keyed(changed)
    BY <1>2, KeptKeyed
  <1>5. WellKept(document) /\ KeysOf(document) = KeysOf(changed)
    BY <1>4, RenumberedIs, RenumberedKeys
  <1>6. OrderKept(changed, document, {change})
    BY <1>2, RenumberedObeys
  <1> HIDE DEF document
  <1>7. OrderKept(playbook, changed, Range(all))
    BY <1>2, <1>3, ObeysInTurn
  <1>8. OrderKept(playbook, document, Range(all))
    <2>1. OrderKept(playbook, document, Range(all) \cup {change})
      BY <1>6, <1>7, ObeysInTurn
    <2>2. Range(all) \cup {change} = Range(all)
      BY <1>3
    <2> QED BY <2>1, <2>2
  <1>9. /\ proposal'.changes = all /\ proposal'.base = playbook /\ proposal'.worked = changed
        /\ proposal'.document = document
    BY <1>1
  <1>10. LastChange' = change
    BY <1>3, <1>9 DEF LastChange
  <1>11. AsWorked'
    BY <1>2, <1>5, <1>7, <1>8, <1>9, <1>10 DEF AsWorked
  <1>12. /\ WellKept(playbook) /\ Workable(playbook) /\ playbook \in Seq(ActivityConfig)
         /\ changed \in Seq(ActivityConfig) /\ document \in Seq(ActivityConfig)
    BY <1>2, <1>5 DEF DocumentInv, WellKept, Distinct
  <1>13. proposal' \in [changes : Seq(Change), base : Seq(ActivityConfig), worked : Seq(ActivityConfig),
                        document : Seq(ActivityConfig)]
    BY <1>1, <1>3, <1>12
  <1>14. WellKept(playbook') /\ Workable(playbook')
    BY <1>1, <1>12
  <1> QED BY <1>2, <1>5, <1>9, <1>11, <1>13, <1>14 DEF DocumentInv

\* Proposing and agreeing keep them.
LEMMA DocumentSteps ==
  ASSUME DocumentInv, DocumentNext
  PROVE  DocumentInv'
  <1>1. ASSUME NEW change \in Change, ProposeChanges(<<>>, playbook, change) PROVE DocumentInv'
    <2>1. WellKept(playbook) /\ playbook \in Seq(ActivityConfig) /\ Workable(playbook)
      BY DEF DocumentInv, WellKept, Distinct
    <2>2. playbook # <<>> /\ OrderKept(playbook, playbook, Range(<<>>)) /\ <<>> \in Seq(Change)
      BY <2>1, WorkableKept, ObeysNothing
    <2> QED BY <1>1, <2>1, <2>2, ProposedInv
  <1>2. ASSUME proposal.base = playbook, NEW change \in Change,
               ProposeChanges(proposal.changes, proposal.worked, change)
        PROVE  DocumentInv'
    <2>1. /\ proposal.changes \in Seq(Change) /\ WellKept(proposal.worked) /\ proposal.worked # <<>>
          /\ OrderKept(playbook, proposal.worked, Range(proposal.changes))
      BY <1>2 DEF DocumentInv, AsWorked
    <2> QED BY <1>2, <2>1, ProposedInv
  <1>3. ASSUME AgreeChanges PROVE DocumentInv'
    <2>1. UNCHANGED proposal /\ playbook' = proposal.document /\ Workable(proposal.document)
      BY <1>3 DEF AgreeChanges
    <2>2. AsWorked'
      BY <2>1 DEF DocumentInv, AsWorked, LastChange
    <2> QED BY <2>1, <2>2 DEF DocumentInv
  <1> QED BY <1>1, <1>2, <1>3 DEF DocumentNext, ProposeOne, ProposeMore

\* So does what touches neither.
LEMMA DocumentStays ==
  ASSUME DocumentInv, UNCHANGED documentVars
  PROVE  DocumentInv'
  <1>1. playbook' = playbook /\ proposal' = proposal
    BY DEF documentVars
  <1> QED BY <1>1 DEF DocumentInv, AsWorked, LastChange

\* What they show.
LEMMA DocumentInvShows ==
  ASSUME DocumentInv
  PROVE  DocumentTypeOK /\ ReordersAsAsked
  <1>1. WellKept(proposal.document) /\ Distinct(proposal.document, ActivityConfig) /\ StoredInOrder(proposal.document)
    BY DEF DocumentInv, WellKept
  <1>2. DocumentTypeOK
    <2>1. playbook \in Seq(ActivityConfig) /\ Workable(playbook)
      BY DEF DocumentInv, WellKept, Distinct
    <2>2. UniqueIn(proposal.document)
      BY <1>1 DEF Distinct
    <2>3. \A i \in DOMAIN proposal.document : UniqueIn(proposal.document[i].steps)
      BY <1>1 DEF WellKept, Distinct
    <2> QED BY <2>1, <2>2, <2>3 DEF DocumentInv, DocumentTypeOK
  <1>3. InOrder(proposal.document) = proposal.document
    BY <1>1, InOrderStays
  <1>4. ReordersAsAsked
    BY <1>3, OrderKeptObeys DEF DocumentInv, AsWorked, ReordersAsAsked
  <1> QED BY <1>2, <1>4

\* The document in force and the proposal stay so.
THEOREM DocumentIsInv == DocumentSpec => []DocumentInv
  <1>1. DocumentInv /\ [DocumentNext]_<<documentVars, left>> => DocumentInv'
    BY DocumentSteps, DocumentStays
  <1> QED BY <1>1, DocumentStarts, PTL DEF DocumentSpec

\* A document in force validates, and every proposal's is well formed: no key or
\* position twice, among activities or among the steps of one (validate_playbook,
\* renumber).
THEOREM DocumentTyped == DocumentSpec => []DocumentTypeOK
  BY DocumentIsInv, DocumentInvShows, PTL

\* A proposal of any number of changes reorders a session as it says and no more
\* (rewrite, renumber): an activity last moved stands where it was moved to, and
\* what no change names keeps its order, ahead of what is added.
THEOREM DocumentReorders == DocumentSpec => []ReordersAsAsked
  BY DocumentIsInv, DocumentInvShows, PTL

\* The steps of every activity that a proposal does not remove are worked in the
\* order they were worked in, whatever steps it moves.
StepsStay ==
  proposal.changes # <<>> =>
    \A key \in KeySet(proposal.base) :
      KeepsOrder(StepsIn(proposal.base, key), StepsIn(proposal.document, key), {},
                 StepsNamed(Range(proposal.changes), "remove_step", key))

\* So a step never moves: what move_step says of one is not done (rewrite sorts
\* the steps it moved, renumber sorts them again by the positions they had).
THEOREM MovedStepsStay == DocumentSpec => []StepsStay
  <1>1. DocumentInv => StepsStay
    BY DEF DocumentInv, AsWorked, OrderKept, StepsStay
  <1> QED BY <1>1, DocumentIsInv, PTL
=============================================================================
