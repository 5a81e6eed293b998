-------------------------- MODULE AssistantProofs --------------------------
(* Proofs about the rest of the assistant: the rules it learns and what they  *)
(* recommend, the scans of its mail and the guided reviews, for every set of  *)
(* lessons, rows, threads, capabilities and documents, any number of requests *)
(* in flight and any bounds.                                                  *)
(*                                                                            *)
(* Recommendations: a request in flight holds rows it loaded, and what it is  *)
(* to make of each is another recommendation or what it was asked; so what    *)
(* others did to a row meanwhile does not matter.                             *)
(*                                                                            *)
(* Scans: a thread that a search would have returned at every moment was      *)
(* returned by it, unless the scan knows that it missed some, and is recorded *)
(* once it is fetched; a row held is the row that was read.                   *)
(*                                                                            *)
(* Reviews: nothing is in flight; a result is whole because no thread is      *)
(* counted twice, which counting the threads and the items shows.             *)
(*                                                                            *)
(* Written rules: a request in flight knows a version of its rule and a step  *)
(* that follows what it loaded; so a rule that nobody wrote over has earned   *)
(* its status in its version.  Of a rule that narrows, level by level from    *)
(* the tests outwards, nothing that narrows matches bare mail.                *)
(*                                                                            *)
(* Boards: for every request and every item it need not share, the row reads  *)
(* what the request has reported so far, whatever is still out.               *)
EXTENDS Recommendations, GuidedReview, EvidenceSync, Rulebook, TodoBoards, NumberSets, FiniteSetTheorems

-----------------------------------------------------------------------------
(* Learned rules                                                              *)

\* A rule advises only if it was confirmed and acts only if it was promoted.
Justified(r) ==
  /\ r.state \in {"confirmed", "automatable"} => r.confirmed
  /\ r.state = "automatable" => r.granted

\* A rule that was retired and not overwritten is retired.
StaysRetired == \A i \in DOMAIN taught \ overwritten : taught[i].retired => taught[i].state = "retired"

\* What a request in flight knows of the rule it loaded: that it is there, was
\* not retired, and was confirmed if it is to be promoted.
TeachingOK(t) ==
  /\ t.kind = "record" => t.rule \in 0..Len(taught) /\ t.lesson \in Lessons /\ t.to \in {"observed", "proposed"}
  /\ t.kind = "move" =>
       /\ t.rule \in DOMAIN taught /\ t.state \in RuleStates \ {"retired"}
       /\ t.to \in {"confirmed", "automatable", "retired"}
       /\ t.to = "automatable" => taught[t.rule].confirmed

LearnedInv ==
  /\ LearnedTypeOK /\ StaysRetired
  /\ \A i \in DOMAIN taught : Justified(taught[i])
  /\ \A h \in Handlers : TeachingOK(teaching[h])

\* A rule that is justified and stays retired stands as it was granted.
LEMMA RulesAreJustified == LearnedInv => RulesStandAsGranted
  BY DEF LearnedInv, StaysRetired, Justified, RulesStandAsGranted, Advises, ActsUnasked

\* Nothing is taught at first.
LEMMA LearnedStarts == LearnedInit => LearnedInv
  <1> SUFFICES ASSUME LearnedInit PROVE LearnedInv
    OBVIOUS
  <1>1. taught = <<>> /\ overwritten = {} /\ grants = Grants
        /\ teaching = [h \in Handlers |-> NotTeaching]
    BY DEF LearnedInit
  <1>2. taught \in Seq(RuleRow) /\ DOMAIN taught = {}
    BY <1>1
  <1>3. Grants \in Grantable
    BY DEF Grants, Grantable
  <1>4. NotTeaching \in TeachingType
    BY DEF NotTeaching, TeachingType
  <1>5. LearnedTypeOK
    BY <1>1, <1>2, <1>3, <1>4 DEF LearnedTypeOK
  <1>6. \A h \in Handlers : TeachingOK(teaching[h])
    BY <1>1 DEF TeachingOK, NotTeaching
  <1> QED BY <1>2, <1>5, <1>6 DEF LearnedInv, StaysRetired

\* The rule that says the same is one there is.
LEMMA EquivalentIs ==
  ASSUME taught \in Seq(RuleRow), NEW lesson
  PROVE  /\ Equivalent(lesson) \in 0..Len(taught)
         /\ Equivalent(lesson) # 0 => taught[Equivalent(lesson)].state # "retired"
  <1> DEFINE same == {i \in DOMAIN taught : taught[i].lesson = lesson /\ taught[i].state # "retired"}
  <1>1. same \subseteq Nat /\ same \subseteq 1..Len(taught) /\ Len(taught) \in Nat
    OBVIOUS
  <1>2. CASE same = {}
    BY <1>1, <1>2 DEF Equivalent
  <1>3. CASE same # {}
    <2>1. Equivalent(lesson) = CHOOSE i \in same : \A j \in same : i <= j
      BY <1>3 DEF Equivalent
    <2>2. Equivalent(lesson) \in same
      <3> HIDE DEF same
      <3> QED BY <1>1, <1>3, <2>1, Smallest
    <2> QED BY <1>1, <2>2
  <1> QED BY <1>2, <1>3

\* Steps that keep what is there: no rule is forgotten or loses its
\* confirmation, every rule is justified, and no request is taken up.
LEMMA LearnedKept ==
  ASSUME LearnedInv,
         taught' \in Seq(RuleRow), Len(taught) <= Len(taught)',
         \A i \in DOMAIN taught : taught[i].confirmed => taught'[i].confirmed,
         \A i \in DOMAIN taught' : Justified(taught'[i]),
         StaysRetired', overwritten' \subseteq DOMAIN taught', grants' \in Grantable,
         teaching' \in [Handlers -> TeachingType],
         \A h \in Handlers : teaching'[h] = teaching[h] \/ teaching'[h] = NotTeaching
  PROVE  LearnedInv'
  <1>1. LearnedTypeOK'
    BY DEF LearnedTypeOK
  <1>2. taught \in Seq(RuleRow) /\ \A i \in DOMAIN taught : i \in DOMAIN taught'
    BY DEF LearnedInv, LearnedTypeOK
  <1>3. ASSUME NEW h \in Handlers PROVE TeachingOK(teaching[h])'
    <2>1. CASE teaching'[h] = NotTeaching
      BY <2>1 DEF TeachingOK, NotTeaching
    <2>2. CASE teaching'[h] = teaching[h]
      <3>1. TeachingOK(teaching[h])
        BY DEF LearnedInv
      <3>2. Len(taught) \in Nat /\ Len(taught)' \in Nat /\ 0..Len(taught) \subseteq 0..Len(taught)'
        BY <1>2
      <3> QED BY <1>2, <2>2, <3>1, <3>2 DEF TeachingOK
    <2> QED BY <2>1, <2>2
  <1> QED BY <1>1, <1>3 DEF LearnedInv

\* Nor do new rules, which are only seen or proposed.
LEMMA RulesAdded ==
  ASSUME LearnedInv, NEW new \in Seq(RuleRow), taught' = taught \o new,
         \A k \in DOMAIN new : new[k].state \in {"observed", "proposed"} /\ ~new[k].retired,
         UNCHANGED <<overwritten, grants>>, teaching' \in [Handlers -> TeachingType],
         \A h \in Handlers : teaching'[h] = teaching[h] \/ teaching'[h] = NotTeaching
  PROVE  LearnedInv'
  <1>1. taught \in Seq(RuleRow) /\ overwritten \subseteq DOMAIN taught /\ grants \in Grantable
    BY DEF LearnedInv, LearnedTypeOK
  <1>2. taught' \in Seq(RuleRow) /\ Len(taught)' = Len(taught) + Len(new)
        /\ Len(new) \in Nat /\ Len(taught) \in Nat
    BY <1>1
  <1>3. \A i \in DOMAIN taught : i \in DOMAIN taught' /\ taught'[i] = taught[i]
    BY <1>1, <1>2
  <1>4. \A i \in DOMAIN taught' : i \in DOMAIN taught \/ \E k \in DOMAIN new : taught'[i] = new[k]
    <2> SUFFICES ASSUME NEW i \in DOMAIN taught', i \notin DOMAIN taught
                 PROVE  \E k \in DOMAIN new : taught'[i] = new[k]
      OBVIOUS
    <2>1. i - Len(taught) \in DOMAIN new /\ taught'[i] = new[i - Len(taught)]
      BY <1>1, <1>2
    <2> QED BY <2>1
  <1>5. \A i \in DOMAIN taught' : Justified(taught'[i])
    BY <1>3, <1>4 DEF LearnedInv, Justified
  <1>6. StaysRetired'
    BY <1>3, <1>4 DEF LearnedInv, StaysRetired
  <1>7. Len(taught) <= Len(taught)' /\ overwritten' \subseteq DOMAIN taught'
    BY <1>1, <1>2, <1>3
  <1> QED BY <1>1, <1>2, <1>3, <1>5, <1>6, <1>7, LearnedKept

\* Nor does a rule that is moved: to be proposed or retired, to advise, or to
\* act if it was confirmed; over another state than the one loaded it counts
\* as overwritten.
LEMMA RuleMoved ==
  ASSUME LearnedInv, NEW k \in DOMAIN taught, NEW now \in RuleRow, NEW was \in RuleStates \ {"retired"},
         taught' = [taught EXCEPT ![k] = now], Justified(now),
         taught[k].confirmed => now.confirmed,
         now.retired => taught[k].retired \/ now.state = "retired",
         overwritten' = overwritten \cup (IF taught[k].state # was THEN {k} ELSE {}),
         grants' = grants, teaching' \in [Handlers -> TeachingType],
         \A h \in Handlers : teaching'[h] = teaching[h] \/ teaching'[h] = NotTeaching
  PROVE  LearnedInv'
  <1>1. taught \in Seq(RuleRow) /\ overwritten \subseteq DOMAIN taught /\ grants \in Grantable
    BY DEF LearnedInv, LearnedTypeOK
  <1>2. taught' \in Seq(RuleRow) /\ DOMAIN taught' = DOMAIN taught /\ Len(taught)' = Len(taught)
        /\ taught'[k] = now /\ \A i \in DOMAIN taught \ {k} : taught'[i] = taught[i]
    BY <1>1
  <1>3. \A i \in DOMAIN taught' : Justified(taught'[i])
    BY <1>2 DEF LearnedInv
  <1>4. \A i \in DOMAIN taught : taught[i].confirmed => taught'[i].confirmed
    BY <1>2
  <1>5. overwritten' \subseteq DOMAIN taught' /\ overwritten \subseteq overwritten'
        /\ (taught[k].state # was => k \in overwritten')
    BY <1>1, <1>2
  <1>6. StaysRetired'
    <2> SUFFICES ASSUME NEW i \in DOMAIN taught, i \notin overwritten', taught'[i].retired
                 PROVE  taught'[i].state = "retired"
      BY <1>2 DEF StaysRetired
    <2>1. CASE i # k
      BY <1>2, <1>5, <2>1 DEF LearnedInv, StaysRetired
    <2>2. CASE i = k
      <3>1. taught[k].state = was /\ k \notin overwritten
        BY <1>5, <2>2
      <3>2. ~taught[k].retired
        BY <3>1 DEF LearnedInv, StaysRetired
      <3> QED BY <1>2, <2>2, <3>2
    <2> QED BY <2>1, <2>2
  <1>7. Len(taught) <= Len(taught)'
    BY <1>1, <1>2
  <1> QED BY <1>1, <1>2, <1>3, <1>4, <1>5, <1>6, <1>7, LearnedKept

\* Nor does a request that is taken up over what it knows.
LEMMA TaughtAnew ==
  ASSUME LearnedInv, NEW h \in Handlers, NEW t \in TeachingType, TeachingOK(t),
         teaching' = [teaching EXCEPT ![h] = t], UNCHANGED <<taught, grants, overwritten>>
  PROVE  LearnedInv'
  <1>1. teaching \in [Handlers -> TeachingType]
    BY DEF LearnedInv, LearnedTypeOK
  <1>2. LearnedTypeOK' /\ StaysRetired' /\ \A i \in DOMAIN taught' : Justified(taught'[i])
    BY <1>1 DEF LearnedInv, LearnedTypeOK, StaysRetired
  <1>3. ASSUME NEW o \in Handlers PROVE TeachingOK(teaching[o])'
    <2>1. TeachingOK(teaching'[o])
      BY <1>1 DEF LearnedInv
    <2> QED BY <2>1 DEF TeachingOK
  <1> QED BY <1>2, <1>3 DEF LearnedInv

\* What holds of the rules and of the requests that teach them is kept by every step.
LEMMA LearnedInductive == LearnedInv /\ [LearnedNext]_learnedVars => LearnedInv'
  <1> SUFFICES ASSUME LearnedInv, [LearnedNext]_learnedVars PROVE LearnedInv'
    OBVIOUS
  <1>t. taught \in Seq(RuleRow) /\ grants \in Grantable /\ teaching \in [Handlers -> TeachingType]
    BY DEF LearnedInv, LearnedTypeOK
  <1>n. NotTeaching \in TeachingType
    BY DEF NotTeaching, TeachingType
  <1>1. ASSUME NEW to \in Grantable, GrantsEdited(to) PROVE LearnedInv'
    <2>1. grants' = to /\ UNCHANGED <<taught, teaching, overwritten>>
      BY <1>1 DEF GrantsEdited
    <2>2. StaysRetired' /\ overwritten' \subseteq DOMAIN taught' /\ Len(taught) <= Len(taught)'
      BY <1>t, <2>1 DEF LearnedInv, LearnedTypeOK, StaysRetired
    <2> QED BY <1>t, <1>1, <2>1, <2>2, LearnedKept DEF LearnedInv
  <1>2. ASSUME NEW h \in Handlers, NEW lesson \in Lessons, NEW to \in {"observed", "proposed"},
               LoadLesson(h, lesson, to)
        PROVE  LearnedInv'
    <2> DEFINE i == Equivalent(lesson)
               t == [NotTeaching EXCEPT !.kind = "record", !.rule = i, !.to = to, !.lesson = lesson,
                           !.state = IF i = 0 THEN "none" ELSE taught[i].state]
    <2>1. teaching' = [teaching EXCEPT ![h] = t] /\ UNCHANGED <<taught, grants, overwritten>>
      BY <1>2 DEF LoadLesson
    <2>2. i \in 0..Len(taught)
      BY <1>t, EquivalentIs
    <2>3. t \in TeachingType
      <3>1. i \in Nat /\ (i # 0 => taught[i] \in RuleRow)
        BY <1>t, <2>2
      <3> HIDE DEF i
      <3> QED BY <3>1 DEF TeachingType, NotTeaching, RuleRow, RuleStates
    <2>4. TeachingOK(t)
      <3> HIDE DEF i
      <3> QED BY <2>2 DEF TeachingOK, NotTeaching
    <2> HIDE DEF t
    <2> QED BY <2>1, <2>3, <2>4, TaughtAnew
  <1>3. ASSUME NEW h \in Handlers, NEW i \in DOMAIN taught, NEW to \in {"confirmed", "automatable", "retired"},
               LoadRule(h, i, to)
        PROVE  LearnedInv'
    <2> DEFINE t == [NotTeaching EXCEPT !.kind = "move", !.rule = i, !.to = to,
                           !.state = taught[i].state, !.granted = taught[i].granted]
    <2>1. /\ teaching' = [teaching EXCEPT ![h] = t] /\ UNCHANGED <<taught, grants, overwritten>>
          /\ to \in MayBecome(taught[i].state)
      BY <1>3 DEF LoadRule
    <2>2. taught[i] \in RuleRow /\ i \in Nat /\ Justified(taught[i])
      BY <1>t DEF LearnedInv
    <2>3. taught[i].state \in RuleStates \ {"retired"} /\ (to = "automatable" => taught[i].state = "confirmed")
      BY <2>1, <2>2 DEF MayBecome, RuleRow, RuleStates
    <2>4. t \in TeachingType
      BY <2>2 DEF TeachingType, NotTeaching, RuleRow, RuleStates
    <2>5. TeachingOK(t)
      BY <2>2, <2>3 DEF TeachingOK, NotTeaching, Justified
    <2> HIDE DEF t
    <2> QED BY <2>1, <2>4, <2>5, TaughtAnew
  <1>4. ASSUME NEW h \in Handlers, FinishLesson(h) PROVE LearnedInv'
    <2> DEFINE t == teaching[h]
    <2>1. /\ t.kind = "record" /\ teaching' = [teaching EXCEPT ![h] = NotTeaching] /\ grants' = grants
          /\ t \in TeachingType /\ TeachingOK(t)
      BY <1>4, <1>t DEF FinishLesson, LearnedInv
    <2>2. teaching' \in [Handlers -> TeachingType]
          /\ \A o \in Handlers : teaching'[o] = teaching[o] \/ teaching'[o] = NotTeaching
      BY <1>t, <1>n, <2>1
    <2>3. CASE t.rule = 0
      <3> DEFINE new == <<NewRule(t.lesson, t.to)>>
      <3>1. taught' = taught \o new /\ overwritten' = overwritten
        BY <1>4, <1>t, <2>3, SMTT(40) DEF FinishLesson
      <3>2. NewRule(t.lesson, t.to) \in RuleRow
        BY <2>1 DEF NewRule, RuleRow, RuleStates, TeachingOK
      <3>3. new \in Seq(RuleRow) /\ \A k \in DOMAIN new : new[k] = NewRule(t.lesson, t.to)
        BY <3>2
      <3>4. \A k \in DOMAIN new : new[k].state \in {"observed", "proposed"} /\ ~new[k].retired
        <4> HIDE DEF new
        <4> QED BY <2>1, <3>3 DEF NewRule, TeachingOK
      <3> HIDE DEF new, t
      <3> QED BY <2>1, <2>2, <3>1, <3>3, <3>4, RulesAdded
    <2>4. CASE t.rule # 0 /\ t.state = "observed" /\ t.to = "proposed"
      <3> DEFINE k == t.rule
                 now == Moved(taught[k], "proposed")
      <3>1. k \in DOMAIN taught
        BY <1>t, <2>1, <2>4 DEF TeachingOK
      <3>2. /\ taught' = [taught EXCEPT ![k] = now]
            /\ overwritten' = overwritten \cup (IF taught[k].state # "observed" THEN {k} ELSE {})
        BY <1>4, <2>4 DEF FinishLesson, Overwrites
      <3>3. taught[k] \in RuleRow
        BY <1>t, <3>1
      <3>4. /\ now \in RuleRow /\ now.state = "proposed" /\ now.confirmed = taught[k].confirmed
            /\ now.retired = taught[k].retired
        <4> HIDE DEF k
        <4> QED BY <3>3 DEF Moved, RuleRow, RuleStates
      <3>5. Justified(now)
        BY <3>4 DEF Justified
      <3> HIDE DEF t, k, now
      <3>6. "observed" \in RuleStates \ {"retired"}
        BY DEF RuleStates
      <3> QED BY <2>1, <2>2, <3>1, <3>2, <3>4, <3>5, <3>6, RuleMoved
    <2>5. CASE t.rule # 0 /\ ~(t.state = "observed" /\ t.to = "proposed")
      <3>1. UNCHANGED <<taught, overwritten>>
        BY <1>4, <2>5 DEF FinishLesson
      <3>2. StaysRetired' /\ overwritten' \subseteq DOMAIN taught' /\ Len(taught) <= Len(taught)'
        BY <1>t, <3>1 DEF LearnedInv, LearnedTypeOK, StaysRetired
      <3> QED BY <1>t, <2>1, <2>2, <3>1, <3>2, LearnedKept DEF LearnedInv
    <2> QED BY <2>3, <2>4, <2>5
  <1>5. ASSUME NEW h \in Handlers, FinishMove(h) PROVE LearnedInv'
    <2> DEFINE t == teaching[h]
               k == t.rule
               now == Stamped(taught[k], t)
    <2>1. /\ t.kind = "move" /\ teaching' = [teaching EXCEPT ![h] = NotTeaching] /\ grants' = grants
          /\ t \in TeachingType /\ TeachingOK(t)
      BY <1>5, <1>t DEF FinishMove, LearnedInv
    <2>2. teaching' \in [Handlers -> TeachingType]
          /\ \A o \in Handlers : teaching'[o] = teaching[o] \/ teaching'[o] = NotTeaching
      BY <1>t, <1>n, <2>1
    <2>3. k \in DOMAIN taught /\ t.state \in RuleStates \ {"retired"} /\ taught[k] \in RuleRow
          /\ t.to \in {"confirmed", "automatable", "retired"} /\ (t.to = "automatable" => taught[k].confirmed)
      BY <1>t, <2>1 DEF TeachingOK
    <2>4. /\ taught' = [taught EXCEPT ![k] = now]
          /\ overwritten' = overwritten \cup (IF taught[k].state # t.state THEN {k} ELSE {})
      BY <1>5 DEF FinishMove, Overwrites
    <2>5. /\ now \in RuleRow /\ Justified(now) /\ (taught[k].confirmed => now.confirmed)
          /\ now.retired => taught[k].retired \/ now.state = "retired"
      <3>1. t.granted \in BOOLEAN
        BY <2>1 DEF TeachingType
      <3>2. /\ now.lesson = taught[k].lesson /\ now.state = t.to
            /\ now.confirmed = (taught[k].confirmed \/ t.to = "confirmed")
            /\ now.granted = (IF t.to = "automatable" THEN TRUE
                              ELSE IF t.to = "confirmed" /\ t.granted THEN FALSE ELSE taught[k].granted)
            /\ now.retired = (taught[k].retired \/ t.to = "retired")
            /\ now \in RuleRow
        <4> HIDE DEF t, k
        <4> QED BY <2>3, <3>1 DEF Stamped, Moved, RuleRow, RuleStates
      <3> HIDE DEF now, t, k
      <3> QED BY <2>3, <3>2 DEF Justified
    <2> HIDE DEF t, k, now
    <2> QED BY <2>1, <2>2, <2>3, <2>4, <2>5, RuleMoved
  <1>6. CASE UNCHANGED learnedVars
    <2>1. UNCHANGED <<taught, grants, teaching, overwritten>>
      BY <1>6 DEF learnedVars
    <2>2. StaysRetired' /\ overwritten' \subseteq DOMAIN taught' /\ Len(taught) <= Len(taught)'
      BY <1>t, <2>1 DEF LearnedInv, LearnedTypeOK, StaysRetired
    <2> QED BY <1>t, <2>1, <2>2, LearnedKept DEF LearnedInv
  <1> QED BY <1>1, <1>2, <1>3, <1>4, <1>5, <1>6 DEF LearnedNext

-----------------------------------------------------------------------------
(* Recommendations                                                            *)

\* What a request is to make of a row it loaded: another recommendation, a row
\* that is not approved, or one approved as was asked.
AnswerOK(q) ==
  /\ DOMAIN q.loaded \subseteq Rows /\ q.teaches \subseteq Lessons
  /\ \A r \in DOMAIN q.loaded :
       LET was == q.loaded[r]
           to == q.wanted[r] IN
       /\ was \in AdviceRow /\ to \in AdviceRow
       /\ \/ to.state = was.state /\ to.approved = was.approved
          \/ to.state # "approved"
          \/ /\ r \in DOMAIN q.asked
             /\ to.approved = q.asked[r] \/ r \in q.unseen
             /\ to.approved.action = "gmail_move" => to.approved.folder \in Folders

AdviceInv ==
  /\ LearnedInv
  /\ row \in [Rows -> AdviceRow] /\ shown \in [Rows -> Approval] /\ mixed \subseteq Rows
  /\ answering = [h \in Handlers |-> answering[h]]
  /\ \A h \in Handlers : AnswerOK(answering[h])

\* The invariant gives every row its shape.
LEMMA AdviceTyped == AdviceInv => AdviceTypeOK
  BY DEF AdviceInv, AdviceTypeOK, AnswerOK

\* No row is in a review at first, and no request is in flight.
LEMMA AdviceStarts == LearnedInit /\ AdviceInit => AdviceInv
  <1> SUFFICES ASSUME LearnedInit, AdviceInit PROVE AdviceInv
    OBVIOUS
  <1>1. NotInReview \in AdviceRow /\ NoAdvice \in Approval
    BY DEF NotInReview, NoAdvice, Unapproved, AdviceRow, Approval, NoFolder
  <1>2. AnswerOK(NotAnswering)
    BY DEF AnswerOK, NotAnswering, NoRows
  <1> QED BY <1>1, <1>2, LearnedStarts DEF AdviceInit, AdviceInv

\* An element of a sequence of members is a member.
LEMMA MemberOf ==
  ASSUME NEW S, NEW s \in Seq(S), NEW i \in DOMAIN s
  PROVE  s[i] \in S
  OBVIOUS

\* A sequence of some of the lessons has nothing but those.
LEMMA SequenceOfSet ==
  ASSUME NEW S, IsFiniteSet(S)
  PROVE  SetToSeq(S) \in Seq(S)
  <1>1. Cardinality(S) \in Nat /\ ExistsBijection(1..Cardinality(S), S)
    BY FS_CardinalityType
  <1>2. PICK f \in Bijection(1..Cardinality(S), S) : TRUE
    BY <1>1 DEF ExistsBijection
  <1>3. f \in [1..Cardinality(S) -> S] /\ IsInjective(f)
    BY <1>2 DEF Bijection, Injection
  <1>4. SetToSeq(S) \in [1..Cardinality(S) -> S]
    BY <1>3 DEF SetToSeq
  <1> QED BY <1>1, <1>4

\* The policy recommends what may be recommended; what it approves by itself, a
\* rule recommends that matches, was confirmed and then promoted.
LEMMA EvaluatedIs ==
  ASSUME LearnedInv, NEW r \in Rows
  PROVE  /\ Evaluated(r) \in Approval
         /\ ApprovesItself(r) =>
              \E i \in DOMAIN taught :
                /\ taught[i].confirmed /\ taught[i].granted
                /\ r \in Says[taught[i].lesson].rows /\ Evaluated(r) = Says[taught[i].lesson].advice
  <1>1. taught \in Seq(RuleRow)
    BY DEF LearnedInv, LearnedTypeOK
  <1>2. Intents \subseteq Approval /\ NoAdvice \in Approval
    BY DEF Intents, Approval, NoAdvice, NoFolder
  <1>3. CASE LearnedFor(r) # {}
    <2> DEFINE i == FirstOf(LearnedFor(r))
    <2>1. LearnedFor(r) \subseteq DOMAIN taught /\ LearnedFor(r) \subseteq Nat
      BY <1>1 DEF LearnedFor
    <2>2. i \in LearnedFor(r)
      BY <1>3, <2>1, Smallest DEF FirstOf
    <2>3. Evaluated(r) = Says[taught[i].lesson].advice
      BY <1>3 DEF Evaluated
    <2>4. i \in DOMAIN taught /\ taught[i] \in RuleRow /\ r \in Says[taught[i].lesson].rows
      <3> HIDE DEF i
      <3>1. i \in DOMAIN taught /\ r \in Says[taught[i].lesson].rows
        BY <2>2 DEF LearnedFor
      <3> QED BY <1>1, <3>1
    <2>5. Says[taught[i].lesson].advice \in Intents
      <3>1. taught[i].lesson \in Lessons
        BY <2>4 DEF RuleRow
      <3> HIDE DEF i
      <3> QED BY <3>1, RecommendationAssumption
    <2>6. ApprovesItself(r) => taught[i].confirmed /\ taught[i].granted
      <3>1. Justified(taught[i])
        BY <2>4 DEF LearnedInv
      <3> QED BY <3>1 DEF ApprovesItself, ActsUnasked, Justified
    <2> HIDE DEF i
    <2> QED BY <1>2, <2>3, <2>4, <2>5, <2>6
  <1>4. CASE LearnedFor(r) = {} /\ ShippedFor(r) # {}
    <2> DEFINE i == FirstOf(ShippedFor(r))
    <2>1. Policy \in Seq([rows : SUBSET Rows, advice : Intents])
      BY RecommendationAssumption
    <2>2. ShippedFor(r) \subseteq DOMAIN Policy /\ ShippedFor(r) \subseteq Nat
      BY <2>1 DEF ShippedFor
    <2>3. i \in ShippedFor(r)
      BY <1>4, <2>2, Smallest DEF FirstOf
    <2>4. Policy[i] \in [rows : SUBSET Rows, advice : Intents]
      <3>1. i \in DOMAIN Policy
        BY <2>2, <2>3
      <3> HIDE DEF i
      <3> QED BY <2>1, <3>1, MemberOf
    <2>5. Evaluated(r) = Policy[i].advice
      BY <1>4 DEF Evaluated
    <2> HIDE DEF i
    <2> QED BY <1>2, <1>4, <2>4, <2>5 DEF ApprovesItself
  <1>5. CASE LearnedFor(r) = {} /\ ShippedFor(r) = {}
    BY <1>2, <1>5 DEF Evaluated, ApprovesItself
  <1> QED BY <1>3, <1>4, <1>5

\* What a decision is to make of a row.
LEMMA DecidedIs ==
  ASSUME NEW r \in Rows, row[r] \in AdviceRow,
         NEW kind \in {"approve", "override", "defer", "dismiss"}, NEW given \in Approval,
         Answerable(r, kind, given)
  PROVE  /\ DecidedAs(r, kind, given) \in AdviceRow
         /\ IF kind \in {"approve", "override"}
            THEN /\ DecidedAs(r, kind, given).approved = Chosen(row[r].advice, kind, given)
                 /\ Chosen(row[r].advice, kind, given).action = "gmail_move" =>
                      Chosen(row[r].advice, kind, given).folder \in Folders
            ELSE DecidedAs(r, kind, given).state # "approved"
  <1>1. row[r].advice \in Approval /\ Unapproved \in Approval
    BY DEF AdviceRow, Approval, Unapproved
  <1>2. Chosen(row[r].advice, kind, given) \in Approval
    BY <1>1 DEF Chosen, Approval
  <1>3. CASE kind \in {"approve", "override"}
    <2>1. DecidedAs(r, kind, given) =
            [row[r] EXCEPT !.state = "approved", !.approved = Chosen(row[r].advice, kind, given)]
      BY <1>3 DEF DecidedAs
    <2>2. DecidedAs(r, kind, given) \in AdviceRow
          /\ DecidedAs(r, kind, given).approved = Chosen(row[r].advice, kind, given)
      BY <1>2, <2>1 DEF AdviceRow
    <2> QED BY <1>3, <2>2 DEF Answerable
  <1>4. CASE kind = "defer"
    BY <1>1, <1>4 DEF DecidedAs, AdviceRow
  <1>5. CASE kind = "dismiss"
    BY <1>1, <1>5 DEF DecidedAs, AdviceRow
  <1> QED BY <1>3, <1>4, <1>5

\* A row written over has its shape, and one that is as it was loaded becomes what is written.
LEMMA AnswerWrittenIs ==
  ASSUME NEW now \in AdviceRow, NEW was \in AdviceRow, NEW to \in AdviceRow
  PROVE  /\ WrittenOver(now, was, to) \in AdviceRow
         /\ now = was => /\ WrittenOver(now, was, to).state = to.state
                         /\ WrittenOver(now, was, to).approved = to.approved
  <1>1. /\ now.advice \in Approval /\ was.advice \in Approval /\ to.advice \in Approval
        /\ now.approved \in Approval /\ was.approved \in Approval /\ to.approved \in Approval
        /\ now = [state |-> now.state, advice |-> now.advice, approved |-> now.approved]
        /\ to = [state |-> to.state, advice |-> to.advice, approved |-> to.approved]
    BY DEF AdviceRow
  <1> DEFINE w == WrittenOver(now, was, to)
             column(is, before, next) == IF before = next THEN is ELSE next
  <1>2. w = [state |-> column(now.state, was.state, to.state),
             advice |-> [now.advice EXCEPT !.action = column(@, was.advice.action, to.advice.action)],
             approved |-> [action |-> column(now.approved.action, was.approved.action, to.approved.action),
                           folder |-> column(now.approved.folder, was.approved.folder, to.approved.folder)]]
    BY DEF WrittenOver
  <1>3. w \in AdviceRow
    <2>1. [now.advice EXCEPT !.action = column(@, was.advice.action, to.advice.action)] \in Approval
      BY <1>1 DEF Approval
    <2>2. [action |-> column(now.approved.action, was.approved.action, to.approved.action),
           folder |-> column(now.approved.folder, was.approved.folder, to.approved.folder)] \in Approval
      BY <1>1 DEF Approval
    <2> QED BY <1>2, <2>1, <2>2 DEF AdviceRow
  <1>4. ASSUME now = was PROVE w.state = to.state /\ w.approved = to.approved
    <2>1. [action |-> column(now.approved.action, was.approved.action, to.approved.action),
           folder |-> column(now.approved.folder, was.approved.folder, to.approved.folder)] = to.approved
      BY <1>1, <1>4 DEF Approval
    <2> QED BY <1>2, <1>4, <2>1
  <1> HIDE DEF w
  <1> QED BY <1>3, <1>4 DEF w

\* What NothingUnasked says of one row in a step.
ApprovedAsAsked(r) ==
  row'[r].state = "approved" /\ <<row'[r].state, row'[r].approved>> # <<row[r].state, row[r].approved>> =>
    \/ \E i \in DOMAIN taught :
         /\ row[r].state = "absent" /\ taught[i].confirmed /\ taught[i].granted
         /\ r \in Says[taught[i].lesson].rows /\ row'[r].approved = Says[taught[i].lesson].advice
    \/ \E h \in Handlers :
         /\ r \in DOMAIN answering[h].asked /\ answering'[h] = NotAnswering
         /\ row'[r].approved = answering[h].asked[r] \/ r \in answering[h].unseen
         /\ row'[r].approved.action = "gmail_move" => row'[r].approved.folder \in Folders
    \/ r \in mixed'

\* A step that leaves the rules alone leaves what is known of them.
LEMMA LearnedSame ==
  ASSUME LearnedInv, UNCHANGED learnedVars
  PROVE  LearnedInv'
  BY LearnedInductive DEF learnedVars

\* Filling a review approves what a promoted rule that matches recommends, and nothing else.
LEMMA FillRowsOK ==
  ASSUME AdviceInv, NEW rs \in SUBSET Rows, FillRows(rs)
  PROVE  AdviceInv' /\ \A r \in Rows : ApprovedAsAsked(r)
  <1>1. /\ \A r \in rs : row[r].state = "absent"
        /\ row' = [r \in Rows |->
             IF r \notin rs THEN row[r]
             ELSE IF ApprovesItself(r) THEN [state |-> "approved", advice |-> Evaluated(r), approved |-> Evaluated(r)]
             ELSE [state |-> "pending", advice |-> Evaluated(r), approved |-> Unapproved]]
        /\ UNCHANGED <<shown, answering, mixed>> /\ UNCHANGED learnedVars
    BY DEF FillRows, learnedVars
  <1>2. \A r \in Rows : Evaluated(r) \in Approval
    BY EvaluatedIs DEF AdviceInv
  <1>3. Unapproved \in Approval
    BY DEF Unapproved, Approval
  <1>4. row' \in [Rows -> AdviceRow]
    <2>1. \A r \in Rows : row'[r] \in AdviceRow
      BY <1>1, <1>2, <1>3 DEF AdviceInv, AdviceRow
    <2> QED BY <1>1, <2>1
  <1>5. AdviceInv'
    BY <1>1, <1>4, LearnedSame DEF AdviceInv, AnswerOK
  <1>6. ASSUME NEW r \in Rows PROVE ApprovedAsAsked(r)
    <2>1. CASE r \notin rs
      BY <1>1, <2>1 DEF ApprovedAsAsked
    <2>2. CASE r \in rs /\ ApprovesItself(r)
      <3>1. row'[r].approved = Evaluated(r) /\ row[r].state = "absent"
        BY <1>1, <2>2
      <3>2. \E i \in DOMAIN taught :
              /\ taught[i].confirmed /\ taught[i].granted
              /\ r \in Says[taught[i].lesson].rows /\ Evaluated(r) = Says[taught[i].lesson].advice
        BY <2>2, EvaluatedIs DEF AdviceInv
      <3> QED BY <3>1, <3>2 DEF ApprovedAsAsked
    <2>3. CASE r \in rs /\ ~ApprovesItself(r)
      BY <1>1, <2>3 DEF ApprovedAsAsked
    <2> QED BY <2>1, <2>2, <2>3
  <1> QED BY <1>5, <1>6

\* A request that is taken up knows what it is to do.
LEMMA AnswerLoaded ==
  ASSUME AdviceInv, NEW h \in Handlers, NEW q, AnswerOK(q),
         answering' = [answering EXCEPT ![h] = q], UNCHANGED <<row, shown, mixed>>, UNCHANGED learnedVars
  PROVE  AdviceInv' /\ \A r \in Rows : ApprovedAsAsked(r)
  <1>1. answering' = [o \in Handlers |-> IF o = h THEN q ELSE answering[o]]
    BY DEF AdviceInv
  <1>2. \A o \in Handlers : AnswerOK(answering'[o])
    BY <1>1 DEF AdviceInv
  <1>3. \A o \in Handlers : AnswerOK(answering[o])'
    BY <1>2 DEF AnswerOK
  <1> QED BY <1>1, <1>3, LearnedSame DEF AdviceInv, ApprovedAsAsked

\* A request that answers holds for each row what was asked of it.
LEMMA LoadAnswerOK ==
  ASSUME AdviceInv, NEW h \in Handlers, NEW rs \in SUBSET Rows,
         NEW kind \in {"approve", "override", "defer", "dismiss"}, NEW given \in Approval,
         LoadAnswer(h, rs, kind, given)
  PROVE  AdviceInv' /\ \A r \in Rows : ApprovedAsAsked(r)
  <1> DEFINE q == [loaded |-> [r \in rs |-> row[r]],
                   wanted |-> [r \in rs |-> DecidedAs(r, kind, given)],
                   asked  |-> [r \in rs |-> IF kind = "override" THEN given ELSE Chosen(shown[r], "approve", given)],
                   unseen |-> {r \in rs : kind = "approve" /\ shown[r] # row[r].advice},
                   teaches |-> Implied(rs, kind, given)]
  <1>1. /\ \A r \in rs : Answerable(r, kind, given)
        /\ answering' = [answering EXCEPT ![h] = q] /\ UNCHANGED <<row, shown, mixed>> /\ UNCHANGED learnedVars
    BY DEF LoadAnswer, learnedVars
  <1>2. ASSUME NEW r \in rs
        PROVE  LET was == q.loaded[r]
                   to == q.wanted[r] IN
               /\ was \in AdviceRow /\ to \in AdviceRow
               /\ \/ to.state # "approved"
                  \/ /\ r \in DOMAIN q.asked
                     /\ to.approved = q.asked[r] \/ r \in q.unseen
                     /\ to.approved.action = "gmail_move" => to.approved.folder \in Folders
    <2>1. r \in Rows /\ row[r] \in AdviceRow /\ Answerable(r, kind, given)
      BY <1>1 DEF AdviceInv
    <2>2. q.loaded[r] = row[r] /\ q.wanted[r] = DecidedAs(r, kind, given) /\ r \in DOMAIN q.asked
          /\ q.asked[r] = (IF kind = "override" THEN given ELSE Chosen(shown[r], "approve", given))
          /\ (r \in q.unseen <=> kind = "approve" /\ shown[r] # row[r].advice)
      OBVIOUS
    <2> HIDE DEF q
    <2>3. CASE kind \in {"approve", "override"}
      <3>1. /\ DecidedAs(r, kind, given) \in AdviceRow
            /\ DecidedAs(r, kind, given).approved = Chosen(row[r].advice, kind, given)
            /\ Chosen(row[r].advice, kind, given).action = "gmail_move" =>
                 Chosen(row[r].advice, kind, given).folder \in Folders
        BY <2>1, <2>3, DecidedIs
      <3>2. q.wanted[r].approved = q.asked[r] \/ r \in q.unseen
        <4>1. CASE kind = "override"
          BY <2>2, <3>1, <4>1 DEF Chosen
        <4>2. CASE kind = "approve"
          BY <2>2, <3>1, <4>2
        <4> QED BY <2>3, <4>1, <4>2
      <3> QED BY <2>1, <2>2, <3>1, <3>2
    <2>4. CASE kind \in {"defer", "dismiss"}
      <3>1. DecidedAs(r, kind, given) \in AdviceRow /\ DecidedAs(r, kind, given).state # "approved"
        BY <2>1, <2>4, DecidedIs
      <3> QED BY <2>1, <2>2, <3>1
    <2> QED BY <2>3, <2>4
  <1>3. AnswerOK(q)
    <2>1. DOMAIN q.loaded = rs /\ q.teaches \subseteq Lessons
      BY DEF Implied
    <2> HIDE DEF q
    <2> QED BY <1>2, <2>1 DEF AnswerOK
  <1> HIDE DEF q
  <1> QED BY <1>1, <1>3, AnswerLoaded

\* A model's assessment approves nothing.
LEMMA LoadAssessmentOK ==
  ASSUME AdviceInv, NEW h \in Handlers, NEW r \in Rows,
         NEW action \in {"needs_review", "gmail_archive", "gmail_move"}, NEW sure \in BOOLEAN,
         LoadAssessment(h, r, action, sure)
  PROVE  AdviceInv' /\ \A x \in Rows : ApprovedAsAsked(x)
  <1> DEFINE to == IF row[r].state = "pending" /\ sure THEN [row[r] EXCEPT !.advice.action = action] ELSE row[r]
             q == [NotAnswering EXCEPT
                     !.loaded = [x \in {r} |-> row[x]],
                     !.wanted = [x \in {r} |-> IF row[x].state = "pending" /\ sure
                                               THEN [row[x] EXCEPT !.advice.action = action] ELSE row[x]]]
  <1>1. answering' = [answering EXCEPT ![h] = q] /\ UNCHANGED <<row, shown, mixed>> /\ UNCHANGED learnedVars
    BY DEF LoadAssessment, learnedVars
  <1>2. row[r] \in AdviceRow
    BY DEF AdviceInv
  <1>3. to \in AdviceRow /\ to.state = row[r].state /\ to.approved = row[r].approved
    BY <1>2 DEF AdviceRow, Approval
  <1>4. /\ DOMAIN q.loaded = {r} /\ q.loaded[r] = row[r] /\ q.wanted[r] = to /\ q.teaches = {}
    BY DEF NotAnswering
  <1> HIDE DEF q, to
  <1>5. AnswerOK(q)
    BY <1>2, <1>3, <1>4 DEF AnswerOK
  <1> QED BY <1>1, <1>5, AnswerLoaded

\* What an answer approves when it is written is what was asked, or was mixed with another.
LEMMA FinishAnswerOK ==
  ASSUME AdviceInv, NEW h \in Handlers, FinishAnswer(h)
  PROVE  AdviceInv' /\ \A r \in Rows : ApprovedAsAsked(r)
  <1> DEFINE q == answering[h]
             new == SetToSeq({NewRule(l, "observed") : l \in q.teaches})
  <1>1. /\ row' = [r \in Rows |->
             IF r \in DOMAIN q.loaded THEN WrittenOver(row[r], q.loaded[r], q.wanted[r]) ELSE row[r]]
        /\ mixed' = mixed \cup {r \in DOMAIN q.loaded : row[r] # q.loaded[r]}
        /\ answering' = [answering EXCEPT ![h] = NotAnswering]
        /\ taught' = taught \o new
        /\ UNCHANGED <<shown, grants, teaching, overwritten>>
    BY DEF FinishAnswer
  <1>2. AnswerOK(q)
    BY DEF AdviceInv
  <1>3. LearnedInv'
    <2> DEFINE rules == {NewRule(l, "observed") : l \in q.teaches}
    <2>1. IsFiniteSet(rules)
      <3>1. IsFiniteSet(q.teaches)
        BY <1>2, RecommendationAssumption, FS_Subset DEF AnswerOK
      <3> DEFINE f == [l \in q.teaches |-> NewRule(l, "observed")]
      <3>2. f \in Surjection(q.teaches, rules)
        BY DEF Surjection
      <3> HIDE DEF f, rules, q
      <3> QED BY <3>1, <3>2, FS_Surjection
    <2>2. \A x \in rules : x \in RuleRow /\ x.state = "observed" /\ ~x.retired
      <3>1. \A l \in Lessons : NewRule(l, "observed") \in RuleRow /\ NewRule(l, "observed").state = "observed"
                              /\ ~NewRule(l, "observed").retired
        BY DEF NewRule, RuleRow, RuleStates
      <3>2. q.teaches \subseteq Lessons
        BY <1>2 DEF AnswerOK
      <3> HIDE DEF q
      <3> QED BY <3>1, <3>2
    <2>3. new \in Seq(rules)
      BY <2>1, SequenceOfSet
    <2>4. new \in Seq(RuleRow) /\ \A k \in DOMAIN new : new[k].state \in {"observed", "proposed"} /\ ~new[k].retired
      <3> HIDE DEF rules, new
      <3>1. rules \subseteq RuleRow
        BY <2>2
      <3>2. \A k \in DOMAIN new : new[k] \in rules
        BY <2>3, MemberOf
      <3>3. new \in Seq(RuleRow)
        BY <2>3, <3>1
      <3> QED BY <2>2, <3>2, <3>3
    <2>5. teaching' \in [Handlers -> TeachingType]
      BY <1>1 DEF AdviceInv, LearnedInv, LearnedTypeOK
    <2> HIDE DEF new, q
    <2> QED BY <1>1, <2>4, <2>5, RulesAdded DEF AdviceInv
  <1>4. ASSUME NEW r \in Rows
        PROVE  row'[r] \in AdviceRow /\ ApprovedAsAsked(r)
    <2>1. row[r] \in AdviceRow
      BY DEF AdviceInv
    <2>2. CASE r \notin DOMAIN q.loaded
      BY <1>1, <2>1, <2>2 DEF ApprovedAsAsked
    <2>3. CASE r \in DOMAIN q.loaded
      <3> DEFINE was == q.loaded[r]
                 to == q.wanted[r]
      <3>1. was \in AdviceRow /\ to \in AdviceRow
        BY <1>2, <2>3 DEF AnswerOK
      <3>2. row'[r] = WrittenOver(row[r], was, to)
        BY <1>1, <2>3
      <3>3. row'[r] \in AdviceRow
        BY <2>1, <3>1, <3>2, AnswerWrittenIs
      <3>4. CASE row[r] # was
        BY <1>1, <2>3, <3>3, <3>4 DEF ApprovedAsAsked
      <3>5. CASE row[r] = was
        <4>1. row'[r].state = to.state /\ row'[r].approved = to.approved
          BY <2>1, <3>1, <3>2, <3>5, AnswerWrittenIs
        <4>2. answering'[h] = NotAnswering
          BY <1>1 DEF AdviceInv
        <4>3. \/ to.state = was.state /\ to.approved = was.approved
              \/ to.state # "approved"
              \/ /\ r \in DOMAIN q.asked
                 /\ to.approved = q.asked[r] \/ r \in q.unseen
                 /\ to.approved.action = "gmail_move" => to.approved.folder \in Folders
          BY <1>2, <2>3 DEF AnswerOK
        <4> HIDE DEF was, to
        <4> QED BY <3>3, <3>5, <4>1, <4>2, <4>3 DEF ApprovedAsAsked
      <3> QED BY <3>4, <3>5
    <2> QED BY <2>2, <2>3
  <1>5. AdviceInv'
    <2>1. row' \in [Rows -> AdviceRow]
      BY <1>1, <1>4
    <2>2. mixed' \subseteq Rows /\ shown' \in [Rows -> Approval]
      BY <1>1, <1>2 DEF AdviceInv, AnswerOK
    <2>3. answering' = [o \in Handlers |-> IF o = h THEN NotAnswering ELSE answering[o]]
      BY <1>1 DEF AdviceInv
    <2>4. AnswerOK(NotAnswering)
      BY DEF AnswerOK, NotAnswering, NoRows
    <2>5. \A o \in Handlers : AnswerOK(answering'[o])
      BY <2>3, <2>4 DEF AdviceInv
    <2>6. \A o \in Handlers : AnswerOK(answering[o])'
      BY <2>5 DEF AnswerOK
    <2> QED BY <1>3, <2>1, <2>2, <2>3, <2>6 DEF AdviceInv
  <1> QED BY <1>4, <1>5

AdviceStep == (LearnedNext /\ UNCHANGED adviceVars) \/ AdviceNext

\* Every step of rules, rows and answers keeps the invariant and approves nothing unasked.
LEMMA AdviceInductive ==
  AdviceInv /\ [AdviceStep]_<<learnedVars, adviceVars>> => AdviceInv' /\ \A r \in Rows : ApprovedAsAsked(r)
  <1> DEFINE Goal == AdviceInv' /\ \A r \in Rows : ApprovedAsAsked(r)
  <1> SUFFICES ASSUME AdviceInv, [AdviceStep]_<<learnedVars, adviceVars>> PROVE Goal
    OBVIOUS
  <1>1. CASE [LearnedNext]_learnedVars /\ UNCHANGED adviceVars
    <2>1. LearnedInv'
      BY <1>1, LearnedInductive DEF AdviceInv
    <2>2. UNCHANGED <<row, shown, answering, mixed>>
      BY <1>1 DEF adviceVars
    <2> QED BY <2>1, <2>2 DEF AdviceInv, AnswerOK, ApprovedAsAsked
  <1>2. ASSUME NEW rs \in SUBSET Rows, FillRows(rs) PROVE Goal
    BY <1>2, FillRowsOK
  <1>3. CASE ShowReview
    <2>1. shown' = [r \in Rows |-> row[r].advice] /\ UNCHANGED <<row, answering, mixed>> /\ UNCHANGED learnedVars
      BY <1>3 DEF ShowReview, learnedVars
    <2>2. shown' \in [Rows -> Approval]
      BY <2>1 DEF AdviceInv, AdviceRow
    <2> QED BY <2>1, <2>2, LearnedSame DEF AdviceInv, AnswerOK, ApprovedAsAsked
  <1>4. ASSUME NEW h \in Handlers, NEW rs \in SUBSET Rows,
               NEW given \in Intents \cup [action : {"gmail_move"}, folder : {NoFolder}],
               LoadAnswer(h, rs, "override", given)
        PROVE  Goal
    <2>1. given \in Approval
      BY DEF Intents, Approval
    <2> QED BY <1>4, <2>1, LoadAnswerOK
  <1>5. ASSUME NEW h \in Handlers, NEW rs \in SUBSET Rows, NEW folder \in Folders \cup {NoFolder},
               LoadAnswer(h, rs, "approve", [action |-> "none", folder |-> folder])
        PROVE  Goal
    <2>1. [action |-> "none", folder |-> folder] \in Approval
      BY DEF Approval
    <2> QED BY <1>5, <2>1, LoadAnswerOK
  <1>6. ASSUME NEW h \in Handlers, NEW rs \in SUBSET Rows, NEW kind \in {"defer", "dismiss"},
               LoadAnswer(h, rs, kind, Unapproved)
        PROVE  Goal
    <2>1. Unapproved \in Approval
      BY DEF Approval, Unapproved
    <2> QED BY <1>6, <2>1, LoadAnswerOK
  <1>7. ASSUME NEW h \in Handlers, NEW r \in Rows,
               NEW action \in {"needs_review", "gmail_archive", "gmail_move"}, NEW sure \in BOOLEAN,
               LoadAssessment(h, r, action, sure)
        PROVE  Goal
    BY <1>7, LoadAssessmentOK
  <1>8. ASSUME NEW h \in Handlers, FinishAnswer(h) PROVE Goal
    BY <1>8, FinishAnswerOK
  <1>9. CASE UNCHANGED <<learnedVars, adviceVars>>
    BY <1>1, <1>9
  <1> HIDE DEF Goal
  <1> QED BY <1>1, <1>2, <1>3, <1>4, <1>5, <1>6, <1>7, <1>8, <1>9 DEF AdviceStep, AdviceNext

\* What a row recommends and approves stays what may be recommended and
\* approved, and what a request in flight is to make of the rows it loaded stays
\* what it was asked, whatever other requests and learning do meanwhile.
THEOREM AdviceKept == AdviceSpec => []AdviceInv
  <1>1. LearnedInit /\ AdviceInit /\ BudgetInit => AdviceInv
    BY AdviceStarts
  <1>2. AdviceInv /\ [AdviceStep]_<<learnedVars, adviceVars, left>> => AdviceInv'
    <2>1. UNCHANGED <<learnedVars, adviceVars, left>> => UNCHANGED <<learnedVars, adviceVars>>
      OBVIOUS
    <2> QED BY <2>1, AdviceInductive
  <1> QED BY <1>1, <1>2, PTL DEF AdviceSpec, AdviceStep

\* However requests overlap, a rule advises only if it was confirmed, acts only
\* if it was promoted too, and stays retired unless a request wrote over that.
THEOREM RulesStand == LearnedSpec => []RulesStandAsGranted
  <1>1. LearnedInv /\ [LearnedNext]_<<learnedVars, left>> => LearnedInv'
    <2>1. UNCHANGED <<learnedVars, left>> => UNCHANGED learnedVars
      OBVIOUS
    <2> QED BY <2>1, LearnedInductive
  <1> QED BY <1>1, LearnedStarts, RulesAreJustified, PTL DEF LearnedSpec

\* The same of the rules while answers teach some of them.
THEOREM RulesStandUnderAnswers == AdviceSpec => []RulesStandAsGranted
  <1>1. AdviceInv => RulesStandAsGranted
    BY RulesAreJustified DEF AdviceInv
  <1> QED BY <1>1, AdviceKept, PTL

\* Nothing is approved unasked: what a row approves was named or agreed to by who
\* answered, or comes from a rule that was confirmed and promoted and matches.  It
\* says nothing of an answer that agrees with a recommendation replaced since it was
\* last shown (unseen), nor of rows over which two requests wrote (mixed).
THEOREM AskedBefore == AdviceSpec => NothingUnasked
  <1>1. AdviceInv /\ [AdviceStep]_<<learnedVars, adviceVars, left>> =>
          [\A r \in Rows : ApprovedAsAsked(r)]_<<adviceVars, learnedVars>>
    <2>1. UNCHANGED <<learnedVars, adviceVars, left>> => UNCHANGED <<learnedVars, adviceVars>>
      OBVIOUS
    <2> QED BY <2>1, AdviceInductive
  <1>2. [\A r \in Rows : ApprovedAsAsked(r)]_<<adviceVars, learnedVars>> <=>
        [\A r \in Rows :
           row'[r].state = "approved" /\ <<row'[r].state, row'[r].approved>> # <<row[r].state, row[r].approved>> =>
             \/ \E i \in DOMAIN taught :
                  /\ row[r].state = "absent" /\ taught[i].confirmed /\ taught[i].granted
                  /\ r \in Says[taught[i].lesson].rows /\ row'[r].approved = Says[taught[i].lesson].advice
             \/ \E h \in Handlers :
                  /\ r \in DOMAIN answering[h].asked /\ answering'[h] = NotAnswering
                  /\ row'[r].approved = answering[h].asked[r] \/ r \in answering[h].unseen
                  /\ row'[r].approved.action = "gmail_move" => row'[r].approved.folder \in Folders
             \/ r \in mixed']_<<adviceVars, learnedVars>>
    BY DEF ApprovedAsAsked
  <1> QED BY <1>1, <1>2, AdviceKept, PTL DEF AdviceSpec, AdviceStep, NothingUnasked

-----------------------------------------------------------------------------
(* Scans of mail                                                              *)

\* What a row of the table may read, and what a session may write over it.
Placed == {r \in RowType : r.place # "none"}
RowOrNone == {NoRow} \cup Placed
Write == {NoWrite} \cup [from : RowOrNone, to : Placed]

ScanType ==
  [phase : {"idle", "list", "fetch", "recheck"}, scope : Scopes, limit : Nat, prune : BOOLEAN,
   unasked : SUBSET Watchers, found : [MailThreads -> SUBSET Watchers], owned : SUBSET Watchers,
   todo : SUBSET MailThreads, stale : [MailThreads -> RowOrNone], recorded : SUBSET MailThreads,
   incomplete : BOOLEAN, pending : [MailThreads -> Write], sent : [MailThreads -> Write],
   away : SUBSET (Watchers \X MailThreads), seen : SUBSET MailThreads, alone : BOOLEAN]

\* A scan is over this thread.
Fetched(s, t) == s.phase = "recheck" \/ (s.phase = "fetch" /\ t \notin s.todo)
Rechecked(s, t) == s.phase = "recheck" /\ t \notin s.todo /\ ~s.incomplete
Settled(s, t) == IF s.found[t] # {} THEN Fetched(s, t) ELSE Rechecked(s, t)

\* A thread that a capability's search would have returned at every moment of a
\* scan was returned, unless the scan knows that it missed some, and is recorded
\* once it is fetched.
HeldOK(s) ==
  \A c \in Watchers, t \in MailThreads : <<c, t>> \notin s.away =>
    /\ Watches(s.scope, c, t)
    /\ c \notin s.unasked /\ ~s.incomplete => c \in s.found[t]
    /\ c \in s.found[t] /\ Fetched(s, t) => t \in s.recorded

\* The inbox admits a row.
InInbox(r) == \E c \in r.keys : WatchedBox[c] = "inbox" /\ Admits("inbox", r.place, r.snoozed)

\* What a scan by itself has to write takes a thread that was never in the inbox
\* out of it, and something is to be written of each that the inbox admits.
Leaves(t, w) == w # NoWrite => w.from = evidence[t] /\ w.to.place # "inbox"
SeenOK(s) ==
  /\ s.phase = "recheck" => s.stale = evidence
  /\ \A t \in MailThreads \ s.seen :
       /\ mail[t].place # "inbox" /\ Leaves(t, s.sent[t]) /\ Leaves(t, s.pending[t])
       /\ Settled(s, t) /\ InInbox(evidence[t]) =>
            s.sent[t] # NoWrite \/ s.pending[t].from # s.pending[t].to

\* Whether a row it writes is there a scan knows.
SentOK(s) == \A t \in MailThreads : s.sent[t] # NoWrite => (s.sent[t].from = NoRow <=> evidence[t] = NoRow)

ScanOK(s) ==
  /\ s \in ScanType
  /\ s.phase = "idle" => s = NoScan
  /\ s.phase = "list" => \A t \in MailThreads : s.pending[t] = NoWrite /\ s.sent[t] = NoWrite
  /\ s.prune => s.scope = "inbox"
  /\ s.phase \in {"fetch", "recheck"} => s.unasked = {}
  /\ s.phase = "recheck" => \A t \in s.todo : s.found[t] = {}
  /\ SentOK(s)
  /\ s.phase # "idle" => HeldOK(s)
  /\ s.phase # "idle" /\ s.alone /\ s.scope = "inbox" => SeenOK(s)

\* One scan at most has a row locked, and a scan that is alone is the only one.
LockedOnce == \A h, o \in Handlers, t \in MailThreads : Locked(h, t) /\ Locked(o, t) => h = o
Alone == \A h \in Handlers : scans[h].phase # "idle" /\ scans[h].alone => \A o \in Handlers \ {h} : scans[o] = NoScan

MailboxOK == mail \in [MailThreads -> [place : Places, labels : SUBSET Watchers]]

EvidenceInv ==
  /\ MailboxOK /\ evidence \in [MailThreads -> RowOrNone] /\ stuck \in BOOLEAN
  /\ scans = [h \in Handlers |-> scans[h]]
  /\ \A h \in Handlers : ScanOK(scans[h])
  /\ LockedOnce /\ Alone

\* A row that is not there differs from every row that is.
LEMMA RowsAre ==
  /\ NoRow \in RowOrNone /\ NoRow \notin Placed /\ NoRow.keys = {} /\ RowOrNone \subseteq RowType
  /\ \A w \in Write : w.from \in RowOrNone /\ (w # NoWrite => w.to \in Placed)
  /\ NoWrite \in Write /\ NoWrite.from = NoWrite.to
  /\ \A r \in RowOrNone : r = NoRow <=> r.place = "none"
  <1>1. NoRow \in RowType /\ NoRow.place = "none" /\ NoRow.keys = {}
    BY DEF NoRow, RowType
  <1>2. NoWrite.from = NoRow /\ NoWrite.to = NoRow
    BY DEF NoWrite
  <1> QED BY <1>1, <1>2 DEF RowOrNone, Placed, Write

\* A scan that does not run holds nothing.
LEMMA NoScanOK == ScanOK(NoScan)
  <1>1. NoScan \in ScanType
    <2>1. NoRow \in RowOrNone /\ NoWrite \in Write
      BY RowsAre
    <2>2. [t \in MailThreads |-> {}] \in [MailThreads -> SUBSET Watchers]
          /\ [t \in MailThreads |-> NoRow] \in [MailThreads -> RowOrNone]
          /\ [t \in MailThreads |-> NoWrite] \in [MailThreads -> Write]
      BY <2>1
    <2> QED BY <2>2 DEF NoScan, ScanType, Scopes
  <1>2. NoScan.phase = "idle" /\ NoScan.prune = FALSE /\ NoScan.sent = [t \in MailThreads |-> NoWrite]
    BY DEF NoScan
  <1> QED BY <1>1, <1>2 DEF ScanOK, SentOK

\* No scan runs at first.
LEMMA EvidenceStarts == EvidenceInit => EvidenceInv
  <1> SUFFICES ASSUME EvidenceInit PROVE EvidenceInv
    OBVIOUS
  <1>1. MailboxOK
    BY DEF EvidenceInit, MailboxOK, Places
  <1>2. \A h \in Handlers : scans[h] = NoScan
    BY DEF EvidenceInit
  <1>3. NoScan.phase = "idle" /\ \A t \in MailThreads : NoScan.sent[t] = NoWrite
    BY DEF NoScan
  <1> QED BY <1>1, <1>2, <1>3, NoScanOK, RowsAre DEF EvidenceInit, EvidenceInv, LockedOnce, Locked, Alone

\* The invariant gives the evidence its shape, and a row one holder at most.
LEMMA TypeFollows == EvidenceInv => EvidenceTypeOK
  <1> SUFFICES ASSUME EvidenceInv PROVE EvidenceTypeOK
    OBVIOUS
  <1>1. ASSUME NEW t \in MailThreads PROVE Cardinality({h \in Handlers : Locked(h, t)}) <= 1
    <2> DEFINE S == {h \in Handlers : Locked(h, t)}
    <2> SUFFICES Cardinality(S) <= 1
      OBVIOUS
    <2>1. CASE S = {}
      BY <2>1, FS_EmptySet
    <2>2. CASE S # {}
      <3>1. PICK h \in S : TRUE
        BY <2>2
      <3>2. S = {h}
        BY <3>1 DEF EvidenceInv, LockedOnce
      <3> HIDE DEF S
      <3>3. Cardinality({h}) = 1
        BY FS_Singleton
      <3> QED BY <3>2, <3>3
    <2> QED BY <2>1, <2>2
  <1> QED BY <1>1, RowsAre DEF EvidenceInv, EvidenceTypeOK, MailboxOK

-----------------------------------------------------------------------------
(* Steps of one scan that change neither the mail nor the table               *)

\* A scan goes on as one that is well, the table and Gmail as they are.
LEMMA OneScan ==
  ASSUME EvidenceInv, NEW h \in Handlers, NEW q, ScanOK(q),
         scans' = [scans EXCEPT ![h] = q], UNCHANGED <<mail, evidence>>, stuck' \in BOOLEAN,
         q.phase # "idle" => scans[h].phase # "idle" /\ (q.alone => scans[h].alone),
         \A t \in MailThreads : q.sent[t] # NoWrite =>
           scans[h].sent[t] # NoWrite \/ \A o \in Handlers \ {h} : scans[o].sent[t] = NoWrite
  PROVE  EvidenceInv'
  <1>1. scans' = [o \in Handlers |-> IF o = h THEN q ELSE scans[o]]
    BY DEF EvidenceInv
  <1>2. \A o \in Handlers : ScanOK(scans'[o])
    BY <1>1 DEF EvidenceInv
  <1>3. \A o \in Handlers : ScanOK(scans[o])'
    BY <1>2, SMTT(40) DEF ScanOK, SentOK, HeldOK, SeenOK, Settled, Fetched, Rechecked, Leaves, InInbox, Watches
  <1>4. LockedOnce'
    <2> SUFFICES ASSUME NEW a \in Handlers, NEW b \in Handlers, NEW t \in MailThreads,
                        scans'[a].sent[t] # NoWrite, scans'[b].sent[t] # NoWrite
                 PROVE  a = b
      BY DEF LockedOnce, Locked
    <2>1. CASE a # h /\ b # h
      BY <1>1, <2>1 DEF EvidenceInv, LockedOnce, Locked
    <2>2. CASE a = h \/ b = h
      BY <1>1, <2>2 DEF EvidenceInv, LockedOnce, Locked
    <2> QED BY <2>1, <2>2
  <1>5. Alone'
    <2> SUFFICES ASSUME NEW a \in Handlers, NEW b \in Handlers \ {a},
                        scans'[a].phase # "idle", scans'[a].alone
                 PROVE  scans'[b] = NoScan
      BY DEF Alone
    <2>1. scans[a].phase # "idle" /\ scans[a].alone
      BY <1>1
    <2>2. scans[b] = NoScan
      BY <2>1 DEF EvidenceInv, Alone
    <2>3. CASE b = h
      <3>1. q.phase = "idle"
        BY <2>2, <2>3 DEF NoScan
      <3> QED BY <1>1, <2>3, <3>1 DEF ScanOK
    <2>4. CASE b # h
      BY <1>1, <2>2, <2>4
    <2> QED BY <2>3, <2>4
  <1> QED BY <1>1, <1>3, <1>4, <1>5 DEF EvidenceInv, MailboxOK

\* A scan that is dropped releases what it held and disturbs no other.
LEMMA ScanDropped ==
  ASSUME EvidenceInv, NEW h \in Handlers, Dropped(h), UNCHANGED <<mail, evidence>>, stuck' \in BOOLEAN
  PROVE  EvidenceInv'
  <1>1. scans' = [scans EXCEPT ![h] = NoScan]
    BY DEF Dropped
  <1>2. NoScan.phase = "idle" /\ \A t \in MailThreads : NoScan.sent[t] = NoWrite
    BY DEF NoScan
  <1> QED BY <1>1, <1>2, NoScanOK, OneScan

\* What a query sends: each write that changes something takes the row's lock.
LEMMA SentIs ==
  ASSUME EvidenceInv, NEW h \in Handlers
  PROVE  LET s == scans[h] IN
         /\ Sent(h) \in ScanType
         /\ Sent(h) = [s EXCEPT !.pending = Sent(h).pending, !.sent = Sent(h).sent]
         /\ \A t \in MailThreads :
              /\ Sent(h).pending[t] = NoWrite
              /\ Sent(h).sent[t] = IF s.pending[t].from # s.pending[t].to THEN s.pending[t] ELSE s.sent[t]
  <1> DEFINE s == scans[h]
             p == [t \in MailThreads |-> NoWrite]
             w == [t \in MailThreads |-> IF t \in Unsent(h) THEN s.pending[t] ELSE s.sent[t]]
  <1>1. s \in ScanType
    BY DEF EvidenceInv, ScanOK
  <1>2. Sent(h) = [s EXCEPT !.pending = p, !.sent = w]
    BY <1>1 DEF Sent, ScanType
  <1>3. p \in [MailThreads -> Write] /\ w \in [MailThreads -> Write]
    BY <1>1, RowsAre DEF ScanType
  <1>4. \A t \in MailThreads : w[t] = IF s.pending[t].from # s.pending[t].to THEN s.pending[t] ELSE s.sent[t]
    BY DEF Unsent
  <1>5. \A t \in MailThreads : p[t] = NoWrite
    OBVIOUS
  <1> HIDE DEF s, p, w
  <1>6. Sent(h) \in ScanType /\ Sent(h).pending = p /\ Sent(h).sent = w
    BY <1>1, <1>2, <1>3 DEF ScanType
  <1> QED BY <1>2, <1>4, <1>5, <1>6 DEF s

\* With what it had pending sent a scan is well, if no row it writes was made or
\* deleted by another meanwhile.
LEMMA SentWell ==
  ASSUME EvidenceInv, NEW h \in Handlers, ~Clashes(h), scans[h].phase \in {"fetch", "recheck"}
  PROVE  ScanOK(Sent(h))
  <1> DEFINE s == scans[h]
             q == Sent(h)
  <1>1. ScanOK(s) /\ s \in ScanType
    BY DEF EvidenceInv, ScanOK
  <1>2. /\ q \in ScanType /\ q = [s EXCEPT !.pending = q.pending, !.sent = q.sent]
        /\ \A t \in MailThreads :
             /\ q.pending[t] = NoWrite
             /\ q.sent[t] = IF s.pending[t].from # s.pending[t].to THEN s.pending[t] ELSE s.sent[t]
    BY SentIs
  <1>3. \A t \in MailThreads : s.pending[t].from # s.pending[t].to => (s.pending[t].from = NoRow <=> evidence[t] = NoRow)
    BY DEF Clashes, Unsent
  <1> HIDE DEF s, q
  <1>4. /\ q.phase = s.phase /\ q.scope = s.scope /\ q.prune = s.prune /\ q.unasked = s.unasked
        /\ q.found = s.found /\ q.todo = s.todo /\ q.stale = s.stale /\ q.recorded = s.recorded
        /\ q.incomplete = s.incomplete /\ q.away = s.away /\ q.seen = s.seen /\ q.alone = s.alone
    BY <1>1, <1>2 DEF ScanType
  <1>5. SentOK(q)
    BY <1>1, <1>2, <1>3 DEF ScanOK, SentOK
  <1>6. q.phase # "idle" /\ q.phase # "list" /\ HeldOK(q)
    BY <1>1, <1>4 DEF ScanOK, HeldOK, Fetched, s
  <1>7. q.alone /\ q.scope = "inbox" => SeenOK(q)
    <2> SUFFICES ASSUME q.alone, q.scope = "inbox" PROVE SeenOK(q)
      OBVIOUS
    <2>1. SeenOK(s)
      BY <1>1, <1>4, <1>6 DEF ScanOK
    <2>2. ASSUME NEW t \in MailThreads \ q.seen
          PROVE  /\ mail[t].place # "inbox" /\ Leaves(t, q.sent[t]) /\ Leaves(t, q.pending[t])
                 /\ Settled(q, t) /\ InInbox(evidence[t]) => q.sent[t] # NoWrite
      <3>1. /\ mail[t].place # "inbox" /\ Leaves(t, s.sent[t]) /\ Leaves(t, s.pending[t])
            /\ Settled(s, t) /\ InInbox(evidence[t]) =>
                 s.sent[t] # NoWrite \/ s.pending[t].from # s.pending[t].to
        BY <1>4, <2>1 DEF SeenOK
      <3>2. Settled(q, t) = Settled(s, t)
        BY <1>4 DEF Settled, Fetched, Rechecked
      <3>3. q.pending[t] = NoWrite
            /\ q.sent[t] = IF s.pending[t].from # s.pending[t].to THEN s.pending[t] ELSE s.sent[t]
        BY <1>2
      <3>4. s.pending[t].from # s.pending[t].to => s.pending[t] # NoWrite
        BY RowsAre
      <3> QED BY <3>1, <3>2, <3>3, <3>4 DEF Leaves
    <2> QED BY <1>4, <2>1, <2>2 DEF SeenOK
  <1>8. /\ q \in ScanType /\ (q.prune => q.scope = "inbox") /\ q.unasked = {}
        /\ q.phase = "recheck" => \A t \in q.todo : q.found[t] = {}
    BY <1>1, <1>2, <1>4, <1>6 DEF ScanOK, s
  <1>9. ScanOK(q)
    BY <1>5, <1>6, <1>7, <1>8 DEF ScanOK
  <1> QED BY <1>9 DEF q

\* A query of a scan that goes on as it should once its writes are sent.
LEMMA QueryOK ==
  ASSUME EvidenceInv, NEW h \in Handlers, NEW q, Query(h, q), scans[h].phase \in {"fetch", "recheck"},
         ~Clashes(h) => ScanOK(q), q.alone = scans[h].alone, q.sent = Sent(h).sent
  PROVE  EvidenceInv' /\ UNCHANGED <<mail, evidence>>
  <1>1. UNCHANGED <<mail, evidence>>
    BY DEF Query
  <1>2. CASE Waits(h)
    <2>1. stuck' = TRUE /\ UNCHANGED scans
      BY <1>2 DEF Query
    <2> QED BY <1>1, <2>1 DEF EvidenceInv, MailboxOK, ScanOK, SentOK, HeldOK, SeenOK, Settled, Fetched, Rechecked,
                              Leaves, InInbox, Watches, LockedOnce, Locked, Alone
  <1>3. CASE ~Waits(h) /\ Clashes(h)
    <2>1. stuck' = stuck /\ Dropped(h)
      BY <1>3 DEF Query
    <2>2. stuck' \in BOOLEAN
      BY <2>1 DEF EvidenceInv
    <2> QED BY <1>1, <2>1, <2>2, ScanDropped
  <1>4. CASE ~Waits(h) /\ ~Clashes(h)
    <2>1. stuck' = stuck /\ scans' = [scans EXCEPT ![h] = q]
      BY <1>4 DEF Query
    <2>2. stuck' \in BOOLEAN
      BY <2>1 DEF EvidenceInv
    <2>3. ASSUME NEW t \in MailThreads, q.sent[t] # NoWrite
          PROVE  scans[h].sent[t] # NoWrite \/ \A o \in Handlers \ {h} : scans[o].sent[t] = NoWrite
      <3>1. q.sent[t] = IF scans[h].pending[t].from # scans[h].pending[t].to THEN scans[h].pending[t] ELSE scans[h].sent[t]
        BY SentIs
      <3>2. scans[h].pending[t].from # scans[h].pending[t].to =>
              \A o \in Handlers \ {h} : scans[o].sent[t] = NoWrite
        BY <1>4 DEF Waits, Unsent, Locked
      <3> QED BY <2>3, <3>1, <3>2
    <2> QED BY <1>1, <1>4, <2>1, <2>2, <2>3, OneScan
  <1> QED BY <1>2, <1>3, <1>4

\* The labels Gmail gives a thread are read as somewhere.
LEMMA LabelledIs ==
  ASSUME MailboxOK, NEW t \in MailThreads
  PROVE  /\ Labelled(mail[t].place) \in {"inbox", "archived", "trash", "gone"}
         /\ Labelled(mail[t].place) = "inbox" => mail[t].place = "inbox"
  BY DEF MailboxOK, Places, Labelled

\* What a scan notes of a thread it has fetched or looked at again.
LEMMA NotedIs ==
  ASSUME NEW s \in ScanType, NEW t \in MailThreads, NEW r \in RowOrNone, NEW keys \in SUBSET Watchers,
         NEW snoozed \in {"yes", "no", "unknown"}, NEW q, MailboxOK, q = Noted(s, t, r, keys, snoozed)
  PROVE  /\ q \in ScanType
         /\ q.phase = s.phase /\ q.scope = s.scope /\ q.prune = s.prune /\ q.unasked = s.unasked
         /\ q.found = s.found /\ q.stale = s.stale /\ q.sent = s.sent /\ q.todo = s.todo \ {t}
         /\ q.incomplete = s.incomplete /\ q.away = s.away /\ q.seen = s.seen /\ q.alone = s.alone
         /\ s.recorded \subseteq q.recorded /\ (keys # {} => t \in q.recorded)
         /\ keys = {} /\ r = NoRow => q.pending[t] = NoWrite
         /\ ~(keys = {} /\ r = NoRow) => q.pending[t].from = r /\ q.pending[t].to.place = Labelled(mail[t].place)
         /\ \A u \in MailThreads \ {t} : q.pending[u] = s.pending[u]
  <1> DEFINE to == [place |-> Labelled(mail[t].place), keys |-> IF keys = {} THEN r.keys ELSE keys,
                    snoozed |-> IF snoozed = "unknown" THEN r.snoozed ELSE snoozed]
             w == IF keys = {} /\ r = NoRow THEN NoWrite ELSE [from |-> r, to |-> to]
             c == IF keys = {} THEN s.recorded ELSE s.recorded \cup {t}
  <1>1. q = [s EXCEPT !.todo = s.todo \ {t}, !.pending[t] = w, !.recorded = c]
    BY DEF Noted, ScanType
  <1>2. to \in Placed
    <2>1. r.keys \subseteq Watchers /\ r.snoozed \in {"yes", "no", "unknown"}
      BY RowsAre DEF RowType
    <2> QED BY <2>1, LabelledIs DEF Placed, RowType
  <1>3. w \in Write /\ c \subseteq MailThreads
    BY <1>2 DEF Write, ScanType
  <1>4. /\ keys = {} /\ r = NoRow => w = NoWrite
        /\ ~(keys = {} /\ r = NoRow) => w.from = r /\ w.to.place = Labelled(mail[t].place)
    OBVIOUS
  <1>5. s.recorded \subseteq c /\ (keys # {} => t \in c)
    OBVIOUS
  <1> HIDE DEF w, c, to
  <1> DEFINE p == [s.pending EXCEPT ![t] = w]
  <1>6. p \in [MailThreads -> Write] /\ p[t] = w /\ \A u \in MailThreads \ {t} : p[u] = s.pending[u]
    BY <1>3 DEF ScanType
  <1>7. q = [s EXCEPT !.todo = s.todo \ {t}, !.pending = p, !.recorded = c]
    BY <1>1
  <1> HIDE DEF p
  <1>8. q.pending = p /\ q.recorded = c
         /\ q.phase = s.phase /\ q.scope = s.scope /\ q.prune = s.prune /\ q.unasked = s.unasked
        /\ q.found = s.found /\ q.stale = s.stale /\ q.sent = s.sent /\ q.todo = s.todo \ {t}
        /\ q.incomplete = s.incomplete /\ q.away = s.away /\ q.seen = s.seen /\ q.alone = s.alone
    BY <1>7 DEF ScanType
  <1>9. q \in ScanType
    BY <1>3, <1>6, <1>7, ZenonT(60) DEF ScanType
  <1> QED BY <1>4, <1>5, <1>6, <1>8, <1>9

\* A scan that has noted a thread is well: what was fetched and held is recorded,
\* what left the inbox is taken out of it.
LEMMA NotedWell ==
  ASSUME MailboxOK, evidence \in [MailThreads -> RowOrNone],
         NEW s, ScanOK(s), s.phase \in {"fetch", "recheck"}, NEW t \in MailThreads,
         NEW r \in RowOrNone, NEW keys \in SUBSET Watchers, NEW snoozed \in {"yes", "no", "unknown"},
         s.phase = "recheck" => t \in s.todo,
         s.phase = "fetch" => \A c \in Watchers : <<c, t>> \notin s.away /\ c \in s.found[t] => keys # {},
         s.alone /\ s.scope = "inbox" => r = evidence[t]
  PROVE  ScanOK(Noted(s, t, r, keys, snoozed))
  <1> SUFFICES ASSUME NEW q, q = Noted(s, t, r, keys, snoozed) PROVE ScanOK(q)
    OBVIOUS
  <1>1. s \in ScanType
    BY DEF ScanOK
  <1>2. /\ q \in ScanType
        /\ s.recorded \subseteq q.recorded /\ (keys # {} => t \in q.recorded)
        /\ keys = {} /\ r = NoRow => q.pending[t] = NoWrite
        /\ ~(keys = {} /\ r = NoRow) => q.pending[t].from = r /\ q.pending[t].to.place = Labelled(mail[t].place)
        /\ \A u \in MailThreads \ {t} : q.pending[u] = s.pending[u]
    BY <1>1, NotedIs
  <1>3. /\ q.phase = s.phase /\ q.scope = s.scope /\ q.prune = s.prune /\ q.unasked = s.unasked
        /\ q.found = s.found /\ q.stale = s.stale /\ q.sent = s.sent /\ q.todo = s.todo \ {t}
        /\ q.incomplete = s.incomplete /\ q.away = s.away /\ q.seen = s.seen /\ q.alone = s.alone
    BY <1>1, NotedIs
  <1>4. SentOK(q)
    BY <1>3 DEF ScanOK, SentOK
  <1>5. HeldOK(q)
    <2> SUFFICES ASSUME NEW c \in Watchers, NEW u \in MailThreads, <<c, u>> \notin q.away
                 PROVE  /\ Watches(q.scope, c, u)
                        /\ c \notin q.unasked /\ ~q.incomplete => c \in q.found[u]
                        /\ c \in q.found[u] /\ Fetched(q, u) => u \in q.recorded
      BY DEF HeldOK
    <2>1. /\ Watches(s.scope, c, u)
          /\ c \notin s.unasked /\ ~s.incomplete => c \in s.found[u]
          /\ c \in s.found[u] /\ Fetched(s, u) => u \in s.recorded
      BY <1>3 DEF ScanOK, HeldOK
    <2>2. CASE u # t
      BY <1>2, <1>3, <2>1, <2>2 DEF Fetched
    <2>3. CASE u = t /\ s.phase = "fetch"
      BY <1>2, <1>3, <2>1, <2>3
    <2>4. CASE u = t /\ s.phase = "recheck"
      BY <1>2, <1>3, <2>1, <2>4 DEF Fetched
    <2> QED BY <2>1, <2>2, <2>3, <2>4
  <1>6. q.alone /\ q.scope = "inbox" => SeenOK(q)
    <2> SUFFICES ASSUME q.alone, q.scope = "inbox" PROVE SeenOK(q)
      OBVIOUS
    <2>1. SeenOK(s) /\ r = evidence[t]
      BY <1>3 DEF ScanOK
    <2>2. ASSUME NEW u \in MailThreads \ q.seen
          PROVE  /\ mail[u].place # "inbox" /\ Leaves(u, q.sent[u]) /\ Leaves(u, q.pending[u])
                 /\ Settled(q, u) /\ InInbox(evidence[u]) =>
                      q.sent[u] # NoWrite \/ q.pending[u].from # q.pending[u].to
      <3>1. /\ mail[u].place # "inbox" /\ Leaves(u, s.sent[u]) /\ Leaves(u, s.pending[u])
            /\ Settled(s, u) /\ InInbox(evidence[u]) =>
                 s.sent[u] # NoWrite \/ s.pending[u].from # s.pending[u].to
        BY <1>3, <2>1 DEF SeenOK
      <3>2. CASE u # t
        <4>1. Settled(q, u) = Settled(s, u)
          BY <1>3, <3>2 DEF Settled, Fetched, Rechecked
        <4> QED BY <1>2, <1>3, <3>1, <3>2, <4>1
      <3>3. CASE u = t
        <4>1. Labelled(mail[t].place) # "inbox"
          BY <3>1, <3>3, LabelledIs
        <4>2. Leaves(t, q.pending[t])
          BY <1>2, <2>1, <4>1 DEF Leaves
        <4>3. InInbox(evidence[t]) => evidence[t].place = "inbox" /\ evidence[t] # NoRow
          BY RowsAre DEF InInbox, Admits
        <4>4. InInbox(evidence[t]) => q.pending[t].from # q.pending[t].to
          BY <1>2, <2>1, <4>1, <4>3
        <4> QED BY <1>3, <3>1, <3>3, <4>2, <4>4
      <3> QED BY <3>2, <3>3
    <2> QED BY <1>3, <2>1, <2>2 DEF SeenOK
  <1>7. /\ q.phase # "idle" /\ q.phase # "list" /\ (q.prune => q.scope = "inbox") /\ q.unasked = {}
        /\ q.phase = "recheck" => \A u \in q.todo : q.found[u] = {}
    BY <1>3 DEF ScanOK
  <1> QED BY <1>2, <1>4, <1>5, <1>6, <1>7 DEF ScanOK

\* What is sent changes nothing else of a scan.
LEMMA SentSame ==
  ASSUME EvidenceInv, NEW h \in Handlers, NEW s, s = scans[h], NEW q, q = Sent(h)
  PROVE  /\ s \in ScanType /\ q \in ScanType
         /\ q.phase = s.phase /\ q.scope = s.scope /\ q.prune = s.prune /\ q.unasked = s.unasked
         /\ q.found = s.found /\ q.stale = s.stale /\ q.todo = s.todo /\ q.recorded = s.recorded
         /\ q.incomplete = s.incomplete /\ q.away = s.away /\ q.seen = s.seen /\ q.alone = s.alone
  <1>1. s \in ScanType
    BY DEF EvidenceInv, ScanOK
  <1>2. q \in ScanType /\ q = [s EXCEPT !.pending = q.pending, !.sent = q.sent]
    BY SentIs
  <1> QED BY <1>1, <1>2 DEF ScanType

\* What a search for a mailbox finds, that mailbox admits.
LEMMA FindsAdmits ==
  ASSUME NEW scope \in Scopes, NEW place \in Places, Finds(scope, place)
  PROVE  Admits(scope, Labelled(place), Observed(scope))
  BY DEF Scopes, Places, Finds, Admits, Labelled, Observed

\* A capability is searched in some mailbox.
LEMMA ScopeOfIs ==
  ASSUME NEW scope \in Scopes, NEW c \in Watchers
  PROVE  ScopeOf(scope, c) \in Scopes
  BY EvidenceAssumption DEF ScopeOf

\* The searches that found a thread agree on whether it is snoozed, or say nothing.
LEMMA AgreedIs ==
  ASSUME NEW scope \in Scopes, NEW keys \in SUBSET Watchers
  PROVE  AgreedSnooze(scope, keys) \in {"yes", "no", "unknown"}
  <1> DEFINE answers == {Observed(ScopeOf(scope, c)) : c \in keys} \ {"unknown"}
  <1>1. answers \subseteq {"yes", "no", "unknown"}
    BY DEF Observed
  <1>2. CASE Cardinality(answers) = 1
    <2>1. answers # {}
      BY <1>2, FS_EmptySet
    <2>2. AgreedSnooze(scope, keys) = CHOOSE a \in answers : TRUE
      BY <1>2 DEF AgreedSnooze
    <2>3. AgreedSnooze(scope, keys) \in answers
      <3> HIDE DEF answers
      <3> QED BY <2>1, <2>2
    <2> QED BY <1>1, <2>3
  <1>3. CASE Cardinality(answers) # 1
    BY <1>3 DEF AgreedSnooze
  <1> QED BY <1>2, <1>3

\* Before anything is fetched nothing is settled.
LEMMA ListingWell ==
  ASSUME NEW q \in ScanType, q.phase = "list", \A t \in MailThreads : q.pending[t] = NoWrite /\ q.sent[t] = NoWrite,
         q.prune => q.scope = "inbox",
         \A c \in Watchers, t \in MailThreads : <<c, t>> \notin q.away =>
           Watches(q.scope, c, t) /\ (c \notin q.unasked /\ ~q.incomplete => c \in q.found[t]),
         q.alone /\ q.scope = "inbox" => \A t \in MailThreads \ q.seen : mail[t].place # "inbox"
  PROVE  ScanOK(q)
  <1>1. SentOK(q)
    BY DEF SentOK
  <1>2. HeldOK(q)
    BY DEF HeldOK, Fetched
  <1>3. q.alone /\ q.scope = "inbox" => SeenOK(q)
    BY DEF SeenOK, Leaves, Settled, Fetched, Rechecked
  <1> QED BY <1>1, <1>2, <1>3 DEF ScanOK

\* A scan begins with what its searches would miss now, and with what is in the inbox.
LEMMA BeginScanOK ==
  ASSUME EvidenceInv, NEW h \in Handlers, NEW scope \in AskedScopes, NEW limit \in Limits, NEW prune \in BOOLEAN,
         BeginScan(h, scope, limit, prune)
  PROVE  EvidenceInv' /\ UNCHANGED evidence
  <1> DEFINE others == {o \in Handlers : scans[o].phase # "idle"}
             q == [NoScan EXCEPT
                    !.phase = "list", !.scope = scope, !.limit = limit, !.prune = prune, !.unasked = Watchers,
                    !.away = {lost \in Watchers \X MailThreads : ~Watches(scope, lost[1], lost[2])},
                    !.seen = {t \in MailThreads : mail[t].place = "inbox"}, !.alone = others = {}]
  <1>1. /\ scans[h] = NoScan /\ (prune => scope = "inbox") /\ UNCHANGED <<mail, evidence, stuck>>
        /\ scans' = [o \in Handlers |-> IF o = h THEN q
                                        ELSE IF o \in others THEN [scans[o] EXCEPT !.alone = FALSE] ELSE scans[o]]
    BY DEF BeginScan
  <1>2. scope \in Scopes /\ limit \in Nat
    BY EvidenceAssumption
  <1>3. NoScan \in ScanType /\ NoScan.phase = "idle" /\ \A t \in MailThreads : NoScan.sent[t] = NoWrite
    BY NoScanOK DEF ScanOK, NoScan
  <1>4. /\ q.phase = "list" /\ q.scope = scope /\ q.prune = prune /\ q.unasked = Watchers
        /\ q.away = {lost \in Watchers \X MailThreads : ~Watches(scope, lost[1], lost[2])}
        /\ q.seen = {t \in MailThreads : mail[t].place = "inbox"} /\ (q.alone <=> others = {})
        /\ q.pending = NoScan.pending /\ q.sent = NoScan.sent
    BY DEF NoScan
  <1>5. q \in ScanType
    BY <1>2, <1>3, ZenonT(60) DEF ScanType
  <1>6. ScanOK(q)
    <2> HIDE DEF q
    <2>1. \A t \in MailThreads : q.pending[t] = NoWrite /\ q.sent[t] = NoWrite
      BY <1>4 DEF NoScan
    <2>2. \A c \in Watchers, t \in MailThreads : <<c, t>> \notin q.away => Watches(q.scope, c, t)
      BY <1>4
    <2> QED BY <1>1, <1>4, <1>5, <2>1, <2>2, ListingWell
  <1> HIDE DEF q
  <1>7. \A o \in others : /\ scans[o] \in ScanType
                          /\ scans'[o].phase = scans[o].phase /\ scans'[o].sent = scans[o].sent
                          /\ scans'[o].alone = FALSE /\ o # h
    BY <1>1, <1>3 DEF EvidenceInv, ScanOK, ScanType
  <1>8. ASSUME NEW o \in Handlers PROVE ScanOK(scans'[o])
    <2>1. CASE o = h
      BY <1>1, <1>6, <2>1
    <2>2. CASE o # h /\ o \notin others
      BY <1>1, <2>2 DEF EvidenceInv
    <2>3. CASE o \in others
      <3> DEFINE s == scans[o]
                 n == [scans[o] EXCEPT !.alone = FALSE]
      <3>1. ScanOK(s) /\ s \in ScanType /\ s.phase # "idle" /\ scans'[o] = n
        BY <1>1, <1>7, <2>3 DEF EvidenceInv
      <3> HIDE DEF s
      <3>2. /\ n \in ScanType /\ n.phase = s.phase /\ n.scope = s.scope /\ n.prune = s.prune /\ n.unasked = s.unasked
            /\ n.found = s.found /\ n.todo = s.todo /\ n.recorded = s.recorded /\ n.alone = FALSE
            /\ n.incomplete = s.incomplete /\ n.away = s.away /\ n.sent = s.sent /\ n.pending = s.pending
        BY <3>1 DEF s, ScanType
      <3> HIDE DEF n
      <3>3. ScanOK(n)
        BY <3>1, <3>2 DEF ScanOK, SentOK, HeldOK, Fetched
      <3> QED BY <3>1, <3>3
    <2> QED BY <2>1, <2>2, <2>3
  <1>9. \A o \in Handlers : ScanOK(scans[o])'
    <2>1. UNCHANGED <<mail, evidence>>
      BY <1>1
    <2> QED BY <1>8, <2>1 DEF ScanOK, SentOK, HeldOK, SeenOK, Settled, Fetched, Rechecked, Leaves, InInbox, Watches
  <1>10. \A o \in Handlers : scans'[o].sent = scans[o].sent
    BY <1>1, <1>4, <1>7
  <1>11. LockedOnce'
    BY <1>10 DEF EvidenceInv, LockedOnce, Locked
  <1>12. Alone'
    <2> SUFFICES ASSUME NEW a \in Handlers, NEW b \in Handlers \ {a},
                        scans'[a].phase # "idle", scans'[a].alone
                 PROVE  scans'[b] = NoScan
      BY DEF Alone
    <2>1. a \notin others
      BY <1>7
    <2>2. a = h
      BY <1>1, <2>1
    <2>3. others = {}
      BY <1>1, <1>4, <2>2
    <2>4. scans'[b] = scans[b] /\ scans[b].phase = "idle"
      BY <1>1, <2>2, <2>3
    <2> QED BY <2>4 DEF EvidenceInv, ScanOK
  <1>13. scans' = [o \in Handlers |-> scans'[o]]
    BY <1>1
  <1> QED BY <1>1, <1>9, <1>11, <1>12, <1>13 DEF EvidenceInv, MailboxOK

\* A search returns all there is, or the scan knows that it may not have.
LEMMA ListLabelOK ==
  ASSUME EvidenceInv, NEW h \in Handlers, NEW c \in Watchers, NEW missing \in BOOLEAN, ListLabel(h, c, missing)
  PROVE  EvidenceInv' /\ UNCHANGED evidence
  <1> DEFINE s == scans[h]
             matching == {t \in MailThreads : Watches(s.scope, c, t)}
  <1>1. s.phase = "list" /\ c \in s.unasked /\ UNCHANGED <<mail, evidence, stuck>>
    BY DEF ListLabel
  <1>2. ScanOK(s) /\ s \in ScanType
    BY DEF EvidenceInv, ScanOK
  <1>3. PICK found \in SUBSET matching :
          /\ missing \/ Cardinality(found) = s.limit \/ found = matching
          /\ scans' = [scans EXCEPT ![h] =
               [s EXCEPT !.unasked = @ \ {c},
                         !.owned = IF missing THEN @ ELSE @ \cup {c},
                         !.found = [t \in MailThreads |-> IF t \in found THEN @[t] \cup {c} ELSE @[t]],
                         !.incomplete = @ \/ missing \/ Filled(found, s.limit)]]
    <2>1. {} \in SUBSET matching
      OBVIOUS
    <2> QED BY <2>1 DEF ListLabel
  <1> DEFINE f == [t \in MailThreads |-> IF t \in found THEN s.found[t] \cup {c} ELSE s.found[t]]
             owned == IF missing THEN s.owned ELSE s.owned \cup {c}
             inc == s.incomplete \/ missing \/ Filled(found, s.limit)
             q == [s EXCEPT !.unasked = s.unasked \ {c}, !.owned = owned, !.found = f, !.incomplete = inc]
  <1>4. scans' = [scans EXCEPT ![h] = q]
    BY <1>2, <1>3 DEF ScanType
  <1>5. f \in [MailThreads -> SUBSET Watchers] /\ owned \in SUBSET Watchers /\ inc \in BOOLEAN
    BY <1>2 DEF ScanType, Filled
  <1>6. \A t \in MailThreads : s.found[t] \subseteq f[t] /\ (t \in found => c \in f[t])
    OBVIOUS
  <1>7. ~inc => ~missing /\ ~s.incomplete /\ found = matching
    <2>1. s.limit \in Nat
      BY <1>2 DEF ScanType
    <2>2. Cardinality(found) = s.limit => Filled(found, s.limit)
      BY <2>1 DEF Filled
    <2> QED BY <1>3, <2>2
  <1> HIDE DEF s, f, owned, inc
  <1>8. /\ q \in ScanType /\ q.phase = s.phase /\ q.scope = s.scope /\ q.prune = s.prune /\ q.unasked = s.unasked \ {c}
        /\ q.found = f /\ q.incomplete = inc /\ q.away = s.away /\ q.seen = s.seen /\ q.alone = s.alone
        /\ q.pending = s.pending /\ q.sent = s.sent
    BY <1>2, <1>5 DEF ScanType
  <1> HIDE DEF q
  <1>9. ASSUME NEW d \in Watchers, NEW t \in MailThreads, <<d, t>> \notin q.away
        PROVE  Watches(q.scope, d, t) /\ (d \notin q.unasked /\ ~q.incomplete => d \in q.found[t])
    <2>1. Watches(s.scope, d, t) /\ (d \notin s.unasked /\ ~s.incomplete => d \in s.found[t])
      BY <1>1, <1>2, <1>8, <1>9 DEF ScanOK, HeldOK, s
    <2>2. CASE d = c
      BY <1>6, <1>7, <1>8, <2>1, <2>2
    <2>3. CASE d # c
      BY <1>6, <1>7, <1>8, <2>1, <2>3
    <2> QED BY <2>2, <2>3
  <1>10. q.alone /\ q.scope = "inbox" => \A t \in MailThreads \ q.seen : mail[t].place # "inbox"
    BY <1>1, <1>2, <1>8 DEF ScanOK, SeenOK, s
  <1>11. ScanOK(q)
    BY <1>1, <1>2, <1>8, <1>9, <1>10, ListingWell DEF ScanOK, s
  <1>12. stuck' \in BOOLEAN
    BY <1>1 DEF EvidenceInv
  <1> QED BY <1>1, <1>4, <1>8, <1>11, <1>12, OneScan DEF s

\* Once every label is searched, what was found is to be fetched.
LEMMA ListedAllOK ==
  ASSUME EvidenceInv, NEW h \in Handlers, ListedAll(h)
  PROVE  EvidenceInv' /\ UNCHANGED evidence
  <1> DEFINE s == scans[h]
             todo == {t \in MailThreads : s.found[t] # {}}
             q == [s EXCEPT !.phase = "fetch", !.todo = todo]
  <1>1. s.phase = "list" /\ s.unasked = {} /\ UNCHANGED <<mail, evidence, stuck>> /\ stuck' \in BOOLEAN
    BY DEF ListedAll, EvidenceInv
  <1>2. ScanOK(s) /\ s \in ScanType
    BY DEF EvidenceInv, ScanOK
  <1>3. CASE s.prune /\ s.incomplete
    <2>1. Dropped(h)
      BY <1>3 DEF ListedAll
    <2> QED BY <1>1, <2>1, ScanDropped
  <1>4. CASE ~(s.prune /\ s.incomplete)
    <2>1. scans' = [scans EXCEPT ![h] = q]
      BY <1>4 DEF ListedAll
    <2>2. todo \in SUBSET MailThreads /\ \A t \in MailThreads : t \in todo <=> s.found[t] # {}
      OBVIOUS
    <2> HIDE DEF s, todo
    <2>3. /\ q \in ScanType /\ q.phase = "fetch" /\ q.scope = s.scope /\ q.prune = s.prune /\ q.unasked = s.unasked
          /\ q.found = s.found /\ q.todo = todo /\ q.incomplete = s.incomplete /\ q.away = s.away
          /\ q.seen = s.seen /\ q.alone = s.alone /\ q.pending = s.pending /\ q.sent = s.sent
      BY <1>2, <2>2 DEF ScanType
    <2> HIDE DEF q
    <2>4. SentOK(q) /\ \A t \in MailThreads : q.pending[t] = NoWrite /\ q.sent[t] = NoWrite
      BY <1>1, <1>2, <2>3 DEF ScanOK, SentOK, s
    <2>5. HeldOK(q)
      BY <1>1, <1>2, <2>2, <2>3 DEF ScanOK, HeldOK, Fetched, s
    <2>6. q.alone /\ q.scope = "inbox" => SeenOK(q)
      <3>1. s.alone /\ s.scope = "inbox" => SeenOK(s)
        BY <1>1, <1>2 DEF ScanOK, s
      <3>2. \A t \in MailThreads : ~Settled(q, t)
        BY <2>2, <2>3 DEF Settled, Fetched, Rechecked
      <3> QED BY <2>3, <2>4, <3>1, <3>2 DEF SeenOK, Leaves
    <2>7. q.prune => q.scope = "inbox"
      BY <1>2, <2>3 DEF ScanOK
    <2>8. ScanOK(q)
      BY <1>1, <2>3, <2>4, <2>5, <2>6, <2>7 DEF ScanOK, s
    <2> QED BY <1>1, <2>1, <2>3, <2>4, <2>8, OneScan DEF s
  <1> QED BY <1>3, <1>4

\* A thread that is fetched is recorded for the searches that still admit it.
LEMMA FetchThreadOK ==
  ASSUME EvidenceInv, NEW h \in Handlers, NEW t \in MailThreads, FetchThread(h, t)
  PROVE  EvidenceInv' /\ UNCHANGED evidence
  <1> DEFINE s == scans[h]
             sent == Sent(h)
             keys == {c \in s.found[t] :
                        LET watched == ScopeOf(s.scope, c) IN
                        Admits(watched, Labelled(mail[t].place), Observed(watched))}
             snoozed == AgreedSnooze(s.scope, s.found[t])
             q == Noted(sent, t, evidence[t], keys, snoozed)
  <1>1. s.phase = "fetch" /\ Query(h, q)
    BY DEF FetchThread
  <1>2. s \in ScanType /\ sent \in ScanType /\ MailboxOK /\ evidence \in [MailThreads -> RowOrNone]
        /\ sent.phase = s.phase /\ sent.found = s.found /\ sent.away = s.away /\ sent.alone = s.alone /\ sent.scope = s.scope
    BY SentSame DEF EvidenceInv
  <1>3. s.found[t] \subseteq Watchers /\ s.scope \in Scopes
    BY <1>2 DEF ScanType
  <1>4. keys \in SUBSET Watchers /\ snoozed \in {"yes", "no", "unknown"}
    BY <1>3, AgreedIs
  <1>5. ASSUME NEW c \in Watchers, <<c, t>> \notin s.away, c \in s.found[t]
        PROVE  c \in keys
    <2>1. ScanOK(s)
      BY DEF EvidenceInv
    <2>2. Watches(s.scope, c, t)
      BY <1>1, <1>5, <2>1 DEF ScanOK, HeldOK
    <2>3. ScopeOf(s.scope, c) \in Scopes /\ mail[t].place \in Places
      BY <1>2, <1>3, ScopeOfIs DEF MailboxOK
    <2>4. Admits(ScopeOf(s.scope, c), Labelled(mail[t].place), Observed(ScopeOf(s.scope, c)))
      BY <2>2, <2>3, FindsAdmits DEF Watches
    <2> QED BY <1>5, <2>4
  <1> HIDE DEF s, sent, keys, snoozed
  <1>6. q.alone = s.alone /\ q.sent = sent.sent
    <2>1. q.alone = sent.alone /\ q.sent = sent.sent
      BY <1>2, <1>4, NotedIs
    <2> QED BY <1>2, <2>1
  <1>7. ASSUME ~Clashes(h) PROVE ScanOK(q)
    <2>1. ScanOK(sent)
      BY <1>1, <1>7, SentWell DEF s, sent
    <2>2. evidence[t] \in RowOrNone
      BY <1>2
    <2>3. \A c \in Watchers : <<c, t>> \notin sent.away /\ c \in sent.found[t] => keys # {}
      BY <1>2, <1>5
    <2> QED BY <1>1, <1>2, <1>4, <2>1, <2>2, <2>3, NotedWell
  <1> HIDE DEF q
  <1> QED BY <1>1, <1>6, <1>7, QueryOK DEF s, sent

\* What was recorded and not found is set out to be checked again.
LEMMA ReadStaleOK ==
  ASSUME EvidenceInv, NEW h \in Handlers, ReadStale(h)
  PROVE  EvidenceInv' /\ UNCHANGED evidence
  <1> DEFINE s == scans[h]
             sent == Sent(h)
  <1>1. s.phase = "fetch" /\ s.todo = {}
    BY DEF ReadStale
  <1>2. PICK asked \in SUBSET Stale(h) :
          Query(h, [Sent(h) EXCEPT !.phase = "recheck", !.todo = asked, !.stale = evidence,
                                   !.incomplete = @ \/ asked # Stale(h)])
    BY DEF ReadStale
  <1> DEFINE q == [sent EXCEPT !.phase = "recheck", !.todo = asked, !.stale = evidence,
                               !.incomplete = sent.incomplete \/ asked # Stale(h)]
  <1>3. /\ s \in ScanType /\ sent \in ScanType
        /\ sent.phase = s.phase /\ sent.scope = s.scope /\ sent.prune = s.prune /\ sent.unasked = s.unasked
        /\ sent.found = s.found /\ sent.todo = s.todo /\ sent.alone = s.alone /\ sent.seen = s.seen
        /\ sent.incomplete = s.incomplete
    BY SentSame DEF EvidenceInv
  <1>4. Query(h, q)
    BY <1>2, <1>3 DEF ScanType
  <1>5. /\ asked \subseteq MailThreads /\ \A t \in asked : s.found[t] = {}
        /\ \A t \in Stale(h) : s.found[t] = {}
    BY DEF Stale
  <1>6. evidence \in [MailThreads -> RowOrNone]
    BY DEF EvidenceInv
  <1>7. ASSUME NEW t \in MailThreads, s.found[t] = {}, s.scope = "inbox", InInbox(evidence[t])
        PROVE  t \in Stale(h)
    BY <1>7 DEF Stale, InInbox, ScopeOf
  <1> DEFINE inc == sent.incomplete \/ asked # Stale(h)
  <1>8. inc \in BOOLEAN /\ (~inc => asked = Stale(h)) /\ (s.incomplete => inc)
    BY <1>3 DEF ScanType
  <1> HIDE DEF s, sent, inc
  <1>9. /\ q \in ScanType /\ q.phase = "recheck" /\ q.scope = sent.scope /\ q.prune = sent.prune
        /\ q.unasked = sent.unasked /\ q.found = sent.found /\ q.todo = asked /\ q.stale = evidence
        /\ q.recorded = sent.recorded /\ q.incomplete = inc /\ q.away = sent.away /\ q.seen = sent.seen
        /\ q.alone = sent.alone /\ q.pending = sent.pending /\ q.sent = sent.sent
    BY <1>3, <1>5, <1>6, <1>8 DEF ScanType, inc
  <1> HIDE DEF q
  <1>10. ASSUME ~Clashes(h) PROVE ScanOK(q)
    <2>1. ScanOK(sent)
      BY <1>1, <1>10, SentWell DEF s, sent
    <2>2. SentOK(q) /\ (q.prune => q.scope = "inbox") /\ q.unasked = {} /\ \A t \in q.todo : q.found[t] = {}
      BY <1>1, <1>3, <1>5, <1>9, <2>1 DEF ScanOK, SentOK
    <2>3. \A t \in MailThreads : Fetched(sent, t)
      BY <1>1, <1>3 DEF Fetched
    <2>4. HeldOK(q)
      BY <1>1, <1>3, <1>8, <1>9, <2>1, <2>3 DEF ScanOK, HeldOK
    <2>5. q.alone /\ q.scope = "inbox" => SeenOK(q)
      <3> SUFFICES ASSUME q.alone, q.scope = "inbox" PROVE SeenOK(q)
        OBVIOUS
      <3>1. SeenOK(sent)
        BY <1>1, <1>3, <1>9, <2>1 DEF ScanOK
      <3>2. ASSUME NEW t \in MailThreads, Settled(q, t), InInbox(evidence[t])
            PROVE  Settled(sent, t)
        <4>1. CASE q.found[t] # {}
          BY <1>9, <2>3, <4>1 DEF Settled
        <4>2. CASE q.found[t] = {}
          <5>1. t \notin asked /\ asked = Stale(h)
            BY <1>8, <1>9, <3>2, <4>2 DEF Settled, Rechecked
          <5> QED BY <1>3, <1>7, <1>9, <3>2, <4>2, <5>1
        <4> QED BY <4>1, <4>2
      <3> QED BY <1>9, <3>1, <3>2 DEF SeenOK
    <2> QED BY <1>9, <2>2, <2>4, <2>5 DEF ScanOK
  <1> QED BY <1>1, <1>3, <1>4, <1>9, <1>10, QueryOK DEF s, sent

\* A thread checked again is recorded where it is now.
LEMMA RecheckOK ==
  ASSUME EvidenceInv, NEW h \in Handlers, NEW t \in MailThreads, Recheck(h, t)
  PROVE  EvidenceInv' /\ UNCHANGED evidence
  <1> DEFINE s == scans[h]
             sent == Sent(h)
             r == s.stale[t]
             keys == {c \in s.owned \cap mail[t].labels :
                        Admits(ScopeOf(s.scope, c), Labelled(mail[t].place), r.snoozed)}
  <1>1. s.phase = "recheck" /\ t \in s.todo
    BY DEF Recheck
  <1>2. IF keys # {} THEN Query(h, Noted(sent, t, r, keys, "unknown"))
        ELSE scans' = [scans EXCEPT ![h] = Noted(s, t, r, {}, "unknown")] /\ UNCHANGED <<mail, evidence, stuck>>
    BY DEF Recheck
  <1>3. s \in ScanType /\ sent \in ScanType /\ MailboxOK /\ evidence \in [MailThreads -> RowOrNone] /\ ScanOK(s)
        /\ sent.phase = s.phase /\ sent.todo = s.todo /\ sent.alone = s.alone /\ sent.scope = s.scope
    BY SentSame DEF EvidenceInv
  <1>4. r \in RowOrNone /\ keys \in SUBSET Watchers
    BY <1>3 DEF ScanType
  <1>5. s.alone /\ s.scope = "inbox" => r = evidence[t]
    BY <1>1, <1>3 DEF ScanOK, SeenOK
  <1> HIDE DEF s, sent, r, keys
  <1>6. CASE keys # {}
    <2> DEFINE q == Noted(sent, t, r, keys, "unknown")
    <2>1. Query(h, q)
      BY <1>2, <1>6
    <2>2. q.alone = s.alone /\ q.sent = sent.sent
      <3>1. q.alone = sent.alone /\ q.sent = sent.sent
        BY <1>3, <1>4, NotedIs
      <3> QED BY <1>3, <3>1
    <2>3. ASSUME ~Clashes(h) PROVE ScanOK(q)
      <3>1. ScanOK(sent)
        BY <1>1, <2>3, SentWell DEF s, sent
      <3> QED BY <1>1, <1>3, <1>4, <1>5, <3>1, NotedWell
    <2> HIDE DEF q
    <2> QED BY <1>1, <2>1, <2>2, <2>3, QueryOK DEF s, sent
  <1>7. CASE keys = {}
    <2> DEFINE q == Noted(s, t, r, {}, "unknown")
    <2>1. scans' = [scans EXCEPT ![h] = q] /\ UNCHANGED <<mail, evidence, stuck>>
      BY <1>2, <1>7
    <2>2. q.phase = s.phase /\ q.alone = s.alone /\ q.sent = s.sent
      BY <1>3, <1>4, NotedIs
    <2>3. ScanOK(q)
      BY <1>1, <1>3, <1>4, <1>5, NotedWell
    <2>4. stuck' \in BOOLEAN
      BY <2>1 DEF EvidenceInv
    <2> HIDE DEF q
    <2> QED BY <1>1, <2>1, <2>2, <2>3, <2>4, OneScan DEF s
  <1> QED BY <1>6, <1>7

\* What PruneSparesPresent and LeavesWithTheInbox say of a step.
Spared ==
  \A t \in MailThreads : evidence[t] # NoRow /\ evidence'[t] = NoRow =>
    \E h \in Handlers : scans[h].prune /\ scans'[h] = NoScan /\ Watchers \X {t} \subseteq scans[h].away
LeftWithInbox ==
  \A h \in Handlers :
    /\ scans[h].phase = "recheck" /\ scans[h].todo = {} /\ scans'[h] = NoScan /\ evidence' # evidence
    /\ scans[h].scope = "inbox" /\ ~scans[h].incomplete /\ scans[h].alone
    => \A t \in MailThreads :
         (\E c \in evidence'[t].keys :
            WatchedBox[c] = "inbox" /\ Admits("inbox", evidence'[t].place, evidence'[t].snoozed))
         => t \in scans[h].seen

\* A row written over is a row of a thread that is somewhere.
LEMMA AppliedIs ==
  ASSUME NEW r \in RowOrNone, NEW w \in Write, w # NoWrite, w.from = NoRow <=> r = NoRow
  PROVE  /\ Applied(r, w) \in Placed
         /\ r = w.from => Applied(r, w).place = w.to.place
  <1>1. w.from \in RowOrNone /\ w.to \in Placed /\ r \in RowType /\ w.from \in RowType /\ w.to \in RowType
    BY RowsAre DEF Placed
  <1>2. Applied(r, w) \in RowType
    BY <1>1 DEF Applied, RowType
  <1>3. /\ (r = NoRow <=> r.place = "none") /\ (w.from = NoRow <=> w.from.place = "none") /\ w.to.place # "none"
    BY <1>1, RowsAre DEF Placed
  <1>4. Applied(r, w).place = IF w.to.place = w.from.place THEN r.place ELSE w.to.place
    BY DEF Applied
  <1> QED BY <1>2, <1>3, <1>4 DEF Placed

\* A scan that ends deletes only what its searches missed, and leaves the inbox as it was seen.
LEMMA EndScanOK ==
  ASSUME EvidenceInv, NEW h \in Handlers, EndScan(h)
  PROVE  EvidenceInv' /\ Spared /\ LeftWithInbox
  <1> DEFINE s == scans[h]
             sent == Sent(h)
             last == sent.sent
             pruned == MailThreads \ Kept(h)
  <1>1. s.phase = "recheck" /\ s.todo = {} /\ mail' = mail
    BY DEF EndScan
  <1>2. ScanOK(s) /\ s \in ScanType /\ sent \in ScanType /\ evidence \in [MailThreads -> RowOrNone]
        /\ sent.scope = s.scope /\ sent.seen = s.seen /\ sent.alone = s.alone /\ sent.found = s.found
        /\ sent.phase = s.phase /\ sent.incomplete = s.incomplete /\ sent.todo = s.todo
    BY SentSame DEF EvidenceInv, ScanOK
  <1>3. ASSUME UNCHANGED evidence, stuck' \in BOOLEAN, Dropped(h) \/ UNCHANGED scans
        PROVE  EvidenceInv' /\ Spared /\ LeftWithInbox
    <2>1. Spared /\ LeftWithInbox
      BY <1>3 DEF Spared, LeftWithInbox, EvidenceInv
    <2>2. CASE Dropped(h)
      BY <1>1, <1>3, <2>1, <2>2, ScanDropped
    <2>3. CASE UNCHANGED scans
      <3>1. EvidenceInv'
        BY <1>1, <1>3, <2>3 DEF EvidenceInv, MailboxOK, ScanOK, SentOK, HeldOK, SeenOK, Settled, Fetched, Rechecked,
                                Leaves, InInbox, Watches, LockedOnce, Locked, Alone
      <3> QED BY <2>1, <3>1
    <2> QED BY <1>3, <2>2, <2>3
  <1>4. CASE s.prune /\ s.incomplete
    <2>1. Dropped(h) /\ UNCHANGED <<evidence, stuck>>
      BY <1>4 DEF EndScan
    <2>2. stuck' \in BOOLEAN
      BY <2>1 DEF EvidenceInv
    <2> QED BY <1>3, <2>1, <2>2
  <1> DEFINE waiting == Waits(h) \/ (\E t \in pruned, o \in Handlers \ {h} : Locked(o, t) /\ evidence[t] # NoRow)
  <1>5. CASE ~(s.prune /\ s.incomplete) /\ waiting
    <2>1. stuck' = TRUE /\ UNCHANGED <<scans, evidence>>
      BY <1>5 DEF EndScan
    <2> QED BY <1>3, <2>1
  <1>6. CASE ~(s.prune /\ s.incomplete) /\ ~waiting /\ Clashes(h)
    <2>1. Dropped(h) /\ UNCHANGED <<evidence, stuck>>
      BY <1>6 DEF EndScan
    <2>2. stuck' \in BOOLEAN
      BY <2>1 DEF EvidenceInv
    <2> QED BY <1>3, <2>1, <2>2
  <1>7. CASE ~(s.prune /\ s.incomplete) /\ ~waiting /\ ~Clashes(h)
    <2>1. /\ Dropped(h) /\ UNCHANGED stuck
          /\ evidence' = [t \in MailThreads |->
               IF t \in pruned THEN NoRow
               ELSE IF last[t] = NoWrite THEN evidence[t] ELSE Applied(evidence[t], last[t])]
      BY <1>7 DEF EndScan
    <2>2. scans' = [o \in Handlers |-> IF o = h THEN NoScan ELSE scans[o]]
      BY <2>1 DEF Dropped, EvidenceInv
    <2>3. ScanOK(sent)
      BY <1>1, <1>7, SentWell
    <2>4. \A o \in Handlers \ {h}, t \in MailThreads : Locked(o, t) =>
            last[t] = NoWrite /\ (t \in pruned => evidence[t] = NoRow)
      <3> SUFFICES ASSUME NEW o \in Handlers \ {h}, NEW t \in MailThreads, Locked(o, t)
                   PROVE  last[t] = NoWrite /\ (t \in pruned => evidence[t] = NoRow)
        OBVIOUS
      <3>1. t \in pruned => evidence[t] = NoRow
        BY <1>7
      <3>2. s.pending[t].from = s.pending[t].to
        BY <1>7 DEF Waits, Unsent
      <3>3. s.sent[t] = NoWrite
        BY DEF EvidenceInv, LockedOnce, Locked
      <3>4. last[t] = IF s.pending[t].from # s.pending[t].to THEN s.pending[t] ELSE s.sent[t]
        BY SentIs
      <3> QED BY <3>1, <3>2, <3>3, <3>4
    <2>5. last \in [MailThreads -> Write]
      BY <1>2 DEF ScanType
    <2>6. \A t \in MailThreads : last[t] # NoWrite => (last[t].from = NoRow <=> evidence[t] = NoRow)
      BY <2>3 DEF ScanOK, SentOK
    <2> HIDE DEF s, sent, last, pruned, waiting
    <2>7. ASSUME NEW t \in MailThreads
          PROVE  /\ evidence'[t] \in RowOrNone
                 /\ t \notin pruned => (evidence'[t] = NoRow <=> evidence[t] = NoRow /\ last[t] = NoWrite)
      <3>1. CASE t \in pruned
        BY <2>1, <3>1, RowsAre
      <3>2. CASE t \notin pruned /\ last[t] = NoWrite
        BY <1>2, <2>1, <3>2
      <3>3. CASE t \notin pruned /\ last[t] # NoWrite
        <4>1. evidence'[t] = Applied(evidence[t], last[t])
          BY <2>1, <3>3
        <4>2. Applied(evidence[t], last[t]) \in Placed
          BY <1>2, <2>5, <2>6, <3>3, AppliedIs
        <4> QED BY <3>3, <4>1, <4>2, RowsAre DEF RowOrNone
      <3> QED BY <3>1, <3>2, <3>3
    <2>8. EvidenceInv'
      <3>1. ASSUME NEW o \in Handlers PROVE ScanOK(scans[o])'
        <4>1. CASE o = h
          <5>1. scans'[o] = NoScan
            BY <2>2, <4>1
          <5>2. NoScan.phase = "idle" /\ \A t \in MailThreads : NoScan.sent[t] = NoWrite
            BY DEF NoScan
          <5>3. NoScan \in ScanType /\ NoScan.prune = FALSE
            BY NoScanOK DEF ScanOK, NoScan
          <5> QED BY <5>1, <5>2, <5>3 DEF ScanOK, SentOK
        <4>2. CASE o # h
          <5>1. scans'[o] = scans[o] /\ ScanOK(scans[o])
            BY <2>2, <4>2 DEF EvidenceInv
          <5>2. scans[o].phase = "idle" \/ ~scans[o].alone
            <6>1. scans[h].phase # "idle"
              BY <1>1 DEF s
            <6>2. NoScan.phase = "idle"
              BY DEF NoScan
            <6> QED BY <4>2, <6>1, <6>2 DEF EvidenceInv, Alone
          <5>3. ASSUME NEW t \in MailThreads, scans[o].sent[t] # NoWrite
                PROVE  evidence'[t] = evidence[t]
            <6>1. last[t] = NoWrite /\ (t \in pruned => evidence[t] = NoRow)
              BY <2>4, <4>2, <5>3 DEF Locked
            <6> QED BY <2>1, <6>1
          <5>4. HeldOK(scans[o]) => HeldOK(scans[o])'
            BY <1>1, <5>1 DEF HeldOK, Fetched, Watches
          <5>5. SentOK(scans[o])'
            BY <5>1, <5>3 DEF ScanOK, SentOK
          <5> QED BY <5>1, <5>2, <5>4, <5>5 DEF ScanOK
        <4> QED BY <4>1, <4>2
      <3>2. LockedOnce'
        <4>1. \A t \in MailThreads : NoScan.sent[t] = NoWrite
          BY DEF NoScan
        <4> QED BY <2>2, <4>1 DEF EvidenceInv, LockedOnce, Locked
      <3>3. Alone'
        <4>1. NoScan.phase = "idle"
          BY DEF NoScan
        <4> QED BY <2>2, <4>1 DEF EvidenceInv, Alone
      <3>4. evidence' \in [MailThreads -> RowOrNone]
        BY <2>1, <2>7
      <3>5. scans' = [o \in Handlers |-> scans'[o]]
        BY <2>2
      <3>6. MailboxOK' /\ stuck' \in BOOLEAN
        BY <1>1, <2>1 DEF EvidenceInv, MailboxOK
      <3> QED BY <3>1, <3>2, <3>3, <3>4, <3>5, <3>6 DEF EvidenceInv
    <2>9. Spared
      <3> SUFFICES ASSUME NEW t \in MailThreads, evidence[t] # NoRow, evidence'[t] = NoRow
                   PROVE  s.prune /\ scans'[h] = NoScan /\ Watchers \X {t} \subseteq s.away
        BY DEF Spared, s
      <3>1. t \in pruned
        BY <2>7
      <3>2. s.prune /\ t \notin s.recorded /\ ~s.incomplete
        BY <1>7, <3>1 DEF pruned, Kept, s
      <3>3. ASSUME NEW c \in Watchers PROVE <<c, t>> \in s.away
        <4>1. HeldOK(s) /\ s.unasked = {}
          BY <1>1, <1>2 DEF ScanOK
        <4> QED BY <1>1, <3>2, <4>1 DEF HeldOK, Fetched
      <3> QED BY <2>2, <3>2, <3>3
    <2>10. LeftWithInbox
      <3> SUFFICES ASSUME NEW o \in Handlers,
                          scans[o].phase = "recheck", scans'[o] = NoScan,
                          scans[o].scope = "inbox", ~scans[o].incomplete, scans[o].alone,
                          NEW t \in MailThreads \ scans[o].seen,
                          NEW c \in evidence'[t].keys, WatchedBox[c] = "inbox",
                          Admits("inbox", evidence'[t].place, evidence'[t].snoozed)
                   PROVE  FALSE
        BY DEF LeftWithInbox
      <3>1. o = h
        <4>1. NoScan.phase = "idle"
          BY DEF NoScan
        <4> QED BY <2>2, <4>1
      <3>2. SeenOK(sent) /\ t \notin sent.seen
        BY <1>2, <2>3, <3>1 DEF ScanOK, s
      <3>3. /\ Leaves(t, last[t])
            /\ Settled(sent, t) /\ InInbox(evidence[t]) => last[t] # NoWrite \/ sent.pending[t].from # sent.pending[t].to
        BY <3>2 DEF SeenOK, last
      <3>4. sent.pending[t] = NoWrite /\ NoWrite.from = NoWrite.to
        BY SentIs, RowsAre DEF sent
      <3>5. Settled(sent, t)
        BY <1>1, <1>2, <3>1 DEF Settled, Fetched, Rechecked, s
      <3>6. evidence'[t].place = "inbox"
        BY DEF Admits
      <3>7. CASE t \in pruned
        BY <2>1, <3>7, RowsAre
      <3>8. CASE t \notin pruned /\ last[t] = NoWrite
        <4>1. evidence'[t] = evidence[t]
          BY <2>1, <3>8
        <4>2. InInbox(evidence[t])
          BY <4>1 DEF InInbox
        <4> QED BY <3>3, <3>4, <3>5, <3>8, <4>2
      <3>9. CASE t \notin pruned /\ last[t] # NoWrite
        <4>1. evidence'[t] = Applied(evidence[t], last[t])
          BY <2>1, <3>9
        <4>2. last[t].from = evidence[t] /\ last[t].to.place # "inbox"
          BY <3>3, <3>9 DEF Leaves
        <4>3. evidence[t] \in RowOrNone /\ last[t] \in Write
          BY <1>2, <2>5
        <4>4. Applied(evidence[t], last[t]).place = last[t].to.place
          BY <2>6, <3>9, <4>2, <4>3, AppliedIs
        <4> QED BY <3>6, <4>1, <4>2, <4>4
      <3> QED BY <3>7, <3>8, <3>9
    <2> QED BY <2>8, <2>9, <2>10
  <1> QED BY <1>4, <1>5, <1>6, <1>7

\* A scan that fails writes nothing.
LEMMA FailScanOK ==
  ASSUME EvidenceInv, NEW h \in Handlers, FailScan(h)
  PROVE  EvidenceInv' /\ UNCHANGED evidence
  <1>1. Dropped(h) /\ UNCHANGED <<mail, evidence, stuck>> /\ stuck' \in BOOLEAN
    BY DEF FailScan, EvidenceInv
  <1> QED BY <1>1, ScanDropped

\* A restart drops every scan.
LEMMA RestartedOK ==
  ASSUME EvidenceInv, Restarted
  PROVE  EvidenceInv' /\ UNCHANGED evidence
  <1>1. stuck' = FALSE /\ scans' = [h \in Handlers |-> NoScan] /\ UNCHANGED <<mail, evidence>>
    BY DEF Restarted
  <1>2. NoScan.phase = "idle" /\ NoScan.prune = FALSE /\ \A t \in MailThreads : NoScan.sent[t] = NoWrite
    BY DEF NoScan
  <1>3. NoScan \in ScanType
    BY NoScanOK DEF ScanOK
  <1>4. \A h \in Handlers : ScanOK(scans[h])'
    BY <1>1, <1>2, <1>3 DEF ScanOK, SentOK
  <1>5. LockedOnce' /\ Alone'
    BY <1>1, <1>2 DEF LockedOnce, Locked, Alone
  <1> QED BY <1>1, <1>4, <1>5 DEF EvidenceInv, MailboxOK

\* A scan stays well while a thread moves: it takes note of the searches that
\* would not find the thread now, and of the inbox it is in.
LEMMA MovedWell ==
  ASSUME NEW s, ScanOK(s), s \in ScanType, s.phase # "idle",
         NEW t \in MailThreads, NEW place, NEW labels, NEW away \in SUBSET (Watchers \X MailThreads),
         NEW seen \in SUBSET MailThreads, NEW n,
         n \in ScanType /\ n.phase = s.phase /\ n.scope = s.scope /\ n.prune = s.prune /\ n.unasked = s.unasked,
         n.found = s.found /\ n.todo = s.todo /\ n.recorded = s.recorded /\ n.alone = s.alone /\ n.stale = s.stale,
         n.incomplete = s.incomplete /\ n.away = away /\ n.sent = s.sent /\ n.pending = s.pending /\ n.seen = seen,
         s.away \subseteq away, s.seen \subseteq seen, place = "inbox" => t \in seen,
         \A c \in Watchers : <<c, t>> \notin away => c \in labels /\ Finds(ScopeOf(s.scope, c), place),
         mail'[t].place = place, mail'[t].labels = labels, \A u \in MailThreads \ {t} : mail'[u] = mail[u],
         evidence' = evidence
  PROVE  ScanOK(n)' /\ n.phase = s.phase /\ n.sent = s.sent /\ n.alone = s.alone
  <1>1. /\ n \in ScanType /\ n.phase = s.phase /\ n.scope = s.scope /\ n.prune = s.prune /\ n.unasked = s.unasked
        /\ n.found = s.found /\ n.todo = s.todo /\ n.recorded = s.recorded /\ n.alone = s.alone /\ n.stale = s.stale
        /\ n.incomplete = s.incomplete /\ n.away = away /\ n.sent = s.sent /\ n.pending = s.pending /\ n.seen = seen
    OBVIOUS
  <1>2. HeldOK(n)'
    <2> SUFFICES ASSUME NEW c \in Watchers, NEW u \in MailThreads, <<c, u>> \notin away
                 PROVE  /\ c \in mail'[u].labels /\ Finds(ScopeOf(s.scope, c), mail'[u].place)
                        /\ c \notin s.unasked /\ ~s.incomplete => c \in s.found[u]
                        /\ c \in s.found[u] /\ Fetched(s, u) => u \in s.recorded
      BY <1>1 DEF HeldOK, Watches, Fetched
    <2>1. /\ Watches(s.scope, c, u)
          /\ c \notin s.unasked /\ ~s.incomplete => c \in s.found[u]
          /\ c \in s.found[u] /\ Fetched(s, u) => u \in s.recorded
      BY DEF ScanOK, HeldOK
    <2>2. CASE u = t
      BY <2>1, <2>2
    <2>3. CASE u # t
      BY <2>1, <2>3 DEF Watches
    <2> QED BY <2>2, <2>3
  <1>3. ASSUME n.alone, n.scope = "inbox" PROVE SeenOK(n)'
    <2>1. SeenOK(s)
      BY <1>1, <1>3 DEF ScanOK
    <2>2. ASSUME NEW u \in MailThreads \ seen
          PROVE  /\ mail'[u].place # "inbox" /\ Leaves(u, s.sent[u]) /\ Leaves(u, s.pending[u])
                 /\ Settled(s, u) /\ InInbox(evidence[u]) =>
                      s.sent[u] # NoWrite \/ s.pending[u].from # s.pending[u].to
      <3>1. /\ mail[u].place # "inbox" /\ Leaves(u, s.sent[u]) /\ Leaves(u, s.pending[u])
            /\ Settled(s, u) /\ InInbox(evidence[u]) =>
                 s.sent[u] # NoWrite \/ s.pending[u].from # s.pending[u].to
        BY <2>1 DEF SeenOK
      <3>2. mail'[u].place # "inbox"
        BY <3>1
      <3> QED BY <3>1, <3>2
    <2>3. \A u \in MailThreads : Settled(n, u) = Settled(s, u)
      BY <1>1 DEF Settled, Fetched, Rechecked
    <2>4. n.phase = "recheck" => n.stale = evidence'
      BY <1>1, <2>1 DEF SeenOK
    <2> QED BY <1>1, <2>2, <2>3, <2>4 DEF SeenOK, Leaves, InInbox
  <1>4. SentOK(n)'
    BY <1>1 DEF ScanOK, SentOK
  <1>5. /\ n.phase = "list" => \A u \in MailThreads : n.pending[u] = NoWrite /\ n.sent[u] = NoWrite
        /\ n.prune => n.scope = "inbox"
        /\ n.phase \in {"fetch", "recheck"} => n.unasked = {}
        /\ n.phase = "recheck" => \A u \in n.todo : n.found[u] = {}
    BY <1>1 DEF ScanOK
  <1> QED BY <1>1, <1>2, <1>3, <1>4, <1>5 DEF ScanOK

\* A thread that moves is noted by every scan whose searches would miss it now.
LEMMA MailMovesOK ==
  ASSUME EvidenceInv, NEW t \in MailThreads, NEW place \in Places, NEW labels \in SUBSET Watchers,
         MailMoves(t, place, labels)
  PROVE  EvidenceInv' /\ UNCHANGED evidence
  <1> DEFINE lost(s) == {c \in Watchers : c \notin labels \/ ~Finds(ScopeOf(s.scope, c), place)}
             after(s) == IF s = NoScan THEN NoScan
                         ELSE [s EXCEPT !.away = s.away \cup (lost(s) \X {t}),
                                        !.seen = IF place = "inbox" THEN s.seen \cup {t} ELSE s.seen]
  <1>1. /\ mail' = [mail EXCEPT ![t] = [place |-> place, labels |-> labels]]
        /\ UNCHANGED <<evidence, stuck>>
    BY DEF MailMoves
  <1>2. \A h \in Handlers : scans[h] \in ScanType
    BY DEF EvidenceInv, ScanOK
  <1>3. scans' = [h \in Handlers |-> after(scans[h])]
    BY <1>2 DEF MailMoves, ScanType
  <1>4. MailboxOK' /\ MailboxOK
    BY <1>1 DEF EvidenceInv, MailboxOK
  <1>5. mail'[t].place = place /\ mail'[t].labels = labels /\ \A u \in MailThreads \ {t} : mail'[u] = mail[u]
    BY <1>1 DEF EvidenceInv, MailboxOK
  <1>6. ASSUME NEW h \in Handlers
        PROVE  /\ ScanOK(scans[h])' /\ scans'[h].phase = scans[h].phase /\ scans'[h].sent = scans[h].sent
               /\ scans'[h].alone = scans[h].alone /\ (scans[h] = NoScan => scans'[h] = NoScan)
    <2> DEFINE s == scans[h]
               q == after(scans[h])
    <2>1. scans'[h] = q
      BY <1>3
    <2>2. ScanOK(s) /\ s \in ScanType
      BY <1>2 DEF EvidenceInv
    <2>3. CASE s = NoScan
      <3>1. NoScan.phase = "idle" /\ NoScan.prune = FALSE /\ \A u \in MailThreads : NoScan.sent[u] = NoWrite
        BY DEF NoScan
      <3> QED BY <2>1, <2>2, <2>3, <3>1 DEF ScanOK, SentOK
    <2>4. CASE s # NoScan
      <3> DEFINE away == s.away \cup (lost(s) \X {t})
                 seen == IF place = "inbox" THEN s.seen \cup {t} ELSE s.seen
      <3>1. scans'[h] = [s EXCEPT !.away = away, !.seen = seen]
        BY <2>1, <2>4
      <3>2. away \in SUBSET (Watchers \X MailThreads) /\ seen \in SUBSET MailThreads
        BY <2>2 DEF ScanType
      <3>3. /\ s.seen \subseteq seen /\ (place = "inbox" => t \in seen) /\ s.away \subseteq away
            /\ \A c \in Watchers : <<c, t>> \notin away => c \in labels /\ Finds(ScopeOf(s.scope, c), place)
        OBVIOUS
      <3>4. s.phase # "idle"
        BY <2>2, <2>4 DEF ScanOK
      <3> HIDE DEF away, seen, s
      <3>5. PICK n : n = [s EXCEPT !.away = away, !.seen = seen]
        OBVIOUS
      <3>6. PICK is : is = s
        OBVIOUS
      <3>7. /\ ScanOK(n)' /\ n.phase = is.phase /\ n.sent = is.sent /\ n.alone = is.alone
        <4>1. PICK gone : gone = away
          OBVIOUS
        <4>2. PICK in : in = seen
          OBVIOUS
        <4>3. n = [is EXCEPT !.away = gone, !.seen = in]
          BY <3>5, <3>6, <4>1, <4>2
        <4>4. /\ ScanOK(is) /\ is \in ScanType /\ is.phase # "idle" /\ is.away \subseteq gone /\ is.seen \subseteq in
              /\ \A c \in Watchers : <<c, t>> \notin gone => c \in labels /\ Finds(ScopeOf(is.scope, c), place)
          BY <2>2, <3>3, <3>4, <3>6, <4>1, <4>2
        <4>5. evidence' = evidence /\ (place = "inbox" => t \in in)
          BY <1>1, <3>3, <4>2
        <4>6. gone \in SUBSET (Watchers \X MailThreads) /\ in \in SUBSET MailThreads
          BY <3>2, <4>1, <4>2
        <4>7. /\ n \in ScanType /\ n.phase = is.phase /\ n.scope = is.scope /\ n.prune = is.prune
              /\ n.unasked = is.unasked /\ n.found = is.found /\ n.todo = is.todo /\ n.recorded = is.recorded
              /\ n.alone = is.alone /\ n.stale = is.stale /\ n.incomplete = is.incomplete /\ n.away = gone
              /\ n.sent = is.sent /\ n.pending = is.pending /\ n.seen = in
          BY <4>3, <4>4, <4>6 DEF ScanType
        <4> QED BY <1>5, <4>4, <4>5, <4>6, <4>7, MovedWell
      <3> QED BY <2>4, <3>1, <3>5, <3>6, <3>7 DEF s, ScanOK, SentOK, HeldOK, SeenOK
    <2> QED BY <2>3, <2>4
  <1> HIDE DEF after, lost
  <1>7. LockedOnce'
    BY <1>6 DEF EvidenceInv, LockedOnce, Locked
  <1>8. Alone'
    BY <1>6 DEF EvidenceInv, Alone
  <1>9. scans' = [h \in Handlers |-> scans'[h]]
    BY <1>3
  <1> QED BY <1>1, <1>4, <1>6, <1>7, <1>8, <1>9 DEF EvidenceInv

\* Every step of mail and scans keeps the invariant and what the two promises say of it.
LEMMA EvidenceInductive ==
  EvidenceInv /\ [EvidenceNext]_evidenceVars => EvidenceInv' /\ Spared /\ LeftWithInbox
  <1> SUFFICES ASSUME EvidenceInv, [EvidenceNext]_evidenceVars
               PROVE  EvidenceInv' /\ Spared /\ LeftWithInbox
    OBVIOUS
  <1>1. ASSUME EvidenceInv', UNCHANGED evidence PROVE EvidenceInv' /\ Spared /\ LeftWithInbox
    BY <1>1 DEF Spared, LeftWithInbox
  <1>2. ASSUME NEW h \in Handlers, NEW scope \in AskedScopes, NEW limit \in Limits, NEW prune \in BOOLEAN,
               BeginScan(h, scope, limit, prune)
        PROVE  EvidenceInv' /\ UNCHANGED evidence
    BY <1>2, BeginScanOK
  <1>3. ASSUME NEW h \in Handlers, NEW c \in Watchers, NEW missing \in BOOLEAN, ListLabel(h, c, missing)
        PROVE  EvidenceInv' /\ UNCHANGED evidence
    BY <1>3, ListLabelOK
  <1>4. ASSUME NEW h \in Handlers, ListedAll(h) \/ ReadStale(h) \/ FailScan(h)
        PROVE  EvidenceInv' /\ UNCHANGED evidence
    BY <1>4, ListedAllOK, ReadStaleOK, FailScanOK
  <1>5. ASSUME NEW h \in Handlers, NEW t \in MailThreads, FetchThread(h, t) \/ Recheck(h, t)
        PROVE  EvidenceInv' /\ UNCHANGED evidence
    BY <1>5, FetchThreadOK, RecheckOK
  <1>6. CASE Restarted
    BY <1>1, <1>6, RestartedOK
  <1>7. ASSUME NEW t \in MailThreads, NEW place \in Places, NEW labels \in SUBSET Watchers,
               MailMoves(t, place, labels)
        PROVE  EvidenceInv' /\ UNCHANGED evidence
    BY <1>7, MailMovesOK
  <1>8. ASSUME NEW h \in Handlers, EndScan(h)
        PROVE  EvidenceInv' /\ Spared /\ LeftWithInbox
    BY <1>8, EndScanOK
  <1>9. CASE UNCHANGED evidenceVars
    <2>1. UNCHANGED <<mail, evidence, scans, stuck>>
      BY <1>9 DEF evidenceVars
    <2>2. EvidenceInv'
      BY <2>1 DEF EvidenceInv, MailboxOK, ScanOK, SentOK, HeldOK, SeenOK, Settled, Fetched, Rechecked,
                  Leaves, InInbox, Watches, LockedOnce, Locked, Alone
    <2> QED BY <1>1, <2>1, <2>2
  <1> QED BY <1>1, <1>2, <1>3, <1>4, <1>5, <1>6, <1>7, <1>8, <1>9 DEF EvidenceNext

\* Every row has the shape its table gives it, and no two scans hold one at once.
THEOREM EvidenceTyped == EvidenceSpec => []EvidenceTypeOK
  <1>1. EvidenceInv /\ [EvidenceNext]_<<evidenceVars, left>> => EvidenceInv'
    <2>1. UNCHANGED <<evidenceVars, left>> => UNCHANGED evidenceVars
      OBVIOUS
    <2> QED BY <2>1, EvidenceInductive
  <1> QED BY <1>1, EvidenceStarts, TypeFollows, PTL DEF EvidenceSpec

\* A prune deletes only what was, for every capability, out of its mailbox or
\* without its label at some moment of the scan.
THEOREM PruneSpares == EvidenceSpec => PruneSparesPresent
  <1>1. EvidenceInv /\ [EvidenceNext]_<<evidenceVars, left>> => EvidenceInv'
    <2>1. UNCHANGED <<evidenceVars, left>> => UNCHANGED evidenceVars
      OBVIOUS
    <2> QED BY <2>1, EvidenceInductive
  <1>2. EvidenceInv /\ [EvidenceNext]_<<evidenceVars, left>> =>
          [\A t \in MailThreads : evidence[t] # NoRow /\ evidence'[t] = NoRow =>
             \E h \in Handlers : scans[h].prune /\ scans'[h] = NoScan /\ Watchers \X {t} \subseteq scans[h].away]_evidenceVars
    <2>1. UNCHANGED <<evidenceVars, left>> => UNCHANGED evidenceVars
      OBVIOUS
    <2> QED BY <2>1, EvidenceInductive DEF Spared
  <1> QED BY <1>1, <1>2, EvidenceStarts, PTL DEF EvidenceSpec, PruneSparesPresent

\* After a whole scan of the inbox that ran by itself, every row the inbox admits
\* is of a thread that was in the inbox at some moment of the scan.
THEOREM InboxIsLeft == EvidenceSpec => LeavesWithTheInbox
  <1>1. EvidenceInv /\ [EvidenceNext]_<<evidenceVars, left>> => EvidenceInv'
    <2>1. UNCHANGED <<evidenceVars, left>> => UNCHANGED evidenceVars
      OBVIOUS
    <2> QED BY <2>1, EvidenceInductive
  <1>2. EvidenceInv /\ [EvidenceNext]_<<evidenceVars, left>> =>
          [\A h \in Handlers :
             /\ scans[h].phase = "recheck" /\ scans[h].todo = {} /\ scans'[h] = NoScan /\ evidence' # evidence
             /\ scans[h].scope = "inbox" /\ ~scans[h].incomplete /\ scans[h].alone
             => \A t \in MailThreads :
                  (\E c \in evidence'[t].keys :
                     WatchedBox[c] = "inbox" /\ Admits("inbox", evidence'[t].place, evidence'[t].snoozed))
                  => t \in scans[h].seen]_evidenceVars
    <2>1. UNCHANGED <<evidenceVars, left>> => UNCHANGED evidenceVars
      OBVIOUS
    <2> QED BY <2>1, EvidenceInductive DEF LeftWithInbox
  <1> QED BY <1>1, <1>2, EvidenceStarts, PTL DEF EvidenceSpec, LeavesWithTheInbox

-----------------------------------------------------------------------------
(* Guided reviews                                                             *)

Events ==
  {"review_started", "playbook_loaded", "phase_started", "source_snapshot_recorded", "email_review_recorded",
   "validation_failed", "phase_completed", "review_superseded"}
ReviewFields == {"status", "pinned", "current", "phases", "snapshots", "log"}
Logs(log, event) == {k \in DOMAIN log : log[k] = event}
IsOpen(r) == r.status \in {"in_progress", "partially_complete"}

\* A result is whole by a document.
WholeBy(snapshot, d) ==
  /\ \A x, y \in snapshot.items : x.item.thread = y.item.thread => x = y
  /\ Cardinality(snapshot.items) = snapshot.count
  /\ \A x \in snapshot.items : x.item.group \in d.groups /\ (d.fields => x.item.stated)
  /\ d.ordered => {x.position : x \in snapshot.items} = 1..snapshot.count

\* The phases of a review: only the email review is built.
PhasesOK(r) ==
  /\ r.phases \in [DOMAIN r.phases -> PhaseStates] /\ EmailReview \in DOMAIN r.phases
  /\ r.phases[EmailReview] \in {"ready", "recorded", "completed"}
  /\ \A p \in DOMAIN r.phases \ {EmailReview} : r.phases[p] = "unavailable"

\* The last snapshot is the result, and there is none before the first is recorded.
ResultOK(r, d) ==
  /\ r.snapshots \in Seq([live : BOOLEAN, count : Nat, items : SUBSET [item : ItemRows, position : Nat]])
  /\ \A k \in DOMAIN r.snapshots : r.snapshots[k].live <=> k = Len(r.snapshots)
  /\ \A k \in DOMAIN r.snapshots : WholeBy(r.snapshots[k], d)
  /\ r.phases[EmailReview] = "ready" <=> r.snapshots = <<>>

\* What the log of a review tells.
LogOK(r) ==
  /\ r.log \in Seq(Events)
  /\ r.status = "superseded" <=> Logs(r.log, "review_superseded") # {}
  /\ r.phases[EmailReview] = "completed" <=> Logs(r.log, "phase_completed") # {}
  /\ Len(r.snapshots) = Cardinality(Logs(r.log, "source_snapshot_recorded"))
  /\ Len(r.snapshots) = Cardinality(Logs(r.log, "email_review_recorded"))
  /\ \A k \in Logs(r.log, "email_review_recorded"),
        j \in Logs(r.log, "phase_completed") \cup Logs(r.log, "review_superseded") : k < j
  /\ \A k \in Logs(r.log, "phase_completed"), j \in Logs(r.log, "review_superseded") : k < j

\* A review has the phases of its document and is at one of them, or at none.
StateOK(r, d) ==
  /\ r.status \in GuidedStates /\ r.current \in PhaseKeys \cup {NoPhase}
  /\ DOMAIN r.phases = Range(d.phases)

ReviewOK(r, d) ==
  DOMAIN r = ReviewFields /\ StateOK(r, d) /\ PhasesOK(r) /\ ResultOK(r, d) /\ LogOK(r)

GuidedInv ==
  /\ editions \in Seq(Playbooks) /\ reviews \in Seq(Range(reviews))
  /\ \A i \in 1..Len(reviews) :
       /\ reviews[i].pinned \in 1..Len(editions)
       /\ ReviewOK(reviews[i], editions[reviews[i].pinned])
       /\ IsOpen(reviews[i]) => i = Len(reviews)

\* An event more in a log.
LEMMA Logged ==
  ASSUME NEW log \in Seq(Events), NEW event \in Events, NEW e
  PROVE  /\ Append(log, event) \in Seq(Events)
         /\ Logs(log, e) \in SUBSET (1..Len(log)) /\ IsFiniteSet(Logs(log, e)) /\ Cardinality(Logs(log, e)) \in Nat
         /\ event # e => Logs(Append(log, event), e) = Logs(log, e)
         /\ event = e => /\ Logs(Append(log, event), e) = Logs(log, e) \cup {Len(log) + 1}
                         /\ Cardinality(Logs(Append(log, event), e)) = Cardinality(Logs(log, e)) + 1
  <1>1. Append(log, event) \in Seq(Events)
    OBVIOUS
  <1>2. Logs(log, e) \in SUBSET (1..Len(log))
    BY DEF Logs
  <1>3. Len(log) \in Nat /\ IsFiniteSet(1..Len(log))
    BY FS_Interval
  <1>4. IsFiniteSet(Logs(log, e)) /\ Cardinality(Logs(log, e)) \in Nat
    BY <1>2, <1>3, FS_Subset, FS_CardinalityType
  <1>5. /\ DOMAIN log = 1..Len(log) /\ DOMAIN Append(log, event) = 1..(Len(log) + 1)
        /\ Append(log, event)[Len(log) + 1] = event
        /\ \A k \in 1..Len(log) : Append(log, event)[k] = log[k]
    OBVIOUS
  <1>6. 1..(Len(log) + 1) = 1..Len(log) \cup {Len(log) + 1} /\ Len(log) + 1 \notin 1..Len(log)
    BY <1>3
  <1>7. event # e => Logs(Append(log, event), e) = Logs(log, e)
    BY <1>5, <1>6 DEF Logs
  <1>8. event = e => Logs(Append(log, event), e) = Logs(log, e) \cup {Len(log) + 1}
    BY <1>5, <1>6 DEF Logs
  <1>9. Len(log) + 1 \notin Logs(log, e)
    BY <1>2, <1>6
  <1>10. Cardinality(Logs(log, e) \cup {Len(log) + 1}) = Cardinality(Logs(log, e)) + 1
    BY <1>4, <1>9, FS_AddElement
  <1> QED BY <1>1, <1>2, <1>4, <1>7, <1>8, <1>10

\* A review keeps what its log tells when an event is added that changes
\* neither its status, nor its phases, nor its results.
LEMMA LoggedMore ==
  ASSUME NEW r, NEW n, LogOK(r), NEW event \in Events \ {"source_snapshot_recorded", "email_review_recorded"},
         n.log = Append(r.log, event), n.snapshots = r.snapshots,
         event = "review_superseded" => n.status = "superseded",
         event # "review_superseded" => (n.status = "superseded" <=> r.status = "superseded"),
         event = "phase_completed" => r.status # "superseded" /\ n.phases[EmailReview] = "completed",
         event # "phase_completed" => n.phases[EmailReview] = r.phases[EmailReview]
  PROVE  LogOK(n)
  <1>1. r.log \in Seq(Events) /\ n.log \in Seq(Events)
    BY Logged DEF LogOK
  <1>2. \A e \in Events : Logs(n.log, e) = Logs(r.log, e) \/ (e = event /\ Logs(n.log, e) = Logs(r.log, e) \cup {Len(r.log) + 1})
    BY <1>1, Logged
  <1>3. \A e \in Events : e # event => Logs(n.log, e) = Logs(r.log, e)
    BY <1>1, Logged
  <1>4. Logs(n.log, event) = Logs(r.log, event) \cup {Len(r.log) + 1}
    BY <1>1, Logged
  <1>5. \A e \in Events : Logs(r.log, e) \in SUBSET (1..Len(r.log))
    BY <1>1, Logged
  <1>6. Len(r.log) \in Nat /\ \A k \in 1..Len(r.log) : k < Len(r.log) + 1
    BY <1>1
  <1>7. /\ {"source_snapshot_recorded", "email_review_recorded", "phase_completed", "review_superseded"} \subseteq Events
        /\ event # "source_snapshot_recorded" /\ event # "email_review_recorded"
    BY DEF Events
  <1>8. n.status = "superseded" <=> Logs(n.log, "review_superseded") # {}
    BY <1>3, <1>4, <1>7 DEF LogOK
  <1>9. n.phases[EmailReview] = "completed" <=> Logs(n.log, "phase_completed") # {}
    BY <1>3, <1>4, <1>7 DEF LogOK
  <1>10. /\ Len(n.snapshots) = Cardinality(Logs(n.log, "source_snapshot_recorded"))
         /\ Len(n.snapshots) = Cardinality(Logs(n.log, "email_review_recorded"))
    BY <1>3, <1>7 DEF LogOK
  <1>11. ASSUME NEW k \in Logs(n.log, "email_review_recorded"),
                NEW j \in Logs(n.log, "phase_completed") \cup Logs(n.log, "review_superseded")
         PROVE  k < j
    <2>1. k \in Logs(r.log, "email_review_recorded") /\ k \in 1..Len(r.log)
      BY <1>3, <1>5, <1>7
    <2>2. j \in Logs(r.log, "phase_completed") \cup Logs(r.log, "review_superseded") \/ j = Len(r.log) + 1
      BY <1>2, <1>7
    <2> QED BY <1>6, <2>1, <2>2 DEF LogOK
  <1>12. ASSUME NEW k \in Logs(n.log, "phase_completed"), NEW j \in Logs(n.log, "review_superseded")
         PROVE  k < j
    <2>1. CASE event = "review_superseded"
      <3>1. k \in Logs(r.log, "phase_completed") /\ k \in 1..Len(r.log)
        BY <1>3, <1>5, <1>7, <2>1
      <3>2. j \in Logs(r.log, "review_superseded") \/ j = Len(r.log) + 1
        BY <1>2, <1>7
      <3> QED BY <1>6, <3>1, <3>2 DEF LogOK
    <2>2. CASE event = "phase_completed"
      BY <1>3, <1>7, <2>2 DEF LogOK
    <2>3. CASE event \notin {"review_superseded", "phase_completed"}
      BY <1>3, <1>7, <2>3 DEF LogOK
    <2> QED BY <2>1, <2>2, <2>3
  <1> QED BY <1>1, <1>8, <1>9, <1>10, <1>11, <1>12 DEF LogOK

\* A log with one event more, told by where its events are.
Adds(log, new, event) ==
  /\ new \in Seq(Events)
  /\ \A e : event # e => Logs(new, e) = Logs(log, e)
  /\ Cardinality(Logs(new, event)) = Cardinality(Logs(log, event)) + 1

\* An event appended is an event added.
LEMMA LoggedAs ==
  ASSUME NEW log \in Seq(Events), NEW event \in Events
  PROVE  Adds(log, Append(log, event), event)
  BY Logged DEF Adds

\* A result is entered in a log with two events, before a completion or an end.
LEMMA LoggedResult ==
  ASSUME NEW r, NEW n, LogOK(r), r.status # "superseded", r.phases[EmailReview] # "completed",
         NEW first, Adds(r.log, first, "source_snapshot_recorded"), Adds(first, n.log, "email_review_recorded"),
         Len(n.snapshots) = Len(r.snapshots) + 1, n.status = r.status, n.phases[EmailReview] = "recorded"
  PROVE  LogOK(n)
  <1>1. \A e \in {"phase_completed", "review_superseded"} : Logs(n.log, e) = Logs(r.log, e)
    BY DEF Adds
  <1>2. Cardinality(Logs(n.log, "source_snapshot_recorded")) = Cardinality(Logs(r.log, "source_snapshot_recorded")) + 1
    BY DEF Adds
  <1>3. Cardinality(Logs(n.log, "email_review_recorded")) = Cardinality(Logs(r.log, "email_review_recorded")) + 1
    BY DEF Adds
  <1>4. Logs(n.log, "phase_completed") = {} /\ Logs(n.log, "review_superseded") = {}
    BY <1>1 DEF LogOK
  <1>5. n.log \in Seq(Events)
    BY DEF Adds
  <1> QED BY <1>2, <1>3, <1>4, <1>5 DEF LogOK

\* A function onto a set of as many members takes no two to one.
LEMMA Onto ==
  ASSUME NEW n \in Nat, NEW S, NEW f \in [1..n -> S], \A x \in S : \E k \in 1..n : f[k] = x
  PROVE  /\ IsFiniteSet(S) /\ Cardinality(S) \in Nat
         /\ Cardinality(S) = n <=> (\A j, k \in 1..n : f[j] = f[k] => j = k)
  <1>1. f \in Surjection(1..n, S)
    BY DEF Surjection
  <1>2. IsFiniteSet(1..n) /\ Cardinality(1..n) = n
    BY FS_Interval
  <1>3. IsFiniteSet(S) /\ (Cardinality(S) = n <=> f \in Injection(1..n, S))
    BY <1>1, <1>2, FS_Surjection
  <1>4. f \in Injection(1..n, S) <=> (\A j, k \in 1..n : f[j] = f[k] => j = k)
    BY DEF Injection, IsInjective
  <1> QED BY <1>3, <1>4, FS_CardinalityType

Listed(S) == UNION {[1..m -> S] : m \in Nat}
AnySubmission == [version : Nat, inScope : BOOLEAN, count : Nat, items : Listed(ItemRows), order : Listed(Threads)]

\* What may be submitted is finite lists of items and threads.
LEMMA SubmissionsAre ==
  ASSUME editions \in Seq(Playbooks)
  PROVE  Submissions \subseteq AnySubmission
  <1>1. Cardinality(Threads) \in Nat
    BY GuidedAssumption, FS_CardinalityType
  <1>2. Upto(ItemRows, Cardinality(Threads)) \subseteq Listed(ItemRows)
    BY <1>1 DEF Upto, Listed
  <1>3. Upto(Threads, Cardinality(Threads)) \subseteq Listed(Threads)
    BY <1>1 DEF Upto, Listed
  <1>4. 0..Cardinality(Threads) \subseteq Nat /\ 1..Len(editions) \subseteq Nat
    BY <1>1
  <1> QED BY <1>2, <1>3, <1>4 DEF Submissions, AnySubmission

\* Where an order without repetition has a thread.
LEMMA PositionIs ==
  ASSUME NEW n \in Nat, NEW s, s.order \in [1..n -> Threads], NEW t
  PROVE  /\ Position(s, t) \in Nat
         /\ IsInjective(s.order) => \A k \in 1..n : s.order[k] = t => Position(s, t) = k
  <1> DEFINE at == {k \in DOMAIN s.order : s.order[k] = t}
  <1>1. DOMAIN s.order = 1..n
    OBVIOUS
  <1>2. Position(s, t) = IF at = {} THEN 0 ELSE CHOOSE k \in at : \A j \in at : j <= k
    BY DEF Position
  <1>3. at \subseteq 1..n
    BY <1>1
  <1>4. ASSUME at # {} PROVE Position(s, t) \in at
    <2> HIDE DEF at
    <2>1. \E k \in at : \A j \in at : j <= k
      BY <1>3, <1>4, Largest
    <2> QED BY <1>2, <1>4, <2>1
  <1>5. Position(s, t) \in Nat
    <2>1. CASE at = {}
      BY <1>2, <2>1
    <2>2. CASE at # {}
      <3>1. Position(s, t) \in 1..n
        BY <1>3, <1>4, <2>2
      <3> QED BY <3>1
    <2> QED BY <2>1, <2>2
  <1>6. ASSUME IsInjective(s.order), NEW k \in 1..n, s.order[k] = t PROVE Position(s, t) = k
    <2>1. k \in at /\ at # {}
      BY <1>1, <1>6
    <2>2. Position(s, t) \in 1..n /\ s.order[Position(s, t)] = t
      BY <1>3, <1>4, <2>1
    <2> QED BY <1>1, <1>6, <2>2 DEF IsInjective
  <1> QED BY <1>5, <1>6

\* What a submission that is believed leaves is whole.
LEMMA SnapshotWhole ==
  ASSUME NEW s \in AnySubmission, NEW d, ItemsFit(d, s), CountsMatch(s), OrderFits(d, s)
  PROVE  /\ NewSnapshot(s) \in [live : BOOLEAN, count : Nat, items : SUBSET [item : ItemRows, position : Nat]]
         /\ NewSnapshot(s).live = TRUE /\ WholeBy(NewSnapshot(s), d)
  <1>1. PICK n \in Nat : s.items \in [1..n -> ItemRows]
    BY DEF AnySubmission, Listed
  <1>2. PICK m \in Nat : s.order \in [1..m -> Threads]
    BY DEF AnySubmission, Listed
  <1>3. s.count \in Nat /\ DOMAIN s.items = 1..n /\ Len(s.items) = n
    BY <1>1 DEF AnySubmission
  <1> DEFINE pos(k) == Position(s, s.items[k].thread)
             entry == [k \in 1..n |-> [item |-> s.items[k], position |-> pos(k)]]
             entries == {entry[k] : k \in 1..n}
             named == [k \in 1..n |-> s.items[k].thread]
  <1>4. NewSnapshot(s) = [live |-> TRUE, count |-> s.count, items |-> entries]
    BY <1>3 DEF NewSnapshot
  <1>5. \A k \in 1..n : s.items[k] \in ItemRows /\ s.items[k].thread \in Threads
    BY <1>1 DEF ItemRows
  <1>6. \A k \in 1..n : pos(k) \in Nat
    BY <1>2, PositionIs
  <1>7. \A k \in 1..n : entry[k] \in [item : ItemRows, position : Nat]
    BY <1>5, <1>6
  <1>8. Reviewed(s.items) = {named[k] : k \in 1..n} /\ named \in [1..n -> Reviewed(s.items)]
    BY <1>3 DEF Reviewed
  <1>9. /\ \A j, k \in 1..n : named[j] = named[k] => j = k
        /\ s.count = n
    <2>1. Cardinality(Reviewed(s.items)) = n /\ s.count = n
      BY <1>3 DEF CountsMatch
    <2>2. PICK f : f = named
      OBVIOUS
    <2>3. PICK R : R = Reviewed(s.items)
      OBVIOUS
    <2>4. f \in [1..n -> R] /\ (\A x \in R : \E k \in 1..n : f[k] = x) /\ Cardinality(R) = n
      BY <1>8, <2>1, <2>2, <2>3
    <2>5. \A j, k \in 1..n : f[j] = f[k] => j = k
      BY <2>4, Onto
    <2> QED BY <2>1, <2>2, <2>5
  <1>10. \A j, k \in 1..n : entry[j].item.thread = entry[k].item.thread => j = k
    BY <1>9
  <1>11. \A x, y \in entries : x.item.thread = y.item.thread => x = y
    <2> HIDE DEF entry
    <2> QED BY <1>10
  <1>12. Cardinality(entries) = s.count
    <2>1. \A j, k \in 1..n : entry[j] = entry[k] => j = k
      BY <1>10
    <2>2. entry \in [1..n -> entries]
      OBVIOUS
    <2> HIDE DEF entry
    <2>3. Cardinality(entries) = n
      <3>1. PICK E : E = entries
        OBVIOUS
      <3>2. PICK f : f = entry
        OBVIOUS
      <3>3. f \in [1..n -> E] /\ (\A x \in E : \E k \in 1..n : f[k] = x) /\ \A j, k \in 1..n : f[j] = f[k] => j = k
        BY <2>1, <2>2, <3>1, <3>2
      <3>4. Cardinality(E) = n
        BY <3>3, Onto
      <3> QED BY <3>1, <3>4
    <2> QED BY <1>9, <2>3
  <1>13. \A x \in entries : x.item.group \in d.groups /\ (d.fields => x.item.stated)
    BY <1>3 DEF ItemsFit
  <1>14. ASSUME d.ordered PROVE {x.position : x \in entries} = 1..s.count
    <2>1. Range(s.order) = Reviewed(s.items) /\ IsInjective(s.order)
      BY <1>14 DEF OrderFits
    <2>2. DOMAIN s.order = 1..m
      BY <1>2
    <2>3. Range(s.order) = {s.order[k] : k \in 1..m} /\ s.order \in [1..m -> Range(s.order)]
      BY <1>2, <2>2 DEF Range
    <2>4. \A j, k \in 1..m : s.order[j] = s.order[k] => j = k
      BY <2>1, <2>2 DEF IsInjective
    <2>5. Cardinality(Range(s.order)) = m
      <3>1. PICK f : f = s.order
        OBVIOUS
      <3>2. f \in [1..m -> Range(s.order)] /\ \A x \in Range(s.order) : \E k \in 1..m : f[k] = x
        BY <2>3, <3>1
      <3>3. \A j, k \in 1..m : f[j] = f[k] => j = k
        BY <2>4, <3>1
      <3> QED BY <3>2, <3>3, Onto
    <2>6. m = n
      BY <1>3, <1>9, <2>1, <2>5 DEF CountsMatch
    <2>7. \A k \in 1..n : \E j \in 1..m : s.order[j] = s.items[k].thread /\ pos(k) = j
      <3> SUFFICES ASSUME NEW k \in 1..n PROVE \E j \in 1..m : s.order[j] = s.items[k].thread /\ pos(k) = j
        OBVIOUS
      <3>1. s.items[k].thread \in Range(s.order)
        BY <1>3, <2>1 DEF Reviewed
      <3>2. PICK j \in 1..m : s.order[j] = s.items[k].thread
        BY <2>3, <3>1
      <3>3. pos(k) = j
        BY <1>2, <2>1, <3>2, PositionIs
      <3> QED BY <3>2, <3>3
    <2>8. \A j \in 1..m : \E k \in 1..n : pos(k) = j
      <3> SUFFICES ASSUME NEW j \in 1..m PROVE \E k \in 1..n : pos(k) = j
        OBVIOUS
      <3>1. s.order[j] \in Reviewed(s.items)
        BY <2>1, <2>3
      <3>2. PICK k \in 1..n : s.items[k].thread = s.order[j]
        BY <1>3, <3>1 DEF Reviewed
      <3>3. pos(k) = j
        BY <1>2, <2>1, <3>2, PositionIs
      <3> QED BY <3>3
    <2>9. \A k \in 1..n : entry[k].position = pos(k)
      OBVIOUS
    <2>10. {x.position : x \in entries} = {pos(k) : k \in 1..n}
      <3> HIDE DEF entry, pos
      <3> QED BY <2>9
    <2>11. {pos(k) : k \in 1..n} = 1..m
      <3> HIDE DEF pos
      <3> QED BY <2>7, <2>8
    <2> QED BY <1>9, <2>6, <2>10, <2>11
  <1>15. entries \in SUBSET [item : ItemRows, position : Nat]
    <2> HIDE DEF entry
    <2> QED BY <1>7
  <1> HIDE DEF entries
  <1> QED BY <1>3, <1>4, <1>11, <1>12, <1>13, <1>14, <1>15 DEF WholeBy

\* A review begins as its document says, with nothing recorded.
LEMMA NewReviewOK ==
  ASSUME NEW d \in ReviewDocument, ValidDocument(d), NEW pinned
  PROVE  ReviewOK(NewReview(pinned, d), d) /\ NewReview(pinned, d).pinned = pinned
  <1> DEFINE keys == Range(d.phases)
             phases == [p \in keys |-> IF p = EmailReview THEN "ready" ELSE "unavailable"]
  <1>1. PICK r : r = NewReview(pinned, d)
    OBVIOUS
  <1>2. EmailReview \in keys
    BY DEF ValidDocument
  <1>3. /\ DOMAIN r = ReviewFields /\ r.status = "in_progress" /\ r.pinned = pinned
        /\ r.phases = phases /\ r.snapshots = <<>> /\ r.log = <<"review_started", "playbook_loaded">> \o <<"phase_started">>
        /\ r.current = EmailReview
    <2>1. r = [status |-> "in_progress", pinned |-> pinned, current |-> EmailReview, phases |-> phases,
               snapshots |-> <<>>, log |-> Openings(EmailReview)]
      BY <1>1, <1>2 DEF NewReview
    <2>2. Openings(EmailReview) = <<"review_started", "playbook_loaded">> \o <<"phase_started">>
      <3>1. EmailReview # NoPhase
        BY DEF NoPhase, EmailReview
      <3> QED BY <3>1 DEF Openings
    <2> HIDE DEF phases
    <2> QED BY <2>1, <2>2 DEF ReviewFields
  <1>4. PhasesOK(r)
    BY <1>2, <1>3 DEF PhasesOK, PhaseStates
  <1>5. ResultOK(r, d)
    BY <1>2, <1>3 DEF ResultOK
  <1>6. DOMAIN r.log = 1..3 /\ r.log[1] = "review_started" /\ r.log[2] = "playbook_loaded" /\ r.log[3] = "phase_started"
    BY <1>3
  <1>7. /\ Logs(r.log, "review_superseded") = {} /\ Logs(r.log, "phase_completed") = {}
        /\ Logs(r.log, "source_snapshot_recorded") = {} /\ Logs(r.log, "email_review_recorded") = {}
    BY <1>6 DEF Logs
  <1>8. r.log \in Seq(Events)
    BY <1>3 DEF Events
  <1>9. Len(r.snapshots) = 0 /\ Cardinality({}) = 0
    BY <1>3, FS_EmptySet
  <1>10. LogOK(r)
    BY <1>2, <1>3, <1>7, <1>8, <1>9 DEF LogOK
  <1>11. StateOK(r, d)
    BY <1>3 DEF StateOK, GuidedStates, PhaseKeys
  <1> QED BY <1>1, <1>3, <1>4, <1>5, <1>10, <1>11 DEF ReviewOK

\* What a review keeps when its log, its status and what it is at are all that change.
LEMMA SameResult ==
  ASSUME NEW r, NEW n, NEW d, ReviewOK(r, d), DOMAIN n = DOMAIN r, n.phases = r.phases, n.snapshots = r.snapshots,
         n.current = r.current, n.status \in GuidedStates, LogOK(n)
  PROVE  ReviewOK(n, d)
  BY DEF ReviewOK, PhasesOK, ResultOK, StateOK

\* A review set aside is not open any more.
LEMMA SetAsideOK ==
  ASSUME NEW r, NEW d, ReviewOK(r, d)
  PROVE  ReviewOK(SetAside(r), d) /\ SetAside(r).pinned = r.pinned /\ ~IsOpen(SetAside(r))
  <1>1. CASE r.status \notin {"in_progress", "partially_complete"}
    BY <1>1 DEF SetAside, IsOpen
  <1>2. CASE r.status \in {"in_progress", "partially_complete"}
    <2>1. PICK n : n = SetAside(r)
      OBVIOUS
    <2>2. /\ DOMAIN n = DOMAIN r /\ n.status = "superseded" /\ n.pinned = r.pinned /\ n.phases = r.phases
          /\ n.snapshots = r.snapshots /\ n.log = Append(r.log, "review_superseded") /\ n.current = r.current
      BY <1>2, <2>1 DEF SetAside, ReviewOK, ReviewFields
    <2>3. LogOK(r) /\ "review_superseded" \in Events \ {"source_snapshot_recorded", "email_review_recorded"}
      BY DEF ReviewOK, Events
    <2>4. LogOK(n)
      BY <1>2, <2>2, <2>3, LoggedMore
    <2>5. ReviewOK(n, d)
      BY <2>2, <2>4, SameResult DEF GuidedStates
    <2> QED BY <2>1, <2>2, <2>5 DEF IsOpen
  <1> QED BY <1>1, <1>2

\* A refused submission leaves a mark in the log and nothing else.
LEMMA RefusedOK ==
  ASSUME NEW r, NEW d, ReviewOK(r, d), NEW n, n = [r EXCEPT !.log = Append(@, "validation_failed")]
  PROVE  ReviewOK(n, d) /\ n.pinned = r.pinned /\ n.status = r.status
  <1>1. /\ DOMAIN n = DOMAIN r /\ n.status = r.status /\ n.pinned = r.pinned /\ n.phases = r.phases
        /\ n.snapshots = r.snapshots /\ n.log = Append(r.log, "validation_failed") /\ n.current = r.current
    BY DEF ReviewOK, ReviewFields
  <1>2. LogOK(r) /\ "validation_failed" \in Events \ {"source_snapshot_recorded", "email_review_recorded"}
    BY DEF ReviewOK, Events
  <1>3. LogOK(n)
    BY <1>1, <1>2, LoggedMore
  <1>4. n.status \in GuidedStates
    BY <1>1 DEF ReviewOK, StateOK
  <1> QED BY <1>1, <1>3, <1>4, SameResult

\* A phase that is completed had a result, and keeps it.
LEMMA CompletedOK ==
  ASSUME NEW r, NEW key, ReviewOK(r, editions[r.pinned]), Completable(r, key), NEW n, n = Completed(r, key)
  PROVE  ReviewOK(n, editions[r.pinned]) /\ n.pinned = r.pinned
  <1> DEFINE phases == [r.phases EXCEPT ![key] = "completed"]
             order == editions[r.pinned].phases
             remaining == {k \in DOMAIN order : phases[order[k]] \notin {"completed", "unavailable"}}
             done == "unavailable" \in {phases[p] : p \in DOMAIN phases}
             status == IF remaining # {} THEN "in_progress"
                       ELSE IF done THEN "partially_complete" ELSE "completed"
             current == IF remaining = {} THEN NoPhase ELSE order[Min(remaining)]
  <1>1. PICK d : d = editions[r.pinned]
    OBVIOUS
  <1>2. n = [r EXCEPT !.phases = phases, !.log = Append(@, "phase_completed"), !.current = current, !.status = status]
    BY DEF Completed
  <1>3. status \in {"in_progress", "partially_complete", "completed"}
    <2> HIDE DEF remaining, done
    <2> QED OBVIOUS
  <1>13. remaining = {} => current = NoPhase
    BY DEF NoPhase
  <1> HIDE DEF status, current, done
  <1>14. r.phases[EmailReview] = "recorded" => remaining = {}
    <2>1. /\ DOMAIN r.phases = Range(order) /\ r.phases \in [DOMAIN r.phases -> PhaseStates]
          /\ \A p \in DOMAIN r.phases \ {EmailReview} : r.phases[p] = "unavailable"
      BY DEF ReviewOK, StateOK, PhasesOK
    <2>2. SUFFICES ASSUME NEW k \in DOMAIN order PROVE phases[order[k]] \in {"completed", "unavailable"}
      OBVIOUS
    <2>3. order[k] \in DOMAIN r.phases
      BY <2>1 DEF Range
    <2>4. CASE order[k] = key
      BY <2>1, <2>3, <2>4
    <2>5. CASE order[k] # key
      <3>1. phases[order[k]] = r.phases[order[k]]
        BY <2>1, <2>3, <2>5
      <3>2. order[k] # EmailReview
        BY <2>1, <2>5 DEF Completable
      <3> QED BY <2>1, <2>3, <3>1, <3>2
    <2> QED BY <2>4, <2>5
  <1> HIDE DEF remaining
  <1>4. /\ DOMAIN n = DOMAIN r /\ n.status = status /\ n.pinned = r.pinned /\ n.phases = phases
        /\ n.current = current
        /\ n.snapshots = r.snapshots /\ n.log = Append(r.log, "phase_completed")
    BY <1>2 DEF ReviewOK, ReviewFields
  <1>5. ReviewOK(r, d)
    BY <1>1
  <1>6. key \in DOMAIN r.phases /\ r.phases[key] = "recorded" /\ r.status = "in_progress"
    BY DEF Completable
  <1>7. key = EmailReview
    BY <1>5, <1>6 DEF ReviewOK, PhasesOK
  <1>8. n.phases = [r.phases EXCEPT ![EmailReview] = "completed"] /\ n.phases[EmailReview] = "completed"
    BY <1>4, <1>5, <1>6, <1>7 DEF ReviewOK, PhasesOK
  <1>9. PhasesOK(n)
    BY <1>5, <1>8 DEF ReviewOK, PhasesOK, PhaseStates
  <1>10. ResultOK(n, d)
    BY <1>4, <1>5, <1>6, <1>7, <1>8 DEF ReviewOK, ResultOK
  <1>11. LogOK(r) /\ "phase_completed" \in Events \ {"source_snapshot_recorded", "email_review_recorded"}
    BY <1>5 DEF ReviewOK, Events
  <1>12. LogOK(n)
    BY <1>3, <1>4, <1>6, <1>8, <1>11, LoggedMore
  <1>15. StateOK(n, d)
    <2>1. n.current = NoPhase
      BY <1>4, <1>6, <1>7, <1>13, <1>14
    <2>2. DOMAIN n.phases = Range(d.phases)
      BY <1>4, <1>5 DEF ReviewOK, StateOK
    <2> QED BY <1>3, <1>4, <2>1, <2>2 DEF StateOK, GuidedStates
  <1> QED BY <1>1, <1>4, <1>5, <1>9, <1>10, <1>12, <1>15 DEF ReviewOK

\* Whether a result is whole is told by its items and its count.
LEMMA WholeSame ==
  ASSUME NEW a, NEW b, NEW d, WholeBy(a, d), b.items = a.items, b.count = a.count
  PROVE  WholeBy(b, d)
  BY DEF WholeBy

\* A submission that is believed becomes the result, in place of the one before.
LEMMA RecordedOK ==
  ASSUME NEW r, NEW d, NEW s \in AnySubmission, ReviewOK(r, d), Believed(r, d, s), NEW n, n = Recorded(r, s)
  PROVE  ReviewOK(n, d) /\ n.pinned = r.pinned /\ n.status = r.status
  <1> DEFINE earlier == [k \in DOMAIN r.snapshots |-> [r.snapshots[k] EXCEPT !.live = FALSE]]
             Snapshot == [live : BOOLEAN, count : Nat, items : SUBSET [item : ItemRows, position : Nat]]
             first == Append(r.log, "source_snapshot_recorded")
  <1>1. PICK new : new = NewSnapshot(s)
    OBVIOUS
  <1>2. new \in Snapshot /\ new.live = TRUE /\ WholeBy(new, d)
    BY <1>1, SnapshotWhole DEF Believed
  <1>3. r.status = "in_progress" /\ r.phases[EmailReview] # "completed"
    BY DEF Believed
  <1>4. n = [r EXCEPT !.snapshots = Append(earlier, new), !.phases[EmailReview] = "recorded",
                      !.log = @ \o <<"source_snapshot_recorded", "email_review_recorded">>]
    BY <1>1 DEF Recorded
  <1>5. /\ DOMAIN n = DOMAIN r /\ n.status = r.status /\ n.pinned = r.pinned
        /\ n.phases = [r.phases EXCEPT ![EmailReview] = "recorded"]
        /\ n.snapshots = Append(earlier, new)
        /\ n.log = r.log \o <<"source_snapshot_recorded", "email_review_recorded">>
        /\ n.current = r.current
    <2> HIDE DEF earlier
    <2> QED BY <1>4 DEF ReviewOK, ReviewFields
  <1>6. n.phases[EmailReview] = "recorded" /\ PhasesOK(n)
    BY <1>5 DEF ReviewOK, PhasesOK, PhaseStates
  <1>7. r.snapshots \in Seq(Snapshot)
    BY DEF ReviewOK, ResultOK
  <1>8. earlier \in Seq(Snapshot) /\ Len(earlier) = Len(r.snapshots) /\ Len(r.snapshots) \in Nat
    <2>1. \A k \in 1..Len(r.snapshots) : r.snapshots[k] \in Snapshot
      <3> HIDE DEF Snapshot
      <3> QED BY <1>7, MemberOf
    <2>2. \A k \in 1..Len(r.snapshots) : [r.snapshots[k] EXCEPT !.live = FALSE] \in Snapshot
      BY <2>1
    <2>3. DOMAIN r.snapshots = 1..Len(r.snapshots) /\ Len(r.snapshots) \in Nat
      BY <1>7
    <2>4. earlier \in [1..Len(r.snapshots) -> Snapshot]
      <3> HIDE DEF Snapshot
      <3> QED BY <2>2, <2>3
    <2> HIDE DEF earlier, Snapshot
    <2> QED BY <2>3, <2>4
  <1>9. \A k \in 1..Len(r.snapshots) :
          earlier[k].live = FALSE /\ earlier[k].count = r.snapshots[k].count /\ earlier[k].items = r.snapshots[k].items
    BY <1>7
  <1> HIDE DEF earlier
  <1>10. /\ n.snapshots \in Seq(Snapshot) /\ DOMAIN n.snapshots = 1..(Len(r.snapshots) + 1)
         /\ Len(n.snapshots) = Len(r.snapshots) + 1 /\ n.snapshots[Len(r.snapshots) + 1] = new
         /\ \A k \in 1..Len(r.snapshots) : n.snapshots[k] = earlier[k]
    BY <1>2, <1>5, <1>8
  <1>11. \A k \in DOMAIN n.snapshots : k = Len(r.snapshots) + 1 \/ (k \in 1..Len(r.snapshots) /\ k # Len(r.snapshots) + 1)
    BY <1>8, <1>10
  <1>12. \A k \in DOMAIN n.snapshots : n.snapshots[k].live <=> k = Len(n.snapshots)
    BY <1>2, <1>9, <1>10, <1>11
  <1>13. \A k \in DOMAIN n.snapshots : WholeBy(n.snapshots[k], d)
    <2>1. \A k \in 1..Len(r.snapshots) : WholeBy(r.snapshots[k], d)
      BY <1>7 DEF ReviewOK, ResultOK
    <2>2. \A k \in 1..Len(r.snapshots) : WholeBy(n.snapshots[k], d)
      BY <1>9, <1>10, <2>1, WholeSame
    <2> QED BY <1>2, <1>10, <1>11, <2>2
  <1>14. n.snapshots # <<>>
    BY <1>8, <1>10
  <1>15. ResultOK(n, d)
    BY <1>6, <1>10, <1>12, <1>13, <1>14 DEF ResultOK
  <1>16. LogOK(r) /\ r.log \in Seq(Events) /\ {"source_snapshot_recorded", "email_review_recorded"} \subseteq Events
    BY DEF ReviewOK, LogOK, Events
  <1>17. n.log = Append(first, "email_review_recorded") /\ first \in Seq(Events)
    BY <1>5, <1>16
  <1>18. Adds(r.log, first, "source_snapshot_recorded")
    BY <1>16, LoggedAs
  <1> HIDE DEF first
  <1>19. Adds(first, n.log, "email_review_recorded")
    BY <1>16, <1>17, LoggedAs
  <1>20. LogOK(n)
    BY <1>3, <1>5, <1>6, <1>10, <1>16, <1>18, <1>19, LoggedResult
  <1>21. StateOK(n, d)
    BY <1>5 DEF ReviewOK, StateOK, PhasesOK
  <1> QED BY <1>5, <1>6, <1>15, <1>20, <1>21 DEF ReviewOK

\* A sequence is a sequence of what it holds.
LEMMA InRange ==
  ASSUME NEW S, NEW s \in Seq(S)
  PROVE  s \in Seq(Range(s))
  <1>1. \A i \in 1..Len(s) : s[i] \in Range(s)
    BY DEF Range
  <1> QED BY <1>1

\* There is no review at first.
LEMMA GuidedStarts == GuidedInit => GuidedInv
  <1> SUFFICES ASSUME GuidedInit PROVE GuidedInv
    OBVIOUS
  <1>1. editions = <<>> /\ reviews = <<>>
    BY DEF GuidedInit
  <1>2. reviews \in Seq({}) /\ Len(reviews) = 0 /\ editions \in Seq(Playbooks)
    BY <1>1
  <1> QED BY <1>2, InRange DEF GuidedInv

\* A review is well by a longer playbook as well: what it pinned is still there.
LEMMA PinnedStands ==
  ASSUME NEW i, reviews[i].pinned \in 1..Len(editions), ReviewOK(reviews[i], editions[reviews[i].pinned]),
         NEW longer \in Seq(Playbooks), Len(editions) \in Nat, Len(longer) >= Len(editions),
         \A k \in 1..Len(editions) : longer[k] = editions[k]
  PROVE  reviews[i].pinned \in 1..Len(longer) /\ ReviewOK(reviews[i], longer[reviews[i].pinned])
  OBVIOUS

\* A revised document leaves every review its own.
LEMMA RevisedOK ==
  ASSUME GuidedInv, NEW d \in Playbooks, ReviseReviewPlaybook(d)
  PROVE  GuidedInv'
  <1>1. editions' = Append(editions, d) /\ reviews' = reviews /\ editions \in Seq(Playbooks)
    BY DEF ReviseReviewPlaybook, GuidedInv
  <1>2. PICK longer : longer = Append(editions, d)
    OBVIOUS
  <1>3. /\ longer \in Seq(Playbooks) /\ Len(longer) = Len(editions) + 1 /\ Len(editions) \in Nat
        /\ \A k \in 1..Len(editions) : longer[k] = editions[k]
    BY <1>1, <1>2
  <1>4. \A i \in 1..Len(reviews) : reviews[i].pinned \in 1..Len(longer) /\ ReviewOK(reviews[i], longer[reviews[i].pinned])
    BY <1>3, PinnedStands DEF GuidedInv
  <1> QED BY <1>1, <1>2, <1>3, <1>4 DEF GuidedInv

\* A review that starts is the only one open.
LEMMA StartedOK ==
  ASSUME GuidedInv, StartReview
  PROVE  GuidedInv'
  <1>1. PICK rows : rows = WithSeed(editions)
    OBVIOUS
  <1>2. PICK new : new = NewReview(Len(rows), Last(rows))
    OBVIOUS
  <1>3. PICK past : past = [i \in DOMAIN reviews |-> SetAside(reviews[i])]
    OBVIOUS
  <1>4. ValidDocument(Last(rows)) /\ editions' = rows /\ reviews' = Append(past, new)
    BY <1>1, <1>2, <1>3 DEF StartReview
  <1>5. editions \in Seq(Playbooks) /\ reviews \in Seq(Range(reviews))
    BY DEF GuidedInv
  <1>6. /\ rows \in Seq(Playbooks) /\ Len(rows) \in Nat /\ Len(rows) >= 1 /\ Len(editions) \in Nat
        /\ Len(rows) >= Len(editions) /\ \A k \in 1..Len(editions) : rows[k] = editions[k]
    <2>1. CASE editions = <<>>
      <3>1. rows = <<ShippedReview>> /\ ShippedReview \in Playbooks
        BY <1>1, <2>1, GuidedAssumption DEF WithSeed
      <3> QED BY <2>1, <3>1
    <2>2. CASE editions # <<>>
      BY <1>1, <1>5, <2>2 DEF WithSeed
    <2> QED BY <2>1, <2>2
  <1>7. Last(rows) = rows[Len(rows)] /\ Last(rows) \in ReviewDocument
    BY <1>6, GuidedAssumption DEF Last
  <1>8. ReviewOK(new, rows[Len(rows)]) /\ new.pinned = Len(rows)
    BY <1>2, <1>4, <1>7, NewReviewOK
  <1>9. Len(reviews) \in Nat /\ DOMAIN reviews = 1..Len(reviews)
    BY <1>5
  <1>10. ASSUME NEW i \in 1..Len(reviews)
         PROVE  past[i].pinned \in 1..Len(rows) /\ ReviewOK(past[i], rows[past[i].pinned]) /\ ~IsOpen(past[i])
    <2>1. reviews[i].pinned \in 1..Len(rows) /\ ReviewOK(reviews[i], rows[reviews[i].pinned])
      BY <1>6, PinnedStands DEF GuidedInv
    <2>2. past[i] = SetAside(reviews[i])
      BY <1>3, <1>9
    <2> QED BY <2>1, <2>2, SetAsideOK
  <1>11. past \in Seq(Range(past)) /\ Len(past) = Len(reviews)
    <2>1. past \in [1..Len(reviews) -> Range(past)]
      BY <1>3, <1>9 DEF Range
    <2> QED BY <1>9, <2>1
  <1>12. PICK after : after = Append(past, new)
    OBVIOUS
  <1>13. /\ after \in Seq(Range(past) \cup {new}) /\ Len(after) = Len(reviews) + 1
         /\ after[Len(reviews) + 1] = new /\ \A i \in 1..Len(reviews) : after[i] = past[i]
    BY <1>9, <1>11, <1>12
  <1>14. after \in Seq(Range(after))
    BY <1>13, InRange
  <1>15. ASSUME NEW i \in 1..Len(after)
         PROVE  /\ after[i].pinned \in 1..Len(rows) /\ ReviewOK(after[i], rows[after[i].pinned])
                /\ IsOpen(after[i]) => i = Len(after)
    <2>1. CASE i \in 1..Len(reviews)
      BY <1>10, <1>13, <2>1
    <2>2. CASE i = Len(after)
      BY <1>6, <1>8, <1>9, <1>13, <2>2
    <2> QED BY <1>9, <1>13, <2>1, <2>2
  <1> QED BY <1>4, <1>6, <1>12, <1>14, <1>15 DEF GuidedInv

\* One review becomes another that is well by the same document, and open only
\* if the one it replaces was.
LEMMA ReviewReplaced ==
  ASSUME GuidedInv, NEW i \in DOMAIN reviews, NEW n, ReviewOK(n, editions[reviews[i].pinned]),
         n.pinned = reviews[i].pinned, IsOpen(n) => IsOpen(reviews[i]),
         editions' = editions, reviews' = [reviews EXCEPT ![i] = n]
  PROVE  GuidedInv'
  <1>1. reviews \in Seq(Range(reviews)) /\ DOMAIN reviews = 1..Len(reviews) /\ Len(reviews) \in Nat
    BY DEF GuidedInv
  <1>2. PICK after : after = [reviews EXCEPT ![i] = n]
    OBVIOUS
  <1>3. after \in Seq(Range(reviews) \cup {n}) /\ Len(after) = Len(reviews)
    BY <1>1, <1>2
  <1>4. after \in Seq(Range(after))
    BY <1>3, InRange
  <1>5. after[i] = n /\ \A j \in 1..Len(reviews) : j # i => after[j] = reviews[j]
    BY <1>1, <1>2
  <1>6. ASSUME NEW j \in 1..Len(after)
        PROVE  /\ after[j].pinned \in 1..Len(editions) /\ ReviewOK(after[j], editions[after[j].pinned])
               /\ IsOpen(after[j]) => j = Len(after)
    BY <1>1, <1>3, <1>5 DEF GuidedInv
  <1> QED BY <1>2, <1>3, <1>4, <1>6 DEF GuidedInv

\* A submission is recorded whole or refused whole.
LEMMA SubmittedOK ==
  ASSUME GuidedInv, NEW i \in DOMAIN reviews, NEW s \in Submissions, RecordEmailReview(i, s)
  PROVE  GuidedInv'
  <1>1. PICK r : r = reviews[i]
    OBVIOUS
  <1>2. PICK d : d = editions[r.pinned]
    OBVIOUS
  <1>3. ReviewOK(r, d)
    BY <1>1, <1>2 DEF GuidedInv
  <1>4. s \in AnySubmission
    BY SubmissionsAre DEF GuidedInv
  <1>5. PICK n : n = IF Believed(r, d, s) THEN Recorded(r, s) ELSE [r EXCEPT !.log = Append(@, "validation_failed")]
    OBVIOUS
  <1>6. editions' = editions /\ reviews' = [reviews EXCEPT ![i] = n]
    BY <1>1, <1>2, <1>5 DEF RecordEmailReview
  <1>7. ReviewOK(n, d) /\ n.pinned = r.pinned /\ n.status = r.status
    <2>1. CASE Believed(r, d, s)
      BY <1>3, <1>4, <1>5, <2>1, RecordedOK
    <2>2. CASE ~Believed(r, d, s)
      BY <1>3, <1>5, <2>2, RefusedOK
    <2> QED BY <2>1, <2>2
  <1> QED BY <1>1, <1>2, <1>6, <1>7, ReviewReplaced DEF IsOpen

\* A phase is completed in the last review and in no other.
LEMMA PhaseCompletedOK ==
  ASSUME GuidedInv, NEW i \in DOMAIN reviews, NEW key \in PhaseKeys, CompletePhase(i, key)
  PROVE  GuidedInv'
  <1>1. PICK r : r = reviews[i]
    OBVIOUS
  <1>2. PICK n : n = Completed(r, key)
    OBVIOUS
  <1>3. Completable(r, key) /\ reviews' = [reviews EXCEPT ![i] = n] /\ editions' = editions
    BY <1>1, <1>2 DEF CompletePhase
  <1>4. ReviewOK(r, editions[r.pinned])
    BY <1>1 DEF GuidedInv
  <1>5. ReviewOK(n, editions[r.pinned]) /\ n.pinned = r.pinned
    BY <1>2, <1>3, <1>4, CompletedOK
  <1>6. IsOpen(r)
    BY <1>3 DEF Completable, IsOpen
  <1> QED BY <1>1, <1>3, <1>5, <1>6, ReviewReplaced

\* Every operation of the guided review keeps the invariant.
LEMMA GuidedInductive == GuidedInv /\ [GuidedNext]_guidedVars => GuidedInv'
  <1> SUFFICES ASSUME GuidedInv, [GuidedNext]_guidedVars PROVE GuidedInv'
    OBVIOUS
  <1>1. ASSUME NEW d \in Playbooks, ReviseReviewPlaybook(d) PROVE GuidedInv'
    BY <1>1, RevisedOK
  <1>2. CASE StartReview
    BY <1>2, StartedOK
  <1>3. ASSUME NEW i \in DOMAIN reviews, NEW s \in Submissions, RecordEmailReview(i, s) PROVE GuidedInv'
    BY <1>3, SubmittedOK
  <1>4. ASSUME NEW i \in DOMAIN reviews, NEW key \in PhaseKeys, CompletePhase(i, key) PROVE GuidedInv'
    BY <1>4, PhaseCompletedOK
  <1>5. CASE UNCHANGED guidedVars
    BY <1>5 DEF GuidedInv, guidedVars
  <1> QED BY <1>1, <1>2, <1>3, <1>4, <1>5 DEF GuidedNext

\* The invariant says what the logs tell.
LEMMA LogTells == GuidedInv => LogTellsReview
  <1> SUFFICES ASSUME GuidedInv PROVE LogTellsReview
    OBVIOUS
  <1>1. DOMAIN reviews = 1..Len(reviews)
    BY DEF GuidedInv
  <1>2. OnlyLastReviewOpen
    BY <1>1 DEF GuidedInv, OnlyLastReviewOpen, IsOpen
  <1>3. \A i \in DOMAIN reviews : LogOK(reviews[i])
    BY <1>1 DEF GuidedInv, ReviewOK
  <1> QED BY <1>2, <1>3 DEF LogTellsReview, LogOK, Logs, Times

\* The invariant says that every result is whole, and that there is one.
LEMMA ResultsAreWhole == GuidedInv => ResultIsWhole
  <1> SUFFICES ASSUME GuidedInv, NEW i \in DOMAIN reviews, NEW r, r = reviews[i], NEW d, d = editions[r.pinned]
               PROVE  /\ Cardinality(LiveSnapshots(r)) =
                           IF r.phases[EmailReview] \in {"recorded", "completed"} THEN 1 ELSE 0
                      /\ \A k \in LiveSnapshots(r) : WholeBy(r.snapshots[k], d)
    BY DEF ResultIsWhole, WholeBy
  <1>1. ReviewOK(r, d)
    BY DEF GuidedInv
  <1>2. PhasesOK(r) /\ ResultOK(r, d)
    BY <1>1 DEF ReviewOK
  <1>3. DOMAIN r.snapshots = 1..Len(r.snapshots) /\ Len(r.snapshots) \in Nat
    BY <1>2 DEF ResultOK
  <1>4. LiveSnapshots(r) = {k \in 1..Len(r.snapshots) : k = Len(r.snapshots)}
    BY <1>2, <1>3 DEF LiveSnapshots, ResultOK
  <1>5. CASE r.phases[EmailReview] = "ready"
    <2>1. r.snapshots = <<>>
      BY <1>2, <1>5 DEF ResultOK
    <2>2. LiveSnapshots(r) = {}
      BY <1>4, <2>1
    <2> QED BY <1>5, <2>2, FS_EmptySet
  <1>6. CASE r.phases[EmailReview] # "ready"
    <2>1. r.phases[EmailReview] \in {"recorded", "completed"}
      BY <1>2, <1>6 DEF PhasesOK
    <2>2. Len(r.snapshots) # 0
      BY <1>2, <1>6 DEF ResultOK
    <2>3. LiveSnapshots(r) = {Len(r.snapshots)}
      BY <1>3, <1>4, <2>2
    <2>4. Cardinality(LiveSnapshots(r)) = 1
      BY <2>3, FS_Singleton
    <2>5. \A k \in LiveSnapshots(r) : WholeBy(r.snapshots[k], d)
      BY <1>2, <1>3, <1>4 DEF ResultOK
    <2> QED BY <2>1, <2>4, <2>5
  <1> QED BY <1>5, <1>6

\* Reviews have their shape by the invariant.
LEMMA GuidedTyped == GuidedInv => GuidedTypeOK
  <1> SUFFICES ASSUME GuidedInv PROVE GuidedTypeOK
    OBVIOUS
  <1>1. editions \in Seq(Playbooks) /\ DOMAIN reviews = 1..Len(reviews) /\ DOMAIN editions = 1..Len(editions)
    BY DEF GuidedInv
  <1>2. ASSUME NEW i \in DOMAIN reviews, NEW r, r = reviews[i], NEW d, d = editions[r.pinned]
        PROVE  /\ r.status \in GuidedStates /\ r.pinned \in DOMAIN editions
               /\ r.current \in PhaseKeys \cup {NoPhase}
               /\ DOMAIN r.phases = Range(d.phases)
               /\ Range(r.phases) \subseteq PhaseStates
    <2>1. r.pinned \in DOMAIN editions /\ ReviewOK(r, d)
      BY <1>1, <1>2 DEF GuidedInv
    <2>2. StateOK(r, d) /\ r.phases \in [DOMAIN r.phases -> PhaseStates]
      BY <2>1 DEF ReviewOK, PhasesOK
    <2>3. Range(r.phases) \subseteq PhaseStates
      BY <2>2 DEF Range
    <2> QED BY <2>1, <2>2, <2>3 DEF StateOK
  <1> QED BY <1>1, <1>2 DEF GuidedTypeOK

\* Every guided review keeps the shape its tables and the document it pinned
\* give it, however they are started, submitted to and completed.
THEOREM GuidedKept == GuidedSpec => []GuidedTypeOK
  <1>1. GuidedInv /\ [GuidedNext]_<<guidedVars, left>> => GuidedInv'
    <2>1. UNCHANGED <<guidedVars, left>> => UNCHANGED guidedVars
      OBVIOUS
    <2> QED BY <2>1, GuidedInductive
  <1> QED BY <1>1, GuidedStarts, GuidedTyped, PTL DEF GuidedSpec

\* However reviews are started, submitted to and completed, the log of each
\* tells its state, and only the last one started is open.
THEOREM LogsTellReviews == GuidedSpec => []LogTellsReview
  <1>1. GuidedInit => GuidedInv
    BY GuidedStarts
  <1>2. GuidedInv /\ [GuidedNext]_<<guidedVars, left>> => GuidedInv'
    <2>1. UNCHANGED <<guidedVars, left>> => UNCHANGED guidedVars
      OBVIOUS
    <2> QED BY <2>1, GuidedInductive
  <1>3. GuidedInv => LogTellsReview
    BY LogTells
  <1> QED BY <1>1, <1>2, <1>3, PTL DEF GuidedSpec

\* A phase that says it has a result has exactly one, a whole one by the document
\* the review pinned, whichever document is in force meanwhile.
THEOREM ResultsStayWhole == GuidedSpec => []ResultIsWhole
  <1>1. GuidedInit => GuidedInv
    BY GuidedStarts
  <1>2. GuidedInv /\ [GuidedNext]_<<guidedVars, left>> => GuidedInv'
    <2>1. UNCHANGED <<guidedVars, left>> => UNCHANGED guidedVars
      OBVIOUS
    <2> QED BY <2>1, GuidedInductive
  <1>3. GuidedInv => ResultIsWhole
    BY ResultsAreWhole
  <1> QED BY <1>1, <1>2, <1>3, PTL DEF GuidedSpec

-----------------------------------------------------------------------------
(* Rules a person writes                                                      *)

\* A test that narrows says nothing of mail with nothing to go by.
LEMMA NarrowTestFails ==
  ASSUME NEW t, t.field \in TextFields \cup ListFields, t.negated \in BOOLEAN, t.fixed => "blank" \notin t.hits,
         NarrowTest(t),
         NEW facts \in BareMail
  PROVE  ~Holds(t, facts[t.field])
  <1>1. PICK text \in {{}, {"blank"}} :
          facts = [f \in TextFields \cup ListFields |-> IF f \in TextFields THEN text ELSE {}]
    BY DEF BareMail
  <1>2. t.negated = FALSE /\ "blank" \notin t.hits
    BY DEF NarrowTest
  <1>3. CASE t.field \in TextFields
    <2>1. facts[t.field] = text
      BY <1>1, <1>3
    <2> QED BY <1>2, <1>3, <2>1 DEF Holds
  <1>4. CASE t.field \notin TextFields
    <2>1. facts[t.field] = {}
      BY <1>1, <1>4
    <2> QED BY <1>2, <1>4, <2>1 DEF Holds
  <1> QED BY <1>3, <1>4

\* If nothing that narrows matches bare mail, nothing does that is made of it.
LEMMA NarrowOutwards ==
  ASSUME NEW tree, WellFormed(tree), NEW facts \in BareMail, NEW narrow, NEW matching, narrow \cap matching = {}
  PROVE  Narrowing(Parts(tree), narrow) \cap Matching(Parts(tree), matching, facts) = {}
  <1> SUFFICES ASSUME NEW t \in Parts(tree), t \in Narrowing(Parts(tree), narrow),
                      t \in Matching(Parts(tree), matching, facts)
               PROVE  FALSE
    BY DEF Narrowing
  <1>1. CASE t.tag = "test"
    <2>1. t.field \in TextFields \cup ListFields /\ t.negated \in BOOLEAN /\ (t.fixed => "blank" \notin t.hits)
      BY <1>1 DEF WellFormed
    <2>2. NarrowTest(t) /\ Holds(t, facts[t.field])
      BY <1>1 DEF Narrowing, Matching
    <2> QED BY <2>1, <2>2, NarrowTestFails
  <1>2. CASE t.tag # "test"
    <2>1. t.all \cap narrow # {} \/ (t.any # {} /\ t.any \subseteq narrow)
      BY <1>2 DEF Narrowing
    <2>2. t.all \subseteq matching /\ (t.any # {} => t.any \cap matching # {})
      BY <1>2 DEF Matching
    <2> QED BY <2>1, <2>2
  <1> QED BY <1>1, <1>2

\* A rule that narrows does not match mail with nothing to go by, however its
\* conditions are nested.
LEMMA NarrowRulesSkipBareMail ==
  ASSUME NEW tree, WellFormed(tree), Narrows(tree), NEW facts \in BareMail
  PROVE  ~Matches(tree, facts)
  <1> DEFINE n(below) == Narrowing(Parts(tree), below)
             m(below) == Matching(Parts(tree), below, facts)
  <1>1. ASSUME NEW narrow, NEW matching, narrow \cap matching = {} PROVE n(narrow) \cap m(matching) = {}
    BY <1>1, NarrowOutwards
  <1>2. tree \in n(n(n(n({}))))
    BY DEF Narrows
  <1>3. Matches(tree, facts) => tree \in m(m(m(m({}))))
    BY DEF Matches
  <1> HIDE DEF n, m
  <1>4. n({}) \cap m({}) = {}
    BY <1>1
  <1>5. n(n({})) \cap m(m({})) = {}
    BY <1>1, <1>4
  <1>6. n(n(n({}))) \cap m(m(m({}))) = {}
    BY <1>1, <1>5
  <1>7. n(n(n(n({})))) \cap m(m(m(m({})))) = {}
    BY <1>1, <1>6
  <1> QED BY <1>2, <1>3, <1>7

\* What may be written, and the rows that rules have.
NarrowDrafts == {d \in Drafts : Narrow(d)}
RuleRows ==
  [status : RuleStatuses, versions : Seq(NarrowDrafts), current : Nat, tested : SUBSET Nat, agreed : SUBSET Nat]

TestedStatuses == {"tested", "confirmed", "active", "automatable", "paused"}
AgreedStatuses == TestedStatuses \ {"tested"}

\* A rule that nobody wrote over has earned what it is.
RuleOK(r) ==
  /\ r \in RuleRows
  /\ r.current \in DOMAIN r.versions /\ r.tested \cup r.agreed \subseteq DOMAIN r.versions
Earned(r) ==
  /\ r.status \in TestedStatuses => r.current \in r.tested
  /\ r.status \in AgreedStatuses => r.current \in r.agreed

\* What a request in flight knows: a draft that may be written, or a version of a
\* rule that the step it is at may follow.
ReadingOK(q) ==
  /\ q.kind = "write" => q.draft \in NarrowDrafts
  /\ q.kind \in {"amend"} \cup RuleStatuses =>
       /\ q.rule \in DOMAIN rulebook /\ q.version \in DOMAIN rulebook[q.rule].versions
       /\ q.kind \in RuleStatuses => q.kind \in NextStatuses(q.status) \ {"proposed", "automatable"}

RulebookInv ==
  /\ rulebook \in Seq(RuleRows) /\ reading \in [Handlers -> ReadingType] /\ disturbed \subseteq DOMAIN rulebook
  /\ \A i \in DOMAIN rulebook : RuleOK(rulebook[i]) /\ (i \in disturbed \/ Earned(rulebook[i]))
  /\ \A h \in Handlers : ReadingOK(reading[h])

\* No rule is written at first.
LEMMA RulebookStarts == RulebookInit => RulebookInv
  <1> SUFFICES ASSUME RulebookInit PROVE RulebookInv
    OBVIOUS
  <1>1. rulebook = <<>> /\ reading = [h \in Handlers |-> NotReading] /\ disturbed = {}
    BY DEF RulebookInit
  <1>2. NotReading \in ReadingType /\ ReadingOK(NotReading)
    BY DEF NotReading, ReadingType, ReadingOK, RuleStatuses
  <1>3. \A h \in Handlers : reading[h] = NotReading
    BY <1>1
  <1> QED BY <1>1, <1>2, <1>3 DEF RulebookInv

\* The invariant gives every rule and request its shape.
LEMMA RulebookTyped == RulebookInv => RulebookTypeOK
  <1> SUFFICES ASSUME RulebookInv, NEW i \in DOMAIN rulebook, NEW r, r = rulebook[i]
               PROVE  /\ r.status \in RuleStatuses /\ r.versions \in Seq(Drafts) /\ r.current \in DOMAIN r.versions
                      /\ r.tested \cup r.agreed \subseteq DOMAIN r.versions
    BY DEF RulebookInv, RulebookTypeOK
  <1>1. RuleOK(r)
    BY DEF RulebookInv
  <1>2. r.versions \in Seq(NarrowDrafts) /\ NarrowDrafts \subseteq Drafts
    BY <1>1 DEF RuleOK, RuleRows, NarrowDrafts
  <1> QED BY <1>1, <1>2 DEF RuleOK, RuleRows

\* What is in effect is tested and agreed, and about some mail.
LEMMA EffectiveIsAgreed == RulebookInv => EffectiveAsAgreed
  <1> SUFFICES ASSUME RulebookInv, NEW i \in DOMAIN rulebook, NEW r, r = rulebook[i], r.status \in EffectiveStatuses
               PROVE  /\ i \in disturbed \/ r.current \in r.tested \cap r.agreed
                      /\ \A facts \in BareMail : ~Matches(r.versions[r.current], facts)
    BY DEF EffectiveAsAgreed
  <1>1. RuleOK(r) /\ (i \in disturbed \/ Earned(r))
    BY DEF RulebookInv
  <1>2. i \in disturbed \/ r.current \in r.tested \cap r.agreed
    BY <1>1 DEF Earned, EffectiveStatuses, TestedStatuses, AgreedStatuses
  <1>3. r.versions \in Seq(NarrowDrafts) /\ r.current \in DOMAIN r.versions
    BY <1>1 DEF RuleOK, RuleRows
  <1>4. r.versions[r.current] \in NarrowDrafts
    BY <1>3, MemberOf
  <1>5. WellFormed(r.versions[r.current]) /\ Narrows(r.versions[r.current])
    BY <1>4, RulebookAssumption DEF NarrowDrafts, Narrow
  <1> QED BY <1>2, <1>5, NarrowRulesSkipBareMail

\* A request in flight knows what it knew when rules only gain versions.
LEMMA ReadingStands ==
  ASSUME NEW q, ReadingOK(q), q \in ReadingType, DOMAIN rulebook \subseteq DOMAIN rulebook',
         \A i \in DOMAIN rulebook : DOMAIN rulebook[i].versions \subseteq DOMAIN rulebook'[i].versions
  PROVE  ReadingOK(q)'
  BY DEF ReadingOK

\* A request that ends, or one that begins, changes no other.
LEMMA OneReads ==
  ASSUME RulebookInv, NEW h \in Handlers, NEW q \in ReadingType, reading' = [reading EXCEPT ![h] = q]
  PROVE  reading' \in [Handlers -> ReadingType] /\ reading'[h] = q /\ \A o \in Handlers \ {h} : reading'[o] = reading[o]
  BY DEF RulebookInv

\* A request that only reads.
LEMMA ReadingOnly ==
  ASSUME RulebookInv, NEW h \in Handlers, NEW q \in ReadingType, ReadingOK(q),
         reading' = [reading EXCEPT ![h] = q], UNCHANGED <<rulebook, disturbed>>
  PROVE  RulebookInv'
  <1>1. reading' \in [Handlers -> ReadingType] /\ reading'[h] = q /\ \A o \in Handlers \ {h} : reading'[o] = reading[o]
    BY OneReads
  <1>2. \A o \in Handlers : ReadingOK(reading[o])'
    <2> SUFFICES ASSUME NEW o \in Handlers, NEW now, now = reading'[o] PROVE ReadingOK(now)'
      OBVIOUS
    <2>1. ReadingOK(now)
      BY <1>1 DEF RulebookInv
    <2> QED BY <2>1 DEF ReadingOK
  <1> QED BY <1>1, <1>2 DEF RulebookInv

\* A request that ends with a rule written over: the row has its shape, has all
\* the versions it had, and has earned what it is unless somebody wrote to it
\* since it was loaded.
LEMMA RuleWritten ==
  ASSUME RulebookInv, NEW h \in Handlers, NEW i \in DOMAIN rulebook, i = reading[h].rule, NEW new, RuleOK(new),
         DOMAIN rulebook[i].versions \subseteq DOMAIN new.versions, Finished(h, new),
         /\ Earned(rulebook[i]) /\ rulebook[i].status = reading[h].status
         /\ rulebook[i].current = reading[h].version
         => Earned(new)
  PROVE  RulebookInv'
  <1>1. rulebook \in Seq(RuleRows) /\ disturbed \subseteq DOMAIN rulebook
    BY DEF RulebookInv
  <1>2. rulebook' = [rulebook EXCEPT ![i] = new] /\ reading' = [reading EXCEPT ![h] = NotReading]
    BY DEF Finished
  <1>3. /\ disturbed \subseteq disturbed' /\ disturbed' \subseteq disturbed \cup {i}
        /\ rulebook[i].status # reading[h].status \/ rulebook[i].current # reading[h].version => i \in disturbed'
    BY DEF Finished
  <1>4. new \in RuleRows
    BY DEF RuleOK
  <1>5. rulebook' \in Seq(RuleRows) /\ DOMAIN rulebook' = DOMAIN rulebook
    BY <1>1, <1>2, <1>4
  <1>6. rulebook'[i] = new /\ \A j \in DOMAIN rulebook \ {i} : rulebook'[j] = rulebook[j]
    BY <1>1, <1>2
  <1>7. \A j \in DOMAIN rulebook : RuleOK(rulebook'[j]) /\ (j \in disturbed' \/ Earned(rulebook'[j]))
    BY <1>3, <1>6 DEF RulebookInv
  <1>8. NotReading \in ReadingType /\ ReadingOK(NotReading)
    BY DEF NotReading, ReadingType, ReadingOK, RuleStatuses
  <1>9. reading' \in [Handlers -> ReadingType] /\ reading'[h] = NotReading
        /\ \A o \in Handlers \ {h} : reading'[o] = reading[o]
    BY <1>2, <1>8, OneReads
  <1>10. \A j \in DOMAIN rulebook : DOMAIN rulebook[j].versions \subseteq DOMAIN rulebook'[j].versions
    BY <1>6
  <1>11. \A o \in Handlers : ReadingOK(reading[o])'
    <2> SUFFICES ASSUME NEW o \in Handlers, NEW now, now = reading'[o] PROVE ReadingOK(now)'
      OBVIOUS
    <2>1. ReadingOK(now) /\ now \in ReadingType
      BY <1>8, <1>9 DEF RulebookInv
    <2> QED BY <1>5, <1>10, <2>1, ReadingStands
  <1> QED BY <1>1, <1>3, <1>5, <1>7, <1>9, <1>11 DEF RulebookInv, RuleOK, Earned

\* What a request loads of a rule.
LEMMA LoadOK ==
  ASSUME RulebookInv, NEW h \in Handlers, NEW i \in DOMAIN rulebook,
         NEW kind \in {"amend", "tested", "confirmed", "active", "paused", "retired"},
         kind = "amend" \/ kind \in NextStatuses(rulebook[i].status), Load(h, kind, i)
  PROVE  RulebookInv'
  <1>1. PICK q : q = [kind |-> kind, rule |-> i, status |-> rulebook[i].status,
                      version |-> rulebook[i].current, draft |-> NoDraft]
    OBVIOUS
  <1>2. RuleOK(rulebook[i]) /\ rulebook[i] \in RuleRows /\ i \in Nat
    BY DEF RulebookInv, RuleOK
  <1>3. q \in ReadingType
    BY <1>1, <1>2 DEF ReadingType, RuleRows, RuleStatuses
  <1>4. ReadingOK(q)
    BY <1>1, <1>2 DEF ReadingOK, RuleOK, RuleStatuses
  <1> QED BY <1>1, <1>3, <1>4, ReadingOnly DEF Load

\* A rule that is written has a version and has earned nothing.
LEMMA WriteOK ==
  ASSUME RulebookInv, NEW h \in Handlers, FinishWrite(h)
  PROVE  RulebookInv'
  <1>1. PICK new : new = RowWritten(reading[h].draft)
    OBVIOUS
  <1>2. /\ rulebook' = Append(rulebook, new) /\ reading' = [reading EXCEPT ![h] = NotReading]
        /\ disturbed' = disturbed
    BY <1>1 DEF FinishWrite
  <1>3. reading[h].draft \in NarrowDrafts
    BY DEF FinishWrite, RulebookInv, ReadingOK
  <1>4. /\ new = [status |-> "proposed", versions |-> <<reading[h].draft>>, current |-> 1, tested |-> {}, agreed |-> {}]
    BY <1>1 DEF RowWritten
  <1>5. RuleOK(new) /\ Earned(new)
    BY <1>3, <1>4 DEF RuleOK, RuleRows, RuleStatuses, Earned, TestedStatuses, AgreedStatuses
  <1>6. rulebook \in Seq(RuleRows) /\ new \in RuleRows /\ disturbed \subseteq DOMAIN rulebook
    BY <1>5 DEF RulebookInv, RuleOK
  <1>7. /\ rulebook' \in Seq(RuleRows) /\ DOMAIN rulebook' = DOMAIN rulebook \cup {Len(rulebook) + 1}
        /\ rulebook'[Len(rulebook) + 1] = new /\ \A j \in DOMAIN rulebook : rulebook'[j] = rulebook[j]
    BY <1>2, <1>6
  <1>8. NotReading \in ReadingType /\ ReadingOK(NotReading)
    BY DEF NotReading, ReadingType, ReadingOK, RuleStatuses
  <1>9. reading' \in [Handlers -> ReadingType] /\ reading'[h] = NotReading
        /\ \A o \in Handlers \ {h} : reading'[o] = reading[o]
    BY <1>2, <1>8, OneReads
  <1>10. \A o \in Handlers : ReadingOK(reading[o])'
    <2> SUFFICES ASSUME NEW o \in Handlers, NEW now, now = reading'[o] PROVE ReadingOK(now)'
      OBVIOUS
    <2>1. ReadingOK(now) /\ now \in ReadingType
      BY <1>8, <1>9 DEF RulebookInv
    <2> QED BY <1>7, <2>1, ReadingStands
  <1>11. \A j \in DOMAIN rulebook' : RuleOK(rulebook'[j]) /\ (j \in disturbed' \/ Earned(rulebook'[j]))
    BY <1>2, <1>5, <1>7 DEF RulebookInv
  <1> QED BY <1>2, <1>6, <1>7, <1>9, <1>10, <1>11 DEF RulebookInv, RuleOK, Earned

\* An amendment starts over, with a version nobody has tested or agreed to.
LEMMA AmendOK ==
  ASSUME RulebookInv, NEW h \in Handlers, NEW draft \in Drafts, FinishAmend(h, draft)
  PROVE  RulebookInv'
  <1>1. PICK seen : seen = reading[h]
    OBVIOUS
  <1>2. PICK r : r = rulebook[seen.rule]
    OBVIOUS
  <1>3. seen.kind = "amend" /\ draft \in NarrowDrafts
    BY <1>1 DEF FinishAmend, NarrowDrafts
  <1>4. seen \in ReadingType /\ seen.rule \in DOMAIN rulebook /\ seen.version \in DOMAIN r.versions
    BY <1>1, <1>2, <1>3 DEF RulebookInv, ReadingOK
  <1>5. RuleOK(r)
    BY <1>2, <1>4 DEF RulebookInv
  <1>6. r \in RuleRows /\ r.versions \in Seq(NarrowDrafts) /\ r.current \in Nat
    BY <1>5 DEF RuleOK, RuleRows
  <1>7. CASE seen.version < Len(r.versions)
    <2>1. reading' = [reading EXCEPT ![h] = NotReading] /\ UNCHANGED <<rulebook, disturbed>>
      BY <1>1, <1>2, <1>7 DEF FinishAmend
    <2>2. NotReading \in ReadingType /\ ReadingOK(NotReading)
      BY DEF NotReading, ReadingType, ReadingOK, RuleStatuses
    <2> QED BY <2>1, <2>2, ReadingOnly
  <1>8. CASE ~(seen.version < Len(r.versions))
    <2>1. PICK new : new = Amended(r, seen, draft)
      OBVIOUS
    <2>2. Finished(h, new)
      BY <1>1, <1>2, <1>8, <2>1 DEF FinishAmend
    <2>3. seen.version = Len(r.versions) /\ DOMAIN r.versions = 1..Len(r.versions) /\ Len(r.versions) \in Nat
      BY <1>4, <1>6, <1>8
    <2>4. /\ new.versions = Append(r.versions, draft) /\ new.current = Len(r.versions) + 1
          /\ new.tested = r.tested /\ new.agreed = r.agreed
          /\ new.status = IF seen.status = "proposed" THEN r.status ELSE "proposed"
      BY <1>6, <2>1, <2>3 DEF Amended, RuleRows
    <2>5. new.versions \in Seq(NarrowDrafts) /\ DOMAIN new.versions = 1..(Len(r.versions) + 1)
      BY <1>3, <1>6, <2>3, <2>4
    <2>6. new \in RuleRows
      <3>1. new = [status |-> new.status, versions |-> new.versions, current |-> new.current,
                   tested |-> new.tested, agreed |-> new.agreed]
        BY <1>6, <2>1 DEF Amended, RuleRows
      <3>2. new.status \in RuleStatuses
        BY <1>6, <2>4 DEF RuleRows, RuleStatuses
      <3>3. new.tested \in SUBSET Nat /\ new.agreed \in SUBSET Nat
        BY <1>6, <2>4 DEF RuleRows
      <3> QED BY <2>3, <2>4, <2>5, <3>1, <3>2, <3>3, SMTT(40) DEF RuleRows
    <2>7. RuleOK(new) /\ DOMAIN r.versions \subseteq DOMAIN new.versions
      BY <1>5, <2>3, <2>4, <2>5, <2>6 DEF RuleOK
    <2>8. r.status = seen.status => Earned(new)
      BY <2>4 DEF Earned, TestedStatuses, AgreedStatuses
    <2> QED BY <1>1, <1>2, <1>4, <2>2, <2>7, <2>8, RuleWritten
  <1> QED BY <1>7, <1>8

\* A step tests or agrees to the version it loaded, and follows the one before.
LEMMA StepOK ==
  ASSUME RulebookInv, NEW h \in Handlers, FinishStep(h)
  PROVE  RulebookInv'
  <1>1. PICK seen : seen = reading[h]
    OBVIOUS
  <1>2. PICK r : r = rulebook[seen.rule]
    OBVIOUS
  <1>3. PICK new : new = [r EXCEPT
          !.status = seen.kind,
          !.tested = IF seen.kind = "tested" THEN @ \cup {seen.version} ELSE @,
          !.agreed = IF seen.kind = "confirmed" THEN @ \cup {seen.version} ELSE @]
    OBVIOUS
  <1>4. seen.kind \in RuleStatuses /\ Finished(h, new)
    BY <1>1, <1>2, <1>3 DEF FinishStep
  <1>5. /\ seen \in ReadingType /\ seen.rule \in DOMAIN rulebook /\ seen.version \in DOMAIN r.versions
        /\ seen.kind \in NextStatuses(seen.status) \ {"proposed", "automatable"}
    BY <1>1, <1>2, <1>4 DEF RulebookInv, ReadingOK
  <1>6. RuleOK(r)
    BY <1>2, <1>5 DEF RulebookInv
  <1>7. r \in RuleRows /\ DOMAIN r.versions \subseteq Nat
    BY <1>6 DEF RuleOK, RuleRows
  <1>8. /\ new.status = seen.kind /\ new.versions = r.versions /\ new.current = r.current
        /\ new.tested = (IF seen.kind = "tested" THEN r.tested \cup {seen.version} ELSE r.tested)
        /\ new.agreed = (IF seen.kind = "confirmed" THEN r.agreed \cup {seen.version} ELSE r.agreed)
        /\ new \in RuleRows
    BY <1>3, <1>4, <1>5, <1>7 DEF RuleRows
  <1>9. RuleOK(new)
    BY <1>5, <1>6, <1>8 DEF RuleOK
  <1>10. ASSUME Earned(r), r.status = seen.status, r.current = seen.version PROVE Earned(new)
    <2>1. seen.status \in RuleStatuses
      BY <1>7, <1>10 DEF RuleRows
    <2>2. /\ seen.kind \in TestedStatuses => seen.kind = "tested" \/ seen.status \in TestedStatuses
          /\ seen.kind \in AgreedStatuses => seen.kind = "confirmed" \/ seen.status \in AgreedStatuses
      BY <1>5, <2>1 DEF NextStatuses, RuleStatuses, TestedStatuses, AgreedStatuses
    <2> QED BY <1>8, <1>10, <2>2 DEF Earned
  <1> QED BY <1>1, <1>2, <1>4, <1>5, <1>8, <1>9, <1>10, RuleWritten

\* Every step of the rulebook keeps the invariant.
LEMMA RulebookInductive == RulebookInv /\ [RulebookNext]_rulebookVars => RulebookInv'
  <1> SUFFICES ASSUME RulebookInv, [RulebookNext]_rulebookVars PROVE RulebookInv'
    OBVIOUS
  <1>1. ASSUME NEW h \in Handlers, NEW i \in DOMAIN rulebook, LoadAmend(h, i) \/ LoadTest(h, i) PROVE RulebookInv'
    <2>1. LoadTest(h, i) => "tested" \in NextStatuses(rulebook[i].status)
      BY DEF LoadTest, NextStatuses
    <2> QED BY <1>1, <2>1, LoadOK DEF LoadAmend, LoadTest
  <1>2. ASSUME NEW h \in Handlers, NEW i \in DOMAIN rulebook,
               NEW to \in {"confirmed", "active", "paused", "retired"}, LoadMove(h, i, to)
        PROVE  RulebookInv'
    BY <1>2, LoadOK DEF LoadMove
  <1>3. ASSUME NEW h \in Handlers, NEW draft \in Drafts, LoadWrite(h, draft) PROVE RulebookInv'
    <2>1. PICK q : q = [NotReading EXCEPT !.kind = "write", !.draft = draft]
      OBVIOUS
    <2>2. q \in ReadingType /\ ReadingOK(q)
      BY <1>3, <2>1 DEF LoadWrite, NotReading, ReadingType, ReadingOK, NarrowDrafts, RuleStatuses
    <2> QED BY <1>3, <2>1, <2>2, ReadingOnly DEF LoadWrite
  <1>4. ASSUME NEW h \in Handlers, NEW draft \in Drafts, FinishAmend(h, draft) PROVE RulebookInv'
    BY <1>4, AmendOK
  <1>5. ASSUME NEW h \in Handlers, FinishWrite(h) \/ FinishStep(h) PROVE RulebookInv'
    BY <1>5, WriteOK, StepOK
  <1>6. CASE UNCHANGED rulebookVars
    BY <1>6 DEF rulebookVars, RulebookInv, ReadingOK
  <1> QED BY <1>1, <1>2, <1>3, <1>4, <1>5, <1>6 DEF RulebookNext

\* However requests overlap, a rule in effect was tested and agreed to in the
\* version that is in effect, unless a request wrote to it that had loaded another
\* state of it, and is about some mail.
THEOREM EffectiveRulesAgreed == RulebookSpec => []EffectiveAsAgreed
  <1>1. RulebookInv /\ [RulebookNext]_<<rulebookVars, left>> => RulebookInv'
    <2>1. UNCHANGED <<rulebookVars, left>> => UNCHANGED rulebookVars
      OBVIOUS
    <2> QED BY <2>1, RulebookInductive
  <1> QED BY <1>1, RulebookStarts, EffectiveIsAgreed, PTL DEF RulebookSpec

\* Every rule and request in flight has its shape, a rule all its versions.
THEOREM RulebookKept == RulebookSpec => []RulebookTypeOK
  <1>1. RulebookInv /\ [RulebookNext]_<<rulebookVars, left>> => RulebookInv'
    <2>1. UNCHANGED <<rulebookVars, left>> => UNCHANGED rulebookVars
      OBVIOUS
    <2> QED BY <2>1, RulebookInductive
  <1> QED BY <1>1, RulebookStarts, RulebookTyped, PTL DEF RulebookSpec

-----------------------------------------------------------------------------
(* Boards                                                                     *)

\* What a column may read, what Monday may hold of an item, and what a call or a
\* request in flight consists of.
ColumnValues == {Unset, "decision", "call", "house", "not started", "done"}
BoardRows == [BoardColumns -> ColumnValues] \cup {NotOnBoard}
Calls ==
  [item : Todos \cup {NewItem}, list : Configured, values : UNION {[S -> ColumnValues] : S \in SUBSET BoardColumns}]
BulkRecords ==
  [updates : Seq(TodoUpdate), known : UNION {[S -> SUBSET BoardColumns] : S \in SUBSET TodoLists},
   done : Seq(BOOLEAN), before : [Todos -> BoardRows], touched : SUBSET Todos]

\* What a request reported of an item is true of a row; an item that it reported
\* done is on its board.
Telling(q, i, c) == {k \in DoneTo(q, i) : Told(q.updates[k], c) # Unset}
WasOf(q, i) == IF q.before[i] = NotOnBoard /\ DoneTo(q, i) # {} THEN BlankItem ELSE q.before[i]
Tells(q, i, line) ==
  /\ \A c \in BoardColumns :
       /\ Telling(q, i, c) = {} => line[c] = WasOf(q, i)[c]
       /\ \A k \in Telling(q, i, c) : (\A j \in Telling(q, i, c) : j <= k) => line[c] = Told(q.updates[k], c)
  /\ DoneTo(q, i) # {} => line # NotOnBoard

BulkTells(q) == \A i \in Todos \ q.touched : q.updates # <<>> => Tells(q, i, board[i])

TodoInv ==
  /\ board \in [Todos -> BoardRows] /\ columns \in [TodoLists -> SUBSET BoardColumns]
  /\ bulks \in [Handlers -> BulkRecords] /\ late \subseteq Calls
  /\ \A h \in Handlers : Len(bulks[h].done) <= Len(bulks[h].updates) /\ BulkTells(bulks[h])

\* What every request reported of an item nobody else touched is what is promised.
LEMMA BoardsAreTold == TodoInv => ReportTellsBoard
  BY DEF TodoInv, BulkTells, Tells, Telling, WasOf, ReportTellsBoard

\* The rows have their columns, and the requests and calls their shape.
LEMMA TodoTyped == TodoInv => TodoTypeOK
  <1> SUFFICES ASSUME TodoInv PROVE TodoTypeOK
    OBVIOUS
  <1>1. \A i \in Todos : DOMAIN board[i] = BoardColumns
    BY DEF TodoInv, BoardRows, NotOnBoard
  <1>2. \A h \in Handlers : bulks[h].updates \in Seq(TodoUpdate) /\ Len(bulks[h].done) <= Len(bulks[h].updates)
    BY DEF TodoInv, BulkRecords
  <1>3. ASSUME NEW call \in late PROVE call.list \in Configured /\ DOMAIN call.values \subseteq BoardColumns
    <2>1. call \in Calls
      BY DEF TodoInv
    <2> QED BY <2>1 DEF Calls
  <1> QED BY <1>1, <1>2, <1>3 DEF TodoInv, TodoTypeOK

\* Nothing is asked at first.
LEMMA TodoStarts == TodoInit => TodoInv
  <1> SUFFICES ASSUME TodoInit PROVE TodoInv
    OBVIOUS
  <1>1. NotOnBoard \in BoardRows /\ [BlankItem EXCEPT !["status"] = "done"] \in BoardRows
    BY DEF BoardRows, BlankItem, BoardColumns, ColumnValues
  <1>2. board \in [Todos -> BoardRows]
    BY <1>1 DEF TodoInit
  <1>3. NoBulk \in BulkRecords
    <2>1. [l \in {} |-> {}] \in [{} -> SUBSET BoardColumns]
      OBVIOUS
    <2>2. [i \in Todos |-> NotOnBoard] \in [Todos -> BoardRows]
      BY <1>1
    <2>3. {} \in SUBSET TodoLists /\ <<>> \in Seq(TodoUpdate) /\ <<>> \in Seq(BOOLEAN)
      OBVIOUS
    <2>4. [l \in {} |-> {}] \in UNION {[S -> SUBSET BoardColumns] : S \in SUBSET TodoLists}
      BY <2>1, <2>3
    <2> QED BY <2>2, <2>3, <2>4 DEF NoBulk, BulkRecords
  <1>4. \A h \in Handlers : bulks[h] = NoBulk
    BY DEF TodoInit
  <1>5. NoBulk.updates = <<>> /\ NoBulk.done = <<>>
    BY DEF NoBulk
  <1>6. Len(NoBulk.done) <= Len(NoBulk.updates) /\ BulkTells(NoBulk)
    <2>1. Len(NoBulk.done) = 0 /\ Len(NoBulk.updates) = 0
      BY <1>5
    <2> QED BY <1>5, <2>1 DEF BulkTells
  <1>7. bulks \in [Handlers -> BulkRecords]
    BY <1>3 DEF TodoInit
  <1>8. \A h \in Handlers : Len(bulks[h].done) <= Len(bulks[h].updates) /\ BulkTells(bulks[h])
    BY <1>4, <1>6
  <1>9. columns \in [TodoLists -> SUBSET BoardColumns] /\ late \subseteq Calls
    BY DEF TodoInit
  <1> QED BY <1>2, <1>7, <1>8, <1>9 DEF TodoInv

-----------------------------------------------------------------------------
\* What an update names, and what it says of a column it names.
LEMMA NamedAreTold ==
  ASSUME NEW u \in TodoUpdate
  PROVE  /\ NamedColumns(u) = {c \in BoardColumns : Told(u, c) # Unset} /\ DOMAIN ValuesNamed(u) = NamedColumns(u)
         /\ \A c \in NamedColumns(u) : ValuesNamed(u)[c] = Told(u, c) /\ ValuesNamed(u)[c] \in ColumnValues
  <1>1. u.action \in {Unset, "decision", "call"} /\ u.plan \in {Unset, "house"}
    BY DEF TodoUpdate
  <1>2. Unset # "not started" /\ Unset # "decision"
    BY DEF Unset
  <1>3. NamedColumns(u) = {c \in BoardColumns : Told(u, c) # Unset}
    BY <1>1, <1>2 DEF NamedColumns, BoardColumns, Told
  <1>4. DOMAIN ValuesNamed(u) = NamedColumns(u)
    BY DEF ValuesNamed
  <1>5. ASSUME NEW c \in NamedColumns(u)
        PROVE  ValuesNamed(u)[c] = Told(u, c) /\ ValuesNamed(u)[c] \in ColumnValues
    BY <1>1, <1>2 DEF NamedColumns, ValuesNamed, Told, ColumnValues
  <1> QED BY <1>3, <1>4, <1>5

\* A request is true of what its own fields and the row say.
LEMMA SameReport ==
  ASSUME NEW q, NEW p, p.updates = q.updates, p.done = q.done, p.before = q.before, NEW i, NEW line
  PROVE  Tells(p, i, line) <=> Tells(q, i, line)
  <1>1. DoneTo(p, i) = DoneTo(q, i)
    BY DEF DoneTo
  <1>2. \A c : Telling(p, i, c) = Telling(q, i, c)
    BY <1>1 DEF Telling
  <1> QED BY <1>1, <1>2 DEF Tells, WasOf

\* A request that reported on another update has reported on one more.
LEMMA OneMoreReport ==
  ASSUME NEW q \in BulkRecords, NEW x \in BOOLEAN, NEW p, p.done = Append(q.done, x)
  PROVE  \E n \in Nat \ {0} :
           /\ n = Len(q.done) + 1 /\ n = Len(p.done) /\ p.done \in Seq(BOOLEAN)
           /\ DOMAIN q.done = 1..(n - 1) /\ DOMAIN p.done = DOMAIN q.done \cup {n} /\ n \notin DOMAIN q.done
           /\ p.done[n] = x /\ \A k \in DOMAIN q.done : p.done[k] = q.done[k]
  <1>1. PICK s \in Seq(BOOLEAN) : s = q.done
    BY DEF BulkRecords
  <1>2. /\ Len(s) \in Nat /\ DOMAIN s = 1..Len(s) /\ DOMAIN Append(s, x) = 1..(Len(s) + 1)
        /\ Len(Append(s, x)) = Len(s) + 1 /\ Append(s, x) \in Seq(BOOLEAN)
        /\ Append(s, x)[Len(s) + 1] = x /\ \A k \in DOMAIN s : Append(s, x)[k] = s[k]
    OBVIOUS
  <1>3. PICK t : t = Append(s, x) /\ t = p.done
    BY <1>1
  <1>4. PICK n \in Nat \ {0} : n = Len(s) + 1 /\ n - 1 = Len(s)
    BY <1>2
  <1>5. DOMAIN t = DOMAIN s \cup {n} /\ n \notin DOMAIN s
    BY <1>2, <1>3, <1>4
  <1> QED BY <1>1, <1>2, <1>3, <1>4, <1>5

\* What is reported failed says nothing more.
LEMMA FailedTells ==
  ASSUME NEW q \in BulkRecords, NEW p, p.updates = q.updates, p.done = Append(q.done, FALSE), p.before = q.before,
         NEW i, NEW line
  PROVE  Tells(p, i, line) <=> Tells(q, i, line)
  <1>1. PICK n \in Nat \ {0} : /\ DOMAIN p.done = DOMAIN q.done \cup {n} /\ p.done[n] = FALSE
                               /\ \A k \in DOMAIN q.done : p.done[k] = q.done[k]
    BY OneMoreReport
  <1>2. DoneTo(p, i) = DoneTo(q, i)
    BY <1>1 DEF DoneTo
  <1>3. \A c : Telling(p, i, c) = Telling(q, i, c)
    BY <1>2 DEF Telling
  <1> QED BY <1>2, <1>3 DEF Tells, WasOf

\* The updates of a request once one is reported done to an item.
WithItem(q, j) == [q.updates EXCEPT ![Len(q.done) + 1].item = j]

\* What is reported done to an item says nothing more of another.
LEMMA DoneElsewhere ==
  ASSUME NEW q \in BulkRecords, Len(q.done) < Len(q.updates), NEW j \in Todos, NEW p,
         p.updates = WithItem(q, j),
         p.done = Append(q.done, TRUE), p.before = q.before,
         NEW i \in Todos \ {j}, NEW line
  PROVE  Tells(p, i, line) <=> Tells(q, i, line)
  <1>1. q.done \in Seq(BOOLEAN) /\ q.updates \in Seq(TodoUpdate)
    BY DEF BulkRecords
  <1>2. PICK n \in Nat \ {0} :
          /\ n = Len(q.done) + 1 /\ DOMAIN q.done = 1..(n - 1)
          /\ DOMAIN p.done = DOMAIN q.done \cup {n} /\ n \notin DOMAIN q.done
          /\ p.done[n] = TRUE /\ \A k \in DOMAIN q.done : p.done[k] = q.done[k]
    BY OneMoreReport
  <1>3. n \in DOMAIN q.updates /\ q.updates[n] \in TodoUpdate /\ \A k \in DOMAIN q.done : p.updates[k] = q.updates[k]
    BY <1>1, <1>2 DEF WithItem
  <1>4. p.updates[n].item = j
    BY <1>1, <1>2, <1>3 DEF WithItem, TodoUpdate
  <1>5. DoneTo(p, i) = DoneTo(q, i)
    BY <1>2, <1>3, <1>4 DEF DoneTo
  <1>6. DoneTo(p, i) \subseteq DOMAIN q.done
    BY <1>5 DEF DoneTo
  <1>7. \A c : Telling(p, i, c) = Telling(q, i, c)
    BY <1>3, <1>5, <1>6 DEF Telling
  <1> QED BY <1>3, <1>5, <1>6, <1>7 DEF Tells, Telling, WasOf

\* What the call of an update makes of a row.
Writes(u, was, line) ==
  /\ was = NotOnBoard <=> u.item = NewItem
  /\ \A c \in BoardColumns :
       line[c] = IF c \in NamedColumns(u) THEN ValuesNamed(u)[c] ELSE IF u.item = NewItem THEN Unset ELSE was[c]

\* What is reported done to an item says what the call wrote.
LEMMA DoneThere ==
  ASSUME NEW q \in BulkRecords, Len(q.done) < Len(q.updates), NEW j \in Todos, NEW p,
         p.updates = WithItem(q, j),
         p.done = Append(q.done, TRUE), p.before = q.before,
         NEW u, u = q.updates[Len(q.done) + 1],
         NEW was \in BoardRows, Tells(q, j, was), NEW line \in [BoardColumns -> ColumnValues], Writes(u, was, line)
  PROVE  Tells(p, j, line)
  <1>1. q.done \in Seq(BOOLEAN) /\ q.updates \in Seq(TodoUpdate) /\ q.before \in [Todos -> BoardRows]
    BY DEF BulkRecords
  <1>2. PICK n \in Nat \ {0} :
          /\ n = Len(q.done) + 1 /\ DOMAIN q.done = 1..(n - 1)
          /\ DOMAIN p.done = DOMAIN q.done \cup {n} /\ n \notin DOMAIN q.done
          /\ p.done[n] = TRUE /\ \A k \in DOMAIN q.done : p.done[k] = q.done[k]
    BY OneMoreReport
  <1>3. n \in DOMAIN q.updates /\ u \in TodoUpdate /\ \A k \in DOMAIN q.done : p.updates[k] = q.updates[k]
    BY <1>1, <1>2 DEF WithItem
  <1>4. p.updates[n].item = j /\ \A c \in BoardColumns : Told(p.updates[n], c) = Told(u, c)
    BY <1>1, <1>2, <1>3 DEF WithItem, TodoUpdate, Told, BoardColumns
  <1>5. DoneTo(p, j) = DoneTo(q, j) \cup {n}
    BY <1>2, <1>3, <1>4 DEF DoneTo
  <1>6. DoneTo(q, j) \subseteq DOMAIN q.done /\ \A k \in DoneTo(q, j) : k \in Nat /\ k < n
    BY <1>2 DEF DoneTo
  <1>7. ASSUME NEW c \in BoardColumns
        PROVE  Telling(p, j, c) = Telling(q, j, c) \cup (IF Told(u, c) # Unset THEN {n} ELSE {})
    BY <1>3, <1>4, <1>5, <1>6 DEF Telling
  <1>8. ASSUME NEW c \in BoardColumns, Told(u, c) # Unset
         PROVE  /\ n \in Telling(p, j, c) /\ line[c] = Told(p.updates[n], c)
                /\ \A k \in Telling(p, j, c) : (\A m \in Telling(p, j, c) : m <= k) => k = n
    <2>1. line[c] = Told(p.updates[n], c)
      BY <1>3, <1>4, <1>8, NamedAreTold DEF Writes
    <2>2. n \in Telling(p, j, c) /\ Telling(p, j, c) \subseteq DoneTo(q, j) \cup {n}
      BY <1>5, <1>7, <1>8 DEF Telling
    <2>3. \A k \in DoneTo(q, j) : ~(n <= k)
      BY <1>2, <1>6
    <2> QED BY <2>1, <2>2, <2>3
  <1>9. line # NotOnBoard
    BY DEF NotOnBoard, BoardColumns, ColumnValues, Unset
  <1>10. ASSUME NEW c \in BoardColumns, Told(u, c) = Unset
         PROVE  /\ Telling(p, j, c) = {} => line[c] = WasOf(p, j)[c]
                /\ \A k \in Telling(p, j, c) :
                     (\A m \in Telling(p, j, c) : m <= k) => line[c] = Told(p.updates[k], c)
    <2>1. Telling(p, j, c) = Telling(q, j, c)
      BY <1>7, <1>10
    <2>2. line[c] = IF u.item = NewItem THEN Unset ELSE was[c]
      BY <1>3, <1>10, NamedAreTold DEF Writes
    <2>3. CASE DoneTo(q, j) = {}
      <3>1. \A d \in BoardColumns : was[d] = q.before[j][d]
        BY <2>3 DEF Tells, Telling, WasOf
      <3>2. q.before[j] \in BoardRows
        BY <1>1
      <3>3. was = q.before[j]
        <4>1. was = [d \in BoardColumns |-> was[d]] /\ q.before[j] = [d \in BoardColumns |-> q.before[j][d]]
          BY <3>2 DEF BoardRows, NotOnBoard
        <4> QED BY <3>1, <4>1
      <3>4. WasOf(p, j)[c] = line[c]
        BY <1>5, <2>2, <3>3 DEF WasOf, BlankItem, Writes
      <3> QED BY <2>1, <2>3, <3>4 DEF Telling
    <2>4. CASE DoneTo(q, j) # {}
      <3>1. was # NotOnBoard /\ WasOf(p, j) = WasOf(q, j)
        BY <1>5, <2>4 DEF Tells, WasOf
      <3>2. line[c] = was[c]
        BY <2>2, <3>1 DEF Writes
      <3>3. \A k \in Telling(q, j, c) : p.updates[k] = q.updates[k]
        BY <1>3, <1>6 DEF Telling
      <3> QED BY <2>1, <3>1, <3>2, <3>3 DEF Tells
    <2> QED BY <2>3, <2>4
  <1> QED BY <1>8, <1>9, <1>10 DEF Tells

-----------------------------------------------------------------------------
\* A request that reported a failure, of items it may have touched, and one that
\* reported its update done to an item.
Failed(q, more) == Reported([q EXCEPT !.touched = @ \cup more], FALSE)
Succeeded(q, j) == Reported([q EXCEPT !.updates[Len(q.done) + 1].item = j], TRUE)

\* The record of a request that reported a failure.
LEMMA FailureIs ==
  ASSUME NEW q \in BulkRecords, Len(q.done) < Len(q.updates), NEW more \in SUBSET Todos,
         NEW p, p = Failed(q, more)
  PROVE  /\ p \in BulkRecords /\ Len(p.done) <= Len(p.updates) /\ p.updates = q.updates /\ p.before = q.before
         /\ p.done = Append(q.done, FALSE) /\ p.touched = q.touched \cup more
  <1>1. /\ p.updates = q.updates /\ p.before = q.before /\ p.done = Append(q.done, FALSE)
        /\ p.touched = q.touched \cup more /\ p.known = q.known
    BY DEF Failed, Reported, BulkRecords
  <1>2. p.done \in Seq(BOOLEAN) /\ Len(p.done) = Len(q.done) + 1
    <2>1. PICK k \in Nat \ {0} : k = Len(q.done) + 1 /\ k = Len(p.done) /\ p.done \in Seq(BOOLEAN)
      BY <1>1, OneMoreReport
    <2> QED BY <2>1
  <1>3. p = [updates |-> p.updates, known |-> p.known, done |-> p.done, before |-> p.before, touched |-> p.touched]
    BY DEF Failed, Reported, BulkRecords
  <1>4. p \in BulkRecords
    BY <1>1, <1>2, <1>3 DEF BulkRecords
  <1>5. PICK n \in Nat, m \in Nat : n = Len(q.done) /\ m = Len(q.updates)
    BY DEF BulkRecords
  <1>6. Len(p.done) = n + 1 /\ Len(p.updates) = m /\ n < m
    BY <1>1, <1>2, <1>5
  <1>7. Len(p.done) <= Len(p.updates)
    BY <1>5, <1>6
  <1> QED BY <1>1, <1>4, <1>7

\* The record of a request that reported its update done to an item.
LEMMA SuccessIs ==
  ASSUME NEW q \in BulkRecords, Len(q.done) < Len(q.updates), NEW j \in Todos,
         NEW p, p = Succeeded(q, j)
  PROVE  /\ p \in BulkRecords /\ Len(p.done) <= Len(p.updates) /\ p.before = q.before
         /\ p.updates = WithItem(q, j)
         /\ p.done = Append(q.done, TRUE) /\ p.touched = q.touched
  <1>1. PICK n : n = Len(q.done) + 1
    OBVIOUS
  <1>2. q.updates \in Seq(TodoUpdate) /\ n \in DOMAIN q.updates /\ q.updates[n] \in TodoUpdate
    BY <1>1 DEF BulkRecords
  <1>3. PICK u : u = [q.updates[n] EXCEPT !.item = j]
    OBVIOUS
  <1>4. u \in TodoUpdate
    BY <1>2, <1>3 DEF TodoUpdate
  <1>5. PICK new : new = [q.updates EXCEPT ![n] = u]
    OBVIOUS
  <1>6. new \in Seq(TodoUpdate) /\ Len(new) = Len(q.updates) /\ new = WithItem(q, j)
    BY <1>1, <1>2, <1>3, <1>4, <1>5 DEF WithItem
  <1>7. /\ p.updates = new /\ p.before = q.before /\ p.done = Append(q.done, TRUE)
        /\ p.touched = q.touched /\ p.known = q.known
    BY <1>1, <1>3, <1>5 DEF Succeeded, Reported, BulkRecords
  <1>8. p.done \in Seq(BOOLEAN) /\ Len(p.done) = Len(q.done) + 1
    <2>1. PICK k \in Nat \ {0} : k = Len(q.done) + 1 /\ k = Len(p.done) /\ p.done \in Seq(BOOLEAN)
      BY <1>7, OneMoreReport
    <2> QED BY <2>1
  <1>9. p = [updates |-> p.updates, known |-> p.known, done |-> p.done, before |-> p.before, touched |-> p.touched]
    BY DEF Succeeded, Reported, BulkRecords
  <1>10. p \in BulkRecords
    BY <1>6, <1>7, <1>8, <1>9 DEF BulkRecords
  <1>11. PICK k \in Nat, m \in Nat : k = Len(q.done) /\ m = Len(q.updates)
    BY DEF BulkRecords
  <1>12. Len(p.done) = k + 1 /\ Len(p.updates) = m /\ k < m
    BY <1>6, <1>7, <1>8, <1>11
  <1>13. Len(p.done) <= Len(p.updates)
    BY <1>11, <1>12
  <1> QED BY <1>6, <1>7, <1>10, <1>13

\* What a call makes of its item.
LEMMA CarriedOutIs ==
  ASSUME TodoInv, NEW call \in Calls, NEW j \in Targets(call)
  PROVE  \E line \in [BoardColumns -> ColumnValues] :
           /\ CarriedOut(call, j) = [board EXCEPT ![j] = line]
           /\ \A c \in BoardColumns :
                line[c] = IF c \in DOMAIN call.values THEN call.values[c]
                         ELSE IF call.item = NewItem THEN Unset ELSE board[j][c]
           /\ board[j] = NotOnBoard <=> call.item = NewItem
  <1>1. j \in Todos /\ NewItem \notin Todos
    BY TodoAssumption DEF Targets
  <1>2. board[j] = NotOnBoard <=> call.item = NewItem
    BY <1>1 DEF Targets
  <1>3. PICK line : line = [c \in BoardColumns |->
          IF c \in DOMAIN call.values THEN call.values[c] ELSE IF call.item = NewItem THEN Unset ELSE board[j][c]]
    OBVIOUS
  <1>4. board[j] \in BoardRows
    BY <1>1 DEF TodoInv
  <1>5. \A c \in DOMAIN call.values : call.values[c] \in ColumnValues
    BY DEF Calls
  <1>6. line \in [BoardColumns -> ColumnValues]
    BY <1>2, <1>3, <1>4, <1>5 DEF BoardRows, ColumnValues
  <1>7. CarriedOut(call, j) = [board EXCEPT ![j] = line]
    BY <1>1, <1>3 DEF CarriedOut, TodoInv
  <1> QED BY <1>2, <1>3, <1>6, <1>7

\* The call that goes out for an update.
LEMMA CallIs ==
  ASSUME NEW u \in TodoUpdate, u.list \in Configured,
         NEW call, call = [item |-> u.item, list |-> u.list, values |-> ValuesNamed(u)]
  PROVE  call \in Calls
  <1>1. ValuesNamed(u) \in [NamedColumns(u) -> ColumnValues] /\ NamedColumns(u) \in SUBSET BoardColumns
    <2>1. NamedColumns(u) \subseteq BoardColumns
      BY NamedAreTold
    <2>2. \A c \in NamedColumns(u) : ValuesNamed(u)[c] \in ColumnValues
      BY NamedAreTold
    <2> QED BY <2>1, <2>2 DEF ValuesNamed
  <1>2. u.item \in Todos \cup {NewItem}
    BY DEF TodoUpdate
  <1> QED BY <1>1, <1>2 DEF Calls

\* A request that goes on while the boards stay as they are.
LEMMA OwnBulk ==
  ASSUME TodoInv, NEW h \in Handlers, NEW p \in BulkRecords, Len(p.done) <= Len(p.updates),
         bulks' = [bulks EXCEPT ![h] = p], UNCHANGED <<board, columns>>, late' \subseteq Calls, BulkTells(p)
  PROVE  TodoInv'
  <1>1. /\ bulks' \in [Handlers -> BulkRecords] /\ bulks'[h] = p
        /\ \A o \in Handlers \ {h} : bulks'[o] = bulks[o]
    BY DEF TodoInv
  <1>2. \A o \in Handlers : Len(bulks'[o].done) <= Len(bulks'[o].updates) /\ BulkTells(bulks'[o])
    BY <1>1 DEF TodoInv
  <1>3. \A o \in Handlers : BulkTells(bulks[o])'
    BY <1>2 DEF BulkTells
  <1> QED BY <1>1, <1>2, <1>3 DEF TodoInv

\* A request some of whose items somebody else has touched since.
LEMMA TouchedTells ==
  ASSUME TodoInv, NEW o \in Handlers, NEW j \in Todos, NEW p, p = [bulks[o] EXCEPT !.touched = @ \cup {j}],
         \A i \in Todos \ {j} : board'[i] = board[i]
  PROVE  p \in BulkRecords /\ Len(p.done) <= Len(p.updates) /\ BulkTells(p)'
  <1>1. PICK q \in BulkRecords : q = bulks[o] /\ Len(q.done) <= Len(q.updates) /\ BulkTells(q)
    BY DEF TodoInv
  <1>2. p \in BulkRecords /\ p.updates = q.updates /\ p.done = q.done /\ p.before = q.before /\ p.touched = q.touched \cup {j}
    BY <1>1 DEF BulkRecords
  <1>3. ASSUME NEW i \in Todos \ p.touched, p.updates # <<>>, NEW now, now = board'[i] PROVE Tells(p, i, now)
    <2>1. now = board[i] /\ i \in Todos \ q.touched
      BY <1>2, <1>3
    <2>2. Tells(q, i, now)
      BY <1>1, <1>2, <1>3, <2>1 DEF BulkTells
    <2> QED BY <1>2, <2>2, SameReport
  <1> QED BY <1>1, <1>2, <1>3 DEF BulkTells

\* An item that somebody writes to, for all requests but one.
LEMMA Elsewhere ==
  ASSUME TodoInv, NEW j \in Todos, NEW line \in BoardRows, board' = [board EXCEPT ![j] = line], columns' = columns,
         late' \subseteq late, NEW H \in SUBSET Handlers, bulks' \in [Handlers -> BulkRecords],
         \A o \in Handlers \ H : bulks'[o] = [bulks[o] EXCEPT !.touched = @ \cup {j}],
         \A o \in H : Len(bulks'[o].done) <= Len(bulks'[o].updates) /\ BulkTells(bulks[o])'
  PROVE  TodoInv'
  <1>1. board' \in [Todos -> BoardRows] /\ \A i \in Todos \ {j} : board'[i] = board[i]
    BY DEF TodoInv
  <1>2. \A o \in Handlers \ H : Len(bulks'[o].done) <= Len(bulks'[o].updates) /\ BulkTells(bulks[o])'
    <2> SUFFICES ASSUME NEW o \in Handlers \ H, NEW p, p = bulks'[o]
                 PROVE  Len(p.done) <= Len(p.updates) /\ BulkTells(p)'
      OBVIOUS
    <2> QED BY <1>1, TouchedTells
  <1> QED BY <1>1, <1>2 DEF TodoInv

-----------------------------------------------------------------------------
\* A request with something left to ask, and what it has reported.
LEMMA NotAllAsked ==
  ASSUME TodoInv, NEW h \in Handlers, ~AllAsked(bulks[h])
  PROVE  /\ bulks[h] \in BulkRecords /\ Len(bulks[h].done) < Len(bulks[h].updates) /\ bulks[h].updates # <<>>
         /\ UpdateNow(bulks[h]) \in TodoUpdate
         /\ \A i \in Todos \ bulks[h].touched : Tells(bulks[h], i, board[i])
  <1>1. PICK q \in BulkRecords : q = bulks[h] /\ Len(q.done) <= Len(q.updates) /\ BulkTells(q)
    BY DEF TodoInv
  <1>2. q.updates \in Seq(TodoUpdate) /\ q.done \in Seq(BOOLEAN) /\ Len(q.done) # Len(q.updates)
    BY <1>1 DEF BulkRecords, AllAsked
  <1>3. PICK k \in Nat, m \in Nat : k = Len(q.done) /\ m = Len(q.updates)
    BY <1>2
  <1>4. k < m /\ k + 1 \in 1..m
    BY <1>1, <1>2, <1>3
  <1>5. q.updates # <<>> /\ UpdateNow(q) \in TodoUpdate
    BY <1>2, <1>3, <1>4 DEF UpdateNow
  <1> QED BY <1>1, <1>3, <1>4, <1>5 DEF BulkTells

\* A request that reported a failure may have touched nothing.
LEMMA NothingTouched ==
  ASSUME NEW q \in BulkRecords
  PROVE  \E more \in SUBSET Todos : Reported(q, FALSE) = Failed(q, more)
  <1>1. PICK none \in SUBSET Todos : none = {}
    OBVIOUS
  <1>2. [q EXCEPT !.touched = @ \cup none] = q
    BY <1>1 DEF BulkRecords
  <1>3. Reported(q, FALSE) = Failed(q, none)
    BY <1>2 DEF Failed
  <1> QED BY <1>3

\* Whatever fails, what the request reported stays true.
LEMMA FailedOwn ==
  ASSUME TodoInv, NEW h \in Handlers, ~AllAsked(bulks[h]), bulks' = [bulks EXCEPT ![h] = Reported(bulks[h], FALSE)],
         UNCHANGED <<board, columns>>, late' \subseteq Calls
  PROVE  TodoInv'
  <1>1. PICK q \in BulkRecords : /\ q = bulks[h] /\ Len(q.done) < Len(q.updates) /\ q.updates # <<>>
                                 /\ \A i \in Todos \ q.touched : Tells(q, i, board[i])
    BY NotAllAsked
  <1>2. PICK more \in SUBSET Todos : Reported(q, FALSE) = Failed(q, more)
    BY NothingTouched
  <1>3. PICK p : p = Failed(q, more)
    OBVIOUS
  <1>4. /\ p \in BulkRecords /\ Len(p.done) <= Len(p.updates) /\ p.updates = q.updates /\ p.before = q.before
        /\ p.done = Append(q.done, FALSE) /\ p.touched = q.touched \cup more
    <2>1. Len(q.done) < Len(q.updates)
      BY <1>1
    <2> QED BY <1>3, <2>1, FailureIs, ZenonT(60)
  <1>5. BulkTells(p)
    BY <1>1, <1>4, FailedTells DEF BulkTells
  <1> QED BY <1>1, <1>2, <1>3, <1>4, <1>5, OwnBulk

\* A request that begins has reported nothing yet.
LEMMA BeginOK ==
  ASSUME TodoInv, NEW h \in Handlers, NEW updates \in Bulks, BeginBulk(h, updates)
  PROVE  TodoInv'
  <1>1. PICK p : p = [NoBulk EXCEPT !.updates = updates, !.before = board]
    OBVIOUS
  <1>2. PICK known : known = [l \in {} |-> {}]
    OBVIOUS
  <1>3. p = [updates |-> updates, known |-> known, done |-> <<>>, before |-> board, touched |-> {}]
    <2>1. p = [updates |-> updates, known |-> [l \in {} |-> {}], done |-> <<>>, before |-> board, touched |-> {}]
      BY <1>1 DEF NoBulk
    <2> QED BY <1>2, <2>1
  <1>4. updates \in Seq(TodoUpdate) /\ board \in [Todos -> BoardRows]
    BY TodoAssumption DEF TodoInv
  <1>5. known \in UNION {[S -> SUBSET BoardColumns] : S \in SUBSET TodoLists}
    <2>1. known \in [{} -> SUBSET BoardColumns] /\ {} \in SUBSET TodoLists
      BY <1>2
    <2> QED BY <2>1
  <1>6. p \in BulkRecords
    BY <1>3, <1>4, <1>5 DEF BulkRecords
  <1>7. Len(p.done) <= Len(p.updates)
    <2>1. Len(p.done) = 0 /\ Len(p.updates) \in Nat
      BY <1>3, <1>4
    <2> QED BY <2>1
  <1>8. BulkTells(p)
    <2>1. \A i : DoneTo(p, i) = {}
      BY <1>3 DEF DoneTo
    <2>2. \A i, c : Telling(p, i, c) = {} /\ WasOf(p, i) = p.before[i]
      BY <2>1 DEF Telling, WasOf
    <2> QED BY <1>3, <2>1, <2>2 DEF BulkTells, Tells
  <1> QED BY <1>1, <1>6, <1>7, <1>8, OwnBulk DEF BeginBulk, TodoInv

\* Reading the columns of a board changes nothing that was reported.
LEMMA ReadColumnsOK ==
  ASSUME TodoInv, NEW h \in Handlers, NEW answered \in BOOLEAN, ReadColumns(h, answered)
  PROVE  TodoInv'
  <1>1. ~AllAsked(bulks[h]) /\ UNCHANGED <<board, columns, late>> /\ late' \subseteq Calls
    BY DEF ReadColumns, TodoInv
  <1>2. CASE answered = FALSE
    BY <1>1, <1>2, FailedOwn DEF ReadColumns
  <1>3. CASE answered = TRUE
    <2>1. PICK q \in BulkRecords : /\ q = bulks[h] /\ Len(q.done) < Len(q.updates) /\ q.updates # <<>>
                                   /\ \A i \in Todos \ q.touched : Tells(q, i, board[i])
      BY <1>1, NotAllAsked
    <2>2. PICK l : l = UpdateNow(q).list /\ l \in Configured
      BY <2>1 DEF ReadColumns
    <2>3. PICK known : known = [m \in DOMAIN q.known \cup {l} |-> IF m = l THEN columns[l] ELSE q.known[m]]
      OBVIOUS
    <2>4. PICK p : p = [q EXCEPT !.known = known]
      OBVIOUS
    <2>5. bulks' = [bulks EXCEPT ![h] = p]
      BY <1>3, <2>1, <2>2, <2>3, <2>4 DEF ReadColumns
    <2>6. known \in UNION {[S -> SUBSET BoardColumns] : S \in SUBSET TodoLists}
      <3>1. PICK S \in SUBSET TodoLists : q.known \in [S -> SUBSET BoardColumns]
        BY DEF BulkRecords
      <3>2. l \in TodoLists /\ columns[l] \in SUBSET BoardColumns
        BY <2>2, TodoAssumption DEF TodoInv
      <3>3. known \in [S \cup {l} -> SUBSET BoardColumns] /\ S \cup {l} \in SUBSET TodoLists
        BY <2>3, <3>1, <3>2
      <3> QED BY <3>3
    <2>7. /\ p \in BulkRecords /\ p.updates = q.updates /\ p.done = q.done /\ p.before = q.before
          /\ p.touched = q.touched
      BY <2>4, <2>6 DEF BulkRecords
    <2>8. BulkTells(p)
      BY <2>1, <2>7, SameReport DEF BulkTells
    <2>9. Len(p.done) <= Len(p.updates)
      <3>1. Len(q.done) \in Nat /\ Len(q.updates) \in Nat
        BY DEF BulkRecords
      <3> QED BY <2>1, <2>7, <3>1
    <2> QED BY <1>1, <2>5, <2>7, <2>8, <2>9, OwnBulk
  <1> QED BY <1>2, <1>3

\* A call that took effect, of a request that has its answer or not.
LEMMA TookEffect ==
  ASSUME TodoInv, NEW h \in Handlers, NEW p \in BulkRecords, Len(p.done) <= Len(p.updates),
         NEW j \in Todos, NEW line \in BoardRows, board' = [board EXCEPT ![j] = line],
         columns' = columns, late' = late,
         bulks' = [AlsoTouched(h, j) EXCEPT ![h] = p],
         \A i \in Todos \ (p.touched \cup {j}) : Tells(p, i, board[i]),
         j \notin p.touched => Tells(p, j, line)
  PROVE  TodoInv'
  <1>1. \A o \in Handlers \ {h} : bulks'[o] = [bulks[o] EXCEPT !.touched = @ \cup {j}]
    BY DEF AlsoTouched
  <1>2. bulks'[h] = p
    BY DEF AlsoTouched
  <1>3. bulks' \in [Handlers -> BulkRecords]
    <2>1. \A o \in Handlers \ {h} : [bulks[o] EXCEPT !.touched = @ \cup {j}] \in BulkRecords
      BY DEF TodoInv, BulkRecords
    <2> QED BY <2>1 DEF AlsoTouched
  <1>4. BulkTells(bulks[h])'
    <2> SUFFICES ASSUME NEW i \in Todos \ p.touched, NEW now, now = board'[i] PROVE Tells(p, i, now)
      BY <1>2 DEF BulkTells
    <2>1. now = IF i = j THEN line ELSE board[i]
      BY DEF TodoInv
    <2>2. CASE i = j
      BY <2>1, <2>2
    <2>3. CASE i # j
      BY <2>1, <2>3
    <2> QED BY <2>2, <2>3
  <1>5. PICK H \in SUBSET Handlers : H = {h}
    OBVIOUS
  <1>6. \A o \in H : Len(bulks'[o].done) <= Len(bulks'[o].updates) /\ BulkTells(bulks[o])'
    BY <1>2, <1>4, <1>5
  <1> QED BY <1>1, <1>3, <1>5, <1>6, Elsewhere

\* A call that was carried out and whose answer is lost: nothing is reported of
\* the item it wrote to.
LEMMA LostOwn ==
  ASSUME TodoInv, NEW h \in Handlers, NEW i \in Todos, NEW line \in BoardRows, ~AllAsked(bulks[h]),
         board' = [board EXCEPT ![i] = line], columns' = columns, late' = late,
         bulks' = [AlsoTouched(h, i) EXCEPT ![h] = Failed(bulks[h], {i})]
  PROVE  TodoInv'
  <1>1. PICK q \in BulkRecords : q = bulks[h]
    BY NotAllAsked
  <1>2. /\ Len(q.done) < Len(q.updates)
        /\ \A k \in Todos \ q.touched : Tells(q, k, board[k])
    BY <1>1, NotAllAsked
  <1>3. PICK more \in SUBSET Todos : more = {i}
    OBVIOUS
  <1>4. PICK p : p = Failed(q, more)
    OBVIOUS
  <1>5. /\ p \in BulkRecords /\ Len(p.done) <= Len(p.updates) /\ p.updates = q.updates /\ p.before = q.before
        /\ p.done = Append(q.done, FALSE) /\ p.touched = q.touched \cup more
    BY <1>2, <1>4, FailureIs, ZenonT(60)
  <1>6. i \in p.touched /\ \A k \in Todos \ p.touched : Tells(p, k, board[k])
    <2>1. i \in p.touched /\ \A k \in Todos \ p.touched : Tells(q, k, board[k])
      BY <1>2, <1>3, <1>5
    <2> QED BY <1>5, <2>1, FailedTells
  <1>7. bulks' = [AlsoTouched(h, i) EXCEPT ![h] = p]
    BY <1>1, <1>3, <1>4
  <1> QED BY <1>5, <1>6, <1>7, TookEffect

\* Of an update that goes out, what its call may do and what is reported of it.
LEMMA SendOK ==
  ASSUME TodoInv, NEW h \in Handlers, NEW answer \in {"done", "lost", "still out", "refused"}, Send(h, answer)
  PROVE  TodoInv'
  <1>1. ~AllAsked(bulks[h]) /\ UpdateNow(bulks[h]).list \in Configured /\ columns' = columns
    BY DEF Send
  <1>2. PICK q \in BulkRecords : q = bulks[h]
    BY <1>1, NotAllAsked
  <1>3. /\ Len(q.done) < Len(q.updates) /\ UpdateNow(q) \in TodoUpdate
        /\ \A i \in Todos \ q.touched : Tells(q, i, board[i])
    BY <1>1, <1>2, NotAllAsked
  <1>4. PICK u \in TodoUpdate : u = UpdateNow(q)
    BY <1>3
  <1>5. PICK call : call = [item |-> u.item, list |-> u.list, values |-> ValuesNamed(u)]
    OBVIOUS
  <1>6. call \in Calls
    BY <1>1, <1>2, <1>4, <1>5, CallIs
  <1>7. call = [item |-> UpdateNow(bulks[h]).item, list |-> UpdateNow(bulks[h]).list, values |-> ValuesSent(bulks[h])]
    BY <1>2, <1>4, <1>5 DEF ValuesSent
  <1>8. CASE answer \in {"still out", "refused"}
    <2>1. late \subseteq Calls
      BY DEF TodoInv
    <2>2. /\ bulks' = [bulks EXCEPT ![h] = Reported(bulks[h], FALSE)] /\ UNCHANGED <<board, columns>>
          /\ late' \subseteq Calls
      BY <1>6, <1>7, <1>8, <2>1 DEF Send
    <2> QED BY <1>1, <2>2, FailedOwn
  <1>9. CASE answer \in {"done", "lost"}
    <2>1. PICK i \in Targets(call) :
            /\ board' = CarriedOut(call, i) /\ UNCHANGED late
            /\ answer = "done" => bulks' = [AlsoTouched(h, i) EXCEPT ![h] = Succeeded(bulks[h], i)]
            /\ answer = "lost" => bulks' = [AlsoTouched(h, i) EXCEPT ![h] = Failed(bulks[h], {i})]
      BY <1>7, <1>9 DEF Send, Succeeded, Failed
    <2>2. PICK line \in [BoardColumns -> ColumnValues] :
            /\ CarriedOut(call, i) = [board EXCEPT ![i] = line]
            /\ \A c \in BoardColumns :
                 line[c] = IF c \in DOMAIN call.values THEN call.values[c]
                          ELSE IF call.item = NewItem THEN Unset ELSE board[i][c]
            /\ board[i] = NotOnBoard <=> call.item = NewItem
      BY <1>6, CarriedOutIs
    <2>3. i \in Todos /\ line \in BoardRows /\ board[i] \in BoardRows
      BY DEF Targets, BoardRows, TodoInv
    <2>4. board' = [board EXCEPT ![i] = line] /\ columns' = columns /\ late' = late
      BY <1>1, <2>1, <2>2
    <2>5. i \in Todos /\ line \in BoardRows
      BY <2>3
    <2>6. CASE answer = "lost"
      <3>1. bulks' = [AlsoTouched(h, i) EXCEPT ![h] = Failed(bulks[h], {i})]
        BY <2>1, <2>6
      <3> QED BY <1>1, <2>3, <2>4, <3>1, LostOwn
    <2>7. CASE answer = "done"
      <3>1. PICK p : p = Succeeded(q, i)
        OBVIOUS
      <3>2. /\ p \in BulkRecords /\ Len(p.done) <= Len(p.updates) /\ p.before = q.before
            /\ p.updates = WithItem(q, i)
            /\ p.done = Append(q.done, TRUE) /\ p.touched = q.touched
        <4>1. Len(q.done) < Len(q.updates)
          BY <1>3
        <4>2. i \in Todos
          BY <2>5
        <4> QED BY <3>1, <4>1, <4>2, SuccessIs
      <3>3. u = q.updates[Len(q.done) + 1]
        BY <1>4 DEF UpdateNow
      <3>4. PICK was \in BoardRows : was = board[i]
        BY <2>3
      <3>5. Writes(u, was, line)
        BY <1>5, <2>2, <3>4, NamedAreTold DEF Writes
      <3>6. i \notin p.touched => Tells(p, i, line)
        <4>1. SUFFICES ASSUME i \notin p.touched PROVE Tells(p, i, line)
          OBVIOUS
        <4>2. i \in Todos /\ Tells(q, i, was) /\ Len(q.done) < Len(q.updates)
          BY <1>3, <2>5, <3>2, <3>4, <4>1
        <4> QED BY <3>2, <3>3, <3>5, <4>2, DoneThere
      <3>7. ASSUME NEW k \in Todos \ (p.touched \cup {i}) PROVE Tells(p, k, board[k])
        <4>1. Tells(q, k, board[k]) /\ Len(q.done) < Len(q.updates) /\ k \in Todos \ {i}
          BY <1>3, <3>2
        <4> QED BY <2>5, <3>2, <4>1, DoneElsewhere
      <3>8. bulks' = [AlsoTouched(h, i) EXCEPT ![h] = p]
        BY <1>2, <2>1, <2>7, <3>1
      <3> QED BY <2>4, <2>5, <3>2, <3>6, <3>7, <3>8, TookEffect
    <2> QED BY <1>9, <2>6, <2>7
  <1> QED BY <1>8, <1>9

\* Whatever other hands write to an item, every request has been told.
LEMMA OtherHands ==
  ASSUME TodoInv, NEW j \in Todos, NEW line \in BoardRows, board' = [board EXCEPT ![j] = line], columns' = columns,
         late' \subseteq late, bulks' = [o \in Handlers |-> [bulks[o] EXCEPT !.touched = @ \cup {j}]]
  PROVE  TodoInv'
  <1>1. \A o \in Handlers : bulks'[o] = [bulks[o] EXCEPT !.touched = @ \cup {j}] /\ bulks'[o] \in BulkRecords
    BY DEF TodoInv, BulkRecords
  <1>2. bulks' \in [Handlers -> BulkRecords]
    BY <1>1
  <1>3. PICK H \in SUBSET Handlers : H = {}
    OBVIOUS
  <1> QED BY <1>1, <1>2, <1>3, Elsewhere

\* Every step at the boards keeps the invariant.
LEMMA TodoInductive == TodoInv /\ [TodoNext]_todoVars => TodoInv'
  <1> SUFFICES ASSUME TodoInv, [TodoNext]_todoVars PROVE TodoInv'
    OBVIOUS
  <1>1. ASSUME NEW h \in Handlers, RefuseUpdate(h) PROVE TodoInv'
    <2>1. late' \subseteq Calls
      BY <1>1 DEF RefuseUpdate, TodoInv
    <2> QED BY <1>1, <2>1, FailedOwn DEF RefuseUpdate
  <1>2. ASSUME NEW call \in late, NEW i \in Todos, LateCall(call, i) PROVE TodoInv'
    <2>1. call \in Calls /\ i \in Targets(call)
      BY <1>2 DEF LateCall, TodoInv
    <2>2. PICK line \in [BoardColumns -> ColumnValues] : CarriedOut(call, i) = [board EXCEPT ![i] = line]
      BY <2>1, CarriedOutIs
    <2>3. line \in BoardRows
      BY DEF BoardRows
    <2> QED BY <1>2, <2>2, <2>3, OtherHands DEF LateCall
  <1>3. ASSUME NEW i \in Todos, NEW to \in {NotOnBoard, [board[i] EXCEPT !["status"] = "done"]}, EditedByHand(i, to)
        PROVE  TodoInv'
    <2>1. to \in BoardRows
      BY <1>3 DEF EditedByHand, TodoInv, BoardRows, BoardColumns, ColumnValues
    <2> QED BY <1>3, <2>1, OtherHands DEF EditedByHand
  <1>4. ASSUME NEW l \in TodoLists, NEW c \in BoardColumns, ColumnsChanged(l, BoardColumns \ {c}) PROVE TodoInv'
    BY <1>4 DEF ColumnsChanged, TodoInv, BulkTells
  <1>5. CASE UNCHANGED todoVars
    BY <1>5 DEF todoVars, TodoInv, BulkTells
  <1> QED BY <1>1, <1>2, <1>3, <1>4, <1>5, BeginOK, ReadColumnsOK, SendOK DEF TodoNext

\* Whatever Monday, other requests and other hands do meanwhile, and in whatever
\* order, a report is true of every item nobody else touched.
THEOREM ReportsAreTrue == TodoSpec => []ReportTellsBoard
  <1>1. TodoInv /\ [TodoNext]_<<todoVars, left>> => TodoInv'
    <2>1. UNCHANGED <<todoVars, left>> => UNCHANGED todoVars
      OBVIOUS
    <2> QED BY <2>1, TodoInductive
  <1> QED BY <1>1, TodoStarts, BoardsAreTold, PTL DEF TodoSpec

\* The boards, the requests and the calls keep their shape.
THEOREM BoardsKept == TodoSpec => []TodoTypeOK
  <1>1. TodoInv /\ [TodoNext]_<<todoVars, left>> => TodoInv'
    <2>1. UNCHANGED <<todoVars, left>> => UNCHANGED todoVars
      OBVIOUS
    <2> QED BY <2>1, TodoInductive
  <1> QED BY <1>1, TodoStarts, TodoTyped, PTL DEF TodoSpec
=============================================================================
