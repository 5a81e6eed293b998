------------------------ MODULE AssistantWholeProofs ------------------------
(* Proofs about Assistant: what AssistantProofs and AssistantSessionsProofs   *)
(* show of each component alone holds of all of them beside each other.  A    *)
(* step of one leaves alone what the others keep; what it may change is what  *)
(* is left of the budget, and the rules, which learning and recommending      *)
(* share.                                                                     *)
EXTENDS Assistant, AssistantProofs, AssistantSessionsProofs

WholeInv ==
  AssistantInv /\ GuidedInv /\ AdviceInv /\ RulebookInv /\ EvidenceInv
  /\ DocumentInv /\ TodoInv

-----------------------------------------------------------------------------
(* The budget                                                                 *)

\* A step spends one of a kind, or nothing.
Spends == left' = left \/ \E kind \in Kinds : Spend(kind)

\* Reviews, rules, scans, proposals and boards spend so.
LEMMA EachSpends ==
  ASSUME GuidedNext \/ LearnedNext \/ AdviceNext \/ RulebookNext \/ EvidenceNext \/ DocumentNext \/ TodoNext
  PROVE  Spends
  <1>1. CASE GuidedNext
    BY <1>1, GuidedAssumption
       DEF GuidedNext, ReviseReviewPlaybook, StartReview, RecordEmailReview, CompletePhase, Spends
  <1>2. CASE LearnedNext
    BY <1>2, LearningAssumption
       DEF LearnedNext, GrantsEdited, LoadLesson, LoadRule, FinishLesson, FinishMove, Spends
  <1>3. CASE AdviceNext
    BY <1>3, RecommendationAssumption
       DEF AdviceNext, FillRows, ShowReview, LoadAnswer, LoadAssessment, FinishAnswer, Spends
  <1>4. CASE RulebookNext
    BY <1>4, RulebookAssumption
       DEF RulebookNext, LoadAmend, LoadTest, LoadMove, LoadWrite, Finished, FinishAmend, FinishWrite,
           FinishStep, Spends
  <1>5. CASE EvidenceNext
    BY <1>5, EvidenceAssumption
       DEF EvidenceNext, BeginScan, ListLabel, ListedAll, ReadStale, EndScan, FailScan, FetchThread, Recheck,
           Restarted, MailMoves, Spends
  <1>6. CASE TodoNext
    BY <1>6, TodoAssumption
       DEF TodoNext, BeginBulk, RefuseUpdate, ReadColumns, Send, LateCall, EditedByHand, ColumnsChanged, Spends
  <1>7. CASE DocumentNext
    BY <1>7, DocumentAssumption
       DEF DocumentNext, ProposeOne, ProposeMore, ProposeChanges, AgreeChanges, Spends
  <1> QED BY <1>1, <1>2, <1>3, <1>4, <1>5, <1>6, <1>7

\* So the budget stays one.
LEMMA SpendsKept == BudgetTypeOK /\ Spends => BudgetTypeOK'
  BY DEF BudgetTypeOK, Spends, Spend

-----------------------------------------------------------------------------
(* One component beside the others                                            *)

\* Sessions and playbook, while the others spend.
LEMMA AssistantBeside ==
  ASSUME AssistantInv, [AssistantNext]_assistantVars, ~AssistantNext => BudgetTypeOK'
  PROVE  AssistantInv'
  <1>1. CASE AssistantNext
    BY <1>1, AssistantInductive
  <1>2. CASE UNCHANGED assistantVars /\ BudgetTypeOK'
    BY <1>2, AssistantUntouched
  <1> QED BY <1>1, <1>2

\* A step of all of them is a step of each, or leaves it alone.
LEMMA EachBeside ==
  ASSUME [WholeNext]_wholeVars
  PROVE  /\ [AssistantNext]_assistantVars /\ [GuidedNext]_guidedVars
         /\ [AdviceStep]_<<learnedVars, adviceVars>> /\ [RulebookNext]_rulebookVars
         /\ [EvidenceNext]_evidenceVars /\ [DocumentNext]_documentVars /\ [TodoNext]_todoVars
         /\ AssistantNext \/ Spends
  <1>1. CASE UNCHANGED wholeVars
    BY <1>1 DEF wholeVars, Spends
  <1>2. CASE WholeNext
    BY <1>2, EachSpends DEF WholeNext, AdviceStep
  <1> QED BY <1>1, <1>2

\* Whatever one does, all invariants stand.
LEMMA WholeInductive == WholeInv /\ [WholeNext]_wholeVars => WholeInv'
  <1> SUFFICES ASSUME WholeInv, [WholeNext]_wholeVars PROVE WholeInv'
    OBVIOUS
  <1>1. BudgetTypeOK
    BY DEF WholeInv, AssistantInv, IInv, PlaybookTypeOK
  <1>2. ~AssistantNext => BudgetTypeOK'
    BY <1>1, EachBeside, SpendsKept
  <1>3. AssistantInv'
    BY <1>2, EachBeside, AssistantBeside DEF WholeInv
  <1>4. GuidedInv' /\ RulebookInv' /\ TodoInv'
    BY EachBeside, GuidedInductive, RulebookInductive, TodoInductive DEF WholeInv
  <1>5. AdviceInv' /\ EvidenceInv'
    BY EachBeside, AdviceInductive, EvidenceInductive DEF WholeInv
  <1>6. DocumentInv'
    BY EachBeside, DocumentSteps, DocumentStays DEF WholeInv
  <1> QED BY <1>3, <1>4, <1>5, <1>6 DEF WholeInv

\* They stand at first.
LEMMA WholeStarts == WholeInit => WholeInv
  BY AssistantStarts, GuidedStarts, AdviceStarts, RulebookStarts, EvidenceStarts, DocumentStarts,
     TodoStarts
     DEF WholeInit, WholeInv

-----------------------------------------------------------------------------
(* What the run assistant checks of all of them                               *)

\* Everything keeps its shape.
THEOREM WholeTyped == WholeSpec => []TypeOK
  <1>1. WholeInv => TypeOK
    BY AdviceTyped, GuidedTyped, RulebookTyped, TypeFollows, TodoTyped, DocumentInvShows
       DEF WholeInv, AssistantInv, SessionInv, AdviceInv, LearnedInv, TypeOK
  <1> QED BY <1>1, WholeStarts, WholeInductive, PTL DEF WholeSpec

\* With sessions, reviews, rules, answers, scans and boards at work at once, in
\* any order: a playbook stands and was agreed to, one session is under way and a
\* completed one has nothing left, the logs tell the reviews and their results are
\* whole, learned rules stand as they were granted and written ones as they were
\* agreed to, proposals reorder what they say, and reports are true of the boards:
\* each but for the exceptions its property names.
THEOREM WholeStands ==
  WholeSpec => [](/\ PlaybookStands /\ SessionStands /\ CompletedHasNothingLeft
                  /\ LogTellsReview /\ ResultIsWhole /\ RulesStandAsGranted
                  /\ EffectiveAsAgreed /\ ReordersAsAsked /\ ReportTellsBoard)
  <1>1. AssistantInv => PlaybookStands
    BY DEF AssistantInv, IInv
  <1>2. WholeInv => /\ PlaybookStands /\ SessionStands /\ CompletedHasNothingLeft
                    /\ LogTellsReview /\ ResultIsWhole /\ RulesStandAsGranted
                    /\ EffectiveAsAgreed /\ ReordersAsAsked /\ ReportTellsBoard
    BY <1>1, SessionsStandNow, NothingLeftNow, LogTells, ResultsAreWhole, RulesAreJustified,
       EffectiveIsAgreed, DocumentInvShows, BoardsAreTold DEF WholeInv, AdviceInv
  <1> QED BY <1>2, WholeStarts, WholeInductive, PTL DEF WholeSpec

\* Nor does any step among them undo an agreement to the playbook.
THEOREM WholeUndoesNothing == WholeSpec => NothingUndone
  <1> DEFINE ReplacesItsBase == \A n \in DOMAIN revisions :
       /\ revisions[n].status = "proposed" /\ revisions'[n].status = "active" /\ ~crossed'
       => revisions[n].base = latest
  <1>1. WholeInv /\ [WholeNext]_wholeVars => [ReplacesItsBase]_playbookVars
    <2> SUFFICES ASSUME WholeInv, [WholeNext]_wholeVars PROVE [ReplacesItsBase]_playbookVars
      OBVIOUS
    <2>1. CASE AssistantNext
      BY <2>1, SessionsUndo DEF WholeInv
    <2>2. CASE UNCHANGED assistantVars
      BY <2>2 DEF assistantVars
    <2> QED BY <2>1, <2>2, EachBeside
  <1> QED BY <1>1, WholeStarts, WholeInductive, PTL DEF WholeSpec, NothingUndone

\* Nor approve what nobody asked for, but for a recommendation replaced since it
\* was last shown and rows over which two requests wrote.
THEOREM WholeAsks == WholeSpec => NothingUnasked
  <1>1. WholeInv /\ [WholeNext]_wholeVars => [\A r \in Rows : ApprovedAsAsked(r)]_<<adviceVars, learnedVars>>
    BY EachBeside, AdviceInductive DEF WholeInv
  <1> QED BY <1>1, WholeStarts, WholeInductive, PTL DEF WholeSpec, NothingUnasked, ApprovedAsAsked

\* Nor prune mail that was within reach throughout a scan, nor keep in the inbox
\* what a whole scan that ran by itself never saw there.
THEOREM WholeScans == WholeSpec => PruneSparesPresent /\ LeavesWithTheInbox
  <1>1. WholeInv /\ [WholeNext]_wholeVars => [Spared]_evidenceVars
    BY EachBeside, EvidenceInductive DEF WholeInv
  <1>2. WholeInv /\ [WholeNext]_wholeVars => [LeftWithInbox]_evidenceVars
    BY EachBeside, EvidenceInductive DEF WholeInv
  <1> QED BY <1>1, <1>2, WholeStarts, WholeInductive, PTL
          DEF WholeSpec, PruneSparesPresent, LeavesWithTheInbox, Spared, LeftWithInbox
=============================================================================
