----------------------------- MODULE Assistant -----------------------------
(* The assistant: its playbook and the sessions that run it, the guided       *)
(* review, the rules it learns and what they recommend, the rules it is given,*)
(* the mail it reads and the boards it writes to, beside each other in one    *)
(* process.  Each step is a step of one of them; what they share is the       *)
(* requests in flight and, between learning and recommending, the rules.  The *)
(* budget says how much of each a behaviour has.                              *)
EXTENDS AssistantSessions, GuidedReview, Recommendations, Rulebook, EvidenceSync, PlaybookDocument,
        TodoBoards

wholeVars ==
  <<assistantVars, guidedVars, learnedVars, adviceVars, rulebookVars, evidenceVars, documentVars, todoVars,
    left>>

WholeInit ==
  /\ AssistantInit /\ GuidedInit /\ LearnedInit /\ AdviceInit /\ RulebookInit
  /\ EvidenceInit /\ DocumentInit /\ TodoInit /\ BudgetInit

WholeNext ==
  \/ /\ AssistantNext
     /\ UNCHANGED <<guidedVars, learnedVars, adviceVars, rulebookVars, evidenceVars, documentVars, todoVars>>
  \/ /\ GuidedNext
     /\ UNCHANGED <<assistantVars, learnedVars, adviceVars, rulebookVars, evidenceVars, documentVars, todoVars>>
  \/ /\ LearnedNext
     /\ UNCHANGED <<assistantVars, guidedVars, adviceVars, rulebookVars, evidenceVars, documentVars, todoVars>>
  \/ /\ AdviceNext
     /\ UNCHANGED <<assistantVars, guidedVars, rulebookVars, evidenceVars, documentVars, todoVars>>
  \/ /\ RulebookNext
     /\ UNCHANGED <<assistantVars, guidedVars, learnedVars, adviceVars, evidenceVars, documentVars, todoVars>>
  \/ /\ EvidenceNext
     /\ UNCHANGED <<assistantVars, guidedVars, learnedVars, adviceVars, rulebookVars, documentVars, todoVars>>
  \/ /\ DocumentNext
     /\ UNCHANGED <<assistantVars, guidedVars, learnedVars, adviceVars, rulebookVars, evidenceVars, todoVars>>
  \/ /\ TodoNext
     /\ UNCHANGED <<assistantVars, guidedVars, learnedVars, adviceVars, rulebookVars, evidenceVars, documentVars>>

WholeSpec == WholeInit /\ [][WholeNext]_wholeVars

-----------------------------------------------------------------------------
\* Everything the assistant keeps has the shape its tables and the code give it.
TypeOK ==
  /\ AssistantTypeOK /\ GuidedTypeOK /\ LearnedTypeOK /\ AdviceTypeOK
  /\ RulebookTypeOK /\ EvidenceTypeOK /\ DocumentTypeOK /\ TodoTypeOK
=============================================================================
