-------------------------- MODULE Recommendations --------------------------
(* What a review recommends for the threads of one capability, how a model's  *)
(* reading of a thread changes that, and what answers approve (evaluate_policy *)
(* to decide_group in adminos/domain/review.py, decide_item, decide_items and *)
(* assess_item in api/review.py).                                             *)
(*                                                                            *)
(* Learned rules come before the shipped ones, and only a promoted one may    *)
(* approve.  The endpoints run in threads: a request loads its rows and       *)
(* checks them in one step and writes, in another, the columns that differ    *)
(* from what it loaded.  An override is also a lesson, of which LearnedRules  *)
(* says what becomes.  Preparing and executing what is approved belongs to    *)
(* ActionScopes, and the state of a review to ReviewRuns.                     *)
EXTENDS LearnedRules, FiniteSets, SequencesExt

CONSTANTS
  Rows,    \* threads that come before the person
  Folders, \* the capability's destinations
  Says,    \* Says[l]: the threads a lesson matches, and what it does with them
  Policy   \* the shipped rules in their order, of the same form

NoFolder == "none"
Intents == [action : {"gmail_archive"}, folder : {NoFolder}] \cup [action : {"gmail_move"}, folder : Folders]

ASSUME RecommendationAssumption ==
  /\ {"fills", "answers", "assessments"} \subseteq Kinds /\ NoFolder \notin Folders
  /\ IsFiniteSet(Lessons)
  /\ Says \in [Lessons -> [rows : SUBSET Rows, advice : Intents]]
  /\ Policy \in Seq([rows : SUBSET Rows, advice : Intents])

VARIABLES
  row,       \* row[r]: the review's row of a thread
  shown,     \* shown[r]: the recommendation the person last read
  answering, \* answering[h]: a request over some rows, as it loaded them
  mixed      \* rows a request wrote to that were no longer as it had loaded them

adviceVars == <<row, shown, answering, mixed>>

NoAdvice == [action |-> "needs_review", folder |-> NoFolder]
Unapproved == [action |-> "none", folder |-> NoFolder]
NotInReview == [state |-> "absent", advice |-> NoAdvice, approved |-> Unapproved]
NoRows[r \in {}] == NotInReview
NotAnswering == [loaded |-> NoRows, wanted |-> NoRows, asked |-> NoRows, unseen |-> {}, teaches |-> {}]

AdviceInit ==
  /\ row = [r \in Rows |-> NotInReview] /\ shown = [r \in Rows |-> NoAdvice]
  /\ answering = [h \in Handlers |-> NotAnswering] /\ mixed = {}

-----------------------------------------------------------------------------
(* The policy                                                                 *)

FirstOf(indices) == CHOOSE i \in indices : \A j \in indices : i <= j
LearnedFor(r) == {i \in DOMAIN taught : Advises(taught[i]) /\ r \in Says[taught[i].lesson].rows}
ShippedFor(r) == {i \in DOMAIN Policy : r \in Policy[i].rows}

\* evaluate_policy: the first rule that matches, learned ones before shipped ones.
Evaluated(r) ==
  IF LearnedFor(r) # {} THEN Says[taught[FirstOf(LearnedFor(r))].lesson].advice
  ELSE IF ShippedFor(r) # {} THEN Policy[FirstOf(ShippedFor(r))].advice
  ELSE NoAdvice

\* Mutant: any promoted rule that matches approves what the first one recommends
ApprovesBesides(r) == \E i \in LearnedFor(r) : ActsUnasked(taught[i])

\* The rule that was followed was promoted to act unasked.
ApprovesItself(r) == LearnedFor(r) # {} /\ ActsUnasked(taught[FirstOf(LearnedFor(r))])

\* populate_group and authorise_by_rule, for threads the review has no row of.
FillRows(rs) ==
  /\ Spend("fills") /\ rs # {} /\ \A r \in rs : row[r].state = "absent"
  /\ row' = [r \in Rows |->
       IF r \notin rs THEN row[r]
       ELSE IF ApprovesItself(r) THEN [state |-> "approved", advice |-> Evaluated(r), approved |-> Evaluated(r)]
       ELSE [state |-> "pending", advice |-> Evaluated(r), approved |-> Unapproved]]
  /\ UNCHANGED <<shown, answering, mixed, learnedVars>>

\* A response shows the person what each row recommends.
ShowReview ==
  /\ shown' = [r \in Rows |-> row[r].advice] /\ shown' # shown
  /\ UNCHANGED <<row, answering, mixed, left, learnedVars>>

-----------------------------------------------------------------------------
(* Requests over rows                                                         *)

Permitted(action) == action \in {"gmail_archive", "gmail_move"} /\ "permit" \in grants

\* resolve_action with recommended_params: an approval takes the action the row
\* recommends, and its folder unless one is named; an override what it names.
Chosen(advice, kind, given) ==
  IF kind = "approve"
  THEN [advice EXCEPT !.folder = IF given.folder = NoFolder THEN @ ELSE given.folder]
  ELSE given

\* check_decision and check_destination, on a row as it was loaded.
Answerable(r, kind, given) ==
  LET chosen == Chosen(row[r].advice, kind, given) IN
  /\ row[r].state \notin {"absent", "dismissed"}
  /\ kind \in {"approve", "override"} =>
       /\ Permitted(chosen.action)
       /\ chosen.action = "gmail_move" => chosen.folder \in Folders

\* record_decision: what the row is to become.
DecidedAs(r, kind, given) ==
  CASE kind \in {"approve", "override"} ->
         [row[r] EXCEPT !.state = "approved", !.approved = Chosen(row[r].advice, kind, given)]
    [] kind = "defer" -> [row[r] EXCEPT !.state = "deferred", !.approved = Unapproved]
    [] kind = "dismiss" -> [row[r] EXCEPT !.state = "dismissed", !.approved = Unapproved]

\* observe_candidate: the rule an override would imply, unless it is there.
Implied(rs, kind, given) ==
  {l \in Lessons :
     /\ kind = "override" /\ LearningAllowed /\ Says[l].advice = given
     /\ rs \cap Says[l].rows # {} /\ Equivalent(l) = 0}

\* decide_item, and decide_group over several rows: all of them or none.
LoadAnswer(h, rs, kind, given) ==
  /\ Spend("answers") /\ answering[h] = NotAnswering
  /\ rs # {} /\ \A r \in rs : Answerable(r, kind, given)
  /\ answering' = [answering EXCEPT ![h] =
       [loaded |-> [r \in rs |-> row[r]],
        wanted |-> [r \in rs |-> DecidedAs(r, kind, given)],
        asked  |-> [r \in rs |-> IF kind = "override" THEN given ELSE Chosen(shown[r], "approve", given)],
        unseen |-> {r \in rs : kind = "approve" /\ shown[r] # row[r].advice},
        teaches |-> Implied(rs, kind, given)]]
  /\ UNCHANGED <<row, shown, mixed, learnedVars>>

\* record_assessment: a model's suggestion takes the place of the recommendation
\* of a pending row if it is sure enough; it names no folder.
LoadAssessment(h, r, action, sure) ==
  /\ Spend("assessments") /\ answering[h] = NotAnswering
  /\ row[r].state # "absent"
  /\ action = "needs_review" \/ Permitted(action)
  /\ answering' = [answering EXCEPT ![h] =
       [NotAnswering EXCEPT
          !.loaded = [q \in {r} |-> row[q]],
          !.wanted = [q \in {r} |-> IF row[q].state = "pending" /\ sure
                                    THEN [row[q] EXCEPT !.advice.action = action] ELSE row[q]]]]
  /\ UNCHANGED <<row, shown, mixed, learnedVars>>

\* Columns that differ from what was loaded go over the row as it is now.
WrittenOver(now, loaded, wanted) ==
  LET column(is, was, to) == IF was = to THEN is ELSE to IN
  [state |-> column(now.state, loaded.state, wanted.state),
   advice |-> [now.advice EXCEPT !.action = column(@, loaded.advice.action, wanted.advice.action)],
   approved |-> [action |-> column(now.approved.action, loaded.approved.action, wanted.approved.action),
                 folder |-> column(now.approved.folder, loaded.approved.folder, wanted.approved.folder)]]

FinishAnswer(h) ==
  LET q == answering[h] IN
  /\ q # NotAnswering
  /\ row' = [r \in Rows |->
       IF r \in DOMAIN q.loaded THEN WrittenOver(row[r], q.loaded[r], q.wanted[r]) ELSE row[r]]
  /\ mixed' = mixed \cup {r \in DOMAIN q.loaded : row[r] # q.loaded[r]}
  /\ answering' = [answering EXCEPT ![h] = NotAnswering]
  /\ taught' = taught \o SetToSeq({NewRule(l, "observed") : l \in q.teaches})
  /\ UNCHANGED <<shown, left, grants, teaching, overwritten>>

AdviceNext ==
  \/ left["fills"] > 0 /\ \E rs \in SUBSET Rows : FillRows(rs)
  \/ ShowReview
  \/ \E h \in Handlers :
       \/ left["answers"] > 0 /\ \E rs \in SUBSET Rows :
            \/ \E given \in Intents \cup [action : {"gmail_move"}, folder : {NoFolder}] :
                 LoadAnswer(h, rs, "override", given)
            \/ \E folder \in Folders \cup {NoFolder} :
                 LoadAnswer(h, rs, "approve", [action |-> "none", folder |-> folder])
            \/ \E kind \in {"defer", "dismiss"} : LoadAnswer(h, rs, kind, Unapproved)
       \/ left["assessments"] > 0 /\ \E r \in Rows, sure \in BOOLEAN :
            \E action \in {"needs_review", "gmail_archive", "gmail_move"} : LoadAssessment(h, r, action, sure)
       \/ FinishAnswer(h)

AdviceSpec ==
  /\ LearnedInit /\ AdviceInit /\ BudgetInit
  /\ [][(LearnedNext /\ UNCHANGED adviceVars) \/ AdviceNext]_<<learnedVars, adviceVars, left>>

-----------------------------------------------------------------------------
(* Properties                                                                 *)

Approval == [action : {"none", "needs_review", "gmail_archive", "gmail_move"}, folder : Folders \cup {NoFolder}]
AdviceRow ==
  [state : {"absent", "pending", "approved", "deferred", "dismissed"}, advice : Approval, approved : Approval]

\* Every row and request in flight has the shape the tables and the code give it.
AdviceTypeOK ==
  /\ row \in [Rows -> AdviceRow] /\ shown \in [Rows -> Approval] /\ mixed \subseteq Rows
  /\ \A h \in Handlers : \A r \in DOMAIN answering[h].loaded :
       answering[h].loaded[r] \in AdviceRow /\ answering[h].wanted[r] \in AdviceRow

\* What a row newly approves was asked for: by a person, who named it or agreed
\* to what they had read, and with a folder that mail may be filed in; or by a
\* rule that was confirmed and then promoted, for a thread it matches.  Excepted
\* are an approval of a row whose recommendation was no longer the one last
\* read, and rows over which two requests wrote.
NothingUnasked ==
  [][\A r \in Rows :
       row'[r].state = "approved" /\ <<row'[r].state, row'[r].approved>> # <<row[r].state, row[r].approved>> =>
         \/ \E i \in DOMAIN taught :
              /\ row[r].state = "absent" /\ taught[i].confirmed /\ taught[i].granted
              /\ r \in Says[taught[i].lesson].rows /\ row'[r].approved = Says[taught[i].lesson].advice
         \/ \E h \in Handlers :
              /\ r \in DOMAIN answering[h].asked /\ answering'[h] = NotAnswering
              /\ row'[r].approved = answering[h].asked[r] \/ r \in answering[h].unseen
              /\ row'[r].approved.action = "gmail_move" => row'[r].approved.folder \in Folders
         \/ r \in mixed']_<<adviceVars, learnedVars>>
=============================================================================
