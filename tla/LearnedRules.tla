---------------------------- MODULE LearnedRules ----------------------------
(* The rules learned from decisions: observed after a correction, proposed,   *)
(* confirmed to advise, promoted to act unasked, withdrawn and retired        *)
(* (adminos/domain/rules.py, learning.py, api/learning.py).                   *)
(*                                                                            *)
(* Every endpoint runs in a thread.  A request checks the configuration and   *)
(* loads its rule, or all of them, in one step and writes in another; of the  *)
(* rule it writes the columns that differ from what it loaded.  A rule is its *)
(* digest: what it matches and what it does.                                  *)
EXTENDS Requests, Sequences

CONSTANT Lessons \* what a rule may say

ASSUME LearningAssumption == {"lessons", "moves", "regrants"} \subseteq Kinds

VARIABLES
  taught,     \* candidate rules in the order they were recorded
  grants,     \* what the capability's configuration lets its rules do
  teaching,   \* teaching[h]: the rule a request in flight has loaded
  overwritten \* rules moved from another state than the one a request had loaded

learnedVars == <<taught, grants, teaching, overwritten>>

RuleStates == {"observed", "proposed", "confirmed", "automatable", "retired"}

\* allow_rule_learning, permits, and allow_automatable_rules with may_execute.
Grants == {"learn", "permit", "automate"}

\* A capability that automates rules without learning any is not loaded.
Grantable == {to \in SUBSET Grants : "automate" \in to => "learn" \in to}

NotTeaching == [kind |-> "idle", rule |-> 0, state |-> "none", granted |-> FALSE,
                to |-> "none", lesson |-> "none"]

LearnedInit ==
  /\ taught = <<>> /\ grants = Grants
  /\ teaching = [h \in Handlers |-> NotTeaching] /\ overwritten = {}

-----------------------------------------------------------------------------
LearningAllowed == {"learn", "permit"} \subseteq grants

\* read_active_rules: what a review takes from the rules as they are configured now.
Advises(r) == LearningAllowed /\ r.state \in {"confirmed", "automatable"}
ActsUnasked(r) == Advises(r) /\ r.state = "automatable" /\ "automate" \in grants

\* Mutant: agreeing with a rule is not asked for before it is promoted
MayBecomeUnasked(state) ==
  CASE state = "observed" -> {"proposed", "retired"}
    [] state = "proposed" -> {"confirmed", "automatable", "retired"}
    [] state = "confirmed" -> {"automatable", "retired"}
    [] state = "automatable" -> {"confirmed", "retired"}
    [] OTHER -> {}

\* TRANSITIONS.
MayBecome(state) ==
  CASE state = "observed" -> {"proposed", "retired"}
    [] state = "proposed" -> {"confirmed", "retired"}
    [] state = "confirmed" -> {"automatable", "retired"}
    [] state = "automatable" -> {"confirmed", "retired"}
    [] OTHER -> {}

GrantsEdited(to) ==
  /\ Spend("regrants") /\ to # grants /\ grants' = to
  /\ UNCHANGED <<taught, teaching, overwritten>>

\* find_equivalent: the first rule that says this and is not retired.
Equivalent(lesson) ==
  LET same == {i \in DOMAIN taught : taught[i].lesson = lesson /\ taught[i].state # "retired"}
  IN IF same = {} THEN 0 ELSE CHOOSE i \in same : \A j \in same : i <= j

\* record_rule as far as its reading, for a decision that corrected a
\* recommendation (observed) or for a person (proposed).
LoadLesson(h, lesson, to) ==
  LET i == Equivalent(lesson) IN
  /\ Spend("lessons")
  /\ teaching[h] = NotTeaching /\ LearningAllowed
  /\ teaching' = [teaching EXCEPT ![h] =
       [NotTeaching EXCEPT !.kind = "record", !.rule = i, !.to = to, !.lesson = lesson,
                           !.state = IF i = 0 THEN "none" ELSE taught[i].state]]
  /\ UNCHANGED <<taught, grants, overwritten>>

\* transition_rule as far as its checks.
LoadRule(h, i, to) ==
  /\ Spend("moves")
  /\ teaching[h] = NotTeaching /\ LearningAllowed
  /\ i \in DOMAIN taught /\ to \in MayBecome(taught[i].state)
  /\ to = "automatable" => "automate" \in grants
  /\ teaching' = [teaching EXCEPT ![h] =
       [NotTeaching EXCEPT !.kind = "move", !.rule = i, !.to = to,
                           !.state = taught[i].state, !.granted = taught[i].granted]]
  /\ UNCHANGED <<taught, grants, overwritten>>

-----------------------------------------------------------------------------
\* A rule once recorded again: seen once more, and proposed if it was only seen.
Moved(r, to) == [r EXCEPT !.state = to]
NewRule(lesson, state) ==
  [lesson |-> lesson, state |-> state, confirmed |-> FALSE, granted |-> FALSE, retired |-> FALSE]

Overwrites(h) ==
  overwritten' = overwritten \cup
    (IF taught[teaching[h].rule].state # teaching[h].state THEN {teaching[h].rule} ELSE {})

FinishLesson(h) ==
  LET t == teaching[h] IN
  /\ t.kind = "record"
  /\ IF t.rule = 0
     THEN taught' = Append(taught, NewRule(t.lesson, t.to)) /\ UNCHANGED overwritten
     ELSE IF t.state = "observed" /\ t.to = "proposed"
     THEN taught' = [taught EXCEPT ![t.rule] = Moved(@, "proposed")] /\ Overwrites(h)
     ELSE UNCHANGED <<taught, overwritten>>
  /\ teaching' = [teaching EXCEPT ![h] = NotTeaching]
  /\ UNCHANGED <<grants, left>>

\* The columns a transition writes: a grant is taken back only if it was loaded.
Stamped(r, t) ==
  [Moved(r, t.to) EXCEPT
     !.confirmed = @ \/ t.to = "confirmed",
     !.granted = IF t.to = "automatable" THEN TRUE ELSE IF t.to = "confirmed" /\ t.granted THEN FALSE ELSE @,
     !.retired = @ \/ t.to = "retired"]

FinishMove(h) ==
  LET t == teaching[h] IN
  /\ t.kind = "move"
  /\ taught' = [taught EXCEPT ![t.rule] = Stamped(@, t)] /\ Overwrites(h)
  /\ teaching' = [teaching EXCEPT ![h] = NotTeaching]
  /\ UNCHANGED <<grants, left>>

LearnedNext ==
  \/ \E to \in Grantable : GrantsEdited(to)
  \/ \E h \in Handlers :
       \/ left["lessons"] > 0 /\ \E lesson \in Lessons, to \in {"observed", "proposed"} : LoadLesson(h, lesson, to)
       \/ left["moves"] > 0 /\ \E i \in DOMAIN taught, to \in {"confirmed", "automatable", "retired"} : LoadRule(h, i, to)
       \/ FinishLesson(h) \/ FinishMove(h)

LearnedSpec == LearnedInit /\ BudgetInit /\ [][LearnedNext]_<<learnedVars, left>>

-----------------------------------------------------------------------------
(* Properties                                                                 *)

RuleRow == [lesson : Lessons, state : RuleStates, confirmed : BOOLEAN, granted : BOOLEAN, retired : BOOLEAN]
TeachingType ==
  [kind : {"idle", "record", "move"}, rule : Nat, state : RuleStates \cup {"none"},
   granted : BOOLEAN, to : RuleStates \cup {"none"}, lesson : Lessons \cup {"none"}]

\* Every rule and request in flight has the shape the tables and the code give it.
LearnedTypeOK ==
  /\ taught \in Seq(RuleRow) /\ grants \in Grantable
  /\ teaching \in [Handlers -> TeachingType] /\ overwritten \subseteq DOMAIN taught

\* Being taught, agreeing and licensing are separate acts: however requests
\* overlap, a rule that advises was confirmed and one that acts unasked was
\* promoted as well; and a rule that was retired stays so, unless a request that
\* had loaded it before wrote over that.
RulesStandAsGranted ==
  \A i \in DOMAIN taught :
    /\ Advises(taught[i]) => taught[i].confirmed
    /\ ActsUnasked(taught[i]) => taught[i].granted
    /\ taught[i].retired /\ i \notin overwritten => taught[i].state = "retired"
=============================================================================
