------------------------------ MODULE Rulebook ------------------------------
(* The rules a person writes: versions, and the steps each version takes from *)
(* proposed to in force (adminos/domain/rulebook_store.py, rulebook.py,       *)
(* rule_testing.py, api/rules.py).                                            *)
(*                                                                            *)
(* Every endpoint runs in a thread: it loads the rule in one step and writes  *)
(* in another, of the rule's row the columns that differ from what it loaded. *)
(* A version is its conditions: that is what makes two rules the same.        *)
EXTENDS Requests, Sequences, FiniteSets, RuleConditions

CONSTANT Drafts \* what a rule may be written as

ASSUME RulebookAssumption ==
  (\A d \in Drafts : d.tag = "group" /\ WellFormed(d)) /\ {"drafts", "steps"} \subseteq Kinds

VARIABLES
  rulebook, \* rules in the order they were written
  reading,  \* reading[h]: what a request in flight has loaded
  disturbed \* rules written by a request that had loaded another state of them

rulebookVars == <<rulebook, reading, disturbed>>

RuleStatuses ==
  {"proposed", "tested", "confirmed", "active", "automatable", "paused", "retired"}
EffectiveStatuses == {"active", "automatable"}
NoDraft == Group({}, {}, {})
NotReading == [kind |-> "idle", rule |-> 0, status |-> "none", version |-> 0, draft |-> NoDraft]

RulebookInit ==
  /\ rulebook = <<>> /\ reading = [h \in Handlers |-> NotReading] /\ disturbed = {}

-----------------------------------------------------------------------------
\* TRANSITIONS, check_transition.
NextStatuses(status) ==
  CASE status = "proposed" -> {"tested", "retired"}
    [] status = "tested" -> {"confirmed", "proposed", "retired"}
    [] status = "confirmed" -> {"active", "retired"}
    [] status = "active" -> {"paused", "automatable", "retired"}
    [] status = "automatable" -> {"active", "paused", "retired"}
    [] status = "paused" -> {"active", "retired"}
    [] OTHER -> {}

\* check_breadth.
Narrow(draft) == Narrows(draft)

Twins(draft) ==
  {i \in DOMAIN rulebook : rulebook[i].versions[rulebook[i].current] = draft /\ rulebook[i].status # "retired"}

\* The row a rule starts as; tested and agreed are what was done with each version.
RowWritten(draft) ==
  [status |-> "proposed", versions |-> <<draft>>, current |-> 1, tested |-> {}, agreed |-> {}]

Load(h, kind, i) ==
  /\ reading[h] = NotReading
  /\ reading' = [reading EXCEPT ![h] =
       [kind |-> kind, rule |-> i, status |-> rulebook[i].status,
        version |-> rulebook[i].current, draft |-> NoDraft]]
  /\ UNCHANGED <<rulebook, disturbed>>

\* propose_rule as far as its checks: not what another rule already says.
LoadWrite(h, draft) ==
  /\ Spend("drafts") /\ Narrow(draft) /\ Twins(draft) = {}
  /\ reading[h] = NotReading
  /\ reading' = [reading EXCEPT ![h] = [NotReading EXCEPT !.kind = "write", !.draft = draft]]
  /\ UNCHANGED <<rulebook, disturbed>>

\* The rest of it: of two that say the same, neither has seen the other.
FinishWrite(h) ==
  /\ reading[h].kind = "write"
  /\ rulebook' = Append(rulebook, RowWritten(reading[h].draft))
  /\ reading' = [reading EXCEPT ![h] = NotReading]
  /\ UNCHANGED <<left, disturbed>>

LoadAmend(h, i) ==
  /\ Spend("drafts") /\ rulebook[i].status # "retired" /\ Load(h, "amend", i)

\* preview_rule as far as its reports; only a proposed rule is moved by it.
LoadTest(h, i) ==
  /\ Spend("steps") /\ rulebook[i].status = "proposed" /\ Load(h, "tested", i)

\* move_rule as far as its check, for confirm, activate or resume, pause, retire.
LoadMove(h, i, to) ==
  /\ Spend("steps") /\ to \in NextStatuses(rulebook[i].status) /\ Load(h, to, i)

-----------------------------------------------------------------------------
Finished(h, row) ==
  LET i == reading[h].rule IN
  /\ rulebook' = [rulebook EXCEPT ![i] = row]
  /\ disturbed' = disturbed \cup
       (IF rulebook[i].status # reading[h].status \/ rulebook[i].current # reading[h].version
        THEN {i} ELSE {})
  /\ reading' = [reading EXCEPT ![h] = NotReading]
  /\ UNCHANGED left

\* Mutant: the standing the last version earned is kept
AmendedInPlace(r, seen, draft) ==
  [r EXCEPT !.versions = Append(@, draft), !.current = seen.version + 1]

\* The row and the version an amendment writes; the status if it was another.
Amended(r, seen, draft) ==
  [r EXCEPT !.versions = Append(@, draft), !.current = seen.version + 1,
            !.status = IF seen.status = "proposed" THEN @ ELSE "proposed"]

\* amend_rule, which looks for no twin; of two at once the second breaks the
\* unique version number.
FinishAmend(h, draft) ==
  LET seen == reading[h]
      r == rulebook[seen.rule] IN
  /\ seen.kind = "amend" /\ Narrow(draft)
  /\ IF seen.version < Len(r.versions)
     THEN reading' = [reading EXCEPT ![h] = NotReading] /\ UNCHANGED <<rulebook, disturbed, left>>
     ELSE Finished(h, Amended(r, seen, draft))

\* The rest of preview_rule or move_rule, in the version that was loaded.
FinishStep(h) ==
  LET seen == reading[h]
      r == rulebook[seen.rule] IN
  /\ seen.kind \in RuleStatuses
  /\ Finished(h, [r EXCEPT
       !.status = seen.kind,
       !.tested = IF seen.kind = "tested" THEN @ \cup {seen.version} ELSE @,
       !.agreed = IF seen.kind = "confirmed" THEN @ \cup {seen.version} ELSE @])

RulebookNext ==
  \/ \E h \in Handlers :
       \/ \E i \in DOMAIN rulebook :
            \/ LoadAmend(h, i) \/ LoadTest(h, i)
            \/ left["steps"] > 0 /\ \E to \in {"confirmed", "active", "paused", "retired"} : LoadMove(h, i, to)
       \/ left["drafts"] > 0 /\ \E draft \in Drafts : LoadWrite(h, draft)
       \/ \E draft \in Drafts : FinishAmend(h, draft)
       \/ FinishWrite(h) \/ FinishStep(h)

RulebookSpec == RulebookInit /\ BudgetInit /\ [][RulebookNext]_<<rulebookVars, left>>

-----------------------------------------------------------------------------
(* Properties                                                                 *)

ReadingType ==
  [kind : {"idle", "write", "amend"} \cup RuleStatuses, rule : Nat,
   status : RuleStatuses \cup {"none"}, version : Nat, draft : Drafts \cup {NoDraft}]

\* Every rule and request in flight has the shape the tables and the code give it.
RulebookTypeOK ==
  /\ \A i \in DOMAIN rulebook :
       LET r == rulebook[i] IN
       /\ r.status \in RuleStatuses /\ r.versions \in Seq(Drafts) /\ r.current \in DOMAIN r.versions
       /\ r.tested \cup r.agreed \subseteq DOMAIN r.versions
  /\ reading \in [Handlers -> ReadingType] /\ disturbed \subseteq DOMAIN rulebook

\* What shapes a review was tried and agreed to in the very version that is in
\* force, through every amendment, pause and resumption, unless a request wrote
\* to a rule that was no longer as it had loaded it; and it is a rule about some
\* mail, never about mail with nothing to go by.
EffectiveAsAgreed ==
  \A i \in DOMAIN rulebook :
    LET r == rulebook[i] IN
    r.status \in EffectiveStatuses =>
      /\ i \in disturbed \/ r.current \in r.tested \cap r.agreed
      /\ \A facts \in BareMail : ~Matches(r.versions[r.current], facts)
=============================================================================
