-------------------------- MODULE PlaybookDocument --------------------------
(* What a change to the playbook does to the document: activities and steps   *)
(* turned on and off, moved, added and removed (adminos/domain/playbook.py).  *)
(*                                                                            *)
(* A document is a sequence of activities, each with a sequence of steps; both *)
(* carry the position they are worked at, which need not be the one they are  *)
(* stored at.  A proposal works its changes through the document in force and *)
(* is refused if one of them does not describe anything; it comes into force  *)
(* when it is agreed, if it validates.  Labels and introductions are left out. *)
EXTENDS Requests, Sequences, SequencesExt, FiniteSets

CONSTANTS
  Registered,     \* Registered[k]: the steps activity k is added with, in order
  KnownSteps,     \* KnownSteps[k]: the steps that activity k may be configured with
  Built,          \* activities with code behind them
  ShippedDocument \* the document of the playbook file

VARIABLES
  playbook, \* the document in force
  proposal  \* the changes last proposed, the document they were worked on, what
            \* the last of them left of it, and the document they propose

documentVars == <<playbook, proposal>>

ORDER_STEP == 10
ActivityKeys == DOMAIN Registered
StepKeys == UNION {KnownSteps[k] : k \in ActivityKeys}

StepConfig == [key : StepKeys, enabled : BOOLEAN, order : Int]
ActivityConfig == [key : ActivityKeys, enabled : BOOLEAN, order : Int, steps : Seq(StepConfig)]

-----------------------------------------------------------------------------
(* Documents                                                                  *)

\* Where an entry comes when they are sorted: those at one position as they stand.
Rank(entries, i) ==
  Cardinality({j \in DOMAIN entries : entries[j].order < entries[i].order \/
                                      (entries[j].order = entries[i].order /\ j <= i)})

\* ordered, and the same of steps.
InOrder(entries) ==
  [place \in DOMAIN entries |-> entries[CHOOSE i \in DOMAIN entries : Rank(entries, i) = place]]

KeysOf(entries) == [i \in DOMAIN entries |-> entries[i].key]
Has(entries, key) == \E i \in DOMAIN entries : entries[i].key = key
At(entries, key) == CHOOSE i \in DOMAIN entries : entries[i].key = key
Without(entries, key) == RemoveAt(entries, At(entries, key))

Spaced(entries) == [i \in DOMAIN entries |-> [entries[i] EXCEPT !.order = i * ORDER_STEP]]

\* Mutant: activities are taken in the order of their old positions
RenumberedByPosition(activities) ==
  LET sorted == InOrder(activities)
  IN Spaced([i \in DOMAIN sorted |-> [sorted[i] EXCEPT !.steps = Spaced(InOrder(@))]])

\* renumber: activities as they stand, steps in the order of their old positions.
Renumbered(activities) ==
  Spaced([i \in DOMAIN activities |-> [activities[i] EXCEPT !.steps = Spaced(InOrder(@))]])

\* validate_playbook's errors.
UniqueIn(entries) ==
  \A i, j \in DOMAIN entries : i # j =>
    entries[i].key # entries[j].key /\ entries[i].order # entries[j].order

Workable(activities) ==
  /\ UniqueIn(activities)
  /\ \A i \in DOMAIN activities :
       LET activity == activities[i] IN
       /\ activity.key \in ActivityKeys /\ UniqueIn(activity.steps)
       /\ \A j \in DOMAIN activity.steps : activity.steps[j].key \in KnownSteps[activity.key]
       /\ activity.enabled /\ activity.key \in Built =>
            \E j \in DOMAIN activity.steps : activity.steps[j].enabled
  /\ \E i \in DOMAIN activities : activities[i].enabled

\* The entries are stored in the order they are worked in.
StoredInOrder(entries) == \A i, j \in DOMAIN entries : i < j => entries[i].order < entries[j].order

\* What the registry and the playbook file are like: an activity is added with
\* steps it may have, none twice, and the file is valid and stores its activities
\* in order.
ASSUME DocumentAssumption ==
  /\ Built \subseteq ActivityKeys /\ DOMAIN KnownSteps = ActivityKeys /\ "changes" \in Kinds
  /\ \A k \in ActivityKeys : Registered[k] \in Seq(KnownSteps[k]) /\ IsInjective(Registered[k])
  /\ ShippedDocument \in Seq(ActivityConfig) /\ Workable(ShippedDocument) /\ StoredInOrder(ShippedDocument)

-----------------------------------------------------------------------------
(* Changes                                                                    *)

Change == [op : {"enable_activity", "disable_activity", "update_intro"},
           activity : ActivityKeys, step : {"none"}, anchor : {"none"}, after : {FALSE}]
  \cup [op : {"set_monday_scope"},
        activity : {"none"}, step : {"none"}, anchor : {"none"}, after : {FALSE}]
  \cup [op : {"move_activity"},
        activity : ActivityKeys, step : {"none"}, anchor : ActivityKeys, after : BOOLEAN]
  \cup [op : {"enable_step", "disable_step", "add_step", "remove_step"},
        activity : ActivityKeys, step : StepKeys, anchor : {"none"}, after : {FALSE}]
  \cup [op : {"move_step"},
        activity : ActivityKeys, step : StepKeys, anchor : StepKeys, after : BOOLEAN]

\* move_activity and move_step: take one out, put it in beside its anchor.
PutBeside(entries, key, anchor, after) ==
  LET remaining == Without(entries, key)
  IN InsertAt(remaining, At(remaining, anchor) + (IF after THEN 1 ELSE 0), entries[At(entries, key)])

Switched(entries, key, on) == [entries EXCEPT ![At(entries, key)].enabled = on]

\* What an activity the playbook never contained is brought in as.
Added(activities, key) ==
  [key |-> key, enabled |-> TRUE, order |-> activities[Len(activities)].order + ORDER_STEP,
   steps |-> [i \in DOMAIN Registered[key] |->
                [key |-> Registered[key][i], enabled |-> TRUE, order |-> i * ORDER_STEP]]]

\* add_step: after the highest position.
StepAdded(steps, key) ==
  LET highest == IF steps = <<>> THEN 0 ELSE InOrder(steps)[Len(steps)].order
  IN Append(steps, [key |-> key, enabled |-> TRUE, order |-> highest + ORDER_STEP])

\* ChangeRefused: a change that does not describe anything.
RefusedChange(activities, c) ==
  LET has == Has(activities, c.activity)
      hasStep(s) == has /\ Has(activities[At(activities, c.activity)].steps, s)
  IN CASE c.op \in {"enable_activity", "set_monday_scope"} -> FALSE
       [] c.op \in {"disable_activity", "update_intro"} -> ~has
       [] c.op = "move_activity" -> c.anchor = c.activity \/ ~has \/ ~Has(activities, c.anchor)
       [] c.op = "add_step" -> ~has \/ hasStep(c.step)
       [] c.op = "move_step" -> c.anchor = c.step \/ ~hasStep(c.step) \/ ~hasStep(c.anchor)
       [] OTHER -> ~hasStep(c.step)

StepsRewritten(steps, c) ==
  CASE c.op = "add_step" -> StepAdded(steps, c.step)
    [] c.op = "remove_step" -> Without(steps, c.step)
    [] c.op = "move_step" -> PutBeside(InOrder(steps), c.step, c.anchor, c.after)
    [] c.op \in {"enable_step", "disable_step"} -> Switched(steps, c.step, c.op = "enable_step")
    [] OTHER -> steps

\* rewrite.
Rewritten(activities, c) ==
  CASE c.op = "move_activity" -> PutBeside(activities, c.activity, c.anchor, c.after)
    [] c.op = "enable_activity" /\ ~Has(activities, c.activity) -> Append(activities, Added(activities, c.activity))
    [] c.op \in {"enable_activity", "disable_activity"} /\ Has(activities, c.activity) ->
         Switched(activities, c.activity, c.op = "enable_activity")
    [] OTHER -> [activities EXCEPT ![At(activities, c.activity)].steps = StepsRewritten(@, c)]

\* apply_change: a change of sources neither sorts the activities nor renumbers.
AfterChange(activities, c) ==
  IF c.op = "set_monday_scope" THEN activities ELSE Renumbered(Rewritten(InOrder(activities), c))

\* Mutant: a step is added whether or not it is there
ApplicableTwice(activities) ==
  {c \in Change : (c.op = "add_step" /\ Has(activities, c.activity)) \/ ~RefusedChange(activities, c)}

\* The changes that describe something.
Applicable(activities) == {c \in Change : ~RefusedChange(activities, c)}

-----------------------------------------------------------------------------
(* Actions                                                                    *)

DocumentInit ==
  /\ playbook = ShippedDocument
  /\ proposal = [changes |-> <<>>, base |-> playbook, worked |-> playbook, document |-> playbook]

\* apply_changes: one change after another, and renumber once more.  A proposal
\* has changes, worked through the document so far, and one more.
ProposeChanges(changes, worked, change) ==
  LET changed == AfterChange(worked, change) IN
  /\ change \in Applicable(worked) /\ Spend("changes")
  /\ proposal' = [changes |-> Append(changes, change), base |-> playbook,
                  worked |-> changed, document |-> Renumbered(changed)]
  /\ UNCHANGED playbook

\* As many changes as were proposed last, or one.
ProposeOne == \E change \in Change : ProposeChanges(<<>>, playbook, change)
ProposeMore ==
  /\ proposal.base = playbook
  /\ \E change \in Change : ProposeChanges(proposal.changes, proposal.worked, change)

AgreeChanges ==
  /\ proposal.base = playbook /\ proposal.document # playbook
  /\ Workable(proposal.document) /\ playbook' = proposal.document
  /\ UNCHANGED <<left, proposal>>

DocumentNext == (left["changes"] > 0 /\ (ProposeOne \/ ProposeMore)) \/ AgreeChanges

DocumentSpec == DocumentInit /\ BudgetInit /\ [][DocumentNext]_<<documentVars, left>>

-----------------------------------------------------------------------------
(* Properties                                                                 *)

\* Every document is one the service could read back and validate, but for the
\* steps that were turned off, taken out or never known.
DocumentTypeOK ==
  /\ playbook \in Seq(ActivityConfig) /\ Workable(playbook)
  /\ proposal \in [changes : Seq(Change), base : Seq(ActivityConfig), worked : Seq(ActivityConfig),
                   document : Seq(ActivityConfig)]
  /\ UniqueIn(proposal.document)
  /\ \A i \in DOMAIN proposal.document : UniqueIn(proposal.document[i].steps)

LastChange == proposal.changes[Len(proposal.changes)]

\* An entry stands right before or after its anchor.
StandsBy(keys, key, anchor, after) ==
  \E i, j \in DOMAIN keys : keys[i] = key /\ keys[j] = anchor /\ i = (IF after THEN j + 1 ELSE j - 1)

KeySet(entries) == {entries[i].key : i \in DOMAIN entries}
StepsIn(activities, key) == activities[At(activities, key)].steps
StepsOf(activities, key) == KeysOf(InOrder(StepsIn(activities, key)))

\* One entry is worked before another.
WorkedBefore(entries, one, other) ==
  \E i, j \in DOMAIN entries :
    entries[i].key = one /\ entries[j].key = other /\ entries[i].order < entries[j].order

\* Entries are there unless they were removed; those neither moved nor removed
\* come in the order they came in before, ahead of those that came in.
KeepsOrder(old, new, moved, removed) ==
  LET kept == KeySet(old) \ (moved \cup removed) IN
  /\ KeySet(old) \ removed \subseteq KeySet(new)
  /\ \A one, other \in kept : WorkedBefore(old, one, other) => WorkedBefore(new, one, other)
  /\ \A one \in kept, other \in KeySet(new) \ (KeySet(old) \cup moved \cup removed) :
       WorkedBefore(new, one, other)

ActivitiesMoved(changes) == {c.activity : c \in {d \in changes : d.op = "move_activity"}}
StepsNamed(changes, op, key) == {c.step : c \in {d \in changes : d.op = op /\ d.activity = key}}

\* Some changes did no more to the order of a document than they say.
Obeys(old, new, changes) ==
  /\ KeepsOrder(old, new, ActivitiesMoved(changes), {})
  /\ \A key \in KeySet(old) :
       KeepsOrder(StepsIn(old, key), StepsIn(new, key),
                  StepsNamed(changes, "move_step", key), StepsNamed(changes, "remove_step", key))

\* A proposal does to the order of a session what it says and nothing else: an
\* activity last moved stands beside the one it was moved to, none is lost nor a
\* step that no change removes, and activities and steps that no change names
\* come in the order they were worked in before, ahead of those added.
ReordersAsAsked ==
  proposal.changes # <<>> =>
    /\ LastChange.op = "move_activity" =>
         StandsBy(KeysOf(InOrder(proposal.document)), LastChange.activity, LastChange.anchor, LastChange.after)
    /\ Obeys(proposal.base, proposal.document, Range(proposal.changes))

\* The sentence a proposal is confirmed by is true of it: a step that moves
\* before or after another is worked right before or after it.
StepMovesAsSaid ==
  proposal.changes # <<>> /\ LastChange.op = "move_step" =>
    StandsBy(StepsOf(proposal.document, LastChange.activity),
             LastChange.step, LastChange.anchor, LastChange.after)
=============================================================================
