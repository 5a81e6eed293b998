# Admin OS, specified

TLA+ modules, TLC configurations and TLAPS proofs about Admin OS: a service that
reviews one person's mail with him, carries out what he approved in Gmail, and
keeps tasks on a Monday board. The program is one uvicorn process: `async`
endpoints run on one event loop, the others in a thread pool, and every request
works in its own SQLAlchemy session (`adminos/db/engine.py`) that commits once at
the end or rolls everything back. Loaded rows are never refreshed, and a flush
writes only the columns the session changed. Most of what is hard here follows
from these three facts, from Gmail and Monday answering late or not at all, and
from the person's own hands in both.

## The system

| part | state it keeps | operations | what is hard, and what makes it correct |
|---|---|---|---|
| action execution (`domain/actions.py`, `api/actions.py`, `adapters/gmail.py`) | `review_actions`, the outcome on `review_items`; in Gmail labels, drafts, sent mail | record, prepare, authorise a send, execute a scope, retry, verify | a lost answer rolls back the record of a write; two requests on one action; restarts; loop handlers that block on a row lock. Nothing half done is committed, no unasked effect, the record stays true |
| scopes and decisions (`domain/scopes.py`, `review.py`) | `review_scopes`, items and decisions | decide, prepare, supersede, confirm, settle, abandon | decisions dated before they commit, between a preparation and its confirmation or across it; overlapping preparations; scopes with and without a capability. A confirmation runs what was shown and still stands |
| daily review and plan (`domain/review.py`, `plan.py`) | `review_runs`, groups, items, plans | start/restart, continue, read, begin plan, decide, recompute | stale writes over an abandoned review; requests that recompute from what others have not committed; a thread asked twice; completion while rows, plan and mail change |
| recommendations and answers (`domain/review.py`, `api/review.py`) | the recommendation and the approval on `review_items`, learning events | fill by policy, approve by rule, assess, decide one or many | an assessment between showing and agreeing; two answers on one row. What is approved was asked for |
| evidence sync (`domain/evidence.py`, `mailboxes.py`) | `evidence` rows: labels, snooze, capability keys | scan, recheck, note, prune | partial scans and pruning; overlapping scans in one event loop; mail that moves meanwhile |
| Monday tasks (`domain/tasks.py`, `duplicates.py`, `workflow.py`, `adapters/monday.py`) | `workflow_runs`, `external_mappings`, `workflow_steps`; the board | gate, reserve, find, create, read back | a create whose answer is lost or late; retries; renames and moves by people. One item for one task |
| guided review (`domain/guided_review.py`, `review_playbook.py`, `review_playbook_store.py`) | reviews, phases, snapshots, items, events, pinned playbook revision | start, submit, complete a phase, revise the playbook | superseded reviews; a submission refused or recorded whole; phases in order; the log against the state |
| assistant playbook (`domain/playbook.py`, `playbook_store.py`) | revisions proposed, active, superseded, invalid; the document | seed, propose, confirm, read the active one with fallback; change by change | stale bases, confirming an old revision, a configuration edited underneath. One active revision, always readable, always agreed to |
| learned rules (`domain/rules.py`, `learning.py`, `api/learning.py`) | candidate rules | observe, propose, confirm, promote, retire | overlapping moves, grants withdrawn meanwhile. Only a promoted rule acts unasked |
| rulebook (`domain/rulebook.py`, `rulebook_store.py`, `rule_testing.py`, `conditions.py`, `api/rules.py`) | rules, versions, tests | write, amend, test, confirm, activate, pause, retire | an amendment under a test or a confirmation. What is in effect was tested and agreed as it is |
| sessions (`domain/sessions.py`, `activities.py`, `api/session.py`) | `assistant_sessions`, activities | wake, begin, work, advance, leave | overlapping begins and advances, each from activities it read before; a review replaced or left under its session |
| older to-do service (`main.py`) | nothing here; items on two Monday boards | create, update, update many | part of a bulk refused, lost or carried out late. The report is true of the boards |
| boards, classification, presentation, configuration, migrations | none, or one row per call | reads, rendering, parsing | no interleaving to get wrong |

Interactions: an opening syncs the evidence, sets the current review aside,
supersedes its scopes and fills the next review from the evidence; decisions feed
actions, the plan and learning; executions write the outcomes back to items; a
reading of a review recomputes its state from the items; sessions open reviews;
promoted rules approve rows when a review is filled, and overrides teach rules;
a session pins the playbook revision in force. All of it is shared rows: no
queue and no lock beyond the row locks Postgres takes for a flush.

## The modules

**Executors** holds what each kind of action adds to and removes from a thread
and what shows that it happened (`EXECUTORS` and the `execute_*`/`verify_*` pairs).

**ActionPromise** is the abstract record of an action: approved, planned,
completed or failed, and an item that is executed only through a completed
action. ActionExecution and ActionScopes both implement it. **ActionExecution** is the code: requests with their loaded objects
(`obj`), uncommitted rows (`row`), row locks (`held`) and place in
`execute_action` (`pc`); Gmail's labels, drafts and sent mail; a person who edits,
deletes or writes drafts; lost answers (`lost`), the commit, the rollback and a
restart. A handler keeps the loop from one await to the next (`HasLoop`), and one
that must wait for a row there stops the process (`Block`, then `Restart`).

**ActionScopes** is the same machinery from above. These endpoints run in the
thread pool, so each is as many steps as it reads and commits: `Decide` loads its
rows and `DecideFinish` commits (`record_decision`, `decide_group`), with a date
from any moment between; `PrepareRead` reads the items, `PrepareOpen` dates the
scope, inserts new actions and reads the scopes it supersedes
(`supersede_open_scopes`), `PrepareCommit` commits; `Abandon` reads the open
scopes and `AbandonFinish` commits. Several decisions and preparations are in
flight at once. Between them are the checks of a confirmation, an execution
action by action, `retry_action` and `verify_one_action`. One attempt is one step
here; its inside is ActionExecution's, as is what two executions do to each other.

**MondayTask** is `POST /monday/tasks`. The endpoint is a coroutine, so each
action runs from one answer of Monday to the next call: `Ask` reads the board,
`Refuse`/`Reserve` the gate and the first commit, then the lookup by Admin OS id,
the create, the reading back and the last commit. A create whose request gave up
stays on `wire` and may still be carried out.

**ReviewRuns** is the reviews of one day and scope. `LoadRead`, `LoadBegin`,
`LoadDecide`, `LoadAct` take what a request loads (the state of the run, one
row); `Read`, `Begin` and `Decide` change it, read everything else as it is
committed and recompute the review (`Refreshed`); `Commit` writes only the
columns that differ from what was read (`Merged`). So two decisions on different
rows do not see each other, and two on one row wait for each other (`Held`).
`Start` and `Continue` read in one step and commit in another, and hold the event
loop between, as the code does. What a thread says may return to what it said
before, as its content hash does when a draft is written and deleted
(`Readings`); evidence that is pruned stays so, and what is found again is a thread of its own.
It models neither the wording of a plan nor the order of its groups, which only
sorts.

**Requests** is what the nine modules below share: the requests in flight, and a
budget of the kinds of things that may happen (`left`, `Spend`). A behaviour
chooses its budget at the start. **Assistant** puts the components beside each
other in one next-state relation, and **MCAssistant** gives each budget much of
one component and little of the rest: the state spaces then add up instead of
multiplying, and what two components share (the playbook and its sessions, rules
and what they recommend) still has budgets in which both move.

**PlaybookRevisions** is `playbook_store.py`. `Propose` is one action (its handler
awaits nothing); a confirmation loads its revision, reads the one in force and
writes both, as three; a reading that finds the revision in force unworkable
falls back and commits (`Restore`). `Reconfigure` edits the configuration
underneath. **PlaybookDocument** is `playbook.py`: what each change does to
activities and steps and the positions they carry, and `Renumbered`. Sorting is by
rank (`Rank`), which is stable as Python's is. A proposal of several changes is its
first changes and one more (`ProposeMore`), so any list of changes is reached, and
every shorter one is a proposal too, as it is in the code.

**AssistantSessions** extends PlaybookRevisions: `StartSession` is one action.
`LoadBegin`, `LoadActivity`, `LoadAdvance` load the row of a session; `ReadBegin`,
`ReadActivity`, `ReadAdvance` its activities, with no lock (advancing reads them
twice, `ReadRemaining`); `WriteSession` flushes and commits, column by column,
what differs. A session that a request agreed to is flushed before its activities are
read, and holds up other writers (`Held`); a request may be refused in between
(`RefuseWork`). The review behind an activity is its state, which
moves by itself (`ReviewMoves`); ReviewRuns is about how.

**GuidedReview** is the MCP tools over `guided_review.py`: each is one action and
one transaction, a refused submission commits its log entry alone, and a revised
review playbook applies to reviews started after it.

**LearnedRules** is `rules.py`: a request loads a rule (or finds none that says
the same) and later writes the columns that differ. **Recommendations** extends
it with the rows a rule matches: filling a review from the rules and the shipped
policy, what the person is shown, answers over one or many rows, a model's
assessments, and the rule an override implies. **Rulebook** is
`rulebook_store.py` with its versions and tests, over **RuleConditions**, which
is how nested conditions match, narrow and compare (`conditions.py`).

**EvidenceSync** is a scan from its searches to its commit: awaits label by label
and thread by thread, changes that wait in the session for the next query, row
locks, rechecks, the refusal to prune, and mail that moves meanwhile. A scan that
waits for a row of another stops the loop (`stuck`, `Restarted`).

**TodoBoards** is the bulk update of `main.py`, of which a single update or a
creation is a bulk of one: the columns of a board read once a request, one
update after another, each answered, refused, or left without an answer and
carried out at once, later or never.

The modules describe overlapping parts of one database from different heights;
they share Executors, and an abstraction made in one (an execution as one step,
the review behind a session as a state) is the subject of another or is named below.

## What the runs show

`TypeOK` aside, each property is about several steps of several actors. Excuses
appear in the properties themselves as history variables (`lost`, `stale`,
`raced`, `late`, ...): the property holds except where the named thing happened,
and the exceptions are what the code really allows.

| run | instance | shows |
|---|---|---|
| `exec_overlap` | 2 requests, a draft and an archive on two items, losses, restarts | no action is committed half done (`NeverHalfDone`); one request works on an action at a time (`OneWriterPerAction`) |
| `exec_solo` | a draft and the send that replies with it, edited and deleted by hand, deferred meanwhile, two scopes | what is completed has its effect, what was sent was approved, an executed item has a completed action, and ActionPromise is implemented |
| `exec_batch` | one scope over two items with drafts a person wrote and permissions withdrawn, under fairness | a second draft needs a lost write, a stale row, a draft of a person's own that was adopted, or a first one that is gone; every request ends |
| `exec_duplicate_draft` | one draft, one loss | the documented "retrying cannot produce a second draft" fails |
| `scopes` | four shapes: two items of two capabilities; one item decided twice by two requests in flight; one with two preparations in flight and the review set aside; one with three preparations, two at a time | nothing without approval; current scopes are disjoint but for keyless and overlapping ones, and executed ones are settled (`ScopesStand`); a confirmed scope runs what was prepared, but for decisions that cross its opening; what was declined stays untouched; abandonment disarms every scope but one committed after the open ones were read |
| `scopes_two_actions` | the same | "one action per selected row" fails for an overridden row |
| `monday_task` | 3 requests, two titles of one task and one of another, 3 items, 1 edit by hand | one item per task but for a create that raced a lookup; the audit is in order; an item stays its task's |
| `monday_retry_refused` | the same | a retry promised to adopt its item is refused as a duplicate of it |
| `review_runs` | two shapes: two threads of two capabilities, one approved by a rule, two contents, 2 reviews, 1 sync, 2 requests beside the openings; and one thread, 3 reviews, 2 syncs, 4 requests, one at a time | one review is open; a thread whose content returns is not settled again as it was last settled; completed means done, but for a state computed from what changed before it was written; no worked or finished review still asks for its plan; an opening asks only about mail that is there; settled rows stay settled |
| `review_revived` | the same | a request in flight brings an abandoned review back |
| `assistant` | MCAssistant: two requests in flight, 20 budgets | below |
| `playbook_move_step` | the same, without symmetry | a proposal that moves a step says so and leaves it where it was |

`assistant` checks, beside `TypeOK`:

| property | of | says |
|---|---|---|
| `PlaybookStands` | PlaybookRevisions | some revision is in force, it was agreed to, and it is the last agreed to but for overlapping confirmations (`crossed`) |
| `NothingUndone` | PlaybookRevisions | a confirmation replaces the very revision its proposal was written against, but for overlapping ones |
| `ReordersAsAsked` | PlaybookDocument | in what a proposal would put in force the activity it moved last stands by its anchor, nothing is lost but the steps it removes, and what no change names keeps its order, ahead of what is added |
| `SessionStands` | AssistantSessions | one session is under way, but for one whose status was written over one its writer had not loaded (`overtaken`); its playbook was agreed to |
| `CompletedHasNothingLeft` | AssistantSessions | a completed session has no activity pending or in hand, but for one put back in hand as its writer had loaded it (`rewound`) |
| `LogTellsReview` | GuidedReview | the events of a review, replayed, are its state; only the last review is open |
| `ResultIsWhole` | GuidedReview | a recorded phase has one result, with every thread it counts once, in a group the pinned playbook has, ordered as it asks |
| `RulesStandAsGranted` | LearnedRules | what advises was confirmed, what acts unasked was promoted, retired stays retired but for a stale write |
| `NothingUnasked` | Recommendations | what a row approves was named, or was agreed to as last shown, or came from a promoted rule that matches, but for a recommendation replaced since it was shown (`unseen`) and rows two requests wrote (`mixed`) |
| `EffectiveAsAgreed` | Rulebook | a rule in effect was tested and confirmed in the very version in effect, but for stale writes |
| `PruneSparesPresent` | EvidenceSync | what a prune deletes was, at some moment of that scan, out of reach of each capability: out of its mailbox or without its label |
| `LeavesWithTheInbox` | EvidenceSync | after a whole scan of the inbox that ran alone, what the inbox admits was there at some moment of the scan |
| `ReportTellsBoard` | TodoBoards | each column of an item reads what the last update reported done on it says, and what it read before where none says anything, but for calls without an answer and other hands |

Bounds. Two requests at a time are enough for every race here, each of which
needs one to be overtaken; `monday_task` has three so that a retry can follow two
overlapping attempts. The shapes of `scopes` and `review_runs` (`MCSpec`, which takes
the steps of `Spec` that stay within the shape chosen at the start) add up what one
instance of everything would multiply. Two scopes are one and its successor; a third
supersedes or misses both of two that overlapped. Two reviews are one and its
successor; a third is where content last seen in the first can return. Two
attempts are the first and a retry, which is the only distinction
`execute_action` draws by count; what a third meets in the reference that the
second left is left to the proofs, which hold for any bound. Two items in two groups are enough for a scope, a group
or a plan to cover one and not the other. `review_runs` starts from every state
earlier syncs may have left, so one sync can bring, move, change or remove mail;
its two requests are those that race, beside any openings. The budgets of
`assistant` give each component the two or three operations that can overtake one
another and one to set them up: two revisions and four requests for them; two
sessions with two workings, or one with three; two reviews, or two submissions to one; three
lessons or five moves of one rule; an override, its rule promoted, and the row it
then approves; two drafts and four steps, or one and six; three scans, or two
with mail moving from the inbox; two changes of the document; two bulk updates. The rows,
threads and boards are two of each, so that something can apply to one and not
the other. Handlers and the threads of mail are symmetric:
no constant, condition or property of their modules names one. TLC explores all
interleavings within these bounds; nothing is claimed by TLC beyond them.
Deadlock is not checked because the bounds, and a day without requests, end
every behaviour.

Fairness. Only `RequestsEnd` is a liveness property: weak fairness on the
progress of each request, because the event loop resumes a handler whose await
completed, every client has a timeout, and a process that stops is restarted.
Nothing is assumed of Gmail's answers or of people. A promise that a review is
eventually completed would need a person to be fair, so none is stated.

## What the disagreements are

Five runs end in a violation of what the code says of itself; PROJECT.json quotes
the lines. The second draft and the refused retry come from looking only after a
recorded attempt (or before the lookup). The two actions of one row come from
reading recorded actions rather than the decision. The revived review comes from
testing `run.state` as loaded: a restart commits `abandoned`, the request that
loaded the run before then writes the state it computes. The step that
does not move comes from keeping an order twice: `move_step` rearranges the list,
`renumber` sorts by the positions the steps still carry.

Further divergences, each an exception a property states or a step a model takes:

- "Preparing again supersedes the previous scope" (`api/actions.py:205`): each of two
  preparations reads the open scopes before the other commits, and preparing recorded
  actions again locks nothing, so two scopes of one key may stay current over one
  row (`CurrentScopesDisjoint` speaks only of a scope the newer could read, `basis`).
- "Every item in the scope must still be the approval that was prepared"
  (`api/actions.py:465`): a decision is dated when it begins (`domain/review.py:936`)
  and the confirmation compares dates, so an override dated before a scope and
  committed after it goes unnoticed and the scope runs what it replaced (`crossed`).
- "A run holding unexecuted actions reports `awaiting_actions` rather than claiming
  completion" (`README.md:655`): of two requests that recompute one review, each from
  rows or a plan the other has not committed, one may write completed and the
  other, finding the state it loaded, write none (`stale`). Of two decisions
  on one row, the later may find its value equal to what it loaded and write none,
  so the row keeps the earlier one though the history has both.

- "Only one revision of a playbook is active at a time" (`db/models.py:630`) fails
  when two confirmations overlap (`crossed`), and the mark "invalid" made by a
  request that is then refused is rolled back with it (`Restore`, `AskConfirm`).
- Advancing counts an abandoned review as finished, though `api/session.py:348`
  speaks of finishing it, and an abandoned session can still be advanced and its
  activities begun. A request for a pinned session still needs the playbook in
  force to be readable.
- `amend_rule` does not look for a twin as writing a rule does. "The test that lets
  it be confirmed is always a test of the version being confirmed"
  (`rule_testing.py`) fails when an amendment overlaps the test.
- A learned or written rule that was retired comes back when a request that had
  loaded it before promotes it; a learned one cannot be retired once the
  configuration stops allowing learning. Rules of the rulebook shape no review
  yet: `read_effective_rules` has no caller. Neither has `revise_review_playbook`.
- "Agreeing with a recommendation takes exactly the action that was shown"
  (`domain/review.py:168`): an approval takes what the row recommends when it is
  recorded, and an assessment may have replaced that since (`unseen`). It names no
  folder and leaves the one of the rule it replaced. Two answers to one row may
  leave the columns of both (`mixed`).
- Two scans that change one row stop the event loop (`stuck`), where
  `refresh_evidence` is "never fatal to the review itself" (`api/review.py:923`). A
  thread whose capability label is removed while it stays in the inbox keeps its
  capability.
- A document whose activities are stored out of order is renumbered by where they
  are stored when its Monday scope is set. The shipped file stores them in order
  and every change keeps them so (`WellKept`), so this is the file's doing alone;
  `DocumentAssumption` says that it does.

## What is proved

`ActionExecutionProofs` proves, for any sets of actions, items, requests and any
bounds that satisfy the assumptions of ActionExecution:

- `TypeCorrect`: `Spec => []TypeOK`;
- `NothingHalfDone`: `Spec => []NeverHalfDone`;
- `OneWriter`: `Spec => []OneWriterPerAction`;
- `RecordKeepsPromise`: `Spec => PromiseKept`, the refinement of ActionPromise.

None is inductive as it stands. The invariant that is, `IInv`, adds what a
transaction knows of itself (`TxOK`: the row it is working on is the one it
holds, an outcome it loaded is still an outcome, the rows it has finished with
carry outcomes, and an item row it wrote carries the outcome of one of them),
that no two transactions hold one row (`LocksOK`), and that scopes, decisions and
drafts refer to what exists. `NextInv` has a lemma per action; the operators on a
transaction (`BegunOK`, `SettledOK`, `FailedOK`, `PerformedOK`, ...) have theirs.
The refinement needs the invariant only at a commit (`CommitSettles`): every
other step leaves the record alone or is a step of the promise.

What the mailbox has to do with the record is proved from a second invariant over
the first, `EffectInv`:

- `CompletedWorkShows`: `Spec => []CompletedHasEffect`;
- `OnlyApprovedSent`: `Spec => []SentWasApproved`;
- `ExecutedItemsBacked`: `Spec => []ExecutedItemHasCompletedAction`;
- `SecondDraftsExplained`: `Spec => []SecondDraftOnlyAfterLoss`.

A row is true of the mailbox (`RowTrue`: what it refers to exists, in its thread;
a completed one has had its effect; a sent one was approved) not only where it
is committed but in every copy, flushed or loaded, that a request may still write
(`TxTrue`), and no copy forgets a reference the committed row has. Together with
what a request compared before it wrote (`Compared`) and that an action has
written at most one draft unless it is excused (`OnceMade`), this is preserved:
the mailbox only grows (`MailMoves`), and a row once true of it stays true
(`RowKept`). Proving it showed two of the four properties false as they were first
stated. A retry whose row refers to a draft does not look for another
(`domain/actions.py:899` looks only where there is no reference), so a second draft
may also follow a first one that is gone; and two requests that overlap on
an item may leave it executed over an action the other found undone, so `overtaken`
records the items written while another request had them loaded.

`ActionScopesProofs` proves every property that `scopes` checks: `ScopesTyped`,
`ScopesStandAlways` (`ScopesStand`), `ApprovalIsTheOnlyRoute`
(`NothingWithoutApproval`), `ScopeRunsAsConfirmed` (`ConfirmedAsPrepared`),
`AbandonedIsDisarmed` (`AbandonDisarms`) and, of steps, `DeclinedIsLeftAlone`
(`DeclinedStaysUntouched`); and `ScopesKeepPromise`, that its record implements
ActionPromise, with the rows of an item and an intent for its actions.

A scope has rows of its own capability alone (`ScopeRowsOK`), and an opened one has
read every older scope it has to supersede (`OpeningOK`); two that are both
current therefore overlapped, or one has no key. A preparation brings at most one new row to an
item, which nobody else inserts (`PreparingOK`). A confirmed scope runs what was
prepared because a decision that it could not see when it was opened is dated after
it (`DatesOK`), so that the check of the dates refuses it; decisions in flight at
the opening are those the property excepts. What an execution began with stands
(`BeganStands`): an item withdrawn from it under way was decided again since. A
current scope of a review set aside was committed after the others had been read
to be disarmed (`DisarmingOK`). The promise needs one thing more, that an item an
execution will write reads what one of its actions came to (`OutcomesShown`): the
commit is then one settlement, and so is a verification.

`MondayTaskProofs` proves every property that `monday_task` checks: `MondayTyped`,
`AtMostOneItem` (`OneItemPerTask`), `StepsNumbered` (`AuditInOrder`) and, of steps,
`TaskKeepsItsItem` (`ItemKept`). One item for a task is not inductive: a create
that nobody waits for any more may still be carried out. What is preserved is that
a task has one item or one create that may bring it, never both (`OneSource`), where
creates are those about to be asked for and those left on the wire; the same count of
attempts past the gate (`OneAttempt`) numbers the audit.

`ReviewRunsProofs` proves every property that `review_runs` checks, for any
threads, contents, capabilities, requests and bounds that satisfy `ReviewAssumption`:
`TypeCorrect`, `OneReviewCurrent` (`OneCurrent`), `SettledOnce` (`AskedOnce`),
`CompletedReviewDone` (`CompletedIsDone`), `PlansAgreed` (`NoPlanLeftToAgree`),
`AsksWhatIsThere` (`AsksOnlyWhatIsThere`) and `SettledRowsKept` (`SettledKept`).

What has to be added for an inductive invariant is what requests in flight know and
make (`RequestOK`). The last review is never abandoned (`LastOpen`), and one opening
or continuation runs at a time (`OneAsks`), so only the last review is filled. A request
that read a review still finds there the rows it read, with their contents, and
the plan agreed if it was (`Knows`); what it makes of them has its plan agreed and
is done if it says completed (`Makes`), so its commit is done too unless what it
computed from has changed, which is when the review is `stale`. Content may return, so
`AskedOnce` cannot rest on what a thread says growing: what is preserved is that no
review has, or is being given, a row at the content its thread was last settled with
in an earlier review (`Fresh`, `Asking`), which is what `read_settled_hashes` looks
at. A commit that settles a row, or takes it up again, behind a row of a later
review is `late`. `ReplacedRun` says once what a commit must show of the one review it
replaces (`Succeeds`); each action then shows that.

`AssistantSessionsProofs` proves what `assistant`
checks of the playbook and of sessions, for any capabilities, activities,
arrangements, requests and budgets. Of `PlaybookSpec`, the playbook alone:
`PlaybookTypeCorrect`, `PlaybookAlwaysStands` (`PlaybookStands`) and
`ConfirmationsUndoNothing` (`NothingUndone`). Of `AssistantSpec`, sessions over the
playbook: `SessionTypeCorrect`, `PlaybookStandsUnderSessions`,
`SessionsUndoNothing`, `SessionsAlwaysStand` (`SessionStands`) and
`CompletedSessionsDone` (`CompletedHasNothingLeft`). Of `DocumentSpec`:
`DocumentTyped` (`DocumentTypeOK`), `DocumentReorders` (`ReordersAsAsked`) and
`MovedStepsStay`. The other components, and all of them beside each other, follow
below.

Added for the playbook is what a request in flight still knows (`RequestOK`): what
it loaded is there, what it will replace was agreed to, what it loaded as no
proposal is none now, and a proposal about to be written replaces its base. Every
action that changes what is in force is one change of three rows at most
(`PutsInForce`), and one lemma, `InForceMoves`, shows what such a change keeps; a
reading of the playbook is that change too (`ReadMoves`), whether a proposal or a
session made it. Of sessions, `OneUnderWay` is not inductive: opening sets aside
the newest session under way, which is all of them only because the others were
overtaken (`LastUnderWay`). `MadeOf` says what a request may make of the columns it
read (activities go forward, a session is completed only with nothing left), with a
lemma for each of beginning, working and advancing; and what it read as done is
still done in the session it writes to (`WorkingOK`), unless another has put it
back in hand, which is when the session is `rewound`.

Of the document, what is preserved (`DocumentInv`) is that both documents of a
proposal are as they are kept (`WellKept`: no key and no position twice, activities
stored in the order they are worked in) and that the changes so far have done no more
to the order of the one they were based on than they say (`OrderKept`). It rests on
facts about the operators, for lists of any length: ranks are places (`RankPlaces`),
so sorting permutes and orders (`InOrderIs`); taking out and putting in keeps the rest
(`WithoutIs`, `PutBesideIs`); renumbering leaves activities where they stand and steps
as sorted (`RenumberedIs`). Each change then moves no more than it says
(`ChangeStands`), and what two changes do in turn is what both say (`ObeysInTurn`).
`OrderKept` is more than `ReordersAsAsked` asks: it excuses no step for having been
moved. That is `MovedStepsStay`, the disagreement of `playbook_move_step` for every
document and every list of changes. The proof also found that `Rewritten` told
turning on an activity that is there from bringing one in by the order of its cases
alone, which TLC reads from the top and TLA+ does not; the cases now exclude each other.

`AssistantProofs` proves what `assistant` checks of the other components, each alone,
for any requests, budgets, rules, reviews, mail and boards that satisfy the
assumptions of its module:

| theorems | of | the inductive invariant |
|---|---|---|
| `RulesStand`, `RulesStandUnderAnswers` (`RulesStandAsGranted`) | LearnedRules, Recommendations | `LearnedInv`: a rule in a state has the confirmations and grants that state takes (`Justified`), and a request in flight moves it only as what it loaded allowed (`TeachingOK`) |
| `AskedBefore` (`NothingUnasked`), `AdviceKept` | Recommendations | `AdviceInv`: an answer in flight holds, for each row, what was asked, or the row is among those it had not seen change (`AnswerOK`) |
| `EffectiveRulesAgreed` (`EffectiveAsAgreed`), `RulebookKept` | Rulebook | `RulebookInv`: tests and agreements are of versions that exist and cover the version of a rule in effect (`Earned`); a request knows versions that are there (`ReadingOK`); every version is well formed and narrows, and what narrows matches no bare mail |
| `PruneSpares` (`PruneSparesPresent`), `InboxIsLeft` (`LeavesWithTheInbox`), `EvidenceTyped` | EvidenceSync | `EvidenceInv`: what a scan holds, has sent and has pending is one write per row, locked once (`LockedOnce`), and what it has marked as found or rechecked is what it saw (`ScanOK`) |
| `LogsTellReviews` (`LogTellsReview`), `ResultsStayWhole` (`ResultIsWhole`), `GuidedKept` (`GuidedTypeOK`) | GuidedReview | `GuidedInv`: a review is well by the document it pinned, which stays where it is: its log, event by event, counts its snapshots and tells its state (`LogOK`), the last snapshot is its only result and whole (`ResultOK`) |
| `ReportsAreTrue` (`ReportTellsBoard`), `BoardsKept` | TodoBoards | `TodoInv`: an item nobody else touched reads, column by column, what the done part of the bulk tells (`Tells`), with nothing said of what is still to do |

Two of these properties changed on the way. `PruneSparesPresent` asked that the
thread be within reach of some capability all along; a thread relabelled from one
watched capability to another while a scan lists their labels is missed by both
searches, so it asks that one capability could have found it throughout.
`ReportTellsBoard` named the last update that says something of a column by a
recursive walk; it now names it outright, which is the same and can be reasoned
about.

`AssistantWholeProofs` puts them together, for `WholeSpec`, the specification of the
run `assistant` for any budgets: `WholeTyped` (`TypeOK`), `WholeStands` (`PlaybookStands`, `SessionStands`,
`CompletedHasNothingLeft`, `LogTellsReview`, `ResultIsWhole`, `RulesStandAsGranted`,
`EffectiveAsAgreed`, `ReordersAsAsked` and `ReportTellsBoard`), `WholeUndoesNothing` (`NothingUndone`),
`WholeAsks` (`NothingUnasked`) and `WholeScans` (`PruneSparesPresent`,
`LeavesWithTheInbox`). The argument is that a step of the whole is, for each
component, a step of its own or none (`EachBeside`), and that what the others change
of what it reads is the budget, which stays one (`SpendsKept`).
Recommendations and LearnedRules share the rules, so their invariant is one.

`NumberSets` has the facts about the largest and smallest of some numbers that the
others cite.

Only model-checked:

- `RequestsEnd`, because liveness under fairness and ENABLED are out of the prover's reach;
- what the five runs that end in a violation show, each a behaviour TLC finds;
- for a given value of the constants, that the assumptions can be met: TLC evaluates
  every `ASSUME` of a module in the run that extends it.

The specifications have no recursive operator. `Matches` and `Narrows` go through a
tree of conditions once per level, up to `MAXIMUM_DEPTH`, which is the code's own
limit on nesting (`domain/conditions.py`), so the theorem about them holds for every
tree the code accepts.


## What is not modelled

Similarity scoring, the confidence of a recommendation and the reading of
sentences into conditions (`patterns.py`): pure functions of data the properties
do not tell apart. Response bodies, screens, the published schema and the framing
of MCP; configuration parsing (what it permits is a constant, or `grants` and
`enabled` where it is edited); label and folder lookups; the board and key
initiative reads of `main.py` and of `api/admin.py`; migrations. Of evidence, sent
and draft labels and the recheck of a whole review. Of two requests that overlap,
what a statement reads between two of the steps given for each: a step reads what
is committed at one moment. The components of
Assistant are beside each other but not wired at every point: ReviewRuns takes
its mail from its own `Sync`, and a session its reviews from `ReviewMoves`.

## Plan

Done: every module above, a theorem for every safety property the runs check, and the
refinement of ActionPromise by both modules of executions. Next, in this order:

1. The two hazards without a property, the waits that stop the event loop. The models
   have them (`Block`, `stuck`); what could be stated is that nothing else stops it.
2. More of the code: the reads of `api/review.py` that recompute a review, sent and draft
   labels of evidence, and the scope a playbook change carries.

