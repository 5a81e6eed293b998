----------------------------- MODULE ActionScopes -----------------------------
(***************************************************************************)
(* What a confirmed execution may touch: decisions on the items of one     *)
(* review, preparations that turn approvals into scopes, and executions of *)
(* a scope, which must still be what was prepared (adminos/domain/scopes.py*)
(* with the decision half of review.py and the selection half of           *)
(* api/actions.py).                                                        *)
(*                                                                         *)
(* A decision loads its rows in one step and commits in another, dated at  *)
(* any moment between; a preparation reads the items, then opens its scope *)
(* and reads the ones it supersedes, then commits; setting the review      *)
(* aside reads the open scopes and commits.  These endpoints run in a pool *)
(* of threads, so requests of every kind overlap.  An execution runs its   *)
(* actions one by one between them; one is in flight at a time, for what   *)
(* two executions do to each other, and the inside of one attempt, is      *)
(* ActionExecution.                                                        *)
(***************************************************************************)
EXTENDS Executors, Sequences

CONSTANTS
  Items,            \* review_items rows of the run
  Capabilities,     \* capability keys
  CapabilityOf,     \* the group an item is in
  Intents,          \* action kinds a decision may name, on a thread
  Permitted,        \* the intents a capability is allowed
  Recommended,      \* what each item is recommended, NoIntent if nothing
  NoIntent, NoCapability,
  Deciders,         \* decision requests that may be in flight at once
  Preparers,        \* preparations that may be in flight at once
  MaxScopes,        \* bound: scopes opened, committed or not
  MaxDecisions,     \* bound: decisions on each item
  SetAside          \* bound: whether the review may be set aside

ASSUME ItemsAssumption ==
  /\ CapabilityOf \in [Items -> Capabilities] /\ NoCapability \notin Capabilities
  /\ Intents \subseteq ThreadKinds /\ NoIntent \notin Intents
  /\ Permitted \in [Capabilities -> SUBSET Intents]
  /\ Recommended \in [Items -> Intents \cup {NoIntent}]
ASSUME LimitsAssumption == 
  MaxScopes \in Nat /\ MaxDecisions \in [Items -> Nat] /\ SetAside \in BOOLEAN

VARIABLES
  item,      \* state, approved intent, number and date of the decisions on it
  action,    \* state of the action recorded for an item and an intent
  recorded,  \* the intents recorded for an item, oldest first
  scopes,    \* the committed scopes of the run, oldest first
  opened,    \* the clock: how many scopes were opened, each dated by its number
  deciding,  \* decisions in flight: the rows they loaded and what they decide
  preparing, \* preparations in flight: what they read, then the scope they opened
  executing, \* an execution in flight, with the rows it has not committed
  setting,   \* the request that sets the review aside: the open scopes it read
  abandoned, \* the review was set aside
  labels,    \* Gmail: labels of each thread
  approvals  \* history: every intent a decision ever approved

requests == <<deciding, preparing, executing, setting>>
vars == <<item, action, recorded, scopes, opened, requests, abandoned, labels, approvals>>

DecisionKinds == {"approve", "override", "dismiss", "defer"}
ItemStates == {"pending", "approved", "executed", "failed", "dismissed", "deferred"}
ActionStates == {"absent", "prepared", "completed", "failed"}
Terminal == {"dismissed", "executed"}
Withdrawn == {"pending", "dismissed", "deferred"}
Pairs == Items \X Intents

\* The columns of an item that a decision writes.
Columns == [state: ItemStates, intent: Intents \cup {NoIntent}]
Blank == [state |-> "pending", intent |-> NoIntent]

NoDecision ==
  [on |-> {}, was |-> [i \in Items |-> Blank], has |-> [i \in Items |-> Blank], since |-> 0]

NoPreparation ==
  [phase |-> "none", capability |-> NoCapability, actions |-> {}, fresh |-> {},
   read |-> [i \in Items |-> 0], crossed |-> {}, created |-> 0, basis |-> 0, open |-> {}]

NoExecution ==
  [open |-> FALSE, scope |-> 0, todo |-> [i \in Items |-> {}],
   rows |-> [a \in Pairs |-> "none"], loaded |-> [i \in Items |-> "pending"],
   states |-> [i \in Items |-> "none"], began |-> [i \in Items |-> 0]]

Init ==
  /\ item = [i \in Items |->
       [state |-> "pending", intent |-> NoIntent, decision |-> 0, dated |-> 0]]
  /\ action = [a \in Pairs |-> "absent"]
  /\ recorded = [i \in Items |-> <<>>]
  /\ scopes = <<>> /\ opened = 0
  /\ deciding = [h \in Deciders |-> NoDecision]
  /\ preparing = [h \in Preparers |-> NoPreparation]
  /\ executing = NoExecution
  /\ setting = [on |-> FALSE, open |-> {}]
  /\ abandoned = FALSE
  /\ labels = [i \in Items |-> {"INBOX"}]
  /\ approvals = {}

-----------------------------------------------------------------------------
(* Decisions                                                               *)

\* resolve_action: the intent a decision authorises, if any.
Chosen(i, kind, k) ==
  CASE kind = "approve"  -> Recommended[i]
    [] kind = "override" -> k
    [] OTHER             -> NoIntent

\* The one thing that may be decided about a settled item.
RestoresTrash(i, kind, k) ==
  /\ kind = "override" /\ k = "untrash"
  /\ item[i].state = "executed" /\ item[i].intent = "trash"

MayDecide(i, kind, k) ==
  /\ item[i].state \notin Terminal \/ RestoresTrash(i, kind, k)
  /\ kind \in {"approve", "override"} => Chosen(i, kind, k) \in Permitted[CapabilityOf[i]]

Decided(i, kind, k) ==
  [state |-> CASE kind = "defer" -> "deferred" [] kind = "dismiss" -> "dismissed"
               [] OTHER -> "approved",
   intent |-> Chosen(i, kind, k)]

Shows(i) == [state |-> item[i].state, intent |-> item[i].intent]

\* The decisions on an item, committed or in flight.
DecisionsMade(i) == item[i].decision + Cardinality({h \in Deciders : i \in deciding[h].on})

\* decide_group, and record_decision when S is one item: the rows are loaded, and
\* every one that was named may be decided so, or none is decided.
Decide(h, S, kind, k) ==
  /\ ~abandoned /\ deciding[h].on = {}
  /\ S # {} /\ \A i, j \in S : CapabilityOf[i] = CapabilityOf[j]
  /\ \A i \in S : MayDecide(i, kind, k) /\ DecisionsMade(i) < MaxDecisions[i]
  /\ deciding' = [deciding EXCEPT ![h] =
       [on |-> S,
        was |-> [i \in Items |-> IF i \in S THEN Shows(i) ELSE Blank],
        has |-> [i \in Items |-> IF i \in S THEN Decided(i, kind, k) ELSE Blank],
        since |-> opened]]
  /\ UNCHANGED <<item, action, recorded, scopes, opened, preparing, executing, setting,
                 abandoned, labels, approvals>>

\* A flush writes the columns whose value is not the one that was loaded.
Over(current, was, has) == IF has = was THEN current ELSE has

\* record_decision and the commit, once an execution that wrote the row lets go of
\* it.  The date was taken at any moment since the rows were loaded.
DecideFinish(h, dates) ==
  LET d == deciding[h] IN
  /\ d.on # {} /\ \A i \in d.on : executing.states[i] = "none"
  /\ \A i \in d.on : dates[i] \in d.since .. opened
  /\ item' = [i \in Items |->
       IF i \notin d.on THEN item[i]
       ELSE [state |-> Over(item[i].state, d.was[i].state, d.has[i].state),
             intent |-> Over(item[i].intent, d.was[i].intent, d.has[i].intent),
             decision |-> item[i].decision + 1, dated |-> dates[i]]]
  /\ approvals' = approvals \cup {a \in Pairs : a[1] \in d.on /\ a[2] = d.has[a[1]].intent}
  /\ deciding' = [deciding EXCEPT ![h] = NoDecision]
  /\ UNCHANGED <<action, recorded, scopes, opened, preparing, executing, setting, abandoned, labels>>

\* A restart between the two, or a rollback.
DecideLost(h) ==
  /\ deciding[h].on # {}
  /\ deciding' = [deciding EXCEPT ![h] = NoDecision]
  /\ UNCHANGED <<item, action, recorded, scopes, opened, preparing, executing, setting,
                 abandoned, labels, approvals>>

-----------------------------------------------------------------------------
(* Preparing                                                               *)

\* Mutant: what was recommended is recorded, approved or not.
WantedUnasked(i) == {a \in Pairs : a[1] = i /\ a[2] = Recommended[i]}

\* ensure_actions: the intent of an approved item is recorded.
Wanted(i) == {a \in Pairs : a[1] = i /\ item[i].state = "approved" /\ a[2] = item[i].intent}

\* prepare_selected: everything recorded for the item and not completed, the
\* intents of earlier decisions included.
Outstanding(i) ==
  {a \in Pairs : /\ a[1] = i
                 /\ \/ action[a] \notin {"absent", "completed"}
                    \/ action[a] = "absent" /\ a \in Wanted(i)}

\* The rows are named, or are every approved row of a named capability.
Selection(capability, ids) ==
  \/ ids # {}
  \/ /\ capability # NoCapability
     /\ ~\E i \in Items : CapabilityOf[i] = capability /\ item[i].state = "approved"

\* The decisions a set of items carries now.
DecisionsOf(S) == [i \in Items |-> IF i \in S THEN item[i].decision ELSE 0]

\* The items and their actions are read; rows of another capability are left out.
PrepareRead(h, capability, ids) ==
  LET kept == {i \in ids : capability \in {NoCapability, CapabilityOf[i]}}
      due == UNION {Outstanding(i) : i \in kept}
  IN  /\ ~abandoned /\ preparing[h].phase = "none" /\ opened < MaxScopes
      /\ Selection(capability, ids)
      /\ preparing' = [preparing EXCEPT ![h] =
           [NoPreparation EXCEPT
              !.phase = "read", !.capability = capability, !.actions = due,
              !.fresh = {a \in due : action[a] = "absent"},
              !.read = DecisionsOf({a[1] : a \in due})]]
      /\ UNCHANGED <<item, action, recorded, scopes, opened, deciding, executing, setting,
                     abandoned, labels, approvals>>

\* Mutant: only a scope with the very same key is superseded.
OpenSameKey(capability) ==
  {n \in DOMAIN scopes : scopes[n].state = "current" /\ scopes[n].capability = capability}

\* read_open_scopes: with a key, the current scopes of that key; with none, every
\* current scope.
OpenScopes(capability) ==
  {n \in DOMAIN scopes : /\ scopes[n].state = "current"
                         /\ capability \in {NoCapability, scopes[n].capability}}

Superseded(S) ==
  [n \in DOMAIN scopes |-> IF n \in S THEN [scopes[n] EXCEPT !.state = "superseded"] ELSE scopes[n]]

\* The idempotency key lets one request in flight insert a row; the other waits.
Inserted(a) == \E g \in Preparers : preparing[g].phase = "open" /\ a \in preparing[g].fresh

\* open_scope: the new action rows are in, the scope has its date, and the scopes
\* it supersedes have been read.  The decisions it cannot date are those that
\* committed since the items were read, or are in flight.
PrepareOpen(h) ==
  LET p == preparing[h] IN
  /\ p.phase = "read" /\ opened < MaxScopes
  /\ \A a \in p.fresh : action[a] = "absent" /\ ~Inserted(a)
  /\ opened' = opened + 1
  /\ preparing' = [preparing EXCEPT ![h] =
       [phase |-> "open", capability |-> p.capability, actions |-> p.actions, fresh |-> p.fresh,
        read |-> p.read,
        crossed |-> {i \in Items : \/ item[i].decision # p.read[i]
                                   \/ \E g \in Deciders : i \in deciding[g].on},
        created |-> opened + 1, basis |-> Len(scopes), open |-> OpenScopes(p.capability)]]
  /\ UNCHANGED <<item, action, recorded, scopes, deciding, executing, setting,
                 abandoned, labels, approvals>>

\* The commit of everything the preparation recorded.  What it read as open it
\* supersedes, even if it was executed since.
PrepareCommit(h) ==
  LET p == preparing[h] IN
  /\ p.phase = "open"
  /\ action' = [a \in Pairs |-> IF a \in p.fresh THEN "prepared" ELSE action[a]]
  /\ recorded' = [i \in Items |->
       IF \E k \in Intents : <<i, k>> \in p.fresh
       THEN Append(recorded[i], CHOOSE k \in Intents : <<i, k>> \in p.fresh)
       ELSE recorded[i]]
  /\ scopes' = Append(Superseded(p.open),
       [capability |-> p.capability, state |-> "current", actions |-> p.actions,
        read |-> p.read, crossed |-> p.crossed, created |-> p.created, basis |-> p.basis,
        late |-> abandoned \/ setting.on])
  /\ preparing' = [preparing EXCEPT ![h] = NoPreparation]
  /\ UNCHANGED <<item, opened, deciding, executing, setting, abandoned, labels, approvals>>

\* A restart, or the refusal of a row another request has inserted meanwhile.
PrepareLost(h) ==
  /\ preparing[h].phase # "none"
  /\ preparing' = [preparing EXCEPT ![h] = NoPreparation]
  /\ UNCHANGED <<item, action, recorded, scopes, opened, deciding, executing, setting,
                 abandoned, labels, approvals>>

-----------------------------------------------------------------------------
(* Executing                                                               *)

Covered(n) == {a[1] : a \in scopes[n].actions}

\* Mutants of check_decisions_stand: one half of the check only.
NotWithdrawn(n) == \A i \in Covered(n) : item[i].state \notin Withdrawn
NotRedecided(n) == \A i \in Covered(n) : item[i].decision # 0 /\ item[i].dated < scopes[n].created

\* check_decisions_stand, by decided_after: no item was withdrawn, or has a decision
\* dated after the scope was opened, whatever the decision said.
DecisionsStand(n) ==
  \A i \in Covered(n) :
    /\ item[i].state \notin Withdrawn
    /\ item[i].decision # 0 /\ item[i].dated < scopes[n].created

\* What is left to run is kept as positions among the actions recorded for an item.
Start(n, actions) ==
  executing' =
    [NoExecution EXCEPT
       !.open = TRUE, !.scope = n,
       !.todo = [i \in Items |-> {m \in DOMAIN recorded[i] : <<i, recorded[i][m]>> \in actions}],
       !.loaded = [i \in Items |-> IF \E a \in actions : a[1] = i THEN item[i].state ELSE "pending"],
       !.began = DecisionsOf({a[1] : a \in actions})]

\* select_actions: the scope restated by the caller is current and its decisions
\* stand.
ExecuteScope(n, restated) ==
  /\ ~abandoned /\ ~executing.open
  /\ scopes[n].state = "current"
  /\ restated = Covered(n) /\ DecisionsStand(n)
  /\ Start(n, scopes[n].actions)
  /\ UNCHANGED <<item, action, recorded, scopes, opened, deciding, preparing, setting,
                 abandoned, labels, approvals>>

\* Retrying names one action, and is the only path without a scope.
Retry(a) ==
  /\ ~abandoned /\ ~executing.open
  /\ action[a] # "absent"
  /\ Start(0, {a})
  /\ UNCHANGED <<item, action, recorded, scopes, opened, deciding, preparing, setting,
                 abandoned, labels, approvals>>

\* What an outcome writes in the state of the item, whose row the request loaded
\* when it began: nothing, if it reads so already.
ItemWritten(i, outcome) ==
  LET state == IF outcome = "completed" THEN "executed" ELSE "failed"
  IN  IF executing.states[i] = "none" /\ state = executing.loaded[i] THEN "none" ELSE state

\* One action, the oldest left of its item: returned as it is when completed; else
\* the effect is in the mailbox and read back, or the attempt failed, before Gmail
\* wrote or after.
RunOne(i, outcome, written) ==
  /\ executing.open
  /\ \E n \in executing.todo[i] :
       LET k == recorded[i][n] IN
       /\ \A m \in executing.todo[i] : n <= m
       /\ IF action[<<i, k>>] = "completed"
          THEN executing' = [executing EXCEPT !.todo[i] = @ \ {n}] /\ UNCHANGED labels
          ELSE /\ outcome = "completed" => written
               /\ executing' = [executing EXCEPT
                    !.todo[i] = @ \ {n}, !.rows[<<i, k>>] = outcome,
                    !.states[i] = ItemWritten(i, outcome)]
               /\ labels' = IF written THEN [labels EXCEPT ![i] = Modified(k, @)] ELSE labels
  /\ UNCHANGED <<item, action, recorded, scopes, opened, deciding, preparing, setting,
                 abandoned, approvals>>

\* settle_scope and the commit: the scope is executed even if a preparation or an
\* abandonment superseded it meanwhile.
ExecuteFinish ==
  /\ executing.open /\ \A i \in Items : executing.todo[i] = {}
  /\ action' = [a \in Pairs |->
       IF executing.rows[a] = "none" THEN action[a] ELSE executing.rows[a]]
  /\ item' = [i \in Items |->
       IF executing.states[i] = "none" THEN item[i]
       ELSE [item[i] EXCEPT !.state = executing.states[i]]]
  /\ scopes' = IF executing.scope = 0 THEN scopes
               ELSE [scopes EXCEPT ![executing.scope].state = "executed"]
  /\ executing' = NoExecution
  /\ UNCHANGED <<recorded, opened, deciding, preparing, setting, abandoned, labels, approvals>>

\* A refusal in mid-scope, a timeout or a restart rolls everything back but the
\* mailbox.
ExecuteLost ==
  /\ executing.open
  /\ executing' = NoExecution
  /\ UNCHANGED <<item, action, recorded, scopes, opened, deciding, preparing, setting,
                 abandoned, labels, approvals>>

\* Mutant: the outcome of a verification stops between its two states.
VerifyHalfway(a, answered) ==
  /\ ~executing.open /\ action[a] \in {"completed", "failed"}
  /\ action' = [action EXCEPT ![a] = "verified"]
  /\ UNCHANGED <<item, recorded, scopes, opened, requests, abandoned, labels, approvals>>

\* verify_one_action reads one effect back and settles or fails it, in an
\* abandoned review as well; a read that is not answered fails it too.
Verify(a, answered) ==
  LET shown == answered /\ Shown(a[2], labels[a[1]]) IN
  /\ ~executing.open /\ action[a] \in {"completed", "failed"}
  /\ action' = [action EXCEPT ![a] = IF shown THEN "completed" ELSE "failed"]
  /\ item' = [item EXCEPT ![a[1]].state = IF shown THEN "executed" ELSE "failed"]
  /\ UNCHANGED <<recorded, scopes, opened, requests, abandoned, labels, approvals>>

-----------------------------------------------------------------------------
\* abandon_review: the review is set aside and what it had prepared disarmed.  The
\* open scopes are read first.  A request that is rolled back leaves nothing.
Abandon ==
  /\ SetAside /\ ~abandoned /\ ~setting.on
  /\ setting' = [on |-> TRUE, open |-> OpenScopes(NoCapability)]
  /\ UNCHANGED <<item, action, recorded, scopes, opened, deciding, preparing, executing,
                 abandoned, labels, approvals>>

\* Mutant: the prepared scopes stay as they were.
AbandonArmed ==
  /\ setting.on /\ abandoned' = TRUE
  /\ setting' = [on |-> FALSE, open |-> {}]
  /\ UNCHANGED <<item, action, recorded, scopes, opened, deciding, preparing, executing,
                 labels, approvals>>

AbandonFinish ==
  /\ setting.on /\ abandoned' = TRUE
  /\ scopes' = Superseded(setting.open)
  /\ setting' = [on |-> FALSE, open |-> {}]
  /\ UNCHANGED <<item, action, recorded, opened, deciding, preparing, executing, labels, approvals>>

Next ==
  \/ \E h \in Deciders :
       \/ \E S \in SUBSET Items, kind \in DecisionKinds, k \in Intents : Decide(h, S, kind, k)
       \/ \E dates \in [deciding[h].on -> 0 .. opened] : DecideFinish(h, dates)
       \/ DecideLost(h)
  \/ \E h \in Preparers :
       \/ \E c \in Capabilities \cup {NoCapability}, ids \in SUBSET Items : PrepareRead(h, c, ids)
       \/ PrepareOpen(h) \/ PrepareCommit(h) \/ PrepareLost(h)
  \/ \E n \in DOMAIN scopes, restated \in SUBSET Items : ExecuteScope(n, restated)
  \/ \E a \in Pairs : Retry(a) \/ \E answered \in BOOLEAN : Verify(a, answered)
  \/ \E i \in Items, outcome \in {"completed", "failed"}, written \in BOOLEAN :
       RunOne(i, outcome, written)
  \/ ExecuteFinish \/ ExecuteLost \/ Abandon \/ AbandonFinish

Spec == Init /\ [][Next]_vars
-----------------------------------------------------------------------------
(* Properties                                                              *)

ScopeType ==
  [capability: Capabilities \cup {NoCapability}, state: {"current", "executed", "superseded"},
   actions: SUBSET Pairs, read: [Items -> Nat], crossed: SUBSET Items, created: Nat,
   basis: Nat, late: BOOLEAN]

DecidingType ==
  [on: SUBSET Items, was: [Items -> Columns], has: [Items -> Columns], since: Nat]

PreparingType ==
  [phase: {"none", "read", "open"}, capability: Capabilities \cup {NoCapability},
   actions: SUBSET Pairs, fresh: SUBSET Pairs, read: [Items -> Nat], crossed: SUBSET Items,
   created: Nat, basis: Nat, open: SUBSET Nat]

ExecutingType ==
  [open: BOOLEAN, scope: Nat, todo: [Items -> SUBSET Nat],
   rows: [Pairs -> {"none", "completed", "failed"}],
   loaded: [Items -> ItemStates], states: [Items -> {"none", "executed", "failed"}],
   began: [Items -> Nat]]

Typed ==
  /\ item \in [Items -> [state: ItemStates, intent: Intents \cup {NoIntent},
                         decision: Nat, dated: Nat]]
  /\ action \in [Pairs -> ActionStates]
  /\ recorded \in [Items -> Seq(Intents)]
  /\ scopes \in Seq(ScopeType) /\ opened \in Nat
  /\ deciding \in [Deciders -> DecidingType]
  /\ preparing \in [Preparers -> PreparingType]
  /\ executing \in ExecutingType
  /\ setting \in [on: BOOLEAN, open: SUBSET Nat] /\ abandoned \in BOOLEAN
  /\ labels \in [Items -> SUBSET Labels]
  /\ approvals \subseteq Pairs

\* The intents for which an item has an action row.
There(i) == {k \in Intents : action[<<i, k>>] # "absent"}

RecordedOnce ==
  \A i \in Items :
    /\ Len(recorded[i]) = Cardinality(There(i))
    /\ \A k \in There(i) : \E n \in DOMAIN recorded[i] : recorded[i][n] = k

\* Every variable holds a value the code can give it, and an intent is recorded
\* exactly once for every action row.
TypeOK == Typed /\ RecordedOnce

\* Two current scopes never cover one item, unless the older was prepared without a
\* capability key (a keyed preparation leaves that one alone), or was not committed
\* yet when the newer one read the open scopes.
\* open_scope: "the previous scope stops being executable at that moment".
CurrentScopesDisjoint ==
  \A m, n \in DOMAIN scopes :
    /\ m <= scopes[n].basis /\ scopes[m].state = "current" /\ scopes[n].state = "current"
    /\ Covered(m) \cap Covered(n) # {}
    => scopes[m].capability = NoCapability /\ scopes[n].capability # NoCapability

\* A scope reads executed only when every action it names has an outcome, however
\* the execution interleaved with preparations, losses and an abandonment.
ExecutedScopeSettled ==
  \A n \in DOMAIN scopes : scopes[n].state = "executed" =>
    \A a \in scopes[n].actions : action[a] \in {"completed", "failed"}

\* A scope that stands is the only one over its rows, but for preparations that
\* overlapped, and one that is closed is settled.
ScopesStand == CurrentScopesDisjoint /\ ExecutedScopeSettled

\* prepare_selected: "Prepare one action per selected row".
OneActionPerRow ==
  \A n \in DOMAIN scopes : \A a, b \in scopes[n].actions : a[1] = b[1] => a = b

\* Nothing is recorded, and no thread is changed, for which no decision ever
\* approved that intent.  record_decision: "Approval is the only route to an action".
NothingWithoutApproval ==
  /\ \A a \in Pairs : action[a] # "absent" => a \in approvals
  /\ \A i \in Items : labels[i] # {"INBOX"} => \E a \in approvals : a[1] = i

\* What a scope runs was prepared from the very decisions that stood when it was
\* confirmed, but for an item whose decision committed between the reading and the
\* opening of the scope, or had loaded the item before the opening and committed
\* after: such a decision may be dated before the scope it follows.
ConfirmedAsPrepared ==
  executing.open /\ executing.scope # 0 =>
    \A i \in Covered(executing.scope) :
      LET s == scopes[executing.scope]
      IN  executing.began[i] = s.read[i] \/ i \in s.crossed

\* A scope never writes to a thread whose latest decision leaves it alone, unless
\* that decision was made after the scope had begun to run.
DeclinedStaysUntouched ==
  [][\A i \in Items : labels'[i] # labels[i] /\ executing.scope # 0 =>
       item[i].state \notin Withdrawn \/ item[i].decision # executing.began[i]]_vars

\* A review that is set aside has no scope left to run, but one that committed after
\* the open scopes had been read to be disarmed.
AbandonDisarms ==
  abandoned => \A n \in DOMAIN scopes : scopes[n].state = "current" => scopes[n].late
=============================================================================
