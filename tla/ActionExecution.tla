--------------------------- MODULE ActionExecution ---------------------------
(***************************************************************************)
(* How approved actions reach Gmail: the prepare, execute, retry, verify   *)
(* and send-draft requests of adminos/api/actions.py over the lifecycle of *)
(* adminos/domain/actions.py, one step per stretch of code between two     *)
(* awaits.                                                                 *)
(*                                                                         *)
(* Three stores are kept apart, because every hazard here is a             *)
(* disagreement between them:                                              *)
(*   - the committed rows (action, item, scope);                           *)
(*   - what each request holds uncommitted: the objects its session loaded *)
(*     (obj, iobj), which are never refreshed, and the rows it has flushed *)
(*     (row, irow), which Postgres keeps locked until the request ends;    *)
(*   - the mailbox, which no rollback undoes.                              *)
(*                                                                         *)
(* Handlers that are `async def` share one event loop and call the         *)
(* database synchronously: a request that must wait for a row another      *)
(* request holds stops the loop itself (Block).                            *)
(***************************************************************************)
EXTENDS Executors

CONSTANTS
  Actions,            \* review_actions rows that may come to exist
  Items,              \* review_items rows, each with a thread of its own
  ItemOf,             \* the item an action belongs to
  KindOf,             \* its action kind
  Requests,           \* async requests that may be in flight together
  Verdicts,           \* what a person may decide again about an item
  Revocable,          \* kinds a configuration edit may withdraw or restore
  OwnDrafts,          \* draft ids a person writes by hand on a thread
  ByHand,             \* what else a person does in the mailbox meanwhile
  NoAction, NoItem,   \* absent values
  RequireVerification,\* capability.execution.require_verification
  LossPossible,       \* a timeout, disconnect or restart may end a request
  MaxAttempts, MaxDrafts, MaxText, MaxScopes   \* bounds on counters

DraftIds == 1 .. MaxDrafts
ActionStates == {"absent", "approved", "prepared", "executed", "completed", "failed"}
ItemStates == {"pending", "approved", "executed", "failed", "dismissed", "deferred"}

ASSUME ActionsAssumption ==
  /\ ItemOf \in [Actions -> Items] /\ KindOf \in [Actions -> Kinds]
  /\ NoAction \notin Actions /\ NoItem \notin Items
  /\ \A a, b \in Actions :
       ItemOf[a] = ItemOf[b] /\ KindOf[a] # "send" /\ KindOf[b] # "send" => a = b
ASSUME ChoicesAssumption ==
  /\ Verdicts \subseteq {"approved", "dismissed", "deferred"}
  /\ Revocable \subseteq Kinds /\ OwnDrafts \subseteq DraftIds
  /\ ByHand \subseteq {"edit", "delete", "return"}
  /\ RequireVerification \in BOOLEAN /\ LossPossible \in BOOLEAN
ASSUME BoundsAssumption ==
  MaxAttempts \in Nat /\ MaxDrafts \in Nat /\ MaxText \in Nat \ {0} /\ MaxScopes \in Nat

VARIABLES
  action,   \* committed action rows
  item,     \* committed item states
  scope,    \* the newest prepared scope of the run
  decision, \* a decision whose handler has read its item and not yet written it
  permits,  \* kinds the capability configuration lets run
  labels,   \* Gmail: labels of each thread
  live,     \* Gmail: drafts that exist
  text,     \* Gmail: the message id a draft holds; editing a draft changes it
  madeFor,  \* Gmail: the action that created a draft, NoAction if a person did
  thread,   \* Gmail: the item whose thread a draft is on
  sent,     \* Gmail: drafts sent, with the message they held
  deleted,  \* Gmail: drafts deleted by hand
  tx,       \* what each request has in flight
  stuck,    \* the event loop waits for a row lock
  lost,     \* history: actions whose Gmail write was rolled back out of the record
  stale,    \* history: actions run from a row another request had since changed
  raced,    \* history: drafts edited between the fetch and the send of a request
  overtaken \* history: items a request wrote while another had them loaded

dbVars == <<action, item, scope, decision, permits>>
gmailVars == <<labels, live, text, madeFor, thread, sent, deleted>>
histVars == <<lost, stale, raced, overtaken>>
vars == <<dbVars, gmailVars, tx, stuck, histVars>>

\* An action row.  ref is a draft's external_ref and msg the message id its
\* verification recorded; for a send they are the approved draft and message.
Row == [state: ActionStates, attempts: 0 .. MaxAttempts,
        ref: 0 .. MaxDrafts, msg: 0 .. MaxText]

NoRow == [state |-> "absent", attempts |-> 0, ref |-> 0, msg |-> 0]

IdleTx == [pc |-> "idle", kind |-> "none", todo |-> {}, cur |-> NoAction,
           permits |-> {}, scope |-> 0, wrote |-> {},
           obj |-> [a \in Actions |-> NoRow], row |-> [a \in Actions |-> NoRow],
           held |-> {}, iobj |-> [i \in Items |-> "pending"],
           irow |-> [i \in Items |-> "pending"], iheld |-> {}]

NoDecision == [item |-> NoItem, to |-> "pending", scope |-> 0]

\* Every item starts approved, as the decisions that precede this module left
\* it; its thread is in the inbox and nothing is prepared.
Init ==
  /\ action = [a \in Actions |-> NoRow]
  /\ item = [i \in Items |-> "approved"]
  /\ scope = [id |-> 0, state |-> "none", actions |-> {}, stale |-> {}]
  /\ decision = NoDecision
  /\ permits = Kinds
  /\ labels = [i \in Items |-> {"INBOX"}]
  /\ live = {} /\ sent = {} /\ deleted = {}
  /\ text = [d \in DraftIds |-> 0]
  /\ madeFor = [d \in DraftIds |-> NoAction]
  /\ thread = [d \in DraftIds |-> NoItem]
  /\ tx = [r \in Requests |-> IdleTx]
  /\ stuck = FALSE
  /\ lost = {} /\ stale = {} /\ raced = {} /\ overtaken = {}

-----------------------------------------------------------------------------
(* Locks and the event loop                                                *)

RowFree(r, a) == \A q \in Requests \ {r} : a \notin tx[q].held
ItemFree(r, i) == \A q \in Requests \ {r} : i \notin tx[q].iheld
Unlocked(a) == \A q \in Requests : a \notin tx[q].held

\* Between two awaits a handler has the loop to itself.
HasLoop(r) == ~stuck /\ \A q \in Requests \ {r} : tx[q].pc # "ready"

\* The row of an action as the transaction t reads it: its own writes first.
Seen(t, a) == IF a \in t.held THEN t.row[a] ELSE action[a]

\* A flush writes the columns the session changed, and only those.
Put(column, loaded, new) == IF new # loaded THEN new ELSE column

-----------------------------------------------------------------------------
(* The threadpool requests: each is one transaction with no await in it     *)

\* approve_send_draft: bind a send to the draft and message that were read.
Authorise(a, b) ==
  /\ KindOf[a] = "send" /\ action[a].state = "absent"
  /\ KindOf[b] = "draft" /\ ItemOf[b] = ItemOf[a]
  /\ "send" \in permits
  /\ action[b].state = "completed" /\ action[b].msg # 0
  /\ \A c \in Actions : KindOf[c] = "send" /\ ItemOf[c] = ItemOf[a] =>
       ~(action[c].ref = action[b].ref /\ action[c].msg = action[b].msg)
  /\ action' = [action EXCEPT ![a] = [state |-> "approved", attempts |-> 0,
                                      ref |-> action[b].ref, msg |-> action[b].msg]]
  /\ UNCHANGED <<item, scope, decision, permits, gmailVars, tx, stuck, histVars>>

\* What a prepare request covers: the approval of an item recorded if it is
\* not yet, and everything of the item that is not completed.
Outstanding(chosen) ==
  {a \in Actions :
     /\ ItemOf[a] \in chosen
     /\ \/ action[a].state \notin {"absent", "completed"}
        \/ /\ action[a].state = "absent" /\ KindOf[a] # "send"
           /\ item[ItemOf[a]] = "approved"}

\* prepare_actions: record, plan, and replace the current scope.
Prepare(chosen) ==
  LET due == Outstanding(chosen)
      planned == {a \in due : action[a].state \in {"absent", "approved"}}
  IN  /\ chosen # {} /\ scope.id < MaxScopes
      /\ \A a \in due : KindOf[a] \in permits
      /\ \A a \in planned : Unlocked(a)
      /\ action' = [a \in Actions |->
           IF a \in planned THEN [action[a] EXCEPT !.state = "prepared"] ELSE action[a]]
      /\ scope' = [id |-> scope.id + 1, state |-> "current", actions |-> due, stale |-> {}]
      /\ UNCHANGED <<item, decision, permits, gmailVars, tx, stuck, histVars>>

\* record_decision reads the item it checks, and writes it in a later statement:
\* the write waits for a row an execution holds, the check is not repeated, and
\* the decision is dated when it was read: a scope prepared meanwhile is newer.
DecideRead(i, verdict) ==
  /\ decision.item = NoItem
  /\ item[i] \notin {"executed", "dismissed"}
  /\ decision' = [item |-> i, to |-> verdict, scope |-> scope.id]
  /\ UNCHANGED <<action, item, scope, permits, gmailVars, tx, stuck, histVars>>

DecideWrite ==
  /\ decision.item # NoItem
  /\ \A q \in Requests : decision.item \notin tx[q].iheld
  /\ item' = [item EXCEPT ![decision.item] = decision.to]
  /\ scope' = IF decision.scope = scope.id
              THEN [scope EXCEPT !.stale = @ \cup {decision.item}] ELSE scope
  /\ decision' = NoDecision
  /\ UNCHANGED <<action, permits, gmailVars, tx, stuck, histVars>>

\* The capability file is re-read whenever it changes on disk.
Reconfigure(k) ==
  /\ permits' = IF k \in permits THEN permits \ {k} ELSE permits \cup {k}
  /\ UNCHANGED <<action, item, scope, decision, gmailVars, tx, stuck, histVars>>

-----------------------------------------------------------------------------
(* Starting an async request: the rows it will act on are loaded once       *)

Loaded(kind, chosen, id) ==
  [pc |-> "ready", kind |-> kind, todo |-> chosen, cur |-> NoAction,
   permits |-> permits, scope |-> id, wrote |-> {},
   obj |-> [a \in Actions |-> IF a \in chosen THEN action[a] ELSE NoRow],
   row |-> [a \in Actions |-> NoRow], held |-> {},
   iobj |-> [i \in Items |-> IF \E a \in chosen : ItemOf[a] = i THEN item[i] ELSE "pending"],
   irow |-> [i \in Items |-> "pending"], iheld |-> {}]

Bounded(chosen) ==
  \A a \in chosen : action[a].state = "completed" \/ action[a].attempts < MaxAttempts

\* execute_actions with the current scope restated: refused when an item was
\* withdrawn or decided again since the scope was prepared.
StartScope(r) ==
  LET covered == {ItemOf[a] : a \in scope.actions}
  IN  /\ HasLoop(r) /\ tx[r].pc = "idle" /\ Bounded(scope.actions)
      /\ scope.state = "current"
      /\ \A i \in covered : item[i] \notin {"pending", "dismissed", "deferred"}
      /\ covered \cap scope.stale = {}
      /\ tx' = [tx EXCEPT ![r] = Loaded("scope", scope.actions, scope.id)]
      /\ UNCHANGED <<dbVars, gmailVars, stuck, histVars>>

\* retry_action names one action and needs neither a scope nor a failure.
StartRetry(r, a) ==
  /\ HasLoop(r) /\ tx[r].pc = "idle" /\ Bounded({a})
  /\ action[a].state # "absent"
  /\ tx' = [tx EXCEPT ![r] = Loaded("retry", {a}, 0)]
  /\ UNCHANGED <<dbVars, gmailVars, stuck, histVars>>

\* verify_one_action goes straight to the read-back.
StartVerify(r, a) ==
  /\ HasLoop(r) /\ tx[r].pc = "idle"
  /\ action[a].state \notin {"absent", "approved", "prepared"}
  /\ tx' = [tx EXCEPT ![r] = [Loaded("verify", {a}, 0) EXCEPT !.pc = "verify", !.cur = a]]
  /\ UNCHANGED <<dbVars, gmailVars, stuck, histVars>>

-----------------------------------------------------------------------------
(* One action of a request, from its first write to its outcome             *)

\* The first Gmail call once it is known the effect is not there already.
FirstCall(a, o) == IF LooksFirst(KindOf[a], o.attempts, o.ref) THEN "look" ELSE "write"

\* Mutant: the attempt is counted in memory and flushed only with its outcome.
BegunUnlocked(t, a) ==
  LET n == [t.obj[a] EXCEPT !.state = "prepared", !.attempts = t.obj[a].attempts + 1]
  IN  [t EXCEPT !.cur = a, !.obj = [t.obj EXCEPT ![a] = n], !.row = [t.row EXCEPT ![a] = n],
                !.pc = IF n.attempts > 1 THEN "check" ELSE FirstCall(a, n)]

\* prepare_action, then execute_action up to its first await: one more attempt,
\* flushed with the event that announces it, which takes the row's lock.
Begun(t, a) ==
  LET o == t.obj[a]
      n == [o EXCEPT !.state = IF o.state = "approved" THEN "prepared" ELSE o.state,
                     !.attempts = o.attempts + 1]
      w == [Seen(t, a) EXCEPT !.state = Put(Seen(t, a).state, o.state, n.state),
                              !.attempts = n.attempts]
  IN  [t EXCEPT !.cur = a, !.held = t.held \cup {a},
                !.obj = [t.obj EXCEPT ![a] = n], !.row = [t.row EXCEPT ![a] = w],
                !.pc = IF n.attempts > 1 THEN "check" ELSE FirstCall(a, n)]

\* An attempt ends: its row and its item carry the outcome.  The item row is
\* written, and locked, only when the session had loaded something else.
Ended(t, o, w, verdict) ==
  LET a == t.cur
      i == ItemOf[a]
      changes == t.iobj[i] # verdict
  IN  [t EXCEPT !.pc = "ready", !.todo = t.todo \ {a}, !.cur = NoAction,
                !.held = t.held \cup {a},
                !.obj = [t.obj EXCEPT ![a] = o], !.row = [t.row EXCEPT ![a] = w],
                !.iheld = IF changes THEN t.iheld \cup {i} ELSE t.iheld,
                !.iobj = [t.iobj EXCEPT ![i] = verdict],
                !.irow = [t.irow EXCEPT ![i] = IF changes THEN verdict ELSE t.irow[i]]]

\* Mutant: settle_verified stops at the state between its two flushes.
SettledHalfway(t, m) ==
  LET o == t.obj[t.cur]
      w == Seen(t, t.cur)
  IN  Ended(t, [o EXCEPT !.state = "verified", !.msg = m],
               [w EXCEPT !.state = "verified", !.msg = Put(w.msg, o.msg, m)], "executed")

\* settle_verified: completed, and its item executed, whatever the item was.
Settled(t, m) ==
  LET o == t.obj[t.cur]
      w == Seen(t, t.cur)
  IN  Ended(t, [o EXCEPT !.state = "completed", !.msg = m],
               [w EXCEPT !.state = "completed", !.msg = Put(w.msg, o.msg, m)], "executed")

\* Mutants of fail_action: the action goes back to prepared; the item is left as
\* it was.
FailedToPrepared(t, m) ==
  LET o == [t.obj[t.cur] EXCEPT !.state = "prepared", !.msg = m]
  IN  Ended(t, o, o, "failed")

FailedQuietly(t, m) ==
  LET o == [t.obj[t.cur] EXCEPT !.state = "failed", !.msg = m]
  IN  Ended(t, o, o, t.iobj[ItemOf[t.cur]])

\* fail_action: failed and retryable, and its item failed.
Failed(t, m) ==
  LET o == t.obj[t.cur]
      w == Seen(t, t.cur)
  IN  Ended(t, [o EXCEPT !.state = "failed", !.msg = m],
               [w EXCEPT !.state = Put(w.state, o.state, "failed"),
                         !.msg = Put(w.msg, o.msg, m)], "failed")

\* The write is in Gmail: record it and read it back, or settle without.
Performed(t, ref) ==
  LET a == t.cur
      o == t.obj[a]
      w == t.row[a]
      u == [t EXCEPT !.pc = "verify",
                     !.obj = [t.obj EXCEPT ![a] = [o EXCEPT !.state = "executed", !.ref = ref]],
                     !.row = [t.row EXCEPT ![a] = [w EXCEPT !.state = "executed",
                                                            !.ref = Put(w.ref, o.ref, ref)]]]
  IN  IF RequireVerification THEN u
      ELSE Settled(u, IF KindOf[a] = "send" THEN t.obj[a].msg ELSE 0)

\* What the executor's read-back answers about the current action.
Verified(t) ==
  LET a == t.cur
  IN  CASE KindOf[a] \in ThreadKinds -> Shown(KindOf[a], labels[ItemOf[a]])
        [] KindOf[a] = "draft" -> t.obj[a].ref \in live
        [] KindOf[a] = "send"  -> t.obj[a].ref \notin live

\* The message id a successful read-back records.
ReadBack(t) ==
  CASE KindOf[t.cur] = "draft" -> text[t.obj[t.cur].ref]
    [] OTHER -> t.obj[t.cur].msg

\* What replaces it when the effect does not show.
Unread(t) == IF KindOf[t.cur] = "draft" THEN 0 ELSE t.obj[t.cur].msg

\* The item row a step writes is free, or the step does not change it.
MayWrite(r, to) ==
  LET a == tx[r].cur IN
  /\ RowFree(r, a)
  /\ tx[r].iobj[ItemOf[a]] = to \/ ItemFree(r, ItemOf[a])

Settle(r, m) == MayWrite(r, "executed") /\ tx' = [tx EXCEPT ![r] = Settled(tx[r], m)]
Fail(r, m) == MayWrite(r, "failed") /\ tx' = [tx EXCEPT ![r] = Failed(tx[r], m)]
Perform(r, t, ref) ==
  /\ RequireVerification \/ MayWrite(r, "executed")
  /\ tx' = [tx EXCEPT ![r] = Performed(t, ref)]

\* Mutant: a completed action is left at the head of the loop.
SkipWithoutAdvancing(r) ==
  /\ HasLoop(r) /\ tx[r].pc = "ready"
  /\ \E a \in tx[r].todo : KindOf[a] \in tx[r].permits /\ tx[r].obj[a].state = "completed"
  /\ UNCHANGED vars

\* A completed action is returned as it is.
SkipCompleted(r) ==
  /\ HasLoop(r) /\ tx[r].pc = "ready"
  /\ \E a \in tx[r].todo :
       /\ KindOf[a] \in tx[r].permits /\ tx[r].obj[a].state = "completed"
       /\ tx' = [tx EXCEPT ![r].todo = @ \ {a}]
  /\ UNCHANGED <<dbVars, gmailVars, stuck, histVars>>

Begin(r) ==
  /\ HasLoop(r) /\ tx[r].pc = "ready"
  /\ \E a \in tx[r].todo :
       /\ KindOf[a] \in tx[r].permits /\ tx[r].obj[a].state # "completed"
       /\ RowFree(r, a)
       /\ tx' = [tx EXCEPT ![r] = Begun(tx[r], a)]
       /\ stale' = IF tx[r].obj[a] # action[a] THEN stale \cup {a} ELSE stale
  /\ UNCHANGED <<dbVars, gmailVars, stuck, lost, raced, overtaken>>

\* Mutant: a second attempt takes the first for done.
CheckNothing(r) ==
  /\ HasLoop(r) /\ tx[r].pc = "check"
  /\ Settle(r, tx[r].obj[tx[r].cur].msg)
  /\ UNCHANGED <<dbVars, gmailVars, stuck, histVars>>

\* A second attempt verifies before it acts.
CheckFirst(r) ==
  /\ HasLoop(r) /\ tx[r].pc = "check"
  /\ LET t == tx[r] IN
       \/ Verified(t) /\ Settle(r, ReadBack(t))
       \/ /\ ~Verified(t)
          /\ tx' = [tx EXCEPT ![r].pc = FirstCall(t.cur, t.obj[t.cur])]
  /\ UNCHANGED <<dbVars, gmailVars, stuck, histVars>>

\* The executor reads before it writes: an effect already there is recorded, a
\* draft on the thread is adopted, a send of a missing or changed draft refused.
LookThread(r) ==
  /\ HasLoop(r) /\ tx[r].pc = "look" /\ KindOf[tx[r].cur] \in ThreadKinds
  /\ LET a == tx[r].cur IN
       IF Shown(KindOf[a], labels[ItemOf[a]])
       THEN Perform(r, tx[r], 0)
       ELSE tx' = [tx EXCEPT ![r].pc = "write"]
  /\ UNCHANGED <<dbVars, gmailVars, stuck, histVars>>

\* Mutant: a draft an earlier attempt left behind is not looked for.
LookPastDraft(r) ==
  /\ HasLoop(r) /\ tx[r].pc = "look" /\ KindOf[tx[r].cur] = "draft"
  /\ tx' = [tx EXCEPT ![r].pc = "write"]
  /\ UNCHANGED <<dbVars, gmailVars, stuck, histVars>>

LookDraft(r) ==
  /\ HasLoop(r) /\ tx[r].pc = "look" /\ KindOf[tx[r].cur] = "draft"
  /\ LET found == {d \in live : thread[d] = ItemOf[tx[r].cur]} IN
       \/ \E d \in found : Perform(r, tx[r], d)
       \/ found = {} /\ tx' = [tx EXCEPT ![r].pc = "write"]
  /\ UNCHANGED <<dbVars, gmailVars, stuck, histVars>>

\* Mutant: the draft to send is fetched and not compared.
LookPastEdit(r) ==
  /\ HasLoop(r) /\ tx[r].pc = "look" /\ KindOf[tx[r].cur] = "send"
  /\ LET o == tx[r].obj[tx[r].cur] IN
       IF o.ref \in live
       THEN tx' = [tx EXCEPT ![r].pc = "write"]
       ELSE Fail(r, o.msg)
  /\ UNCHANGED <<dbVars, gmailVars, stuck, histVars>>

LookSend(r) ==
  /\ HasLoop(r) /\ tx[r].pc = "look" /\ KindOf[tx[r].cur] = "send"
  /\ LET o == tx[r].obj[tx[r].cur] IN
       IF o.ref \in live /\ text[o.ref] = o.msg
       THEN tx' = [tx EXCEPT ![r].pc = "write"]
       ELSE Fail(r, o.msg)
  /\ UNCHANGED <<dbVars, gmailVars, stuck, histVars>>

-----------------------------------------------------------------------------
(* Gmail writes.  The answer may be lost after the write happened.          *)

\* How Gmail answers: done, refused, done but answered with an error, and
\* done but never answered (the timeout is no GmailError).
Answers == {"ok", "error", "error after write"} \cup (IF LossPossible THEN {"none"} ELSE {})

\* A label written twice is written once; a draft or a message is not.
Noted(r, ans) ==
  IF ans = "error" \/ KindOf[tx[r].cur] \in ThreadKinds THEN tx[r].wrote
  ELSE tx[r].wrote \cup {tx[r].cur}

Answered(r, ans, ref) ==
  LET t == [tx[r] EXCEPT !.wrote = Noted(r, ans)]
  IN  CASE ans = "ok"   -> Perform(r, t, ref)
        [] ans = "none" -> tx' = [tx EXCEPT ![r] = IdleTx]
        [] OTHER -> /\ MayWrite(r, "failed")
                    /\ tx' = [tx EXCEPT ![r] = Failed(t, t.obj[t.cur].msg)]

\* A write whose answer never came leaves no trace of the attempt.
Forget(r, ans) == lost' = IF ans = "none" THEN lost \cup Noted(r, ans) ELSE lost

WriteThread(r, ans) ==
  LET a == tx[r].cur IN
  /\ HasLoop(r) /\ tx[r].pc = "write" /\ KindOf[a] \in ThreadKinds
  /\ Answered(r, ans, 0) /\ Forget(r, ans)
  /\ labels' = IF ans = "error" THEN labels
               ELSE [labels EXCEPT ![ItemOf[a]] = Modified(KindOf[a], @)]
  /\ UNCHANGED <<dbVars, live, text, madeFor, thread, sent, deleted,
                 stuck, stale, raced, overtaken>>

\* Gmail numbers its drafts itself.
Minted == DraftIds \ OwnDrafts

\* drafts.create has no idempotency token: every call makes another draft.
CreateDraft(r, d, ans) ==
  LET a == tx[r].cur IN
  /\ HasLoop(r) /\ tx[r].pc = "write" /\ KindOf[a] = "draft"
  /\ ans # "error" => text[d] = 0 /\ \A e \in Minted : e < d => text[e] # 0
  /\ Answered(r, ans, d) /\ Forget(r, ans)
  /\ IF ans = "error" THEN UNCHANGED <<live, text, madeFor, thread>>
     ELSE /\ live' = live \cup {d}
          /\ text' = [text EXCEPT ![d] = 1]
          /\ madeFor' = [madeFor EXCEPT ![d] = a]
          /\ thread' = [thread EXCEPT ![d] = ItemOf[a]]
  /\ UNCHANGED <<dbVars, labels, sent, deleted, stuck, stale, raced, overtaken>>

\* drafts.send sends what the draft holds when the call arrives.
SendDraft(r, ans) ==
  LET a == tx[r].cur
      d == tx[r].obj[a].ref IN
  /\ HasLoop(r) /\ tx[r].pc = "write" /\ KindOf[a] = "send"
  /\ d \notin live => ans = "error"
  /\ Answered(r, ans, d) /\ Forget(r, ans)
  /\ IF ans = "error" THEN UNCHANGED <<live, sent>>
     ELSE /\ live' = live \ {d}
          /\ sent' = sent \cup {<<d, text[d]>>}
  /\ UNCHANGED <<dbVars, labels, text, madeFor, thread, deleted, stuck, stale, raced, overtaken>>

ReadBackAction(r) ==
  /\ HasLoop(r) /\ tx[r].pc = "verify"
  /\ IF Verified(tx[r]) THEN Settle(r, ReadBack(tx[r])) ELSE Fail(r, Unread(tx[r]))
  /\ UNCHANGED <<dbVars, gmailVars, stuck, histVars>>

\* Any read may be answered with an error, which fails the action.
ReadError(r) ==
  /\ HasLoop(r) /\ tx[r].pc \in {"check", "look", "verify"}
  /\ Fail(r, tx[r].obj[tx[r].cur].msg)
  /\ UNCHANGED <<dbVars, gmailVars, stuck, histVars>>

-----------------------------------------------------------------------------
(* How a request ends                                                       *)

\* session_scope commits every row of every action of the request at once.
Commit(r) ==
  LET t == tx[r] IN
  /\ HasLoop(r) /\ t.pc = "ready" /\ t.todo = {}
  /\ action' = [a \in Actions |-> IF a \in t.held THEN t.row[a] ELSE action[a]]
  /\ item' = [i \in Items |-> IF i \in t.iheld THEN t.irow[i] ELSE item[i]]
  /\ scope' = IF t.kind = "scope" /\ t.scope = scope.id
              THEN [scope EXCEPT !.state = "executed"] ELSE scope
  /\ tx' = [tx EXCEPT ![r] = IdleTx]
  /\ overtaken' = overtaken \cup
       {i \in t.iheld : \E q \in Requests \ {r} :
                           \E a \in tx[q].todo \cup tx[q].held : ItemOf[a] = i}
  /\ UNCHANGED <<decision, permits, gmailVars, stuck, lost, stale, raced>>

\* An action refused in mid-scope answers 409, and the rollback takes the
\* record of the actions that ran before it.
Refuse(r) ==
  /\ HasLoop(r) /\ tx[r].pc = "ready"
  /\ \E a \in tx[r].todo : KindOf[a] \notin tx[r].permits
  /\ tx' = [tx EXCEPT ![r] = IdleTx]
  /\ lost' = lost \cup tx[r].wrote
  /\ UNCHANGED <<dbVars, gmailVars, stuck, stale, raced, overtaken>>

\* Mutant: the session is committed, not rolled back, when a request is cut off.
AbortThatCommits(r) ==
  LET t == tx[r] IN
  /\ LossPossible /\ HasLoop(r) /\ t.pc \in {"check", "look", "write", "verify"}
  /\ action' = [a \in Actions |-> IF a \in t.held THEN t.row[a] ELSE action[a]]
  /\ item' = [i \in Items |-> IF i \in t.iheld THEN t.irow[i] ELSE item[i]]
  /\ tx' = [tx EXCEPT ![r] = IdleTx]
  /\ UNCHANGED <<scope, decision, permits, gmailVars, stuck, histVars>>

\* A timeout, or a refusal raised by the read-back, ends the request at an await.
Abort(r) ==
  /\ LossPossible /\ HasLoop(r) /\ tx[r].pc \in {"check", "look", "write", "verify"}
  /\ tx' = [tx EXCEPT ![r] = IdleTx]
  /\ lost' = lost \cup tx[r].wrote
  /\ UNCHANGED <<dbVars, gmailVars, stuck, stale, raced, overtaken>>

\* The loop is at a statement that needs a row another request holds.
Block(r) ==
  /\ HasLoop(r)
  /\ \/ tx[r].pc = "ready" /\ \E a \in tx[r].todo :
          KindOf[a] \in tx[r].permits /\ tx[r].obj[a].state # "completed" /\ ~RowFree(r, a)
     \/ tx[r].pc \in {"check", "look", "write", "verify"} /\ ~MayWrite(r, "failed")
     \/ /\ \/ tx[r].pc \in {"check", "verify"} /\ Verified(tx[r])
           \/ tx[r].pc \in {"look", "write"} /\ ~RequireVerification
        /\ ~MayWrite(r, "executed")
  /\ stuck' = TRUE
  /\ UNCHANGED <<dbVars, gmailVars, tx, histVars>>

\* The process is restarted: everything uncommitted is gone.
Restart ==
  /\ LossPossible \/ stuck
  /\ \E r \in Requests : tx[r].pc # "idle"
  /\ tx' = [r \in Requests |-> IdleTx]
  /\ stuck' = FALSE
  /\ lost' = lost \cup UNION {tx[r].wrote : r \in Requests}
  /\ UNCHANGED <<dbVars, gmailVars, stale, raced, overtaken>>

-----------------------------------------------------------------------------
(* A person working in the mailbox                                          *)

WriteOwnDraft(i, d) ==
  /\ d \in OwnDrafts /\ text[d] = 0
  /\ live' = live \cup {d}
  /\ text' = [text EXCEPT ![d] = 1]
  /\ thread' = [thread EXCEPT ![d] = i]
  /\ UNCHANGED <<dbVars, labels, madeFor, sent, deleted, tx, stuck, histVars>>

Sending(r, d) ==
  tx[r].pc = "write" /\ KindOf[tx[r].cur] = "send" /\ tx[r].obj[tx[r].cur].ref = d

EditDraft(d) ==
  /\ "edit" \in ByHand /\ d \in live /\ text[d] < MaxText
  /\ text' = [text EXCEPT ![d] = @ + 1]
  /\ raced' = IF \E r \in Requests : Sending(r, d) THEN raced \cup {d} ELSE raced
  /\ UNCHANGED <<dbVars, labels, live, madeFor, thread, sent, deleted, tx,
                 stuck, lost, stale, overtaken>>

DeleteDraft(d) ==
  /\ "delete" \in ByHand /\ d \in live
  /\ live' = live \ {d} /\ deleted' = deleted \cup {d}
  /\ UNCHANGED <<dbVars, labels, text, madeFor, thread, sent, tx, stuck, histVars>>

\* A thread put back in the inbox.
ReturnThread(i) ==
  /\ "return" \in ByHand /\ labels[i] # {"INBOX"}
  /\ labels' = [labels EXCEPT ![i] = {"INBOX"}]
  /\ UNCHANGED <<dbVars, live, text, madeFor, thread, sent, deleted, tx, stuck, histVars>>

-----------------------------------------------------------------------------
Threadpool ==
  \/ \E a, b \in Actions : Authorise(a, b)
  \/ \E chosen \in SUBSET Items : Prepare(chosen)
  \/ \E i \in Items, v \in Verdicts : DecideRead(i, v)
  \/ DecideWrite
  \/ \E k \in Revocable : Reconfigure(k)

Start(r) == StartScope(r) \/ \E a \in Actions : StartRetry(r, a) \/ StartVerify(r, a)

Proceed(r) ==
  \/ SkipCompleted(r) \/ Begin(r) \/ CheckFirst(r)
  \/ LookThread(r) \/ LookDraft(r) \/ LookSend(r)
  \/ \E ans \in Answers : WriteThread(r, ans) \/ SendDraft(r, ans)
  \/ \E ans \in Answers, d \in Minted : CreateDraft(r, d, ans)
  \/ ReadBackAction(r) \/ ReadError(r)
  \/ Commit(r) \/ Refuse(r)

Person ==
  \/ \E i \in Items, d \in DraftIds : WriteOwnDraft(i, d)
  \/ \E d \in DraftIds : EditDraft(d) \/ DeleteDraft(d)
  \/ \E i \in Items : ReturnThread(i)

Next ==
  \/ Threadpool
  \/ \E r \in Requests : Start(r) \/ Proceed(r) \/ Abort(r) \/ Block(r)
  \/ Restart
  \/ Person

Spec == Init /\ [][Next]_vars

\* Gmail answers a call or the client times out: a handler that holds the loop
\* goes on.  Nothing is asked of people, of the threadpool or of restarts.
FairSpec == Spec /\ \A r \in Requests : WF_vars(Proceed(r))
-----------------------------------------------------------------------------
(* Properties                                                               *)

TxType ==
  [pc: {"idle", "ready", "check", "look", "write", "verify"},
   kind: {"none", "scope", "retry", "verify"},
   todo: SUBSET Actions, cur: Actions \cup {NoAction}, permits: SUBSET Kinds,
   scope: 0 .. MaxScopes, wrote: SUBSET Actions,
   obj: [Actions -> Row], row: [Actions -> Row], held: SUBSET Actions,
   iobj: [Items -> ItemStates], irow: [Items -> ItemStates], iheld: SUBSET Items]

\* Every variable holds a value the code can give it.
TypeOK ==
  /\ action \in [Actions -> Row]
  /\ item \in [Items -> ItemStates]
  /\ scope \in [id: 0 .. MaxScopes, state: {"none", "current", "executed"},
                actions: SUBSET Actions, stale: SUBSET Items]
  /\ decision \in [item: Items \cup {NoItem}, to: ItemStates, scope: 0 .. MaxScopes]
  /\ permits \subseteq Kinds
  /\ labels \in [Items -> SUBSET Labels]
  /\ live \subseteq DraftIds /\ deleted \subseteq DraftIds
  /\ sent \subseteq DraftIds \X (1 .. MaxText)
  /\ text \in [DraftIds -> 0 .. MaxText]
  /\ madeFor \in [DraftIds -> Actions \cup {NoAction}]
  /\ thread \in [DraftIds -> Items \cup {NoItem}]
  /\ tx \in [Requests -> TxType]
  /\ stuck \in BOOLEAN
  /\ lost \subseteq Actions /\ stale \subseteq Actions /\ raced \subseteq DraftIds
  /\ overtaken \subseteq Items

\* The drafts an action has in the mailbox.
DraftsOf(a) == {d \in live : madeFor[d] = a}

\* No one outside a request ever reads an action half done: executed is a state
\* between two awaits, and its rows are committed only as completed or failed.
NeverHalfDone == \A a \in Actions : action[a].state # "executed"

\* A second draft for one approval is only ever written after an attempt that
\* Gmail performed and the record lost, from a row read before another request
\* changed it, on a thread where a person's own draft was adopted first, or in
\* place of an earlier one that was deleted or sent: the reference that attempt
\* left keeps later ones from looking.  execute_action claims retrying alone is
\* safe.
SecondDraftOnlyAfterLoss ==
  \A a \in Actions : Cardinality(DraftsOf(a)) > 1 =>
    \/ a \in lost \cup stale
    \/ \E d \in OwnDrafts : thread[d] = ItemOf[a]
    \/ \E d \in DraftIds \ live : madeFor[d] = a

\* execute_action: "a failure after a successful Gmail call cannot produce a
\* second label, archive, or draft".
OneDraftPerApproval == \A a \in Actions : Cardinality(DraftsOf(a)) <= 1

\* A draft action that is completed names a draft that exists, was sent or was
\* deleted by hand; a completed send names one that was sent or deleted.
CompletedHasEffect ==
  \A a \in Actions : action[a].state = "completed" =>
    /\ KindOf[a] = "draft" => action[a].ref \in live \cup deleted \cup {s[1] : s \in sent}
    /\ KindOf[a] = "send" => action[a].ref \in deleted \cup {s[1] : s \in sent}

\* What left the mailbox is the message a person approved, for the item it
\* replies to, unless the draft was edited in the moment between the fetch that
\* compared it and the send.  approve_send_draft: the send "refuses if the draft
\* has changed in the meantime".
SentWasApproved ==
  \A s \in sent : \E a \in Actions :
    /\ KindOf[a] = "send" /\ action[a].state # "absent"
    /\ action[a].ref = s[1] /\ thread[s[1]] = ItemOf[a]
    /\ action[a].msg = s[2] \/ s[1] \in raced

\* An item reads executed only while one of its actions is completed, unless a
\* request wrote the item while another had it loaded: the other then finds the
\* outcome it loaded equal to its own and writes none.
ExecutedItemHasCompletedAction ==
  \A i \in Items \ overtaken : item[i] = "executed" =>
    \E a \in Actions : ItemOf[a] = i /\ action[a].state = "completed"

\* The row lock that the first write of an attempt takes is what keeps two
\* requests from working on one action: until its outcome nobody else reads it
\* back, looks for its effect or writes to Gmail for it, on the way to a write.
OneWriterPerAction ==
  \A r, q \in Requests :
    /\ r # q
    /\ tx[r].pc \in {"check", "look", "write"} /\ tx[q].pc \in {"check", "look", "write"}
    => tx[r].cur # tx[q].cur

\* Every request ends: it commits, or everything it did is rolled back.
RequestsEnd == \A r \in Requests : tx[r].pc # "idle" ~> tx[r].pc = "idle"

\* The committed record keeps the promise of ActionPromise.
Promise == INSTANCE ActionPromise
  WITH state <- [a \in Actions |-> action[a].state], item <- item
PromiseKept == Promise!Spec
=============================================================================
