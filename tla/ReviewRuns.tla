------------------------------ MODULE ReviewRuns ------------------------------
(* The reviews of one day and one scope: a fresh one opened over the last,    *)
(* the current one continued, rows put in from the evidence, taken off the    *)
(* table, decided, executed, and the state and plan of a review recomputed    *)
(* from its rows (adminos/domain/review.py, domain/plan.py, api/review.py).   *)
(*                                                                            *)
(* Reading, deciding and agreeing the plan run in a pool of threads, in three *)
(* steps: a request loads the run and the row it names; it changes and        *)
(* flushes them, reads everything else and recomputes; it commits.  What it   *)
(* has read is not refreshed, what others have not committed it does not see, *)
(* and its commit writes only the columns it changed.  Opening and continuing *)
(* read in one step and commit in another on the event loop, which does       *)
(* nothing else between; an execution loads its row, awaits Gmail and writes. *)
(*                                                                            *)
(* A plan's order only sorts, and a group's stored state is recomputed        *)
(* before each use, so neither is kept.  The inside of an execution, and      *)
(* scopes, are the subject of ActionExecution and ActionScopes.               *)
EXTENDS Integers, Sequences, FiniteSets

CONSTANTS
  Threads,       \* pieces of evidence: a thread pruned and found again is another
  Contents,      \* what a piece of evidence may say
  Nothing,       \* the content of no row
  Capabilities,  \* the enabled capabilities: one group of a review each
  CapabilityOf,  \* CapabilityOf[t]: the capability whose label a thread carries
  Automatable,   \* threads that an automatable rule approves unasked
  NeedsDecision, \* capabilities whose groups complete only when all is decided
  NeedsExecution,\* capabilities whose groups complete only when all is executed
  Handlers,      \* requests in flight
  NoThread,      \* a handler that loads no row
  MaxRuns,       \* bound on revisions
  MaxSyncs,      \* bound on the readings of the mailbox
  MaxRequests    \* bound on the requests that load a review

ASSUME ReviewAssumption ==
  /\ CapabilityOf \in [Threads -> Capabilities]
  /\ Automatable \subseteq Threads /\ NoThread \notin Threads /\ Nothing \notin Contents
  /\ NeedsDecision \subseteq Capabilities /\ NeedsExecution \subseteq Capabilities
  /\ MaxRuns \in Nat /\ MaxSyncs \in Nat /\ MaxRequests \in Nat

VARIABLES
  mail,      \* mail[t]: where its evidence says a thread is, and its content
  runs,      \* the reviews, by revision
  handler,   \* handler[h]: what a request in flight has read, and made of it
  syncs, requests, \* how many there were
  revived,   \* reviews a request wrote to that had loaded them before they were set aside
  stale,     \* reviews whose last recomputation had read what has changed since
  late       \* threads settled, or no more, in a review when a later one has a row

counts == <<syncs, requests>>
history == <<revived, stale, late>>
vars == <<mail, runs, handler, counts, history>>

RunStates == {"not_started", "in_progress", "awaiting_actions", "completed", "abandoned"}
RowStates == {"none", "pending", "approved", "executed", "failed", "dismissed", "deferred"}
Terminal == {"dismissed", "executed"}
Unexecuted == {"approved", "failed"}

\* A row is the thread's item in one review; acted, that an action of it ran.
NoRow == [state |-> "none", content |-> Nothing, acted |-> FALSE]

NewRun == [state |-> "not_started", plan |-> "proposed", skipped |-> {}, human |-> FALSE,
           rows |-> [t \in Threads |-> NoRow]]

\* A session: the columns as it read them, and as it has them now.
Idle == [kind |-> "idle", done |-> FALSE, run |-> 0, thread |-> NoThread,
         was |-> NewRun, has |-> NewRun]

\* A day starts with what earlier syncs left: a thread in scope, out of it, or
\* unknown, with no evidence or evidence without labels.
Init ==
  /\ mail \in [Threads -> [where : {"unknown", "in", "out"}, content : Contents]]
  /\ runs = <<>>
  /\ handler = [h \in Handlers |-> Idle]
  /\ syncs = 0 /\ requests = 0
  /\ revived = {} /\ stale = {} /\ late = {}

\* The event loop is not held by an opening.
LoopFree == \A h \in Handlers : handler[h].kind \notin {"start", "continue"}

-----------------------------------------------------------------------------
(* Reading the mailbox                                                        *)

\* What one piece of evidence may say next.  A thread seen out of scope has its
\* labels noted and nothing else; its content is that of its latest message, a
\* draft included, so it may be what it once was.  A pruned one is gone.
Readings(t) ==
  IF mail[t].where = "pruned" THEN {}
  ELSE [where : {"out", "pruned"}, content : {mail[t].content}]
         \cup [where : {"in"}, content : Contents]

\* A sync of the mailbox, asked for by an opening or by itself.
Sync(t, reading) ==
  /\ syncs < MaxSyncs /\ LoopFree
  /\ reading \in Readings(t) \ {mail[t]}
  /\ mail' = [mail EXCEPT ![t] = reading]
  /\ syncs' = syncs + 1
  /\ UNCHANGED <<runs, handler, requests, history>>

-----------------------------------------------------------------------------
(* Where a review stands                                                      *)

Group(c) == {t \in Threads : CapabilityOf[t] = c}
States(view, G) == {view[t] : t \in {u \in G : view[u] # "none"}}

\* Mutant: a row is done once it is decided
GroupDoneOnceDecided(view, c) == "pending" \notin States(view, Group(c))

\* group_state: a group with no rows is complete.
GroupDone(view, c) ==
  /\ c \in NeedsDecision => "pending" \notin States(view, Group(c))
  /\ c \in NeedsExecution => States(view, Group(c)) \cap Unexecuted = {}

Undecided(view, c) == c \in NeedsDecision /\ "pending" \in States(view, Group(c))

\* refresh_states: the state of a review from its rows, without the groups
\* its plan sets aside.
Standing(view, skipped) ==
  LET planned == Capabilities \ skipped
      decided == UNION {States(view, Group(c)) : c \in planned} \ {"pending"} # {}
  IN IF \A c \in planned : GroupDone(view, c) THEN "completed"
     ELSE IF ~decided THEN "not_started"
     ELSE IF \A c \in planned : ~Undecided(view, c) THEN "awaiting_actions"
     ELSE "in_progress"

RowsOf(run) == [t \in Threads |-> run.rows[t].state]

\* settle_plan: the plan of a review with nothing to work is settled unasked.
Settled(run, to) ==
  IF to = "completed" /\ run.plan = "proposed" THEN [run EXCEPT !.plan = "system"] ELSE run

\* refresh_states, on a review as a session has it.
Refreshed(run) ==
  LET to == Standing(RowsOf(run), run.skipped)
  IN IF run.state = "abandoned" THEN run ELSE [Settled(run, to) EXCEPT !.state = to]

-----------------------------------------------------------------------------
(* What an opening makes of the evidence                                      *)

\* Mutant: the rows are read oldest last
SettledContentFirst(t) ==
  LET S == {j \in DOMAIN runs : runs[j].rows[t].state \in Terminal}
  IN {runs[j].rows[t].content : j \in {k \in S : \A m \in S : k <= m}}

\* read_settled_hashes: the content a thread had when it was last settled.
SettledContent(t) ==
  LET S == {j \in DOMAIN runs : runs[j].rows[t].state \in Terminal}
  IN {runs[j].rows[t].content : j \in {k \in S : \A m \in S : m <= k}}

\* Mutant: nothing is taken off the table
KeptRow(row, t) == row

\* Mutant: a withdrawn row has a state no table knows
WithdrawnApart(row, t) ==
  IF row.state = "pending" /\ mail[t].where = "out" THEN [row EXCEPT !.state = "withdrawn"] ELSE row

\* withdraw_out_of_scope: an undecided row whose thread has left is deferred.
WithdrawnRow(row, t) ==
  IF row.state = "pending" /\ mail[t].where = "out" THEN [row EXCEPT !.state = "deferred"] ELSE row

\* populate_group: a thread in scope, not settled as it is, gets one row.
PopulatedRow(row, t) ==
  IF row # NoRow \/ mail[t].where # "in" \/ mail[t].content \in SettledContent(t) THEN row
  ELSE [NoRow EXCEPT !.state = IF t \in Automatable THEN "approved" ELSE "pending",
                     !.content = mail[t].content]

\* fill_review: every group brought up to date, then the review recomputed.
Filled(run) ==
  Refreshed([run EXCEPT !.rows =
               [t \in Threads |-> PopulatedRow(WithdrawnRow(run.rows[t], t), t)]])

-----------------------------------------------------------------------------
(* What a commit writes                                                       *)

Over(current, was, has) == IF has = was THEN current ELSE has

RowOver(current, was, has) ==
  [state |-> Over(current.state, was.state, has.state),
   content |-> Over(current.content, was.content, has.content),
   acted |-> Over(current.acted, was.acted, has.acted)]

\* A flush writes the columns whose value is not the one that was read.
Merged(current, was, has) ==
  [state |-> Over(current.state, was.state, has.state),
   plan |-> Over(current.plan, was.plan, has.plan),
   skipped |-> Over(current.skipped, was.skipped, has.skipped),
   human |-> Over(current.human, was.human, has.human),
   rows |-> [t \in Threads |-> RowOver(current.rows[t], was.rows[t], has.rows[t])]]

Finished(h) == handler' = [handler EXCEPT ![h] = Idle]

\* What a session computed the state of a review from has changed since.
OutOfStep(current, was) ==
  \/ current.state # was.state \/ current.skipped # was.skipped
  \/ RowsOf(current) # RowsOf(was)

\* A review recomputed from what it is stands as it says.
Restated(i, was) == IF OutOfStep(runs[i], was) THEN stale \cup {i} ELSE stale \ {i}

\* A later review has a row for the thread, or is being given one.
AskedLater(i, t) ==
  \/ \E j \in DOMAIN runs : j > i /\ runs[j].rows[t] # NoRow
  \/ \E h \in Handlers : handler[h].run > i /\ handler[h].has.rows[t] # NoRow

\* Threads settled by a commit, or settled no more, that were asked about since.
SettledLate(i, new) ==
  {t \in Threads : /\ ~(runs[i].rows[t].state \in Terminal <=> new.rows[t].state \in Terminal)
                   /\ AskedLater(i, t)}

-----------------------------------------------------------------------------
(* Opening and continuing                                                     *)

\* read_current_review: the latest revision nobody abandoned.
IsCurrent(i) ==
  /\ i \in DOMAIN runs /\ runs[i].state # "abandoned"
  /\ \A j \in DOMAIN runs : runs[j].state # "abandoned" => j <= i

\* Mutant: the review under way is left as it is
LeftOpen == runs

\* abandon_review, of the current review if there is one.
SetAside == [i \in DOMAIN runs |->
               IF IsCurrent(i) THEN [runs[i] EXCEPT !.state = "abandoned"] ELSE runs[i]]

\* open_fresh_review: the next revision, filled from the evidence as it is.
Start(h) ==
  /\ handler[h] = Idle /\ LoopFree /\ Len(runs) < MaxRuns
  /\ handler' = [handler EXCEPT ![h] =
       [kind |-> "start", done |-> TRUE, run |-> Len(runs) + 1, thread |-> NoThread,
        was |-> NewRun, has |-> Filled(NewRun)]]
  /\ UNCHANGED <<mail, runs, counts, history>>

\* Its commit, which sets aside the review it replaces.
CommitStart(h) ==
  /\ handler[h].kind = "start"
  /\ runs' = Append(SetAside, handler[h].has)
  /\ Finished(h) /\ UNCHANGED <<mail, counts, history>>

\* is_finished_with: completed, and decided in by a person.
FinishedWith(run) == run.state = "completed" /\ run.human

\* continue_review: refused where no review is current or it is finished with.
Continue(h, i) ==
  /\ handler[h] = Idle /\ LoopFree
  /\ IsCurrent(i) /\ ~FinishedWith(runs[i])
  /\ handler' = [handler EXCEPT ![h] =
       [kind |-> "continue", done |-> TRUE, run |-> i, thread |-> NoThread,
        was |-> runs[i], has |-> Filled(runs[i])]]
  /\ UNCHANGED <<mail, runs, counts, history>>

-----------------------------------------------------------------------------
(* Requests in flight                                                         *)

\* The run and the row a request names, its other columns not read yet.
Loaded(i, t) ==
  [NewRun EXCEPT !.state = runs[i].state,
                 !.rows = [u \in Threads |-> IF u = t THEN runs[i].rows[u] ELSE NoRow]]

Load(h, kind, i, t) ==
  /\ requests < MaxRequests /\ requests' = requests + 1
  /\ handler[h] = Idle /\ i \in DOMAIN runs
  /\ handler' = [handler EXCEPT ![h] =
       [kind |-> kind, done |-> FALSE, run |-> i, thread |-> t,
        was |-> Loaded(i, t), has |-> Loaded(i, t)]]
  /\ UNCHANGED <<mail, runs, syncs, history>>

LoadRead(h, i) == Load(h, "read", i, NoThread)

LoadBegin(h, i) ==
  /\ i \in DOMAIN runs /\ runs[i].state # "abandoned"
  /\ Load(h, "begin", i, NoThread)

\* Mutant: a settled row is decided again
LoadDecideAgain(h, i, t) ==
  /\ i \in DOMAIN runs /\ runs[i].state # "abandoned"
  /\ runs[i].rows[t].state # "none"
  /\ Load(h, "decide", i, t)

\* decide_item, as far as the checks on what it loaded.  A settled row is
\* decided again only to restore it, and only what was executed is restored.
LoadDecide(h, i, t) ==
  /\ i \in DOMAIN runs /\ runs[i].state # "abandoned"
  /\ runs[i].rows[t].state \notin {"none", "dismissed"}
  /\ Load(h, "decide", i, t)

\* An execution of an approved row, refused in an abandoned review, or a
\* verification of an action that ran, which is not.
LoadAct(h, i, t) ==
  /\ LoopFree /\ i \in DOMAIN runs
  /\ \/ runs[i].rows[t].state \in Unexecuted /\ runs[i].state # "abandoned"
     \/ runs[i].rows[t].acted
  /\ Load(h, "act", i, t)

\* The review as a session sees it: what it loaded as it was, the rest as it is.
Seen(h) ==
  LET l == handler[h] IN
  [runs[l.run] EXCEPT
     !.state = l.was.state,
     !.rows = [t \in Threads |-> IF t = l.thread THEN l.was.rows[t] ELSE runs[l.run].rows[t]]]

\* What a request made of what it sees, recomputed, and not committed yet.
Recomputed(h, run) ==
  /\ ~handler[h].done
  /\ handler' = [handler EXCEPT ![h] =
       [kind |-> @.kind, done |-> TRUE, run |-> @.run, thread |-> @.thread,
        was |-> Seen(h), has |-> Refreshed(run)]]
  /\ UNCHANGED <<mail, runs, counts, history>>

\* read_review_run and read_review_group: a reading recomputes too.
Read(h) == handler[h].kind = "read" /\ Recomputed(h, Seen(h))

\* begin_plan: the groups set aside for the day, never all of them.
Begin(h, skip) ==
  /\ handler[h].kind = "begin" /\ skip # Capabilities
  /\ Recomputed(h, [Seen(h) EXCEPT !.plan = IF @ = "proposed" THEN "human" ELSE @,
                                   !.skipped = skip])

\* Mutant: the plan is left for the reader to agree
AgreedLater(run) == run

\* activate_plan: working a review is agreeing to its plan.
Agreed(run) == [run EXCEPT !.plan = IF @ = "proposed" THEN "human" ELSE @]

\* A row another request has written and not committed: a write to it waits.
Held(h) ==
  \E g \in Handlers \ {h} :
    LET l == handler[g] t == handler[h].thread IN
    l.run = handler[h].run /\ l.has.rows[t].state # l.was.rows[t].state

\* record_decision and the recomputation that follows it.
Decide(h, state) ==
  LET t == handler[h].thread IN
  /\ handler[h].kind = "decide" /\ ~Held(h)
  /\ handler[h].was.rows[t].state = "executed" => state = "approved"
  /\ Recomputed(h, [Agreed(Seen(h)) EXCEPT !.human = TRUE, !.rows[t].state = state])

\* The commit of a reading, an agreement, a decision or a continuation.
Commit(h) ==
  LET l == handler[h]
      i == handler[h].run
      new == Merged(runs[i], l.was, l.has)
  IN
  /\ l.done /\ l.kind # "start"
  /\ runs' = [runs EXCEPT ![i] = new]
  /\ revived' = revived \cup
       {j \in {i} : runs[j].state = "abandoned" /\ l.was.state # "abandoned"}
  /\ stale' = Restated(i, l.was)
  /\ late' = late \cup SettledLate(i, new)
  /\ Finished(h) /\ UNCHANGED <<mail, counts>>

\* settle_verified and fail_action, and the commit: the row changes, the review is
\* not recomputed.
Act(h, state) ==
  LET l == handler[h]
      i == handler[h].run
      new == Merged(runs[i], l.was, [l.has EXCEPT !.rows[l.thread] =
                                       [state |-> state, content |-> @.content, acted |-> TRUE]])
  IN
  /\ l.kind = "act" /\ LoopFree /\ ~Held(h)
  /\ runs' = [runs EXCEPT ![i] = new]
  /\ late' = late \cup SettledLate(i, new)
  /\ Finished(h) /\ UNCHANGED <<mail, counts, revived, stale>>

Next ==
  \/ \E t \in Threads : \E reading \in Readings(t) : Sync(t, reading)
  \/ \E h \in Handlers : Start(h) \/ CommitStart(h) \/ Commit(h) \/ Read(h)
  \/ \E h \in Handlers : \E i \in DOMAIN runs :
       \/ Continue(h, i) \/ LoadRead(h, i) \/ LoadBegin(h, i)
       \/ \E t \in Threads : LoadDecide(h, i, t) \/ LoadAct(h, i, t)
  \/ \E h \in Handlers :
       \/ \E skip \in SUBSET Capabilities : Begin(h, skip)
       \/ \E state \in {"approved", "dismissed", "deferred"} : Decide(h, state)
       \/ \E state \in {"executed", "failed"} : Act(h, state)

Spec == Init /\ [][Next]_vars

-----------------------------------------------------------------------------
(* Properties                                                                 *)

RowType == [state : RowStates, content : Contents \cup {Nothing}, acted : BOOLEAN]
RunType == [state : RunStates, plan : {"proposed", "human", "system"},
            skipped : SUBSET Capabilities, human : BOOLEAN, rows : [Threads -> RowType]]
RequestType == [kind : {"idle", "start", "continue", "read", "begin", "decide", "act"},
                done : BOOLEAN, run : Nat, thread : Threads \cup {NoThread},
                was : RunType, has : RunType]

\* Every review, row, reading and request in flight has the shape the tables give it.
TypeOK ==
  /\ mail \in [Threads -> [where : {"unknown", "in", "out", "pruned"}, content : Contents]]
  /\ runs \in Seq(RunType)
  /\ handler \in [Handlers -> RequestType]
  /\ syncs \in 0..MaxSyncs /\ requests \in 0..MaxRequests
  /\ revived \subseteq DOMAIN runs /\ stale \subseteq DOMAIN runs /\ late \subseteq Threads

\* Only the latest review of a day is open; every earlier one stays set aside,
\* whatever is still in flight in it (open_fresh_review, refresh_states).  The
\* exception is a review some request committed to that had loaded it before it
\* was set aside: its write brings the review back.
OneCurrent ==
  \A i \in DOMAIN runs : i < Len(runs) => runs[i].state = "abandoned" \/ i \in revived

\* What the code says of a review set aside: it stays so, its state no longer
\* recomputed (refresh_states) and nothing decided in it (refuse_abandoned).
StaysAbandoned ==
  [][\A i \in DOMAIN runs : runs[i].state = "abandoned" => runs'[i].state = "abandoned"]_vars

\* A thread settled in one review is not settled in the next that settles it with
\* the very content it was last settled with: a thread that merely sat in the inbox
\* does not come back to be dismissed twice (populate_group).  The exception is a
\* thread settled, or taken up again, in a review set aside, once a later review had
\* its row or was being given it.
AskedOnce ==
  \A i, j \in DOMAIN runs : \A t \in Threads :
    (/\ i < j
     /\ runs[i].rows[t].state \in Terminal /\ runs[j].rows[t].state \in Terminal
     /\ \A k \in DOMAIN runs : i < k /\ k < j => runs[k].rows[t].state \notin Terminal
     /\ runs[i].rows[t].content = runs[j].rows[t].content)
    => t \in late

\* A review that says it is completed has no row undecided, and none decided
\* whose action was never tried, in a group its plan works, though mail is put
\* in, rows are decided again, groups are set aside and taken back
\* (refresh_states).  The exception is a review whose state was last written by a
\* request that had computed it from a state, a plan or rows that another request
\* had changed before it committed.
CompletedIsDone ==
  \A i \in DOMAIN runs : runs[i].state = "completed" /\ i \notin stale =>
    \A c \in Capabilities \ runs[i].skipped :
      /\ c \in NeedsDecision => "pending" \notin States(RowsOf(runs[i]), Group(c))
      /\ c \in NeedsExecution => "approved" \notin States(RowsOf(runs[i]), Group(c))

\* No review that a person has worked, or that is finished, still asks to have
\* its plan agreed, whatever requests overlap in it (activate_plan, settle_plan).
NoPlanLeftToAgree ==
  \A i \in DOMAIN runs : runs[i].human \/ runs[i].state = "completed" => runs[i].plan # "proposed"

\* A review just opened or continued asks nothing about mail known to have
\* left the scope, whichever review or sync learnt of it (withdraw_out_of_scope).
AsksOnlyWhatIsThere ==
  [][\A h \in Handlers :
       handler[h].kind \in {"start", "continue"} /\ handler'[h] = Idle =>
         \A t \in Threads :
           runs'[handler[h].run].rows[t].state = "pending" => mail[t].where # "out"]_vars

\* What was settled stays settled, except to restore what was executed or to record
\* that an action did not hold, by an execution of that very row, or by the commit
\* of a request that writes the row and had read it in another state (check_decision).
SettledKept ==
  [][\A i \in DOMAIN runs : \A t \in Threads :
       LET old == runs[i].rows[t].state
           new == runs'[i].rows[t].state
       IN old \in Terminal /\ new # old =>
            \/ old = "executed" /\ new \in Unexecuted
            \/ \E h \in Handlers :
                 LET l == handler[h] IN
                 /\ l.run = i /\ handler'[h] = Idle
                 /\ \/ l.kind = "act" /\ l.thread = t
                    \/ /\ l.has.rows[t].state # l.was.rows[t].state
                       /\ l.was.rows[t].state # old]_vars
=============================================================================
