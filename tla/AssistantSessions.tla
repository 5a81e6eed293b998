------------------------- MODULE AssistantSessions -------------------------
(* The sessions of the assistant over the playbook in force: opened over the  *)
(* one under way, begun, advanced and left, each pinned to the revision it    *)
(* opened with (adminos/domain/sessions.py, api/session.py).                  *)
(*                                                                            *)
(* Opening runs on the event loop with no await after the playbook is read:   *)
(* one action.  Beginning and advancing run in threads: a request loads the   *)
(* session, then validates the playbook and reads the activities, and writes  *)
(* last, the columns that differ from what it loaded.  Nothing orders two of  *)
(* them but the lock of a session agreed to, which is flushed before its      *)
(* activities are read.  A review is the state its rows give it, which        *)
(* ReviewRuns is about.                                                       *)
EXTENDS PlaybookRevisions

CONSTANTS
  Activities,  \* what the playbook lists
  Email, Closeout, \* the two that are built
  Orders,      \* sequences a session may be arranged in
  Asides       \* sets of activities a session may be opened without

NoActivity == "none"

ASSUME SessionAssumption ==
  /\ NoActivity \notin Activities
  /\ Email \in Activities /\ Closeout \in Activities /\ Email # Closeout
  /\ \A order \in Orders : {order[k] : k \in DOMAIN order} = Activities
  /\ Orders \subseteq Seq(Activities) /\ Asides \subseteq SUBSET Activities
  /\ {"sessions", "works"} \subseteq Kinds

VARIABLES
  sessions, \* in the order they were opened
  working,  \* working[h]: what a request in flight has loaded of a session, and made of it
  overtaken, \* sessions whose status was written over one the writer had not loaded
  rewound   \* sessions with an activity written over one the writer had not loaded

sessionVars == <<sessions, working, overtaken, rewound>>
assistantVars == <<playbookVars, sessionVars>>

SessionStatuses == {"proposed", "in_progress", "completed", "abandoned"}
ActivityStates == {"pending", "in_progress", "completed", "skipped", "unavailable"}
ReviewStates == {"none", "open", "completed", "abandoned"}

\* The columns a request may write; what it has not read yet it does not know.
Columns(s) == [status |-> s.status, current |-> s.current, activity |-> s.activity]
RowAlone(s) == [Columns(s) EXCEPT !.activity = [a \in Activities |-> "unread"]]

NotWorking ==
  LET nothing == [status |-> "none", current |-> NoActivity, activity |-> [a \in Activities |-> "unread"]]
  IN [kind |-> "idle", session |-> 0, activity |-> NoActivity, was |-> nothing, has |-> nothing]

AssistantInit ==
  /\ PlaybookInit
  /\ sessions = <<>> /\ working = [h \in Handlers |-> NotWorking]
  /\ overtaken = {} /\ rewound = {}

-----------------------------------------------------------------------------
(* What a request makes of a session                                          *)

FirstIn(s, states) ==
  LET at == {k \in DOMAIN s.order : s.activity[s.order[k]] \in states}
  IN IF at = {} THEN NoActivity ELSE s.order[CHOOSE k \in at : \A j \in at : k <= j]

\* finished: the closeout by being reached, the email with its review.
FinishedActivity(s, a) ==
  /\ s.activity[a] = "in_progress"
  /\ a = Closeout \/ s.review \in {"completed", "abandoned"}

UnderWay(status) == IF status = "proposed" THEN "in_progress" ELSE status

\* begin_activity.
BegunActivity(s, a) ==
  [s EXCEPT !.status = UnderWay(@), !.current = a,
            !.activity[a] = IF @ = "pending" THEN "in_progress" ELSE @]

\* advance_session: what is finished is completed, ...
WithFinished(s) ==
  [s EXCEPT !.activity =
     [a \in Activities |-> IF FinishedActivity(s, a) THEN "completed" ELSE s.activity[a]]]

\* Mutant: what has not been begun is not waited for
MovedPast(s) ==
  LET next == FirstIn(s, {"in_progress"})
  IN [s EXCEPT !.status = IF next = NoActivity THEN "completed" ELSE @, !.current = next]

\* ... and the session with the last.
MovedOn(s) ==
  LET next == FirstIn(s, {"pending", "in_progress"})
  IN [s EXCEPT !.status = IF next = NoActivity THEN "completed" ELSE @, !.current = next]

\* begin_session: the activity in hand, else the first one left, else onwards.
Begun(s) ==
  LET first == IF s.current # NoActivity THEN s.current ELSE FirstIn(s, {"pending"})
      agreedTo == [s EXCEPT !.status = UnderWay(@)]
  IN IF first = NoActivity THEN MovedOn(WithFinished(agreedTo)) ELSE BegunActivity(agreedTo, first)

-----------------------------------------------------------------------------
(* Opening                                                                    *)

Open == {i \in DOMAIN sessions : sessions[i].status \in {"proposed", "in_progress"}}

\* activity_state, for the activities set aside.
Prepared(aside) ==
  [a \in Activities |-> IF a \in aside THEN "skipped"
                        ELSE IF a \in {Email, Closeout} THEN "pending" ELSE "unavailable"]

\* Mutant: pinned to the revision with the highest number
NewSessionOverNewest(order, aside, standing) ==
  [status |-> "proposed", pinned |-> Len(RowsRead), order |-> order, current |-> NoActivity,
   activity |-> Prepared(aside), review |-> IF Email \in aside THEN "none" ELSE standing]

\* open_session up to its review: standing is the state its rows give that.
NewSession(order, aside, standing) ==
  [status |-> "proposed", pinned |-> Found, order |-> order, current |-> NoActivity,
   activity |-> Prepared(aside), review |-> IF Email \in aside THEN "none" ELSE standing]

\* abandon_session of the one under way, and abandon_review of the current
\* review where a fresh one is opened.
LeftBehind(reviewed) ==
  [i \in DOMAIN sessions |->
     [sessions[i] EXCEPT !.status = IF i = Newest(Open) THEN "abandoned" ELSE @,
                         !.review = IF reviewed /\ @ # "none" THEN "abandoned" ELSE @]]

\* The session has been agreed to by a request that has not committed.
Held(i, but) ==
  \E o \in Handlers \ but : working[o].kind = "hold" /\ working[o].session = i

\* start_session, which waits for the row it abandons; auto is the playbook's auto_start_first_activity.
StartSession(order, aside, standing, auto) ==
  LET row == NewSession(order, aside, standing) IN
  /\ Spend("sessions") /\ aside # Activities /\ ~Held(Newest(Open), {})
  /\ ReadPlaybook /\ revisions' = RowsRead
  /\ sessions' = Append(LeftBehind(Email \notin aside), IF auto THEN Begun(row) ELSE row)
  /\ UNCHANGED <<enabled, asking, crossed, working, overtaken, rewound>>

-----------------------------------------------------------------------------
(* Beginning and advancing, in threads                                        *)

LoadSession(h, i, kind, a) ==
  /\ Spend("works") /\ asking[h] = Idle /\ working[h] = NotWorking
  /\ working' = [working EXCEPT ![h] =
       [kind |-> kind, session |-> i, activity |-> a,
        was |-> RowAlone(sessions[i]), has |-> RowAlone(sessions[i])]]
  /\ UNCHANGED <<playbookVars, sessions, overtaken, rewound>>

\* begin_session refuses a session it loads as set aside; the others do not look.
LoadBegin(h, i) ==
  /\ i \in DOMAIN sessions /\ sessions[i].status # "abandoned"
  /\ LoadSession(h, i, "begin", NoActivity)

LoadActivity(h, i, a) ==
  /\ i \in DOMAIN sessions /\ sessions[i].activity[a] \notin {"skipped", "unavailable"}
  /\ LoadSession(h, i, "activity", a)

LoadAdvance(h, i) == i \in DOMAIN sessions /\ LoadSession(h, i, "advance", NoActivity)

\* The session as a request has it, with the activities that are there now.
AsLoaded(h) ==
  [sessions[working[h].session] EXCEPT !.status = working[h].was.status, !.current = working[h].was.current]

\* A request learns what it will write.
Makes(h, kind, was, has) ==
  working' = [working EXCEPT ![h] =
    [kind |-> kind, session |-> working[h].session, activity |-> working[h].activity,
     was |-> Columns(was), has |-> Columns(has)]]

\* The playbook must be readable, though the session runs the revision it is
\* pinned to; then the activities are read.
Reads(h, kind, has) ==
  /\ ReadPlaybook /\ revisions' = RowsRead
  /\ Makes(h, kind, AsLoaded(h), has)
  /\ UNCHANGED <<enabled, asking, left, crossed, sessions, overtaken, rewound>>

\* A session agreed to is flushed before its activities are read.
ReadBegin(h) ==
  LET agrees == working[h].was.status = "proposed" IN
  /\ working[h].kind = "begin"
  /\ agrees => ~Held(working[h].session, {})
  /\ Reads(h, IF agrees THEN "hold" ELSE "write", Begun(AsLoaded(h)))

ReadActivity(h) ==
  /\ working[h].kind = "activity"
  /\ Reads(h, "write", BegunActivity(AsLoaded(h), working[h].activity))

ReadAdvance(h) ==
  /\ working[h].kind = "advance"
  /\ Reads(h, "finish", WithFinished(AsLoaded(h)))

\* advance_session reads them again to see what remains: those it left alone as
\* they are by now, where the database session no longer holds them.
ReadRemaining(h) ==
  LET w == working[h] IN
  /\ w.kind = "finish"
  /\ \E again \in SUBSET {a \in Activities : w.has.activity[a] = w.was.activity[a]} :
       LET Knowing(known) ==
             [AsLoaded(h) EXCEPT !.activity = [a \in Activities |-> IF a \in again THEN @[a] ELSE known[a]]]
       IN Makes(h, "write", Knowing(w.was.activity), MovedOn(Knowing(w.has.activity)))
  /\ UNCHANGED <<playbookVars, left, sessions, overtaken, rewound>>

\* A column is written only where it differs from what was loaded.
Written(now, was, has) ==
  [now EXCEPT !.status = IF has.status = was.status THEN @ ELSE has.status,
              !.current = IF has.current = was.current THEN @ ELSE has.current,
              !.activity = [a \in Activities |-> IF has.activity[a] = was.activity[a] THEN @[a] ELSE has.activity[a]]]

\* An activity is written over one that was not loaded.
Rewinds(now, was, has) ==
  \E a \in Activities : /\ has.activity[a] # was.activity[a]
                        /\ now.activity[a] \notin {was.activity[a], has.activity[a]}

\* The flush and commit; the row of the session is locked for it.
WriteSession(h) ==
  LET i == working[h].session
      was == working[h].was
      has == working[h].has
      row == Written(sessions[i], was, has) IN
  /\ working[h].kind \in {"write", "hold"}
  /\ has.status # was.status \/ has.current # was.current => ~Held(i, {h})
  /\ sessions' = [sessions EXCEPT ![i] = row]
  /\ working' = [working EXCEPT ![h] = NotWorking]
  /\ overtaken' = IF row.status # sessions[i].status /\ was.status # sessions[i].status
                  THEN overtaken \cup {i} ELSE overtaken
  /\ rewound' = IF Rewinds(sessions[i], was, has) THEN rewound \cup {i} ELSE rewound
  /\ UNCHANGED <<playbookVars, left>>

\* The playbook cannot be read, or the email's plan is refused by begin_plan:
\* 409, and nothing is written.
RefuseWork(h) ==
  LET w == working[h] IN
  /\ w.kind \in {"begin", "activity", "advance"}
  /\ Found = 0 \/ w.kind = "begin" \/ (w.kind = "activity" /\ w.activity = Email)
  /\ working' = [working EXCEPT ![h] = NotWorking]
  /\ UNCHANGED <<playbookVars, left, sessions, overtaken, rewound>>

-----------------------------------------------------------------------------
\* The review behind a session, worked, filled again or opened over elsewhere.
ReviewMoves(i, to) ==
  /\ sessions[i].review \in {"open", "completed"} /\ to # sessions[i].review
  /\ sessions' = [sessions EXCEPT ![i].review = to]
  /\ UNCHANGED <<playbookVars, left, working, overtaken, rewound>>

SessionNext ==
  \/ left["sessions"] > 0 /\ \E order \in Orders, aside \in Asides, auto \in BOOLEAN :
       \E standing \in {"open", "completed"} : StartSession(order, aside, standing, auto)
  \/ \E i \in DOMAIN sessions :
       \/ \E to \in {"open", "completed", "abandoned"} : ReviewMoves(i, to)
       \/ left["works"] > 0 /\ \E h \in Handlers :
            \/ LoadBegin(h, i) \/ LoadAdvance(h, i)
            \/ \E a \in Activities : LoadActivity(h, i, a)
  \/ \E h \in Handlers :
       \/ ReadBegin(h) \/ ReadActivity(h) \/ ReadAdvance(h) \/ ReadRemaining(h)
       \/ WriteSession(h) \/ RefuseWork(h)

AssistantNext ==
  \/ PlaybookNext /\ UNCHANGED sessionVars
  \/ SessionNext

AssistantSpec == AssistantInit /\ BudgetInit /\ [][AssistantNext]_<<assistantVars, left>>

-----------------------------------------------------------------------------
(* Properties                                                                 *)

SessionType ==
  [status : SessionStatuses, pinned : Nat, order : Orders, current : Activities \cup {NoActivity},
   activity : [Activities -> ActivityStates], review : ReviewStates]
ColumnsType ==
  [status : SessionStatuses \cup {"none"}, current : Activities \cup {NoActivity},
   activity : [Activities -> ActivityStates \cup {"unread"}]]
WorkingType ==
  [kind : {"idle", "begin", "activity", "advance", "finish", "write", "hold"}, session : Nat,
   activity : Activities \cup {NoActivity}, was : ColumnsType, has : ColumnsType]

\* Every session and request in flight has the shape the tables and the code give it.
AssistantTypeOK ==
  /\ PlaybookTypeOK
  /\ sessions \in Seq(SessionType) /\ working \in [Handlers -> WorkingType]
  /\ overtaken \subseteq DOMAIN sessions /\ rewound \subseteq DOMAIN sessions

\* One session is under way: opening sets the last one aside.  A second is only
\* ever one whose status a request wrote from what it had loaded before.
OneUnderWay == Cardinality(Open \ overtaken) <= 1

\* A session that is completed has nothing left to work: no activity of it is
\* pending or in hand, however requests that begin and advance it overlap.  The
\* exception is one that a request put back in hand by beginning it as it had
\* loaded it, pending, when another had begun and completed it since.
CompletedHasNothingLeft ==
  \A i \in DOMAIN sessions \ rewound : sessions[i].status = "completed" =>
    FirstIn(sessions[i], {"pending", "in_progress"}) = NoActivity

\* A session runs a playbook that was agreed to, and goes on running it: it is
\* pinned to what was seeded or confirmed, and stays so whatever is confirmed,
\* restored or invalidated after.
PinnedWasAgreed == \A i \in DOMAIN sessions : sessions[i].pinned \in agreed

\* The session a person is in is the only one, and is the playbook they agreed to.
SessionStands == OneUnderWay /\ PinnedWasAgreed
=============================================================================
