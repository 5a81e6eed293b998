--------------------------- MODULE ReviewRunsProofs ---------------------------
(* Proofs about ReviewRuns, for every set of threads, contents, capabilities  *)
(* and requests and every bound: each property that the run review_runs       *)
(* checks.                                                                    *)
(*                                                                            *)
(* The strengthening says what a request in flight still knows of the review  *)
(* it read, whatever others commit to it meanwhile, and that no review has,   *)
(* or is being given, a row at the content its thread was last settled with   *)
(* before it.                                                                 *)
EXTENDS ReviewRuns, TLAPS

\* A row, if there is one, has a state and the content of some evidence.
Row == {NoRow} \cup [state : RowStates \ {"none"}, content : Contents, acted : BOOLEAN]

Run == [state : RunStates, plan : {"proposed", "human", "system"},
        skipped : SUBSET Capabilities, human : BOOLEAN, rows : [Threads -> Row]]

Request == [kind : {"idle", "start", "continue", "read", "begin", "decide", "act"},
            done : BOOLEAN, run : Nat, thread : Threads \cup {NoThread},
            was : Run, has : Run]

\* A review that a person worked or that is completed has its plan agreed.
PlanOK(run) == run.human \/ run.state = "completed" => run.plan # "proposed"

\* A review that is completed has nothing left to decide or to try.
DoneOK(run) ==
  run.state = "completed" =>
    \A c \in Capabilities \ run.skipped :
      /\ c \in NeedsDecision => "pending" \notin States(RowsOf(run), Group(c))
      /\ c \in NeedsExecution => "approved" \notin States(RowsOf(run), Group(c))

\* The last of these reviews before the j-th that settled a thread did so at
\* another content.
Fresh(rs, j, content, t) ==
  \A i \in DOMAIN rs :
    (/\ i < j /\ rs[i].rows[t].state \in Terminal
     /\ \A k \in DOMAIN rs : i < k /\ k < j => rs[k].rows[t].state \notin Terminal)
    => rs[i].rows[t].content # content

ReviewOK(rs, st, lt, i) ==
  /\ PlanOK(rs[i])
  /\ i \notin st => DoneOK(rs[i])
  /\ \A t \in Threads \ lt : rs[i].rows[t] # NoRow => Fresh(rs, i, rs[i].rows[t].content, t)

\* An opening in flight is of the next review.
Opening(rs, l) ==
  /\ l.done /\ l.run = Len(rs) + 1
  /\ l.has.state # "abandoned" /\ PlanOK(l.has) /\ DoneOK(l.has)

\* What a request knows of a review it read: the rows that were there are, with
\* their contents, and its plan, once agreed, stays so.
Knows(rs, l) ==
  /\ l.run \in DOMAIN rs
  /\ \A t \in Threads : l.was.rows[t] # NoRow =>
       rs[l.run].rows[t] # NoRow /\ rs[l.run].rows[t].content = l.was.rows[t].content
  /\ l.was.plan # "proposed" \/ l.was.state = "completed" => rs[l.run].plan # "proposed"

\* What a request made of what it read.
Makes(l) ==
  /\ ~l.done => l.has = l.was
  /\ l.done => PlanOK(l.has) /\ DoneOK(l.has)
  /\ l.has.state = "abandoned" <=> l.was.state = "abandoned"
  /\ l.was.plan # "proposed" => l.has.plan # "proposed"
  /\ \A t \in Threads :
       /\ l.was.rows[t] # NoRow => /\ l.has.rows[t] # NoRow
                                   /\ l.has.rows[t].content = l.was.rows[t].content
       /\ l.kind # "continue" /\ l.was.rows[t] = NoRow => l.has.rows[t] = NoRow
       /\ l.kind # "continue" /\ l.has.rows[t].state = "pending" => l.was.rows[t].state = "pending"
       /\ l.was.rows[t].state \in Terminal /\ l.has.rows[t].state # l.was.rows[t].state =>
            l.was.rows[t].state = "executed" /\ l.has.rows[t].state \in Unexecuted

\* A continuation is of the last review, where nobody else puts a row in.
Continuing(rs, l) ==
  /\ l.done /\ l.run = Len(rs)
  /\ \A t \in Threads :
       /\ l.was.rows[t] = NoRow => rs[l.run].rows[t] = NoRow
       /\ rs[l.run].rows[t].state = "pending" => l.was.rows[t].state = "pending"

\* A row being put in, or left undecided, is of mail that is there and that was
\* not last settled as it is.
Asking(rs, m, lt, l) ==
  \A t \in Threads :
    /\ l.has.rows[t].state = "pending" => m[t].where # "out"
    /\ t \notin lt /\ l.has.rows[t] # NoRow => Fresh(rs, l.run, l.has.rows[t].content, t)

Names(l) ==
  /\ l.kind \in {"decide", "act"} => l.thread \in Threads /\ l.was.rows[l.thread] # NoRow
  /\ l.kind = "decide" => l.was.rows[l.thread].state # "dismissed"
  /\ l.kind \in {"idle", "act"} => ~l.done

RequestOK(rs, m, lt, l) ==
  /\ l.kind = "start" => Opening(rs, l)
  /\ l.kind \notin {"idle", "start"} => Knows(rs, l) /\ Makes(l)
  /\ l.kind = "continue" => Continuing(rs, l)
  /\ l.kind \in {"start", "continue"} => Asking(rs, m, lt, l)
  /\ Names(l)

Typed ==
  /\ mail \in [Threads -> [where : {"unknown", "in", "out", "pruned"}, content : Contents]]
  /\ runs \in Seq(Run)
  /\ handler \in [Handlers -> Request]
  /\ syncs \in 0..MaxSyncs /\ requests \in 0..MaxRequests
  /\ revived \subseteq DOMAIN runs /\ stale \subseteq DOMAIN runs /\ late \subseteq Threads

LastOpen == runs # <<>> => runs[Len(runs)].state # "abandoned"

\* One opening or continuation at a time.
OneAsks ==
  \A g, h \in Handlers :
    handler[g].kind \in {"start", "continue"} /\ handler[h].kind \in {"start", "continue"} => g = h

IInv ==
  /\ Typed /\ LastOpen /\ OneCurrent /\ OneAsks
  /\ \A i \in DOMAIN runs : ReviewOK(runs, stale, late, i)
  /\ \A h \in Handlers : RequestOK(runs, mail, late, handler[h])

-----------------------------------------------------------------------------
(* What the operators on one review do                                        *)

LEMMA RowFacts ==
  /\ NoRow \in Row /\ NoRow.state = "none" /\ NoRow.content = Nothing /\ NoRow.acted = FALSE
  /\ \A row \in Row :
       /\ row.state \in RowStates /\ row.content \in Contents \cup {Nothing} /\ row.acted \in BOOLEAN
       /\ row # NoRow <=> row.state # "none"
       /\ row # NoRow => row.content \in Contents /\ row.content # Nothing
       /\ row.state \in Terminal \cup {"pending"} => row # NoRow
       /\ row \in RowType
  <1>1. /\ NoRow \in Row /\ NoRow.state = "none" /\ NoRow.content = Nothing /\ NoRow.acted = FALSE
        /\ NoRow \in RowType
    BY DEF NoRow, Row, RowType, RowStates
  <1>2. ASSUME NEW row \in Row, row # NoRow
        PROVE  /\ row.state \in RowStates \ {"none"} /\ row.content \in Contents
               /\ row.acted \in BOOLEAN /\ row \in RowType
    <2>1. row \in [state : RowStates \ {"none"}, content : Contents, acted : BOOLEAN]
      BY <1>2 DEF Row
    <2> QED BY <2>1 DEF RowType
  <1>3. "none" \in RowStates /\ "none" \notin Terminal \cup {"pending"}
    BY DEF RowStates, Terminal
  <1>4. Nothing \notin Contents
    BY ReviewAssumption
  <1>5. ASSUME NEW row \in Row
        PROVE  /\ row.state \in RowStates /\ row.content \in Contents \cup {Nothing}
               /\ row.acted \in BOOLEAN
               /\ row # NoRow <=> row.state # "none"
               /\ row # NoRow => row.content \in Contents /\ row.content # Nothing
               /\ row.state \in Terminal \cup {"pending"} => row # NoRow
               /\ row \in RowType
    <2>1. CASE row = NoRow
      BY <1>1, <1>3, <2>1
    <2>2. CASE row # NoRow
      BY <1>2, <1>4, <2>2
    <2> QED BY <2>1, <2>2
  <1> QED BY <1>1, <1>5

LEMMA RunFacts ==
  ASSUME NEW run \in Run
  PROVE  /\ run \in RunType /\ run.state \in RunStates /\ run.skipped \in SUBSET Capabilities
         /\ run.human \in BOOLEAN /\ run.plan \in {"proposed", "human", "system"}
         /\ run.rows \in [Threads -> Row] /\ \A t \in Threads : run.rows[t] \in Row
  BY RowFacts DEF Run, RunType

LEMMA NewRunOK ==
  /\ NewRun \in Run /\ PlanOK(NewRun) /\ NewRun.state = "not_started" /\ NewRun.plan = "proposed"
  /\ \A t \in Threads : NewRun.rows[t] = NoRow
  BY RowFacts DEF NewRun, Run, RunStates, PlanOK

LEMMA StandingOK ==
  ASSUME NEW view, NEW skipped
  PROVE  /\ Standing(view, skipped) \in RunStates \ {"abandoned"}
         /\ Standing(view, skipped) = "completed" =>
              \A c \in Capabilities \ skipped : GroupDone(view, c)
  BY DEF Standing, RunStates

\* Recomputed, a review keeps its rows, stays aside if it was, has its plan
\* settled if it is done, and is done if it comes out completed.
LEMMA RefreshedOK ==
  ASSUME NEW run \in Run
  PROVE  LET new == Refreshed(run) IN
         /\ new \in Run
         /\ new.rows = run.rows /\ new.skipped = run.skipped /\ new.human = run.human
         /\ new.state = "abandoned" <=> run.state = "abandoned"
         /\ run.plan # "proposed" => new.plan # "proposed"
         /\ PlanOK(run) => PlanOK(new)
         /\ DoneOK(new)
  <1> DEFINE to == Standing(RowsOf(run), run.skipped)
             s == Settled(run, to)
             new == [s EXCEPT !.state = to]
  <1>1. /\ to \in RunStates /\ to # "abandoned"
        /\ to = "completed" => \A c \in Capabilities \ run.skipped : GroupDone(RowsOf(run), c)
    BY StandingOK
  <1>2. Refreshed(run) = IF run.state = "abandoned" THEN run ELSE new
    BY DEF Refreshed
  <1> HIDE DEF to
  <1>3. /\ s \in Run /\ s.rows = run.rows /\ s.skipped = run.skipped /\ s.human = run.human
        /\ s.plan = IF to = "completed" /\ run.plan = "proposed" THEN "system" ELSE run.plan
    BY DEF Settled, Run
  <1> HIDE DEF s
  <1>4. /\ new \in Run /\ new.rows = run.rows /\ new.skipped = run.skipped
        /\ new.human = run.human /\ new.plan = s.plan /\ new.state = to
    BY <1>1, <1>3 DEF Run
  <1> HIDE DEF new
  <1>5. CASE run.state = "abandoned"
    BY <1>2, <1>5 DEF DoneOK
  <1>6. CASE run.state # "abandoned"
    <2>1. PlanOK(run) => PlanOK(new)
      BY <1>3, <1>4 DEF PlanOK
    <2>2. RowsOf(new) = RowsOf(run)
      BY <1>4 DEF RowsOf
    <2>3. DoneOK(new)
      BY <1>1, <1>4, <2>2 DEF DoneOK, GroupDone, Unexecuted
    <2> QED BY <1>1, <1>2, <1>3, <1>4, <1>6, <2>1, <2>3
  <1> QED BY <1>5, <1>6

\* Filling a review gives a thread a row only for content it was not settled at,
\* withdraws what has left, and leaves what was settled alone.
LEMMA FilledOK ==
  ASSUME Typed, NEW run \in Run
  PROVE  LET new == Filled(run) IN
         /\ new \in Run
         /\ new.state = "abandoned" <=> run.state = "abandoned"
         /\ run.plan # "proposed" => new.plan # "proposed"
         /\ PlanOK(run) => PlanOK(new)
         /\ DoneOK(new)
         /\ \A t \in Threads :
              /\ new.rows[t].state = "pending" => mail[t].where # "out"
              /\ run.rows[t] # NoRow =>
                   /\ new.rows[t] # NoRow /\ new.rows[t].content = run.rows[t].content
                   /\ \/ new.rows[t].state = run.rows[t].state
                      \/ run.rows[t].state = "pending" /\ new.rows[t].state = "deferred"
              /\ run.rows[t] = NoRow /\ new.rows[t] # NoRow =>
                   new.rows[t].content \notin SettledContent(t)
  <1> DEFINE rows == [t \in Threads |-> PopulatedRow(WithdrawnRow(run.rows[t], t), t)]
             full == [run EXCEPT !.rows = rows]
  <1>1. ASSUME NEW t \in Threads
        PROVE  LET row == run.rows[t]
                   out == WithdrawnRow(row, t)
               IN /\ out \in Row /\ out.content = row.content
                  /\ row = NoRow => out = NoRow
                  /\ row # NoRow => out # NoRow
                  /\ out.state = "pending" => row.state = "pending" /\ mail[t].where # "out"
                  /\ out.state = row.state \/ (row.state = "pending" /\ out.state = "deferred")
    <2> DEFINE row == run.rows[t]
               out == WithdrawnRow(row, t)
    <2>1. row \in Row
      BY <1>1, RunFacts
    <2>2. CASE row.state = "pending" /\ mail[t].where = "out"
      <3>1. row \in [state : RowStates \ {"none"}, content : Contents, acted : BOOLEAN]
        BY <2>1, <2>2, RowFacts DEF Row
      <3>2. out = [row EXCEPT !.state = "deferred"]
        BY <2>2 DEF WithdrawnRow
      <3>3. out \in Row /\ out.content = row.content /\ out.state = "deferred"
        BY <3>1, <3>2 DEF Row, RowStates
      <3> QED BY <2>2, <3>3, RowFacts
    <2>3. CASE ~(row.state = "pending" /\ mail[t].where = "out")
      <3>1. out = row
        BY <2>3 DEF WithdrawnRow
      <3> QED BY <2>1, <2>3, <3>1, RowFacts
    <2> QED BY <2>2, <2>3
  <1>2. ASSUME NEW t \in Threads, NEW row \in Row
        PROVE  LET put == PopulatedRow(row, t) IN
               /\ put \in Row
               /\ row # NoRow => put = row
               /\ row = NoRow /\ put # NoRow =>
                    /\ put.content = mail[t].content /\ mail[t].where = "in"
                    /\ mail[t].content \notin SettledContent(t)
    <2> DEFINE put == PopulatedRow(row, t)
    <2>1. CASE row # NoRow \/ mail[t].where # "in" \/ mail[t].content \in SettledContent(t)
      BY <1>2, <2>1 DEF PopulatedRow
    <2>2. CASE row = NoRow /\ mail[t].where = "in" /\ mail[t].content \notin SettledContent(t)
      <3> DEFINE to == IF t \in Automatable THEN "approved" ELSE "pending"
      <3>1. put = [NoRow EXCEPT !.state = to, !.content = mail[t].content]
        BY <2>2 DEF PopulatedRow
      <3>2. put = [state |-> to, content |-> mail[t].content, acted |-> FALSE]
        BY <3>1 DEF NoRow
      <3>3. mail[t].content \in Contents /\ to \in RowStates \ {"none"}
        BY DEF Typed, RowStates
      <3> HIDE DEF to
      <3>4. put \in Row /\ put.content = mail[t].content
        BY <3>2, <3>3 DEF Row
      <3> QED BY <2>2, <3>4
    <2> QED BY <2>1, <2>2
  <1> HIDE DEF rows
  <1>3. /\ rows \in [Threads -> Row]
        /\ \A t \in Threads : rows[t] = PopulatedRow(WithdrawnRow(run.rows[t], t), t)
    BY <1>1, <1>2 DEF rows
  <1>4. \A t \in Threads :
              /\ rows[t].state = "pending" => mail[t].where # "out"
              /\ run.rows[t] # NoRow =>
                   /\ rows[t] # NoRow /\ rows[t].content = run.rows[t].content
                   /\ \/ rows[t].state = run.rows[t].state
                      \/ run.rows[t].state = "pending" /\ rows[t].state = "deferred"
              /\ run.rows[t] = NoRow /\ rows[t] # NoRow =>
                   rows[t].content \notin SettledContent(t)
    <2> TAKE t \in Threads
    <2> DEFINE out == WithdrawnRow(run.rows[t], t)
    <2>1. /\ out \in Row /\ out.content = run.rows[t].content
          /\ run.rows[t] = NoRow => out = NoRow
          /\ run.rows[t] # NoRow => out # NoRow
          /\ out.state = "pending" => run.rows[t].state = "pending" /\ mail[t].where # "out"
          /\ out.state = run.rows[t].state \/ (run.rows[t].state = "pending" /\ out.state = "deferred")
      BY <1>1
    <2>2. /\ out # NoRow => rows[t] = out
          /\ out = NoRow /\ rows[t] # NoRow =>
               /\ rows[t].content = mail[t].content /\ mail[t].where = "in"
               /\ mail[t].content \notin SettledContent(t)
      BY <1>2, <1>3, <2>1
    <2> HIDE DEF out
    <2> QED BY <2>1, <2>2, RowFacts
  <1>5. /\ full \in Run /\ full.rows = rows /\ full.state = run.state
        /\ full.plan = run.plan /\ full.human = run.human
    BY <1>3 DEF Run
  <1>6. Filled(run) = Refreshed(full)
    BY DEF Filled, rows
  <1> HIDE DEF full
  <1>7. PlanOK(run) => PlanOK(full)
    BY <1>5 DEF PlanOK
  <1> QED BY <1>4, <1>5, <1>6, <1>7, RefreshedOK

-----------------------------------------------------------------------------
(* What a commit makes of a review                                            *)

\* A row is written by a request that read it, or put in where none was.
LEMMA RowOverOK ==
  ASSUME NEW current \in Row, NEW was \in Row, NEW has \in Row,
         was # NoRow => /\ current # NoRow /\ current.content = was.content
                        /\ has # NoRow /\ has.content = was.content,
         was = NoRow /\ has # NoRow => current = NoRow
  PROVE  LET new == RowOver(current, was, has) IN
         /\ new \in Row
         /\ new.state = Over(current.state, was.state, has.state)
         /\ current # NoRow => new # NoRow /\ new.content = current.content
         /\ current = NoRow => new = has
         /\ has = was => new = current
  <1> DEFINE new == RowOver(current, was, has)
  <1>1. /\ new.state = Over(current.state, was.state, has.state)
        /\ new.content = Over(current.content, was.content, has.content)
    BY DEF RowOver
  <1>2. \A row \in Row : row = [state |-> row.state, content |-> row.content, acted |-> row.acted]
    BY DEF Row, NoRow
  <1>3. has = was => new = current
    BY <1>2 DEF RowOver, Over
  <1>4. current = was => new = has
    BY <1>2 DEF RowOver, Over
  <1>5. CASE was = NoRow
    <2>1. has = was \/ current = was
      BY <1>5
    <2> QED BY <1>1, <1>3, <1>4, <1>5, <2>1 DEF Over
  <1>6. CASE was # NoRow
    <2>1. /\ current \in [state : RowStates \ {"none"}, content : Contents, acted : BOOLEAN]
          /\ has \in [state : RowStates \ {"none"}, content : Contents, acted : BOOLEAN]
      BY <1>6 DEF Row
    <2>2. new \in [state : RowStates \ {"none"}, content : Contents, acted : BOOLEAN]
      BY <2>1 DEF RowOver, Over
    <2>3. new # NoRow
      BY <2>2, RowFacts
    <2>4. new \in Row
      BY <2>2 DEF Row
    <2>5. new.content = current.content
      BY <1>1, <1>6 DEF Over
    <2> HIDE DEF new
    <2> QED BY <1>1, <1>3, <1>6, <2>3, <2>4, <2>5 DEF new
  <1> QED BY <1>5, <1>6

\* What a commit leaves of a review, column by column.
LEMMA MergedOK ==
  ASSUME NEW current \in Run, NEW was \in Run, NEW has \in Run,
         \A t \in Threads :
           /\ was.rows[t] # NoRow =>
                /\ current.rows[t] # NoRow /\ current.rows[t].content = was.rows[t].content
                /\ has.rows[t] # NoRow /\ has.rows[t].content = was.rows[t].content
           /\ was.rows[t] = NoRow /\ has.rows[t] # NoRow => current.rows[t] = NoRow
  PROVE  LET new == Merged(current, was, has) IN
         /\ new \in Run
         /\ new.state = Over(current.state, was.state, has.state)
         /\ new.plan = Over(current.plan, was.plan, has.plan)
         /\ new.skipped = Over(current.skipped, was.skipped, has.skipped)
         /\ new.human = Over(current.human, was.human, has.human)
         /\ \A t \in Threads :
              /\ new.rows[t] = RowOver(current.rows[t], was.rows[t], has.rows[t])
              /\ new.rows[t].state =
                   Over(current.rows[t].state, was.rows[t].state, has.rows[t].state)
              /\ current.rows[t] # NoRow =>
                   new.rows[t] # NoRow /\ new.rows[t].content = current.rows[t].content
              /\ current.rows[t] = NoRow => new.rows[t] = has.rows[t]
              /\ has.rows[t] = was.rows[t] => new.rows[t] = current.rows[t]
  <1> DEFINE new == Merged(current, was, has)
             rows == [t \in Threads |-> RowOver(current.rows[t], was.rows[t], has.rows[t])]
  <1>1. \A t \in Threads :
          LET row == RowOver(current.rows[t], was.rows[t], has.rows[t]) IN
          /\ row \in Row
          /\ row.state = Over(current.rows[t].state, was.rows[t].state, has.rows[t].state)
          /\ current.rows[t] # NoRow => row # NoRow /\ row.content = current.rows[t].content
          /\ current.rows[t] = NoRow => row = has.rows[t]
          /\ has.rows[t] = was.rows[t] => row = current.rows[t]
    <2> TAKE t \in Threads
    <2>1. current.rows[t] \in Row /\ was.rows[t] \in Row /\ has.rows[t] \in Row
      BY RunFacts
    <2> QED BY <2>1, RowOverOK
  <1>2. rows \in [Threads -> Row]
    BY <1>1
  <1>3. /\ new.state = Over(current.state, was.state, has.state)
        /\ new.plan = Over(current.plan, was.plan, has.plan)
        /\ new.skipped = Over(current.skipped, was.skipped, has.skipped)
        /\ new.human = Over(current.human, was.human, has.human)
        /\ new.rows = rows
    BY DEF Merged
  <1>4. new \in Run
    <2> HIDE DEF rows
    <2>1. new = [state |-> Over(current.state, was.state, has.state),
                 plan |-> Over(current.plan, was.plan, has.plan),
                 skipped |-> Over(current.skipped, was.skipped, has.skipped),
                 human |-> Over(current.human, was.human, has.human),
                 rows |-> rows]
      BY DEF Merged, rows
    <2>2. /\ Over(current.state, was.state, has.state) \in RunStates
          /\ Over(current.plan, was.plan, has.plan) \in {"proposed", "human", "system"}
          /\ Over(current.skipped, was.skipped, has.skipped) \in SUBSET Capabilities
          /\ Over(current.human, was.human, has.human) \in BOOLEAN
      BY RunFacts DEF Over
    <2> HIDE DEF new
    <2> QED BY <1>2, <2>1, <2>2 DEF Run
  <1>5. \A t \in Threads :
          new.rows[t] = RowOver(current.rows[t], was.rows[t], has.rows[t])
    BY <1>3
  <1> HIDE DEF new, rows
  <1>6. \A t \in Threads :
              /\ new.rows[t] = RowOver(current.rows[t], was.rows[t], has.rows[t])
              /\ new.rows[t].state =
                   Over(current.rows[t].state, was.rows[t].state, has.rows[t].state)
              /\ current.rows[t] # NoRow =>
                   new.rows[t] # NoRow /\ new.rows[t].content = current.rows[t].content
              /\ current.rows[t] = NoRow => new.rows[t] = has.rows[t]
              /\ has.rows[t] = was.rows[t] => new.rows[t] = current.rows[t]
    BY <1>1, <1>5
  <1> QED BY <1>3, <1>4, <1>6 DEF new

-----------------------------------------------------------------------------
(* One review replaced                                                        *)

\* What a step must show of a row it replaces: one that was there stays at its
\* content, one put in is not last settled as it is, either is done with nobody
\* else opening or continuing, and one settled, or settled no more, is not asked
\* about later.
RowSucceeds(i, row, t) ==
  /\ runs[i].rows[t] # NoRow => row # NoRow /\ row.content = runs[i].rows[t].content
  /\ runs[i].rows[t] = NoRow /\ row # NoRow =>
       LoopFree' /\ (t \in late' \/ Fresh(runs, i, row.content, t))
  /\ row.state = "pending" /\ runs[i].rows[t].state # "pending" => LoopFree'
  /\ t \in late' \/ ~AskedLater(i, t)
     \/ (runs[i].rows[t].state \in Terminal <=> row.state \in Terminal)

\* What a step must show of the review it replaces to keep what the invariant
\* says of the reviews.
Succeeds(i, new) ==
  /\ new.state = "abandoned" => runs[i].state = "abandoned"
  /\ runs[i].state = "abandoned" => new.state = "abandoned" \/ i \in revived'
  /\ runs[i].plan # "proposed" => new.plan # "proposed"
  /\ PlanOK(new)
  /\ i \notin stale' => DoneOK(new)
  /\ \A t \in Threads : RowSucceeds(i, new.rows[t], t)

\* The reviews after a step that replaces one.
LEMMA RunsAfter ==
  ASSUME Typed, NEW i \in DOMAIN runs, NEW new \in Run, runs' = [runs EXCEPT ![i] = new]
  PROVE  /\ runs' \in Seq(Run) /\ DOMAIN runs' = DOMAIN runs /\ Len(runs') = Len(runs)
         /\ DOMAIN runs = 1..Len(runs) /\ Len(runs) \in Nat
         /\ runs'[i] = new /\ \A j \in DOMAIN runs : j # i => runs'[j] = runs[j]
         /\ \A j \in DOMAIN runs : runs[j] \in Run /\ runs'[j] \in Run
  BY DEF Typed

\* A row that some review has, or is being given, is still not as its thread was
\* last settled, for the reviews before it settle it as they did.
LEMMA FreshKept ==
  ASSUME Typed, NEW i \in DOMAIN runs, NEW new \in Run, runs' = [runs EXCEPT ![i] = new],
         NEW t \in Threads, RowSucceeds(i, new.rows[t], t), t \notin late',
         NEW j \in Nat, i < j => AskedLater(i, t),
         NEW content, Fresh(runs, j, content, t)
  PROVE  Fresh(runs', j, content, t)
  <1>1. /\ DOMAIN runs' = DOMAIN runs /\ DOMAIN runs \subseteq Nat
        /\ runs'[i] = new /\ \A k \in DOMAIN runs : k # i => runs'[k] = runs[k]
        /\ runs[i] \in Run
    <2>1. DOMAIN runs = 1..Len(runs) /\ Len(runs) \in Nat
      BY RunsAfter
    <2>2. DOMAIN runs \subseteq Nat
      BY <2>1
    <2> QED BY <2>2, RunsAfter
  <1>2. \A k \in DOMAIN runs : k < j =>
          (runs'[k].rows[t].state \in Terminal <=> runs[k].rows[t].state \in Terminal)
    <2>1. i < j => (new.rows[t].state \in Terminal <=> runs[i].rows[t].state \in Terminal)
      BY DEF RowSucceeds
    <2> QED BY <1>1, <2>1
  <1>3. \A k \in DOMAIN runs : k < j /\ runs[k].rows[t].state \in Terminal =>
          runs'[k].rows[t].content = runs[k].rows[t].content
    <2>1. runs[i].rows[t] \in Row
      BY <1>1, RunFacts
    <2>2. runs[i].rows[t].state \in Terminal => runs[i].rows[t] # NoRow
      BY <2>1, RowFacts
    <2> QED BY <1>1, <2>2 DEF RowSucceeds
  <1> SUFFICES ASSUME NEW k \in DOMAIN runs, k < j, runs'[k].rows[t].state \in Terminal,
                      \A m \in DOMAIN runs : k < m /\ m < j => runs'[m].rows[t].state \notin Terminal
               PROVE  runs'[k].rows[t].content # content
    BY <1>1 DEF Fresh
  <1>4. runs[k].rows[t].state \in Terminal
    BY <1>2
  <1>5. \A m \in DOMAIN runs : k < m /\ m < j => runs[m].rows[t].state \notin Terminal
    BY <1>2
  <1>6. runs[k].rows[t].content # content
    BY <1>4, <1>5 DEF Fresh
  <1> QED BY <1>3, <1>4, <1>6

\* What the invariant says of the reviews.
RunsInv ==
  /\ runs \in Seq(Run) /\ LastOpen /\ OneCurrent
  /\ \A i \in DOMAIN runs : ReviewOK(runs, stale, late, i)

LEMMA ReplacedRun ==
  ASSUME IInv, NEW i \in DOMAIN runs, NEW new \in Run, Succeeds(i, new),
         runs' = [runs EXCEPT ![i] = new],
         revived \subseteq revived', stale \ {i} \subseteq stale', late \subseteq late'
  PROVE  RunsInv'
  <1>0. Typed
    BY DEF IInv
  <1>1. /\ runs' \in Seq(Run) /\ DOMAIN runs' = DOMAIN runs /\ Len(runs') = Len(runs)
        /\ DOMAIN runs = 1..Len(runs) /\ Len(runs) \in Nat
        /\ runs'[i] = new /\ \A j \in DOMAIN runs : j # i => runs'[j] = runs[j]
        /\ \A j \in DOMAIN runs : runs[j] \in Run /\ runs'[j] \in Run
    BY <1>0, RunsAfter
  <1>2. LastOpen'
    <2>1. runs # <<>>
      BY <1>1
    <2>2. runs[Len(runs)].state # "abandoned"
      BY <2>1 DEF IInv, LastOpen
    <2>3. runs'[Len(runs)].state # "abandoned"
      BY <1>1, <2>2 DEF Succeeds
    <2> QED BY <1>1, <2>3 DEF LastOpen
  <1>3. OneCurrent'
    <2>1. ASSUME NEW j \in DOMAIN runs, j < Len(runs)
          PROVE  runs'[j].state = "abandoned" \/ j \in revived'
      BY <1>1, <2>1 DEF IInv, OneCurrent, Succeeds
    <2> QED BY <1>1, <2>1 DEF OneCurrent
  <1>4. ASSUME NEW j \in DOMAIN runs PROVE ReviewOK(runs', stale', late', j)
    <2>1. ReviewOK(runs, stale, late, j)
      BY DEF IInv
    <2>2. PlanOK(runs'[j])
      BY <1>1, <2>1 DEF ReviewOK, Succeeds
    <2>3. j \notin stale' => DoneOK(runs'[j])
      BY <1>1, <2>1 DEF ReviewOK, Succeeds
    <2>4. ASSUME NEW t \in Threads, t \notin late', runs'[j].rows[t] # NoRow
          PROVE  Fresh(runs', j, runs'[j].rows[t].content, t)
      <3>1. RowSucceeds(i, new.rows[t], t)
        BY DEF Succeeds
      <3>2. i < j => AskedLater(i, t)
        BY <1>1, <2>4 DEF AskedLater
      <3>3. Fresh(runs, j, runs'[j].rows[t].content, t)
        <4>1. CASE runs[j].rows[t] # NoRow
          <5>1. runs'[j].rows[t].content = runs[j].rows[t].content
            BY <1>1, <3>1, <4>1 DEF RowSucceeds
          <5> QED BY <2>1, <2>4, <4>1, <5>1 DEF ReviewOK
        <4>2. CASE runs[j].rows[t] = NoRow
          <5>1. j = i /\ runs'[j].rows[t] = new.rows[t]
            BY <1>1, <2>4, <4>2
          <5> QED BY <2>4, <3>1, <4>2, <5>1 DEF RowSucceeds
        <4> QED BY <4>1, <4>2
      <3>4. j \in Nat
        BY <1>1
      <3> QED BY <1>0, <2>4, <3>1, <3>2, <3>3, <3>4, FreshKept
    <2> QED BY <2>2, <2>3, <2>4 DEF ReviewOK
  <1> QED BY <1>1, <1>2, <1>3, <1>4 DEF RunsInv

\* What a request in flight knows outlives what others write to a review.
LEMMA RequestKept ==
  ASSUME IInv, NEW i \in DOMAIN runs, NEW new \in Run, Succeeds(i, new),
         runs' = [runs EXCEPT ![i] = new], mail' = mail, late \subseteq late',
         NEW g \in Handlers, handler'[g] = handler[g]
  PROVE  RequestOK(runs', mail', late', handler'[g])
  <1> DEFINE l == handler[g]
  <1>0. /\ Typed /\ RequestOK(runs, mail, late, l) /\ l \in Request
    BY DEF IInv, Typed
  <1>1. /\ runs' \in Seq(Run) /\ DOMAIN runs' = DOMAIN runs /\ Len(runs') = Len(runs)
        /\ DOMAIN runs = 1..Len(runs) /\ Len(runs) \in Nat
        /\ runs'[i] = new /\ \A j \in DOMAIN runs : j # i => runs'[j] = runs[j]
        /\ \A j \in DOMAIN runs : runs[j] \in Run /\ runs'[j] \in Run
    BY <1>0, RunsAfter
  <1>2. \A t \in Threads : RowSucceeds(i, new.rows[t], t)
    BY DEF Succeeds
  <1>3. l.kind \in {"start", "continue"} => ~LoopFree'
    BY DEF LoopFree
  <1> HIDE DEF l
  <1>4. ASSUME l.kind = "start" PROVE Opening(runs', l)
    BY <1>0, <1>1, <1>4 DEF RequestOK, Opening
  <1>5. ASSUME l.kind \notin {"idle", "start"} PROVE Knows(runs', l) /\ Makes(l)
    <2>1. Knows(runs, l) /\ Makes(l)
      BY <1>0, <1>5 DEF RequestOK
    <2>2. runs'[l.run].plan # "proposed" \/ runs[l.run].plan = "proposed"
      BY <1>1, <2>1 DEF Knows, Succeeds
    <2>3. ASSUME NEW t \in Threads, l.was.rows[t] # NoRow
          PROVE  runs'[l.run].rows[t] # NoRow /\ runs'[l.run].rows[t].content = l.was.rows[t].content
      <3>1. runs[l.run].rows[t] # NoRow /\ runs[l.run].rows[t].content = l.was.rows[t].content
        BY <2>1, <2>3 DEF Knows
      <3>2. l.run \in DOMAIN runs
        BY <2>1 DEF Knows
      <3> QED BY <1>1, <1>2, <3>1, <3>2 DEF RowSucceeds
    <2>4. Knows(runs', l)
      BY <1>1, <2>1, <2>2, <2>3 DEF Knows
    <2> QED BY <2>1, <2>4
  <1>6. ASSUME l.kind = "continue" PROVE Continuing(runs', l)
    <2>1. Continuing(runs, l) /\ ~LoopFree' /\ l.run \in DOMAIN runs
      BY <1>0, <1>3, <1>6 DEF RequestOK, Knows
    <2>2. ASSUME NEW t \in Threads
          PROVE  /\ l.was.rows[t] = NoRow => runs'[l.run].rows[t] = NoRow
                 /\ runs'[l.run].rows[t].state = "pending" => l.was.rows[t].state = "pending"
      <3>1. /\ l.was.rows[t] = NoRow => runs[l.run].rows[t] = NoRow
            /\ runs[l.run].rows[t].state = "pending" => l.was.rows[t].state = "pending"
        BY <2>1 DEF Continuing
      <3>2. CASE l.run = i
        BY <1>1, <1>2, <2>1, <3>1, <3>2 DEF RowSucceeds
      <3>3. CASE l.run # i
        BY <1>1, <2>1, <3>1, <3>3
      <3> QED BY <3>2, <3>3
    <2> QED BY <1>1, <2>1, <2>2 DEF Continuing
  <1>7. ASSUME l.kind \in {"start", "continue"} PROVE Asking(runs', mail', late', l)
    <2>1. Asking(runs, mail, late, l)
      BY <1>0, <1>7 DEF RequestOK
    <2>2. ASSUME NEW t \in Threads, t \notin late', l.has.rows[t] # NoRow
          PROVE  Fresh(runs', l.run, l.has.rows[t].content, t)
      <3>1. Fresh(runs, l.run, l.has.rows[t].content, t)
        BY <2>1, <2>2 DEF Asking
      <3>2. i < l.run => AskedLater(i, t)
        BY <2>2 DEF AskedLater, l
      <3>3. l.run \in Nat
        BY <1>0 DEF Request
      <3> QED BY <1>0, <1>2, <2>2, <3>1, <3>2, <3>3, FreshKept
    <2> QED BY <2>1, <2>2 DEF Asking
  <1>8. Names(l)
    BY <1>0 DEF RequestOK
  <1>9. RequestOK(runs', mail', late', l)
    BY <1>4, <1>5, <1>6, <1>7, <1>8 DEF RequestOK
  <1> QED BY <1>9 DEF l

\* A request that ends has nothing more to know.
LEMMA IdleOK ==
  /\ Idle \in Request /\ Idle.kind = "idle" /\ ~Idle.done /\ RequestOK(runs, mail, late, Idle)
  <1>1. Idle \in Request /\ Idle.kind = "idle" /\ ~Idle.done
    BY NewRunOK DEF Idle, Request
  <1> QED BY <1>1 DEF RequestOK, Names

\* A request that commits a review it read.
LEMMA FinishKeeps ==
  ASSUME IInv, NEW h \in Handlers, Finished(h),
         NEW i \in DOMAIN runs, NEW new \in Run, Succeeds(i, new),
         runs' = [runs EXCEPT ![i] = new],
         mail' = mail, syncs' = syncs, requests' = requests,
         revived \subseteq revived', revived' \subseteq DOMAIN runs,
         stale \ {i} \subseteq stale', stale' \subseteq DOMAIN runs,
         late \subseteq late', late' \subseteq Threads
  PROVE  IInv'
  <1>1. RunsInv'
    BY ReplacedRun
  <1>2. /\ handler' \in [Handlers -> Request] /\ handler'[h] = Idle
        /\ \A g \in Handlers : g # h => handler'[g] = handler[g]
    BY IdleOK DEF Finished, IInv, Typed
  <1>3. DOMAIN runs' = DOMAIN runs
    BY RunsAfter DEF IInv
  <1>4. Typed'
    BY <1>1, <1>2, <1>3 DEF IInv, Typed, RunsInv
  <1>5. ASSUME NEW g \in Handlers PROVE RequestOK(runs', mail', late', handler'[g])
    <2>1. CASE g = h
      BY <1>2, <2>1, IdleOK DEF RequestOK, Names
    <2>2. CASE g # h
      BY <1>2, <2>2, RequestKept
    <2> QED BY <2>1, <2>2
  <1>6. OneAsks'
    BY <1>2, IdleOK DEF IInv, OneAsks
  <1> QED BY <1>1, <1>4, <1>5, <1>6 DEF IInv, RunsInv

-----------------------------------------------------------------------------
(* The actions                                                                *)

LEMMA InitInv == Init => IInv
  <1> SUFFICES ASSUME Init PROVE IInv
    OBVIOUS
  <1>1. runs = <<>> /\ DOMAIN runs = {}
    BY DEF Init
  <1>2. Typed
    BY <1>1, IdleOK, ReviewAssumption DEF Init, Typed
  <1>3. /\ \A h \in Handlers : RequestOK(runs, mail, late, handler[h])
        /\ OneAsks
    BY IdleOK DEF Init, OneAsks
  <1> QED BY <1>1, <1>2, <1>3 DEF IInv, LastOpen, OneCurrent

LEMMA SyncInv ==
  ASSUME IInv, NEW t \in Threads, NEW reading \in Readings(t), Sync(t, reading)
  PROVE  IInv'
  <1>1. /\ UNCHANGED <<runs, handler, requests, revived, stale, late>>
        /\ mail' = [mail EXCEPT ![t] = reading]
        /\ syncs' = syncs + 1 /\ syncs < MaxSyncs /\ LoopFree
    BY DEF Sync, history
  <1>2. reading \in [where : {"unknown", "in", "out", "pruned"}, content : Contents]
    BY DEF Readings, IInv, Typed
  <1>3. Typed'
    <2>1. syncs' \in 0..MaxSyncs
      BY <1>1, ReviewAssumption DEF IInv, Typed
    <2> QED BY <1>1, <1>2, <2>1 DEF IInv, Typed
  <1>4. ASSUME NEW h \in Handlers PROVE RequestOK(runs', mail', late', handler'[h])
    <2>1. handler[h].kind \notin {"start", "continue"} /\ RequestOK(runs, mail, late, handler[h])
      BY <1>1 DEF LoopFree, IInv
    <2> QED BY <1>1, <2>1 DEF RequestOK
  <1> QED BY <1>1, <1>3, <1>4 DEF IInv, LastOpen, OneCurrent, OneAsks

\* A step of one request that commits nothing.
LEMMA HandlerStep ==
  ASSUME IInv, NEW h \in Handlers, NEW l \in Request,
         handler' = [handler EXCEPT ![h] = l],
         UNCHANGED <<mail, runs, syncs, revived, stale, late>>, requests' \in 0..MaxRequests,
         RequestOK(runs, mail, late, l),
         l.kind \in {"start", "continue"} => LoopFree
  PROVE  IInv'
  <1>1. /\ handler' \in [Handlers -> Request] /\ handler'[h] = l
        /\ \A g \in Handlers : g # h => handler'[g] = handler[g]
    BY DEF IInv, Typed
  <1>2. Typed'
    BY <1>1 DEF IInv, Typed
  <1>3. ASSUME NEW g \in Handlers PROVE RequestOK(runs', mail', late', handler'[g])
    BY <1>1 DEF IInv
  <1>4. OneAsks'
    BY <1>1 DEF IInv, OneAsks, LoopFree
  <1> QED BY <1>2, <1>3, <1>4 DEF IInv, LastOpen, OneCurrent

\* A row put in is not at the content its thread was last settled with, among
\* reviews none of which comes after its own or settles the thread in its own.
LEMMA FreshNow ==
  ASSUME Typed, NEW t \in Threads, NEW content, content \notin SettledContent(t),
         NEW j \in Nat,
         \A k \in DOMAIN runs : runs[k].rows[t].state \in Terminal => k < j
  PROVE  Fresh(runs, j, content, t)
  <1> SUFFICES ASSUME NEW i \in DOMAIN runs, i < j, runs[i].rows[t].state \in Terminal,
                      \A k \in DOMAIN runs : i < k /\ k < j => runs[k].rows[t].state \notin Terminal
               PROVE  runs[i].rows[t].content # content
    BY DEF Fresh
  <1> DEFINE S == {k \in DOMAIN runs : runs[k].rows[t].state \in Terminal}
  <1>1. \A k \in S : k \in Nat /\ k < j /\ i \in Nat
    <2>1. DOMAIN runs = 1..Len(runs)
      BY DEF Typed
    <2> QED BY <2>1
  <1>2. \A k \in S : k <= i
    BY <1>1
  <1>3. i \in {k \in S : \A m \in S : m <= k}
    BY <1>2
  <1>4. runs[i].rows[t].content \in SettledContent(t)
    BY <1>3 DEF SettledContent
  <1> QED BY <1>4

LEMMA StartInv ==
  ASSUME IInv, NEW h \in Handlers, Start(h)
  PROVE  IInv'
  <1> DEFINE new == Filled(NewRun)
             l == [kind |-> "start", done |-> TRUE, run |-> Len(runs) + 1, thread |-> NoThread,
                   was |-> NewRun, has |-> new]
  <1>0. Typed
    BY DEF IInv
  <1>1. /\ handler' = [handler EXCEPT ![h] = l] /\ LoopFree
        /\ UNCHANGED <<mail, runs, syncs, requests, revived, stale, late>>
    BY DEF Start, counts, history
  <1>2. /\ new \in Run /\ new.state # "abandoned" /\ PlanOK(new) /\ DoneOK(new)
        /\ \A t \in Threads :
             /\ new.rows[t].state = "pending" => mail[t].where # "out"
             /\ new.rows[t] # NoRow => new.rows[t].content \notin SettledContent(t)
    BY <1>0, NewRunOK, FilledOK
  <1> HIDE DEF new
  <1>3. /\ Len(runs) \in Nat /\ DOMAIN runs = 1..Len(runs)
        /\ \A k \in DOMAIN runs : k < Len(runs) + 1
    BY <1>0 DEF Typed
  <1>4. /\ l \in Request /\ l.kind = "start" /\ l.done /\ l.run = Len(runs) + 1 /\ l.has = new
    BY <1>2, <1>3, NewRunOK DEF Request
  <1> HIDE DEF l
  <1>5. Asking(runs, mail, late, l)
    <2>1. ASSUME NEW t \in Threads, new.rows[t] # NoRow
          PROVE  Fresh(runs, Len(runs) + 1, new.rows[t].content, t)
      BY <1>0, <1>2, <1>3, <2>1, FreshNow
    <2> QED BY <1>2, <1>4, <2>1 DEF Asking
  <1>6. RequestOK(runs, mail, late, l)
    BY <1>2, <1>4, <1>5 DEF RequestOK, Opening, Names
  <1> QED BY <1>0, <1>1, <1>4, <1>6, HandlerStep DEF Typed

\* The current review of a day, if there is one, is its last.
LEMMA CurrentIsLast ==
  ASSUME IInv, NEW i \in DOMAIN runs, IsCurrent(i)
  PROVE  i = Len(runs) /\ runs[i] \in Run /\ runs[i].state # "abandoned"
  <1>1. runs \in Seq(Run) /\ DOMAIN runs = 1..Len(runs) /\ Len(runs) \in Nat
    BY DEF IInv, Typed
  <1>2. runs # <<>> /\ Len(runs) \in DOMAIN runs
    BY <1>1
  <1>3. Len(runs) <= i
    BY <1>2 DEF IInv, LastOpen, IsCurrent
  <1> QED BY <1>1, <1>3 DEF IsCurrent

LEMMA ContinueInv ==
  ASSUME IInv, NEW h \in Handlers, NEW i \in DOMAIN runs, Continue(h, i)
  PROVE  IInv'
  <1> DEFINE old == runs[i]
             new == Filled(old)
             l == [kind |-> "continue", done |-> TRUE, run |-> i, thread |-> NoThread,
                   was |-> old, has |-> new]
  <1>0. Typed
    BY DEF IInv
  <1>1. /\ handler' = [handler EXCEPT ![h] = l] /\ LoopFree
        /\ UNCHANGED <<mail, runs, syncs, requests, revived, stale, late>>
    BY DEF Continue, counts, history
  <1>2. i = Len(runs) /\ old \in Run /\ old.state # "abandoned" /\ i \in Nat
    <2>1. i = Len(runs) /\ old \in Run /\ old.state # "abandoned"
      BY CurrentIsLast DEF Continue
    <2>2. Len(runs) \in Nat
      BY <1>0 DEF Typed
    <2> QED BY <2>1, <2>2
  <1>3. /\ PlanOK(old)
        /\ \A t \in Threads \ late : old.rows[t] # NoRow => Fresh(runs, i, old.rows[t].content, t)
    <2>1. ReviewOK(runs, stale, late, i)
      BY DEF IInv
    <2> QED BY <2>1 DEF ReviewOK
  <1>4. /\ new \in Run
        /\ new.state = "abandoned" <=> old.state = "abandoned"
        /\ old.plan # "proposed" => new.plan # "proposed"
        /\ PlanOK(new) /\ DoneOK(new)
        /\ \A t \in Threads :
              /\ new.rows[t].state = "pending" => mail[t].where # "out"
              /\ old.rows[t] # NoRow =>
                   /\ new.rows[t] # NoRow /\ new.rows[t].content = old.rows[t].content
                   /\ \/ new.rows[t].state = old.rows[t].state
                      \/ old.rows[t].state = "pending" /\ new.rows[t].state = "deferred"
              /\ old.rows[t] = NoRow /\ new.rows[t] # NoRow =>
                   new.rows[t].content \notin SettledContent(t)
    BY <1>0, <1>2, <1>3, FilledOK
  <1>5. \A t \in Threads : old.rows[t] \in Row
    BY <1>2, RunFacts
  <1>6. /\ l \in Request /\ l.kind = "continue" /\ l.done /\ l.run = i
        /\ l.was = old /\ l.has = new
    BY <1>2, <1>4 DEF Request
  <1>7. old = runs[i]
    OBVIOUS
  <1> HIDE DEF new, old, l
  <1>8. Asking(runs, mail, late, l)
    <2>1. ASSUME NEW t \in Threads, t \notin late, new.rows[t] # NoRow
          PROVE  Fresh(runs, i, new.rows[t].content, t)
      <3>1. CASE old.rows[t] # NoRow
        BY <1>3, <1>4, <2>1, <3>1
      <3>2. CASE old.rows[t] = NoRow
        <4>1. old.rows[t].state \notin Terminal
          BY <3>2, RowFacts DEF Terminal
        <4>2. \A k \in DOMAIN runs : runs[k].rows[t].state \in Terminal => k < i
          <5>1. DOMAIN runs = 1..Len(runs)
            BY <1>0 DEF Typed
          <5> QED BY <1>2, <1>7, <4>1, <5>1
        <4> QED BY <1>0, <1>2, <1>4, <2>1, <3>2, <4>2, FreshNow
      <3> QED BY <3>1, <3>2
    <2> QED BY <1>4, <1>6, <2>1 DEF Asking
  <1>9. Knows(runs, l)
    BY <1>3, <1>6, <1>7 DEF Knows, PlanOK
  <1>10. Makes(l)
    <2>1. ASSUME NEW t \in Threads, old.rows[t].state \in Terminal
          PROVE  new.rows[t].state = old.rows[t].state
      <3>1. old.rows[t] # NoRow
        BY <1>5, <2>1, RowFacts
      <3> QED BY <1>4, <2>1, <3>1 DEF Terminal
    <2> QED BY <1>4, <1>6, <2>1 DEF Makes
  <1>11. Continuing(runs, l)
    BY <1>2, <1>6, <1>7 DEF Continuing
  <1>12. RequestOK(runs, mail, late, l)
    BY <1>6, <1>8, <1>9, <1>10, <1>11 DEF RequestOK, Names
  <1> QED BY <1>0, <1>1, <1>6, <1>12, HandlerStep DEF Typed

LEMMA LoadedOK ==
  ASSUME IInv, NEW i \in DOMAIN runs, NEW t
  PROVE  /\ Loaded(i, t) \in Run /\ Loaded(i, t).state = runs[i].state
         /\ Loaded(i, t).plan = "proposed"
         /\ \A u \in Threads :
              Loaded(i, t).rows[u] = IF u = t THEN runs[i].rows[u] ELSE NoRow
  <1> DEFINE rows == [u \in Threads |-> IF u = t THEN runs[i].rows[u] ELSE NoRow]
  <1>1. runs[i] \in Run
    BY DEF IInv, Typed
  <1>2. rows \in [Threads -> Row]
    BY <1>1, RunFacts, RowFacts
  <1>3. Loaded(i, t) = [NewRun EXCEPT !.state = runs[i].state, !.rows = rows]
    BY DEF Loaded
  <1>4. /\ Loaded(i, t) \in Run /\ Loaded(i, t).state = runs[i].state
        /\ Loaded(i, t).plan = "proposed" /\ Loaded(i, t).rows = rows
    <2> HIDE DEF rows
    <2> QED BY <1>1, <1>2, <1>3, NewRunOK DEF Run
  <1> QED BY <1>4

\* What a request has loaded, before it makes anything of it.
LEMMA LoadInv ==
  ASSUME IInv, NEW h \in Handlers, NEW kind \in {"read", "begin", "decide", "act"},
         NEW i \in DOMAIN runs, NEW t \in Threads \cup {NoThread}, Load(h, kind, i, t),
         kind \in {"decide", "act"} => t \in Threads /\ runs[i].rows[t] # NoRow,
         kind = "decide" => runs[i].rows[t].state # "dismissed"
  PROVE  IInv'
  <1> DEFINE at == Loaded(i, t)
             l == [kind |-> kind, done |-> FALSE, run |-> i, thread |-> t, was |-> at, has |-> at]
  <1>1. /\ handler' = [handler EXCEPT ![h] = l]
        /\ UNCHANGED <<mail, runs, syncs, revived, stale, late>>
        /\ requests' = requests + 1 /\ requests < MaxRequests
    BY DEF Load, history
  <1>2. /\ at \in Run /\ at.state = runs[i].state /\ at.plan = "proposed"
        /\ \A u \in Threads : at.rows[u] = IF u = t THEN runs[i].rows[u] ELSE NoRow
    BY LoadedOK
  <1> HIDE DEF at
  <1>3. i \in Nat /\ requests' \in 0..MaxRequests
    <2>1. DOMAIN runs = 1..Len(runs) /\ requests \in 0..MaxRequests
      BY DEF IInv, Typed
    <2> QED BY <1>1, <2>1, ReviewAssumption
  <1>4. /\ l \in Request /\ l.kind = kind /\ ~l.done /\ l.run = i /\ l.thread = t
        /\ l.was = at /\ l.has = at
    BY <1>2, <1>3 DEF Request
  <1> HIDE DEF l
  <1>5. PlanOK(runs[i])
    <2>1. ReviewOK(runs, stale, late, i)
      BY DEF IInv
    <2> QED BY <2>1 DEF ReviewOK
  <1>6. Knows(runs, l)
    BY <1>2, <1>4, <1>5 DEF Knows, PlanOK
  <1>7. Makes(l)
    BY <1>4 DEF Makes
  <1>8. RequestOK(runs, mail, late, l)
    BY <1>2, <1>4, <1>6, <1>7 DEF RequestOK, Names
  <1>9. l.kind \notin {"start", "continue"}
    BY <1>4
  <1> QED BY <1>1, <1>3, <1>4, <1>8, <1>9, HandlerStep

LEMMA LoadsInv ==
  ASSUME IInv, NEW h \in Handlers, NEW i \in DOMAIN runs,
         \/ LoadRead(h, i)
         \/ LoadBegin(h, i)
         \/ \E t \in Threads : LoadDecide(h, i, t) \/ LoadAct(h, i, t)
  PROVE  IInv'
  <1>1. runs[i] \in Run /\ runs[i] \in RunType
    BY RunFacts DEF IInv, Typed
  <1>2. CASE LoadRead(h, i)
    BY <1>2, LoadInv DEF LoadRead
  <1>3. CASE LoadBegin(h, i)
    BY <1>3, LoadInv DEF LoadBegin
  <1>4. ASSUME NEW t \in Threads, LoadDecide(h, i, t) PROVE IInv'
    <2>1. runs[i].rows[t] # NoRow /\ runs[i].rows[t].state # "dismissed"
      BY <1>4, RowFacts DEF LoadDecide
    <2> QED BY <1>4, <2>1, LoadInv DEF LoadDecide
  <1>5. ASSUME NEW t \in Threads, LoadAct(h, i, t) PROVE IInv'
    <2>1. runs[i].rows[t] # NoRow
      BY <1>5, RowFacts DEF LoadAct, Unexecuted
    <2> QED BY <1>5, <2>1, LoadInv DEF LoadAct
  <1> QED BY <1>2, <1>3, <1>4, <1>5

\* The review as a session sees it.
LEMMA SeenOK ==
  ASSUME IInv, NEW h \in Handlers, handler[h].kind \in {"read", "begin", "decide"}
  PROVE  LET i == handler[h].run
             seen == Seen(h)
         IN /\ i \in DOMAIN runs /\ runs[i] \in Run /\ seen \in Run
            /\ seen.plan = runs[i].plan /\ PlanOK(seen)
            /\ \A t \in Threads :
                 /\ seen.rows[t] \in Row
                 /\ seen.rows[t] # NoRow =>
                      runs[i].rows[t] # NoRow /\ runs[i].rows[t].content = seen.rows[t].content
                 /\ t = handler[h].thread => seen.rows[t] = handler[h].was.rows[t]
  <1> DEFINE l == handler[h]
             i == l.run
             seen == Seen(h)
             rows == [t \in Threads |-> IF t = l.thread THEN l.was.rows[t] ELSE runs[i].rows[t]]
  <1>1. l \in Request /\ l.was \in Run
    BY DEF IInv, Typed, Request
  <1>2. Knows(runs, l)
    BY DEF IInv, RequestOK
  <1>3. i \in DOMAIN runs /\ runs[i] \in Run
    BY <1>2 DEF Knows, IInv, Typed
  <1>4. PlanOK(runs[i])
    <2>1. ReviewOK(runs, stale, late, i)
      BY <1>3 DEF IInv
    <2> QED BY <2>1 DEF ReviewOK
  <1>5. rows \in [Threads -> Row]
    BY <1>1, <1>3, RunFacts
  <1>6. seen = [runs[i] EXCEPT !.state = l.was.state, !.rows = rows]
    BY DEF Seen
  <1>7. l.was.state \in RunStates
    BY <1>1, RunFacts
  <1>8. /\ seen \in Run /\ seen.state = l.was.state /\ seen.rows = rows
        /\ seen.plan = runs[i].plan /\ seen.human = runs[i].human
    <2> HIDE DEF rows, seen, l
    <2> QED BY <1>3, <1>5, <1>6, <1>7 DEF Run
  <1>9. PlanOK(seen)
    BY <1>2, <1>4, <1>8 DEF PlanOK, Knows
  <1>10. \A t \in Threads :
           /\ rows[t] \in Row
           /\ rows[t] # NoRow =>
                runs[i].rows[t] # NoRow /\ runs[i].rows[t].content = rows[t].content
           /\ t = l.thread => rows[t] = l.was.rows[t]
    BY <1>2, <1>5 DEF Knows
  <1> HIDE DEF rows
  <1> QED BY <1>3, <1>8, <1>9, <1>10

\* What a request makes of what it sees.
LEMMA RecomputedInv ==
  ASSUME IInv, NEW h \in Handlers, handler[h].kind \in {"read", "begin", "decide"},
         NEW run \in Run, Recomputed(h, run), PlanOK(run),
         run.state = Seen(h).state,
         Seen(h).plan # "proposed" => run.plan # "proposed",
         \A t \in Threads :
           \/ run.rows[t] = Seen(h).rows[t]
           \/ /\ run.rows[t] # NoRow /\ Seen(h).rows[t] # NoRow
              /\ run.rows[t].content = Seen(h).rows[t].content
              /\ run.rows[t].state # "pending"
              /\ Seen(h).rows[t].state \in Terminal =>
                   Seen(h).rows[t].state = "executed" /\ run.rows[t].state \in Unexecuted
  PROVE  IInv'
  <1> DEFINE i == handler[h].run
             was == Seen(h)
             has == Refreshed(run)
             l == [kind |-> handler[h].kind, done |-> TRUE, run |-> i,
                   thread |-> handler[h].thread, was |-> was, has |-> has]
  <1>1. /\ handler' = [handler EXCEPT ![h] = l]
        /\ UNCHANGED <<mail, runs, syncs, requests, revived, stale, late>>
    BY DEF Recomputed, counts, history
  <1>2. /\ i \in DOMAIN runs /\ was \in Run /\ was.plan = runs[i].plan /\ PlanOK(was)
        /\ \A t \in Threads :
             /\ was.rows[t] \in Row
             /\ was.rows[t] # NoRow =>
                  runs[i].rows[t] # NoRow /\ runs[i].rows[t].content = was.rows[t].content
             /\ t = handler[h].thread => was.rows[t] = handler[h].was.rows[t]
    BY SeenOK
  <1>3. /\ has \in Run /\ has.rows = run.rows /\ PlanOK(has) /\ DoneOK(has)
        /\ has.state = "abandoned" <=> run.state = "abandoned"
        /\ run.plan # "proposed" => has.plan # "proposed"
    BY RefreshedOK
  <1>4. was = Seen(h)
    OBVIOUS
  <1> HIDE DEF was, has
  <1>5. /\ handler[h] \in Request /\ Names(handler[h])
        /\ requests \in 0..MaxRequests
    BY DEF IInv, Typed, RequestOK
  <1>6. /\ l \in Request /\ l.kind = handler[h].kind /\ l.done /\ l.run = i
        /\ l.thread = handler[h].thread /\ l.was = was /\ l.has = has
    BY <1>2, <1>3, <1>5 DEF Request
  <1> HIDE DEF l
  <1>7. Knows(runs, l)
    BY <1>2, <1>6 DEF Knows, PlanOK
  <1>8. Makes(l)
    BY <1>3, <1>4, <1>6 DEF Makes
  <1>9. Names(l)
    BY <1>2, <1>5, <1>6 DEF Names
  <1>10. RequestOK(runs, mail, late, l) /\ l.kind \notin {"start", "continue"}
    BY <1>6, <1>7, <1>8, <1>9 DEF RequestOK
  <1> QED BY <1>1, <1>5, <1>6, <1>10, HandlerStep

LEMMA ReadInv ==
  ASSUME IInv, NEW h \in Handlers, Read(h)
  PROVE  IInv'
  <1>1. handler[h].kind \in {"read", "begin", "decide"} /\ Recomputed(h, Seen(h))
    BY DEF Read
  <1>2. Seen(h) \in Run /\ PlanOK(Seen(h))
    BY <1>1, SeenOK
  <1> QED BY <1>1, <1>2, RecomputedInv

LEMMA BeginInv ==
  ASSUME IInv, NEW h \in Handlers, NEW skip \in SUBSET Capabilities, Begin(h, skip)
  PROVE  IInv'
  <1> DEFINE run == [Seen(h) EXCEPT !.plan = IF @ = "proposed" THEN "human" ELSE @,
                                    !.skipped = skip]
  <1>1. handler[h].kind \in {"read", "begin", "decide"} /\ Recomputed(h, run)
    BY DEF Begin
  <1>2. Seen(h) \in Run /\ PlanOK(Seen(h))
    BY <1>1, SeenOK
  <1>3. /\ run \in Run /\ run.state = Seen(h).state /\ run.rows = Seen(h).rows
        /\ run.plan # "proposed"
    BY <1>2 DEF Run
  <1> HIDE DEF run
  <1>4. PlanOK(run)
    BY <1>3 DEF PlanOK
  <1> QED BY <1>1, <1>3, <1>4, RecomputedInv

LEMMA DecideInv ==
  ASSUME IInv, NEW h \in Handlers, NEW state \in {"approved", "dismissed", "deferred"},
         Decide(h, state)
  PROVE  IInv'
  <1> DEFINE u == handler[h].thread
             seen == Seen(h)
             agreed == Agreed(seen)
             run == [agreed EXCEPT !.human = TRUE, !.rows[u].state = state]
  <1>1. /\ handler[h].kind = "decide" /\ Recomputed(h, run)
        /\ handler[h].was.rows[u].state = "executed" => state = "approved"
    BY DEF Decide
  <1>2. /\ u \in Threads /\ handler[h].was.rows[u] # NoRow
        /\ handler[h].was.rows[u].state # "dismissed"
    BY <1>1 DEF IInv, RequestOK, Names
  <1>3. seen \in Run /\ seen.rows[u] = handler[h].was.rows[u] /\ seen.rows[u] \in Row
    BY <1>1, <1>2, SeenOK
  <1>4. seen = Seen(h)
    OBVIOUS
  <1> HIDE DEF seen, u
  <1>5. /\ agreed \in Run /\ agreed.state = seen.state /\ agreed.rows = seen.rows
        /\ agreed.plan # "proposed"
    BY <1>3 DEF Agreed, Run
  <1> HIDE DEF agreed
  <1> DEFINE row == [agreed.rows[u] EXCEPT !.state = state]
  <1>6. row \in Row /\ row # NoRow /\ row.state = state /\ row.content = seen.rows[u].content
    <2>1. seen.rows[u] \in [state : RowStates \ {"none"}, content : Contents, acted : BOOLEAN]
      BY <1>2, <1>3 DEF Row
    <2>2. state \in RowStates \ {"none"}
      BY DEF RowStates
    <2>3. /\ row \in [state : RowStates \ {"none"}, content : Contents, acted : BOOLEAN]
          /\ row.state = state /\ row.content = seen.rows[u].content
      BY <1>5, <2>1, <2>2
    <2>4. row \in Row
      BY <2>3 DEF Row
    <2>5. state # "none"
      OBVIOUS
    <2> QED BY <2>3, <2>4, <2>5, RowFacts
  <1>7. run = [agreed EXCEPT !.human = TRUE, !.rows = [agreed.rows EXCEPT ![u] = row]]
    BY <1>5 DEF Run
  <1> HIDE DEF row
  <1>8. /\ run \in Run /\ run.state = seen.state /\ run.plan # "proposed"
        /\ run.rows = [seen.rows EXCEPT ![u] = row]
    <2> DEFINE rows == [agreed.rows EXCEPT ![u] = row]
    <2>1. rows \in [Threads -> Row] /\ rows = [seen.rows EXCEPT ![u] = row]
      BY <1>5, <1>6, RunFacts
    <2> HIDE DEF rows
    <2>2. run = [agreed EXCEPT !.human = TRUE, !.rows = rows]
      BY <1>7 DEF rows
    <2>3. /\ run \in Run /\ run.state = agreed.state /\ run.plan = agreed.plan
          /\ run.rows = rows
      <3> HIDE DEF run
      <3> QED BY <1>5, <2>1, <2>2 DEF Run
    <2> QED BY <1>5, <2>1, <2>3
  <1> HIDE DEF run
  <1>9. \A t \in Threads : run.rows[t] = IF t = u THEN row ELSE seen.rows[t]
    BY <1>2, <1>3, <1>8 DEF Run
  <1>10. PlanOK(run)
    BY <1>8 DEF PlanOK
  <1>11. seen.rows[u].state \in Terminal => seen.rows[u].state = "executed" /\ state \in Unexecuted
    BY <1>1, <1>2, <1>3 DEF Terminal, Unexecuted, u
  <1>12. \A t \in Threads :
           \/ run.rows[t] = seen.rows[t]
           \/ /\ run.rows[t] # NoRow /\ seen.rows[t] # NoRow
              /\ run.rows[t].content = seen.rows[t].content
              /\ run.rows[t].state # "pending"
              /\ seen.rows[t].state \in Terminal =>
                   seen.rows[t].state = "executed" /\ run.rows[t].state \in Unexecuted
    BY <1>2, <1>3, <1>6, <1>9, <1>11
  <1>13. /\ run.state = Seen(h).state
         /\ \A t \in Threads :
           \/ run.rows[t] = Seen(h).rows[t]
           \/ /\ run.rows[t] # NoRow /\ Seen(h).rows[t] # NoRow
              /\ run.rows[t].content = Seen(h).rows[t].content
              /\ run.rows[t].state # "pending"
              /\ Seen(h).rows[t].state \in Terminal =>
                   Seen(h).rows[t].state = "executed" /\ run.rows[t].state \in Unexecuted
    BY <1>4, <1>8, <1>12
  <1> QED BY <1>1, <1>8, <1>10, <1>13, RecomputedInv

\* What a request that read a review writes to it, a continuation included.
LEMMA CommitWrites ==
  ASSUME IInv, NEW h \in Handlers, handler[h].kind \notin {"idle", "start"}
  PROVE  LET l == handler[h]
             i == l.run
             new == Merged(runs[i], l.was, l.has)
         IN /\ i \in DOMAIN runs /\ runs[i] \in Run /\ l.was \in Run /\ l.has \in Run
            /\ new \in Run
            /\ new.state = Over(runs[i].state, l.was.state, l.has.state)
            /\ new.plan = Over(runs[i].plan, l.was.plan, l.has.plan)
            /\ new.skipped = Over(runs[i].skipped, l.was.skipped, l.has.skipped)
            /\ new.human = Over(runs[i].human, l.was.human, l.has.human)
            /\ \A t \in Threads :
                 /\ new.rows[t].state =
                      Over(runs[i].rows[t].state, l.was.rows[t].state, l.has.rows[t].state)
                 /\ runs[i].rows[t] # NoRow =>
                      new.rows[t] # NoRow /\ new.rows[t].content = runs[i].rows[t].content
                 /\ runs[i].rows[t] = NoRow =>
                      new.rows[t] = l.has.rows[t] /\ l.was.rows[t] = NoRow
  <1> DEFINE l == handler[h]
             i == l.run
  <1>1. l \in Request /\ l.was \in Run /\ l.has \in Run
    BY DEF IInv, Typed, Request
  <1>2. Knows(runs, l) /\ Makes(l) /\ (l.kind = "continue" => Continuing(runs, l))
    BY DEF IInv, RequestOK
  <1>3. i \in DOMAIN runs /\ runs[i] \in Run
    BY <1>2 DEF Knows, IInv, Typed
  <1> HIDE DEF l
  <1>4. \A t \in Threads :
           /\ l.was.rows[t] # NoRow =>
                /\ runs[i].rows[t] # NoRow /\ runs[i].rows[t].content = l.was.rows[t].content
                /\ l.has.rows[t] # NoRow /\ l.has.rows[t].content = l.was.rows[t].content
           /\ l.was.rows[t] = NoRow /\ l.has.rows[t] # NoRow => runs[i].rows[t] = NoRow
    BY <1>2 DEF Knows, Makes, Continuing
  <1> DEFINE current == runs[i]
             was == l.was
             has == l.has
             new == Merged(current, was, has)
  <1> HIDE DEF current, was, has
  <1>5. /\ new \in Run
        /\ new.state = Over(runs[i].state, l.was.state, l.has.state)
        /\ new.plan = Over(runs[i].plan, l.was.plan, l.has.plan)
        /\ new.skipped = Over(runs[i].skipped, l.was.skipped, l.has.skipped)
        /\ new.human = Over(runs[i].human, l.was.human, l.has.human)
        /\ \A t \in Threads :
             /\ new.rows[t].state =
                  Over(runs[i].rows[t].state, l.was.rows[t].state, l.has.rows[t].state)
             /\ runs[i].rows[t] # NoRow =>
                  new.rows[t] # NoRow /\ new.rows[t].content = runs[i].rows[t].content
             /\ runs[i].rows[t] = NoRow => new.rows[t] = l.has.rows[t]
    <2>1. /\ current \in Run /\ was \in Run /\ has \in Run
          /\ \A t \in Threads :
               /\ was.rows[t] # NoRow =>
                    /\ current.rows[t] # NoRow /\ current.rows[t].content = was.rows[t].content
                    /\ has.rows[t] # NoRow /\ has.rows[t].content = was.rows[t].content
               /\ was.rows[t] = NoRow /\ has.rows[t] # NoRow => current.rows[t] = NoRow
      BY <1>1, <1>3, <1>4 DEF current, was, has
    <2>2. /\ new \in Run
          /\ new.state = Over(current.state, was.state, has.state)
          /\ new.plan = Over(current.plan, was.plan, has.plan)
          /\ new.skipped = Over(current.skipped, was.skipped, has.skipped)
          /\ new.human = Over(current.human, was.human, has.human)
          /\ \A t \in Threads :
               /\ new.rows[t].state =
                    Over(current.rows[t].state, was.rows[t].state, has.rows[t].state)
               /\ current.rows[t] # NoRow =>
                    new.rows[t] # NoRow /\ new.rows[t].content = current.rows[t].content
               /\ current.rows[t] = NoRow => new.rows[t] = has.rows[t]
      BY <2>1, MergedOK
    <2> HIDE DEF new
    <2> QED BY <2>2 DEF current, was, has
  <1> HIDE DEF new
  <1>6. \A t \in Threads : runs[i].rows[t] = NoRow => l.was.rows[t] = NoRow
    BY <1>4
  <1> QED BY <1>1, <1>3, <1>5, <1>6 DEF new, l, current, was, has

LEMMA CommitInv ==
  ASSUME IInv, NEW h \in Handlers, Commit(h)
  PROVE  IInv'
  <1> DEFINE l == handler[h]
             i == l.run
             new == Merged(runs[i], l.was, l.has)
  <1>1. /\ l.done /\ l.kind # "start" /\ runs' = [runs EXCEPT ![i] = new]
        /\ revived' = revived \cup {j \in {i} : runs[j].state = "abandoned" /\ l.was.state # "abandoned"}
        /\ stale' = Restated(i, l.was)
        /\ late' = late \cup SettledLate(i, new)
        /\ Finished(h) /\ UNCHANGED <<mail, syncs, requests>>
    BY DEF Commit, counts
  <1>2. l.kind # "idle"
    BY <1>1 DEF IInv, RequestOK, Names
  <1>3. /\ i \in DOMAIN runs /\ runs[i] \in Run /\ l.was \in Run /\ l.has \in Run
        /\ new \in Run
        /\ new.state = Over(runs[i].state, l.was.state, l.has.state)
        /\ new.plan = Over(runs[i].plan, l.was.plan, l.has.plan)
        /\ new.skipped = Over(runs[i].skipped, l.was.skipped, l.has.skipped)
        /\ new.human = Over(runs[i].human, l.was.human, l.has.human)
        /\ \A t \in Threads :
             /\ new.rows[t].state =
                  Over(runs[i].rows[t].state, l.was.rows[t].state, l.has.rows[t].state)
             /\ runs[i].rows[t] # NoRow =>
                  new.rows[t] # NoRow /\ new.rows[t].content = runs[i].rows[t].content
             /\ runs[i].rows[t] = NoRow =>
                  new.rows[t] = l.has.rows[t] /\ l.was.rows[t] = NoRow
    BY <1>1, <1>2, CommitWrites
  <1>4. /\ Knows(runs, l) /\ Makes(l)
        /\ l.kind = "continue" => Asking(runs, mail, late, l)
    BY <1>1, <1>2 DEF IInv, RequestOK
  <1>5. l.kind = "continue" => LoopFree'
    <2>1. handler'[h] = Idle /\ \A g \in Handlers : g # h => handler'[g] = handler[g]
      BY <1>1 DEF Finished, IInv, Typed
    <2> QED BY <2>1, IdleOK DEF IInv, OneAsks, LoopFree
  <1>6. ReviewOK(runs, stale, late, i)
    BY <1>3 DEF IInv
  <1> HIDE DEF new, l
  <1>7. \A t \in Threads : RowSucceeds(i, new.rows[t], t)
    <2> TAKE t \in Threads
    <2>1. runs[i].rows[t] = NoRow /\ new.rows[t] # NoRow =>
            LoopFree' /\ (t \in late' \/ Fresh(runs, i, new.rows[t].content, t))
      <3> SUFFICES ASSUME runs[i].rows[t] = NoRow, new.rows[t] # NoRow
                   PROVE  LoopFree' /\ (t \in late' \/ Fresh(runs, i, new.rows[t].content, t))
        OBVIOUS
      <3>1. new.rows[t] = l.has.rows[t] /\ l.was.rows[t] = NoRow
        BY <1>3
      <3>2. l.kind = "continue"
        BY <1>4, <3>1 DEF Makes
      <3>3. t \notin late => Fresh(runs, i, new.rows[t].content, t)
        BY <1>4, <3>1, <3>2 DEF Asking
      <3> QED BY <1>1, <1>5, <3>2, <3>3
    <2>2. new.rows[t].state = "pending" /\ runs[i].rows[t].state # "pending" => LoopFree'
      BY <1>3, <1>4, <1>5 DEF Over, Makes
    <2>3. \/ t \in late' \/ ~AskedLater(i, t)
          \/ (runs[i].rows[t].state \in Terminal <=> new.rows[t].state \in Terminal)
      BY <1>1 DEF SettledLate
    <2> QED BY <1>3, <2>1, <2>2, <2>3 DEF RowSucceeds
  <1>8. runs[i].plan # "proposed" => new.plan # "proposed"
    BY <1>3, <1>4 DEF Over, Makes
  <1>9. PlanOK(new)
    <2>1. l.has.plan # "proposed" => new.plan # "proposed"
      BY <1>3, <1>4 DEF Over, Makes, Knows
    <2>2. PlanOK(runs[i]) /\ PlanOK(l.has)
      BY <1>1, <1>4, <1>6 DEF ReviewOK, Makes
    <2> QED BY <1>3, <1>8, <2>1, <2>2 DEF PlanOK, Over
  <1>10. i \notin stale' => DoneOK(new)
    <2> SUFFICES ASSUME i \notin stale' PROVE DoneOK(new)
      OBVIOUS
    <2>1. /\ runs[i].state = l.was.state /\ runs[i].skipped = l.was.skipped
          /\ RowsOf(runs[i]) = RowsOf(l.was)
      BY <1>1 DEF Restated, OutOfStep
    <2>2. new.state = l.has.state /\ new.skipped = l.has.skipped
      BY <1>3, <2>1 DEF Over
    <2>3. \A t \in Threads : runs[i].rows[t].state = l.was.rows[t].state
      <3>1. \A t \in Threads : RowsOf(runs[i])[t] = RowsOf(l.was)[t]
        BY <2>1
      <3> QED BY <3>1 DEF RowsOf
    <2>4. RowsOf(new) = RowsOf(l.has)
      BY <1>3, <2>3 DEF RowsOf, Over
    <2>5. DoneOK(l.has)
      BY <1>1, <1>4 DEF Makes
    <2> QED BY <2>2, <2>4, <2>5 DEF DoneOK
  <1>11. /\ new.state = "abandoned" => runs[i].state = "abandoned"
         /\ runs[i].state = "abandoned" => new.state = "abandoned" \/ i \in revived'
    BY <1>1, <1>3, <1>4 DEF Over, Makes
  <1>12. Succeeds(i, new)
    BY <1>7, <1>8, <1>9, <1>10, <1>11 DEF Succeeds
  <1>13. /\ revived \subseteq revived' /\ revived' \subseteq DOMAIN runs
         /\ stale \ {i} \subseteq stale' /\ stale' \subseteq DOMAIN runs
         /\ late \subseteq late' /\ late' \subseteq Threads
    BY <1>1, <1>3 DEF IInv, Typed, Restated, SettledLate
  <1> QED BY <1>1, <1>3, <1>12, <1>13, FinishKeeps

\* What an execution writes: its own row, and nothing else of the review.
LEMMA ActWrites ==
  ASSUME IInv, NEW h \in Handlers, NEW state \in {"executed", "failed"}, handler[h].kind = "act"
  PROVE  LET l == handler[h]
             i == l.run
             new == Merged(runs[i], l.was,
                      [l.has EXCEPT !.rows[l.thread] =
                        [state |-> state, content |-> @.content, acted |-> TRUE]])
         IN /\ i \in DOMAIN runs /\ runs[i] \in Run /\ new \in Run /\ l.thread \in Threads
            /\ new.state = runs[i].state /\ new.plan = runs[i].plan
            /\ new.skipped = runs[i].skipped /\ new.human = runs[i].human
            /\ runs[i].rows[l.thread] # NoRow /\ new.rows[l.thread] # NoRow
            /\ new.rows[l.thread].content = runs[i].rows[l.thread].content
            /\ new.rows[l.thread].state \in {runs[i].rows[l.thread].state, state}
            /\ \A t \in Threads \ {l.thread} : new.rows[t] = runs[i].rows[t]
  <1> DEFINE l == handler[h]
             i == l.run
             u == l.thread
             has == [l.has EXCEPT !.rows[u] =
                       [state |-> state, content |-> @.content, acted |-> TRUE]]
             row == [state |-> state, content |-> l.was.rows[u].content, acted |-> TRUE]
  <1>1. l \in Request /\ l.was \in Run
    BY DEF IInv, Typed, Request
  <1>2. /\ Knows(runs, l) /\ l.has = l.was
        /\ u \in Threads /\ l.was.rows[u] # NoRow
    BY DEF IInv, RequestOK, Names, Makes
  <1>3. i \in DOMAIN runs /\ runs[i] \in Run
    BY <1>2 DEF Knows, IInv, Typed
  <1> HIDE DEF l
  <1>4. l.was.rows[u] \in [state : RowStates \ {"none"}, content : Contents, acted : BOOLEAN]
    BY <1>1, <1>2, RunFacts DEF Row
  <1>5. row \in Row /\ row # NoRow /\ row.state = state /\ row.content = l.was.rows[u].content
    <2>1. state \in RowStates \ {"none"}
      BY DEF RowStates
    <2>2. row \in Row
      BY <1>4, <2>1 DEF Row
    <2> QED BY <2>1, <2>2, RowFacts
  <1> DEFINE rows == [l.was.rows EXCEPT ![u] = row]
  <1>6. has = [l.was EXCEPT !.rows = rows]
    <2>1. l.was.rows \in [Threads -> Row] /\ u \in DOMAIN l.was.rows
      BY <1>1, <1>2, RunFacts
    <2> QED BY <1>1, <1>2, <2>1 DEF Run
  <1> HIDE DEF row
  <1>7. rows \in [Threads -> Row] /\ \A t \in Threads : rows[t] = IF t = u THEN row ELSE l.was.rows[t]
    BY <1>1, <1>2, <1>5, RunFacts
  <1> HIDE DEF rows, has
  <1>8. /\ has \in Run /\ has.state = l.was.state /\ has.plan = l.was.plan
        /\ has.skipped = l.was.skipped /\ has.human = l.was.human /\ has.rows = rows
    BY <1>1, <1>6, <1>7 DEF Run
  <1>9. \A t \in Threads :
           /\ l.was.rows[t] # NoRow =>
                /\ runs[i].rows[t] # NoRow /\ runs[i].rows[t].content = l.was.rows[t].content
                /\ has.rows[t] # NoRow /\ has.rows[t].content = l.was.rows[t].content
           /\ l.was.rows[t] = NoRow /\ has.rows[t] # NoRow => runs[i].rows[t] = NoRow
    BY <1>2, <1>5, <1>7, <1>8 DEF Knows
  <1> DEFINE current == runs[i]
             was == l.was
             new == Merged(current, was, has)
  <1> HIDE DEF current, was
  <1>10. /\ new \in Run
         /\ new.state = Over(runs[i].state, l.was.state, has.state)
         /\ new.plan = Over(runs[i].plan, l.was.plan, has.plan)
         /\ new.skipped = Over(runs[i].skipped, l.was.skipped, has.skipped)
         /\ new.human = Over(runs[i].human, l.was.human, has.human)
         /\ \A t \in Threads :
              /\ new.rows[t].state =
                   Over(runs[i].rows[t].state, l.was.rows[t].state, has.rows[t].state)
              /\ runs[i].rows[t] # NoRow =>
                   new.rows[t] # NoRow /\ new.rows[t].content = runs[i].rows[t].content
              /\ has.rows[t] = l.was.rows[t] => new.rows[t] = runs[i].rows[t]
    <2>1. /\ current \in Run /\ was \in Run
          /\ \A t \in Threads :
               /\ was.rows[t] # NoRow =>
                    /\ current.rows[t] # NoRow /\ current.rows[t].content = was.rows[t].content
                    /\ has.rows[t] # NoRow /\ has.rows[t].content = was.rows[t].content
               /\ was.rows[t] = NoRow /\ has.rows[t] # NoRow => current.rows[t] = NoRow
      BY <1>1, <1>3, <1>9 DEF current, was
    <2>2. /\ new \in Run
          /\ new.state = Over(current.state, was.state, has.state)
          /\ new.plan = Over(current.plan, was.plan, has.plan)
          /\ new.skipped = Over(current.skipped, was.skipped, has.skipped)
          /\ new.human = Over(current.human, was.human, has.human)
          /\ \A t \in Threads :
               /\ new.rows[t].state =
                    Over(current.rows[t].state, was.rows[t].state, has.rows[t].state)
               /\ current.rows[t] # NoRow =>
                    new.rows[t] # NoRow /\ new.rows[t].content = current.rows[t].content
               /\ has.rows[t] = was.rows[t] => new.rows[t] = current.rows[t]
      BY <1>8, <2>1, MergedOK
    <2> HIDE DEF new
    <2> QED BY <2>2 DEF current, was
  <1> HIDE DEF new
  <1>11. runs[i].rows[u] # NoRow /\ \A t \in Threads \ {u} : new.rows[t] = runs[i].rows[t]
    BY <1>2, <1>7, <1>8, <1>9, <1>10
  <1>12. new.rows[u].state \in {runs[i].rows[u].state, state}
    BY <1>2, <1>5, <1>7, <1>8, <1>10 DEF Over
  <1>13. /\ new.state = runs[i].state /\ new.plan = runs[i].plan
         /\ new.skipped = runs[i].skipped /\ new.human = runs[i].human
    BY <1>8, <1>10 DEF Over
  <1> QED BY <1>2, <1>3, <1>10, <1>11, <1>12, <1>13 DEF new, has, l, current, was

LEMMA ActInv ==
  ASSUME IInv, NEW h \in Handlers, NEW state \in {"executed", "failed"}, Act(h, state)
  PROVE  IInv'
  <1> DEFINE l == handler[h]
             i == l.run
             u == l.thread
             new == Merged(runs[i], l.was,
                      [l.has EXCEPT !.rows[u] =
                        [state |-> state, content |-> @.content, acted |-> TRUE]])
  <1>1. /\ l.kind = "act" /\ runs' = [runs EXCEPT ![i] = new]
        /\ late' = late \cup SettledLate(i, new)
        /\ Finished(h) /\ UNCHANGED <<mail, syncs, requests, revived, stale>>
    BY DEF Act, counts
  <1>2. /\ i \in DOMAIN runs /\ runs[i] \in Run /\ new \in Run /\ u \in Threads
        /\ new.state = runs[i].state /\ new.plan = runs[i].plan
        /\ new.skipped = runs[i].skipped /\ new.human = runs[i].human
        /\ runs[i].rows[u] # NoRow /\ new.rows[u] # NoRow
        /\ new.rows[u].content = runs[i].rows[u].content
        /\ new.rows[u].state \in {runs[i].rows[u].state, state}
        /\ \A t \in Threads \ {u} : new.rows[t] = runs[i].rows[t]
    BY <1>1, ActWrites
  <1> HIDE DEF new, l
  <1>3. ReviewOK(runs, stale, late, i)
    BY <1>2 DEF IInv
  <1>4. \A t \in Threads : RowSucceeds(i, new.rows[t], t)
    <2> TAKE t \in Threads
    <2>1. \/ t \in late' \/ ~AskedLater(i, t)
          \/ (runs[i].rows[t].state \in Terminal <=> new.rows[t].state \in Terminal)
      BY <1>1 DEF SettledLate
    <2> QED BY <1>2, <2>1 DEF RowSucceeds
  <1>5. DoneOK(runs[i]) => DoneOK(new)
    <2>1. \A t \in Threads : \/ RowsOf(new)[t] = RowsOf(runs[i])[t]
                             \/ RowsOf(new)[t] \in {"executed", "failed"}
      BY <1>2 DEF RowsOf
    <2>2. \A G \in SUBSET Threads : States(RowsOf(new), G)
                                      \subseteq States(RowsOf(runs[i]), G) \cup {"executed", "failed"}
      BY <2>1 DEF States
    <2>3. \A c \in Capabilities : Group(c) \subseteq Threads
      BY DEF Group
    <2> QED BY <1>2, <2>2, <2>3 DEF DoneOK
  <1>6. Succeeds(i, new)
    BY <1>1, <1>2, <1>3, <1>4, <1>5 DEF Succeeds, ReviewOK, PlanOK
  <1>7. /\ revived \subseteq revived' /\ revived' \subseteq DOMAIN runs
        /\ stale \ {i} \subseteq stale' /\ stale' \subseteq DOMAIN runs
        /\ late \subseteq late' /\ late' \subseteq Threads
    BY <1>1 DEF IInv, Typed, SettledLate
  <1> QED BY <1>1, <1>2, <1>6, <1>7, FinishKeeps

\* Whatever is current is set aside; what it holds stays.
LEMMA SetAsideOK ==
  ASSUME IInv
  PROVE  /\ SetAside \in Seq(Run) /\ Len(SetAside) = Len(runs)
         /\ \A j \in DOMAIN runs :
              /\ SetAside[j].rows = runs[j].rows /\ SetAside[j].plan = runs[j].plan
              /\ SetAside[j].human = runs[j].human /\ SetAside[j].skipped = runs[j].skipped
              /\ SetAside[j].state = "abandoned" \/ (j \in revived /\ SetAside[j] = runs[j])
  <1>1. runs \in Seq(Run) /\ DOMAIN runs = 1..Len(runs) /\ Len(runs) \in Nat
    BY DEF IInv, Typed
  <1>2. ASSUME NEW j \in DOMAIN runs
        PROVE  /\ SetAside[j] \in Run
               /\ SetAside[j].rows = runs[j].rows /\ SetAside[j].plan = runs[j].plan
               /\ SetAside[j].human = runs[j].human /\ SetAside[j].skipped = runs[j].skipped
               /\ SetAside[j].state = "abandoned" \/ (j \in revived /\ SetAside[j] = runs[j])
    <2>1. runs[j] \in Run
      BY <1>1
    <2>2. CASE IsCurrent(j)
      <3>1. SetAside[j] = [runs[j] EXCEPT !.state = "abandoned"]
        BY <2>2 DEF SetAside
      <3> QED BY <2>1, <3>1 DEF Run, RunStates
    <2>3. CASE ~IsCurrent(j)
      <3>1. SetAside[j] = runs[j]
        BY <2>3 DEF SetAside
      <3>2. runs[j].state = "abandoned" \/ j \in revived
        <4>1. CASE j < Len(runs)
          BY <4>1 DEF IInv, OneCurrent
        <4>2. CASE j = Len(runs)
          <5>1. \A k \in DOMAIN runs : k <= j
            BY <1>1, <4>2
          <5> QED BY <2>3, <5>1 DEF IsCurrent
        <4> QED BY <1>1, <4>1, <4>2
      <3> QED BY <2>1, <3>1, <3>2
    <2> QED BY <2>2, <2>3
  <1>3. SetAside \in [1..Len(runs) -> Run]
    <2>1. SetAside = [j \in 1..Len(runs) |-> SetAside[j]]
      BY <1>1 DEF SetAside
    <2> QED BY <1>1, <1>2, <2>1
  <1>4. SetAside \in Seq(Run) /\ Len(SetAside) = Len(runs)
    BY <1>1, <1>3
  <1> QED BY <1>2, <1>4

LEMMA CommitStartInv ==
  ASSUME IInv, NEW h \in Handlers, CommitStart(h)
  PROVE  IInv'
  <1> DEFINE l == handler[h]
             n == Len(runs) + 1
             new == l.has
             old == SetAside
  <1>1. /\ l.kind = "start" /\ runs' = Append(old, new) /\ Finished(h)
        /\ UNCHANGED <<mail, syncs, requests, revived, stale, late>>
    BY DEF CommitStart, counts, history
  <1>2. /\ old \in Seq(Run) /\ Len(old) = Len(runs)
        /\ \A j \in DOMAIN runs :
              /\ old[j].rows = runs[j].rows /\ old[j].plan = runs[j].plan
              /\ old[j].human = runs[j].human /\ old[j].skipped = runs[j].skipped
              /\ old[j].state = "abandoned" \/ (j \in revived /\ old[j] = runs[j])
    BY SetAsideOK
  <1>3. /\ l.run = n /\ new \in Run /\ new.state # "abandoned" /\ PlanOK(new) /\ DoneOK(new)
        /\ \A t \in Threads \ late : new.rows[t] # NoRow => Fresh(runs, n, new.rows[t].content, t)
    BY <1>1 DEF IInv, Typed, Request, RequestOK, Opening, Asking
  <1>4. /\ handler' \in [Handlers -> Request] /\ handler'[h] = Idle
        /\ \A g \in Handlers : g # h =>
             handler'[g] = handler[g] /\ handler[g].kind \notin {"start", "continue"}
    BY <1>1, IdleOK DEF Finished, IInv, Typed, OneAsks
  <1> HIDE DEF new, old, l
  <1>5. Len(runs) \in Nat /\ DOMAIN runs = 1..Len(runs) /\ runs \in Seq(Run)
    BY DEF IInv, Typed
  <1>6. /\ runs' \in Seq(Run) /\ Len(runs') = n /\ DOMAIN runs' = 1..n
        /\ runs'[n] = new /\ \A j \in DOMAIN runs : runs'[j] = old[j]
    BY <1>1, <1>2, <1>3, <1>5
  <1>7. /\ \A j \in DOMAIN runs' : j \in DOMAIN runs \/ (j = n /\ j \notin DOMAIN runs)
        /\ \A j \in DOMAIN runs : j < n /\ j \in DOMAIN runs'
        /\ \A j \in DOMAIN runs' : j < n => j \in DOMAIN runs
    BY <1>5, <1>6
  <1>8. \A j \in DOMAIN runs :
          runs'[j].rows = runs[j].rows /\ runs'[j].plan = runs[j].plan
    BY <1>2, <1>6
  <1>9. Typed'
    BY <1>1, <1>4, <1>6, <1>7 DEF IInv, Typed
  <1>10. LastOpen'
    BY <1>3, <1>6 DEF LastOpen
  <1>11. OneCurrent'
    <2> SUFFICES ASSUME NEW j \in DOMAIN runs', j < n
                 PROVE  runs'[j].state = "abandoned" \/ j \in revived
      BY <1>1, <1>6 DEF OneCurrent
    <2> QED BY <1>2, <1>6, <1>7
  <1>12. OneAsks'
    BY <1>4, IdleOK DEF OneAsks
  <1>13. ASSUME NEW g \in Handlers PROVE RequestOK(runs', mail', late', handler'[g])
    <2>1. CASE g = h
      BY <1>4, <2>1, IdleOK DEF RequestOK, Names
    <2>2. CASE g # h
      <3> DEFINE r == handler[g]
      <3>1. /\ handler'[g] = r /\ r.kind \notin {"start", "continue"}
            /\ RequestOK(runs, mail, late, r)
        BY <1>4, <2>2 DEF IInv
      <3> HIDE DEF r
      <3>2. r.kind # "idle" => Knows(runs, r) /\ Makes(r)
        BY <3>1 DEF RequestOK
      <3>3. Knows(runs, r) => Knows(runs', r)
        BY <1>7, <1>8 DEF Knows
      <3> QED BY <3>1, <3>2, <3>3 DEF RequestOK
    <2> QED BY <2>1, <2>2
  <1>14. ASSUME NEW j \in DOMAIN runs', NEW t, NEW content, Fresh(runs, j, content, t)
         PROVE  Fresh(runs', j, content, t)
    <2>1. \A k \in DOMAIN runs' : k < j => k \in DOMAIN runs /\ runs'[k].rows = runs[k].rows
      BY <1>5, <1>6, <1>7, <1>8
    <2>2. DOMAIN runs \subseteq DOMAIN runs'
      BY <1>7
    <2> QED BY <1>14, <2>1, <2>2 DEF Fresh
  <1>15. ASSUME NEW j \in DOMAIN runs' PROVE ReviewOK(runs', stale', late', j)
    <2>1. CASE j \in DOMAIN runs
      <3>1. ReviewOK(runs, stale, late, j)
        BY <2>1 DEF IInv
      <3>2. PlanOK(runs'[j])
        BY <1>2, <1>6, <2>1, <3>1 DEF ReviewOK, PlanOK
      <3>3. j \notin stale => DoneOK(runs'[j])
        BY <1>2, <1>6, <2>1, <3>1 DEF ReviewOK, DoneOK
      <3>4. \A t \in Threads \ late : runs'[j].rows[t] # NoRow =>
              Fresh(runs', j, runs'[j].rows[t].content, t)
        BY <1>8, <1>14, <2>1, <3>1 DEF ReviewOK
      <3> QED BY <1>1, <3>2, <3>3, <3>4 DEF ReviewOK
    <2>2. CASE j = n
      BY <1>1, <1>3, <1>6, <1>14, <2>2 DEF ReviewOK
    <2> QED BY <1>7, <2>1, <2>2
  <1> QED BY <1>9, <1>10, <1>11, <1>12, <1>13, <1>15 DEF IInv

LEMMA NextInv == IInv /\ [Next]_vars => IInv'
  <1> SUFFICES ASSUME IInv, [Next]_vars PROVE IInv'
    OBVIOUS
  <1>1. ASSUME NEW t \in Threads, NEW reading \in Readings(t), Sync(t, reading) PROVE IInv'
    BY <1>1, SyncInv
  <1>2. ASSUME NEW h \in Handlers, Start(h) \/ CommitStart(h) \/ Commit(h) \/ Read(h)
        PROVE  IInv'
    BY <1>2, StartInv, CommitStartInv, CommitInv, ReadInv
  <1>3. ASSUME NEW h \in Handlers, NEW i \in DOMAIN runs, Continue(h, i) PROVE IInv'
    BY <1>3, ContinueInv
  <1>4. ASSUME NEW h \in Handlers, NEW i \in DOMAIN runs,
               \/ LoadRead(h, i)
               \/ LoadBegin(h, i)
               \/ \E t \in Threads : LoadDecide(h, i, t) \/ LoadAct(h, i, t)
        PROVE IInv'
    BY <1>4, LoadsInv
  <1>5. ASSUME NEW h \in Handlers, NEW skip \in SUBSET Capabilities, Begin(h, skip)
        PROVE IInv'
    BY <1>5, BeginInv
  <1>6. ASSUME NEW h \in Handlers, NEW state \in {"approved", "dismissed", "deferred"},
               Decide(h, state)
        PROVE IInv'
    BY <1>6, DecideInv
  <1>7. ASSUME NEW h \in Handlers, NEW state \in {"executed", "failed"}, Act(h, state)
        PROVE IInv'
    BY <1>7, ActInv
  <1>8. CASE UNCHANGED vars
    BY <1>8 DEF vars, counts, history, IInv, Typed, LastOpen, OneCurrent, OneAsks
  <1> QED BY <1>1, <1>2, <1>3, <1>4, <1>5, <1>6, <1>7, <1>8 DEF Next

\* The strengthening holds in every reachable state.
THEOREM Inductive == Spec => []IInv
  BY InitInv, NextInv, PTL DEF Spec

-----------------------------------------------------------------------------
(* The theorems                                                               *)

\* Every review, row, reading and request has the shape the tables give it,
\* whatever requests are in flight when a review is opened over another.
THEOREM TypeCorrect == Spec => []TypeOK
  <1>1. IInv => TypeOK
    <2> SUFFICES ASSUME IInv PROVE TypeOK
      OBVIOUS
    <2>1. Run \subseteq RunType
      BY RunFacts
    <2>2. Request \subseteq RequestType
      BY <2>1 DEF Request, RequestType
    <2>3. runs \in Seq(RunType)
      BY <2>1 DEF IInv, Typed
    <2>4. handler \in [Handlers -> RequestType]
      BY <2>2 DEF IInv, Typed
    <2> QED BY <2>3, <2>4 DEF IInv, Typed, TypeOK
  <1> QED BY <1>1, Inductive, PTL

\* Only the latest review is open, save one that a request brought back by
\* committing to it what it had loaded before it was set aside (open_fresh_review).
THEOREM OneReviewCurrent == Spec => []OneCurrent
  <1>1. IInv => OneCurrent
    BY DEF IInv
  <1> QED BY <1>1, Inductive, PTL

\* No thread is settled at the content it was settled with in the last review
\* before that settled it, though its content comes and goes, save one that a
\* request settled, or took up again, in a review set aside, once a later one had
\* its row or was being given it (populate_group).
THEOREM SettledOnce == Spec => []AskedOnce
  <1>1. IInv => AskedOnce
    <2> SUFFICES ASSUME IInv, NEW i \in DOMAIN runs, NEW j \in DOMAIN runs, NEW t \in Threads,
                        i < j, runs[i].rows[t].state \in Terminal, runs[j].rows[t].state \in Terminal,
                        \A k \in DOMAIN runs : i < k /\ k < j => runs[k].rows[t].state \notin Terminal,
                        runs[i].rows[t].content = runs[j].rows[t].content, t \notin late
                 PROVE  FALSE
      BY DEF AskedOnce
    <2>1. runs[j].rows[t] # NoRow
      BY RowFacts DEF Terminal
    <2>2. ReviewOK(runs, stale, late, j)
      BY DEF IInv
    <2>3. Fresh(runs, j, runs[j].rows[t].content, t)
      BY <2>1, <2>2 DEF ReviewOK
    <2> QED BY <2>3 DEF Fresh
  <1> QED BY <1>1, Inductive, PTL

\* A completed review has nothing left to decide or to try in what its plan
\* works, save one whose state was written by a request that had computed it from
\* what others changed before it committed (refresh_states).
THEOREM CompletedReviewDone == Spec => []CompletedIsDone
  <1>1. IInv => CompletedIsDone
    <2> SUFFICES ASSUME IInv, NEW i \in DOMAIN runs, i \notin stale PROVE DoneOK(runs[i])
      BY DEF CompletedIsDone, DoneOK
    <2>1. ReviewOK(runs, stale, late, i)
      BY DEF IInv
    <2> QED BY <2>1 DEF ReviewOK
  <1> QED BY <1>1, Inductive, PTL

\* No review worked or completed still asks for its plan (activate_plan,
\* settle_plan).
THEOREM PlansAgreed == Spec => []NoPlanLeftToAgree
  <1>1. IInv => NoPlanLeftToAgree
    <2> SUFFICES ASSUME IInv, NEW i \in DOMAIN runs PROVE PlanOK(runs[i])
      BY DEF NoPlanLeftToAgree, PlanOK
    <2>1. ReviewOK(runs, stale, late, i)
      BY DEF IInv
    <2> QED BY <2>1 DEF ReviewOK
  <1> QED BY <1>1, Inductive, PTL

\* What a review shows as undecided once it is opened or continued is not mail
\* known to be out of the scope (withdraw_out_of_scope).
THEOREM AsksWhatIsThere == Spec => AsksOnlyWhatIsThere
  <1> DEFINE Asks ==
       \A h \in Handlers :
         handler[h].kind \in {"start", "continue"} /\ handler'[h] = Idle =>
           \A t \in Threads :
             runs'[handler[h].run].rows[t].state = "pending" => mail[t].where # "out"
  <1>1. ASSUME IInv, Next, NEW h \in Handlers,
               handler[h].kind \in {"start", "continue"}, handler'[h] = Idle, NEW t \in Threads,
               runs'[handler[h].run].rows[t].state = "pending"
        PROVE  mail[t].where # "out"
    <2> DEFINE l == handler[h]
    <2>1. Asking(runs, mail, late, l)
      BY <1>1 DEF IInv, RequestOK
    <2>2. CASE CommitStart(h)
      <3>1. l.run = Len(runs) + 1 /\ l.has \in Run
        BY <1>1, <2>2 DEF CommitStart, IInv, Typed, Request, RequestOK, Opening
      <3>2. runs' = Append(SetAside, l.has)
        BY <2>2 DEF CommitStart
      <3>3. SetAside \in Seq(Run) /\ Len(SetAside) = Len(runs)
        BY <1>1, SetAsideOK
      <3> HIDE DEF l
      <3>4. runs'[l.run] = l.has
        BY <3>1, <3>2, <3>3
      <3> QED BY <1>1, <2>1, <3>4 DEF Asking, l
    <2>3. CASE Commit(h)
      <3>1. l.kind = "continue"
        BY <1>1, <2>3 DEF Commit
      <3>2. Continuing(runs, l)
        BY <1>1, <3>1 DEF IInv, RequestOK
      <3>3. /\ l.run \in DOMAIN runs
            /\ Merged(runs[l.run], l.was, l.has).rows[t].state =
                 Over(runs[l.run].rows[t].state, l.was.rows[t].state, l.has.rows[t].state)
        BY <1>1, <3>1, CommitWrites
      <3>4. runs' = [runs EXCEPT ![l.run] = Merged(runs[l.run], l.was, l.has)]
        BY <2>3 DEF Commit
      <3>5. runs'[l.run] = Merged(runs[l.run], l.was, l.has)
        BY <1>1, <3>3, <3>4 DEF IInv, Typed
      <3>6. l.has.rows[t].state = "pending"
        BY <1>1, <3>2, <3>3, <3>5 DEF Continuing, Over
      <3> QED BY <2>1, <3>6 DEF Asking
    <2>4. CommitStart(h) \/ Commit(h)
      <3>1. handler[h] # Idle
        BY <1>1, IdleOK
      <3>2. \A g \in Handlers : Finished(g) => g = h
        BY <1>1, <3>1 DEF Finished, IInv, Typed
      <3>3. handler' # handler
        BY <1>1, <3>1
      <3>4. ASSUME NEW g \in Handlers, NEW r, r.kind # "idle", handler' = [handler EXCEPT ![g] = r]
            PROVE  FALSE
        BY <1>1, <3>1, <3>4, IdleOK DEF IInv, Typed
      <3>5. ASSUME NEW g \in Handlers PROVE ~Start(g)
        BY <3>4 DEF Start
      <3>6. ASSUME NEW g \in Handlers, NEW i PROVE ~Continue(g, i)
        BY <3>4 DEF Continue
      <3>7. ASSUME NEW g \in Handlers, NEW i, NEW u,
                   NEW kind \in {"read", "begin", "decide", "act"}
            PROVE  ~Load(g, kind, i, u)
        BY <3>4 DEF Load
      <3>8. ASSUME NEW g \in Handlers, NEW i
            PROVE  /\ ~LoadRead(g, i) /\ ~LoadBegin(g, i)
                   /\ \A u \in Threads : ~LoadDecide(g, i, u) /\ ~LoadAct(g, i, u)
        BY <3>7 DEF LoadRead, LoadBegin, LoadDecide, LoadAct
      <3>9. ASSUME NEW g \in Handlers, NEW run, handler[g].kind # "idle" PROVE ~Recomputed(g, run)
        BY <3>4, <3>9 DEF Recomputed
      <3>10. ASSUME NEW g \in Handlers
             PROVE  /\ ~Read(g) /\ \A skip : ~Begin(g, skip)
                    /\ \A state : ~Decide(g, state) /\ ~Act(g, state)
        <4>1. ~Read(g)
          BY <3>9 DEF Read
        <4>2. ASSUME NEW skip PROVE ~Begin(g, skip)
          BY <3>9 DEF Begin
        <4>3. ASSUME NEW state PROVE ~Decide(g, state)
          BY <3>9 DEF Decide
        <4>4. ASSUME NEW state PROVE ~Act(g, state)
          BY <1>1, <3>2 DEF Act
        <4> QED BY <4>1, <4>2, <4>3, <4>4
      <3>11. ASSUME NEW u \in Threads, NEW reading PROVE ~Sync(u, reading)
        BY <3>3 DEF Sync
      <3>12. PICK g \in Handlers : CommitStart(g) \/ Commit(g)
        BY <1>1, <3>5, <3>6, <3>8, <3>10, <3>11 DEF Next
      <3> QED BY <3>2, <3>12 DEF CommitStart, Commit
    <2> QED BY <2>2, <2>3, <2>4
  <1>2. IInv /\ [Next]_vars => [Asks]_vars
    BY <1>1
  <1> QED BY <1>2, Inductive, PTL DEF Spec, AsksOnlyWhatIsThere

\* What SettledKept says of one row of one review over a step.
RowKept(i, t) ==
  LET old == runs[i].rows[t].state
      new == runs'[i].rows[t].state
  IN old \in Terminal /\ new # old =>
       \/ old = "executed" /\ new \in Unexecuted
       \/ \E h \in Handlers :
            LET l == handler[h] IN
            /\ l.run = i /\ handler'[h] = Idle
            /\ \/ l.kind = "act" /\ l.thread = t
               \/ /\ l.has.rows[t].state # l.was.rows[t].state
                  /\ l.was.rows[t].state # old

LEMMA SettledStep ==
  ASSUME IInv, Next
  PROVE  \A j \in DOMAIN runs : \A t \in Threads : RowKept(j, t)
  <1> DEFINE Kept == \A j \in DOMAIN runs : \A t \in Threads : RowKept(j, t)
  <1>1. runs' = runs => Kept
    BY DEF RowKept
  <1>2. ASSUME NEW h \in Handlers, CommitStart(h) PROVE Kept
    <2>1. SetAside \in Seq(Run) /\ Len(SetAside) = Len(runs) /\ runs \in Seq(Run)
      BY SetAsideOK DEF IInv, Typed
    <2>2. handler[h].has \in Run /\ runs' = Append(SetAside, handler[h].has)
      BY <1>2 DEF CommitStart, IInv, Typed, Request
    <2>3. \A j \in DOMAIN runs : runs'[j] = SetAside[j]
      BY <2>1, <2>2
    <2> QED BY <2>3, SetAsideOK DEF RowKept
  <1>3. ASSUME NEW h \in Handlers, Commit(h) PROVE Kept
    <2> DEFINE l == handler[h]
               i == l.run
               new == Merged(runs[i], l.was, l.has)
    <2>1. /\ l.done /\ l.kind # "start" /\ runs' = [runs EXCEPT ![i] = new] /\ Finished(h)
      BY <1>3 DEF Commit
    <2>2. l.kind # "idle"
      BY <2>1 DEF IInv, RequestOK, Names
    <2>3. /\ i \in DOMAIN runs
          /\ \A t \in Threads :
               new.rows[t].state =
                 Over(runs[i].rows[t].state, l.was.rows[t].state, l.has.rows[t].state)
      BY <2>1, <2>2, CommitWrites
    <2>4. Makes(l)
      BY <2>1, <2>2 DEF IInv, RequestOK
    <2>5. handler'[h] = Idle
      BY <2>1 DEF Finished, IInv, Typed
    <2>6. runs'[i] = new /\ \A j \in DOMAIN runs : j # i => runs'[j] = runs[j]
      BY <2>1, <2>3 DEF IInv, Typed
    <2> HIDE DEF new
    <2>7. ASSUME NEW t \in Threads PROVE RowKept(i, t)
      <3> DEFINE old == runs[i].rows[t].state
      <3> SUFFICES ASSUME old \in Terminal, new.rows[t].state # old
                   PROVE  \/ old = "executed" /\ new.rows[t].state \in Unexecuted
                          \/ /\ l.has.rows[t].state # l.was.rows[t].state
                             /\ l.was.rows[t].state # old
        BY <2>5, <2>6 DEF RowKept
      <3>1. l.has.rows[t].state # l.was.rows[t].state /\ new.rows[t].state = l.has.rows[t].state
        BY <2>3 DEF Over
      <3>2. CASE l.was.rows[t].state = old
        BY <2>4, <3>1, <3>2 DEF Makes
      <3> QED BY <3>1, <3>2
    <2>8. \A j \in DOMAIN runs : j # i => \A t \in Threads : RowKept(j, t)
      BY <2>6 DEF RowKept
    <2> QED BY <2>7, <2>8
  <1>4. ASSUME NEW h \in Handlers, NEW state \in {"executed", "failed"}, Act(h, state)
        PROVE  Kept
    <2> DEFINE l == handler[h]
               i == l.run
               u == l.thread
               new == Merged(runs[i], l.was,
                        [l.has EXCEPT !.rows[u] =
                          [state |-> state, content |-> @.content, acted |-> TRUE]])
    <2>1. l.kind = "act" /\ runs' = [runs EXCEPT ![i] = new] /\ Finished(h)
      BY <1>4 DEF Act
    <2>2. i \in DOMAIN runs /\ \A t \in Threads \ {u} : new.rows[t] = runs[i].rows[t]
      BY <2>1, ActWrites
    <2>3. handler'[h] = Idle
      BY <2>1 DEF Finished, IInv, Typed
    <2>4. runs'[i] = new /\ \A j \in DOMAIN runs : j # i => runs'[j] = runs[j]
      BY <2>1, <2>2 DEF IInv, Typed
    <2> HIDE DEF new
    <2>5. \A t \in Threads : RowKept(i, t)
      BY <2>1, <2>2, <2>3, <2>4 DEF RowKept
    <2>6. \A j \in DOMAIN runs : j # i => \A t \in Threads : RowKept(j, t)
      BY <2>4 DEF RowKept
    <2> QED BY <2>5, <2>6
  <1>5. ASSUME NEW h \in Handlers, NEW run, Recomputed(h, run) PROVE Kept
    BY <1>1, <1>5 DEF Recomputed
  <1>6. ASSUME NEW h \in Handlers,
               \/ Read(h)
               \/ \E skip \in SUBSET Capabilities : Begin(h, skip)
               \/ \E state \in {"approved", "dismissed", "deferred"} : Decide(h, state)
        PROVE Kept
    BY <1>5, <1>6 DEF Read, Begin, Decide
  <1>7. ASSUME NEW h \in Handlers,
               \/ Start(h)
               \/ \E i \in DOMAIN runs :
                    \/ Continue(h, i) \/ LoadRead(h, i) \/ LoadBegin(h, i)
                    \/ \E t \in Threads : LoadDecide(h, i, t) \/ LoadAct(h, i, t)
        PROVE Kept
    BY <1>1, <1>7 DEF Start, Continue, LoadRead, LoadBegin, LoadDecide, LoadAct, Load
  <1>8. ASSUME NEW t \in Threads, NEW reading, Sync(t, reading) PROVE Kept
    BY <1>1, <1>8 DEF Sync
  <1> QED BY <1>2, <1>3, <1>4, <1>6, <1>7, <1>8 DEF Next

\* A settled row changes only to restore what was executed, by an execution of
\* that row, or by the commit of a request that writes it and had read it in
\* another state (check_decision).
THEOREM SettledRowsKept == Spec => SettledKept
  <1> DEFINE Kept == \A i \in DOMAIN runs : \A t \in Threads :
       LET old == runs[i].rows[t].state
           new == runs'[i].rows[t].state
       IN old \in Terminal /\ new # old =>
            \/ old = "executed" /\ new \in Unexecuted
            \/ \E h \in Handlers :
                 LET l == handler[h] IN
                 /\ l.run = i /\ handler'[h] = Idle
                 /\ \/ l.kind = "act" /\ l.thread = t
                    \/ /\ l.has.rows[t].state # l.was.rows[t].state
                       /\ l.was.rows[t].state # old
  <1>1. IInv /\ [Next]_vars => [Kept]_vars
    BY SettledStep DEF RowKept
  <1> QED BY <1>1, Inductive, PTL DEF Spec, SettledKept
=============================================================================
