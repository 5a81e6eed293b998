---------------------------- MODULE MCReviewRuns ----------------------------
(* One thread each for two capabilities, one of them approved by a rule.      *)
(*                                                                            *)
(* Every behaviour has one of two shapes, chosen at the start: two reviews    *)
(* over mail that moves once, with two requests in flight in them; and three  *)
(* reviews of one thread that moves twice, one request at a time.  MCSpec     *)
(* takes the steps of Spec that stay within it.                               *)
EXTENDS ReviewRuns, TLC

CONSTANTS home, work, bill, offer, c1, c2, h1, h2

VARIABLE shape

MCCapabilityOf == (bill :> home) @@ (offer :> work)
Interchangeable == Permutations(Handlers) \cup Permutations(Contents)

Racing == [threads |-> {bill, offer}, runs |-> 2, syncs |-> 1, requests |-> 2, atOnce |-> 2]
Returning == [threads |-> {bill}, runs |-> 3, syncs |-> 2, requests |-> 4, atOnce |-> 1]

MCInit ==
  /\ Init /\ shape \in {Racing, Returning}
  /\ \A t \in Threads \ shape.threads : mail[t].where = "unknown"

\* There is room for one more request in flight.
Room == Cardinality({h \in Handlers : handler[h] # Idle}) < shape.atOnce

\* Groups that a plan may set aside.
Groups == {CapabilityOf[t] : t \in shape.threads}

SyncSteps(t) == syncs < shape.syncs /\ \E reading \in Readings(t) : Sync(t, reading)

OpenSteps(h) ==
  \/ Room /\ Len(runs) < shape.runs /\ Start(h)
  \/ Room /\ \E i \in DOMAIN runs : Continue(h, i)
  \/ CommitStart(h)

LoadSteps(h, i) ==
  /\ Room /\ requests < shape.requests
  /\ \/ LoadRead(h, i) \/ LoadBegin(h, i)
     \/ \E t \in shape.threads : LoadDecide(h, i, t) \/ LoadAct(h, i, t)

RequestSteps(h) ==
  \/ Read(h) \/ Commit(h)
  \/ \E skip \in SUBSET Groups \ {Groups} : Begin(h, skip)
  \/ \E state \in {"approved", "dismissed", "deferred"} : Decide(h, state)
  \/ \E state \in {"executed", "failed"} : Act(h, state)

MCNext ==
  \/ \E t \in Threads : t \in shape.threads /\ SyncSteps(t) /\ UNCHANGED shape
  \/ \E h \in Handlers : OpenSteps(h) /\ UNCHANGED shape
  \/ \E h \in Handlers : \E i \in DOMAIN runs : LoadSteps(h, i) /\ UNCHANGED shape
  \/ \E h \in Handlers : RequestSteps(h) /\ UNCHANGED shape

MCSpec == MCInit /\ [][MCNext]_<<vars, shape>>
=============================================================================
