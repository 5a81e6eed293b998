---------------------------- MODULE GuidedReview ----------------------------
(* The guided review: one open review at a time, pinned to the review         *)
(* playbook in force when it began, and an email review held to what that     *)
(* pins (adminos/domain/guided_review.py, review_playbook_store.py,           *)
(* review_playbook.py).                                                       *)
(*                                                                            *)
(* Its operations are tools of the MCP endpoint and await nothing: each is    *)
(* one action and one transaction.  A refused submission commits its log      *)
(* entry and nothing else; every other refusal undoes what was written.  Of   *)
(* an item the model keeps its thread, its group and whether every field that *)
(* can be required is stated.                                                 *)
EXTENDS Requests, Sequences, SequencesExt, FiniteSets

CONSTANTS
  Threads,    \* threads of the mailbox
  Groups,     \* groups a thread may be put in
  CatchAll,   \* the one for what fits nowhere
  Playbooks,  \* documents the review playbook may be revised to
  ShippedReview \* the one that comes with the service

EmailReview == "email_review"
PhaseKeys == {EmailReview, "daily_plan"}
ReviewDocument ==
  [phases : Seq(PhaseKeys), groups : SUBSET Groups, fields : BOOLEAN, ordered : BOOLEAN]

ASSUME GuidedAssumption ==
  /\ IsFiniteSet(Threads)
  /\ CatchAll \in Groups /\ ShippedReview \in Playbooks /\ Playbooks \subseteq ReviewDocument
  /\ {"reviews", "submissions", "revised"} \subseteq Kinds

VARIABLES
  editions, \* documents of the review playbook, the last one in force
  reviews   \* in the order they were started

guidedVars == <<editions, reviews>>

GuidedStates == {"in_progress", "partially_complete", "completed", "superseded"}
PhaseStates == {"ready", "recorded", "completed", "unavailable"}
NoPhase == "none"

GuidedInit == editions = <<>> /\ reviews = <<>>

-----------------------------------------------------------------------------
(* The review playbook                                                        *)

\* validate_review_playbook, where a document can differ: each phase once, the
\* email review among them, with a catch-all group.
ValidDocument(d) ==
  IsInjective(d.phases) /\ EmailReview \in Range(d.phases) /\ CatchAll \in d.groups

\* What read_active_review_playbook leaves: seeded from the file if there is none.
WithSeed(rows) == IF rows = <<>> THEN <<ShippedReview>> ELSE rows

\* revise_review_playbook: the one in force is superseded, not changed.
ReviseReviewPlaybook(d) ==
  /\ Spend("revised")
  /\ ValidDocument(d) /\ editions' = Append(editions, d)
  /\ UNCHANGED reviews

-----------------------------------------------------------------------------
(* Starting a review                                                          *)

Openings(current) ==
  <<"review_started", "playbook_loaded">> \o (IF current = NoPhase THEN <<>> ELSE <<"phase_started">>)

NewReview(pinned, d) ==
  LET current == IF EmailReview \in Range(d.phases) THEN EmailReview ELSE NoPhase IN
  [status |-> "in_progress", pinned |-> pinned, current |-> current,
   phases |-> [p \in Range(d.phases) |-> IF p = EmailReview THEN "ready" ELSE "unavailable"],
   snapshots |-> <<>>, log |-> Openings(current)]

\* Mutant: only a review still being worked counts as open
SetAsideUnfinished(r) ==
  IF r.status = "in_progress"
  THEN [r EXCEPT !.status = "superseded", !.log = Append(@, "review_superseded")] ELSE r

\* set_aside_open_reviews, for one of them.
SetAside(r) ==
  IF r.status \in {"in_progress", "partially_complete"}
  THEN [r EXCEPT !.status = "superseded", !.log = Append(@, "review_superseded")] ELSE r

StartReview ==
  LET rows == WithSeed(editions) IN
  /\ Spend("reviews")
  /\ ValidDocument(Last(rows)) /\ editions' = rows
  /\ reviews' = Append([i \in DOMAIN reviews |-> SetAside(reviews[i])],
                       NewReview(Len(rows), Last(rows)))

-----------------------------------------------------------------------------
(* Recording an email review                                                  *)

ItemRows == [thread : Threads, group : Groups, stated : BOOLEAN]
Upto(S, n) == UNION {[1..m -> S] : m \in 0..n}
Submissions ==
  [version : 1..Len(editions), inScope : BOOLEAN, count : 0..Cardinality(Threads),
   items : Upto(ItemRows, Cardinality(Threads)), order : Upto(Threads, Cardinality(Threads))]

Reviewed(items) == {items[k].thread : k \in DOMAIN items}

\* Mutant: how many items there are is what is counted
CountsAdded(s) == s.count = Len(s.items)

\* check_counts: no thread twice, and as many as the snapshot says were read.
CountsMatch(s) ==
  Cardinality(Reviewed(s.items)) = Len(s.items) /\ s.count = Cardinality(Reviewed(s.items))

\* check_items.
ItemsFit(d, s) ==
  \A k \in DOMAIN s.items : s.items[k].group \in d.groups /\ (d.fields => s.items[k].stated)

\* check_order: each reviewed thread once, where the playbook asks for an order.
OrderFits(d, s) == d.ordered => Range(s.order) = Reviewed(s.items) /\ IsInjective(s.order)

\* check_submission.
Believed(r, d, s) ==
  /\ r.status = "in_progress"
  /\ r.phases[EmailReview] # "completed" /\ r.current = EmailReview
  /\ s.version = r.pinned /\ s.inScope /\ CatchAll \in d.groups
  /\ ItemsFit(d, s) /\ CountsMatch(s) /\ OrderFits(d, s)

\* Where the recommended order has a thread last; 0 if it does not have it.
Position(s, thread) ==
  LET at == {k \in DOMAIN s.order : s.order[k] = thread}
  IN IF at = {} THEN 0 ELSE CHOOSE k \in at : \A j \in at : j <= k

NewSnapshot(s) ==
  [live |-> TRUE, count |-> s.count,
   items |-> {[item |-> s.items[k], position |-> Position(s, s.items[k].thread)] : k \in DOMAIN s.items}]

Recorded(r, s) ==
  [r EXCEPT !.snapshots =
              Append([k \in DOMAIN r.snapshots |-> [r.snapshots[k] EXCEPT !.live = FALSE]], NewSnapshot(s)),
            !.phases[EmailReview] = "recorded",
            !.log = @ \o <<"source_snapshot_recorded", "email_review_recorded">>]

\* record_email_review: all of it, or one entry in the log.
RecordEmailReview(i, s) ==
  LET r == reviews[i] IN
  /\ Spend("submissions")
  /\ reviews' = [reviews EXCEPT ![i] =
       IF Believed(r, editions[r.pinned], s) THEN Recorded(r, s)
       ELSE [r EXCEPT !.log = Append(@, "validation_failed")]]
  /\ UNCHANGED editions

-----------------------------------------------------------------------------
(* Completing a phase                                                         *)

Completable(r, key) ==
  /\ key \in DOMAIN r.phases /\ r.phases[key] = "recorded"
  /\ r.status = "in_progress"

\* The review after a phase of it: on to the next, waiting for what is not
\* built, or done.
Completed(r, key) ==
  LET phases == [r.phases EXCEPT ![key] = "completed"]
      order == editions[r.pinned].phases
      remaining == {k \in DOMAIN order : phases[order[k]] \notin {"completed", "unavailable"}}
  IN [r EXCEPT !.phases = phases, !.log = Append(@, "phase_completed"),
               !.current = IF remaining = {} THEN NoPhase ELSE order[Min(remaining)],
               !.status = IF remaining # {} THEN "in_progress"
                          ELSE IF "unavailable" \in {phases[p] : p \in DOMAIN phases}
                          THEN "partially_complete" ELSE "completed"]

CompletePhase(i, key) ==
  /\ Completable(reviews[i], key)
  /\ reviews' = [reviews EXCEPT ![i] = Completed(reviews[i], key)]
  /\ UNCHANGED <<editions, left>>

GuidedNext ==
  \/ \E d \in Playbooks : ReviseReviewPlaybook(d)
  \/ StartReview
  \/ \E i \in DOMAIN reviews :
       \/ left["submissions"] > 0 /\ \E s \in Submissions : RecordEmailReview(i, s)
       \/ \E key \in PhaseKeys : CompletePhase(i, key)

GuidedSpec == GuidedInit /\ BudgetInit /\ [][GuidedNext]_<<guidedVars, left>>

-----------------------------------------------------------------------------
(* Properties                                                                 *)

LiveSnapshots(r) == {k \in DOMAIN r.snapshots : r.snapshots[k].live}
Times(log, event) == Cardinality({k \in DOMAIN log : log[k] = event})

\* Every review has the shape its tables give it.
GuidedTypeOK ==
  /\ editions \in Seq(Playbooks)
  /\ \A i \in DOMAIN reviews :
       /\ reviews[i].status \in GuidedStates /\ reviews[i].pinned \in DOMAIN editions
       /\ reviews[i].current \in PhaseKeys \cup {NoPhase}
       /\ DOMAIN reviews[i].phases = Range(editions[reviews[i].pinned].phases)
       /\ Range(reviews[i].phases) \subseteq PhaseStates

\* A review under way or waiting for a phase that is not built is the last one
\* started: "hello" again never leaves two open.
OnlyLastReviewOpen ==
  \A i \in DOMAIN reviews :
    reviews[i].status \in {"in_progress", "partially_complete"} => i = Len(reviews)

\* A phase that says it has a result has exactly one, and that one is a review of
\* the whole mailbox by the playbook the review pinned, whichever is in force
\* now and however many submissions were refused or replaced: every thread read
\* is there once, in a group there is, with what is required of it, and a
\* required order runs from 1 without a gap.
ResultIsWhole ==
  \A i \in DOMAIN reviews :
    LET r == reviews[i]
        d == editions[r.pinned] IN
    /\ Cardinality(LiveSnapshots(r)) = IF r.phases[EmailReview] \in {"recorded", "completed"} THEN 1 ELSE 0
    /\ \A k \in LiveSnapshots(r) :
         LET rows == r.snapshots[k].items IN
         /\ \A x, y \in rows : x.item.thread = y.item.thread => x = y
         /\ Cardinality(rows) = r.snapshots[k].count
         /\ \A x \in rows : x.item.group \in d.groups /\ (d.fields => x.item.stated)
         /\ d.ordered => {x.position : x \in rows} = 1..r.snapshots[k].count

\* The log of a review tells its state: where it stands, what was recorded and
\* how often, and that nothing was recorded or completed after it was done with;
\* and a review the log leaves open is the last one.
LogTellsReview ==
  /\ OnlyLastReviewOpen
  /\ \A i \in DOMAIN reviews :
       LET r == reviews[i]
           at(event) == {k \in DOMAIN r.log : r.log[k] = event} IN
       /\ (r.status = "superseded") = (at("review_superseded") # {})
       /\ (r.phases[EmailReview] = "completed") = (at("phase_completed") # {})
       /\ Len(r.snapshots) = Times(r.log, "source_snapshot_recorded")
       /\ Len(r.snapshots) = Times(r.log, "email_review_recorded")
       /\ \A k \in at("email_review_recorded"), j \in at("phase_completed") \cup at("review_superseded") : k < j
       /\ \A k \in at("phase_completed"), j \in at("review_superseded") : k < j
=============================================================================
