------------------------- MODULE PlaybookRevisions -------------------------
(* The revisions of the assistant playbook: seeded from the shipped file,     *)
(* proposed, confirmed, put back in force, and set aside for the last one     *)
(* that works when the capabilities change underneath the one in force        *)
(* (adminos/domain/playbook_store.py, api/playbook.py).                       *)
(*                                                                            *)
(* Proposing runs on the event loop with no await after its first read: one   *)
(* action.  Confirming and reading run in threads, beside it and beside each  *)
(* other.  A confirmation loads its revision, then reads the one in force,    *)
(* then writes both; a reading that finds the one in force unworkable reads   *)
(* the rest and commits while it holds the row it marked.  A revision is the  *)
(* set of capability steps it names: that is what makes it valid or not.      *)
EXTENDS Requests, Sequences, FiniteSets

CONSTANTS
  Capabilities, \* capabilities a configuration may enable
  Shipped       \* the steps of the playbook file the service ships with

ASSUME PlaybookAssumption ==
  /\ Shipped \subseteq Capabilities /\ Shipped # {}
  /\ {"revisions", "edits", "asks"} \subseteq Kinds

VARIABLES
  revisions, \* by number: status, steps and the revision each was based on
  enabled,   \* the capabilities the configuration enables now
  asking,    \* asking[h]: what a request in flight has read
  agreed,    \* revisions that were put in force on a person's word, or seeded
  latest,    \* the revision last put in force
  crossed    \* a request wrote over a revision in force that it had not read

playbookVars == <<revisions, enabled, asking, agreed, latest, crossed>>

RevisionStatuses == {"proposed", "active", "superseded", "invalid"}
Idle == [kind |-> "idle", revision |-> 0, status |-> "none", current |-> 0, keys |-> {}]

PlaybookInit ==
  /\ revisions = <<>> /\ enabled \in {Shipped, Capabilities}
  /\ asking = [h \in Handlers |-> Idle]
  /\ agreed = {} /\ latest = 0 /\ crossed = FALSE

-----------------------------------------------------------------------------
(* The revision in force                                                      *)

\* validate_playbook: every step is an enabled capability, and there is one.
Valid(steps, keys) == steps # {} /\ steps \subseteq keys

Numbered(statuses) == {n \in DOMAIN revisions : revisions[n].status \in statuses}
Newest(S) == IF S = {} THEN 0 ELSE CHOOSE n \in S : \A m \in S : m <= n

\* read_status: the highest-numbered revision in force, 0 if there is none.
InForce == Newest(Numbered({"active"}))

\* last_valid: the newest revision that was in force once and still works.
LastValid(broken, keys) ==
  Newest({n \in Numbered({"superseded", "active"}) \ {broken} : Valid(revisions[n].steps, keys)})

\* seed_playbook's row, always number 1.
Seeded == <<[status |-> "active", steps |-> Shipped, base |-> 0]>>

Seedable(keys) == revisions = <<>> /\ Valid(Shipped, keys)

\* The rows a fallback writes.
FallenBack(broken, good) ==
  [n \in DOMAIN revisions |->
     IF n = broken THEN [revisions[n] EXCEPT !.status = "invalid"]
     ELSE IF n = good THEN [revisions[n] EXCEPT !.status = "active"] ELSE revisions[n]]

Works(n) == n # 0 /\ Valid(revisions[n].steps, enabled)

\* read_active_playbook: the seed, the revision in force or the fallback; 0 if
\* it is refused, which undoes what it wrote.  With rows and none in force the
\* seed's number is taken.
Found ==
  IF Seedable(enabled) THEN 1
  ELSE IF InForce = 0 \/ Works(InForce) THEN InForce ELSE LastValid(InForce, enabled)

\* What it leaves in the tables, in a request that goes on to commit.
RowsRead == IF revisions = <<>> THEN Seeded
            ELSE IF Works(InForce) THEN revisions ELSE FallenBack(InForce, Found)

ReadPlaybook ==
  /\ Found # 0
  /\ agreed' = agreed \cup (IF revisions = <<>> THEN {1} ELSE {})
  /\ latest' = IF Found = InForce THEN latest ELSE Found

\* A revision is in force that is none of those seen.
Unread(seen) == Numbered({"active"}) \ seen # {}

-----------------------------------------------------------------------------
(* Configuration and proposals                                                *)

Reconfigure(keys) ==
  /\ Spend("edits")
  /\ keys # enabled /\ enabled' = keys
  /\ UNCHANGED <<revisions, asking, agreed, latest, crossed>>

\* A change adds a step, configured or not, or removes or turns one off.
Changed(steps, key) == IF key \in steps THEN steps \ {key} ELSE steps \cup {key}

\* propose_change on the revisions a reading leaves, over the one it found.
Proposed(rows, active, key) ==
  Append(rows, [status |-> "proposed", steps |-> Changed(rows[active].steps, key), base |-> active])

\* propose_playbook_change: over what a reading finds, or refused with it.
Propose(key) ==
  /\ Spend("revisions")
  /\ ReadPlaybook
  /\ revisions' = Proposed(RowsRead, Found, key)
  /\ UNCHANGED <<enabled, asking, crossed>>

-----------------------------------------------------------------------------
(* Requests in threads                                                        *)

Ask(h, request) ==
  /\ Spend("asks") /\ asking[h] = Idle
  /\ asking' = [asking EXCEPT ![h] = request]
  /\ UNCHANGED <<revisions, enabled, agreed, latest, crossed>>

Ended(h) == asking' = [asking EXCEPT ![h] = Idle]

\* A reading that has something to write: no revision at all, or a broken one.
AskPlaybook(h) ==
  LET active == InForce IN
  \/ /\ Seedable(enabled)
     /\ Ask(h, [Idle EXCEPT !.kind = "seed", !.keys = enabled])
  \/ /\ active # 0 /\ ~Works(active)
     /\ Ask(h, [Idle EXCEPT !.kind = "restore", !.revision = active, !.keys = enabled])

\* seed_playbook at its flush: of two seeds the second breaks the unique number.
Seed(h) ==
  /\ asking[h].kind = "seed" /\ Ended(h)
  /\ IF revisions = <<>>
     THEN revisions' = Seeded /\ agreed' = {1} /\ latest' = 1
     ELSE UNCHANGED <<revisions, agreed, latest>>
  /\ UNCHANGED <<enabled, left, crossed>>

\* Mutant: the mark is kept though the request is refused
RestoreMarked(h) ==
  LET broken == asking[h].revision
      good == LastValid(broken, asking[h].keys) IN
  /\ asking[h].kind = "restore" /\ Ended(h)
  /\ revisions' = FallenBack(broken, good) /\ latest' = IF good = 0 THEN latest ELSE good
  /\ crossed' = (crossed \/ Unread({broken, good}))
  /\ UNCHANGED <<enabled, left, agreed>>

\* The rest of read_active_playbook; refused and rolled back with no fallback.
Restore(h) ==
  LET broken == asking[h].revision
      good == LastValid(broken, asking[h].keys) IN
  /\ asking[h].kind = "restore" /\ Ended(h)
  /\ IF good = 0 THEN UNCHANGED <<revisions, latest, crossed>>
     ELSE /\ revisions' = FallenBack(broken, good) /\ latest' = good
          /\ crossed' = (crossed \/ Unread({broken, good}))
  /\ UNCHANGED <<enabled, left, agreed>>

\* confirm_revision as far as its validation, for a proposal or an earlier
\* revision.  A refusal is raised through the session, which undoes its mark.
AskConfirm(h, n) ==
  /\ n \in DOMAIN revisions
  /\ revisions[n].status # "active" /\ Works(n)
  /\ Ask(h, [Idle EXCEPT !.kind = "confirm", !.revision = n, !.status = revisions[n].status])

\* Mutant: what a proposal was written against is not asked
CurrentOf(h) ==
  /\ asking[h].kind = "confirm"
  /\ asking' = [asking EXCEPT ![h].kind = "write", ![h].current = InForce]
  /\ UNCHANGED <<revisions, enabled, left, agreed, latest, crossed>>

\* The reading of the revision in force; a proposal over another is refused.
ReadCurrent(h) ==
  LET stale == /\ asking[h].status = "proposed" /\ InForce # 0
               /\ revisions[asking[h].revision].base # InForce IN
  /\ asking[h].kind = "confirm"
  /\ IF stale THEN Ended(h)
     ELSE asking' = [asking EXCEPT ![h].kind = "write", ![h].current = InForce]
  /\ UNCHANGED <<revisions, enabled, left, agreed, latest, crossed>>

\* The two rows a confirmation writes.
Confirmed(old, new) ==
  [n \in DOMAIN revisions |->
     IF n = new THEN [revisions[n] EXCEPT !.status = "active"]
     ELSE IF n = old THEN [revisions[n] EXCEPT !.status = "superseded"] ELSE revisions[n]]

WriteConfirmed(h) ==
  LET new == asking[h].revision IN
  /\ asking[h].kind = "write" /\ Ended(h)
  /\ revisions' = Confirmed(asking[h].current, new)
  /\ agreed' = agreed \cup {new} /\ latest' = new
  /\ crossed' = (crossed \/ Unread({asking[h].current, new}))
  /\ UNCHANGED <<enabled, left>>

PlaybookNext ==
  \/ left["edits"] > 0 /\ \E keys \in SUBSET Capabilities : Reconfigure(keys)
  \/ left["revisions"] > 0 /\ \E key \in Capabilities : Propose(key)
  \/ \E h \in Handlers :
       \/ AskPlaybook(h) \/ Seed(h) \/ Restore(h)
       \/ \E n \in DOMAIN revisions : AskConfirm(h, n)
       \/ ReadCurrent(h) \/ WriteConfirmed(h)

PlaybookSpec == PlaybookInit /\ BudgetInit /\ [][PlaybookNext]_<<playbookVars, left>>

-----------------------------------------------------------------------------
(* Properties                                                                 *)

RevisionType == [status : RevisionStatuses, steps : SUBSET Capabilities, base : Nat]
AskingType == [kind : {"idle", "seed", "restore", "confirm", "write"}, revision : Nat,
               status : RevisionStatuses \cup {"none"}, current : Nat, keys : SUBSET Capabilities]

\* Every revision and request has the shape the tables and the code give it.
PlaybookTypeOK ==
  /\ revisions \in Seq(RevisionType) /\ enabled \subseteq Capabilities
  /\ asking \in [Handlers -> AskingType] /\ BudgetTypeOK
  /\ agreed \subseteq DOMAIN revisions /\ latest \in Nat /\ crossed \in BOOLEAN

\* Whatever is confirmed, restored or invalidated, in any order, one revision at
\* least stays in force: with rows and none in force the seed's fixed number is
\* taken, and every request that reads the playbook would fail from then on.
SomeInForce == revisions # <<>> => Numbered({"active"}) # {}

\* What is or was in force was seeded or confirmed by a person: a fallback never
\* reaches for a proposal nobody agreed to.
OnlyAgreedInForce == \A n \in DOMAIN revisions : revisions[n].status # "proposed" => n \in agreed

\* The playbook is the revision last put in force and no other, unless a request
\* wrote over one in force that it had not read.
LatestAloneInForce ==
  revisions # <<>> /\ ~crossed => Numbered({"active"}) = {latest}

\* There is always a playbook to work by, it is one that was agreed to, and it is
\* the one agreed to last.
PlaybookStands == SomeInForce /\ OnlyAgreedInForce /\ LatestAloneInForce

\* A confirmation undoes nothing agreed to since its proposal was written: what
\* it replaces is what the proposal was read back against, unless a request
\* wrote over a revision in force that it had not read.
NothingUndone ==
  [][\A n \in DOMAIN revisions :
       /\ revisions[n].status = "proposed" /\ revisions'[n].status = "active" /\ ~crossed'
       => revisions[n].base = latest]_playbookVars
=============================================================================
