---------------------------- MODULE EvidenceSync ----------------------------
(* The scans that record Gmail threads as evidence, and the pruning of what   *)
(* they no longer find (adminos/domain/evidence.py, mailboxes.py,             *)
(* refresh_evidence in api/review.py, sync_evidence in api/admin.py).         *)
(*                                                                            *)
(* A scan is a coroutine with one database session: it awaits Gmail label by  *)
(* label and thread by thread, and commits at its end.  What it changes stays *)
(* in its session until its next query, which sends it and locks the rows; of *)
(* a row it sends the columns that differ from what it loaded.  A scan whose  *)
(* statement waits for a row of another scan stops the loop both run on.      *)
(* Of a thread's labels the model keeps the capabilities' own and where the   *)
(* thread is; sent and draft labels are left out.                             *)
EXTENDS Requests, Integers, FiniteSets

CONSTANTS
  MailThreads, \* threads in Gmail
  Watchers,    \* capabilities, each with a label of its own
  WatchedBox,  \* WatchedBox[c]: the mailbox a capability is configured to watch
  Limits,      \* the limits a scan is asked with (bound)
  AskedScopes  \* the scopes a scan is asked with (bound)

Scopes == {"inbox", "archived", "snoozed", "everything"}

ASSUME EvidenceAssumption ==
  /\ WatchedBox \in [Watchers -> Scopes] /\ AskedScopes \subseteq Scopes
  /\ Limits \subseteq Nat \ {0}
  /\ {"scans", "mail"} \subseteq Kinds

VARIABLES
  mail,     \* mail[t]: where Gmail has a thread, and whose labels it carries
  evidence, \* evidence[t]: the row committed for it
  scans,    \* scans[h]: a scan in flight
  stuck     \* the event loop waits for a row lock

evidenceVars == <<mail, evidence, scans, stuck>>

Places == {"inbox", "archived", "snoozed", "trash", "gone"}
NoRow == [place |-> "none", snoozed |-> "unknown", keys |-> {}]
NoWrite == [from |-> NoRow, to |-> NoRow]
NoScan == [phase |-> "idle", scope |-> "inbox", limit |-> 0, prune |-> FALSE, unasked |-> {},
           found |-> [t \in MailThreads |-> {}], owned |-> {}, todo |-> {},
           stale |-> [t \in MailThreads |-> NoRow], recorded |-> {}, incomplete |-> FALSE,
           pending |-> [t \in MailThreads |-> NoWrite], sent |-> [t \in MailThreads |-> NoWrite],
           away |-> {}, seen |-> {}, alone |-> TRUE]

EvidenceInit ==
  /\ mail \in [MailThreads -> [place : {"inbox", "archived"}, labels : {Watchers}]]
  /\ evidence = [t \in MailThreads |-> NoRow]
  /\ scans = [h \in Handlers |-> NoScan] /\ stuck = FALSE

-----------------------------------------------------------------------------
(* Scopes                                                                     *)

\* capability_scope: the default review reads a capability from its own mailbox.
ScopeOf(scope, c) == IF scope = "inbox" THEN WatchedBox[c] ELSE scope

\* query and label_ids: what Gmail returns.
Finds(scope, place) ==
  CASE scope = "everything" -> place # "gone"
    [] OTHER -> place = scope

\* observed_snoozed.
Observed(scope) ==
  CASE scope = "snoozed" -> "yes" [] scope = "everything" -> "unknown" [] OTHER -> "no"

\* admits: on the labels a thread carries; a snoozed thread carries none that
\* says so, and differs from an archived one by what was recorded.
Admits(scope, place, snoozed) ==
  /\ place \notin {"none", "gone"}
  /\ scope = "everything" \/ place # "trash"
  /\ scope = "snoozed" => snoozed = "yes"
  /\ scope \in {"inbox", "archived"} => snoozed # "yes"
  /\ scope = "inbox" => place = "inbox"
  /\ scope = "archived" => place # "inbox"

\* Where labels alone put a thread.
Labelled(place) == IF place = "snoozed" THEN "archived" ELSE place

\* A search for a capability's label returns a thread.
Watches(scope, c, t) == c \in mail[t].labels /\ Finds(ScopeOf(scope, c), mail[t].place)

\* observed_snooze: what the searches that found a thread agree on.
AgreedSnooze(scope, keys) ==
  LET answers == {Observed(ScopeOf(scope, c)) : c \in keys} \ {"unknown"}
  IN IF Cardinality(answers) = 1 THEN CHOOSE a \in answers : TRUE ELSE "unknown"

-----------------------------------------------------------------------------
(* The session of a scan                                                      *)

Dropped(h) == scans' = [scans EXCEPT ![h] = NoScan]
Unsent(h) == {t \in MailThreads : scans[h].pending[t].from # scans[h].pending[t].to}
Locked(h, t) == scans[h].sent[t] # NoWrite

\* A row another scan holds; a row another scan has made or deleted meanwhile.
Waits(h) == \E t \in Unsent(h), other \in Handlers \ {h} : Locked(other, t)
Clashes(h) == \E t \in Unsent(h) : (scans[h].pending[t].from = NoRow) # (evidence[t] = NoRow)

\* The columns that differ go over the row as it is now.
Applied(row, write) ==
  [place |-> IF write.to.place = write.from.place THEN row.place ELSE write.to.place,
   snoozed |-> IF write.to.snoozed = write.from.snoozed THEN row.snoozed ELSE write.to.snoozed,
   keys |-> IF write.to.keys = write.from.keys THEN row.keys ELSE write.to.keys]

Sent(h) ==
  [scans[h] EXCEPT
     !.pending = [t \in MailThreads |-> NoWrite],
     !.sent = [t \in MailThreads |-> IF t \in Unsent(h) THEN scans[h].pending[t] ELSE @[t]]]

\* A query: it waits, is refused, or the scan goes on with what it had pending sent.
Query(h, next) ==
  /\ UNCHANGED <<mail, evidence>>
  /\ IF Waits(h) THEN stuck' = TRUE /\ UNCHANGED scans
     ELSE /\ UNCHANGED stuck
          /\ IF Clashes(h) THEN Dropped(h) ELSE scans' = [scans EXCEPT ![h] = next]

-----------------------------------------------------------------------------
(* A scan                                                                     *)

\* sync_gmail_evidence; a prune is refused for any scope but the default one.
BeginScan(h, scope, limit, prune) ==
  LET others == {o \in Handlers : scans[o].phase # "idle"} IN
  /\ ~stuck /\ Spend("scans") /\ scans[h] = NoScan
  /\ prune => scope = "inbox"
  /\ scans' = [o \in Handlers |->
       IF o = h THEN [NoScan EXCEPT
            !.phase = "list", !.scope = scope, !.limit = limit, !.prune = prune, !.unasked = Watchers,
            !.away = {lost \in Watchers \X MailThreads : ~Watches(scope, lost[1], lost[2])},
            !.seen = {t \in MailThreads : mail[t].place = "inbox"}, !.alone = others = {}]
       ELSE IF o \in others THEN [scans[o] EXCEPT !.alone = FALSE] ELSE scans[o]]
  /\ UNCHANGED <<mail, evidence, stuck>>

\* Mutant: a search that filled the limit is taken to have found everything
FilledQuietly(found, limit) == FALSE

\* As many as were asked for: there may be more.
Filled(found, limit) == Cardinality(found) >= limit

\* One capability's label: resolved and searched, or missing in Gmail.
ListLabel(h, c, missing) ==
  LET s == scans[h]
      matching == {t \in MailThreads : Watches(s.scope, c, t)}
  IN
  /\ ~stuck /\ s.phase = "list" /\ c \in s.unasked
  /\ \E found \in IF missing THEN {{}} ELSE SUBSET matching :
       /\ missing \/ Cardinality(found) = s.limit \/ found = matching
       /\ Cardinality(found) <= s.limit
       /\ scans' = [scans EXCEPT ![h] =
            [s EXCEPT !.unasked = @ \ {c},
                      !.owned = IF missing THEN @ ELSE @ \cup {c},
                      !.found = [t \in MailThreads |-> IF t \in found THEN @[t] \cup {c} ELSE @[t]],
                      !.incomplete = @ \/ missing \/ Filled(found, s.limit)]]
  /\ UNCHANGED <<left, mail, evidence, stuck>>

\* check_prune_is_safe, before anything is fetched.
ListedAll(h) ==
  LET s == scans[h] IN
  /\ ~stuck /\ s.phase = "list" /\ s.unasked = {}
  /\ IF s.prune /\ s.incomplete THEN Dropped(h)
     ELSE scans' = [scans EXCEPT ![h] =
            [s EXCEPT !.phase = "fetch", !.todo = {t \in MailThreads : s.found[t] # {}}]]
  /\ UNCHANGED <<left, mail, evidence, stuck>>

\* record_gmail_thread and note_thread_labels on the row a session has loaded.
Noted(s, t, row, keys, snoozed) ==
  LET to == [place |-> Labelled(mail[t].place), keys |-> IF keys = {} THEN row.keys ELSE keys,
             snoozed |-> IF snoozed = "unknown" THEN row.snoozed ELSE snoozed] IN
  [s EXCEPT !.todo = @ \ {t},
            !.pending[t] = IF keys = {} /\ row = NoRow THEN NoWrite ELSE [from |-> row, to |-> to],
            !.recorded = IF keys = {} THEN @ ELSE @ \cup {t}]

\* A thread the search returned, checked again on the labels it carries; one
\* that is gone fails the whole scan.
FetchThread(h, t) ==
  LET s == scans[h]
      keys == {c \in s.found[t] :
                 LET watched == ScopeOf(s.scope, c) IN
                 Admits(watched, Labelled(mail[t].place), Observed(watched))}
  IN
  /\ ~stuck /\ s.phase = "fetch" /\ t \in s.todo /\ mail[t].place # "gone"
  /\ Query(h, Noted(Sent(h), t, evidence[t], keys, AgreedSnooze(s.scope, s.found[t])))
  /\ UNCHANGED left

\* Mutant: a thread recorded under a scope that watches it no longer is let be
StaleInInbox(h) ==
  {t \in MailThreads : evidence[t].place = "archived" /\ scans[h].found[t] = {}}

\* read_stale_gmail_threads: recorded, still in scope by its labels, not found.
Stale(h) ==
  {t \in MailThreads :
     /\ scans[h].found[t] = {}
     /\ \E c \in evidence[t].keys :
          Admits(ScopeOf(scans[h].scope, c), evidence[t].place, evidence[t].snoozed)}

ReadStale(h) ==
  LET s == scans[h] IN
  /\ ~stuck /\ s.phase = "fetch" /\ s.todo = {}
  /\ \E asked \in SUBSET Stale(h) :
       /\ asked = Stale(h) \/ Cardinality(asked) = s.limit
       /\ Cardinality(asked) <= s.limit
       /\ Query(h, [Sent(h) EXCEPT !.phase = "recheck", !.todo = asked, !.stale = evidence,
                                   !.incomplete = @ \/ asked # Stale(h)])
  /\ UNCHANGED left

\* recheck_thread: where a thread that was not found is now; its snooze stands.
Recheck(h, t) ==
  LET s == scans[h]
      row == s.stale[t]
      keys == {c \in s.owned \cap mail[t].labels :
                 Admits(ScopeOf(s.scope, c), Labelled(mail[t].place), row.snoozed)}
  IN
  /\ ~stuck /\ s.phase = "recheck" /\ t \in s.todo
  /\ IF keys # {} THEN Query(h, Noted(Sent(h), t, row, keys, "unknown"))
     ELSE /\ scans' = [scans EXCEPT ![h] = Noted(s, t, row, {}, "unknown")]
          /\ UNCHANGED <<mail, evidence, stuck>>
  /\ UNCHANGED left

-----------------------------------------------------------------------------
(* The end of a scan                                                          *)

\* What a prune leaves; everything else is deleted.
Kept(h) == IF scans[h].prune THEN scans[h].recorded ELSE MailThreads

\* check_prune_is_safe again, the last of the session sent, the prune, the commit.
\* A prune waits as well for rows another scan holds.
EndScan(h) ==
  LET s == scans[h]
      last == Sent(h).sent
      pruned == MailThreads \ Kept(h)
  IN
  /\ ~stuck /\ s.phase = "recheck" /\ s.todo = {}
  /\ IF s.prune /\ s.incomplete THEN Dropped(h) /\ UNCHANGED <<evidence, stuck>>
     ELSE IF Waits(h) \/ (\E t \in pruned, o \in Handlers \ {h} : Locked(o, t) /\ evidence[t] # NoRow)
     THEN stuck' = TRUE /\ UNCHANGED <<scans, evidence>>
     ELSE /\ Dropped(h) /\ UNCHANGED stuck
          /\ IF Clashes(h) THEN UNCHANGED evidence
             ELSE evidence' = [t \in MailThreads |->
                    IF t \in pruned THEN NoRow
                    ELSE IF last[t] = NoWrite THEN evidence[t] ELSE Applied(evidence[t], last[t])]
  /\ UNCHANGED <<left, mail>>

\* Gmail fails while it is awaited: what the session holds is rolled back.
FailScan(h) ==
  /\ ~stuck /\ scans[h] # NoScan /\ Dropped(h)
  /\ UNCHANGED <<left, mail, evidence, stuck>>

\* A loop that waits for itself goes on only after a restart.
Restarted ==
  /\ stuck /\ stuck' = FALSE
  /\ scans' = [h \in Handlers |-> NoScan]
  /\ UNCHANGED <<left, mail, evidence>>

\* The owner files, snoozes, wakes, relabels or deletes a thread.
MailMoves(t, place, labels) ==
  LET now == [mail EXCEPT ![t] = [place |-> place, labels |-> labels]] IN
  /\ Spend("mail") /\ mail[t].place # "gone" /\ mail' = now /\ mail # now
  /\ scans' = [h \in Handlers |->
       LET lost == {c \in Watchers : c \notin labels \/ ~Finds(ScopeOf(scans[h].scope, c), place)} IN
       IF scans[h] = NoScan THEN NoScan
       ELSE [scans[h] EXCEPT !.away = @ \cup (lost \X {t}),
                             !.seen = IF place = "inbox" THEN @ \cup {t} ELSE @]]
  /\ UNCHANGED <<evidence, stuck>>

EvidenceNext ==
  \/ \E h \in Handlers :
       \/ left["scans"] > 0 /\ \E scope \in AskedScopes, limit \in Limits, prune \in BOOLEAN :
            BeginScan(h, scope, limit, prune)
       \/ \E c \in Watchers, missing \in BOOLEAN : ListLabel(h, c, missing)
       \/ ListedAll(h) \/ ReadStale(h) \/ EndScan(h) \/ FailScan(h)
       \/ \E t \in MailThreads : FetchThread(h, t) \/ Recheck(h, t)
  \/ Restarted
  \/ left["mail"] > 0 /\ \E t \in MailThreads, place \in Places, labels \in SUBSET Watchers :
       MailMoves(t, place, labels)

EvidenceSpec == EvidenceInit /\ BudgetInit /\ [][EvidenceNext]_<<evidenceVars, left>>

-----------------------------------------------------------------------------
(* Properties                                                                 *)

RowType == [place : {"none", "inbox", "archived", "trash", "gone"},
            snoozed : {"yes", "no", "unknown"}, keys : SUBSET Watchers]

\* Every row has the shape its table gives it, and two scans hold no row at once.
EvidenceTypeOK ==
  /\ mail \in [MailThreads -> [place : Places, labels : SUBSET Watchers]]
  /\ evidence \in [MailThreads -> RowType] /\ stuck \in BOOLEAN
  /\ \A t \in MailThreads : Cardinality({h \in Handlers : Locked(h, t)}) <= 1

\* A prune deletes nothing that was there all along: what loses its evidence was,
\* for every capability, out of its mailbox or without its label at some moment
\* of the scan that deleted it, however that scan was cut short, limited, or
\* overlapped by others.  Not at one moment for all of them: a thread that is
\* labelled anew between two searches is missed by both.
PruneSparesPresent ==
  [][\A t \in MailThreads : evidence[t] # NoRow /\ evidence'[t] = NoRow =>
       \E h \in Handlers : scans[h].prune /\ scans'[h] = NoScan /\ Watchers \X {t} \subseteq scans[h].away]_evidenceVars

\* Mail that leaves the inbox leaves the review: after a scan of the default
\* scope that saw everything and ran by itself, a row that the inbox admits is
\* of a thread that was in the inbox at some moment of that scan.
LeavesWithTheInbox ==
  [][\A h \in Handlers :
       /\ scans[h].phase = "recheck" /\ scans[h].todo = {} /\ scans'[h] = NoScan /\ evidence' # evidence
       /\ scans[h].scope = "inbox" /\ ~scans[h].incomplete /\ scans[h].alone
       => \A t \in MailThreads :
            (\E c \in evidence'[t].keys :
               WatchedBox[c] = "inbox" /\ Admits("inbox", evidence'[t].place, evidence'[t].snoozed))
            => t \in scans[h].seen]_evidenceVars
=============================================================================
