---------------------------- MODULE MCAssistant ----------------------------
(* Small instances of the assistant.  A behaviour goes far in one component   *)
(* and not at all in the others, which start in one state each: the state     *)
(* spaces add up instead of multiplying.                                      *)
EXTENDS Assistant, TLC

CONSTANTS h1, h2, email, goals, closeout, t1, t2, act, rest, m1, m2, c1, r1, r2

Symmetry == Permutations(Handlers) \cup Permutations(MailThreads)

\* Guided reviews: a list of groups, free fields or not, a required order or not.
Review(phases, groups, fields, ordered) ==
  [phases |-> phases, groups |-> groups, fields |-> fields, ordered |-> ordered]
MCShippedReview == Review(<<"email_review", "daily_plan">>, {act, rest}, TRUE, TRUE)
MCPlaybooks ==
  {MCShippedReview, Review(<<"email_review">>, {rest}, FALSE, FALSE), Review(<<"email_review">>, {act}, TRUE, TRUE)}

\* Rules: groups with and without exceptions, nested, and about what a bare
\* mail has no value for.
about == Test("subject", FALSE, TRUE, {"statement"})
anyone == Test("domain", TRUE, TRUE, {"bank"})
MCDrafts ==
  {Group({}, {about, anyone}, {}), Group({about}, {}, {anyone}), Group({}, {Group({about}, {}, {}), about}, {}),
   Group({}, {}, {about}), Group({anyone}, {about}, {}), Group({Group({}, {about, anyone}, {})}, {}, {})}

\* Rules: both lessons match one row, and so do both shipped rules.
Advice(action, folder) == [action |-> action, folder |-> folder]
Learned(rows, advice) == [rows |-> rows, advice |-> advice]
MCSays ==
  [meetings |-> Learned({r1, r2}, Advice("gmail_move", "later")),
   receipts |-> Learned({r1}, Advice("gmail_archive", "none"))]
MCPolicy ==
  <<Learned({r1}, Advice("gmail_move", "bank")), Learned({r1}, Advice("gmail_archive", "none"))>>

MCWatched == [c \in Watchers |-> "inbox"]

\* Documents: email has two steps stored out of order, closeout is built, and
\* to-dos can be added.
Step(key, order) == [key |-> key, enabled |-> TRUE, order |-> order]
MCRegistered == [email_review |-> <<>>, session_closeout |-> <<"summary">>, todo_review |-> <<"today", "late">>]
MCKnownSteps ==
  [email_review |-> {"admin", "legal"}, session_closeout |-> {"summary"}, todo_review |-> {"today", "late"}]
MCDocument ==
  <<[key |-> "email_review", enabled |-> TRUE, order |-> 10, steps |-> <<Step("legal", 20), Step("admin", 10)>>],
    [key |-> "session_closeout", enabled |-> TRUE, order |-> 30, steps |-> <<Step("summary", 10)>>]>>

\* Requests at the boards: an item twice, a creation with and without columns,
\* and a bulk whose second update has no board and whose third names nothing.
Set(item, list, action, plan) == [item |-> item, list |-> list, action |-> action, plan |-> plan]
MCBulks ==
  {<<Set("i1", "todo", "decision", "unset"), Set("i1", "todo", "unset", "house")>>,
   <<Set("new item", "todo", "call", "unset")>>, <<Set("new item", "gs", "unset", "unset")>>,
   <<Set("i2", "gs", "call", "house"), Set("i1", "shop", "call", "unset"), Set("i2", "gs", "unset", "unset")>>}
MCListOf == [i1 |-> "todo", i2 |-> "gs"]

MCOrders == {<<email, goals, closeout>>}
MCAsides == {{}, {email}}

None == [kind \in Kinds |-> 0]
PlaybookBudgets == {[None EXCEPT !.revisions = 2, !.asks = 4, !.edits = 1]}
SessionBudgets ==
  {[None EXCEPT !.sessions = 2, !.works = 2], [None EXCEPT !.sessions = 1, !.works = 3],
   [None EXCEPT !.sessions = 2, !.edits = 1, !.revisions = 1, !.asks = 1],
   [None EXCEPT !.sessions = 2, !.works = 1, !.revisions = 1, !.asks = 1]}
ReviewBudgets ==
  {[None EXCEPT !.reviews = 2, !.submissions = 1, !.revised = 1],
   [None EXCEPT !.reviews = 1, !.submissions = 2]}
RuleBudgets ==
  {[None EXCEPT !.lessons = 3, !.moves = 2], [None EXCEPT !.lessons = 1, !.moves = 5, !.regrants = 1],
   [None EXCEPT !.drafts = 2, !.steps = 4], [None EXCEPT !.drafts = 1, !.steps = 6]}
MailBudgets == {[None EXCEPT !.scans = 3], [None EXCEPT !.scans = 2, !.mail = 1]}
AdviceBudgets ==
  {[None EXCEPT !.fills = 1, !.answers = 1, !.assessments = 1], [None EXCEPT !.fills = 1, !.answers = 2],
   [None EXCEPT !.lessons = 2, !.moves = 3, !.fills = 1],
   [None EXCEPT !.lessons = 1, !.moves = 2, !.fills = 2, !.answers = 1]}
BoardBudgets == {[None EXCEPT !.bulks = 1, !.byhand = 1], [None EXCEPT !.bulks = 2]}
ChangeBudgets == {[None EXCEPT !.changes = 2]}
MCBudgets ==
  PlaybookBudgets \cup SessionBudgets \cup ReviewBudgets \cup RuleBudgets \cup AdviceBudgets \cup MailBudgets
  \cup BoardBudgets \cup ChangeBudgets

\* What a component without a budget starts as makes no difference to the others;
\* mail that may still move starts in the inbox.
MCInit ==
  /\ WholeInit
  /\ left.scans = 0 => mail = [t \in MailThreads |-> [place |-> "inbox", labels |-> Watchers]]
  /\ left.mail > 0 => \A t \in MailThreads : mail[t].place = "inbox"
  /\ left.bulks = 0 => board = [i \in Todos |-> NotOnBoard]
  /\ left.sessions + left.revisions = 0 => enabled = Capabilities

MCSpec == MCInit /\ [][WholeNext]_wholeVars
=============================================================================
