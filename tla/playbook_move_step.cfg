SPECIFICATION MCSpec
CONSTANTS
  h1 = h1
  h2 = h2
  email = email
  goals = goals
  closeout = closeout
  t1 = t1
  t2 = t2
  act = act
  rest = rest
  m1 = m1
  m2 = m2
  c1 = c1
  r1 = r1
  r2 = r2
  Handlers = {h1, h2}
  Kinds = {"revisions", "asks", "edits", "sessions", "works", "reviews", "submissions", "revised",
           "lessons", "moves", "regrants", "drafts", "steps", "scans", "mail", "changes",
           "fills", "answers", "assessments", "bulks", "byhand"}
  Budgets <- MCBudgets
  Capabilities = {"admin", "legal"}
  Shipped = {"admin"}
  Activities = {email, goals, closeout}
  Email = email
  Closeout = closeout
  Orders <- MCOrders
  Asides <- MCAsides
  Threads = {t1, t2}
  Groups = {act, rest}
  CatchAll = rest
  Playbooks <- MCPlaybooks
  ShippedReview <- MCShippedReview
  Lessons = {"meetings", "receipts"}
  Rows = {r1, r2}
  Folders = {"bank", "later"}
  Says <- MCSays
  Policy <- MCPolicy
  Drafts <- MCDrafts
  MailThreads = {m1, m2}
  Watchers = {c1}
  WatchedBox <- MCWatched
  Limits = {1, 3}
  AskedScopes = {"inbox", "everything"}
  Registered <- MCRegistered
  KnownSteps <- MCKnownSteps
  Built = {"email_review", "session_closeout"}
  ShippedDocument <- MCDocument
  Todos = {"i1", "i2"}
  TodoLists = {"todo", "gs", "shop"}
  Configured = {"todo", "gs"}
  ListOf <- MCListOf
  Bulks <- MCBulks

INVARIANT StepMovesAsSaid
CHECK_DEADLOCK FALSE
