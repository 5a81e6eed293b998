SPECIFICATION MCSpec
CONSTANTS
  home = home
  work = work
  bill = bill
  offer = offer
  h1 = h1
  h2 = h2
  c1 = c1
  c2 = c2
  NoThread = NoThread
  Nothing = Nothing
  Contents = {c1, c2}
  Threads = {bill, offer}
  Capabilities = {home, work}
  CapabilityOf <- MCCapabilityOf
  Automatable = {offer}
  NeedsDecision = {home, work}
  NeedsExecution = {home, work}
  Handlers = {h1, h2}
  MaxRuns = 3
  MaxSyncs = 2
  MaxRequests = 4
SYMMETRY Interchangeable
PROPERTY StaysAbandoned
CHECK_DEADLOCK FALSE
