SPECIFICATION Spec
CONSTANTS
  i1 = i1
  i2 = i2
  draft1 = draft1
  send1 = send1
  archive2 = archive2
  Actions <- MCOne
  Items <- MCItem
  ItemOf <- MCItemOf
  KindOf <- MCKindOf
  Requests = {r1}
  Verdicts = {"deferred"}
  Revocable = {}
  OwnDrafts = {}
  ByHand = {"edit", "delete"}
  NoAction = NoAction
  NoItem = NoItem
  RequireVerification = TRUE
  LossPossible = TRUE
  MaxAttempts = 2
  MaxDrafts = 1
  MaxText = 2
  MaxScopes = 2
INVARIANTS
  CompletedHasEffect
  SentWasApproved
  ExecutedItemHasCompletedAction
PROPERTIES
  PromiseKept
CHECK_DEADLOCK FALSE
