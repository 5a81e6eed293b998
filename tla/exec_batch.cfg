SPECIFICATION FairSpec
CONSTANTS
  i1 = i1
  i2 = i2
  draft1 = draft1
  send1 = send1
  archive2 = archive2
  Actions <- MCNoSend
  Items <- MCItems
  ItemOf <- MCItemOf
  KindOf <- MCKindOf
  Requests = {r1}
  Verdicts = {}
  Revocable = {"archive"}
  OwnDrafts = {2}
  ByHand = {"return"}
  NoAction = NoAction
  NoItem = NoItem
  RequireVerification = TRUE
  LossPossible = TRUE
  MaxAttempts = 2
  MaxDrafts = 3
  MaxText = 1
  MaxScopes = 1
INVARIANTS
  SecondDraftOnlyAfterLoss
PROPERTIES
  RequestsEnd
CHECK_DEADLOCK FALSE
