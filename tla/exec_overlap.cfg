SPECIFICATION Spec
SYMMETRY RequestSymmetry
CONSTANTS
  i1 = i1
  i2 = i2
  archive2 = archive2
  draft1 = draft1
  send1 = send1
  Actions <- MCNoSend
  Items <- MCItems
  ItemOf <- MCItemOf
  KindOf <- MCKindOf
  Requests = {r1, r2}
  Verdicts = {}
  Revocable = {}
  OwnDrafts = {}
  ByHand = {}
  NoAction = NoAction
  NoItem = NoItem
  RequireVerification = TRUE
  LossPossible = TRUE
  MaxAttempts = 2
  MaxDrafts = 2
  MaxText = 1
  MaxScopes = 1
INVARIANTS
  TypeOK
  NeverHalfDone
  OneWriterPerAction
CHECK_DEADLOCK FALSE
