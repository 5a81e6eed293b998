SPECIFICATION MCSpec
CONSTANTS
  i1 = i1
  i2 = i2
  mail = mail
  notes = notes
  Items = {i1, i2}
  Capabilities = {mail, notes}
  CapabilityOf <- MCCapabilityOf
  Intents = {"archive", "trash", "untrash"}
  Permitted <- MCPermitted
  Recommended <- MCRecommended
  NoIntent = NoIntent
  NoCapability = NoCapability
  Deciders = {d1, d2}
  Preparers = {p1, p2}
  MaxScopes = 3
  SetAside = TRUE
  MaxDecisions <- MCDecisions
SYMMETRY MCSymmetry
INVARIANTS
  TypeOK
  ScopesStand
  NothingWithoutApproval
  ConfirmedAsPrepared
  AbandonDisarms
PROPERTY
  DeclinedStaysUntouched
CHECK_DEADLOCK FALSE
