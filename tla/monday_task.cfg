SPECIFICATION Spec
CONSTANTS
  r1 = r1
  r2 = r2
  r3 = r3
  rent = rent
  tax = tax
  Rent = Rent
  RENT = RENT
  Tax = Tax
  Requests = {r1, r2, r3}
  Tasks = {rent, tax}
  Titles = {Rent, RENT, Tax}
  KeyOf <- MCKeyOf
  Alike <- MCAlike
  Certain = {rent}
  NoTask = NoTask
  NoItem = NoItem
  NoTitle = NoTitle
  MaxItems = 3
  MaxEdits = 1
SYMMETRY Interchangeable
INVARIANTS
  TypeOK
  OneItemPerTask
  AuditInOrder
PROPERTIES
  ItemKept
CHECK_DEADLOCK FALSE
