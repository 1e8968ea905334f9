CONSTANTS
  sales = sales
  stock = stock
  base = base
  salesClient = salesClient
  None = None
  Database <- MCDatabase
  ClientID <- MCClientID
  BaseClient <- base
  Configs <- Full
SPECIFICATION Spec
INVARIANT RightPasswordIsAccepted
