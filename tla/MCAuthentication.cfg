CONSTANTS
  sales = sales
  stock = stock
  base = base
  salesClient = salesClient
  None = None
  Database <- MCDatabase
  ClientID <- MCClientID
  BaseClient <- base
  Configs <- Tested
SPECIFICATION FairSpec
INVARIANTS TypeOK VouchedForTheDatabase ReadyMeansPrepared ScriptBeforeRole InSync
INVARIANTS LegsAsAnswered ServerLikeTranscript RefusalIsTold
PROPERTY HandshakeEnds
