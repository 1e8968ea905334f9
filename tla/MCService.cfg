CONSTANTS
  u1 = u1
  u2 = u2
  t1 = t1
  t2 = t2
  none = none
  c1 = c1
  c2 = c2
  q1 = q1
  sales = sales
  stock = stock
  salesId = salesId
  salesSecret = salesSecret
  baseId = baseId
  baseSecret = baseSecret
  otherId = otherId
  NoSecret = NoSecret
  None = None
  Unused = Unused
  NoTokens <- none
  Username <- MCUsername
  TokenPair <- MCTokens
  Database <- MCDatabase
  Credential <- MCCredential
  Base <- MCBase
  Conn <- MCConn
  Request <- MCRequest
  Options <- MCOptions
  MaxLives = 2
SPECIFICATION FairSpec
INVARIANTS TypeOK CredentialsOfTheDatabase OwnIdentity RequestAgreesWithSession OneAnswer
PROPERTY EveryConnectionIsServed
CHECK_DEADLOCK FALSE
