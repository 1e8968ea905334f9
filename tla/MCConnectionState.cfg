CONSTANTS
  u1 = u1
  u2 = u2
  u3 = u3
  t1 = t1
  none = none
  Unused = Unused
  Username <- MCUsername
  TokenPair <- MCTokenPair
  NoTokens <- none
  Lifetime = 2
  MaxTime = 4
SPECIFICATION FairSpec
INVARIANTS TypeOK AvailableForItsLifetime SweepOnlyExpired
PROPERTIES LeaseSpec EventuallyForgotten
