CONSTANTS
  i1 = i1
  i2 = i2
  i3 = i3
  n1 = n1
  c1 = c1
  web = web
  s1 = s1
  s2 = s2
  t1 = t1
  t2 = t2
  t3 = t3
  t4 = t4
  u1 = u1
  u2 = u2
  u3 = u3
  u4 = u4
  w1 = w1
  w2 = w2
  Workers = {w1}
  Number = {n1}
  BadNumber = BadNumber
  Code = {c1, c2}
  NoCode = NoCode
  Platform = {web}
  Unknow = Unknow
  Missing = Missing
  RawClient = {web, Missing}
  TelId = {i1, i2}
  User = {u1, u2, u3, u4}
  SessionId = {s1, s2, s3}
  Token = {t1, t2, t3, t4}
  BadToken = BadToken
  NoToken = NoToken
  None = None
  NoTime = NoTime
  VcLife = 1
  DefaultMaxAge = 1
  MaxTime = 2
  Seeds <- AllSeeds

SPECIFICATION FairSpec

INVARIANT TypeOK
INVARIANT OneInv
PROPERTY CodesAreRenewedWhenExpired
PROPERTY VcSuccessMeansUsableCode
PROPERTY RefreshedTokenOpensTheSession
PROPERTY EveryRequestAnswered
