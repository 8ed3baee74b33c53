CONSTANTS
  ann = ann
  bob = bob
  p1 = p1
  p2 = p2
  g1 = g1
  g2 = g2
  k1 = k1
  k2 = k2
  o1 = o1
  o2 = o2
  w1 = w1
  w2 = w2
  Workers = {w1, w2}
  User = {ann}
  GoodsId = {p1, g1, g2}
  CarId = {k1}
  OfferId = {o1}
  Preset = {p1}
  Offers = {"findCar", "findCustomers"}
  References = {}
  System = System
  None = None
  Seeds <- OnlyOffered

SPECIFICATION FairSpec

PROPERTY EveryRequestAnswered
