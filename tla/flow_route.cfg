SPECIFICATION Spec
CONSTANTS
  a = a
  b = b
  sa = sa
  sb = sb
  sc = sc
  c = c
  f1 = f1
  f2 = f2
  f3 = f3
  Flows = {f1, f2}
  FlowRoute <- TwoRoutes
  Bndwdth <- SixEach
  NetBndwdth <- WideNets
  Requests = {4, 6}
  ElasticSets <- AnyElastic
  MaxCalls = 3
  MaxRate = 6
  NaN = NaN
  Absent = Absent
INVARIANT RateAlongOwnRoute
CHECK_DEADLOCK FALSE
