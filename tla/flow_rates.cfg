SPECIFICATION Spec
CONSTANTS
  a = a
  b = b
  sa = sa
  sb = sb
  sc = sc
  c = c
  f1 = f1
  f2 = f2
  f3 = f3
  Flows = {f1, f2, f3}
  FlowRoute <- ThreeFlows
  Bndwdth <- SixEach
  NetBndwdth <- WideNets
  Requests = {2, 4}
  ElasticSets <- NoneOneOrTwo
  MaxCalls = 3
  MaxRate = 6
  NaN = NaN
  Absent = Absent
SYMMETRY Symmetry
INVARIANT TypeOK
INVARIANT InelasticEndToEnd
INVARIANT ReservationsFit
INVARIANT ReservedLambda
PROPERTY InelasticUndisturbed
CHECK_DEADLOCK FALSE
