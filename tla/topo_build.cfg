CONSTANTS
  e1 = e1
  e2 = e2
  h = h
  r = r
  wired = wired
  wireless = wireless
  Devs <- FourDevs
  DevType <- TypeOfDev
  Spare <- OneSpare
  Nets <- TwoNets
  NetMedia <- MediaOfNet
  ChosenNames = {1, 2}
  MaxIntrfcs = 3
CHECK_DEADLOCK FALSE
SPECIFICATION Spec
SYMMETRY Symmetry
INVARIANT TypeOK
INVARIANT CablesJoinTwo
INVARIANT ReachIsMutual
INVARIANT ConnectionsKept
INVARIANT NamesTellApart
INVARIANT NoEndptInTransit
INVARIANT RoutesThereAndBack
INVARIANT ConnectedAreNeighbors
