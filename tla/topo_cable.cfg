CONSTANTS
  e1 = e1
  e2 = e2
  h = h
  r = r
  wired = wired
  wireless = wireless
  Devs <- FourDevs
  DevType <- TypeOfDev
  Spare <- OneSpare
  Nets <- TwoNets
  NetMedia <- MediaOfNet
  ChosenNames = {}
  MaxIntrfcs = 4
CHECK_DEADLOCK FALSE
SPECIFICATION Spec
INVARIANT NoCableConfusion
