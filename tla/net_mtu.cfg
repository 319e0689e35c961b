SPECIFICATION Spec
CONSTANTS
  a = a
  b = b
  sa = sa
  sb = sb
  sc = sc
  c = c
  Intrfcs <- SharedIntrfcs
  Routes <- SharedRoutes
  BgfRoutes <- FlowFromA
  Conns = {1, 2}
  MaxFrames = 2
  MsgLens = {2}
  MaxFrameLen = 2
  MTU <- SmallMTU
INVARIANT MTURespected
CHECK_DEADLOCK FALSE
