SPECIFICATION FairSpec
CONSTANTS
  a = a
  b = b
  sa = sa
  sb = sb
  sc = sc
  c = c
  Intrfcs <- SharedIntrfcs
  Routes <- SharedRoutes
  BgfRoutes <- FlowFromA
  Conns = {1, 2}
  MaxFrames = 2
  MsgLens = {2}
  MaxFrameLen = 2
  MTU <- SmallMTU
INVARIANT TypeOK
INVARIANT HeadStillThere
INVARIANT OneFrameInService
INVARIANT QueueIsServed
INVARIANT FrameAtOnePlace
INVARIANT OutstandingFrames
PROPERTY FirstInFirstOut
PROPERTY DeliverySpec
CHECK_DEADLOCK FALSE
