SPECIFICATION Spec
CONSTANTS
  MaxFlows = 2
  MaxConns = 3
  MaxTransit = 1
  Rtns <- AskAll
INVARIANT ReportsReachTheirFlow
CHECK_DEADLOCK FALSE
