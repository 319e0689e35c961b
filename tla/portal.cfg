SPECIFICATION FairSpec
CONSTANTS
  MaxFlows = 2
  MaxConns = 3
  MaxTransit = 1
  Rtns <- AskAll
INVARIANT TypeOK
INVARIANT RecordsAwaitDelivery
PROPERTY OthersUntouched
PROPERTY AnswersSpec
CHECK_DEADLOCK FALSE
