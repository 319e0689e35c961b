SPECIFICATION FairSpec
CONSTANTS
  Cores = 2
  Tasks = {1, 2, 3, 4}
  PriArgs <- TwoPriorities
  Reqs = {2}
  Slices = {1}
  Bursts = {1, 2, 3}
  BurstLens = {2}
  Gaps = {3}
  InitBusy = 3
  HasBckgrnd = TRUE
INVARIANT TypeOK
INVARIANT CoreAccounting
INVARIANT QueueAccounting
INVARIANT WorkConserving
INVARIANT ServiceAccounted
PROPERTY NoOvertaking
PROPERTY HeadsLeaveInOrder
PROPERTY ExcessNeverGrows
PROPERTY ExcessDrains
PROPERTY Task1Completes
