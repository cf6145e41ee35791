SPECIFICATION FairSpec
CONSTANTS
  b1 = b1
  b2 = b2
  t1 = t1
  t2 = t2
  t3 = t3
  None = None
  Bridges <- MCBridges
  Threads <- MCThreads
  Home <- MCHome
  Made <- MCMade
  Stored <- MCStored
  MaxEvents = 3
INVARIANTS
  SelectionBelongs
PROPERTIES
  ListsRepaired
  LoadingEnds
CHECK_DEADLOCK FALSE
