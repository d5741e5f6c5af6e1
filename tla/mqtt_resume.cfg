SPECIFICATION FairSpec
CONSTANTS
  p1 = p1
  p2 = p2
  Page <- OnePage
  QueueSize = 1
  MaxHeard = 0
  MaxSaid = 0
  MaxLosses = 1
PROPERTY SubscriptionsResumed
CHECK_DEADLOCK FALSE
