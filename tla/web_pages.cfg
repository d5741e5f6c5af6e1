SPECIFICATION Spec
CONSTANTS
  p1 = p1
  p2 = p2
  Page <- TwoPages
  QueueSize = 1
  MaxHeard = 0
  MaxSaid = 0
  MaxLosses = 0
INVARIANT OpenPagesSubscribed
CHECK_DEADLOCK FALSE
