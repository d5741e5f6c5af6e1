SPECIFICATION FairSpec
CONSTANTS
  p1 = p1
  p2 = p2
  Page <- TwoPages
  QueueSize = 1
  MaxHeard = 1
  MaxSaid = 2
  MaxLosses = 1
INVARIANTS TypeOK ServedUntilSomeoneLeaves
PROPERTIES CommandsRelayed MeshShown FirstQueueIsPublished FirstPageIsReleased
CHECK_DEADLOCK FALSE
