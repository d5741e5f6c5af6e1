SPECIFICATION Spec
CONSTANTS
  Id <- MCId
  Node <- MCNode
  Name <- MCName
  Content <- MCContent
INVARIANTS TypeOK FramesReachCallbacks IllFormedTextForgesNothing DecodersFollowSchemas
