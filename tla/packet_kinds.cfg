SPECIFICATION Spec
CONSTANTS
  Id <- MCId
  Node <- MCNode
  Name <- MCName
  Content <- MCContent
INVARIANT PacketsReachTheirCallback
