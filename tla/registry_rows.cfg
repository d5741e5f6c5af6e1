SPECIFICATION Spec
CONSTANTS
  Node <- MCNode
  Name <- MCName
  Content <- MCContent
  LocalInfos <- MCLocalInfos
  Lists <- MCLists
  Id <- NoId
  Messages <- PlainMessages
  Firmwares = {"latest"}
  Faults = FALSE
  MaxRestarts = 0
  MaxPublished = 1
INVARIANTS RowsHoldLastNodeInfo
