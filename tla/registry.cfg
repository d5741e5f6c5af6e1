SPECIFICATION Spec
CONSTANTS
  Node <- MCNode
  Name <- MCName
  Content <- MCContent
  LocalInfos <- MCLocalInfos
  Lists <- MCLists
  Id <- NumberedId
  Messages <- NumberedMessages
  Firmwares = {"latest", "2.1"}
  Faults = TRUE
  MaxRestarts = 1
  MaxPublished = 1
INVARIANTS TypeOK PositionsAreTold
PROPERTIES NamesOnlyFromOwnInfo PublishedIsResolved
