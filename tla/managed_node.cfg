SPECIFICATION FairSpec
CONSTANTS
  Radio <- Radios2
  FirstRadio <- First
  Id <- Ids
  MaxChanges = 1
  MaxCrashes = 1
  MaxUploads = 2
INVARIANTS TypeOK VersionFits InfoIsOfTheRadio AcceptedIsKept ServerPositionsHaveRows
PROPERTY StartsAnyway
CHECK_DEADLOCK FALSE
