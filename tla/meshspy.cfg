SPECIFICATION FairSpec
CONSTANTS
  MaxCommands = 4
  MaxUnplugs = 2
INVARIANTS TypeOK ExclusivePort NoWriteAfterClose
PROPERTIES ImplementsForwarder ShutsDownOncePlugged CommandsSettled
CHECK_DEADLOCK FALSE
