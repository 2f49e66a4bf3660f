SPECIFICATION FairSpec
CONSTANTS
  MaxMessages = 4
  MaxReads = 2
INVARIANTS
  TypeOK
  BufferIsFront
  NeverStuck
PROPERTIES
  EveryMessageSent
  ImplementsChannel
\* A closed connection does nothing more.
CHECK_DEADLOCK FALSE
