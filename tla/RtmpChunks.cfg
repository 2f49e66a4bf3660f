SPECIFICATION Spec
CONSTANTS
  Streams = {3, 4}
  Commands = 3
  Control = 2
  Lengths = {1, 3}
  Stamps = {1, 4}
  ExtLimit = 4
  Sizes = {2, 3}
  DefaultSize = 1
  ServerSize = 2
  Windows = {2}
  DefaultWindow = 6
  MaxMessages = 5
  MaxWire = 2
INVARIANTS
  TypeOK
  ReadsWhatWasSent
  TimesAreRight
  NothingLeftBehind
  PeerUnderstands
\* The bound on the messages ends every behaviour.
CHECK_DEADLOCK FALSE
