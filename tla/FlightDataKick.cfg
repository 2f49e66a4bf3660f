SPECIFICATION Spec
CONSTANTS
  Clients = {c1, c2}
  NoClient = NoClient
  MaxMessages = 3
INVARIANT KickedAlone
CHECK_DEADLOCK FALSE
