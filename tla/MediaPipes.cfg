SPECIFICATION Spec
CONSTANTS
  Clients = {c1, c2}
  MaxRequests = 3
  MaxFrames = 3
  MaxStreams = 2
SYMMETRY Symmetry
INVARIANTS
  TypeOK
  AnswersTrue
  FramesInOrder
  UnsubscribedIsSilent
\* The bounds end every behaviour.
CHECK_DEADLOCK FALSE
