SPECIFICATION Spec
CONSTANTS
  Sessions = {s1, s2, s3}
  NoSession = NoSession
  Apps = {a1, a2}
  NoApp = NoApp
  Cids = {c1, c2}
  NoCid = NoCid
  RecordForce = TRUE
  MaxRecorders = 2
SYMMETRY Symmetry
INVARIANTS
  TypeOK
  StreamsInhabited
  OneStreamEach
  GhostsAreRenamed
PROPERTIES
  LeavesAlone
  ImplementsLiveStreams
\* All connections may have ended.
CHECK_DEADLOCK FALSE
