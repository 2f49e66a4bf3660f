\* Is a client that is told "Start publishing" a publisher?
SPECIFICATION Spec
CONSTANTS
  Sessions = {s1, s2}
  NoSession = NoSession
  Apps = {a1}
  NoApp = NoApp
  Cids = {c1}
  NoCid = NoCid
  RecordForce = FALSE
  MaxRecorders = 0
PROPERTY
  PublishStartMeansPublisher
CHECK_DEADLOCK FALSE
