SPECIFICATION Spec
CONSTANTS
  Players = {q1, q2}
  MaxEvents = 4
SYMMETRY Symmetry
INVARIANTS
  TypeOK
  CacheIsGroup
  NothingMissed
  StartsAtKeyFrame
  HeaderBeforeFrame
PROPERTY
  ImplementsLiveStreams
\* The bound on the events ends every behaviour.
CHECK_DEADLOCK FALSE
