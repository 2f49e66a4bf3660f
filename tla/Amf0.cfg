SPECIFICATION Spec
CONSTANTS
  Radix = 24
  Lengths = {0, 1, 287, 288}
  MaxPuts = 2
  MaxDepth = 1
INVARIANT
  RoundTrip
\* A message is read once.
CHECK_DEADLOCK FALSE
