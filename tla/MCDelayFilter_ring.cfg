SPECIFICATION FilterSpec

CONSTANTS
  slots = 5
  min_history = 2
  Period = 1
  MaxGap = 1
  MaxImages = 7

INVARIANT ForwardedInOrder
INVARIANT StillInRing

\* The stream ends after MaxImages images.
CHECK_DEADLOCK FALSE
