SPECIFICATION FairSpec

CONSTANTS
  Stored <- ThreeFiles
  block_size = 2
  n_slots = 2
  Requests <- Ranges
  MaxReplays = 2
  RestartsAfterStop = FALSE

INVARIANTS  PushedOwnBytes
 

\* The driver may stay where it is when no user is connected.
CHECK_DEADLOCK FALSE
