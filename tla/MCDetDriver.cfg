SPECIFICATION FairSpec

CONSTANTS
  alice = alice
  Sessions <- OneUser
  n_sockets = 3
  with_metadata_writer = TRUE
  n_images = 3
  MaxRuns = 2
  Conditions <- CalmOrRough
  Patient = TRUE

INVARIANT SavedIsComplete
 
INVARIANT StopEndsRecording
INVARIANT NoWriteWithoutFile
 

\* A start request without a path ends the driver for good.
CHECK_DEADLOCK FALSE
