SPECIFICATION Spec

CONSTANTS
  alice = alice
  Sessions <- OneUser
  n_sockets = 2
  with_metadata_writer = FALSE
  n_images = 1
  MaxRuns = 2
  Conditions <- CreateFails
  Patient = TRUE

INVARIANT SavedIsComplete

CHECK_DEADLOCK FALSE
