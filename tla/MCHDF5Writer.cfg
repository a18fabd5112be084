SPECIFICATION Spec

CONSTANTS
  Paths <- TwoPaths
  Users <- ThreeUsers
  root_user_id = "root"
  Blocks <- BlockSizes
  image_size = 4
  record_size = 2
  meta_record_size = 4
  MaxRuns = 3
  MaxImages = 5

INVARIANTS   WrittenAsUser
CHECK_DEADLOCK FALSE
