SPECIFICATION Spec

CONSTANTS
  Modules <- TwoModules
  Detectors <- AllDetectors
  Frames <- TwoFrames
  bunchid <- BunchId
  n_packets = 2
  n_slots = 2
  Hwm = 1
  Width = 4
  Late = 1
  Repeats <- FirstAndLast
  MaxPackets = 3
  n_image_slots = 3
  n_images_buffer = 1

INVARIANTS MissingIsHonest NoFrameForgotten InOrderWithoutDelay PublishedComplete
 

\* All packets read: the services poll for ever without a change.
CHECK_DEADLOCK FALSE
