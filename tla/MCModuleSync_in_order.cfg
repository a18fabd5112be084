SPECIFICATION FairSpec

CONSTANTS
  Modules <- TwoGroups
  n_modules = 2
  n_groups = 2
  Mask <- AllBits
  n_images_buffer = 2
  Images <- SixImages
  PacketLoss <- Never
  Delivery = "in_order"
  MaxFrames = 12

INVARIANT TypeOK
INVARIANT LossesReported
PROPERTY Assembles
PROPERTY CompleteImagesLeave

\* All frames delivered: both threads poll for ever without a change.
CHECK_DEADLOCK FALSE
