SPECIFICATION FairSpec

CONSTANTS
  Images <- FourImages
  n_images_buffer = 2
  n_forwarders = 2
  n_slots = 2
  Hwm = 2

INVARIANTS StrictOrder 
PROPERTIES ServesSynchronizer ForwardedImageIsWhole MatchedImagesLeave

\* All images published: the services poll for ever without a change.
CHECK_DEADLOCK FALSE
