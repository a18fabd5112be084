SPECIFICATION Spec

CONSTANTS
  p1 = p1
  p2 = p2
  p3 = p3
  Parts <- ThreeParts
  n_images_buffer = 2
  Images <- FiveImages

INVARIANT NeverThrows
INVARIANT CompleteIsSent
PROPERTY Assembles

\* All parts delivered: the loop waits for ever.
CHECK_DEADLOCK FALSE
