SPECIFICATION Spec

CONSTANTS
  Images <- SomeImages
  block_size = 2
  folder_size = 4
  Sizes <- ShortAndLong
  LongWrite = 2
  MaxWrites = 4
  MaxFaults = 2

INVARIANTS EntriesHaveFiles FindsNextFile StaysReadable

\* All images written.
CHECK_DEADLOCK FALSE
