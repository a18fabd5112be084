SPECIFICATION Spec

CONSTANTS
  Receivers <- AllReceivers
  number_of_connections = 2
  n_slots = 3
  MaxFrames = 4
  MaxFaults = 1
  Chains <- SomeChains
  value <- TwoOfThree
  data_period = 2
  Stubborn <- FirstTwo
  Hwm = 2
  MaxTime = 5

INVARIANTS AnnouncedOnceInOrder ShownOwnBytes RateIsBounded
CHECK_DEADLOCK FALSE
