SPECIFICATION FairSpec
CONSTANTS
  w1 = w1
  w2 = w2
  good = good
  bad = bad
  poison = poison
  Worker <- Workers
  Slot <- TwoSlots
  Prefetch = 1
  Copy <- Copies
  Event <- Events
  EventOf <- Carried
  Invalid <- InvalidEvents
  Poison <- PoisonEvents
  RetryOnError = TRUE
  MaxFaults = 0
PROPERTY
  PoisonReachesDlq
