SPECIFICATION MCSpec
CONSTANTS
  p1 = p1
  p2 = p2
  c1 = c1
  c2 = c2
  Nobody = Nobody
  Events = {1, 2}
  Publishers <- TwoPublishers
  Consumers <- TwoConsumers
  MaxAttempts = 2
  MaxDeliveries = 2
  Entries = {1, 2, 3}
  MaxFaults = 2
INVARIANTS NothingLost
PROPERTIES EffectsOnce EveryEventResolves
CHECK_DEADLOCK FALSE
