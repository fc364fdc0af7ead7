CONSTANTS
  Events = {e1}
  Subscriptions = {e1}
  WithMetadata = {e1}
  Drains = {w1, w2}
  Ticker = w1
  Deliveries = {d1}
  MAX_ATTEMPTS = 2
  DRAIN_BATCH = 1
  NoEvent = NoEvent
  MaxDeliveries = 2
  MaxFaults = 2
  MaxCrashes = 1
SPECIFICATION FairSpec
INVARIANTS InboxTypeOK DoneWasApplied WorkIsAccounted LinkedEventsAreApplied
PROPERTY QueuedSettles
