SPECIFICATION FairSpec
CONSTANTS
  k1 = k1
  k2 = k2
  completed = completed
  failed = failed
  Hooks = {k1, k2}
  Events = {completed, failed}
  Filters <- AllOrFailed
  MaxAttempts = 2
  MaxDeliveries = 2
  MaxLost = 2
INVARIANTS WebhookTypeOK DeadLetterIsExhausted AcknowledgedOnce
PROPERTIES SettledStays EveryDeliverySettles
CHECK_DEADLOCK FALSE
