SPECIFICATION Spec
CONSTANTS
  up = up
  down = down
  NoCode = NoCode
  Five = 2
  Intervals = {2, 4}
  Heartbeat = 3
  Slow = 1
  Codes = {up, down}
  Collections = {1}
  Debounce = 1
  RetryMin = 1
  RetryMax = 3
  RetryHealthy = 2
  QueueMax = 2
INVARIANTS
  DeadlinesHold
  NoIdleRound
PROPERTIES
  Relocks
CHECK_DEADLOCK FALSE
