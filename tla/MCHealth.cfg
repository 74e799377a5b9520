SPECIFICATION Spec
CONSTANTS
  a = a
  b = b
  c = c
  hz = hz
  none = none
  NoSubject = NoSubject
  Never = Never
  Missing = Missing
  Unusable = Unusable
  Mice = {a, b, c}
  Rates = {none, hz}
  Retryable = {"not_found"}
  Terminal = {"hid"}
  MaxSubjects = 2
  MaxIncidents = 2
  Heartbeat = 2
  Retention = 1
  MaxSequence = 6
  MaxCount = 2
  Found <- MCFound
  MaxMoves = 6
INVARIANTS
  CapsuleIsConsistent
PROPERTIES
  SequenceGrows
  HeartbeatMends
