CONSTANTS
  MaxArgs = 4
  CommandLines <- Lines
SPECIFICATION Spec
INVARIANTS TypeOK TempsRemoved FailuresReported SuccessMeansOutput FailuresIsolated LinkedRight
CHECK_DEADLOCK FALSE
