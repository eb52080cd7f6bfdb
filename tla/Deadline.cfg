CONSTANTS
  MaxTimer = 3
SPECIFICATION Spec
INVARIANTS
  WriteTimerHeld
  TimeoutIsReported
CHECK_DEADLOCK FALSE
