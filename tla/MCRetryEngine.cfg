\* Three retries as shipped, delays scaled down.
SPECIFICATION Spec
CONSTANTS
  None = None
  MaxRetries = 3
  BaseDelay = 4
  MaxDelay = 15
  Second = 10
  Seconds <- MCSeconds
  Bits = 16
INVARIANTS
  TypeOK
  RepeatsOnlyPassing
  WaitBounded
  WaitsAsTold
CHECK_DEADLOCK FALSE
