SPECIFICATION GardenSpec
CONSTANTS
  MaxHoles = 5
  MaxWakeUps = 0
INVARIANTS NotBothWaiting
\* The threads end, or wait for signals that they missed.
CHECK_DEADLOCK FALSE
