SPECIFICATION FairGardenSpec
CONSTANTS
  MaxHoles = 12
  MaxWakeUps = 1
INVARIANTS GardenTypeOK MayWork SignalledUnlessMissed
PROPERTIES AllFilled
\* The threads end, or wait for signals that they missed.
CHECK_DEADLOCK FALSE
