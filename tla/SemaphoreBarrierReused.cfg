SPECIFICATION FairSpec
CONSTANTS
  Thread = {1, 2}
  ROUND = 2
  MaxInterrupts = 0
PROPERTIES AllRoundsLeft
\* The property is about the end: the threads end, or wait for ever.
CHECK_DEADLOCK FALSE
