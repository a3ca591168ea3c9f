SPECIFICATION FairSpec
CONSTANTS
  Thread = {1, 2, 3, 4}
  ROUND = 1
  MaxInterrupts = 1
INVARIANTS TypeOK EarlyOnlyByInterrupt
PROPERTIES AllRoundsLeft
\* The threads end after their round, or wait for one that was interrupted.
CHECK_DEADLOCK FALSE
