SPECIFICATION FairSpec
CONSTANTS
  Thread = {1, 2, 3, 4}
  MaxRequests = 6
INVARIANTS TypeOK WritersAlone NoLostWakeup
PROPERTIES FirstComeFirstServed NoStarvation
\* Once all tickets are drawn and all threads are out, nothing is left to do.
CHECK_DEADLOCK FALSE
