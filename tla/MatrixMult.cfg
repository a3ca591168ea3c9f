SPECIFICATION Spec
CONSTANTS
  N = 3
  GathervSsendMinProcs = 32
  Rank <- Ranks
  Context <- Contexts
  Tag <- Tags
  Payload <- Payloads
  Handle <- Handles
  AnySource = AnySource
  AnyTag = AnyTag
  Input <- Inputs
  EagerThreshold = 30
INVARIANTS TypeOK QueuesAgree ResultCorrect FinishesExactlyWhen NothingLeftBehind
PROPERTIES WorldBarrier FlatBarrier JobEnds
\* A process that has ended does nothing more.
CHECK_DEADLOCK FALSE
