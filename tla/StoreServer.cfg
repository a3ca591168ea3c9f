SPECIFICATION ServerSpec
CONSTANTS
  NoThread = NoThread
  NoClient = NoClient
  NoReply = NoReply
  Thread = {"TCP", "UDP"}
  Client = {"c", "d"}
  Unsteady = {"d"}
  Script <- Commands
  UserName = {"ann", "bob"}
  Product = {"phone", "tape"}
  Quantity = {1, 2}
  InitialStock <- TwoPhones
  MaxCalls = 3
INVARIANTS TypeOK NoOverselling UniqueIDs Conservation AnswersFit
PROPERTIES Serializable Served
\* The clients may have nothing more to ask, or wait for ever.
CHECK_DEADLOCK FALSE
