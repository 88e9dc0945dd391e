SPECIFICATION AllSpec
CONSTANTS
  Inv = {"i1"}
  Home = {"h1"}
  Key = {}
  UserKey = {}
  Path = {"p1"}
  Jobs <- Readers
  Nodes = 3
  MaxActions = 2
  User = "user"
  Nobody = "nobody"
  Collector = "collector"
  Length = 4
  Chunk = 2
  LineBytes = 2
  OutLimits = {3, 4}
  ErrBytes = 3
  Retained = 1
  None = None
  Foreign = Foreign
  NoEntry = NoEntry
  NoRun = NoRun
  Revision = {v1, v2}
  MaxCommands = 3
  Executable = {v1}
  UserText = {u1}
  MaxNumber = 3
  NoPlan = NoPlan
  Reviewed = {v2}
  Nothing = Nothing
  Undeclared = Undeclared
  Elsewhere = Elsewhere
INVARIANTS TypesOK SuccessCoversTheGraph OutcomeIsTrue CallbacksKeepTheirs StreamsAreFaithful SessionsKeepSignals RetainedIsWhole AppliedIsSatisfied
PROPERTIES UsersObjectsReturn 
CHECK_DEADLOCK FALSE
