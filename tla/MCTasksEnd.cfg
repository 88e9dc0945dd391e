SPECIFICATION FairSpec
CONSTANTS
  Inv = {i1, i2}
  Home = {h1}
  Key = {1}
  UserKey = {1}
  Path = {p1}
  Jobs <- Consumers
  Nodes = 1
  MaxActions = 1
  User = User
  Nobody = Nobody
  Collector = Collector
INVARIANT CommandsKeepTheirObjects
PROPERTIES EveryInvocationEnds
