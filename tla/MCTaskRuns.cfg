SPECIFICATION Spec
SYMMETRY Symmetry
CONSTANTS
  Inv = {i1, i2}
  Home = {h1, h2}
  Key = {1, 2, 3}
  UserKey = {1, 2}
  Path = {}
  Jobs <- Contenders
  Nodes = 1
  MaxActions = 1
  User = User
  Nobody = Nobody
  Collector = Collector
INVARIANTS CommandsExclude UnconfirmedIsProtected ReportedEndIsClean RefusalsAreOneSided
PROPERTIES RollbackIsComplete
