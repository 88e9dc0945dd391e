SPECIFICATION AllSpec
SYMMETRY AllSymmetric
CONSTANTS
  Dest = {d1, d2}
  Written = {v1}
  Foreign = {u1}
  Absent = Absent
  NoEntry = NoEntry
  NoMarker = NoMarker
  Torn = Torn
  NoOp = NoOp
  MaxTxn = 2
  Root = {r1, r2}
  Sub = {s1, s2}
  None = None
  Link = Link
  Plain = Plain
  Stranger = Stranger
  NoRecord = NoRecord
  NoRun = NoRun
  OrderedUnlinks = TRUE
  MaxRuns = 5
  MaxFaults = 2
INVARIANTS TypesOK AtomicOutcome NeverBlocked QuietIsDurable  
PROPERTIES ForeignIsSpared
CHECK_DEADLOCK FALSE
