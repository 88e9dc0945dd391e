SPECIFICATION Spec
CONSTANTS
  Dest = {d1}
  Written = {v1}
  Foreign = {u1}
  Absent = Absent
  NoEntry = NoEntry
  NoMarker = NoMarker
  Torn = Torn
  NoOp = NoOp
  MaxTxn = 1
PROPERTIES FlipErrorMeansNothingFlipped
