SPECIFICATION Spec
CONSTANTS
  q = q  s = s  x = x  o = o
  Chats = {q, s}
  Roster <- QThenS
  Saved = "none"
  Own = {o}
  Foreign = {x}
  ChatOf <- InQ
  Pins = {}
  Limit <- SelectAndPin
  MaxOps = 1
INVARIANT RowsBelong
CHECK_DEADLOCK FALSE
