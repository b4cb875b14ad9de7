SPECIFICATION Spec
CONSTANTS
  q = q  s = s  x = x  o = o
  Chats = {q, s}
  Roster <- JustQ
  Saved = s
  Own = {o}
  Foreign = {x}
  ChatOf <- InQ
  Pins = {}
  Limit <- Twice
  MaxOps = 1
INVARIANTS TypeOK ParallelLists OneRowEach PendingShown WatchesOpen WatchedIsComplete
PROPERTY KeepsOpen
CHECK_DEADLOCK FALSE
