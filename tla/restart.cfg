SPECIFICATION Spec
CONSTANTS
  t = t  f = f  w = w  a = a  b = b  g = g
  NoId = NoId
  Msgs = {t, f}
  Accounts = {a, b}
  Groups = {g}
  KindOf <- TextAndForward
  GroupOf <- InOneChat
  BodyOf <- OwnBodies
  GroupsOf <- AllInChat
  TimerOutlivesScope = TRUE
  NestedBlockOnPanics = TRUE
  OutagesOutlastPoll = FALSE
  Window = 1
  MaxSends = 2
  MaxNow = 0
  Limit <- Hostile
SYMMETRY Swaps
INVARIANTS TypeOK Provenance Retained BubbleBacked
CHECK_DEADLOCK FALSE
