SPECIFICATION Spec
CONSTANTS
  t = t  f = f  w = w  a = a  b = b  g = g
  NoId = NoId
  Groups = {g}
  GroupOf <- InOneChat
  BodyOf <- OwnBodies
  TimerOutlivesScope = FALSE
  NestedBlockOnPanics = TRUE
  OutagesOutlastPoll = FALSE
  Window = 1
  MaxNow = 0
  Msgs = {t}
  Accounts = {a, b}
  KindOf <- JustText
  GroupsOf <- OnlyFirst
  MaxSends = 1
  Limit <- TwoSwitches
INVARIANT ListedIsActive
CHECK_DEADLOCK FALSE
