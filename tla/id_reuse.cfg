SPECIFICATION Spec
CONSTANTS
  t = t  f = f  w = w  a = a  b = b  g = g
  NoId = NoId
  Groups = {g}
  GroupOf <- InOneChat
  BodyOf <- OwnBodies
  TimerOutlivesScope = FALSE
  NestedBlockOnPanics = TRUE
  OutagesOutlastPoll = FALSE
  Window = 1
  MaxNow = 0
  Msgs = {t, f}
  Accounts = {a}
  KindOf <- TextAndForward
  GroupsOf <- AllInChat
  MaxSends = 2
  Limit <- OneCrash
INVARIANT SurvivesRestart
CHECK_DEADLOCK FALSE
