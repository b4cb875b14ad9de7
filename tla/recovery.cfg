SPECIFICATION FairSpec
CONSTANTS
  t = t  f = f  w = w  a = a  b = b  g = g
  NoId = NoId
  Msgs = {t}
  Accounts = {a}
  Groups = {g}
  KindOf <- JustText
  GroupOf <- InOneChat
  BodyOf <- OwnBodies
  GroupsOf <- AllInChat
  TimerOutlivesScope = TRUE
  NestedBlockOnPanics = FALSE
  OutagesOutlastPoll = TRUE
  Window = 0
  MaxSends = 1
  MaxNow = 1
  Limit <- Restarts
INVARIANT AtMostOnceForText
PROPERTY QueuedTextLeaves
CHECK_DEADLOCK FALSE
