SPECIFICATION FairSpec
CONSTANTS
  t = t  f = f  w = w  a = a  b = b  g = g
  NoId = NoId
  Groups = {g}
  GroupOf <- InOneChat
  BodyOf <- OwnBodies
  TimerOutlivesScope = FALSE
  NestedBlockOnPanics = TRUE
  OutagesOutlastPoll = FALSE
  Window = 1
  MaxNow = 0
  Msgs = {t}
  Accounts = {a}
  KindOf <- JustText
  GroupsOf <- AllInChat
  MaxSends = 1
  Limit <- OneCrash
PROPERTY QueuedTextLeaves
CHECK_DEADLOCK FALSE
