SPECIFICATION Spec
CONSTANTS
  t = t  f = f  w = w  a = a  b = b  g = g
  NoId = NoId
  Msgs = {t, w}
  Accounts = {a}
  Groups = {g}
  KindOf <- TextAndMedia
  GroupOf <- InOneChat
  BodyOf <- OwnBodies
  GroupsOf <- AllInChat
  TimerOutlivesScope = TRUE
  NestedBlockOnPanics = FALSE
  OutagesOutlastPoll = FALSE
  Window = 1
  MaxSends = 2
  MaxNow = 0
  Limit <- Relays
INVARIANTS BubbleBacked InflightBacked AtMostOnceForText
PROPERTY OutboxImplemented
CHECK_DEADLOCK FALSE
