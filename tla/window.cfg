SPECIFICATION WindowSpec
CONSTANTS
  ann = ann  bob = bob  hello = hello  p1 = p1  p2 = p2  p3 = p3  v1 = v1  v2 = v2
  Chats = {ann, bob}
  Rosters <- Lists
  Texts = {hello}
  Pictures <- Albums
  Videos = {v1, v2}
  MaxSecs = 2
  Plans <- Uses
  MaxOps = 4
INVARIANTS  NotifiedOnce DraftKept 
CHECK_DEADLOCK FALSE
