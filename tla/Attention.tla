------------------------------ MODULE Attention ------------------------------
(***************************************************************************)
(* What the window owes the user's attention: unread counters, their       *)
(* badges and total, desktop notifications, and the half-written message   *)
(* of each chat.                                                           *)
(*                                                                         *)
(* The counters are computed by the chat watcher and by the worker that    *)
(* reads the chat list, on the runtime's threads, and reset by the event   *)
(* loop.  The composer is one text field; it is saved under a chat when    *)
(* the user leaves the chat, and restored when the user comes back.  The   *)
(* settings file survives the process, except when it dies in a save.      *)
(* The messages are somebody else's; whichever account is active, the      *)
(* chats are the same.                                                     *)
(***************************************************************************)
EXTENDS EventLoop, Sublists, Bags

CONSTANTS
  Chats,    \* all chats
  Rosters,  \* what marmot may list at start, in its order
  Texts     \* what the user may type

ASSUME AttentionConstantsOK ==
  /\ IsFiniteSet(Chats) /\ \A r \in Rosters : r \in Seq(Chats) /\ IsInjective(r)
  /\ "none" \notin Chats \cup Texts

VARIABLES
  clock,     \* seconds
  inbox,     \* per chat: when each of its messages was recorded
  visible,   \* the chats marmot lists, in its order
  list,      \* group_ids
  active,    \* active_chat, a position
  page,      \* active_page
  badge,     \* the unread number of a chat's row
  title,     \* the total in the window title
  rail,      \* the number on the rail's chats badge
  marker,    \* UnreadState.last_read; -1 where there is none
  counts,    \* UnreadState.counts
  lastRead,  \* Settings.last_read, in the file
  drafts,    \* Settings.composer_drafts, in the file
  composer,  \* composer_draft: the text, and the chat it was typed in
  editing,   \* editing_message_id is set
  muted,     \* Settings.muted_chats
  noted,     \* NotifState.seen; 0 where there is none
  since,     \* when the chat watcher was installed
  feed,      \* chats the watcher has not yet called back for
  jobs,      \* workers reading the chat list
  timer,     \* the timer that restores the first chat's draft after boot
  left,      \* history: what the user last left unsent in a chat
  blank,     \* history: the composer was emptied, not left empty by the user
  lost,      \* history: chats whose text one of the known ways has lost
  unseen,    \* history: the messages of a chat not yet shown to the user
  raced,     \* history: chats whose count was changed next to a computed one
  stacked,   \* history: the total was added to the badge a second time
  announced, \* history: messages a notification was shown for
  again,     \* history: those it was shown for twice
  onScreen   \* history: messages noted while their chat was on screen

rows    == <<list, active, badge>>
chrome  == <<title, rail>>
unread  == <<marker, counts>>
writing == <<drafts, composer, editing, timer, left, blank, lost>>
notices == <<noted, since, announced, again, onScreen>>
awareness == <<clock, inbox, visible, rows, page, chrome, unread, lastRead, writing, muted,
               notices, feed, jobs, unseen, raced, stacked>>

Nothing == [chat |-> "none", text |-> "none"]
Draft   == [chat : Chats, text : Texts] \cup {Nothing}

Job(k) == [kind |-> k, stage |-> "asked", order |-> <<>>,
           latest |-> [c \in Chats |-> 0], todo |-> <<>>, got |-> [c \in Chats |-> 0]]

(* A process that has booted its account: nothing is listed yet.           *)
Fresh ==
  /\ list = <<>> /\ active = 1 /\ page = "chats"
  /\ badge = [c \in Chats |-> 0] /\ title = 0 /\ rail = 0
  /\ counts = [c \in Chats |-> 0] /\ noted = [c \in Chats |-> 0]
  /\ composer = Nothing /\ editing = FALSE /\ blank = TRUE /\ timer = TRUE
  /\ feed = <<>> /\ jobs = SetToBag({Job("list")})
  /\ raced = {} /\ stacked = FALSE /\ announced = {} /\ again = {} /\ onScreen = {}

AttentionInit ==
  /\ Fresh /\ clock = 1 /\ since = 1
  /\ inbox = [c \in Chats |-> <<>>] /\ visible \in Rosters
  /\ marker = [c \in Chats |-> -1] /\ lastRead = [c \in Chats |-> -1]
  /\ drafts = [c \in Chats |-> Nothing] /\ muted = {}
  /\ left = [c \in Chats |-> Nothing] /\ lost = {}
  /\ unseen = [c \in Chats |-> {}]
-----------------------------------------------------------------------------
(* The pieces the handlers share.                                          *)

Open == IF active \in DOMAIN list THEN list[active] ELSE "none"
Viewing(c) == page = "chats" /\ Open = c

(* UnreadState::total, and refresh_unread_chrome, which adds the total to  *)
(* the badge set_rail_badges has just set from the chat requests (none).   *)
Total(n) == FoldSet(LAMBDA c, sum : n[c] + sum, 0, Chats)
RefreshChrome(n, base) == title' = Total(n) /\ rail' = base + Total(n)

(* count_unread: strictly newer than the marker, and only if the latest    *)
(* message the caller knows is (and a mutant: not strictly).               *)
OrEqual(c, mark) == {i \in DOMAIN inbox[c] : inbox[c][i] >= mark}
Newer(c, mark)   == {i \in DOMAIN inbox[c] : inbox[c][i] > mark}
Unread(c, mark, latest) ==
  IF latest > 0 /\ inbox[c][latest] > mark THEN Cardinality(Newer(c, mark)) ELSE 0

(* marker_or_seed: what is there when a chat is first observed is not      *)
(* unread.                                                                 *)
Mark(c) == IF marker[c] = -1 THEN clock ELSE marker[c]
Seed(c) ==
  /\ marker' = [marker EXCEPT ![c] = Mark(c)]
  /\ unseen' = IF marker[c] = -1 THEN [unseen EXCEPT ![c] = {}] ELSE unseen

(* A count of the chat has been computed and is not yet in place.          *)
Posted(c) == \E i \in DOMAIN uiq : uiq[i].kind = "chat" /\ uiq[i].chat = c
Computed(c) ==
  \/ \E j \in BagToSet(jobs) : j.stage = "counting" /\ ~Contains(j.todo, c)
  \/ Queued("list") \/ Queued("merge") \/ Posted(c)
Counting == \/ \E j \in BagToSet(jobs) : j.stage = "counting"
            \/ Queued("list") \/ Queued("merge")

(* Settings::set_draft: blank text leaves nothing behind.                  *)
SaveDraft(c) == IF c = "none" \/ editing THEN drafts ELSE [drafts EXCEPT ![c] = composer]

(* Text of the chat was put into the file or the composer by the user, and *)
(* an empty composer is about to be saved over it.                         *)
Emptied(c) == blank /\ ~editing /\ c # "none" /\ left[c] # Nothing

(* The position that is open becomes another chat's, with what was typed,  *)
(* or with a composer the user has left empty in a chat since delisted.    *)
Shifted(l) ==
  LET now == IF active \in DOMAIN l THEN l[active] ELSE "none" IN
    IF now # Open /\ (Open # "none" \/ composer # Nothing \/ ~blank)
      THEN {Open, now} \ {"none"} ELSE {}
-----------------------------------------------------------------------------
(* The composer.                                                           *)

Type(t) ==
  /\ Open # "none" /\ page = "chats" /\ ~editing /\ t # composer.text
  /\ Spend("type")
  /\ composer' = IF t = "none" THEN Nothing ELSE [chat |-> Open, text |-> t]
  /\ left' = [left EXCEPT ![Open] = composer'] /\ blank' = FALSE
  /\ UNCHANGED <<uiq, clock, inbox, visible, rows, page, chrome, unread, lastRead, drafts,
                 editing, timer, lost, muted, notices, feed, jobs, unseen, raced, stacked>>

(* on_request_edit puts the message's text in the place of the draft;      *)
(* on_cancel_edit and on_send_message in edit mode leave nothing.          *)
RequestEdit ==
  /\ Open # "none" /\ page = "chats" /\ ~editing /\ Spend("edit")
  /\ editing' = TRUE /\ composer' = Nothing
  /\ lost' = IF left[Open] # drafts[Open] THEN lost \cup {Open} ELSE lost
  /\ UNCHANGED <<uiq, clock, inbox, visible, rows, page, chrome, unread, lastRead, drafts,
                 left, blank, timer, muted, notices, feed, jobs, unseen, raced, stacked>>
EndEdit ==
  /\ editing /\ page = "chats"
  /\ editing' = FALSE /\ composer' = Nothing /\ blank' = TRUE
  /\ UNCHANGED <<loop, clock, inbox, visible, rows, page, chrome, unread, lastRead, drafts,
                 left, lost, timer, muted, notices, feed, jobs, unseen, raced, stacked>>

(* on_send_message: the text goes out to the open chat.                    *)
Send ==
  /\ Open # "none" /\ page = "chats" /\ ~editing /\ composer # Nothing
  /\ composer' = Nothing
  /\ drafts' = [drafts EXCEPT ![Open] = Nothing]
  /\ left'   = [left EXCEPT ![Open] = Nothing]
  /\ UNCHANGED <<loop, clock, inbox, visible, rows, page, chrome, unread, lastRead, editing,
                 blank, lost, timer, muted, notices, feed, jobs, unseen, raced, stacked>>

(* on_chat_selected (and a mutant that saves the draft after the switch).  *)
SavedLate(k) == IF editing THEN drafts ELSE [drafts EXCEPT ![list[k]] = composer]
SavedOn(k)   == SaveDraft(Open)
Select(k) ==
  /\ k \in DOMAIN list /\ page = "chats" /\ Spend("select")
  /\ LET c == list[k] IN
       /\ drafts' = SavedOn(k)
       /\ lost' = IF Emptied(Open) THEN lost \cup {Open} ELSE lost
       /\ active' = k /\ editing' = FALSE /\ blank' = FALSE
       /\ composer' = drafts'[c]
       /\ marker' = [marker EXCEPT ![c] = clock]
       /\ lastRead' = [lastRead EXCEPT ![c] = clock]
       /\ counts' = [counts EXCEPT ![c] = 0] /\ badge' = [badge EXCEPT ![c] = 0]
       /\ RefreshChrome(counts', rail)
       /\ stacked' = (stacked \/ rail # 0 \/ Total(counts') # 0)
       /\ unseen' = [unseen EXCEPT ![c] = {}]
       /\ raced' = IF Computed(c) THEN raced \cup {c} ELSE raced
  /\ UNCHANGED <<uiq, clock, inbox, visible, list, page, left, timer, muted, notices, feed,
                 jobs>>

(* Another page of the window, and back.                                   *)
TurnPage ==
  /\ Spend("page") /\ page' = IF page = "chats" THEN "other" ELSE "chats"
  /\ UNCHANGED <<uiq, clock, inbox, visible, rows, chrome, unread, lastRead, writing, muted,
                 notices, feed, jobs, unseen, raced, stacked>>

(* on_toggle_mute_chat, on_toggle_mute_chat_at: set and saved.             *)
ToggleMute(c) ==
  /\ Contains(list, c) /\ Spend("mute")
  /\ muted' = IF c \in muted THEN muted \ {c} ELSE muted \cup {c}
  /\ UNCHANGED <<uiq, clock, inbox, visible, rows, page, chrome, unread, lastRead, writing,
                 notices, feed, jobs, unseen, raced, stacked>>
-----------------------------------------------------------------------------
(* Boot, the end of the process and the switch of accounts.                *)

(* The timer that restores the draft of the chat shown at boot, if the     *)
(* list is there and the composer untouched.                               *)
RestoreDraft ==
  /\ timer /\ timer' = FALSE
  /\ IF Open # "none" /\ composer = Nothing /\ ~editing
       THEN composer' = drafts[Open] /\ blank' = (blank /\ drafts[Open] # left[Open])
       ELSE UNCHANGED <<composer, blank>>
  /\ UNCHANGED <<loop, clock, inbox, visible, rows, page, chrome, unread, lastRead, drafts,
                 editing, left, lost, muted, notices, feed, jobs, unseen, raced, stacked>>

(* The window is closed, which saves the draft; or the process dies, in    *)
(* the middle of a save in the worst case.  Then it boots again, with the  *)
(* markers of the file.                                                    *)
Reboot(saved, read, quiet) ==
  /\ list' = <<>> /\ active' = 1 /\ page' = "chats"
  /\ badge' = [c \in Chats |-> 0] /\ title' = 0 /\ rail' = 0
  /\ counts' = [c \in Chats |-> 0] /\ noted' = [c \in Chats |-> 0]
  /\ composer' = Nothing /\ editing' = FALSE /\ blank' = TRUE /\ timer' = TRUE
  /\ feed' = <<>> /\ jobs' = SetToBag({Job("list")}) /\ uiq' = <<>>
  /\ raced' = {} /\ stacked' = FALSE
  /\ announced' = {} /\ again' = {} /\ onScreen' = {}
  /\ drafts' = saved /\ lastRead' = read /\ marker' = read /\ muted' = quiet
  /\ unseen' = [c \in Chats |-> IF read[c] = -1 THEN {} ELSE Newer(c, read[c])]
  /\ since' = clock /\ UNCHANGED <<clock, inbox, visible, left>>
Exit ==
  /\ Spend("exit")
  /\ Reboot(SaveDraft(Open), lastRead, muted)
  /\ lost' = IF Emptied(Open) THEN lost \cup {Open} ELSE lost
Crash ==
  /\ Spend("crash")
  /\ \/ /\ Reboot(drafts, lastRead, muted)
        /\ lost' = IF Open # "none" /\ left[Open] # drafts[Open] THEN lost \cup {Open}
                   ELSE lost
     \/ /\ Reboot([c \in Chats |-> Nothing], [c \in Chats |-> -1], {})
        /\ lost' = Chats

(* do_switch_account: the composer and the models are emptied, the list    *)
(* is read again, a new watcher is installed; the counters stay.  What the *)
(* old watcher has not called back for is not counted by it again, while   *)
(* the closure with its last count is still to run.                        *)
SwitchAccount ==
  /\ Spend("switch")
  /\ list' = <<>> /\ active' = 1 /\ page' = "chats"
  /\ composer' = Nothing /\ editing' = FALSE /\ blank' = TRUE
  /\ lost' = IF Open # "none" /\ left[Open] # drafts[Open] THEN lost \cup {Open} ELSE lost
  /\ jobs' = jobs (+) SetToBag({Job("list")})
  /\ feed' = <<>> /\ since' = clock
  /\ raced' = raced \cup {c \in ToSet(feed) : Posted(c)}
  /\ UNCHANGED <<uiq, clock, inbox, visible, badge, chrome, unread, lastRead, drafts, timer,
                 left, muted, noted, announced, again, onScreen, unseen, stacked>>
-----------------------------------------------------------------------------
(* marmot.                                                                 *)

Tick == /\ Draw("tick") /\ clock' = clock + 1
        /\ UNCHANGED <<uiq, budget, inbox, visible, rows, page, chrome, unread, lastRead,
                       writing, muted, notices, feed, jobs, unseen, raced, stacked>>

(* A message arrives.  One of the second in which the chat was read will   *)
(* not be counted, nor one of the second it was first observed.            *)
Arrive(c) ==
  /\ Contains(visible, c) /\ Spend("arrive")
  /\ inbox' = [inbox EXCEPT ![c] = Append(@, clock)]
  /\ unseen' = [unseen EXCEPT ![c] = @ \cup {Len(inbox[c]) + 1}]
  /\ feed' = Append(feed, c)
  /\ raced' = IF Counting \/ marker[c] = clock THEN raced \cup {c} ELSE raced
  /\ UNCHANGED <<uiq, clock, visible, rows, page, chrome, unread, lastRead, writing, muted,
                 notices, jobs, stacked>>

(* A reaction, an edit or a receipt refires the chat without a message.    *)
Refire(c) ==
  /\ Contains(visible, c) /\ Spend("refire")
  /\ feed' = Append(feed, c)
  /\ UNCHANGED <<uiq, clock, inbox, visible, rows, page, chrome, unread, lastRead, writing,
                 muted, notices, jobs, unseen, raced, stacked>>

(* A welcome: marmot may list the chat before or after the others.         *)
Join(c) ==
  /\ ~Contains(visible, c) /\ Spend("join")
  /\ visible' \in {<<c>> \o visible, Append(visible, c)}
  /\ feed' = Append(feed, c)
  /\ UNCHANGED <<uiq, clock, inbox, rows, page, chrome, unread, lastRead, writing,
                 muted, notices, jobs, unseen, raced, stacked>>
-----------------------------------------------------------------------------
(* The chat watcher.                                                       *)

(* install_chat_watcher: the count is computed on the runtime's thread.    *)
Callback ==
  /\ feed # <<>> /\ feed' = Tail(feed)
  /\ LET c == Head(feed) IN
       /\ Seed(c)
       /\ Post([kind |-> "chat", chat |-> c, now |-> clock, upto |-> Len(inbox[c]),
                raw  |-> Unread(c, Mark(c), Len(inbox[c]))])
  /\ UNCHANGED <<plan, clock, inbox, visible, rows, page, chrome, counts, lastRead, writing,
                 muted, notices, jobs, raced, stacked>>

(* The notification: of the latest message, if it is recent, its chat not  *)
(* muted, and it was not noted before; it is noted on screen too (a mutant *)
(* that notes only what it announces).                                     *)
Notable(c) == /\ c \notin muted /\ inbox[c] # <<>> /\ Last(inbox[c]) >= since
NoteAway(c) ==
  IF Notable(c) /\ ~Viewing(c) /\ noted[c] # Len(inbox[c])
    THEN noted' = [noted EXCEPT ![c] = Len(inbox[c])] ELSE UNCHANGED noted
NoteLatest(c) ==
  IF Notable(c) /\ noted[c] # Len(inbox[c])
    THEN noted' = [noted EXCEPT ![c] = Len(inbox[c])] ELSE UNCHANGED noted
Notify(c) ==
  LET m == <<c, Len(inbox[c])>>
      new == Notable(c) /\ noted[c] # Len(inbox[c])
  IN  /\ NoteLatest(c)
      /\ announced' = IF new /\ ~Viewing(c) THEN announced \cup {m} ELSE announced
      /\ again' = IF new /\ ~Viewing(c) /\ m \in announced THEN again \cup {m} ELSE again
      /\ onScreen' = IF Notable(c) /\ Viewing(c) /\ m \notin announced
                       THEN onScreen \cup {m} ELSE onScreen

(* A later count of the same chat waits behind, or a message came in the   *)
(* very second that is about to become the marker.                         *)
Overtaken ==
  LET h == Head(uiq) IN
    \/ \E i \in 2 .. Len(uiq) : uiq[i].kind = "chat" /\ uiq[i].chat = h.chat
    \/ \E i \in DOMAIN inbox[h.chat] : i > h.upto /\ inbox[h.chat][i] <= h.now

(* Then the row, on the event loop: a chat on screen is read on arrival.   *)
RunChat ==
  /\ Turn("chat") /\ Take(<<>>)
  /\ LET c == Head(uiq).chat
         n == IF Viewing(c) THEN 0 ELSE Head(uiq).raw
     IN  /\ counts' = [counts EXCEPT ![c] = n] /\ badge' = [badge EXCEPT ![c] = n]
         /\ list' = IF Contains(list, c) THEN list ELSE Append(list, c)
         /\ lost' = lost \cup Shifted(list')
         /\ RefreshChrome(counts', 0) /\ stacked' = FALSE
         /\ IF Viewing(c)
              THEN /\ marker' = [marker EXCEPT ![c] = Head(uiq).now]
                   /\ unseen' = [unseen EXCEPT ![c] = @ \ (1 .. Head(uiq).upto)]
                   /\ raced' = IF Counting \/ Overtaken THEN raced \cup {c} ELSE raced
              ELSE UNCHANGED <<marker, unseen, raced>>
         /\ Notify(c)
  /\ UNCHANGED <<plan, clock, inbox, visible, active, page, lastRead, drafts,
                 composer, editing, timer, left, blank, muted, since, feed, jobs>>
-----------------------------------------------------------------------------
(* The worker that reads the chat list.                                    *)

(* The refreshes after boot: the full one, and the merge after the sync.   *)
Request(k) ==
  /\ Spend(k) /\ jobs' = jobs (+) SetToBag({Job(k)})
  /\ UNCHANGED <<uiq, clock, inbox, visible, rows, page, chrome, unread, lastRead, writing,
                 muted, notices, feed, unseen, raced, stacked>>

Step(j, to) == jobs' = (jobs (-) SetToBag({j})) (+) SetToBag({to})

(* fetch_chat_list_snapshot: the records and the latest messages are read, *)
(* all counters cleared ...                                                *)
ReadList(j) ==
  /\ BagIn(j, jobs) /\ j.stage = "asked"
  /\ Step(j, [j EXCEPT !.stage = "counting", !.order = visible, !.todo = visible,
                       !.latest = [c \in Chats |-> Len(inbox[c])]])
  /\ counts' = [c \in Chats |-> 0]
  /\ UNCHANGED <<loop, clock, inbox, visible, rows, page, chrome, marker, lastRead, writing,
                 muted, notices, feed, unseen, raced, stacked>>

(* ... and counted again one by one.                                       *)
CountChat(j) ==
  /\ BagIn(j, jobs) /\ j.stage = "counting" /\ j.todo # <<>>
  /\ LET c == Head(j.todo)
         n == Unread(c, Mark(c), j.latest[c])
     IN  /\ Seed(c)
         /\ counts' = [counts EXCEPT ![c] = n]
         /\ Step(j, [j EXCEPT !.todo = Tail(@), !.got[c] = n])
  /\ UNCHANGED <<loop, clock, inbox, visible, rows, page, chrome, lastRead, writing, muted,
                 notices, feed, raced, stacked>>
HandList(j) ==
  /\ BagIn(j, jobs) /\ j.stage = "counting" /\ j.todo = <<>>
  /\ jobs' = jobs (-) SetToBag({j})
  /\ Post([kind |-> IF j.kind = "merge" THEN "merge" ELSE "list",
           order |-> j.order, got |-> j.got])
  /\ UNCHANGED <<plan, clock, inbox, visible, rows, page, chrome, unread, lastRead, writing,
                 muted, notices, feed, unseen, raced, stacked>>

(* refresh_chats_from: the open position may become another chat's.        *)
RunList ==
  /\ Turn("list") /\ Take(<<>>)
  /\ list' = Head(uiq).order /\ badge' = Head(uiq).got
  /\ lost' = lost \cup Shifted(list')
  /\ RefreshChrome(counts, 0) /\ stacked' = FALSE
  /\ UNCHANGED <<plan, clock, inbox, visible, active, page, unread, lastRead, drafts,
                 composer, editing, timer, left, blank, muted, notices, feed, jobs, unseen,
                 raced>>

(* merge_chat_list_rows_from: rows in place, new ones at the end.          *)
RunMerge ==
  /\ Turn("merge") /\ Take(<<>>)
  /\ LET c == Head(uiq)
     IN  /\ list' = list \o Sublist(c.order, Chats \ ToSet(list))
         /\ badge' = [d \in Chats |-> IF Contains(c.order, d) THEN c.got[d] ELSE badge[d]]
  /\ lost' = lost \cup Shifted(list')
  /\ RefreshChrome(counts, 0) /\ stacked' = FALSE
  /\ UNCHANGED <<plan, clock, inbox, visible, active, page, unread, lastRead,
                 drafts, composer, editing, timer, left, blank, muted, notices, feed, jobs,
                 unseen, raced>>
-----------------------------------------------------------------------------
AttentionRuns ==
  \/ \E t \in Texts \cup {"none"} : Type(t)
  \/ RequestEdit \/ EndEdit \/ Send
  \/ \E k \in DOMAIN list : Select(k)
  \/ TurnPage
  \/ \E c \in Chats : ToggleMute(c) \/ Arrive(c) \/ Refire(c) \/ Join(c)
  \/ RestoreDraft \/ SwitchAccount \/ Tick
  \/ Callback \/ RunChat
  \/ \E k \in {"refresh", "merge"} : Request(k)
  \/ \E j \in BagToSet(jobs) : ReadList(j) \/ CountChat(j) \/ HandList(j)
  \/ RunList \/ RunMerge
AttentionNext == AttentionRuns \/ Exit \/ Crash
AttentionSpec == AttentionInit /\ LoopInit /\ [][AttentionNext]_<<loop, awareness>>
-----------------------------------------------------------------------------
Quiet == feed = <<>> /\ jobs = EmptyBag /\ uiq = <<>>

(* When nothing is under way, a listed chat's counter and its row show how *)
(* many messages have come since the chat was last on screen, and title    *)
(* and badge show their sum; unless a count computed earlier was put in    *)
(* place over a newer one (raced), and until a chat is selected with       *)
(* something unread, which adds the total to the badge once more (stacked).*)
UnreadSettles ==
  Quiet =>
    /\ \A c \in ToSet(list) \ raced :
         counts[c] = Cardinality(unseen[c]) /\ badge[c] = counts[c]
    /\ title = Total(counts)
    /\ ~stacked => rail = title

(* No message is announced twice, however often its chat refires, and none *)
(* that was noted while its chat was on screen ("it must record the seen   *)
(* id even while viewing, so switching away later doesn't re-notify").     *)
NotifiedOnce == again = {} /\ announced \cap onScreen = {}

(* A half-written message stays with its chat: it is in the composer while *)
(* the chat is open, else in the file, and never under another chat.  The  *)
(* known ways to lose it: an edit begun over it or ended after it was      *)
(* restored, a switch of accounts, a crash before it was saved, a list     *)
(* that comes after the boot timer, and one that moves the open chat.      *)
DraftKept ==
  \A c \in Chats \ lost :
    /\ left[c] # Nothing => \/ drafts[c] = left[c]
                            \/ Open = c /\ ~editing /\ composer = left[c]
    /\ drafts[c] # Nothing => drafts[c].chat = c
    /\ Open = c /\ ~editing /\ composer # Nothing => composer.chat = c
=============================================================================
