------------------------------- MODULE ChatView -------------------------------
(***************************************************************************)
(* What the window shows: the list of chats, the message rows of each of   *)
(* them, which chat is open, and the live watcher of the open chat.        *)
(*                                                                         *)
(* The models are parallel vectors addressed by position (position 1 here  *)
(* is index 0 in the code).  Only the event loop writes them, but most     *)
(* writes are closures that carry what a worker read earlier, and some     *)
(* also the position their chat had then.  In between, other callbacks     *)
(* reorder the list, send messages and receive them.                       *)
(***************************************************************************)
EXTENDS Sublists, SequencesExt, Bags

CONSTANTS
  Chats, Roster,  \* all chats, and those marmot lists at start, in its order
  Saved,          \* the "Saved Messages" chat, or a value outside Chats
  Own, Foreign,   \* messages the user will send, and will receive
  ChatOf,         \* [Foreign -> Chats]
  Pins,           \* the chats pinned in the settings at start
  Limit,          \* bound: how often each operation below happens
  MaxOps          \* bound: how many different Rare ones

Msgs   == Own \cup Foreign
Limited == {"select", "older", "pin", "archive", "merge", "refresh", "again",
            "diskError"}
Rare    == Limited \ {"select", "diskError"}

ASSUME ViewConstantsOK ==
  /\ IsFiniteSet(Chats)
  /\ Roster \in Seq(Chats) /\ IsInjective(Roster)
  /\ Own \cap Foreign = {}
  /\ ChatOf \in [Foreign -> Chats]
  /\ Pins \subseteq Chats
  /\ Limit \in [Limited -> Nat] /\ MaxOps \in Nat

VARIABLES
  visible,   \* the chats marmot lists, in its order
  store,     \* marmot's kind-9 records of each chat, oldest first
  sends,     \* tokio tasks of the user's own sends
  reads,     \* tokio tasks that read for the window, counted per kind
  committing,\* chats whose archive flag a thread is writing
  ids,       \* group_ids
  rows,      \* chats_messages: the rows at each position
  open,      \* active_chat, a position
  pinned,    \* the pinned set
  overlay,   \* pending_state.sends
  watch,     \* the message watcher: its chat, its position, is it subscribed
  feed,      \* messages its subscription has not yet called back for
  uiq,       \* closures posted with invoke_from_event_loop
  used,      \* how often each limited operation has happened
  moved,     \* history: a chat has changed its position or left the list, or
             \* the boot list has opened another one
  missed,    \* history: records newer than the snapshot their rows came from
  blanked,   \* history: chats whose pending rows a full refresh dropped
  early      \* history: own messages shown confirmed before they were acked

backend == <<visible, store, sends, committing>>
lists   == <<ids, rows, open>>
watcher == <<watch, feed>>
history == <<moved, missed, blanked, early>>
vars    == <<visible, store, sends, reads, committing, ids, rows, open, pinned,
             overlay, watch, feed, uiq, used, moved, missed, blanked, early>>

NoWatch == [grp |-> "none", at |-> 0, live |-> FALSE]
Positions == 1 .. Cardinality(Chats)

(* A bubble: of a record, or the optimistic one under the temp id.         *)
Row == [msg : Msgs, grp : Chats, pending : BOOLEAN]
Record(m, g)  == [msg |-> m, grp |-> g, pending |-> FALSE]
PendingRow(m, g) == [msg |-> m, grp |-> g, pending |-> TRUE]

(* What a worker of the window reads: one chat's messages for position at, *)
(* or the chat list.                                                       *)
WindowRead == [kind : {"select", "older"}, grp : Chats, at : Positions]
ListRead   == [kind : {"boot", "merge", "refresh", "pin"}]

Closure ==
       [kind : {"select", "older"}, grp : Chats, at : Positions,
        snap : Seq(Msgs)]
  \cup [kind : {"echo"}, grp : Chats, at : Positions, msg : Msgs]
  \cup [kind : {"ack"}, grp : Chats, msg : Own, snap : Seq(Msgs)]
  \cup [kind : {"boot", "merge", "refresh"}, list : Seq(Chats),
        first : Seq(Msgs)]
  \cup [kind : {"chat"}, grp : Chats]
  \cup [kind : {"pin", "reload"}]

Init ==
  /\ visible = Roster /\ store = [g \in Chats |-> <<>>]
  /\ sends = {} /\ committing = {}
  /\ reads = SetToBag({[kind |-> "boot"]})
  /\ ids = <<>> /\ rows = <<>> /\ open = 1 /\ pinned = Pins
  /\ overlay = [g \in Chats |-> <<>>]
  /\ watch = NoWatch /\ feed = <<>> /\ uiq = <<>>
  /\ used = [o \in Limited |-> 0]
  /\ moved = FALSE /\ missed = {} /\ blanked = {} /\ early = {}
-----------------------------------------------------------------------------
(* The pieces the handlers share.                                          *)

Spend(o) == /\ used[o] < Limit[o]
            /\ o \in Rare =>
                 Cardinality({p \in Rare \ {o} : used[p] > 0}) < MaxOps
            /\ used' = [used EXCEPT ![o] = @ + 1]

Ask(r)  == reads' = reads (+) SetToBag({r})
Post(c) == uiq' = Append(uiq, c)

Listed(g)   == Contains(ids, g)
Position(g) == SelectInSeq(ids, LAMBDA h : h = g)

Opened == open \in DOMAIN ids

(* find_message_row, by temp id or by record id.                           *)
Has(list, row) == Contains(list, row)

(* rebuild_chat_messages_from: the snapshot's rows, then the pending ones  *)
(* of the overlay as it is now (and a mutant: without them).               *)
SnapshotOnly(g, snap) == [k \in DOMAIN snap |-> Record(snap[k], g)]
Rebuilt(g, snap) ==
  [k \in DOMAIN snap |-> Record(snap[k], g)] \o
  [k \in DOMAIN overlay'[g] |-> PendingRow(overlay'[g][k], g)]

(* replace_message_row: nothing happens past the end of the list.          *)
Replace(at, list) ==
  rows' = IF at \in DOMAIN rows THEN [rows EXCEPT ![at] = list] ELSE rows

(* History of a rebuild of chat g from a snapshot.                         *)
Newer(g, snap) == ToSet(store[g]) \ ToSet(snap)
NoteRebuild(g, snap) ==
  /\ missed' = (missed \ ToSet(store[g])) \cup Newer(g, snap)
  /\ blanked' = blanked \ {g}
  /\ early' = early \cup (ToSet(snap) \cap ToSet(overlay'[g]))

(* fetch_chat_list_snapshot: Saved Messages first, then the pinned chats,  *)
(* the rest in marmot's order.                                             *)
Ranked(list, top) == Sublist(list, top) \o Sublist(list, ToSet(list) \ top)

OnTop == {Saved} \cup pinned
RailOrder(list) == Ranked(Ranked(list, {Saved}), OnTop)

(* The position shown by default: the first real chat.                     *)
Default(list) ==
  LET k == SelectInSeq(list, LAMBDA g : g # Saved) IN IF k = 0 THEN 1 ELSE k

(* The list is replaced: does every chat keep its position?                *)
NoteOrder(new) == moved' = (moved \/ ~IsPrefix(ids, new))
-----------------------------------------------------------------------------
(* The user.                                                               *)

(* on_chat_selected: the position is open at once, its messages are read   *)
(* on a worker.                                                            *)
Select(k) ==
  /\ k \in DOMAIN ids /\ Spend("select")
  /\ open' = k
  /\ Ask([kind |-> "select", grp |-> ids[k], at |-> k])
  /\ UNCHANGED <<backend, ids, rows, pinned, overlay, watcher, uiq, history>>

(* on_messages_request_older.                                              *)
RequestOlder ==
  /\ Opened /\ Spend("older")
  /\ Ask([kind |-> "older", grp |-> ids[open], at |-> open])
  /\ UNCHANGED <<backend, lists, pinned, overlay, watcher, uiq, history>>

(* on_send_message: overlay, bubble and task in one callback.              *)
Send(m) ==
  /\ Opened /\ \A g \in Chats : ~Contains(store[g], m)
  /\ \A s \in sends : s.msg # m
  /\ overlay' = [overlay EXCEPT ![ids[open]] = Append(@, m)]
  /\ Replace(open, Append(rows[open], PendingRow(m, ids[open])))
  /\ sends' = sends \cup {[msg |-> m, grp |-> ids[open]]}
  /\ UNCHANGED <<visible, store, reads, committing, ids, open, pinned, watcher,
                 uiq, used, history>>

(* on_toggle_pin_chat: the set now, the order through a worker.            *)
TogglePin(k) ==
  /\ k \in DOMAIN ids /\ Spend("pin")
  /\ pinned' = IF ids[k] \in pinned THEN pinned \ {ids[k]}
                                    ELSE pinned \cup {ids[k]}
  /\ Ask([kind |-> "pin"])
  /\ UNCHANGED <<backend, lists, overlay, watcher, uiq, history>>

(* on_archive_chat: the open chat leaves the lists at once, the position   *)
(* is clamped (a mutant: below the first), a thread writes the flag.       *)
ClampToLen(k, n) == IF k > n THEN n ELSE k
Clamp(k, n) == IF k > n THEN IF n = 0 THEN 1 ELSE n ELSE k

Archive ==
  /\ Opened /\ Spend("archive")
  /\ ids' = RemoveAt(ids, open) /\ rows' = RemoveAt(rows, open)
  /\ open' = Clamp(open, Len(ids'))
  /\ committing' = committing \cup {ids[open]}
  /\ moved' = TRUE
  /\ UNCHANGED <<visible, store, sends, reads, pinned, overlay, watcher, uiq,
                 missed, blanked, early>>
-----------------------------------------------------------------------------
(* marmot and the workers.                                                 *)

(* A record of chat g is stored; a subscription that is up reports it.     *)
Stored(m, g) ==
  /\ store' = [store EXCEPT ![g] = Append(@, m)]
  /\ feed' = IF watch.grp = g /\ watch.live THEN Append(feed, m) ELSE feed
  /\ missed' = IF watch.grp = g /\ ~watch.live THEN missed \cup {m} ELSE missed

Receive(m) ==
  /\ ChatOf[m] \in ToSet(visible) /\ ~Contains(store[ChatOf[m]], m)
  /\ Stored(m, ChatOf[m])
  /\ UNCHANGED <<visible, sends, reads, committing, lists, pinned, overlay,
                 watch, uiq, used, moved, blanked, early>>

Publish(s) ==
  /\ s \in sends /\ ~Contains(store[s.grp], s.msg)
  /\ Stored(s.msg, s.grp)
  /\ UNCHANGED <<visible, sends, reads, committing, lists, pinned, overlay,
                 watch, uiq, used, moved, blanked, early>>

(* on_done after a success: the window is read on the worker, then the     *)
(* completion posted.                                                      *)
Resolve(s) ==
  /\ s \in sends /\ Contains(store[s.grp], s.msg)
  /\ sends' = sends \ {s}
  /\ Post([kind |-> "ack", grp |-> s.grp, msg |-> s.msg,
           snap |-> store[s.grp]])
  /\ UNCHANGED <<visible, store, reads, committing, lists, pinned, overlay,
                 watcher, used, history>>

(* The subscription of the message watcher is up.                          *)
Subscribe ==
  /\ watch # NoWatch /\ ~watch.live
  /\ watch' = [watch EXCEPT !.live = TRUE]
  /\ UNCHANGED <<backend, reads, lists, pinned, overlay, feed, uiq, used,
                 history>>

(* It reports an old record again (groups.rs:593).                         *)
ReportAgain ==
  /\ watch.live /\ Spend("again")
  /\ \E m \in ToSet(store[watch.grp]) : feed' = Append(feed, m)
  /\ UNCHANGED <<backend, reads, lists, pinned, overlay, watch, uiq, history>>

(* install_message_watcher's callback, for the position it was made for.   *)
WatcherCallback ==
  /\ feed # <<>>
  /\ feed' = Tail(feed)
  /\ Post([kind |-> "echo", grp |-> watch.grp, at |-> watch.at,
           msg |-> Head(feed)])
  /\ UNCHANGED <<backend, reads, lists, pinned, overlay, watch, used, history>>

(* The tasks spawned by Select, RequestOlder and the list operations.      *)
Answered(r) == BagIn(r, reads) /\ reads' = reads (-) SetToBag({r})

ReadWindow(r) ==
  /\ r \in WindowRead /\ Answered(r)
  /\ Post([kind |-> r.kind, grp |-> r.grp, at |-> r.at,
           snap |-> store[r.grp]])
  /\ UNCHANGED <<backend, lists, pinned, overlay, watcher, used, history>>

ReadList(r) ==
  /\ r \in ListRead /\ Answered(r)
  /\ IF r.kind = "pin" THEN Post([kind |-> "pin"])
     ELSE LET list == RailOrder(visible) IN
          Post([kind |-> r.kind, list |-> list,
                first |-> IF list = <<>> THEN <<>>
                          ELSE store[list[Default(list)]]])
  /\ UNCHANGED <<backend, lists, pinned, overlay, watcher, used, history>>

(* A welcome: marmot lists a new chat, and install_chat_watcher's callback *)
(* posts its record.                                                       *)
NewChat(g) ==
  /\ g \notin ToSet(visible) \cup ToSet(Roster)
  /\ visible' = Append(visible, g)
  /\ Post([kind |-> "chat", grp |-> g])
  /\ UNCHANGED <<store, sends, reads, committing, lists, pinned, overlay,
                 watcher, used, history>>

(* The thread of on_archive_chat; a failed write asks for a full refresh.  *)
CommitArchive(g) ==
  /\ g \in committing /\ committing' = committing \ {g}
  /\ \/ /\ visible' = Sublist(visible, Chats \ {g})
        /\ UNCHANGED <<uiq, used>>
     \/ /\ Spend("diskError") /\ Post([kind |-> "reload"])
        /\ UNCHANGED visible
  /\ UNCHANGED <<store, sends, reads, lists, pinned, overlay, watcher, history>>

(* on_synced and the delayed merges of boot; refresh_all_chat_models       *)
(* (accept, block, midnight).                                              *)
RequestMerge ==
  /\ Spend("merge") /\ Ask([kind |-> "merge"])
  /\ UNCHANGED <<backend, lists, pinned, overlay, watcher, uiq, history>>

RequestRefresh ==
  /\ Spend("refresh") /\ Ask([kind |-> "refresh"])
  /\ UNCHANGED <<backend, lists, pinned, overlay, watcher, uiq, history>>
-----------------------------------------------------------------------------
(* The event loop runs the first closure posted.                           *)

Run(kind) == uiq # <<>> /\ Head(uiq).kind = kind /\ uiq' = Tail(uiq)

(* The watcher of the position just rebuilt replaces the old one, but only *)
(* while that position is still open (and a mutant: always).               *)
AttachAlways(c) ==
  watch' = [grp |-> c.grp, at |-> c.at, live |-> FALSE] /\ feed' = <<>>
Attach(c) ==
  IF open = c.at
  THEN watch' = [grp |-> c.grp, at |-> c.at, live |-> FALSE] /\ feed' = <<>>
  ELSE UNCHANGED watcher

(* on_chat_selected's closure.                                             *)
RunSelect ==
  LET c == Head(uiq) IN
  /\ Run("select")
  /\ UNCHANGED overlay
  /\ Replace(c.at, Rebuilt(c.grp, c.snap))
  /\ Attach(c)
  /\ NoteRebuild(c.grp, c.snap)
  /\ UNCHANGED <<backend, reads, ids, open, pinned, used, moved>>

(* on_messages_request_older's closure.                                    *)
RunOlder ==
  LET c == Head(uiq) IN
  /\ Run("older")
  /\ UNCHANGED overlay
  /\ Replace(c.at, Rebuilt(c.grp, c.snap))
  /\ NoteRebuild(c.grp, c.snap)
  /\ UNCHANGED <<backend, reads, ids, open, pinned, watcher, used, moved>>

(* The watcher's kind-9 closure: append unless the record has a row (and   *)
(* two mutants: without looking; only in the chat that is open).           *)
AppendAlways(c) == rows' = [rows EXCEPT ![c.at] = Append(@, Record(c.msg, c.grp))]
AppendIfOpen(c) ==
  rows' = IF open = c.at /\ ~Has(rows[c.at], Record(c.msg, c.grp))
          THEN [rows EXCEPT ![c.at] = Append(@, Record(c.msg, c.grp))] ELSE rows
AppendEcho(c) ==
  rows' = IF Has(rows[c.at], Record(c.msg, c.grp)) THEN rows
          ELSE [rows EXCEPT ![c.at] = Append(@, Record(c.msg, c.grp))]

RunEcho ==
  LET c == Head(uiq) IN
  /\ Run("echo")
  /\ IF c.at \in DOMAIN rows THEN AppendEcho(c) ELSE UNCHANGED rows
  /\ early' = early \cup ({c.msg} \cap ToSet(overlay[c.grp]))
  /\ UNCHANGED <<backend, reads, ids, open, pinned, overlay, watcher, used,
                 moved, missed, blanked>>

(* The acknowledgement: nothing if the chat is not listed, else the        *)
(* overlay entry goes and the pending row becomes the record's; a rebuild  *)
(* if there is no pending row.                                             *)
Forget(m, g) ==
  overlay' = [overlay EXCEPT ![g] = Sublist(@, Own \ {m})]

RunAck ==
  LET c == Head(uiq)  at == Position(c.grp)
      temp == PendingRow(c.msg, c.grp) IN
  /\ Run("ack")
  /\ \/ /\ ~Listed(c.grp)
        /\ UNCHANGED <<overlay, rows, missed, blanked, early>>
     \/ /\ Listed(c.grp) /\ Forget(c.msg, c.grp) /\ Has(rows[at], temp)
        /\ rows' = [rows EXCEPT ![at] =
             ReplaceAt(@, SelectInSeq(@, LAMBDA r : r = temp),
                       Record(c.msg, c.grp))]
        /\ UNCHANGED <<missed, blanked, early>>
     \/ /\ Listed(c.grp) /\ Forget(c.msg, c.grp) /\ ~Has(rows[at], temp)
        /\ Replace(at, Rebuilt(c.grp, c.snap))
        /\ NoteRebuild(c.grp, c.snap)
  /\ UNCHANGED <<backend, reads, ids, open, pinned, watcher, used, moved>>

(* refresh_chats_from: every model is replaced, only the default chat gets *)
(* rows, and no pending ones.  populate_models_for_active then shows the   *)
(* default chat, refresh_all_chat_models_async clamps the position.        *)
RunRefresh ==
  LET c == Head(uiq)  d == Default(c.list)
      shown(g) == IF c.list # <<>> /\ g = c.list[d] THEN ToSet(c.first) ELSE {}
  IN
  /\ Run("boot") \/ Run("refresh")
  /\ ids' = c.list
  /\ rows' = [k \in DOMAIN c.list |->
                IF k = d THEN SnapshotOnly(c.list[k], c.first) ELSE <<>>]
  /\ open' = IF c.kind = "boot" THEN IF d # 1 THEN d ELSE open
                                ELSE Clamp(open, Len(ids'))
  /\ moved' = (moved \/ ~IsPrefix(ids, ids') \/ (Opened /\ open' # open))
  /\ missed' = UNION {ToSet(store[g]) \ shown(g) : g \in Chats}
  /\ blanked' = {g \in Chats : overlay[g] # <<>>}
  /\ UNCHANGED <<backend, reads, pinned, overlay, watcher, used, early>>

(* merge_chat_list_rows_from: unseen chats are appended, nothing else.     *)
RunMerge ==
  LET unseen == Sublist(Head(uiq).list, Chats \ ToSet(ids)) IN
  /\ Run("merge")
  /\ ids' = ids \o unseen
  /\ rows' = rows \o [k \in DOMAIN unseen |-> <<>>]
  /\ UNCHANGED <<backend, reads, open, pinned, overlay, watcher, used, history>>

(* install_chat_watcher's closure: a chat not listed yet is appended (and  *)
(* two mutants: without looking; at the top).                              *)
ListAlways(g) == ids' = Append(ids, g) /\ rows' = Append(rows, <<>>)
ListChat(g) ==
  IF Listed(g) THEN UNCHANGED <<ids, rows>>
  ELSE ids' = Append(ids, g) /\ rows' = Append(rows, <<>>)

RunChat ==
  /\ Run("chat")
  /\ ListChat(Head(uiq).grp)
  /\ UNCHANGED <<backend, reads, open, pinned, overlay, watcher, used, history>>

(* apply_pin_order: chats and rows are permuted together, and the chat     *)
(* that was open is open again (and a mutant: the position is).            *)
KeepPosition(new) == UNCHANGED open
Reselect(new) ==
  open' = IF Opened THEN SelectInSeq(new, LAMBDA g : g = ids[open]) ELSE open

RunPin ==
  LET order == Ranked([k \in DOMAIN ids |-> k],
                     {k \in DOMAIN ids : ids[k] \in OnTop}) IN
  /\ Run("pin")
  /\ ids'  = [k \in DOMAIN ids |-> ids[order[k]]]
  /\ rows' = [k \in DOMAIN ids |-> rows[order[k]]]
  /\ Reselect(ids')
  /\ NoteOrder(ids')
  /\ UNCHANGED <<backend, reads, pinned, overlay, watcher, used, missed,
                 blanked, early>>

(* The refresh after a failed archive write.                               *)
RunReload ==
  /\ Run("reload")
  /\ Ask([kind |-> "refresh"])
  /\ UNCHANGED <<backend, lists, pinned, overlay, watcher, used, history>>
-----------------------------------------------------------------------------
User == \/ \E k \in DOMAIN ids : Select(k) \/ TogglePin(k)
        \/ \E m \in Own : Send(m)
        \/ RequestOlder \/ Archive

Worker == \/ \E m \in Foreign : Receive(m)
          \/ \E s \in sends : Publish(s) \/ Resolve(s)
          \/ Subscribe \/ ReportAgain \/ WatcherCallback
          \/ \E r \in BagToSet(reads) : ReadWindow(r) \/ ReadList(r)
          \/ \E g \in Chats : NewChat(g) \/ CommitArchive(g)
          \/ RequestMerge \/ RequestRefresh

RunClosure == \/ RunSelect \/ RunOlder \/ RunEcho \/ RunAck \/ RunRefresh
              \/ RunMerge \/ RunChat \/ RunPin \/ RunReload

Next == User \/ Worker \/ RunClosure

Spec == Init /\ [][Next]_vars
-----------------------------------------------------------------------------
(* Properties.                                                             *)

(* Every variable keeps the shape of its Rust counterpart.                 *)
TypeOK ==
  /\ visible \in Seq(Chats) /\ store \in [Chats -> Seq(Msgs)]
  /\ sends \subseteq [msg : Own, grp : Chats] /\ committing \subseteq Chats
  /\ IsABag(reads) /\ BagToSet(reads) \subseteq WindowRead \cup ListRead
  /\ ids \in Seq(Chats) /\ rows \in Seq(Seq(Row))
  /\ open \in Nat \ {0} /\ pinned \subseteq Chats
  /\ overlay \in [Chats -> Seq(Own)]
  /\ watch \in [grp : Chats, at : Positions, live : BOOLEAN] \cup {NoWatch}
  /\ feed \in Seq(Msgs) /\ uiq \in Seq(Closure)
  /\ used \in [Limited -> Nat] /\ moved \in BOOLEAN
  /\ missed \subseteq Msgs /\ blanked \subseteq Chats /\ early \subseteq Msgs

(* group_ids, chats and chats_messages are parallel on every path that     *)
(* appends, permutes, removes or replaces: a chat has one position, and    *)
(* every position has rows.                                                *)
ParallelLists == IsInjective(ids) /\ Len(rows) = Len(ids)

(* groups.rs:595: repeated reports are no-ops: a position shows a record   *)
(* once.  The exception is an own message that was shown as a record       *)
(* before its acknowledgement turned the pending row into another one.     *)
OneRowEach ==
  \A k \in DOMAIN rows : \A i, j \in DOMAIN rows[k] :
    rows[k][i] = rows[k][j] => i = j \/ rows[k][i].msg \in early

(* Pending bubbles and the overlay agree, chat by chat and in order, while *)
(* chats keep their positions and no full refresh has dropped the bubbles. *)
Pendings(list) == Sublist(list, {r \in Row : r.pending})

PendingShown ==
  ~moved => \A k \in DOMAIN ids : ids[k] \notin blanked =>
    Pendings(rows[k]) = [i \in DOMAIN overlay[ids[k]] |->
                           PendingRow(overlay[ids[k]][i], ids[k])]

(* However selections overlap, in the end the watcher is the open chat's,  *)
(* while chats keep their positions.                                       *)
Selecting == \/ \E r \in BagToSet(reads) : r.kind = "select"
             \/ \E k \in DOMAIN uiq : uiq[k].kind = "select"

WatchesOpen ==
  ~moved /\ used["select"] > 0 /\ ~Selecting =>
    watch.at = open /\ Opened /\ watch.grp = ids[open]

(* chatlist.rs:1065 and main.rs:610: pinning, merging, new chats and       *)
(* everything that happens to rows leave the open chat open; only the user *)
(* and a full refresh change it.                                           *)
KeepsOpen ==
  [][Opened => \/ open' \in DOMAIN ids' /\ ids'[open'] = ids[open]
               \/ \E k \in DOMAIN ids : Select(k)
               \/ Archive \/ RunRefresh]_vars

(* While its chat keeps its position, the watcher's rows are complete:     *)
(* every record is shown, or its echo is on the way, or it came after the  *)
(* snapshot the rows were built from and before the subscription.          *)
WatchedIsComplete ==
  ~moved /\ watch # NoWatch =>
    \A m \in ToSet(store[watch.grp]) :
      \/ Has(rows[watch.at], Record(m, watch.grp))
      \/ Contains(feed, m) \/ m \in missed
      \/ \E k \in DOMAIN uiq : uiq[k].kind = "echo" /\ uiq[k].msg = m

(* wiring/backup.rs:1211: rows land in the position of their chat.         *)
RowsBelong ==
  \A k \in DOMAIN rows : \A i \in DOMAIN rows[k] : rows[k][i].grp = ids[k]
=============================================================================
