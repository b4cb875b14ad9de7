------------------------------- MODULE Messages -------------------------------
(***************************************************************************)
(* The rows of the open chat: each is rebuilt from a snapshot of marmot's  *)
(* records and the user's optimistic reactions, edits and deletions that   *)
(* are still in flight, without the messages the account has hidden, and   *)
(* with the attachments decoded so far.                                    *)
(*                                                                         *)
(* Snapshots are read on the runtime's threads and land on the event loop  *)
(* later, next to whatever the user has done meanwhile.  The chat belongs  *)
(* to every account of the device, so that one account's late completions  *)
(* meet the rows of another.                                               *)
(***************************************************************************)
EXTENDS Integers, Sequences, SequencesExt, FiniteSets, Bags

CONSTANTS
  Accounts, Boot,  \* the device's accounts, and the one it starts with
  Msgs, Listed,    \* all kind-9 messages, and those stored at start
  Author,          \* [Msgs -> Accounts \cup {"peer"}]
  At, Span,        \* [Msgs -> Nat], and GROUP_WINDOW_SECS
  Texts, Emojis,   \* what an edit writes, what a reaction shows
  Keys, Kind,      \* [Msgs -> attachment keys], "album", "image", "audio"..
  OnDisk,          \* keys in the encrypted media cache at start
  Window,          \* MESSAGE_WINDOW: the records of a snapshot
  Targets,         \* bound: the messages an operation is tried on
  Limit,           \* bound: how often each operation below happens
  MaxOps           \* bound: all of them but failures together

AllKeys == UNION {Keys[m] : m \in Msgs}
Limited == {"react", "unreact", "edit", "delete", "hide", "tap", "switch",
            "select", "receive", "peer", "fail"}

ASSUME MessagesConstantsOK ==
  /\ Boot \in Accounts
  /\ Listed \in Seq(Msgs) /\ IsInjective(Listed)
  /\ Author \in [Msgs -> Accounts \cup {"peer"}]
  /\ At \in [Msgs -> Nat] /\ Span \in Nat /\ Window \in Nat \ {0}
  /\ \A m, n \in Msgs : m # n => Keys[m] \cap Keys[n] = {}
  /\ \A m \in Msgs : Kind[m] \in {"image", "audio", "file"} =>
       Cardinality(Keys[m]) = 1
  /\ "none" \notin Texts \cup Emojis /\ "remove" \notin Emojis
  /\ OnDisk \subseteq AllKeys
  /\ Targets \in [Limited -> SUBSET Msgs]
  /\ Limit \in [Limited -> Nat] /\ MaxOps \in Nat

VARIABLES
  log,       \* marmot's records of the chat, oldest first
  account,   \* the active account
  hidden,    \* hidden_messages: per account
  overlay,   \* pending_state: reactions, edits, deletes
  editing,   \* editing_message_id
  rows,      \* the rows shown
  loaded,    \* the chat is in the list
  watched,   \* its message watcher runs
  ops,       \* tasks that publish a reaction, an edit or a deletion
  reads,     \* tasks about to read a snapshot
  held,      \* tasks that have read one, and not yet posted
  feed,      \* records the watcher has not yet called back for
  uiq,       \* closures posted with invoke_from_event_loop
  cache,     \* attachment_image_cache
  inflight,  \* attachment_in_flight
  disk,      \* the media cache
  loads,     \* tasks that read or download an attachment
  used,      \* how often each limited operation has happened
  builtAt,   \* history: how much of the log a build of a message must see
  behind,    \* history: messages since rebuilt from less, or changed between
             \* the first snapshot and the watcher
  crossed,   \* history: two operations of a kind on a message overlapped
  echoed,    \* history: messages hidden before their arrival was reported
  broken     \* history: keys whose load failed without a refresh

store   == <<log, hidden>>
tasks   == <<ops, reads, held>>
media   == <<cache, inflight, disk, loads>>
history == <<builtAt, behind, crossed, echoed, broken>>
vars    == <<log, account, hidden, overlay, editing, rows, loaded, watched, ops, reads,
             held, feed, uiq, cache, inflight, disk, loads, used, builtAt,
             behind, crossed, echoed, broken>>

NoOverlay == [reactions |-> [m \in Msgs |-> "none"],
              edits     |-> [m \in Msgs |-> "none"], deletes |-> {}]

Record  == [kind : {"chat", "react", "unreact", "edit", "delete"}, msg : Msgs,
            by : Accounts \cup {"peer"}, val : Texts \cup Emojis \cup {"none"}]
Rec(k, m, who, v) == [kind |-> k, msg |-> m, by |-> who, val |-> v]

(* A chat or its list is read for no message in particular.                *)
ReadJob == [kind : {"refresh", "rebuild", "tap"}, msg : Msgs]
           \cup [kind : {"list", "open"}, msg : {"none"}]
Job(k, m) == [kind |-> k, msg |-> m]

Init ==
  /\ log = [i \in DOMAIN Listed |->
              Rec("chat", Listed[i], Author[Listed[i]], "none")]
  /\ account = Boot /\ hidden = [a \in Accounts |-> {}]
  /\ overlay = NoOverlay /\ editing = {} /\ rows = <<>>
  /\ loaded = FALSE /\ watched = FALSE
  /\ ops = EmptyBag /\ held = EmptyBag /\ feed = <<>> /\ uiq = <<>>
  /\ reads = SetToBag({Job("list", "none")})
  /\ cache = {} /\ inflight = {} /\ disk = OnDisk /\ loads = EmptyBag
  /\ used = [o \in Limited |-> 0]
  /\ builtAt = [m \in Msgs |-> 0] /\ behind = {} /\ crossed = {}
  /\ echoed = {} /\ broken = {}
-----------------------------------------------------------------------------
(* What a snapshot of the first n records shows.                           *)

Within(n) == {i \in 1 .. n : i > n - Window}
InSnap(n, m) == \E i \in Within(n) : log[i].kind = "chat" /\ log[i].msg = m

(* aggregate_reactions; marmot leaves out the ones withdrawn.              *)
Reactions(n, m, e) ==
  {i \in Within(n) : log[i].kind = "react" /\ log[i].msg = m /\ log[i].val = e
     /\ \A j \in i .. n : Rec("unreact", m, log[i].by, "none") # log[j]}
Chips(n, m) ==
  [e \in Emojis |-> [n    |-> Cardinality(Reactions(n, m, e)),
                     mine |-> \E i \in Reactions(n, m, e) : log[i].by = account]]

(* The user's own operation on the chips of a row (and a mutant that       *)
(* forgets whose they were).                                               *)
StaysMine(chips, op) ==
  [e \in Emojis |->
    IF op = e /\ ~chips[e].mine THEN [n |-> chips[e].n + 1, mine |-> TRUE]
    ELSE IF op = "remove" /\ chips[e].mine THEN [chips[e] EXCEPT !.n = @ - 1]
    ELSE chips[e]]
WithReaction(chips, op) ==
  [e \in Emojis |->
    IF op = e /\ ~chips[e].mine
      THEN [n |-> chips[e].n + 1, mine |-> TRUE]
    ELSE IF op = "remove" /\ chips[e].mine
      THEN [n |-> IF chips[e].n > 0 THEN chips[e].n - 1 ELSE 0, mine |-> FALSE]
    ELSE chips[e]]

(* aggregate_edits, aggregate_deletes: the author's only (and mutants:     *)
(* anybody's).                                                             *)
Honoured(r, kind, m) == r.kind = kind /\ r.msg = m
ByAuthor(r, kind, m) == r.kind = kind /\ r.msg = m /\ r.by = Author[m]
Edits(n, m)   == {i \in Within(n) : ByAuthor(log[i], "edit", m)}
Deleted(n, m) == \E i \in Within(n) : ByAuthor(log[i], "delete", m)
Newest(S) == CHOOSE i \in S : \A j \in S : j <= i

(* apply_edit_overlay, apply_delete_overlay (and a mutant without).        *)
Unedited(m)  == FALSE
Rewritten(m) == overlay.edits[m] # "none"
Text(n, m) == CASE Rewritten(m) -> overlay.edits[m]
                [] ~Rewritten(m) /\ Edits(n, m) # {} -> log[Newest(Edits(n, m))].val
                [] OTHER -> "none"
Count(n, m) == Cardinality(Edits(n, m)) + (IF Rewritten(m) THEN 1 ELSE 0)
Tombstone(n, m) == m \in overlay.deletes \/ Deleted(n, m)

NoChips == [e \in Emojis |-> [n |-> 0, mine |-> FALSE]]

(* The attachment fields, of one attachment or an album: decoded, in       *)
(* flight or neither.                                                      *)
Cell(k)  == IF k \in cache THEN "image"
            ELSE IF k \in inflight THEN "loading" ELSE "empty"
Cells(m) == [k \in Keys[m] |-> Cell(k)]

(* chat_message_from_with_reactions, outside of any group of rows; a       *)
(* tombstone keeps nothing but its attachment fields.                      *)
AsTombstone(row) ==
  [row EXCEPT !.dead = TRUE, !.text = "none", !.count = 0, !.chips = NoChips]
Build(n, m) ==
  LET row == [msg |-> m, dead |-> FALSE, text |-> Text(n, m), count |-> Count(n, m),
              chips |-> WithReaction(Chips(n, m), overlay.reactions[m]),
              cells |-> Cells(m), first |-> TRUE, last |-> TRUE]
  IN  IF Tombstone(n, m) THEN AsTombstone(row) ELSE row

(* is_visible_chat_message (and a mutant that shows every message).        *)
AnyChat(r) == r.kind = "chat"
Hidden(m) == m \in hidden[account]
Visible(r) == r.kind = "chat" /\ ~Hidden(r.msg)

(* keys_grouped: the same sender within the span.                          *)
Grouped(m, p) == /\ Author[m] = Author[p]
                 /\ At[m] - At[p] <= Span /\ At[p] - At[m] <= Span

(* The elements of s at the positions in I, in their order.                *)
Rank(I, i)   == Cardinality({j \in I : j <= i})
Picked(s, I) == [k \in 1 .. Cardinality(I) |-> s[CHOOSE i \in I : Rank(I, i) = k]]

(* rebuild_chat_messages_from; pending sends are not modelled here.        *)
Rebuilt(n) ==
  LET shown == Picked(log, {i \in Within(n) : Visible(log[i])}) IN
  [k \in DOMAIN shown |->
    [Build(n, shown[k].msg) EXCEPT
       !.first = k = 1 \/ ~Grouped(shown[k - 1].msg, shown[k].msg),
       !.last = k = Len(shown) \/ ~Grouped(shown[k].msg, shown[k + 1].msg)]]

(* find_message_row: 0 when there is none.                                 *)
Spot(m)  == SelectInSeq(rows, LAMBDA r : r.msg = m)
Shown(m) == Spot(m) # 0
-----------------------------------------------------------------------------
(* The pieces the handlers share.                                          *)

Spend(o) ==
  /\ used[o] < Limit[o]
  /\ o # "fail" => FoldSet(LAMBDA p, c : used[p] + c, 0, Limited \ {"fail"}) < MaxOps
  /\ used' = [used EXCEPT ![o] = @ + 1]

Ask(k, m) == reads' = reads (+) SetToBag({Job(k, m)})
Post(c)   == uiq' = Append(uiq, c)

(* maybe_autoload_album, by every row that is built: a closure for the     *)
(* keys that are neither decoded nor in flight.                            *)
Needed(m) == IF Kind[m] = "album" THEN Keys[m] \ (cache \cup inflight) ELSE {}
Autoloads(list) ==
  LET some == Picked(list, {i \in DOMAIN list : Needed(list[i]) # {}})
  IN  [k \in DOMAIN some |->
        [kind |-> "autoload", msg |-> some[k], keys |-> Needed(some[k])]]

(* preserve_grouping_flags, and set_row_data (and a mutant without them).  *)
Standalone(k, row) == [rows EXCEPT ![k] = row]
Replaced(k, row) ==
  [rows EXCEPT ![k] = [row EXCEPT !.first = rows[k].first, !.last = rows[k].last]]

(* History of a build of the messages in built from snapshot n.            *)
NoteSeen(n, some) ==
  builtAt' = [m \in Msgs |-> IF m \in some /\ n > builtAt[m] THEN n ELSE builtAt[m]]
NoteBuilt(n, built) ==
  /\ NoteSeen(n, built)
  /\ behind' = (behind \ built) \cup {m \in built : n < builtAt[m]}

Since(n) == {log[i].msg : i \in n + 1 .. Len(log)}

(* refresh_one_message_row_from: a record outside the snapshot is let go,  *)
(* and so is one whose row an older rebuild has taken away; the rebuild    *)
(* that brings that row back should then see as much.                      *)
RefreshRow(n, m) ==
  IF InSnap(n, m) /\ Shown(m)
    THEN rows' = Replaced(Spot(m), Build(n, m)) /\ NoteBuilt(n, {m})
    ELSE NoteSeen(n, {m} \cap behind) /\ UNCHANGED <<rows, behind>>

(* What a row that is refreshed asks for.                                  *)
RowLoads(n, m) == IF InSnap(n, m) THEN Autoloads(<<m>>) ELSE <<>>

(* push_message_grouped: the row before it is of the same sender, however  *)
(* long ago.                                                               *)
Pushed(row) ==
  LET k == Len(rows)
      same == k > 0 /\ Author[rows[k].msg] = Author[row.msg]
  IN  Append(IF same THEN [rows EXCEPT ![k].last = FALSE] ELSE rows,
             [row EXCEPT !.first = ~same, !.last = TRUE])
-----------------------------------------------------------------------------
(* The user's reactions, edits and deletions.                              *)

Alive(m) == Shown(m) /\ ~rows[Spot(m)].dead

(* An operation is published by a task of its own.                         *)
Op(k, m, v) == [kind |-> k, msg |-> m, val |-> v, by |-> account, stored |-> FALSE]
Slot(k) == IF k = "unreact" THEN "react" ELSE k
Publish(k, m, v) ==
  /\ ops' = ops (+) SetToBag({Op(k, m, v)})
  /\ crossed' = IF \/ \E o \in BagToSet(ops) : o.msg = m /\ Slot(o.kind) = Slot(k)
                   \/ \E i \in DOMAIN uiq : uiq[i].kind = "done"
                        /\ uiq[i].op.msg = m /\ Slot(uiq[i].op.kind) = Slot(k)
                  THEN crossed \cup {<<Slot(k), m>>} ELSE crossed

(* react_op, of on_react_message and on_unreact_message: the overlay, the  *)
(* row's chips at once, the task.                                          *)
SetReaction(k, m, op) ==
  /\ Alive(m) /\ Spend(k)
  /\ overlay' = [overlay EXCEPT !.reactions[m] = op]
  /\ rows' = [rows EXCEPT ![Spot(m)].chips = WithReaction(@, op)]
  /\ Publish(k, m, IF k = "react" THEN op ELSE "none")
  /\ UNCHANGED <<store, account, editing, loaded, watched, reads, held, feed, uiq, media,
                 builtAt, behind, echoed, broken>>
React(m, e) == SetReaction("react", m, e)
Unreact(m)  ==
  Shown(m) /\ rows[Spot(m)].chips # NoChips /\ SetReaction("unreact", m, "remove")

(* on_request_edit, on_cancel_edit.                                        *)
RequestEdit(m) ==
  /\ Alive(m) /\ Author[m] = account /\ editing # {m} /\ Spend("edit")
  /\ editing' = {m}
  /\ UNCHANGED <<store, account, overlay, rows, loaded, watched, tasks, feed, uiq, media,
                 history>>
CancelEdit ==
  /\ editing # {} /\ editing' = {}
  /\ UNCHANGED <<store, account, overlay, rows, loaded, watched, tasks, feed, uiq, media,
                 used, history>>

(* apply_edit_to_model_row: counted again however often it is edited.      *)
WithEdit(row, v) == [row EXCEPT !.text = v, !.count = @ + 1]

(* on_send_message in edit mode, and edit_op: whatever has become of the   *)
(* row meanwhile.  A chat is open, since a switch leaves the edit mode.    *)
SubmitEdit(v) ==
  /\ editing # {} /\ editing' = {}
  /\ \E m \in editing :
       /\ overlay' = [overlay EXCEPT !.edits[m] = v]
       /\ rows' = IF Shown(m) THEN [rows EXCEPT ![Spot(m)] = WithEdit(@, v)]
                  ELSE rows
       /\ Publish("edit", m, v)
  /\ UNCHANGED <<store, account, loaded, watched, reads, held, feed, uiq, media, used,
                 builtAt, behind, echoed, broken>>

(* on_request_delete_everyone: the overlay, a refresh, the task.           *)
Delete(m) ==
  /\ Alive(m) /\ Author[m] = account /\ Spend("delete")
  /\ overlay' = [overlay EXCEPT !.deletes = @ \cup {m}]
  /\ Ask("refresh", m)
  /\ Publish("delete", m, "none")
  /\ UNCHANGED <<store, account, editing, rows, loaded, watched, held, feed, uiq, media,
                 builtAt, behind, echoed, broken>>

(* on_request_delete_me: hidden and saved now, the rows rebuilt later.     *)
Unreported(m) == \/ \E i \in DOMAIN feed : feed[i].kind = "chat" /\ feed[i].msg = m
                 \/ \E i \in DOMAIN uiq : uiq[i].kind = "echo" /\ uiq[i].msg = m
Hide(m) ==
  /\ Shown(m) /\ Spend("hide")
  /\ hidden' = [hidden EXCEPT ![account] = @ \cup {m}]
  /\ Ask("rebuild", m)
  /\ echoed' = IF Unreported(m) THEN echoed \cup {m} ELSE echoed
  /\ UNCHANGED <<log, account, overlay, editing, rows, loaded, watched, ops, held, feed,
                 uiq, media, builtAt, behind, crossed, broken>>

(* do_switch_account: the watcher is stopped, the overlay and the models   *)
(* are dropped, the list is read again for the other account.              *)
SwitchTo(a) ==
  /\ a # account /\ loaded /\ Spend("switch")
  /\ account' = a /\ overlay' = NoOverlay /\ editing' = {}
  /\ rows' = <<>> /\ loaded' = FALSE /\ watched' = FALSE /\ feed' = <<>>
  /\ Ask("list", "none")
  /\ builtAt' = [m \in Msgs |-> 0] /\ behind' = {}
  /\ UNCHANGED <<store, ops, held, uiq, media, crossed, echoed, broken>>

(* on_chat_selected: the edit mode ends, the chat is read for its rows and *)
(* its watcher.                                                            *)
Opening == \/ \E j \in BagToSet(reads) \cup BagToSet(held) : j.kind = "open"
           \/ \E i \in DOMAIN uiq : uiq[i].kind = "open"
Select ==
  /\ loaded
  /\ IF watched \/ Opening THEN Spend("select") ELSE UNCHANGED used
  /\ editing' = {}
  /\ Ask("open", "none")
  /\ UNCHANGED <<store, account, overlay, rows, loaded, watched, ops, held, feed,
                 uiq, media, history>>

(* on_attachment_clicked, on one that is neither decoded nor in flight.    *)
Tap(m) ==
  /\ Shown(m) /\ Kind[m] \in {"image", "audio", "file"} /\ Spend("tap")
  /\ Keys[m] \cap (cache \cup inflight) = {}
  /\ inflight' = inflight \cup Keys[m]
  /\ Ask("tap", m)
  /\ UNCHANGED <<store, account, overlay, editing, rows, loaded, watched, ops, held, feed,
                 uiq, cache, disk, loads, history>>
-----------------------------------------------------------------------------
(* marmot, the watcher and the workers.                                    *)

(* A record is stored; a running watcher will be called back for it.       *)
Store(r) == /\ log' = Append(log, r)
            /\ feed' = IF watched THEN Append(feed, r) ELSE feed

(* react_async, edit_message_async, delete_message_async, unreact_async:   *)
(* the record is stored, then the completion posted; or it fails.          *)
Stored(o) ==
  /\ BagIn(o, ops) /\ ~o.stored
  /\ Store(Rec(o.kind, o.msg, o.by, o.val))
  /\ ops' = (ops (-) SetToBag({o})) (+) SetToBag({[o EXCEPT !.stored = TRUE]})
  /\ UNCHANGED <<hidden, account, overlay, editing, rows, loaded, watched, reads, held,
                 uiq, media, used, history>>
Completed(o) ==
  /\ BagIn(o, ops)
  /\ IF o.stored THEN UNCHANGED used ELSE Spend("fail")
  /\ ops' = ops (-) SetToBag({o})
  /\ Post([kind |-> "done", op |-> o])
  /\ UNCHANGED <<store, account, overlay, editing, rows, loaded, watched, reads, held,
                 feed, media, history>>

(* Somebody else's message, reaction, edit or deletion.                    *)
Receive(m) ==
  /\ Author[m] = "peer" /\ Spend("receive")
  /\ \A i \in DOMAIN log : log[i].kind = "chat" => log[i].msg # m
  /\ Store(Rec("chat", m, Author[m], "none"))
  /\ UNCHANGED <<hidden, account, overlay, editing, rows, loaded, watched, tasks, uiq,
                 media, history>>
PeerActs(k, m, v) ==
  /\ \E i \in DOMAIN log : log[i].kind = "chat" /\ log[i].msg = m
  /\ Spend("peer")
  /\ Store(Rec(k, m, "peer", v))
  /\ UNCHANGED <<hidden, account, overlay, editing, rows, loaded, watched, tasks, uiq,
                 media, history>>

(* install_message_watcher: the callback reads a snapshot and posts what   *)
(* it will do.  A withdrawn reaction names the reaction, not a message     *)
(* that is shown.                                                          *)
Report ==
  /\ feed # <<>>
  /\ feed' = Tail(feed)
  /\ LET r == Head(feed)
         c == [kind |-> IF r.kind = "chat" THEN "echo" ELSE "event",
               msg |-> r.msg, n |-> Len(log)]
     IN  uiq' = IF r.kind = "unreact" THEN uiq ELSE Append(uiq, c)
  /\ UNCHANGED <<store, account, overlay, editing, rows, loaded, watched, tasks, media,
                 used, history>>

(* Backend::messages, by a worker; then what it has read is posted.        *)
Read(j) ==
  /\ BagIn(j, reads)
  /\ reads' = reads (-) SetToBag({j})
  /\ held' = held (+) SetToBag({[kind |-> j.kind, msg |-> j.msg, n |-> Len(log)]})
  /\ UNCHANGED <<store, account, overlay, editing, rows, loaded, watched, ops, feed, uiq,
                 media, used, history>>
Hand(h) ==
  /\ BagIn(h, held)
  /\ held' = held (-) SetToBag({h})
  /\ IF h.kind = "tap" /\ ~InSnap(h.n, h.msg)
       THEN inflight' = inflight \ Keys[h.msg] /\ UNCHANGED uiq
       ELSE Post(h) /\ UNCHANGED inflight
  /\ UNCHANGED <<store, account, overlay, editing, rows, loaded, watched, ops, reads, feed,
                 cache, disk, loads, used, history>>

(* A load ends with pixels: from the disk cache, or downloaded and put     *)
(* there.  A file goes where the user said, a clip is played (and a mutant *)
(* that does not refresh the row).                                         *)
OnCache(key) == key \in disk
CachePut(l)  == disk' = IF Kind[l.msg] = "file" THEN disk ELSE disk \cup {l.key}
Unpainted(l) ==
  /\ BagIn(l, loads)
  /\ loads' = loads (-) SetToBag({l})
  /\ inflight' = inflight \ {l.key}
  /\ cache' = cache \cup {l.key}
  /\ UNCHANGED <<store, account, overlay, editing, rows, loaded, watched, tasks, feed, uiq,
                 disk, used, history>>
Loaded(l) ==
  /\ BagIn(l, loads)
  /\ loads' = loads (-) SetToBag({l})
  /\ inflight' = inflight \ {l.key}
  /\ cache' = IF Kind[l.msg] \in {"album", "image"} THEN cache \cup {l.key} ELSE cache
  /\ CachePut(l)
  /\ Ask("refresh", l.msg)
  /\ UNCHANGED <<store, account, overlay, editing, rows, loaded, watched, ops, held, feed,
                 uiq, used, history>>

(* Or the download fails: only a tapped image or file is refreshed.        *)
LoadFailed(l) ==
  /\ BagIn(l, loads) /\ ~OnCache(l.key) /\ Spend("fail")
  /\ loads' = loads (-) SetToBag({l})
  /\ inflight' = inflight \ {l.key}
  /\ IF Kind[l.msg] \in {"image", "file"}
       THEN Ask("refresh", l.msg) /\ UNCHANGED broken
       ELSE broken' = broken \cup {l.key} /\ UNCHANGED reads
  /\ UNCHANGED <<store, account, overlay, editing, rows, loaded, watched, ops, held, feed,
                 uiq, cache, disk, builtAt, behind, crossed, echoed>>
-----------------------------------------------------------------------------
(* The closures on the event loop, in the order they were posted.          *)

Turn(k) == uiq # <<>> /\ Head(uiq).kind = k
Take(more) == uiq' = Tail(uiq) \o more

(* The completions of react_op, edit_op and on_request_delete_everyone:    *)
(* the slot is emptied, whoever filled it last, and the row read again     *)
(* (mutants: only on success, not read again).                             *)
SettleSent(o) == IF o.stored THEN [overlay EXCEPT !.edits[o.msg] = "none",
                    !.reactions[o.msg] = "none", !.deletes = @ \ {o.msg}]
                 ELSE overlay
Settle(o) ==
  CASE o.kind \in {"react", "unreact"} ->
         [overlay EXCEPT !.reactions[o.msg] = "none"]
    [] o.kind = "edit"   -> [overlay EXCEPT !.edits[o.msg] = "none"]
    [] o.kind = "delete" -> [overlay EXCEPT !.deletes = @ \ {o.msg}]
DoneQuietly ==
  /\ Turn("done") /\ Take(<<>>)
  /\ overlay' = Settle(Head(uiq).op)
  /\ UNCHANGED <<store, account, editing, rows, loaded, watched, tasks, feed, media, used,
                 history>>
RunDone ==
  /\ Turn("done") /\ Take(<<>>)
  /\ overlay' = Settle(Head(uiq).op)
  /\ Ask("refresh", Head(uiq).op.msg)
  /\ UNCHANGED <<store, account, editing, rows, loaded, watched, ops, held, feed, media,
                 used, history>>

(* refresh_one_message_row_async lands: in a chat that is listed.          *)
RunRefresh ==
  /\ Turn("refresh")
  /\ LET c == Head(uiq) IN
       IF loaded THEN RefreshRow(c.n, c.msg) /\ Take(RowLoads(c.n, c.msg))
       ELSE UNCHANGED <<rows, builtAt, behind>> /\ Take(<<>>)
  /\ UNCHANGED <<store, account, overlay, editing, loaded, watched, tasks, feed, media, used,
                 crossed, echoed, broken>>

(* The watcher's closure for a reaction, an edit or a deletion.            *)
RunEvent ==
  /\ Turn("event")
  /\ RefreshRow(Head(uiq).n, Head(uiq).msg)
  /\ Take(RowLoads(Head(uiq).n, Head(uiq).msg))
  /\ UNCHANGED <<store, account, overlay, editing, loaded, watched, tasks, feed, media, used,
                 crossed, echoed, broken>>

(* And for a message: appended unless it is shown, hidden or not.          *)
RunEcho ==
  /\ Turn("echo")
  /\ LET c == Head(uiq) IN
       /\ Take(RowLoads(c.n, c.msg))
       /\ IF InSnap(c.n, c.msg) /\ ~Shown(c.msg)
            THEN /\ rows' = IF loaded THEN Pushed(Build(c.n, c.msg)) ELSE rows
                 /\ NoteBuilt(c.n, {c.msg})
            ELSE UNCHANGED <<rows, builtAt, behind>>
  /\ UNCHANGED <<store, account, overlay, editing, loaded, watched, tasks, feed, media, used,
                 crossed, echoed, broken>>

(* on_request_delete_me: every row from the snapshot.                      *)
RunRebuild ==
  /\ Turn("rebuild")
  /\ LET list == Rebuilt(Head(uiq).n) IN
       IF loaded
         THEN /\ rows' = list /\ NoteBuilt(Head(uiq).n, Msgs)
              /\ Take(Autoloads([k \in DOMAIN list |-> list[k].msg]))
         ELSE UNCHANGED <<rows, builtAt, behind>> /\ Take(<<>>)
  /\ UNCHANGED <<store, account, overlay, editing, loaded, watched, tasks, feed, media, used,
                 crossed, echoed, broken>>

(* The chat list of an account, with the rows of the chat shown by         *)
(* default: nothing of this account is pending yet.                        *)
RunList ==
  /\ Turn("list") /\ Take(<<>>)
  /\ rows' = Rebuilt(Head(uiq).n) /\ loaded' = TRUE
  /\ behind' = IF watched THEN Since(Head(uiq).n) ELSE {}
  /\ builtAt' = [m \in Msgs |-> IF m \in behind' THEN Len(log) ELSE Head(uiq).n]
  /\ UNCHANGED <<store, account, overlay, editing, watched, tasks, feed, media,
                 used, crossed, echoed, broken>>

(* The closure of on_chat_selected: the rows, if the list is there by now, *)
(* and a new watcher in the place of the old one.  What was stored since   *)
(* the snapshot is reported by neither.                                    *)
RunOpen ==
  /\ Turn("open")
  /\ LET n    == Head(uiq).n
         list == Rebuilt(n)
     IN  IF loaded
           THEN /\ rows' = list
                /\ builtAt' = [m \in Msgs |-> IF m \in Since(n) THEN Len(log) ELSE n]
                /\ behind' = Since(n)
                /\ Take(Autoloads([k \in DOMAIN list |-> list[k].msg]))
           ELSE UNCHANGED <<rows, builtAt, behind>> /\ Take(<<>>)
  /\ watched' = TRUE /\ feed' = <<>>
  /\ UNCHANGED <<store, account, overlay, editing, loaded, tasks, media, used,
                 crossed, echoed, broken>>

(* autoload_album_cells: the keys are looked at again (a mutant: are not). *)
AsPosted(keys)    == keys
StillNeeded(keys) == {k \in keys : k \notin cache /\ k \notin inflight}
RunAutoload ==
  /\ Turn("autoload") /\ Take(<<>>)
  /\ LET keys == StillNeeded(Head(uiq).keys)
     IN  /\ inflight' = inflight \cup keys
         /\ loads' = loads (+) SetToBag({[key |-> k, msg |-> Head(uiq).msg] : k \in keys})
  /\ UNCHANGED <<store, account, overlay, editing, rows, loaded, watched, tasks, feed, cache,
                 disk, used, history>>

(* on_attachment_clicked, with the record: the row shows it loading, and   *)
(* the load starts.  A clip is off the list of loads in flight by then.    *)
Dispatch(m) ==
  loads' = loads (+) SetToBag({[key |-> k, msg |-> m] : k \in Keys[m]})
RunTap ==
  /\ Turn("tap")
  /\ LET c == Head(uiq) IN
       /\ RefreshRow(c.n, c.msg) /\ Take(RowLoads(c.n, c.msg))
       /\ inflight' = IF Kind[c.msg] = "audio" THEN inflight \ Keys[c.msg] ELSE inflight
       /\ Dispatch(c.msg)
  /\ UNCHANGED <<store, account, overlay, editing, loaded, watched, tasks, feed, cache, disk,
                 used, crossed, echoed, broken>>
-----------------------------------------------------------------------------
User ==
  \/ \E m \in Targets["react"], e \in Emojis : React(m, e)
  \/ \E m \in Targets["unreact"] : Unreact(m)
  \/ \E m \in Targets["edit"] : RequestEdit(m)
  \/ \E m \in Targets["delete"] : Delete(m)
  \/ \E m \in Targets["hide"] : Hide(m)
  \/ \E m \in Targets["tap"] : Tap(m)
  \/ CancelEdit
  \/ \E v \in Texts : SubmitEdit(v)
  \/ \E a \in Accounts : SwitchTo(a)
  \/ Select

Peer ==
  \/ \E m \in Targets["receive"] : Receive(m)
  \/ \E m \in Targets["peer"] : \/ \E e \in Emojis : PeerActs("react", m, e)
                               \/ \E v \in Texts : PeerActs("edit", m, v)
                               \/ PeerActs("delete", m, "none")

Workers ==
  \/ \E o \in BagToSet(ops) : Stored(o) \/ Completed(o)
  \/ Report
  \/ \E j \in BagToSet(reads) : Read(j)
  \/ \E h \in BagToSet(held) : Hand(h)
  \/ \E l \in BagToSet(loads) : Loaded(l) \/ LoadFailed(l)

Closures == RunDone \/ RunRefresh \/ RunEvent \/ RunEcho \/ RunRebuild \/ RunList
            \/ RunOpen \/ RunAutoload \/ RunTap

Next == User \/ Peer \/ Workers \/ Closures
Spec == Init /\ [][Next]_vars
-----------------------------------------------------------------------------
(* The bag of jobs is counted, never large.                                *)
JobBag(b, S) == BagToSet(b) \subseteq S /\ \A x \in BagToSet(b) : b[x] > 0

(* The shapes of the state: rows show known messages, once decoded or in   *)
(* flight a key is known, and an overlay slot holds what its kind may.     *)
TypeOK ==
  /\ log \in Seq(Record) /\ account \in Accounts
  /\ hidden \in [Accounts -> SUBSET Msgs]
  /\ overlay.reactions \in [Msgs -> Emojis \cup {"none", "remove"}]
  /\ overlay.edits \in [Msgs -> Texts \cup {"none"}]
  /\ overlay.deletes \subseteq Msgs /\ editing \subseteq Msgs
  /\ \A k \in DOMAIN rows :
       /\ rows[k].msg \in Msgs /\ rows[k].text \in Texts \cup {"none"}
       /\ rows[k].count \in Nat
       /\ \A e \in Emojis : rows[k].chips[e].n \in Nat
                            /\ (rows[k].chips[e].mine => rows[k].chips[e].n > 0)
  /\ loaded \in BOOLEAN /\ watched \in BOOLEAN
  /\ JobBag(reads, ReadJob)
  /\ cache \cup inflight \cup disk \subseteq AllKeys
  /\ cache \cap inflight = {}

Idle == /\ loaded /\ watched /\ ops = EmptyBag /\ reads = EmptyBag /\ held = EmptyBag
        /\ feed = <<>> /\ uiq = <<>> /\ loads = EmptyBag

(* The messages the window should be showing: of the newest records, not   *)
(* hidden, and not left behind by a snapshot that landed late.             *)
Due == {m \in Msgs : InSnap(Len(log), m) /\ ~Hidden(m) /\ m \notin behind}

(* When nothing is under way, each row is what marmot's records make of    *)
(* it: whatever was shown before an operation was confirmed has become     *)
(* the confirmed state, or is gone with an operation that failed, and no   *)
(* message is missing or shown twice (edit_op, react_op, the watcher).     *)
RowsSettle ==
  Idle => \A m \in Due :
    /\ Cardinality({k \in DOMAIN rows : rows[k].msg = m}) = 1
    /\ LET row  == rows[Spot(m)]
           made == Build(Len(log), m)
       IN  /\ row.text = made.text /\ row.count = made.count
           /\ row.chips = made.chips /\ row.dead = made.dead

(* No attachment is left spinning, and a decoded one is painted, unless    *)
(* its album or audio load failed: that completion refreshes no row        *)
(* (autoload_album_cells, on_attachment_clicked).                          *)
CellsSettle ==
  Idle => \A m \in Due : Shown(m) =>
    \A k \in Keys[m] : LET cell == rows[Spot(m)].cells[k] IN
      /\ cell = "loading" => k \in broken
      /\ k \in cache => cell = "image"

(* An operation's slot in the overlay lasts exactly as long as it is in    *)
(* flight, so long as operations of its kind on the message do not         *)
(* overlap; a switch of accounts drops the slots (PendingState).           *)
InFlight(k, m) ==
  \/ \E o \in BagToSet(ops) : Slot(o.kind) = k /\ o.msg = m
  \/ \E i \in DOMAIN uiq : uiq[i].kind = "done"
       /\ Slot(uiq[i].op.kind) = k /\ uiq[i].op.msg = m
HasSlot(k, m) == CASE k = "react"  -> overlay.reactions[m] # "none"
                   [] k = "edit"   -> overlay.edits[m] # "none"
                   [] k = "delete" -> m \in overlay.deletes
OverlayBacked ==
  \A k \in {"react", "edit", "delete"}, m \in Msgs :
    /\ HasSlot(k, m) => InFlight(k, m)
    /\ InFlight(k, m) /\ <<k, m>> \notin crossed /\ used["switch"] = 0
         => HasSlot(k, m)

(* What the user has just done stays on screen until it is confirmed:      *)
(* neither an older snapshot nor the watcher's refresh of the same row     *)
(* takes the text or the chip away (apply_edit_overlay,                    *)
(* apply_reaction_overlay).                                                *)
OptimisticShown ==
  \A k \in DOMAIN rows : LET row == rows[k] IN ~row.dead =>
    /\ overlay.edits[row.msg] # "none" =>
         row.text = overlay.edits[row.msg] /\ row.count > 0
    /\ overlay.reactions[row.msg] \in Emojis =>
         row.chips[overlay.reactions[row.msg]].mine
    /\ overlay.reactions[row.msg] = "remove" =>
         \A e \in Emojis : ~row.chips[e].mine

(* A message deleted "for me" does not come back under the account that    *)
(* hid it, whatever snapshots land late, except one whose arrival was      *)
(* still to be reported (the watcher appends it without looking).          *)
HiddenStays ==
  Idle => \A m \in Msgs : Hidden(m) /\ m \notin echoed => ~Shown(m)

(* A key is loaded once at a time ("so we don't fire duplicate downloads   *)
(* on rapid clicks"); a clip leaves the list before its load begins, so    *)
(* this is about images and files.                                         *)
OneDownload ==
  \A k \in AllKeys :
    Cardinality({l \in BagToSet(loads) : l.key = k /\ Kind[l.msg] # "audio"}) <= 1
    /\ \A l \in BagToSet(loads) : Kind[l.msg] # "audio" =>
         loads[l] = 1 /\ l.key \in inflight

(* A row ends its group exactly when the next one begins a group, so that  *)
(* every run has one avatar and one name; refreshing a row in place and    *)
(* appending to a run keep it so (preserve_grouping_flags,                 *)
(* push_message_grouped).                                                  *)
GroupsJoin ==
  /\ \A k \in DOMAIN rows : k + 1 \in DOMAIN rows =>
       rows[k].last = rows[k + 1].first
  /\ rows # <<>> => rows[1].first /\ Last(rows).last

(* Nobody else rewrites or retracts a message: while its author has not    *)
(* edited or deleted it, the user's own message keeps its body whatever    *)
(* records arrive about it (aggregate_edits, aggregate_deletes).           *)
AuthorsOnly ==
  \A k \in DOMAIN rows : Author[rows[k].msg] # "peer" =>
    /\ used["edit"] = 0   => rows[k].text = "none" /\ rows[k].count = 0
    /\ used["delete"] = 0 => ~rows[k].dead
=============================================================================
