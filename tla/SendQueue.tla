------------------------------ MODULE SendQueue ------------------------------
(***************************************************************************)
(* The durable send queue: how a message the user composes travels from    *)
(* the composer through the optimistic overlay, the sealed on-disk queue   *)
(* and a tokio task to the relays, and what failures, reconnects, account  *)
(* switches and restarts do to it on the way.                              *)
(*                                                                         *)
(* Three kinds of actors run: the Slint event loop (user callbacks, posted *)
(* closures in FIFO order, the flush timer), tokio workers (one task per   *)
(* dispatched send) and the connectivity watcher thread.  An action is one *)
(* callback, closure, timer visit, task step or watcher tick.              *)
(*                                                                         *)
(* Two facts about libraries that are not part of the repository decide    *)
(* how much of this machinery runs, so they are parameters:                *)
(*   TimerOutlivesScope  FALSE: a slint::Timer stops when its binding goes *)
(*                       out of scope (slint 1.17), TRUE: what the comment *)
(*                       extra.rs:1155 takes for granted;                  *)
(*   NestedBlockOnPanics TRUE: Runtime::block_on panics on a thread that   *)
(*                       drives async tasks (tokio 1.52), FALSE: what the  *)
(*                       comment main.rs:311 takes for granted.            *)
(***************************************************************************)
EXTENDS Integers, Sequences, FiniteSets

CONSTANTS
  Msgs,                \* what the user will send, each at most once
  Accounts, Groups,
  NoId,                \* no temp id allocated
  KindOf,              \* [Msgs -> {"text", "forward", "media"}]
  GroupOf,             \* [Msgs -> Groups], the chat it is composed into
  BodyOf,              \* [Msgs -> Bodies], equal for messages of equal text
  GroupsOf,            \* [Accounts -> SUBSET Groups], the accepted chats
  TimerOutlivesScope, NestedBlockOnPanics,
  OutagesOutlastPoll,  \* an outage is never shorter than a watcher period
  Window,              \* looks_already_sent's 600 s, in clock ticks
  MaxSends,            \* bound: temp ids one process hands out
  MaxNow,              \* bound: the clock
  Limit                \* bound: how often the environment may misbehave

Kinds  == {"text", "forward", "media"}
Faults == {"outage", "error", "crash", "switch", "reset", "diskFull"}

ASSUME ConstantsOK ==
  /\ NoId \notin Nat
  /\ KindOf \in [Msgs -> Kinds]
  /\ GroupOf \in [Msgs -> Groups]
  /\ DOMAIN BodyOf = Msgs
  /\ GroupsOf \in [Accounts -> SUBSET Groups]
  /\ TimerOutlivesScope \in BOOLEAN
  /\ NestedBlockOnPanics \in BOOLEAN
  /\ OutagesOutlastPoll \in BOOLEAN
  /\ Window \in Nat /\ MaxSends \in Nat /\ MaxNow \in Nat
  /\ Limit \in [Faults -> Nat]

VARIABLES
  proc,       \* "off", "ready", or "poisoned" (the backend_cell mutex is)
  active,     \* the backend's active account
  listed,     \* group_ids: the chats the UI can resolve
  fetching,   \* chat-list snapshots requested and not yet read
  nextId,     \* next_temp_id's process-wide counter
  overlay,    \* pending_state.sends: <<group, temp id>> -> optimistic entries
  disk,       \* the sealed files of offline-queue/, one per temp id
  inflight,   \* offline_inflight
  ops,        \* tokio tasks of dispatched sends
  attempts,   \* dispatches per message in this process (names the tasks)
  gathering,  \* forwards whose source a worker is still reading
  uiq,        \* closures posted with invoke_from_event_loop
  flush,      \* the flush loop: entries left to visit, and `online`
  conn,       \* offline_last_connected > 0 (the watcher's prev_connected too)
  announced,  \* the watcher's announced_ready
  flushReq,   \* offline_flush_requested
  relay,      \* some relay is connected
  now,        \* the clock, coarse
  store,      \* kind-9 records in the local message store
  sent,       \* how often each message reached the relays
  used,       \* how often each fault has happened
  idOf,       \* history: the temp id a message was queued under
  queuedAt,   \* history: and when
  composed,   \* history: messages the user has sent off
  discarded,  \* history: entries lost to a full disk or dropped by a reset
  overtaken,  \* history: dispatched by the flush ahead of a posted completion
  lost        \* history: completions that found their chat not listed

view    == <<proc, active, listed, fetching>>
ram     == <<nextId, overlay, inflight, uiq, flush>>
tasks   == <<ops, attempts, gathering>>
watcher == <<conn, announced, flushReq>>
world   == <<relay, now, store, sent>>
history == <<idOf, queuedAt, composed, discarded, overtaken,
             lost>>
vars    == <<view, ram, disk, tasks, watcher, world, used, history>>

Ids   == 0 .. MaxSends - 1
IsText(m) == KindOf[m] # "media"

Entry == [id : Ids, msg : Msgs, acct : Accounts, grp : Groups, at : 0 .. MaxNow]
Bubble == [msg : Msgs, failed : BOOLEAN]
Op == [id : Ids, msg : Msgs, grp : Groups, acct : Accounts, try : Nat,
       stage : {"sending", "sent", "failed"}]
Closure ==
       [kind : {"done"}, id : Ids, msg : Msgs, grp : Groups, ok : BOOLEAN,
        online : BOOLEAN]
  \cup [kind : {"spawn"}, id : Ids \cup {NoId}, msg : Msgs, grp : Groups]
  \cup [kind : {"chats"}, ids : SUBSET Groups]

Gather == [msg : Msgs, acct : Accounts]

NoBubbles == [gi \in Groups \X Ids |-> <<>>]
Idle      == [todo |-> {}, online |-> FALSE]

(* The environment may commit fault f: within its budget.                  *)
Spend(f) == /\ used[f] < Limit[f]
            /\ used' = [used EXCEPT ![f] = @ + 1]

(* The event loop is between two callbacks; UiReady: and may lock the      *)
(* backend_cell mutex in the next one.                                     *)
UiFree  == proc # "off" /\ flush.todo = {}
UiReady == proc = "ready" /\ flush.todo = {}

Init ==
  /\ proc = "ready" /\ active \in Accounts /\ listed = {} /\ fetching = 1
  /\ nextId = 0 /\ overlay = NoBubbles /\ inflight = {} /\ uiq = <<>>
  /\ flush = Idle /\ disk = {}
  /\ ops = {} /\ attempts = [m \in Msgs |-> 0] /\ gathering = {}
  /\ conn = FALSE /\ announced = FALSE /\ flushReq = FALSE
  /\ relay = TRUE /\ now = 0 /\ store = {} /\ sent = [m \in Msgs |-> 0]
  /\ used = [f \in Faults |-> 0]
  /\ idOf = [m \in Msgs |-> NoId] /\ queuedAt = [m \in Msgs |-> 0]
  /\ composed = {} /\ discarded = {} /\ overtaken = {} /\ lost = {}
-----------------------------------------------------------------------------
(* The pieces the handlers share.                                          *)

(* offline_queue::put: one file per temp id, whatever was there is         *)
(* replaced; a failure is swallowed and leaves the old file alone.         *)
Persist(i, m, g) ==
  \/ /\ disk' = {e \in disk : e.id # i} \cup
                {[id |-> i, msg |-> m, acct |-> active, grp |-> g, at |-> now]}
     /\ UNCHANGED <<discarded, used>>
  \/ /\ Spend("diskFull")
     /\ discarded' = discarded \cup {m}
     /\ UNCHANGED disk

(* offline_queue::remove                                                   *)
Unpersist(i) == disk' = {e \in disk : e.id # i}

(* offline_inflight_remove (and a mutant that forgets to).                 *)
KeepMark(i) == UNCHANGED inflight
LiftMark(i) == inflight' = inflight \ {i}

(* PendingState::drop_send and mark_send_failed: every entry under the id  *)
(* (and a mutant: the acknowledgement leaves the bubble).                  *)
KeepSend(g, i) == UNCHANGED overlay
DropSend(g, i) == overlay' = [overlay EXCEPT ![<<g, i>>] = <<>>]
SetFailed(g, i, f) ==
  LET old == overlay[<<g, i>>] IN
  overlay' = [overlay EXCEPT ![<<g, i>>] =
                [k \in DOMAIN old |-> [msg |-> old[k].msg, failed |-> f]]]

(* send_text_async / upload_media_async: a task under the label that is    *)
(* active now.                                                             *)
Dispatch(i, m, g) ==
  /\ ops' = ops \cup {[id |-> i, msg |-> m, grp |-> g, acct |-> active,
                       try |-> attempts[m] + 1, stage |-> "sending"]}
  /\ attempts' = [attempts EXCEPT ![m] = @ + 1]
  /\ inflight' = inflight \cup {i}

Post(c) == uiq' = Append(uiq, c)

Spawn(i, m, g) == [kind |-> "spawn", id |-> i, msg |-> m, grp |-> g]

(* PendingState::find_send: the first entry under the temp id.             *)
Found(g, i)     == overlay[<<g, i>>] # <<>>
FindSend(g, i)  == Head(overlay[<<g, i>>])

(* next_temp_id hands out the counter's value before the increment (and a  *)
(* mutant: the one after it).                                              *)
IncrementedTempId == nextId + 1
NextTempId == nextId

(* A first send: overlay entry, temp id, durable entry, in-flight mark and *)
(* task, in one callback.                                                  *)
Enqueue(m, g) ==
  /\ nextId < MaxSends
  /\ overlay' = [overlay EXCEPT ![<<g, NextTempId>>] =
                   Append(@, [msg |-> m, failed |-> FALSE])]
  /\ Persist(NextTempId, m, g)
  /\ Dispatch(NextTempId, m, g)
  /\ idOf' = [idOf EXCEPT ![m] = NextTempId]
  /\ queuedAt' = [queuedAt EXCEPT ![m] = now]
  /\ nextId' = nextId + 1
-----------------------------------------------------------------------------
(* The user.                                                               *)

(* on_send_message, the text part.                                         *)
SendText(m) ==
  /\ UiReady /\ m \notin composed /\ KindOf[m] = "text"
  /\ GroupOf[m] \in listed
  /\ composed' = composed \cup {m}
  /\ Enqueue(m, GroupOf[m])
  /\ UNCHANGED <<view, uiq, flush, gathering, watcher, world, overtaken,
                 lost>>

(* on_send_message, a staged attachment or album: only a posted closure;   *)
(* the bubble, the id and the durable entry are made when it runs.         *)
SendMedia(m) ==
  /\ UiReady /\ m \notin composed /\ KindOf[m] = "media"
  /\ GroupOf[m] \in listed
  /\ composed' = composed \cup {m}
  /\ Post(Spawn(NoId, m, GroupOf[m]))
  /\ UNCHANGED <<view, nextId, overlay, inflight, flush, disk, tasks, watcher,
                 world, used, idOf, queuedAt, discarded, overtaken, lost>>

(* on_request_forward: a worker reads the source message first.            *)
RequestForward(m) ==
  /\ UiReady /\ m \notin composed /\ KindOf[m] = "forward"
  /\ GroupOf[m] \in listed
  /\ composed' = composed \cup {m}
  /\ gathering' = gathering \cup {[msg |-> m, acct |-> active]}
  /\ UNCHANGED <<view, ram, disk, ops, attempts, watcher, world, used, idOf,
                 queuedAt, discarded, overtaken, lost>>

(* on_retry_message.  A red text goes out again from the overlay, a red    *)
(* attachment from its durable entry; without one the bubble is unfailed   *)
(* all the same and nothing is dispatched.                                 *)
Retry(g, i) ==
  /\ UiReady /\ g \in listed /\ Found(g, i)
  /\ \E k \in DOMAIN overlay[<<g, i>>] : overlay[<<g, i>>][k].failed
  /\ SetFailed(g, i, FALSE)
  /\ \/ /\ IsText(FindSend(g, i).msg)
        /\ Dispatch(i, FindSend(g, i).msg, g)
        /\ UNCHANGED uiq
     \/ /\ ~IsText(FindSend(g, i).msg)
        /\ \E e \in disk : /\ e.id = i /\ ~IsText(e.msg)
                           /\ Post(Spawn(i, e.msg, g))
        /\ inflight' = inflight \cup {i}
        /\ UNCHANGED <<ops, attempts>>
     \/ /\ ~IsText(FindSend(g, i).msg)
        /\ \A e \in disk : e.id = i => IsText(e.msg)
        /\ UNCHANGED <<uiq, inflight, ops, attempts>>
  /\ UNCHANGED <<view, nextId, flush, disk, gathering, watcher, world, used,
                 history>>

(* do_switch_account: overlay and models go at once, the new account's     *)
(* chat list is requested; queue, flags and running tasks are left alone.  *)
SwitchAccount(a) ==
  /\ UiReady /\ a # active /\ Spend("switch")
  /\ active' = a /\ listed' = {} /\ fetching' = fetching + 1
  /\ overlay' = NoBubbles
  /\ UNCHANGED <<proc, nextId, inflight, uiq, flush, disk, tasks, watcher,
                 world, history>>
-----------------------------------------------------------------------------
(* tokio workers.                                                          *)

(* The send reaches a relay.                                               *)
Publish(o) ==
  /\ proc # "off" /\ o \in ops /\ o.stage = "sending"
  /\ relay /\ o.grp \in GroupsOf[o.acct]
  /\ ops' = (ops \ {o}) \cup {[o EXCEPT !.stage = "sent"]}
  /\ store' = store \cup {[msg |-> o.msg, grp |-> o.grp, acct |-> o.acct,
                           at |-> now]}
  /\ sent' = [sent EXCEPT ![o.msg] = @ + 1]
  /\ UNCHANGED <<view, ram, disk, attempts, gathering, watcher, relay, now,
                 used, history>>

(* The send ends with an error: no relay, a relay's refusal, or a group    *)
(* the sending account is not in.  marmot rolls it back.                   *)
Fail(o) ==
  /\ proc # "off" /\ o \in ops /\ o.stage = "sending"
  /\ \/ (~relay \/ o.grp \notin GroupsOf[o.acct]) /\ UNCHANGED used
     \/ relay /\ o.grp \in GroupsOf[o.acct] /\ Spend("error")
  /\ ops' = (ops \ {o}) \cup {[o EXCEPT !.stage = "failed"]}
  /\ UNCHANGED <<view, ram, disk, attempts, gathering, watcher, world, history>>

Done(o) == [kind |-> "done", id |-> o.id, msg |-> o.msg, grp |-> o.grp,
            ok |-> o.stage = "sent", online |-> o.stage = "sent" \/ relay]

(* on_done: the in-flight mark goes, then the worker polls relay_health    *)
(* after a failure and posts the completion.                               *)
Resolve(o) ==
  /\ proc = "ready" /\ o \in ops /\ o.stage # "sending"
  /\ o.stage = "failed" => ~NestedBlockOnPanics
  /\ ops' = ops \ {o} /\ LiftMark(o.id)
  /\ Post(Done(o))
  /\ UNCHANGED <<view, nextId, overlay, flush, disk, attempts, gathering,
                 watcher, world, used, history>>

(* relay_health is a block_on: on a worker it panics while on_done holds   *)
(* backend_cell, and no completion is posted.                              *)
ResolvePanics(o) ==
  /\ proc = "ready" /\ o \in ops /\ o.stage = "failed" /\ NestedBlockOnPanics
  /\ proc' = "poisoned"
  /\ ops' = ops \ {o} /\ LiftMark(o.id)
  /\ UNCHANGED <<active, listed, fetching, nextId, overlay, uiq, flush, disk,
                 attempts, gathering, watcher, world, used, history>>

(* fetch_chat_list_snapshot: reads under the account active by now.        *)
FetchChats ==
  /\ proc # "off" /\ fetching > 0
  /\ fetching' = fetching - 1
  /\ Post([kind |-> "chats", ids |-> GroupsOf[active]])
  /\ UNCHANGED <<proc, active, listed, nextId, overlay, inflight, flush, disk,
                 tasks, watcher, world, used, history>>

(* The worker of a forward reads the source under the account active by    *)
(* now (nothing is sent when that account does not have it); the last read *)
(* flushes the gather (mutant: every read does).                           *)
GatherAgain(f) ==
  /\ proc # "off" /\ f \in gathering
  /\ Post(Spawn(NoId, f.msg, GroupOf[f.msg]))
  /\ UNCHANGED <<view, nextId, overlay, inflight, flush, disk, tasks, watcher,
                 world, used, history>>

FinishGather(f) ==
  /\ proc # "off" /\ f \in gathering
  /\ gathering' = gathering \ {f}
  /\ \/ Post(Spawn(NoId, f.msg, GroupOf[f.msg]))
     \/ f.acct # active /\ UNCHANGED uiq
  /\ UNCHANGED <<view, nextId, overlay, inflight, flush, disk, ops, attempts,
                 watcher, world, used, history>>
-----------------------------------------------------------------------------
(* Posted closures, run by the event loop one at a time in posting order.  *)

TakeHead(kind) == uiq # <<>> /\ Head(uiq).kind = kind /\ uiq' = Tail(uiq)

(* A completion whose chat the UI cannot resolve returns at once, be it an *)
(* acknowledgement.                                                        *)
RunDropped ==
  /\ UiFree /\ uiq # <<>> /\ Head(uiq).kind \in {"done", "spawn"}
  /\ Head(uiq).grp \notin listed
  /\ uiq' = Tail(uiq)
  /\ lost' = IF Head(uiq).kind = "done"
             THEN lost \cup {[msg |-> Head(uiq).msg, ok |-> Head(uiq).ok]}
             ELSE lost
  /\ UNCHANGED <<view, nextId, overlay, inflight, flush, disk, tasks, watcher,
                 world, used, idOf, queuedAt, composed, discarded, overtaken>>

(* Ok: the bubble becomes a confirmed row, the durable entry is deleted.   *)
RunAck ==
  /\ UiReady /\ TakeHead("done") /\ Head(uiq).grp \in listed /\ Head(uiq).ok
  /\ DropSend(Head(uiq).grp, Head(uiq).id)
  /\ Unpersist(Head(uiq).id)
  /\ UNCHANGED <<view, nextId, inflight, flush, tasks, watcher, world, used,
                 history>>

(* Err while offline: bubble and entry wait for the reconnect flush        *)
(* (mutant: the entry goes with any completion).                           *)
ForgetOfflineError ==
  /\ UiFree /\ TakeHead("done") /\ Head(uiq).grp \in listed
  /\ ~Head(uiq).ok /\ ~Head(uiq).online
  /\ Unpersist(Head(uiq).id)
  /\ UNCHANGED <<view, nextId, overlay, inflight, flush, tasks, watcher, world,
                 used, history>>

RunOfflineError ==
  /\ UiFree /\ TakeHead("done") /\ Head(uiq).grp \in listed
  /\ ~Head(uiq).ok /\ ~Head(uiq).online
  /\ UNCHANGED <<view, nextId, overlay, inflight, flush, disk, tasks, watcher,
                 world, used, history>>

(* Err while online: the bubble turns red; the entry stays.                *)
RunRealError ==
  /\ UiReady /\ TakeHead("done") /\ Head(uiq).grp \in listed
  /\ ~Head(uiq).ok /\ Head(uiq).online
  /\ SetFailed(Head(uiq).grp, Head(uiq).id, TRUE)
  /\ UNCHANGED <<view, nextId, inflight, flush, disk, tasks, watcher, world,
                 used, history>>

(* spawn_attachment_send, spawn_album_send, spawn_text_forward: a first    *)
(* send is enqueued, a replay keeps its id and, if present, its bubble.    *)
RunFirstSpawn ==
  /\ UiReady /\ TakeHead("spawn") /\ Head(uiq).grp \in listed
  /\ Head(uiq).id = NoId
  /\ Enqueue(Head(uiq).msg, Head(uiq).grp)
  /\ UNCHANGED <<view, flush, gathering, watcher, world, composed, overtaken,
                 lost>>

RunReplay ==
  /\ UiReady /\ TakeHead("spawn") /\ Head(uiq).grp \in listed
  /\ Head(uiq).id # NoId
  /\ LET c == Head(uiq) IN
       /\ overlay' = IF Found(c.grp, c.id) THEN overlay
                     ELSE [overlay EXCEPT ![<<c.grp, c.id>>] =
                             <<[msg |-> c.msg, failed |-> FALSE]>>]
       /\ Dispatch(c.id, c.msg, c.grp)
  /\ UNCHANGED <<view, nextId, flush, disk, gathering, watcher, world, used,
                 history>>

(* refresh_chats_from: the snapshot's ids become the listed chats.         *)
RunChats ==
  /\ UiFree /\ TakeHead("chats")
  /\ listed' = Head(uiq).ids
  /\ UNCHANGED <<proc, active, fetching, nextId, overlay, inflight, flush,
                 disk, tasks, watcher, world, used, history>>
-----------------------------------------------------------------------------
(* The connectivity watcher and the flush it asks for.                     *)

(* A flush is due on the first poll and on every offline-to-online edge    *)
(* (mutant: on the first poll only).                                       *)
FirstPollOnly == ~announced
FlushDue == ~announced \/ (~conn /\ relay)

WatcherTick ==
  /\ proc = "ready"
  /\ conn' = relay /\ announced' = TRUE
  /\ flushReq' = (flushReq \/ FlushDue)
  /\ UNCHANGED <<view, ram, disk, tasks, world, used, history>>

(* The flush timer: load_all and the online flag are read once.            *)
FlushTick ==
  /\ TimerOutlivesScope /\ UiReady /\ flushReq
  /\ flushReq' = FALSE
  /\ flush' = [todo |-> {e \in disk : e.acct = active}, online |-> conn]
  /\ UNCHANGED <<view, nextId, overlay, inflight, uiq, disk, tasks, conn,
                 announced, world, used, history>>

Within(s, t) == s - t <= Window /\ t - s <= Window

(* looks_already_sent: a text of mine with this body near that time        *)
(* (mutants: any body matches; the guard is left out).                     *)
AnyBodySent(e) ==
  /\ IsText(e.msg)
  /\ \E r \in store : r.grp = e.grp /\ r.acct = active /\ Within(r.at, e.at)
NeverLooks(e) == FALSE
LooksAlreadySent(e) ==
  /\ IsText(e.msg)
  /\ \E r \in store : /\ r.grp = e.grp /\ r.acct = active
                      /\ BodyOf[r.msg] = BodyOf[e.msg]
                      /\ Within(r.at, e.at)

(* In flight already, or red and waiting for the user (mutant: only red).  *)
SkipsRedOnly(e) == Found(e.grp, e.id) /\ FindSend(e.grp, e.id).failed
SkipsFlush(e) ==
  \/ e.id \in inflight
  \/ Found(e.grp, e.id) /\ FindSend(e.grp, e.id).failed

(* A completion of this id is posted but has not run.                      *)
Unheard(i) == \E k \in DOMAIN uiq : uiq[k].kind = "done" /\ uiq[k].id = i

(* flush_offline_queue, one entry, oldest first.                           *)
Visit(e) ==
  /\ proc # "off" /\ e \in flush.todo
  /\ \A f \in flush.todo : e.at <= f.at
  /\ flush' = [flush EXCEPT !.todo = @ \ {e}]

FlushSkip(e) ==
  /\ Visit(e) /\ SkipsFlush(e)
  /\ UNCHANGED <<view, nextId, overlay, inflight, uiq, disk, tasks, watcher,
                 world, used, history>>

FlushForget(e) ==
  /\ Visit(e) /\ ~SkipsFlush(e) /\ ~Found(e.grp, e.id) /\ LooksAlreadySent(e)
  /\ Unpersist(e.id)
  /\ UNCHANGED <<view, nextId, overlay, inflight, uiq, tasks, watcher, world,
                 used, history>>

FlushSend(e) ==
  /\ Visit(e) /\ ~SkipsFlush(e)
  /\ Found(e.grp, e.id) \/ ~LooksAlreadySent(e)
  /\ overlay' = IF Found(e.grp, e.id) THEN overlay
                ELSE [overlay EXCEPT ![<<e.grp, e.id>>] =
                        <<[msg |-> e.msg, failed |-> FALSE]>>]
  /\ \/ /\ ~flush.online
        /\ UNCHANGED <<inflight, ops, attempts, uiq, overtaken>>
     \/ /\ flush.online /\ IsText(e.msg) /\ proc = "ready"
        /\ Dispatch(e.id, e.msg, e.grp)
        /\ overtaken' = IF Unheard(e.id) THEN overtaken \cup {e.msg}
                        ELSE overtaken
        /\ UNCHANGED uiq
     \/ /\ flush.online /\ ~IsText(e.msg)
        /\ inflight' = inflight \cup {e.id}
        /\ Post(Spawn(e.id, e.msg, e.grp))
        /\ overtaken' = IF Unheard(e.id) THEN overtaken \cup {e.msg}
                        ELSE overtaken
        /\ UNCHANGED <<ops, attempts>>
  /\ UNCHANGED <<view, nextId, disk, gathering, watcher, world, used, idOf,
                 queuedAt, composed, discarded, lost>>
-----------------------------------------------------------------------------
(* The environment.                                                        *)

RelayDown == /\ relay /\ Spend("outage") /\ relay' = FALSE
             /\ UNCHANGED <<view, ram, disk, tasks, watcher, now, store, sent,
                            history>>

RelayUp == /\ ~relay /\ (OutagesOutlastPoll => ~conn) /\ relay' = TRUE
           /\ UNCHANGED <<view, ram, disk, tasks, watcher, now, store, sent,
                          used, history>>

Tick == /\ now < MaxNow /\ now' = now + 1
        /\ UNCHANGED <<view, ram, disk, tasks, watcher, relay, store, sent,
                       used, history>>

(* The process ends: everything but the queue's files and the message      *)
(* store is gone (the temp-id counter too).                                *)
Exit ==
  /\ proc' = "off" /\ listed' = {} /\ fetching' = 0
  /\ nextId' = 0 /\ overlay' = NoBubbles /\ inflight' = {} /\ uiq' = <<>>
  /\ flush' = Idle
  /\ ops' = {} /\ attempts' = [m \in Msgs |-> 0] /\ gathering' = {}
  /\ conn' = FALSE /\ announced' = FALSE /\ flushReq' = FALSE
  /\ UNCHANGED <<active, world, history>>

Crash == proc = "ready" /\ Spend("crash") /\ Exit /\ UNCHANGED disk

(* The event loop meets the poisoned mutex; an acknowledgement has deleted *)
(* its entry by then.                                                      *)
UiPanic ==
  /\ proc = "poisoned" /\ Exit /\ UNCHANGED used
  /\ \/ UNCHANGED disk
     \/ /\ uiq # <<>> /\ Head(uiq).kind = "done" /\ flush.todo = {}
        /\ Head(uiq).ok /\ Head(uiq).grp \in listed
        /\ Unpersist(Head(uiq).id)

(* Start, unlock, boot: the chat list is requested.                        *)
Restart == /\ proc = "off" /\ proc' = "ready" /\ fetching' = 1
           /\ UNCHANGED <<active, listed, ram, disk, tasks, watcher, world,
                          used, history>>

(* reset_vault, from the unlock screen: offline_queue::clear.              *)
ResetVault ==
  /\ proc = "off" /\ Spend("reset")
  /\ disk' = {} /\ discarded' = discarded \cup {e.msg : e \in disk}
  /\ UNCHANGED <<view, ram, tasks, watcher, world, idOf, queuedAt, composed,
                 overtaken, lost>>
-----------------------------------------------------------------------------
User == \/ \E m \in Msgs : SendText(m) \/ SendMedia(m) \/ RequestForward(m)
        \/ \E g \in Groups, i \in Ids : Retry(g, i)
        \/ \E a \in Accounts : SwitchAccount(a)

Worker == \/ \E o \in ops : \/ Publish(o) \/ Fail(o)
                            \/ Resolve(o) \/ ResolvePanics(o)
          \/ \E f \in gathering : FinishGather(f)
          \/ FetchChats

RunClosure == \/ RunDropped \/ RunAck \/ RunOfflineError \/ RunRealError
              \/ RunFirstSpawn \/ RunReplay \/ RunChats

FlushVisit == \E e \in flush.todo : \/ FlushSkip(e) \/ FlushForget(e)
                                    \/ FlushSend(e)

Environment == \/ RelayDown \/ RelayUp \/ Tick \/ Crash \/ UiPanic \/ Restart
               \/ ResetVault

Next == \/ User \/ Worker \/ RunClosure \/ WatcherTick \/ FlushTick
        \/ FlushVisit \/ Environment

Spec == Init /\ [][Next]_vars

(* What the schedulers owe: tokio runs every task, the event loop every    *)
(* closure and timer, the watcher polls, an outage ends, the user starts   *)
(* the program again.  The user owes nothing else.                         *)
Fairness ==
  /\ \A m \in Msgs :
       WF_vars(\E o \in ops : /\ o.msg = m
                              /\ \/ Publish(o) \/ Fail(o)
                                 \/ Resolve(o) \/ ResolvePanics(o))
  /\ WF_vars(\E f \in gathering : FinishGather(f))
  /\ WF_vars(FetchChats) /\ WF_vars(RunClosure)
  /\ WF_vars(WatcherTick) /\ WF_vars(FlushTick) /\ WF_vars(FlushVisit)
  /\ WF_vars(RelayUp) /\ WF_vars(UiPanic) /\ WF_vars(Restart)

FairSpec == Spec /\ Fairness
-----------------------------------------------------------------------------
(* Properties.                                                             *)

(* Every variable keeps the shape of its Rust counterpart.                 *)
TypeOK ==
  /\ proc \in {"off", "ready", "poisoned"}
  /\ active \in Accounts /\ listed \subseteq Groups /\ fetching \in Nat
  /\ nextId \in 0 .. MaxSends
  /\ overlay \in [Groups \X Ids -> Seq(Bubble)]
  /\ disk \subseteq Entry /\ inflight \subseteq Ids
  /\ ops \subseteq Op /\ attempts \in [Msgs -> Nat]
  /\ gathering \subseteq Gather /\ uiq \in Seq(Closure)
  /\ flush \in [todo : SUBSET Entry, online : BOOLEAN]
  /\ conn \in BOOLEAN /\ announced \in BOOLEAN /\ flushReq \in BOOLEAN
  /\ relay \in BOOLEAN /\ now \in 0 .. MaxNow
  /\ store \subseteq [msg : Msgs, grp : Groups, acct : Accounts,
                      at : 0 .. MaxNow]
  /\ sent \in [Msgs -> Nat] /\ used \in [Faults -> Nat]
  /\ idOf \in [Msgs -> Ids \cup {NoId}] /\ queuedAt \in [Msgs -> 0 .. MaxNow]
  /\ composed \subseteq Msgs /\ discarded \subseteq Msgs
  /\ overtaken \subseteq Msgs /\ lost \subseteq [msg : Msgs, ok : BOOLEAN]

(* Everything that carries a temp id carries it for the message that was   *)
(* queued under it, and nothing claims a success that did not happen.      *)
Named(m, i) == idOf[m] = i

OpsNamed == \A o \in ops : /\ Named(o.msg, o.id)
                           /\ o.stage = "sent" => sent[o.msg] > 0

ClosureNamed(c) ==
  /\ c.kind = "done" => Named(c.msg, c.id) /\ (c.ok => sent[c.msg] > 0)
  /\ c.kind = "spawn" /\ c.id # NoId => Named(c.msg, c.id)

ClosuresNamed == \A k \in DOMAIN uiq : ClosureNamed(uiq[k])

BubblesNamed == \A gi \in Groups \X Ids :
                  \A k \in DOMAIN overlay[gi] : Named(overlay[gi][k].msg, gi[2])

EntriesNamed == \A e \in disk \cup flush.todo : Named(e.msg, e.id)

StoreSent == \A r \in store : sent[r.msg] > 0

(* A message waiting for its first temp id waits in one place only.        *)
FirstSpawn(c) == c.kind = "spawn" /\ c.id = NoId

QueuedComposed == \A m \in Msgs : idOf[m] # NoId => m \in composed

GathersFirst ==
  /\ \A x \in gathering : x.msg \in composed /\ Named(x.msg, NoId)
  /\ \A x, y \in gathering : x.msg = y.msg => x = y

SpawnsFirst ==
  \A k \in DOMAIN uiq : FirstSpawn(uiq[k]) =>
    /\ uiq[k].msg \in composed /\ Named(uiq[k].msg, NoId)
    /\ \A x \in gathering : x.msg # uiq[k].msg
    /\ \A j \in DOMAIN uiq :
         FirstSpawn(uiq[j]) /\ uiq[j].msg = uiq[k].msg => j = k

Provenance == /\ OpsNamed /\ ClosuresNamed /\ BubblesNamed /\ EntriesNamed
              /\ StoreSent /\ QueuedComposed /\ GathersFirst /\ SpawnsFirst

(* The temp id of m was handed out to another message too: the counter     *)
(* starts over with the process, the files do not.                         *)
Reused(m) == \E n \in Msgs \ {m} : idOf[n] = idOf[m]

(* Another message has the body of m.                                      *)
Twin(m) == \E n \in Msgs \ {m} : BodyOf[n] = BodyOf[m]

OnDisk(m) == \E e \in disk : e.msg = m /\ e.id = idOf[m]

(* What offline_queue.rs:3 promises, with the two exceptions the code has: *)
(* a message the user has queued stays on disk until it has reached a      *)
(* relay, through failures, switches, panics and restarts, unless its id   *)
(* is given away or a message with its body stands in for it.              *)
Retained ==
  \A m \in Msgs : idOf[m] # NoId /\ sent[m] = 0 =>
    OnDisk(m) \/ m \in discarded \/ Reused(m) \/ Twin(m)

(* offline_queue.rs:3 as it stands (bodies differ in the run).             *)
SurvivesRestart ==
  \A m \in Msgs : idOf[m] # NoId /\ sent[m] = 0 =>
    OnDisk(m) \/ m \in discarded

(* The guards against sending a text twice (offline_inflight in a session, *)
(* looks_already_sent after it) fail in four ways only: the flush          *)
(* overtakes a posted completion, an acknowledgement finds its chat not    *)
(* listed, the message reached the relays longer than the dedup window     *)
(* after it was queued, or its temp id was handed out again after a        *)
(* restart, so that a retry of the one resends the other.                  *)
AtMostOnceForText ==
  \A m \in Msgs : IsText(m) /\ sent[m] > 1 =>
    \/ m \in overtaken \/ [msg |-> m, ok |-> TRUE] \in lost \/ Reused(m)
    \/ \E r \in store : r.msg = m /\ ~Within(r.at, queuedAt[m])

(* A bubble that says "sending" is not a lie: the message is being sent,   *)
(* its completion is on its way, or its entry is there for the next flush. *)
Carried(g, i, m) ==
  \/ \E o \in ops : o.id = i /\ o.msg = m
  \/ \E k \in DOMAIN uiq : uiq[k].kind \in {"done", "spawn"} /\ uiq[k].msg = m
  \/ OnDisk(m)

BubbleBacked ==
  \A g \in Groups, i \in Ids : \A k \in DOMAIN overlay[<<g, i>>] :
    LET bubble == overlay[<<g, i>>][k] IN
      bubble.failed \/ Carried(g, i, bubble.msg) \/ Reused(bubble.msg)
      \/ bubble.msg \in discarded \cup overtaken

(* The in-flight mark that makes the flush skip an entry is lifted again:  *)
(* a task or a posted replay that will resolve still carries the id.       *)
InflightBacked ==
  \A i \in inflight :
    \/ \E o \in ops : o.id = i
    \/ \E k \in DOMAIN uiq : uiq[k].kind = "spawn" /\ uiq[k].id = i

(* The files of the queue are what Outbox holds, the messages that reached *)
(* a relay what it has delivered: the queue keeps what Outbox promises.    *)
Queue == INSTANCE Outbox WITH
           queued    <- {e.msg : e \in disk},
           delivered <- {m \in Msgs : sent[m] > 0}

OutboxImplemented == Queue!Spec

(* main.rs:311: a failure is polled and reported by the worker: a failed   *)
(* task ends by posting its completion.                                    *)
FailureIsReported ==
  [][\A o \in ops : o.stage = "failed" /\ o \notin ops' /\ proc' # "off" =>
       uiq' = Append(uiq, Done(o))]_vars

(* panes.rs:31: after a switch no index resolves against the chat list of  *)
(* the account that was left.                                              *)
ListedIsActive == listed \subseteq GroupsOf[active]

(* extra.rs:1126: a queued text eventually reaches the relays or turns red *)
(* for the user to decide, unless the report of its failure is lost        *)
(* because the chat list is not up yet.                                    *)
Red(m) == \E gi \in Groups \X Ids : \E k \in DOMAIN overlay[gi] :
            overlay[gi][k].msg = m /\ overlay[gi][k].failed

QueuedTextLeaves ==
  \A m \in Msgs : IsText(m) =>
    (idOf[m] # NoId ~> \/ sent[m] > 0 \/ Red(m) \/ m \in discarded
                       \/ [msg |-> m, ok |-> FALSE] \in lost)
=============================================================================
