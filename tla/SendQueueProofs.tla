--------------------------- MODULE SendQueueProofs ----------------------------
(***************************************************************************)
(* TLAPS proofs about SendQueue, for every value of its constants: type    *)
(* correctness, the provenance of temp ids, and from it Retained, the      *)
(* queue's promise that a message stays on disk until it has been sent;    *)
(* then that bubbles and in-flight marks are backed by work that is really *)
(* going on, that a text is sent once unless one of the four known gaps    *)
(* opens, and that the queue implements Outbox while the process lives.    *)
(***************************************************************************)
EXTENDS SendQueue, TLAPS

USE ConstantsOK

(* The head of a non-empty queue of closures is a closure.                 *)
LEMMA HeadClosure ==
  ASSUME TypeOK, uiq # <<>>
  PROVE  /\ Head(uiq) \in Closure
         /\ Tail(uiq) \in Seq(Closure)
BY DEF TypeOK

(* Budgets stay natural numbers.                                           *)
LEMMA SpendTypes ==
  ASSUME TypeOK, NEW x \in Faults, Spend(x)
  PROVE  used' \in [Faults -> Nat]
BY DEF TypeOK, Spend

(* A dispatched task is well typed.                                        *)
LEMMA DispatchTypes ==
  ASSUME TypeOK, NEW i \in Ids, NEW m \in Msgs, NEW g \in Groups,
         Dispatch(i, m, g)
  PROVE  ops' \subseteq Op /\ attempts' \in [Msgs -> Nat] /\ inflight' \subseteq Ids
BY DEF TypeOK, Dispatch, Op

(* So is a posted closure.                                                 *)
LEMMA PostTypes ==
  ASSUME TypeOK, NEW c \in Closure, Post(c)
  PROVE  uiq' \in Seq(Closure)
BY DEF TypeOK, Post

(* A closure that starts a media send or a replay is one.                  *)
LEMMA SpawnTypes ==
  ASSUME NEW i \in Ids \cup {NoId}, NEW m \in Msgs, NEW g \in Groups
  PROVE  Spawn(i, m, g) \in Closure
BY DEF Spawn, Closure

(* Failing or unfailing the bubbles of an id keeps them bubbles.           *)
LEMMA SetFailedTypes ==
  ASSUME TypeOK, NEW g \in Groups, NEW i \in Ids, NEW b \in BOOLEAN,
         SetFailed(g, i, b)
  PROVE  overlay' \in [Groups \X Ids -> Seq(Bubble)]
<1> DEFINE old == overlay[<<g, i>>]
           new == [k \in DOMAIN old |-> [msg |-> old[k].msg, failed |-> b]]
<1>1. old \in Seq(Bubble)
  BY DEF TypeOK
<1>2. DOMAIN old = 1 .. Len(old) /\ Len(old) \in Nat
  BY <1>1
<1>3. \A k \in 1 .. Len(old) : old[k] \in Bubble
  BY <1>1
<1>4. \A k \in 1 .. Len(old) : [msg |-> old[k].msg, failed |-> b] \in Bubble
  BY <1>3 DEF Bubble
<1>5. new \in Seq(Bubble)
  <2>1. new \in [1 .. Len(old) -> Bubble]
    BY <1>2, <1>4
  <2>2. \A n \in Nat : \A h \in [1 .. n -> Bubble] : h \in Seq(Bubble)
    OBVIOUS
  <2> HIDE DEF new
  <2>3. QED
    BY <1>2, <2>1, <2>2
<1>6. overlay' = [overlay EXCEPT ![<<g, i>>] = new]
  BY DEF SetFailed
<1>7. QED
  BY <1>5, <1>6 DEF TypeOK

(* A rendered bubble is one.                                               *)
LEMMA RenderTypes ==
  ASSUME TypeOK, NEW g \in Groups, NEW i \in Ids, NEW m \in Msgs
  PROVE  [overlay EXCEPT ![<<g, i>>] = <<[msg |-> m, failed |-> FALSE]>>]
           \in [Groups \X Ids -> Seq(Bubble)]
<1>1. <<[msg |-> m, failed |-> FALSE]>> \in Seq(Bubble)
  BY DEF Bubble
<1>2. QED
  BY <1>1 DEF TypeOK

(* A fresh temp id is a legal one, and what Enqueue writes is well typed.  *)
LEMMA EnqueueTypes ==
  ASSUME TypeOK, NEW m \in Msgs, NEW g \in Groups, Enqueue(m, g)
  PROVE  /\ nextId' \in 0 .. MaxSends
         /\ overlay' \in [Groups \X Ids -> Seq(Bubble)]
         /\ disk' \subseteq Entry /\ inflight' \subseteq Ids
         /\ ops' \subseteq Op /\ attempts' \in [Msgs -> Nat]
         /\ used' \in [Faults -> Nat]
         /\ idOf' \in [Msgs -> Ids \cup {NoId}]
         /\ queuedAt' \in [Msgs -> 0 .. MaxNow]
         /\ discarded' \subseteq Msgs
<1>1. nextId \in Ids /\ nextId + 1 \in 0 .. MaxSends
  BY DEF TypeOK, Enqueue, Ids
<1>2. <<g, nextId>> \in Groups \X Ids /\ [msg |-> m, failed |-> FALSE] \in Bubble
  BY <1>1 DEF Bubble
<1>3. overlay' \in [Groups \X Ids -> Seq(Bubble)]
  BY <1>2 DEF TypeOK, Enqueue, NextTempId
<1>4. [id |-> nextId, msg |-> m, acct |-> active, grp |-> g, at |-> now] \in Entry
  BY <1>1 DEF TypeOK, Entry
<1>5. disk' \subseteq Entry
  BY <1>4 DEF TypeOK, Enqueue, NextTempId, Persist
<1>6. used' \in [Faults -> Nat] /\ discarded' \subseteq Msgs
  <2>1. CASE UNCHANGED <<discarded, used>>
    BY <2>1 DEF TypeOK
  <2>2. CASE Spend("diskFull") /\ discarded' = discarded \cup {m}
    BY <2>2, SpendTypes DEF TypeOK, Faults
  <2>3. QED
    BY <2>1, <2>2 DEF Enqueue, Persist
<1>7. ops' \subseteq Op /\ attempts' \in [Msgs -> Nat] /\ inflight' \subseteq Ids
  BY <1>1, DispatchTypes DEF Enqueue, NextTempId
<1>8. QED
  BY <1>1, <1>3, <1>5, <1>6, <1>7 DEF TypeOK, Enqueue, NextTempId

(* The initial state is well typed.                                        *)
LEMMA InitTypes == Init => TypeOK
<1> SUFFICES ASSUME Init PROVE TypeOK
  OBVIOUS
<1>1. 0 \in 0 .. MaxSends /\ 0 \in 0 .. MaxNow /\ 0 \in Nat /\ 1 \in Nat
  OBVIOUS
<1>2. overlay \in [Groups \X Ids -> Seq(Bubble)]
  BY DEF Init, NoBubbles
<1>3. flush \in [todo : SUBSET Entry, online : BOOLEAN]
  BY DEF Init, Idle
<1>4. /\ attempts \in [Msgs -> Nat] /\ sent \in [Msgs -> Nat]
      /\ used \in [Faults -> Nat]
  BY <1>1 DEF Init
<1>5. uiq \in Seq(Closure)
  BY DEF Init
<1>6. idOf \in [Msgs -> Ids \cup {NoId}] /\ queuedAt \in [Msgs -> 0 .. MaxNow]
  BY <1>1 DEF Init
<1>7. /\ listed \subseteq Groups /\ disk \subseteq Entry /\ inflight \subseteq Ids
      /\ ops \subseteq Op /\ gathering \subseteq Gather
      /\ store \subseteq [msg : Msgs, grp : Groups, acct : Accounts, at : 0 .. MaxNow]
      /\ composed \subseteq Msgs /\ discarded \subseteq Msgs
      /\ overtaken \subseteq Msgs /\ lost \subseteq [msg : Msgs, ok : BOOLEAN]
  BY DEF Init
<1>8. /\ proc \in {"off", "ready", "poisoned"} /\ active \in Accounts
      /\ fetching \in Nat /\ nextId \in 0 .. MaxSends /\ now \in 0 .. MaxNow
      /\ conn \in BOOLEAN /\ announced \in BOOLEAN /\ flushReq \in BOOLEAN
      /\ relay \in BOOLEAN
  BY <1>1 DEF Init
<1>9. QED
  BY <1>2, <1>3, <1>4, <1>5, <1>6, <1>7, <1>8 DEF TypeOK

(* The user's actions keep the types.                                      *)
LEMMA UserTypes == TypeOK /\ User => TypeOK'
<1> SUFFICES ASSUME TypeOK, User PROVE TypeOK'
  OBVIOUS
<1> USE DEF view, ram, tasks, watcher, world, history
<1>1. ASSUME NEW m \in Msgs, SendText(m) PROVE TypeOK'
  <2>1. GroupOf[m] \in Groups /\ Enqueue(m, GroupOf[m])
    BY <1>1 DEF SendText
  <2>2. /\ nextId' \in 0 .. MaxSends
        /\ overlay' \in [Groups \X Ids -> Seq(Bubble)]
        /\ disk' \subseteq Entry /\ inflight' \subseteq Ids
        /\ ops' \subseteq Op /\ attempts' \in [Msgs -> Nat]
        /\ used' \in [Faults -> Nat]
        /\ idOf' \in [Msgs -> Ids \cup {NoId}]
        /\ queuedAt' \in [Msgs -> 0 .. MaxNow]
        /\ discarded' \subseteq Msgs
    BY <2>1, EnqueueTypes
  <2>3. QED
    BY <1>1, <2>2 DEF SendText, TypeOK
<1>2. ASSUME NEW m \in Msgs, SendMedia(m) PROVE TypeOK'
  <2>1. uiq' \in Seq(Closure)
    BY <1>2, SpawnTypes, PostTypes DEF SendMedia
  <2>2. QED
    BY <1>2, <2>1 DEF SendMedia, TypeOK
<1>3. ASSUME NEW m \in Msgs, RequestForward(m) PROVE TypeOK'
  <2>1. [msg |-> m, acct |-> active] \in Gather
    BY DEF TypeOK, Gather
  <2>2. composed' \subseteq Msgs /\ gathering' \subseteq Gather
    BY <1>3, <2>1 DEF RequestForward, TypeOK
  <2>3. QED
    BY <1>3, <2>2 DEF RequestForward, TypeOK
<1>4. ASSUME NEW g \in Groups, NEW i \in Ids, Retry(g, i) PROVE TypeOK'
  <2>1. overlay' \in [Groups \X Ids -> Seq(Bubble)]
    BY <1>4, SetFailedTypes DEF Retry
  <2>2. FindSend(g, i).msg \in Msgs
    <3>1. overlay[<<g, i>>] \in Seq(Bubble) /\ overlay[<<g, i>>] # <<>>
      BY <1>4 DEF Retry, Found, TypeOK
    <3>2. Head(overlay[<<g, i>>]) \in Bubble
      BY <3>1
    <3>3. QED
      BY <3>2 DEF FindSend, Bubble
  <2>3. CASE Dispatch(i, FindSend(g, i).msg, g) /\ UNCHANGED uiq
    <3>1. ops' \subseteq Op /\ attempts' \in [Msgs -> Nat] /\ inflight' \subseteq Ids
      BY <2>2, <2>3, DispatchTypes
    <3>2. QED
      BY <1>4, <2>1, <2>3, <3>1 DEF Retry, TypeOK
  <2>4. ASSUME NEW e \in disk, Post(Spawn(i, e.msg, g)),
               inflight' = inflight \cup {i}, UNCHANGED <<ops, attempts>>
        PROVE  TypeOK'
    <3>1. uiq' \in Seq(Closure)
      BY <2>4, SpawnTypes, PostTypes DEF TypeOK, Entry
    <3>2. QED
      BY <1>4, <2>1, <2>4, <3>1 DEF Retry, TypeOK
  <2>5. CASE UNCHANGED <<uiq, inflight, ops, attempts>>
    BY <1>4, <2>1, <2>5 DEF Retry, TypeOK
  <2>6. QED
    BY <1>4, <2>3, <2>4, <2>5 DEF Retry
<1>5. ASSUME NEW a \in Accounts, SwitchAccount(a) PROVE TypeOK'
  <2>1. NoBubbles \in [Groups \X Ids -> Seq(Bubble)]
    BY DEF NoBubbles
  <2>2. used' \in [Faults -> Nat]
    BY <1>5, SpendTypes DEF SwitchAccount, Faults
  <2>3. fetching' \in Nat /\ listed' \subseteq Groups
    BY <1>5 DEF SwitchAccount, TypeOK
  <2>4. QED
    BY <1>5, <2>1, <2>2, <2>3 DEF SwitchAccount, TypeOK
<1>6. QED
  BY <1>1, <1>2, <1>3, <1>4, <1>5 DEF User

(* So do the workers'.                                                     *)
LEMMA WorkerTypes == TypeOK /\ Worker => TypeOK'
<1> SUFFICES ASSUME TypeOK, Worker PROVE TypeOK'
  OBVIOUS
<1> USE DEF view, ram, tasks, watcher, world, history
<1>1. ASSUME NEW o \in ops, Publish(o) PROVE TypeOK'
  <2>0. o \in Op /\ active \in Accounts /\ now \in 0 .. MaxNow
    BY DEF TypeOK
  <2>1. /\ [o EXCEPT !.stage = "sent"] \in Op
        /\ o.msg \in Msgs /\ o.grp \in Groups /\ o.acct \in Accounts
    BY <2>0 DEF Op
  <2>2. ops' \subseteq Op
    BY <1>1, <2>1 DEF Publish, TypeOK
  <2>3. sent' \in [Msgs -> Nat]
    <3>1. sent' = [sent EXCEPT ![o.msg] = sent[o.msg] + 1] /\ sent \in [Msgs -> Nat]
      BY <1>1 DEF Publish, TypeOK
    <3>2. QED
      BY <2>1, <3>1
  <2>4. store' \subseteq [msg : Msgs, grp : Groups, acct : Accounts, at : 0 .. MaxNow]
    <3>1. [msg |-> o.msg, grp |-> o.grp, acct |-> o.acct, at |-> now]
            \in [msg : Msgs, grp : Groups, acct : Accounts, at : 0 .. MaxNow]
      BY <2>0, <2>1
    <3>2. QED
      BY <1>1, <3>1 DEF Publish, TypeOK
  <2>5. QED
    BY <1>1, <2>2, <2>3, <2>4 DEF Publish, TypeOK
<1>2. ASSUME NEW o \in ops, Fail(o) PROVE TypeOK'
  <2>0. o \in Op
    BY DEF TypeOK
  <2>1. [o EXCEPT !.stage = "failed"] \in Op
    BY <2>0 DEF Op
  <2>2. ops' \subseteq Op
    BY <1>2, <2>1 DEF Fail, TypeOK
  <2>3. used' \in [Faults -> Nat]
    BY <1>2, SpendTypes DEF Fail, TypeOK, Faults
  <2>4. QED
    BY <1>2, <2>2, <2>3 DEF Fail, TypeOK
<1>3. ASSUME NEW o \in ops, Resolve(o) PROVE TypeOK'
  <2>1. Done(o) \in Closure
    BY DEF TypeOK, Done, Op, Closure
  <2>2. uiq' \in Seq(Closure)
    BY <1>3, <2>1, PostTypes DEF Resolve
  <2>3. QED
    BY <1>3, <2>2 DEF Resolve, TypeOK, LiftMark
<1>4. ASSUME NEW o \in ops, ResolvePanics(o) PROVE TypeOK'
  BY <1>4 DEF ResolvePanics, TypeOK, LiftMark
<1>5. ASSUME NEW f \in gathering, FinishGather(f) PROVE TypeOK'
  <2>1. Spawn(NoId, f.msg, GroupOf[f.msg]) \in Closure
    BY SpawnTypes DEF TypeOK, Gather
  <2>2. uiq' \in Seq(Closure)
    BY <1>5, <2>1, PostTypes DEF FinishGather, TypeOK
  <2>3. QED
    BY <1>5, <2>2 DEF FinishGather, TypeOK
<1>6. CASE FetchChats
  <2>1. [kind |-> "chats", ids |-> GroupsOf[active]] \in Closure
    BY DEF TypeOK, Closure
  <2>2. uiq' \in Seq(Closure)
    BY <1>6, <2>1, PostTypes DEF FetchChats
  <2>3. fetching' \in Nat
    BY <1>6 DEF FetchChats, TypeOK
  <2>4. QED
    BY <1>6, <2>2, <2>3 DEF FetchChats, TypeOK
<1>7. QED
  BY <1>1, <1>2, <1>3, <1>4, <1>5, <1>6 DEF Worker

(* So do the closures of the event loop.                                   *)
LEMMA ClosureTypes == TypeOK /\ RunClosure => TypeOK'
<1> SUFFICES ASSUME TypeOK, RunClosure PROVE TypeOK'
  OBVIOUS
<1> USE DEF view, ram, tasks, watcher, world, history
<1>h. uiq # <<>> /\ Head(uiq) \in Closure /\ Tail(uiq) \in Seq(Closure)
  BY HeadClosure DEF RunClosure, RunDropped, RunAck, RunOfflineError,
     RunRealError, RunFirstSpawn, RunReplay, RunChats, TakeHead
<1>1. CASE RunDropped
  <2>1. /\ Head(uiq).kind = "done" => Head(uiq).ok \in BOOLEAN
        /\ Head(uiq).kind \in {"done", "spawn"} => Head(uiq).msg \in Msgs
    BY <1>h DEF Closure
  <2>2. lost' \subseteq [msg : Msgs, ok : BOOLEAN]
    <3>1. lost \subseteq [msg : Msgs, ok : BOOLEAN]
      BY DEF TypeOK
    <3>2. CASE Head(uiq).kind = "done"
      BY <1>1, <2>1, <3>1, <3>2 DEF RunDropped
    <3>3. CASE Head(uiq).kind # "done"
      BY <1>1, <3>1, <3>3 DEF RunDropped
    <3>4. QED
      BY <3>2, <3>3
  <2>3. QED
    BY <1>h, <1>1, <2>2 DEF RunDropped, TypeOK
<1>2. CASE RunAck
  <2>1. overlay' \in [Groups \X Ids -> Seq(Bubble)]
    <3>1. overlay' = [overlay EXCEPT ![<<Head(uiq).grp, Head(uiq).id>>] = <<>>]
      BY <1>2 DEF RunAck, DropSend
    <3>2. <<>> \in Seq(Bubble)
      OBVIOUS
    <3>3. QED
      BY <3>1, <3>2 DEF TypeOK
  <2>2. QED
    BY <1>h, <1>2, <2>1 DEF RunAck, TypeOK, TakeHead, Unpersist
<1>3. CASE RunOfflineError
  BY <1>h, <1>3 DEF RunOfflineError, TypeOK, TakeHead
<1>4. CASE RunRealError
  <2>1. Head(uiq).grp \in Groups /\ Head(uiq).id \in Ids
    BY <1>h, <1>4 DEF RunRealError, TakeHead, Closure
  <2>2. overlay' \in [Groups \X Ids -> Seq(Bubble)]
    BY <1>4, <2>1, SetFailedTypes DEF RunRealError
  <2>3. QED
    BY <1>h, <1>4, <2>2 DEF RunRealError, TypeOK, TakeHead
<1>5. CASE RunFirstSpawn
  <2>1. Head(uiq).msg \in Msgs /\ Head(uiq).grp \in Groups
    BY <1>h, <1>5 DEF RunFirstSpawn, TakeHead, Closure
  <2>2. QED
    BY <1>h, <1>5, <2>1, EnqueueTypes DEF RunFirstSpawn, TypeOK, TakeHead
<1>6. CASE RunReplay
  <2>1. /\ Head(uiq).msg \in Msgs /\ Head(uiq).grp \in Groups
        /\ Head(uiq).id \in Ids
    BY <1>h, <1>6 DEF RunReplay, TakeHead, Closure
  <2>2. overlay' \in [Groups \X Ids -> Seq(Bubble)]
    BY <1>6, <2>1, RenderTypes DEF RunReplay, TypeOK
  <2>3. ops' \subseteq Op /\ attempts' \in [Msgs -> Nat] /\ inflight' \subseteq Ids
    BY <1>6, <2>1, DispatchTypes DEF RunReplay
  <2>4. QED
    BY <1>h, <1>6, <2>2, <2>3 DEF RunReplay, TypeOK, TakeHead
<1>7. CASE RunChats
  BY <1>h, <1>7 DEF RunChats, TypeOK, TakeHead, Closure
<1>8. QED
  BY <1>1, <1>2, <1>3, <1>4, <1>5, <1>6, <1>7 DEF RunClosure

(* So do the watcher and the flush.                                        *)
LEMMA FlushTypes == TypeOK /\ (WatcherTick \/ FlushTick \/ FlushVisit) => TypeOK'
<1> SUFFICES ASSUME TypeOK, WatcherTick \/ FlushTick \/ FlushVisit PROVE TypeOK'
  OBVIOUS
<1> USE DEF view, ram, tasks, watcher, world, history
<1>1. CASE WatcherTick
  BY <1>1 DEF WatcherTick, TypeOK, FlushDue
<1>2. CASE FlushTick
  BY <1>2 DEF FlushTick, TypeOK
<1>3. ASSUME NEW e \in flush.todo, FlushSkip(e) PROVE TypeOK'
  BY <1>3 DEF FlushSkip, Visit, TypeOK
<1>4. ASSUME NEW e \in flush.todo, FlushForget(e) PROVE TypeOK'
  BY <1>4 DEF FlushForget, Visit, Unpersist, TypeOK
<1>5. ASSUME NEW e \in flush.todo, FlushSend(e) PROVE TypeOK'
  <2>1. e.id \in Ids /\ e.msg \in Msgs /\ e.grp \in Groups
    BY DEF TypeOK, Entry
  <2>2. overlay' \in [Groups \X Ids -> Seq(Bubble)]
    BY <1>5, <2>1, RenderTypes DEF FlushSend, TypeOK
  <2>3. /\ ops' \subseteq Op /\ attempts' \in [Msgs -> Nat]
        /\ inflight' \subseteq Ids /\ uiq' \in Seq(Closure)
        /\ overtaken' \subseteq Msgs
    <3>1. CASE UNCHANGED <<inflight, ops, attempts, uiq, overtaken>>
      BY <3>1 DEF TypeOK
    <3>2. CASE Dispatch(e.id, e.msg, e.grp) /\ UNCHANGED uiq
      BY <1>5, <2>1, <3>2, DispatchTypes DEF FlushSend, TypeOK
    <3>3. CASE Post(Spawn(e.id, e.msg, e.grp)) /\ inflight' = inflight \cup {e.id}
               /\ UNCHANGED <<ops, attempts>>
      BY <1>5, <2>1, <3>3, SpawnTypes, PostTypes DEF FlushSend, TypeOK
    <3>4. QED
      BY <1>5, <3>1, <3>2, <3>3 DEF FlushSend
  <2>4. flush' \in [todo : SUBSET Entry, online : BOOLEAN]
    BY <1>5 DEF FlushSend, Visit, TypeOK
  <2>5. QED
    BY <1>5, <2>2, <2>3, <2>4 DEF FlushSend, TypeOK
<1>6. QED
  BY <1>1, <1>2, <1>3, <1>4, <1>5 DEF FlushVisit

(* The end of a process leaves well-typed RAM.                             *)
LEMMA ExitTypes ==
  ASSUME TypeOK, Exit, disk' \subseteq Entry, used' \in [Faults -> Nat]
  PROVE  TypeOK'
<1> USE DEF view, ram, tasks, watcher, world, history
<1>1. /\ overlay' \in [Groups \X Ids -> Seq(Bubble)]
      /\ flush' \in [todo : SUBSET Entry, online : BOOLEAN]
      /\ nextId' \in 0 .. MaxSends
  BY DEF Exit, NoBubbles, Idle
<1>2. uiq' \in Seq(Closure) /\ attempts' \in [Msgs -> Nat]
  BY DEF Exit
<1>3. QED
  BY <1>1, <1>2 DEF Exit, TypeOK

(* So does the environment.                                                *)
LEMMA EnvironmentTypes == TypeOK /\ Environment => TypeOK'
<1> SUFFICES ASSUME TypeOK, Environment PROVE TypeOK'
  OBVIOUS
<1> USE DEF view, ram, tasks, watcher, world, history
<1>1. CASE RelayDown
  BY <1>1, SpendTypes DEF RelayDown, TypeOK, Faults
<1>2. CASE RelayUp
  BY <1>2 DEF RelayUp, TypeOK
<1>3. CASE Tick
  BY <1>3 DEF Tick, TypeOK
<1>4. CASE Crash
  <2>1. used' \in [Faults -> Nat] /\ disk' \subseteq Entry
    BY <1>4, SpendTypes DEF Crash, TypeOK, Faults
  <2>2. QED
    BY <1>4, <2>1, ExitTypes DEF Crash
<1>5. CASE UiPanic
  <2>1. used' \in [Faults -> Nat] /\ disk' \subseteq Entry
    BY <1>5 DEF UiPanic, Unpersist, TypeOK
  <2>2. QED
    BY <1>5, <2>1, ExitTypes DEF UiPanic
<1>6. CASE Restart
  BY <1>6 DEF Restart, TypeOK
<1>7. CASE ResetVault
  <2>1. used' \in [Faults -> Nat]
    BY <1>7, SpendTypes DEF ResetVault, Faults
  <2>2. discarded' \subseteq Msgs
    BY <1>7 DEF ResetVault, TypeOK, Entry
  <2>3. QED
    BY <1>7, <2>1, <2>2 DEF ResetVault, TypeOK
<1>8. QED
  BY <1>1, <1>2, <1>3, <1>4, <1>5, <1>6, <1>7 DEF Environment

(* Every variable keeps its type (the shape of the Rust state).            *)
THEOREM TypeCorrect == Spec => []TypeOK
<1>1. TypeOK /\ [Next]_vars => TypeOK'
  <2> SUFFICES ASSUME TypeOK, [Next]_vars PROVE TypeOK'
    OBVIOUS
  <2>1. CASE Next
    BY <2>1, UserTypes, WorkerTypes, ClosureTypes, FlushTypes, EnvironmentTypes
       DEF Next
  <2>2. CASE UNCHANGED vars
    BY <2>2 DEF vars, view, ram, tasks, watcher, world, history, TypeOK
  <2>3. QED
    BY <2>1, <2>2
<1>2. QED
  BY InitTypes, <1>1, PTL DEF Spec
-----------------------------------------------------------------------------
(* Provenance.                                                             *)

(* No name is taken back, no success undone.                               *)
Names == \A m \in Msgs, i \in Ids : idOf[m] = i => idOf'[m] = i
Grows == \A m \in Msgs : sent[m] > 0 => sent'[m] > 0

(* No temp id is the mark for "none yet".                                  *)
LEMMA NoIdFresh == \A i \in Ids : i # NoId
BY DEF Ids

(* Who writes idOf, and who writes sent.                                   *)
LEMMA IdOfWriters ==
  Next => UNCHANGED idOf \/ (\E m \in Msgs : SendText(m)) \/ RunFirstSpawn
<1> USE DEF history
<1>1. User => UNCHANGED idOf \/ \E m \in Msgs : SendText(m)
  BY DEF User, SendMedia, RequestForward, Retry, SwitchAccount
<1>2. Worker => UNCHANGED idOf
  BY DEF Worker, Publish, Fail, Resolve, ResolvePanics, FinishGather, FetchChats
<1>3. RunClosure => UNCHANGED idOf \/ RunFirstSpawn
  BY DEF RunClosure, RunDropped, RunAck, RunOfflineError, RunRealError,
     RunReplay, RunChats
<1>4. WatcherTick \/ FlushTick \/ FlushVisit => UNCHANGED idOf
  BY DEF WatcherTick, FlushTick, FlushVisit, FlushSkip, FlushForget, FlushSend
<1>5. Environment => UNCHANGED idOf
  BY DEF Environment, RelayDown, RelayUp, Tick, Crash, UiPanic, Exit, Restart,
     ResetVault
<1>6. QED
  BY <1>1, <1>2, <1>3, <1>4, <1>5 DEF Next

(* Only a send that reaches a relay writes sent.                           *)
LEMMA SentWriters == Next => UNCHANGED sent \/ \E o \in ops : Publish(o)
<1> USE DEF world
<1>1. User => UNCHANGED sent
  BY DEF User, SendText, SendMedia, RequestForward, Retry, SwitchAccount
<1>2. Worker => UNCHANGED sent \/ \E o \in ops : Publish(o)
  BY DEF Worker, Fail, Resolve, ResolvePanics, FinishGather, FetchChats
<1>3. RunClosure => UNCHANGED sent
  BY DEF RunClosure, RunDropped, RunAck, RunOfflineError, RunRealError,
     RunFirstSpawn, RunReplay, RunChats
<1>4. WatcherTick \/ FlushTick \/ FlushVisit => UNCHANGED sent
  BY DEF WatcherTick, FlushTick, FlushVisit, FlushSkip, FlushForget, FlushSend
<1>5. Environment => UNCHANGED sent
  BY DEF Environment, RelayDown, RelayUp, Tick, Crash, UiPanic, Exit, Restart,
     ResetVault
<1>6. QED
  BY <1>1, <1>2, <1>3, <1>4, <1>5 DEF Next

(* A message gets a temp id only while it has none.                        *)
LEMMA EnqueuesFirst ==
  ASSUME TypeOK, Provenance
  PROVE  /\ \A m \in Msgs : SendText(m) => idOf[m] = NoId
         /\ RunFirstSpawn => /\ Head(uiq).msg \in Msgs
                             /\ idOf[Head(uiq).msg] = NoId
<1>1. ASSUME NEW m \in Msgs, SendText(m) PROVE idOf[m] = NoId
  BY <1>1 DEF SendText, Provenance, QueuedComposed
<1>2. ASSUME RunFirstSpawn
      PROVE  Head(uiq).msg \in Msgs /\ idOf[Head(uiq).msg] = NoId
  <2>1. uiq # <<>> /\ Head(uiq).kind = "spawn" /\ Head(uiq).id = NoId
    BY <1>2 DEF RunFirstSpawn, TakeHead
  <2>2. 1 \in DOMAIN uiq /\ Head(uiq) = uiq[1]
    BY <2>1 DEF TypeOK
  <2>3. idOf[Head(uiq).msg] = NoId
    BY <2>1, <2>2 DEF Provenance, SpawnsFirst, FirstSpawn, Named
  <2>4. Head(uiq).msg \in Msgs
    BY <2>1, HeadClosure DEF Closure
  <2>5. QED
    BY <2>3, <2>4
<1>3. QED
  BY <1>1, <1>2

(* Hence no step takes a name back or undoes a success.                    *)
LEMMA Monotone ==
  ASSUME TypeOK, Provenance, Next
  PROVE  Names /\ Grows
<1>1. Names
  <2>1. CASE UNCHANGED idOf
    BY <2>1 DEF Names
  <2>0. ASSUME NEW m \in Msgs, idOf[m] = NoId, NEW x,
               idOf' = [idOf EXCEPT ![m] = x]
        PROVE  Names
    BY <2>0, NoIdFresh DEF Names, TypeOK
  <2>2. ASSUME NEW m \in Msgs, SendText(m) PROVE Names
    BY <2>0, <2>2, EnqueuesFirst DEF SendText, Enqueue
  <2>3. CASE RunFirstSpawn
    BY <2>0, <2>3, EnqueuesFirst DEF RunFirstSpawn, Enqueue
  <2>4. QED
    BY <2>1, <2>2, <2>3, IdOfWriters
<1>2. Grows
  <2>1. ASSUME NEW o \in ops, Publish(o) PROVE Grows
    <3>1. o.msg \in Msgs
      BY DEF TypeOK, Op
    <3>2. sent' = [sent EXCEPT ![o.msg] = sent[o.msg] + 1]
      BY <2>1 DEF Publish
    <3>3. QED
      BY <3>1, <3>2 DEF Grows, TypeOK
  <2>2. QED
    BY <2>1, SentWriters DEF Grows
<1>3. QED
  BY <1>1, <1>2

(* How the elements of a queue move when it grows or loses its head.       *)
LEMMA AppendElems ==
  ASSUME NEW S, NEW q \in Seq(S), NEW c \in S
  PROVE  \A k \in DOMAIN Append(q, c) :
           \/ k \in DOMAIN q /\ Append(q, c)[k] = q[k]
           \/ k = Len(q) + 1 /\ Append(q, c)[k] = c
OBVIOUS

(* When the head leaves, the others move up by one.                        *)
LEMMA TailElems ==
  ASSUME NEW S, NEW q \in Seq(S), q # <<>>
  PROVE  \A k \in DOMAIN Tail(q) :
           k \in Nat /\ k + 1 \in DOMAIN q /\ Tail(q)[k] = q[k + 1]
OBVIOUS

(* A closure that was well named still is.                                 *)
LEMMA ClosureStays ==
  ASSUME TypeOK, Names, Grows, NEW c \in Closure, ClosureNamed(c)
  PROVE  /\ c.kind = "done" => idOf'[c.msg] = c.id /\ (c.ok => sent'[c.msg] > 0)
         /\ c.kind = "spawn" /\ c.id # NoId => idOf'[c.msg] = c.id
BY DEF Closure, ClosureNamed, Named, Names, Grows

(* Closures that leave the queue, or stay, disturb no name.                *)
QueueShrinks ==
  uiq' = uiq \/ (uiq # <<>> /\ uiq' = Tail(uiq)) \/ uiq' = <<>>

(* So names of posted closures survive a dequeue.                          *)
LEMMA ClosuresStay ==
  ASSUME TypeOK, ClosuresNamed, Names, Grows, QueueShrinks
  PROVE  ClosuresNamed'
<1>1. \A k \in DOMAIN uiq : uiq[k] \in Closure /\ ClosureNamed(uiq[k])
  BY DEF TypeOK, ClosuresNamed
<1>2. \A k \in DOMAIN uiq' : \E j \in DOMAIN uiq : uiq'[k] = uiq[j]
  <2>1. CASE uiq' = uiq
    BY <2>1
  <2>2. CASE uiq # <<>> /\ uiq' = Tail(uiq)
    BY <2>2, TailElems DEF TypeOK
  <2>3. CASE uiq' = <<>>
    BY <2>3
  <2>4. QED
    BY <2>1, <2>2, <2>3 DEF QueueShrinks
<1>3. QED
  BY <1>1, <1>2, ClosureStays DEF ClosuresNamed, ClosureNamed, Named

(* A posted closure joins them under a name of its own.                    *)
LEMMA ClosuresGrow ==
  ASSUME TypeOK, ClosuresNamed, Names, Grows, NEW c \in Closure, Post(c),
         c.kind = "done" => idOf'[c.msg] = c.id /\ (c.ok => sent'[c.msg] > 0),
         c.kind = "spawn" /\ c.id # NoId => idOf'[c.msg] = c.id
  PROVE  ClosuresNamed'
<1>1. \A k \in DOMAIN uiq : uiq[k] \in Closure /\ ClosureNamed(uiq[k])
  BY DEF TypeOK, ClosuresNamed
<1>2. \A k \in DOMAIN uiq' : uiq'[k] = c \/ \E j \in DOMAIN uiq : uiq'[k] = uiq[j]
  BY AppendElems DEF TypeOK, Post
<1>3. QED
  BY <1>1, <1>2, ClosureStays DEF ClosuresNamed, ClosureNamed, Named

(* Tasks that end, or stay, disturb no name; a dispatched one has its own. *)
LEMMA OpsStay ==
  ASSUME TypeOK, OpsNamed, Names, Grows, ops' \subseteq ops
  PROVE  OpsNamed'
BY DEF TypeOK, OpsNamed, Named, Names, Grows, Op

(* A dispatched task carries the id its message was queued under.          *)
LEMMA OpsGrow ==
  ASSUME TypeOK, OpsNamed, Names, Grows, NEW i, NEW m, NEW g,
         Dispatch(i, m, g), idOf'[m] = i
  PROVE  OpsNamed'
<1>1. \A o \in ops : o.msg \in Msgs /\ o.id \in Ids
  BY DEF TypeOK, Op
<1>2. \A o \in ops : idOf'[o.msg] = o.id /\ (o.stage = "sent" => sent'[o.msg] > 0)
  BY <1>1 DEF OpsNamed, Named, Names, Grows
<1>3. QED
  BY <1>2 DEF Dispatch, OpsNamed, Named

(* Bubbles whose messages were on screen already disturb no name; a new    *)
(* one must have it.                                                       *)
LEMMA BubblesStay ==
  ASSUME TypeOK, BubblesNamed, Names,
         \A gi \in Groups \X Ids : \A k \in DOMAIN overlay'[gi] :
           \/ \E j \in DOMAIN overlay[gi] : overlay'[gi][k].msg = overlay[gi][j].msg
           \/ idOf'[overlay'[gi][k].msg] = gi[2]
  PROVE  BubblesNamed'
<1>1. \A gi \in Groups \X Ids : \A j \in DOMAIN overlay[gi] :
        overlay[gi][j].msg \in Msgs /\ gi[2] \in Ids
  <2> TAKE gi \in Groups \X Ids
  <2>1. overlay[gi] \in Seq(Bubble) /\ gi[2] \in Ids
    BY DEF TypeOK
  <2> TAKE j \in DOMAIN overlay[gi]
  <2>2. overlay[gi][j] \in Bubble
    BY <2>1
  <2>3. QED
    BY <2>1, <2>2 DEF Bubble
<1>2. \A gi \in Groups \X Ids : \A j \in DOMAIN overlay[gi] :
        idOf'[overlay[gi][j].msg] = gi[2]
  BY <1>1 DEF BubblesNamed, Named, Names
<1>3. QED
  BY <1>2 DEF BubblesNamed, Named

(* Entries likewise.                                                       *)
LEMMA EntriesStay ==
  ASSUME TypeOK, EntriesNamed, Names,
         \A e \in (disk \cup flush.todo)' :
           e \in disk \cup flush.todo \/ idOf'[e.msg] = e.id
  PROVE  EntriesNamed'
<1>1. \A e \in disk \cup flush.todo : e.msg \in Msgs /\ e.id \in Ids
  BY DEF TypeOK, Entry
<1>2. QED
  BY <1>1 DEF EntriesNamed, Named, Names

(* A shrinking queue keeps its elements apart.                             *)
LEMMA Shift ==
  ASSUME TypeOK, QueueShrinks
  PROVE  \E d \in {0, 1} : \A k \in DOMAIN uiq' :
           k \in Nat /\ k + d \in DOMAIN uiq /\ uiq'[k] = uiq[k + d]
<1>1. CASE uiq' = uiq
  BY <1>1 DEF TypeOK
<1>2. CASE uiq # <<>> /\ uiq' = Tail(uiq)
  BY <1>2, TailElems DEF TypeOK
<1>3. CASE uiq' = <<>>
  BY <1>3
<1>4. QED
  BY <1>1, <1>2, <1>3 DEF QueueShrinks

(* So messages waiting for a first id stay apart after a dequeue.          *)
LEMMA SpawnsShrink ==
  ASSUME TypeOK, SpawnsFirst, QueueShrinks,
         gathering' \subseteq gathering, composed \subseteq composed',
         \A k \in DOMAIN uiq' :
           FirstSpawn(uiq'[k]) => idOf'[uiq'[k].msg] = NoId
  PROVE  SpawnsFirst'
<1>1. PICK d \in {0, 1} : \A k \in DOMAIN uiq' :
        k \in Nat /\ k + d \in DOMAIN uiq /\ uiq'[k] = uiq[k + d]
  BY Shift
<1>2. SUFFICES ASSUME NEW k \in DOMAIN uiq', FirstSpawn(uiq'[k])
               PROVE  /\ uiq'[k].msg \in composed' /\ idOf'[uiq'[k].msg] = NoId
                      /\ \A x \in gathering' : x.msg # uiq'[k].msg
                      /\ \A j \in DOMAIN uiq' :
                           FirstSpawn(uiq'[j]) /\ uiq'[j].msg = uiq'[k].msg => j = k
  BY DEF SpawnsFirst, FirstSpawn, Named
<1>3. /\ uiq'[k].msg \in composed
      /\ \A x \in gathering : x.msg # uiq'[k].msg
  BY <1>1, <1>2 DEF SpawnsFirst
<1>4. ASSUME NEW j \in DOMAIN uiq', FirstSpawn(uiq'[j]), uiq'[j].msg = uiq'[k].msg
      PROVE  j = k
  <2>1. j + d = k + d
    BY <1>1, <1>2, <1>4 DEF SpawnsFirst
  <2>2. QED
    BY <1>1, <2>1
<1>5. QED
  BY <1>2, <1>3, <1>4

(* Posting keeps the first sends apart when what is posted is none of them.*)
LEMMA SpawnsPost ==
  ASSUME TypeOK, SpawnsFirst, NEW c \in Closure, Post(c), UNCHANGED idOf,
         gathering' \subseteq gathering, composed \subseteq composed',
         FirstSpawn(c) =>
           /\ c.msg \in composed' /\ idOf[c.msg] = NoId
           /\ \A x \in gathering' : x.msg # c.msg
           /\ \A k \in DOMAIN uiq : FirstSpawn(uiq[k]) => uiq[k].msg # c.msg
  PROVE  SpawnsFirst'
<1>1. \A k \in DOMAIN uiq' : \/ k \in DOMAIN uiq /\ uiq'[k] = uiq[k]
                             \/ k = Len(uiq) + 1 /\ uiq'[k] = c
  BY AppendElems DEF TypeOK, Post
<1>2. SUFFICES ASSUME NEW k \in DOMAIN uiq', FirstSpawn(uiq'[k])
               PROVE  /\ uiq'[k].msg \in composed' /\ idOf'[uiq'[k].msg] = NoId
                      /\ \A x \in gathering' : x.msg # uiq'[k].msg
                      /\ \A j \in DOMAIN uiq' :
                           FirstSpawn(uiq'[j]) /\ uiq'[j].msg = uiq'[k].msg => j = k
  BY DEF SpawnsFirst, FirstSpawn, Named
<1>3. CASE k \in DOMAIN uiq /\ uiq'[k] = uiq[k]
  BY <1>1, <1>2, <1>3 DEF SpawnsFirst, Named
<1>4. CASE k = Len(uiq) + 1 /\ uiq'[k] = c
  BY <1>1, <1>2, <1>4 DEF SpawnsFirst, Named
<1>5. QED
  BY <1>1, <1>3, <1>4

(* Most actions take nothing's name and leave no new thing to name.        *)
BubblesKeep ==
  \A gi \in Groups \X Ids : \A k \in DOMAIN overlay'[gi] :
    \E j \in DOMAIN overlay[gi] : overlay'[gi][k].msg = overlay[gi][j].msg

(* An action that only takes things away leaves every name right.          *)
LEMMA Quiet ==
  ASSUME TypeOK, Provenance, Names, Grows,
         UNCHANGED <<idOf, store>>, composed' = composed,
         gathering' \subseteq gathering, ops' \subseteq ops,
         QueueShrinks, BubblesKeep,
         (disk \cup flush.todo)' \subseteq disk \cup flush.todo
  PROVE  Provenance'
<1>1. OpsNamed'
  BY OpsStay DEF Provenance
<1>2. ClosuresNamed'
  BY ClosuresStay DEF Provenance
<1>3. BubblesNamed'
  BY BubblesStay DEF Provenance, BubblesKeep
<1>4. EntriesNamed'
  BY EntriesStay DEF Provenance
<1>5. StoreSent'
  BY DEF Provenance, StoreSent, Grows, TypeOK
<1>6. QueuedComposed' /\ GathersFirst'
  BY DEF Provenance, QueuedComposed, GathersFirst, Named
<1>7. SpawnsFirst'
  <2>1. \A k \in DOMAIN uiq' : FirstSpawn(uiq'[k]) => idOf'[uiq'[k].msg] = NoId
    BY Shift DEF Provenance, SpawnsFirst, Named
  <2>2. QED
    BY <2>1, SpawnsShrink DEF Provenance
<1>8. QED
  BY <1>1, <1>2, <1>3, <1>4, <1>5, <1>6, <1>7 DEF Provenance

(* Turning bubbles red, or back, changes no message.                       *)
LEMMA SetFailedKeeps ==
  ASSUME TypeOK, NEW g \in Groups, NEW i \in Ids, NEW b \in BOOLEAN,
         SetFailed(g, i, b)
  PROVE  BubblesKeep
<1>1. ASSUME NEW gi \in Groups \X Ids, NEW k \in DOMAIN overlay'[gi]
      PROVE  \E j \in DOMAIN overlay[gi] : overlay'[gi][k].msg = overlay[gi][j].msg
  <2>1. CASE gi = <<g, i>>
    BY <1>1, <2>1 DEF SetFailed, TypeOK
  <2>2. CASE gi # <<g, i>>
    BY <1>1, <2>2 DEF SetFailed, TypeOK
  <2>3. QED
    BY <2>1, <2>2
<1>2. QED
  BY <1>1 DEF BubblesKeep
-----------------------------------------------------------------------------
(* Provenance is preserved, group of actions by group of actions.          *)

(* Switching accounts empties the overlay and names nothing.               *)
LEMMA QuietUser ==
  ASSUME TypeOK, Provenance, Names, Grows, NEW a \in Accounts, SwitchAccount(a)
  PROVE  Provenance'
<1>1. BubblesKeep
  BY DEF SwitchAccount, BubblesKeep, NoBubbles
<1>2. QED
  BY <1>1, Quiet
     DEF SwitchAccount, QueueShrinks, tasks, watcher, world, history

(* Completions and chat lists give no new name.                            *)
LEMMA QuietClosures ==
  ASSUME TypeOK, Provenance, Names, Grows,
         RunDropped \/ RunAck \/ RunOfflineError \/ RunRealError \/ RunChats
  PROVE  Provenance'
<1> USE DEF view, ram, tasks, watcher, world, history, QueueShrinks, TakeHead
<1>0. UNCHANGED overlay => BubblesKeep
  BY DEF BubblesKeep
<1>1. CASE RunDropped
  BY <1>0, <1>1, Quiet DEF RunDropped
<1>2. CASE RunAck
  <2>1. BubblesKeep
    BY <1>2 DEF RunAck, DropSend, BubblesKeep, TypeOK
  <2>2. QED
    BY <1>2, <2>1, Quiet DEF RunAck, Unpersist
<1>3. CASE RunOfflineError
  BY <1>0, <1>3, Quiet DEF RunOfflineError
<1>4. CASE RunRealError
  <2>1. Head(uiq).grp \in Groups /\ Head(uiq).id \in Ids
    BY <1>4, HeadClosure DEF RunRealError, Closure
  <2>2. BubblesKeep
    BY <1>4, <2>1, SetFailedKeeps DEF RunRealError
  <2>3. QED
    BY <1>4, <2>2, Quiet DEF RunRealError
<1>5. CASE RunChats
  BY <1>0, <1>5, Quiet DEF RunChats
<1>6. QED
  BY <1>1, <1>2, <1>3, <1>4, <1>5

(* Nor do the watcher, the timer and a flush visit that sends nothing.     *)
LEMMA QuietFlush ==
  ASSUME TypeOK, Provenance, Names, Grows,
         \/ WatcherTick \/ FlushTick
         \/ \E e \in flush.todo : FlushSkip(e) \/ FlushForget(e)
  PROVE  Provenance'
<1> USE DEF view, ram, tasks, watcher, world, history, QueueShrinks
<1>0. UNCHANGED overlay => BubblesKeep
  BY DEF BubblesKeep
<1>1. CASE WatcherTick
  BY <1>0, <1>1, Quiet DEF WatcherTick
<1>2. CASE FlushTick
  BY <1>0, <1>2, Quiet DEF FlushTick
<1>3. ASSUME NEW e \in flush.todo, FlushSkip(e) PROVE Provenance'
  <2>1. flush'.todo \subseteq flush.todo
    BY <1>3 DEF FlushSkip, Visit, TypeOK
  <2>2. QED
    BY <1>0, <1>3, <2>1, Quiet DEF FlushSkip
<1>4. ASSUME NEW e \in flush.todo, FlushForget(e) PROVE Provenance'
  <2>1. flush'.todo \subseteq flush.todo
    BY <1>4 DEF FlushForget, Visit, TypeOK
  <2>2. QED
    BY <1>0, <1>4, <2>1, Quiet DEF FlushForget, Unpersist
<1>5. QED
  BY <1>1, <1>2, <1>3, <1>4

(* Nor do relays, the clock, the end of a process, or a reset.             *)
LEMMA QuietEnvironment ==
  ASSUME TypeOK, Provenance, Names, Grows, Environment
  PROVE  Provenance'
<1> USE DEF view, ram, tasks, watcher, world, history
<1>0. UNCHANGED overlay => BubblesKeep
  BY DEF BubblesKeep
<1>1. CASE RelayDown
  BY <1>0, <1>1, Quiet DEF RelayDown, QueueShrinks
<1>2. CASE RelayUp
  BY <1>0, <1>2, Quiet DEF RelayUp, QueueShrinks
<1>3. CASE Tick
  BY <1>0, <1>3, Quiet DEF Tick, QueueShrinks
<1>4. ASSUME Exit, disk' \subseteq disk PROVE Provenance'
  <2>1. BubblesKeep
    BY <1>4 DEF Exit, BubblesKeep, NoBubbles
  <2>2. flush'.todo = {}
    BY <1>4 DEF Exit, Idle
  <2>3. QED
    BY <1>4, <2>1, <2>2, Quiet DEF Exit, QueueShrinks
<1>5. CASE Crash
  BY <1>4, <1>5 DEF Crash
<1>6. CASE UiPanic
  BY <1>4, <1>6 DEF UiPanic, Unpersist
<1>7. CASE Restart
  BY <1>0, <1>7, Quiet DEF Restart, QueueShrinks
<1>8. CASE ResetVault
  BY <1>0, <1>8, Quiet DEF ResetVault, QueueShrinks
<1>9. QED
  BY <1>1, <1>2, <1>3, <1>5, <1>6, <1>7, <1>8 DEF Environment

(* Nor does a worker that panics.                                          *)
LEMMA QuietWorkers ==
  ASSUME TypeOK, Provenance, Names, Grows, NEW o \in ops,
         ResolvePanics(o)
  PROVE  Provenance'
BY Quiet DEF ResolvePanics, QueueShrinks, BubblesKeep, watcher, world, history

(* What a first send leaves behind carries the id it was given.            *)
LEMMA EnqueueNames ==
  ASSUME TypeOK, Provenance, Names, Grows, NEW m \in Msgs, NEW g \in Groups,
         Enqueue(m, g), UNCHANGED <<store, flush>>
  PROVE  /\ OpsNamed' /\ BubblesNamed' /\ EntriesNamed' /\ StoreSent'
         /\ idOf' = [idOf EXCEPT ![m] = nextId]
<1>1. nextId \in Ids /\ idOf' = [idOf EXCEPT ![m] = nextId] /\ idOf'[m] = nextId
  BY DEF Enqueue, NextTempId, TypeOK, Ids
<1>2. OpsNamed'
  BY <1>1, OpsGrow DEF Enqueue, NextTempId, Provenance
<1>3. BubblesNamed'
  <2>1. ASSUME NEW gi \in Groups \X Ids, NEW k \in DOMAIN overlay'[gi]
        PROVE  \/ \E j \in DOMAIN overlay[gi] :
                    overlay'[gi][k].msg = overlay[gi][j].msg
               \/ idOf'[overlay'[gi][k].msg] = gi[2]
    <3>1. CASE gi # <<g, nextId>>
      BY <2>1, <3>1 DEF Enqueue, NextTempId, TypeOK
    <3>2. CASE gi = <<g, nextId>>
      <4>1. overlay'[gi] = Append(overlay[gi], [msg |-> m, failed |-> FALSE])
        BY <1>1, <3>2 DEF Enqueue, NextTempId, TypeOK
      <4>2. [msg |-> m, failed |-> FALSE] \in Bubble /\ overlay[gi] \in Seq(Bubble)
        BY DEF Bubble, TypeOK
      <4>3. \/ k \in DOMAIN overlay[gi] /\ overlay'[gi][k] = overlay[gi][k]
            \/ overlay'[gi][k] = [msg |-> m, failed |-> FALSE]
        BY <2>1, <4>1, <4>2, AppendElems
      <4>4. QED
        BY <1>1, <3>2, <4>3
    <3>3. QED
      BY <3>1, <3>2
  <2>2. QED
    BY <2>1, BubblesStay DEF Provenance
<1>4. EntriesNamed'
  BY <1>1, EntriesStay DEF Enqueue, NextTempId, Persist, Provenance
<1>5. StoreSent'
  BY DEF Provenance, StoreSent, Grows, TypeOK
<1>6. QED
  BY <1>1, <1>2, <1>3, <1>4, <1>5

(* A text gets its id where it is composed.                                *)
LEMMA SendTextNames ==
  ASSUME TypeOK, Provenance, Names, Grows, NEW m \in Msgs, SendText(m)
  PROVE  Provenance'
<1>1. /\ GroupOf[m] \in Groups /\ m \notin composed
      /\ composed' = composed \cup {m} /\ UNCHANGED <<uiq, gathering, store, flush>>
  BY DEF SendText, world, TypeOK
<1>2. /\ OpsNamed' /\ BubblesNamed' /\ EntriesNamed' /\ StoreSent'
      /\ idOf' = [idOf EXCEPT ![m] = nextId]
  BY <1>1, EnqueueNames DEF SendText
<1>3. ClosuresNamed'
  BY <1>1, ClosuresStay DEF QueueShrinks, Provenance
<1>4. QueuedComposed' /\ GathersFirst'
  BY <1>1, <1>2 DEF Provenance, QueuedComposed, GathersFirst, Named, TypeOK, Gather
<1>5. SpawnsFirst'
  <2>1. \A k \in DOMAIN uiq' : FirstSpawn(uiq'[k]) => idOf'[uiq'[k].msg] = NoId
    BY <1>1, <1>2 DEF Provenance, SpawnsFirst, Named, TypeOK
  <2>2. QED
    BY <1>1, <2>1, SpawnsShrink DEF Provenance, QueueShrinks
<1>6. QED
  BY <1>2, <1>3, <1>4, <1>5 DEF Provenance

(* An attachment or forward gets it when its closure runs.                 *)
LEMMA RunFirstSpawnNames ==
  ASSUME TypeOK, Provenance, Names, Grows, RunFirstSpawn
  PROVE  Provenance'
<1> DEFINE m == Head(uiq).msg
<1>1. /\ uiq # <<>> /\ uiq' = Tail(uiq) /\ Head(uiq).kind = "spawn"
      /\ Head(uiq).id = NoId /\ UNCHANGED <<composed, gathering, store, flush>>
  BY DEF RunFirstSpawn, TakeHead, world
<1>2. m \in Msgs /\ Head(uiq).grp \in Groups
  BY <1>1, HeadClosure DEF Closure
<1>3. 1 \in DOMAIN uiq /\ Head(uiq) = uiq[1]
  BY <1>1 DEF TypeOK
<1>4. /\ m \in composed /\ \A x \in gathering : x.msg # m
      /\ \A j \in DOMAIN uiq : FirstSpawn(uiq[j]) /\ uiq[j].msg = m => j = 1
  BY <1>1, <1>3 DEF Provenance, SpawnsFirst, FirstSpawn
<1>5. /\ OpsNamed' /\ BubblesNamed' /\ EntriesNamed' /\ StoreSent'
      /\ idOf' = [idOf EXCEPT ![m] = nextId]
  BY <1>1, <1>2, EnqueueNames DEF RunFirstSpawn
<1>6. ClosuresNamed'
  BY <1>1, ClosuresStay DEF QueueShrinks, Provenance
<1>7. QueuedComposed' /\ GathersFirst'
  BY <1>1, <1>2, <1>4, <1>5
     DEF Provenance, QueuedComposed, GathersFirst, Named, TypeOK, Gather
<1>8. SpawnsFirst'
  <2>1. ASSUME NEW k \in DOMAIN uiq', FirstSpawn(uiq'[k])
        PROVE  idOf'[uiq'[k].msg] = NoId
    <3>1. k \in Nat /\ k # 0 /\ k + 1 \in DOMAIN uiq /\ uiq'[k] = uiq[k + 1]
      BY <1>1, <2>1, TailElems DEF TypeOK
    <3>2. uiq[k + 1].msg # m /\ idOf[uiq[k + 1].msg] = NoId
      BY <1>4, <2>1, <3>1 DEF Provenance, SpawnsFirst, Named
    <3>3. QED
      BY <1>2, <1>5, <3>1, <3>2 DEF TypeOK
  <2>2. QED
    BY <1>1, <2>1, SpawnsShrink DEF Provenance, QueueShrinks
<1>9. QED
  BY <1>5, <1>6, <1>7, <1>8 DEF Provenance

(* Actions that post a closure and touch nothing else that is named.       *)
LEMMA PostingNames ==
  ASSUME TypeOK, Provenance, Names, Grows, NEW c \in Closure, Post(c),
         UNCHANGED <<idOf, store, disk>>, composed \subseteq composed',
         flush'.todo \subseteq flush.todo,
         gathering' \subseteq gathering,
         OpsNamed', BubblesNamed',
         c.kind = "done" => idOf'[c.msg] = c.id /\ (c.ok => sent'[c.msg] > 0),
         c.kind = "spawn" /\ c.id # NoId => idOf'[c.msg] = c.id,
         FirstSpawn(c) =>
           /\ c.msg \in composed' /\ idOf[c.msg] = NoId
           /\ \A x \in gathering' : x.msg # c.msg
           /\ \A k \in DOMAIN uiq : FirstSpawn(uiq[k]) => uiq[k].msg # c.msg
  PROVE  Provenance'
<1>1. ClosuresNamed'
  BY ClosuresGrow DEF Provenance
<1>2. EntriesNamed'
  BY EntriesStay DEF Provenance
<1>3. StoreSent'
  BY DEF Provenance, StoreSent, Grows, TypeOK
<1>4. QueuedComposed' /\ GathersFirst'
  BY DEF Provenance, QueuedComposed, GathersFirst, Named
<1>5. SpawnsFirst'
  BY SpawnsPost DEF Provenance
<1>6. QED
  BY <1>1, <1>2, <1>3, <1>4, <1>5 DEF Provenance

(* The user's other actions.                                               *)
LEMMA SendMediaNames ==
  ASSUME TypeOK, Provenance, Names, Grows, NEW m \in Msgs, SendMedia(m)
  PROVE  Provenance'
<1> DEFINE c == Spawn(NoId, m, GroupOf[m])
<1>1. c \in Closure /\ Post(c) /\ c.kind = "spawn" /\ c.id = NoId /\ c.msg = m
  BY SpawnTypes DEF SendMedia, Spawn
<1>2. /\ UNCHANGED <<idOf, store, disk, flush, gathering, ops, overlay>>
      /\ m \notin composed /\ composed' = composed \cup {m}
  BY DEF SendMedia, tasks, world
<1>3. OpsNamed' /\ BubblesNamed'
  BY <1>2, OpsStay, BubblesStay DEF Provenance
<1>4. /\ idOf[m] = NoId /\ \A x \in gathering : x.msg # m
      /\ \A k \in DOMAIN uiq : FirstSpawn(uiq[k]) => uiq[k].msg # m
  BY <1>2 DEF Provenance, QueuedComposed, GathersFirst, SpawnsFirst
<1>5. QED
  BY <1>1, <1>2, <1>3, <1>4, PostingNames

(* A forward starts out with a gather and without an id.                   *)
LEMMA RequestForwardNames ==
  ASSUME TypeOK, Provenance, Names, Grows, NEW m \in Msgs, RequestForward(m)
  PROVE  Provenance'
<1>1. /\ UNCHANGED <<idOf, store, disk, flush, ops, overlay, uiq>>
      /\ m \notin composed /\ composed' = composed \cup {m}
      /\ gathering' = gathering \cup {[msg |-> m, acct |-> active]}
  BY DEF RequestForward, ram, world
<1>2. OpsNamed' /\ BubblesNamed' /\ EntriesNamed' /\ ClosuresNamed'
  BY <1>1, OpsStay, BubblesStay, EntriesStay, ClosuresStay
     DEF Provenance, QueueShrinks
<1>3. StoreSent' /\ QueuedComposed'
  BY <1>1 DEF Provenance, StoreSent, QueuedComposed, Grows, TypeOK
<1>4. GathersFirst'
  BY <1>1 DEF Provenance, QueuedComposed, GathersFirst, Named
<1>5. SpawnsFirst'
  BY <1>1 DEF Provenance, SpawnsFirst, FirstSpawn, Named
<1>6. QED
  BY <1>2, <1>3, <1>4, <1>5 DEF Provenance

(* A retry dispatches the message it finds under the id.                   *)
LEMMA RetryNames ==
  ASSUME TypeOK, Provenance, Names, Grows, NEW g \in Groups, NEW i \in Ids,
         Retry(g, i)
  PROVE  Provenance'
<1>1. UNCHANGED <<idOf, store, composed, gathering, disk, flush>>
  BY DEF Retry, world, history
<1>2. BubblesKeep /\ BubblesNamed'
  <2>1. BubblesKeep
    BY SetFailedKeeps DEF Retry
  <2>2. QED
    BY <2>1, BubblesStay DEF BubblesKeep, Provenance
<1>3. FindSend(g, i).msg \in Msgs /\ idOf[FindSend(g, i).msg] = i
  <2>1. overlay[<<g, i>>] \in Seq(Bubble) /\ overlay[<<g, i>>] # <<>>
    BY DEF Retry, Found, TypeOK
  <2>2. /\ 1 \in DOMAIN overlay[<<g, i>>]
        /\ Head(overlay[<<g, i>>]) = overlay[<<g, i>>][1]
        /\ overlay[<<g, i>>][1] \in Bubble
    BY <2>1
  <2>3. QED
    BY <2>2 DEF FindSend, Bubble, Provenance, BubblesNamed, Named
<1>4. CASE Dispatch(i, FindSend(g, i).msg, g) /\ UNCHANGED uiq
  <2>1. OpsNamed'
    BY <1>1, <1>3, <1>4, OpsGrow DEF Provenance
  <2>2. ClosuresNamed' /\ EntriesNamed'
    BY <1>1, <1>4, ClosuresStay, EntriesStay DEF Provenance, QueueShrinks
  <2>3. StoreSent' /\ QueuedComposed' /\ GathersFirst' /\ SpawnsFirst'
    BY <1>1, <1>4 DEF Provenance, StoreSent, Grows, QueuedComposed, GathersFirst,
       SpawnsFirst, FirstSpawn, Named, TypeOK
  <2>4. QED
    BY <1>2, <2>1, <2>2, <2>3 DEF Provenance
<1>5. ASSUME NEW e \in disk, e.id = i, Post(Spawn(i, e.msg, g)),
             UNCHANGED <<ops, attempts>>
      PROVE  Provenance'
  <2> DEFINE c == Spawn(i, e.msg, g)
  <2>1. c \in Closure /\ c.kind = "spawn" /\ c.id = i /\ c.msg = e.msg
    BY SpawnTypes DEF TypeOK, Entry, Spawn
  <2>2. idOf'[e.msg] = i
    BY <1>1, <1>5 DEF Provenance, EntriesNamed, Named
  <2>3. ~FirstSpawn(c)
    BY <2>1, NoIdFresh DEF FirstSpawn
  <2>4. OpsNamed'
    BY <1>5, OpsStay DEF Provenance
  <2>5. Post(c)
    BY <1>5
  <2>6. QED
    BY <1>1, <1>2, <2>1, <2>2, <2>3, <2>4, <2>5, PostingNames
<1>6. CASE UNCHANGED <<uiq, inflight, ops, attempts>>
  BY <1>1, <1>2, <1>6, Quiet DEF QueueShrinks
<1>7. QED
  BY <1>4, <1>5, <1>6 DEF Retry

(* The workers.                                                            *)
LEMMA SendEndsNames ==
  ASSUME TypeOK, Provenance, Names, Grows, NEW o \in ops, Publish(o) \/ Fail(o)
  PROVE  Provenance'
<1>1. /\ UNCHANGED <<idOf, composed, gathering, disk, flush, uiq, overlay>>
      /\ o \in Op /\ o.msg \in Msgs /\ idOf[o.msg] = o.id
  BY DEF Publish, Fail, ram, history, TypeOK, Op, Provenance, OpsNamed, Named
<1>2. BubblesNamed' /\ ClosuresNamed' /\ EntriesNamed'
  BY <1>1, BubblesStay, ClosuresStay, EntriesStay DEF Provenance, QueueShrinks
<1>3. QueuedComposed' /\ GathersFirst' /\ SpawnsFirst'
  BY <1>1 DEF Provenance, QueuedComposed, GathersFirst, SpawnsFirst, FirstSpawn,
     Named
<1>4. \A p \in ops : idOf'[p.msg] = p.id /\ (p.stage = "sent" => sent'[p.msg] > 0)
  BY <1>1 DEF Provenance, OpsNamed, Named, Grows, TypeOK, Op
<1>5. CASE Publish(o)
  <2>1. sent'[o.msg] > 0
    BY <1>1, <1>5 DEF Publish, TypeOK
  <2>2. StoreSent'
    BY <1>1, <1>5, <2>1 DEF Publish, Provenance, StoreSent, Grows, TypeOK
  <2>3. [o EXCEPT !.stage = "sent"].msg = o.msg /\ [o EXCEPT !.stage = "sent"].id = o.id
    BY <1>1 DEF Op
  <2>4. OpsNamed'
    BY <1>1, <1>4, <1>5, <2>1, <2>3 DEF Publish, OpsNamed, Named
  <2>5. QED
    BY <1>2, <1>3, <2>2, <2>4 DEF Provenance
<1>6. CASE Fail(o)
  <2>1. /\ [o EXCEPT !.stage = "failed"].msg = o.msg
        /\ [o EXCEPT !.stage = "failed"].id = o.id
        /\ [o EXCEPT !.stage = "failed"].stage = "failed"
    BY <1>1 DEF Op
  <2>2. OpsNamed'
    BY <1>1, <1>4, <1>6, <2>1 DEF Fail, OpsNamed, Named
  <2>3. StoreSent'
    BY <1>6 DEF Fail, world, Provenance, StoreSent
  <2>4. QED
    BY <1>2, <1>3, <2>2, <2>3 DEF Provenance
<1>7. QED
  BY <1>5, <1>6

(* The completion a worker posts carries its task's id.                    *)
LEMMA ResolveNames ==
  ASSUME TypeOK, Provenance, Names, Grows, NEW o \in ops, Resolve(o)
  PROVE  Provenance'
<1>1. /\ UNCHANGED <<idOf, store, sent, composed, gathering, disk, flush, overlay>>
      /\ Post(Done(o)) /\ ops' \subseteq ops
  BY DEF Resolve, world, history
<1>2. o \in Op
  BY DEF TypeOK
<1>3. /\ Done(o) \in Closure /\ Done(o).kind = "done" /\ Done(o).msg = o.msg
      /\ Done(o).id = o.id /\ (Done(o).ok => o.stage = "sent")
  BY <1>2 DEF Done, Op, Closure, TypeOK
<1>4. idOf'[o.msg] = o.id /\ (Done(o).ok => sent'[o.msg] > 0)
  BY <1>1, <1>3 DEF Provenance, OpsNamed, Named
<1>5. OpsNamed' /\ BubblesNamed'
  BY <1>1, OpsStay, BubblesStay DEF Provenance
<1>6. ~FirstSpawn(Done(o))
  BY <1>3 DEF FirstSpawn
<1>7. QED
  BY <1>1, <1>3, <1>4, <1>5, <1>6, PostingNames

(* A chat-list snapshot carries none.                                      *)
LEMMA FetchChatsNames ==
  ASSUME TypeOK, Provenance, Names, Grows, FetchChats
  PROVE  Provenance'
<1> DEFINE c == [kind |-> "chats", ids |-> GroupsOf[active]]
<1>1. c \in Closure /\ c.kind = "chats" /\ Post(c)
  BY DEF FetchChats, Closure, TypeOK
<1>2. UNCHANGED <<idOf, store, composed, gathering, disk, flush, ops, overlay>>
  BY DEF FetchChats, tasks, world, history
<1>3. OpsNamed' /\ BubblesNamed'
  BY <1>2, OpsStay, BubblesStay DEF Provenance
<1>4. c.kind # "done" /\ c.kind # "spawn" /\ ~FirstSpawn(c)
  BY <1>1 DEF FirstSpawn
<1>5. QED
  BY <1>1, <1>2, <1>3, <1>4, PostingNames

(* A finished gather hands its message over to one closure.                *)
LEMMA FinishGatherNames ==
  ASSUME TypeOK, Provenance, Names, Grows, NEW f \in gathering, FinishGather(f)
  PROVE  Provenance'
<1>1. /\ UNCHANGED <<idOf, store, composed, disk, flush, ops, overlay>>
      /\ gathering' = gathering \ {f} /\ f.msg \in Msgs
  BY DEF FinishGather, world, history, TypeOK, Gather
<1>2. OpsNamed' /\ BubblesNamed'
  BY <1>1, OpsStay, BubblesStay DEF Provenance
<1>3. /\ f.msg \in composed /\ idOf[f.msg] = NoId
      /\ \A x \in gathering' : x.msg # f.msg
      /\ \A k \in DOMAIN uiq : FirstSpawn(uiq[k]) => uiq[k].msg # f.msg
  BY <1>1 DEF Provenance, GathersFirst, SpawnsFirst, Named
<1>4. CASE Post(Spawn(NoId, f.msg, GroupOf[f.msg]))
  <2> DEFINE c == Spawn(NoId, f.msg, GroupOf[f.msg])
  <2>1. c \in Closure /\ Post(c) /\ c.kind = "spawn" /\ c.id = NoId /\ c.msg = f.msg
    BY <1>1, <1>4, SpawnTypes DEF Spawn
  <2>2. QED
    BY <1>1, <1>2, <1>3, <2>1, PostingNames
<1>5. CASE UNCHANGED uiq
  BY <1>1, <1>5, Quiet DEF QueueShrinks, BubblesKeep
<1>6. QED
  BY <1>4, <1>5 DEF FinishGather

(* A bubble rendered for an id whose message is known.                     *)
LEMMA RenderNames ==
  ASSUME TypeOK, Provenance, Names, NEW g \in Groups, NEW i \in Ids, NEW m \in Msgs,
         idOf'[m] = i,
         \/ UNCHANGED overlay
         \/ overlay' = [overlay EXCEPT ![<<g, i>>] =
                          <<[msg |-> m, failed |-> FALSE]>>]
  PROVE  BubblesNamed'
<1>1. CASE UNCHANGED overlay
  BY <1>1, BubblesStay DEF Provenance
<1>2. CASE overlay' = [overlay EXCEPT ![<<g, i>>] =
                         <<[msg |-> m, failed |-> FALSE]>>]
  <2>1. ASSUME NEW gi \in Groups \X Ids, NEW k \in DOMAIN overlay'[gi]
        PROVE  \/ \E j \in DOMAIN overlay[gi] :
                    overlay'[gi][k].msg = overlay[gi][j].msg
               \/ idOf'[overlay'[gi][k].msg] = gi[2]
    <3>1. CASE gi # <<g, i>>
      BY <1>2, <2>1, <3>1 DEF TypeOK
    <3>2. CASE gi = <<g, i>>
      BY <1>2, <2>1, <3>2 DEF TypeOK
    <3>3. QED
      BY <3>1, <3>2
  <2>2. QED
    BY <2>1, BubblesStay DEF Provenance
<1>3. QED
  BY <1>1, <1>2

(* A replay dispatches and renders under the id it was posted with.        *)
LEMMA RunReplayNames ==
  ASSUME TypeOK, Provenance, Names, Grows, RunReplay
  PROVE  Provenance'
<1> DEFINE c == Head(uiq)
<1>1. /\ UNCHANGED <<idOf, store, sent, composed, gathering, disk, flush>>
      /\ uiq # <<>> /\ uiq' = Tail(uiq) /\ c.kind = "spawn" /\ c.id # NoId
      /\ Dispatch(c.id, c.msg, c.grp)
  BY DEF RunReplay, TakeHead, world, history
<1>2. c.msg \in Msgs /\ c.grp \in Groups /\ c.id \in Ids
  BY <1>1, HeadClosure DEF Closure
<1>3. idOf[c.msg] = c.id
  <2>1. 1 \in DOMAIN uiq /\ c = uiq[1]
    BY <1>1 DEF TypeOK
  <2>2. QED
    BY <1>1, <2>1 DEF Provenance, ClosuresNamed, ClosureNamed, Named
<1>4. OpsNamed'
  BY <1>1, <1>3, OpsGrow DEF Provenance
<1>5. BubblesNamed'
  BY <1>1, <1>2, <1>3, RenderNames DEF RunReplay
<1>6. ClosuresNamed' /\ EntriesNamed'
  BY <1>1, ClosuresStay, EntriesStay DEF Provenance, QueueShrinks
<1>7. StoreSent' /\ QueuedComposed' /\ GathersFirst'
  BY <1>1 DEF Provenance, StoreSent, QueuedComposed, GathersFirst, Named
<1>8. SpawnsFirst'
  <2>1. QueueShrinks
    BY <1>1 DEF QueueShrinks
  <2>2. \A k \in DOMAIN uiq' : FirstSpawn(uiq'[k]) => idOf'[uiq'[k].msg] = NoId
    BY <1>1, <2>1, Shift DEF Provenance, SpawnsFirst, Named
  <2>3. QED
    BY <1>1, <2>1, <2>2, SpawnsShrink DEF Provenance
<1>9. QED
  BY <1>4, <1>5, <1>6, <1>7, <1>8 DEF Provenance

(* So does the flush with the entry it visits.                             *)
LEMMA FlushSendNames ==
  ASSUME TypeOK, Provenance, Names, Grows, NEW e \in flush.todo, FlushSend(e)
  PROVE  Provenance'
<1>1. /\ UNCHANGED <<idOf, store, sent, composed, gathering, disk>>
      /\ flush'.todo \subseteq flush.todo
  BY DEF FlushSend, Visit, world, TypeOK
<1>2. e.msg \in Msgs /\ e.grp \in Groups /\ e.id \in Ids
  BY DEF TypeOK, Entry
<1>3. idOf[e.msg] = e.id /\ idOf'[e.msg] = e.id
  BY <1>1 DEF Provenance, EntriesNamed, Named
<1>4. BubblesNamed'
  BY <1>2, <1>3, RenderNames DEF FlushSend
<1>5. EntriesNamed'
  BY <1>1, EntriesStay DEF Provenance
<1>6. StoreSent' /\ QueuedComposed' /\ GathersFirst'
  BY <1>1 DEF Provenance, StoreSent, QueuedComposed, GathersFirst, Named
<1>7. CASE UNCHANGED uiq /\ (UNCHANGED ops \/ Dispatch(e.id, e.msg, e.grp))
  <2>1. OpsNamed'
    BY <1>3, <1>7, OpsGrow, OpsStay DEF Provenance
  <2>2. ClosuresNamed'
    BY <1>7, ClosuresStay DEF Provenance, QueueShrinks
  <2>3. SpawnsFirst'
    BY <1>1, <1>7 DEF Provenance, SpawnsFirst, FirstSpawn, Named
  <2>4. QED
    BY <1>4, <1>5, <1>6, <2>1, <2>2, <2>3 DEF Provenance
<1>8. CASE UNCHANGED ops /\ Post(Spawn(e.id, e.msg, e.grp))
  <2> DEFINE c == Spawn(e.id, e.msg, e.grp)
  <2>1. c \in Closure /\ Post(c) /\ c.kind = "spawn" /\ c.id = e.id /\ c.msg = e.msg
    BY <1>2, <1>8, SpawnTypes DEF Spawn
  <2>2. ~FirstSpawn(c)
    BY <1>2, <2>1, NoIdFresh DEF FirstSpawn
  <2>3. OpsNamed'
    BY <1>8, OpsStay DEF Provenance
  <2>4. QED
    BY <1>1, <1>3, <1>4, <2>1, <2>2, <2>3, PostingNames
<1>9. QED
  BY <1>7, <1>8 DEF FlushSend
-----------------------------------------------------------------------------
(* Nothing carries an id at the start.                                     *)
LEMMA InitNames == Init => Provenance
BY DEF Init, Provenance, OpsNamed, ClosuresNamed, BubblesNamed, EntriesNamed,
   StoreSent, QueuedComposed, GathersFirst, SpawnsFirst, NoBubbles, Idle

(* Every step keeps the names right.                                       *)
LEMMA NextNames == TypeOK /\ Provenance /\ Next => Provenance'
<1> SUFFICES ASSUME TypeOK, Provenance, Next PROVE Provenance'
  OBVIOUS
<1>0. Names /\ Grows
  BY Monotone
<1>1. CASE User
  BY <1>0, <1>1, SendTextNames, SendMediaNames, RequestForwardNames, RetryNames,
     QuietUser DEF User
<1>2. CASE Worker
  BY <1>0, <1>2, SendEndsNames, ResolveNames, QuietWorkers, FinishGatherNames,
     FetchChatsNames DEF Worker
<1>3. CASE RunClosure
  BY <1>0, <1>3, QuietClosures, RunFirstSpawnNames, RunReplayNames DEF RunClosure
<1>4. CASE WatcherTick \/ FlushTick \/ FlushVisit
  BY <1>0, <1>4, QuietFlush, FlushSendNames DEF FlushVisit
<1>5. CASE Environment
  BY <1>0, <1>5, QuietEnvironment
<1>6. QED
  BY <1>1, <1>2, <1>3, <1>4, <1>5 DEF Next

(* Whatever carries a temp id carries it for the message that was queued   *)
(* under it, and a message waits for its first id in one place only.       *)
THEOREM ProvenanceHolds == Spec => []Provenance
<1>1. TypeOK /\ Provenance /\ [Next]_vars => Provenance'
  <2> SUFFICES ASSUME TypeOK, Provenance, UNCHANGED vars PROVE Provenance'
    BY NextNames
  <2>1. QED
    BY DEF vars, view, ram, tasks, watcher, world, history, Provenance, OpsNamed,
       ClosuresNamed, ClosureNamed, BubblesNamed, EntriesNamed, StoreSent,
       QueuedComposed, GathersFirst, SpawnsFirst, FirstSpawn, Named
<1>2. QED
  BY InitNames, <1>1, TypeCorrect, PTL DEF Spec
-----------------------------------------------------------------------------
(* Retained.                                                               *)

(* An entry leaves the disk in six ways only, and nothing undoes a discard.*)
LEMMA EntryRemovers ==
  Next => \/ disk \subseteq disk'
          \/ (\E m \in Msgs : SendText(m)) \/ RunFirstSpawn
          \/ RunAck \/ UiPanic \/ ResetVault
          \/ \E e \in flush.todo : FlushForget(e)
<1>1. User => disk \subseteq disk' \/ \E m \in Msgs : SendText(m)
  BY DEF User, SendMedia, RequestForward, Retry, SwitchAccount
<1>2. Worker => disk \subseteq disk'
  BY DEF Worker, Publish, Fail, Resolve, ResolvePanics, FinishGather, FetchChats
<1>3. RunClosure => disk \subseteq disk' \/ RunFirstSpawn \/ RunAck
  BY DEF RunClosure, RunDropped, RunOfflineError, RunRealError, RunReplay, RunChats
<1>4. \/ WatcherTick \/ FlushTick
      \/ \E e \in flush.todo : FlushSkip(e) \/ FlushSend(e)
      => disk \subseteq disk'
  BY DEF WatcherTick, FlushTick, FlushSkip, FlushSend
<1>5. Environment => disk \subseteq disk' \/ UiPanic \/ ResetVault
  BY DEF Environment, RelayDown, RelayUp, Tick, Crash, Restart
<1>6. QED
  BY <1>1, <1>2, <1>3, <1>4, <1>5 DEF Next, FlushVisit

(* A message once discarded stays so: the record is only added to.         *)
LEMMA DiscardedGrows == Next => discarded \subseteq discarded'
<1> USE DEF history
<1>1. User => discarded \subseteq discarded'
  BY DEF User, SendText, Enqueue, Persist, SendMedia, RequestForward, Retry,
     SwitchAccount
<1>2. Worker => discarded \subseteq discarded'
  BY DEF Worker, Publish, Fail, Resolve, ResolvePanics, FinishGather, FetchChats
<1>3. RunClosure => discarded \subseteq discarded'
  BY DEF RunClosure, RunDropped, RunAck, RunOfflineError, RunRealError,
     RunFirstSpawn, Enqueue, Persist, RunReplay, RunChats
<1>4. WatcherTick \/ FlushTick \/ FlushVisit => discarded \subseteq discarded'
  BY DEF WatcherTick, FlushTick, FlushVisit, FlushSkip, FlushForget, FlushSend
<1>5. Environment => discarded \subseteq discarded'
  BY DEF Environment, RelayDown, RelayUp, Tick, Crash, UiPanic, Exit, Restart,
     ResetVault
<1>6. QED
  BY <1>1, <1>2, <1>3, <1>4, <1>5 DEF Next

(* A first send puts its message on disk, or a full disk discards it, and  *)
(* evicts other messages only by taking their id.                          *)
LEMMA EnqueueRetains ==
  ASSUME TypeOK, NEW n \in Msgs, NEW g \in Groups, Enqueue(n, g)
  PROVE  /\ OnDisk(n)' \/ n \in discarded'
         /\ \A e \in disk : e \in disk' \/ e.id = idOf'[n]
         /\ \A m \in Msgs \ {n} : idOf'[m] = idOf[m]
<1>1. idOf' = [idOf EXCEPT ![n] = nextId] /\ idOf'[n] = nextId
  BY DEF Enqueue, NextTempId, TypeOK
<1>2. \A m \in Msgs \ {n} : idOf'[m] = idOf[m]
  BY <1>1 DEF TypeOK
<1>3. Persist(nextId, n, g)
  BY DEF Enqueue, NextTempId
<1>4. OnDisk(n)' \/ n \in discarded'
  <2>1. CASE n \in discarded'
    BY <2>1
  <2>2. CASE [id |-> nextId, msg |-> n, acct |-> active, grp |-> g, at |-> now] \in disk'
    BY <1>1, <2>2 DEF OnDisk
  <2>3. QED
    BY <1>3, <2>1, <2>2 DEF Persist
<1>5. \A e \in disk : e \in disk' \/ e.id = nextId
  BY <1>3 DEF Persist
<1>6. QED
  BY <1>1, <1>2, <1>4, <1>5

(* The message of an acknowledgement at the head of the queue was sent, so *)
(* the entry it deletes is its own or one under a reused id.               *)
LEMMA AckNamed ==
  ASSUME TypeOK, Provenance, uiq # <<>>, Head(uiq).kind = "done", Head(uiq).ok
  PROVE  /\ Head(uiq).msg \in Msgs /\ sent[Head(uiq).msg] > 0
         /\ idOf[Head(uiq).msg] = Head(uiq).id
<1>1. 1 \in DOMAIN uiq /\ Head(uiq) = uiq[1]
  BY DEF TypeOK
<1>2. Head(uiq).msg \in Msgs
  BY HeadClosure DEF Closure
<1>3. QED
  BY <1>1, <1>2 DEF Provenance, ClosuresNamed, ClosureNamed, Named

(* An unsent message's entry leaves the disk only for one of the reasons   *)
(* Retained lists.                                                         *)
LEMMA EntryStays ==
  ASSUME TypeOK, Provenance, Next, Names,
         NEW m \in Msgs, idOf[m] # NoId, sent[m] = 0, OnDisk(m)
  PROVE  OnDisk(m)' \/ m \in discarded' \/ Reused(m)' \/ Twin(m)
<1>1. PICK e \in disk : e.msg = m /\ e.id = idOf[m]
  BY DEF OnDisk
<1>2. idOf[m] \in Ids /\ idOf'[m] = idOf[m]
  BY DEF TypeOK, Names
<1>3. ASSUME e \in disk' PROVE OnDisk(m)'
  BY <1>1, <1>2, <1>3 DEF OnDisk
<1>4. ASSUME NEW n \in Msgs, n # m, idOf[n] = e.id PROVE Reused(m)'
  BY <1>1, <1>2, <1>4 DEF Reused, Names
<1>5. ASSUME NEW n \in Msgs, NEW g \in Groups, Enqueue(n, g), idOf[n] = NoId
      PROVE  OnDisk(m)' \/ Reused(m)'
  <2>1. n # m
    BY <1>5
  <2>2. e \in disk' \/ e.id = idOf'[n]
    BY <1>5, EnqueueRetains
  <2>3. QED
    BY <1>1, <1>2, <1>3, <2>1, <2>2 DEF Reused
<1>6. ASSUME uiq # <<>>, Head(uiq).kind = "done", Head(uiq).ok,
             Unpersist(Head(uiq).id)
      PROVE  OnDisk(m)' \/ Reused(m)'
  <2>1. Head(uiq).msg \in Msgs /\ Head(uiq).msg # m /\ idOf[Head(uiq).msg] = Head(uiq).id
    BY <1>6, AckNamed
  <2>2. e \in disk' \/ e.id = Head(uiq).id
    BY <1>6 DEF Unpersist
  <2>3. QED
    BY <1>3, <1>4, <2>1, <2>2
<1>7. ASSUME NEW x \in flush.todo, FlushForget(x)
      PROVE  OnDisk(m)' \/ Reused(m)' \/ Twin(m)
  <2>1. x.msg \in Msgs /\ idOf[x.msg] = x.id
    BY DEF TypeOK, Entry, Provenance, EntriesNamed, Named
  <2>2. e \in disk' \/ e.id = x.id
    BY <1>7 DEF FlushForget, Unpersist
  <2>3. CASE x.msg = m
    <3>1. PICK r \in store : BodyOf[r.msg] = BodyOf[m]
      BY <1>7, <2>3 DEF FlushForget, LooksAlreadySent
    <3>2. r.msg \in Msgs /\ r.msg # m
      BY DEF TypeOK, Provenance, StoreSent
    <3>3. QED
      BY <3>1, <3>2 DEF Twin
  <2>4. QED
    BY <1>3, <1>4, <2>1, <2>2, <2>3
<1>8. CASE disk \subseteq disk'
  BY <1>3, <1>8
<1>9. ASSUME NEW n \in Msgs, SendText(n) PROVE OnDisk(m)' \/ Reused(m)'
  BY <1>5, <1>9, EnqueuesFirst DEF SendText
<1>10. CASE RunFirstSpawn
  <2>1. uiq # <<>> /\ Head(uiq).kind = "spawn" /\ Enqueue(Head(uiq).msg, Head(uiq).grp)
    BY <1>10 DEF RunFirstSpawn, TakeHead
  <2>2. Head(uiq).grp \in Groups
    BY <2>1, HeadClosure DEF Closure
  <2>3. QED
    BY <1>5, <1>10, <2>1, <2>2, EnqueuesFirst
<1>11. CASE RunAck
  BY <1>6, <1>11 DEF RunAck, TakeHead
<1>12. CASE UiPanic
  BY <1>3, <1>6, <1>12 DEF UiPanic
<1>13. CASE ResetVault
  BY <1>1, <1>13 DEF ResetVault
<1>14. QED
  BY <1>7, <1>8, <1>9, <1>10, <1>11, <1>12, <1>13, EntryRemovers

(* Every step keeps the promise.                                           *)
LEMMA NextRetains ==
  ASSUME TypeOK, Provenance, Retained, Next
  PROVE  Retained'
<1>1. Names /\ Grows
  BY Monotone
<1>2. SUFFICES ASSUME NEW m \in Msgs, idOf'[m] # NoId, sent'[m] = 0
               PROVE  OnDisk(m)' \/ m \in discarded' \/ Reused(m)' \/ Twin(m)
  BY DEF Retained, Twin
<1>3. sent[m] = 0
  <2>1. sent[m] \in Nat /\ ~(sent'[m] > 0)
    BY <1>2 DEF TypeOK
  <2>2. ~(sent[m] > 0)
    BY <1>1, <2>1 DEF Grows
  <2>3. QED
    BY <2>1, <2>2
<1>4. CASE idOf[m] = NoId
  <2>1. ASSUME NEW n \in Msgs, NEW g \in Groups, Enqueue(n, g)
        PROVE  OnDisk(m)' \/ m \in discarded'
    BY <1>2, <1>4, <2>1, EnqueueRetains
  <2>2. ASSUME NEW n \in Msgs, SendText(n) PROVE OnDisk(m)' \/ m \in discarded'
    <3>1. GroupOf[n] \in Groups /\ Enqueue(n, GroupOf[n])
      BY <2>2 DEF SendText
    <3>2. QED
      BY <2>1, <3>1
  <2>3. CASE RunFirstSpawn
    <3>1. Head(uiq).msg \in Msgs /\ Head(uiq).grp \in Groups
      BY <2>3, HeadClosure, EnqueuesFirst DEF RunFirstSpawn, TakeHead, Closure
    <3>2. QED
      BY <2>1, <2>3, <3>1 DEF RunFirstSpawn
  <2>4. QED
    BY <1>2, <1>4, <2>2, <2>3, IdOfWriters
<1>5. CASE idOf[m] # NoId
  <2>1. OnDisk(m) \/ m \in discarded \/ Reused(m) \/ Twin(m)
    BY <1>3, <1>5 DEF Retained
  <2>2. CASE OnDisk(m)
    BY <1>1, <1>3, <1>5, <2>2, EntryStays
  <2>3. CASE m \in discarded
    BY <2>3, DiscardedGrows
  <2>4. CASE Reused(m)
    <3>1. PICK n \in Msgs \ {m} : idOf[n] = idOf[m]
      BY <2>4 DEF Reused
    <3>2. idOf[m] \in Ids
      BY <1>5 DEF TypeOK
    <3>3. idOf'[n] = idOf'[m]
      BY <1>1, <3>1, <3>2 DEF Names
    <3>4. QED
      BY <3>1, <3>3 DEF Reused
  <2>5. QED
    BY <2>1, <2>2, <2>3, <2>4
<1>6. QED
  BY <1>4, <1>5

(* A message the user has queued stays on disk until it has reached a      *)
(* relay (offline_queue.rs:3), unless a full disk or a vault reset takes   *)
(* it, its temp id is handed out again, or a message with the same text    *)
(* was sent: put, remove, the acknowledgements and the flush's dedup.      *)
THEOREM RetainedHolds == Spec => []Retained
<1>1. Init => Retained
  BY DEF Init, Retained
<1>2. TypeOK /\ Provenance /\ Retained /\ [Next]_vars => Retained'
  <2> SUFFICES ASSUME TypeOK, Provenance, Retained, UNCHANGED vars PROVE Retained'
    BY NextRetains
  <2>1. QED
    BY DEF vars, world, history, Retained, OnDisk, Reused, Twin
<1>3. QED
  BY <1>1, <1>2, TypeCorrect, ProvenanceHolds, PTL DEF Spec
-----------------------------------------------------------------------------
(* Bubbles, duplicates, marks and the refinement.  The argument follows    *)
(* one message that owns its temp id: no other message was queued under it *)
(* and no flush has overtaken a completion of it.  Such a message is in    *)
(* the hands of one carrier at a time: a task, a posted completion or a    *)
(* posted replay.                                                          *)


Owned(m) == idOf[m] # NoId /\ ~Reused(m) /\ m \notin overtaken

(* What goes by the temp id i: tasks, posted closures, files.              *)
Carries(c, i) == c.kind \in {"done", "spawn"} /\ c.id = i

Tasks(i) == {o \in ops : o.id = i}
Told(i)  == {k \in DOMAIN uiq : Carries(uiq[k], i)}
Files(i) == {e \in disk : e.id = i}
Shown(m, i) == overlay[<<GroupOf[m], i>>]

(* Everything under the id of m is in the chat m was composed into, and    *)
(* one bubble at most shows it.                                            *)
AtHome(m, i) ==
  /\ \A o \in Tasks(i) : o.grp = GroupOf[m]
  /\ \A k \in Told(i) : uiq[k].grp = GroupOf[m]
  /\ \A e \in Files(i) : e.grp = GroupOf[m] /\ e.at = queuedAt[m]
  /\ \A g \in Groups : overlay[<<g, i>>] # <<>> =>
       g = GroupOf[m] /\ Len(overlay[<<g, i>>]) = 1
  /\ \A r \in store : r.msg = m => r.grp = GroupOf[m]

(* One carrier at a time, marked while it will still send, and none while  *)
(* the bubble is red.                                                      *)
Single(m, i) ==
  /\ \A o, p \in Tasks(i) : o = p
  /\ \A j, k \in Told(i) : j = k
  /\ Tasks(i) # {} => Told(i) = {}
  /\ Tasks(i) # {} => i \in inflight
  /\ \A k \in Told(i) : uiq[k].kind = "spawn" => i \in inflight
  /\ \A k \in DOMAIN Shown(m, i) :
       Shown(m, i)[k].failed => Tasks(i) = {} /\ Told(i) = {}

(* What may still be sent or is shown has its file.                        *)
Filed(m, i) ==
  \/ m \in discarded \/ Files(i) # {}
  \/ /\ Tasks(i) = {} /\ Shown(m, i) = <<>>
     /\ \A k \in Told(i) : uiq[k].kind = "done"

(* None of the gaps has opened for the text m.                             *)
Clean(m) ==
  /\ IsText(m) /\ [msg |-> m, ok |-> TRUE] \notin lost
  /\ \A r \in store : r.msg = m => Within(r.at, queuedAt[m])

(* Then m was sent once at most, and whoever could still send it knows.    *)
Once(m, i) ==
  /\ sent[m] <= 1
  /\ sent[m] > 0 => \A o \in Tasks(i) : o.stage = "sent"
  /\ \A k \in Told(i) : uiq[k].kind = "done" /\ (sent[m] > 0 => uiq[k].ok)
  /\ sent[m] > 0 /\ Shown(m, i) # <<>> => Tasks(i) # {} \/ Told(i) # {}

(* And it was sent for the account that queued it.                         *)
OneAccount(m, i) ==
  \A e \in Files(i) :
    /\ \A o \in Tasks(i) : o.acct = e.acct
    /\ \A r \in store : r.msg = m => r.acct = e.acct
    /\ Shown(m, i) # <<>> => e.acct = active

Kept(m, i) == /\ AtHome(m, i) /\ Single(m, i) /\ Filed(m, i)
              /\ Clean(m) => Once(m, i) /\ OneAccount(m, i)

(* The files and the process.                                              *)
OneFile == \A e, f \in disk : e.id = f.id => e = f

TodoFiled == \A e \in flush.todo : e \in disk /\ e.acct = active

Down == proc = "off" => /\ flush.todo = {} /\ ops = {} /\ uiq = <<>>
                        /\ overlay = NoBubbles

FirstAtHome == \A k \in DOMAIN uiq :
                 FirstSpawn(uiq[k]) => uiq[k].grp = GroupOf[uiq[k].msg]

Recorded == \A m \in Msgs : sent[m] > 0 =>
              idOf[m] # NoId /\ \E r \in store : r.msg = m

Filing == OneFile /\ TodoFiled /\ Down /\ FirstAtHome /\ Recorded

QueueInv == /\ Filing
            /\ \A m \in Msgs, i \in Ids : Owned(m) /\ idOf[m] = i => Kept(m, i)
-----------------------------------------------------------------------------
(* Whatever carries the id of a message that owns it carries it for that   *)
(* message.                                                                *)
LEMMA OwnsItsId ==
  ASSUME TypeOK, Provenance, NEW m \in Msgs, idOf[m] # NoId, ~Reused(m)
  PROVE  /\ idOf[m] \in Ids /\ GroupOf[m] \in Groups
         /\ \A o \in ops : o.id = idOf[m] <=> o.msg = m
         /\ \A k \in Told(idOf[m]) : uiq[k].msg = m
         /\ \A e \in disk \cup flush.todo : e.id = idOf[m] <=> e.msg = m
         /\ \A g \in Groups : \A k \in DOMAIN overlay[<<g, idOf[m]>>] :
              overlay[<<g, idOf[m]>>][k].msg = m
<1>1. idOf[m] \in Ids /\ \A n \in Msgs : idOf[n] = idOf[m] => n = m
  BY DEF TypeOK, Reused
<1>2. \A o \in ops : o.id = idOf[m] <=> o.msg = m
  BY <1>1 DEF TypeOK, Op, Provenance, OpsNamed, Named
<1>3. \A e \in disk \cup flush.todo : e.id = idOf[m] <=> e.msg = m
  BY <1>1 DEF TypeOK, Entry, Provenance, EntriesNamed, Named
<1>4. ASSUME NEW k \in Told(idOf[m]) PROVE uiq[k].msg = m
  <2>1. k \in DOMAIN uiq /\ uiq[k] \in Closure
    BY DEF Told, TypeOK
  <2>2. uiq[k].kind \in {"done", "spawn"} /\ uiq[k].id = idOf[m]
    BY DEF Told, Carries
  <2>3. uiq[k].msg \in Msgs
    BY <2>1, <2>2 DEF Closure
  <2>4. Named(uiq[k].msg, uiq[k].id)
    BY <2>1, <2>2 DEF Provenance, ClosuresNamed, ClosureNamed
  <2>5. QED
    BY <1>1, <2>2, <2>3, <2>4 DEF Named
<1>5. ASSUME NEW g \in Groups, NEW k \in DOMAIN overlay[<<g, idOf[m]>>]
      PROVE  overlay[<<g, idOf[m]>>][k].msg = m
  <2>1. <<g, idOf[m]>> \in Groups \X Ids /\ <<g, idOf[m]>>[2] = idOf[m]
    BY <1>1
  <2>2. overlay[<<g, idOf[m]>>] \in Seq(Bubble)
    BY <2>1 DEF TypeOK
  <2>3. overlay[<<g, idOf[m]>>][k] \in Bubble
    BY <2>2
  <2>4. overlay[<<g, idOf[m]>>][k].msg \in Msgs
    BY <2>3 DEF Bubble
  <2>5. Named(overlay[<<g, idOf[m]>>][k].msg, idOf[m])
    BY <2>1 DEF Provenance, BubblesNamed
  <2>6. QED
    BY <1>1, <2>4, <2>5 DEF Named
<1>6. QED
  BY <1>1, <1>2, <1>3, <1>4, <1>5

(* The head of the queue is told, if it carries the id.                    *)
LEMMA HeadTold ==
  ASSUME TypeOK, uiq # <<>>
  PROVE  /\ 1 \in DOMAIN uiq /\ Head(uiq) = uiq[1]
         /\ \A i : Carries(Head(uiq), i) => 1 \in Told(i)
<1>1. 1 \in DOMAIN uiq /\ Head(uiq) = uiq[1]
  BY DEF TypeOK
<1>2. QED
  BY <1>1 DEF Told

(* What is told after the head has left was told before.                   *)
LEMMA ToldTail ==
  ASSUME TypeOK, uiq # <<>>, uiq' = Tail(uiq), NEW i
  PROVE  \A k \in Told(i)' : /\ k \in Nat /\ k + 1 \in Told(i)
                             /\ uiq'[k] = uiq[k + 1]
<1>1. \A k \in DOMAIN uiq' : k \in Nat /\ k + 1 \in DOMAIN uiq /\ uiq'[k] = uiq[k + 1]
  BY TailElems DEF TypeOK
<1>2. QED
  BY <1>1 DEF Told, Carries

(* When the one closure that carried the id has left, none does.           *)
LEMMA ToldGone ==
  ASSUME TypeOK, uiq # <<>>, uiq' = Tail(uiq), NEW i,
         \A j, k \in Told(i) : j = k, Carries(Head(uiq), i)
  PROVE  Told(i)' = {}
<1>1. 1 \in Told(i)
  BY HeadTold
<1>2. ASSUME NEW k \in Told(i)' PROVE FALSE
  <2>1. k \in Nat /\ k + 1 \in Told(i) /\ uiq'[k] = uiq[k + 1]
    BY ToldTail
  <2>2. k + 1 = 1
    BY <1>1, <2>1
  <2>3. k \in DOMAIN uiq'
    BY DEF Told
  <2>4. k >= 1
    BY <2>3 DEF TypeOK
  <2>5. QED
    BY <2>1, <2>2, <2>4
<1>3. QED
  BY <1>2

(* A posted closure is told last, if it carries the id.                    *)
LEMMA ToldPost ==
  ASSUME TypeOK, NEW c \in Closure, uiq' = Append(uiq, c), NEW i
  PROVE  /\ \A k \in Told(i) : k \in Told(i)' /\ uiq'[k] = uiq[k]
         /\ \A k \in Told(i)' : \/ k \in Told(i) /\ uiq'[k] = uiq[k]
                                \/ k = Len(uiq) + 1 /\ uiq'[k] = c /\ Carries(c, i)
<1>1. \A k \in DOMAIN uiq' : \/ k \in DOMAIN uiq /\ uiq'[k] = uiq[k]
                             \/ k = Len(uiq) + 1 /\ uiq'[k] = c
  BY AppendElems DEF TypeOK
<1>2. \A k \in DOMAIN uiq : k \in DOMAIN uiq' /\ uiq'[k] = uiq[k]
  BY DEF TypeOK
<1>3. QED
  BY <1>1, <1>2 DEF Told, Carries

(* Nothing that goes by the id i is touched.                               *)
Passes(i) ==
  /\ Tasks(i)' = Tasks(i) /\ Files(i)' = Files(i)
  /\ \A g \in Groups : overlay'[<<g, i>>] = overlay[<<g, i>>]
  /\ i \in inflight => i \in inflight'
  /\ \/ UNCHANGED uiq
     \/ uiq # <<>> /\ uiq' = Tail(uiq) /\ ~Carries(Head(uiq), i)
     \/ \E c \in Closure : uiq' = Append(uiq, c) /\ ~Carries(c, i)

(* Then what is told of i is what was told before, no more and no less.    *)
LEMMA ToldSame ==
  ASSUME TypeOK, NEW i, Passes(i)
  PROVE  \E d \in {0, 1} :
           /\ \A k \in Told(i)' : k \in Nat /\ k + d \in Told(i) /\ uiq'[k] = uiq[k + d]
           /\ Told(i)' = {} => Told(i) = {}
<1>1. CASE UNCHANGED uiq
  <2>1. Told(i)' = Told(i) /\ \A k \in Told(i) : k \in Nat /\ k + 0 = k
    BY <1>1 DEF Told, TypeOK
  <2>2. QED
    BY <1>1, <2>1
<1>2. CASE uiq # <<>> /\ uiq' = Tail(uiq) /\ ~Carries(Head(uiq), i)
  <2>1. \A k \in Told(i)' : k \in Nat /\ k + 1 \in Told(i) /\ uiq'[k] = uiq[k + 1]
    BY <1>2, ToldTail
  <2>2. ASSUME NEW k \in Told(i) PROVE Told(i)' # {}
    <3>1. k \in DOMAIN uiq /\ Carries(uiq[k], i) /\ uiq \in Seq(Closure)
      BY DEF Told, TypeOK
    <3>2. k # 1
      BY <1>2, <3>1, HeadTold
    <3>3. k - 1 \in DOMAIN Tail(uiq) /\ Tail(uiq)[k - 1] = uiq[k]
      BY <1>2, <3>1, <3>2
    <3>4. k - 1 \in Told(i)'
      BY <1>2, <3>1, <3>3 DEF Told, Carries
    <3>5. QED
      BY <3>4
  <2>3. QED
    BY <2>1, <2>2
<1>3. ASSUME NEW c \in Closure, uiq' = Append(uiq, c), ~Carries(c, i)
      PROVE  \E d \in {0, 1} :
           /\ \A k \in Told(i)' : k \in Nat /\ k + d \in Told(i) /\ uiq'[k] = uiq[k + d]
           /\ Told(i)' = {} => Told(i) = {}
  <2>1. \A k \in Told(i)' : k \in Told(i) /\ uiq'[k] = uiq[k]
    BY <1>3, ToldPost
  <2>2. \A k \in Told(i) : k \in Told(i)' /\ k \in Nat /\ k + 0 = k
    BY <1>3, ToldPost DEF Told, TypeOK
  <2>3. QED
    BY <2>1, <2>2
<1>4. QED
  BY <1>1, <1>2, <1>3 DEF Passes


(* What no step undoes for a message that has been queued.                 *)
Ahead(m) == /\ idOf'[m] = idOf[m] /\ queuedAt'[m] = queuedAt[m]
            /\ discarded \subseteq discarded' /\ lost \subseteq lost'
            /\ store \subseteq store'

(* A text that is clean after a step was clean before it.                  *)
LEMMA CleanBefore ==
  ASSUME NEW m \in Msgs, Ahead(m), Clean(m)'
  PROVE  Clean(m)
BY DEF Ahead, Clean, IsText, Within

(* The step sends nothing of m.                                            *)
Unsent(m) == /\ sent'[m] = sent[m] /\ \A r \in store' : r.msg = m => r \in store

(* A message none of whose carriers, files or bubbles a step touches is    *)
(* kept as it was.                                                         *)
LEMMA Untouched ==
  ASSUME TypeOK, NEW m \in Msgs, NEW i, idOf[m] = i, Kept(m, i), Ahead(m),
         Passes(i), Unsent(m), active' = active
  PROVE  Kept(m, i)'
<1>0. GroupOf[m] \in Groups
  OBVIOUS
<1>1. PICK d \in {0, 1} :
        /\ \A k \in Told(i)' : k \in Nat /\ k + d \in Told(i) /\ uiq'[k] = uiq[k + d]
        /\ Told(i)' = {} => Told(i) = {}
  BY ToldSame
<1>2. /\ idOf'[m] = i /\ Tasks(i)' = Tasks(i) /\ Files(i)' = Files(i)
      /\ \A g \in Groups : overlay'[<<g, i>>] = overlay[<<g, i>>]
      /\ Shown(m, i)' = Shown(m, i)
  BY <1>0 DEF Passes, Ahead, Shown
<1>4. AtHome(m, i)'
  <2>1. AtHome(m, i)
    BY DEF Kept
  <2>2. \A k \in Told(i)' : uiq'[k].grp = GroupOf[m]
    BY <1>1, <2>1 DEF AtHome
  <2>3. \A r \in store' : r.msg = m => r.grp = GroupOf[m]
    BY <2>1 DEF AtHome, Unsent
  <2>4. /\ \A o \in Tasks(i) : o.grp = GroupOf[m]
        /\ \A e \in Files(i) : e.grp = GroupOf[m] /\ e.at = queuedAt'[m]
        /\ \A g \in Groups : overlay'[<<g, i>>] # <<>> =>
             g = GroupOf[m] /\ Len(overlay'[<<g, i>>]) = 1
    BY <1>2, <2>1 DEF AtHome, Ahead
  <2>5. QED
    BY <1>2, <2>2, <2>3, <2>4 DEF AtHome
<1>5. Single(m, i)'
  <2>1. Single(m, i) /\ (i \in inflight => i \in inflight')
    BY DEF Kept, Passes
  <2>2. \A j, k \in Told(i)' : j = k
    <3>1. \A j, k \in Told(i) : j = k
      BY <2>1 DEF Single
    <3>2. \A j, k \in Told(i)' : j \in Nat /\ k \in Nat /\ j + d = k + d
      BY <1>1, <3>1
    <3>3. QED
      BY <3>2
  <2>3. Told(i) = {} => Told(i)' = {}
    BY <1>1
  <2>4. \A k \in Told(i)' : uiq'[k].kind = "spawn" => i \in inflight'
    BY <1>1, <2>1 DEF Single
  <2>5. /\ \A o, p \in Tasks(i) : o = p
        /\ Tasks(i) # {} => Told(i)' = {}
        /\ Tasks(i) # {} => i \in inflight'
        /\ \A k \in DOMAIN Shown(m, i) : Shown(m, i)[k].failed => Tasks(i) = {} /\ Told(i)' = {}
    BY <2>1, <2>3 DEF Single
  <2>6. QED
    BY <1>2, <2>2, <2>4, <2>5 DEF Single
<1>6. Filed(m, i)'
  BY <1>1, <1>2 DEF Filed, Kept, Ahead
<1>7. ASSUME Clean(m)' PROVE Once(m, i)' /\ OneAccount(m, i)'
  <2>1. Once(m, i) /\ OneAccount(m, i)
    BY <1>7, CleanBefore DEF Kept
  <2>2. Once(m, i)'
    <3>1. \A k \in Told(i)' : uiq'[k].kind = "done" /\ (sent[m] > 0 => uiq'[k].ok)
      BY <1>1, <2>1 DEF Once
    <3>2. sent[m] > 0 /\ Shown(m, i) # <<>> => Tasks(i) # {} \/ Told(i)' # {}
      BY <1>1, <2>1 DEF Once
    <3>3. sent[m] <= 1 /\ (sent[m] > 0 => \A o \in Tasks(i) : o.stage = "sent")
      BY <2>1 DEF Once
    <3>4. QED
      BY <1>2, <3>1, <3>2, <3>3 DEF Once, Unsent
  <2>3. OneAccount(m, i)'
    BY <1>2, <2>1 DEF OneAccount, Unsent
  <2>4. QED
    BY <2>2, <2>3
<1>8. QED
  BY <1>4, <1>5, <1>6, <1>7 DEF Kept

(* A message that no task, closure, bubble or mark is about is kept if its *)
(* files and what was sent are as before.                                  *)
LEMMA Forgotten ==
  ASSUME TypeOK, NEW m \in Msgs, NEW i, idOf[m] = i, Kept(m, i), Ahead(m), Unsent(m),
         Tasks(i)' = {}, Told(i)' = {}, Files(i)' \subseteq Files(i),
         \A g \in Groups : overlay'[<<g, i>>] = <<>>
  PROVE  Kept(m, i)'
<1>0. GroupOf[m] \in Groups
  OBVIOUS
<1>1. idOf'[m] = i /\ Shown(m, i)' = <<>>
  BY <1>0 DEF Ahead, Shown
<1>3. AtHome(m, i)'
  BY <1>1 DEF Kept, AtHome, Unsent, Ahead
<1>4. Single(m, i)' /\ Filed(m, i)'
  BY <1>1 DEF Single, Filed
<1>5. ASSUME Clean(m)' PROVE Once(m, i)' /\ OneAccount(m, i)'
  <2>1. Once(m, i) /\ OneAccount(m, i)
    BY <1>5, CleanBefore DEF Kept
  <2>2. QED
    BY <1>1, <2>1 DEF Once, OneAccount, Unsent
<1>6. QED
  BY <1>3, <1>4, <1>5 DEF Kept

(* What is known of an owned message when a step is about to touch it.     *)
Held(m, i) == /\ TypeOK /\ Provenance /\ Filing
              /\ idOf[m] = i /\ i \in Ids /\ Owned(m) /\ Kept(m, i)
              /\ Ahead(m) /\ Owned(m)'

(* A carrier of the right chat is in the chat's place.                     *)
Placed(m, i) ==
  \A g \in Groups : overlay[<<g, i>>] # <<>> =>
    g = GroupOf[m] /\ Len(overlay[<<g, i>>]) = 1

Reddened(m, i) == \E k \in DOMAIN Shown(m, i) : Shown(m, i)[k].failed

(* Nothing carries the message any more, and nothing has sent it.          *)
LEMMA KeptIdle ==
  ASSUME NEW m \in Msgs, NEW i, Held(m, i), Unsent(m), active' = active,
         Tasks(i)' = {}, Told(i)' = {}, Files(i)' = Files(i), Placed(m, i)',
         Shown(m, i)' # <<>> => Shown(m, i) # <<>>,
         Clean(m) => sent[m] = 0
  PROVE  Kept(m, i)'
<1>1. AtHome(m, i) /\ Filed(m, i)
  BY DEF Held, Kept
<1>2. AtHome(m, i)'
  BY <1>1 DEF AtHome, Placed, Unsent, Held, Ahead
<1>3. Single(m, i)'
  BY DEF Single
<1>4. Filed(m, i)'
  BY <1>1 DEF Filed, Held, Ahead
<1>5. ASSUME Clean(m)' PROVE Once(m, i)' /\ OneAccount(m, i)'
  <2>1. Clean(m) /\ Once(m, i) /\ OneAccount(m, i)
    BY <1>5, CleanBefore DEF Held, Kept
  <2>2. Once(m, i)'
    BY <2>1 DEF Once, Unsent
  <2>3. OneAccount(m, i)'
    BY <2>1 DEF OneAccount, Unsent
  <2>4. QED
    BY <2>2, <2>3
<1>6. QED
  BY <1>2, <1>3, <1>4, <1>5 DEF Kept

(* A task, and nothing else, carries the message, which was not sent yet.  *)
LEMMA KeptSending ==
  ASSUME NEW m \in Msgs, NEW i, Held(m, i), Unsent(m), active' = active,
         NEW o, Tasks(i)' = {o}, o.grp = GroupOf[m], i \in inflight',
         Told(i)' = {}, Files(i)' = Files(i), Placed(m, i)', ~Reddened(m, i)',
         m \in discarded \/ Files(i) # {},
         Clean(m) => /\ sent[m] = 0
                     /\ \A e \in Files(i) : o.acct = e.acct
                                            /\ (Shown(m, i)' # <<>> => e.acct = active)
  PROVE  Kept(m, i)'
<1>1. AtHome(m, i)
  BY DEF Held, Kept
<1>2. AtHome(m, i)'
  BY <1>1 DEF AtHome, Placed, Unsent, Held, Ahead
<1>3. Single(m, i)' /\ Filed(m, i)'
  BY DEF Single, Filed, Reddened, Held, Ahead
<1>4. ASSUME Clean(m)' PROVE Once(m, i)' /\ OneAccount(m, i)'
  <2>1. Clean(m) /\ Once(m, i) /\ OneAccount(m, i)
    BY <1>4, CleanBefore DEF Held, Kept
  <2>2. Once(m, i)'
    BY <2>1 DEF Once, Unsent
  <2>3. OneAccount(m, i)'
    BY <2>1 DEF OneAccount, Unsent
  <2>4. QED
    BY <2>2, <2>3
<1>5. QED
  BY <1>2, <1>3, <1>4 DEF Kept

(* A closure just posted, and nothing else, carries the message.           *)
LEMMA KeptTold ==
  ASSUME NEW m \in Msgs, NEW i, Held(m, i), Unsent(m), active' = active,
         NEW c \in Closure, Carries(c, i), c.grp = GroupOf[m],
         c.kind = "spawn" => i \in inflight',
         uiq' = Append(uiq, c), Told(i) = {}, Tasks(i)' = {},
         Files(i)' = Files(i), Placed(m, i)', ~Reddened(m, i)',
         m \in discarded \/ Files(i) # {},
         Clean(m) => /\ c.kind = "done" /\ (sent[m] > 0 => c.ok)
                     /\ Shown(m, i)' = Shown(m, i)
  PROVE  Kept(m, i)'
<1>1. AtHome(m, i) /\ TypeOK
  BY DEF Held, Kept
<1>2. \A k \in Told(i)' : k = Len(uiq) + 1 /\ uiq'[k] = c
  BY <1>1, ToldPost
<1>3. Told(i)' # {}
  <2>1. Len(uiq) + 1 \in DOMAIN uiq' /\ uiq'[Len(uiq) + 1] = c
    BY <1>1 DEF TypeOK
  <2>2. QED
    BY <2>1 DEF Told, Carries
<1>4. AtHome(m, i)'
  BY <1>1, <1>2 DEF AtHome, Placed, Unsent, Held, Ahead
<1>5. Single(m, i)' /\ Filed(m, i)'
  BY <1>2 DEF Single, Filed, Reddened, Held, Ahead
<1>6. ASSUME Clean(m)' PROVE Once(m, i)' /\ OneAccount(m, i)'
  <2>1. Clean(m) /\ Once(m, i) /\ OneAccount(m, i)
    BY <1>6, CleanBefore DEF Held, Kept
  <2>2. Once(m, i)'
    BY <1>2, <1>3, <2>1 DEF Once, Unsent
  <2>3. OneAccount(m, i)'
    BY <2>1 DEF OneAccount, Unsent
  <2>4. QED
    BY <2>2, <2>3
<1>7. QED
  BY <1>4, <1>5, <1>6 DEF Kept

(* The closure at the head carries the message: once it has left, nothing  *)
(* does.                                                                   *)
LEMMA HeadHeld ==
  ASSUME NEW m \in Msgs, NEW i, Held(m, i),
         uiq # <<>>, uiq' = Tail(uiq), Carries(Head(uiq), i)
  PROVE  /\ Tasks(i) = {} /\ Told(i)' = {} /\ ~Reddened(m, i)
         /\ Head(uiq).msg = m /\ Head(uiq).grp = GroupOf[m] /\ Head(uiq).id = i
         /\ Clean(m) => Head(uiq).kind = "done" /\ (sent[m] > 0 => Head(uiq).ok)
         /\ Head(uiq).kind = "spawn" =>
              i \in inflight /\ (m \in discarded \/ Files(i) # {})
<1>1. TypeOK /\ Provenance /\ AtHome(m, i) /\ Single(m, i) /\ Filed(m, i)
  BY DEF Held, Kept
<1>2. 1 \in Told(i) /\ Head(uiq) = uiq[1]
  BY <1>1, HeadTold
<1>3. Told(i)' = {}
  BY <1>1, ToldGone DEF Single
<1>4. Head(uiq).msg = m
  BY <1>1, <1>2, OwnsItsId DEF Held, Owned
<1>5. Clean(m) => Head(uiq).kind = "done" /\ (sent[m] > 0 => Head(uiq).ok)
  BY <1>2 DEF Held, Kept, Once
<1>6. /\ Tasks(i) = {} /\ ~Reddened(m, i) /\ Head(uiq).grp = GroupOf[m] /\ Head(uiq).id = i
      /\ Head(uiq).kind = "spawn" => i \in inflight /\ (m \in discarded \/ Files(i) # {})
  BY <1>1, <1>2 DEF Single, Reddened, AtHome, Filed, Carries
<1>7. QED
  BY <1>3, <1>4, <1>5, <1>6
-----------------------------------------------------------------------------
(* The steps that touch an owned message, one by one.                      *)

(* Publishing is the one step that sends.                                  *)
LEMMA PublishKept ==
  ASSUME NEW m \in Msgs, NEW i, Held(m, i), NEW o \in ops, Publish(o), o.id = i
  PROVE  Kept(m, i)'
<1> DEFINE p == [o EXCEPT !.stage = "sent"]
           r == [msg |-> o.msg, grp |-> o.grp, acct |-> o.acct, at |-> now]
<1>1. TypeOK /\ AtHome(m, i) /\ Single(m, i) /\ Filed(m, i) /\ o \in Op /\ o.stage = "sending"
  BY DEF Held, Kept, Publish, TypeOK
<1>2. Tasks(i) = {o} /\ o.grp = GroupOf[m]
  BY <1>1 DEF Single, AtHome, Tasks
<1>3. o.msg = m
  BY OwnsItsId DEF Held, Owned
<1>4. p.id = i /\ p.grp = o.grp /\ p.acct = o.acct /\ p.stage = "sent"
  BY <1>1 DEF Op
<1>5. /\ ops' = (ops \ {o}) \cup {p} /\ store' = store \cup {r}
      /\ UNCHANGED <<active, uiq, overlay, inflight, disk>>
  BY DEF Publish, view, ram
<1>6. r.msg = m /\ r.grp = GroupOf[m] /\ r.acct = o.acct
  BY <1>2, <1>3
<1>7. sent'[m] = sent[m] + 1 /\ sent[m] \in Nat
  BY <1>1, <1>3 DEF Publish, TypeOK
<1> HIDE DEF p, r
<1>8. /\ Tasks(i)' = {p} /\ Told(i)' = Told(i) /\ Files(i)' = Files(i)
      /\ Shown(m, i)' = Shown(m, i)
  BY <1>2, <1>4, <1>5 DEF Tasks, Told, Files, Shown
<1>9. AtHome(m, i)'
  BY <1>1, <1>2, <1>4, <1>5, <1>6, <1>8 DEF AtHome, Held, Ahead
<1>10. Single(m, i)' /\ Filed(m, i)'
  BY <1>1, <1>2, <1>5, <1>8 DEF Single, Filed, Held, Ahead
<1>11. ASSUME Clean(m)' PROVE Once(m, i)' /\ OneAccount(m, i)'
  <2>1. Once(m, i) /\ OneAccount(m, i)
    BY <1>11, CleanBefore DEF Held, Kept
  <2>2. sent[m] = 0
    BY <1>1, <1>2, <1>7, <2>1 DEF Once
  <2>3. Told(i) = {}
    BY <1>1, <1>2 DEF Single
  <2>4. Once(m, i)'
    BY <1>4, <1>7, <1>8, <2>2, <2>3 DEF Once
  <2>5. OneAccount(m, i)'
    BY <1>2, <1>4, <1>5, <1>6, <1>8, <2>1 DEF OneAccount
  <2>6. QED
    BY <2>4, <2>5
<1>12. QED
  BY <1>9, <1>10, <1>11 DEF Kept

(* A failure is told to no one yet.                                        *)
LEMMA FailKept ==
  ASSUME NEW m \in Msgs, NEW i, Held(m, i), NEW o \in ops, Fail(o), o.id = i
  PROVE  Kept(m, i)'
<1> DEFINE p == [o EXCEPT !.stage = "failed"]
<1>1. /\ TypeOK /\ AtHome(m, i) /\ Single(m, i) /\ Filed(m, i) /\ o \in Op
      /\ o.stage = "sending" /\ GroupOf[m] \in Groups
  BY DEF Held, Kept, Fail, TypeOK
<1>2. Tasks(i) = {o} /\ o.grp = GroupOf[m] /\ Told(i) = {} /\ i \in inflight
  BY <1>1 DEF Single, AtHome, Tasks
<1>3. p.id = i /\ p.grp = o.grp /\ p.acct = o.acct
  BY <1>1 DEF Op
<1>4. /\ ops' = (ops \ {o}) \cup {p}
      /\ UNCHANGED <<active, uiq, overlay, inflight, disk, store, sent>>
  BY DEF Fail, view, ram, world
<1> HIDE DEF p
<1>5. /\ Tasks(i)' = {p} /\ Told(i)' = {} /\ Files(i)' = Files(i) /\ Unsent(m)
      /\ Shown(m, i)' = Shown(m, i) /\ Placed(m, i)' /\ i \in inflight'
  BY <1>1, <1>2, <1>3, <1>4 DEF Tasks, Told, Files, Shown, Unsent, Placed, AtHome
<1>6. ~Reddened(m, i)' /\ (m \in discarded \/ Files(i) # {})
  BY <1>1, <1>2, <1>5 DEF Single, Reddened, Filed
<1>7. ASSUME Clean(m)
      PROVE  /\ sent[m] = 0
             /\ \A e \in Files(i) : p.acct = e.acct /\ (Shown(m, i)' # <<>> => e.acct = active)
  <2>1. sent[m] = 0
    BY <1>1, <1>2, <1>7 DEF Held, Kept, Once, TypeOK
  <2>2. QED
    BY <1>2, <1>3, <1>5, <1>7, <2>1 DEF Held, Kept, OneAccount
<1>8. QED
  BY <1>2, <1>3, <1>4, <1>5, <1>6, <1>7, KeptSending

(* A task that resolves hands the message to its completion.               *)
LEMMA ResolveKept ==
  ASSUME NEW m \in Msgs, NEW i, Held(m, i), NEW o \in ops, Resolve(o), o.id = i
  PROVE  Kept(m, i)'
<1> DEFINE c == Done(o)
<1>1. /\ TypeOK /\ AtHome(m, i) /\ Single(m, i) /\ Filed(m, i) /\ o \in Op
      /\ o.stage # "sending" /\ GroupOf[m] \in Groups
  BY DEF Held, Kept, Resolve, TypeOK
<1>2. Tasks(i) = {o} /\ o.grp = GroupOf[m] /\ Told(i) = {}
  BY <1>1 DEF Single, AtHome, Tasks
<1>3. /\ c \in Closure /\ Carries(c, i) /\ c.grp = GroupOf[m] /\ c.kind = "done"
      /\ o.stage = "sent" => c.ok
  BY <1>1, <1>2 DEF Done, Op, Closure, Carries, TypeOK
<1>4. /\ ops' = ops \ {o} /\ uiq' = Append(uiq, c)
      /\ UNCHANGED <<active, overlay, disk, store, sent>>
  BY DEF Resolve, view, world, Post
<1> HIDE DEF c
<1>5. /\ Tasks(i)' = {} /\ Files(i)' = Files(i) /\ Unsent(m)
      /\ Shown(m, i)' = Shown(m, i) /\ Placed(m, i)'
  BY <1>1, <1>2, <1>4 DEF Tasks, Files, Shown, Unsent, Placed, AtHome
<1>6. ~Reddened(m, i)' /\ (m \in discarded \/ Files(i) # {})
  BY <1>1, <1>2, <1>5 DEF Single, Reddened, Filed
<1>7. Clean(m) => (sent[m] > 0 => c.ok)
  BY <1>2, <1>3 DEF Held, Kept, Once
<1>8. QED
  BY <1>2, <1>3, <1>4, <1>5, <1>6, <1>7, KeptTold

(* A worker that panics takes the task with it.                            *)
LEMMA ResolvePanicsKept ==
  ASSUME NEW m \in Msgs, NEW i, Held(m, i), NEW o \in ops, ResolvePanics(o), o.id = i
  PROVE  Kept(m, i)'
<1>1. /\ TypeOK /\ AtHome(m, i) /\ Single(m, i)
      /\ o.stage = "failed" /\ GroupOf[m] \in Groups
  BY DEF Held, Kept, ResolvePanics, TypeOK
<1>2. Tasks(i) = {o} /\ Told(i) = {}
  BY <1>1 DEF Single, AtHome, Tasks
<1>3. ops' = ops \ {o} /\ UNCHANGED <<active, uiq, overlay, disk, store, sent>>
  BY DEF ResolvePanics, world
<1>4. /\ Tasks(i)' = {} /\ Files(i)' = Files(i) /\ Unsent(m) /\ Told(i)' = {}
      /\ Shown(m, i)' = Shown(m, i) /\ Placed(m, i)'
  BY <1>1, <1>2, <1>3 DEF Tasks, Files, Told, Shown, Unsent, Placed, AtHome
<1>5. Clean(m) => sent[m] = 0
  BY <1>1, <1>2 DEF Held, Kept, Once, TypeOK
<1>6. QED
  BY <1>3, <1>4, <1>5, KeptIdle

(* A dropped completion was a failure, or it is in lost.                   *)
LEMMA RunDroppedKept ==
  ASSUME NEW m \in Msgs, NEW i, Held(m, i), RunDropped, Carries(Head(uiq), i)
  PROVE  Kept(m, i)'
<1>1. /\ uiq # <<>> /\ uiq' = Tail(uiq)
      /\ UNCHANGED <<active, ops, overlay, disk, store, sent>>
  BY DEF RunDropped, view, tasks, world
<1>2. /\ Tasks(i) = {} /\ Told(i)' = {} /\ Head(uiq).msg = m
      /\ Clean(m) => Head(uiq).kind = "done" /\ (sent[m] > 0 => Head(uiq).ok)
  BY <1>1, HeadHeld
<1>3. /\ AtHome(m, i) /\ TypeOK /\ GroupOf[m] \in Groups
      /\ Head(uiq) \in Closure
  BY <1>1, HeadClosure DEF Held, Kept
<1>4. /\ Tasks(i)' = {} /\ Files(i)' = Files(i) /\ Unsent(m)
      /\ Shown(m, i)' = Shown(m, i) /\ Placed(m, i)'
  BY <1>1, <1>2, <1>3 DEF Tasks, Files, Shown, Unsent, Placed, AtHome
<1>5. CASE Clean(m) => sent[m] = 0
  BY <1>1, <1>2, <1>4, <1>5, KeptIdle
<1>6. CASE Clean(m) /\ sent[m] # 0
  <2>1. Head(uiq).kind = "done" /\ Head(uiq).ok = TRUE
    BY <1>2, <1>3, <1>6 DEF TypeOK, Closure
  <2>2. [msg |-> m, ok |-> TRUE] \in lost'
    BY <1>2, <2>1 DEF RunDropped
  <2>3. ~Clean(m)'
    BY <2>2 DEF Clean
  <2>4. AtHome(m, i)' /\ Single(m, i)' /\ Filed(m, i)'
    BY <1>1, <1>2, <1>3, <1>4
       DEF AtHome, Single, Filed, Held, Kept, Unsent, Placed, Ahead
  <2>5. QED
    BY <2>3, <2>4 DEF Kept
<1>7. QED
  BY <1>5, <1>6

(* An acknowledgement takes bubble and file with it.                       *)
LEMMA RunAckKept ==
  ASSUME NEW m \in Msgs, NEW i, Held(m, i), RunAck, Carries(Head(uiq), i)
  PROVE  Kept(m, i)'
<1>1. /\ uiq # <<>> /\ uiq' = Tail(uiq)
      /\ UNCHANGED <<ops, store, sent>>
      /\ disk' = {e \in disk : e.id # Head(uiq).id}
      /\ overlay' = [overlay EXCEPT ![<<Head(uiq).grp, Head(uiq).id>>] = <<>>]
  BY DEF RunAck, TakeHead, tasks, world, DropSend, Unpersist
<1>2. /\ Tasks(i) = {} /\ Told(i)' = {}
      /\ Head(uiq).grp = GroupOf[m] /\ Head(uiq).id = i
  BY <1>1, HeadHeld
<1>3. /\ AtHome(m, i) /\ TypeOK /\ GroupOf[m] \in Groups /\ i \in Ids /\ idOf[m] = i
      /\ Ahead(m)
  BY DEF Held, Kept
<1>4. \A g \in Groups : overlay'[<<g, i>>] = <<>>
  <2>1. SUFFICES ASSUME NEW g \in Groups PROVE overlay'[<<g, i>>] = <<>>
    OBVIOUS
  <2>2. <<g, i>> \in DOMAIN overlay
    BY <1>3 DEF TypeOK
  <2>3. CASE g = GroupOf[m]
    BY <1>1, <1>2, <2>2, <2>3
  <2>4. CASE g # GroupOf[m]
    <3>1. overlay'[<<g, i>>] = overlay[<<g, i>>]
      BY <1>1, <1>2, <2>2, <2>4
    <3>2. overlay[<<g, i>>] = <<>>
      BY <1>3, <2>4 DEF AtHome
    <3>3. QED
      BY <3>1, <3>2
  <2>5. QED
    BY <2>3, <2>4
<1>5. Tasks(i)' = {} /\ Files(i)' \subseteq Files(i) /\ Unsent(m)
  BY <1>1, <1>2 DEF Tasks, Files, Unsent
<1>6. QED
  BY <1>2, <1>3, <1>4, <1>5, Forgotten DEF Held

(* A failure while offline leaves bubble and file to the flush.            *)
LEMMA RunOfflineErrorKept ==
  ASSUME NEW m \in Msgs, NEW i, Held(m, i), RunOfflineError, Carries(Head(uiq), i)
  PROVE  Kept(m, i)'
<1>1. /\ uiq # <<>> /\ uiq' = Tail(uiq) /\ ~Head(uiq).ok
      /\ UNCHANGED <<active, ops, overlay, disk, store, sent>>
  BY DEF RunOfflineError, TakeHead, view, tasks, world
<1>2. /\ Tasks(i) = {} /\ Told(i)' = {}
      /\ Clean(m) => (sent[m] > 0 => Head(uiq).ok)
  BY <1>1, HeadHeld
<1>3. AtHome(m, i) /\ TypeOK /\ GroupOf[m] \in Groups
  BY DEF Held, Kept
<1>4. /\ Tasks(i)' = {} /\ Files(i)' = Files(i) /\ Unsent(m)
      /\ Shown(m, i)' = Shown(m, i) /\ Placed(m, i)'
  BY <1>1, <1>2, <1>3 DEF Tasks, Files, Shown, Unsent, Placed, AtHome
<1>5. Clean(m) => sent[m] = 0
  BY <1>1, <1>2, <1>3 DEF TypeOK
<1>6. QED
  BY <1>1, <1>2, <1>4, <1>5, KeptIdle

(* Failing or unfailing bubbles moves none.                                *)
LEMMA SetFailedPlaces ==
  ASSUME TypeOK, NEW g \in Groups, NEW i \in Ids, NEW b \in BOOLEAN,
         SetFailed(g, i, b)
  PROVE  \A h \in Groups, j \in Ids :
           /\ Len(overlay'[<<h, j>>]) = Len(overlay[<<h, j>>])
           /\ overlay'[<<h, j>>] = <<>> <=> overlay[<<h, j>>] = <<>>
           /\ <<h, j>> # <<g, i>> => overlay'[<<h, j>>] = overlay[<<h, j>>]
<1> DEFINE old == overlay[<<g, i>>]
           new == [k \in DOMAIN old |-> [msg |-> old[k].msg, failed |-> b]]
<1>1. overlay' = [overlay EXCEPT ![<<g, i>>] = new] /\ <<g, i>> \in DOMAIN overlay
  BY DEF SetFailed, TypeOK
<1>2. old \in Seq(Bubble) /\ DOMAIN old = 1 .. Len(old) /\ Len(old) \in Nat
  BY DEF TypeOK
<1>4. new \in Seq([msg : Msgs, failed : BOOLEAN]) /\ DOMAIN new = DOMAIN old
  <2>1. \A k \in DOMAIN old : [msg |-> old[k].msg, failed |-> b] \in [msg : Msgs, failed : BOOLEAN]
    <3>1. \A k \in DOMAIN old : old[k] \in Bubble
      BY <1>2
    <3>2. QED
      BY <3>1 DEF Bubble
  <2>2. new \in [1 .. Len(old) -> [msg : Msgs, failed : BOOLEAN]]
    BY <1>2, <2>1
  <2>3. \A n \in Nat : \A S : \A h \in [1 .. n -> S] : h \in Seq(S)
    OBVIOUS
  <2> HIDE DEF new
  <2>4. QED
    BY <1>2, <2>2, <2>3
<1>5. Len(new) = Len(old) /\ (new = <<>> <=> old = <<>>)
  <2> HIDE DEF new
  <2>1. Len(new) = Len(old)
    BY <1>2, <1>4
  <2>2. QED
    BY <1>2, <1>4, <2>1
<1> HIDE DEF new
<1>6. overlay'[<<g, i>>] = new
  BY <1>1
<1>7. ASSUME NEW h \in Groups, NEW j \in Ids
      PROVE  /\ Len(overlay'[<<h, j>>]) = Len(overlay[<<h, j>>])
             /\ overlay'[<<h, j>>] = <<>> <=> overlay[<<h, j>>] = <<>>
             /\ <<h, j>> # <<g, i>> => overlay'[<<h, j>>] = overlay[<<h, j>>]
  <2>1. <<h, j>> \in DOMAIN overlay
    BY DEF TypeOK
  <2>2. CASE <<h, j>> = <<g, i>>
    BY <1>5, <1>6, <2>2
  <2>3. CASE <<h, j>> # <<g, i>>
    BY <1>1, <2>1, <2>3
  <2>4. QED
    BY <2>2, <2>3
<1>8. QED
  BY <1>7

(* Unfailed bubbles are not red.                                           *)
LEMMA SetFailedColours ==
  ASSUME TypeOK, NEW g \in Groups, NEW i \in Ids, SetFailed(g, i, FALSE)
  PROVE  \A k \in DOMAIN overlay'[<<g, i>>] : ~overlay'[<<g, i>>][k].failed
<1> DEFINE old == overlay[<<g, i>>]
           new == [k \in DOMAIN old |-> [msg |-> old[k].msg, failed |-> FALSE]]
<1>1. overlay' = [overlay EXCEPT ![<<g, i>>] = new] /\ <<g, i>> \in DOMAIN overlay
  BY DEF SetFailed, TypeOK
<1>2. \A k \in DOMAIN new : ~new[k].failed
  OBVIOUS
<1> HIDE DEF new
<1>3. QED
  BY <1>1, <1>2

(* A failure while online turns the bubble red, with nothing under way.    *)
LEMMA RunRealErrorKept ==
  ASSUME NEW m \in Msgs, NEW i, Held(m, i), RunRealError, Carries(Head(uiq), i)
  PROVE  Kept(m, i)'
<1>1. /\ uiq # <<>> /\ uiq' = Tail(uiq) /\ ~Head(uiq).ok
      /\ SetFailed(Head(uiq).grp, Head(uiq).id, TRUE)
      /\ UNCHANGED <<active, ops, disk, store, sent>>
  BY DEF RunRealError, TakeHead, view, tasks, world
<1>2. /\ Tasks(i) = {} /\ Told(i)' = {}
      /\ Head(uiq).grp = GroupOf[m] /\ Head(uiq).id = i
      /\ Clean(m) => (sent[m] > 0 => Head(uiq).ok)
  BY <1>1, HeadHeld
<1>3. AtHome(m, i) /\ TypeOK /\ GroupOf[m] \in Groups /\ i \in Ids
  BY DEF Held, Kept
<1>4. \A g \in Groups : /\ Len(overlay'[<<g, i>>]) = Len(overlay[<<g, i>>])
                        /\ overlay'[<<g, i>>] = <<>> <=> overlay[<<g, i>>] = <<>>
  <2>1. SetFailed(GroupOf[m], i, TRUE)
    BY <1>1, <1>2
  <2>2. \A h \in Groups, j \in Ids :
          /\ Len(overlay'[<<h, j>>]) = Len(overlay[<<h, j>>])
          /\ overlay'[<<h, j>>] = <<>> <=> overlay[<<h, j>>] = <<>>
    BY <1>3, <2>1, SetFailedPlaces
  <2>3. QED
    BY <1>3, <2>2
<1>5. /\ Tasks(i)' = {} /\ Files(i)' = Files(i) /\ Unsent(m)
      /\ Shown(m, i)' # <<>> => Shown(m, i) # <<>>
  BY <1>1, <1>2, <1>3, <1>4 DEF Tasks, Files, Shown, Unsent
<1>6. Placed(m, i)'
  BY <1>3, <1>4 DEF Placed, AtHome
<1>7. Clean(m) => sent[m] = 0
  BY <1>1, <1>2, <1>3 DEF TypeOK
<1>8. QED
  BY <1>1, <1>2, <1>5, <1>6, <1>7, KeptIdle

(* Drawing the bubble of a message where there was none.                   *)
LEMMA DrawnPlaces ==
  ASSUME NEW m \in Msgs, NEW i, Held(m, i), NEW g \in Groups, g = GroupOf[m],
         NEW n, ~Reddened(m, i),
         \/ Found(g, i) /\ UNCHANGED overlay
         \/ /\ ~Found(g, i)
            /\ overlay' = [overlay EXCEPT ![<<g, i>>] = <<[msg |-> n, failed |-> FALSE]>>]
  PROVE  Placed(m, i)' /\ ~Reddened(m, i)' /\ Shown(m, i)' # <<>>
<1>1. AtHome(m, i) /\ TypeOK /\ i \in Ids
  BY DEF Held, Kept
<1>2. CASE Found(g, i) /\ UNCHANGED overlay
  BY <1>1, <1>2 DEF AtHome, Placed, Reddened, Shown, Found
<1>3. CASE ~Found(g, i) /\ overlay' = [overlay EXCEPT ![<<g, i>>] = <<[msg |-> n, failed |-> FALSE]>>]
  <2>1. \A h \in Groups : <<h, i>> \in DOMAIN overlay
    BY <1>1 DEF TypeOK
  <2>2. /\ overlay'[<<g, i>>] = <<[msg |-> n, failed |-> FALSE]>>
        /\ \A h \in Groups : h # g => overlay'[<<h, i>>] = overlay[<<h, i>>]
    BY <1>3, <2>1
  <2>3. Shown(m, i)' = <<[msg |-> n, failed |-> FALSE]>>
    BY <2>2 DEF Shown
  <2>4. Placed(m, i)'
    <3>1. \A h \in Groups : h # g => overlay'[<<h, i>>] = <<>>
      BY <1>1, <2>2 DEF AtHome
    <3>2. Len(overlay'[<<g, i>>]) = 1
      BY <2>2
    <3>3. QED
      BY <3>1, <3>2 DEF Placed
  <2>5. Shown(m, i)' # <<>> /\ ~Reddened(m, i)'
    BY <2>3 DEF Reddened
  <2>6. QED
    BY <2>4, <2>5
<1>4. QED
  BY <1>2, <1>3

(* A posted replay becomes a task.                                         *)
LEMMA RunReplayKept ==
  ASSUME NEW m \in Msgs, NEW i, Held(m, i), RunReplay, Carries(Head(uiq), i)
  PROVE  Kept(m, i)'
<1> DEFINE c == Head(uiq)
           o == [id |-> c.id, msg |-> c.msg, grp |-> c.grp, acct |-> active,
                 try |-> attempts[c.msg] + 1, stage |-> "sending"]
<1>1. /\ uiq # <<>> /\ uiq' = Tail(uiq) /\ c.kind = "spawn"
      /\ UNCHANGED <<active, disk, store, sent>>
      /\ ops' = ops \cup {o} /\ inflight' = inflight \cup {c.id}
      /\ overlay' = IF Found(c.grp, c.id) THEN overlay
                    ELSE [overlay EXCEPT ![<<c.grp, c.id>>] =
                            <<[msg |-> c.msg, failed |-> FALSE]>>]
  BY DEF RunReplay, TakeHead, view, world, Dispatch
<1>2. o.id = c.id /\ o.grp = c.grp
  OBVIOUS
<1> HIDE DEF c, o
<1>3. /\ Tasks(i) = {} /\ Told(i)' = {} /\ ~Reddened(m, i)
      /\ c.grp = GroupOf[m] /\ c.id = i
      /\ ~Clean(m) /\ (m \in discarded \/ Files(i) # {})
  BY <1>1, HeadHeld DEF c
<1>4. TypeOK /\ GroupOf[m] \in Groups
  BY DEF Held
<1>5. Placed(m, i)' /\ ~Reddened(m, i)'
  BY <1>1, <1>3, <1>4, DrawnPlaces
<1>6. Tasks(i)' = {o} /\ Files(i)' = Files(i) /\ Unsent(m) /\ i \in inflight'
  BY <1>1, <1>2, <1>3 DEF Tasks, Files, Unsent
<1>7. QED
  BY <1>1, <1>2, <1>3, <1>5, <1>6, KeptSending

(* A retry unfails the bubble and starts over.                             *)
LEMMA RetryKept ==
  ASSUME NEW m \in Msgs, NEW i, Held(m, i), NEW g \in Groups, Retry(g, i)
  PROVE  Kept(m, i)'
<1>1. /\ Found(g, i) /\ SetFailed(g, i, FALSE)
      /\ \E k \in DOMAIN overlay[<<g, i>>] : overlay[<<g, i>>][k].failed
      /\ UNCHANGED <<active, disk, store, sent>>
  BY DEF Retry, view, world
<1>2. /\ TypeOK /\ Provenance /\ i \in Ids /\ GroupOf[m] \in Groups
      /\ AtHome(m, i) /\ Single(m, i) /\ Filed(m, i)
  BY DEF Held, Kept
<1>3. g = GroupOf[m] /\ Shown(m, i) # <<>>
  BY <1>1, <1>2 DEF Found, AtHome, Shown
<1>4. Tasks(i) = {} /\ Told(i) = {} /\ (m \in discarded \/ Files(i) # {})
  BY <1>1, <1>2, <1>3 DEF Single, Shown, Filed
<1>5. \A h \in Groups : /\ Len(overlay'[<<h, i>>]) = Len(overlay[<<h, i>>])
                        /\ overlay'[<<h, i>>] = <<>> <=> overlay[<<h, i>>] = <<>>
  BY <1>1, <1>2, SetFailedPlaces
<1>6. Placed(m, i)' /\ Shown(m, i)' # <<>>
  BY <1>2, <1>3, <1>5 DEF Placed, AtHome, Shown
<1>7. ~Reddened(m, i)'
  BY <1>1, <1>2, <1>3, SetFailedColours DEF Reddened, Shown
<1>8. Files(i)' = Files(i) /\ Unsent(m)
  BY <1>1 DEF Files, Unsent
<1>9. FindSend(g, i).msg = m
  <2>1. \A k \in DOMAIN overlay[<<g, i>>] : overlay[<<g, i>>][k].msg = m
    BY <1>2, OwnsItsId DEF Held, Owned
  <2>2. overlay[<<g, i>>] \in Seq(Bubble) /\ overlay[<<g, i>>] # <<>>
    BY <1>1, <1>2 DEF TypeOK, Found
  <2>3. 1 \in DOMAIN overlay[<<g, i>>] /\ Head(overlay[<<g, i>>]) = overlay[<<g, i>>][1]
    BY <2>2
  <2>4. QED
    BY <2>1, <2>3 DEF FindSend
<1>10. Clean(m) => sent[m] = 0 /\ \A e \in Files(i) : e.acct = active
  BY <1>2, <1>3, <1>4 DEF Held, Kept, Once, OneAccount, TypeOK
<1>11. CASE /\ Dispatch(i, FindSend(g, i).msg, g) /\ UNCHANGED uiq
  <2> DEFINE o == [id |-> i, msg |-> FindSend(g, i).msg, grp |-> g, acct |-> active,
                   try |-> attempts[FindSend(g, i).msg] + 1, stage |-> "sending"]
  <2>1. ops' = ops \cup {o} /\ inflight' = inflight \cup {i}
    BY <1>11 DEF Dispatch
  <2>2. o.id = i /\ o.grp = g /\ o.acct = active
    OBVIOUS
  <2> HIDE DEF o
  <2>3. Tasks(i)' = {o} /\ Told(i)' = {} /\ i \in inflight'
    BY <1>4, <1>11, <2>1, <2>2 DEF Tasks, Told
  <2>4. QED
    BY <1>1, <1>3, <1>4, <1>6, <1>7, <1>8, <1>10, <2>2, <2>3, KeptSending
<1>12. ASSUME NEW e \in disk, ~IsText(FindSend(g, i).msg), Post(Spawn(i, e.msg, g)),
              inflight' = inflight \cup {i}, UNCHANGED <<ops, attempts>>
       PROVE  Kept(m, i)'
  <2> DEFINE c == Spawn(i, e.msg, g)
  <2>1. c \in Closure /\ uiq' = Append(uiq, c)
    BY <1>2, <1>12, SpawnTypes DEF TypeOK, Entry, Post
  <2>2. Carries(c, i) /\ c.grp = GroupOf[m] /\ c.kind = "spawn"
    BY <1>3 DEF Spawn, Carries
  <2> HIDE DEF c
  <2>3. ~Clean(m) /\ i \in inflight' /\ Tasks(i)' = {}
    BY <1>4, <1>9, <1>12 DEF Clean, Tasks
  <2>4. QED
    BY <1>1, <1>4, <1>6, <1>7, <1>8, <2>1, <2>2, <2>3, KeptTold
<1>13. CASE ~IsText(FindSend(g, i).msg) /\ UNCHANGED <<uiq, inflight, ops, attempts>>
  <2>1. ~Clean(m) /\ Tasks(i)' = {} /\ Told(i)' = {}
    BY <1>4, <1>9, <1>13 DEF Clean, Tasks, Told
  <2>2. QED
    BY <1>1, <1>3, <1>6, <1>8, <2>1, KeptIdle
<1>14. QED
  BY <1>11, <1>12, <1>13 DEF Retry

(* A switch leaves everything but the bubbles.                             *)
LEMMA SwitchKept ==
  ASSUME NEW m \in Msgs, NEW i, Held(m, i), NEW a \in Accounts, SwitchAccount(a)
  PROVE  Kept(m, i)'
<1>1. /\ overlay' = NoBubbles
      /\ UNCHANGED <<ops, uiq, inflight, disk, store, sent>>
  BY DEF SwitchAccount, tasks, world
<1>2. /\ TypeOK /\ i \in Ids /\ GroupOf[m] \in Groups /\ Ahead(m)
      /\ AtHome(m, i) /\ Single(m, i) /\ Filed(m, i)
  BY DEF Held, Kept
<1>3. \A g \in Groups : overlay'[<<g, i>>] = <<>>
  BY <1>1, <1>2 DEF NoBubbles
<1>4. Tasks(i)' = Tasks(i) /\ Told(i)' = Told(i) /\ Files(i)' = Files(i) /\ Shown(m, i)' = <<>>
  BY <1>1, <1>2, <1>3 DEF Tasks, Told, Files, Shown
<1>5. AtHome(m, i)'
  BY <1>1, <1>2, <1>3, <1>4 DEF AtHome, Ahead
<1>6. Single(m, i)' /\ Filed(m, i)'
  BY <1>1, <1>2, <1>4 DEF Single, Filed, Ahead
<1>7. ASSUME Clean(m)' PROVE Once(m, i)' /\ OneAccount(m, i)'
  <2>1. Once(m, i) /\ OneAccount(m, i)
    BY <1>2, <1>7, CleanBefore DEF Held, Kept
  <2>2. QED
    BY <1>1, <1>4, <2>1 DEF Once, OneAccount
<1>8. QED
  BY <1>5, <1>6, <1>7 DEF Kept

(* An entry the flush visits that is not marked has no task and no replay. *)
LEMMA VisitHeld ==
  ASSUME NEW m \in Msgs, NEW i, Held(m, i), NEW e \in flush.todo, e.id = i,
         i \notin inflight
  PROVE  /\ e \in Files(i) /\ e.grp = GroupOf[m] /\ e.acct = active
         /\ e.at = queuedAt[m] /\ e.msg = m /\ Tasks(i) = {}
         /\ \A k \in Told(i) : uiq[k].kind = "done"
<1>1. TypeOK /\ Provenance /\ AtHome(m, i) /\ Single(m, i) /\ TodoFiled
  BY DEF Held, Kept, Filing
<1>2. e \in Files(i) /\ e.acct = active
  BY <1>1 DEF TodoFiled, Files
<1>3. e.msg = m
  BY <1>1, OwnsItsId DEF Held, Owned
<1>4. \A k \in Told(i) : uiq[k].kind \in {"done", "spawn"}
  BY DEF Told, Carries
<1>5. QED
  BY <1>1, <1>2, <1>3, <1>4 DEF AtHome, Single

(* The flush forgets the entry of a message that nothing shows.            *)
LEMMA FlushForgetKept ==
  ASSUME NEW m \in Msgs, NEW i, Held(m, i), NEW e \in flush.todo, FlushForget(e), e.id = i
  PROVE  Kept(m, i)'
<1>1. /\ i \notin inflight /\ ~Found(e.grp, i)
      /\ disk' = {f \in disk : f.id # i}
      /\ UNCHANGED <<active, ops, uiq, overlay, inflight, store, sent>>
  BY DEF FlushForget, SkipsFlush, Unpersist, view, tasks, world
<1>2. /\ e.grp = GroupOf[m] /\ Tasks(i) = {}
      /\ \A k \in Told(i) : uiq[k].kind = "done"
  BY <1>1, VisitHeld
<1>3. /\ TypeOK /\ i \in Ids /\ GroupOf[m] \in Groups /\ Ahead(m)
      /\ AtHome(m, i) /\ Single(m, i)
  BY DEF Held, Kept
<1>4. /\ Tasks(i)' = {} /\ Told(i)' = Told(i) /\ Files(i)' = {}
      /\ Shown(m, i) = <<>> /\ Shown(m, i)' = <<>>
  BY <1>1, <1>2 DEF Tasks, Told, Files, Shown, Found
<1>5. AtHome(m, i)'
  BY <1>1, <1>3, <1>4 DEF AtHome, Ahead
<1>6. Single(m, i)' /\ Filed(m, i)'
  BY <1>1, <1>2, <1>3, <1>4 DEF Single, Filed
<1>7. ASSUME Clean(m)' PROVE Once(m, i)' /\ OneAccount(m, i)'
  <2>1. Once(m, i)
    BY <1>3, <1>7, CleanBefore DEF Held, Kept
  <2>2. QED
    BY <1>1, <1>2, <1>4, <2>1 DEF Once, OneAccount
<1>8. QED
  BY <1>5, <1>6, <1>7 DEF Kept

(* A text no record of which is near was not sent; one with a bubble and   *)
(* no completion under way was not either.                                 *)
LEMMA VisitUnsent ==
  ASSUME NEW m \in Msgs, NEW i, Held(m, i), NEW e \in flush.todo, e.id = i,
         i \notin inflight, Found(e.grp, i) \/ ~LooksAlreadySent(e), Clean(m)
  PROVE  sent[m] = 0 \/ (Shown(m, i) # <<>> /\ Told(i) # {})
<1>1. /\ e \in Files(i) /\ e.grp = GroupOf[m] /\ e.acct = active /\ e.msg = m
      /\ e.at = queuedAt[m] /\ Tasks(i) = {}
  BY VisitHeld
<1>2. TypeOK /\ Recorded /\ AtHome(m, i) /\ Once(m, i) /\ OneAccount(m, i)
  BY DEF Held, Kept, Filing
<1>3. CASE Found(e.grp, i)
  BY <1>1, <1>2, <1>3 DEF Once, Found, Shown, TypeOK
<1>4. CASE ~LooksAlreadySent(e)
  <2>1. SUFFICES ASSUME sent[m] > 0 PROVE FALSE
    BY <1>2 DEF TypeOK
  <2>2. PICK r \in store : r.msg = m
    BY <1>2, <2>1 DEF Recorded
  <2>3. r.grp = e.grp /\ r.acct = active /\ Within(r.at, e.at)
    BY <1>1, <1>2, <2>2 DEF AtHome, OneAccount, Clean
  <2>4. IsText(e.msg) /\ BodyOf[r.msg] = BodyOf[e.msg]
    BY <1>1, <2>2 DEF Clean
  <2>5. QED
    BY <1>4, <2>3, <2>4 DEF LooksAlreadySent
<1>5. QED
  BY <1>3, <1>4

(* The flush draws the bubble and, online, sends once more.                *)
LEMMA FlushSendKept ==
  ASSUME NEW m \in Msgs, NEW i, Held(m, i), NEW e \in flush.todo, FlushSend(e), e.id = i
  PROVE  Kept(m, i)'
<1>1. /\ ~SkipsFlush(e) /\ (Found(e.grp, i) \/ ~LooksAlreadySent(e))
      /\ overlay' = IF Found(e.grp, i) THEN overlay
                    ELSE [overlay EXCEPT ![<<e.grp, i>>] =
                            <<[msg |-> e.msg, failed |-> FALSE]>>]
      /\ UNCHANGED <<active, disk, store, sent>>
  BY DEF FlushSend, view, world
<1>2. i \notin inflight /\ ~(Found(e.grp, i) /\ FindSend(e.grp, i).failed)
  BY <1>1 DEF SkipsFlush
<1>3. /\ TypeOK /\ Provenance /\ i \in Ids /\ GroupOf[m] \in Groups
      /\ AtHome(m, i) /\ Single(m, i) /\ Filed(m, i)
  BY DEF Held, Kept
<1>4. /\ e \in Files(i) /\ e.grp = GroupOf[m] /\ e.acct = active /\ e.msg = m
      /\ Tasks(i) = {} /\ \A k \in Told(i) : uiq[k].kind = "done"
  BY <1>2, VisitHeld
<1>5. ~Reddened(m, i)
  <2>1. CASE Shown(m, i) = <<>>
    BY <2>1 DEF Reddened
  <2>2. CASE Shown(m, i) # <<>>
    <3>1. Shown(m, i) \in Seq(Bubble) /\ Len(Shown(m, i)) = 1
      BY <1>3, <2>2 DEF Shown, TypeOK, AtHome
    <3>2. \A k \in DOMAIN Shown(m, i) : Shown(m, i)[k] = Head(Shown(m, i))
      BY <3>1
    <3>3. ~Head(Shown(m, i)).failed
      BY <1>2, <1>4, <2>2 DEF Shown, Found, FindSend
    <3>4. QED
      BY <3>2, <3>3 DEF Reddened
  <2>3. QED
    BY <2>1, <2>2
<1>6. Placed(m, i)' /\ ~Reddened(m, i)' /\ Shown(m, i)' # <<>>
  BY <1>1, <1>3, <1>4, <1>5, DrawnPlaces
<1>7. Files(i)' = Files(i) /\ Unsent(m)
  BY <1>1 DEF Files, Unsent
<1>8. Clean(m) => sent[m] = 0 \/ (Shown(m, i) # <<>> /\ Told(i) # {})
  BY <1>1, <1>2, VisitUnsent
<1>9. Told(i) # {} => Unheard(i)
  BY <1>4 DEF Told, Carries, Unheard
<1>10. Files(i) = {e}
  BY <1>4 DEF Held, Filing, OneFile, Files
<1>11. m \notin overtaken'
  BY DEF Held, Owned
<1>12. CASE UNCHANGED <<inflight, ops, uiq>>
  <2>1. Tasks(i)' = {} /\ Told(i)' = Told(i)
    BY <1>4, <1>12 DEF Tasks, Told
  <2>2. AtHome(m, i)'
    BY <1>3, <1>6, <1>7, <1>12, <2>1 DEF AtHome, Placed, Unsent, Held, Ahead
  <2>3. Single(m, i)' /\ Filed(m, i)'
    BY <1>3, <1>4, <1>6, <1>7, <1>12, <2>1 DEF Single, Filed, Reddened
  <2>4. ASSUME Clean(m)' PROVE Once(m, i)' /\ OneAccount(m, i)'
    <3>1. Clean(m) /\ Once(m, i) /\ OneAccount(m, i)
      BY <2>4, CleanBefore DEF Held, Kept
    <3>2. Once(m, i)'
      BY <1>7, <1>8, <1>12, <2>1, <3>1 DEF Once, Unsent
    <3>3. OneAccount(m, i)'
      BY <1>1, <1>4, <1>7, <1>10, <2>1, <3>1 DEF OneAccount, Unsent
    <3>4. QED
      BY <3>2, <3>3
  <2>5. QED
    BY <2>2, <2>3, <2>4 DEF Kept
<1>13. CASE /\ IsText(e.msg) /\ Dispatch(e.id, e.msg, e.grp)
            /\ overtaken' = IF Unheard(e.id) THEN overtaken \cup {e.msg} ELSE overtaken
            /\ UNCHANGED uiq
  <2> DEFINE o == [id |-> i, msg |-> e.msg, grp |-> e.grp, acct |-> active,
                   try |-> attempts[e.msg] + 1, stage |-> "sending"]
  <2>1. ops' = ops \cup {o} /\ inflight' = inflight \cup {i}
    BY <1>13 DEF Dispatch
  <2>2. o.id = i /\ o.grp = e.grp /\ o.acct = active
    OBVIOUS
  <2> HIDE DEF o
  <2>3. Told(i) = {}
    BY <1>4, <1>9, <1>11, <1>13
  <2>4. Tasks(i)' = {o} /\ Told(i)' = {} /\ i \in inflight'
    BY <1>4, <1>13, <2>1, <2>2, <2>3 DEF Tasks, Told
  <2>5. Clean(m) => sent[m] = 0 /\ \A f \in Files(i) : o.acct = f.acct /\ f.acct = active
    BY <1>4, <1>8, <1>10, <2>2, <2>3
  <2>6. QED
    BY <1>1, <1>4, <1>6, <1>7, <2>2, <2>4, <2>5, KeptSending
<1>14. CASE /\ ~IsText(e.msg) /\ inflight' = inflight \cup {e.id}
            /\ Post(Spawn(e.id, e.msg, e.grp))
            /\ overtaken' = IF Unheard(e.id) THEN overtaken \cup {e.msg} ELSE overtaken
            /\ UNCHANGED <<ops, attempts>>
  <2> DEFINE c == Spawn(i, e.msg, e.grp)
  <2>1. c \in Closure /\ uiq' = Append(uiq, c)
    BY <1>3, <1>4, <1>14, SpawnTypes DEF Post
  <2>2. Carries(c, i) /\ c.grp = GroupOf[m] /\ c.kind = "spawn"
    BY <1>4 DEF Spawn, Carries
  <2> HIDE DEF c
  <2>3. Told(i) = {}
    BY <1>4, <1>9, <1>11, <1>14
  <2>4. ~Clean(m) /\ i \in inflight' /\ Tasks(i)' = {}
    BY <1>4, <1>14 DEF Clean, Tasks
  <2>5. QED
    BY <1>1, <1>4, <1>6, <1>7, <2>1, <2>2, <2>3, <2>4, KeptTold
<1>15. QED
  BY <1>12, <1>13, <1>14 DEF FlushSend

(* The process ends, with a file less or not.                              *)
LEMMA ExitKept ==
  ASSUME NEW m \in Msgs, NEW i, Held(m, i), Exit, disk' \subseteq disk
  PROVE  Kept(m, i)'
<1>1. /\ overlay' = NoBubbles /\ ops' = {} /\ uiq' = <<>>
      /\ UNCHANGED <<store, sent>>
  BY DEF Exit, world
<1>2. TypeOK /\ i \in Ids /\ idOf[m] = i /\ Kept(m, i) /\ Ahead(m)
  BY DEF Held
<1>3. /\ Tasks(i)' = {} /\ Told(i)' = {} /\ Files(i)' \subseteq Files(i)
      /\ \A g \in Groups : overlay'[<<g, i>>] = <<>>
  BY <1>1, <1>2 DEF Tasks, Told, Files, NoBubbles, Unsent
<1>4. QED
  BY <1>1, <1>2, <1>3, Forgotten DEF Unsent

(* A reset empties the directory of a program that is not running.         *)
LEMMA ResetKept ==
  ASSUME NEW m \in Msgs, NEW i, Held(m, i), ResetVault
  PROVE  Kept(m, i)'
<1>1. /\ proc = "off" /\ disk' = {}
      /\ UNCHANGED <<ops, uiq, overlay, store, sent>>
  BY DEF ResetVault, ram, tasks, world
<1>2. TypeOK /\ i \in Ids /\ idOf[m] = i /\ Kept(m, i) /\ Ahead(m) /\ Down
  BY DEF Held, Filing
<1>3. /\ Tasks(i)' = {} /\ Told(i)' = {} /\ Files(i)' \subseteq Files(i)
      /\ \A g \in Groups : overlay'[<<g, i>>] = <<>>
  BY <1>1, <1>2 DEF Tasks, Told, Files, NoBubbles, Down
<1>4. Unsent(m)
  BY <1>1 DEF Unsent
<1>5. QED
  BY <1>2, <1>3, <1>4, Forgotten
-----------------------------------------------------------------------------
(* A message that gets an id no other message has finds nothing under it.  *)
LEMMA FreshId ==
  ASSUME TypeOK, Provenance, NEW n \in Msgs, NEW i \in Ids, idOf[n] = NoId,
         idOf' = [idOf EXCEPT ![n] = i], ~Reused(n)'
  PROVE  /\ Tasks(i) = {} /\ Told(i) = {} /\ Files(i) = {}
         /\ \A g \in Groups : overlay[<<g, i>>] = <<>>
<1>1. idOf'[n] = i /\ \A x \in Msgs \ {n} : idOf'[x] = idOf[x]
  BY DEF TypeOK
<1>2. \A x \in Msgs : idOf[x] # i
  BY <1>1, NoIdFresh DEF Reused
<1>3. Tasks(i) = {} /\ Files(i) = {}
  BY <1>2 DEF TypeOK, Op, Entry, Provenance, OpsNamed, EntriesNamed, Named, Tasks, Files
<1>4. ASSUME NEW k \in Told(i) PROVE FALSE
  <2>1. /\ k \in DOMAIN uiq /\ uiq[k] \in Closure
        /\ uiq[k].kind \in {"done", "spawn"} /\ uiq[k].id = i
    BY DEF Told, Carries, TypeOK
  <2>2. uiq[k].msg \in Msgs
    BY <2>1 DEF Closure
  <2>3. Named(uiq[k].msg, i)
    BY <2>1, NoIdFresh DEF Provenance, ClosuresNamed, ClosureNamed
  <2>4. QED
    BY <1>2, <2>2, <2>3 DEF Named
<1>5. ASSUME NEW g \in Groups PROVE overlay[<<g, i>>] = <<>>
  <2>1. overlay[<<g, i>>] \in Seq(Bubble)
    BY DEF TypeOK
  <2>2. ASSUME NEW k \in DOMAIN overlay[<<g, i>>] PROVE FALSE
    <3>1. overlay[<<g, i>>][k] \in Bubble
      BY <2>1
    <3>2. overlay[<<g, i>>][k].msg \in Msgs
      BY <3>1 DEF Bubble
    <3>3. <<g, i>> \in Groups \X Ids /\ <<g, i>>[2] = i
      OBVIOUS
    <3>4. Named(overlay[<<g, i>>][k].msg, i)
      BY <3>3 DEF Provenance, BubblesNamed
    <3>5. QED
      BY <1>2, <3>2, <3>4 DEF Named
  <2>3. overlay[<<g, i>>] # <<>> => 1 \in DOMAIN overlay[<<g, i>>]
    BY <2>1
  <2>4. QED
    BY <2>2, <2>3
<1>6. QED
  BY <1>3, <1>4, <1>5

(* A first send starts a message well.                                     *)
LEMMA EnqueueKept ==
  ASSUME TypeOK, Provenance, Filing, NEW n \in Msgs, NEW i \in Ids,
         Enqueue(n, GroupOf[n]), idOf[n] = NoId, idOf'[n] = i, ~Reused(n)',
         UNCHANGED uiq \/ (uiq # <<>> /\ uiq' = Tail(uiq)),
         UNCHANGED <<active, store, sent>>
  PROVE  Kept(n, i)'
<1> DEFINE o == [id |-> i, msg |-> n, grp |-> GroupOf[n], acct |-> active,
                 try |-> attempts[n] + 1, stage |-> "sending"]
           e == [id |-> i, msg |-> n, acct |-> active, grp |-> GroupOf[n], at |-> now]
           b == [msg |-> n, failed |-> FALSE]
<1>1. idOf' = [idOf EXCEPT ![n] = nextId] /\ nextId = i /\ GroupOf[n] \in Groups
  BY DEF Enqueue, NextTempId, TypeOK
<1>2. /\ Tasks(i) = {} /\ Told(i) = {} /\ Files(i) = {}
      /\ \A g \in Groups : overlay[<<g, i>>] = <<>>
  BY <1>1, FreshId
<1>3. /\ ops' = ops \cup {o} /\ inflight' = inflight \cup {i}
      /\ overlay' = [overlay EXCEPT ![<<GroupOf[n], i>>] = Append(overlay[<<GroupOf[n], i>>], b)]
  BY <1>1 DEF Enqueue, Dispatch, NextTempId, TypeOK
<1>4. queuedAt'[n] = now
  BY DEF Enqueue, TypeOK
<1>5. o.id = i /\ o.grp = GroupOf[n] /\ o.acct = active /\ o.stage = "sending"
  OBVIOUS
<1>6. e.id = i /\ e.grp = GroupOf[n] /\ e.acct = active /\ e.at = now
  OBVIOUS
<1>7. \/ disk' = {f \in disk : f.id # i} \cup {e}
      \/ n \in discarded' /\ UNCHANGED disk
  BY <1>1 DEF Enqueue, Persist, NextTempId
<1>8. \A g \in Groups : overlay'[<<g, i>>] = IF g = GroupOf[n] THEN <<b>> ELSE <<>>
  <2>1. \A g \in Groups : <<g, i>> \in DOMAIN overlay
    BY DEF TypeOK
  <2>2. overlay'[<<GroupOf[n], i>>] = Append(<<>>, b)
    BY <1>1, <1>2, <1>3, <2>1
  <2>3. \A g \in Groups \ {GroupOf[n]} : overlay'[<<g, i>>] = <<>>
    BY <1>1, <1>2, <1>3, <2>1
  <2>4. Append(<<>>, b) = <<b>>
    OBVIOUS
  <2> HIDE DEF b
  <2>5. QED
    BY <2>2, <2>3, <2>4
<1>9. ~b.failed
  OBVIOUS
<1> HIDE DEF o, e, b
<1>10. Tasks(i)' = {o}
  BY <1>2, <1>3, <1>5 DEF Tasks
<1>11. Files(i)' \subseteq {e} /\ (n \in discarded' \/ Files(i)' # {})
  BY <1>2, <1>6, <1>7 DEF Files
<1>12. Told(i)' = {}
  <2>1. CASE UNCHANGED uiq
    BY <1>2, <2>1 DEF Told
  <2>2. CASE uiq # <<>> /\ uiq' = Tail(uiq)
    BY <1>2, <2>2, ToldTail
  <2>3. QED
    BY <2>1, <2>2
<1>13. Shown(n, i)' = <<b>>
  BY <1>1, <1>8 DEF Shown
<1>14. sent[n] = 0 /\ \A r \in store : r.msg # n
  <2>1. sent[n] = 0
    BY DEF Filing, Recorded, TypeOK
  <2>2. QED
    BY <2>1 DEF Provenance, StoreSent
<1>15. AtHome(n, i)'
  BY <1>4, <1>5, <1>6, <1>8, <1>10, <1>11, <1>12, <1>14 DEF AtHome
<1>16. Single(n, i)' /\ Filed(n, i)'
  BY <1>3, <1>9, <1>10, <1>11, <1>12, <1>13 DEF Single, Filed
<1>17. Once(n, i)'
  BY <1>12, <1>14 DEF Once
<1>18. OneAccount(n, i)'
  BY <1>5, <1>6, <1>10, <1>11, <1>14 DEF OneAccount
<1>19. QED
  BY <1>15, <1>16, <1>17, <1>18 DEF Kept

(* A first send of another message touches nothing of m.                   *)
LEMMA EnqueuePasses ==
  ASSUME NEW m \in Msgs, NEW i, Held(m, i), NEW n \in Msgs, NEW g \in Groups,
         Enqueue(n, g), idOf[n] = NoId,
         UNCHANGED uiq \/ (uiq # <<>> /\ uiq' = Tail(uiq) /\ ~Carries(Head(uiq), i))
  PROVE  Passes(i)
<1>1. TypeOK /\ i \in Ids /\ idOf[m] = i /\ ~Reused(m)' /\ idOf'[m] = i
  BY DEF Held, Owned, Ahead
<1>2. n # m /\ idOf'[n] = nextId
  BY <1>1, NoIdFresh DEF Enqueue, NextTempId, TypeOK
<1>3. nextId # i
  BY <1>1, <1>2 DEF Reused
<1>4. Tasks(i)' = Tasks(i) /\ (i \in inflight => i \in inflight')
  BY <1>3 DEF Enqueue, NextTempId, Dispatch, Tasks
<1>5. Files(i)' = Files(i)
  BY <1>3 DEF Enqueue, NextTempId, Persist, Files
<1>6. \A h \in Groups : overlay'[<<h, i>>] = overlay[<<h, i>>]
  <2>1. \A h \in Groups : <<h, i>> \in DOMAIN overlay /\ <<h, i>> # <<g, nextId>>
    BY <1>1, <1>3 DEF TypeOK
  <2>2. QED
    BY <2>1 DEF Enqueue, NextTempId
<1>7. QED
  BY <1>4, <1>5, <1>6 DEF Passes

(* What the user does keeps an owned message.                              *)
LEMMA UserKept ==
  ASSUME NEW m \in Msgs, NEW i, Held(m, i), User
  PROVE  Kept(m, i)'
<1>0. /\ TypeOK /\ Provenance /\ i \in Ids /\ i # NoId /\ idOf[m] = i
      /\ Kept(m, i) /\ Ahead(m)
  BY NoIdFresh DEF Held
<1>1. ASSUME NEW n \in Msgs, SendText(n) PROVE Kept(m, i)'
  <2>1. /\ Enqueue(n, GroupOf[n]) /\ GroupOf[n] \in Groups
        /\ UNCHANGED <<active, uiq, store, sent>>
    BY <1>1 DEF SendText, view, world
  <2>2. idOf[n] = NoId
    BY <1>0, <1>1, EnqueuesFirst
  <2>3. Passes(i)
    BY <2>1, <2>2, EnqueuePasses
  <2>4. QED
    BY <1>0, <2>1, <2>3, Untouched DEF Unsent
<1>2. ASSUME NEW n \in Msgs, SendMedia(n) PROVE Kept(m, i)'
  <2> DEFINE c == Spawn(NoId, n, GroupOf[n])
  <2>1. /\ uiq' = Append(uiq, c)
        /\ UNCHANGED <<active, overlay, inflight, disk, ops, store, sent>>
    BY <1>2 DEF SendMedia, Post, view, tasks, world
  <2>2. c \in Closure /\ ~Carries(c, i)
    BY <1>0, SpawnTypes DEF Carries, Spawn
  <2> HIDE DEF c
  <2>3. Passes(i)
    BY <2>1, <2>2 DEF Passes, Tasks, Files
  <2>4. QED
    BY <1>0, <2>1, <2>3, Untouched DEF Unsent
<1>3. ASSUME NEW n \in Msgs, RequestForward(n) PROVE Kept(m, i)'
  <2>1. UNCHANGED <<active, uiq, overlay, inflight, disk, ops, store, sent>>
    BY <1>3 DEF RequestForward, view, ram, world
  <2>2. Passes(i)
    BY <2>1 DEF Passes, Tasks, Files
  <2>3. QED
    BY <1>0, <2>1, <2>2, Untouched DEF Unsent
<1>4. ASSUME NEW g \in Groups, NEW j \in Ids, Retry(g, j), j # i PROVE Kept(m, i)'
  <2>1. /\ SetFailed(g, j, FALSE)
        /\ UNCHANGED <<active, disk, store, sent>>
    BY <1>4 DEF Retry, view, world
  <2>2. \A h \in Groups : overlay'[<<h, i>>] = overlay[<<h, i>>]
    <3>1. \A h \in Groups : <<h, i>> \in DOMAIN overlay /\ <<h, i>> # <<g, j>>
      BY <1>0, <1>4 DEF TypeOK
    <3>2. QED
      BY <2>1, <3>1 DEF SetFailed
  <2>3. /\ Tasks(i)' = Tasks(i) /\ (i \in inflight => i \in inflight')
        /\ \/ UNCHANGED uiq
           \/ \E c \in Closure : uiq' = Append(uiq, c) /\ ~Carries(c, i)
    <3>1. CASE Dispatch(j, FindSend(g, j).msg, g) /\ UNCHANGED uiq
      BY <1>4, <3>1 DEF Dispatch, Tasks
    <3>2. ASSUME NEW e \in disk, Post(Spawn(j, e.msg, g)), inflight' = inflight \cup {j},
                 UNCHANGED <<ops, attempts>>
          PROVE  /\ Tasks(i)' = Tasks(i) /\ (i \in inflight => i \in inflight')
                 /\ \E c \in Closure : uiq' = Append(uiq, c) /\ ~Carries(c, i)
      <4>1. e.msg \in Msgs
        BY <1>0 DEF TypeOK, Entry
      <4>2. Spawn(j, e.msg, g) \in Closure /\ ~Carries(Spawn(j, e.msg, g), i)
        BY <1>4, <4>1, SpawnTypes DEF Carries, Spawn
      <4>3. QED
        BY <3>2, <4>2 DEF Post, Tasks
    <3>3. CASE UNCHANGED <<uiq, inflight, ops, attempts>>
      BY <3>3 DEF Tasks
    <3>4. QED
      BY <1>4, <3>1, <3>2, <3>3 DEF Retry
  <2>4. Passes(i)
    BY <2>1, <2>2, <2>3 DEF Passes, Files
  <2>5. QED
    BY <1>0, <2>1, <2>4, Untouched DEF Unsent
<1>5. QED
  BY <1>1, <1>2, <1>3, <1>4, RetryKept, SwitchKept DEF User

(* So does what the workers do.                                            *)
LEMMA WorkerKept ==
  ASSUME NEW m \in Msgs, NEW i, Held(m, i), Worker
  PROVE  Kept(m, i)'
<1>0. /\ TypeOK /\ Provenance /\ i \in Ids /\ i # NoId /\ idOf[m] = i
      /\ Kept(m, i) /\ Ahead(m)
  BY NoIdFresh DEF Held
<1>1. ASSUME NEW o \in ops, Publish(o), o.id # i PROVE Kept(m, i)'
  <2> DEFINE p == [o EXCEPT !.stage = "sent"]
  <2>1. /\ ops' = (ops \ {o}) \cup {p}
        /\ UNCHANGED <<active, uiq, overlay, inflight, disk>>
    BY <1>1 DEF Publish, view, ram
  <2>2. p.id # i /\ o \in Op
    BY <1>0, <1>1 DEF TypeOK, Op
  <2> HIDE DEF p
  <2>3. Passes(i)
    BY <1>1, <2>1, <2>2 DEF Passes, Tasks, Files
  <2>4. o.msg # m
    BY <1>0, <1>1, OwnsItsId DEF Held, Owned
  <2>5. Unsent(m)
    BY <1>0, <1>1, <2>2, <2>4 DEF Unsent, Publish, TypeOK, Op
  <2>6. QED
    BY <1>0, <2>1, <2>3, <2>5, Untouched
<1>2. ASSUME NEW o \in ops, Fail(o), o.id # i PROVE Kept(m, i)'
  <2> DEFINE p == [o EXCEPT !.stage = "failed"]
  <2>1. /\ ops' = (ops \ {o}) \cup {p}
        /\ UNCHANGED <<active, uiq, overlay, inflight, disk, store, sent>>
    BY <1>2 DEF Fail, view, ram, world
  <2>2. p.id # i
    BY <1>0, <1>2 DEF TypeOK, Op
  <2> HIDE DEF p
  <2>3. Passes(i)
    BY <1>2, <2>1, <2>2 DEF Passes, Tasks, Files
  <2>4. QED
    BY <1>0, <2>1, <2>3, Untouched DEF Unsent
<1>3. ASSUME NEW o \in ops, Resolve(o), o.id # i PROVE Kept(m, i)'
  <2>1. /\ ops' = ops \ {o} /\ inflight' = inflight \ {o.id} /\ uiq' = Append(uiq, Done(o))
        /\ UNCHANGED <<active, overlay, disk, store, sent>>
    BY <1>3 DEF Resolve, LiftMark, Post, view, world
  <2>2. Done(o) \in Closure /\ ~Carries(Done(o), i)
    BY <1>0, <1>3 DEF TypeOK, Done, Op, Closure, Carries
  <2>3. Passes(i)
    BY <1>3, <2>1, <2>2 DEF Passes, Tasks, Files
  <2>4. QED
    BY <1>0, <2>1, <2>3, Untouched DEF Unsent
<1>4. ASSUME NEW o \in ops, ResolvePanics(o), o.id # i PROVE Kept(m, i)'
  <2>1. /\ ops' = ops \ {o} /\ inflight' = inflight \ {o.id}
        /\ UNCHANGED <<active, uiq, overlay, disk, store, sent>>
    BY <1>4 DEF ResolvePanics, LiftMark, world
  <2>2. Passes(i)
    BY <1>4, <2>1 DEF Passes, Tasks, Files
  <2>3. QED
    BY <1>0, <2>1, <2>2, Untouched DEF Unsent
<1>5. ASSUME NEW f \in gathering, FinishGather(f) PROVE Kept(m, i)'
  <2>1. Spawn(NoId, f.msg, GroupOf[f.msg]) \in Closure
    BY <1>0, SpawnTypes DEF TypeOK, Gather
  <2>2. ~Carries(Spawn(NoId, f.msg, GroupOf[f.msg]), i)
    BY <1>0 DEF Carries, Spawn
  <2>3. UNCHANGED <<active, overlay, inflight, disk, ops, store, sent>>
    BY <1>5 DEF FinishGather, view, world
  <2>4. Passes(i)
    BY <1>5, <2>1, <2>2, <2>3 DEF FinishGather, Post, Passes, Tasks, Files
  <2>5. QED
    BY <1>0, <2>3, <2>4, Untouched DEF Unsent
<1>6. CASE FetchChats
  <2>1. [kind |-> "chats", ids |-> GroupsOf[active]] \in Closure
    BY <1>0 DEF TypeOK, Closure
  <2>2. ~Carries([kind |-> "chats", ids |-> GroupsOf[active]], i)
    BY DEF Carries
  <2>3. UNCHANGED <<active, overlay, inflight, disk, ops, store, sent>>
    BY <1>6 DEF FetchChats, tasks, world
  <2>4. Passes(i)
    BY <1>6, <2>1, <2>2, <2>3 DEF FetchChats, Post, Passes, Tasks, Files
  <2>5. QED
    BY <1>0, <2>3, <2>4, Untouched DEF Unsent
<1>7. QED
  BY <1>1, <1>2, <1>3, <1>4, <1>5, <1>6, PublishKept, FailKept, ResolveKept,
     ResolvePanicsKept DEF Worker

(* So does every closure of the event loop.                                *)
LEMMA ClosureKept ==
  ASSUME NEW m \in Msgs, NEW i, Held(m, i), RunClosure
  PROVE  Kept(m, i)'
<1>0. /\ TypeOK /\ Provenance /\ Filing /\ i \in Ids /\ i # NoId /\ idOf[m] = i
      /\ Kept(m, i) /\ Ahead(m)
  BY NoIdFresh DEF Held
<1>1. uiq # <<>> /\ uiq' = Tail(uiq) /\ Head(uiq) \in Closure
  BY <1>0, HeadClosure DEF RunClosure, RunDropped, RunAck, RunOfflineError,
     RunRealError, RunFirstSpawn, RunReplay, RunChats, TakeHead
<1>2. CASE Carries(Head(uiq), i)
  <2>1. ~RunFirstSpawn /\ ~RunChats
    BY <1>0, <1>2 DEF Carries, RunFirstSpawn, RunChats, TakeHead
  <2>2. QED
    BY <1>2, <2>1, RunDroppedKept, RunAckKept, RunOfflineErrorKept, RunRealErrorKept,
       RunReplayKept DEF RunClosure
<1>3. CASE ~Carries(Head(uiq), i)
  <2> DEFINE c == Head(uiq)
  <2>0. /\ c.kind \in {"done", "spawn"} => c.id # i /\ c.grp \in Groups /\ c.msg \in Msgs
        /\ c.kind = "done" => c.id \in Ids
        /\ c.kind = "spawn" /\ c.id # NoId => c.id \in Ids
    BY <1>1, <1>3 DEF Carries, Closure
  <2>1. CASE RunDropped \/ RunOfflineError \/ RunChats
    <3>1. UNCHANGED <<active, overlay, inflight, disk, ops, store, sent>>
      BY <2>1 DEF RunDropped, RunOfflineError, RunChats, view, tasks, world
    <3>2. Passes(i)
      BY <1>1, <1>3, <3>1 DEF Passes, Tasks, Files
    <3>3. QED
      BY <1>0, <3>1, <3>2, Untouched DEF Unsent
  <2>2. CASE RunAck
    <3>1. /\ overlay' = [overlay EXCEPT ![<<c.grp, c.id>>] = <<>>]
          /\ disk' = {e \in disk : e.id # c.id} /\ c.kind = "done"
          /\ UNCHANGED <<active, inflight, ops, store, sent>>
      BY <2>2 DEF RunAck, TakeHead, DropSend, Unpersist, view, tasks, world
    <3>2. c.id # i
      BY <2>0, <3>1
    <3> HIDE DEF c
    <3>3. \A h \in Groups : overlay'[<<h, i>>] = overlay[<<h, i>>]
      <4>1. \A h \in Groups : <<h, i>> \in DOMAIN overlay /\ <<h, i>> # <<c.grp, c.id>>
        BY <1>0, <3>2 DEF TypeOK
      <4>2. QED
        BY <3>1, <4>1
    <3>4. Passes(i)
      BY <1>1, <1>3, <3>1, <3>2, <3>3 DEF Passes, Tasks, Files
    <3>5. QED
      BY <1>0, <3>1, <3>4, Untouched DEF Unsent
  <2>3. CASE RunRealError
    <3>1. /\ SetFailed(c.grp, c.id, TRUE) /\ c.kind = "done"
          /\ UNCHANGED <<active, inflight, disk, ops, store, sent>>
      BY <2>3 DEF RunRealError, TakeHead, view, tasks, world
    <3>2. c.id # i /\ c.id \in Ids /\ c.grp \in Groups
      BY <2>0, <3>1
    <3> HIDE DEF c
    <3>3. \A h \in Groups : overlay'[<<h, i>>] = overlay[<<h, i>>]
      <4>1. \A h \in Groups : <<h, i>> \in DOMAIN overlay /\ <<h, i>> # <<c.grp, c.id>>
        BY <1>0, <3>2 DEF TypeOK
      <4>2. QED
        BY <3>1, <4>1 DEF SetFailed
    <3>4. Passes(i)
      BY <1>1, <1>3, <3>1, <3>3 DEF Passes, Tasks, Files
    <3>5. QED
      BY <1>0, <3>1, <3>4, Untouched DEF Unsent
  <2>4. CASE RunFirstSpawn
    <3>1. /\ Enqueue(c.msg, c.grp) /\ c.kind = "spawn"
          /\ UNCHANGED <<active, store, sent>>
      BY <2>4 DEF RunFirstSpawn, TakeHead, view, world
    <3>2. c.msg \in Msgs /\ idOf[c.msg] = NoId /\ c.grp \in Groups
      BY <1>0, <2>0, <2>4, <3>1, EnqueuesFirst
    <3> HIDE DEF c
    <3>3. PICK n \in Msgs, g \in Groups : n = c.msg /\ g = c.grp
      BY <3>2
    <3>4. Enqueue(n, g) /\ idOf[n] = NoId
      BY <3>1, <3>2, <3>3
    <3>5. Passes(i)
      BY <1>1, <1>3, <3>4, EnqueuePasses
    <3>6. QED
      BY <1>0, <3>1, <3>5, Untouched DEF Unsent
  <2>5. CASE RunReplay
    <3>1. /\ c.kind = "spawn" /\ c.id # NoId /\ Dispatch(c.id, c.msg, c.grp)
          /\ overlay' = IF Found(c.grp, c.id) THEN overlay
                        ELSE [overlay EXCEPT ![<<c.grp, c.id>>] =
                                <<[msg |-> c.msg, failed |-> FALSE]>>]
          /\ UNCHANGED <<active, disk, store, sent>>
      BY <2>5 DEF RunReplay, TakeHead, view, world
    <3>2. c.id # i
      BY <2>0, <3>1
    <3> HIDE DEF c
    <3>3. \A h \in Groups : overlay'[<<h, i>>] = overlay[<<h, i>>]
      <4>1. \A h \in Groups : <<h, i>> \in DOMAIN overlay /\ <<h, i>> # <<c.grp, c.id>>
        BY <1>0, <3>2 DEF TypeOK
      <4>2. QED
        BY <3>1, <4>1
    <3>4. Tasks(i)' = Tasks(i) /\ (i \in inflight => i \in inflight')
      BY <3>1, <3>2 DEF Dispatch, Tasks
    <3>5. Passes(i)
      BY <1>1, <1>3, <3>1, <3>3, <3>4 DEF Passes, Files
    <3>6. QED
      BY <1>0, <3>1, <3>5, Untouched DEF Unsent
  <2>6. QED
    BY <2>1, <2>2, <2>3, <2>4, <2>5 DEF RunClosure
<1>4. QED
  BY <1>2, <1>3

(* So do the watcher and the flush.                                        *)
LEMMA FlushKept ==
  ASSUME NEW m \in Msgs, NEW i, Held(m, i), WatcherTick \/ FlushTick \/ FlushVisit
  PROVE  Kept(m, i)'
<1>0. /\ TypeOK /\ Provenance /\ i \in Ids /\ i # NoId /\ idOf[m] = i
      /\ Kept(m, i) /\ Ahead(m)
  BY NoIdFresh DEF Held
<1>1. ASSUME UNCHANGED <<active, uiq, overlay, inflight, disk, ops, store, sent>>
      PROVE  Kept(m, i)'
  <2>1. Passes(i)
    BY <1>1 DEF Passes, Tasks, Files
  <2>2. QED
    BY <1>0, <1>1, <2>1, Untouched DEF Unsent
<1>2. CASE WatcherTick \/ FlushTick
  BY <1>1, <1>2 DEF WatcherTick, FlushTick, view, ram, tasks, world
<1>3. ASSUME NEW e \in flush.todo, FlushSkip(e) PROVE Kept(m, i)'
  BY <1>1, <1>3 DEF FlushSkip, view, tasks, world
<1>4. ASSUME NEW e \in flush.todo, FlushForget(e), e.id # i PROVE Kept(m, i)'
  <2>1. /\ disk' = {f \in disk : f.id # e.id}
        /\ UNCHANGED <<active, uiq, overlay, inflight, ops, store, sent>>
    BY <1>4 DEF FlushForget, Unpersist, view, tasks, world
  <2>2. Passes(i)
    BY <1>4, <2>1 DEF Passes, Tasks, Files
  <2>3. QED
    BY <1>0, <2>1, <2>2, Untouched DEF Unsent
<1>5. ASSUME NEW e \in flush.todo, FlushSend(e), e.id # i PROVE Kept(m, i)'
  <2>0. e.id \in Ids /\ e.grp \in Groups /\ e.msg \in Msgs
    BY <1>0 DEF TypeOK, Entry
  <2>1. /\ overlay' = IF Found(e.grp, e.id) THEN overlay
                      ELSE [overlay EXCEPT ![<<e.grp, e.id>>] =
                              <<[msg |-> e.msg, failed |-> FALSE]>>]
        /\ UNCHANGED <<active, disk, store, sent>>
    BY <1>5 DEF FlushSend, view, world
  <2>2. \A h \in Groups : overlay'[<<h, i>>] = overlay[<<h, i>>]
    <3>1. \A h \in Groups : <<h, i>> \in DOMAIN overlay /\ <<h, i>> # <<e.grp, e.id>>
      BY <1>0, <1>5 DEF TypeOK
    <3>2. QED
      BY <2>1, <3>1
  <2>3. /\ Tasks(i)' = Tasks(i) /\ (i \in inflight => i \in inflight')
        /\ \/ UNCHANGED uiq
           \/ \E c \in Closure : uiq' = Append(uiq, c) /\ ~Carries(c, i)
    <3>1. CASE UNCHANGED <<inflight, ops, uiq>>
      BY <3>1 DEF Tasks
    <3>2. CASE Dispatch(e.id, e.msg, e.grp) /\ UNCHANGED uiq
      BY <1>5, <3>2 DEF Dispatch, Tasks
    <3>3. CASE /\ inflight' = inflight \cup {e.id} /\ Post(Spawn(e.id, e.msg, e.grp))
               /\ UNCHANGED <<ops, attempts>>
      <4>1. Spawn(e.id, e.msg, e.grp) \in Closure /\ ~Carries(Spawn(e.id, e.msg, e.grp), i)
        BY <1>5, <2>0, SpawnTypes DEF Carries, Spawn
      <4>2. QED
        BY <3>3, <4>1 DEF Post, Tasks
    <3>4. QED
      BY <1>5, <3>1, <3>2, <3>3 DEF FlushSend
  <2>4. Passes(i)
    BY <2>1, <2>2, <2>3 DEF Passes, Files
  <2>5. QED
    BY <1>0, <2>1, <2>4, Untouched DEF Unsent
<1>6. QED
  BY <1>2, <1>3, <1>4, <1>5, FlushForgetKept, FlushSendKept DEF FlushVisit

(* And the environment.                                                    *)
LEMMA EnvironmentKept ==
  ASSUME NEW m \in Msgs, NEW i, Held(m, i), Environment
  PROVE  Kept(m, i)'
<1>0. /\ TypeOK /\ Provenance /\ i \in Ids /\ i # NoId /\ idOf[m] = i
      /\ Kept(m, i) /\ Ahead(m)
  BY NoIdFresh DEF Held
<1>1. ASSUME UNCHANGED <<active, uiq, overlay, inflight, disk, ops, store, sent>>
      PROVE  Kept(m, i)'
  <2>1. Passes(i)
    BY <1>1 DEF Passes, Tasks, Files
  <2>2. QED
    BY <1>0, <1>1, <2>1, Untouched DEF Unsent
<1>2. CASE RelayDown \/ RelayUp \/ Tick \/ Restart
  BY <1>1, <1>2 DEF RelayDown, RelayUp, Tick, Restart, view, ram, tasks, world
<1>3. CASE Crash \/ UiPanic
  <2>1. Exit /\ disk' \subseteq disk
    BY <1>3 DEF Crash, UiPanic, Unpersist
  <2>2. QED
    BY <2>1, ExitKept
<1>4. QED
  BY <1>2, <1>3, ResetKept DEF Environment
-----------------------------------------------------------------------------
(* The files and the process.                                              *)

(* Only a first send adds a file, under the id it has just been given.     *)
LEMMA FileWriters ==
  Next => \/ disk' \subseteq disk
          \/ \E x : x.id = nextId /\ disk' = {e \in disk : e.id # nextId} \cup {x}
<1>1. User => \/ disk' \subseteq disk
              \/ \E x : x.id = nextId /\ disk' = {e \in disk : e.id # nextId} \cup {x}
  BY DEF User, SendText, Enqueue, Persist, NextTempId, SendMedia, RequestForward, Retry,
     SwitchAccount
<1>2. Worker => disk' \subseteq disk
  BY DEF Worker, Publish, Fail, Resolve, ResolvePanics, FinishGather, FetchChats
<1>3. RunClosure =>
        \/ disk' \subseteq disk
        \/ \E x : x.id = nextId /\ disk' = {e \in disk : e.id # nextId} \cup {x}
  <2>1. RunFirstSpawn =>
        \/ disk' \subseteq disk
        \/ \E x : x.id = nextId /\ disk' = {e \in disk : e.id # nextId} \cup {x}
    BY DEF RunFirstSpawn, Enqueue, Persist, NextTempId
  <2>2. RunClosure => RunFirstSpawn \/ disk' \subseteq disk
    BY DEF RunClosure, RunDropped, RunAck, RunOfflineError, RunRealError, RunReplay,
       RunChats, Unpersist
  <2>3. QED
    BY <2>1, <2>2
<1>4. WatcherTick \/ FlushTick \/ FlushVisit => disk' \subseteq disk
  BY DEF WatcherTick, FlushTick, FlushVisit, FlushSkip, FlushForget, FlushSend, Unpersist,
     ram
<1>5. Environment => disk' \subseteq disk
  BY DEF Environment, RelayDown, RelayUp, Tick, Crash, UiPanic, Restart, ResetVault,
     Unpersist
<1>6. QED
  BY <1>1, <1>2, <1>3, <1>4, <1>5 DEF Next

(* So there is one file per id.                                            *)
LEMMA OneFileStays ==
  ASSUME OneFile, Next
  PROVE  OneFile'
BY FileWriters DEF OneFile

(* What the flush has still to visit is on disk: the event loop runs no    *)
(* other callback meanwhile, and workers leave the files alone.            *)
LEMMA TodoStays ==
  ASSUME TypeOK, Filing, Next
  PROVE  TodoFiled'
<1>0. TodoFiled /\ OneFile /\ Down
  BY DEF Filing
<1>1. ASSUME flush'.todo = {} PROVE TodoFiled'
  BY <1>1 DEF TodoFiled
<1>2. ASSUME UNCHANGED <<flush, active>>, disk \subseteq disk' PROVE TodoFiled'
  BY <1>0, <1>2 DEF TodoFiled
<1>3. CASE User
  <2>1. ASSUME NEW n \in Msgs, SendText(n) PROVE TodoFiled'
    BY <1>1, <2>1 DEF SendText, UiReady
  <2>2. ASSUME NEW n \in Msgs, SendMedia(n) \/ RequestForward(n) PROVE TodoFiled'
    BY <1>2, <2>2 DEF SendMedia, RequestForward, view, ram
  <2>3. ASSUME NEW g \in Groups, NEW j \in Ids, Retry(g, j) PROVE TodoFiled'
    BY <1>2, <2>3 DEF Retry, view
  <2>4. ASSUME NEW a \in Accounts, SwitchAccount(a) PROVE TodoFiled'
    BY <1>1, <2>4 DEF SwitchAccount, UiReady
  <2>5. QED
    BY <1>3, <2>1, <2>2, <2>3, <2>4 DEF User
<1>4. CASE Worker
  BY <1>2, <1>4 DEF Worker, Publish, Fail, Resolve, ResolvePanics, FinishGather,
     FetchChats, view, ram
<1>5. CASE RunClosure
  <2>1. CASE RunAck \/ RunFirstSpawn
    BY <1>1, <2>1 DEF RunAck, RunFirstSpawn, UiReady
  <2>2. CASE RunDropped \/ RunOfflineError \/ RunRealError \/ RunReplay \/ RunChats
    BY <1>2, <2>2 DEF RunDropped, RunOfflineError, RunRealError, RunReplay, RunChats, view
  <2>3. QED
    BY <1>5, <2>1, <2>2 DEF RunClosure
<1>6. CASE WatcherTick
  BY <1>2, <1>6 DEF WatcherTick, view, ram
<1>7. CASE FlushTick
  BY <1>7 DEF FlushTick, TodoFiled, view
<1>8. CASE FlushVisit
  <2>1. PICK e \in flush.todo : FlushSkip(e) \/ FlushForget(e) \/ FlushSend(e)
    BY <1>8 DEF FlushVisit
  <2>2. flush'.todo = flush.todo \ {e} /\ active' = active
    BY <2>1 DEF FlushSkip, FlushForget, FlushSend, Visit, view, TypeOK
  <2>3. CASE FlushForget(e)
    <3>1. disk' = {f \in disk : f.id # e.id}
      BY <2>3 DEF FlushForget, Unpersist
    <3>2. \A f \in flush.todo : f.id = e.id => f = e
      BY <1>0, <2>1 DEF TodoFiled, OneFile
    <3>3. QED
      BY <1>0, <2>2, <3>1, <3>2 DEF TodoFiled
  <2>4. CASE FlushSkip(e) \/ FlushSend(e)
    BY <1>0, <2>2, <2>4 DEF FlushSkip, FlushSend, TodoFiled
  <2>5. QED
    BY <2>1, <2>3, <2>4
<1>9. CASE Environment
  <2>1. CASE RelayDown \/ RelayUp \/ Tick \/ Restart
    BY <1>2, <2>1 DEF RelayDown, RelayUp, Tick, Restart, view, ram
  <2>2. CASE Crash \/ UiPanic
    BY <1>1, <2>2 DEF Crash, UiPanic, Exit, Idle
  <2>3. CASE ResetVault
    BY <1>0, <1>1, <2>3 DEF ResetVault, ram, Down
  <2>4. QED
    BY <1>9, <2>1, <2>2, <2>3 DEF Environment
<1>10. QED
  BY <1>3, <1>4, <1>5, <1>6, <1>7, <1>8, <1>9 DEF Next

(* A program that is not running holds nothing.                            *)
LEMMA DownStays ==
  ASSUME TypeOK, Filing, Next
  PROVE  Down'
<1>0. Down
  BY DEF Filing
<1>1. CASE proc = "off"
  <2>1. ~User /\ ~Worker /\ ~RunClosure /\ ~WatcherTick /\ ~FlushTick /\ ~FlushVisit
    <3>1. ~User
      BY <1>1 DEF User, SendText, SendMedia, RequestForward, Retry, SwitchAccount, UiReady
    <3>2. ~Worker
      BY <1>1 DEF Worker, Publish, Fail, Resolve, ResolvePanics, FinishGather, FetchChats
    <3>3. ~RunClosure
      BY <1>1 DEF RunClosure, RunDropped, RunAck, RunOfflineError, RunRealError,
         RunFirstSpawn, RunReplay, RunChats, UiReady, UiFree
    <3>4. ~WatcherTick /\ ~FlushTick /\ ~FlushVisit
      BY <1>1 DEF WatcherTick, FlushTick, UiReady, FlushVisit, FlushSkip, FlushForget,
         FlushSend, Visit
    <3>5. QED
      BY <3>1, <3>2, <3>3, <3>4
  <2>2. Environment
    BY <2>1 DEF Next
  <2>3. CASE UNCHANGED <<ram, tasks>>
    BY <1>0, <1>1, <2>3 DEF Down, ram, tasks
  <2>4. CASE Crash \/ UiPanic
    BY <1>1, <2>4 DEF Crash, UiPanic
  <2>5. QED
    BY <2>2, <2>3, <2>4 DEF Environment, RelayDown, RelayUp, Tick, Restart, ResetVault
<1>2. CASE proc # "off"
  <2>1. CASE Crash \/ UiPanic
    BY <2>1 DEF Crash, UiPanic, Exit, Idle, Down
  <2>2. CASE ~Crash /\ ~UiPanic
    <3>1. User \/ Worker \/ RunClosure => proc' # "off"
      BY <1>2 DEF User, SendText, SendMedia, RequestForward, Retry, SwitchAccount, Worker,
         Publish, Fail, Resolve, ResolvePanics, FinishGather, FetchChats, RunClosure,
         RunDropped, RunAck, RunOfflineError, RunRealError, RunFirstSpawn, RunReplay,
         RunChats, view
    <3>2. WatcherTick \/ FlushTick \/ FlushVisit => proc' # "off"
      BY <1>2 DEF WatcherTick, FlushTick, FlushVisit, FlushSkip, FlushForget, FlushSend,
         view
    <3>3. Environment => proc' # "off"
      BY <1>2, <2>2 DEF Environment, RelayDown, RelayUp, Tick, Restart, ResetVault, view
    <3>4. QED
      BY <3>1, <3>2, <3>3 DEF Next, Down
  <2>3. QED
    BY <2>1, <2>2
<1>3. QED
  BY <1>1, <1>2

(* A first spawn carries the chat its message was composed into.           *)
LEMMA FirstSpawnsStay ==
  ASSUME TypeOK, FirstAtHome, Next
  PROVE  FirstAtHome'
<1>1. ASSUME UNCHANGED uiq PROVE FirstAtHome'
  BY <1>1 DEF FirstAtHome, FirstSpawn
<1>2. ASSUME uiq # <<>>, uiq' = Tail(uiq) PROVE FirstAtHome'
  <2>1. \A k \in DOMAIN uiq' : k + 1 \in DOMAIN uiq /\ uiq'[k] = uiq[k + 1]
    BY <1>2, TailElems DEF TypeOK
  <2>2. QED
    BY <2>1 DEF FirstAtHome, FirstSpawn
<1>3. ASSUME NEW c \in Closure, Post(c), FirstSpawn(c) => c.grp = GroupOf[c.msg]
      PROVE  FirstAtHome'
  <2>1. \A k \in DOMAIN uiq' : \/ k \in DOMAIN uiq /\ uiq'[k] = uiq[k]
                               \/ uiq'[k] = c
    BY <1>3, AppendElems DEF TypeOK, Post
  <2>2. QED
    BY <1>3, <2>1 DEF FirstAtHome, FirstSpawn
<1>4. ASSUME NEW n \in Msgs, Post(Spawn(NoId, n, GroupOf[n])) PROVE FirstAtHome'
  BY <1>3, <1>4, SpawnTypes DEF Spawn
<1>5. ASSUME NEW j \in Ids, NEW n \in Msgs, NEW g \in Groups, Post(Spawn(j, n, g))
      PROVE  FirstAtHome'
  BY <1>3, <1>5, SpawnTypes, NoIdFresh DEF Spawn, FirstSpawn
<1>6. ASSUME NEW c \in Closure, Post(c), c.kind # "spawn" PROVE FirstAtHome'
  BY <1>3, <1>6 DEF FirstSpawn
<1>7. CASE User
  <2>1. ASSUME NEW n \in Msgs, SendText(n) \/ RequestForward(n) PROVE FirstAtHome'
    BY <1>1, <2>1 DEF SendText, RequestForward, ram
  <2>2. ASSUME NEW n \in Msgs, SendMedia(n) PROVE FirstAtHome'
    BY <1>4, <2>2 DEF SendMedia
  <2>3. ASSUME NEW g \in Groups, NEW j \in Ids, Retry(g, j) PROVE FirstAtHome'
    <3>1. UNCHANGED uiq \/ \E e \in disk : Post(Spawn(j, e.msg, g))
      BY <2>3 DEF Retry
    <3>2. \A e \in disk : e.msg \in Msgs
      BY DEF TypeOK, Entry
    <3>3. QED
      BY <1>1, <1>5, <3>1, <3>2
  <2>4. ASSUME NEW a \in Accounts, SwitchAccount(a) PROVE FirstAtHome'
    BY <1>1, <2>4 DEF SwitchAccount
  <2>5. QED
    BY <1>7, <2>1, <2>2, <2>3, <2>4 DEF User
<1>8. CASE Worker
  <2>1. ASSUME NEW o \in ops, Publish(o) \/ Fail(o) \/ ResolvePanics(o) PROVE FirstAtHome'
    BY <1>1, <2>1 DEF Publish, Fail, ResolvePanics, ram
  <2>2. ASSUME NEW o \in ops, Resolve(o) PROVE FirstAtHome'
    <3>1. Done(o) \in Closure /\ Done(o).kind # "spawn"
      BY DEF TypeOK, Done, Op, Closure
    <3>2. Post(Done(o))
      BY <2>2 DEF Resolve
    <3>3. QED
      BY <1>6, <3>1, <3>2
  <2>3. ASSUME NEW f \in gathering, FinishGather(f) PROVE FirstAtHome'
    <3>1. f.msg \in Msgs
      BY DEF TypeOK, Gather
    <3>2. Post(Spawn(NoId, f.msg, GroupOf[f.msg])) \/ UNCHANGED uiq
      BY <2>3 DEF FinishGather
    <3>3. QED
      BY <1>1, <1>4, <3>1, <3>2
  <2>4. CASE FetchChats
    <3>1. /\ [kind |-> "chats", ids |-> GroupsOf[active]] \in Closure
          /\ [kind |-> "chats", ids |-> GroupsOf[active]].kind # "spawn"
      BY DEF TypeOK, Closure
    <3>2. Post([kind |-> "chats", ids |-> GroupsOf[active]])
      BY <2>4 DEF FetchChats
    <3>3. QED
      BY <1>6, <3>1, <3>2
  <2>5. QED
    BY <1>8, <2>1, <2>2, <2>3, <2>4 DEF Worker
<1>9. CASE RunClosure
  BY <1>2, <1>9 DEF RunClosure, RunDropped, RunAck, RunOfflineError, RunRealError,
     RunFirstSpawn, RunReplay, RunChats, TakeHead
<1>10. CASE WatcherTick \/ FlushTick
  BY <1>1, <1>10 DEF WatcherTick, FlushTick, ram
<1>11. CASE FlushVisit
  <2>1. PICK e \in flush.todo : FlushSkip(e) \/ FlushForget(e) \/ FlushSend(e)
    BY <1>11 DEF FlushVisit
  <2>2. e.id \in Ids /\ e.msg \in Msgs /\ e.grp \in Groups
    BY <2>1 DEF TypeOK, Entry
  <2>3. UNCHANGED uiq \/ Post(Spawn(e.id, e.msg, e.grp))
    BY <2>1 DEF FlushSkip, FlushForget, FlushSend
  <2>4. QED
    BY <1>1, <1>5, <2>2, <2>3
<1>12. CASE Environment
  <2>1. UNCHANGED uiq \/ uiq' = <<>>
    BY <1>12 DEF Environment, RelayDown, RelayUp, Tick, Crash, UiPanic, Exit, Restart,
       ResetVault, ram
  <2>2. QED
    BY <1>1, <2>1 DEF FirstAtHome
<1>13. QED
  BY <1>7, <1>8, <1>9, <1>10, <1>11, <1>12 DEF Next

(* Who writes the message store.                                           *)
LEMMA StoreWriters == Next => UNCHANGED store \/ \E o \in ops : Publish(o)
<1> USE DEF world
<1>1. User => UNCHANGED store
  BY DEF User, SendText, SendMedia, RequestForward, Retry, SwitchAccount
<1>2. Worker => UNCHANGED store \/ \E o \in ops : Publish(o)
  BY DEF Worker, Fail, Resolve, ResolvePanics, FinishGather, FetchChats
<1>3. RunClosure => UNCHANGED store
  BY DEF RunClosure, RunDropped, RunAck, RunOfflineError, RunRealError,
     RunFirstSpawn, RunReplay, RunChats
<1>4. WatcherTick \/ FlushTick \/ FlushVisit => UNCHANGED store
  BY DEF WatcherTick, FlushTick, FlushVisit, FlushSkip, FlushForget, FlushSend
<1>5. Environment => UNCHANGED store
  BY DEF Environment, RelayDown, RelayUp, Tick, Crash, UiPanic, Exit, Restart, ResetVault
<1>6. QED
  BY <1>1, <1>2, <1>3, <1>4, <1>5 DEF Next

(* What was sent was queued, and is on record.                             *)
LEMMA RecordsStay ==
  ASSUME TypeOK, Provenance, Recorded, Next
  PROVE  Recorded'
<1>1. Names
  BY Monotone
<1>2. CASE UNCHANGED <<sent, store>>
  <2>1. SUFFICES ASSUME NEW n \in Msgs, sent'[n] > 0
                 PROVE  idOf'[n] # NoId /\ \E r \in store' : r.msg = n
    BY DEF Recorded
  <2>2. idOf[n] # NoId /\ \E r \in store : r.msg = n
    BY <1>2, <2>1 DEF Recorded
  <2>3. QED
    BY <1>1, <1>2, <2>2, NoIdFresh DEF Names, TypeOK
<1>3. ASSUME NEW o \in ops, Publish(o) PROVE Recorded'
  <2>1. o.msg \in Msgs /\ o.id \in Ids /\ idOf[o.msg] = o.id
    BY DEF TypeOK, Op, Provenance, OpsNamed, Named
  <2>2. /\ \A n \in Msgs \ {o.msg} : sent'[n] = sent[n]
        /\ [msg |-> o.msg, grp |-> o.grp, acct |-> o.acct, at |-> now] \in store'
        /\ store \subseteq store'
    BY <1>3 DEF Publish, TypeOK
  <2>3. idOf'[o.msg] # NoId /\ \E r \in store' : r.msg = o.msg
    BY <1>1, <2>1, <2>2, NoIdFresh DEF Names
  <2>4. ASSUME NEW n \in Msgs \ {o.msg}, sent'[n] > 0
        PROVE  idOf'[n] # NoId /\ \E r \in store' : r.msg = n
    <3>1. idOf[n] # NoId /\ \E r \in store : r.msg = n
      BY <2>2, <2>4 DEF Recorded
    <3>2. QED
      BY <1>1, <2>2, <3>1, NoIdFresh DEF Names, TypeOK
  <2>5. QED
    BY <2>3, <2>4 DEF Recorded
<1>4. QED
  BY <1>2, <1>3, SentWriters, StoreWriters

(* A lost acknowledgement and an overtaken completion are never forgotten. *)
LEMMA GapsGrow == Next => overtaken \subseteq overtaken' /\ lost \subseteq lost'
<1> USE DEF history
<1>1. User => overtaken \subseteq overtaken' /\ lost \subseteq lost'
  BY DEF User, SendText, SendMedia, RequestForward, Retry, SwitchAccount
<1>2. Worker => overtaken \subseteq overtaken' /\ lost \subseteq lost'
  BY DEF Worker, Publish, Fail, Resolve, ResolvePanics, FinishGather, FetchChats
<1>3. RunClosure => overtaken \subseteq overtaken' /\ lost \subseteq lost'
  BY DEF RunClosure, RunDropped, RunAck, RunOfflineError, RunRealError,
     RunFirstSpawn, RunReplay, RunChats
<1>4. WatcherTick \/ FlushTick \/ FlushVisit => overtaken \subseteq overtaken' /\ lost \subseteq lost'
  BY DEF WatcherTick, FlushTick, FlushVisit, FlushSkip, FlushForget, FlushSend
<1>5. Environment => overtaken \subseteq overtaken' /\ lost \subseteq lost'
  BY DEF Environment, RelayDown, RelayUp, Tick, Crash, UiPanic, Exit, Restart, ResetVault
<1>6. QED
  BY <1>1, <1>2, <1>3, <1>4, <1>5 DEF Next

(* When a message was queued is written once.                              *)
LEMMA QueuedOnce ==
  ASSUME TypeOK, Provenance, Next, NEW m \in Msgs, idOf[m] # NoId
  PROVE  queuedAt'[m] = queuedAt[m]
<1>1. CASE UNCHANGED queuedAt
  BY <1>1
<1>2. ASSUME NEW n \in Msgs, SendText(n) PROVE queuedAt'[m] = queuedAt[m]
  <2>1. n # m
    BY <1>2, EnqueuesFirst
  <2>2. QED
    BY <1>2, <2>1 DEF SendText, Enqueue, TypeOK
<1>3. CASE RunFirstSpawn
  <2>1. Head(uiq).msg # m
    BY <1>3, EnqueuesFirst
  <2>2. QED
    BY <1>3, <2>1 DEF RunFirstSpawn, Enqueue, TypeOK
<1>4. Next => UNCHANGED queuedAt \/ (\E n \in Msgs : SendText(n)) \/ RunFirstSpawn
  <2> USE DEF history
  <2>1. User => UNCHANGED queuedAt \/ \E n \in Msgs : SendText(n)
    BY DEF User, SendMedia, RequestForward, Retry, SwitchAccount
  <2>2. Worker => UNCHANGED queuedAt
    BY DEF Worker, Publish, Fail, Resolve, ResolvePanics, FinishGather, FetchChats
  <2>3. RunClosure => UNCHANGED queuedAt \/ RunFirstSpawn
    BY DEF RunClosure, RunDropped, RunAck, RunOfflineError, RunRealError, RunReplay,
       RunChats
  <2>4. WatcherTick \/ FlushTick \/ FlushVisit => UNCHANGED queuedAt
    BY DEF WatcherTick, FlushTick, FlushVisit, FlushSkip, FlushForget, FlushSend
  <2>5. Environment => UNCHANGED queuedAt
    BY DEF Environment, RelayDown, RelayUp, Tick, Crash, UiPanic, Exit, Restart, ResetVault
  <2>6. QED
    BY <2>1, <2>2, <2>3, <2>4, <2>5 DEF Next
<1>5. QED
  BY <1>1, <1>2, <1>3, <1>4
-----------------------------------------------------------------------------
(* All of it together.                                                     *)
LEMMA QueueInit == Init => QueueInv
<1> SUFFICES ASSUME Init PROVE QueueInv
  OBVIOUS
<1>1. Filing
  BY DEF Init, Idle, Filing, OneFile, TodoFiled, Down, FirstAtHome, Recorded
<1>2. \A m \in Msgs : ~Owned(m)
  BY DEF Init, Owned
<1>3. QED
  BY <1>1, <1>2 DEF QueueInv

(* The files and the process stay in step.                                 *)
LEMMA FilingStays ==
  ASSUME TypeOK, Provenance, Filing, Next
  PROVE  Filing'
BY OneFileStays, TodoStays, DownStays, FirstSpawnsStay, RecordsStay DEF Filing

(* A message queued by this step starts well.                              *)
LEMMA NewlyKept ==
  ASSUME TypeOK, Provenance, Filing, Next,
         NEW m \in Msgs, NEW i \in Ids, idOf[m] = NoId, idOf'[m] = i, Owned(m)'
  PROVE  Kept(m, i)'
<1>0. idOf' # idOf /\ ~Reused(m)'
  BY NoIdFresh DEF Owned
<1>1. ASSUME NEW n \in Msgs, SendText(n) PROVE Kept(m, i)'
  <2>1. Enqueue(n, GroupOf[n]) /\ UNCHANGED <<active, uiq, store, sent>>
    BY <1>1 DEF SendText, view, world
  <2>2. n = m
    BY <2>1, NoIdFresh DEF Enqueue, TypeOK
  <2>3. QED
    BY <1>0, <2>1, <2>2, EnqueueKept
<1>2. CASE RunFirstSpawn
  <2>1. /\ Enqueue(Head(uiq).msg, Head(uiq).grp) /\ uiq # <<>> /\ uiq' = Tail(uiq)
        /\ UNCHANGED <<active, store, sent>>
        /\ Head(uiq).kind = "spawn" /\ Head(uiq).id = NoId
    BY <1>2 DEF RunFirstSpawn, TakeHead, view, world
  <2>2. Head(uiq).msg = m
    <3>1. idOf' = [idOf EXCEPT ![Head(uiq).msg] = NextTempId]
      BY <2>1 DEF Enqueue
    <3>2. QED
      BY <3>1, NoIdFresh DEF TypeOK
  <2>3. Head(uiq).grp = GroupOf[m]
    <3>1. 1 \in DOMAIN uiq /\ Head(uiq) = uiq[1]
      BY <2>1, HeadTold
    <3>2. FirstSpawn(uiq[1])
      BY <2>1, <3>1 DEF FirstSpawn
    <3>3. QED
      BY <2>2, <3>1, <3>2 DEF Filing, FirstAtHome
  <2>4. Enqueue(m, GroupOf[m])
    BY <2>1, <2>2, <2>3
  <2>5. QED
    BY <1>0, <2>1, <2>4, EnqueueKept
<1>3. QED
  BY <1>0, <1>1, <1>2, IdOfWriters

(* A message that owned its id before the step is kept by it.              *)
LEMMA StillKept ==
  ASSUME TypeOK, Provenance, QueueInv, Next,
         NEW m \in Msgs, NEW i \in Ids, idOf[m] # NoId, idOf'[m] = i, Owned(m)'
  PROVE  Kept(m, i)'
<1>1. Names
  BY Monotone
<1>2. idOf[m] = i
  BY <1>1 DEF Names, TypeOK
<1>3. Ahead(m)
  <2>1. store \subseteq store'
    BY StoreWriters DEF Publish
  <2>2. QED
    BY <1>2, <2>1, QueuedOnce, GapsGrow, DiscardedGrows DEF Ahead
<1>4. Owned(m)
  <2>1. m \notin overtaken
    BY GapsGrow DEF Owned
  <2>2. ~Reused(m)
    BY <1>1, <1>2, NoIdFresh DEF Owned, Reused, Names
  <2>3. QED
    BY <2>1, <2>2 DEF Owned
<1>5. Held(m, i)
  BY <1>2, <1>3, <1>4 DEF Held, QueueInv
<1>6. QED
  BY <1>5, UserKept, WorkerKept, ClosureKept, FlushKept, EnvironmentKept DEF Next

(* One step of the queue keeps the invariant.                              *)
LEMMA QueueStep ==
  ASSUME TypeOK, Provenance, QueueInv, Next
  PROVE  QueueInv'
<1>1. Filing'
  BY FilingStays DEF QueueInv
<1>2. ASSUME NEW m \in Msgs, NEW i \in Ids, Owned(m)', idOf'[m] = i PROVE Kept(m, i)'
  <2>1. CASE idOf[m] = NoId
    BY <1>2, <2>1, NewlyKept DEF QueueInv
  <2>2. CASE idOf[m] # NoId
    BY <1>2, <2>2, StillKept
  <2>3. QED
    BY <2>1, <2>2
<1>3. QED
  BY <1>1, <1>2 DEF QueueInv

(* So does one that is not of the queue.                                   *)
LEMMA QueueStutter ==
  ASSUME QueueInv, UNCHANGED vars
  PROVE  QueueInv'
<1>1. UNCHANGED <<active, proc, overlay, inflight, uiq, flush, disk, ops, store, sent,
                  idOf, queuedAt, discarded, overtaken, lost>>
  BY DEF vars, view, ram, tasks, world, history
<1>2. Filing'
  BY <1>1 DEF QueueInv, Filing, OneFile, TodoFiled, Down, FirstAtHome, Recorded,
     FirstSpawn
<1>3. ASSUME NEW m \in Msgs, NEW i \in Ids, Owned(m)', idOf'[m] = i PROVE Kept(m, i)'
  <2>1. Kept(m, i)
    BY <1>1, <1>3 DEF QueueInv, Owned, Reused
  <2>2. Tasks(i)' = Tasks(i) /\ Told(i)' = Told(i) /\ Files(i)' = Files(i)
        /\ Shown(m, i)' = Shown(m, i) /\ (Clean(m)' => Clean(m))
    BY <1>1 DEF Tasks, Told, Files, Shown, Clean, IsText, Within
  <2>3. AtHome(m, i)'
    BY <1>1, <2>1, <2>2 DEF Kept, AtHome
  <2>4. Single(m, i)' /\ Filed(m, i)'
    BY <1>1, <2>1, <2>2 DEF Kept, Single, Filed
  <2>5. Clean(m)' => Once(m, i)' /\ OneAccount(m, i)'
    BY <1>1, <2>1, <2>2 DEF Kept, Once, OneAccount
  <2>6. QED
    BY <2>3, <2>4, <2>5 DEF Kept
<1>4. QED
  BY <1>2, <1>3 DEF QueueInv

(* The inductive invariant holds.                                          *)
THEOREM QueueInvHolds == Spec => []QueueInv
<1>1. TypeOK /\ Provenance /\ QueueInv /\ [Next]_vars => QueueInv'
  BY QueueStep, QueueStutter
<1>2. QED
  BY <1>1, QueueInit, TypeCorrect, ProvenanceHolds, PTL DEF Spec

(* BubbleBacked (the optimistic bubble of panes.rs and extra.rs): a bubble *)
(* that says "sending" is backed by a task, a posted closure or a file,    *)
(* whatever crashes, switches, panics and failures come in between.        *)
THEOREM BubblesBacked == Spec => []BubbleBacked
<1>1. ASSUME TypeOK, Provenance, QueueInv PROVE BubbleBacked
  <2>1. SUFFICES ASSUME NEW g \in Groups, NEW i \in Ids, NEW k \in DOMAIN overlay[<<g, i>>],
                        ~Reused(overlay[<<g, i>>][k].msg),
                        overlay[<<g, i>>][k].msg \notin discarded \cup overtaken
                 PROVE  Carried(g, i, overlay[<<g, i>>][k].msg)
    BY DEF BubbleBacked
  <2>2. overlay[<<g, i>>] \in Seq(Bubble) /\ <<g, i>> \in Groups \X Ids /\ <<g, i>>[2] = i
    BY <1>1 DEF TypeOK
  <2>3. overlay[<<g, i>>][k] \in Bubble
    BY <2>2
  <2>4. PICK m \in Msgs : m = overlay[<<g, i>>][k].msg
    BY <2>3 DEF Bubble
  <2>5. idOf[m] = i
    BY <1>1, <2>2, <2>4 DEF Provenance, BubblesNamed, Named
  <2>6. Owned(m)
    BY <2>1, <2>4, <2>5, NoIdFresh DEF Owned
  <2>7. AtHome(m, i) /\ Filed(m, i)
    BY <1>1, <2>5, <2>6 DEF QueueInv, Kept
  <2>8. overlay[<<g, i>>] # <<>> /\ g = GroupOf[m]
    <3>1. overlay[<<g, i>>] # <<>>
      BY <2>1, <2>2
    <3>2. QED
      BY <2>7, <3>1 DEF AtHome
  <2>9. PICK e \in disk : e.id = i
    BY <2>1, <2>4, <2>7, <2>8 DEF Filed, Shown, Files
  <2>10. e.msg = m
    BY <1>1, <2>5, <2>6, <2>9, OwnsItsId DEF Owned
  <2>11. QED
    BY <2>4, <2>5, <2>9, <2>10 DEF Carried, OnDisk
<1>2. QED
  BY <1>1, TypeCorrect, ProvenanceHolds, QueueInvHolds, PTL

(* AtMostOnceForText (looks_already_sent and offline_inflight of           *)
(* extra.rs): a text reaches the relays once, unless one of the four gaps  *)
(* has opened for it.                                                      *)
THEOREM TextsSentOnce == Spec => []AtMostOnceForText
<1>1. ASSUME TypeOK, QueueInv PROVE AtMostOnceForText
  <2>1. SUFFICES ASSUME NEW m \in Msgs, IsText(m), sent[m] > 1, m \notin overtaken,
                        [msg |-> m, ok |-> TRUE] \notin lost, ~Reused(m),
                        \A r \in store : r.msg = m => Within(r.at, queuedAt[m])
                 PROVE  FALSE
    BY DEF AtMostOnceForText
  <2>2. sent[m] \in Nat /\ idOf[m] # NoId
    BY <1>1, <2>1 DEF TypeOK, QueueInv, Filing, Recorded
  <2>3. Owned(m) /\ Clean(m) /\ idOf[m] \in Ids
    BY <1>1, <2>1, <2>2 DEF Owned, Clean, TypeOK
  <2>4. sent[m] <= 1
    BY <1>1, <2>3 DEF QueueInv, Kept, Once
  <2>5. QED
    BY <2>1, <2>2, <2>4
<1>2. QED
  BY <1>1, TypeCorrect, QueueInvHolds, PTL
-----------------------------------------------------------------------------
(* One process, no switch: what the chat list shows stays shown.           *)
ChatsOfActive ==
  \A k \in DOMAIN uiq : uiq[k].kind = "chats" => uiq[k].ids = GroupsOf[active]

FilesListed == \A e \in disk : e.grp \in listed

ReplaysListed ==
  \A k \in DOMAIN uiq :
    uiq[k].kind = "spawn" /\ uiq[k].id # NoId => uiq[k].grp \in listed

Steady == /\ proc = "ready" /\ listed \subseteq GroupsOf[active]
          /\ ChatsOfActive /\ FilesListed /\ ReplaysListed

(* The faults that end or unsettle a session.                              *)
NoRestart == Limit["crash"] = 0 /\ ~NestedBlockOnPanics
NoSwitch  == Limit["switch"] = 0

(* A fault without a budget does not happen.                               *)
LEMMA NeverSpent ==
  ASSUME TypeOK, NEW f \in Faults, Limit[f] = 0
  PROVE  ~Spend(f)
BY DEF TypeOK, Spend

(* A process that does not crash and is not poisoned stays ready.          *)
LEMMA StaysReady ==
  ASSUME TypeOK, NoRestart, proc = "ready", Next
  PROVE  /\ proc' = "ready" /\ ~Crash /\ ~UiPanic /\ ~Restart /\ ~ResetVault
         /\ \A o \in ops : ~ResolvePanics(o)
<1>1. ~Crash /\ ~UiPanic /\ ~Restart /\ ~ResetVault
  BY NeverSpent DEF Crash, UiPanic, Restart, ResetVault, NoRestart, Faults
<1>2. \A o \in ops : ~ResolvePanics(o)
  BY DEF ResolvePanics, NoRestart
<1>3. User => proc' = "ready"
  BY DEF User, SendText, SendMedia, RequestForward, Retry, SwitchAccount, view
<1>4. Worker => proc' = "ready"
  BY <1>2 DEF Worker, Publish, Fail, Resolve, FinishGather, FetchChats, view
<1>5. RunClosure => proc' = "ready"
  BY DEF RunClosure, RunDropped, RunAck, RunOfflineError, RunRealError, RunFirstSpawn,
     RunReplay, RunChats, view
<1>6. WatcherTick \/ FlushTick \/ FlushVisit => proc' = "ready"
  BY DEF WatcherTick, FlushTick, FlushVisit, FlushSkip, FlushForget, FlushSend, view
<1>7. Environment => proc' = "ready"
  BY <1>1 DEF Environment, RelayDown, RelayUp, Tick, view
<1>8. QED
  BY <1>1, <1>2, <1>3, <1>4, <1>5, <1>6, <1>7 DEF Next

(* A mark is backed after a step that adds no mark and removes no backing. *)
Backed(i) ==
  \/ \E o \in ops : o.id = i
  \/ \E k \in DOMAIN uiq : uiq[k].kind = "spawn" /\ uiq[k].id = i

Spawning(c) == c.kind = "spawn" /\ c.id # NoId

(* A post leaves the queue as it was and adds one closure to it.           *)
LEMMA PostedQueue ==
  ASSUME TypeOK, NEW c \in Closure, Post(c)
  PROVE  /\ \A k \in DOMAIN uiq : k \in DOMAIN uiq' /\ uiq'[k] = uiq[k]
         /\ \E k \in DOMAIN uiq' : uiq'[k] = c
         /\ \A k \in DOMAIN uiq' : uiq'[k] = c \/ (k \in DOMAIN uiq /\ uiq'[k] = uiq[k])
<1>1. uiq \in Seq(Closure) /\ uiq' = Append(uiq, c)
  BY DEF TypeOK, Post
<1>2. \A k \in DOMAIN uiq : k \in DOMAIN uiq' /\ uiq'[k] = uiq[k]
  BY <1>1
<1>3. Len(uiq) + 1 \in DOMAIN uiq' /\ uiq'[Len(uiq) + 1] = c
  BY <1>1
<1>4. \A k \in DOMAIN uiq' : uiq'[k] = c \/ (k \in DOMAIN uiq /\ uiq'[k] = uiq[k])
  BY <1>1, AppendElems
<1>5. QED
  BY <1>2, <1>3, <1>4

(* What the head of the queue takes with it is itself.                     *)
LEMMA HeadlessQueue ==
  ASSUME TypeOK, uiq # <<>>, uiq' = Tail(uiq)
  PROVE  /\ \A k \in DOMAIN uiq : \/ uiq[k] = Head(uiq)
                                  \/ \E j \in DOMAIN uiq' : uiq'[j] = uiq[k]
         /\ \A k \in DOMAIN uiq' : \E j \in DOMAIN uiq : uiq'[k] = uiq[j]
         /\ \E j \in DOMAIN uiq : uiq[j] = Head(uiq)
<1>1. uiq \in Seq(Closure) /\ Len(uiq) \in Nat /\ Len(uiq) >= 1
  BY DEF TypeOK
<1>2. ASSUME NEW k \in DOMAIN uiq
      PROVE  uiq[k] = Head(uiq) \/ \E j \in DOMAIN uiq' : uiq'[j] = uiq[k]
  <2>1. CASE k = 1
    BY <1>1, <2>1
  <2>2. CASE k # 1
    <3>1. k - 1 \in DOMAIN Tail(uiq) /\ Tail(uiq)[k - 1] = uiq[k]
      BY <1>1, <2>2
    <3>2. QED
      BY <3>1
  <2>3. QED
    BY <2>1, <2>2
<1>3. \A k \in DOMAIN uiq' : \E j \in DOMAIN uiq : uiq'[k] = uiq[j]
  BY <1>1, TailElems
<1>4. \E j \in DOMAIN uiq : uiq[j] = Head(uiq)
  BY <1>1
<1>5. QED
  BY <1>2, <1>3, <1>4

(* The three ways the queue changes, and what they do to what was posted.  *)
LEMMA SteadyQueue ==
  ASSUME TypeOK, Steady, active' = active, listed \subseteq listed',
         \/ UNCHANGED uiq
         \/ uiq # <<>> /\ uiq' = Tail(uiq)
         \/ \E c \in Closure : /\ Post(c)
                               /\ c.kind = "chats" => c.ids = GroupsOf[active]
                               /\ Spawning(c) => c.grp \in listed'
  PROVE  ChatsOfActive' /\ ReplaysListed'
<1>1. ChatsOfActive /\ ReplaysListed
  BY DEF Steady
<1>2. CASE UNCHANGED uiq
  BY <1>1, <1>2 DEF ChatsOfActive, ReplaysListed
<1>3. CASE uiq # <<>> /\ uiq' = Tail(uiq)
  BY <1>1, <1>3, HeadlessQueue DEF ChatsOfActive, ReplaysListed
<1>4. ASSUME NEW c \in Closure, Post(c), c.kind = "chats" => c.ids = GroupsOf[active],
             Spawning(c) => c.grp \in listed'
      PROVE  ChatsOfActive' /\ ReplaysListed'
  BY <1>1, <1>4, PostedQueue DEF ChatsOfActive, ReplaysListed, Spawning
<1>5. QED
  BY <1>2, <1>3, <1>4

(* With no switch, no crash and no poisoned mutex the listed chats only    *)
(* grow, towards those of the one account.                                 *)
LEMMA ListedGrows ==
  ASSUME TypeOK, NoRestart, NoSwitch, Steady, Next
  PROVE  active' = active /\ listed \subseteq listed' /\ listed' \subseteq GroupsOf[active]
<1> DEFINE P == active' = active /\ listed \subseteq listed' /\ listed' \subseteq GroupsOf[active]
<1>0. /\ ~Crash /\ ~UiPanic /\ ~Restart /\ ~ResetVault
      /\ listed \subseteq GroupsOf[active]
  BY StaysReady DEF Steady
<1>1. User => P
  <2>1. \A a \in Accounts : ~SwitchAccount(a)
    BY NeverSpent DEF SwitchAccount, NoSwitch, Faults
  <2>2. QED
    BY <1>0, <2>1 DEF User, SendText, SendMedia, RequestForward, Retry, view
<1>2. Worker => P
  BY <1>0 DEF Worker, Publish, Fail, Resolve, ResolvePanics, FinishGather, FetchChats, view
<1>3. RunClosure => P
  <2>1. CASE RunChats
    <3>1. uiq # <<>> /\ Head(uiq).kind = "chats" /\ listed' = Head(uiq).ids /\ active' = active
      BY <2>1 DEF RunChats, TakeHead
    <3>2. Head(uiq).ids = GroupsOf[active]
      BY <3>1, HeadTold DEF Steady, ChatsOfActive
    <3>3. QED
      BY <1>0, <3>1, <3>2
  <2>2. QED
    BY <1>0, <2>1 DEF RunClosure, RunDropped, RunAck, RunOfflineError, RunRealError,
       RunFirstSpawn, RunReplay, view
<1>4. WatcherTick \/ FlushTick \/ FlushVisit => P
  BY <1>0 DEF WatcherTick, FlushTick, FlushVisit, FlushSkip, FlushForget, FlushSend, view
<1>5. Environment => P
  BY <1>0 DEF Environment, RelayDown, RelayUp, Tick, view
<1>6. QED
  BY <1>1, <1>2, <1>3, <1>4, <1>5 DEF Next

(* Every file is of a chat that was listed when it was queued.             *)
LEMMA FilesStayListed ==
  ASSUME TypeOK, NoRestart, NoSwitch, Steady, Next
  PROVE  FilesListed'
<1> DEFINE P == \A e \in disk' : e \in disk \/ e.grp \in listed
<1>0. /\ ~Crash /\ ~UiPanic /\ ~Restart /\ ~ResetVault
  BY StaysReady DEF Steady
<1>1. ASSUME NEW i, NEW m, NEW g \in listed, Persist(i, m, g) PROVE P
  BY <1>1 DEF Persist
<1>2. User => P
  <2>1. ASSUME NEW m \in Msgs, SendText(m) PROVE P
    <3>1. GroupOf[m] \in listed /\ Persist(NextTempId, m, GroupOf[m])
      BY <2>1 DEF SendText, Enqueue
    <3>2. QED
      BY <1>1, <3>1
  <2>2. QED
    BY <2>1 DEF User, SendMedia, RequestForward, Retry, SwitchAccount
<1>3. Worker => P
  BY DEF Worker, Publish, Fail, Resolve, ResolvePanics, FinishGather, FetchChats
<1>4. RunClosure => P
  <2>1. CASE RunFirstSpawn
    <3>1. Head(uiq).grp \in listed /\ Persist(NextTempId, Head(uiq).msg, Head(uiq).grp)
      BY <2>1 DEF RunFirstSpawn, Enqueue
    <3>2. QED
      BY <1>1, <3>1
  <2>2. QED
    BY <2>1 DEF RunClosure, RunDropped, RunAck, RunOfflineError, RunRealError,
       RunReplay, RunChats, Unpersist
<1>5. WatcherTick \/ FlushTick \/ FlushVisit => P
  BY DEF WatcherTick, FlushTick, FlushVisit, FlushSkip, FlushForget, FlushSend, Unpersist, ram
<1>6. Environment => P
  BY <1>0 DEF Environment, RelayDown, RelayUp, Tick
<1>7. P
  BY <1>2, <1>3, <1>4, <1>5, <1>6 DEF Next
<1>8. listed \subseteq listed' /\ FilesListed
  BY ListedGrows DEF Steady
<1>9. QED
  BY <1>7, <1>8 DEF FilesListed

(* How the queue moves: nothing, its head, or one closure of these kinds.  *)
QueueMoves ==
  \/ UNCHANGED uiq
  \/ uiq # <<>> /\ uiq' = Tail(uiq)
  \/ \E c \in Closure : /\ Post(c)
                        /\ c.kind = "chats" => c.ids = GroupsOf[active]
                        /\ Spawning(c) => c.grp \in listed

(* Only the retry and the flush post replays, for a chat that is listed.   *)
LEMMA QueueMovesSo ==
  ASSUME TypeOK, NoRestart, NoSwitch, Steady, TodoFiled, Next
  PROVE  QueueMoves
<1>0. ~Crash /\ ~UiPanic /\ ~Restart /\ ~ResetVault
  BY StaysReady DEF Steady
<1>1. ASSUME NEW c \in Closure, Post(c), c.kind = "done" PROVE QueueMoves
  BY <1>1 DEF QueueMoves, Spawning
<1>2. ASSUME NEW m \in Msgs, NEW g \in Groups, Post(Spawn(NoId, m, g)) PROVE QueueMoves
  BY <1>2, SpawnTypes DEF QueueMoves, Spawning, Spawn
<1>3. ASSUME NEW i \in Ids, NEW m \in Msgs, NEW g \in listed, Post(Spawn(i, m, g))
      PROVE  QueueMoves
  <2>1. g \in Groups
    BY <1>3 DEF TypeOK
  <2>2. QED
    BY <1>3, <2>1, SpawnTypes DEF QueueMoves, Spawning, Spawn
<1>4. User => QueueMoves
  <2>1. ASSUME NEW m \in Msgs, SendMedia(m) PROVE QueueMoves
    BY <1>2, <2>1 DEF SendMedia
  <2>2. ASSUME NEW g \in Groups, NEW i \in Ids, Retry(g, i) PROVE QueueMoves
    <3>1. g \in listed /\ (UNCHANGED uiq \/ \E e \in disk : Post(Spawn(i, e.msg, g)))
      BY <2>2 DEF Retry
    <3>2. \A e \in disk : e.msg \in Msgs
      BY DEF TypeOK, Entry
    <3>3. QED
      BY <1>3, <3>1, <3>2 DEF QueueMoves
  <2>3. QED
    BY <2>1, <2>2 DEF User, SendText, RequestForward, SwitchAccount, ram, QueueMoves
<1>5. Worker => QueueMoves
  <2>1. ASSUME NEW o \in ops, Resolve(o) PROVE QueueMoves
    <3>1. Done(o) \in Closure /\ Done(o).kind = "done"
      BY DEF TypeOK, Op, Done, Closure
    <3>2. QED
      BY <1>1, <2>1, <3>1 DEF Resolve
  <2>2. ASSUME NEW x \in gathering, FinishGather(x) PROVE QueueMoves
    <3>1. x.msg \in Msgs /\ GroupOf[x.msg] \in Groups
      BY DEF TypeOK, Gather
    <3>2. QED
      BY <1>2, <2>2, <3>1 DEF FinishGather, QueueMoves
  <2>3. CASE FetchChats
    <3>1. Post([kind |-> "chats", ids |-> GroupsOf[active]])
      BY <2>3 DEF FetchChats
    <3>2. [kind |-> "chats", ids |-> GroupsOf[active]] \in Closure
      BY DEF TypeOK, Closure
    <3>3. QED
      BY <3>1, <3>2 DEF QueueMoves, Spawning
  <2>4. QED
    BY <2>1, <2>2, <2>3 DEF Worker, Publish, Fail, ResolvePanics, ram, QueueMoves
<1>6. RunClosure => QueueMoves
  BY DEF RunClosure, RunDropped, RunAck, RunOfflineError, RunRealError, RunFirstSpawn,
     RunReplay, RunChats, TakeHead, QueueMoves
<1>7. WatcherTick \/ FlushTick => QueueMoves
  BY DEF WatcherTick, FlushTick, ram, QueueMoves
<1>8. ASSUME NEW e \in flush.todo, FlushSkip(e) \/ FlushForget(e) \/ FlushSend(e)
      PROVE  QueueMoves
  <2>1. e.grp \in listed /\ e.id \in Ids /\ e.msg \in Msgs
    BY DEF TodoFiled, Steady, FilesListed, TypeOK, Entry
  <2>2. UNCHANGED uiq \/ Post(Spawn(e.id, e.msg, e.grp))
    BY <1>8 DEF FlushSkip, FlushForget, FlushSend
  <2>3. QED
    BY <1>3, <2>1, <2>2 DEF QueueMoves
<1>9. Environment => QueueMoves
  BY <1>0 DEF Environment, RelayDown, RelayUp, Tick, ram, QueueMoves
<1>10. QED
  BY <1>4, <1>5, <1>6, <1>7, <1>8, <1>9 DEF Next, FlushVisit

(* So what the chat list shows stays shown.                                *)
LEMMA SteadyStays ==
  ASSUME TypeOK, NoRestart, NoSwitch, Steady, TodoFiled, Next
  PROVE  Steady'
<1>1. proc' = "ready"
  BY StaysReady DEF Steady
<1>2. active' = active /\ listed \subseteq listed' /\ listed' \subseteq GroupsOf[active]
  BY ListedGrows
<1>3. FilesListed'
  BY FilesStayListed
<1>4. ChatsOfActive' /\ ReplaysListed'
  BY <1>2, QueueMovesSo, SteadyQueue DEF QueueMoves
<1>5. QED
  BY <1>1, <1>2, <1>3, <1>4 DEF Steady

(* A mark stays backed when the step takes away no task but those whose    *)
(* mark it lifts, and no replay but one it turns into a task.              *)
LEMMA MarksStay ==
  ASSUME TypeOK, InflightBacked,
         \A i \in inflight' : i \in inflight \/ Backed(i)',
         \A o \in ops : o.id \in inflight' => Backed(o.id)',
         \/ UNCHANGED uiq
         \/ \E c \in Closure : Post(c)
         \/ /\ uiq # <<>> /\ uiq' = Tail(uiq)
            /\ \A j : Spawning(Head(uiq)) /\ Head(uiq).id = j => Backed(j)'
  PROVE  InflightBacked'
<1>1. SUFFICES ASSUME NEW i \in inflight', i \in inflight PROVE Backed(i)'
  BY DEF InflightBacked, Backed
<1>2. CASE \E o \in ops : o.id = i
  BY <1>1, <1>2
<1>3. ASSUME NEW k \in DOMAIN uiq, uiq[k].kind = "spawn", uiq[k].id = i
      PROVE  Backed(i)'
  <2>1. CASE UNCHANGED uiq
    BY <1>3, <2>1 DEF Backed
  <2>2. ASSUME NEW c \in Closure, Post(c) PROVE Backed(i)'
    BY <1>3, <2>2, PostedQueue DEF Backed
  <2>3. CASE /\ uiq # <<>> /\ uiq' = Tail(uiq)
             /\ \A j : Spawning(Head(uiq)) /\ Head(uiq).id = j => Backed(j)'
    <3>1. CASE uiq[k] = Head(uiq)
      <4>1. i # NoId
        BY <1>1, NoIdFresh DEF TypeOK
      <4>2. QED
        BY <1>3, <2>3, <3>1, <4>1 DEF Spawning
    <3>2. CASE \E j \in DOMAIN uiq' : uiq'[j] = uiq[k]
      BY <1>3, <3>2 DEF Backed
    <3>3. QED
      BY <2>3, <3>1, <3>2, HeadlessQueue
  <2>4. QED
    BY <2>1, <2>2, <2>3
<1>4. QED
  BY <1>1, <1>2, <1>3 DEF InflightBacked

(* A dispatched task backs its own mark and takes no other task away.      *)
LEMMA DispatchBacks ==
  ASSUME NEW i, NEW m, NEW g, Dispatch(i, m, g)
  PROVE  /\ Backed(i)' /\ ops \subseteq ops'
         /\ \A j \in inflight' : j \in inflight \/ j = i
<1> DEFINE o == [id |-> i, msg |-> m, grp |-> g, acct |-> active,
                 try |-> attempts[m] + 1, stage |-> "sending"]
<1>1. ops' = ops \cup {o} /\ inflight' = inflight \cup {i}
  BY DEF Dispatch
<1>2. o.id = i
  OBVIOUS
<1> HIDE DEF o
<1>3. QED
  BY <1>1, <1>2 DEF Backed

(* So does a posted replay.                                                *)
LEMMA ReplayBacks ==
  ASSUME TypeOK, NEW i \in Ids, NEW m \in Msgs, NEW g \in Groups, Post(Spawn(i, m, g))
  PROVE  Backed(i)'
<1>1. Spawn(i, m, g) \in Closure /\ Spawn(i, m, g).kind = "spawn" /\ Spawn(i, m, g).id = i
  BY SpawnTypes DEF Spawn
<1>2. QED
  BY <1>1, PostedQueue DEF Backed

(* The user's actions keep every mark backed.                              *)
LEMMA UserMarks ==
  ASSUME TypeOK, NoSwitch, InflightBacked, User
  PROVE  InflightBacked'
<1>0. \A o \in ops : o \in ops' => Backed(o.id)'
  BY DEF Backed
<1>1. ASSUME UNCHANGED <<ops, inflight, uiq>> PROVE InflightBacked'
  BY <1>1 DEF InflightBacked
<1>2. ASSUME NEW m \in Msgs, SendText(m) PROVE InflightBacked'
  <2>1. PICK i : Dispatch(i, m, GroupOf[m]) /\ UNCHANGED uiq
    BY <1>2 DEF SendText, Enqueue
  <2>2. /\ Backed(i)' /\ ops \subseteq ops'
        /\ \A j \in inflight' : j \in inflight \/ j = i
    BY <2>1, DispatchBacks
  <2>3. QED
    BY <1>0, <2>1, <2>2, MarksStay
<1>3. ASSUME NEW m \in Msgs, SendMedia(m) PROVE InflightBacked'
  <2>1. Spawn(NoId, m, GroupOf[m]) \in Closure
    BY SpawnTypes
  <2>2. Post(Spawn(NoId, m, GroupOf[m])) /\ UNCHANGED <<ops, inflight>>
    BY <1>3 DEF SendMedia, tasks
  <2>3. QED
    BY <1>0, <2>1, <2>2, MarksStay
<1>4. ASSUME NEW m \in Msgs, RequestForward(m) PROVE InflightBacked'
  BY <1>1, <1>4 DEF RequestForward, ram
<1>5. ASSUME NEW g \in Groups, NEW i \in Ids, Retry(g, i) PROVE InflightBacked'
  <2>1. CASE Dispatch(i, FindSend(g, i).msg, g) /\ UNCHANGED uiq
    <3>1. /\ Backed(i)' /\ ops \subseteq ops'
          /\ \A j \in inflight' : j \in inflight \/ j = i
      BY <2>1, DispatchBacks
    <3>2. QED
      BY <1>0, <2>1, <3>1, MarksStay
  <2>2. ASSUME NEW e \in disk, Post(Spawn(i, e.msg, g)), inflight' = inflight \cup {i},
               UNCHANGED ops
        PROVE  InflightBacked'
    <3>1. e.msg \in Msgs
      BY DEF TypeOK, Entry
    <3>2. Spawn(i, e.msg, g) \in Closure /\ Backed(i)'
      BY <2>2, <3>1, SpawnTypes, ReplayBacks
    <3>3. QED
      BY <1>0, <2>2, <3>2, MarksStay
  <2>3. CASE UNCHANGED <<uiq, inflight, ops>>
    BY <1>1, <2>3
  <2>4. QED
    BY <1>5, <2>1, <2>2, <2>3 DEF Retry
<1>6. \A a \in Accounts : ~SwitchAccount(a)
  BY NeverSpent DEF SwitchAccount, NoSwitch, Faults
<1>7. QED
  BY <1>2, <1>3, <1>4, <1>5, <1>6 DEF User

(* So do the workers: a task that resolves lifts its mark.                 *)
LEMMA WorkerMarks ==
  ASSUME TypeOK, InflightBacked, Worker
  PROVE  InflightBacked'
<1>0. \A o \in ops : o \in ops' => Backed(o.id)'
  BY DEF Backed
<1>1. ASSUME NEW o \in ops, NEW s, ops' = (ops \ {o}) \cup {[o EXCEPT !.stage = s]},
             UNCHANGED <<inflight, uiq>>
      PROVE  InflightBacked'
  <2>1. o \in Op
    BY DEF TypeOK
  <2>2. [o EXCEPT !.stage = s] \in ops' /\ [o EXCEPT !.stage = s].id = o.id
    BY <1>1, <2>1 DEF Op
  <2>3. Backed(o.id)'
    BY <2>2 DEF Backed
  <2>4. QED
    BY <1>0, <1>1, <2>3, MarksStay
<1>2. ASSUME NEW o \in ops, NEW c \in Closure, ops' = ops \ {o}, LiftMark(o.id),
             Post(c) \/ UNCHANGED uiq
      PROVE  InflightBacked'
  <2>1. \A p \in ops : p.id \in inflight' => p \in ops'
    BY <1>2 DEF LiftMark
  <2>2. QED
    BY <1>0, <1>2, <2>1, MarksStay DEF LiftMark
<1>3. ASSUME NEW o \in ops, Publish(o) \/ Fail(o) PROVE InflightBacked'
  BY <1>1, <1>3 DEF Publish, Fail, ram
<1>4. ASSUME NEW o \in ops, Resolve(o) \/ ResolvePanics(o) PROVE InflightBacked'
  <2>1. Done(o) \in Closure
    BY DEF TypeOK, Op, Done, Closure
  <2>2. QED
    BY <1>2, <1>4, <2>1 DEF Resolve, ResolvePanics
<1>5. ASSUME NEW x \in gathering, FinishGather(x) PROVE InflightBacked'
  <2>1. x.msg \in Msgs /\ GroupOf[x.msg] \in Groups
    BY DEF TypeOK, Gather
  <2>2. Spawn(NoId, x.msg, GroupOf[x.msg]) \in Closure
    BY <2>1, SpawnTypes
  <2>3. /\ Post(Spawn(NoId, x.msg, GroupOf[x.msg])) \/ UNCHANGED uiq
        /\ UNCHANGED <<ops, inflight>>
    BY <1>5 DEF FinishGather
  <2>4. QED
    BY <1>0, <2>2, <2>3, MarksStay
<1>6. CASE FetchChats
  <2>1. [kind |-> "chats", ids |-> GroupsOf[active]] \in Closure
    BY DEF TypeOK, Closure
  <2>2. /\ Post([kind |-> "chats", ids |-> GroupsOf[active]])
        /\ UNCHANGED <<ops, inflight>>
    BY <1>6 DEF FetchChats, tasks
  <2>3. QED
    BY <1>0, <2>1, <2>2, MarksStay
<1>7. QED
  BY <1>3, <1>4, <1>5, <1>6 DEF Worker

(* So do the closures: no replay is dropped while its chat is listed.      *)
LEMMA ClosureMarks ==
  ASSUME TypeOK, Steady, InflightBacked, RunClosure
  PROVE  InflightBacked'
<1>0. \A o \in ops : o \in ops' => Backed(o.id)'
  BY DEF Backed
<1>1. uiq # <<>> /\ uiq' = Tail(uiq) /\ Head(uiq) \in Closure
  BY HeadClosure DEF RunClosure, RunDropped, RunAck, RunOfflineError, RunRealError,
     RunFirstSpawn, RunReplay, RunChats, TakeHead
<1>2. ASSUME UNCHANGED <<ops, inflight>>, ~Spawning(Head(uiq)) PROVE InflightBacked'
  BY <1>0, <1>1, <1>2, MarksStay
<1>3. ASSUME NEW i, NEW m, NEW g, Dispatch(i, m, g), Spawning(Head(uiq)) => Head(uiq).id = i
      PROVE  InflightBacked'
  <2>1. /\ Backed(i)' /\ ops \subseteq ops'
        /\ \A j \in inflight' : j \in inflight \/ j = i
    BY <1>3, DispatchBacks
  <2>2. QED
    BY <1>0, <1>1, <1>3, <2>1, MarksStay
<1>4. CASE RunDropped
  <2>1. Head(uiq).grp \notin listed /\ UNCHANGED <<ops, inflight>>
    BY <1>4 DEF RunDropped, tasks
  <2>2. ~Spawning(Head(uiq))
    BY <1>1, <2>1, HeadTold DEF Steady, ReplaysListed, Spawning
  <2>3. QED
    BY <1>2, <2>1, <2>2
<1>5. CASE RunAck \/ RunOfflineError \/ RunRealError \/ RunChats
  <2>1. UNCHANGED <<ops, inflight>> /\ Head(uiq).kind # "spawn"
    BY <1>5 DEF RunAck, RunOfflineError, RunRealError, RunChats, TakeHead, tasks
  <2>2. QED
    BY <1>2, <2>1 DEF Spawning
<1>6. CASE RunFirstSpawn
  <2>1. Dispatch(NextTempId, Head(uiq).msg, Head(uiq).grp) /\ ~Spawning(Head(uiq))
    BY <1>6 DEF RunFirstSpawn, Enqueue, Spawning
  <2>2. QED
    BY <1>3, <2>1
<1>7. CASE RunReplay
  <2>1. Dispatch(Head(uiq).id, Head(uiq).msg, Head(uiq).grp)
    BY <1>7 DEF RunReplay
  <2>2. QED
    BY <1>3, <2>1
<1>8. QED
  BY <1>4, <1>5, <1>6, <1>7 DEF RunClosure

(* So does the flush.                                                      *)
LEMMA FlushMarks ==
  ASSUME TypeOK, InflightBacked, WatcherTick \/ FlushTick \/ FlushVisit
  PROVE  InflightBacked'
<1>0. \A o \in ops : o \in ops' => Backed(o.id)'
  BY DEF Backed
<1>1. ASSUME UNCHANGED <<ops, inflight, uiq>> PROVE InflightBacked'
  BY <1>1 DEF InflightBacked
<1>2. CASE WatcherTick \/ FlushTick
  BY <1>1, <1>2 DEF WatcherTick, FlushTick, ram, tasks
<1>3. ASSUME NEW e \in flush.todo, FlushSkip(e) \/ FlushForget(e) PROVE InflightBacked'
  BY <1>1, <1>3 DEF FlushSkip, FlushForget, tasks
<1>4. ASSUME NEW e \in flush.todo, FlushSend(e) PROVE InflightBacked'
  <2>0. e.id \in Ids /\ e.msg \in Msgs /\ e.grp \in Groups
    BY DEF TypeOK, Entry
  <2>1. CASE UNCHANGED <<ops, inflight, uiq>>
    BY <1>1, <2>1
  <2>2. CASE Dispatch(e.id, e.msg, e.grp) /\ UNCHANGED uiq
    <3>1. /\ Backed(e.id)' /\ ops \subseteq ops'
          /\ \A j \in inflight' : j \in inflight \/ j = e.id
      BY <2>2, DispatchBacks
    <3>2. QED
      BY <1>0, <2>2, <3>1, MarksStay
  <2>3. CASE /\ inflight' = inflight \cup {e.id} /\ UNCHANGED ops
             /\ Post(Spawn(e.id, e.msg, e.grp))
    <3>1. Spawn(e.id, e.msg, e.grp) \in Closure /\ Backed(e.id)'
      BY <2>0, <2>3, SpawnTypes, ReplayBacks
    <3>2. QED
      BY <1>0, <2>3, <3>1, MarksStay
  <2>4. QED
    BY <1>4, <2>1, <2>2, <2>3 DEF FlushSend
<1>5. QED
  BY <1>2, <1>3, <1>4 DEF FlushVisit

(* And the environment, if it neither crashes the program nor resets it.   *)
LEMMA EnvironmentMarks ==
  ASSUME TypeOK, NoRestart, Steady, InflightBacked, Environment, Next
  PROVE  InflightBacked'
<1>1. ~Crash /\ ~UiPanic /\ ~Restart /\ ~ResetVault
  BY StaysReady DEF Steady
<1>2. UNCHANGED <<ops, inflight, uiq>>
  BY <1>1 DEF Environment, RelayDown, RelayUp, Tick, ram, tasks
<1>3. QED
  BY <1>2 DEF InflightBacked

(* InflightBacked (offline_inflight of extra.rs): in a session without a   *)
(* restart or a switch, an id marked in flight is lifted again, because a  *)
(* task or a posted replay still carries it.  After either, a replay whose *)
(* chat is not listed yet is dropped and its mark stays.                   *)
THEOREM MarksLifted ==
  ASSUME NoRestart, NoSwitch
  PROVE  Spec => []InflightBacked
<1>1. Init => Steady /\ InflightBacked
  BY DEF Init, Steady, ChatsOfActive, FilesListed, ReplaysListed, InflightBacked
<1>2. ASSUME TypeOK, QueueInv, Steady, InflightBacked, [Next]_vars
      PROVE  Steady' /\ InflightBacked'
  <2>1. CASE Next
    <3>1. TodoFiled
      BY <1>2 DEF QueueInv, Filing
    <3>2. Steady'
      BY <1>2, <2>1, <3>1, SteadyStays
    <3>3. InflightBacked'
      BY <1>2, <2>1, UserMarks, WorkerMarks, ClosureMarks, FlushMarks, EnvironmentMarks
         DEF Next
    <3>4. QED
      BY <3>2, <3>3
  <2>2. CASE UNCHANGED vars
    <3>1. UNCHANGED <<proc, active, listed, disk, uiq, ops, inflight>>
      BY <2>2 DEF vars, view, ram, tasks
    <3>2. QED
      BY <1>2, <3>1 DEF Steady, ChatsOfActive, FilesListed, ReplaysListed, InflightBacked
  <2>3. QED
    BY <1>2, <2>1, <2>2
<1>3. QED
  BY <1>1, <1>2, TypeCorrect, QueueInvHolds, PTL DEF Spec
-----------------------------------------------------------------------------
(* The queue implements Outbox while the process lives, the disk takes the *)
(* files and no two messages have one body.                                *)
DiskNeverFull == Limit["diskFull"] = 0
BodiesDiffer  == \A m, n \in Msgs : BodyOf[m] = BodyOf[n] => m = n

(* One process hands every id out once and loses no file.                  *)
OneLife ==
  /\ proc = "ready" /\ discarded = {}
  /\ \A m \in Msgs : idOf[m] # NoId => idOf[m] < nextId
  /\ \A m, n \in Msgs : idOf[m] # NoId /\ idOf[n] = idOf[m] => n = m

(* Nothing but a first send moves the counter, and nothing is discarded.   *)
LEMMA CounterStill ==
  ASSUME TypeOK, NoRestart, DiskNeverFull, proc = "ready", Next
  PROVE  /\ discarded' = discarded
         /\ \/ UNCHANGED <<idOf, nextId>>
            \/ \E m \in Msgs, g \in Groups : Enqueue(m, g)
<1> DEFINE P == \/ UNCHANGED <<idOf, nextId>>
                \/ \E m \in Msgs, g \in Groups : Enqueue(m, g)
<1>0. ~Crash /\ ~UiPanic /\ ~Restart /\ ~ResetVault /\ ~Spend("diskFull")
  BY StaysReady, NeverSpent DEF DiskNeverFull, Faults
<1>1. \A m, g : Enqueue(m, g) => discarded' = discarded
  BY <1>0 DEF Enqueue, Persist
<1>2. User => discarded' = discarded /\ P
  BY <1>1 DEF User, SendText, SendMedia, RequestForward, Retry, SwitchAccount, ram, history
<1>3. Worker => discarded' = discarded /\ P
  BY DEF Worker, Publish, Fail, Resolve, ResolvePanics, FinishGather, FetchChats, ram, history
<1>4. RunClosure => discarded' = discarded /\ P
  <2>1. CASE RunFirstSpawn
    <3>1. uiq # <<>> /\ Head(uiq).kind = "spawn" /\ Enqueue(Head(uiq).msg, Head(uiq).grp)
      BY <2>1 DEF RunFirstSpawn, TakeHead
    <3>2. Head(uiq).msg \in Msgs /\ Head(uiq).grp \in Groups
      BY <3>1, HeadClosure DEF Closure
    <3>3. QED
      BY <1>1, <3>1, <3>2
  <2>2. QED
    BY <2>1 DEF RunClosure, RunDropped, RunAck, RunOfflineError, RunRealError,
       RunReplay, RunChats, history
<1>5. WatcherTick \/ FlushTick \/ FlushVisit => discarded' = discarded /\ P
  BY DEF WatcherTick, FlushTick, FlushVisit, FlushSkip, FlushForget, FlushSend, ram, history
<1>6. Environment => discarded' = discarded /\ P
  BY <1>0 DEF Environment, RelayDown, RelayUp, Tick, ram, history
<1>7. QED
  BY <1>2, <1>3, <1>4, <1>5, <1>6 DEF Next

(* So ids stay distinct.                                                   *)
LEMMA OneLifeStays ==
  ASSUME TypeOK, Provenance, NoRestart, DiskNeverFull, OneLife, Next
  PROVE  OneLife'
<1>1. proc' = "ready" /\ discarded' = {}
  BY StaysReady, CounterStill DEF OneLife
<1>2. CASE UNCHANGED <<idOf, nextId>>
  BY <1>1, <1>2 DEF OneLife
<1>3. ASSUME NEW m \in Msgs, NEW g \in Groups, Enqueue(m, g) PROVE OneLife'
  <2>1. /\ idOf' = [idOf EXCEPT ![m] = nextId] /\ nextId' = nextId + 1
        /\ nextId \in Ids /\ nextId \in Nat
    BY <1>3 DEF Enqueue, NextTempId, TypeOK, Ids
  <2>2. \A n \in Msgs : idOf'[n] = IF n = m THEN nextId ELSE idOf[n]
    BY <2>1 DEF TypeOK
  <2>3. \A n \in Msgs : idOf[n] # NoId => idOf[n] \in Nat /\ idOf[n] < nextId
    BY DEF OneLife, TypeOK, Ids
  <2>4. \A n \in Msgs : idOf'[n] # NoId => idOf'[n] < nextId'
    BY <2>1, <2>2, <2>3
  <2>5. \A n, x \in Msgs : idOf'[n] # NoId /\ idOf'[x] = idOf'[n] => x = n
    BY <2>1, <2>2, <2>3 DEF OneLife
  <2>6. QED
    BY <1>1, <2>4, <2>5 DEF OneLife
<1>4. QED
  BY <1>2, <1>3, CounterStill DEF OneLife

(* What Outbox sees of the queue.                                          *)
QueuedMsgs    == {e.msg : e \in disk}
DeliveredMsgs == {m \in Msgs : sent[m] > 0}

OutboxStep == [Queue!Next]_<<QueuedMsgs, DeliveredMsgs>>

(* A step of the queue that does one of these is a step of Outbox.         *)
LEMMA OutboxSteps ==
  /\ UNCHANGED <<QueuedMsgs, DeliveredMsgs>> => OutboxStep
  /\ \A m \in Msgs :
       (\/ /\ m \notin QueuedMsgs \cup DeliveredMsgs
           /\ QueuedMsgs' = QueuedMsgs \cup {m} /\ UNCHANGED DeliveredMsgs
        \/ /\ m \in QueuedMsgs
           /\ DeliveredMsgs' = DeliveredMsgs \cup {m} /\ UNCHANGED QueuedMsgs
        \/ /\ m \in QueuedMsgs \cap DeliveredMsgs
           /\ QueuedMsgs' = QueuedMsgs \ {m} /\ UNCHANGED DeliveredMsgs)
       => OutboxStep
BY DEF OutboxStep, QueuedMsgs, DeliveredMsgs, Queue!Next, Queue!Submit, Queue!Deliver,
   Queue!Release

(* A first send submits.                                                   *)
LEMMA EnqueueSubmits ==
  ASSUME TypeOK, Provenance, Recorded, DiskNeverFull, OneLife,
         NEW m \in Msgs, NEW g \in Groups, Enqueue(m, g), idOf[m] = NoId, UNCHANGED sent
  PROVE  OutboxStep
<1>1. PICK x : /\ x.msg = m /\ x.id = nextId
               /\ disk' = {e \in disk : e.id # nextId} \cup {x}
  <2>1. ~Spend("diskFull")
    BY NeverSpent DEF DiskNeverFull, Faults
  <2>2. QED
    BY <2>1 DEF Enqueue, Persist, NextTempId
<1>2. \A e \in disk : e.msg \in Msgs /\ e.id \in Nat /\ idOf[e.msg] = e.id /\ e.id # NoId
  BY NoIdFresh DEF TypeOK, Entry, Provenance, EntriesNamed, Named, Ids
<1>3. \A e \in disk : e.id # nextId /\ e.msg # m
  BY <1>2 DEF OneLife, TypeOK
<1>4. QueuedMsgs' = QueuedMsgs \cup {m}
  BY <1>1, <1>3 DEF QueuedMsgs
<1>5. m \notin QueuedMsgs \cup DeliveredMsgs
  BY <1>3 DEF QueuedMsgs, DeliveredMsgs, Recorded
<1>6. QED
  BY <1>4, <1>5, OutboxSteps DEF DeliveredMsgs

(* The files under one id are those of the message that has it: removing   *)
(* them after it has reached a relay releases it.                          *)
LEMMA UnpersistReleases ==
  ASSUME TypeOK, Provenance, OneLife, NEW m \in Msgs, idOf[m] # NoId, sent[m] > 0,
         Unpersist(idOf[m]), UNCHANGED sent
  PROVE  OutboxStep
<1>1. \A e \in disk : e.id = idOf[m] <=> e.msg = m
  BY DEF TypeOK, Entry, Provenance, EntriesNamed, Named, OneLife
<1>2. QueuedMsgs' = QueuedMsgs \ {m}
  BY <1>1 DEF Unpersist, QueuedMsgs
<1>3. m \in DeliveredMsgs /\ UNCHANGED DeliveredMsgs
  BY DEF DeliveredMsgs
<1>4. CASE m \in QueuedMsgs
  BY <1>2, <1>3, <1>4, OutboxSteps
<1>5. CASE m \notin QueuedMsgs
  BY <1>2, <1>3, <1>5, OutboxSteps
<1>6. QED
  BY <1>4, <1>5

(* What reaches a relay was queued, so it is delivered, or was before.     *)
LEMMA PublishDelivers ==
  ASSUME TypeOK, Provenance, Retained, OneLife, BodiesDiffer, NEW o \in ops, Publish(o)
  PROVE  OutboxStep
<1>1. /\ o.msg \in Msgs /\ idOf[o.msg] # NoId /\ sent[o.msg] \in Nat
      /\ sent' = [sent EXCEPT ![o.msg] = @ + 1] /\ UNCHANGED disk
  BY NoIdFresh DEF TypeOK, Op, Provenance, OpsNamed, Named, Publish
<1>2. UNCHANGED QueuedMsgs
  BY <1>1 DEF QueuedMsgs
<1>3. DeliveredMsgs' = DeliveredMsgs \cup {o.msg}
  BY <1>1 DEF TypeOK, DeliveredMsgs
<1>4. CASE sent[o.msg] = 0
  <2>1. ~Reused(o.msg) /\ ~Twin(o.msg) /\ o.msg \notin discarded
    BY <1>1 DEF OneLife, Reused, Twin, BodiesDiffer
  <2>2. o.msg \in QueuedMsgs
    BY <1>1, <1>4, <2>1 DEF Retained, OnDisk, QueuedMsgs
  <2>3. QED
    BY <1>1, <1>2, <1>3, <2>2, OutboxSteps
<1>5. CASE sent[o.msg] # 0
  <2>1. o.msg \in DeliveredMsgs
    BY <1>1, <1>5 DEF DeliveredMsgs
  <2>2. QED
    BY <1>2, <1>3, <2>1, OutboxSteps
<1>6. QED
  BY <1>4, <1>5

(* Every step of the queue is one of Outbox, or none.                      *)
LEMMA OutboxFollows ==
  ASSUME TypeOK, Provenance, Retained, Recorded, TodoFiled, OneLife, NoRestart,
         DiskNeverFull, BodiesDiffer, Next
  PROVE  OutboxStep
<1> USE DEF world
<1>0. ~Crash /\ ~UiPanic /\ ~Restart /\ ~ResetVault
  BY StaysReady DEF OneLife
<1>1. UNCHANGED <<disk, sent>> => OutboxStep
  BY OutboxSteps DEF QueuedMsgs, DeliveredMsgs
<1>2. ASSUME NEW m \in Msgs, SendText(m) PROVE OutboxStep
  <2>1. Enqueue(m, GroupOf[m]) /\ UNCHANGED sent /\ idOf[m] = NoId
    BY <1>2, EnqueuesFirst DEF SendText
  <2>2. QED
    BY <2>1, EnqueueSubmits
<1>3. User => OutboxStep
  BY <1>1, <1>2 DEF User, SendMedia, RequestForward, Retry, SwitchAccount
<1>4. Worker => OutboxStep
  BY <1>1, PublishDelivers DEF Worker, Fail, Resolve, ResolvePanics, FinishGather, FetchChats
<1>5. CASE RunAck
  <2>1. /\ uiq # <<>> /\ Head(uiq).kind = "done" /\ Head(uiq).ok
        /\ Unpersist(Head(uiq).id) /\ UNCHANGED sent
    BY <1>5 DEF RunAck, TakeHead
  <2>2. Head(uiq).msg \in Msgs /\ Head(uiq).id \in Ids
    BY <2>1, HeadClosure DEF Closure
  <2>3. idOf[Head(uiq).msg] = Head(uiq).id /\ sent[Head(uiq).msg] > 0
    BY <2>1, HeadTold DEF Provenance, ClosuresNamed, ClosureNamed, Named
  <2>4. PICK m \in Msgs : m = Head(uiq).msg
    BY <2>2
  <2>5. idOf[m] # NoId /\ Unpersist(idOf[m]) /\ sent[m] > 0
    BY <2>1, <2>2, <2>3, <2>4, NoIdFresh
  <2>6. QED
    BY <2>1, <2>5, UnpersistReleases
<1>6. CASE RunFirstSpawn
  <2>1. /\ uiq # <<>> /\ Head(uiq).kind = "spawn" /\ Enqueue(Head(uiq).msg, Head(uiq).grp)
        /\ UNCHANGED sent
    BY <1>6 DEF RunFirstSpawn, TakeHead
  <2>2. Head(uiq).msg \in Msgs /\ Head(uiq).grp \in Groups /\ idOf[Head(uiq).msg] = NoId
    BY <1>6, <2>1, HeadClosure, EnqueuesFirst DEF Closure
  <2>3. PICK m \in Msgs, g \in Groups : m = Head(uiq).msg /\ g = Head(uiq).grp
    BY <2>2
  <2>4. Enqueue(m, g) /\ idOf[m] = NoId
    BY <2>1, <2>2, <2>3
  <2>5. QED
    BY <2>1, <2>4, EnqueueSubmits
<1>7. RunClosure => OutboxStep
  BY <1>1, <1>5, <1>6 DEF RunClosure, RunDropped, RunOfflineError, RunRealError,
     RunReplay, RunChats
<1>8. ASSUME NEW e \in flush.todo, FlushForget(e) PROVE OutboxStep
  <2>1. LooksAlreadySent(e) /\ Unpersist(e.id) /\ UNCHANGED sent
    BY <1>8 DEF FlushForget
  <2>2. e.msg \in Msgs /\ e.id \in Ids /\ idOf[e.msg] = e.id
    BY DEF TypeOK, Entry, Provenance, EntriesNamed, Named
  <2>3. sent[e.msg] > 0
    <3>1. PICK r \in store : BodyOf[r.msg] = BodyOf[e.msg]
      BY <2>1 DEF LooksAlreadySent
    <3>2. r.msg \in Msgs
      BY DEF TypeOK
    <3>3. r.msg = e.msg
      BY <2>2, <3>1, <3>2 DEF BodiesDiffer
    <3>4. QED
      BY <3>3 DEF Provenance, StoreSent
  <2>4. idOf[e.msg] # NoId /\ Unpersist(idOf[e.msg])
    BY <2>1, <2>2, NoIdFresh
  <2>5. PICK m \in Msgs : m = e.msg
    BY <2>2
  <2>6. QED
    BY <2>1, <2>3, <2>4, <2>5, UnpersistReleases
<1>9. WatcherTick \/ FlushTick \/ FlushVisit => OutboxStep
  BY <1>1, <1>8 DEF WatcherTick, FlushTick, FlushVisit, FlushSkip, FlushSend
<1>10. Environment => OutboxStep
  BY <1>0, <1>1 DEF Environment, RelayDown, RelayUp, Tick
<1>11. QED
  BY <1>3, <1>4, <1>7, <1>9, <1>10 DEF Next

(* OutboxImplemented: while the process lives, the files of the queue keep *)
(* what Outbox promises: a message enters once, before it reaches a relay, *)
(* and leaves only after it has.  A restart hands ids out again, a full    *)
(* disk sends a message that was never filed, and a message with the body  *)
(* of another is taken for it: under each of them this fails.              *)
THEOREM OutboxRefined ==
  ASSUME NoRestart, DiskNeverFull, BodiesDiffer
  PROVE  Spec => OutboxImplemented
<1>1. Init => OneLife /\ Queue!Init
  BY DEF Init, OneLife, Queue!Init
<1>2. ASSUME TypeOK, Provenance, OneLife, [Next]_vars PROVE OneLife'
  <2>1. CASE UNCHANGED vars
    BY <1>2, <2>1 DEF OneLife, vars, view, ram, history
  <2>2. QED
    BY <1>2, <2>1, OneLifeStays
<1>3. ASSUME TypeOK, Provenance, Retained, QueueInv, OneLife, [Next]_vars
      PROVE  OutboxStep
  <2>1. CASE UNCHANGED vars
    <3>1. UNCHANGED <<disk, sent>>
      BY <2>1 DEF vars, world
    <3>2. QED
      BY <3>1, OutboxSteps DEF QueuedMsgs, DeliveredMsgs
  <2>2. CASE Next
    BY <1>3, <2>2, OutboxFollows DEF QueueInv, Filing
  <2>3. QED
    BY <1>3, <2>1, <2>2
<1>4. OutboxStep => [Queue!Next]_<<{e.msg : e \in disk}, {m \in Msgs : sent[m] > 0}>>
  BY DEF OutboxStep, QueuedMsgs, DeliveredMsgs
<1>5. QED
  BY <1>1, <1>2, <1>3, <1>4, TypeCorrect, ProvenanceHolds, RetainedHolds, QueueInvHolds, PTL
     DEF Spec, OutboxImplemented, Queue!Spec
=============================================================================
