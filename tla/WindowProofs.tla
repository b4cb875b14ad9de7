----------------------------- MODULE WindowProofs -----------------------------
(***************************************************************************)
(* TLAPS proofs about Window, for every value of its constants: what is    *)
(* announced, what becomes of a half-written message, and what the unread  *)
(* counters and the players show when the workers have gone quiet.         *)
(***************************************************************************)
EXTENDS Window, DataLemmas, SequenceTheorems

-----------------------------------------------------------------------------
(* The types, as far as the proofs need them.                              *)

JobRecord ==
  [kind : {"list", "merge", "refresh"}, stage : {"asked", "counting"},
   order : Seq(Chats), latest : [Chats -> Nat], todo : Seq(Chats), got : [Chats -> Nat]]
ForChats ==
       [kind : {"chat"}, chat : Chats, now : Nat, upto : Nat, raw : Nat]
  \cup [kind : {"list", "merge"}, order : Seq(Chats), got : [Chats -> Nat]]
ForPlayers ==
       [kind : {"slides"}, pic : Gallery, chat : Chats]
  \cup [kind : {"picture"}, pic : Gallery, pos : Nat, ok : BOOLEAN]
  \cup [kind : {"frame", "nofilm", "stop"}] \cup [kind : {"recording"}, shown : BOOLEAN]
  \cup [kind : {"secs"}, secs : Nat]
Closure == ForChats \cup ForPlayers

Read  == [pic : Gallery, chat : Chats]
Fetch == [pic : Gallery, pos : Nat, chat : Chats]
Queue == ToSet(uiq)

ChatsShaped ==
  /\ clock \in Nat /\ inbox \in [Chats -> Seq(Nat)] /\ visible \in Seq(Chats)
  /\ list \in Seq(Chats) /\ noted \in [Chats -> Nat] /\ feed \in Seq(Chats)
  /\ IsBag(jobs, JobRecord)
  /\ DOMAIN drafts = Chats /\ DOMAIN left = Chats
  /\ announced \subseteq Chats \X Nat /\ onScreen \subseteq Chats \X Nat

PictureTypes ==
  /\ viewer \in [open : BOOLEAN, busy : BOOLEAN, shown : Gallery \cup {"none"}]
  /\ slides \in [items : Seq(Gallery), pos : Nat]
  /\ slides.items # <<>> => slides.pos \in DOMAIN slides.items
  /\ IsBag(reads, Read) /\ IsBag(fetches, Fetch) /\ crossed \in BOOLEAN
  /\ \A r \in BagToSet(reads) : r.pic \in ToSet(Pictures[r.chat])
FilmTypes ==
  /\ film \in [open : BOOLEAN, busy : BOOLEAN, target : Videos \cup {"none"},
               player : Videos \cup {"none"}]
  /\ IsBag(films, Videos) /\ late \in BOOLEAN
MicTypes ==
  /\ mic \in [on : BOOLEAN, shown : BOOLEAN, secs : Nat]
  /\ IsBag(tickers, Nat) /\ hasty \in BOOLEAN
PartsShaped == PictureTypes /\ FilmTypes /\ MicTypes
PicturesQueued == \A x \in Queue : x.kind = "slides" => x.pic \in ToSet(Pictures[x.chat])
PlayersShaped == PartsShaped /\ PicturesQueued

Shaped == uiq \in Seq(Closure) /\ ChatsShaped /\ PlayersShaped
-----------------------------------------------------------------------------
(* The inductive invariants.                                               *)

(* What was announced or noted on screen is not beyond what is noted, and  *)
(* that is not beyond what has come.                                       *)
NotedSoFar ==
  /\ \A c \in Chats : noted[c] <= Len(inbox[c])
  /\ \A m \in announced \cup onScreen : m[2] <= noted[m[1]]

(* In the open chat the composer is what the user left there, unless it    *)
(* was emptied since; then the file has it.                                *)
LeftBelongs == \A c \in Chats : left[c] # Nothing => left[c].chat = c
ComposerTrue ==
  \A c \in Chats \ lost :
    Open = c /\ ~editing /\ left[c] # Nothing =>
      IF blank THEN drafts[c] = left[c] ELSE composer = left[c]

(* The picture asked for last is still to be picked, or is picked and has  *)
(* failed, is shown, or is under way to this very position.                *)
ToPick == \/ \E r \in BagToSet(reads) : r.pic = wanted
          \/ \E x \in Queue : x.kind = "slides" /\ x.pic = wanted
UnderWay ==
  \/ \E f \in BagToSet(fetches) : f.pic = wanted /\ f.pos = slides.pos
  \/ \E x \in Queue : x.kind = "picture" /\ x.pic = wanted /\ x.pos = slides.pos /\ x.ok
Arrived == viewer.shown = wanted /\ ~viewer.busy
PictureComes ==
  /\ viewer.open /\ ~crossed =>
       ToPick \/ (Picked = wanted /\ (wanted \in missed \/ Arrived \/ UnderWay))
  /\ \A x \in Queue : x.kind = "picture" /\ ~x.ok => x.pic \in missed

(* A spinner over a video is ended by its load, or by what the load posts. *)
FilmComes ==
  /\ film.player # "none" /\ ~late => film.open /\ film.target = film.player
  /\ film.busy => BagToSet(films) # {} \/ \E x \in Queue : x.kind \in {"frame", "nofilm"}

(* What the composer will show once the posted closures have run is what   *)
(* there is.                                                               *)
Shows(x) == x.kind = "recording"
Silent(q) == \A i \in DOMAIN q : ~Shows(q[i])
Hides(q)  == \A i \in DOMAIN q : Shows(q[i]) => ~q[i].shown
ShownLast(q) ==
  \E i \in DOMAIN q :
    /\ Shows(q[i]) /\ q[i].shown
    /\ \A j \in DOMAIN q : Shows(q[j]) /\ j # i => j < i /\ ~q[j].shown
MicComes ==
  ~hasty =>
    /\ mic.on /\ mic.shown  => Silent(uiq)
    /\ mic.on /\ ~mic.shown => ShownLast(uiq)
    /\ ~mic.on => Hides(uiq)
    /\ ~mic.on /\ mic.shown => ~Silent(uiq)

WindowInv == /\ Shaped /\ NotedSoFar /\ NotifiedOnce
             /\ LeftBelongs /\ ComposerTrue /\ DraftKept
             /\ PictureComes /\ FilmComes /\ MicComes
-----------------------------------------------------------------------------
(* The queue of closures.                                                  *)

LEMMA ClosureFields ==
  ASSUME NEW x \in Closure
  PROVE  /\ x.kind = "chat" => /\ x.chat \in Chats /\ x.now \in Nat
                               /\ x.upto \in Nat /\ x.raw \in Nat
         /\ x.kind \in {"list", "merge"} => x.order \in Seq(Chats) /\ x.got \in [Chats -> Nat]
         /\ x.kind = "slides" => x.pic \in Gallery /\ x.chat \in Chats
         /\ x.kind = "picture" => x.pic \in Gallery /\ x.pos \in Nat /\ x.ok \in BOOLEAN
         /\ x.kind = "recording" => x.shown \in BOOLEAN
         /\ x.kind = "secs" => x.secs \in Nat
         /\ x.kind \in {"chat", "list", "merge"} <=> x \in ForChats
BY DEF Closure, ForChats, ForPlayers

-----------------------------------------------------------------------------
(* What the chats' actions do to the shared queue, and to their types.     *)

ChatStep ==
  \/ UNCHANGED uiq
  \/ \E x \in ForChats : uiq' = Append(uiq, x)
  \/ uiq # <<>> /\ Head(uiq) \in ForChats /\ uiq' = Tail(uiq)

LEMMA UnreadCounts ==
  ASSUME ChatsShaped, NEW c \in Chats, NEW mark, NEW latest
  PROVE  Unread(c, mark, latest) \in Nat
<1>1. DOMAIN inbox[c] = 1 .. Len(inbox[c]) /\ Len(inbox[c]) \in Nat
  BY DEF ChatsShaped
<1>2. IsFiniteSet(1 .. Len(inbox[c]))
  BY <1>1, FS_Interval
<1>3. Newer(c, mark) \subseteq 1 .. Len(inbox[c])
  BY <1>1 DEF Newer
<1>4. IsFiniteSet(Newer(c, mark))
  BY <1>2, <1>3, FS_Subset
<1>5. Cardinality(Newer(c, mark)) \in Nat
  BY <1>4, FS_CardinalityType
<1>6. QED
  BY <1>5 DEF Unread

LEMMA JobAsked ==
  ASSUME ChatsShaped, NEW k \in {"list", "merge", "refresh"}
  PROVE  /\ Job(k) \in JobRecord /\ IsBag(SetToBag({Job(k)}), JobRecord)
         /\ IsBag(jobs (+) SetToBag({Job(k)}), JobRecord)
<1>1. Job(k) \in JobRecord
  BY DEF Job, JobRecord
<1>2. IsBag(SetToBag({Job(k)}), JobRecord)
  <2>1. SetToBag({Job(k)}) \in [{Job(k)} -> Nat \ {0}] /\ DOMAIN SetToBag({Job(k)}) = {Job(k)}
    BY DEF SetToBag
  <2>2. QED
    BY <1>1, <2>1 DEF IsBag
<1>3. IsBag(jobs (+) SetToBag({Job(k)}), JobRecord)
  BY <1>1, BagAdd DEF ChatsShaped
<1>4. QED
  BY <1>1, <1>2, <1>3

LEMMA JobSteps ==
  ASSUME ChatsShaped, NEW j \in BagToSet(jobs), NEW to \in JobRecord
  PROVE  /\ IsBag((jobs (-) SetToBag({j})) (+) SetToBag({to}), JobRecord)
         /\ IsBag(jobs (-) SetToBag({j}), JobRecord) /\ j \in JobRecord
<1>1. IsBag(jobs, JobRecord)
  BY DEF ChatsShaped
<1>2. IsBag(jobs (-) SetToBag({j}), JobRecord) /\ j \in JobRecord
  BY <1>1, BagTake DEF BagToSet, IsBag
<1> DEFINE less == jobs (-) SetToBag({j})
<1>3. IsBag(less, JobRecord)
  BY <1>2
<1> HIDE DEF less
<1>4. IsBag(less (+) SetToBag({to}), JobRecord)
  BY <1>3, BagAdd
<1>5. QED
  BY <1>2, <1>4 DEF less

Same == <<clock, inbox, visible, list, noted, feed, jobs, announced, onScreen>>
LEMMA Composing ==
  ASSUME Shaped,
         \/ \E t \in Texts \cup {"none"} : Type(t)
         \/ RequestEdit \/ EndEdit \/ Send \/ TurnPage \/ RestoreDraft
         \/ \E k \in DOMAIN list : Select(k)
         \/ \E c \in Chats : ToggleMute(c)
  PROVE  UNCHANGED Same /\ DOMAIN drafts' = Chats /\ DOMAIN left' = Chats /\ UNCHANGED uiq
<1>1. ASSUME NEW t, Type(t) PROVE UNCHANGED Same /\ DOMAIN drafts' = Chats /\ DOMAIN left' = Chats
                                  /\ UNCHANGED uiq
  BY <1>1 DEF Type, Same, Shaped, ChatsShaped, rows, notices
<1>2. CASE RequestEdit \/ EndEdit \/ TurnPage \/ RestoreDraft
  BY <1>2 DEF RequestEdit, EndEdit, TurnPage, RestoreDraft, Same, Shaped, ChatsShaped, rows,
              notices, loop, writing
<1>3. CASE Send
  BY <1>3 DEF Send, Same, Shaped, ChatsShaped, rows, notices, loop
<1>4. ASSUME NEW k \in DOMAIN list, Select(k)
      PROVE  UNCHANGED Same /\ DOMAIN drafts' = Chats /\ DOMAIN left' = Chats /\ UNCHANGED uiq
  <2>1. UNCHANGED Same /\ UNCHANGED <<uiq, left>> /\ drafts' = SaveDraft(Open)
    BY <1>4 DEF Select, SavedOn, Same, notices
  <2>2. DOMAIN SaveDraft(Open) = Chats
    BY DEF SaveDraft, Shaped, ChatsShaped
  <2>3. QED
    BY <2>1, <2>2 DEF Shaped, ChatsShaped
<1>5. ASSUME NEW c \in Chats, ToggleMute(c)
      PROVE  UNCHANGED Same /\ DOMAIN drafts' = Chats /\ DOMAIN left' = Chats /\ UNCHANGED uiq
  BY <1>5 DEF ToggleMute, Same, Shaped, ChatsShaped, rows, notices, writing
<1>6. QED
  BY <1>1, <1>2, <1>3, <1>4, <1>5

LEMMA ComposingShaped ==
  ASSUME Shaped, UNCHANGED Same, DOMAIN drafts' = Chats, DOMAIN left' = Chats
  PROVE  ChatsShaped'
BY DEF Shaped, ChatsShaped, Same, BagToSet, IsBag

(* The outside: time, messages and chats come, lists are asked for.        *)
LEMMA ComingShaped ==
  ASSUME Shaped,
         \/ Tick \/ SwitchAccount \/ \E k \in {"refresh", "merge"} : Request(k)
         \/ \E c \in Chats : Arrive(c) \/ Refire(c) \/ Join(c)
  PROVE  ChatsShaped' /\ UNCHANGED uiq
<1> USE DEF Shaped, ChatsShaped
<1>1. CASE Tick
  BY <1>1 DEF Tick, rows, writing, notices
<1>2. CASE SwitchAccount
  <2>1. /\ UNCHANGED <<uiq, clock, inbox, visible, drafts, left, noted, announced, onScreen>>
        /\ list' = <<>> /\ feed' = <<>> /\ jobs' = jobs (+) SetToBag({Job("list")})
    BY <1>2 DEF SwitchAccount
  <2>2. IsBag(jobs', JobRecord)
    BY <2>1, JobAsked
  <2>3. QED
    BY <2>1, <2>2
<1>3. ASSUME NEW k \in {"refresh", "merge"}, Request(k) PROVE ChatsShaped' /\ UNCHANGED uiq
  <2>1. /\ UNCHANGED <<uiq, clock, inbox, visible, rows, writing, notices, feed>>
        /\ jobs' = jobs (+) SetToBag({Job(k)})
    BY <1>3 DEF Request
  <2>2. IsBag(jobs', JobRecord)
    BY <2>1, JobAsked
  <2>3. QED
    BY <2>1, <2>2 DEF rows, writing, notices
<1>4. ASSUME NEW c \in Chats, Arrive(c) PROVE ChatsShaped' /\ UNCHANGED uiq
  <2>1. /\ UNCHANGED <<uiq, clock, visible, rows, writing, notices, jobs>>
        /\ inbox' = [inbox EXCEPT ![c] = Append(@, clock)] /\ feed' = Append(feed, c)
    BY <1>4 DEF Arrive
  <2>2. inbox' \in [Chats -> Seq(Nat)] /\ feed' \in Seq(Chats)
    BY <2>1
  <2>3. QED
    BY <2>1, <2>2 DEF rows, writing, notices
<1>5. ASSUME NEW c \in Chats, Refire(c) PROVE ChatsShaped' /\ UNCHANGED uiq
  <2>1. /\ UNCHANGED <<uiq, clock, inbox, visible, rows, writing, notices, jobs>>
        /\ feed' = Append(feed, c)
    BY <1>5 DEF Refire
  <2>2. feed' \in Seq(Chats)
    BY <2>1
  <2>3. QED
    BY <2>1, <2>2 DEF rows, writing, notices
<1>6. ASSUME NEW c \in Chats, Join(c) PROVE ChatsShaped' /\ UNCHANGED uiq
  <2>1. /\ UNCHANGED <<uiq, clock, inbox, rows, writing, notices, jobs>>
        /\ feed' = Append(feed, c) /\ visible' \in {<<c>> \o visible, Append(visible, c)}
    BY <1>6 DEF Join
  <2>2. feed' \in Seq(Chats) /\ visible' \in Seq(Chats)
    <3>1. Append(feed, c) \in Seq(Chats) /\ Append(visible, c) \in Seq(Chats)
      OBVIOUS
    <3>2. <<c>> \in Seq(Chats)
      OBVIOUS
    <3>3. <<c>> \o visible \in Seq(Chats)
      BY <3>2, ConcatProperties
    <3>4. QED
      BY <2>1, <3>1, <3>3
  <2>3. QED
    BY <2>1, <2>2 DEF rows, writing, notices
<1>7. QED
  BY <1>1, <1>2, <1>3, <1>4, <1>5, <1>6

(* The worker that reads the list, and the watcher.                        *)
LEMMA WorkingShaped ==
  ASSUME Shaped,
         \/ Callback
         \/ \E j \in BagToSet(jobs) : ReadList(j) \/ CountChat(j) \/ HandList(j)
  PROVE  ChatsShaped' /\ ChatStep
<1>0. ChatsShaped
  BY DEF Shaped
<1>1. CASE Callback
  <2> DEFINE c == Head(feed)
             x == [kind |-> "chat", chat |-> c, now |-> clock, upto |-> Len(inbox[c]),
                   raw  |-> Unread(c, Mark(c), Len(inbox[c]))]
  <2>1. /\ feed # <<>> /\ feed' = Tail(feed) /\ uiq' = Append(uiq, x)
        /\ UNCHANGED <<clock, inbox, visible, rows, writing, notices, jobs>>
    BY <1>1 DEF Callback, Post
  <2>2. c \in Chats /\ feed' \in Seq(Chats)
    BY <1>0, <2>1 DEF ChatsShaped
  <2>3. Len(inbox[c]) \in Nat /\ clock \in Nat
    BY <1>0, <2>2 DEF ChatsShaped
  <2>4. Unread(c, Mark(c), Len(inbox[c])) \in Nat
    BY <1>0, <2>2, UnreadCounts
  <2>5. x \in ForChats
    <3> HIDE DEF c
    <3>1. QED
      BY <2>2, <2>3, <2>4 DEF ForChats
  <2> HIDE DEF x
  <2>6. ChatStep
    BY <2>1, <2>5 DEF ChatStep
  <2>7. ChatsShaped'
    BY <1>0, <2>1, <2>2 DEF ChatsShaped, rows, writing, notices
  <2>8. QED
    BY <2>6, <2>7
<1>2. ASSUME NEW j \in BagToSet(jobs), ReadList(j) PROVE ChatsShaped' /\ ChatStep
  <2> DEFINE to == [j EXCEPT !.stage = "counting", !.order = visible, !.todo = visible,
                            !.latest = [c \in Chats |-> Len(inbox[c])]]
  <2>1. j \in JobRecord
    <3>1. Job("list") \in JobRecord
      BY <1>0, JobAsked
    <3>2. QED
      BY <1>0, <3>1, JobSteps
  <2>2. visible \in Seq(Chats) /\ [c \in Chats |-> Len(inbox[c])] \in [Chats -> Nat]
    BY <1>0 DEF ChatsShaped
  <2>3. to \in JobRecord
    BY <2>1, <2>2 DEF JobRecord
  <2>4. /\ UNCHANGED <<loop, clock, inbox, visible, rows, writing, notices, feed>>
        /\ jobs' = (jobs (-) SetToBag({j})) (+) SetToBag({to})
    BY <1>2 DEF ReadList, Step
  <2> HIDE DEF to
  <2>5. IsBag(jobs', JobRecord)
    BY <1>0, <2>3, <2>4, JobSteps
  <2>6. QED
    BY <1>0, <2>4, <2>5 DEF ChatsShaped, ChatStep, rows, writing, notices, loop
<1>3. ASSUME NEW j \in BagToSet(jobs), CountChat(j) PROVE ChatsShaped' /\ ChatStep
  <2> DEFINE c == Head(j.todo)  n == Unread(c, Mark(c), j.latest[c])
             to == [j EXCEPT !.todo = Tail(@), !.got[c] = n]
  <2>1. j \in JobRecord
    <3>1. Job("list") \in JobRecord
      BY <1>0, JobAsked
    <3>2. QED
      BY <1>0, <3>1, JobSteps
  <2>2. /\ UNCHANGED <<loop, clock, inbox, visible, rows, writing, notices, feed>>
        /\ jobs' = (jobs (-) SetToBag({j})) (+) SetToBag({to}) /\ j.todo # <<>>
    BY <1>3 DEF CountChat, Step
  <2>3. j.todo \in Seq(Chats) /\ j.got \in [Chats -> Nat]
    BY <2>1 DEF JobRecord
  <2>4. c \in Chats /\ Tail(j.todo) \in Seq(Chats)
    BY <2>2, <2>3
  <2>5. n \in Nat
    BY <1>0, <2>4, UnreadCounts
  <2>6. to \in JobRecord
    <3> HIDE DEF c, n
    <3>1. [j.got EXCEPT ![c] = n] \in [Chats -> Nat]
      BY <2>3, <2>5
    <3>2. QED
      BY <2>1, <2>4, <3>1 DEF JobRecord
  <2> HIDE DEF to
  <2>7. IsBag(jobs', JobRecord)
    BY <1>0, <2>6, <2>2, JobSteps
  <2>8. QED
    BY <1>0, <2>2, <2>7 DEF ChatsShaped, ChatStep, rows, writing, notices, loop
<1>4. ASSUME NEW j \in BagToSet(jobs), HandList(j) PROVE ChatsShaped' /\ ChatStep
  <2> DEFINE x == [kind |-> IF j.kind = "merge" THEN "merge" ELSE "list",
                   order |-> j.order, got |-> j.got]
  <2>1. /\ UNCHANGED <<clock, inbox, visible, rows, writing, notices, feed>>
        /\ jobs' = jobs (-) SetToBag({j}) /\ uiq' = Append(uiq, x)
    BY <1>4 DEF HandList, Post
  <2>2. j \in JobRecord /\ IsBag(jobs', JobRecord)
    <3>1. Job("list") \in JobRecord
      BY <1>0, JobAsked
    <3>2. QED
      BY <1>0, <2>1, <3>1, JobSteps
  <2>3. x \in ForChats
    BY <2>2 DEF JobRecord, ForChats
  <2> HIDE DEF x
  <2>4. QED
    BY <1>0, <2>1, <2>2, <2>3 DEF ChatsShaped, ChatStep, rows, writing, notices
<1>5. QED
  BY <1>1, <1>2, <1>3, <1>4

(* The closures for the chats, run on the event loop.                      *)
LEMMA TakenChat ==
  ASSUME Shaped, uiq # <<>>, Head(uiq).kind \in {"chat", "list", "merge"}, Take(<<>>)
  PROVE  ChatStep /\ Head(uiq) \in ForChats /\ Head(uiq) \in Closure
<1>1. uiq \in Seq(Closure)
  BY DEF Shaped
<1>2. Head(uiq) \in Closure /\ Tail(uiq) \o <<>> = Tail(uiq)
  BY <1>1, QueueDrops
<1>3. Head(uiq) \in ForChats
  BY <1>2, ClosureFields
<1>4. QED
  BY <1>2, <1>3 DEF ChatStep, Take

LEMMA RunningShaped ==
  ASSUME Shaped, RunChat \/ RunList \/ RunMerge
  PROVE  ChatsShaped' /\ ChatStep
<1> DEFINE h == Head(uiq)
<1>1. uiq # <<>> /\ h.kind \in {"chat", "list", "merge"} /\ Take(<<>>)
  BY DEF RunChat, RunList, RunMerge, Turn
<1>2. ChatStep /\ h \in Closure
  BY <1>1, TakenChat
<1>3. ChatsShaped
  BY DEF Shaped
<1>4. CASE RunChat
  <2>1. h.chat \in Chats
    BY <1>2, <1>4, ClosureFields DEF RunChat, Turn
  <2>2. /\ UNCHANGED <<clock, inbox, visible, drafts, left, feed, jobs>>
        /\ list' = (IF Contains(list, h.chat) THEN list ELSE Append(list, h.chat))
        /\ Notify(h.chat)
    BY <1>4 DEF RunChat
  <2>3. list' \in Seq(Chats)
    BY <1>3, <2>1, <2>2 DEF ChatsShaped
  <2>4. Len(inbox[h.chat]) \in Nat
    BY <1>3, <2>1 DEF ChatsShaped
  <2>5. noted' \in [Chats -> Nat]
    BY <1>3, <2>1, <2>2, <2>4 DEF Notify, NoteLatest, ChatsShaped
  <2>6. announced' \subseteq Chats \X Nat /\ onScreen' \subseteq Chats \X Nat
    BY <1>3, <2>1, <2>2, <2>4 DEF Notify, ChatsShaped
  <2>7. QED
    BY <1>2, <1>3, <2>2, <2>3, <2>5, <2>6 DEF ChatsShaped
<1>5. CASE RunList \/ RunMerge
  <2>1. h.order \in Seq(Chats)
    BY <1>2, <1>5, ClosureFields DEF RunList, RunMerge, Turn
  <2>2. /\ UNCHANGED <<clock, inbox, visible, drafts, left, feed, jobs, notices>>
        /\ \/ list' = h.order
           \/ list' = list \o Sublist(h.order, Chats \ ToSet(list))
    BY <1>5 DEF RunList, RunMerge
  <2>3. Sublist(h.order, Chats \ ToSet(list)) \in Seq(Chats)
    BY <2>1, SublistType
  <2>4. list' \in Seq(Chats)
    <3> DEFINE m == Sublist(h.order, Chats \ ToSet(list))
    <3> HIDE DEF m
    <3>1. m \in Seq(Chats) /\ list \in Seq(Chats)
      BY <1>3, <2>3 DEF m, ChatsShaped
    <3>2. list \o m \in Seq(Chats)
      BY <3>1, ConcatProperties
    <3>3. QED
      BY <2>1, <2>2, <3>2 DEF m
  <2>5. QED
    BY <1>2, <1>3, <2>2, <2>4 DEF ChatsShaped, notices
<1>6. QED
  BY <1>4, <1>5

LEMMA ChatsRun ==
  ASSUME Shaped, AttentionRuns
  PROVE  ChatsShaped' /\ ChatStep
<1>1. CASE \/ \E t \in Texts \cup {"none"} : Type(t)
           \/ RequestEdit \/ EndEdit \/ Send \/ TurnPage \/ RestoreDraft
           \/ \E k \in DOMAIN list : Select(k)
           \/ \E c \in Chats : ToggleMute(c)
  <2>1. UNCHANGED Same /\ DOMAIN drafts' = Chats /\ DOMAIN left' = Chats /\ UNCHANGED uiq
    BY <1>1, Composing
  <2>2. QED
    BY <2>1, ComposingShaped DEF ChatStep
<1>2. CASE \/ Tick \/ SwitchAccount \/ \E k \in {"refresh", "merge"} : Request(k)
           \/ \E c \in Chats : Arrive(c) \/ Refire(c) \/ Join(c)
  BY <1>2, ComingShaped DEF ChatStep
<1>3. CASE \/ Callback
           \/ \E j \in BagToSet(jobs) : ReadList(j) \/ CountChat(j) \/ HandList(j)
  BY <1>3, WorkingShaped
<1>4. CASE RunChat \/ RunList \/ RunMerge
  BY <1>4, RunningShaped
<1>5. QED
  BY <1>1, <1>2, <1>3, <1>4 DEF AttentionRuns
-----------------------------------------------------------------------------
(* The players' types.                                                     *)

PlayerStep ==
  \/ UNCHANGED uiq
  \/ \E x \in ForPlayers : uiq' = Append(uiq, x)
  \/ \E x, y \in ForPlayers : uiq' = Append(Append(uiq, x), y)
  \/ uiq # <<>> /\ Head(uiq) \in ForPlayers /\ uiq' = Tail(uiq)

LEMMA OpenListed ==
  ASSUME Shaped
  PROVE  Open # "none" => Open \in Chats
BY DEF Shaped, ChatsShaped, Open

LEMMA PictureListed ==
  ASSUME NEW c \in Chats, NEW p \in ToSet(Pictures[c])
  PROVE  p \in Gallery
BY WindowConstantsOK DEF Gallery

LEMMA AlbumTyped ==
  ASSUME NEW c \in Chats
  PROVE  Pictures[c] \in Seq(Gallery)
BY WindowConstantsOK, PlayersConstantsOK

(* Loading a picture writes the viewer, and asks for one download at most. *)
LEMMA LoadShaped ==
  ASSUME Shaped, NEW p \in Gallery, NEW pos \in Nat, Load(p, pos, Open)
  PROVE  /\ viewer' \in [open : BOOLEAN, busy : BOOLEAN, shown : Gallery \cup {"none"}]
         /\ viewer'.open = viewer.open
         /\ IsBag(fetches', Fetch) /\ BagToSet(fetches) \subseteq BagToSet(fetches')
         /\ \/ p \in missed'
            \/ viewer'.shown = p /\ ~viewer'.busy
            \/ \E f \in BagToSet(fetches') : f.pic = p /\ f.pos = pos
         /\ missed \subseteq missed'
<1>1. /\ viewer \in [open : BOOLEAN, busy : BOOLEAN, shown : Gallery \cup {"none"}]
      /\ IsBag(fetches, Fetch)
  BY DEF Shaped, PlayersShaped, PartsShaped, PictureTypes
<1>2. CASE p \in decoded
  BY <1>1, <1>2 DEF Load
<1>3. CASE p \notin decoded /\ Open = "none"
  BY <1>1, <1>3 DEF Load
<1>4. CASE p \notin decoded /\ Open # "none"
  <2> DEFINE f == [pic |-> p, pos |-> pos, chat |-> Open]
  <2>1. f \in Fetch
    BY <1>4, OpenListed DEF Fetch
  <2>2. /\ viewer' = [viewer EXCEPT !.busy = TRUE] /\ UNCHANGED missed
        /\ fetches' = fetches (+) SetToBag({f})
    BY <1>4 DEF Load
  <2>3. f.pic = p /\ f.pos = pos
    OBVIOUS
  <2> HIDE DEF f
  <2>4. IsBag(fetches', Fetch) /\ BagToSet(fetches') = BagToSet(fetches) \cup {f}
    BY <1>1, <2>1, <2>2, BagAdd
  <2>5. QED
    BY <1>1, <2>2, <2>3, <2>4
<1>5. QED
  BY <1>2, <1>3, <1>4

(* What is queued comes as it was read.                                    *)
LEMMA PicturesQueue ==
  ASSUME Shaped, uiq' \in Seq(Closure),
         \/ UNCHANGED uiq
         \/ \E x \in Closure : /\ uiq' = Append(uiq, x)
                               /\ x.kind = "slides" => x.pic \in ToSet(Pictures[x.chat])
         \/ uiq # <<>> /\ uiq' = Tail(uiq)
  PROVE  PicturesQueued'
<1>1. uiq \in Seq(Closure) /\ PicturesQueued
  BY DEF Shaped, PlayersShaped
<1>2. CASE UNCHANGED uiq
  BY <1>1, <1>2 DEF PicturesQueued, Queue, ToSet
<1>3. ASSUME NEW x \in Closure, uiq' = Append(uiq, x),
             x.kind = "slides" => x.pic \in ToSet(Pictures[x.chat])
      PROVE  PicturesQueued'
  <2>1. ToSet(uiq') = Queue \cup {x}
    BY <1>1, <1>3, QueueAdds DEF Queue
  <2>2. QED
    BY <1>1, <1>3, <2>1 DEF PicturesQueued, Queue
<1>4. CASE uiq # <<>> /\ uiq' = Tail(uiq)
  <2>1. ToSet(uiq') \subseteq Queue
    BY <1>1, <1>4, QueueDrops DEF Queue
  <2>2. QED
    BY <1>1, <2>1 DEF PicturesQueued, Queue
<1>5. QED
  BY <1>2, <1>3, <1>4

LEMMA StepTyped ==
  ASSUME Shaped, ChatStep \/ PlayerStep
  PROVE  uiq' \in Seq(Closure)
<1>1. uiq \in Seq(Closure)
  BY DEF Shaped
<1>2. ASSUME NEW x \in Closure PROVE Append(uiq, x) \in Seq(Closure)
  BY <1>1, QueueAdds
<1>3. ASSUME NEW x \in Closure, NEW y \in Closure
      PROVE  Append(Append(uiq, x), y) \in Seq(Closure)
  <2>1. Append(uiq, x) \in Seq(Closure)
    BY <1>2
  <2>2. QED
    BY <2>1, QueueAdds
<1>4. uiq # <<>> => Tail(uiq) \in Seq(Closure)
  BY <1>1, QueueDrops
<1>5. ForChats \subseteq Closure /\ ForPlayers \subseteq Closure
  BY DEF Closure
<1>6. QED
  BY <1>1, <1>2, <1>3, <1>4, <1>5 DEF ChatStep, PlayerStep

LEMMA TakenPlayer ==
  ASSUME Shaped, uiq # <<>>, Head(uiq).kind \notin {"chat", "list", "merge"}, Take(<<>>)
  PROVE  /\ PlayerStep /\ Head(uiq) \in ForPlayers /\ Head(uiq) \in Closure
         /\ Head(uiq) \in Queue /\ PicturesQueued' /\ uiq' = Tail(uiq)
<1>1. uiq \in Seq(Closure)
  BY DEF Shaped
<1>2. /\ Head(uiq) \in Closure /\ Tail(uiq) \o <<>> = Tail(uiq) /\ Head(uiq) \in Queue
      /\ Tail(uiq) \in Seq(Closure)
  BY <1>1, QueueDrops DEF Queue
<1>3. Head(uiq) \in ForPlayers
  BY <1>2, ClosureFields DEF Closure
<1>4. uiq' = Tail(uiq)
  BY <1>2 DEF Take
<1>5. PicturesQueued'
  BY <1>2, <1>4, PicturesQueue
<1>6. QED
  BY <1>2, <1>3, <1>4, <1>5 DEF PlayerStep

LEMMA PicturesShaped ==
  ASSUME Shaped,
         \/ \E p \in Gallery : LookAt(p, Open)
         \/ \E r \in BagToSet(reads) : SlidesRead(r)
         \/ RunSlides(Open)
         \/ \E by \in {-1, 1} : Leaf(by, Open)
         \/ \E f \in BagToSet(fetches), ok \in BOOLEAN : Fetched(f, ok)
         \/ RunPicture \/ DismissPicture
  PROVE  PictureTypes' /\ PlayerStep /\ PicturesQueued'
<1>0. PictureTypes /\ PicturesQueued /\ uiq \in Seq(Closure)
  BY DEF Shaped, PlayersShaped, PartsShaped
<1>1. ASSUME NEW p \in Gallery, LookAt(p, Open)
      PROVE  PictureTypes' /\ PlayerStep /\ PicturesQueued'
  <2> DEFINE r == [pic |-> p, chat |-> Open]
  <2>1. /\ UNCHANGED <<uiq, slides, fetches>> /\ crossed' = FALSE
        /\ \/ viewer' = [open |-> TRUE, busy |-> FALSE, shown |-> p]
           \/ viewer' = [viewer EXCEPT !.open = TRUE, !.busy = TRUE]
        /\ reads' = reads (+) SetToBag({r}) /\ Open # "none" /\ p \in ToSet(Pictures[Open])
    BY <1>1 DEF LookAt
  <2>2. r \in Read /\ r.pic \in ToSet(Pictures[r.chat])
    BY <2>1, OpenListed DEF Read
  <2> HIDE DEF r
  <2>3. IsBag(reads', Read) /\ BagToSet(reads') = BagToSet(reads) \cup {r}
    BY <1>0, <2>1, <2>2, BagAdd DEF PictureTypes
  <2>4. viewer' \in [open : BOOLEAN, busy : BOOLEAN, shown : Gallery \cup {"none"}]
    <3>1. viewer \in [open : BOOLEAN, busy : BOOLEAN, shown : Gallery \cup {"none"}]
      BY <1>0 DEF PictureTypes
    <3>2. CASE viewer' = [open |-> TRUE, busy |-> FALSE, shown |-> p]
      BY <3>2
    <3>3. CASE viewer' = [viewer EXCEPT !.open = TRUE, !.busy = TRUE]
      BY <3>1, <3>3
    <3>4. QED
      BY <2>1, <3>2, <3>3
  <2>5. PictureTypes'
    BY <1>0, <2>1, <2>2, <2>3, <2>4 DEF PictureTypes
  <2>6. QED
    BY <1>0, <2>1, <2>5, PicturesQueue DEF PlayerStep
<1>2. ASSUME NEW r \in BagToSet(reads), SlidesRead(r)
      PROVE  PictureTypes' /\ PlayerStep /\ PicturesQueued'
  <2> DEFINE x == [kind |-> "slides", pic |-> r.pic, chat |-> r.chat]
  <2>1. /\ UNCHANGED <<viewer, slides, fetches, crossed>>
        /\ reads' = reads (-) SetToBag({r}) /\ uiq' = Append(uiq, x)
    BY <1>2 DEF SlidesRead, Post
  <2>2. r \in Read /\ r.pic \in ToSet(Pictures[r.chat])
    BY <1>0 DEF PictureTypes, IsBag, BagToSet
  <2>3. /\ x \in ForPlayers /\ x \in Closure
        /\ x.kind = "slides" => x.pic \in ToSet(Pictures[x.chat])
    BY <2>2 DEF Read, ForPlayers, Closure
  <2> HIDE DEF x
  <2>4. IsBag(reads', Read) /\ BagToSet(reads') \subseteq BagToSet(reads)
    BY <1>0, <2>1, BagTake DEF PictureTypes
  <2>5. \A q \in BagToSet(reads') : q.pic \in ToSet(Pictures[q.chat])
    BY <1>0, <2>4 DEF PictureTypes
  <2>6. PictureTypes'
    BY <1>0, <2>1, <2>4, <2>5 DEF PictureTypes
  <2>7. PlayerStep
    BY <2>1, <2>3 DEF PlayerStep
  <2>8. uiq' \in Seq(Closure)
    BY <2>7, StepTyped
  <2>9. QED
    BY <2>1, <2>3, <2>6, <2>7, <2>8, PicturesQueue
<1>3. CASE RunSlides(Open)
  <2> DEFINE h == Head(uiq)  items == Pictures[h.chat]
             pos == CHOOSE i \in DOMAIN items : items[i] = h.pic
  <2>1. /\ uiq # <<>> /\ h.kind = "slides" /\ Take(<<>>)
        /\ slides' = [items |-> items, pos |-> pos] /\ Load(items[pos], pos, Open)
        /\ crossed' = (crossed \/ h.pic # wanted)
        /\ UNCHANGED reads
    BY <1>3 DEF RunSlides, Turn
  <2>2. /\ PlayerStep /\ h \in Closure /\ h \in Queue /\ PicturesQueued'
    BY <2>1, TakenPlayer
  <2>3. h.chat \in Chats /\ h.pic \in ToSet(items)
    BY <1>0, <2>1, <2>2, ClosureFields DEF PicturesQueued
  <2>4. items \in Seq(Gallery)
    BY <2>3, AlbumTyped
  <2> HIDE DEF items, h
  <2>5. pos \in DOMAIN items
    BY <2>3 DEF ToSet
  <2> HIDE DEF pos
  <2>6. pos \in Nat /\ items[pos] \in Gallery
    BY <2>4, <2>5
  <2>7. /\ viewer' \in [open : BOOLEAN, busy : BOOLEAN, shown : Gallery \cup {"none"}]
        /\ IsBag(fetches', Fetch)
    BY <2>1, <2>6, LoadShaped
  <2>8. PictureTypes'
    BY <1>0, <2>1, <2>4, <2>5, <2>6, <2>7 DEF PictureTypes
  <2>9. QED
    BY <2>2, <2>8
<1>4. ASSUME NEW by \in {-1, 1}, Leaf(by, Open)
      PROVE  PictureTypes' /\ PlayerStep /\ PicturesQueued'
  <2> DEFINE pos == IF slides.pos + by \in DOMAIN slides.items THEN slides.pos + by
                    ELSE slides.pos
  <2>1. /\ slides.items # <<>> /\ slides' = [slides EXCEPT !.pos = pos]
        /\ Load(slides.items[pos], pos, Open)
        /\ UNCHANGED <<uiq, reads, crossed>>
    BY <1>4 DEF Leaf
  <2>2. pos \in DOMAIN slides.items /\ slides.items \in Seq(Gallery)
    BY <1>0, <2>1 DEF PictureTypes
  <2> HIDE DEF pos
  <2>3. pos \in Nat /\ slides.items[pos] \in Gallery
    BY <2>2
  <2>4. /\ viewer' \in [open : BOOLEAN, busy : BOOLEAN, shown : Gallery \cup {"none"}]
        /\ IsBag(fetches', Fetch)
    BY <2>1, <2>3, LoadShaped
  <2>5. slides' \in [items : Seq(Gallery), pos : Nat] /\ slides'.pos \in DOMAIN slides'.items
    BY <1>0, <2>1, <2>2, <2>3 DEF PictureTypes
  <2>6. PictureTypes'
    BY <1>0, <2>1, <2>4, <2>5 DEF PictureTypes
  <2>7. QED
    BY <1>0, <2>1, <2>6, PicturesQueue DEF PlayerStep
<1>5. ASSUME NEW f \in BagToSet(fetches), NEW ok \in BOOLEAN, Fetched(f, ok)
      PROVE  PictureTypes' /\ PlayerStep /\ PicturesQueued'
  <2> DEFINE x == [kind |-> "picture", pic |-> f.pic, pos |-> f.pos, ok |-> ok]
  <2>1. /\ UNCHANGED <<viewer, slides, reads, crossed>>
        /\ fetches' = fetches (-) SetToBag({f}) /\ uiq' = Append(uiq, x)
    BY <1>5 DEF Fetched, Post
  <2>2. f \in Fetch
    BY <1>0 DEF PictureTypes, IsBag, BagToSet
  <2>3. x \in ForPlayers /\ x \in Closure /\ x.kind # "slides"
    BY <2>2 DEF Fetch, ForPlayers, Closure
  <2> HIDE DEF x
  <2>4. IsBag(fetches', Fetch)
    BY <1>0, <2>1, BagTake DEF PictureTypes
  <2>5. PictureTypes'
    BY <1>0, <2>1, <2>4 DEF PictureTypes
  <2>6. PlayerStep
    BY <2>1, <2>3 DEF PlayerStep
  <2>7. uiq' \in Seq(Closure)
    BY <2>6, StepTyped
  <2>8. QED
    BY <2>1, <2>3, <2>5, <2>6, <2>7, PicturesQueue
<1>6. CASE RunPicture
  <2> DEFINE h == Head(uiq)
  <2>1. /\ uiq # <<>> /\ h.kind = "picture" /\ Take(<<>>)
        /\ UNCHANGED <<slides, reads, fetches, crossed>>
        /\ viewer' = IF ~StillCurrent(h.pic, h.pos) THEN viewer
                     ELSE [viewer EXCEPT !.busy = FALSE, !.shown = IF h.ok THEN h.pic ELSE @]
    BY <1>6 DEF RunPicture, Turn
  <2>2. PlayerStep /\ h \in Closure /\ PicturesQueued'
    BY <2>1, TakenPlayer
  <2>3. h.pic \in Gallery
    BY <2>1, <2>2, ClosureFields
  <2> HIDE DEF h
  <2>4. viewer' \in [open : BOOLEAN, busy : BOOLEAN, shown : Gallery \cup {"none"}]
    BY <1>0, <2>1, <2>3 DEF PictureTypes
  <2>5. QED
    BY <1>0, <2>1, <2>2, <2>4 DEF PictureTypes
<1>7. CASE DismissPicture
  <2>1. /\ UNCHANGED <<uiq, reads, fetches, crossed>>
        /\ viewer' = [viewer EXCEPT !.open = FALSE, !.busy = FALSE] /\ slides' = NoSlides
    BY <1>7 DEF DismissPicture, loop
  <2>2. PictureTypes'
    <3>1. slides' \in [items : Seq(Gallery), pos : Nat] /\ slides'.items = <<>>
      BY <2>1 DEF NoSlides
    <3>2. viewer' \in [open : BOOLEAN, busy : BOOLEAN, shown : Gallery \cup {"none"}]
      BY <1>0, <2>1 DEF PictureTypes
    <3>3. QED
      BY <1>0, <2>1, <3>1, <3>2 DEF PictureTypes
  <2>3. QED
    BY <1>0, <2>1, <2>2, PicturesQueue DEF PlayerStep
<1>8. QED
  BY <1>1, <1>2, <1>3, <1>4, <1>5, <1>6, <1>7

(* The video and the recorder: their types, and the queue.                 *)
LEMMA FilmShaped ==
  ASSUME Shaped,
         \/ \E v \in Videos : Watch(v, Open)
         \/ \E v \in BagToSet(films), ok \in BOOLEAN : FilmLoaded(v, ok)
         \/ RunFilm \/ DismissFilm
  PROVE  FilmTypes' /\ PlayerStep /\ PicturesQueued'
<1>0. FilmTypes /\ PicturesQueued /\ uiq \in Seq(Closure)
  BY DEF Shaped, PlayersShaped, PartsShaped
<1>1. ASSUME NEW v \in Videos, Watch(v, Open)
      PROVE  FilmTypes' /\ PlayerStep /\ PicturesQueued'
  <2>1. /\ film' = [open |-> TRUE, busy |-> TRUE, target |-> v, player |-> "none"]
        /\ films' = films (+) SetToBag({v}) /\ UNCHANGED <<uiq, late>>
    BY <1>1 DEF Watch
  <2>2. IsBag(films', Videos)
    BY <1>0, <2>1, BagAdd DEF FilmTypes
  <2>3. FilmTypes'
    BY <1>0, <2>1, <2>2 DEF FilmTypes
  <2>4. QED
    BY <1>0, <2>1, <2>3, PicturesQueue DEF PlayerStep
<1>2. ASSUME NEW v \in BagToSet(films), NEW ok \in BOOLEAN, FilmLoaded(v, ok)
      PROVE  FilmTypes' /\ PlayerStep /\ PicturesQueued'
  <2>1. v \in Videos
    BY <1>0 DEF FilmTypes, IsBag, BagToSet
  <2>2. films' = films (-) SetToBag({v})
    BY <1>2 DEF FilmLoaded
  <2>3. IsBag(films', Videos)
    BY <1>0, <2>2, BagTake DEF FilmTypes
  <2>4. \E x \in ForPlayers : uiq' = Append(uiq, x) /\ x.kind # "slides"
    BY <1>2 DEF FilmLoaded, Post, ForPlayers
  <2>5. /\ film' = (IF ok THEN [film EXCEPT !.player = v] ELSE film)
        /\ late' = (IF ok THEN (late \/ ~film.open \/ film.target # v) ELSE late)
    BY <1>2 DEF FilmLoaded
  <2>6. FilmTypes'
    BY <1>0, <2>1, <2>3, <2>5 DEF FilmTypes
  <2>7. PlayerStep
    BY <2>4 DEF PlayerStep
  <2>8. uiq' \in Seq(Closure)
    BY <2>7, StepTyped
  <2>9. QED
    BY <2>4, <2>6, <2>7, <2>8, PicturesQueue DEF Closure
<1>3. CASE RunFilm
  <2>1. /\ uiq # <<>> /\ Head(uiq).kind \in {"frame", "nofilm"} /\ Take(<<>>)
        /\ film' = [film EXCEPT !.busy = FALSE] /\ UNCHANGED <<films, late>>
    BY <1>3 DEF RunFilm, Turn
  <2>2. PlayerStep /\ PicturesQueued'
    BY <2>1, TakenPlayer
  <2>3. QED
    BY <1>0, <2>1, <2>2 DEF FilmTypes
<1>4. CASE DismissFilm
  <2>1. /\ film' = NoFilm /\ UNCHANGED <<uiq, films>>
        /\ late' = (late /\ film.player = "none")
    BY <1>4 DEF DismissFilm, loop
  <2>2. FilmTypes'
    BY <1>0, <2>1 DEF FilmTypes, NoFilm
  <2>3. QED
    BY <1>0, <2>1, <2>2, PicturesQueue DEF PlayerStep
<1>5. QED
  BY <1>1, <1>2, <1>3, <1>4

LEMMA MicShaped ==
  ASSUME Shaped,
         \/ Record \/ StopRecording \/ CancelRecording
         \/ \E n \in BagToSet(tickers) : TickerWakes(n)
         \/ RunSecs \/ RunStop \/ RunRecording
  PROVE  MicTypes' /\ PlayerStep /\ PicturesQueued'
<1>0. MicTypes /\ PicturesQueued /\ uiq \in Seq(Closure)
  BY DEF Shaped, PlayersShaped, PartsShaped
<1>1. CASE Record
  <2> DEFINE x == [kind |-> "recording", shown |-> TRUE]
  <2>1. /\ hasty' = (hasty \/ mic.on) /\ mic' = [mic EXCEPT !.on = TRUE]
        /\ tickers' = tickers (+) SetToBag({0}) /\ uiq' = Append(uiq, x)
    BY <1>1 DEF Record, Post
  <2>2. IsBag(tickers', Nat)
    BY <1>0, <2>1, BagAdd DEF MicTypes
  <2>3. x \in ForPlayers /\ x \in Closure /\ x.kind # "slides"
    BY DEF ForPlayers, Closure
  <2> HIDE DEF x
  <2>4. PlayerStep
    BY <2>1, <2>3 DEF PlayerStep
  <2>5. uiq' \in Seq(Closure)
    BY <2>4, StepTyped
  <2>6. QED
    BY <1>0, <2>1, <2>2, <2>3, <2>4, <2>5, PicturesQueue DEF MicTypes
<1>2. CASE StopRecording
  <2>1. mic' = Stopped /\ UNCHANGED <<uiq, tickers, hasty>>
    BY <1>2 DEF StopRecording, loop
  <2>2. MicTypes'
    BY <1>0, <2>1 DEF MicTypes, Stopped
  <2>3. QED
    BY <1>0, <2>1, <2>2, PicturesQueue DEF PlayerStep
<1>3. CASE CancelRecording
  <2> DEFINE x == [kind |-> "recording", shown |-> FALSE]
  <2>1. /\ mic' = [mic EXCEPT !.on = FALSE] /\ uiq' = Append(uiq, x)
        /\ UNCHANGED <<tickers, hasty>>
    BY <1>3 DEF CancelRecording, Post
  <2>2. x \in ForPlayers /\ x \in Closure /\ x.kind # "slides"
    BY DEF ForPlayers, Closure
  <2> HIDE DEF x
  <2>3. PlayerStep
    BY <2>1, <2>2 DEF PlayerStep
  <2>4. uiq' \in Seq(Closure)
    BY <2>3, StepTyped
  <2>5. QED
    BY <1>0, <2>1, <2>2, <2>3, <2>4, PicturesQueue DEF MicTypes
<1>4. ASSUME NEW n \in BagToSet(tickers), TickerWakes(n)
      PROVE  MicTypes' /\ PlayerStep /\ PicturesQueued'
  <2>1. n \in Nat
    BY <1>0 DEF MicTypes, IsBag, BagToSet
  <2> DEFINE less == tickers (-) SetToBag({n})
             x == [kind |-> "secs", secs |-> n + 1]
             y == [kind |-> "stop"]
  <2>2. IsBag(less, Nat)
    BY <1>0, BagTake DEF MicTypes
  <2>3. UNCHANGED <<mic, hasty>>
    BY <1>4 DEF TickerWakes
  <2>4. CASE ~mic.on
    <3>1. tickers' = less /\ UNCHANGED uiq
      BY <1>4, <2>4 DEF TickerWakes
    <3>2. QED
      BY <1>0, <2>2, <2>3, <3>1, PicturesQueue DEF MicTypes, PlayerStep
  <2>5. CASE mic.on
    <3>1. /\ tickers' = less (+) (IF n + 1 < MaxSecs THEN SetToBag({n + 1}) ELSE EmptyBag)
          /\ uiq' = uiq \o <<x>> \o (IF n + 1 >= MaxSecs THEN <<y>> ELSE <<>>)
      BY <1>4, <2>5 DEF TickerWakes
    <3>2. x \in ForPlayers /\ x \in Closure /\ x.kind # "slides"
      BY <2>1 DEF ForPlayers, Closure
    <3>3. y \in ForPlayers /\ y \in Closure /\ y.kind # "slides"
      BY DEF ForPlayers, Closure
    <3>4. IsBag(tickers', Nat)
      <4> HIDE DEF less
      <4>1. IsBag(less (+) SetToBag({n + 1}), Nat)
        BY <2>1, <2>2, BagAdd
      <4>2. EmptyBag = SetToBag({})
        BY DEF EmptyBag
      <4>3. IsBag(less (+) EmptyBag, Nat)
        <5>1. IsBag(less (+) SetToBag({}), Nat)
          BY <2>2, BagAdd
        <5>2. QED
          BY <4>2, <5>1
      <4>4. QED
        BY <3>1, <4>1, <4>3
    <3> HIDE DEF x, y
    <3>5. uiq' = Append(uiq, x) \/ uiq' = Append(Append(uiq, x), y)
      <4>1. uiq \o <<x>> = Append(uiq, x) /\ Append(uiq, x) \in Seq(Closure)
        BY <1>0, <3>2
      <4>2. /\ Append(uiq, x) \o <<y>> = Append(Append(uiq, x), y)
            /\ Append(uiq, x) \o <<>> = Append(uiq, x)
        BY <3>3, <4>1
      <4>3. QED
        BY <3>1, <4>1, <4>2
    <3>6. PlayerStep
      BY <3>2, <3>3, <3>5 DEF PlayerStep
    <3>7. ToSet(uiq') \subseteq Queue \cup {x, y}
      <4>1. Append(uiq, x) \in Seq(Closure) /\ ToSet(Append(uiq, x)) = Queue \cup {x}
        BY <1>0, <3>2, QueueAdds DEF Queue
      <4> DEFINE q == Append(uiq, x)
      <4> HIDE DEF q
      <4>2. q \in Seq(Closure) /\ ToSet(q) = Queue \cup {x}
        BY <4>1 DEF q
      <4>3. ToSet(Append(q, y)) = ToSet(q) \cup {y}
        BY <3>3, <4>2, QueueAdds
      <4>4. QED
        BY <3>5, <4>2, <4>3 DEF q
    <3>8. PicturesQueued'
      BY <1>0, <3>2, <3>3, <3>7 DEF PicturesQueued, Queue
    <3>9. QED
      BY <1>0, <2>3, <3>4, <3>6, <3>8 DEF MicTypes
  <2>6. QED
    BY <2>4, <2>5
<1>5. CASE RunSecs \/ RunStop \/ RunRecording
  <2> DEFINE h == Head(uiq)
  <2>1. /\ uiq # <<>> /\ h.kind \in {"secs", "stop", "recording"} /\ Take(<<>>)
        /\ UNCHANGED tickers
    BY <1>5 DEF RunSecs, RunStop, RunRecording, Turn
  <2>2. PlayerStep /\ PicturesQueued' /\ h \in Closure
    BY <2>1, TakenPlayer
  <2>3. /\ h.kind = "secs" => h.secs \in Nat
        /\ h.kind = "recording" => h.shown \in BOOLEAN
    BY <2>2, ClosureFields
  <2> HIDE DEF h
  <2>4. CASE RunSecs
    <3>1. h.kind = "secs" /\ mic' = [mic EXCEPT !.secs = h.secs] /\ UNCHANGED hasty
      BY <2>4 DEF RunSecs, Turn, h
    <3>2. QED
      BY <1>0, <2>1, <2>2, <2>3, <3>1 DEF MicTypes
  <2>5. CASE RunStop
    <3>1. mic' = Stopped /\ hasty' = (hasty \/ (mic.on /\ ~mic.shown))
      BY <2>5 DEF RunStop
    <3>2. mic' \in [on : BOOLEAN, shown : BOOLEAN, secs : Nat]
      BY <1>0, <3>1 DEF MicTypes, Stopped
    <3>3. QED
      BY <1>0, <2>1, <2>2, <3>1, <3>2 DEF MicTypes
  <2>6. CASE RunRecording
    <3>1. /\ h.kind = "recording" /\ UNCHANGED hasty
          /\ mic' = [mic EXCEPT !.shown = h.shown, !.secs = IF h.shown THEN 0 ELSE @]
      BY <2>6 DEF RunRecording, Turn, h
    <3>2. mic' \in [on : BOOLEAN, shown : BOOLEAN, secs : Nat]
      BY <1>0, <2>3, <3>1 DEF MicTypes
    <3>3. QED
      BY <1>0, <2>1, <2>2, <3>1, <3>2 DEF MicTypes
  <2>7. QED
    BY <1>5, <2>4, <2>5, <2>6
<1>6. QED
  BY <1>1, <1>2, <1>3, <1>4, <1>5

(* The three players: what each leaves of the other two.                   *)
Looks ==
  \/ \E p \in Gallery : LookAt(p, Open)
  \/ \E r \in BagToSet(reads) : SlidesRead(r)
  \/ RunSlides(Open)
  \/ \E by \in {-1, 1} : Leaf(by, Open)
  \/ \E f \in BagToSet(fetches), ok \in BOOLEAN : Fetched(f, ok)
  \/ RunPicture \/ DismissPicture
Films ==
  \/ \E v \in Videos : Watch(v, Open)
  \/ \E v \in BagToSet(films), ok \in BOOLEAN : FilmLoaded(v, ok)
  \/ RunFilm \/ DismissFilm
Talks ==
  \/ Record \/ StopRecording \/ CancelRecording
  \/ \E n \in BagToSet(tickers) : TickerWakes(n)
  \/ RunSecs \/ RunStop \/ RunRecording

LEMMA LooksAlone == ASSUME Looks PROVE UNCHANGED <<filming, talking>>
BY DEF Looks, LookAt, SlidesRead, RunSlides, Leaf, Fetched, RunPicture, DismissPicture
LEMMA FilmsAlone == ASSUME Films PROVE UNCHANGED <<looking, talking>>
BY DEF Films, Watch, FilmLoaded, RunFilm, DismissFilm
LEMMA TalksAlone == ASSUME Talks PROVE UNCHANGED <<looking, filming>>
BY DEF Talks, Record, StopRecording, CancelRecording, TickerWakes, RunSecs, RunStop, RunRecording

LEMMA PlayersRun ==
  ASSUME Shaped, PlayersNext(Open)
  PROVE  PlayersShaped' /\ PlayerStep
<1>1. PictureTypes /\ FilmTypes /\ MicTypes
  BY DEF Shaped, PlayersShaped, PartsShaped
<1>2. ASSUME UNCHANGED looking PROVE PictureTypes'
  BY <1>1, <1>2 DEF PictureTypes, looking, BagToSet, IsBag
<1>3. ASSUME UNCHANGED filming PROVE FilmTypes'
  BY <1>1, <1>3 DEF FilmTypes, filming, IsBag
<1>4. ASSUME UNCHANGED talking PROVE MicTypes'
  BY <1>1, <1>4 DEF MicTypes, talking, IsBag
<1>5. CASE Looks
  <2>1. PictureTypes' /\ PlayerStep /\ PicturesQueued'
    BY <1>5, PicturesShaped DEF Looks
  <2>2. QED
    BY <1>3, <1>4, <1>5, <2>1, LooksAlone DEF PlayersShaped, PartsShaped
<1>6. CASE Films
  <2>1. FilmTypes' /\ PlayerStep /\ PicturesQueued'
    BY <1>6, FilmShaped DEF Films
  <2>2. QED
    BY <1>2, <1>4, <1>6, <2>1, FilmsAlone DEF PlayersShaped, PartsShaped
<1>7. CASE Talks
  <2>1. MicTypes' /\ PlayerStep /\ PicturesQueued'
    BY <1>7, MicShaped DEF Talks
  <2>2. QED
    BY <1>2, <1>3, <1>7, <2>1, TalksAlone DEF PlayersShaped, PartsShaped
<1>8. QED
  BY <1>5, <1>6, <1>7 DEF PlayersNext, Looks, Films, Talks

-----------------------------------------------------------------------------
(* Type correctness of the whole window.                                   *)

PlayersOff ==
  /\ viewer = [open |-> FALSE, busy |-> FALSE, shown |-> "none"] /\ slides = NoSlides
  /\ reads = EmptyBag /\ fetches = EmptyBag /\ film = NoFilm /\ films = EmptyBag
  /\ mic = [on |-> FALSE, shown |-> FALSE, secs |-> 0] /\ tickers = EmptyBag
  /\ ~crossed /\ ~late /\ ~hasty /\ missed = {} /\ crossed \in BOOLEAN /\ late \in BOOLEAN
  /\ hasty \in BOOLEAN /\ uiq = <<>>

LEMMA OffShaped == PlayersOff => PlayersShaped /\ uiq \in Seq(Closure)
<1> SUFFICES ASSUME PlayersOff PROVE PlayersShaped /\ uiq \in Seq(Closure)
  OBVIOUS
<1>1. \A S : IsBag(EmptyBag, S) /\ BagToSet(EmptyBag) = {}
  BY BagEmpty
<1>2. slides \in [items : Seq(Gallery), pos : Nat] /\ slides.items = <<>>
  BY DEF PlayersOff, NoSlides
<1>3. PictureTypes
  BY <1>1, <1>2 DEF PlayersOff, PictureTypes
<1>4. FilmTypes
  BY <1>1 DEF PlayersOff, FilmTypes, NoFilm
<1>5. MicTypes
  BY <1>1 DEF PlayersOff, MicTypes
<1>6. PicturesQueued
  BY DEF PlayersOff, PicturesQueued, Queue, ToSet
<1>7. QED
  BY <1>3, <1>4, <1>5, <1>6 DEF PlayersShaped, PartsShaped, PlayersOff

LEMMA ShapedInit == WindowInit => Shaped /\ PlayersOff
<1> SUFFICES ASSUME WindowInit PROVE Shaped /\ PlayersOff
  OBVIOUS
<1>1. PlayersOff
  BY DEF WindowInit, PlayersIdle, LoopInit, PlayersOff
<1>2. Job("list") \in JobRecord
  BY DEF Job, JobRecord
<1>3. IsBag(jobs, JobRecord)
  <2>1. jobs = SetToBag({Job("list")})
    BY DEF WindowInit, AttentionInit, Fresh
  <2>2. SetToBag({Job("list")}) \in [{Job("list")} -> Nat \ {0}]
        /\ DOMAIN SetToBag({Job("list")}) = {Job("list")}
    BY DEF SetToBag
  <2>3. QED
    BY <1>2, <2>1, <2>2 DEF IsBag
<1>4. ChatsShaped
  BY <1>3, AttentionConstantsOK DEF WindowInit, AttentionInit, Fresh, ChatsShaped
<1>5. QED
  BY <1>1, <1>4, OffShaped DEF Shaped

Restarted ==
  /\ PlayersOff' /\ list' = <<>> /\ ~editing' /\ composer' = Nothing /\ active' = 1
  /\ announced' = {} /\ onScreen' = {} /\ again' = {}
  /\ noted' = [c \in Chats |-> 0] /\ UNCHANGED <<inbox, left>>
  /\ \/ /\ drafts' = SaveDraft(Open)
        /\ lost' = IF Emptied(Open) THEN lost \cup {Open} ELSE lost
     \/ /\ UNCHANGED drafts
        /\ lost' = IF Open # "none" /\ left[Open] # drafts[Open] THEN lost \cup {Open} ELSE lost
     \/ drafts' = [c \in Chats |-> Nothing] /\ lost' = Chats

LEMMA RestartIs == ASSUME Restart PROVE Restarted
<1>1. PlayersOff' /\ list' = <<>> /\ ~editing' /\ composer' = Nothing /\ active' = 1
  BY DEF Restart, Exit, Crash, Reboot, PlayersOff, NoFilm, NoSlides
<1>2. /\ announced' = {} /\ onScreen' = {} /\ again' = {}
      /\ noted' = [c \in Chats |-> 0] /\ UNCHANGED <<inbox, left>>
  BY DEF Restart, Exit, Crash, Reboot
<1>3. \/ /\ drafts' = SaveDraft(Open)
         /\ lost' = IF Emptied(Open) THEN lost \cup {Open} ELSE lost
      \/ /\ UNCHANGED drafts
         /\ lost' = IF Open # "none" /\ left[Open] # drafts[Open] THEN lost \cup {Open} ELSE lost
      \/ drafts' = [c \in Chats |-> Nothing] /\ lost' = Chats
  BY DEF Restart, Exit, Crash, Reboot
<1>4. QED
  BY <1>1, <1>2, <1>3 DEF Restarted

LEMMA RestartShaped ==
  ASSUME Shaped, Restart
  PROVE  Shaped'
<1>1. PlayersShaped' /\ uiq' \in Seq(Closure)
  <2>1. PlayersOff'
    BY RestartIs DEF Restarted
  <2>2. (PlayersShaped /\ uiq \in Seq(Closure))'
    BY <2>1, OffShaped, PTL
  <2>3. QED
    BY <2>2
<1>2. Restarted
  BY RestartIs
<1>3. DOMAIN drafts' = Chats
  BY <1>2 DEF Restarted, SaveDraft, Shaped, ChatsShaped
<1>4. /\ UNCHANGED <<clock, visible>> /\ feed' = <<>> /\ jobs' = SetToBag({Job("list")})
  BY DEF Restart, Exit, Crash, Reboot
<1>5. IsBag(jobs', JobRecord)
  BY <1>4, JobAsked DEF Shaped
<1>6. ChatsShaped'
  BY <1>2, <1>3, <1>4, <1>5 DEF Restarted, Shaped, ChatsShaped
<1>7. QED
  BY <1>1, <1>6 DEF Shaped

LEMMA ShapedStep ==
  ASSUME Shaped, [WindowNext]_<<loop, awareness, players>>
  PROVE  Shaped'
<1>1. CASE AttentionRuns /\ UNCHANGED players
  <2>1. ChatsShaped' /\ ChatStep
    BY <1>1, ChatsRun
  <2>2. uiq' \in Seq(Closure)
    BY <2>1, StepTyped
  <2>3. \A x \in ForChats : x \in Closure /\ x.kind # "slides"
    BY DEF ForChats, Closure
  <2>4. PicturesQueued'
    BY <2>1, <2>2, <2>3, PicturesQueue DEF ChatStep
  <2>5. PartsShaped'
    BY <1>1 DEF Shaped, PlayersShaped, PartsShaped, PictureTypes, FilmTypes, MicTypes,
                players, looking, filming, talking, BagToSet, IsBag
  <2>6. QED
    BY <2>1, <2>2, <2>4, <2>5 DEF Shaped, PlayersShaped
<1>2. CASE PlayersNext(Open) /\ UNCHANGED awareness
  <2>1. PlayersShaped' /\ PlayerStep
    BY <1>2, PlayersRun
  <2>2. uiq' \in Seq(Closure)
    BY <2>1, StepTyped
  <2>3. ChatsShaped'
    BY <1>2 DEF Shaped, ChatsShaped, awareness, rows, writing, notices, IsBag
  <2>4. QED
    BY <2>1, <2>2, <2>3 DEF Shaped
<1>3. CASE Restart
  BY <1>3, RestartShaped
<1>4. CASE UNCHANGED <<loop, awareness, players>>
  <2>1. UNCHANGED <<uiq, awareness, looking, filming, talking>>
    BY <1>4 DEF loop, players
  <2>2. ChatsShaped'
    BY <2>1 DEF Shaped, ChatsShaped, awareness, rows, writing, notices, IsBag
  <2>3. PictureTypes'
    BY <2>1 DEF Shaped, PlayersShaped, PartsShaped, PictureTypes, looking, BagToSet, IsBag
  <2>4. FilmTypes' /\ MicTypes'
    BY <2>1 DEF Shaped, PlayersShaped, PartsShaped, FilmTypes, MicTypes, filming, talking, IsBag
  <2>5. PicturesQueued' /\ uiq' \in Seq(Closure)
    BY <2>1 DEF Shaped, PlayersShaped, PicturesQueued, Queue, ToSet
  <2>6. QED
    BY <2>2, <2>3, <2>4, <2>5 DEF Shaped, PlayersShaped, PartsShaped
<1>5. QED
  BY <1>1, <1>2, <1>3, <1>4 DEF WindowNext
-----------------------------------------------------------------------------
(* Notifications.                                                          *)

LEMMA NoticesFrame ==
  ASSUME AttentionRuns
  PROVE  \/ RunChat
         \/ \E c \in Chats : Arrive(c)
         \/ UNCHANGED <<inbox, noted, announced, again, onScreen>>
<1>1. CASE \/ \E t \in Texts \cup {"none"} : Type(t)
           \/ RequestEdit \/ EndEdit \/ Send \/ TurnPage \/ RestoreDraft
           \/ \E k \in DOMAIN list : Select(k)
           \/ \E c \in Chats : ToggleMute(c)
  BY <1>1 DEF Type, RequestEdit, EndEdit, Send, TurnPage, RestoreDraft, Select, ToggleMute,
              notices
<1>2. CASE \/ Tick \/ SwitchAccount \/ \E k \in {"refresh", "merge"} : Request(k)
           \/ \E c \in Chats : Refire(c) \/ Join(c)
  BY <1>2 DEF Tick, SwitchAccount, Request, Refire, Join, notices
<1>3. CASE \/ Callback \/ RunList \/ RunMerge
           \/ \E j \in BagToSet(jobs) : ReadList(j) \/ CountChat(j) \/ HandList(j)
  BY <1>3 DEF Callback, RunList, RunMerge, ReadList, CountChat, HandList, notices
<1>4. QED
  BY <1>1, <1>2, <1>3 DEF AttentionRuns

LEMMA NotedStep ==
  ASSUME Shaped, NotedSoFar, NotifiedOnce, [WindowNext]_<<loop, awareness, players>>
  PROVE  NotedSoFar' /\ NotifiedOnce'
<1>1. /\ inbox \in [Chats -> Seq(Nat)] /\ noted \in [Chats -> Nat]
      /\ announced \subseteq Chats \X Nat /\ onScreen \subseteq Chats \X Nat
  BY DEF Shaped, ChatsShaped
<1>2. CASE UNCHANGED <<inbox, noted, announced, again, onScreen>>
  BY <1>2 DEF NotedSoFar, NotifiedOnce
<1>3. ASSUME NEW c \in Chats, Arrive(c) PROVE NotedSoFar' /\ NotifiedOnce'
  <2>1. inbox' = [inbox EXCEPT ![c] = Append(@, clock)] /\ UNCHANGED notices /\ clock \in Nat
    BY <1>3 DEF Arrive, Shaped, ChatsShaped
  <2>2. \A d \in Chats : Len(inbox'[d]) \in Nat /\ Len(inbox[d]) <= Len(inbox'[d])
    <3> TAKE d \in Chats
    <3>1. Len(Append(inbox[c], clock)) = Len(inbox[c]) + 1 /\ Len(inbox[c]) \in Nat
          /\ Len(inbox[d]) \in Nat
      BY <1>1, <2>1
    <3>2. inbox'[d] = IF d = c THEN Append(inbox[c], clock) ELSE inbox[d]
      BY <1>1, <2>1
    <3>3. CASE d = c
      BY <3>1, <3>2, <3>3
    <3>4. CASE d # c
      BY <3>1, <3>2, <3>4
    <3>5. QED
      BY <3>3, <3>4
  <2>3. \A d \in Chats : Len(inbox[d]) \in Nat /\ noted[d] \in Nat
    BY <1>1
  <2>4. QED
    BY <2>1, <2>2, <2>3 DEF NotedSoFar, NotifiedOnce, notices
<1>4. CASE RunChat
  <2> DEFINE c == Head(uiq).chat  m == <<c, Len(inbox[c])>>
             new == Notable(c) /\ noted[c] # Len(inbox[c])
  <2>1. c \in Chats
    <3>1. uiq # <<>> /\ Head(uiq).kind = "chat" /\ Take(<<>>)
      BY <1>4 DEF RunChat, Turn
    <3>2. Head(uiq) \in Closure
      BY <3>1, TakenChat
    <3>3. QED
      BY <3>1, <3>2, ClosureFields
  <2>2. Notify(c) /\ UNCHANGED inbox
    BY <1>4 DEF RunChat
  <2> HIDE DEF c
  <2>3. /\ noted' = IF new THEN [noted EXCEPT ![c] = Len(inbox[c])] ELSE noted
        /\ announced' = IF new /\ ~Viewing(c) THEN announced \cup {m} ELSE announced
        /\ again' = IF new /\ ~Viewing(c) /\ m \in announced THEN again \cup {m} ELSE again
        /\ onScreen' = IF Notable(c) /\ Viewing(c) /\ m \notin announced
                       THEN onScreen \cup {m} ELSE onScreen
    BY <2>2 DEF Notify, NoteLatest
  <2>4. Len(inbox[c]) \in Nat /\ m[1] = c /\ m[2] = Len(inbox[c])
    BY <1>1, <2>1
  <2>5. m \in announced \cup onScreen => noted[c] = Len(inbox[c])
    BY <1>1, <2>1, <2>4 DEF NotedSoFar
  <2>6. \A d \in Chats : noted'[d] <= Len(inbox[d]) /\ noted[d] <= noted'[d]
    <3> TAKE d \in Chats
    <3>1. noted[c] <= Len(inbox[c]) /\ noted[d] <= Len(inbox[d])
      BY <2>1 DEF NotedSoFar
    <3>2. noted[c] \in Nat /\ noted[d] \in Nat
      BY <1>1, <2>1
    <3>3. noted'[d] = IF new /\ d = c THEN Len(inbox[c]) ELSE noted[d]
      BY <1>1, <2>1, <2>3
    <3>4. QED
      BY <2>4, <3>1, <3>2, <3>3
  <2>7. Notable(c) => noted'[c] = Len(inbox[c])
    BY <1>1, <2>1, <2>3
  <2>8. \A n \in announced' \cup onScreen' : n[2] <= noted'[n[1]]
    <3> TAKE n \in announced' \cup onScreen'
    <3>1. CASE n \in announced \cup onScreen
      <4>1. n[1] \in Chats /\ n[2] \in Nat /\ n[2] <= noted[n[1]]
        BY <1>1, <3>1 DEF NotedSoFar
      <4>2. noted[n[1]] <= noted'[n[1]] /\ noted[n[1]] \in Nat /\ noted'[n[1]] \in Nat
        <5>1. noted' \in [Chats -> Nat]
          BY <1>1, <2>3, <2>4
        <5>2. QED
          BY <1>1, <2>6, <4>1, <5>1
      <4>3. QED
        BY <4>1, <4>2
    <3>2. CASE n = m /\ Notable(c)
      BY <2>4, <2>7, <3>2
    <3>3. QED
      BY <2>3, <3>1, <3>2
  <2>9. NotedSoFar'
    BY <2>2, <2>6, <2>8 DEF NotedSoFar
  <2>10. NotifiedOnce'
    <3>1. new => m \notin announced \cup onScreen
      BY <2>5
    <3>2. again' = {}
      BY <2>3, <3>1 DEF NotifiedOnce
    <3>3. announced' \cap onScreen' = {}
      <4>1. CASE new /\ ~Viewing(c)
        BY <2>3, <3>1, <4>1 DEF NotifiedOnce
      <4>2. CASE Notable(c) /\ Viewing(c) /\ m \notin announced
        BY <2>3, <4>2 DEF NotifiedOnce
      <4>3. QED
        BY <2>3, <4>1, <4>2 DEF NotifiedOnce
    <3>4. QED
      BY <3>2, <3>3 DEF NotifiedOnce
  <2>11. QED
    BY <2>9, <2>10
<1>5. CASE Restart
  <2>1. /\ announced' = {} /\ onScreen' = {} /\ again' = {}
        /\ noted' = [c \in Chats |-> 0] /\ UNCHANGED inbox
    BY <1>5, RestartIs DEF Restarted
  <2>2. \A c \in Chats : Len(inbox[c]) \in Nat
    BY <1>1
  <2>3. QED
    BY <2>1, <2>2 DEF NotedSoFar, NotifiedOnce
<1>6. CASE PlayersNext(Open) /\ UNCHANGED awareness
  BY <1>2, <1>6 DEF awareness, notices
<1>7. CASE UNCHANGED <<loop, awareness, players>>
  BY <1>2, <1>7 DEF awareness, notices
<1>8. QED
  BY <1>2, <1>3, <1>4, <1>5, <1>6, <1>7, NoticesFrame DEF WindowNext

LEMMA NotedInit == WindowInit => NotedSoFar /\ NotifiedOnce
<1> SUFFICES ASSUME WindowInit PROVE NotedSoFar /\ NotifiedOnce
  OBVIOUS
<1>1. inbox = [c \in Chats |-> <<>>] /\ noted = [c \in Chats |-> 0]
  BY DEF WindowInit, AttentionInit, Fresh
<1>2. again = {} /\ announced = {} /\ onScreen = {}
  BY DEF WindowInit, AttentionInit, Fresh
<1>3. QED
  BY <1>1, <1>2 DEF NotedSoFar, NotifiedOnce
-----------------------------------------------------------------------------
(* Half-written messages.                                                  *)

Writes ==
  \/ \E t \in Texts \cup {"none"} : Type(t)
  \/ RequestEdit \/ EndEdit \/ Send \/ RestoreDraft
  \/ \E k \in DOMAIN list : Select(k)
  \/ SwitchAccount \/ RunChat \/ RunList \/ RunMerge

LEMMA WritingFrame ==
  ASSUME AttentionRuns
  PROVE  Writes \/ UNCHANGED <<list, active, writing>>
<1>1. CASE \/ TurnPage \/ Tick \/ Callback
           \/ \E c \in Chats : ToggleMute(c) \/ Arrive(c) \/ Refire(c) \/ Join(c)
  BY <1>1 DEF TurnPage, ToggleMute, Tick, Arrive, Refire, Join, Callback, rows
<1>2. CASE \/ \E k \in {"refresh", "merge"} : Request(k)
           \/ \E j \in BagToSet(jobs) : ReadList(j) \/ CountChat(j) \/ HandList(j)
  BY <1>2 DEF Request, ReadList, CountChat, HandList, rows
<1>3. QED
  BY <1>1, <1>2 DEF AttentionRuns, Writes

DraftsInv == LeftBelongs /\ ComposerTrue /\ DraftKept

(* Leaving a chat with the composer saved, or with nothing open after.     *)
LEMMA SavedKept ==
  ASSUME Shaped, DraftsInv, drafts' = SaveDraft(Open), UNCHANGED left,
         lost' = IF Emptied(Open) THEN lost \cup {Open} ELSE lost
  PROVE  \A c \in Chats \ lost' :
           /\ left'[c] # Nothing => drafts'[c] = left'[c]
           /\ drafts'[c] # Nothing => drafts'[c].chat = c
<1> TAKE c \in Chats \ lost'
<1>1. c \in Chats \ lost /\ (Emptied(Open) => c # Open)
  BY DEF Emptied
<1>2. DOMAIN drafts = Chats
  BY DEF Shaped, ChatsShaped
<1>3. CASE Open = c /\ ~editing
  <2>1. c # "none"
    BY AttentionConstantsOK
  <2>2. drafts'[c] = composer
    BY <1>1, <1>2, <1>3, <2>1 DEF SaveDraft
  <2>3. left[c] # Nothing => ~blank
    BY <1>1, <1>3, <2>1 DEF Emptied
  <2>4. QED
    BY <1>1, <1>3, <2>2, <2>3 DEF DraftsInv, ComposerTrue, DraftKept
<1>4. CASE ~(Open = c /\ ~editing)
  <2>1. drafts'[c] = drafts[c]
    BY <1>2, <1>4 DEF SaveDraft
  <2>2. QED
    BY <1>1, <1>4, <2>1 DEF DraftsInv, DraftKept
<1>5. QED
  BY <1>3, <1>4

(* The chats have moved under the composer.                                *)
LEMMA MovedKept ==
  ASSUME Shaped, DraftsInv, lost' = lost \cup Shifted(list'),
         UNCHANGED <<active, drafts, composer, editing, left, blank>>
  PROVE  DraftsInv'
<1>1. LeftBelongs'
  BY DEF DraftsInv, LeftBelongs
<1>2. Open' = IF active \in DOMAIN list' THEN list'[active] ELSE "none"
  BY DEF Open
<1>3. "none" \notin Chats
  BY AttentionConstantsOK
<1>4. ASSUME NEW c \in Chats \ lost'
      PROVE  /\ c \notin lost
             /\ Open' = Open \/ (Open' # c /\ Open # c)
                \/ (composer = Nothing /\ blank /\ Open # c)
  BY <1>2, <1>3, <1>4 DEF Shifted
<1>5. ASSUME NEW c \in Chats \ lost'
      PROVE  /\ left[c] # Nothing => \/ drafts[c] = left[c]
                                     \/ Open' = c /\ ~editing /\ composer = left[c]
             /\ drafts[c] # Nothing => drafts[c].chat = c
             /\ Open' = c /\ ~editing /\ composer # Nothing => composer.chat = c
             /\ Open' = c /\ ~editing /\ left[c] # Nothing =>
                  IF blank THEN drafts[c] = left[c] ELSE composer = left[c]
  BY <1>4, <1>5 DEF DraftsInv, DraftKept, ComposerTrue
<1>6. QED
  BY <1>1, <1>5 DEF DraftsInv, DraftKept, ComposerTrue

LEMMA DraftsStep ==
  ASSUME Shaped, DraftsInv, [WindowNext]_<<loop, awareness, players>>
  PROVE  DraftsInv'
<1>0. DOMAIN drafts = Chats /\ DOMAIN left = Chats
  BY DEF Shaped, ChatsShaped
<1>1. CASE UNCHANGED <<list, active, writing>>
  BY <1>1 DEF DraftsInv, LeftBelongs, ComposerTrue, DraftKept, writing, Open
<1>2. ASSUME NEW t \in Texts \cup {"none"}, Type(t) PROVE DraftsInv'
  <2> DEFINE o == Open
  <2>1. /\ o # "none" /\ ~editing /\ left' = [left EXCEPT ![o] = composer']
        /\ composer' = (IF t = "none" THEN Nothing ELSE [chat |-> o, text |-> t])
        /\ ~blank' /\ UNCHANGED <<list, active, drafts, editing, lost>>
    BY <1>2 DEF Type, rows
  <2>2. Open' = o
    BY <2>1 DEF Open
  <2>3. o \in Chats
    BY <2>1, OpenListed
  <2> HIDE DEF o
  <2>4. composer' # Nothing => composer'.chat = o
    BY <2>1
  <2>5. \A c \in Chats : left'[c] = IF c = o THEN composer' ELSE left[c]
    BY <1>0, <2>1
  <2>6. LeftBelongs'
    BY <2>4, <2>5 DEF DraftsInv, LeftBelongs
  <2>7. \A c \in Chats \ lost : c # o /\ left[c] # Nothing => drafts[c] = left[c]
    BY DEF DraftsInv, DraftKept, o
  <2>8. ComposerTrue' /\ DraftKept'
    BY <2>1, <2>2, <2>4, <2>5, <2>7 DEF DraftsInv, ComposerTrue, DraftKept
  <2>9. QED
    BY <2>6, <2>8 DEF DraftsInv
<1>3. CASE RequestEdit
  <2>1. /\ editing' /\ UNCHANGED <<list, active, drafts, left>>
        /\ lost' = (IF left[Open] # drafts[Open] THEN lost \cup {Open} ELSE lost)
    BY <1>3 DEF RequestEdit, rows
  <2>2. \A c \in Chats \ lost' : c \notin lost /\ (c = Open => left[c] = drafts[c])
    BY <2>1
  <2>3. QED
    BY <2>1, <2>2 DEF DraftsInv, LeftBelongs, ComposerTrue, DraftKept
<1>4. CASE EndEdit
  <2>1. /\ editing /\ ~editing' /\ composer' = Nothing /\ blank'
        /\ UNCHANGED <<list, active, drafts, left, lost>>
    BY <1>4 DEF EndEdit, rows
  <2>2. QED
    BY <2>1 DEF DraftsInv, LeftBelongs, ComposerTrue, DraftKept
<1>5. CASE Send
  <2>1. /\ Open # "none" /\ composer' = Nothing /\ drafts' = [drafts EXCEPT ![Open] = Nothing]
        /\ left' = [left EXCEPT ![Open] = Nothing] /\ UNCHANGED <<list, active, editing, blank, lost>>
    BY <1>5 DEF Send, rows
  <2>2. Open' = Open
    BY <2>1 DEF Open
  <2>3. \A c \in Chats : /\ drafts'[c] = IF c = Open THEN Nothing ELSE drafts[c]
                         /\ left'[c] = IF c = Open THEN Nothing ELSE left[c]
    BY <1>0, <2>1
  <2>4. QED
    BY <2>1, <2>2, <2>3 DEF DraftsInv, LeftBelongs, ComposerTrue, DraftKept
<1>6. CASE RestoreDraft
  <2>1. /\ UNCHANGED <<list, active, drafts, editing, left, lost>>
        /\ \/ /\ Open # "none" /\ composer = Nothing /\ ~editing
              /\ composer' = drafts[Open] /\ blank' = (blank /\ drafts[Open] # left[Open])
           \/ UNCHANGED <<composer, blank>>
    BY <1>6 DEF RestoreDraft, rows
  <2>2. Open' = Open
    BY <2>1 DEF Open
  <2>3. CASE UNCHANGED <<composer, blank>>
    BY <2>1, <2>2, <2>3 DEF DraftsInv, LeftBelongs, ComposerTrue, DraftKept
  <2>4. CASE /\ Open # "none" /\ composer = Nothing /\ ~editing
             /\ composer' = drafts[Open] /\ blank' = (blank /\ drafts[Open] # left[Open])
    <3>1. LeftBelongs'
      BY <2>1 DEF DraftsInv, LeftBelongs
    <3>2. ASSUME NEW c \in Chats \ lost
          PROVE  /\ left[c] # Nothing => drafts[c] = left[c]
                 /\ drafts[c] # Nothing => drafts[c].chat = c
      BY <2>4 DEF DraftsInv, DraftKept
    <3>3. ASSUME NEW c \in Chats \ lost, Open = c, left[c] # Nothing
          PROVE  IF blank' THEN drafts[c] = left[c] ELSE composer' = left[c]
      BY <2>4, <3>2, <3>3
    <3>4. QED
      BY <2>1, <2>2, <2>4, <3>1, <3>2, <3>3 DEF DraftsInv, ComposerTrue, DraftKept
  <2>5. QED
    BY <2>1, <2>3, <2>4
<1>7. ASSUME NEW k \in DOMAIN list, Select(k) PROVE DraftsInv'
  <2>1. /\ drafts' = SaveDraft(Open) /\ active' = k /\ ~editing' /\ ~blank'
        /\ composer' = drafts'[list[k]] /\ UNCHANGED <<list, left>>
        /\ lost' = IF Emptied(Open) THEN lost \cup {Open} ELSE lost
    BY <1>7 DEF Select, SavedOn
  <2>2. Open' = list[k]
    BY <2>1 DEF Open
  <2>3. \A c \in Chats \ lost' : /\ left'[c] # Nothing => drafts'[c] = left'[c]
                                 /\ drafts'[c] # Nothing => drafts'[c].chat = c
    BY <2>1, SavedKept
  <2>4. LeftBelongs'
    BY <2>1 DEF DraftsInv, LeftBelongs
  <2>5. QED
    BY <2>1, <2>2, <2>3, <2>4 DEF DraftsInv, ComposerTrue, DraftKept
<1>8. CASE SwitchAccount
  <2>1. /\ list' = <<>> /\ composer' = Nothing /\ UNCHANGED <<drafts, left>>
        /\ lost' = IF Open # "none" /\ left[Open] # drafts[Open] THEN lost \cup {Open} ELSE lost
    BY <1>8 DEF SwitchAccount
  <2>2. Open' = "none"
    BY <2>1 DEF Open
  <2>3. "none" \notin Chats
    BY AttentionConstantsOK
  <2>4. \A c \in Chats \ lost' : c \notin lost /\ (c = Open => left[c] = drafts[c])
    BY <2>1, <2>3
  <2>5. QED
    BY <2>1, <2>2, <2>3, <2>4 DEF DraftsInv, LeftBelongs, ComposerTrue, DraftKept
<1>9. CASE RunChat \/ RunList \/ RunMerge
  <2>1. /\ lost' = lost \cup Shifted(list')
        /\ UNCHANGED <<active, drafts, composer, editing, left, blank>>
    BY <1>9 DEF RunChat, RunList, RunMerge
  <2>2. QED
    BY <2>1, MovedKept
<1>10. CASE Restart
  <2>1. Restarted
    BY <1>10, RestartIs
  <2>2. Open' = "none"
    BY <2>1 DEF Restarted, Open
  <2>3. "none" \notin Chats
    BY AttentionConstantsOK
  <2>4. LeftBelongs'
    BY <2>1 DEF Restarted, DraftsInv, LeftBelongs
  <2>5. \A c \in Chats \ lost' : /\ left'[c] # Nothing => drafts'[c] = left'[c]
                                 /\ drafts'[c] # Nothing => drafts'[c].chat = c
    <3>1. CASE /\ drafts' = SaveDraft(Open)
               /\ lost' = IF Emptied(Open) THEN lost \cup {Open} ELSE lost
      BY <2>1, <3>1, SavedKept DEF Restarted
    <3>2. CASE /\ UNCHANGED drafts
               /\ lost' = IF Open # "none" /\ left[Open] # drafts[Open] THEN lost \cup {Open}
                          ELSE lost
      <4>1. \A c \in Chats \ lost' : c \notin lost /\ (c = Open => left[c] = drafts[c])
        BY <3>2, <2>3
      <4>2. UNCHANGED left
        BY <2>1 DEF Restarted
      <4>3. QED
        BY <3>2, <4>1, <4>2 DEF DraftsInv, DraftKept
    <3>3. CASE lost' = Chats
      BY <3>3
    <3>4. QED
      BY <2>1, <3>1, <3>2, <3>3 DEF Restarted
  <2>6. QED
    BY <2>2, <2>3, <2>4, <2>5 DEF DraftsInv, ComposerTrue, DraftKept
<1>11. CASE PlayersNext(Open) /\ UNCHANGED awareness
  BY <1>1, <1>11 DEF awareness, rows
<1>12. CASE UNCHANGED <<loop, awareness, players>>
  BY <1>1, <1>12 DEF awareness, rows
<1>13. QED
  BY <1>1, <1>2, <1>3, <1>4, <1>5, <1>6, <1>7, <1>8, <1>9, <1>10, <1>11, <1>12, WritingFrame
     DEF WindowNext, Writes

LEMMA DraftsInit == WindowInit => DraftsInv
<1> SUFFICES ASSUME WindowInit PROVE DraftsInv
  OBVIOUS
<1>1. /\ drafts = [c \in Chats |-> Nothing] /\ left = [c \in Chats |-> Nothing]
      /\ composer = Nothing
  BY DEF WindowInit, AttentionInit, Fresh
<1>2. QED
  BY <1>1 DEF DraftsInv, LeftBelongs, ComposerTrue, DraftKept
-----------------------------------------------------------------------------
(* Which kinds of closures a step may post or run.                         *)

Handles(K) ==
  \/ UNCHANGED uiq
  \/ \E x \in Closure : x.kind \in K /\ uiq' = Append(uiq, x)
  \/ \E x, y \in Closure : /\ x.kind \in K /\ y.kind \in K
                           /\ uiq' = Append(Append(uiq, x), y)
  \/ uiq # <<>> /\ Head(uiq).kind \in K /\ uiq' = Tail(uiq)

LEMMA ChatsHandle ==
  ASSUME Shaped, AttentionRuns
  PROVE  Handles({"chat", "list", "merge"})
<1>1. ChatStep
  BY ChatsRun
<1>2. \A x \in ForChats : x \in Closure /\ x.kind \in {"chat", "list", "merge"}
  BY DEF ForChats, Closure
<1>3. QED
  BY <1>1, <1>2 DEF ChatStep, Handles

LEMMA PostedKind ==
  ASSUME Shaped, ChatStep \/ PlayerStep, NEW K, NEW x, x.kind \in K, uiq' = Append(uiq, x)
  PROVE  Handles(K)
<1>1. uiq \in Seq(Closure) /\ uiq' \in Seq(Closure)
  BY StepTyped DEF Shaped
<1>2. x \in Closure
  BY <1>1
<1>3. QED
  BY <1>2 DEF Handles

LEMMA RunKind ==
  ASSUME Shaped, NEW K, uiq # <<>>, Head(uiq).kind \in K,
         Head(uiq).kind \notin {"chat", "list", "merge"}, Take(<<>>)
  PROVE  Handles(K)
BY TakenPlayer DEF Handles

LEMMA LooksHandle ==
  ASSUME Shaped, Looks
  PROVE  Handles({"slides", "picture"})
<1>1. PlayerStep
  BY PicturesShaped DEF Looks
<1>2. ASSUME NEW p, LookAt(p, Open) PROVE Handles({"slides", "picture"})
  BY <1>2 DEF LookAt, Handles
<1>3. ASSUME NEW r, SlidesRead(r) PROVE Handles({"slides", "picture"})
  BY <1>1, <1>3, PostedKind DEF SlidesRead, Post
<1>4. CASE RunSlides(Open)
  BY <1>4, RunKind DEF RunSlides, Turn
<1>5. ASSUME NEW by, Leaf(by, Open) PROVE Handles({"slides", "picture"})
  BY <1>5 DEF Leaf, Handles
<1>6. ASSUME NEW f, NEW ok, Fetched(f, ok) PROVE Handles({"slides", "picture"})
  BY <1>1, <1>6, PostedKind DEF Fetched, Post
<1>7. CASE RunPicture
  BY <1>7, RunKind DEF RunPicture, Turn
<1>8. CASE DismissPicture
  BY <1>8 DEF DismissPicture, Handles, loop
<1>9. QED
  BY <1>2, <1>3, <1>4, <1>5, <1>6, <1>7, <1>8 DEF Looks

LEMMA FilmsHandle ==
  ASSUME Shaped, Films
  PROVE  Handles({"frame", "nofilm"})
<1>1. PlayerStep
  BY FilmShaped DEF Films
<1>2. ASSUME NEW v, Watch(v, Open) PROVE Handles({"frame", "nofilm"})
  BY <1>2 DEF Watch, Handles
<1>3. ASSUME NEW v, NEW ok, FilmLoaded(v, ok) PROVE Handles({"frame", "nofilm"})
  <2>1. \E x : x.kind \in {"frame", "nofilm"} /\ uiq' = Append(uiq, x)
    BY <1>3 DEF FilmLoaded, Post
  <2>2. QED
    BY <1>1, <2>1, PostedKind
<1>4. CASE RunFilm
  BY <1>4, RunKind DEF RunFilm, Turn
<1>5. CASE DismissFilm
  BY <1>5 DEF DismissFilm, Handles, loop
<1>6. QED
  BY <1>2, <1>3, <1>4, <1>5 DEF Films

LEMMA TickerHandles ==
  ASSUME Shaped, NEW n \in BagToSet(tickers), TickerWakes(n)
  PROVE  Handles({"secs", "stop"})
<1> DEFINE x == [kind |-> "secs", secs |-> n + 1]
           y == [kind |-> "stop"]
<1>1. n \in Nat /\ uiq \in Seq(Closure)
  BY DEF Shaped, PlayersShaped, PartsShaped, MicTypes, IsBag, BagToSet
<1>2. x \in Closure /\ y \in Closure /\ x.kind = "secs" /\ y.kind = "stop"
  BY <1>1 DEF ForPlayers, Closure
<1>3. UNCHANGED uiq \/ uiq' = uiq \o <<x>> \o (IF n + 1 >= MaxSecs THEN <<y>> ELSE <<>>)
  BY DEF TickerWakes
<1> HIDE DEF x, y
<1>4. /\ uiq \o <<x>> = Append(uiq, x) /\ Append(uiq, x) \in Seq(Closure)
  BY <1>1, <1>2
<1>5. /\ Append(uiq, x) \o <<y>> = Append(Append(uiq, x), y)
      /\ Append(uiq, x) \o <<>> = Append(uiq, x)
  BY <1>2, <1>4
<1>6. QED
  BY <1>2, <1>3, <1>4, <1>5 DEF Handles

LEMMA KindsKept ==
  ASSUME Shaped, NEW K, Handles(K), NEW x, x.kind \notin K
  PROVE  x \in Queue <=> x \in Queue'
<1>1. uiq \in Seq(Closure)
  BY DEF Shaped
<1>2. CASE UNCHANGED uiq
  BY <1>2 DEF Queue, ToSet
<1>3. ASSUME NEW y \in Closure, y.kind \in K, uiq' = Append(uiq, y)
      PROVE  x \in Queue <=> x \in Queue'
  <2>1. ToSet(uiq') = ToSet(uiq) \cup {y}
    BY <1>1, <1>3, QueueAdds
  <2>2. QED
    BY <1>3, <2>1 DEF Queue
<1>4. ASSUME NEW y \in Closure, NEW z \in Closure, y.kind \in K, z.kind \in K,
             uiq' = Append(Append(uiq, y), z)
      PROVE  x \in Queue <=> x \in Queue'
  <2>1. Append(uiq, y) \in Seq(Closure) /\ ToSet(Append(uiq, y)) = ToSet(uiq) \cup {y}
    BY <1>1, QueueAdds
  <2> DEFINE q == Append(uiq, y)
  <2> HIDE DEF q
  <2>2. q \in Seq(Closure)
    BY <2>1 DEF q
  <2>3. ToSet(Append(q, z)) = ToSet(q) \cup {z}
    BY <2>2, QueueAdds
  <2>4. QED
    BY <1>4, <2>1, <2>3 DEF Queue, q
<1>5. CASE uiq # <<>> /\ Head(uiq).kind \in K /\ uiq' = Tail(uiq)
  <2>1. ToSet(uiq) = ToSet(uiq') \cup {Head(uiq)}
    BY <1>1, <1>5, QueueDrops
  <2>2. QED
    BY <1>5, <2>1 DEF Queue
<1>6. QED
  BY <1>2, <1>3, <1>4, <1>5 DEF Handles

-----------------------------------------------------------------------------
(* The video.                                                              *)

LEMMA FilmKept ==
  ASSUME Shaped, FilmComes, UNCHANGED filming, NEW K, Handles(K),
         "frame" \notin K, "nofilm" \notin K
  PROVE  FilmComes'
<1>1. \A x : x.kind \in {"frame", "nofilm"} /\ x \in Queue => x \in Queue'
  BY KindsKept
<1>2. BagToSet(films') = BagToSet(films) /\ UNCHANGED <<film, late>>
  BY DEF filming, BagToSet
<1>3. QED
  BY <1>1, <1>2 DEF FilmComes

LEMMA FilmStep ==
  ASSUME Shaped, FilmComes, Films
  PROVE  FilmComes'
<1>0. FilmTypes /\ uiq \in Seq(Closure)
  BY DEF Shaped, PlayersShaped, PartsShaped
<1>1. ASSUME NEW v \in Videos, Watch(v, Open) PROVE FilmComes'
  <2>1. /\ film' = [open |-> TRUE, busy |-> TRUE, target |-> v, player |-> "none"]
        /\ films' = films (+) SetToBag({v}) /\ UNCHANGED <<uiq, late>>
    BY <1>1 DEF Watch
  <2>2. BagToSet(films') = BagToSet(films) \cup {v}
    BY <1>0, <2>1, BagAdd DEF FilmTypes
  <2>3. BagToSet(films') # {}
    BY <2>2
  <2>4. QED
    BY <2>1, <2>3 DEF FilmComes
<1>2. ASSUME NEW v \in BagToSet(films), NEW ok \in BOOLEAN, FilmLoaded(v, ok)
      PROVE  FilmComes'
  <2>1. \E x : x.kind \in {"frame", "nofilm"} /\ uiq' = Append(uiq, x)
    BY <1>2 DEF FilmLoaded, Post
  <2>2. uiq' \in Seq(Closure)
    BY <1>2, FilmShaped, StepTyped DEF Films
  <2>3. \E x \in Queue' : x.kind \in {"frame", "nofilm"}
    <3>1. PICK x : x.kind \in {"frame", "nofilm"} /\ uiq' = Append(uiq, x)
      BY <2>1
    <3>2. x \in Closure
      BY <1>0, <2>2, <3>1
    <3>3. ToSet(uiq') = ToSet(uiq) \cup {x}
      BY <1>0, <3>1, <3>2, QueueAdds
    <3>4. QED
      BY <3>1, <3>3 DEF Queue
  <2>4. /\ film' = (IF ok THEN [film EXCEPT !.player = v] ELSE film)
        /\ late' = (IF ok THEN (late \/ ~film.open \/ film.target # v) ELSE late)
    BY <1>2 DEF FilmLoaded
  <2>5. film'.player # "none" /\ ~late' => film'.open /\ film'.target = film'.player
    BY <1>0, <2>4 DEF FilmComes, FilmTypes
  <2>6. QED
    BY <2>3, <2>5 DEF FilmComes
<1>3. CASE RunFilm
  <2>1. film' = [film EXCEPT !.busy = FALSE] /\ UNCHANGED late
    BY <1>3 DEF RunFilm
  <2>2. ~film'.busy /\ film'.player = film.player /\ film'.open = film.open
        /\ film'.target = film.target
    BY <1>0, <2>1 DEF FilmTypes
  <2>3. QED
    BY <2>1, <2>2 DEF FilmComes
<1>4. CASE DismissFilm
  BY <1>4 DEF DismissFilm, NoFilm, FilmComes
<1>5. QED
  BY <1>1, <1>2, <1>3, <1>4 DEF Films
-----------------------------------------------------------------------------
(* The recorder.                                                           *)

LEMMA TalkAdded ==
  ASSUME NEW q \in Seq(Closure), NEW x \in Closure, NEW r, r = Append(q, x)
  PROVE  /\ ~Shows(x) => /\ Silent(q) <=> Silent(r)
                         /\ Hides(q) => Hides(r)
                         /\ ShownLast(q) => ShownLast(r)
         /\ Shows(x) => ~Silent(r)
         /\ Shows(x) /\ ~x.shown /\ Hides(q) => Hides(r)
         /\ Shows(x) /\ x.shown /\ Hides(q)  => ShownLast(r)
<1>1. /\ Len(q) \in Nat /\ DOMAIN q = 1 .. Len(q) /\ DOMAIN r = 1 .. Len(q) + 1
      /\ r[Len(q) + 1] = x /\ \A i \in 1 .. Len(q) : r[i] = q[i]
  OBVIOUS
<1>2. \A i \in DOMAIN r : i \in DOMAIN q \/ i = Len(q) + 1
  BY <1>1
<1>3. Len(q) + 1 \in DOMAIN r /\ \A i \in DOMAIN q : i \in DOMAIN r /\ i < Len(q) + 1 /\ r[i] = q[i]
  BY <1>1
<1>4. ASSUME ~Shows(x)
      PROVE  /\ Silent(q) <=> Silent(r)
             /\ Hides(q) => Hides(r)
             /\ ShownLast(q) => ShownLast(r)
  <2>1. \A i \in DOMAIN r : Shows(r[i]) => i \in DOMAIN q
    BY <1>1, <1>2, <1>4
  <2>2. Silent(q) <=> Silent(r)
    BY <1>3, <2>1 DEF Silent
  <2>3. Hides(q) => Hides(r)
    BY <1>3, <2>1 DEF Hides
  <2>4. ShownLast(q) => ShownLast(r)
    BY <1>3, <2>1 DEF ShownLast
  <2>5. QED
    BY <2>2, <2>3, <2>4
<1>5. Shows(x) => ~Silent(r)
  BY <1>1, <1>3 DEF Silent
<1>6. Shows(x) /\ ~x.shown /\ Hides(q) => Hides(r)
  BY <1>1, <1>2, <1>3 DEF Hides
<1>7. ASSUME Shows(x), x.shown, Hides(q) PROVE ShownLast(r)
  <2>1. Shows(r[Len(q) + 1]) /\ r[Len(q) + 1].shown
    BY <1>1, <1>7
  <2>2. \A j \in DOMAIN r : Shows(r[j]) /\ j # Len(q) + 1 => j < Len(q) + 1 /\ ~r[j].shown
    BY <1>2, <1>3, <1>7 DEF Hides
  <2>3. QED
    BY <1>3, <2>1, <2>2 DEF ShownLast
<1>8. QED
  BY <1>4, <1>5, <1>6, <1>7

LEMMA TalkTaken ==
  ASSUME NEW q \in Seq(Closure), q # <<>>, NEW x, x = Head(q), NEW r, r = Tail(q)
  PROVE  /\ ~Shows(x) => /\ Silent(q) <=> Silent(r)
                         /\ Hides(q) => Hides(r)
                         /\ ShownLast(q) => ShownLast(r)
         /\ Shows(x) => ~Silent(q)
         /\ Shows(x) /\ Hides(q) => ~x.shown /\ Hides(r)
         /\ Shows(x) /\ x.shown /\ ShownLast(q)  => Silent(r)
         /\ Shows(x) /\ ~x.shown /\ ShownLast(q) => ShownLast(r)
<1>1. /\ Len(q) \in Nat \ {0} /\ DOMAIN q = 1 .. Len(q) /\ DOMAIN r = 1 .. Len(q) - 1
      /\ q[1] = x /\ \A i \in 1 .. Len(q) - 1 : r[i] = q[i + 1]
  OBVIOUS
<1>2. 1 \in DOMAIN q /\ \A i \in DOMAIN q : i = 1 \/ (i - 1 \in DOMAIN r /\ r[i - 1] = q[i])
  BY <1>1
<1>3. \A i \in DOMAIN r : i \in Int /\ i + 1 \in DOMAIN q /\ r[i] = q[i + 1] /\ i + 1 # 1
  BY <1>1
<1>4. ASSUME NEW i \in DOMAIN q, i # 1, Shows(q[i]), q[i].shown,
             \A j \in DOMAIN q : Shows(q[j]) /\ j # i => j < i /\ ~q[j].shown
      PROVE  ShownLast(r)
  <2>1. i - 1 \in DOMAIN r /\ r[i - 1] = q[i] /\ i \in Int
    BY <1>1, <1>2, <1>4
  <2>2. ASSUME NEW j \in DOMAIN r, Shows(r[j]), j # i - 1 PROVE j < i - 1 /\ ~r[j].shown
    <3>1. j + 1 \in DOMAIN q /\ r[j] = q[j + 1] /\ j + 1 # i /\ j \in Int
      BY <1>3, <2>1, <2>2
    <3>2. j + 1 < i /\ ~q[j + 1].shown
      BY <1>4, <2>2, <3>1
    <3>3. QED
      BY <2>1, <3>1, <3>2
  <2>3. QED
    BY <1>4, <2>1, <2>2 DEF ShownLast
<1>5. ASSUME ~Shows(x)
      PROVE  /\ Silent(q) <=> Silent(r)
             /\ Hides(q) => Hides(r)
             /\ ShownLast(q) => ShownLast(r)
  <2>1. Silent(q) => Silent(r)
    BY <1>3 DEF Silent
  <2>2. Silent(r) => Silent(q)
    BY <1>1, <1>2, <1>5 DEF Silent
  <2>3. Hides(q) => Hides(r)
    BY <1>3 DEF Hides
  <2>4. ShownLast(q) => ShownLast(r)
    BY <1>1, <1>4, <1>5 DEF ShownLast
  <2>5. QED
    BY <2>1, <2>2, <2>3, <2>4
<1>6. Shows(x) => ~Silent(q)
  BY <1>1, <1>2 DEF Silent
<1>7. Shows(x) /\ Hides(q) => ~x.shown /\ Hides(r)
  BY <1>1, <1>2, <1>3 DEF Hides
<1>8. ASSUME Shows(x), x.shown, ShownLast(q) PROVE Silent(r)
  <2>1. PICK i \in DOMAIN q : /\ Shows(q[i]) /\ q[i].shown
                              /\ \A j \in DOMAIN q : Shows(q[j]) /\ j # i => j < i /\ ~q[j].shown
    BY <1>8 DEF ShownLast
  <2>2. i = 1
    BY <1>1, <1>2, <1>8, <2>1
  <2>3. ASSUME NEW j \in DOMAIN r, Shows(r[j]) PROVE FALSE
    <3>1. j + 1 \in DOMAIN q /\ Shows(q[j + 1]) /\ j + 1 # 1 /\ j \in DOMAIN r
      BY <1>3, <2>3
    <3>2. j + 1 < 1
      BY <2>1, <2>2, <3>1
    <3>3. QED
      BY <1>1, <3>1, <3>2
  <2>4. QED
    BY <2>3 DEF Silent
<1>9. ASSUME Shows(x), ~x.shown, ShownLast(q) PROVE ShownLast(r)
  <2>1. PICK i \in DOMAIN q : /\ Shows(q[i]) /\ q[i].shown
                              /\ \A j \in DOMAIN q : Shows(q[j]) /\ j # i => j < i /\ ~q[j].shown
    BY <1>9 DEF ShownLast
  <2>2. i # 1
    BY <1>1, <1>9, <2>1
  <2>3. QED
    BY <1>4, <2>1, <2>2
<1>10. QED
  BY <1>5, <1>6, <1>7, <1>8, <1>9

LEMMA TalksHandle ==
  ASSUME Shaped, Talks
  PROVE  Handles({"recording", "secs", "stop"})
<1> DEFINE K == {"recording", "secs", "stop"}
<1>1. PlayerStep
  BY MicShaped DEF Talks
<1>2. CASE Record \/ CancelRecording
  <2>1. \E x : x.kind \in K /\ uiq' = Append(uiq, x)
    BY <1>2 DEF Record, CancelRecording, Post
  <2>2. QED
    BY <1>1, <2>1, PostedKind
<1>3. CASE StopRecording
  BY <1>3 DEF StopRecording, Handles, loop
<1>4. ASSUME NEW n \in BagToSet(tickers), TickerWakes(n) PROVE Handles(K)
  <2>1. Handles({"secs", "stop"})
    BY <1>4, TickerHandles
  <2>2. QED
    BY <2>1 DEF Handles
<1>5. CASE RunSecs \/ RunStop \/ RunRecording
  BY <1>5, RunKind DEF RunSecs, RunStop, RunRecording, Turn
<1>6. QED
  BY <1>2, <1>3, <1>4, <1>5 DEF Talks

(* Closures of other kinds leave it as it was.                             *)
LEMMA OthersHandled ==
  ASSUME uiq \in Seq(Closure), NEW K, Handles(K), "recording" \notin K
  PROVE  /\ Silent(uiq) <=> Silent(uiq')
         /\ Hides(uiq) => Hides(uiq')
         /\ ShownLast(uiq) => ShownLast(uiq')
<1> DEFINE Kept(q, r) == /\ Silent(q) <=> Silent(r)
                         /\ Hides(q) => Hides(r)
                         /\ ShownLast(q) => ShownLast(r)
<1>0. \A x : x.kind \in K => ~Shows(x)
  BY DEF Shows
<1>1. ASSUME NEW q \in Seq(Closure), NEW x \in Closure, x.kind \in K
      PROVE  Kept(q, Append(q, x)) /\ Append(q, x) \in Seq(Closure)
  <2>1. ~Shows(x)
    BY <1>0, <1>1
  <2>2. Kept(q, Append(q, x))
    BY <2>1, TalkAdded
  <2>3. QED
    BY <2>2
<1>2. CASE UNCHANGED uiq
  BY <1>2
<1>3. ASSUME NEW x \in Closure, x.kind \in K, uiq' = Append(uiq, x) PROVE Kept(uiq, uiq')
  BY <1>1, <1>3
<1>4. ASSUME NEW x \in Closure, NEW y \in Closure, x.kind \in K, y.kind \in K,
             uiq' = Append(Append(uiq, x), y)
      PROVE  Kept(uiq, uiq')
  <2> DEFINE q == Append(uiq, x)
  <2>1. Kept(uiq, q) /\ q \in Seq(Closure)
    BY <1>1, <1>4
  <2> HIDE DEF q
  <2>2. Kept(q, Append(q, y))
    BY <1>1, <1>4, <2>1
  <2>3. uiq' = Append(q, y)
    BY <1>4 DEF q
  <2>4. QED
    BY <2>1, <2>2, <2>3
<1>5. CASE uiq # <<>> /\ Head(uiq).kind \in K /\ uiq' = Tail(uiq)
  <2>1. ~Shows(Head(uiq))
    BY <1>0, <1>5
  <2>2. QED
    BY <1>5, <2>1, TalkTaken
<1>6. QED
  BY <1>2, <1>3, <1>4, <1>5 DEF Handles

LEMMA MicKept ==
  ASSUME Shaped, MicComes, UNCHANGED <<mic, hasty>>, NEW K, Handles(K), "recording" \notin K
  PROVE  MicComes'
<1>1. /\ Silent(uiq) <=> Silent(uiq')
      /\ Hides(uiq) => Hides(uiq')
      /\ ShownLast(uiq) => ShownLast(uiq')
  BY OthersHandled DEF Shaped
<1>2. QED
  BY <1>1 DEF MicComes

LEMMA MicStep ==
  ASSUME Shaped, MicComes, Talks
  PROVE  MicComes'
<1>0. MicTypes /\ uiq \in Seq(Closure)
  BY DEF Shaped, PlayersShaped, PartsShaped
<1>1. CASE Record
  <2> DEFINE x == [kind |-> "recording", shown |-> TRUE]
  <2>1. /\ hasty' = (hasty \/ mic.on) /\ mic' = [mic EXCEPT !.on = TRUE] /\ ~mic.shown
        /\ uiq' = Append(uiq, x)
    BY <1>1 DEF Record, Post
  <2>2. x \in Closure /\ Shows(x) /\ x.shown
    BY DEF ForPlayers, Closure, Shows
  <2> HIDE DEF x
  <2>3. mic'.on /\ ~mic'.shown
    BY <1>0, <2>1 DEF MicTypes
  <2>4. Hides(uiq) => ShownLast(uiq')
    BY <1>0, <2>1, <2>2, TalkAdded
  <2>5. QED
    BY <2>1, <2>3, <2>4 DEF MicComes
<1>2. CASE StopRecording
  <2>1. mic' = Stopped /\ UNCHANGED <<uiq, hasty>> /\ mic.shown
    BY <1>2 DEF StopRecording, loop
  <2>2. CASE mic.on
    <3>1. ~mic'.on /\ ~mic'.shown
      BY <1>0, <2>1, <2>2 DEF MicTypes, Stopped
    <3>2. Silent(uiq) => Hides(uiq')
      BY <2>1 DEF Silent, Hides
    <3>3. QED
      BY <2>1, <2>2, <3>1, <3>2 DEF MicComes
  <2>3. CASE ~mic.on
    BY <2>1, <2>3 DEF MicComes, Stopped
  <2>4. QED
    BY <2>2, <2>3
<1>3. CASE CancelRecording
  <2> DEFINE x == [kind |-> "recording", shown |-> FALSE]
  <2>1. /\ mic' = [mic EXCEPT !.on = FALSE] /\ uiq' = Append(uiq, x) /\ mic.shown
        /\ UNCHANGED hasty
    BY <1>3 DEF CancelRecording, Post
  <2>2. x \in Closure /\ Shows(x) /\ ~x.shown
    BY DEF ForPlayers, Closure, Shows
  <2> HIDE DEF x
  <2>3. ~mic'.on
    BY <1>0, <2>1 DEF MicTypes
  <2>4. ~Silent(uiq') /\ (Hides(uiq) => Hides(uiq'))
    BY <1>0, <2>1, <2>2, TalkAdded
  <2>5. Silent(uiq) => Hides(uiq)
    BY DEF Silent, Hides
  <2>6. QED
    BY <2>1, <2>3, <2>4, <2>5 DEF MicComes
<1>4. ASSUME NEW n \in BagToSet(tickers), TickerWakes(n) PROVE MicComes'
  <2>1. Handles({"secs", "stop"})
    BY <1>4, TickerHandles
  <2>2. UNCHANGED <<mic, hasty>>
    BY <1>4 DEF TickerWakes
  <2>3. QED
    BY <2>1, <2>2, MicKept
<1>5. CASE RunSecs
  <2>1. mic' = [mic EXCEPT !.secs = Head(uiq).secs] /\ UNCHANGED hasty
    BY <1>5 DEF RunSecs
  <2>2. Handles({"secs"})
    BY <1>5, RunKind DEF RunSecs, Turn
  <2>3. mic'.on = mic.on /\ mic'.shown = mic.shown
    BY <1>0, <2>1 DEF MicTypes
  <2>4. /\ Silent(uiq) <=> Silent(uiq')
        /\ Hides(uiq) => Hides(uiq')
        /\ ShownLast(uiq) => ShownLast(uiq')
    BY <1>0, <2>2, OthersHandled
  <2>5. QED
    BY <2>1, <2>3, <2>4 DEF MicComes
<1>6. CASE RunStop
  <2>1. mic' = Stopped /\ hasty' = (hasty \/ (mic.on /\ ~mic.shown))
    BY <1>6 DEF RunStop
  <2>2. Handles({"stop"})
    BY <1>6, RunKind DEF RunStop, Turn
  <2>3. /\ Silent(uiq) <=> Silent(uiq')
        /\ Hides(uiq) => Hides(uiq')
        /\ ShownLast(uiq) => ShownLast(uiq')
    BY <1>0, <2>2, OthersHandled
  <2>4. CASE mic.on
    <3>1. ~mic'.on /\ ~mic'.shown
      BY <1>0, <2>1, <2>4 DEF MicTypes, Stopped
    <3>2. Silent(uiq) => Hides(uiq)
      BY DEF Silent, Hides
    <3>3. QED
      BY <2>1, <2>3, <2>4, <3>1, <3>2 DEF MicComes
  <2>5. CASE ~mic.on
    BY <2>1, <2>3, <2>5 DEF MicComes, Stopped
  <2>6. QED
    BY <2>4, <2>5
<1>7. CASE RunRecording
  <2> DEFINE x == Head(uiq)
  <2>1. /\ uiq # <<>> /\ x.kind = "recording" /\ Take(<<>>) /\ UNCHANGED hasty
        /\ mic' = [mic EXCEPT !.shown = x.shown, !.secs = IF x.shown THEN 0 ELSE @]
    BY <1>7 DEF RunRecording, Turn
  <2>2. uiq' = Tail(uiq) /\ x \in Closure
    BY <2>1, TakenPlayer
  <2>3. Shows(x)
    BY <2>1 DEF Shows
  <2> HIDE DEF x
  <2>4. mic'.on = mic.on /\ mic'.shown = x.shown
    BY <1>0, <2>1 DEF MicTypes
  <2>5. /\ ~Silent(uiq)
        /\ Hides(uiq) => ~x.shown /\ Hides(uiq')
        /\ x.shown /\ ShownLast(uiq)  => Silent(uiq')
        /\ ~x.shown /\ ShownLast(uiq) => ShownLast(uiq')
    BY <1>0, <2>1, <2>2, <2>3, TalkTaken DEF x
  <2>6. QED
    BY <2>1, <2>4, <2>5 DEF MicComes
<1>8. QED
  BY <1>1, <1>2, <1>3, <1>4, <1>5, <1>6, <1>7 DEF Talks
-----------------------------------------------------------------------------
(* The pictures.                                                           *)

LEMMA PictureKept ==
  ASSUME Shaped, PictureComes, UNCHANGED looking, NEW K, Handles(K),
         "slides" \notin K, "picture" \notin K
  PROVE  PictureComes'
<1>1. \A x : x.kind \in {"slides", "picture"} => (x \in Queue <=> x \in Queue')
  BY KindsKept
<1>2. /\ UNCHANGED <<viewer, slides, wanted, crossed, missed>> /\ UNCHANGED Picked
      /\ BagToSet(reads') = BagToSet(reads) /\ BagToSet(fetches') = BagToSet(fetches)
  BY DEF looking, BagToSet, Picked
<1>3. ToPick => ToPick'
  BY <1>1, <1>2 DEF ToPick
<1>4. UnderWay => UnderWay'
  BY <1>1, <1>2 DEF UnderWay
<1>5. Arrived => Arrived'
  BY <1>2 DEF Arrived
<1>6. \A x \in Queue' : x.kind = "picture" /\ ~x.ok => x.pic \in missed'
  BY <1>1, <1>2 DEF PictureComes
<1>7. QED
  BY <1>2, <1>3, <1>4, <1>5, <1>6 DEF PictureComes

(* A queue that only grows by a picture or a slideshow.                    *)
LEMMA MissesKept ==
  ASSUME PictureComes, missed \subseteq missed', Queue' \subseteq Queue
  PROVE  \A x \in Queue' : x.kind = "picture" /\ ~x.ok => x.pic \in missed'
BY DEF PictureComes

LEMMA PictureStep ==
  ASSUME Shaped, PictureComes, Looks
  PROVE  PictureComes'
<1>0. /\ PictureTypes /\ uiq \in Seq(Closure)
      /\ viewer \in [open : BOOLEAN, busy : BOOLEAN, shown : Gallery \cup {"none"}]
      /\ IsBag(reads, Read) /\ IsBag(fetches, Fetch)
  BY DEF Shaped, PlayersShaped, PartsShaped, PictureTypes
<1>1. ASSUME NEW p \in Gallery, LookAt(p, Open) PROVE PictureComes'
  <2> DEFINE r == [pic |-> p, chat |-> Open]
  <2>1. /\ reads' = reads (+) SetToBag({r}) /\ wanted' = p /\ UNCHANGED <<uiq, missed>>
        /\ Open # "none" /\ r.pic = p
    BY <1>1 DEF LookAt
  <2>2. r \in Read
    BY <2>1, OpenListed DEF Read
  <2> HIDE DEF r
  <2>3. r \in BagToSet(reads')
    BY <1>0, <2>1, <2>2, BagAdd
  <2>4. ToPick'
    BY <2>1, <2>3 DEF ToPick
  <2>5. UNCHANGED Queue
    BY <2>1 DEF Queue, ToSet
  <2>6. \A x \in Queue' : x.kind = "picture" /\ ~x.ok => x.pic \in missed'
    BY <2>1, <2>5, MissesKept
  <2>7. QED
    BY <2>4, <2>6 DEF PictureComes
<1>2. ASSUME NEW r \in BagToSet(reads), SlidesRead(r) PROVE PictureComes'
  <2> DEFINE x == [kind |-> "slides", pic |-> r.pic, chat |-> r.chat]
  <2>1. /\ UNCHANGED <<viewer, slides, fetches, wanted, crossed, missed>> /\ uiq' = Append(uiq, x)
        /\ reads' = reads (-) SetToBag({r}) /\ x.kind = "slides" /\ x.pic = r.pic
    BY <1>2 DEF SlidesRead, Post
  <2>2. r \in Read
    BY <1>0 DEF IsBag, BagToSet
  <2>3. x \in Closure
    BY <2>2 DEF Read, ForPlayers, Closure
  <2> HIDE DEF x
  <2>4. Queue' = Queue \cup {x}
    BY <1>0, <2>1, <2>3, QueueAdds DEF Queue
  <2>5. BagToSet(reads) \ {r} \subseteq BagToSet(reads')
    BY <1>0, <2>1, BagTake
  <2>6. UNCHANGED Picked /\ BagToSet(fetches') = BagToSet(fetches)
    BY <2>1 DEF Picked, BagToSet
  <2>7. ToPick => ToPick'
    BY <2>1, <2>4, <2>5 DEF ToPick
  <2>8. UnderWay => UnderWay'
    BY <2>1, <2>4, <2>6 DEF UnderWay
  <2>9. Arrived => Arrived'
    BY <2>1 DEF Arrived
  <2>10. QED
    BY <2>1, <2>4, <2>6, <2>7, <2>8, <2>9 DEF PictureComes
<1>3. CASE RunSlides(Open)
  <2> DEFINE h == Head(uiq)  items == Pictures[h.chat]
             pos == CHOOSE i \in DOMAIN items : items[i] = h.pic
  <2>1. /\ uiq # <<>> /\ h.kind = "slides" /\ Take(<<>>)
        /\ slides' = [items |-> items, pos |-> pos] /\ Load(items[pos], pos, Open)
        /\ crossed' = (crossed \/ h.pic # wanted) /\ UNCHANGED wanted
    BY <1>3 DEF RunSlides, Turn
  <2>2. /\ h \in Closure /\ h \in Queue /\ uiq' = Tail(uiq)
    BY <2>1, TakenPlayer
  <2>3. h.chat \in Chats /\ h.pic \in ToSet(items)
    BY <1>0, <2>1, <2>2, ClosureFields DEF PicturesQueued, Shaped, PlayersShaped
  <2>4. items \in Seq(Gallery)
    BY <2>3, AlbumTyped
  <2>5. Queue' \subseteq Queue
    BY <1>0, <2>1, <2>2, QueueDrops DEF Queue
  <2> HIDE DEF items, h
  <2>6. pos \in DOMAIN items /\ items[pos] = h.pic
    BY <2>3 DEF ToSet
  <2> HIDE DEF pos
  <2>7. pos \in Nat /\ items[pos] \in Gallery
    BY <2>4, <2>6
  <2>8. /\ missed \subseteq missed'
        /\ \/ items[pos] \in missed'
           \/ viewer'.shown = items[pos] /\ ~viewer'.busy
           \/ \E f \in BagToSet(fetches') : f.pic = items[pos] /\ f.pos = pos
    BY <2>1, <2>7, LoadShaped
  <2>9. Picked' = items[pos] /\ slides'.pos = pos
    BY <2>1, <2>6 DEF Picked
  <2>10. \A x \in Queue' : x.kind = "picture" /\ ~x.ok => x.pic \in missed'
    BY <2>5, <2>8, MissesKept
  <2>11. h.pic = wanted => wanted' \in missed' \/ Arrived' \/ UnderWay'
    BY <2>1, <2>6, <2>8, <2>9 DEF Arrived, UnderWay
  <2>12. QED
    BY <2>1, <2>6, <2>9, <2>10, <2>11 DEF PictureComes
<1>4. ASSUME NEW by \in {-1, 1}, Leaf(by, Open) PROVE PictureComes'
  <2> DEFINE pos == IF slides.pos + by \in DOMAIN slides.items THEN slides.pos + by
                    ELSE slides.pos
  <2>1. /\ slides.items # <<>> /\ slides' = [slides EXCEPT !.pos = pos]
        /\ Load(slides.items[pos], pos, Open) /\ wanted' = slides.items[pos]
        /\ UNCHANGED uiq
    BY <1>4 DEF Leaf
  <2>2. /\ pos \in DOMAIN slides.items /\ slides.items \in Seq(Gallery)
        /\ slides \in [items : Seq(Gallery), pos : Nat]
    BY <1>0, <2>1 DEF PictureTypes
  <2> HIDE DEF pos
  <2>3. pos \in Nat /\ slides.items[pos] \in Gallery
    BY <2>2
  <2>4. /\ missed \subseteq missed'
        /\ \/ slides.items[pos] \in missed'
           \/ viewer'.shown = slides.items[pos] /\ ~viewer'.busy
           \/ \E f \in BagToSet(fetches') : f.pic = slides.items[pos] /\ f.pos = pos
    BY <2>1, <2>3, LoadShaped
  <2>5. slides'.items = slides.items /\ slides'.pos = pos
    BY <2>1, <2>2
  <2>6. Picked' = slides.items[pos]
    BY <2>2, <2>5 DEF Picked
  <2>7. UNCHANGED Queue
    BY <2>1 DEF Queue, ToSet
  <2>8. \A x \in Queue' : x.kind = "picture" /\ ~x.ok => x.pic \in missed'
    BY <2>4, <2>7, MissesKept
  <2>9. wanted' \in missed' \/ Arrived' \/ UnderWay'
    BY <2>1, <2>4, <2>5 DEF Arrived, UnderWay
  <2>10. QED
    BY <2>1, <2>6, <2>8, <2>9 DEF PictureComes
<1>5. ASSUME NEW f \in BagToSet(fetches), NEW ok \in BOOLEAN, Fetched(f, ok) PROVE PictureComes'
  <2> DEFINE x == [kind |-> "picture", pic |-> f.pic, pos |-> f.pos, ok |-> ok]
  <2>1. /\ UNCHANGED <<viewer, slides, reads, wanted, crossed>> /\ uiq' = Append(uiq, x)
        /\ fetches' = fetches (-) SetToBag({f})
        /\ missed' = IF ok THEN missed ELSE missed \cup {f.pic}
        /\ x.kind = "picture" /\ x.pic = f.pic /\ x.pos = f.pos /\ (x.ok <=> ok)
    BY <1>5 DEF Fetched, Post
  <2>2. f \in Fetch
    BY <1>0 DEF IsBag, BagToSet
  <2>3. x \in Closure
    BY <2>2 DEF Fetch, ForPlayers, Closure
  <2> HIDE DEF x
  <2>4. Queue' = Queue \cup {x}
    BY <1>0, <2>1, <2>3, QueueAdds DEF Queue
  <2>5. BagToSet(fetches) \ {f} \subseteq BagToSet(fetches')
    BY <1>0, <2>1, BagTake
  <2>6. UNCHANGED Picked /\ BagToSet(reads') = BagToSet(reads)
    BY <2>1 DEF Picked, BagToSet
  <2>7. ToPick => ToPick'
    BY <2>1, <2>4, <2>6 DEF ToPick
  <2>8. UnderWay => UnderWay' \/ wanted' \in missed'
    BY <2>1, <2>4, <2>5 DEF UnderWay
  <2>9. Arrived => Arrived'
    BY <2>1 DEF Arrived
  <2>10. \A y \in Queue' : y.kind = "picture" /\ ~y.ok => y.pic \in missed'
    BY <2>1, <2>4 DEF PictureComes
  <2>11. QED
    BY <2>1, <2>6, <2>7, <2>8, <2>9, <2>10 DEF PictureComes
<1>6. CASE RunPicture
  <2> DEFINE h == Head(uiq)
  <2>1. /\ uiq # <<>> /\ h.kind = "picture" /\ Take(<<>>)
        /\ UNCHANGED <<slides, reads, fetches, wanted, crossed, missed>>
        /\ viewer' = IF ~StillCurrent(h.pic, h.pos) THEN viewer
                     ELSE [viewer EXCEPT !.busy = FALSE, !.shown = IF h.ok THEN h.pic ELSE @]
    BY <1>6 DEF RunPicture, Turn
  <2>2. h \in Queue /\ uiq' = Tail(uiq)
    BY <2>1, TakenPlayer
  <2>3. Queue = Queue' \cup {h}
    BY <1>0, <2>1, <2>2, QueueDrops DEF Queue
  <2> HIDE DEF h
  <2>4. UNCHANGED Picked /\ BagToSet(reads') = BagToSet(reads)
        /\ BagToSet(fetches') = BagToSet(fetches)
    BY <2>1 DEF Picked, BagToSet
  <2>5. viewer'.open = viewer.open
    BY <1>0, <2>1
  <2>6. ToPick => ToPick'
    BY <2>1, <2>3, <2>4 DEF ToPick
  <2>7. \A x \in Queue' : x.kind = "picture" /\ ~x.ok => x.pic \in missed'
    BY <2>1, <2>3, MissesKept
  <2>8. ASSUME Picked = wanted, wanted \in missed \/ Arrived \/ UnderWay
        PROVE  wanted' \in missed' \/ Arrived' \/ UnderWay'
    <3>1. CASE ~StillCurrent(h.pic, h.pos)
      <4>1. UNCHANGED viewer
        BY <2>1, <3>1
      <4>2. UnderWay => UnderWay'
        BY <2>1, <2>3, <2>4, <2>8, <3>1 DEF UnderWay, StillCurrent
      <4>3. QED
        BY <2>1, <2>8, <4>1, <4>2 DEF Arrived
    <3>2. CASE StillCurrent(h.pic, h.pos) /\ h.ok
      <4>1. viewer'.shown = h.pic /\ ~viewer'.busy /\ h.pic = wanted
        BY <1>0, <2>1, <2>8, <3>2 DEF StillCurrent
      <4>2. QED
        BY <2>1, <4>1 DEF Arrived
    <3>3. CASE StillCurrent(h.pic, h.pos) /\ ~h.ok
      BY <2>1, <2>2, <2>8, <3>3 DEF StillCurrent, PictureComes
    <3>4. QED
      BY <3>1, <3>2, <3>3
  <2>9. QED
    BY <2>1, <2>4, <2>5, <2>6, <2>7, <2>8 DEF PictureComes
<1>7. CASE DismissPicture
  <2>1. /\ viewer' = [viewer EXCEPT !.open = FALSE, !.busy = FALSE]
        /\ UNCHANGED <<uiq, missed>>
    BY <1>7 DEF DismissPicture, loop
  <2>2. ~viewer'.open
    BY <1>0, <2>1
  <2>3. UNCHANGED Queue
    BY <2>1 DEF Queue, ToSet
  <2>4. QED
    BY <2>1, <2>2, <2>3, MissesKept DEF PictureComes
<1>8. QED
  BY <1>1, <1>2, <1>3, <1>4, <1>5, <1>6, <1>7 DEF Looks
-----------------------------------------------------------------------------
(* The whole window.                                                       *)

PlayersInv == PictureComes /\ FilmComes /\ MicComes

LEMMA OffInv == PlayersOff => PlayersInv
<1> SUFFICES ASSUME PlayersOff PROVE PlayersInv
  OBVIOUS
<1>1. Queue = {}
  BY DEF PlayersOff, Queue, ToSet
<1>2. PictureComes
  BY <1>1 DEF PlayersOff, PictureComes
<1>3. FilmComes
  BY <1>1 DEF PlayersOff, FilmComes, NoFilm
<1>4. Silent(uiq) /\ Hides(uiq)
  BY DEF PlayersOff, Silent, Hides
<1>5. MicComes
  BY <1>4 DEF PlayersOff, MicComes
<1>6. QED
  BY <1>2, <1>3, <1>5 DEF PlayersInv

LEMMA PlayersStep ==
  ASSUME Shaped, PlayersInv, [WindowNext]_<<loop, awareness, players>>
  PROVE  PlayersInv'
<1>0. PictureComes /\ FilmComes /\ MicComes
  BY DEF PlayersInv
<1>1. ASSUME UNCHANGED looking, UNCHANGED filming, UNCHANGED talking, NEW K, Handles(K),
             \A k \in K : k \notin {"slides", "picture", "frame", "nofilm", "recording"}
      PROVE  PlayersInv'
  <2>1. UNCHANGED <<mic, hasty>>
    BY <1>1 DEF talking
  <2>2. PictureComes'
    BY <1>0, <1>1, PictureKept
  <2>3. FilmComes'
    BY <1>0, <1>1, FilmKept
  <2>4. MicComes'
    BY <1>0, <1>1, <2>1, MicKept
  <2>5. QED
    BY <2>2, <2>3, <2>4 DEF PlayersInv
<1>2. CASE AttentionRuns /\ UNCHANGED players
  <2>1. UNCHANGED looking /\ UNCHANGED filming /\ UNCHANGED talking
    BY <1>2 DEF players
  <2>2. QED
    BY <1>1, <1>2, <2>1, ChatsHandle
<1>3. CASE PlayersNext(Open)
  <2>1. CASE Looks
    <3>1. PictureComes'
      BY <1>0, <2>1, PictureStep
    <3>2. UNCHANGED filming /\ UNCHANGED talking /\ UNCHANGED <<mic, hasty>>
      BY <2>1, LooksAlone DEF talking
    <3>3. Handles({"slides", "picture"})
      BY <2>1, LooksHandle
    <3>4. FilmComes'
      BY <1>0, <3>2, <3>3, FilmKept
    <3>5. MicComes'
      BY <1>0, <3>2, <3>3, MicKept
    <3>6. QED
      BY <3>1, <3>4, <3>5 DEF PlayersInv
  <2>2. CASE Films
    <3>1. FilmComes'
      BY <1>0, <2>2, FilmStep
    <3>2. UNCHANGED looking /\ UNCHANGED talking /\ UNCHANGED <<mic, hasty>>
      BY <2>2, FilmsAlone DEF talking
    <3>3. Handles({"frame", "nofilm"})
      BY <2>2, FilmsHandle
    <3>4. PictureComes'
      BY <1>0, <3>2, <3>3, PictureKept
    <3>5. MicComes'
      BY <1>0, <3>2, <3>3, MicKept
    <3>6. QED
      BY <3>1, <3>4, <3>5 DEF PlayersInv
  <2>3. CASE Talks
    <3>1. MicComes'
      BY <1>0, <2>3, MicStep
    <3>2. UNCHANGED looking /\ UNCHANGED filming
      BY <2>3, TalksAlone
    <3>3. Handles({"recording", "secs", "stop"})
      BY <2>3, TalksHandle
    <3>4. PictureComes'
      BY <1>0, <3>2, <3>3, PictureKept
    <3>5. FilmComes'
      BY <1>0, <3>2, <3>3, FilmKept
    <3>6. QED
      BY <3>1, <3>4, <3>5 DEF PlayersInv
  <2>4. QED
    BY <1>3, <2>1, <2>2, <2>3 DEF PlayersNext, Looks, Films, Talks
<1>4. CASE Restart
  <2>1. PlayersOff'
    BY <1>4, RestartIs DEF Restarted
  <2>2. QED
    BY <2>1, OffInv, PTL
<1>5. CASE UNCHANGED <<loop, awareness, players>>
  <2>1. UNCHANGED looking /\ UNCHANGED filming /\ UNCHANGED talking
    BY <1>5 DEF players
  <2>2. Handles({})
    BY <1>5 DEF Handles, loop
  <2>3. QED
    BY <1>1, <2>1, <2>2
<1>6. QED
  BY <1>2, <1>3, <1>4, <1>5 DEF WindowNext

LEMMA WindowInit1 == WindowInit => WindowInv
<1> SUFFICES ASSUME WindowInit PROVE WindowInv
  OBVIOUS
<1>1. Shaped /\ PlayersOff
  BY ShapedInit
<1>2. NotedSoFar /\ NotifiedOnce
  BY NotedInit
<1>3. LeftBelongs /\ ComposerTrue /\ DraftKept
  BY DraftsInit DEF DraftsInv
<1>4. PictureComes /\ FilmComes /\ MicComes
  BY <1>1, OffInv DEF PlayersInv
<1>5. QED
  BY <1>1, <1>2, <1>3, <1>4 DEF WindowInv

LEMMA WindowStep ==
  ASSUME WindowInv, [WindowNext]_<<loop, awareness, players>>
  PROVE  WindowInv'
<1>1. /\ Shaped /\ NotedSoFar /\ NotifiedOnce /\ DraftsInv /\ PlayersInv
  BY DEF WindowInv, DraftsInv, PlayersInv
<1>2. Shaped'
  BY <1>1, ShapedStep
<1>3. NotedSoFar' /\ NotifiedOnce'
  BY <1>1, NotedStep
<1>4. LeftBelongs' /\ ComposerTrue' /\ DraftKept'
  BY <1>1, DraftsStep DEF DraftsInv
<1>5. PictureComes' /\ FilmComes' /\ MicComes'
  BY <1>1, PlayersStep DEF PlayersInv
<1>6. QED
  BY <1>2, <1>3, <1>4, <1>5 DEF WindowInv

LEMMA WindowInvariant == WindowSpec => []WindowInv
<1>1. WindowInit => WindowInv
  BY WindowInit1
<1>2. WindowInv /\ [WindowNext]_<<loop, awareness, players>> => WindowInv'
  BY WindowStep
<1>3. QED
  BY <1>1, <1>2, PTL DEF WindowSpec

-----------------------------------------------------------------------------
(* Every variable of the window keeps its type: what is posted to the      *)
(* event loop is a closure the loop knows, the slideshow is parked on one  *)
(* of its pictures, and what workers hold are bags of tasks.               *)
THEOREM WindowTypes == WindowSpec => []Shaped
<1>1. WindowInv => Shaped
  BY DEF WindowInv
<1>2. QED
  BY <1>1, WindowInvariant, PTL

(* While the process runs no message is announced twice, and none that was *)
(* noted while its chat was on screen, however often its chat refires and  *)
(* whatever is switched, merged or muted between (notify_on_new_message).  *)
THEOREM NotificationsOnce == WindowSpec => []NotifiedOnce
<1>1. WindowInv => NotifiedOnce
  BY DEF WindowInv
<1>2. QED
  BY <1>1, WindowInvariant, PTL

(* What the user left half-written in a chat is in the composer when that  *)
(* chat is open and in its draft otherwise, for every order of typing,     *)
(* switching, sending, editing, merging of the list, exit and crash, with  *)
(* the exceptions that "lost" records (wiring/panes.rs, settings.rs).      *)
THEOREM DraftsKept == WindowSpec => []DraftKept
<1>1. WindowInv => DraftKept
  BY DEF WindowInv
<1>2. QED
  BY <1>1, WindowInvariant, PTL

(* When the workers have gone quiet, the picture viewer shows what was     *)
(* asked for last, a video plays only in the viewer opened for it, no      *)
(* spinner is left over a video, and the composer shows a recording        *)
(* exactly while there is a recorder, with the exceptions that "missed",   *)
(* "crossed", "late" and "hasty" record (media.rs, wiring/panes.rs).       *)
THEOREM PlayersSettle == WindowSpec => []PlayersBelong
<1>1. WindowInv => PlayersBelong
  <2> SUFFICES ASSUME WindowInv, Settled PROVE PictureBelongs /\ VideoBelongs /\ RecordingShown
    BY DEF PlayersBelong
  <2>1. Queue = {} /\ uiq = <<>>
    BY DEF Settled, Queue, ToSet
  <2>2. BagToSet(reads) = {} /\ BagToSet(fetches) = {} /\ BagToSet(films) = {}
    BY BagEmpty DEF Settled
  <2>3. ~ToPick /\ ~UnderWay
    BY <2>1, <2>2 DEF ToPick, UnderWay
  <2>4. PictureBelongs
    BY <2>3 DEF WindowInv, PictureComes, Arrived, PictureBelongs
  <2>5. VideoBelongs
    BY <2>1, <2>2 DEF WindowInv, FilmComes, VideoBelongs
  <2>6. Silent(uiq) /\ ~ShownLast(uiq)
    BY <2>1 DEF Silent, ShownLast
  <2>7. mic \in [on : BOOLEAN, shown : BOOLEAN, secs : Nat] /\ MicComes
    BY DEF WindowInv, Shaped, PlayersShaped, PartsShaped, MicTypes
  <2>8. RecordingShown
    BY <2>6, <2>7 DEF MicComes, RecordingShown
  <2>9. QED
    BY <2>4, <2>5, <2>8
<1>2. QED
  BY <1>1, WindowInvariant, PTL
-----------------------------------------------------------------------------
(* Unread counters: first that their total is a number.                    *)

(* What FoldSet computes, as the provers see it: a function of the subsets *)
(* of a finite set, which exists and has numbers as its values.            *)
Pick(s) == CHOOSE x \in s : TRUE
Upto(C, m) == {s \in SUBSET C : Cardinality(s) <= m}
Summing(f, n, D) ==
  f = [s \in D |-> IF s = {} THEN 0 ELSE n[Pick(s)] + f[s \ {Pick(s)}]]

LEMMA TotalIs ==
  ASSUME NEW n
  PROVE  Total(n) = (CHOOSE f : Summing(f, n, SUBSET Chats))[Chats]
BY DEF Total, FoldSet, MapThenFoldSet, Summing, Pick

LEMMA PickFewer ==
  ASSUME NEW C, IsFiniteSet(C), NEW s \in SUBSET C, s # {}
  PROVE  /\ Pick(s) \in C /\ s \ {Pick(s)} \in SUBSET C
         /\ Cardinality(s) \in Nat \ {0}
         /\ Cardinality(s \ {Pick(s)}) = Cardinality(s) - 1
<1>1. Pick(s) \in s
  BY DEF Pick
<1>2. IsFiniteSet(s)
  BY FS_Subset
<1>3. Cardinality(s) \in Nat /\ Cardinality(s) # 0
  BY <1>2, FS_CardinalityType, FS_EmptySet
<1>4. Cardinality(s \ {Pick(s)}) = Cardinality(s) - 1
  BY <1>1, <1>2, FS_RemoveElement
<1>5. QED
  BY <1>1, <1>3, <1>4

LEMMA SumExists ==
  ASSUME NEW C, IsFiniteSet(C), NEW n
  PROVE  \E f : Summing(f, n, SUBSET C)
<1> DEFINE P == {m \in Nat : \E f : Summing(f, n, Upto(C, m))}
<1>1. 0 \in P
  <2> DEFINE f == [s \in Upto(C, 0) |-> 0]
  <2>1. \A s \in Upto(C, 0) : s = {}
    <3>1. ASSUME NEW s \in Upto(C, 0), s # {} PROVE FALSE
      <4>1. s \in SUBSET C /\ Cardinality(s) <= 0
        BY DEF Upto
      <4>2. Cardinality(s) \in Nat \ {0}
        BY <3>1, <4>1, PickFewer
      <4>3. QED
        BY <4>1, <4>2
    <3>2. QED
      BY <3>1
  <2>2. Summing(f, n, Upto(C, 0))
    BY <2>1 DEF Summing
  <2>3. QED
    BY <2>2
<1>2. ASSUME NEW m \in Nat, m \in P PROVE m + 1 \in P
  <2>1. PICK f : Summing(f, n, Upto(C, m))
    BY <1>2
  <2> DEFINE g == [s \in Upto(C, m + 1) |->
                     IF s = {} THEN 0 ELSE n[Pick(s)] + f[s \ {Pick(s)}]]
  <2>2. ASSUME NEW s \in Upto(C, m) PROVE s \in Upto(C, m + 1) /\ g[s] = f[s]
    <3>1. s \in SUBSET C /\ Cardinality(s) <= m /\ IsFiniteSet(s)
      BY FS_Subset DEF Upto
    <3>2. Cardinality(s) \in Nat
      BY <3>1, FS_CardinalityType
    <3>3. s \in Upto(C, m + 1)
      BY <3>1, <3>2 DEF Upto
    <3>4. f[s] = IF s = {} THEN 0 ELSE n[Pick(s)] + f[s \ {Pick(s)}]
      BY <2>1 DEF Summing
    <3>5. QED
      BY <3>3, <3>4
  <2>3. ASSUME NEW s \in Upto(C, m + 1), s # {} PROVE s \ {Pick(s)} \in Upto(C, m)
    <3>1. s \in SUBSET C /\ Cardinality(s) <= m + 1
      BY DEF Upto
    <3>2. /\ s \ {Pick(s)} \in SUBSET C /\ Cardinality(s) \in Nat \ {0}
          /\ Cardinality(s \ {Pick(s)}) = Cardinality(s) - 1
      BY <2>3, <3>1, PickFewer
    <3>3. Cardinality(s \ {Pick(s)}) <= m
      BY <3>1, <3>2
    <3>4. QED
      BY <3>2, <3>3 DEF Upto
  <2>4. Summing(g, n, Upto(C, m + 1))
    <3>1. \A s \in Upto(C, m + 1) :
            g[s] = IF s = {} THEN 0 ELSE n[Pick(s)] + g[s \ {Pick(s)}]
      BY <2>2, <2>3
    <3> DEFINE G == g
    <3> HIDE DEF G
    <3>2. G = [s \in Upto(C, m + 1) |-> G[s]]
      BY DEF G
    <3>3. [s \in Upto(C, m + 1) |-> G[s]]
          = [s \in Upto(C, m + 1) |-> IF s = {} THEN 0 ELSE n[Pick(s)] + G[s \ {Pick(s)}]]
      BY <3>1 DEF G
    <3>4. Summing(G, n, Upto(C, m + 1))
      BY <3>2, <3>3 DEF Summing
    <3>5. QED
      BY <3>4 DEF G
  <2>5. QED
    BY <2>4
<1> DEFINE top == Cardinality(C)
<1>3. top \in Nat
  BY FS_CardinalityType
<1>4. top \in P
  <2>1. \A i \in 0 .. top - 1 : i \in P => i + 1 \in P
    BY <1>2, <1>3
  <2>2. 0 .. top \subseteq P
    <3> HIDE DEF P, top
    <3>1. QED
      BY <1>1, <1>3, <2>1, UpTo
  <2>3. QED
    BY <1>3, <2>2
<1>5. Upto(C, top) = SUBSET C
  <2>1. ASSUME NEW s \in SUBSET C PROVE Cardinality(s) <= top
    BY FS_Subset
  <2>2. QED
    BY <2>1 DEF Upto
<1>6. QED
  BY <1>4, <1>5

LEMMA TotalNat ==
  ASSUME NEW n \in [Chats -> Nat]
  PROVE  Total(n) \in Nat
<1> DEFINE f == CHOOSE f : Summing(f, n, SUBSET Chats)
<1>0. IsFiniteSet(Chats)
  BY AttentionConstantsOK
<1>1. Summing(f, n, SUBSET Chats)
  <2>1. \E g : Summing(g, n, SUBSET Chats)
    BY <1>0, SumExists
  <2>2. QED
    BY <2>1
<1>2. Total(n) = f[Chats]
  BY TotalIs
<1> HIDE DEF f
<1>3. \A s \in SUBSET Chats : f[s] = IF s = {} THEN 0 ELSE n[Pick(s)] + f[s \ {Pick(s)}]
  BY <1>1 DEF Summing
<1> DEFINE top == Cardinality(Chats)
           P == {m \in Nat : \A s \in SUBSET Chats : Cardinality(s) = m => f[s] \in Nat}
<1>4. 0 \in P
  <2>1. ASSUME NEW s \in SUBSET Chats, Cardinality(s) = 0 PROVE f[s] \in Nat
    <3>1. s = {}
      <4>1. ASSUME s # {} PROVE Cardinality(s) \in Nat \ {0}
        BY <1>0, <4>1, PickFewer
      <4>2. QED
        BY <2>1, <4>1
    <3>2. f[s] = IF s = {} THEN 0 ELSE n[Pick(s)] + f[s \ {Pick(s)}]
      BY <1>3
    <3>3. f[s] = 0
      BY <3>1, <3>2
    <3>4. QED
      BY <3>3
  <2>2. QED
    BY <2>1
<1>5. ASSUME NEW m \in Nat, m \in P PROVE m + 1 \in P
  <2>1. ASSUME NEW s \in SUBSET Chats, Cardinality(s) = m + 1 PROVE f[s] \in Nat
    <3>1. s # {}
      BY <2>1, FS_EmptySet
    <3>2. /\ Pick(s) \in Chats /\ s \ {Pick(s)} \in SUBSET Chats
          /\ Cardinality(s \ {Pick(s)}) = Cardinality(s) - 1
      BY <1>0, <3>1, PickFewer
    <3>3. Cardinality(s \ {Pick(s)}) = m
      BY <2>1, <3>2
    <3>4. f[s \ {Pick(s)}] \in Nat /\ n[Pick(s)] \in Nat
      BY <1>5, <3>2, <3>3
    <3>5. f[s] = n[Pick(s)] + f[s \ {Pick(s)}]
      BY <1>3, <3>1
    <3>6. QED
      BY <3>4, <3>5
  <2>2. QED
    BY <2>1
<1>6. top \in Nat
  BY <1>0, FS_CardinalityType
<1>7. top \in P
  <2>1. \A i \in 0 .. top - 1 : i \in P => i + 1 \in P
    BY <1>5, <1>6
  <2>2. 0 .. top \subseteq P
    <3> HIDE DEF P, top
    <3>1. QED
      BY <1>4, <1>6, <2>1, UpTo
  <2>3. QED
    BY <1>6, <2>2
<1>8. f[Chats] \in Nat
  BY <1>7
<1>9. QED
  BY <1>2, <1>8
-----------------------------------------------------------------------------
(* What the counters should show, and where a count is on its way: the     *)
(* watcher has still to call back, a closure with a count is posted, or a  *)
(* worker has still to count.                                              *)
Owed(c) == Cardinality(unseen[c])
Work    == BagToSet(jobs)
Listing(x) == x.kind \in {"list", "merge"}
Counts(x, c) == x.kind = "chat" /\ x.chat = c
Due(c) == \/ c \in ToSet(feed) \/ \E x \in Queue : Counts(x, c)
          \/ \E j \in Work : j.stage = "asked" \/ c \in ToSet(j.todo)
Bound(c) == \/ Due(c)
            \/ \E j \in Work : c \in ToSet(j.order)
            \/ \E x \in Queue : Listing(x) /\ c \in ToSet(x.order)

UnreadTypes ==
  /\ marker \in [Chats -> Nat \cup {-1}] /\ lastRead \in [Chats -> Nat \cup {-1}]
  /\ counts \in [Chats -> Nat] /\ badge \in [Chats -> Nat]
  /\ unseen \in [Chats -> SUBSET Nat] /\ raced \subseteq Chats /\ stacked \in BOOLEAN

(* Nothing is dated after now, and messages are in the order they came.    *)
Dated(c) ==
  /\ marker[c] <= clock /\ lastRead[c] <= clock
  /\ \A i \in DOMAIN inbox[c] : inbox[c][i] <= clock
  /\ \A i, k \in DOMAIN inbox[c] : k <= i => inbox[c][k] <= inbox[c][i]
  /\ unseen[c] \subseteq DOMAIN inbox[c]
Times == /\ \A c \in Chats : Dated(c)
         /\ \A x \in Queue : x.kind = "chat" => x.now <= clock

(* Whatever names a chat names one that marmot lists.                      *)
Ordered(order) == ToSet(order) \subseteq ToSet(visible)
Named ==
  /\ ToSet(feed) \subseteq ToSet(visible) /\ ToSet(list) \subseteq ToSet(visible)
  /\ \A j \in Work : /\ ToSet(j.todo) \subseteq ToSet(j.order) /\ Ordered(j.order)
                     /\ j.stage = "asked" => j.todo = <<>>
  /\ \A x \in Queue : /\ Listing(x) => Ordered(x.order)
                      /\ x.kind = "chat" => x.chat \in ToSet(visible)

(* What is true of a chat that is not raced: the marker divides its        *)
(* messages; a posted count was true when it was made, and the last one    *)
(* still is, unless the chat is to be counted again; so is what a worker   *)
(* has counted; and without either the counter and the badge are right.    *)
Divided(c) == marker[c] # -1 => unseen[c] = Newer(c, marker[c])
CountMade(x, c) ==
  /\ marker[c] # -1 /\ x.upto <= Len(inbox[c])
  /\ \A i \in DOMAIN inbox[c] : i <= x.upto => inbox[c][i] <= x.now
  /\ \A i \in DOMAIN inbox[c] : i > x.upto => i \in unseen[c]
Made(c) == \A x \in Queue : Counts(x, c) => CountMade(x, c)
LastOf(q, i, c) == Counts(q[i], c) /\ \A k \in DOMAIN q : k > i => ~Counts(q[k], c)
LastMade(c) ==
  c \notin ToSet(feed) =>
    \A i \in DOMAIN uiq :
      LastOf(uiq, i, c) => uiq[i].upto = Len(inbox[c]) /\ uiq[i].raw = Owed(c)
ReadMade(c) == \A j \in Work : j.stage = "counting" => j.latest[c] = Len(inbox[c])
Counted(j, c) == j.stage = "counting" /\ c \in ToSet(j.order) /\ c \notin ToSet(j.todo)
GotMade(c) ==
  /\ \A j \in Work : Counted(j, c) => marker[c] # -1 /\ j.got[c] = Owed(c)
  /\ \A x \in Queue : Listing(x) /\ c \in ToSet(x.order) => marker[c] # -1 /\ x.got[c] = Owed(c)
CountShown(c) == c \in ToSet(visible) /\ ~Due(c) => counts[c] = Owed(c)
BadgeShown(c) == c \in ToSet(list) /\ ~Bound(c) => badge[c] = Owed(c)
Right(c) == /\ Divided(c) /\ Made(c) /\ LastMade(c) /\ ReadMade(c) /\ GotMade(c)
            /\ CountShown(c) /\ BadgeShown(c)

(* The total is shown, unless a list is on its way that will show it.      *)
ChromeRight == /\ Work # {} \/ (\E x \in Queue : Listing(x)) \/ title = Total(counts)
               /\ ~stacked => rail = title

UnreadInv == /\ UnreadTypes /\ Times /\ Named /\ ChromeRight
             /\ \A c \in Chats \ raced : Right(c)

(* What a closure that joins or leaves the queue changes for a chat.       *)
CountsKept(q, r, c) ==
  /\ \A x \in ToSet(r) : Counts(x, c) => x \in ToSet(q)
  /\ \A i \in DOMAIN r : LastOf(r, i, c) => \E k \in DOMAIN q : LastOf(q, k, c) /\ q[k] = r[i]
QueueAlike(q, r, c) ==
  /\ CountsKept(q, r, c)
  /\ \A x \in Closure : Counts(x, c) \/ Listing(x) => (x \in ToSet(q) <=> x \in ToSet(r))

LEMMA CountAdded ==
  ASSUME NEW q \in Seq(Closure), NEW x \in Closure, NEW c
  PROVE  /\ ~Counts(x, c) => CountsKept(q, Append(q, x), c)
         /\ Counts(x, c) =>
              \A i \in DOMAIN Append(q, x) : LastOf(Append(q, x), i, c) => Append(q, x)[i] = x
<1> DEFINE r == Append(q, x)  n == Len(q)
<1>1. /\ ToSet(r) = ToSet(q) \cup {x} /\ DOMAIN r = 1 .. n + 1 /\ r[n + 1] = x
      /\ \A i \in DOMAIN q : r[i] = q[i] /\ i \in 1 .. n
  BY QueueAdds
<1>2. n \in Nat /\ DOMAIN q = 1 .. n
  OBVIOUS
<1> HIDE DEF r, n
<1>3. ASSUME ~Counts(x, c) PROVE CountsKept(q, r, c)
  <2>1. \A y \in ToSet(r) : Counts(y, c) => y \in ToSet(q)
    BY <1>1, <1>3
  <2>2. ASSUME NEW i \in DOMAIN r, LastOf(r, i, c)
        PROVE  \E k \in DOMAIN q : LastOf(q, k, c) /\ q[k] = r[i]
    <3>1. i # n + 1
      BY <1>1, <1>3, <2>2 DEF LastOf
    <3>2. i \in DOMAIN q
      BY <1>1, <1>2, <3>1
    <3>3. q[i] = r[i]
      BY <1>1, <3>2
    <3>4. \A k \in DOMAIN q : k \in DOMAIN r /\ r[k] = q[k]
      BY <1>1, <1>2
    <3>5. LastOf(q, i, c)
      BY <2>2, <3>3, <3>4 DEF LastOf
    <3>6. QED
      BY <3>2, <3>3, <3>5
  <2>3. QED
    BY <2>1, <2>2 DEF CountsKept
<1>4. ASSUME Counts(x, c), NEW i \in DOMAIN r, LastOf(r, i, c) PROVE r[i] = x
  <2>1. n + 1 \in DOMAIN r /\ i \in 1 .. n + 1
    BY <1>1, <1>2
  <2>2. ~ (n + 1 > i)
    BY <1>1, <1>4, <2>1 DEF LastOf
  <2>3. i = n + 1
    BY <1>2, <2>1, <2>2
  <2>4. QED
    BY <1>1, <2>3
<1>5. QED
  BY <1>3, <1>4 DEF r

LEMMA CountDropped ==
  ASSUME NEW q \in Seq(Closure), q # <<>>, NEW c
  PROVE  CountsKept(q, Tail(q), c)
<1> DEFINE r == Tail(q)
<1>1. /\ ToSet(q) = ToSet(r) \cup {Head(q)} /\ Len(q) \in Nat \ {0} /\ DOMAIN q = 1 .. Len(q)
      /\ DOMAIN r = 1 .. Len(q) - 1
      /\ \A i \in DOMAIN r : r[i] = q[i + 1] /\ i + 1 \in DOMAIN q
  BY QueueDrops
<1> DEFINE n == Len(q)
<1> HIDE DEF r, n
<1>2. ASSUME NEW i \in DOMAIN r, LastOf(r, i, c)
      PROVE  \E k \in DOMAIN q : LastOf(q, k, c) /\ q[k] = r[i]
  <2>1. i + 1 \in DOMAIN q /\ q[i + 1] = r[i] /\ i \in Nat
    BY <1>1 DEF n
  <2>2. ASSUME NEW k \in DOMAIN q, k > i + 1 PROVE ~Counts(q[k], c)
    <3>1. k - 1 \in DOMAIN r /\ k - 1 > i /\ (k - 1) + 1 = k
      BY <1>1, <2>1, <2>2 DEF n
    <3>2. ~Counts(r[k - 1], c)
      BY <1>2, <3>1 DEF LastOf
    <3>3. r[k - 1] = q[k]
      BY <1>1, <3>1
    <3>4. QED
      BY <3>2, <3>3
  <2>3. LastOf(q, i + 1, c)
    BY <1>2, <2>1, <2>2 DEF LastOf
  <2>4. QED
    BY <2>1, <2>3
<1>3. \A y \in ToSet(r) : Counts(y, c) => y \in ToSet(q)
  BY <1>1
<1>4. CountsKept(q, r, c)
  BY <1>2, <1>3 DEF CountsKept
<1>5. QED
  BY <1>4 DEF r

LEMMA QueuesAlike ==
  ASSUME NEW q \in Seq(Closure), NEW c
  PROVE  /\ QueueAlike(q, q, c)
         /\ \A x \in Closure : ~Counts(x, c) /\ ~Listing(x) => QueueAlike(q, Append(q, x), c)
         /\ q # <<>> /\ ~Counts(Head(q), c) /\ ~Listing(Head(q)) => QueueAlike(q, Tail(q), c)
<1>1. QueueAlike(q, q, c)
  BY DEF QueueAlike, CountsKept
<1>2. ASSUME NEW x \in Closure, ~Counts(x, c), ~Listing(x) PROVE QueueAlike(q, Append(q, x), c)
  <2>1. CountsKept(q, Append(q, x), c) /\ ToSet(Append(q, x)) = ToSet(q) \cup {x}
    BY <1>2, CountAdded, QueueAdds
  <2>2. QED
    BY <1>2, <2>1 DEF QueueAlike
<1>3. ASSUME q # <<>>, ~Counts(Head(q), c), ~Listing(Head(q)) PROVE QueueAlike(q, Tail(q), c)
  <2>1. CountsKept(q, Tail(q), c) /\ ToSet(q) = ToSet(Tail(q)) \cup {Head(q)}
    BY <1>3, CountDropped, QueueDrops
  <2>2. QED
    BY <1>3, <2>1 DEF QueueAlike
<1>4. QED
  BY <1>1, <1>2, <1>3

LEMMA AlikeTwice ==
  ASSUME NEW q, NEW r, NEW s, NEW c, QueueAlike(q, r, c), QueueAlike(r, s, c),
         s \in Seq(Closure)
  PROVE  QueueAlike(q, s, c)
<1>1. ASSUME NEW i \in DOMAIN s, LastOf(s, i, c)
      PROVE  \E k \in DOMAIN q : LastOf(q, k, c) /\ q[k] = s[i]
  <2>1. PICK k \in DOMAIN r : LastOf(r, k, c) /\ r[k] = s[i]
    BY <1>1 DEF QueueAlike, CountsKept
  <2>2. QED
    BY <2>1 DEF QueueAlike, CountsKept
<1>2. \A x \in ToSet(s) : Counts(x, c) => x \in ToSet(q)
  BY DEF QueueAlike, CountsKept
<1>3. QED
  BY <1>1, <1>2 DEF QueueAlike, CountsKept

LEMMA PlayersAlike ==
  ASSUME Shaped, PlayerStep, NEW c
  PROVE  QueueAlike(uiq, uiq', c)
<1>1. uiq \in Seq(Closure)
  BY DEF Shaped
<1>2. \A x \in ForPlayers : x \in Closure /\ ~Counts(x, c) /\ ~Listing(x)
  BY DEF Closure, ForPlayers, Counts, Listing
<1>3. ASSUME NEW x \in ForPlayers PROVE QueueAlike(uiq, Append(uiq, x), c)
  BY <1>1, <1>2, QueuesAlike
<1>4. ASSUME NEW x \in ForPlayers, NEW y \in ForPlayers
      PROVE  QueueAlike(uiq, Append(Append(uiq, x), y), c)
  <2> DEFINE r == Append(uiq, x)
  <2>1. r \in Seq(Closure) /\ QueueAlike(uiq, r, c)
    BY <1>1, <1>2, <1>3, QueueAdds
  <2> HIDE DEF r
  <2>2. QueueAlike(r, Append(r, y), c) /\ Append(r, y) \in Seq(Closure)
    BY <1>2, <2>1, QueuesAlike, QueueAdds
  <2>3. QueueAlike(uiq, Append(r, y), c)
    BY <2>1, <2>2, AlikeTwice
  <2>4. QED
    BY <2>3 DEF r
<1>5. uiq # <<>> /\ Head(uiq) \in ForPlayers => QueueAlike(uiq, Tail(uiq), c)
  BY <1>1, <1>2, QueuesAlike
<1>6. QueueAlike(uiq, uiq, c)
  BY <1>1, QueuesAlike
<1>7. QED
  BY <1>3, <1>4, <1>5, <1>6 DEF PlayerStep

(* A chat whose messages, marker and counters a step leaves alone is right *)
(* after it, if the step posts or takes nothing for it, and asks for the   *)
(* list again where it forgets a call that was owed.                       *)
Untouched(c) ==
  /\ inbox'[c] = inbox[c] /\ marker'[c] = marker[c] /\ unseen'[c] = unseen[c]
  /\ c \in ToSet(visible') /\ c \notin ToSet(feed') => c \in ToSet(visible)
Forgets(c) == c \in ToSet(feed) /\ c \notin ToSet(feed')

LEMMA MadeKept ==
  ASSUME NEW c \in Chats, Divided(c), Made(c), LastMade(c), Untouched(c),
         CountsKept(uiq, uiq', c), Forgets(c) => ~Posted(c)
  PROVE  Divided(c)' /\ Made(c)' /\ LastMade(c)'
<1>1. Divided(c)'
  BY DEF Divided, Untouched, Newer
<1>2. Made(c)'
  BY DEF Made, CountMade, Untouched, CountsKept, Queue, Counts
<1>3. ASSUME c \notin ToSet(feed'), NEW i \in DOMAIN uiq', LastOf(uiq', i, c)
      PROVE  uiq'[i].upto = Len(inbox'[c]) /\ uiq'[i].raw = Cardinality(unseen'[c])
  <2>1. PICK k \in DOMAIN uiq : LastOf(uiq, k, c) /\ uiq[k] = uiq'[i]
    BY <1>3 DEF CountsKept
  <2>2. Posted(c)
    BY <2>1 DEF LastOf, Counts, Posted
  <2>3. c \notin ToSet(feed)
    BY <1>3, <2>2 DEF Forgets
  <2>4. uiq[k].upto = Len(inbox[c]) /\ uiq[k].raw = Cardinality(unseen[c])
    BY <2>1, <2>3 DEF LastMade, Owed
  <2>5. QED
    BY <2>1, <2>4 DEF Untouched
<1>4. LastMade(c)'
  BY <1>3 DEF LastMade, Owed
<1>5. QED
  BY <1>1, <1>2, <1>4

WorkAlike(c) ==
  \/ Work' = Work /\ ~Forgets(c)
  \/ \E j \in JobRecord : Work' = Work \cup {j} /\ j.stage = "asked" /\ j.todo = <<>>

LEMMA GotKept ==
  ASSUME NEW c \in Chats, ReadMade(c), GotMade(c), Untouched(c), WorkAlike(c),
         \A x \in Queue' : Listing(x) => x \in Queue
  PROVE  ReadMade(c)' /\ GotMade(c)'
<1>1. \A j \in Work' : j.stage = "counting" => j \in Work
  BY DEF WorkAlike
<1>2. ReadMade(c)'
  <2>1. \A j \in Work' : j.stage = "counting" => j.latest[c] = Len(inbox'[c])
    BY <1>1 DEF ReadMade, Untouched
  <2>2. QED
    BY <2>1 DEF ReadMade
<1>3. GotMade(c)'
  <2>1. \A j \in Work' : Counted(j, c) => marker'[c] # -1 /\ j.got[c] = Cardinality(unseen'[c])
    BY <1>1 DEF GotMade, Untouched, Counted, Owed
  <2>2. \A x \in Queue' : Listing(x) /\ c \in ToSet(x.order)
                            => marker'[c] # -1 /\ x.got[c] = Cardinality(unseen'[c])
    BY DEF GotMade, Untouched, Owed
  <2>3. QED
    BY <2>1, <2>2 DEF GotMade, Owed, Counted, Listing
<1>4. QED
  BY <1>2, <1>3

LEMMA DueKept ==
  ASSUME NEW c \in Chats, WorkAlike(c), QueueAlike(uiq, uiq', c),
         uiq \in Seq(Closure), uiq' \in Seq(Closure)
  PROVE  (Due(c) => Due(c)') /\ (Bound(c) => Bound(c)')
<1>1. \A x \in Closure : Counts(x, c) \/ Listing(x) => (x \in Queue <=> x \in Queue')
  BY DEF QueueAlike, Queue
<1>2. \A x \in Queue : x \in Closure
  BY DEF Queue, ToSet
<1>3. CASE Work' = Work /\ ~Forgets(c)
  <2>1. Due(c) => Due(c)'
    BY <1>1, <1>2, <1>3 DEF Due, Forgets, Counts
  <2>2. Bound(c) => Bound(c)'
    BY <1>1, <1>2, <1>3, <2>1 DEF Bound, Listing
  <2>3. QED
    BY <2>1, <2>2
<1>4. CASE \E j \in JobRecord : Work' = Work \cup {j} /\ j.stage = "asked" /\ j.todo = <<>>
  <2>1. Due(c)'
    BY <1>4 DEF Due
  <2>2. QED
    BY <2>1 DEF Bound
<1>5. QED
  BY <1>3, <1>4 DEF WorkAlike

LEMMA RightKept ==
  ASSUME Shaped, Shaped', NEW c \in Chats, Right(c), Untouched(c), WorkAlike(c),
         QueueAlike(uiq, uiq', c), Forgets(c) => ~Posted(c),
         counts'[c] = counts[c], badge'[c] = badge[c], c \in ToSet(list') => c \in ToSet(list)
  PROVE  Right(c)'
<1>1. uiq \in Seq(Closure) /\ uiq' \in Seq(Closure)
  BY DEF Shaped
<1>2. Divided(c)' /\ Made(c)' /\ LastMade(c)'
  BY MadeKept DEF Right, QueueAlike
<1>3. \A x \in Queue' : Listing(x) => x \in Queue
  BY <1>1 DEF QueueAlike, Queue, ToSet
<1>4. ReadMade(c)' /\ GotMade(c)'
  BY <1>3, GotKept DEF Right
<1>5. (Due(c) => Due(c)') /\ (Bound(c) => Bound(c)')
  BY <1>1, DueKept
<1>6. CountShown(c)'
  <2>1. ASSUME c \in ToSet(visible'), ~Due(c)' PROVE counts'[c] = Cardinality(unseen'[c])
    <3>1. c \notin ToSet(feed')
      BY <2>1 DEF Due
    <3>2. c \in ToSet(visible) /\ ~Due(c)
      BY <1>5, <2>1, <3>1 DEF Untouched
    <3>3. counts[c] = Owed(c)
      BY <3>2 DEF Right, CountShown
    <3>4. QED
      BY <3>3 DEF Owed, Untouched
  <2>2. QED
    BY <2>1 DEF CountShown, Owed
<1>7. BadgeShown(c)'
  <2>1. ASSUME c \in ToSet(list'), ~Bound(c)' PROVE badge'[c] = Cardinality(unseen'[c])
    BY <1>5, <2>1 DEF Right, BadgeShown, Owed, Untouched
  <2>2. QED
    BY <2>1 DEF BadgeShown, Owed
<1>8. QED
  BY <1>2, <1>4, <1>6, <1>7 DEF Right

(* The workers' bag.                                                       *)
LEMMA JobsAsked ==
  ASSUME Shaped, NEW k \in {"list", "merge", "refresh"}, jobs' = jobs (+) SetToBag({Job(k)})
  PROVE  /\ Work' = Work \cup {Job(k)} /\ Job(k) \in JobRecord
         /\ Job(k).stage = "asked" /\ Job(k).todo = <<>> /\ Job(k).order = <<>>
<1>1. IsBag(jobs, JobRecord) /\ Job(k) \in JobRecord
  BY JobAsked DEF Shaped, ChatsShaped
<1>2. Work' = Work \cup {Job(k)}
  BY <1>1, BagAdd DEF Work
<1>3. QED
  BY <1>1, <1>2 DEF Job

LEMMA JobsTaken ==
  ASSUME Shaped, NEW j \in Work, jobs' = jobs (-) SetToBag({j})
  PROVE  Work' \subseteq Work /\ Work \ {j} \subseteq Work' /\ j \in JobRecord
<1>1. IsBag(jobs, JobRecord) /\ j \in BagToSet(jobs)
  BY DEF Shaped, ChatsShaped, Work
<1>2. j \in JobRecord
  BY <1>1 DEF IsBag, BagToSet
<1>3. QED
  BY <1>1, <1>2, BagTake DEF Work

LEMMA JobsStepped ==
  ASSUME Shaped, NEW j \in Work, NEW to \in JobRecord, Step(j, to)
  PROVE  /\ Work' \subseteq Work \cup {to} /\ to \in Work' /\ Work \ {j} \subseteq Work'
         /\ j \in JobRecord
<1>1. IsBag(jobs, JobRecord) /\ j \in BagToSet(jobs)
  BY DEF Shaped, ChatsShaped, Work
<1>2. j \in JobRecord
  BY <1>1 DEF IsBag, BagToSet
<1> DEFINE less == jobs (-) SetToBag({j})
<1>3. /\ IsBag(less, JobRecord) /\ BagToSet(less) \subseteq BagToSet(jobs)
      /\ BagToSet(jobs) \ {j} \subseteq BagToSet(less)
  BY <1>1, BagTake
<1>4. jobs' = less (+) SetToBag({to})
  BY DEF Step
<1> HIDE DEF less
<1>5. BagToSet(jobs') = BagToSet(less) \cup {to}
  BY <1>3, <1>4, BagAdd
<1>6. QED
  BY <1>2, <1>3, <1>5 DEF Work

LEMMA WorkIs ==
  ASSUME Shaped
  PROVE  /\ \A j \in Work : j \in JobRecord
         /\ \A x \in Queue : x \in Closure
         /\ uiq \in Seq(Closure) /\ feed \in Seq(Chats) /\ list \in Seq(Chats)
         /\ visible \in Seq(Chats) /\ inbox \in [Chats -> Seq(Nat)] /\ clock \in Nat
BY DEF Shaped, ChatsShaped, Work, Queue, ToSet, IsBag, BagToSet

LEMMA InboxIs ==
  ASSUME Shaped, NEW c \in Chats
  PROVE  /\ inbox[c] \in Seq(Nat) /\ Len(inbox[c]) \in Nat
         /\ DOMAIN inbox[c] = 1 .. Len(inbox[c])
         /\ \A i \in DOMAIN inbox[c] : i \in Nat \ {0} /\ inbox[c][i] \in Nat
<1>1. inbox[c] \in Seq(Nat)
  BY WorkIs
<1> DEFINE q == inbox[c]
<1> HIDE DEF q
<1>2. q \in Seq(Nat)
  BY <1>1 DEF q
<1>3. /\ Len(q) \in Nat /\ DOMAIN q = 1 .. Len(q)
      /\ \A i \in DOMAIN q : i \in Nat \ {0} /\ q[i] \in Nat
  BY <1>2
<1>4. QED
  BY <1>2, <1>3 DEF q

LEMMA QueuedIs == ASSUME NEW k PROVE Queued(k) <=> \E x \in Queue : x.kind = k
BY DEF Queued, Queue, ToSet

-----------------------------------------------------------------------------
(* Steps that leave the counters alone: what the user writes, the clock,   *)
(* and the players.                                                        *)
Counters == <<inbox, visible, list, badge, chrome, unread, lastRead, feed, jobs, unseen,
              raced, stacked>>

LEMMA IdleKept ==
  ASSUME Shaped, Shaped', UnreadInv, UNCHANGED Counters, clock' >= clock,
         UNCHANGED uiq \/ PlayerStep
  PROVE  UnreadInv'
<1>1. /\ UNCHANGED <<inbox, visible, list, badge, title, rail, marker, counts, lastRead, feed,
                     jobs, unseen, raced, stacked>>
      /\ Work' = Work
  BY DEF Counters, chrome, unread, Work
<1>2. /\ uiq \in Seq(Closure) /\ uiq' \in Seq(Closure) /\ clock \in Nat /\ clock' \in Nat
      /\ inbox \in [Chats -> Seq(Nat)]
  BY DEF Shaped, ChatsShaped
<1>3. ASSUME NEW c PROVE QueueAlike(uiq, uiq', c)
  BY <1>2, PlayersAlike, QueuesAlike
<1>4. /\ \A x \in Queue' : x.kind = "chat" \/ Listing(x) => x \in Queue
      /\ \A x \in Queue : Listing(x) => x \in Queue'
  <2>1. \A x \in Queue : x \in Closure
    BY <1>2 DEF Queue, ToSet
  <2>2. \A x \in Queue' : x \in Closure
    BY <1>2 DEF Queue, ToSet
  <2>3. \A x \in Queue' : x.kind = "chat" \/ Listing(x) => x \in Queue
    BY <1>3, <2>2 DEF QueueAlike, Queue, Counts
  <2>4. \A x \in Queue : Listing(x) => x \in Queue'
    BY <1>3, <2>1 DEF QueueAlike, Queue
  <2>5. QED
    BY <2>3, <2>4
<1>5. UnreadTypes'
  BY <1>1 DEF UnreadInv, UnreadTypes
<1>6. Times'
  <2>1. ASSUME NEW c \in Chats PROVE Dated(c)'
    <3>1. marker[c] \in Nat \cup {-1} /\ lastRead[c] \in Nat \cup {-1}
      BY DEF UnreadInv, UnreadTypes
    <3>2. \A i \in DOMAIN inbox[c] : inbox[c][i] \in Nat
      BY <1>2
    <3>3. Dated(c)
      BY DEF UnreadInv, Times
    <3>4. QED
      BY <1>1, <1>2, <3>1, <3>2, <3>3 DEF Dated
  <2>2. ASSUME NEW x \in Queue', x.kind = "chat" PROVE x.now <= clock'
    <3>1. x \in Queue
      BY <1>4, <2>2
    <3> x \in Closure
      BY <1>2, <3>1 DEF Queue, ToSet
    <3>2. x.now \in Nat /\ x.now <= clock
      BY <2>2, <3>1, ClosureFields DEF UnreadInv, Times
    <3>3. QED
      BY <1>2, <3>2
  <2>3. QED
    BY <2>1, <2>2 DEF Times
<1>7. Named'
  BY <1>1, <1>4 DEF UnreadInv, Named, Ordered
<1>8. ChromeRight'
  <2>1. (\E x \in Queue : Listing(x)) => \E x \in Queue' : Listing(x)
    BY <1>4
  <2>2. Total(counts') = Total(counts)
    BY <1>1
  <2>3. QED
    BY <1>1, <2>1, <2>2 DEF UnreadInv, ChromeRight, Listing
<1>9. ASSUME NEW c \in Chats \ raced' PROVE Right(c)'
  <2>1. Right(c)
    BY <1>1 DEF UnreadInv
  <2>2. Untouched(c) /\ WorkAlike(c) /\ ~Forgets(c)
    BY <1>1 DEF Untouched, WorkAlike, Forgets
  <2>3. QED
    BY <1>1, <1>3, <2>1, <2>2, RightKept
<1>10. QED
  BY <1>5, <1>6, <1>7, <1>8, <1>9 DEF UnreadInv

(* A list is asked for: by a refresh, or by a switch of accounts, which    *)
(* forgets what the watcher has not called back for.                       *)
LEMMA AskedKept ==
  ASSUME Shaped, Shaped', UnreadInv, NEW k \in {"list", "merge", "refresh"},
         UNCHANGED <<uiq, clock, inbox, visible, badge, chrome, unread, lastRead, unseen, stacked>>,
         jobs' = jobs (+) SetToBag({Job(k)}),
         \/ UNCHANGED <<list, feed, raced>>
         \/ /\ list' = <<>> /\ feed' = <<>>
            /\ raced' = raced \cup {c \in ToSet(feed) : Posted(c)}
  PROVE  UnreadInv'
<1>1. /\ Work' = Work \cup {Job(k)} /\ Job(k) \in JobRecord
      /\ Job(k).stage = "asked" /\ Job(k).todo = <<>> /\ Job(k).order = <<>>
  BY JobsAsked
<1>2. /\ UNCHANGED <<title, rail, marker, counts>> /\ Queue' = Queue
  BY DEF chrome, unread, Queue
<1>3. /\ ToSet(list') \subseteq ToSet(list) /\ ToSet(feed') \subseteq ToSet(feed)
      /\ raced \subseteq raced' /\ ToSet(feed) \subseteq Chats
  BY WorkIs DEF ToSet
<1>4. UnreadTypes'
  BY <1>2, <1>3 DEF UnreadInv, UnreadTypes
<1>5. Times'
  BY <1>2 DEF UnreadInv, Times, Dated
<1>6. Named'
  <2>1. ToSet(<<>>) = {}
    BY DEF ToSet
  <2>2. \A j \in Work' : /\ ToSet(j.todo) \subseteq ToSet(j.order) /\ Ordered(j.order)
                         /\ j.stage = "asked" => j.todo = <<>>
    BY <1>1, <2>1 DEF UnreadInv, Named, Ordered
  <2>3. QED
    BY <1>2, <1>3, <2>2 DEF UnreadInv, Named, Ordered
<1>7. ChromeRight'
  <2>1. Work' # {}
    BY <1>1
  <2>2. QED
    BY <1>2, <2>1 DEF UnreadInv, ChromeRight
<1>8. ASSUME NEW c \in Chats \ raced' PROVE Right(c)'
  <2>1. Right(c)
    BY <1>3 DEF UnreadInv
  <2>2. Untouched(c) /\ WorkAlike(c)
    BY <1>1, <1>2 DEF Untouched, WorkAlike
  <2>3. Forgets(c) => ~Posted(c)
    BY <1>8 DEF Forgets
  <2>4. QueueAlike(uiq, uiq', c)
    BY WorkIs, QueuesAlike
  <2>5. counts'[c] = counts[c] /\ badge'[c] = badge[c] /\ (c \in ToSet(list') => c \in ToSet(list))
    BY <1>2, <1>3
  <2>6. QED
    BY <2>1, <2>2, <2>3, <2>4, <2>5, RightKept
<1>9. QED
  BY <1>4, <1>5, <1>6, <1>7, <1>8 DEF UnreadInv

(* The watcher has one more chat to call back for.                         *)
LEMMA FeedGrows ==
  ASSUME Shaped, NEW d \in Chats, feed' = Append(feed, d)
  PROVE  ToSet(feed') = ToSet(feed) \cup {d}
BY WorkIs, QueueAdds

LEMMA ComingKept ==
  ASSUME Shaped, Shaped', UnreadInv, NEW d \in Chats, Refire(d) \/ Join(d)
  PROVE  UnreadInv'
<1>1. /\ UNCHANGED <<uiq, clock, inbox, list, badge, title, rail, marker, counts, lastRead,
                     jobs, unseen, raced, stacked>>
      /\ feed' = Append(feed, d) /\ Work' = Work /\ Queue' = Queue
  BY DEF Refire, Join, rows, chrome, unread, Work, Queue
<1>2. ToSet(feed') = ToSet(feed) \cup {d}
  BY <1>1, FeedGrows
<1>3. ToSet(visible') \subseteq ToSet(visible) \cup {d} /\ ToSet(visible) \subseteq ToSet(visible')
      /\ d \in ToSet(visible')
  <2>1. CASE Refire(d)
    BY <2>1 DEF Refire, Contains, ToSet
  <2>2. CASE visible' = Append(visible, d)
    <3>1. ToSet(visible') = ToSet(visible) \cup {d}
      BY <2>2, WorkIs, QueueAdds
    <3>2. QED
      BY <3>1
  <2>3. CASE visible' = <<d>> \o visible
    <3>1. visible \in Seq(Chats)
      BY WorkIs
    <3>2. /\ DOMAIN visible' = 1 .. Len(visible) + 1 /\ visible'[1] = d
          /\ \A i \in DOMAIN visible : i + 1 \in DOMAIN visible' /\ visible'[i + 1] = visible[i]
          /\ \A i \in DOMAIN visible' : i = 1 \/ i - 1 \in DOMAIN visible
      BY <2>3, <3>1
    <3>3. \A i \in DOMAIN visible' : i = 1 \/ visible'[i] = visible[i - 1]
      BY <2>3, <3>1
    <3>4. 1 \in DOMAIN visible'
      BY <3>1, <3>2
    <3>5. QED
      BY <3>2, <3>3, <3>4 DEF ToSet
  <2>4. QED
    BY <2>1, <2>2, <2>3 DEF Join
<1>4. UnreadTypes'
  BY <1>1 DEF UnreadInv, UnreadTypes
<1>5. Times'
  BY <1>1 DEF UnreadInv, Times, Dated
<1>6. Named'
  BY <1>1, <1>2, <1>3 DEF UnreadInv, Named, Ordered, Listing
<1>7. ChromeRight'
  BY <1>1 DEF UnreadInv, ChromeRight, Listing
<1>8. ASSUME NEW c \in Chats \ raced' PROVE Right(c)'
  <2>1. Right(c)
    BY <1>1 DEF UnreadInv
  <2>2. Untouched(c) /\ WorkAlike(c) /\ ~Forgets(c)
    BY <1>1, <1>2, <1>3 DEF Untouched, WorkAlike, Forgets
  <2>3. QueueAlike(uiq, uiq', c)
    BY <1>1, WorkIs, QueuesAlike
  <2>4. QED
    BY <1>1, <2>1, <2>2, <2>3, RightKept
<1>9. QED
  BY <1>4, <1>5, <1>6, <1>7, <1>8 DEF UnreadInv

(* A message arrives: it is the newest, and it is newer than the marker or *)
(* the chat is raced.                                                      *)
LEMMA ArriveDated ==
  ASSUME Shaped, Times, NEW d \in Chats, Arrive(d)
  PROVE  /\ inbox'[d] = Append(inbox[d], clock) /\ Len(inbox[d]) \in Nat
         /\ DOMAIN inbox[d] = 1 .. Len(inbox[d])
         /\ DOMAIN inbox'[d] = 1 .. Len(inbox[d]) + 1 /\ Len(inbox'[d]) = Len(inbox[d]) + 1
         /\ inbox'[d][Len(inbox[d]) + 1] = clock
         /\ \A i \in DOMAIN inbox[d] : inbox'[d][i] = inbox[d][i] /\ inbox[d][i] \in Nat
         /\ \A c \in Chats : c # d => inbox'[c] = inbox[c]
<1>1. inbox' = [inbox EXCEPT ![d] = Append(@, clock)] /\ clock \in Nat
  BY WorkIs DEF Arrive
<1>2. inbox \in [Chats -> Seq(Nat)]
  BY WorkIs
<1>3. inbox[d] \in Seq(Nat)
  BY <1>2
<1>4. inbox'[d] = Append(inbox[d], clock) /\ \A c \in Chats : c # d => inbox'[c] = inbox[c]
  BY <1>1, <1>2
<1> DEFINE q == inbox[d]
<1> HIDE DEF q
<1>5. q \in Seq(Nat) /\ inbox'[d] = Append(q, clock)
  BY <1>3, <1>4 DEF q
<1>6. /\ Len(q) \in Nat /\ DOMAIN q = 1 .. Len(q) /\ DOMAIN Append(q, clock) = 1 .. Len(q) + 1
      /\ Len(Append(q, clock)) = Len(q) + 1 /\ Append(q, clock)[Len(q) + 1] = clock
      /\ \A i \in DOMAIN q : Append(q, clock)[i] = q[i] /\ q[i] \in Nat
  BY <1>1, <1>5
<1>7. QED
  BY <1>4, <1>5, <1>6 DEF q

LEMMA ArriveRight ==
  ASSUME Shaped, UnreadInv, NEW d \in Chats \ raced', Arrive(d)
  PROVE  Right(d)'
<1> DEFINE n == Len(inbox[d])
<1>1. /\ inbox'[d] = Append(inbox[d], clock) /\ n \in Nat /\ DOMAIN inbox[d] = 1 .. n
      /\ DOMAIN inbox'[d] = 1 .. n + 1 /\ Len(inbox'[d]) = n + 1 /\ inbox'[d][n + 1] = clock
      /\ \A i \in DOMAIN inbox[d] : inbox'[d][i] = inbox[d][i] /\ inbox[d][i] \in Nat
  BY ArriveDated DEF UnreadInv
<1> HIDE DEF n
<1>2. /\ UNCHANGED <<uiq, marker, counts, badge, jobs>> /\ feed' = Append(feed, d)
      /\ unseen' = [unseen EXCEPT ![d] = @ \cup {n + 1}] /\ Queue' = Queue /\ Work' = Work
      /\ d \notin raced /\ ~Counting /\ marker[d] # clock
  BY DEF Arrive, unread, rows, n, Queue, Work
<1>3. unseen'[d] = unseen[d] \cup {n + 1}
  BY <1>2 DEF UnreadInv, UnreadTypes
<1>4. /\ Right(d) /\ marker[d] \in Nat \cup {-1} /\ clock \in Nat /\ marker[d] <= clock
      /\ unseen[d] \subseteq DOMAIN inbox[d]
  BY <1>2, WorkIs DEF UnreadInv, UnreadTypes, Times, Dated
<1>5. d \in ToSet(feed')
  BY <1>2, FeedGrows
<1>6. /\ \A j \in Work : j.stage # "counting"
      /\ \A x \in Queue : ~Listing(x)
  BY <1>2, QueuedIs DEF Counting, Work, Listing
<1>7. Divided(d)'
  <2>1. ASSUME marker[d] # -1 PROVE unseen'[d] = {i \in DOMAIN inbox'[d] : inbox'[d][i] > marker[d]}
    <3>1. unseen[d] = {i \in DOMAIN inbox[d] : inbox[d][i] > marker[d]}
      BY <1>4, <2>1 DEF Right, Divided, Newer
    <3>2. clock > marker[d]
      BY <1>2, <1>4, <2>1
    <3>3. ASSUME NEW i PROVE i \in unseen'[d] <=> i \in DOMAIN inbox'[d] /\ inbox'[d][i] > marker[d]
      <4>1. CASE i = n + 1
        BY <1>1, <1>3, <3>2, <4>1
      <4>2. CASE i # n + 1
        <5>1. i \in DOMAIN inbox'[d] <=> i \in DOMAIN inbox[d]
          BY <1>1, <4>2
        <5>2. i \in unseen'[d] <=> i \in unseen[d]
          BY <1>3, <4>2
        <5>3. QED
          BY <1>1, <3>1, <5>1, <5>2
      <4>3. QED
        BY <4>1, <4>2
    <3>4. QED
      BY <3>3
  <2>2. QED
    BY <1>2, <2>1 DEF Divided, Newer
<1>8. Made(d)'
  <2>1. ASSUME NEW x \in Queue, Counts(x, d)
        PROVE  /\ marker[d] # -1 /\ x.upto <= n + 1
               /\ \A i \in DOMAIN inbox'[d] : i <= x.upto => inbox'[d][i] <= x.now
               /\ \A i \in DOMAIN inbox'[d] : i > x.upto => i \in unseen'[d]
    <3>1. CountMade(x, d) /\ x.upto \in Nat
      BY <1>4, <2>1, WorkIs, ClosureFields DEF Right, Made, Counts
    <3>2. marker[d] # -1 /\ x.upto <= n
      BY <3>1 DEF CountMade, n
    <3>3. ASSUME NEW i \in DOMAIN inbox'[d], i <= x.upto PROVE inbox'[d][i] <= x.now
      <4>1. i \in DOMAIN inbox[d]
        BY <1>1, <3>1, <3>2, <3>3
      <4>2. QED
        BY <1>1, <3>1, <3>3, <4>1 DEF CountMade
    <3>4. ASSUME NEW i \in DOMAIN inbox'[d], i > x.upto PROVE i \in unseen'[d]
      <4>1. i = n + 1 \/ i \in DOMAIN inbox[d]
        BY <1>1
      <4>2. QED
        BY <1>3, <3>1, <3>4, <4>1 DEF CountMade
    <3>5. QED
      BY <1>1, <3>1, <3>2, <3>3, <3>4
  <2>2. QED
    BY <1>1, <1>2, <2>1 DEF Made, CountMade, Counts
<1>9. LastMade(d)' /\ ReadMade(d)' /\ GotMade(d)'
  BY <1>2, <1>5, <1>6 DEF LastMade, ReadMade, GotMade, Counted
<1>10. Due(d)' /\ Bound(d)'
  BY <1>5 DEF Due, Bound
<1>11. QED
  BY <1>7, <1>8, <1>9, <1>10 DEF Right, CountShown, BadgeShown

LEMMA ArriveKept ==
  ASSUME Shaped, Shaped', UnreadInv, NEW d \in Chats, Arrive(d)
  PROVE  UnreadInv'
<1> DEFINE n == Len(inbox[d])
<1>1. /\ inbox'[d] = Append(inbox[d], clock) /\ n \in Nat /\ DOMAIN inbox[d] = 1 .. n
      /\ DOMAIN inbox'[d] = 1 .. n + 1 /\ inbox'[d][n + 1] = clock
      /\ \A i \in DOMAIN inbox[d] : inbox'[d][i] = inbox[d][i] /\ inbox[d][i] \in Nat
      /\ \A c \in Chats : c # d => inbox'[c] = inbox[c]
  BY ArriveDated DEF UnreadInv
<1> HIDE DEF n
<1>2. /\ UNCHANGED <<uiq, clock, visible, list, badge, title, rail, marker, counts, lastRead,
                     jobs, stacked>>
      /\ unseen' = [unseen EXCEPT ![d] = @ \cup {n + 1}] /\ feed' = Append(feed, d)
      /\ Queue' = Queue /\ Work' = Work /\ raced' \in {raced, raced \cup {d}}
      /\ d \in ToSet(visible)
  BY DEF Arrive, unread, rows, chrome, n, Queue, Work, Contains, ToSet
<1>3. UnreadTypes /\ \A c \in Chats : unseen'[c] = IF c = d THEN unseen[d] \cup {n + 1} ELSE unseen[c]
  BY <1>2 DEF UnreadInv, UnreadTypes
<1>4. ToSet(feed') = ToSet(feed) \cup {d}
  BY <1>2, FeedGrows
<1>5. UnreadTypes'
  <2>1. unseen' \in [Chats -> SUBSET Nat]
    BY <1>1, <1>2, <1>3 DEF UnreadTypes
  <2>2. raced' \subseteq Chats
    BY <1>2, <1>3 DEF UnreadTypes
  <2>3. QED
    BY <1>2, <1>3, <2>1, <2>2 DEF UnreadTypes
<1>6. Times'
  <2>1. ASSUME NEW c \in Chats PROVE Dated(c)'
    <3>1. Dated(c)
      BY DEF UnreadInv, Times
    <3>2. CASE c # d
      BY <1>1, <1>2, <1>3, <3>1, <3>2 DEF Dated
    <3>3. CASE c = d
      <4>1. clock \in Nat /\ \A i \in DOMAIN inbox[d] : inbox[d][i] <= clock
        BY <3>1, <3>3, WorkIs DEF Dated
      <4>2. \A i \in DOMAIN inbox'[d] : inbox'[d][i] <= clock
        BY <1>1, <4>1
      <4>3. ASSUME NEW i \in DOMAIN inbox'[d], NEW k \in DOMAIN inbox'[d], k <= i
            PROVE  inbox'[d][k] <= inbox'[d][i]
        <5>1. CASE i = n + 1
          BY <1>1, <4>2, <5>1
        <5>2. CASE i # n + 1
          <6>1. i \in DOMAIN inbox[d] /\ k \in DOMAIN inbox[d]
            BY <1>1, <4>3, <5>2
          <6>2. inbox[d][k] <= inbox[d][i]
            BY <3>1, <3>3, <4>3, <6>1 DEF Dated
          <6>3. QED
            BY <1>1, <6>1, <6>2
        <5>3. QED
          BY <5>1, <5>2
      <4>4. unseen'[d] \subseteq DOMAIN inbox'[d]
        <5>1. unseen[d] \subseteq DOMAIN inbox[d]
          BY <3>1, <3>3 DEF Dated
        <5>2. QED
          BY <1>1, <1>3, <5>1
      <4>5. QED
        BY <1>2, <3>1, <3>3, <4>2, <4>3, <4>4 DEF Dated
    <3>4. QED
      BY <3>2, <3>3
  <2>2. QED
    BY <1>2, <2>1 DEF UnreadInv, Times
<1>7. Named'
  BY <1>2, <1>4 DEF UnreadInv, Named, Ordered, Listing
<1>8. ChromeRight'
  BY <1>2 DEF UnreadInv, ChromeRight, Listing
<1>9. ASSUME NEW c \in Chats \ raced' PROVE Right(c)'
  <2>1. CASE c = d
    BY <1>9, <2>1, ArriveRight
  <2>2. CASE c # d
    <3>1. Right(c)
      BY <1>2, <1>9, <2>2 DEF UnreadInv
    <3>2. Untouched(c) /\ WorkAlike(c) /\ ~Forgets(c)
      BY <1>1, <1>2, <1>3, <1>4, <2>2 DEF Untouched, WorkAlike, Forgets
    <3>3. QueueAlike(uiq, uiq', c)
      BY <1>2, WorkIs, QueuesAlike
    <3>4. QED
      BY <1>2, <3>1, <3>2, <3>3, RightKept
  <2>3. QED
    BY <2>1, <2>2
<1>10. QED
  BY <1>5, <1>6, <1>7, <1>8, <1>9 DEF UnreadInv

(* The user opens a chat: everything in it is read.                        *)
LEMMA SelectEffect ==
  ASSUME UnreadTypes, NEW k \in DOMAIN list, Select(k), list \in Seq(Chats)
  PROVE  LET d == list[k] IN
         /\ d \in Chats
         /\ UNCHANGED <<uiq, clock, inbox, visible, list, feed, jobs>>
         /\ \A c \in Chats : c # d => /\ marker'[c] = marker[c] /\ counts'[c] = counts[c]
                                      /\ badge'[c] = badge[c] /\ unseen'[c] = unseen[c]
                                      /\ lastRead'[c] = lastRead[c]
         /\ marker'[d] = clock /\ lastRead'[d] = clock /\ counts'[d] = 0 /\ badge'[d] = 0
         /\ unseen'[d] = {}
         /\ title' = Total(counts') /\ rail' = rail + Total(counts')
         /\ stacked' = (stacked \/ rail # 0 \/ Total(counts') # 0)
         /\ raced' = IF Computed(d) THEN raced \cup {d} ELSE raced
<1> DEFINE d == list[k]
<1>1. d \in Chats
  OBVIOUS
<1>2. /\ UNCHANGED <<uiq, clock, inbox, visible, list, feed, jobs>>
      /\ marker' = [marker EXCEPT ![d] = clock] /\ lastRead' = [lastRead EXCEPT ![d] = clock]
      /\ counts' = [counts EXCEPT ![d] = 0] /\ badge' = [badge EXCEPT ![d] = 0]
      /\ unseen' = [unseen EXCEPT ![d] = {}]
  BY DEF Select
<1>3. /\ title' = Total(counts') /\ rail' = rail + Total(counts')
      /\ stacked' = (stacked \/ rail # 0 \/ Total(counts') # 0)
      /\ raced' = IF Computed(d) THEN raced \cup {d} ELSE raced
  BY DEF Select, RefreshChrome
<1> HIDE DEF d
<1>4. /\ \A c \in Chats : c # d => /\ marker'[c] = marker[c] /\ counts'[c] = counts[c]
                                   /\ badge'[c] = badge[c] /\ unseen'[c] = unseen[c]
                                   /\ lastRead'[c] = lastRead[c]
      /\ marker'[d] = clock /\ lastRead'[d] = clock /\ counts'[d] = 0 /\ badge'[d] = 0
      /\ unseen'[d] = {}
  BY <1>1, <1>2 DEF UnreadTypes
<1>5. QED
  BY <1>1, <1>2, <1>3, <1>4 DEF d

LEMMA SelectKept ==
  ASSUME Shaped, Shaped', UnreadInv, NEW k \in DOMAIN list, Select(k)
  PROVE  UnreadInv'
<1>1. PICK d \in Chats :
         /\ UNCHANGED <<uiq, clock, inbox, visible, list, feed, jobs>>
         /\ \A c \in Chats : c # d => /\ marker'[c] = marker[c] /\ counts'[c] = counts[c]
                                      /\ badge'[c] = badge[c] /\ unseen'[c] = unseen[c]
                                      /\ lastRead'[c] = lastRead[c]
         /\ marker'[d] = clock /\ lastRead'[d] = clock /\ counts'[d] = 0 /\ badge'[d] = 0
         /\ unseen'[d] = {}
         /\ title' = Total(counts') /\ rail' = rail + Total(counts')
         /\ stacked' = (stacked \/ rail # 0 \/ Total(counts') # 0)
         /\ raced' = IF Computed(d) THEN raced \cup {d} ELSE raced
  <2>1. UnreadTypes /\ list \in Seq(Chats)
    BY WorkIs DEF UnreadInv
  <2>2. QED
    BY <2>1, SelectEffect
<1>2. Queue' = Queue /\ Work' = Work /\ clock \in Nat
  BY <1>1, WorkIs DEF Queue, Work
<1>3. UnreadTypes'
  <2>1. UnreadTypes
    BY DEF UnreadInv
  <2>2. PICK e : /\ marker' = [marker EXCEPT ![e] = clock]
                 /\ lastRead' = [lastRead EXCEPT ![e] = clock]
                 /\ counts' = [counts EXCEPT ![e] = 0] /\ badge' = [badge EXCEPT ![e] = 0]
                 /\ unseen' = [unseen EXCEPT ![e] = {}]
    BY DEF Select
  <2>3. raced' \subseteq Chats /\ stacked' \in BOOLEAN
    BY <1>1, <2>1 DEF UnreadTypes
  <2>4. /\ marker' \in [Chats -> Nat \cup {-1}] /\ lastRead' \in [Chats -> Nat \cup {-1}]
        /\ counts' \in [Chats -> Nat] /\ badge' \in [Chats -> Nat]
        /\ unseen' \in [Chats -> SUBSET Nat]
    <3>1. marker' \in [Chats -> Nat \cup {-1}] /\ lastRead' \in [Chats -> Nat \cup {-1}]
      BY <1>2, <2>1, <2>2 DEF UnreadTypes
    <3>2. counts' \in [Chats -> Nat] /\ badge' \in [Chats -> Nat]
      BY <2>1, <2>2 DEF UnreadTypes
    <3>3. unseen' \in [Chats -> SUBSET Nat]
      BY <2>1, <2>2 DEF UnreadTypes
    <3>4. QED
      BY <3>1, <3>2, <3>3
  <2>5. QED
    BY <2>3, <2>4 DEF UnreadTypes
<1>4. Times'
  <2>1. ASSUME NEW c \in Chats PROVE Dated(c)'
    <3>1. Dated(c)
      BY DEF UnreadInv, Times
    <3>2. marker'[c] <= clock' /\ lastRead'[c] <= clock' /\ unseen'[c] \subseteq DOMAIN inbox'[c]
      BY <1>1, <1>2, <3>1 DEF Dated
    <3>3. QED
      BY <1>1, <3>1, <3>2 DEF Dated
  <2>2. QED
    BY <1>1, <1>2, <2>1 DEF UnreadInv, Times
<1>5. Named'
  BY <1>1, <1>2 DEF UnreadInv, Named, Ordered, Listing
<1>6. ChromeRight'
  <2>1. ASSUME ~stacked' PROVE rail' = title'
    <3>1. rail = 0 /\ Total(counts') = 0
      BY <1>1, <2>1
    <3>2. QED
      BY <1>1, <3>1
  <2>2. title' = Total(counts')
    BY <1>1
  <2>3. QED
    BY <2>1, <2>2 DEF ChromeRight
<1>7. ASSUME NEW c \in Chats \ raced' PROVE Right(c)'
  <2>1. Right(c) /\ raced \subseteq raced'
    BY <1>1, <1>7 DEF UnreadInv
  <2>2. CASE c # d
    <3>1. Untouched(c) /\ WorkAlike(c) /\ ~Forgets(c)
      BY <1>1, <1>2, <2>2 DEF Untouched, WorkAlike, Forgets
    <3>2. QueueAlike(uiq, uiq', c)
      BY <1>1, WorkIs, QueuesAlike
    <3>3. QED
      BY <1>1, <2>1, <2>2, <3>1, <3>2, RightKept
  <2>3. CASE c = d
    <3>1. ~Computed(c)
      BY <1>1, <1>7, <2>3
    <3>2. /\ \A j \in Work : j.stage = "counting" => c \in ToSet(j.todo)
          /\ \A x \in Queue : ~Listing(x) /\ ~Counts(x, c)
      <4>1. \A j \in Work : j.stage = "counting" => Contains(j.todo, c)
        BY <3>1 DEF Computed, Work
      <4>2. \A x \in Queue : ~Listing(x)
        BY <3>1, QueuedIs DEF Computed, Listing
      <4>3. \A x \in Queue : ~Counts(x, c)
        BY <3>1 DEF Computed, Posted, Queue, ToSet, Counts
      <4>4. QED
        BY <4>1, <4>2, <4>3 DEF Contains, ToSet
    <3>3. Divided(c)'
      <4>1. \A i \in DOMAIN inbox[c] : inbox[c][i] <= clock /\ inbox[c][i] \in Nat
        BY InboxIs DEF UnreadInv, Times, Dated
      <4>2. {i \in DOMAIN inbox'[c] : inbox'[c][i] > clock} = {}
        BY <1>1, <1>2, <4>1
      <4>3. QED
        BY <1>1, <2>3, <4>2 DEF Divided, Newer
    <3>4. Made(c)'
      BY <1>2, <3>2 DEF Made, Counts
    <3>5. LastMade(c)'
      BY <1>1, <3>2 DEF LastMade, LastOf, Queue, ToSet, Counts
    <3>6. ReadMade(c)'
      BY <1>1, <1>2, <2>1 DEF Right, ReadMade
    <3>7. GotMade(c)'
      BY <1>2, <3>2 DEF GotMade, Counted, Listing
    <3>8. CountShown(c)' /\ BadgeShown(c)'
      <4>1. Cardinality({}) = 0
        BY FS_EmptySet
      <4>2. QED
        BY <1>1, <2>3, <4>1 DEF CountShown, BadgeShown, Owed
    <3>9. QED
      BY <3>3, <3>4, <3>5, <3>6, <3>7, <3>8 DEF Right
  <2>4. QED
    BY <2>2, <2>3
<1>8. QED
  BY <1>3, <1>4, <1>5, <1>6, <1>7 DEF UnreadInv

(* A chat is counted: its marker is seeded if it has none, and the count   *)
(* is that of the messages not yet shown.                                  *)
LEMMA SeedEffect ==
  ASSUME Shaped, UnreadTypes, Times, NEW d \in Chats, Seed(d), UNCHANGED <<inbox, clock>>
  PROVE  /\ Mark(d) \in Nat /\ Mark(d) <= clock /\ marker'[d] = Mark(d)
         /\ \A c \in Chats : c # d => marker'[c] = marker[c] /\ unseen'[c] = unseen[c]
         /\ marker[d] # -1 => marker'[d] = marker[d] /\ unseen'[d] = unseen[d]
         /\ unseen'[d] \subseteq unseen[d]
         /\ marker' \in [Chats -> Nat \cup {-1}] /\ unseen' \in [Chats -> SUBSET Nat]
         /\ \A c \in Chats : /\ marker'[c] <= clock'
                             /\ unseen'[c] \subseteq DOMAIN inbox'[c]
         /\ Divided(d) => unseen'[d] = Newer(d, Mark(d))
<1>1. /\ marker[d] \in Nat \cup {-1} /\ clock \in Nat /\ clock # -1
      /\ \A c \in Chats : Dated(c)
  BY WorkIs DEF UnreadTypes, Times
<1>2. Mark(d) \in Nat /\ Mark(d) <= clock /\ (marker[d] # -1 => Mark(d) = marker[d])
  BY <1>1 DEF Mark, Dated
<1>3. /\ marker' = [marker EXCEPT ![d] = Mark(d)]
      /\ marker[d] = -1 => unseen' = [unseen EXCEPT ![d] = {}]
      /\ marker[d] # -1 => unseen' = unseen
  BY DEF Seed
<1> DEFINE m == Mark(d)
<1> HIDE DEF m
<1>4. marker' \in [Chats -> Nat \cup {-1}]
  <2>1. m \in Nat \cup {-1} /\ marker' = [marker EXCEPT ![d] = m]
    BY <1>2, <1>3 DEF m
  <2>2. QED
    BY <2>1 DEF UnreadTypes
<1>5. unseen' \in [Chats -> SUBSET Nat]
  BY <1>3 DEF UnreadTypes
<1>6. /\ marker'[d] = Mark(d)
      /\ \A c \in Chats : c # d => marker'[c] = marker[c] /\ unseen'[c] = unseen[c]
      /\ marker[d] # -1 => marker'[d] = marker[d] /\ unseen'[d] = unseen[d]
      /\ marker[d] = -1 => unseen'[d] = {}
      /\ unseen'[d] \subseteq unseen[d]
  BY <1>2, <1>3 DEF UnreadTypes
<1>7. ASSUME NEW c \in Chats PROVE marker'[c] <= clock' /\ unseen'[c] \subseteq DOMAIN inbox'[c]
  <2>1. marker[c] <= clock /\ unseen[c] \subseteq DOMAIN inbox[c]
    BY <1>1 DEF Dated
  <2>2. QED
    BY <1>2, <1>6, <2>1
<1>8. ASSUME Divided(d) PROVE unseen'[d] = Newer(d, Mark(d))
  <2>1. CASE marker[d] # -1
    BY <1>2, <1>6, <1>8, <2>1 DEF Divided
  <2>2. CASE marker[d] = -1
    <3>1. Mark(d) = clock
      BY <2>2 DEF Mark
    <3>2. \A i \in DOMAIN inbox[d] : inbox[d][i] <= clock /\ inbox[d][i] \in Nat
      BY <1>1, InboxIs DEF Dated
    <3>3. Newer(d, clock) = {}
      BY <1>1, <3>2 DEF Newer
    <3>4. QED
      BY <1>6, <2>2, <3>1, <3>3
  <2>3. QED
    BY <2>1, <2>2
<1>9. QED
  BY <1>2, <1>4, <1>5, <1>6, <1>7, <1>8

LEMMA UnreadIs ==
  ASSUME Shaped, Times, NEW d \in Chats, NEW mark \in Nat
  PROVE  Unread(d, mark, Len(inbox[d])) = Cardinality(Newer(d, mark))
<1> DEFINE n == Len(inbox[d])
<1>1. /\ inbox[d] \in Seq(Nat) /\ n \in Nat /\ DOMAIN inbox[d] = 1 .. n
      /\ \A i \in DOMAIN inbox[d] : inbox[d][i] \in Nat
  BY InboxIs
<1>2. \A i, k \in DOMAIN inbox[d] : k <= i => inbox[d][k] <= inbox[d][i]
  BY DEF Times, Dated
<1>3. ASSUME ~ (n > 0 /\ inbox[d][n] > mark) PROVE Cardinality(Newer(d, mark)) = 0
  <2>1. ASSUME NEW i \in DOMAIN inbox[d], inbox[d][i] > mark PROVE FALSE
    <3>1. n \in DOMAIN inbox[d] /\ i <= n /\ n > 0
      BY <1>1
    <3>2. inbox[d][i] <= inbox[d][n]
      BY <1>2, <3>1
    <3>3. QED
      BY <1>1, <1>3, <2>1, <3>1, <3>2
  <2>2. Newer(d, mark) = {}
    BY <2>1 DEF Newer
  <2>3. QED
    BY <2>2, FS_EmptySet
<1>4. QED
  BY <1>3 DEF Unread

LEMMA SeedMade ==
  ASSUME NEW d \in Chats, NEW x, marker[d] # -1 => marker'[d] = marker[d] /\ unseen'[d] = unseen[d],
         UNCHANGED inbox, CountMade(x, d)
  PROVE  CountMade(x, d)'
BY DEF CountMade

(* What the watcher counts.                                                *)
LEMMA CallbackKept ==
  ASSUME Shaped, Shaped', UnreadInv, Callback
  PROVE  UnreadInv'
<1>1. PICK d \in Chats : d = Head(feed) /\ ToSet(feed) = ToSet(feed') \cup {d}
  BY WorkIs, QueueDrops DEF Callback
<1>2. PICK x : x = [kind |-> "chat", chat |-> d, now |-> clock, upto |-> Len(inbox[d]),
                    raw  |-> Unread(d, Mark(d), Len(inbox[d]))]
  OBVIOUS
<1>3. /\ UNCHANGED <<clock, inbox, visible, list, badge, title, rail, counts, lastRead, jobs,
                     raced, stacked>>
      /\ Seed(d) /\ uiq' = Append(uiq, x)
  BY <1>1, <1>2 DEF Callback, Post, rows, chrome
<1>4. /\ UnreadTypes /\ Times /\ Named /\ \A c \in Chats \ raced : Right(c)
  BY DEF UnreadInv
<1>5. /\ Mark(d) \in Nat /\ Mark(d) <= clock /\ marker'[d] = Mark(d)
      /\ \A c \in Chats : c # d => marker'[c] = marker[c] /\ unseen'[c] = unseen[c]
      /\ marker[d] # -1 => marker'[d] = marker[d] /\ unseen'[d] = unseen[d]
      /\ unseen'[d] \subseteq unseen[d]
      /\ marker' \in [Chats -> Nat \cup {-1}] /\ unseen' \in [Chats -> SUBSET Nat]
      /\ \A c \in Chats : marker'[c] <= clock' /\ unseen'[c] \subseteq DOMAIN inbox'[c]
      /\ Divided(d) => unseen'[d] = Newer(d, Mark(d))
  BY <1>3, <1>4, SeedEffect
<1>6. /\ x \in Closure /\ x.kind = "chat" /\ x.chat = d /\ x.now = clock /\ x.upto = Len(inbox[d])
      /\ x.raw = Unread(d, Mark(d), Len(inbox[d])) /\ ~Listing(x) /\ Counts(x, d)
  <2>1. Len(inbox[d]) \in Nat /\ clock \in Nat /\ Unread(d, Mark(d), Len(inbox[d])) \in Nat
    BY WorkIs, UnreadCounts DEF Shaped
  <2>2. QED
    BY <1>2, <2>1 DEF Closure, ForChats, Listing, Counts
<1>7. /\ uiq \in Seq(Closure) /\ Queue' = Queue \cup {x} /\ Work' = Work
      /\ clock \in Nat
  BY <1>3, <1>6, WorkIs, QueueAdds DEF Queue, Work
<1>8. UnreadTypes'
  BY <1>3, <1>4, <1>5 DEF UnreadTypes
<1>9. Times'
  <2>1. ASSUME NEW c \in Chats PROVE Dated(c)'
    BY <1>3, <1>4, <1>5 DEF Times, Dated
  <2>2. \A y \in Queue' : y.kind = "chat" => y.now <= clock'
    BY <1>3, <1>4, <1>6, <1>7 DEF Times
  <2>3. QED
    BY <2>1, <2>2 DEF Times
<1>10. Named'
  BY <1>1, <1>3, <1>4, <1>6, <1>7 DEF Named, Ordered, Listing
<1>11. ChromeRight'
  BY <1>3, <1>6, <1>7 DEF UnreadInv, ChromeRight, Listing
<1>12. ASSUME NEW c \in Chats \ raced' PROVE Right(c)'
  <2>1. Right(c)
    BY <1>3, <1>4, <1>12
  <2>2. CASE c # d
    <3>1. Untouched(c) /\ WorkAlike(c) /\ ~Forgets(c)
      BY <1>1, <1>3, <1>5, <1>7, <2>2 DEF Untouched, WorkAlike, Forgets
    <3>2. QueueAlike(uiq, uiq', c)
      <4>1. ~Counts(x, c)
        BY <1>6, <2>2 DEF Counts
      <4>2. QED
        BY <1>3, <1>6, <1>7, <4>1, QueuesAlike
    <3>3. QED
      BY <1>3, <2>1, <3>1, <3>2, RightKept
  <2>3. CASE c = d
    <3>1. unseen'[d] = Newer(d, Mark(d)) /\ x.raw = Cardinality(unseen'[d])
      <4>1. Divided(d)
        BY <2>1, <2>3 DEF Right
      <4>2. QED
        BY <1>4, <1>5, <1>6, <4>1, UnreadIs
    <3>2. Divided(d)'
      BY <1>3, <1>5, <3>1 DEF Divided, Newer
    <3>3. Made(d)'
      <4>1. ASSUME NEW y \in Queue, Counts(y, d) PROVE CountMade(y, d)'
        BY <1>3, <1>5, <2>1, <2>3, <4>1, SeedMade DEF Right, Made
      <4>2. CountMade(x, d)'
        <5>1. \A i \in DOMAIN inbox[d] : inbox[d][i] <= clock /\ i <= Len(inbox[d])
          BY <1>4, InboxIs DEF Times, Dated
        <5>2. Len(inbox[d]) \in Nat /\ DOMAIN inbox[d] = 1 .. Len(inbox[d])
          BY InboxIs
        <5>3. QED
          BY <1>3, <1>5, <1>6, <5>1, <5>2 DEF CountMade
      <4>3. QED
        BY <1>7, <4>1, <4>2 DEF Made, Counts
    <3>4. LastMade(d)'
      <4>1. \A i \in DOMAIN uiq' : LastOf(uiq', i, d) => uiq'[i] = x
        BY <1>3, <1>6, <1>7, CountAdded
      <4>2. QED
        BY <1>3, <1>6, <3>1, <4>1 DEF LastMade, Owed
    <3>5. ReadMade(d)'
      BY <1>3, <1>7, <2>1, <2>3 DEF Right, ReadMade
    <3>6. GotMade(d)'
      <4>1. \A j \in Work : Counted(j, d) => marker[d] # -1 /\ j.got[d] = Owed(d)
        BY <2>1, <2>3 DEF Right, GotMade
      <4>2. \A y \in Queue : Listing(y) /\ d \in ToSet(y.order) => marker[d] # -1 /\ y.got[d] = Owed(d)
        BY <2>1, <2>3 DEF Right, GotMade
      <4>3. QED
        BY <1>5, <1>6, <1>7, <4>1, <4>2 DEF GotMade, Owed, Counted, Listing
    <3>7. Due(d)' /\ Bound(d)'
      BY <1>6, <1>7 DEF Due, Bound, Counts
    <3>8. QED
      BY <2>3, <3>2, <3>3, <3>4, <3>5, <3>6, <3>7 DEF Right, CountShown, BadgeShown
  <2>4. QED
    BY <2>2, <2>3
<1>13. QED
  BY <1>8, <1>9, <1>10, <1>11, <1>12 DEF UnreadInv

(* A posted count is shown; if its chat is on screen, everything counted   *)
(* has been read instead.                                                  *)
LEMMA TakenIs ==
  ASSUME Shaped, NEW k, Turn(k), Take(<<>>)
  PROVE  /\ uiq # <<>> /\ uiq' = Tail(uiq) /\ Head(uiq) = uiq[1] /\ 1 \in DOMAIN uiq
         /\ Head(uiq) \in Closure /\ Head(uiq).kind = k
         /\ Queue = Queue' \cup {Head(uiq)} /\ Head(uiq) \in Queue
         /\ \A i \in DOMAIN uiq' : uiq'[i] = uiq[i + 1] /\ i + 1 \in DOMAIN uiq /\ i \in Nat \ {0}
         /\ \A i \in DOMAIN uiq : i = 1 \/ (i - 1 \in DOMAIN uiq' /\ i \in 2 .. Len(uiq))
<1>1. uiq \in Seq(Closure) /\ uiq # <<>> /\ Head(uiq).kind = k
  BY WorkIs DEF Turn
<1>2. /\ Head(uiq) \in Closure /\ Head(uiq) = uiq[1] /\ Tail(uiq) \in Seq(Closure)
      /\ ToSet(uiq) = ToSet(Tail(uiq)) \cup {Head(uiq)}
      /\ Len(uiq) \in Nat \ {0} /\ DOMAIN uiq = 1 .. Len(uiq)
      /\ DOMAIN Tail(uiq) = 1 .. Len(uiq) - 1
      /\ \A i \in DOMAIN Tail(uiq) : Tail(uiq)[i] = uiq[i + 1] /\ i + 1 \in DOMAIN uiq
      /\ Tail(uiq) \o <<>> = Tail(uiq)
  BY <1>1, QueueDrops
<1>3. uiq' = Tail(uiq)
  BY <1>2 DEF Take
<1>4. \A i \in DOMAIN uiq' : i \in Nat \ {0} /\ uiq'[i] = uiq[i + 1] /\ i + 1 \in DOMAIN uiq
  BY <1>2, <1>3
<1> DEFINE n == Len(uiq)  D == DOMAIN Tail(uiq)  E == DOMAIN uiq
<1> HIDE DEF n, D, E
<1>5. n \in Nat \ {0} /\ E = 1 .. n /\ D = 1 .. n - 1
  BY <1>2 DEF n, D, E
<1>6. \A i \in E : i = 1 \/ (i - 1 \in D /\ i \in 2 .. n)
  BY <1>5
<1>7. /\ 1 \in DOMAIN uiq
      /\ \A i \in DOMAIN uiq : i = 1 \/ (i - 1 \in DOMAIN uiq' /\ i \in 2 .. Len(uiq))
  BY <1>3, <1>5, <1>6 DEF n, D, E
<1>8. Queue = Queue' \cup {Head(uiq)} /\ Head(uiq) \in Queue
  BY <1>2, <1>3 DEF Queue
<1>9. QED
  BY <1>1, <1>2, <1>3, <1>4, <1>7, <1>8

LEMMA RunChatEffect ==
  ASSUME Shaped, UnreadTypes, RunChat
  PROVE  \E d \in Chats, n \in Nat :
         /\ d = Head(uiq).chat /\ Counts(Head(uiq), d) /\ ~Listing(Head(uiq))
         /\ n = (IF Viewing(d) THEN 0 ELSE Head(uiq).raw)
         /\ Head(uiq).now \in Nat /\ Head(uiq).upto \in Nat
         /\ UNCHANGED <<clock, inbox, visible, lastRead, feed, jobs>> /\ Work' = Work
         /\ \A c \in Chats : c # d => /\ marker'[c] = marker[c] /\ unseen'[c] = unseen[c]
                                      /\ counts'[c] = counts[c] /\ badge'[c] = badge[c]
         /\ counts'[d] = n /\ badge'[d] = n
         /\ counts' \in [Chats -> Nat] /\ badge' \in [Chats -> Nat]
         /\ ToSet(list') \subseteq ToSet(list) \cup {d}
         /\ title' = Total(counts') /\ rail' = 0 + Total(counts') /\ stacked' = FALSE
         /\ Viewing(d) => /\ marker' = [marker EXCEPT ![d] = Head(uiq).now]
                          /\ unseen' = [unseen EXCEPT ![d] = @ \ (1 .. Head(uiq).upto)]
                          /\ raced' = IF Counting \/ Overtaken THEN raced \cup {d} ELSE raced
         /\ ~Viewing(d) => UNCHANGED <<marker, unseen, raced>>
<1> DEFINE h == Head(uiq)  d == h.chat  n == IF Viewing(d) THEN 0 ELSE h.raw
<1>1. h \in Closure /\ h.kind = "chat"
  BY TakenIs DEF RunChat
<1>2. d \in Chats /\ n \in Nat /\ h.now \in Nat /\ h.upto \in Nat /\ Counts(h, d) /\ ~Listing(h)
  BY <1>1, ClosureFields DEF Counts, Listing
<1>3. /\ UNCHANGED <<clock, inbox, visible, lastRead, feed, jobs>> /\ Work' = Work
      /\ counts' = [counts EXCEPT ![d] = n] /\ badge' = [badge EXCEPT ![d] = n]
      /\ title' = Total(counts') /\ rail' = 0 + Total(counts') /\ stacked' = FALSE
      /\ Viewing(d) => /\ marker' = [marker EXCEPT ![d] = h.now]
                       /\ unseen' = [unseen EXCEPT ![d] = @ \ (1 .. h.upto)]
                       /\ raced' = IF Counting \/ Overtaken THEN raced \cup {d} ELSE raced
      /\ ~Viewing(d) => UNCHANGED <<marker, unseen, raced>>
      /\ list' = (IF Contains(list, d) THEN list ELSE Append(list, d))
  BY DEF RunChat, RefreshChrome, Work
<1> HIDE DEF d, n, h
<1>4. /\ counts' \in [Chats -> Nat] /\ badge' \in [Chats -> Nat]
      /\ counts'[d] = n /\ badge'[d] = n
      /\ \A c \in Chats : c # d => counts'[c] = counts[c] /\ badge'[c] = badge[c]
  BY <1>2, <1>3 DEF UnreadTypes
<1>5. \A c \in Chats : c # d => marker'[c] = marker[c] /\ unseen'[c] = unseen[c]
  BY <1>3 DEF UnreadTypes
<1>6. ToSet(list') \subseteq ToSet(list) \cup {d}
  <2>1. ToSet(Append(list, d)) = ToSet(list) \cup {d}
    BY <1>2, WorkIs, QueueAdds
  <2>2. QED
    BY <1>3, <2>1
<1>7. QED
  BY <1>2, <1>3, <1>4, <1>5, <1>6 DEF d, n, h

LEMMA RunChatRight ==
  ASSUME Shaped, UnreadInv, RunChat, NEW d \in Chats \ raced', d = Head(uiq).chat
  PROVE  Right(d)'
<1> DEFINE h == Head(uiq)
<1>1. /\ h \in Closure /\ h = uiq[1] /\ 1 \in DOMAIN uiq /\ uiq' = Tail(uiq) /\ uiq # <<>>
      /\ Queue = Queue' \cup {h} /\ h \in Queue
      /\ \A i \in DOMAIN uiq' : uiq'[i] = uiq[i + 1] /\ i + 1 \in DOMAIN uiq /\ i \in Nat \ {0}
      /\ \A i \in DOMAIN uiq : i = 1 \/ (i - 1 \in DOMAIN uiq' /\ i \in 2 .. Len(uiq))
  BY TakenIs DEF RunChat
<1>2. PICK n \in Nat :
         /\ Counts(h, d) /\ ~Listing(h)
         /\ n = (IF Viewing(d) THEN 0 ELSE h.raw)
         /\ h.now \in Nat /\ h.upto \in Nat
         /\ UNCHANGED <<clock, inbox, visible, lastRead, feed, jobs>> /\ Work' = Work
         /\ counts'[d] = n /\ badge'[d] = n
         /\ Viewing(d) => /\ marker' = [marker EXCEPT ![d] = h.now]
                          /\ unseen' = [unseen EXCEPT ![d] = @ \ (1 .. h.upto)]
                          /\ raced' = IF Counting \/ Overtaken THEN raced \cup {d} ELSE raced
         /\ ~Viewing(d) => UNCHANGED <<marker, unseen, raced>>
  BY RunChatEffect DEF UnreadInv
<1> HIDE DEF h
<1>3. d \notin raced /\ Right(d)
  BY <1>2 DEF UnreadInv
<1>4. CountMade(h, d)
  BY <1>1, <1>2, <1>3 DEF Right, Made
<1>5. ASSUME ~Due(d)'
      PROVE  /\ \A x \in Queue' : ~Counts(x, d)
             /\ h.upto = Len(inbox[d]) /\ h.raw = Owed(d)
  <2>1. d \notin ToSet(feed) /\ \A x \in Queue' : ~Counts(x, d)
    BY <1>2, <1>5 DEF Due, Counts
  <2>2. LastOf(uiq, 1, d)
    <3>1. ASSUME NEW k \in DOMAIN uiq, k > 1 PROVE ~Counts(uiq[k], d)
      <4>1. k - 1 \in DOMAIN uiq' /\ k \in 2 .. Len(uiq)
        BY <1>1, <3>1
      <4>2. uiq'[k - 1] = uiq[(k - 1) + 1] /\ (k - 1) + 1 = k
        BY <1>1, <4>1
      <4>3. uiq[k] \in Queue'
        BY <4>1, <4>2 DEF Queue, ToSet
      <4>4. QED
        BY <2>1, <4>3
    <3>2. QED
      BY <1>1, <1>2, <3>1 DEF LastOf
  <2>3. h.upto = Len(inbox[d]) /\ h.raw = Owed(d)
    BY <1>1, <1>3, <2>1, <2>2 DEF Right, LastMade
  <2>4. QED
    BY <2>1, <2>3
<1>6. CASE ~Viewing(d)
  <2>1. UNCHANGED <<marker, unseen, raced, inbox, visible, feed>> /\ n = h.raw
    BY <1>2, <1>6
  <2>2. Untouched(d) /\ ~Forgets(d) /\ WorkAlike(d)
    BY <1>2, <2>1 DEF Untouched, Forgets, WorkAlike
  <2>3. CountsKept(uiq, uiq', d)
    BY <1>1, WorkIs, CountDropped
  <2>4. Divided(d)' /\ Made(d)' /\ LastMade(d)'
    BY <1>3, <2>2, <2>3, MadeKept DEF Right
  <2>5. ReadMade(d)' /\ GotMade(d)'
    BY <1>1, <1>3, <2>2, GotKept DEF Right
  <2>6. ~Due(d)' => n = Cardinality(unseen'[d])
    BY <1>5, <2>1 DEF Owed
  <2>7. CountShown(d)' /\ BadgeShown(d)'
    BY <1>2, <2>6 DEF CountShown, BadgeShown, Owed, Bound
  <2>8. QED
    BY <2>4, <2>5, <2>7 DEF Right
<1>7. CASE Viewing(d)
  <2>1. /\ marker' = [marker EXCEPT ![d] = h.now] /\ n = 0
        /\ unseen' = [unseen EXCEPT ![d] = @ \ (1 .. h.upto)] /\ ~Counting /\ ~Overtaken
    BY <1>2, <1>7
  <2>2. marker'[d] = h.now /\ unseen'[d] = unseen[d] \ (1 .. h.upto)
    BY <2>1 DEF UnreadInv, UnreadTypes
  <2>3. /\ \A j \in Work : j.stage # "counting"
        /\ \A x \in Queue : ~Listing(x)
    BY <2>1, QueuedIs DEF Counting, Work, Listing
  <2>4. /\ \A i \in 2 .. Len(uiq) : ~Counts(uiq[i], d)
        /\ \A i \in DOMAIN inbox[d] : i > h.upto => ~ (inbox[d][i] <= h.now)
    BY <2>1 DEF Overtaken, Counts, h
  <2>5. \A x \in Queue' : ~Counts(x, d)
    <3>1. ASSUME NEW i \in DOMAIN uiq' PROVE ~Counts(uiq'[i], d)
      <4>1. uiq'[i] = uiq[i + 1] /\ i + 1 \in DOMAIN uiq /\ i \in Nat \ {0}
        BY <1>1
      <4>2. i + 1 \in 2 .. Len(uiq)
        BY <1>1, <4>1
      <4>3. QED
        BY <2>4, <4>1, <4>2
    <3>2. QED
      BY <3>1 DEF Queue, ToSet
  <2>6. unseen'[d] = {i \in DOMAIN inbox[d] : inbox[d][i] > h.now}
    <3>1. unseen[d] \subseteq DOMAIN inbox[d]
      BY DEF UnreadInv, Times, Dated
    <3>2. ASSUME NEW i \in DOMAIN inbox[d]
          PROVE  i \in unseen'[d] <=> inbox[d][i] > h.now
      <4>1. i \in Nat \ {0} /\ inbox[d][i] \in Nat
        BY InboxIs
      <4>2. CASE i <= h.upto
        <5>1. inbox[d][i] <= h.now
          BY <1>4, <4>2 DEF CountMade
        <5>2. i \in 1 .. h.upto
          BY <1>2, <4>1, <4>2
        <5>3. QED
          BY <1>2, <2>2, <4>1, <5>1, <5>2
      <4>3. CASE i > h.upto
        <5>1. i \in unseen[d]
          BY <1>4, <4>3 DEF CountMade
        <5>2. i \notin 1 .. h.upto
          BY <1>2, <4>1, <4>3
        <5>3. ~ (inbox[d][i] <= h.now)
          BY <2>4, <4>3
        <5>4. QED
          BY <1>2, <2>2, <4>1, <5>1, <5>2, <5>3
      <4>4. QED
        BY <1>2, <4>1, <4>2, <4>3
    <3>3. unseen'[d] \subseteq DOMAIN inbox[d]
      BY <2>2, <3>1
    <3>4. QED
      BY <3>2, <3>3
  <2>7. Divided(d)'
    BY <1>2, <2>2, <2>6 DEF Divided, Newer
  <2>8. Made(d)'
    BY <2>5 DEF Made, Counts
  <2>9. LastMade(d)'
    BY <2>5 DEF LastMade, LastOf, Queue, ToSet, Counts
  <2>10. ReadMade(d)' /\ GotMade(d)'
    BY <1>1, <1>2, <2>3 DEF ReadMade, GotMade, Counted, Listing
  <2>11. ~Due(d)' => Cardinality(unseen'[d]) = 0
    <3>1. ASSUME ~Due(d)' PROVE unseen'[d] = {}
      <4>1. h.upto = Len(inbox[d])
        BY <1>5, <3>1
      <4>2. unseen[d] \subseteq 1 .. h.upto
        BY <4>1, InboxIs DEF UnreadInv, Times, Dated
      <4>3. QED
        BY <2>2, <4>2
    <3>2. QED
      BY <3>1, FS_EmptySet
  <2>12. CountShown(d)' /\ BadgeShown(d)'
    BY <1>2, <2>1, <2>11 DEF CountShown, BadgeShown, Owed, Bound
  <2>13. QED
    BY <2>7, <2>8, <2>9, <2>10, <2>12 DEF Right
<1>8. QED
  BY <1>6, <1>7

LEMMA RunChatKept ==
  ASSUME Shaped, Shaped', UnreadInv, RunChat
  PROVE  UnreadInv'
<1> DEFINE h == Head(uiq)
<1>1. /\ h \in Closure /\ uiq' = Tail(uiq) /\ uiq # <<>> /\ Queue = Queue' \cup {h} /\ h \in Queue
  BY TakenIs DEF RunChat
<1>2. PICK d \in Chats, n \in Nat :
         /\ d = h.chat /\ Counts(h, d) /\ ~Listing(h)
         /\ h.now \in Nat /\ h.upto \in Nat
         /\ UNCHANGED <<clock, inbox, visible, lastRead, feed, jobs>> /\ Work' = Work
         /\ \A c \in Chats : c # d => /\ marker'[c] = marker[c] /\ unseen'[c] = unseen[c]
                                      /\ counts'[c] = counts[c] /\ badge'[c] = badge[c]
         /\ counts' \in [Chats -> Nat] /\ badge' \in [Chats -> Nat]
         /\ ToSet(list') \subseteq ToSet(list) \cup {d}
         /\ title' = Total(counts') /\ rail' = 0 + Total(counts') /\ stacked' = FALSE
         /\ Viewing(d) => /\ marker' = [marker EXCEPT ![d] = h.now]
                          /\ unseen' = [unseen EXCEPT ![d] = @ \ (1 .. h.upto)]
                          /\ raced' = IF Counting \/ Overtaken THEN raced \cup {d} ELSE raced
         /\ ~Viewing(d) => UNCHANGED <<marker, unseen, raced>>
  BY RunChatEffect DEF UnreadInv
<1> HIDE DEF h
<1>3. UnreadTypes /\ Times /\ Named /\ \A c \in Chats \ raced : Right(c)
  BY DEF UnreadInv
<1>4. h.now <= clock /\ d \in ToSet(visible)
  BY <1>1, <1>2, <1>3 DEF Times, Named, Counts
<1>5. /\ marker' \in [Chats -> Nat \cup {-1}] /\ unseen' \in [Chats -> SUBSET Nat]
      /\ raced' \subseteq Chats /\ raced \subseteq raced'
      /\ unseen'[d] \subseteq unseen[d] /\ marker'[d] \in {marker[d], h.now}
  <2>1. CASE Viewing(d)
    <3>1. marker' = [marker EXCEPT ![d] = h.now] /\ unseen' = [unseen EXCEPT ![d] = @ \ (1 .. h.upto)]
      BY <1>2, <2>1
    <3>2. h.now \in Nat \cup {-1}
      BY <1>2
    <3>3. marker' \in [Chats -> Nat \cup {-1}] /\ marker'[d] = h.now
      BY <1>3, <3>1, <3>2 DEF UnreadTypes
    <3>4. unseen' \in [Chats -> SUBSET Nat] /\ unseen'[d] \subseteq unseen[d]
      BY <1>3, <3>1 DEF UnreadTypes
    <3>5. raced' \subseteq Chats /\ raced \subseteq raced'
      BY <1>2, <1>3, <2>1 DEF UnreadTypes
    <3>6. QED
      BY <3>3, <3>4, <3>5
  <2>2. CASE ~Viewing(d)
    BY <1>2, <1>3, <2>2 DEF UnreadTypes
  <2>3. QED
    BY <2>1, <2>2
<1>6. UnreadTypes'
  BY <1>2, <1>3, <1>5 DEF UnreadTypes
<1>7. Times'
  <2>1. ASSUME NEW c \in Chats PROVE Dated(c)'
    <3>1. Dated(c)
      BY <1>3 DEF Times
    <3>2. marker'[c] <= clock /\ unseen'[c] \subseteq DOMAIN inbox[c]
      <4>1. CASE c = d
        BY <1>4, <1>5, <3>1, <4>1 DEF Dated
      <4>2. CASE c # d
        BY <1>2, <3>1, <4>2 DEF Dated
      <4>3. QED
        BY <4>1, <4>2
    <3>3. QED
      BY <1>2, <3>1, <3>2 DEF Dated
  <2>2. \A y \in Queue' : y.kind = "chat" => y.now <= clock'
    BY <1>1, <1>2, <1>3 DEF Times
  <2>3. QED
    BY <2>1, <2>2 DEF Times
<1>8. Named'
  BY <1>1, <1>2, <1>3, <1>4 DEF Named, Ordered, Listing
<1>9. ChromeRight'
  <2>1. Total(counts') \in Nat
    BY <1>2, TotalNat
  <2>2. rail' = title' /\ title' = Total(counts')
    BY <1>2, <2>1
  <2>3. QED
    BY <2>2 DEF ChromeRight
<1>10. ASSUME NEW c \in Chats \ raced' PROVE Right(c)'
  <2>1. CASE c = d
    <3>1. c = Head(uiq).chat
      BY <1>2, <2>1 DEF h
    <3>2. QED
      BY <3>1, RunChatRight
  <2>2. CASE c # d
    <3>1. Right(c)
      BY <1>3, <1>5
    <3>2. Untouched(c) /\ WorkAlike(c) /\ ~Forgets(c)
      BY <1>2, <2>2 DEF Untouched, WorkAlike, Forgets
    <3>3. QueueAlike(uiq, uiq', c)
      <4>1. ~Counts(h, c)
        BY <1>2, <2>2 DEF Counts
      <4>2. QED
        BY <1>1, <1>2, <4>1, WorkIs, QueuesAlike DEF h
    <3>4. counts'[c] = counts[c] /\ badge'[c] = badge[c] /\ (c \in ToSet(list') => c \in ToSet(list))
      BY <1>2, <2>2
    <3>5. QED
      BY <3>1, <3>2, <3>3, <3>4, RightKept
  <2>3. QED
    BY <2>1, <2>2
<1>11. QED
  BY <1>6, <1>7, <1>8, <1>9, <1>10 DEF UnreadInv

(* The worker reads the list and clears the counters: it counts them all.  *)
LEMMA ReadListKept ==
  ASSUME Shaped, Shaped', UnreadInv, NEW j \in Work, ReadList(j)
  PROVE  UnreadInv'
<1>1. /\ UNCHANGED <<uiq, clock, inbox, visible, list, badge, title, rail, marker, lastRead,
                     feed, unseen, raced, stacked>>
      /\ j.stage = "asked" /\ counts' = [c \in Chats |-> 0] /\ Queue' = Queue
  BY DEF ReadList, loop, rows, chrome, Queue
<1>2. PICK to \in JobRecord :
        /\ Step(j, to) /\ to.stage = "counting" /\ to.order = visible /\ to.todo = visible
        /\ \A c \in Chats : to.latest[c] = Len(inbox[c])
  <2> DEFINE to == [j EXCEPT !.stage = "counting", !.order = visible, !.todo = visible,
                             !.latest = [c \in Chats |-> Len(inbox[c])]]
  <2>1. j \in JobRecord /\ visible \in Seq(Chats) /\ [c \in Chats |-> Len(inbox[c])] \in [Chats -> Nat]
    BY WorkIs
  <2>2. to \in JobRecord
    BY <2>1 DEF JobRecord
  <2>3. /\ to.stage = "counting" /\ to.order = visible /\ to.todo = visible
        /\ \A c \in Chats : to.latest[c] = Len(inbox[c])
    BY <2>1 DEF JobRecord
  <2>4. Step(j, to)
    BY DEF ReadList
  <2>5. QED
    BY <2>2, <2>3, <2>4
<1>3. Work' \subseteq Work \cup {to} /\ to \in Work' /\ Work \ {j} \subseteq Work'
  BY <1>2, JobsStepped
<1>4. UnreadTypes /\ Times /\ Named /\ \A c \in Chats \ raced : Right(c)
  BY DEF UnreadInv
<1>5. UnreadTypes'
  BY <1>1, <1>4 DEF UnreadTypes
<1>6. Times'
  BY <1>1, <1>4 DEF Times, Dated
<1>7. Named'
  BY <1>1, <1>2, <1>3, <1>4 DEF Named, Ordered, Listing
<1>8. ChromeRight'
  BY <1>1, <1>3 DEF UnreadInv, ChromeRight
<1>9. ASSUME NEW c \in Chats \ raced' PROVE Right(c)'
  <2>1. Right(c) /\ Untouched(c) /\ ~Forgets(c)
    BY <1>1, <1>4 DEF Untouched, Forgets
  <2>2. CountsKept(uiq, uiq', c)
    BY <1>1, WorkIs, QueuesAlike DEF QueueAlike
  <2>3. Divided(c)' /\ Made(c)' /\ LastMade(c)'
    BY <2>1, <2>2, MadeKept DEF Right
  <2>4. ReadMade(c)'
    BY <1>1, <1>2, <1>3, <2>1 DEF Right, ReadMade
  <2>5. GotMade(c)'
    <3>1. ~Counted(to, c)
      BY <1>2 DEF Counted
    <3>2. \A i \in Work' : Counted(i, c) => marker[c] # -1 /\ i.got[c] = Owed(c)
      BY <1>3, <2>1, <3>1 DEF Right, GotMade
    <3>3. QED
      BY <1>1, <2>1, <3>2 DEF Right, GotMade, Counted, Owed, Listing
  <2>6. CountShown(c)'
    BY <1>1, <1>2, <1>3 DEF CountShown, Due
  <2>7. BadgeShown(c)'
    BY <1>1, <1>2, <1>3, <1>4 DEF BadgeShown, Bound, Named
  <2>8. QED
    BY <2>3, <2>4, <2>5, <2>6, <2>7 DEF Right
<1>10. QED
  BY <1>5, <1>6, <1>7, <1>8, <1>9 DEF UnreadInv

(* It counts one chat after the other.                                     *)
LEMMA CountEffect ==
  ASSUME Shaped, NEW j \in Work, CountChat(j)
  PROVE  \E d \in Chats, n \in Nat, to \in JobRecord :
         /\ j \in JobRecord /\ j.stage = "counting" /\ ToSet(j.todo) = ToSet(to.todo) \cup {d}
         /\ n = Unread(d, Mark(d), j.latest[d]) /\ Seed(d)
         /\ counts' = [counts EXCEPT ![d] = n] /\ Step(j, to)
         /\ to.stage = "counting" /\ to.order = j.order /\ to.latest = j.latest
         /\ to.got[d] = n /\ \A c \in Chats : c # d => to.got[c] = j.got[c]
<1>1. j \in JobRecord
  BY WorkIs
<1> DEFINE d == Head(j.todo)  n == Unread(d, Mark(d), j.latest[d])
           to == [j EXCEPT !.todo = Tail(@), !.got[d] = n]
<1>2. /\ j.todo \in Seq(Chats) /\ j.todo # <<>> /\ j.got \in [Chats -> Nat]
      /\ j.stage = "counting"
  BY <1>1 DEF CountChat, JobRecord
<1>3. d \in Chats /\ Tail(j.todo) \in Seq(Chats) /\ ToSet(j.todo) = ToSet(Tail(j.todo)) \cup {d}
  BY <1>2, QueueDrops
<1>4. n \in Nat
  BY <1>3, UnreadCounts DEF Shaped
<1>5. Seed(d) /\ counts' = [counts EXCEPT ![d] = n] /\ Step(j, to)
  BY DEF CountChat
<1>6. n = Unread(d, Mark(d), j.latest[d])
  OBVIOUS
<1> HIDE DEF d, n
<1>7. [j.got EXCEPT ![d] = n] \in [Chats -> Nat]
  BY <1>2, <1>4
<1>8. to \in JobRecord
  BY <1>1, <1>3, <1>7 DEF JobRecord
<1>9. /\ to.stage = "counting" /\ to.order = j.order /\ to.latest = j.latest
      /\ to.todo = Tail(j.todo)
      /\ to.got[d] = n /\ \A c \in Chats : c # d => to.got[c] = j.got[c]
  BY <1>1, <1>2, <1>3 DEF JobRecord
<1> HIDE DEF to
<1>10. QED
  BY <1>1, <1>2, <1>3, <1>4, <1>5, <1>6, <1>8, <1>9

LEMMA CountChatKept ==
  ASSUME Shaped, Shaped', UnreadInv, NEW j \in Work, CountChat(j)
  PROVE  UnreadInv'
<1>1. /\ UNCHANGED <<uiq, clock, inbox, visible, list, badge, title, rail, lastRead,
                     feed, raced, stacked>> /\ Queue' = Queue
  BY DEF CountChat, loop, rows, chrome, Queue
<1>2. PICK d \in Chats, n \in Nat, to \in JobRecord :
         /\ j \in JobRecord /\ j.stage = "counting" /\ ToSet(j.todo) = ToSet(to.todo) \cup {d}
         /\ n = Unread(d, Mark(d), j.latest[d]) /\ Seed(d)
         /\ counts' = [counts EXCEPT ![d] = n] /\ Step(j, to)
         /\ to.stage = "counting" /\ to.order = j.order /\ to.latest = j.latest
         /\ to.got[d] = n /\ \A c \in Chats : c # d => to.got[c] = j.got[c]
  BY CountEffect
<1>3. Work' \subseteq Work \cup {to} /\ to \in Work' /\ Work \ {j} \subseteq Work'
  BY <1>2, JobsStepped
<1>4. UnreadTypes /\ Times /\ Named /\ \A c \in Chats \ raced : Right(c)
  BY DEF UnreadInv
<1>5. /\ Mark(d) \in Nat /\ Mark(d) <= clock /\ marker'[d] = Mark(d)
      /\ \A c \in Chats : c # d => marker'[c] = marker[c] /\ unseen'[c] = unseen[c]
      /\ marker[d] # -1 => marker'[d] = marker[d] /\ unseen'[d] = unseen[d]
      /\ marker' \in [Chats -> Nat \cup {-1}] /\ unseen' \in [Chats -> SUBSET Nat]
      /\ \A c \in Chats : marker'[c] <= clock' /\ unseen'[c] \subseteq DOMAIN inbox'[c]
      /\ Divided(d) => unseen'[d] = Newer(d, Mark(d))
  BY <1>1, <1>2, <1>4, SeedEffect
<1>6. /\ counts' \in [Chats -> Nat] /\ counts'[d] = n
      /\ \A c \in Chats : c # d => counts'[c] = counts[c]
  BY <1>2, <1>4 DEF UnreadTypes
<1>7. UnreadTypes'
  BY <1>1, <1>4, <1>5, <1>6 DEF UnreadTypes
<1>8. Times'
  <2>1. ASSUME NEW c \in Chats PROVE Dated(c)'
    BY <1>1, <1>4, <1>5 DEF Times, Dated
  <2>2. QED
    BY <1>1, <1>4, <2>1 DEF Times
<1>9. Named'
  <2>1. \A i \in Work' : /\ ToSet(i.todo) \subseteq ToSet(i.order) /\ Ordered(i.order)
                         /\ i.stage = "asked" => i.todo = <<>>
    BY <1>2, <1>3, <1>4 DEF Named
  <2>2. QED
    BY <1>1, <1>4, <2>1 DEF Named, Ordered, Listing
<1>10. ChromeRight'
  BY <1>1, <1>3 DEF UnreadInv, ChromeRight
<1>11. ASSUME NEW c \in Chats \ raced' PROVE Right(c)'
  <2>1. Right(c)
    BY <1>1, <1>4, <1>11
  <2>2. ReadMade(c)'
    <3>1. \A i \in Work' : i.stage = "counting" => i.latest[c] = Len(inbox[c])
      BY <1>2, <1>3, <2>1 DEF Right, ReadMade
    <3>2. QED
      BY <1>1, <3>1 DEF ReadMade
  <2>3. CASE c # d
    <3>1. Untouched(c) /\ ~Forgets(c) /\ counts'[c] = counts[c]
      BY <1>1, <1>5, <1>6, <2>3 DEF Untouched, Forgets
    <3>2. CountsKept(uiq, uiq', c)
      BY <1>1, WorkIs, QueuesAlike DEF QueueAlike
    <3>3. Divided(c)' /\ Made(c)' /\ LastMade(c)'
      BY <2>1, <3>1, <3>2, MadeKept DEF Right
    <3>4. GotMade(c)'
      <4>1. \A i \in Work : Counted(i, c) => marker[c] # -1 /\ i.got[c] = Owed(c)
        BY <2>1 DEF Right, GotMade
      <4>2. Counted(to, c) => Counted(j, c) /\ to.got[c] = j.got[c]
        BY <1>2, <2>3 DEF Counted
      <4>3. \A i \in Work' : Counted(i, c) => marker[c] # -1 /\ i.got[c] = Owed(c)
        BY <1>3, <4>1, <4>2
      <4>4. QED
        BY <1>1, <2>1, <3>1, <4>3 DEF Right, GotMade, Counted, Owed, Listing, Untouched
    <3>5. Due(c) => Due(c)'
      <4>1. ASSUME NEW i \in Work, i.stage = "asked" \/ c \in ToSet(i.todo)
            PROVE  \E k \in Work' : k.stage = "asked" \/ c \in ToSet(k.todo)
        <5>1. CASE i = j
          <6>1. c \in ToSet(to.todo)
            BY <1>2, <2>3, <4>1, <5>1
          <6>2. QED
            BY <1>3, <6>1
        <5>2. CASE i # j
          BY <1>3, <4>1, <5>2
        <5>3. QED
          BY <5>1, <5>2
      <4>2. QED
        BY <1>1, <4>1 DEF Due, Counts
    <3>6. Bound(c) => Bound(c)'
      <4>1. ASSUME NEW i \in Work, c \in ToSet(i.order)
            PROVE  \E k \in Work' : c \in ToSet(k.order)
        BY <1>2, <1>3, <4>1
      <4>2. QED
        BY <1>1, <3>5, <4>1 DEF Bound, Listing
    <3>7. CountShown(c)' /\ BadgeShown(c)'
      BY <1>1, <2>1, <3>1, <3>5, <3>6 DEF Right, CountShown, BadgeShown, Owed, Untouched
    <3>8. QED
      BY <2>2, <3>3, <3>4, <3>7 DEF Right
  <2>4. CASE c = d
    <3>1. unseen'[d] = Newer(d, Mark(d)) /\ n = Cardinality(unseen'[d])
      <4>1. j.latest[d] = Len(inbox[d]) /\ Divided(d)
        BY <1>2, <2>1, <2>4 DEF Right, ReadMade
      <4>2. QED
        BY <1>2, <1>4, <1>5, <4>1, UnreadIs
    <3>2. Divided(d)'
      BY <1>1, <1>5, <3>1 DEF Divided, Newer
    <3>3. Made(d)'
      <4>1. ASSUME NEW y \in Queue, Counts(y, d) PROVE CountMade(y, d)'
        BY <1>1, <1>5, <2>1, <2>4, <4>1, SeedMade DEF Right, Made
      <4>2. QED
        BY <1>1, <4>1 DEF Made, Counts
    <3>4. LastMade(d)'
      <4>1. ASSUME d \notin ToSet(feed), NEW i \in DOMAIN uiq, LastOf(uiq, i, d)
            PROVE  uiq[i].upto = Len(inbox[d]) /\ uiq[i].raw = Cardinality(unseen'[d])
        <5>1. Counts(uiq[i], d) /\ uiq[i] \in Queue
          BY <4>1 DEF LastOf, Queue, ToSet
        <5>2. marker[d] # -1
          BY <2>1, <2>4, <5>1 DEF Right, Made, CountMade
        <5>3. QED
          BY <1>5, <2>1, <2>4, <4>1, <5>2 DEF Right, LastMade, Owed
      <4>2. QED
        BY <1>1, <4>1 DEF LastMade, Owed, LastOf, Counts
    <3>5. GotMade(d)'
      <4>1. \A i \in Work : Counted(i, d) => marker[d] # -1 /\ i.got[d] = Owed(d)
        BY <2>1, <2>4 DEF Right, GotMade
      <4>2. \A y \in Queue : Listing(y) /\ d \in ToSet(y.order) => marker[d] # -1 /\ y.got[d] = Owed(d)
        BY <2>1, <2>4 DEF Right, GotMade
      <4>3. marker'[d] # -1
        BY <1>5
      <4>4. \A i \in Work' : Counted(i, d) => marker'[d] # -1 /\ i.got[d] = Cardinality(unseen'[d])
        BY <1>2, <1>3, <1>5, <3>1, <4>1, <4>3 DEF Owed
      <4>5. \A y \in Queue' : Listing(y) /\ d \in ToSet(y.order)
                                => marker'[d] # -1 /\ y.got[d] = Cardinality(unseen'[d])
        BY <1>1, <1>5, <4>2 DEF Owed
      <4>6. QED
        BY <4>4, <4>5 DEF GotMade, Owed, Counted, Listing
    <3>6. CountShown(d)'
      BY <1>6, <3>1 DEF CountShown, Owed
    <3>7. BadgeShown(d)'
      <4>1. d \in ToSet(j.order)
        BY <1>2, <1>4 DEF Named
      <4>2. Bound(d)'
        BY <1>2, <1>3, <4>1 DEF Bound
      <4>3. QED
        BY <4>2 DEF BadgeShown
    <3>8. QED
      BY <2>2, <2>4, <3>2, <3>3, <3>4, <3>5, <3>6, <3>7 DEF Right
  <2>5. QED
    BY <2>3, <2>4
<1>12. QED
  BY <1>7, <1>8, <1>9, <1>10, <1>11 DEF UnreadInv

(* It hands over what it has counted.                                      *)
LEMMA HandListKept ==
  ASSUME Shaped, Shaped', UnreadInv, NEW j \in Work, HandList(j)
  PROVE  UnreadInv'
<1>1. /\ UNCHANGED <<clock, inbox, visible, list, badge, title, rail, marker, counts, lastRead,
                     feed, unseen, raced, stacked>>
      /\ j.stage = "counting" /\ j.todo = <<>> /\ jobs' = jobs (-) SetToBag({j})
  BY DEF HandList, rows, chrome, unread
<1>2. PICK x : /\ uiq' = Append(uiq, x)
               /\ x = [kind |-> IF j.kind = "merge" THEN "merge" ELSE "list",
                       order |-> j.order, got |-> j.got]
  BY DEF HandList, Post
<1>3. Work' \subseteq Work /\ Work \ {j} \subseteq Work' /\ j \in JobRecord
  BY <1>1, JobsTaken
<1>4. /\ x \in Closure /\ Listing(x) /\ x.kind # "chat" /\ x.order = j.order /\ x.got = j.got
      /\ \A c : ~Counts(x, c)
  <2>1. j.order \in Seq(Chats) /\ j.got \in [Chats -> Nat]
    BY <1>3 DEF JobRecord
  <2>2. QED
    BY <1>2, <2>1 DEF Closure, ForChats, Listing, Counts
<1>5. uiq \in Seq(Closure) /\ Queue' = Queue \cup {x}
  BY <1>2, <1>4, WorkIs, QueueAdds DEF Queue
<1>6. UnreadTypes /\ Times /\ Named /\ \A c \in Chats \ raced : Right(c)
  BY DEF UnreadInv
<1>7. UnreadTypes'
  BY <1>1, <1>6 DEF UnreadTypes
<1>8. Times'
  BY <1>1, <1>4, <1>5, <1>6 DEF Times, Dated
<1>9. Named'
  BY <1>1, <1>3, <1>4, <1>5, <1>6 DEF Named, Ordered, Listing
<1>10. ChromeRight'
  <2>1. \E y \in Queue' : Listing(y)
    BY <1>4, <1>5
  <2>2. QED
    BY <1>1, <2>1 DEF UnreadInv, ChromeRight, Listing
<1>11. ASSUME NEW c \in Chats \ raced' PROVE Right(c)'
  <2>1. Right(c) /\ Untouched(c) /\ ~Forgets(c)
    BY <1>1, <1>6, <1>11 DEF Untouched, Forgets
  <2>2. CountsKept(uiq, uiq', c)
    BY <1>2, <1>4, <1>5, CountAdded
  <2>3. Divided(c)' /\ Made(c)' /\ LastMade(c)'
    BY <2>1, <2>2, MadeKept DEF Right
  <2>4. ReadMade(c)'
    BY <1>1, <1>3, <2>1 DEF Right, ReadMade
  <2>5. GotMade(c)'
    <3>1. c \in ToSet(x.order) => marker[c] # -1 /\ x.got[c] = Owed(c)
      <4>1. c \in ToSet(x.order) => Counted(j, c)
        BY <1>1, <1>4 DEF Counted, ToSet
      <4>2. QED
        BY <1>4, <2>1, <4>1 DEF Right, GotMade
    <3>2. \A y \in Queue' : Listing(y) /\ c \in ToSet(y.order)
                              => marker[c] # -1 /\ y.got[c] = Owed(c)
      BY <1>5, <2>1, <3>1 DEF Right, GotMade
    <3>3. \A i \in Work' : Counted(i, c) => marker[c] # -1 /\ i.got[c] = Owed(c)
      BY <1>3, <2>1 DEF Right, GotMade
    <3>4. QED
      BY <1>1, <3>2, <3>3 DEF GotMade, Counted, Owed, Listing
  <2>6. Due(c) => Due(c)'
    <3>1. ToSet(<<>>) = {}
      BY DEF ToSet
    <3>2. \A i \in Work : i.stage = "asked" \/ c \in ToSet(i.todo) => i \in Work'
      BY <1>1, <1>3, <3>1
    <3>3. QED
      BY <1>1, <1>5, <3>2 DEF Due, Counts
  <2>7. Bound(c) => Bound(c)'
    <3>1. ASSUME NEW i \in Work, c \in ToSet(i.order)
          PROVE  \/ \E k \in Work' : c \in ToSet(k.order)
                 \/ \E y \in Queue' : Listing(y) /\ c \in ToSet(y.order)
      BY <1>3, <1>4, <1>5, <3>1
    <3>2. ASSUME NEW y \in Queue, Listing(y), c \in ToSet(y.order) PROVE y \in Queue'
      BY <1>5
    <3>3. QED
      BY <2>6, <3>1, <3>2 DEF Bound, Listing
  <2>8. CountShown(c)' /\ BadgeShown(c)'
    BY <1>1, <2>1, <2>6, <2>7 DEF Right, CountShown, BadgeShown, Owed
  <2>9. QED
    BY <2>3, <2>4, <2>5, <2>8 DEF Right
<1>12. QED
  BY <1>7, <1>8, <1>9, <1>10, <1>11 DEF UnreadInv

(* The list it has handed over is shown, or merged into the one shown.     *)
LEMMA ListingRun ==
  ASSUME Shaped, Shaped', UnreadInv, UNCHANGED <<clock, inbox, visible, unread, lastRead, feed,
                                                 jobs, unseen, raced>>,
         uiq # <<>>, uiq' = Tail(uiq), Listing(Head(uiq)), RefreshChrome(counts, 0), ~stacked',
         stacked' \in BOOLEAN, badge' \in [Chats -> Nat],
         ToSet(list') \subseteq ToSet(list) \cup ToSet(Head(uiq).order),
         \A c \in ToSet(list') : \/ c \in ToSet(Head(uiq).order) /\ badge'[c] = Head(uiq).got[c]
                                 \/ /\ c \in ToSet(list) /\ c \notin ToSet(Head(uiq).order)
                                    /\ badge'[c] = badge[c]
  PROVE  UnreadInv'
<1> DEFINE h == Head(uiq)
<1>1. Work' = Work /\ UNCHANGED <<marker, counts>>
  BY DEF Work, unread
<1>2. uiq \in Seq(Closure) /\ Queue = Queue' \cup {h} /\ h \in Queue
  BY WorkIs, QueueDrops DEF Queue
<1> HIDE DEF h
<1>3. UnreadTypes /\ Times /\ Named /\ \A c \in Chats \ raced : Right(c)
  BY DEF UnreadInv
<1>4. UnreadTypes'
  BY <1>1, <1>3 DEF UnreadTypes
<1>5. Times'
  BY <1>1, <1>2, <1>3 DEF Times, Dated
<1>6. Named'
  <2>1. Ordered(h.order)
    BY <1>2, <1>3 DEF Named, h
  <2>2. ToSet(list') \subseteq ToSet(visible)
    BY <1>3, <2>1 DEF Named, Ordered, h
  <2>3. QED
    BY <1>1, <1>2, <1>3, <2>2 DEF Named, Ordered, Listing
<1>7. ChromeRight'
  <2>1. title' = Total(counts) /\ rail' = 0 + Total(counts) /\ Total(counts') = Total(counts)
    BY <1>1 DEF RefreshChrome
  <2>2. Total(counts) \in Nat
    BY <1>3, TotalNat DEF UnreadTypes
  <2>3. QED
    BY <2>1, <2>2 DEF ChromeRight
<1>8. ASSUME NEW c \in Chats \ raced' PROVE Right(c)'
  <2>1. Right(c) /\ Untouched(c) /\ ~Forgets(c) /\ WorkAlike(c)
    BY <1>1, <1>3, <1>8 DEF Untouched, Forgets, WorkAlike
  <2>2. CountsKept(uiq, uiq', c)
    BY <1>2, CountDropped
  <2>3. Divided(c)' /\ Made(c)' /\ LastMade(c)'
    BY <2>1, <2>2, MadeKept DEF Right
  <2>4. ReadMade(c)' /\ GotMade(c)'
    BY <1>2, <2>1, GotKept DEF Right
  <2>5. Due(c) => Due(c)'
    <3>1. ~Counts(h, c)
      BY DEF Counts, Listing, h
    <3>2. QED
      BY <1>1, <1>2, <3>1 DEF Due, Counts
  <2>6. CountShown(c)'
    BY <1>1, <2>1, <2>5 DEF Right, CountShown, Owed
  <2>7. BadgeShown(c)'
    <3>1. ASSUME c \in ToSet(list'), ~Bound(c)' PROVE badge'[c] = Owed(c)
      <4>1. CASE c \in ToSet(h.order) /\ badge'[c] = h.got[c]
        BY <1>2, <2>1, <4>1 DEF Right, GotMade, h
      <4>2. CASE c \in ToSet(list) /\ c \notin ToSet(h.order) /\ badge'[c] = badge[c]
        <5>1. ~Bound(c)
          BY <1>1, <1>2, <2>5, <3>1, <4>2 DEF Bound, Listing
        <5>2. QED
          BY <2>1, <4>2, <5>1 DEF Right, BadgeShown
      <4>3. QED
        BY <3>1, <4>1, <4>2 DEF h
    <3>2. QED
      BY <3>1 DEF BadgeShown, Owed
  <2>8. QED
    BY <2>3, <2>4, <2>6, <2>7 DEF Right
<1>9. QED
  BY <1>4, <1>5, <1>6, <1>7, <1>8 DEF UnreadInv

LEMMA RunListKept ==
  ASSUME Shaped, Shaped', UnreadInv, RunList \/ RunMerge
  PROVE  UnreadInv'
<1> DEFINE h == Head(uiq)
<1>1. /\ uiq # <<>> /\ uiq' = Tail(uiq) /\ h \in Closure /\ h.kind \in {"list", "merge"}
  BY TakenIs DEF RunList, RunMerge
<1>2. /\ Listing(h) /\ h.order \in Seq(Chats) /\ h.got \in [Chats -> Nat]
  BY <1>1, ClosureFields DEF Listing
<1>3. /\ UNCHANGED <<clock, inbox, visible, unread, lastRead, feed, jobs, unseen, raced>>
      /\ RefreshChrome(counts, 0) /\ stacked' = FALSE
  BY DEF RunList, RunMerge
<1>4. badge \in [Chats -> Nat] /\ list \in Seq(Chats)
  BY WorkIs DEF UnreadInv, UnreadTypes
<1>5. CASE RunList
  <2>1. list' = h.order /\ badge' = h.got
    BY <1>5 DEF RunList
  <2> HIDE DEF h
  <2>2. badge' \in [Chats -> Nat] /\ ToSet(list') = ToSet(h.order)
    BY <1>2, <2>1
  <2>3. QED
    BY <1>1, <1>2, <1>3, <2>1, <2>2, ListingRun DEF h
<1>6. CASE RunMerge
  <2>1. /\ list' = list \o Sublist(h.order, Chats \ ToSet(list))
        /\ badge' = [d \in Chats |-> IF Contains(h.order, d) THEN h.got[d] ELSE badge[d]]
    BY <1>6 DEF RunMerge
  <2> DEFINE m == Sublist(h.order, Chats \ ToSet(list))
  <2>2. m \in Seq(Chats) /\ ToSet(m) = ToSet(h.order) \cap (Chats \ ToSet(list))
    BY <1>2, SublistType, SublistElems
  <2> HIDE DEF m, h
  <2>3. badge' \in [Chats -> Nat]
    BY <1>2, <1>4, <2>1
  <2>4. ToSet(list \o m) \subseteq ToSet(list) \cup ToSet(m)
    <3>1. DOMAIN (list \o m) = 1 .. Len(list) + Len(m)
      BY <1>4, <2>2
    <3>2. \A i \in 1 .. Len(list) + Len(m) :
            \/ i \in DOMAIN list /\ (list \o m)[i] = list[i]
            \/ i - Len(list) \in DOMAIN m /\ (list \o m)[i] = m[i - Len(list)]
      BY <1>4, <2>2
    <3>3. QED
      BY <3>1, <3>2 DEF ToSet
  <2>5. ToSet(list') \subseteq ToSet(list) \cup ToSet(h.order)
    BY <2>1, <2>2, <2>4 DEF m
  <2>6. \A c \in Chats : Contains(h.order, c) <=> c \in ToSet(h.order)
    BY DEF Contains, ToSet
  <2>7. ASSUME NEW c \in ToSet(list')
        PROVE  \/ c \in ToSet(h.order) /\ badge'[c] = h.got[c]
               \/ c \in ToSet(list) /\ c \notin ToSet(h.order) /\ badge'[c] = badge[c]
    <3>1. c \in Chats
      <4>1. ToSet(list) \subseteq Chats /\ ToSet(h.order) \subseteq Chats
        BY <1>2, <1>4 DEF ToSet
      <4>2. QED
        BY <2>5, <2>7, <4>1
    <3>2. QED
      BY <2>1, <2>5, <2>6, <2>7, <3>1
  <2>8. QED
    BY <1>1, <1>2, <1>3, <2>3, <2>5, <2>7, ListingRun DEF h
<1>7. QED
  BY <1>5, <1>6

(* A process begins: nothing is listed or posted, the list is asked for,   *)
(* and what is unseen is what is newer than the markers of the file.       *)
Begun ==
  /\ list = <<>> /\ badge = [c \in Chats |-> 0] /\ title = 0 /\ rail = 0
  /\ counts = [c \in Chats |-> 0] /\ feed = <<>> /\ uiq = <<>>
  /\ jobs = SetToBag({Job("list")}) /\ raced = {} /\ stacked = FALSE
  /\ UnreadTypes /\ \A c \in Chats : Dated(c) /\ Divided(c)

LEMMA BegunRight == ASSUME Begun PROVE UnreadInv
<1>1. Work = {Job("list")}
  BY DEF Begun, Work, SetToBag, BagToSet
<1>2. Job("list").stage = "asked" /\ Job("list").todo = <<>> /\ Job("list").order = <<>>
  BY DEF Job
<1>3. /\ Queue = {} /\ ToSet(feed) = {} /\ ToSet(list) = {} /\ ToSet(<<>>) = {}
      /\ DOMAIN uiq = {}
  BY DEF Begun, Queue, ToSet
<1>4. Times /\ Named
  BY <1>1, <1>2, <1>3 DEF Begun, Times, Named, Ordered
<1>5. ChromeRight
  BY <1>1 DEF Begun, ChromeRight
<1>6. ASSUME NEW c \in Chats PROVE Right(c)
  <2>1. Due(c) /\ Bound(c)
    BY <1>1, <1>2 DEF Due, Bound
  <2>2. Made(c) /\ LastMade(c) /\ ReadMade(c) /\ GotMade(c)
    BY <1>1, <1>2, <1>3 DEF Made, LastMade, ReadMade, GotMade, Counted
  <2>3. QED
    BY <2>1, <2>2 DEF Begun, Right, CountShown, BadgeShown
<1>7. QED
  BY <1>4, <1>5, <1>6 DEF Begun, UnreadInv

LEMMA UnreadBegins == WindowInit => UnreadInv
<1> SUFFICES ASSUME WindowInit PROVE Begun
  BY BegunRight
<1>1. /\ list = <<>> /\ badge = [c \in Chats |-> 0] /\ title = 0 /\ rail = 0
      /\ counts = [c \in Chats |-> 0] /\ feed = <<>> /\ uiq = <<>>
      /\ jobs = SetToBag({Job("list")}) /\ raced = {} /\ stacked = FALSE
      /\ clock = 1 /\ inbox = [c \in Chats |-> <<>>]
      /\ marker = [c \in Chats |-> -1] /\ lastRead = [c \in Chats |-> -1]
      /\ unseen = [c \in Chats |-> {}]
  BY DEF WindowInit, AttentionInit, Fresh, LoopInit
<1>2. UnreadTypes
  BY <1>1 DEF UnreadTypes
<1>3. ASSUME NEW c \in Chats PROVE Dated(c) /\ Divided(c)
  BY <1>1 DEF Dated, Divided
<1>4. QED
  BY <1>1, <1>2, <1>3 DEF Begun

LEMMA UnreadRestarts ==
  ASSUME Shaped, UnreadInv, Restart
  PROVE  UnreadInv'
<1>1. /\ list' = <<>> /\ badge' = [c \in Chats |-> 0] /\ title' = 0 /\ rail' = 0
      /\ counts' = [c \in Chats |-> 0] /\ feed' = <<>> /\ uiq' = <<>>
      /\ jobs' = SetToBag({Job("list")}) /\ raced' = {} /\ stacked' = FALSE
      /\ UNCHANGED <<clock, inbox>>
  BY DEF Restart, Exit, Crash, Reboot
<1>2. PICK read : /\ read = lastRead \/ read = [c \in Chats |-> -1]
                  /\ lastRead' = read /\ marker' = read
                  /\ unseen' = [c \in Chats |-> IF read[c] = -1 THEN {} ELSE Newer(c, read[c])]
  <2>1. CASE Exit
    BY <2>1 DEF Exit, Reboot
  <2>2. CASE Crash
    BY <2>2 DEF Crash, Reboot
  <2>3. QED
    BY <2>1, <2>2 DEF Restart
<1>3. UnreadTypes /\ Times /\ clock \in Nat /\ inbox \in [Chats -> Seq(Nat)]
  BY WorkIs DEF UnreadInv
<1>4. read \in [Chats -> Nat \cup {-1}] /\ \A c \in Chats : read[c] <= clock
  BY <1>2, <1>3 DEF UnreadTypes, Times, Dated
<1>5. ASSUME NEW c \in Chats
      PROVE  /\ unseen'[c] \subseteq DOMAIN inbox[c] /\ unseen'[c] \subseteq Nat
             /\ read[c] # -1 => unseen'[c] = {i \in DOMAIN inbox[c] : inbox[c][i] > read[c]}
  <2>1. DOMAIN inbox[c] \subseteq Nat
    BY <1>3
  <2>2. unseen'[c] = IF read[c] = -1 THEN {} ELSE {i \in DOMAIN inbox[c] : inbox[c][i] > read[c]}
    BY <1>2 DEF Newer
  <2>3. QED
    BY <2>1, <2>2
<1>6. unseen' \in [Chats -> SUBSET Nat]
  BY <1>2, <1>5
<1>7. UnreadTypes'
  BY <1>1, <1>2, <1>4, <1>6 DEF UnreadTypes
<1>8. ASSUME NEW c \in Chats PROVE Dated(c)' /\ Divided(c)'
  BY <1>1, <1>2, <1>3, <1>4, <1>5 DEF Dated, Divided, Newer, Times
<1>9. Begun'
  BY <1>1, <1>7, <1>8 DEF Begun
<1>10. QED
  BY <1>9, BegunRight, PTL

LEMMA UnreadStep ==
  ASSUME Shaped, Shaped', UnreadInv, [WindowNext]_<<loop, awareness, players>>
  PROVE  UnreadInv'
<1>0. clock \in Nat
  BY WorkIs
<1>1. CASE \/ \E t \in Texts \cup {"none"} : Type(t)
           \/ RequestEdit \/ EndEdit \/ Send \/ TurnPage \/ RestoreDraft \/ Tick
           \/ \E c \in Chats : ToggleMute(c)
  <2>1. UNCHANGED Counters /\ UNCHANGED uiq
    BY <1>1 DEF Type, RequestEdit, EndEdit, Send, TurnPage, RestoreDraft, Tick, ToggleMute,
                Counters, rows, loop
  <2>2. clock' = clock \/ clock' = clock + 1
    BY <1>1 DEF Type, RequestEdit, EndEdit, Send, TurnPage, RestoreDraft, Tick, ToggleMute
  <2>3. clock' >= clock
    BY <1>0, <2>2
  <2>4. QED
    BY <2>1, <2>3, IdleKept
<1>2. ASSUME NEW k \in DOMAIN list, Select(k) PROVE UnreadInv'
  BY <1>2, SelectKept
<1>3. ASSUME NEW c \in Chats, Arrive(c) \/ Refire(c) \/ Join(c) PROVE UnreadInv'
  BY <1>3, ArriveKept, ComingKept
<1>4. CASE SwitchAccount
  <2>1. /\ UNCHANGED <<uiq, clock, inbox, visible, badge, chrome, unread, lastRead, unseen, stacked>>
        /\ jobs' = jobs (+) SetToBag({Job("list")}) /\ list' = <<>> /\ feed' = <<>>
        /\ raced' = raced \cup {c \in ToSet(feed) : Posted(c)}
    BY <1>4 DEF SwitchAccount
  <2>2. QED
    BY <2>1, AskedKept
<1>5. ASSUME NEW k \in {"refresh", "merge"}, Request(k) PROVE UnreadInv'
  <2>1. /\ UNCHANGED <<uiq, clock, inbox, visible, badge, chrome, unread, lastRead, unseen, stacked>>
        /\ jobs' = jobs (+) SetToBag({Job(k)}) /\ UNCHANGED <<list, feed, raced>>
    BY <1>5 DEF Request, rows
  <2>2. k \in {"list", "merge", "refresh"}
    OBVIOUS
  <2>3. QED
    BY <2>1, <2>2, AskedKept
<1>6. CASE Callback
  BY <1>6, CallbackKept
<1>7. CASE RunChat
  BY <1>7, RunChatKept
<1>8. ASSUME NEW j \in BagToSet(jobs), ReadList(j) \/ CountChat(j) \/ HandList(j)
      PROVE  UnreadInv'
  <2>1. j \in Work
    BY DEF Work
  <2>2. QED
    BY <1>8, <2>1, ReadListKept, CountChatKept, HandListKept
<1>9. CASE RunList \/ RunMerge
  BY <1>9, RunListKept
<1>10. CASE Restart
  BY <1>10, UnreadRestarts
<1>11. CASE PlayersNext(Open) /\ UNCHANGED awareness
  <2>1. PlayerStep
    BY <1>11, PlayersRun
  <2>2. UNCHANGED Counters /\ clock' >= clock
    BY <1>0, <1>11 DEF awareness, Counters, rows
  <2>3. QED
    BY <2>1, <2>2, IdleKept
<1>12. CASE UNCHANGED <<loop, awareness, players>>
  <2>1. UNCHANGED Counters /\ clock' >= clock /\ UNCHANGED uiq
    BY <1>0, <1>12 DEF awareness, Counters, rows, loop
  <2>2. QED
    BY <2>1, IdleKept
<1>13. CASE AttentionRuns
  BY <1>1, <1>2, <1>3, <1>4, <1>5, <1>6, <1>7, <1>8, <1>9, <1>13 DEF AttentionRuns
<1>14. QED
  BY <1>10, <1>11, <1>12, <1>13 DEF WindowNext

(* When nothing is under way, the counter and the row of a listed chat     *)
(* show how many messages have come since the chat was last on screen, and *)
(* title and badge show the total: for any chats, however the watcher, the *)
(* list worker and the event loop interleave, with the exceptions that     *)
(* "raced" and "stacked" record (unread.rs, chatlist.rs).                  *)
THEOREM UnreadsSettle == WindowSpec => []UnreadSettles
<1>1. WindowInit => UnreadInv
  BY UnreadBegins
<1>2. Shaped /\ Shaped' /\ UnreadInv /\ [WindowNext]_<<loop, awareness, players>> => UnreadInv'
  BY UnreadStep
<1>3. Shaped /\ UnreadInv => UnreadSettles
  <2> SUFFICES ASSUME Shaped, UnreadInv, Quiet PROVE
        /\ \A c \in ToSet(list) \ raced :
             counts[c] = Cardinality(unseen[c]) /\ badge[c] = counts[c]
        /\ title = Total(counts)
        /\ ~stacked => rail = title
    BY DEF UnreadSettles
  <2>1. Work = {} /\ Queue = {} /\ ToSet(feed) = {}
    BY BagEmpty DEF Quiet, Work, Queue, ToSet
  <2>2. ASSUME NEW c \in ToSet(list) \ raced
        PROVE  counts[c] = Cardinality(unseen[c]) /\ badge[c] = counts[c]
    <3>1. ~Due(c) /\ ~Bound(c)
      BY <2>1 DEF Due, Bound
    <3>2. c \in ToSet(visible)
      BY DEF UnreadInv, Named
    <3>3. c \in Chats
      BY WorkIs DEF ToSet
    <3>4. QED
      BY <3>1, <3>2, <3>3 DEF UnreadInv, Right, CountShown, BadgeShown, Owed
  <2>3. title = Total(counts) /\ (~stacked => rail = title)
    BY <2>1 DEF UnreadInv, ChromeRight
  <2>4. QED
    BY <2>2, <2>3
<1>4. QED
  BY <1>1, <1>2, <1>3, WindowTypes, PTL DEF WindowSpec
=============================================================================
