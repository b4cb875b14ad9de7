--------------------------- MODULE MessagesProofs ----------------------------
(***************************************************************************)
(* TLAPS proofs about Messages: what its rows, its overlay and its loads   *)
(* keep whatever lands late.                                               *)
(***************************************************************************)
EXTENDS MessagesTypes

-----------------------------------------------------------------------------
(* The inductive invariant, in parts.                                      *)

(* A message is filed once; the rows are of filed messages, one for each,  *)
(* in groups that join, and of a listed chat.                              *)
FiledOnce ==
  \A i, j \in DOMAIN log :
    log[i].kind = "chat" /\ log[j].kind = "chat" /\ log[i].msg = log[j].msg => i = j
IsFiled(m) == \E i \in DOMAIN log : log[i].kind = "chat" /\ log[i].msg = m
RowsFiled  == \A k \in DOMAIN rows : IsFiled(rows[k].msg)
RowsDiffer == \A j, k \in DOMAIN rows : rows[j].msg = rows[k].msg => j = k
Listing == /\ FiledOnce /\ RowsFiled /\ RowsDiffer /\ Joined(rows)
           /\ ~loaded => rows = <<>>

(* Until the user edits, nothing anywhere edits in the user's name; the    *)
(* same for a deletion.                                                    *)
NoEdits ==
  used["edit"] = 0 =>
    /\ editing = {} /\ \A m \in Msgs : overlay.edits[m] = "none"
    /\ \A o \in BagToSet(ops) : o.kind # "edit"
    /\ \A i \in DOMAIN log : log[i].kind = "edit" => log[i].by = "peer"
NoDeletes ==
  used["delete"] = 0 =>
    /\ overlay.deletes = {}
    /\ \A o \in BagToSet(ops) : o.kind # "delete"
    /\ \A i \in DOMAIN log : log[i].kind = "delete" => log[i].by = "peer"

(* Unless they have crossed, one operation at most of a kind on a message  *)
(* is in flight: in one task, or in one completion.                        *)
TaskOf(o, k, m) == o \in BagToSet(ops) /\ Slot(o.kind) = k /\ o.msg = m
DoneOf(i, k, m) == /\ i \in DOMAIN uiq /\ uiq[i].kind = "done"
                   /\ Slot(uiq[i].op.kind) = k /\ uiq[i].op.msg = m
Alone(k, m) ==
  /\ \A o \in BagToSet(ops) : TaskOf(o, k, m) =>
       /\ ops[o] = 1
       /\ \A p \in BagToSet(ops) : TaskOf(p, k, m) => p = o
       /\ \A i \in DOMAIN uiq : ~DoneOf(i, k, m)
  /\ \A i, j \in DOMAIN uiq : DoneOf(i, k, m) /\ DoneOf(j, k, m) => i = j
SlotKinds == {"react", "edit", "delete"}
Uncrossed == \A k \in SlotKinds, m \in Msgs : <<k, m>> \notin crossed => Alone(k, m)

(* A tap on an image or a file is one job, one snapshot, one closure or    *)
(* one load, its key in flight all the while; an album is never tapped.    *)
Tapping(x, m)  == x.kind = "tap" /\ x.msg = m
TapsOf(m)      == \/ \E j \in BagToSet(reads) : Tapping(j, m)
                  \/ \E h \in BagToSet(held) : Tapping(h, m)
                  \/ \E i \in DOMAIN uiq : Tapping(uiq[i], m)
LoadsOf(m)     == {l \in BagToSet(loads) : l.msg = m}
OneTap(m) ==
  /\ \A j \in BagToSet(reads) : Tapping(j, m) =>
       /\ reads[j] = 1 /\ Keys[m] \subseteq inflight
       /\ \A h \in BagToSet(held) : ~Tapping(h, m)
       /\ \A i \in DOMAIN uiq : ~Tapping(uiq[i], m)
       /\ LoadsOf(m) = {}
  /\ \A h \in BagToSet(held) : Tapping(h, m) =>
       /\ held[h] = 1 /\ Keys[m] \subseteq inflight
       /\ \A g \in BagToSet(held) : Tapping(g, m) => g = h
       /\ \A i \in DOMAIN uiq : ~Tapping(uiq[i], m)
       /\ LoadsOf(m) = {}
  /\ \A i \in DOMAIN uiq : Tapping(uiq[i], m) =>
       /\ Keys[m] \subseteq inflight
       /\ \A j \in DOMAIN uiq : Tapping(uiq[j], m) => j = i
       /\ LoadsOf(m) = {}
LoadOnce(m) == \A l \in LoadsOf(m) : loads[l] = 1 /\ l.key \in inflight
Downloads == \A m \in Msgs : Kind[m] # "audio" =>
  /\ LoadOnce(m) /\ OneTap(m)
  /\ Kind[m] \notin {"image", "file"} => ~TapsOf(m)

(* A hidden message is known to its account and not still to be reported;  *)
(* where it is still shown, a rebuild is on its way.                       *)
Kept(m) == \E a \in Accounts : m \in hidden[a] /\ m \notin echoed
Rebuilding == \/ \E j \in BagToSet(reads) : j.kind = "rebuild"
              \/ \E h \in BagToSet(held) : h.kind = "rebuild"
              \/ \E i \in DOMAIN uiq : uiq[i].kind = "rebuild"
HiddenGoing ==
  \A m \in Msgs :
    /\ Kept(m) => IsFiled(m) /\ ~Unreported(m)
    /\ Hidden(m) /\ m \notin echoed /\ Shown(m) => Rebuilding

MessagesInv == /\ Shaped /\ Listing /\ NoEdits /\ NoDeletes /\ Uncrossed /\ OverlayBacked
               /\ Downloads /\ HiddenGoing /\ OptimisticShown /\ AuthorsOnly
-----------------------------------------------------------------------------
(* The rows.                                                               *)

LEMMA GroupsJoined ==
  ASSUME Shaped
  PROVE  Joined(rows) => GroupsJoin
<1>1. rows \in Seq(Row)
  BY DEF Shaped, ScreenShaped
<1>2. ASSUME Joined(rows), NEW k \in DOMAIN rows, k + 1 \in DOMAIN rows
      PROVE  rows[k].last = rows[k + 1].first
  <2>1. rows[k].last \in BOOLEAN /\ rows[k + 1].first \in BOOLEAN
    <3>1. rows[k] \in Row /\ rows[k + 1] \in Row
      BY <1>1, <1>2
    <3>2. QED
      BY <3>1 DEF Row
  <2>2. rows[k].last <=> rows[k + 1].first
    BY <1>2 DEF Joined
  <2>3. QED
    BY <2>1, <2>2
<1>3. ASSUME Joined(rows), rows # <<>> PROVE rows[1].first /\ Last(rows).last
  BY <1>3 DEF Joined, Last
<1>4. QED
  BY <1>2, <1>3 DEF GroupsJoin

(* The handlers that write rows out of a snapshot.                         *)
Landing == \/ RunRefresh \/ RunEvent \/ RunTap \/ RunEcho
           \/ RunRebuild \/ RunList \/ RunOpen
Fresh(r) == \E n \in Nat : n <= Len(log) /\ r.msg \in Msgs /\ SameBody(r, Build(n, r.msg))
Kin(k)   == k \in DOMAIN rows /\ SameBody(rows'[k], rows[k])

(* They leave alone everything but the rows, the queue and the media.      *)
LEMMA LandingFrame ==
  ASSUME Landing
  PROVE  /\ UNCHANGED <<log, hidden, account, overlay, editing, ops, reads, held, used,
                        cache, disk, crossed, echoed, broken>>
         /\ uiq # <<>> /\ Head(uiq).kind \in SnapKinds
<1>1. CASE RunRefresh
  BY <1>1 DEF RunRefresh, Turn, SnapKinds, store, tasks, media
<1>2. CASE RunEvent
  BY <1>2 DEF RunEvent, Turn, SnapKinds, store, tasks, media
<1>3. CASE RunTap
  BY <1>3 DEF RunTap, Turn, SnapKinds, store, tasks, media
<1>4. CASE RunEcho
  BY <1>4 DEF RunEcho, Turn, SnapKinds, store, tasks, media
<1>5. CASE RunRebuild
  BY <1>5 DEF RunRebuild, Turn, SnapKinds, store, tasks, media
<1>6. CASE RunList
  BY <1>6 DEF RunList, Turn, SnapKinds, store, tasks, media
<1>7. CASE RunOpen
  BY <1>7 DEF RunOpen, Turn, SnapKinds, store, tasks, media
<1>8. QED
  BY <1>1, <1>2, <1>3, <1>4, <1>5, <1>6, <1>7 DEF Landing

LEMMA SameBodyItself == ASSUME NEW r PROVE SameBody(r, r) /\ SameFlags(r, r)
BY DEF SameBody, SameFlags

(* One row is refreshed, or none.                                          *)
LEMMA RefreshLands ==
  ASSUME Shaped, Listing, NEW n \in Nat, n <= Len(log), NEW m \in Msgs,
         RefreshRow(n, m) \/ UNCHANGED rows, UNCHANGED <<log, loaded>>
  PROVE  /\ Listing' /\ DOMAIN rows' = DOMAIN rows
         /\ \A k \in DOMAIN rows' : rows'[k].msg = rows[k].msg
                                    /\ (Kin(k) \/ Fresh(rows'[k]))
<1>0. rows \in Seq(Row)
  BY DEF Shaped, ScreenShaped
<1>1. /\ rows' \in Seq(Row) /\ DOMAIN rows' = DOMAIN rows
      /\ \A k \in DOMAIN rows : /\ SameFlags(rows'[k], rows[k])
                                /\ rows'[k].msg = rows[k].msg
                                /\ \/ rows'[k] = rows[k]
                                   \/ SameBody(rows'[k], Build(n, rows[k].msg))
  <2>1. CASE RefreshRow(n, m)
    BY <2>1, RefreshShape
  <2>2. CASE UNCHANGED rows
    BY <1>0, <2>2, SameBodyItself
  <2>3. QED
    BY <2>1, <2>2
<1>2. Joined(rows')
  BY <1>0, <1>1, FlagsJoin DEF Listing
<1>3. FiledOnce' /\ RowsFiled' /\ RowsDiffer'
  BY <1>1 DEF Listing, FiledOnce, RowsFiled, RowsDiffer, IsFiled
<1>4. ~loaded' => rows' = <<>>
  <2>1. rows = <<>> => rows' = <<>>
    BY <1>0, <1>1
  <2>2. QED
    BY <2>1 DEF Listing
<1>5. ASSUME NEW k \in DOMAIN rows' PROVE Kin(k) \/ Fresh(rows'[k])
  <2>1. k \in DOMAIN rows /\ rows[k] \in Row
    BY <1>0, <1>1
  <2>2. CASE rows'[k] = rows[k]
    BY <2>1, <2>2, SameBodyItself DEF Kin
  <2>3. CASE SameBody(rows'[k], Build(n, rows[k].msg))
    BY <1>1, <2>1, <2>3 DEF Fresh, Row
  <2>4. QED
    BY <1>1, <2>1, <2>2, <2>3
<1>6. QED
  BY <1>1, <1>2, <1>3, <1>4, <1>5 DEF Listing

(* Every row is built anew.                                                *)
LEMMA RebuiltLands ==
  ASSUME Shaped, Listing, NEW n \in Nat, n <= Len(log), rows' = Rebuilt(n),
         loaded', UNCHANGED log
  PROVE  /\ Listing'
         /\ \A k \in DOMAIN rows' : Fresh(rows'[k]) /\ ~Hidden(rows'[k].msg)
<1>1. /\ rows' \in Seq(Row) /\ Joined(rows')
      /\ \A k \in DOMAIN rows' : \E i \in Within(n) :
           /\ Rank(Seats(n), i) = k /\ log[i].kind = "chat"
           /\ log[i].msg = rows'[k].msg /\ ~Hidden(log[i].msg)
      /\ \A k \in DOMAIN rows' :
           rows'[k].msg \in Msgs /\ SameBody(rows'[k], Build(n, rows'[k].msg))
  BY RebuiltShape
<1>2. Within(n) \subseteq DOMAIN log
  BY WithinLog
<1>3. RowsFiled' /\ FiledOnce'
  BY <1>1, <1>2 DEF RowsFiled, IsFiled, Listing, FiledOnce
<1>4. RowsDiffer'
  <2> SUFFICES ASSUME NEW j \in DOMAIN rows', NEW k \in DOMAIN rows',
                      rows'[j].msg = rows'[k].msg
               PROVE  j = k
    BY DEF RowsDiffer
  <2>1. PICK p \in Within(n) : /\ Rank(Seats(n), p) = j /\ log[p].kind = "chat"
                               /\ log[p].msg = rows'[j].msg
    BY <1>1
  <2>2. PICK q \in Within(n) : /\ Rank(Seats(n), q) = k /\ log[q].kind = "chat"
                               /\ log[q].msg = rows'[k].msg
    BY <1>1
  <2>3. p = q
    BY <1>2, <2>1, <2>2 DEF Listing, FiledOnce
  <2>4. QED
    BY <2>1, <2>2, <2>3
<1>5. QED
  BY <1>1, <1>3, <1>4 DEF Listing, Fresh

(* A message that is not shown is appended.                                *)
LEMMA PushLands ==
  ASSUME Shaped, Listing, NEW n \in Nat, n <= Len(log), NEW m \in Msgs, loaded,
         InSnap(n, m), ~Shown(m), rows' = Pushed(Build(n, m)), UNCHANGED <<log, loaded>>
  PROVE  /\ Listing'
         /\ \A k \in DOMAIN rows' : Kin(k) \/ (Fresh(rows'[k]) /\ rows'[k].msg = m)
<1> DEFINE row == Build(n, m)
           p == Len(rows) + 1
<1>1. rows \in Seq(Row) /\ row \in Row /\ row.msg = m
  BY BuildShape DEF Shaped, ScreenShaped
<1> HIDE DEF row
<1>2. /\ rows' \in Seq(Row) /\ Len(rows') = p
      /\ \A k \in DOMAIN rows : SameBody(rows'[k], rows[k])
      /\ SameBody(rows'[p], row)
      /\ Joined(rows')
  BY <1>1, PushedShape DEF Listing, row
<1>3. \A k \in DOMAIN rows' : k \in DOMAIN rows \/ k = p
  BY <1>1, <1>2
<1>4. rows'[p].msg = m
  BY <1>1, <1>2 DEF SameBody
<1>5. \A k \in DOMAIN rows : rows'[k].msg = rows[k].msg /\ rows[k].msg # m
  <2>1. \A k \in DOMAIN rows : rows[k].msg # m
    BY <1>1, SpotFinds
  <2>2. QED
    BY <1>2, <2>1 DEF SameBody
<1>6. IsFiled(m)
  BY WithinLog DEF InSnap, IsFiled
<1>7. RowsFiled' /\ FiledOnce'
  BY <1>3, <1>4, <1>5, <1>6 DEF Listing, RowsFiled, IsFiled, FiledOnce
<1>8. RowsDiffer'
  BY <1>3, <1>4, <1>5 DEF Listing, RowsDiffer
<1>9. ASSUME NEW k \in DOMAIN rows'
      PROVE  Kin(k) \/ (Fresh(rows'[k]) /\ rows'[k].msg = m)
  <2>1. CASE k \in DOMAIN rows
    BY <1>2, <2>1 DEF Kin
  <2>2. CASE k = p
    BY <1>2, <1>4, <2>2 DEF Fresh, row
  <2>3. QED
    BY <1>3, <2>1, <2>2
<1>10. QED
  BY <1>2, <1>7, <1>8, <1>9 DEF Listing

(* Together: what a landing leaves of the rows.                            *)
LEMMA Landed ==
  ASSUME Shaped, Listing, Landing
  PROVE  /\ Listing'
         /\ \A k \in DOMAIN rows' :
              \/ Kin(k)
              \/ /\ Fresh(rows'[k])
                 /\ \/ \E j \in DOMAIN rows : rows[j].msg = rows'[k].msg
                    \/ ~Hidden(rows'[k].msg)
                    \/ Unreported(rows'[k].msg)
<1> DEFINE c == Head(uiq)
<1>0. /\ UNCHANGED log /\ 1 \in DOMAIN uiq /\ c = uiq[1]
      /\ c.n \in Nat /\ c.n <= Len(log)
      /\ c.kind \in {"refresh", "rebuild", "tap", "echo", "event"} => c.msg \in Msgs
  BY LandingFrame, HeadTyped
<1>1. CASE RunRefresh \/ RunEvent \/ RunTap
  <2>1. c.msg \in Msgs
    BY <1>0, <1>1 DEF RunRefresh, RunEvent, RunTap, Turn
  <2>2. (RefreshRow(c.n, c.msg) \/ UNCHANGED rows) /\ UNCHANGED loaded
    BY <1>1 DEF RunRefresh, RunEvent, RunTap
  <2> HIDE DEF c
  <2>3. QED
    BY <1>0, <2>1, <2>2, RefreshLands
<1>2. CASE RunEcho
  <2>1. c.msg \in Msgs /\ c.kind = "echo"
    BY <1>0, <1>2 DEF RunEcho, Turn
  <2>2. UNCHANGED loaded
    BY <1>2 DEF RunEcho
  <2>3. \/ UNCHANGED rows
        \/ loaded /\ InSnap(c.n, c.msg) /\ ~Shown(c.msg) /\ rows' = Pushed(Build(c.n, c.msg))
    BY <1>2 DEF RunEcho
  <2>4. Unreported(c.msg)
    BY <1>0, <2>1 DEF Unreported
  <2> HIDE DEF c
  <2>5. CASE UNCHANGED rows
    BY <1>0, <2>1, <2>2, <2>5, RefreshLands
  <2>6. CASE loaded /\ InSnap(c.n, c.msg) /\ ~Shown(c.msg) /\ rows' = Pushed(Build(c.n, c.msg))
    BY <1>0, <2>1, <2>2, <2>4, <2>6, PushLands
  <2>7. QED
    BY <2>3, <2>5, <2>6
<1>3. CASE RunRebuild \/ RunList \/ RunOpen
  <2>1. \/ UNCHANGED <<rows, loaded>>
        \/ loaded' /\ rows' = Rebuilt(c.n)
    BY <1>3 DEF RunRebuild, RunList, RunOpen
  <2> HIDE DEF c
  <2>2. CASE UNCHANGED <<rows, loaded>>
    <3>1. Listing'
      BY <1>0, <2>2 DEF Listing, FiledOnce, RowsFiled, RowsDiffer, IsFiled
    <3>2. \A k \in DOMAIN rows' : Kin(k)
      BY <2>2, SameBodyItself DEF Kin
    <3>3. QED
      BY <3>1, <3>2
  <2>3. CASE loaded' /\ rows' = Rebuilt(c.n)
    BY <1>0, <2>3, RebuiltLands
  <2>4. QED
    BY <2>1, <2>2, <2>3
<1>4. QED
  BY <1>1, <1>2, <1>3 DEF Landing

(* The user's own operations keep the rows of the chat.                    *)
LEMMA WrittenKeeps ==
  ASSUME Shaped, Listing, rows' \in Seq(Row), DOMAIN rows' = DOMAIN rows,
         \A k \in DOMAIN rows : rows'[k].msg = rows[k].msg /\ SameFlags(rows'[k], rows[k]),
         UNCHANGED <<log, loaded>>
  PROVE  Listing'
<1>0. rows \in Seq(Row)
  BY DEF Shaped, ScreenShaped
<1>1. Joined(rows')
  BY <1>0, FlagsJoin DEF Listing
<1>2. FiledOnce' /\ RowsFiled' /\ RowsDiffer'
  BY DEF Listing, FiledOnce, RowsFiled, RowsDiffer, IsFiled
<1>3. ~loaded' => rows' = <<>>
  <2>1. rows = <<>> => rows' = <<>>
    BY <1>0
  <2>2. QED
    BY <2>1 DEF Listing
<1>4. QED
  BY <1>1, <1>2, <1>3 DEF Listing

LEMMA ReactionKeeps ==
  ASSUME Shaped, Listing, NEW k, NEW m \in Msgs, NEW op, SetReaction(k, m, op)
  PROVE  /\ Listing' /\ DOMAIN rows' = DOMAIN rows
         /\ \A j \in DOMAIN rows :
              /\ rows'[j].msg = rows[j].msg /\ rows'[j].text = rows[j].text
              /\ rows'[j].count = rows[j].count /\ (rows'[j].dead <=> rows[j].dead)
              /\ rows'[j].cells = rows[j].cells
              /\ rows[j].msg # m => rows'[j].chips = rows[j].chips
              /\ rows[j].msg = m => rows'[j].chips = WithReaction(rows[j].chips, op)
<1> DEFINE s == Spot(m)
<1>1. /\ s \in DOMAIN rows /\ rows[s].msg = m
      /\ rows' \in Seq(Row) /\ DOMAIN rows' = DOMAIN rows
      /\ \A j \in DOMAIN rows : j # s => rows'[j] = rows[j]
      /\ rows'[s] = [rows[s] EXCEPT !.chips = WithReaction(rows[s].chips, op)]
  BY ReactionRows
<1> HIDE DEF s
<1>2. rows[s] \in Row
  BY <1>1 DEF Shaped, ScreenShaped
<1>3. /\ rows'[s].msg = rows[s].msg /\ rows'[s].text = rows[s].text
      /\ rows'[s].count = rows[s].count /\ (rows'[s].dead <=> rows[s].dead)
      /\ rows'[s].chips = WithReaction(rows[s].chips, op)
      /\ SameFlags(rows'[s], rows[s]) /\ rows'[s].cells = rows[s].cells
  <2>1. LET new == [rows[s] EXCEPT !.chips = WithReaction(rows[s].chips, op)]
        IN  /\ new.msg = rows[s].msg /\ new.text = rows[s].text
            /\ new.count = rows[s].count
            /\ new.chips = WithReaction(rows[s].chips, op)
            /\ (new.dead <=> rows[s].dead) /\ SameFlags(new, rows[s])
            /\ new.cells = rows[s].cells
    BY <1>2, ReactedRow
  <2>2. QED
    BY <1>1, <2>1, Zenon
<1>4. \A j \in DOMAIN rows : j # s <=> rows[j].msg # m
  BY <1>1 DEF Listing, RowsDiffer
<1>5. ASSUME NEW j \in DOMAIN rows
      PROVE  /\ rows'[j].msg = rows[j].msg /\ rows'[j].text = rows[j].text
             /\ rows'[j].count = rows[j].count /\ (rows'[j].dead <=> rows[j].dead)
             /\ rows'[j].cells = rows[j].cells
             /\ rows[j].msg # m => rows'[j].chips = rows[j].chips
             /\ rows[j].msg = m => rows'[j].chips = WithReaction(rows[j].chips, op)
             /\ SameFlags(rows'[j], rows[j])
  <2>1. CASE j = s
    BY <1>1, <1>3, <2>1
  <2>2. CASE j # s
    BY <1>1, <1>4, <2>2, SameBodyItself
  <2>3. QED
    BY <2>1, <2>2
<1>6. UNCHANGED <<log, loaded>>
  BY DEF SetReaction, store
<1>7. Listing'
  BY <1>1, <1>5, <1>6, WrittenKeeps
<1>8. QED
  BY <1>1, <1>5, <1>7

LEMMA SubmitKeeps ==
  ASSUME Shaped, Listing, NEW m \in Msgs, NEW v \in Texts,
         rows' = IF Shown(m) THEN [rows EXCEPT ![Spot(m)] = WithEdit(@, v)] ELSE rows,
         UNCHANGED <<log, loaded>>
  PROVE  /\ Listing' /\ DOMAIN rows' = DOMAIN rows
         /\ \A j \in DOMAIN rows :
              /\ rows'[j].msg = rows[j].msg /\ rows'[j].chips = rows[j].chips
              /\ rows'[j].dead <=> rows[j].dead
              /\ rows'[j].cells = rows[j].cells
              /\ rows[j].msg # m => rows'[j].text = rows[j].text
                                    /\ rows'[j].count = rows[j].count
              /\ rows[j].msg = m => rows'[j].text = v /\ rows'[j].count > 0
<1> DEFINE s == Spot(m)
<1>0. rows \in Seq(Row)
  BY DEF Shaped, ScreenShaped
<1>1. /\ rows' \in Seq(Row) /\ DOMAIN rows' = DOMAIN rows
      /\ Shown(m) => /\ s \in DOMAIN rows /\ rows[s].msg = m
                     /\ rows'[s] = WithEdit(rows[s], v)
      /\ \A j \in DOMAIN rows : ~(Shown(m) /\ j = s) => rows'[j] = rows[j]
  BY EditRows
<1> HIDE DEF s
<1>2. ASSUME NEW j \in DOMAIN rows
      PROVE  /\ rows'[j].msg = rows[j].msg /\ rows'[j].chips = rows[j].chips
             /\ rows'[j].dead <=> rows[j].dead
             /\ rows'[j].cells = rows[j].cells
             /\ rows[j].msg # m => rows'[j].text = rows[j].text
                                   /\ rows'[j].count = rows[j].count
             /\ rows[j].msg = m => rows'[j].text = v /\ rows'[j].count > 0
             /\ SameFlags(rows'[j], rows[j])
  <2>1. CASE Shown(m) /\ j = s
    <3>1. rows[j] \in Row /\ rows[j].msg = m
      BY <1>0, <1>1, <2>1
    <3>2. rows'[j] = WithEdit(rows[j], v)
      BY <1>1, <2>1
    <3>3. QED
      BY <3>1, <3>2, EditedRow
  <2>2. CASE ~(Shown(m) /\ j = s)
    <3>1. rows'[j] = rows[j]
      BY <1>1, <2>2
    <3>2. rows[j].msg # m
      <4>1. CASE Shown(m)
        BY <1>1, <2>2, <4>1 DEF Listing, RowsDiffer
      <4>2. CASE ~Shown(m)
        BY <1>0, <4>2, SpotFinds
      <4>3. QED
        BY <4>1, <4>2
    <3>3. QED
      BY <3>1, <3>2, SameBodyItself
  <2>3. QED
    BY <2>1, <2>2
<1>3. Listing'
  BY <1>1, <1>2, WrittenKeeps
<1>4. QED
  BY <1>1, <1>2, <1>3

(* A record is stored: an operation's, a peer's, or an unknown message.    *)
LEMMA StoreKeeps ==
  ASSUME Shaped, Listing, NEW r \in Filed, Store(r), UNCHANGED <<rows, loaded>>,
         r.kind = "chat" => ~IsFiled(r.msg)
  PROVE  Listing'
<1>1. /\ \A i \in DOMAIN log : i \in DOMAIN log' /\ log'[i] = log[i]
      /\ log'[Len(log) + 1] = r
      /\ \A i \in DOMAIN log' : i \in DOMAIN log \/ i = Len(log) + 1
  BY StoreShaped
<1>2. FiledOnce'
  <2> SUFFICES ASSUME NEW i \in DOMAIN log', NEW j \in DOMAIN log',
                      log'[i].kind = "chat", log'[j].kind = "chat",
                      log'[i].msg = log'[j].msg
               PROVE  i = j
    BY DEF FiledOnce
  <2>1. CASE i \in DOMAIN log /\ j \in DOMAIN log
    BY <1>1, <2>1 DEF Listing, FiledOnce
  <2>2. CASE i \in DOMAIN log /\ j = Len(log) + 1
    BY <1>1, <2>2 DEF IsFiled
  <2>3. CASE i = Len(log) + 1 /\ j \in DOMAIN log
    BY <1>1, <2>3 DEF IsFiled
  <2>4. QED
    BY <1>1, <2>1, <2>2, <2>3
<1>3. RowsFiled'
  BY <1>1 DEF Listing, RowsFiled, IsFiled
<1>4. QED
  BY <1>2, <1>3 DEF Listing, RowsDiffer

(* The steps that leave the rows and the records alone.                    *)
Aside == \/ \E m \in Msgs : RequestEdit(m) \/ Delete(m) \/ Hide(m) \/ Tap(m)
         \/ CancelEdit \/ Select \/ RunDone \/ RunAutoload \/ Report
         \/ \E o \in BagToSet(ops) : Completed(o)
         \/ \E j \in BagToSet(reads) : Read(j)
         \/ \E h \in BagToSet(held) : Hand(h)
         \/ \E l \in BagToSet(loads) : Loaded(l) \/ LoadFailed(l)
LEMMA AsideFrame ==
  ASSUME Aside
  PROVE  UNCHANGED <<log, rows, loaded, account>>
<1>1. CASE \E m \in Msgs : RequestEdit(m) \/ Delete(m) \/ Hide(m) \/ Tap(m)
  BY <1>1 DEF RequestEdit, Delete, Hide, Tap, store
<1>2. CASE CancelEdit \/ Select \/ RunDone \/ RunAutoload \/ Report
  BY <1>2 DEF CancelEdit, Select, RunDone, RunAutoload, Report, store
<1>3. CASE \E o \in BagToSet(ops) : Completed(o)
  BY <1>3 DEF Completed, store
<1>4. CASE \/ \E j \in BagToSet(reads) : Read(j)
           \/ \E h \in BagToSet(held) : Hand(h)
  BY <1>4 DEF Read, Hand, store
<1>5. CASE \E l \in BagToSet(loads) : Loaded(l) \/ LoadFailed(l)
  BY <1>5 DEF Loaded, LoadFailed, store
<1>6. QED
  BY <1>1, <1>2, <1>3, <1>4, <1>5 DEF Aside

(* Every step is one of these.                                             *)
PeerStores == \E r \in Filed :
  /\ Store(r) /\ r.kind # "chat" /\ r.by = "peer"
  /\ r.kind # "unreact" /\ IsFiled(r.msg)
  /\ UNCHANGED <<hidden, account, overlay, editing, rows, loaded, watched, tasks, uiq,
                 media, history>>
Reacting == \E k \in {"react", "unreact"}, m \in Msgs, op \in Emojis \cup {"remove"} :
              (k = "react" => op \in Emojis) /\ SetReaction(k, m, op)
LEMMA Steps ==
  ASSUME [Next]_vars
  PROVE  \/ Reacting \/ Aside \/ Landing
         \/ \E v \in Texts : SubmitEdit(v)
         \/ \E a \in Accounts : SwitchTo(a)
         \/ \E m \in Msgs : Receive(m)
         \/ PeerStores /\ Spend("peer")
         \/ \E o \in BagToSet(ops) : Stored(o)
         \/ UNCHANGED vars
<1>1. CASE User
  <2>1. /\ Targets["react"] \subseteq Msgs /\ Targets["unreact"] \subseteq Msgs
        /\ Targets["edit"] \subseteq Msgs /\ Targets["delete"] \subseteq Msgs
        /\ Targets["hide"] \subseteq Msgs /\ Targets["tap"] \subseteq Msgs
    BY TargetsKnown DEF Limited
  <2>2. QED
    BY <1>1, <2>1 DEF User, React, Unreact, Reacting, Aside
<1>2. CASE Peer
  <2>1. Targets["receive"] \subseteq Msgs /\ Targets["peer"] \subseteq Msgs
    BY TargetsKnown DEF Limited
  <2>2. ASSUME NEW k \in {"react", "edit", "delete"}, NEW m \in Msgs, NEW v,
               Rec(k, m, "peer", v) \in Filed, PeerActs(k, m, v)
        PROVE  PeerStores /\ Spend("peer")
    <3>1. /\ Rec(k, m, "peer", v).kind # "chat" /\ Rec(k, m, "peer", v).by = "peer"
          /\ Rec(k, m, "peer", v).kind # "unreact" /\ Rec(k, m, "peer", v).msg = m
      BY DEF Rec
    <3>2. QED
      BY <2>2, <3>1 DEF PeerActs, PeerStores, IsFiled
  <2>3. QED
    BY <1>2, <2>1, <2>2, PeerFiled DEF Peer
<1>3. CASE Workers
  BY <1>3 DEF Workers, Aside
<1>4. CASE Closures
  BY <1>4 DEF Closures, Aside, Landing
<1>5. QED
  BY <1>1, <1>2, <1>3, <1>4 DEF Next

LEMMA ListingKept ==
  ASSUME Shaped, Listing, [Next]_vars
  PROVE  Listing'
<1>1. CASE Reacting
  BY <1>1, ReactionKeeps DEF Reacting
<1>2. CASE Aside
  BY <1>2, AsideFrame DEF Listing, FiledOnce, RowsFiled, RowsDiffer, IsFiled
<1>3. CASE Landing
  BY <1>3, Landed
<1>4. ASSUME NEW v \in Texts, SubmitEdit(v) PROVE Listing'
  <2>1. PICK m \in editing :
          rows' = IF Shown(m) THEN [rows EXCEPT ![Spot(m)] = WithEdit(@, v)] ELSE rows
    BY <1>4 DEF SubmitEdit
  <2>2. m \in Msgs /\ UNCHANGED <<log, loaded>>
    BY <1>4 DEF Shaped, ScreenShaped, SubmitEdit, store
  <2>3. QED
    BY <2>1, <2>2, SubmitKeeps
<1>5. ASSUME NEW a \in Accounts, SwitchTo(a) PROVE Listing'
  BY <1>5 DEF SwitchTo, store, Listing, FiledOnce, RowsFiled, RowsDiffer, Joined
<1>6. ASSUME NEW m \in Msgs, Receive(m) PROVE Listing'
  <2>1. Rec("chat", m, Author[m], "none").msg = m
    BY DEF Rec
  <2>2. ~IsFiled(m)
    BY <1>6 DEF Receive, IsFiled
  <2>3. QED
    BY <1>6, <2>1, <2>2, PeerFiled, StoreKeeps DEF Receive
<1>7. CASE PeerStores
  BY <1>7, StoreKeeps DEF PeerStores
<1>8. ASSUME NEW o \in BagToSet(ops), Stored(o) PROVE Listing'
  <2>1. Rec(o.kind, o.msg, o.by, o.val).kind # "chat"
    BY OpTyped DEF Rec, Operation
  <2>2. QED
    BY <1>8, <2>1, OpTyped, StoreKeeps DEF Stored
<1>9. CASE UNCHANGED vars
  BY <1>9 DEF vars, Listing, FiledOnce, RowsFiled, RowsDiffer, IsFiled
<1>10. QED
  BY <1>1, <1>2, <1>3, <1>4, <1>5, <1>6, <1>7, <1>8, <1>9, Steps
-----------------------------------------------------------------------------
(* What nobody but the author may do.                                      *)

LEMMA UsedMoves ==
  ASSUME [Next]_vars
  PROVE  UNCHANGED used \/ \E o \in Limited : Spend(o)
<1>1. CASE Reacting
  BY <1>1 DEF Reacting, SetReaction, Limited
<1>2. CASE Aside
  <2>1. CASE \E m \in Msgs : RequestEdit(m) \/ Delete(m) \/ Hide(m) \/ Tap(m)
    BY <2>1 DEF RequestEdit, Delete, Hide, Tap, Limited
  <2>2. CASE CancelEdit \/ Select \/ RunDone \/ RunAutoload \/ Report
    BY <2>2 DEF CancelEdit, Select, RunDone, RunAutoload, Report, Limited
  <2>3. CASE \E o \in BagToSet(ops) : Completed(o)
    BY <2>3 DEF Completed, Limited
  <2>4. CASE \/ \E j \in BagToSet(reads) : Read(j)
             \/ \E h \in BagToSet(held) : Hand(h)
    BY <2>4 DEF Read, Hand
  <2>5. CASE \E l \in BagToSet(loads) : Loaded(l) \/ LoadFailed(l)
    BY <2>5 DEF Loaded, LoadFailed, Limited
  <2>6. QED
    BY <1>2, <2>1, <2>2, <2>3, <2>4, <2>5 DEF Aside
<1>3. CASE Landing
  BY <1>3, LandingFrame
<1>4. ASSUME NEW v \in Texts, SubmitEdit(v) PROVE UNCHANGED used
  BY <1>4 DEF SubmitEdit
<1>5. ASSUME NEW a \in Accounts, SwitchTo(a) PROVE \E o \in Limited : Spend(o)
  BY <1>5 DEF SwitchTo, Limited
<1>6. ASSUME NEW m \in Msgs, Receive(m) PROVE \E o \in Limited : Spend(o)
  BY <1>6 DEF Receive, Limited
<1>7. CASE PeerStores /\ Spend("peer")
  BY <1>7 DEF Limited
<1>8. ASSUME NEW o \in BagToSet(ops), Stored(o) PROVE UNCHANGED used
  BY <1>8 DEF Stored
<1>9. QED
  BY <1>1, <1>2, <1>3, <1>4, <1>5, <1>6, <1>7, <1>8, Steps DEF vars

(* An operation that has happened has happened.                            *)
LEMMA UsedGrows ==
  ASSUME Shaped, [Next]_vars, NEW o \in Limited, used'[o] = 0
  PROVE  used[o] = 0
<1>1. used \in [Limited -> Nat]
  BY DEF Shaped, ScreenShaped
<1>2. ASSUME NEW p \in Limited, Spend(p) PROVE used[o] = 0
  <2>1. used' = [used EXCEPT ![p] = @ + 1] /\ used'[p] # 0
    BY <1>1, <1>2, SpendUses
  <2>2. QED
    BY <1>1, <2>1
<1>3. QED
  BY <1>2, UsedMoves

LEMMA SpentNotZero ==
  ASSUME Shaped, NEW o \in Limited, Spend(o)
  PROVE  used'[o] # 0
BY SpendUses DEF Shaped, ScreenShaped

(* Storing an operation keeps its kind; completing one drops it.           *)
LEMMA StoredOps ==
  ASSUME Shaped, NEW o \in BagToSet(ops), Stored(o)
  PROVE  /\ IsBag(ops', Operation)
         /\ BagToSet(ops') \subseteq BagToSet(ops) \cup {[o EXCEPT !.stored = TRUE]}
         /\ [o EXCEPT !.stored = TRUE] \in BagToSet(ops')
         /\ BagToSet(ops) \ {o} \subseteq BagToSet(ops')
         /\ o \in BagToSet(ops') => ops[o] > 1
         /\ [o EXCEPT !.stored = TRUE] \notin BagToSet(ops) =>
              ops'[[o EXCEPT !.stored = TRUE]] = 1
         /\ \A p \in BagToSet(ops) :
              p # o /\ p # [o EXCEPT !.stored = TRUE] => ops'[p] = ops[p]
<1> DEFINE less == ops (-) SetToBag({o})
           q    == [o EXCEPT !.stored = TRUE]
<1>1. IsBag(ops, Operation) /\ q \in Operation /\ q # o
  <2>1. o \in Operation /\ q \in Operation /\ ~o.stored
    BY OpTyped DEF Stored
  <2>2. q.stored
    BY <2>1 DEF Operation
  <2>3. QED
    BY <2>1, <2>2 DEF Shaped, TasksShaped
<1>2. ops' = less (+) SetToBag({q})
  BY DEF Stored
<1> HIDE DEF q
<1>3. /\ IsBag(less, Operation) /\ BagToSet(less) \subseteq BagToSet(ops)
      /\ BagToSet(ops) \ {o} \subseteq BagToSet(less)
      /\ o \in BagToSet(less) => ops[o] > 1
      /\ \A p \in BagToSet(ops) \ {o} : less[p] = ops[p]
  BY <1>1, BagTake
<1> HIDE DEF less
<1>4. {q} \subseteq Operation
  BY <1>1
<1>5. /\ IsBag(ops', Operation) /\ BagToSet(ops') = BagToSet(less) \cup {q}
      /\ q \notin BagToSet(less) => ops'[q] = 1
      /\ \A p \in BagToSet(less) : p # q => ops'[p] = less[p]
  BY <1>2, <1>3, <1>4, BagAdd
<1>6. o \in BagToSet(ops') => ops[o] > 1
  BY <1>1, <1>3, <1>5
<1>7. \A p \in BagToSet(ops) : p # o /\ p # q => ops'[p] = ops[p]
  BY <1>3, <1>5
<1>8. QED
  BY <1>3, <1>5, <1>6, <1>7 DEF q

LEMMA CompletedOps ==
  ASSUME Shaped, NEW o \in BagToSet(ops), Completed(o)
  PROVE  /\ BagToSet(ops') \subseteq BagToSet(ops)
         /\ BagToSet(ops) \ {o} \subseteq BagToSet(ops')
         /\ o \in BagToSet(ops') => ops[o] > 1
         /\ \A p \in BagToSet(ops) \ {o} : ops'[p] = ops[p]
BY BagTake DEF Shaped, TasksShaped, Completed

(* The tasks that publish, over the handlers that start none.              *)
Unpublished == \/ \E m \in Msgs : RequestEdit(m) \/ Hide(m) \/ Tap(m)
               \/ CancelEdit \/ Select \/ RunAutoload \/ Report
               \/ \E j \in BagToSet(reads) : Read(j)
               \/ \E h \in BagToSet(held) : Hand(h)
               \/ \E l \in BagToSet(loads) : Loaded(l) \/ LoadFailed(l)
LEMMA UnpublishedFrame ==
  ASSUME Unpublished
  PROVE  UNCHANGED <<log, rows, account, ops, overlay, crossed>>
<1>1. CASE \E m \in Msgs : RequestEdit(m) \/ Hide(m) \/ Tap(m)
  BY <1>1 DEF RequestEdit, Hide, Tap, store, tasks, history
<1>2. CASE CancelEdit \/ Select \/ RunAutoload \/ Report
  BY <1>2 DEF CancelEdit, Select, RunAutoload, Report, store, tasks, history
<1>3. CASE \/ \E j \in BagToSet(reads) : Read(j)
           \/ \E h \in BagToSet(held) : Hand(h)
  BY <1>3 DEF Read, Hand, store, history
<1>4. CASE \E l \in BagToSet(loads) : Loaded(l) \/ LoadFailed(l)
  BY <1>4 DEF Loaded, LoadFailed, store, history
<1>5. QED
  BY <1>1, <1>2, <1>3, <1>4 DEF Unpublished

LEMMA AsideParts ==
  Aside => \/ Unpublished \/ RunDone \/ \E m \in Msgs : Delete(m)
           \/ \E o \in BagToSet(ops) : Completed(o)
BY DEF Aside, Unpublished

(* The edit mode is entered by asking for it.                              *)
LEMMA EditingAsked ==
  ASSUME Shaped, Unpublished, used'["edit"] = 0
  PROVE  editing' = editing \/ editing' = {}
<1>1. ASSUME NEW m \in Msgs, RequestEdit(m) PROVE FALSE
  BY <1>1, SpentNotZero DEF RequestEdit, Limited
<1>2. CASE \E m \in Msgs : Hide(m) \/ Tap(m)
  BY <1>2 DEF Hide, Tap
<1>3. CASE CancelEdit \/ Select \/ RunAutoload \/ Report
  BY <1>3 DEF CancelEdit, Select, RunAutoload, Report
<1>4. CASE \/ \E j \in BagToSet(reads) : Read(j)
           \/ \E h \in BagToSet(held) : Hand(h)
  BY <1>4 DEF Read, Hand
<1>5. CASE \E l \in BagToSet(loads) : Loaded(l) \/ LoadFailed(l)
  BY <1>5 DEF Loaded, LoadFailed
<1>6. QED
  BY <1>1, <1>2, <1>3, <1>4, <1>5 DEF Unpublished

LEMMA NoEditsKept ==
  ASSUME Shaped, NoEdits, [Next]_vars
  PROVE  NoEdits'
<1> SUFFICES ASSUME used'["edit"] = 0
             PROVE  /\ editing' = {} /\ \A m \in Msgs : overlay'.edits[m] = "none"
                    /\ \A o \in BagToSet(ops') : o.kind # "edit"
                    /\ \A i \in DOMAIN log' : log'[i].kind = "edit" => log'[i].by = "peer"
  BY DEF NoEdits
<1>0. /\ used["edit"] = 0 /\ editing = {} /\ \A m \in Msgs : overlay.edits[m] = "none"
      /\ \A o \in BagToSet(ops) : o.kind # "edit"
      /\ \A i \in DOMAIN log : log[i].kind = "edit" => log[i].by = "peer"
  BY UsedGrows DEF NoEdits, Limited
<1>1. CASE Reacting
  <2>1. PICK k \in {"react", "unreact"}, m \in Msgs, op \in Emojis \cup {"remove"} :
          (k = "react" => op \in Emojis) /\ SetReaction(k, m, op)
    BY <1>1 DEF Reacting
  <2>2. PICK v \in Emojis \cup {"none"} : v = IF k = "react" THEN op ELSE "none"
    BY <2>1
  <2>3. Publish(k, m, v)
    BY <2>1, <2>2 DEF SetReaction
  <2>4. BagToSet(ops') = BagToSet(ops) \cup {Op(k, m, v)} /\ Op(k, m, v).kind = k
    <3>1. v \in Texts \cup Emojis \cup {"none"} /\ k # "edit"
      OBVIOUS
    <3>2. BagToSet(ops') = BagToSet(ops) \cup {Op(k, m, v)}
      BY <2>3, <3>1, Published DEF Shaped
    <3>3. QED
      BY <3>2 DEF Op
  <2>5. overlay' = [overlay EXCEPT !.reactions[m] = op] /\ UNCHANGED <<editing, log>>
    BY <2>1 DEF SetReaction, store
  <2>6. \A n \in Msgs : overlay'.edits[n] = overlay.edits[n]
    BY <2>5 DEF Shaped, ScreenShaped, Overlay
  <2>7. QED
    BY <1>0, <2>4, <2>5, <2>6
<1>2. CASE Unpublished
  BY <1>0, <1>2, UnpublishedFrame, EditingAsked
<1>3. CASE RunDone
  <2>1. Head(uiq).op \in Operation
    BY <1>3, HeadTyped DEF RunDone, Turn
  <2>2. overlay' = Settle(Head(uiq).op) /\ UNCHANGED <<editing, ops, log>>
    BY <1>3 DEF RunDone, store
  <2>3. \A m \in Msgs : Settle(Head(uiq).op).edits[m] = "none"
    BY <1>0, <2>1 DEF Settle, Operation, Shaped, ScreenShaped, Overlay
  <2>4. QED
    BY <1>0, <2>2, <2>3
<1>4. ASSUME NEW m \in Msgs, Delete(m)
      PROVE  /\ editing' = {} /\ \A n \in Msgs : overlay'.edits[n] = "none"
             /\ \A o \in BagToSet(ops') : o.kind # "edit"
             /\ \A i \in DOMAIN log' : log'[i].kind = "edit" => log'[i].by = "peer"
  <2>1. /\ BagToSet(ops') = BagToSet(ops) \cup {Op("delete", m, "none")}
        /\ Op("delete", m, "none").kind = "delete"
    BY <1>4, Published DEF Shaped, Delete, Op
  <2>2. UNCHANGED <<editing, log>>
    BY <1>4 DEF Delete, store
  <2>3. \A n \in Msgs : overlay'.edits[n] = overlay.edits[n]
    BY <1>4 DEF Delete, Shaped, ScreenShaped, Overlay
  <2>4. QED
    BY <1>0, <2>1, <2>2, <2>3
<1>5. ASSUME NEW o \in BagToSet(ops), Completed(o)
      PROVE  /\ editing' = {} /\ \A n \in Msgs : overlay'.edits[n] = "none"
             /\ \A p \in BagToSet(ops') : p.kind # "edit"
             /\ \A i \in DOMAIN log' : log'[i].kind = "edit" => log'[i].by = "peer"
  BY <1>0, <1>5, CompletedOps DEF Completed, store
<1>6. CASE Aside
  BY <1>2, <1>3, <1>4, <1>5, <1>6, AsideParts
<1>7. CASE Landing
  BY <1>0, <1>7, LandingFrame
<1>8. ASSUME NEW v \in Texts, SubmitEdit(v) PROVE FALSE
  BY <1>0, <1>8 DEF SubmitEdit
<1>9. ASSUME NEW a \in Accounts, SwitchTo(a)
      PROVE  /\ editing' = {} /\ \A m \in Msgs : overlay'.edits[m] = "none"
             /\ UNCHANGED <<ops, log>>
  BY <1>9 DEF SwitchTo, NoOverlay, store
<1>10. ASSUME NEW r \in Filed, Store(r), r.kind = "edit" => r.by = "peer",
              UNCHANGED <<editing, overlay>>,
              \A o \in BagToSet(ops') : o.kind # "edit"
       PROVE  /\ editing' = {} /\ \A n \in Msgs : overlay'.edits[n] = "none"
              /\ \A o \in BagToSet(ops') : o.kind # "edit"
              /\ \A i \in DOMAIN log' : log'[i].kind = "edit" => log'[i].by = "peer"
  <2>1. /\ \A i \in DOMAIN log : i \in DOMAIN log' /\ log'[i] = log[i]
        /\ log'[Len(log) + 1] = r
        /\ \A i \in DOMAIN log' : i \in DOMAIN log \/ i = Len(log) + 1
    BY <1>10, StoreShaped
  <2>2. QED
    BY <1>0, <1>10, <2>1
<1>11. ASSUME NEW m \in Msgs, Receive(m)
       PROVE  /\ Rec("chat", m, Author[m], "none") \in Filed
              /\ Store(Rec("chat", m, Author[m], "none"))
              /\ Rec("chat", m, Author[m], "none").kind # "edit"
              /\ UNCHANGED <<editing, overlay, ops>>
  BY <1>11, PeerFiled DEF Receive, Rec, tasks
<1>12. CASE PeerStores
  BY <1>0, <1>10, <1>12 DEF PeerStores, tasks
<1>13. ASSUME NEW o \in BagToSet(ops), Stored(o)
       PROVE  /\ Rec(o.kind, o.msg, o.by, o.val) \in Filed
              /\ Store(Rec(o.kind, o.msg, o.by, o.val))
              /\ Rec(o.kind, o.msg, o.by, o.val).kind # "edit"
              /\ UNCHANGED <<editing, overlay>>
              /\ \A p \in BagToSet(ops') : p.kind # "edit"
  <2>1. o.kind # "edit" /\ o \in Operation
    BY <1>0, OpTyped
  <2>2. [o EXCEPT !.stored = TRUE].kind = o.kind
    BY <2>1 DEF Operation
  <2>3. \A p \in BagToSet(ops') : p.kind # "edit"
    BY <1>0, <1>13, <2>1, <2>2, StoredOps
  <2>4. QED
    BY <1>13, <2>1, <2>3, OpTyped DEF Stored, Rec
<1>14. CASE UNCHANGED vars
  BY <1>0, <1>14 DEF vars
<1>15. QED
  BY <1>0, <1>1, <1>6, <1>7, <1>8, <1>9, <1>10, <1>11, <1>12, <1>13, <1>14, Steps
LEMMA NoDeletesKept ==
  ASSUME Shaped, NoDeletes, [Next]_vars
  PROVE  NoDeletes'
<1> SUFFICES ASSUME used'["delete"] = 0
             PROVE  /\ overlay'.deletes = {}
                    /\ \A o \in BagToSet(ops') : o.kind # "delete"
                    /\ \A i \in DOMAIN log' : log'[i].kind = "delete" => log'[i].by = "peer"
  BY DEF NoDeletes
<1>0. /\ used["delete"] = 0 /\ overlay.deletes = {}
      /\ \A o \in BagToSet(ops) : o.kind # "delete"
      /\ \A i \in DOMAIN log : log[i].kind = "delete" => log[i].by = "peer"
  BY UsedGrows DEF NoDeletes, Limited
<1>1. CASE Reacting
  <2>1. PICK k \in {"react", "unreact"}, m \in Msgs, op \in Emojis \cup {"remove"} :
          (k = "react" => op \in Emojis) /\ SetReaction(k, m, op)
    BY <1>1 DEF Reacting
  <2>2. PICK v \in Emojis \cup {"none"} : v = IF k = "react" THEN op ELSE "none"
    BY <2>1
  <2>3. Publish(k, m, v)
    BY <2>1, <2>2 DEF SetReaction
  <2>4. BagToSet(ops') = BagToSet(ops) \cup {Op(k, m, v)} /\ Op(k, m, v).kind = k
    <3>1. v \in Texts \cup Emojis \cup {"none"} /\ k # "edit"
      OBVIOUS
    <3>2. BagToSet(ops') = BagToSet(ops) \cup {Op(k, m, v)}
      BY <2>3, <3>1, Published DEF Shaped
    <3>3. QED
      BY <3>2 DEF Op
  <2>5. overlay' = [overlay EXCEPT !.reactions[m] = op] /\ UNCHANGED log
    BY <2>1 DEF SetReaction, store
  <2>6. overlay'.deletes = overlay.deletes
    BY <2>5 DEF Shaped, ScreenShaped, Overlay
  <2>7. QED
    BY <1>0, <2>4, <2>5, <2>6
<1>2. CASE Unpublished
  BY <1>0, <1>2, UnpublishedFrame
<1>3. CASE RunDone
  <2>1. Head(uiq).op \in Operation
    BY <1>3, HeadTyped DEF RunDone, Turn
  <2>2. overlay' = Settle(Head(uiq).op) /\ UNCHANGED <<ops, log>>
    BY <1>3 DEF RunDone, store
  <2>3. Settle(Head(uiq).op).deletes = {}
    BY <1>0, <2>1 DEF Settle, Operation, Shaped, ScreenShaped, Overlay
  <2>4. QED
    BY <1>0, <2>2, <2>3
<1>4. ASSUME NEW m \in Msgs, Delete(m) PROVE FALSE
  BY <1>4, SpentNotZero DEF Delete, Limited
<1>5. ASSUME NEW o \in BagToSet(ops), Completed(o)
      PROVE  /\ overlay'.deletes = {}
             /\ \A p \in BagToSet(ops') : p.kind # "delete"
             /\ \A i \in DOMAIN log' : log'[i].kind = "delete" => log'[i].by = "peer"
  BY <1>0, <1>5, CompletedOps DEF Completed, store
<1>6. CASE Aside
  BY <1>2, <1>3, <1>4, <1>5, <1>6, AsideParts
<1>7. CASE Landing
  BY <1>0, <1>7, LandingFrame
<1>8. ASSUME NEW v \in Texts, SubmitEdit(v)
      PROVE  /\ overlay'.deletes = {} /\ UNCHANGED log
             /\ \A o \in BagToSet(ops') : o.kind # "delete"
  <2>1. PICK m \in editing :
          overlay' = [overlay EXCEPT !.edits[m] = v] /\ Publish("edit", m, v)
    BY <1>8 DEF SubmitEdit
  <2>2. m \in Msgs
    BY DEF Shaped, ScreenShaped
  <2>3. BagToSet(ops') = BagToSet(ops) \cup {Op("edit", m, v)} /\ Op("edit", m, v).kind = "edit"
    BY <2>1, <2>2, Published DEF Shaped, Op
  <2>4. overlay'.deletes = overlay.deletes /\ UNCHANGED log
    BY <1>8, <2>1 DEF Shaped, ScreenShaped, Overlay, SubmitEdit, store
  <2>5. QED
    BY <1>0, <2>3, <2>4
<1>9. ASSUME NEW a \in Accounts, SwitchTo(a)
      PROVE  /\ overlay'.deletes = {}
             /\ UNCHANGED <<ops, log>>
  BY <1>9 DEF SwitchTo, NoOverlay, store
<1>10. ASSUME NEW r \in Filed, Store(r), r.kind = "delete" => r.by = "peer",
              UNCHANGED overlay,
              \A o \in BagToSet(ops') : o.kind # "delete"
       PROVE  /\ overlay'.deletes = {}
              /\ \A o \in BagToSet(ops') : o.kind # "delete"
              /\ \A i \in DOMAIN log' : log'[i].kind = "delete" => log'[i].by = "peer"
  <2>1. /\ \A i \in DOMAIN log : i \in DOMAIN log' /\ log'[i] = log[i]
        /\ log'[Len(log) + 1] = r
        /\ \A i \in DOMAIN log' : i \in DOMAIN log \/ i = Len(log) + 1
    BY <1>10, StoreShaped
  <2>2. QED
    BY <1>0, <1>10, <2>1
<1>11. ASSUME NEW m \in Msgs, Receive(m)
       PROVE  /\ Rec("chat", m, Author[m], "none") \in Filed
              /\ Store(Rec("chat", m, Author[m], "none"))
              /\ Rec("chat", m, Author[m], "none").kind # "delete"
              /\ UNCHANGED <<overlay, ops>>
  BY <1>11, PeerFiled DEF Receive, Rec, tasks
<1>12. CASE PeerStores
  BY <1>0, <1>10, <1>12 DEF PeerStores, tasks
<1>13. ASSUME NEW o \in BagToSet(ops), Stored(o)
       PROVE  /\ Rec(o.kind, o.msg, o.by, o.val) \in Filed
              /\ Store(Rec(o.kind, o.msg, o.by, o.val))
              /\ Rec(o.kind, o.msg, o.by, o.val).kind # "delete"
              /\ UNCHANGED overlay
              /\ \A p \in BagToSet(ops') : p.kind # "delete"
  <2>1. o.kind # "delete" /\ o \in Operation
    BY <1>0, OpTyped
  <2>2. [o EXCEPT !.stored = TRUE].kind = o.kind
    BY <2>1 DEF Operation
  <2>3. \A p \in BagToSet(ops') : p.kind # "delete"
    BY <1>0, <1>13, <2>1, <2>2, StoredOps
  <2>4. QED
    BY <1>13, <2>1, <2>3, OpTyped DEF Stored, Rec
<1>14. CASE UNCHANGED vars
  BY <1>0, <1>14 DEF vars
<1>15. QED
  BY <1>0, <1>1, <1>6, <1>7, <1>8, <1>9, <1>10, <1>11, <1>12, <1>13, <1>14, Steps

(* A row built now shows the overlay, and its author's records only.       *)
LEMMA FreshShows ==
  ASSUME Shaped, NEW r, Fresh(r), ~r.dead
  PROVE  /\ overlay.edits[r.msg] # "none" =>
              r.text = overlay.edits[r.msg] /\ r.count > 0
         /\ overlay.reactions[r.msg] \in Emojis =>
              r.chips[overlay.reactions[r.msg]].mine
         /\ overlay.reactions[r.msg] = "remove" =>
              \A e \in Emojis : ~r.chips[e].mine
<1>1. PICK n \in Nat : n <= Len(log) /\ r.msg \in Msgs /\ SameBody(r, Build(n, r.msg))
  BY DEF Fresh
<1>2. PICK m \in Msgs : m = r.msg
  BY <1>1
<1>3. PICK op : op = overlay.reactions[m]
  OBVIOUS
<1>4. SameBody(r, Build(n, m)) /\ n <= Len(log)
  BY <1>1, <1>2
<1>5. ~Build(n, m).dead
  BY <1>4 DEF SameBody
<1>6. /\ Build(n, m).text = Text(n, m) /\ Build(n, m).count = Count(n, m)
      /\ Build(n, m).chips = WithReaction(Chips(n, m), op)
  BY <1>3, <1>4, <1>5, BuildShape
<1>7. r.text = Text(n, m) /\ r.count = Count(n, m) /\ r.chips = WithReaction(Chips(n, m), op)
  BY <1>4, <1>6 DEF SameBody
<1>8. overlay.edits[m] # "none" => r.text = overlay.edits[m] /\ r.count > 0
  BY <1>4, <1>7, TextShaped
<1>9. /\ op \in Emojis => WithReaction(Chips(n, m), op)[op].mine
      /\ op = "remove" => \A e \in Emojis : ~WithReaction(Chips(n, m), op)[e].mine
  BY <1>4, ChipsBar, ReactedBar
<1>10. QED
  BY <1>2, <1>3, <1>7, <1>8, <1>9

LEMMA FreshAuthored ==
  ASSUME Shaped, NoEdits, NoDeletes, NEW r, Fresh(r), Author[r.msg] # "peer"
  PROVE  /\ used["edit"] = 0 => r.text = "none" /\ r.count = 0
         /\ used["delete"] = 0 => ~r.dead
<1>1. PICK n \in Nat : n <= Len(log) /\ r.msg \in Msgs /\ SameBody(r, Build(n, r.msg))
  BY DEF Fresh
<1>2. PICK m \in Msgs : m = r.msg
  BY <1>1
<1>3. SameBody(r, Build(n, m)) /\ n <= Len(log) /\ Author[m] # "peer"
  BY <1>1, <1>2
<1>4. Within(n) \subseteq DOMAIN log
  BY <1>3, WithinLog
<1>5. ASSUME used["edit"] = 0 PROVE r.text = "none" /\ r.count = 0
  <2>1. overlay.edits[m] = "none"
    BY <1>5 DEF NoEdits
  <2>2. Edits(n, m) = {}
    BY <1>3, <1>4, <1>5 DEF NoEdits, Edits, ByAuthor
  <2>3. Text(n, m) = "none" /\ Count(n, m) = 0
    BY <1>3, <2>1, <2>2, TextShaped
  <2>4. Build(n, m).text = "none" /\ Build(n, m).count = 0
    BY <1>3, <2>3, BuildShape
  <2>5. QED
    BY <1>3, <2>4 DEF SameBody
<1>6. ASSUME used["delete"] = 0 PROVE ~r.dead
  <2>1. ~Tombstone(n, m)
    BY <1>3, <1>4, <1>6 DEF NoDeletes, Tombstone, Deleted, ByAuthor
  <2>2. ~Build(n, m).dead
    BY <1>3, <2>1, BuildShape
  <2>3. QED
    BY <1>3, <2>2 DEF SameBody
<1>7. QED
  BY <1>5, <1>6

LEMMA AuthorsKept ==
  ASSUME Shaped, Listing, NoEdits, NoDeletes, AuthorsOnly, [Next]_vars
  PROVE  AuthorsOnly'
<1> SUFFICES ASSUME NEW k \in DOMAIN rows', Author[rows'[k].msg] # "peer"
             PROVE  /\ used'["edit"] = 0   => rows'[k].text = "none" /\ rows'[k].count = 0
                    /\ used'["delete"] = 0 => ~rows'[k].dead
  BY DEF AuthorsOnly
<1>0. (used'["edit"] = 0 => used["edit"] = 0) /\ (used'["delete"] = 0 => used["delete"] = 0)
  BY UsedGrows DEF Limited
<1>1. ASSUME k \in DOMAIN rows, rows'[k].msg = rows[k].msg, rows'[k].text = rows[k].text,
             rows'[k].count = rows[k].count, rows'[k].dead <=> rows[k].dead
      PROVE  /\ used'["edit"] = 0   => rows'[k].text = "none" /\ rows'[k].count = 0
             /\ used'["delete"] = 0 => ~rows'[k].dead
  BY <1>0, <1>1 DEF AuthorsOnly
<1>2. CASE UNCHANGED rows
  BY <1>1, <1>2
<1>3. CASE Reacting
  BY <1>1, <1>3, ReactionKeeps DEF Reacting
<1>4. CASE Landing
  <2>1. Kin(k) \/ Fresh(rows'[k])
    BY <1>4, Landed
  <2>2. CASE Kin(k)
    BY <1>1, <2>2 DEF Kin, SameBody
  <2>3. CASE Fresh(rows'[k])
    BY <1>0, <2>3, FreshAuthored
  <2>4. QED
    BY <2>1, <2>2, <2>3
<1>5. ASSUME NEW v \in Texts, SubmitEdit(v)
      PROVE  /\ used'["edit"] = 0   => rows'[k].text = "none" /\ rows'[k].count = 0
             /\ used'["delete"] = 0 => ~rows'[k].dead
  <2>1. PICK m \in editing :
          rows' = IF Shown(m) THEN [rows EXCEPT ![Spot(m)] = WithEdit(@, v)] ELSE rows
    BY <1>5 DEF SubmitEdit
  <2>2. m \in Msgs /\ UNCHANGED <<log, loaded>>
    BY <1>5 DEF Shaped, ScreenShaped, SubmitEdit, store
  <2>3. k \in DOMAIN rows /\ rows'[k].msg = rows[k].msg /\ (rows'[k].dead <=> rows[k].dead)
    BY <2>1, <2>2, SubmitKeeps
  <2>4. used["edit"] # 0
    BY <1>5 DEF NoEdits, SubmitEdit
  <2>5. QED
    BY <1>0, <2>3, <2>4 DEF AuthorsOnly
<1>6. ASSUME NEW a \in Accounts, SwitchTo(a) PROVE FALSE
  BY <1>6 DEF SwitchTo
<1>7. ASSUME NEW m \in Msgs, Receive(m) PROVE UNCHANGED rows
  BY <1>7 DEF Receive
<1>8. ASSUME NEW o \in BagToSet(ops), Stored(o) PROVE UNCHANGED rows
  BY <1>8 DEF Stored
<1>9. QED
  BY <1>2, <1>3, <1>4, <1>5, <1>6, <1>7, <1>8, Steps, AsideFrame DEF PeerStores, vars

(* What may happen to the overlay of a message behind a row.               *)
Quieter(m) ==
  /\ overlay'.edits[m] \in {overlay.edits[m], "none"}
  /\ overlay'.reactions[m] \in {overlay.reactions[m], "none"}
LEMMA OptimisticKept ==
  ASSUME Shaped, Listing, OptimisticShown, [Next]_vars
  PROVE  OptimisticShown'
<1> DEFINE Shows(r) == ~r.dead =>
             /\ overlay'.edits[r.msg] # "none" =>
                  r.text = overlay'.edits[r.msg] /\ r.count > 0
             /\ overlay'.reactions[r.msg] \in Emojis =>
                  r.chips[overlay'.reactions[r.msg]].mine
             /\ overlay'.reactions[r.msg] = "remove" =>
                  \A e \in Emojis : ~r.chips[e].mine
<1> SUFFICES ASSUME NEW k \in DOMAIN rows'
             PROVE  Shows(rows'[k])
  BY DEF OptimisticShown
<1>0. rows \in Seq(Row)
  BY DEF Shaped, ScreenShaped
<1>1. ASSUME Kin(k), Quieter(rows[k].msg) PROVE Shows(rows'[k])
  <2>1. "none" \notin Emojis
    BY MessagesConstantsOK
  <2>2. QED
    BY <1>1, <2>1 DEF OptimisticShown, Kin, SameBody, Quieter
<1>2. ASSUME UNCHANGED rows, \A m \in Msgs : Quieter(m) PROVE Shows(rows'[k])
  <2>1. k \in DOMAIN rows /\ rows[k].msg \in Msgs
    <3>1. k \in DOMAIN rows
      BY <1>2
    <3>2. rows[k] \in Row
      BY <1>0, <3>1
    <3>3. QED
      BY <3>1, <3>2 DEF Row
  <2>2. Kin(k)
    BY <1>2, <2>1, SameBodyItself DEF Kin
  <2>3. QED
    BY <1>1, <1>2, <2>1, <2>2
<1>3. ASSUME UNCHANGED <<rows, overlay>> PROVE Shows(rows'[k])
  BY <1>2, <1>3 DEF Quieter
<1>4. CASE Reacting
  <2>1. PICK g \in {"react", "unreact"}, m \in Msgs, op \in Emojis \cup {"remove"} :
          SetReaction(g, m, op)
    BY <1>4 DEF Reacting
  <2>2. /\ k \in DOMAIN rows
        /\ rows'[k].msg = rows[k].msg /\ rows'[k].text = rows[k].text
        /\ rows'[k].count = rows[k].count /\ (rows'[k].dead <=> rows[k].dead)
        /\ rows'[k].cells = rows[k].cells
        /\ rows[k].msg # m => rows'[k].chips = rows[k].chips
        /\ rows[k].msg = m => rows'[k].chips = WithReaction(rows[k].chips, op)
    BY <2>1, ReactionKeeps
  <2>3. overlay' = [overlay EXCEPT !.reactions[m] = op]
    BY <2>1 DEF SetReaction
  <2>4. rows[k] \in Row /\ rows[k].msg \in Msgs /\ rows[k].chips \in ChipBars
    <3>1. rows[k] \in Row
      BY <1>0, <2>2
    <3>2. QED
      BY <3>1 DEF Row
  <2>5. /\ overlay'.edits = overlay.edits /\ overlay'.reactions[m] = op
        /\ \A n \in Msgs : n # m => overlay'.reactions[n] = overlay.reactions[n]
    BY <2>3 DEF Shaped, ScreenShaped, Overlay
  <2>6. CASE rows[k].msg # m
    BY <1>1, <2>2, <2>4, <2>5, <2>6 DEF Kin, SameBody, Quieter
  <2>7. CASE rows[k].msg = m
    <3>1. /\ op \in Emojis => WithReaction(rows[k].chips, op)[op].mine
          /\ op = "remove" => \A e \in Emojis : ~WithReaction(rows[k].chips, op)[e].mine
      BY <2>4, ReactedBar
    <3>2. rows'[k].msg = m /\ rows'[k].chips = WithReaction(rows[k].chips, op)
      BY <2>2, <2>7
    <3>3. ~rows[k].dead /\ overlay.edits[m] # "none" =>
            rows[k].text = overlay.edits[m] /\ rows[k].count > 0
      BY <2>2, <2>7 DEF OptimisticShown
    <3>4. QED
      BY <2>2, <2>5, <3>1, <3>2, <3>3
  <2>8. QED
    BY <2>6, <2>7
<1>5. CASE Aside
  <2>1. CASE Unpublished
    BY <1>3, <2>1, UnpublishedFrame
  <2>2. CASE RunDone
    <3>1. Head(uiq).op \in Operation
      BY <2>2, HeadTyped DEF RunDone, Turn
    <3>2. PICK o \in Operation : o = Head(uiq).op
      BY <3>1
    <3>3. overlay' = Settle(o) /\ UNCHANGED rows
      BY <2>2, <3>2 DEF RunDone
    <3>4. ASSUME NEW m \in Msgs PROVE Quieter(m)
      BY <3>3 DEF Settle, Operation, Shaped, ScreenShaped, Overlay, Quieter
    <3>5. QED
      BY <1>2, <3>3, <3>4
  <2>3. ASSUME NEW m \in Msgs, Delete(m) PROVE Shows(rows'[k])
    <3>1. UNCHANGED rows /\ overlay' = [overlay EXCEPT !.deletes = @ \cup {m}]
      BY <2>3 DEF Delete
    <3>2. overlay'.edits = overlay.edits /\ overlay'.reactions = overlay.reactions
      BY <3>1 DEF Shaped, ScreenShaped, Overlay
    <3>3. \A n \in Msgs : Quieter(n)
      BY <3>2 DEF Quieter
    <3>4. QED
      BY <1>2, <3>1, <3>3
  <2>4. ASSUME NEW o \in BagToSet(ops), Completed(o) PROVE Shows(rows'[k])
    <3>1. UNCHANGED <<rows, overlay>>
      BY <2>4 DEF Completed
    <3>2. QED
      BY <1>3, <3>1
  <2>5. QED
    BY <1>5, <2>1, <2>2, <2>3, <2>4, AsideParts
<1>6. CASE Landing
  <2>1. UNCHANGED overlay /\ (Kin(k) \/ Fresh(rows'[k]))
    BY <1>6, Landed, LandingFrame
  <2>2. CASE Kin(k)
    BY <1>1, <2>1, <2>2 DEF Quieter
  <2>3. CASE Fresh(rows'[k])
    <3>1. overlay' = overlay
      BY <2>1
    <3>2. QED
      BY <2>3, <3>1, FreshShows
  <2>4. QED
    BY <2>1, <2>2, <2>3
<1>7. ASSUME NEW v \in Texts, SubmitEdit(v) PROVE Shows(rows'[k])
  <2>1. PICK m \in editing :
          /\ overlay' = [overlay EXCEPT !.edits[m] = v]
          /\ rows' = IF Shown(m) THEN [rows EXCEPT ![Spot(m)] = WithEdit(@, v)] ELSE rows
    BY <1>7 DEF SubmitEdit
  <2>2. m \in Msgs /\ UNCHANGED <<log, loaded>>
    BY <1>7 DEF Shaped, ScreenShaped, SubmitEdit, store
  <2>3. /\ k \in DOMAIN rows
        /\ rows'[k].msg = rows[k].msg /\ rows'[k].chips = rows[k].chips
        /\ (rows'[k].dead <=> rows[k].dead) /\ rows'[k].cells = rows[k].cells
        /\ rows[k].msg # m => rows'[k].text = rows[k].text
                              /\ rows'[k].count = rows[k].count
        /\ rows[k].msg = m => rows'[k].text = v /\ rows'[k].count > 0
    BY <2>1, <2>2, SubmitKeeps
  <2>4. rows[k].msg \in Msgs
    <3>1. rows[k] \in Row
      BY <1>0, <2>3
    <3>2. QED
      BY <3>1 DEF Row
  <2>5. /\ overlay'.reactions = overlay.reactions /\ overlay'.edits[m] = v
        /\ \A n \in Msgs : n # m => overlay'.edits[n] = overlay.edits[n]
    BY <2>1, <2>2 DEF Shaped, ScreenShaped, Overlay
  <2>6. CASE rows[k].msg # m
    BY <1>1, <2>3, <2>4, <2>5, <2>6 DEF Kin, SameBody, Quieter
  <2>7. CASE rows[k].msg = m
    <3>1. ~rows[k].dead =>
            /\ overlay.reactions[m] \in Emojis => rows[k].chips[overlay.reactions[m]].mine
            /\ overlay.reactions[m] = "remove" => \A e \in Emojis : ~rows[k].chips[e].mine
      BY <2>3, <2>7 DEF OptimisticShown
    <3>2. QED
      BY <2>3, <2>5, <2>7, <3>1
  <2>8. QED
    BY <2>6, <2>7
<1>8. ASSUME NEW a \in Accounts, SwitchTo(a) PROVE FALSE
  BY <1>8 DEF SwitchTo
<1>9. ASSUME NEW m \in Msgs, Receive(m) PROVE UNCHANGED <<rows, overlay>>
  BY <1>9 DEF Receive
<1>10. ASSUME NEW o \in BagToSet(ops), Stored(o) PROVE UNCHANGED <<rows, overlay>>
  BY <1>10 DEF Stored
<1>11. CASE PeerStores
  BY <1>3, <1>11 DEF PeerStores
<1>12. CASE UNCHANGED vars
  BY <1>3, <1>12 DEF vars
<1>13. QED
  BY <1>3, <1>4, <1>5, <1>6, <1>7, <1>8, <1>9, <1>10, <1>11, <1>12, Steps
-----------------------------------------------------------------------------
(* Closures of the kinds in K keep their order, d places nearer the head.  *)
Shifted(d, K) ==
  /\ \A i \in DOMAIN uiq' : uiq'[i].kind \in K =>
       i + d \in DOMAIN uiq /\ uiq'[i] = uiq[i + d]
  /\ \A j \in DOMAIN uiq : uiq[j].kind \in K =>
       j - d \in DOMAIN uiq' /\ uiq'[j - d] = uiq[j]

LEMMA ShiftedSame ==
  ASSUME Shaped, UNCHANGED uiq, NEW K
  PROVE  Shifted(0, K)
<1>1. \A i \in DOMAIN uiq : i + 0 = i /\ i - 0 = i
  BY DEF Shaped, TasksShaped
<1>2. QED
  BY <1>1 DEF Shifted

LEMMA ShiftedPost ==
  ASSUME Shaped, NEW K, NEW c \in Posted, Post(c), c.kind \notin K
  PROVE  Shifted(0, K)
<1>1. uiq \in Seq(Posted)
  BY DEF Shaped, TasksShaped
<1>2. /\ \A i \in DOMAIN uiq : i \in DOMAIN uiq' /\ uiq'[i] = uiq[i]
      /\ uiq'[Len(uiq) + 1] = c
      /\ \A i \in DOMAIN uiq' : i \in DOMAIN uiq \/ i = Len(uiq) + 1
  BY <1>1, UiqPosted
<1>3. \A i \in DOMAIN uiq : i + 0 = i /\ i - 0 = i
  BY <1>1
<1>4. QED
  BY <1>2, <1>3 DEF Shifted

LEMMA ShiftedTake ==
  ASSUME Shaped, NEW K, uiq # <<>>, Head(uiq).kind \notin K, "autoload" \notin K,
         NEW more \in Seq(Autoload), Take(more)
  PROVE  Shifted(1, K)
<1>1. uiq \in Seq(Posted) /\ Head(uiq) = uiq[1]
  BY HeadTyped DEF Shaped, TasksShaped
<1>2. /\ \A i \in DOMAIN uiq' : \/ i + 1 \in DOMAIN uiq /\ uiq'[i] = uiq[i + 1]
                                \/ uiq'[i] \in Autoload
      /\ \A j \in DOMAIN uiq : j # 1 => j - 1 \in DOMAIN uiq' /\ uiq'[j - 1] = uiq[j]
  BY <1>1, UiqTaken
<1>3. \A c \in Autoload : c.kind \notin K
  BY DEF Autoload
<1>4. \A j \in DOMAIN uiq : uiq[j].kind \in K => j # 1
  BY <1>1
<1>5. QED
  BY <1>2, <1>3, <1>4 DEF Shifted

LEMMA LandingTakes ==
  ASSUME Shaped, Landing
  PROVE  \E more \in Seq(Autoload) : Take(more)
<1>1. CASE RunRefresh
  BY <1>1, SnapLands, NoMore, RowLoadsShaped DEF RunRefresh
<1>2. CASE RunEvent
  BY <1>2, SnapLands, RowLoadsShaped DEF RunEvent
<1>3. CASE RunTap
  BY <1>3, SnapLands, RowLoadsShaped DEF RunTap
<1>4. CASE RunEcho
  BY <1>4, SnapLands, RowLoadsShaped DEF RunEcho
<1>5. CASE RunRebuild
  BY <1>5, SnapLands, NoMore, RebuiltLoads DEF RunRebuild
<1>6. CASE RunList
  BY <1>6, NoMore DEF RunList
<1>7. CASE RunOpen
  <2>1. Head(uiq).n \in Nat /\ Head(uiq).n <= Len(log)
    BY <1>7, HeadTyped DEF RunOpen, Turn, SnapKinds
  <2>2. QED
    BY <1>7, <2>1, NoMore, RebuiltLoads DEF RunOpen
<1>8. QED
  BY <1>1, <1>2, <1>3, <1>4, <1>5, <1>6, <1>7 DEF Landing

(* The completions on the queue, over the steps that post or take none.    *)
LEMMA DonesShift ==
  ASSUME Shaped, Unpublished \/ Landing
  PROVE  \E d \in {0, 1} : Shifted(d, {"done"})
<1>1. CASE Landing
  BY <1>1, LandingFrame, LandingTakes, ShiftedTake DEF SnapKinds
<1>2. CASE RunAutoload
  BY <1>2, NoMore, ShiftedTake DEF RunAutoload, Turn
<1>3. CASE Report
  <2>1. /\ UNCHANGED uiq \/ Post(Sighting(Head(feed)))
        /\ feed # <<>>
    BY <1>3 DEF Report, Post, Sighting
  <2>2. Sighting(Head(feed)) \in Posted /\ Sighting(Head(feed)).kind \notin {"done"}
    <3>1. Head(feed).msg \in Msgs /\ Len(log) \in Nat
      BY <2>1, FeedTyped DEF Shaped, ScreenShaped, Filed, Record
    <3>2. QED
      BY <3>1 DEF Posted, Seen, Sighting
  <2>3. PICK c \in Posted : c = Sighting(Head(feed))
    BY <2>2
  <2>4. QED
    BY <2>1, <2>2, <2>3, ShiftedSame, ShiftedPost
<1>4. ASSUME NEW h \in BagToSet(held), Hand(h)
      PROVE  \E d \in {0, 1} : Shifted(d, {"done"})
  <2>1. h \in Posted /\ h.kind \notin {"done"}
    BY HeldTyped DEF Snap
  <2>2. UNCHANGED uiq \/ Post(h)
    BY <1>4 DEF Hand
  <2>3. QED
    BY <2>1, <2>2, ShiftedSame, ShiftedPost
<1>5. CASE \/ \E m \in Msgs : RequestEdit(m) \/ Hide(m) \/ Tap(m)
           \/ CancelEdit \/ Select
           \/ \E j \in BagToSet(reads) : Read(j)
           \/ \E l \in BagToSet(loads) : Loaded(l) \/ LoadFailed(l)
  <2>1. UNCHANGED uiq
    BY <1>5 DEF RequestEdit, Hide, Tap, CancelEdit, Select, Read, Loaded, LoadFailed
  <2>2. QED
    BY <2>1, ShiftedSame
<1>6. QED
  BY <1>1, <1>2, <1>3, <1>4, <1>5 DEF Unpublished
-----------------------------------------------------------------------------
(* The overlay and the operations behind it.                               *)
LEMMA FlightOf ==
  ASSUME NEW k, NEW m
  PROVE  InFlight(k, m) <=> \/ \E o \in BagToSet(ops) : TaskOf(o, k, m)
                            \/ \E i \in DOMAIN uiq : DoneOf(i, k, m)
BY DEF InFlight, TaskOf, DoneOf

(* Where neither the tasks of a kind nor its completions have moved.       *)
TasksKept(k, m) == \A o \in BagToSet(ops') : TaskOf(o, k, m)' =>
                     TaskOf(o, k, m) /\ ops'[o] = ops[o]
LEMMA CarriersShift ==
  ASSUME Shaped', NEW d \in {0, 1}, Shifted(d, {"done"}), NEW k, NEW m
  PROVE  /\ \A i \in DOMAIN uiq' : DoneOf(i, k, m)' => i + d \in DOMAIN uiq /\ DoneOf(i + d, k, m)
         /\ (\E i \in DOMAIN uiq' : DoneOf(i, k, m)') <=> \E i \in DOMAIN uiq : DoneOf(i, k, m)
         /\ Alone(k, m) /\ TasksKept(k, m) => Alone(k, m)'
<1>1. \A i \in DOMAIN uiq' : DoneOf(i, k, m)' => i + d \in DOMAIN uiq /\ DoneOf(i + d, k, m)
  BY DEF Shifted, DoneOf
<1>2. \A j \in DOMAIN uiq : DoneOf(j, k, m) => j - d \in DOMAIN uiq' /\ DoneOf(j - d, k, m)'
  BY DEF Shifted, DoneOf
<1>3. ASSUME Alone(k, m), TasksKept(k, m) PROVE Alone(k, m)'
  <2>1. ASSUME NEW o \in BagToSet(ops'), TaskOf(o, k, m)'
        PROVE  /\ ops'[o] = 1
               /\ \A p \in BagToSet(ops') : TaskOf(p, k, m)' => p = o
               /\ \A i \in DOMAIN uiq' : ~DoneOf(i, k, m)'
    <3>1. TaskOf(o, k, m) /\ ops'[o] = ops[o]
      BY <1>3, <2>1 DEF TasksKept
    <3>2. /\ ops[o] = 1
          /\ \A p \in BagToSet(ops) : TaskOf(p, k, m) => p = o
          /\ \A i \in DOMAIN uiq : ~DoneOf(i, k, m)
      BY <1>3, <3>1 DEF Alone, TaskOf
    <3>3. \A p \in BagToSet(ops') : TaskOf(p, k, m)' => p = o
      BY <1>3, <3>2 DEF TasksKept, TaskOf
    <3>4. QED
      BY <1>1, <3>1, <3>2, <3>3
  <2>2. ASSUME NEW i \in DOMAIN uiq', NEW j \in DOMAIN uiq',
               DoneOf(i, k, m)', DoneOf(j, k, m)'
        PROVE  i = j
    <3>1. i + d = j + d
      BY <1>1, <1>3, <2>2 DEF Alone
    <3>2. i \in Int /\ j \in Int /\ d \in Int
      BY DEF Shaped, TasksShaped
    <3>3. i = (i + d) - d /\ j = (j + d) - d
      BY <3>2
    <3>4. QED
      BY <3>1, <3>3
  <2>3. QED
    BY <2>1, <2>2 DEF Alone
<1>4. QED
  BY <1>1, <1>2, <1>3

(* A step that starts or ends no operation.                                *)
LEMMA IdleOverlay ==
  ASSUME Shaped', Uncrossed, OverlayBacked, NEW d \in {0, 1}, Shifted(d, {"done"}),
         UNCHANGED <<ops, overlay, crossed>>, used'["switch"] = 0 => used["switch"] = 0
  PROVE  Uncrossed' /\ OverlayBacked'
<1>1. \A k, m : TasksKept(k, m)
  BY DEF TasksKept, TaskOf
<1>2. Uncrossed'
  BY <1>1, CarriersShift DEF Uncrossed
<1>3. ASSUME NEW k, NEW m PROVE InFlight(k, m)' <=> InFlight(k, m)
  <2>1. (\E i \in DOMAIN uiq' : DoneOf(i, k, m)') <=> \E i \in DOMAIN uiq : DoneOf(i, k, m)
    BY CarriersShift
  <2>2. (\E i \in DOMAIN uiq' : uiq'[i].kind = "done" /\ Slot(uiq'[i].op.kind) = k
                                /\ uiq'[i].op.msg = m)
        <=> \E i \in DOMAIN uiq' : DoneOf(i, k, m)'
    BY DEF DoneOf
  <2>3. (\E i \in DOMAIN uiq : uiq[i].kind = "done" /\ Slot(uiq[i].op.kind) = k
                               /\ uiq[i].op.msg = m)
        <=> \E i \in DOMAIN uiq : DoneOf(i, k, m)
    BY DEF DoneOf
  <2>4. QED
    BY <2>1, <2>2, <2>3 DEF InFlight
<1>4. \A k, m : HasSlot(k, m)' <=> HasSlot(k, m)
  BY DEF HasSlot
<1>5. OverlayBacked'
  BY <1>3, <1>4 DEF OverlayBacked
<1>6. QED
  BY <1>2, <1>5

(* A step that publishes an operation and fills its slot.                  *)
Fills(k, m) ==
  /\ HasSlot(Slot(k), m)'
  /\ \A g \in SlotKinds, n \in Msgs :
       <<g, n>> # <<Slot(k), m>> => (HasSlot(g, n)' <=> HasSlot(g, n))
LEMMA PublishOverlay ==
  ASSUME Shaped, Shaped', Uncrossed, OverlayBacked,
         NEW k \in {"react", "unreact", "edit", "delete"}, NEW m \in Msgs,
         NEW v \in Texts \cup Emojis \cup {"none"}, k = "edit" => v \in Texts,
         Publish(k, m, v), Fills(k, m), UNCHANGED uiq,
         used'["switch"] = 0 => used["switch"] = 0
  PROVE  Uncrossed' /\ OverlayBacked'
<1> DEFINE o == Op(k, m, v)
           s == Slot(k)
<1>1. /\ BagToSet(ops') = BagToSet(ops) \cup {o}
      /\ o \notin BagToSet(ops) => ops'[o] = 1
      /\ \A p \in BagToSet(ops) : p # o => ops'[p] = ops[p]
  BY Published DEF Shaped
<1>2. o.kind = k /\ o.msg = m /\ s \in SlotKinds
  BY DEF Op, Slot, SlotKinds
<1>3. crossed \subseteq crossed' /\ (InFlight(s, m) => <<s, m>> \in crossed')
  BY DEF Publish, InFlight
<1> HIDE DEF o, s
<1>4. ASSUME NEW g, NEW n
      PROVE  /\ InFlight(g, n)' <=> InFlight(g, n) \/ <<g, n>> = <<s, m>>
             /\ <<g, n>> # <<s, m>> => TasksKept(g, n)
  <2>1. Slot(o.kind) = s
    BY <1>2 DEF s
  <2>2. \A p \in BagToSet(ops') : TaskOf(p, g, n)' <=> Slot(p.kind) = g /\ p.msg = n
    BY DEF TaskOf
  <2>3. <<g, n>> = <<s, m>> <=> g = s /\ n = m
    OBVIOUS
  <2>4. <<g, n>> # <<s, m>> => TasksKept(g, n)
    BY <1>1, <1>2, <2>1, <2>2, <2>3 DEF TasksKept, TaskOf
  <2>5. InFlight(g, n)' <=> InFlight(g, n) \/ <<g, n>> = <<s, m>>
    BY <1>1, <1>2, <2>1, <2>3 DEF InFlight
  <2>6. QED
    BY <2>4, <2>5
<1>5. Uncrossed'
  <2> SUFFICES ASSUME NEW g \in SlotKinds, NEW n \in Msgs, <<g, n>> \notin crossed'
               PROVE  Alone(g, n)'
    BY DEF Uncrossed
  <2>1. Alone(g, n)
    BY <1>3 DEF Uncrossed
  <2>2. CASE <<g, n>> # <<s, m>>
    <3>1. TasksKept(g, n)
      BY <1>4, <2>2
    <3>2. Shifted(0, {"done"})
      BY ShiftedSame
    <3>3. QED
      BY <2>1, <3>1, <3>2, CarriersShift
  <2>3. CASE <<g, n>> = <<s, m>>
    <3>1. g = s /\ n = m
      BY <2>3
    <3>2. /\ \A p \in BagToSet(ops) : ~TaskOf(p, s, m)
          /\ \A i \in DOMAIN uiq : ~DoneOf(i, s, m)
      BY <1>3, <2>3, FlightOf
    <3>3. \A p \in BagToSet(ops') : TaskOf(p, s, m)' => p = o
      BY <1>1, <3>2 DEF TaskOf
    <3>4. \A i \in DOMAIN uiq' : ~DoneOf(i, s, m)'
      BY <3>2 DEF DoneOf
    <3>5. ops'[o] = 1
      <4>1. Slot(o.kind) = s /\ o.msg = m
        BY <1>2 DEF s
      <4>2. o \notin BagToSet(ops)
        BY <3>2, <4>1 DEF TaskOf
      <4>3. QED
        BY <1>1, <4>2
    <3>6. QED
      BY <3>1, <3>3, <3>4, <3>5 DEF Alone
  <2>4. QED
    BY <2>2, <2>3
<1>6. OverlayBacked'
  <2> SUFFICES ASSUME NEW g \in SlotKinds, NEW n \in Msgs
               PROVE  /\ HasSlot(g, n)' => InFlight(g, n)'
                      /\ InFlight(g, n)' /\ <<g, n>> \notin crossed' /\ used'["switch"] = 0
                           => HasSlot(g, n)'
    BY DEF OverlayBacked, SlotKinds
  <2>1. CASE <<g, n>> = <<s, m>>
    <3>1. g = s /\ n = m
      BY <2>1
    <3>2. InFlight(g, n)' /\ HasSlot(g, n)'
      BY <1>4, <2>1, <3>1 DEF Fills, s
    <3>3. QED
      BY <3>2
  <2>2. CASE <<g, n>> # <<s, m>>
    <3>1. HasSlot(g, n)' <=> HasSlot(g, n)
      BY <2>2 DEF Fills, s
    <3>2. InFlight(g, n)' <=> InFlight(g, n)
      BY <1>4, <2>2
    <3>3. QED
      BY <1>3, <3>1, <3>2 DEF OverlayBacked, SlotKinds
  <2>3. QED
    BY <2>1, <2>2
<1>7. QED
  BY <1>5, <1>6

(* The record of an operation is stored.                                   *)
LEMMA StoredOverlay ==
  ASSUME Shaped, Shaped', Uncrossed, OverlayBacked, NEW o \in BagToSet(ops), Stored(o)
  PROVE  Uncrossed' /\ OverlayBacked'
<1> DEFINE q == [o EXCEPT !.stored = TRUE]
<1>0. o \in Operation /\ UNCHANGED <<uiq, overlay, crossed, used>>
  BY OpTyped DEF Stored, history
<1>1. q.kind = o.kind /\ q.msg = o.msg /\ q # o
  <2>1. q.stored /\ ~o.stored
    BY <1>0 DEF Stored, Operation
  <2>2. QED
    BY <1>0, <2>1 DEF Operation
<1>2. /\ BagToSet(ops') \subseteq BagToSet(ops) \cup {q}
      /\ q \in BagToSet(ops') /\ BagToSet(ops) \ {o} \subseteq BagToSet(ops')
      /\ o \in BagToSet(ops') => ops[o] > 1
      /\ q \notin BagToSet(ops) => ops'[q] = 1
      /\ \A p \in BagToSet(ops) : p # o /\ p # q => ops'[p] = ops[p]
  BY StoredOps
<1> HIDE DEF q
<1>3. Shifted(0, {"done"})
  BY <1>0, ShiftedSame
<1>4. \A k, m : HasSlot(k, m)' <=> HasSlot(k, m)
  BY <1>0 DEF HasSlot
<1>5. ASSUME NEW k, NEW m PROVE InFlight(k, m)' <=> InFlight(k, m)
  <2>1. (\E p \in BagToSet(ops') : Slot(p.kind) = k /\ p.msg = m)
        <=> \E p \in BagToSet(ops) : Slot(p.kind) = k /\ p.msg = m
    BY <1>1, <1>2
  <2>2. QED
    BY <1>0, <2>1 DEF InFlight
<1>6. ASSUME NEW k \in SlotKinds, NEW m \in Msgs, <<k, m>> \notin crossed'
      PROVE  Alone(k, m)'
  <2>1. Alone(k, m)
    BY <1>0, <1>6 DEF Uncrossed
  <2>2. CASE TaskOf(o, k, m)
    <3>1. /\ ops[o] = 1 /\ \A p \in BagToSet(ops) : TaskOf(p, k, m) => p = o
          /\ \A i \in DOMAIN uiq : ~DoneOf(i, k, m)
      BY <2>1, <2>2 DEF Alone
    <3>2. o \notin BagToSet(ops') /\ q \notin BagToSet(ops)
      BY <1>1, <1>2, <2>2, <3>1 DEF TaskOf
    <3>3. ops'[q] = 1 /\ \A p \in BagToSet(ops') : TaskOf(p, k, m)' => p = q
      BY <1>2, <3>1, <3>2 DEF TaskOf
    <3>4. \A i \in DOMAIN uiq' : ~DoneOf(i, k, m)'
      BY <1>0, <3>1 DEF DoneOf
    <3>5. QED
      BY <3>3, <3>4 DEF Alone
  <2>3. CASE ~TaskOf(o, k, m)
    <3>1. ~TaskOf(q, k, m)'
      BY <1>1, <2>3 DEF TaskOf
    <3>2. TasksKept(k, m)
      BY <1>2, <2>3, <3>1 DEF TasksKept, TaskOf
    <3>3. QED
      BY <1>3, <2>1, <3>2, CarriersShift
  <2>4. QED
    BY <2>2, <2>3
<1>7. QED
  BY <1>0, <1>4, <1>5, <1>6 DEF Uncrossed, OverlayBacked

(* Its completion is posted.                                               *)
LEMMA CompletedOverlay ==
  ASSUME Shaped, Shaped', Uncrossed, OverlayBacked, NEW o \in BagToSet(ops), Completed(o),
         used'["switch"] = 0 => used["switch"] = 0
  PROVE  Uncrossed' /\ OverlayBacked'
<1> DEFINE c == [kind |-> "done", op |-> o]
           z == Len(uiq) + 1
<1>0. o \in Operation /\ UNCHANGED <<overlay, crossed>> /\ uiq \in Seq(Posted)
  BY OpTyped DEF Completed, history, Shaped, TasksShaped
<1>1. /\ c.kind = "done" /\ c.op = o /\ c \in Posted /\ Post(c)
  BY <1>0 DEF Completed, Posted, Done
<1> HIDE DEF c
<1>2. /\ BagToSet(ops') \subseteq BagToSet(ops)
      /\ BagToSet(ops) \ {o} \subseteq BagToSet(ops')
      /\ o \in BagToSet(ops') => ops[o] > 1
      /\ \A p \in BagToSet(ops) \ {o} : ops'[p] = ops[p]
  BY CompletedOps
<1>3. /\ \A i \in DOMAIN uiq : i \in DOMAIN uiq' /\ uiq'[i] = uiq[i]
      /\ z \in DOMAIN uiq' /\ uiq'[z] = c /\ z \notin DOMAIN uiq
      /\ \A i \in DOMAIN uiq' : i \in DOMAIN uiq \/ i = z
  BY <1>0, <1>1, UiqPosted
<1> HIDE DEF z
<1>4. \A k, m : HasSlot(k, m)' <=> HasSlot(k, m)
  BY <1>0 DEF HasSlot
<1>5. ASSUME NEW k, NEW m
      PROVE  \A i \in DOMAIN uiq' : DoneOf(i, k, m)' <=>
               (i \in DOMAIN uiq /\ DoneOf(i, k, m)) \/ (i = z /\ TaskOf(o, k, m))
  BY <1>1, <1>3 DEF DoneOf, TaskOf
<1>6. ASSUME NEW k, NEW m PROVE InFlight(k, m)' <=> InFlight(k, m)
  <2>1. (\E i \in DOMAIN uiq' : DoneOf(i, k, m)')
        <=> (\E i \in DOMAIN uiq : DoneOf(i, k, m)) \/ TaskOf(o, k, m)
    BY <1>3, <1>5
  <2>2. /\ InFlight(k, m)' <=> \/ \E p \in BagToSet(ops') : TaskOf(p, k, m)'
                               \/ \E i \in DOMAIN uiq' : DoneOf(i, k, m)'
    BY DEF InFlight, TaskOf, DoneOf
  <2>3. \A p \in BagToSet(ops') : TaskOf(p, k, m)' <=> TaskOf(p, k, m)
    BY <1>2 DEF TaskOf
  <2>4. QED
    BY <1>2, <2>1, <2>2, <2>3, FlightOf
<1>7. ASSUME NEW k \in SlotKinds, NEW m \in Msgs, <<k, m>> \notin crossed'
      PROVE  Alone(k, m)'
  <2>1. Alone(k, m)
    BY <1>0, <1>7 DEF Uncrossed
  <2>2. CASE TaskOf(o, k, m)
    <3>1. /\ ops[o] = 1 /\ \A p \in BagToSet(ops) : TaskOf(p, k, m) => p = o
          /\ \A i \in DOMAIN uiq : ~DoneOf(i, k, m)
      BY <2>1, <2>2 DEF Alone
    <3>2. \A p \in BagToSet(ops') : ~TaskOf(p, k, m)'
      BY <1>2, <3>1 DEF TaskOf
    <3>3. \A i \in DOMAIN uiq' : DoneOf(i, k, m)' => i = z
      BY <1>5, <3>1
    <3>4. QED
      BY <3>2, <3>3 DEF Alone
  <2>3. CASE ~TaskOf(o, k, m)
    <3>1. \A p \in BagToSet(ops') : TaskOf(p, k, m)' => TaskOf(p, k, m) /\ ops'[p] = ops[p]
      BY <1>2, <2>3 DEF TaskOf
    <3>2. \A i \in DOMAIN uiq' : DoneOf(i, k, m)' => i \in DOMAIN uiq /\ DoneOf(i, k, m)
      BY <1>5, <2>3
    <3>3. QED
      BY <1>2, <2>1, <3>1, <3>2 DEF Alone
  <2>4. QED
    BY <2>2, <2>3
<1>8. QED
  BY <1>0, <1>4, <1>6, <1>7 DEF Uncrossed, OverlayBacked

(* A completion runs, and empties its slot.                                *)
LEMMA DoneOverlay ==
  ASSUME Shaped, Shaped', Uncrossed, OverlayBacked, RunDone
  PROVE  Uncrossed' /\ OverlayBacked'
<1> DEFINE o == Head(uiq).op
           s == Slot(o.kind)
<1>0. /\ uiq \in Seq(Posted) /\ 1 \in DOMAIN uiq /\ Head(uiq) = uiq[1]
      /\ o \in Operation /\ uiq[1].kind = "done" /\ uiq[1].op = o
  BY HeadTyped DEF RunDone, Turn, Shaped, TasksShaped
<1>1. /\ overlay' = Settle(o) /\ Take(<<>>) /\ uiq # <<>>
      /\ UNCHANGED <<ops, crossed, used>>
  BY DEF RunDone, Turn, history
<1>2. o.kind \in {"react", "unreact", "edit", "delete"} /\ o.msg \in Msgs
  BY <1>0 DEF Operation
<1>3. s \in SlotKinds
  BY <1>2 DEF Slot, SlotKinds
<1>4. /\ \A i \in DOMAIN uiq' : i + 1 \in DOMAIN uiq /\ i + 1 # 1 /\ uiq'[i] = uiq[i + 1]
      /\ \A j \in DOMAIN uiq : j # 1 => j - 1 \in DOMAIN uiq' /\ uiq'[j - 1] = uiq[j]
      /\ DOMAIN uiq' \subseteq Int
  <2>1. uiq' = Tail(uiq)
    BY <1>0, <1>1 DEF Take
  <2>2. QED
    BY <1>0, <2>1
<1>5. ASSUME NEW k \in SlotKinds, NEW m \in Msgs
      PROVE  /\ <<k, m>> = <<s, o.msg>> => ~HasSlot(k, m)'
             /\ <<k, m>> # <<s, o.msg>> => (HasSlot(k, m)' <=> HasSlot(k, m))
  <2>1. overlay \in Overlay
    BY DEF Shaped, ScreenShaped
  <2>2. /\ k = s /\ m = o.msg => ~HasSlot(k, m)'
        /\ ~(k = s /\ m = o.msg) => (HasSlot(k, m)' <=> HasSlot(k, m))
    <3>1. CASE o.kind \in {"react", "unreact"}
      <4>1. overlay' = [overlay EXCEPT !.reactions[o.msg] = "none"] /\ s = "react"
        BY <1>1, <3>1 DEF Settle, Slot
      <4>2. QED
        BY <1>2, <2>1, <4>1 DEF HasSlot, SlotKinds, Overlay
    <3>2. CASE o.kind = "edit"
      <4>1. overlay' = [overlay EXCEPT !.edits[o.msg] = "none"] /\ s = "edit"
        BY <1>1, <3>2 DEF Settle, Slot
      <4>2. QED
        BY <1>2, <2>1, <4>1 DEF HasSlot, SlotKinds, Overlay
    <3>3. CASE o.kind = "delete"
      <4>1. overlay' = [overlay EXCEPT !.deletes = overlay.deletes \ {o.msg}] /\ s = "delete"
        BY <1>1, <3>3 DEF Settle, Slot
      <4>2. QED
        BY <1>2, <2>1, <4>1 DEF HasSlot, SlotKinds, Overlay
    <3>4. QED
      BY <1>2, <3>1, <3>2, <3>3
  <2>3. QED
    BY <2>2
<1> HIDE DEF o, s
<1>6. \A k, m : DoneOf(1, k, m) <=> k = s /\ m = o.msg
  BY <1>0 DEF DoneOf, s
<1>7. ASSUME NEW k, NEW m
      PROVE  /\ \A i \in DOMAIN uiq' : DoneOf(i, k, m)' => DoneOf(i + 1, k, m)
             /\ \A j \in DOMAIN uiq : DoneOf(j, k, m) /\ j # 1 =>
                  j - 1 \in DOMAIN uiq' /\ DoneOf(j - 1, k, m)'
             /\ \A p \in BagToSet(ops') : TaskOf(p, k, m)' <=> TaskOf(p, k, m)
  BY <1>1, <1>4 DEF DoneOf, TaskOf
<1>8. ASSUME NEW k \in SlotKinds, NEW m \in Msgs, <<k, m>> \notin crossed'
      PROVE  Alone(k, m)'
  <2>1. Alone(k, m)
    BY <1>1, <1>8 DEF Uncrossed
  <2>2. ASSUME NEW p \in BagToSet(ops'), TaskOf(p, k, m)'
        PROVE  /\ ops'[p] = 1
               /\ \A q \in BagToSet(ops') : TaskOf(q, k, m)' => q = p
               /\ \A i \in DOMAIN uiq' : ~DoneOf(i, k, m)'
    BY <1>1, <1>4, <1>7, <2>1, <2>2 DEF Alone
  <2>3. ASSUME NEW i \in DOMAIN uiq', NEW j \in DOMAIN uiq',
               DoneOf(i, k, m)', DoneOf(j, k, m)'
        PROVE  i = j
    <3>1. i + 1 = j + 1
      BY <1>4, <1>7, <2>1, <2>3 DEF Alone
    <3>2. i \in Int /\ j \in Int
      BY <1>4
    <3>3. QED
      BY <3>1, <3>2
  <2>4. QED
    BY <2>2, <2>3 DEF Alone
<1>9. ASSUME NEW k \in SlotKinds, NEW m \in Msgs
      PROVE  /\ InFlight(k, m)' => InFlight(k, m)
             /\ ~(k = s /\ m = o.msg) /\ InFlight(k, m) => InFlight(k, m)'
             /\ <<k, m>> \notin crossed /\ k = s /\ m = o.msg => ~InFlight(k, m)'
  <2>1. InFlight(k, m)' <=> \/ \E p \in BagToSet(ops') : TaskOf(p, k, m)'
                            \/ \E i \in DOMAIN uiq' : DoneOf(i, k, m)'
    BY DEF InFlight, TaskOf, DoneOf
  <2>2. InFlight(k, m)' => InFlight(k, m)
    <3>1. ASSUME NEW i \in DOMAIN uiq', DoneOf(i, k, m)' PROVE InFlight(k, m)
      BY <1>4, <1>7, <3>1, FlightOf
    <3>2. ASSUME NEW p \in BagToSet(ops'), TaskOf(p, k, m)' PROVE InFlight(k, m)
      BY <1>1, <1>7, <3>2, FlightOf
    <3>3. QED
      BY <2>1, <3>1, <3>2
  <2>3. ASSUME ~(k = s /\ m = o.msg), InFlight(k, m) PROVE InFlight(k, m)'
    <3>1. ASSUME NEW i \in DOMAIN uiq, DoneOf(i, k, m) PROVE InFlight(k, m)'
      BY <1>6, <1>7, <2>1, <2>3, <3>1
    <3>2. ASSUME NEW p \in BagToSet(ops), TaskOf(p, k, m) PROVE InFlight(k, m)'
      BY <1>1, <1>7, <2>1, <3>2
    <3>3. QED
      BY <2>3, <3>1, <3>2, FlightOf
  <2>4. ASSUME <<k, m>> \notin crossed, k = s, m = o.msg PROVE ~InFlight(k, m)'
    <3>1. Alone(k, m) /\ DoneOf(1, k, m)
      BY <1>6, <2>4 DEF Uncrossed
    <3>2. \A p \in BagToSet(ops') : ~TaskOf(p, k, m)'
      BY <1>0, <1>1, <1>7, <3>1 DEF Alone
    <3>3. \A i \in DOMAIN uiq' : ~DoneOf(i, k, m)'
      BY <1>0, <1>4, <1>7, <3>1 DEF Alone
    <3>4. QED
      BY <2>1, <3>2, <3>3
  <2>5. QED
    BY <2>2, <2>3, <2>4
<1>10. OverlayBacked'
  <2> SUFFICES ASSUME NEW k \in SlotKinds, NEW m \in Msgs
               PROVE  /\ HasSlot(k, m)' => InFlight(k, m)'
                      /\ InFlight(k, m)' /\ <<k, m>> \notin crossed' /\ used'["switch"] = 0
                           => HasSlot(k, m)'
    BY DEF OverlayBacked, SlotKinds
  <2>1. /\ HasSlot(k, m) => InFlight(k, m)
        /\ InFlight(k, m) /\ <<k, m>> \notin crossed /\ used["switch"] = 0 => HasSlot(k, m)
    BY DEF OverlayBacked, SlotKinds
  <2>2. CASE k = s /\ m = o.msg
    BY <1>1, <1>5, <1>9, <2>2
  <2>3. CASE ~(k = s /\ m = o.msg)
    <3>1. HasSlot(k, m)' <=> HasSlot(k, m)
      BY <1>5, <2>3
    <3>2. QED
      BY <1>1, <1>9, <2>1, <2>3, <3>1
  <2>4. QED
    BY <2>2, <2>3
<1>11. QED
  BY <1>8, <1>10 DEF Uncrossed

(* A switch drops the overlay, and nothing else.                           *)
LEMMA SwitchOverlay ==
  ASSUME Shaped, Shaped', Uncrossed, NEW a \in Accounts, SwitchTo(a)
  PROVE  Uncrossed' /\ OverlayBacked'
<1>1. used'["switch"] # 0
  BY SpentNotZero DEF SwitchTo, Limited
<1>2. overlay' = NoOverlay /\ UNCHANGED <<ops, uiq, crossed>>
  BY DEF SwitchTo
<1>3. \A k \in SlotKinds, m \in Msgs : ~HasSlot(k, m)'
  BY <1>2 DEF HasSlot, NoOverlay, SlotKinds
<1>4. Uncrossed'
  <2>1. Shifted(0, {"done"})
    BY <1>2, ShiftedSame
  <2>2. \A k, m : TasksKept(k, m)
    BY <1>2 DEF TasksKept, TaskOf
  <2>3. QED
    BY <1>2, <2>1, <2>2, CarriersShift DEF Uncrossed
<1>5. QED
  BY <1>1, <1>3, <1>4 DEF OverlayBacked, SlotKinds

LEMMA OverlayKept ==
  ASSUME Shaped, Uncrossed, OverlayBacked, [Next]_vars
  PROVE  Uncrossed' /\ OverlayBacked'
<1>0. Shaped' /\ (used'["switch"] = 0 => used["switch"] = 0)
  BY ShapedNext, UsedGrows DEF Limited
<1>1. "none" \notin Emojis /\ "none" \notin Texts /\ "remove" # "none"
  BY MessagesConstantsOK
<1>2. overlay \in Overlay
  BY DEF Shaped, ScreenShaped
<1>3. CASE Reacting
  <2>1. PICK k \in {"react", "unreact"}, m \in Msgs, op \in Emojis \cup {"remove"} :
          (k = "react" => op \in Emojis) /\ SetReaction(k, m, op)
    BY <1>3 DEF Reacting
  <2>2. PICK v \in Emojis \cup {"none"} : v = IF k = "react" THEN op ELSE "none"
    BY <2>1
  <2>3. Publish(k, m, v) /\ UNCHANGED uiq
    BY <2>1, <2>2 DEF SetReaction
  <2>4. overlay' = [overlay EXCEPT !.reactions[m] = op] /\ op # "none" /\ Slot(k) = "react"
    BY <1>1, <2>1 DEF SetReaction, Slot
  <2>5. Fills(k, m)
    BY <1>2, <2>4 DEF Fills, HasSlot, SlotKinds, Overlay
  <2>6. v \in Texts \cup Emojis \cup {"none"} /\ k \in {"react", "unreact", "edit", "delete"}
        /\ k # "edit"
    OBVIOUS
  <2>7. QED
    BY <1>0, <2>3, <2>5, <2>6, PublishOverlay
<1>4. ASSUME NEW m \in Msgs, Delete(m) PROVE Uncrossed' /\ OverlayBacked'
  <2>1. Publish("delete", m, "none") /\ UNCHANGED uiq
    BY <1>4 DEF Delete
  <2>2. /\ overlay' = [overlay EXCEPT !.deletes = overlay.deletes \cup {m}]
        /\ Slot("delete") = "delete"
    BY <1>4 DEF Delete, Slot
  <2>3. Fills("delete", m)
    BY <1>2, <2>2 DEF Fills, HasSlot, SlotKinds, Overlay
  <2>4. QED
    BY <1>0, <2>1, <2>3, PublishOverlay
<1>5. ASSUME NEW v \in Texts, SubmitEdit(v) PROVE Uncrossed' /\ OverlayBacked'
  <2>1. PICK m \in editing :
          overlay' = [overlay EXCEPT !.edits[m] = v] /\ Publish("edit", m, v)
    BY <1>5 DEF SubmitEdit
  <2>2. m \in Msgs /\ UNCHANGED uiq /\ v # "none" /\ Slot("edit") = "edit"
    BY <1>1, <1>5 DEF Shaped, ScreenShaped, SubmitEdit, Slot
  <2>3. Fills("edit", m)
    BY <1>2, <2>1, <2>2 DEF Fills, HasSlot, SlotKinds, Overlay
  <2>4. QED
    BY <1>0, <2>1, <2>2, <2>3, PublishOverlay
<1>6. CASE Unpublished \/ Landing
  <2>1. UNCHANGED <<ops, overlay, crossed>>
    BY <1>6, UnpublishedFrame, LandingFrame
  <2>2. PICK d \in {0, 1} : Shifted(d, {"done"})
    BY <1>6, DonesShift
  <2>3. QED
    BY <1>0, <2>1, <2>2, IdleOverlay
<1>7. CASE RunDone
  BY <1>0, <1>7, DoneOverlay
<1>8. ASSUME NEW o \in BagToSet(ops), Completed(o) PROVE Uncrossed' /\ OverlayBacked'
  BY <1>0, <1>8, CompletedOverlay
<1>9. ASSUME NEW o \in BagToSet(ops), Stored(o) PROVE Uncrossed' /\ OverlayBacked'
  BY <1>0, <1>9, StoredOverlay
<1>10. ASSUME UNCHANGED <<ops, overlay, crossed, uiq>> PROVE Uncrossed' /\ OverlayBacked'
  <2>1. Shifted(0, {"done"})
    BY <1>10, ShiftedSame
  <2>2. QED
    BY <1>0, <1>10, <2>1, IdleOverlay
<1>11. ASSUME NEW m \in Msgs, Receive(m) PROVE UNCHANGED <<ops, overlay, crossed, uiq>>
  BY <1>11 DEF Receive, tasks, history
<1>12. CASE PeerStores
  BY <1>10, <1>12 DEF PeerStores, tasks, history
<1>13. CASE UNCHANGED vars
  BY <1>10, <1>13 DEF vars
<1>14. CASE Aside
  BY <1>4, <1>6, <1>7, <1>8, <1>14, AsideParts
<1>15. ASSUME NEW a \in Accounts, SwitchTo(a) PROVE Uncrossed' /\ OverlayBacked'
  BY <1>0, <1>15, SwitchOverlay
<1>16. QED
  BY <1>3, <1>5, <1>6, <1>9, <1>10, <1>11, <1>12, <1>13, <1>14, <1>15, Steps
-----------------------------------------------------------------------------
(* The loads of attachments.                                               *)
TapState(m) == /\ LoadOnce(m) /\ OneTap(m)
               /\ Kind[m] \notin {"image", "file"} => ~TapsOf(m)

(* What a step leaves of a message's taps and loads, when it starts or     *)
(* ends none of them.                                                      *)
QueueTaps(m) == \E d \in {0, 1} : \A i \in DOMAIN uiq' :
  Tapping(uiq'[i], m) => i + d \in DOMAIN uiq /\ uiq'[i] = uiq[i + d]
Untouched(m) ==
  /\ \A j \in BagToSet(reads') : Tapping(j, m) =>
       j \in BagToSet(reads) /\ reads'[j] = reads[j]
  /\ \A h \in BagToSet(held') : Tapping(h, m) =>
       h \in BagToSet(held) /\ held'[h] = held[h]
  /\ QueueTaps(m)
  /\ \A l \in BagToSet(loads') : l.msg = m => l \in BagToSet(loads) /\ loads'[l] = loads[l]
  /\ Keys[m] \cap inflight \subseteq inflight'

LEMMA UntouchedKeeps ==
  ASSUME Shaped, Shaped', NEW m \in Msgs, TapState(m), Untouched(m)
  PROVE  TapState(m)'
<1>1. LoadsOf(m)' \subseteq LoadsOf(m)
  BY DEF LoadsOf, Untouched
<1>2. LoadOnce(m)'
  <2> SUFFICES ASSUME NEW l \in LoadsOf(m)' PROVE loads'[l] = 1 /\ l.key \in inflight'
    BY DEF LoadOnce
  <2>1. l \in BagToSet(loads) /\ l.msg = m /\ loads'[l] = loads[l]
    BY DEF LoadsOf, Untouched
  <2>2. loads[l] = 1 /\ l.key \in inflight
    BY <2>1 DEF TapState, LoadOnce, LoadsOf
  <2>3. l.key \in Keys[m]
    BY <2>1, LoadTyped
  <2>4. QED
    BY <2>1, <2>2, <2>3 DEF Untouched
<1>3. PICK d \in {0, 1} : \A i \in DOMAIN uiq' :
        Tapping(uiq'[i], m) => i + d \in DOMAIN uiq /\ uiq'[i] = uiq[i + d]
  BY DEF Untouched, QueueTaps
<1>4. \A i \in DOMAIN uiq' : Tapping(uiq'[i], m) => Tapping(uiq[i + d], m)
  BY <1>3
<1>5. DOMAIN uiq' \subseteq Int /\ d \in Int
  BY DEF Shaped, TasksShaped
<1>6. OneTap(m)'
  <2>1. ASSUME NEW j \in BagToSet(reads'), Tapping(j, m)
        PROVE  /\ reads'[j] = 1 /\ Keys[m] \subseteq inflight'
               /\ \A h \in BagToSet(held') : ~Tapping(h, m)
               /\ \A i \in DOMAIN uiq' : ~Tapping(uiq'[i], m)
               /\ LoadsOf(m)' = {}
    <3>1. j \in BagToSet(reads) /\ reads'[j] = reads[j]
      BY <2>1 DEF Untouched
    <3>2. /\ reads[j] = 1 /\ Keys[m] \subseteq inflight
          /\ \A h \in BagToSet(held) : ~Tapping(h, m)
          /\ \A i \in DOMAIN uiq : ~Tapping(uiq[i], m)
          /\ LoadsOf(m) = {}
      BY <2>1, <3>1 DEF TapState, OneTap
    <3>3. Keys[m] \subseteq inflight' /\ \A h \in BagToSet(held') : ~Tapping(h, m)
      BY <3>2 DEF Untouched
    <3>4. QED
      BY <1>1, <1>3, <1>4, <3>1, <3>2, <3>3
  <2>2. ASSUME NEW h \in BagToSet(held'), Tapping(h, m)
        PROVE  /\ held'[h] = 1 /\ Keys[m] \subseteq inflight'
               /\ \A g \in BagToSet(held') : Tapping(g, m) => g = h
               /\ \A i \in DOMAIN uiq' : ~Tapping(uiq'[i], m)
               /\ LoadsOf(m)' = {}
    <3>1. h \in BagToSet(held) /\ held'[h] = held[h]
      BY <2>2 DEF Untouched
    <3>2. /\ held[h] = 1 /\ Keys[m] \subseteq inflight
          /\ \A g \in BagToSet(held) : Tapping(g, m) => g = h
          /\ \A i \in DOMAIN uiq : ~Tapping(uiq[i], m)
          /\ LoadsOf(m) = {}
      BY <2>2, <3>1 DEF TapState, OneTap
    <3>3. Keys[m] \subseteq inflight' /\ \A g \in BagToSet(held') : Tapping(g, m) => g = h
      BY <3>2 DEF Untouched
    <3>4. QED
      BY <1>1, <1>3, <1>4, <3>1, <3>2, <3>3
  <2>3. ASSUME NEW i \in DOMAIN uiq', Tapping(uiq'[i], m)
        PROVE  /\ Keys[m] \subseteq inflight'
               /\ \A j \in DOMAIN uiq' : Tapping(uiq'[j], m) => j = i
               /\ LoadsOf(m)' = {}
    <3>1. i + d \in DOMAIN uiq /\ Tapping(uiq[i + d], m)
      BY <1>3, <1>4, <2>3
    <3>2. /\ Keys[m] \subseteq inflight
          /\ \A j \in DOMAIN uiq : Tapping(uiq[j], m) => j = i + d
          /\ LoadsOf(m) = {}
      BY <3>1 DEF TapState, OneTap
    <3>3. Keys[m] \subseteq inflight'
      BY <3>2 DEF Untouched
    <3>4. ASSUME NEW j \in DOMAIN uiq', Tapping(uiq'[j], m) PROVE j = i
      <4>1. j + d = i + d
        BY <1>3, <1>4, <3>2, <3>4
      <4>2. i = (i + d) - d /\ j = (j + d) - d
        BY <1>5
      <4>3. QED
        BY <4>1, <4>2
    <3>5. QED
      BY <1>1, <3>2, <3>3, <3>4
  <2>4. QED
    BY <2>1, <2>2, <2>3 DEF OneTap, Tapping
<1>7. TapsOf(m)' => TapsOf(m)
  <2>1. ASSUME NEW i \in DOMAIN uiq', Tapping(uiq'[i], m) PROVE TapsOf(m)
    BY <1>3, <1>4, <2>1 DEF TapsOf
  <2>2. ASSUME NEW j \in BagToSet(reads'), Tapping(j, m) PROVE TapsOf(m)
    BY <2>2 DEF TapsOf, Untouched
  <2>3. ASSUME NEW h \in BagToSet(held'), Tapping(h, m) PROVE TapsOf(m)
    BY <2>3 DEF TapsOf, Untouched
  <2>4. TapsOf(m)' <=> \/ \E j \in BagToSet(reads') : Tapping(j, m)
                       \/ \E h \in BagToSet(held') : Tapping(h, m)
                       \/ \E i \in DOMAIN uiq' : Tapping(uiq'[i], m)
    BY DEF TapsOf, Tapping
  <2>5. QED
    BY <2>1, <2>2, <2>3, <2>4
<1>8. QED
  BY <1>2, <1>6, <1>7 DEF TapState

(* The queue hands out a tap it had, unless one is posted.                 *)
LEMMA QueueTapsKept ==
  ASSUME Shaped, NEW m,
         \/ UNCHANGED uiq
         \/ \E c \in Posted : Post(c) /\ ~Tapping(c, m)
         \/ uiq # <<>> /\ \E more \in Seq(Autoload) : Take(more)
  PROVE  QueueTaps(m)
<1>0. uiq \in Seq(Posted)
  BY DEF Shaped, TasksShaped
<1>1. \A i \in DOMAIN uiq : i + 0 = i
  BY <1>0
<1>2. CASE UNCHANGED uiq
  BY <1>1, <1>2 DEF QueueTaps
<1>3. ASSUME NEW c \in Posted, Post(c), ~Tapping(c, m) PROVE QueueTaps(m)
  <2>1. /\ \A i \in DOMAIN uiq : uiq'[i] = uiq[i]
        /\ uiq'[Len(uiq) + 1] = c
        /\ \A i \in DOMAIN uiq' : i \in DOMAIN uiq \/ i = Len(uiq) + 1
    BY <1>0, <1>3, UiqPosted
  <2>2. \A i \in DOMAIN uiq' : Tapping(uiq'[i], m) =>
          i + 0 \in DOMAIN uiq /\ uiq'[i] = uiq[i + 0]
    BY <1>1, <1>3, <2>1
  <2>3. QED
    BY <2>2 DEF QueueTaps
<1>4. ASSUME uiq # <<>>, NEW more \in Seq(Autoload), Take(more) PROVE QueueTaps(m)
  <2>1. \A i \in DOMAIN uiq' : \/ i + 1 \in DOMAIN uiq /\ uiq'[i] = uiq[i + 1]
                               \/ uiq'[i] \in Autoload
    BY <1>0, <1>4, UiqTaken
  <2>2. \A c \in Autoload : ~Tapping(c, m)
    BY DEF Autoload, Tapping
  <2>3. QED
    BY <2>1, <2>2 DEF QueueTaps
<1>5. QED
  BY <1>2, <1>3, <1>4

(* Most handlers have nothing to do with taps and loads.                   *)
TapsAside ==
  /\ UNCHANGED <<held, loads, inflight>>
  /\ \/ UNCHANGED reads
     \/ \E k \in {"refresh", "rebuild", "list", "open"}, n \in Msgs \cup {"none"} :
          Job(k, n) \in ReadJob /\ Ask(k, n)
  /\ \/ UNCHANGED uiq
     \/ \E c \in Posted : Post(c) /\ c.kind # "tap"
     \/ uiq # <<>> /\ \E more \in Seq(Autoload) : Take(more)
LEMMA TapsAsideKeep ==
  ASSUME Shaped, TapsAside, NEW m \in Msgs
  PROVE  Untouched(m)
<1>1. QueueTaps(m)
  BY QueueTapsKept DEF TapsAside, Tapping
<1>2. \A j \in BagToSet(reads') : Tapping(j, m) => j \in BagToSet(reads) /\ reads'[j] = reads[j]
  <2>1. ASSUME NEW k \in {"refresh", "rebuild", "list", "open"}, NEW n,
               Job(k, n) \in ReadJob, Ask(k, n), NEW j \in BagToSet(reads'), Tapping(j, m)
        PROVE  j \in BagToSet(reads) /\ reads'[j] = reads[j]
    <3>1. Job(k, n).kind # "tap"
      BY DEF Job
    <3>2. j # Job(k, n)
      BY <2>1, <3>1 DEF Tapping
    <3>3. QED
      BY <2>1, <3>2, Asked DEF Shaped
  <2>2. QED
    BY <2>1 DEF TapsAside
<1>3. QED
  BY <1>1, <1>2 DEF Untouched, TapsAside

LEMMA TapSteps ==
  ASSUME Shaped, [Next]_vars
  PROVE  \/ TapsAside \/ RunAutoload \/ RunTap
         \/ \E m \in Msgs : Tap(m)
         \/ \E j \in BagToSet(reads) : Read(j)
         \/ \E h \in BagToSet(held) : Hand(h)
         \/ \E l \in BagToSet(loads) : Loaded(l) \/ LoadFailed(l)
<1>1. CASE Reacting
  BY <1>1 DEF Reacting, SetReaction, TapsAside, media
<1>2. CASE \/ \E m \in Msgs : RequestEdit(m) \/ Delete(m) \/ Hide(m)
           \/ CancelEdit \/ Select
  <2>1. \A m \in Msgs : Job("refresh", m) \in ReadJob /\ Job("rebuild", m) \in ReadJob
    BY JobsRead
  <2>2. Job("open", "none") \in ReadJob
    BY JobsRead
  <2>3. CASE \E m \in Msgs : Delete(m)
    BY <2>1, <2>3 DEF Delete, TapsAside, media
  <2>4. CASE \E m \in Msgs : Hide(m)
    BY <2>1, <2>4 DEF Hide, TapsAside, media
  <2>5. CASE Select
    BY <2>2, <2>5 DEF Select, TapsAside, media
  <2>6. CASE (\E m \in Msgs : RequestEdit(m)) \/ CancelEdit
    BY <2>6 DEF RequestEdit, CancelEdit, TapsAside, media, tasks
  <2>7. QED
    BY <1>2, <2>3, <2>4, <2>5, <2>6
<1>3. CASE RunDone
  <2>1. Job("refresh", Head(uiq).op.msg) \in ReadJob /\ Head(uiq).op.msg \in Msgs
    BY <1>3, HeadTyped, JobsRead DEF RunDone, Turn, Operation
  <2>2. QED
    BY <1>3, <2>1, NoMore DEF RunDone, Turn, TapsAside, media
<1>4. CASE Report
  <2>1. UNCHANGED uiq \/ Post(Sighting(Head(feed)))
    BY <1>4 DEF Report, Post, Sighting
  <2>2. Sighting(Head(feed)) \in Posted /\ Sighting(Head(feed)).kind # "tap"
    <3>1. Head(feed).msg \in Msgs /\ Len(log) \in Nat
      BY <1>4, FeedTyped DEF Report, Shaped, ScreenShaped, Filed, Record
    <3>2. QED
      BY <3>1 DEF Posted, Seen, Sighting
  <2>3. QED
    BY <1>4, <2>1, <2>2 DEF Report, TapsAside, media, tasks
<1>5. ASSUME NEW o \in BagToSet(ops), Completed(o) PROVE TapsAside
  <2>1. [kind |-> "done", op |-> o] \in Posted /\ [kind |-> "done", op |-> o].kind # "tap"
    BY OpTyped DEF Posted, Done
  <2>2. QED
    BY <1>5, <2>1 DEF Completed, TapsAside, media
<1>6. CASE Landing
  <2>1. UNCHANGED <<held, reads>> /\ uiq # <<>> /\ \E more \in Seq(Autoload) : Take(more)
    BY <1>6, LandingFrame, LandingTakes
  <2>2. RunTap \/ UNCHANGED <<loads, inflight>>
    BY <1>6 DEF Landing, RunRefresh, RunEvent, RunEcho, RunRebuild, RunList, RunOpen, media
  <2>3. QED
    BY <2>1, <2>2 DEF TapsAside
<1>7. ASSUME NEW v \in Texts, SubmitEdit(v) PROVE TapsAside
  BY <1>7 DEF SubmitEdit, TapsAside, media
<1>8. ASSUME NEW a \in Accounts, SwitchTo(a) PROVE TapsAside
  <2>1. Job("list", "none") \in ReadJob
    BY JobsRead
  <2>2. QED
    BY <1>8, <2>1 DEF SwitchTo, TapsAside, media
<1>9. ASSUME NEW m \in Msgs, Receive(m) PROVE TapsAside
  BY <1>9 DEF Receive, TapsAside, media, tasks
<1>10. CASE PeerStores
  BY <1>10 DEF PeerStores, TapsAside, media, tasks
<1>11. ASSUME NEW o \in BagToSet(ops), Stored(o) PROVE TapsAside
  BY <1>11 DEF Stored, TapsAside, media
<1>12. CASE UNCHANGED vars
  BY <1>12 DEF vars, TapsAside
<1>13. CASE Aside
  BY <1>2, <1>3, <1>4, <1>5, <1>13 DEF Aside
<1>14. QED
  BY <1>1, <1>6, <1>7, <1>8, <1>9, <1>10, <1>11, <1>12, <1>13, Steps

(* The keys of two messages differ, and an image or a file has one.        *)
LEMMA KeysApart ==
  /\ \A m, n \in Msgs : m # n => Keys[m] \cap Keys[n] = {}
  /\ \A m \in Msgs : Kind[m] \in {"image", "file"} => Keys[m] # {}
<1>1. \A m, n \in Msgs : m # n => Keys[m] \cap Keys[n] = {}
  BY MessagesConstantsOK
<1>2. ASSUME NEW m \in Msgs, Kind[m] \in {"image", "file"} PROVE Keys[m] # {}
  <2>1. Cardinality({}) = 0
    BY FS_EmptySet
  <2>2. Cardinality(Keys[m]) = 1
    BY <1>2, MessagesConstantsOK
  <2>3. QED
    BY <2>1, <2>2
<1>3. QED
  BY <1>1, <1>2

LEMMA TapKeeps ==
  ASSUME Shaped, Shaped', NEW m \in Msgs, Kind[m] # "audio", TapState(m),
         NEW n \in Msgs, Tap(n)
  PROVE  TapState(m)'
<1>1. /\ Ask("tap", n) /\ Job("tap", n) \in ReadJob /\ UNCHANGED <<held, uiq, loads>>
      /\ inflight' = inflight \cup Keys[n] /\ Keys[n] \cap inflight = {}
      /\ Kind[n] \in {"image", "audio", "file"}
  BY JobsRead DEF Tap
<1>2. /\ BagToSet(reads') = BagToSet(reads) \cup {Job("tap", n)}
      /\ Job("tap", n) \notin BagToSet(reads) => reads'[Job("tap", n)] = 1
      /\ \A x \in BagToSet(reads) : x # Job("tap", n) => reads'[x] = reads[x]
  BY <1>1, Asked DEF Shaped
<1>3. CASE m # n
  <2>1. QueueTaps(m)
    BY <1>1, QueueTapsKept
  <2>2. ~Tapping(Job("tap", n), m)
    BY <1>3 DEF Tapping, Job
  <2>3. Untouched(m)
    BY <1>1, <1>2, <2>1, <2>2 DEF Untouched
  <2>4. QED
    BY <2>3, UntouchedKeeps
<1>4. CASE m = n
  <2>1. Keys[m] # {} /\ ~(Keys[m] \subseteq inflight)
    BY <1>1, <1>4, KeysApart
  <2>2. /\ \A j \in BagToSet(reads) : ~Tapping(j, m)
        /\ \A h \in BagToSet(held) : ~Tapping(h, m)
        /\ \A i \in DOMAIN uiq : ~Tapping(uiq[i], m)
    BY <2>1 DEF TapState, OneTap
  <2>3. LoadsOf(m) = {}
    <3>1. \A l \in LoadsOf(m) : l.key \in Keys[m] /\ l.key \in inflight
      BY LoadTyped DEF TapState, LoadOnce, LoadsOf
    <3>2. QED
      BY <1>1, <1>4, <3>1
  <2>4. ASSUME NEW j \in BagToSet(reads'), Tapping(j, m) PROVE j = Job("tap", n)
    BY <1>2, <2>2, <2>4
  <2>5. Job("tap", n) \notin BagToSet(reads)
    BY <1>4, <2>2 DEF Tapping, Job
  <2>6. LoadsOf(m)' = {} /\ Keys[m] \subseteq inflight'
    BY <1>1, <1>4, <2>3 DEF LoadsOf
  <2>7. OneTap(m)'
    <3>1. \A j \in BagToSet(reads') : Tapping(j, m) => reads'[j] = 1
      BY <1>2, <2>4, <2>5
    <3>2. /\ \A h \in BagToSet(held') : ~Tapping(h, m)
          /\ \A i \in DOMAIN uiq' : ~Tapping(uiq'[i], m)
      BY <1>1, <2>2
    <3>3. QED
      BY <2>6, <3>1, <3>2 DEF OneTap, Tapping
  <2>8. Kind[m] \in {"image", "file"}
    BY <1>1, <1>4
  <2>9. QED
    BY <2>6, <2>7, <2>8 DEF TapState, LoadOnce
<1>5. QED
  BY <1>3, <1>4

LEMMA ReadKeeps ==
  ASSUME Shaped, Shaped', NEW m \in Msgs, TapState(m), NEW j \in BagToSet(reads), Read(j)
  PROVE  TapState(m)'
<1>1. /\ UNCHANGED <<uiq, loads, inflight>> /\ reads' = reads (-) SetToBag({j})
      /\ IsBag(reads, ReadJob)
  BY DEF Read, media, Shaped, TasksShaped
<1>2. /\ BagToSet(reads') \subseteq BagToSet(reads)
      /\ j \in BagToSet(reads') => reads[j] > 1
      /\ \A x \in BagToSet(reads) \ {j} : reads'[x] = reads[x]
  BY <1>1, BagTake
<1>3. /\ BagToSet(held') = BagToSet(held) \cup {Reading(j)}
      /\ Reading(j) \notin BagToSet(held) => held'[Reading(j)] = 1
      /\ \A h \in BagToSet(held) : h # Reading(j) => held'[h] = held[h]
  BY ReadShape
<1>4. Tapping(Reading(j), m) <=> Tapping(j, m)
  BY DEF Reading, Tapping
<1>5. CASE ~Tapping(j, m)
  <2>1. QueueTaps(m)
    BY <1>1, QueueTapsKept
  <2>2. \A x \in BagToSet(reads') : Tapping(x, m) => x \in BagToSet(reads) /\ reads'[x] = reads[x]
    BY <1>2, <1>5
  <2>3. \A h \in BagToSet(held') : Tapping(h, m) => h \in BagToSet(held) /\ held'[h] = held[h]
    BY <1>3, <1>4, <1>5
  <2>4. Untouched(m)
    BY <1>1, <2>1, <2>2, <2>3 DEF Untouched
  <2>5. QED
    BY <2>4, UntouchedKeeps
<1>6. CASE Tapping(j, m)
  <2>1. /\ reads[j] = 1 /\ Keys[m] \subseteq inflight
        /\ \A h \in BagToSet(held) : ~Tapping(h, m)
        /\ \A i \in DOMAIN uiq : ~Tapping(uiq[i], m)
        /\ LoadsOf(m) = {}
    BY <1>6 DEF TapState, OneTap
  <2>2. \A x \in BagToSet(reads') : ~Tapping(x, m)
    <3>1. \A x \in BagToSet(reads) : Tapping(x, m) => x = j
      <4>1. \A x \in BagToSet(reads) : x \in ReadJob
        BY <1>1 DEF IsBag, BagToSet
      <4>2. \A x \in ReadJob : Tapping(x, m) => x = Job("tap", m)
        BY DEF ReadJob, Tapping, Job
      <4>3. QED
        BY <1>6, <4>1, <4>2
    <3>2. QED
      BY <1>2, <2>1, <3>1
  <2>3. \A h \in BagToSet(held') : Tapping(h, m) => h = Reading(j) /\ held'[h] = 1
    BY <1>3, <1>4, <1>6, <2>1
  <2>4. LoadsOf(m)' = {} /\ Keys[m] \subseteq inflight'
    BY <1>1, <2>1 DEF LoadsOf
  <2>5. \A i \in DOMAIN uiq' : ~Tapping(uiq'[i], m)
    BY <1>1, <2>1
  <2>6. OneTap(m)'
    BY <2>2, <2>3, <2>4, <2>5 DEF OneTap, Tapping
  <2>7. TapsOf(m)
    BY <1>6 DEF TapsOf
  <2>8. QED
    BY <2>4, <2>6, <2>7 DEF TapState, LoadOnce
<1>7. QED
  BY <1>5, <1>6

LEMMA HandKeeps ==
  ASSUME Shaped, Shaped', NEW m \in Msgs, TapState(m), NEW h \in BagToSet(held), Hand(h)
  PROVE  TapState(m)'
<1>1. /\ UNCHANGED <<reads, loads>> /\ held' = held (-) SetToBag({h})
      /\ IsBag(held, Snap) /\ h \in Posted /\ uiq \in Seq(Posted)
  BY HeldTyped DEF Hand, Shaped, TasksShaped
<1>2. /\ BagToSet(held') \subseteq BagToSet(held)
      /\ h \in BagToSet(held') => held[h] > 1
      /\ \A x \in BagToSet(held) \ {h} : held'[x] = held[x]
  BY <1>1, BagTake
<1>3. \/ Post(h) /\ UNCHANGED inflight
      \/ h.kind = "tap" /\ inflight' = inflight \ Keys[h.msg] /\ UNCHANGED uiq
  BY DEF Hand
<1>4. CASE ~Tapping(h, m)
  <2>1. QueueTaps(m)
    BY <1>1, <1>3, <1>4, QueueTapsKept
  <2>2. Keys[m] \cap inflight \subseteq inflight'
    <3>1. CASE UNCHANGED inflight
      BY <3>1
    <3>2. CASE h.kind = "tap" /\ inflight' = inflight \ Keys[h.msg]
      <4>1. h.msg \in Msgs /\ h.msg # m
        BY <1>4, <3>2, HeldTyped DEF Tapping
      <4>2. QED
        BY <3>2, <4>1, KeysApart
    <3>3. QED
      BY <1>3, <3>1, <3>2
  <2>3. Untouched(m)
    BY <1>1, <1>2, <1>4, <2>1, <2>2 DEF Untouched
  <2>4. QED
    BY <2>3, UntouchedKeeps
<1>5. CASE Tapping(h, m)
  <2>1. /\ held[h] = 1 /\ Keys[m] \subseteq inflight
        /\ \A g \in BagToSet(held) : Tapping(g, m) => g = h
        /\ \A i \in DOMAIN uiq : ~Tapping(uiq[i], m)
        /\ LoadsOf(m) = {}
    BY <1>5 DEF TapState, OneTap
  <2>2. \A g \in BagToSet(held') : ~Tapping(g, m)
    BY <1>2, <2>1
  <2>3. \A j \in BagToSet(reads') : ~Tapping(j, m)
    BY <1>1, <1>5 DEF TapState, OneTap
  <2>4. LoadsOf(m)' = {}
    BY <1>1, <2>1 DEF LoadsOf
  <2>5. TapsOf(m)
    BY <1>5 DEF TapsOf
  <2>6. CASE Post(h) /\ UNCHANGED inflight
    <3>1. /\ \A i \in DOMAIN uiq : uiq'[i] = uiq[i]
          /\ \A i \in DOMAIN uiq' : i \in DOMAIN uiq \/ i = Len(uiq) + 1
      BY <1>1, <2>6, UiqPosted
    <3>2. \A i \in DOMAIN uiq' : Tapping(uiq'[i], m) => i = Len(uiq) + 1
      BY <2>1, <3>1
    <3>3. OneTap(m)'
      BY <2>1, <2>2, <2>3, <2>4, <2>6, <3>2 DEF OneTap, Tapping
    <3>4. QED
      BY <2>4, <2>5, <3>3 DEF TapState, LoadOnce
  <2>7. CASE UNCHANGED uiq
    <3>1. \A i \in DOMAIN uiq' : ~Tapping(uiq'[i], m)
      BY <2>1, <2>7
    <3>2. OneTap(m)'
      BY <2>2, <2>3, <3>1 DEF OneTap, Tapping
    <3>3. QED
      BY <2>4, <2>5, <3>2 DEF TapState, LoadOnce
  <2>8. QED
    BY <1>3, <2>6, <2>7
<1>6. QED
  BY <1>4, <1>5

(* The record of a tap is in hand: the load starts.                        *)
LEMMA RunTapKeeps ==
  ASSUME Shaped, Shaped', NEW m \in Msgs, Kind[m] # "audio", TapState(m), RunTap
  PROVE  TapState(m)'
<1> DEFINE n == Head(uiq).msg
           T == {[key |-> k, msg |-> n] : k \in Keys[n]}
<1>0. /\ uiq \in Seq(Posted) /\ uiq # <<>> /\ 1 \in DOMAIN uiq /\ n \in Msgs
      /\ Head(uiq) = uiq[1] /\ uiq[1].kind = "tap" /\ uiq[1].msg = n
  BY HeadTyped, SnapLands DEF RunTap, Turn, Shaped, TasksShaped
<1>1. /\ loads' = loads (+) SetToBag(T) /\ UNCHANGED <<reads, held>>
      /\ inflight' = IF Kind[n] = "audio" THEN inflight \ Keys[n] ELSE inflight
  BY DEF RunTap, Dispatch, tasks
<1>2. PICK more \in Seq(Autoload) : Take(more)
  BY LandingTakes DEF Landing
<1>3. T \subseteq Load /\ \A l \in T : l.msg = n /\ l.key \in Keys[n]
  BY <1>0 DEF Load, AllKeys
<1> HIDE DEF n, T
<1>4. /\ BagToSet(loads') = BagToSet(loads) \cup T
      /\ \A l \in T \ BagToSet(loads) : loads'[l] = 1
      /\ \A l \in BagToSet(loads) \ T : loads'[l] = loads[l]
  BY <1>1, <1>3, BagAdd DEF Shaped, TasksShaped
<1>5. CASE m # n
  <2>1. QueueTaps(m)
    BY <1>0, <1>2, QueueTapsKept
  <2>2. Keys[m] \cap inflight \subseteq inflight'
    BY <1>0, <1>1, <1>5, KeysApart
  <2>3. \A l \in BagToSet(loads') : l.msg = m => l \in BagToSet(loads) /\ loads'[l] = loads[l]
    BY <1>3, <1>4, <1>5
  <2>4. Untouched(m)
    BY <1>1, <2>1, <2>2, <2>3 DEF Untouched
  <2>5. QED
    BY <2>4, UntouchedKeeps
<1>6. CASE m = n
  <2>1. 1 \in DOMAIN uiq /\ Tapping(uiq[1], m)
    BY <1>0, <1>6 DEF Tapping
  <2>2. /\ Keys[m] \subseteq inflight /\ LoadsOf(m) = {}
        /\ \A j \in DOMAIN uiq : Tapping(uiq[j], m) => j = 1
        /\ \A j \in BagToSet(reads) : ~Tapping(j, m)
        /\ \A h \in BagToSet(held) : ~Tapping(h, m)
        /\ TapsOf(m)
    BY <2>1 DEF TapState, OneTap, TapsOf
  <2>3. \A i \in DOMAIN uiq' : ~Tapping(uiq'[i], m)
    <3>1. \A i \in DOMAIN uiq' : \/ i + 1 \in DOMAIN uiq /\ uiq'[i] = uiq[i + 1] /\ i + 1 # 1
                                 \/ uiq'[i] \in Autoload
      <4>1. \A i \in DOMAIN uiq' : \/ i + 1 \in DOMAIN uiq /\ uiq'[i] = uiq[i + 1]
                                   \/ uiq'[i] \in Autoload
        BY <1>0, <1>2, UiqTaken
      <4>2. \A i \in DOMAIN uiq' : i + 1 # 1
        BY DEF Shaped, TasksShaped
      <4>3. QED
        BY <4>1, <4>2
    <3>2. \A c \in Autoload : ~Tapping(c, m)
      BY DEF Autoload, Tapping
    <3>3. QED
      BY <2>2, <3>1, <3>2
  <2>4. OneTap(m)'
    BY <1>1, <2>2, <2>3 DEF OneTap, Tapping
  <2>5. LoadOnce(m)'
    <3>1. \A l \in BagToSet(loads') : l.msg = m => l \in T /\ loads'[l] = 1
      BY <1>4, <2>2 DEF LoadsOf
    <3>2. \A l \in T : l.key \in inflight'
      BY <1>1, <1>3, <1>6, <2>2
    <3>3. QED
      BY <3>1, <3>2 DEF LoadOnce, LoadsOf
  <2>6. Kind[m] \in {"image", "file"}
    BY <2>2 DEF TapState
  <2>7. QED
    BY <2>4, <2>5, <2>6 DEF TapState
<1>7. QED
  BY <1>5, <1>6

(* The cells of an album that are still needed start to load.              *)
LEMMA RunAutoloadKeeps ==
  ASSUME Shaped, Shaped', NEW m \in Msgs, TapState(m), RunAutoload
  PROVE  TapState(m)'
<1> DEFINE n == Head(uiq).msg
           K == StillNeeded(Head(uiq).keys)
           T == {[key |-> k, msg |-> n] : k \in K}
<1>0. Head(uiq) \in Autoload /\ uiq # <<>> /\ uiq \in Seq(Posted)
  BY HeadTyped DEF RunAutoload, Turn, Shaped, TasksShaped
<1>1. /\ loads' = loads (+) SetToBag(T) /\ inflight' = inflight \cup K
      /\ UNCHANGED <<reads, held>> /\ Take(<<>>)
  BY DEF RunAutoload, tasks
<1>2. Kind[n] = "album" /\ n \in Msgs /\ K \subseteq Keys[n] /\ K \cap inflight = {}
  BY <1>0 DEF Autoload, StillNeeded
<1>3. T \subseteq Load /\ \A l \in T : l.msg = n /\ l.key \in K
  <2> HIDE DEF K
  <2>1. QED
    BY <1>2 DEF Load, AllKeys
<1> HIDE DEF n, K, T
<1>4. /\ BagToSet(loads') = BagToSet(loads) \cup T
      /\ \A l \in T \ BagToSet(loads) : loads'[l] = 1
      /\ \A l \in BagToSet(loads) \ T : loads'[l] = loads[l]
  BY <1>1, <1>3, BagAdd DEF Shaped, TasksShaped
<1>5. QueueTaps(m)
  BY <1>0, <1>1, NoMore, QueueTapsKept
<1>6. CASE m # n
  <2>1. Untouched(m)
    BY <1>1, <1>3, <1>4, <1>5, <1>6 DEF Untouched
  <2>2. QED
    BY <2>1, UntouchedKeeps
<1>7. CASE m = n
  <2>1. ~TapsOf(m)
    BY <1>2, <1>7 DEF TapState
  <2>2. ~TapsOf(m)'
    <3>1. \A i \in DOMAIN uiq' : ~Tapping(uiq'[i], m)
      BY <1>5, <2>1 DEF QueueTaps, TapsOf
    <3>2. QED
      BY <1>1, <2>1, <3>1 DEF TapsOf, Tapping
  <2>3. OneTap(m)'
    BY <2>2 DEF OneTap, TapsOf
  <2>4. LoadOnce(m)'
    <3>1. ASSUME NEW l \in LoadsOf(m)' PROVE loads'[l] = 1 /\ l.key \in inflight'
      <4>1. CASE l \in BagToSet(loads)
        <5>1. loads[l] = 1 /\ l.key \in inflight
          BY <3>1, <4>1 DEF TapState, LoadOnce, LoadsOf
        <5>2. l \notin T
          BY <1>2, <1>3, <5>1
        <5>3. QED
          BY <1>1, <1>4, <4>1, <5>1, <5>2
      <4>2. CASE l \notin BagToSet(loads)
        <5>1. l \in T
          BY <1>4, <3>1, <4>2 DEF LoadsOf
        <5>2. QED
          BY <1>1, <1>3, <1>4, <4>2, <5>1
      <4>3. QED
        BY <4>1, <4>2
    <3>2. QED
      BY <3>1 DEF LoadOnce
  <2>5. QED
    BY <2>2, <2>3, <2>4 DEF TapState
<1>8. QED
  BY <1>6, <1>7

(* A load ends, with pixels or without.                                    *)
LEMMA LoadKeeps ==
  ASSUME Shaped, Shaped', NEW m \in Msgs, TapState(m),
         NEW l \in BagToSet(loads), Loaded(l) \/ LoadFailed(l)
  PROVE  TapState(m)'
<1>1. /\ loads' = loads (-) SetToBag({l}) /\ inflight' = inflight \ {l.key}
      /\ UNCHANGED <<held, uiq>> /\ (UNCHANGED reads \/ Ask("refresh", l.msg))
      /\ IsBag(loads, Load)
  BY DEF Loaded, LoadFailed, Shaped, TasksShaped
<1>2. /\ BagToSet(loads') \subseteq BagToSet(loads)
      /\ l \in BagToSet(loads') => loads[l] > 1
      /\ \A x \in BagToSet(loads) \ {l} : loads'[x] = loads[x]
  BY <1>1, BagTake
<1>3. l.msg \in Msgs /\ l.key \in Keys[l.msg] /\ l \in Load
  BY LoadTyped
<1>4. \A j \in BagToSet(reads') : Tapping(j, m) => j \in BagToSet(reads) /\ reads'[j] = reads[j]
  <2>1. CASE Ask("refresh", l.msg)
    <3>1. Job("refresh", l.msg) \in ReadJob /\ ~Tapping(Job("refresh", l.msg), m)
      BY <1>3, JobsRead DEF Tapping, Job
    <3>2. QED
      BY <2>1, <3>1, Asked DEF Shaped
  <2>2. QED
    BY <1>1, <2>1
<1>5. QueueTaps(m)
  BY <1>1, QueueTapsKept
<1>6. CASE m # l.msg
  <2>1. Keys[m] \cap inflight \subseteq inflight'
    BY <1>1, <1>3, <1>6, KeysApart
  <2>2. Untouched(m)
    BY <1>1, <1>2, <1>4, <1>5, <1>6, <2>1 DEF Untouched
  <2>3. QED
    BY <2>2, UntouchedKeeps
<1>7. CASE m = l.msg
  <2>1. l \in LoadsOf(m)
    BY <1>7 DEF LoadsOf
  <2>2. loads[l] = 1
    BY <2>1 DEF TapState, LoadOnce
  <2>3. ~TapsOf(m)
    BY <2>1 DEF TapState, OneTap, TapsOf
  <2>4. ~TapsOf(m)'
    <3>1. \A i \in DOMAIN uiq' : ~Tapping(uiq'[i], m)
      BY <1>5, <2>3 DEF QueueTaps, TapsOf
    <3>2. QED
      BY <1>1, <1>4, <2>3, <3>1 DEF TapsOf, Tapping
  <2>5. OneTap(m)'
    BY <2>4 DEF OneTap, TapsOf
  <2>6. LoadOnce(m)'
    <3>1. ASSUME NEW x \in LoadsOf(m)' PROVE loads'[x] = 1 /\ x.key \in inflight'
      <4>1. x \in BagToSet(loads) /\ x # l /\ x.msg = m
        BY <1>2, <2>2, <3>1 DEF LoadsOf
      <4>2. loads[x] = 1 /\ x.key \in inflight /\ x \in Load
        BY <4>1, LoadTyped DEF TapState, LoadOnce, LoadsOf
      <4>3. x.key # l.key
        BY <1>3, <1>7, <4>1, <4>2 DEF Load
      <4>4. QED
        BY <1>1, <1>2, <4>1, <4>2, <4>3
    <3>2. QED
      BY <3>1 DEF LoadOnce
  <2>7. QED
    BY <2>4, <2>5, <2>6 DEF TapState
<1>8. QED
  BY <1>6, <1>7

LEMMA DownloadsKept ==
  ASSUME Shaped, Downloads, [Next]_vars
  PROVE  Downloads'
<1> SUFFICES ASSUME NEW m \in Msgs, Kind[m] # "audio"
             PROVE  TapState(m)'
  BY DEF Downloads, TapState
<1>1. TapState(m) /\ Shaped'
  BY ShapedNext DEF Downloads, TapState
<1>2. CASE TapsAside
  BY <1>1, <1>2, TapsAsideKeep, UntouchedKeeps
<1>3. QED
  BY <1>1, <1>2, TapSteps, TapKeeps, ReadKeeps, HandKeeps, RunTapKeeps, RunAutoloadKeeps,
     LoadKeeps

(* One load at most of a key: of its own message, and there once.          *)
LEMMA DownloadsOne ==
  ASSUME Shaped, Downloads
  PROVE  OneDownload
<1> SUFFICES ASSUME NEW k \in AllKeys
             PROVE  /\ Cardinality({l \in BagToSet(loads) :
                                     l.key = k /\ Kind[l.msg] # "audio"}) <= 1
                    /\ \A l \in BagToSet(loads) : Kind[l.msg] # "audio" =>
                         loads[l] = 1 /\ l.key \in inflight
  BY DEF OneDownload
<1> DEFINE L == {l \in BagToSet(loads) : l.key = k /\ Kind[l.msg] # "audio"}
<1>1. \A l, x \in L : l = x
  <2> SUFFICES ASSUME NEW l \in L, NEW x \in L PROVE l = x
    OBVIOUS
  <2>1. l \in Load /\ x \in Load /\ l.key = k /\ x.key = k
    BY LoadTyped
  <2>2. l.msg = x.msg
    <3>1. l.msg \in Msgs /\ x.msg \in Msgs /\ k \in Keys[l.msg] /\ k \in Keys[x.msg]
      BY <2>1 DEF Load
    <3>2. QED
      BY <3>1, KeysApart
  <2>3. QED
    BY <2>1, <2>2 DEF Load
<1>2. Cardinality(L) <= 1
  <2> HIDE DEF L
  <2>1. CASE L = {}
    <3>1. Cardinality(L) = 0
      BY <2>1, FS_EmptySet
    <3>2. QED
      BY <3>1
  <2>2. CASE L # {}
    <3>1. PICK x : L = {x}
      BY <1>1, <2>2
    <3>2. Cardinality(L) = 1
      BY <3>1, FS_Singleton
    <3>3. QED
      BY <3>2
  <2>3. QED
    BY <2>1, <2>2
<1>3. ASSUME NEW l \in BagToSet(loads), Kind[l.msg] # "audio"
      PROVE  loads[l] = 1 /\ l.key \in inflight
  BY <1>3, LoadTyped DEF Downloads, LoadOnce, LoadsOf
<1>4. QED
  BY <1>2, <1>3
-----------------------------------------------------------------------------
(* Hidden messages.                                                        *)

(* What a step does to the event loop's queue, and to the watcher's.       *)
Reported(c) ==
  /\ c.kind \in {"echo", "event"} => Report /\ c = Sighting(Head(feed))
  /\ c.kind = "done" => c.op \in BagToSet(ops)
Runs == /\ Head(uiq).kind = "done" => RunDone
        /\ Head(uiq).kind = "refresh" => RunRefresh
        /\ Head(uiq).kind = "event" => RunEvent
        /\ Head(uiq).kind = "echo" => RunEcho
        /\ Head(uiq).kind = "rebuild" => RunRebuild
        /\ Head(uiq).kind = "tap" => RunTap
LEMMA QueueSteps ==
  ASSUME Shaped, [Next]_vars
  PROVE  \/ UNCHANGED uiq
         \/ \E c \in Posted : Post(c) /\ Reported(c)
         \/ /\ uiq # <<>> /\ \E more \in Seq(Autoload) : Take(more)
            /\ Runs
<1>1. CASE Landing
  <2>1. Runs
    BY <1>1 DEF Landing, Runs, RunRefresh, RunEvent, RunTap, RunEcho, RunRebuild, RunList,
                RunOpen, Turn
  <2>2. QED
    BY <1>1, <2>1, LandingFrame, LandingTakes
<1>2. CASE RunDone \/ RunAutoload
  BY <1>2, NoMore DEF RunDone, RunAutoload, Turn, Runs
<1>3. CASE Report
  <2>1. UNCHANGED uiq \/ Post(Sighting(Head(feed)))
    BY <1>3 DEF Report, Post, Sighting
  <2>2. Sighting(Head(feed)) \in Posted
    <3>1. Head(feed).msg \in Msgs /\ Len(log) \in Nat
      BY <1>3, FeedTyped DEF Report, Shaped, ScreenShaped, Filed, Record
    <3>2. QED
      BY <3>1 DEF Posted, Seen, Sighting
  <2>3. Reported(Sighting(Head(feed)))
    BY <1>3 DEF Reported, Sighting
  <2>4. QED
    BY <2>1, <2>2, <2>3
<1>4. ASSUME NEW o \in BagToSet(ops), Completed(o)
      PROVE  \E c \in Posted : Post(c) /\ Reported(c)
  <2>1. /\ [kind |-> "done", op |-> o] \in Posted
        /\ Reported([kind |-> "done", op |-> o])
    BY OpTyped DEF Posted, Done, Reported
  <2>2. QED
    BY <1>4, <2>1 DEF Completed
<1>5. ASSUME NEW h \in BagToSet(held), Hand(h)
      PROVE  UNCHANGED uiq \/ \E c \in Posted : Post(c) /\ Reported(c)
  <2>1. h \in Posted /\ Reported(h)
    BY HeldTyped DEF Snap, Reported
  <2>2. QED
    BY <1>5, <2>1 DEF Hand
<1>6. CASE \/ \E m \in Msgs : RequestEdit(m) \/ Delete(m) \/ Hide(m) \/ Tap(m)
           \/ CancelEdit \/ Select
           \/ \E j \in BagToSet(reads) : Read(j)
           \/ \E l \in BagToSet(loads) : Loaded(l) \/ LoadFailed(l)
  BY <1>6 DEF RequestEdit, Delete, Hide, Tap, CancelEdit, Select, Read, Loaded, LoadFailed
<1>7. CASE Reacting
  BY <1>7 DEF Reacting, SetReaction
<1>8. ASSUME NEW v \in Texts, SubmitEdit(v) PROVE UNCHANGED uiq
  BY <1>8 DEF SubmitEdit
<1>9. ASSUME NEW a \in Accounts, SwitchTo(a) PROVE UNCHANGED uiq
  BY <1>9 DEF SwitchTo
<1>10. ASSUME NEW m \in Msgs, Receive(m) PROVE UNCHANGED uiq
  BY <1>10 DEF Receive
<1>11. CASE PeerStores
  BY <1>11 DEF PeerStores
<1>12. ASSUME NEW o \in BagToSet(ops), Stored(o) PROVE UNCHANGED uiq
  BY <1>12 DEF Stored
<1>13. CASE Aside
  BY <1>2, <1>3, <1>4, <1>5, <1>6, <1>13 DEF Aside
<1>14. QED
  BY <1>1, <1>7, <1>8, <1>9, <1>10, <1>11, <1>12, <1>13, Steps DEF vars

LEMMA FeedSteps ==
  ASSUME Shaped, [Next]_vars
  PROVE  /\ \A i \in DOMAIN feed' :
              \/ \E j \in DOMAIN feed : feed'[i] = feed[j]
              \/ feed'[i].kind = "chat" => ~IsFiled(feed'[i].msg)
         /\ \A m : IsFiled(m) => IsFiled(m)'
<1> DEFINE Goal == /\ \A i \in DOMAIN feed' :
                        \/ \E j \in DOMAIN feed : feed'[i] = feed[j]
                        \/ feed'[i].kind = "chat" => ~IsFiled(feed'[i].msg)
                   /\ \A m : IsFiled(m) => IsFiled(m)'
<1> SUFFICES Goal
  OBVIOUS
<1>1. ASSUME UNCHANGED log, feed' = feed \/ feed' = <<>> PROVE Goal
  <2>1. \A m : IsFiled(m) => IsFiled(m)'
    BY <1>1 DEF IsFiled
  <2>2. DOMAIN <<>> = {}
    OBVIOUS
  <2>3. \A i \in DOMAIN feed' : \E j \in DOMAIN feed : feed'[i] = feed[j]
    BY <1>1, <2>2
  <2>4. QED
    BY <2>1, <2>3
<1>2. ASSUME NEW r \in Filed, Store(r), r.kind = "chat" => ~IsFiled(r.msg) PROVE Goal
  <2>1. /\ \A i \in DOMAIN log : i \in DOMAIN log' /\ log'[i] = log[i]
        /\ \A i \in DOMAIN feed' : feed'[i] = r \/ (i \in DOMAIN feed /\ feed'[i] = feed[i])
    BY <1>2, StoreShaped
  <2>2. \A m : IsFiled(m) => IsFiled(m)'
    BY <2>1 DEF IsFiled
  <2>3. QED
    BY <1>2, <2>1, <2>2
<1>3. CASE Report
  <2>1. feed # <<>> /\ feed' = Tail(feed) /\ UNCHANGED log
    BY <1>3 DEF Report, store
  <2>2. \A i \in DOMAIN feed' : \E j \in DOMAIN feed : feed'[i] = feed[j]
    BY <2>1, FeedTyped
  <2>3. \A m : IsFiled(m) => IsFiled(m)'
    BY <2>1 DEF IsFiled
  <2>4. QED
    BY <2>2, <2>3
<1> HIDE DEF Goal
<1>4. CASE Landing
  <2>1. UNCHANGED log
    BY <1>4, LandingFrame
  <2>2. feed' = feed \/ feed' = <<>>
    BY <1>4 DEF Landing, RunRefresh, RunEvent, RunTap, RunEcho, RunRebuild, RunList, RunOpen
  <2>3. QED
    BY <1>1, <2>1, <2>2
<1>5. ASSUME NEW o \in BagToSet(ops), Completed(o) PROVE Goal
  BY <1>1, <1>5 DEF Completed, store
<1>6. CASE \/ \E m \in Msgs : RequestEdit(m) \/ Delete(m) \/ Hide(m) \/ Tap(m)
           \/ CancelEdit \/ Select \/ RunDone \/ RunAutoload
           \/ \E j \in BagToSet(reads) : Read(j)
           \/ \E h \in BagToSet(held) : Hand(h)
           \/ \E l \in BagToSet(loads) : Loaded(l) \/ LoadFailed(l)
  <2>1. UNCHANGED <<log, feed>>
    BY <1>6 DEF RequestEdit, Delete, Hide, Tap, CancelEdit, Select, RunDone, RunAutoload,
                Read, Hand, Loaded, LoadFailed, store
  <2>2. QED
    BY <1>1, <2>1
<1>7. CASE Reacting
  BY <1>1, <1>7 DEF Reacting, SetReaction, store
<1>8. ASSUME NEW v \in Texts, SubmitEdit(v) PROVE Goal
  BY <1>1, <1>8 DEF SubmitEdit, store
<1>9. ASSUME NEW a \in Accounts, SwitchTo(a) PROVE Goal
  BY <1>1, <1>9 DEF SwitchTo, store
<1>10. ASSUME NEW m \in Msgs, Receive(m) PROVE Goal
  <2>1. ~IsFiled(m) /\ Rec("chat", m, Author[m], "none").msg = m
    BY <1>10 DEF Receive, IsFiled, Rec
  <2>2. QED
    BY <1>2, <1>10, <2>1, PeerFiled DEF Receive
<1>11. CASE PeerStores
  BY <1>2, <1>11 DEF PeerStores
<1>12. ASSUME NEW o \in BagToSet(ops), Stored(o) PROVE Goal
  <2>1. Rec(o.kind, o.msg, o.by, o.val).kind # "chat"
    BY OpTyped DEF Rec, Operation
  <2>2. QED
    BY <1>2, <1>12, <2>1, OpTyped DEF Stored
<1>13. CASE UNCHANGED vars
  BY <1>1, <1>13 DEF vars
<1>14. CASE Aside
  BY <1>3, <1>5, <1>6, <1>14 DEF Aside
<1>15. QED
  BY <1>4, <1>7, <1>8, <1>9, <1>10, <1>11, <1>12, <1>13, <1>14, Steps

(* A message still to be reported was so, or is new.                       *)
LEMMA UnreportedSteps ==
  ASSUME Shaped, [Next]_vars, NEW m \in Msgs, Unreported(m)'
  PROVE  Unreported(m) \/ ~IsFiled(m)
<1>1. \/ \E i \in DOMAIN feed' : feed'[i].kind = "chat" /\ feed'[i].msg = m
      \/ \E i \in DOMAIN uiq' : uiq'[i].kind = "echo" /\ uiq'[i].msg = m
  BY DEF Unreported
<1>2. CASE \E i \in DOMAIN feed' : feed'[i].kind = "chat" /\ feed'[i].msg = m
  BY <1>2, FeedSteps DEF Unreported
<1>3. ASSUME NEW i \in DOMAIN uiq', uiq'[i].kind = "echo", uiq'[i].msg = m
      PROVE  Unreported(m)
  <2>0. uiq \in Seq(Posted)
    BY DEF Shaped, TasksShaped
  <2>1. CASE UNCHANGED uiq
    BY <1>3, <2>1 DEF Unreported
  <2>2. ASSUME NEW c \in Posted, Post(c), Reported(c) PROVE Unreported(m)
    <3>1. uiq'[i] = c \/ (i \in DOMAIN uiq /\ uiq'[i] = uiq[i])
      BY <1>3, <2>0, <2>2, UiqPosted
    <3>2. CASE uiq'[i] = c
      <4>1. feed # <<>> /\ Head(feed).kind = "chat" /\ Head(feed).msg = m
        BY <1>3, <2>2, <3>2 DEF Reported, Report, Sighting
      <4>2. QED
        BY <4>1, FeedTyped DEF Unreported
    <3>3. QED
      BY <1>3, <3>1, <3>2 DEF Unreported
  <2>3. ASSUME uiq # <<>>, NEW more \in Seq(Autoload), Take(more) PROVE Unreported(m)
    <3>1. (i + 1 \in DOMAIN uiq /\ uiq'[i] = uiq[i + 1]) \/ uiq'[i] \in Autoload
      BY <1>3, <2>0, <2>3, UiqTaken
    <3>2. \A c \in Autoload : c.kind # "echo"
      BY DEF Autoload
    <3>3. QED
      BY <1>3, <3>1, <3>2 DEF Unreported
  <2>4. QED
    BY <2>1, <2>2, <2>3, QueueSteps
<1>4. QED
  BY <1>1, <1>2, <1>3

(* A rebuild that is under way goes on until it lands.                     *)
LEMMA RebuildGoesOn ==
  ASSUME Shaped, [Next]_vars, Rebuilding, ~RunRebuild
  PROVE  Rebuilding'
<1>0. uiq \in Seq(Posted)
  BY DEF Shaped, TasksShaped
<1>1. Rebuilding' <=> \/ \E j \in BagToSet(reads') : j.kind = "rebuild"
                      \/ \E h \in BagToSet(held') : h.kind = "rebuild"
                      \/ \E i \in DOMAIN uiq' : uiq'[i].kind = "rebuild"
  BY DEF Rebuilding
<1>2. ASSUME NEW i \in DOMAIN uiq, uiq[i].kind = "rebuild"
      PROVE  \E n \in DOMAIN uiq' : uiq'[n].kind = "rebuild"
  <2>1. CASE UNCHANGED uiq
    BY <1>2, <2>1
  <2>2. ASSUME NEW c \in Posted, Post(c)
        PROVE  \E n \in DOMAIN uiq' : uiq'[n].kind = "rebuild"
    BY <1>0, <1>2, <2>2, UiqPosted
  <2>3. ASSUME uiq # <<>>, NEW more \in Seq(Autoload), Take(more), Runs
        PROVE  \E n \in DOMAIN uiq' : uiq'[n].kind = "rebuild"
    <3>1. i # 1
      BY <1>2, <2>3, HeadTyped DEF Runs
    <3>2. QED
      BY <1>0, <1>2, <2>3, <3>1, UiqTaken
  <2>4. QED
    BY <2>1, <2>2, <2>3, QueueSteps
<1>3. ASSUME NEW j \in BagToSet(reads), Read(j) PROVE Rebuilding'
  <2>1. /\ BagToSet(reads) \ {j} \subseteq BagToSet(reads')
        /\ BagToSet(held') = BagToSet(held) \cup {Reading(j)}
    BY <1>3, ReadShape, BagTake DEF Read, Shaped, TasksShaped
  <2>2. Reading(j).kind = j.kind
    BY DEF Reading
  <2>3. QED
    BY <1>1, <1>2, <2>1, <2>2 DEF Rebuilding
<1>4. ASSUME NEW h \in BagToSet(held), Hand(h) PROVE Rebuilding'
  <2>1. BagToSet(held) \ {h} \subseteq BagToSet(held') /\ UNCHANGED reads /\ h \in Posted
    BY <1>4, BagTake, HeldTyped DEF Hand, Shaped, TasksShaped
  <2>2. h.kind = "rebuild" => \E n \in DOMAIN uiq' : uiq'[n].kind = "rebuild"
    <3>1. ASSUME h.kind = "rebuild" PROVE Post(h)
      BY <1>4, <3>1 DEF Hand
    <3>2. Post(h) => Len(uiq) + 1 \in DOMAIN uiq' /\ uiq'[Len(uiq) + 1] = h
      BY <1>0, <2>1, UiqPosted
    <3>3. QED
      BY <3>1, <3>2
  <2>3. QED
    BY <1>1, <1>2, <2>1, <2>2 DEF Rebuilding
<1>5. ASSUME BagToSet(reads) \subseteq BagToSet(reads'), UNCHANGED held PROVE Rebuilding'
  BY <1>1, <1>2, <1>5 DEF Rebuilding
<1>6. ASSUME NEW k, NEW n, Job(k, n) \in ReadJob, Ask(k, n)
      PROVE  BagToSet(reads) \subseteq BagToSet(reads')
  BY <1>6, Asked DEF Shaped
<1>7. CASE TapsAside
  <2>1. BagToSet(reads) \subseteq BagToSet(reads') /\ UNCHANGED held
    BY <1>6, <1>7 DEF TapsAside
  <2>2. QED
    BY <1>5, <2>1
<1>8. CASE RunAutoload \/ RunTap
  BY <1>5, <1>8 DEF RunAutoload, RunTap, tasks
<1>9. ASSUME NEW m \in Msgs, Tap(m) PROVE Rebuilding'
  <2>1. Job("tap", m) \in ReadJob
    BY JobsRead
  <2>2. QED
    BY <1>5, <1>6, <1>9, <2>1 DEF Tap
<1>10. ASSUME NEW l \in BagToSet(loads), Loaded(l) \/ LoadFailed(l) PROVE Rebuilding'
  <2>1. Job("refresh", l.msg) \in ReadJob
    BY LoadTyped, JobsRead
  <2>2. /\ UNCHANGED held
        /\ UNCHANGED reads \/ Ask("refresh", l.msg)
    BY <1>10 DEF Loaded, LoadFailed
  <2>3. QED
    BY <1>5, <1>6, <2>1, <2>2
<1>11. QED
  BY <1>3, <1>4, <1>7, <1>8, <1>9, <1>10, TapSteps

(* A message shown after a step has a row after it.                        *)
LEMMA ShownNext ==
  ASSUME NEW S, rows' \in Seq(S), NEW m, Shown(m)'
  PROVE  \E k \in DOMAIN rows' : rows'[k].msg = m
<1> DEFINE I == {i \in 1 .. Len(rows') : rows'[i].msg = m}
<1>1. Spot(m)' = IF I # {} THEN Min(I) ELSE 0
  BY DEF Spot, SelectInSeq
<1>2. I # {}
  BY <1>1 DEF Shown
<1>3. QED
  BY <1>2

(* The messages shown: those that were, or what a landing adds.            *)
LEMMA ShownWas ==
  ASSUME Shaped, Listing, HiddenGoing, [Next]_vars, NEW m \in Msgs,
         Hidden(m), m \notin echoed, UNCHANGED <<account, hidden, echoed>>,
         Shown(m)'
  PROVE  Shown(m) /\ ~RunRebuild
<1>0. rows \in Seq(Row) /\ rows' \in Seq(Row) /\ Shaped'
  BY ShapedNext DEF Shaped, ScreenShaped
<1>1. PICK k \in DOMAIN rows' : rows'[k].msg = m
  BY <1>0, ShownNext
<1>2. Shown(m) <=> \E j \in DOMAIN rows : rows[j].msg = m
  BY <1>0, SpotFinds
<1>3. ~Unreported(m)
  BY DEF HiddenGoing, Kept, Hidden, Shaped, ScreenShaped
<1>4. CASE RunRebuild
  <2>1. Head(uiq).n \in Nat /\ Head(uiq).n <= Len(log) /\ UNCHANGED <<log, loaded>>
    BY <1>4, SnapLands DEF RunRebuild, store
  <2>2. CASE loaded
    <3>1. rows' = Rebuilt(Head(uiq).n)
      BY <1>4, <2>2 DEF RunRebuild
    <3>2. ~Hidden(rows'[k].msg)
      BY <2>1, <2>2, <3>1, RebuiltLands
    <3>3. QED
      BY <1>1, <3>2
  <2>3. CASE ~loaded
    <3>1. rows' = rows /\ rows = <<>>
      BY <1>4, <2>3 DEF RunRebuild, Listing
    <3>2. QED
      BY <1>1, <3>1
  <2>4. QED
    BY <2>2, <2>3
<1>5. ASSUME NEW j \in DOMAIN rows, rows'[k].msg = rows[j].msg PROVE Shown(m)
  BY <1>1, <1>2, <1>5
<1>6. CASE Landing
  <2>1. \/ Kin(k)
        \/ \E j \in DOMAIN rows : rows[j].msg = rows'[k].msg
        \/ ~Hidden(rows'[k].msg)
        \/ Unreported(rows'[k].msg)
    BY <1>1, <1>6, Landed
  <2>2. CASE Kin(k)
    BY <1>4, <1>5, <2>2 DEF Kin, SameBody
  <2>3. QED
    BY <1>1, <1>3, <1>4, <1>5, <2>1, <2>2
<1>7. ASSUME DOMAIN rows' = DOMAIN rows, \A j \in DOMAIN rows : rows'[j].msg = rows[j].msg
      PROVE  Shown(m)
  BY <1>5, <1>7
<1>8. CASE Reacting
  <2>1. DOMAIN rows' = DOMAIN rows /\ \A j \in DOMAIN rows : rows'[j].msg = rows[j].msg
    BY <1>8, ReactionKeeps DEF Reacting
  <2>2. QED
    BY <1>4, <1>7, <2>1
<1>9. ASSUME UNCHANGED rows PROVE Shown(m)
  BY <1>7, <1>9
<1>10. CASE Aside
  BY <1>4, <1>9, <1>10, AsideFrame
<1>11. ASSUME NEW v \in Texts, SubmitEdit(v) PROVE Shown(m)
  <2>1. PICK n \in editing :
          rows' = IF Shown(n) THEN [rows EXCEPT ![Spot(n)] = WithEdit(@, v)] ELSE rows
    BY <1>11 DEF SubmitEdit
  <2>2. n \in Msgs /\ UNCHANGED <<log, loaded>>
    BY <1>11 DEF Shaped, ScreenShaped, SubmitEdit, store
  <2>3. DOMAIN rows' = DOMAIN rows /\ \A j \in DOMAIN rows : rows'[j].msg = rows[j].msg
    BY <2>1, <2>2, SubmitKeeps
  <2>4. QED
    BY <1>7, <2>3
<1>12. ASSUME NEW a \in Accounts, SwitchTo(a) PROVE Shown(m)
  BY <1>1, <1>12 DEF SwitchTo
<1>13. ASSUME NEW n \in Msgs, Receive(n) PROVE Shown(m)
  BY <1>9, <1>13 DEF Receive
<1>14. CASE PeerStores
  BY <1>4, <1>9, <1>14 DEF PeerStores
<1>15. ASSUME NEW o \in BagToSet(ops), Stored(o) PROVE Shown(m)
  BY <1>9, <1>15 DEF Stored
<1>16. CASE UNCHANGED vars
  BY <1>4, <1>9, <1>16 DEF vars
<1>17. QED
  BY <1>4, <1>6, <1>8, <1>10, <1>11, <1>12, <1>13, <1>14, <1>15, <1>16, Steps

(* Only hiding hides.                                                      *)
LEMMA HiddenFrame ==
  ASSUME [Next]_vars
  PROVE  \/ UNCHANGED <<hidden, echoed, account>>
         \/ \E m \in Msgs : Hide(m)
         \/ \E a \in Accounts : SwitchTo(a)
<1>1. CASE Reacting
  BY <1>1 DEF Reacting, SetReaction, store
<1>2. CASE Aside
  BY <1>2 DEF Aside, RequestEdit, Delete, Tap, CancelEdit, Select, RunDone, RunAutoload,
              Report, Completed, Read, Hand, Loaded, LoadFailed, store, history
<1>3. CASE Landing
  BY <1>3, LandingFrame
<1>4. ASSUME NEW v \in Texts, SubmitEdit(v) PROVE UNCHANGED <<hidden, echoed, account>>
  BY <1>4 DEF SubmitEdit, store
<1>5. ASSUME NEW m \in Msgs, Receive(m) PROVE UNCHANGED <<hidden, echoed, account>>
  BY <1>5 DEF Receive, history
<1>6. CASE PeerStores
  BY <1>6 DEF PeerStores, history
<1>7. ASSUME NEW o \in BagToSet(ops), Stored(o) PROVE UNCHANGED <<hidden, echoed, account>>
  BY <1>7 DEF Stored, history
<1>8. QED
  BY <1>1, <1>2, <1>3, <1>4, <1>5, <1>6, <1>7, Steps DEF vars

LEMMA HiddenKept ==
  ASSUME Shaped, Listing, HiddenGoing, [Next]_vars
  PROVE  HiddenGoing'
<1>0. hidden \in [Accounts -> SUBSET Msgs] /\ account \in Accounts /\ rows \in Seq(Row)
  BY DEF Shaped, ScreenShaped
<1> SUFFICES ASSUME NEW m \in Msgs
             PROVE  /\ Kept(m)' => IsFiled(m)' /\ ~Unreported(m)'
                    /\ Hidden(m)' /\ m \notin echoed' /\ Shown(m)' => Rebuilding'
  BY DEF HiddenGoing
<1>1. /\ Kept(m) => IsFiled(m) /\ ~Unreported(m)
      /\ Hidden(m) /\ m \notin echoed /\ Shown(m) => Rebuilding
  BY DEF HiddenGoing
<1>2. (IsFiled(m) => IsFiled(m)') /\ (Unreported(m)' => Unreported(m) \/ ~IsFiled(m))
  BY FeedSteps, UnreportedSteps
<1>3. ASSUME Kept(m)' => Kept(m) PROVE Kept(m)' => IsFiled(m)' /\ ~Unreported(m)'
  BY <1>1, <1>2, <1>3
<1>4. CASE UNCHANGED <<hidden, echoed, account>>
  <2>1. Kept(m)' => Kept(m)
    BY <1>4 DEF Kept
  <2>2. ASSUME Hidden(m)', m \notin echoed', Shown(m)' PROVE Rebuilding'
    <3>1. Hidden(m) /\ m \notin echoed
      BY <1>4, <2>2 DEF Hidden
    <3>2. Shown(m) /\ ~RunRebuild
      BY <1>4, <2>2, <3>1, ShownWas
    <3>3. QED
      BY <1>1, <3>1, <3>2, RebuildGoesOn
  <2>3. QED
    BY <1>3, <2>1, <2>2
<1>5. ASSUME NEW n \in Msgs, Hide(n)
      PROVE  /\ Kept(m)' => IsFiled(m)' /\ ~Unreported(m)'
             /\ Rebuilding'
  <2>1. /\ hidden' = [hidden EXCEPT ![account] = hidden[account] \cup {n}]
        /\ echoed' = IF Unreported(n) THEN echoed \cup {n} ELSE echoed
        /\ Ask("rebuild", n) /\ Shown(n) /\ UNCHANGED <<feed, uiq, log>>
    BY <1>5 DEF Hide
  <2>2. Rebuilding'
    <3>1. Job("rebuild", n) \in ReadJob /\ Job("rebuild", n).kind = "rebuild"
      BY JobsRead DEF Job
    <3>2. Job("rebuild", n) \in BagToSet(reads')
      BY <2>1, <3>1, Asked DEF Shaped
    <3>3. QED
      BY <3>1, <3>2 DEF Rebuilding
  <2>3. CASE m = n
    <3>1. \E k \in DOMAIN rows : rows[k].msg = n
      BY <1>0, <2>1, SpotFinds
    <3>2. IsFiled(n)
      BY <3>1 DEF Listing, RowsFiled
    <3>3. Kept(m)' => ~Unreported(n)
      BY <2>1, <2>3 DEF Kept
    <3>4. Unreported(m)' <=> Unreported(m)
      BY <2>1 DEF Unreported
    <3>5. QED
      BY <1>2, <2>2, <2>3, <3>2, <3>3, <3>4
  <2>4. CASE m # n
    <3>1. Kept(m)' => Kept(m)
      BY <1>0, <2>1, <2>4 DEF Kept
    <3>2. QED
      BY <1>3, <2>2, <3>1
  <2>5. QED
    BY <2>3, <2>4
<1>6. ASSUME NEW a \in Accounts, SwitchTo(a)
      PROVE  /\ Kept(m)' => IsFiled(m)' /\ ~Unreported(m)'
             /\ ~Shown(m)'
  <2>1. UNCHANGED <<hidden, echoed>> /\ rows' = <<>>
    BY <1>6 DEF SwitchTo, store
  <2>2. Kept(m)' => Kept(m)
    BY <2>1 DEF Kept
  <2>3. ~Shown(m)'
    <3>1. rows' \in Seq(Row)
      BY ShapedNext DEF Shaped, ScreenShaped
    <3>2. Shown(m)' => \E k \in DOMAIN rows' : rows'[k].msg = m
      BY <3>1, ShownNext
    <3>3. DOMAIN rows' = {}
      BY <2>1
    <3>4. QED
      BY <3>2, <3>3
  <2>4. QED
    BY <1>3, <2>2, <2>3
<1>7. QED
  BY <1>4, <1>5, <1>6, HiddenFrame

(* When nothing is under way, no rebuild is.                               *)
LEMMA HiddenGone ==
  ASSUME HiddenGoing
  PROVE  HiddenStays
<1> SUFFICES ASSUME Idle, NEW m \in Msgs, Hidden(m), m \notin echoed
             PROVE  ~Shown(m)
  BY DEF HiddenStays
<1>1. BagToSet(EmptyBag) = {}
  BY BagEmpty
<1>2. DOMAIN <<>> = {}
  OBVIOUS
<1>3. ~Rebuilding
  BY <1>1, <1>2 DEF Rebuilding, Idle
<1>4. QED
  BY <1>3 DEF HiddenGoing
-----------------------------------------------------------------------------
(* Together.                                                               *)

LEMMA InitMessages == Init => MessagesInv
<1> SUFFICES ASSUME Init PROVE MessagesInv
  OBVIOUS
<1>0. BagToSet(EmptyBag) = {} /\ DOMAIN <<>> = {}
  BY BagEmpty
<1>1. Shaped
  BY ShapedInit
<1>2. Listing
  <2>1. /\ log = [i \in DOMAIN Listed |-> Rec("chat", Listed[i], Author[Listed[i]], "none")]
        /\ rows = <<>>
    BY DEF Init
  <2>2. \A i \in DOMAIN log : i \in DOMAIN Listed /\ log[i].msg = Listed[i]
    BY <2>1 DEF Rec
  <2>3. \A i, j \in DOMAIN Listed : Listed[i] = Listed[j] => i = j
    BY MessagesConstantsOK DEF IsInjective
  <2>4. FiledOnce
    BY <2>2, <2>3 DEF FiledOnce
  <2>5. QED
    BY <2>1, <2>4 DEF Listing, RowsFiled, RowsDiffer, Joined
<1>3. NoEdits /\ NoDeletes
  <2>1. \A i \in DOMAIN log : log[i].kind = "chat"
    BY DEF Init, Rec
  <2>2. \A m \in Msgs : overlay.edits[m] = "none"
    BY DEF Init, NoOverlay
  <2>3. overlay.deletes = {} /\ editing = {} /\ BagToSet(ops) = {}
    BY <1>0 DEF Init, NoOverlay
  <2>4. QED
    BY <2>1, <2>2, <2>3 DEF NoEdits, NoDeletes
<1>4. Uncrossed
  BY <1>0 DEF Init, Uncrossed, Alone
<1>5. OverlayBacked
  <2>1. \A k \in SlotKinds, m \in Msgs : ~HasSlot(k, m)
    BY DEF Init, HasSlot, NoOverlay, SlotKinds
  <2>2. \A k, m : ~InFlight(k, m)
    BY <1>0 DEF Init, InFlight
  <2>3. QED
    BY <2>1, <2>2 DEF OverlayBacked, SlotKinds
<1>6. Downloads
  <2>1. \A j \in BagToSet(reads) : j.kind # "tap"
    <3>1. BagToSet(SetToBag({Job("list", "none")})) = {Job("list", "none")}
      BY DEF BagToSet, SetToBag
    <3>2. BagToSet(reads) = {Job("list", "none")} /\ Job("list", "none").kind = "list"
      BY <3>1 DEF Init, Job
    <3>3. QED
      BY <3>2
  <2>2. BagToSet(held) = {} /\ BagToSet(loads) = {} /\ uiq = <<>>
    BY <1>0 DEF Init
  <2>3. QED
    BY <1>0, <2>1, <2>2 DEF Downloads, LoadOnce, OneTap, LoadsOf, TapsOf, Tapping
<1>7. HiddenGoing
  <2>1. hidden = [a \in Accounts |-> {}] /\ account \in Accounts
    BY <1>1 DEF Init, Shaped, ScreenShaped
  <2>2. \A a \in Accounts : hidden[a] = {}
    BY <2>1
  <2>3. \A m \in Msgs : ~Kept(m) /\ ~Hidden(m)
    BY <2>1, <2>2 DEF Kept, Hidden
  <2>4. QED
    BY <2>3 DEF HiddenGoing
<1>8. OptimisticShown /\ AuthorsOnly
  <2>1. DOMAIN rows = {}
    BY <1>0 DEF Init
  <2>2. QED
    BY <2>1 DEF OptimisticShown, AuthorsOnly
<1>9. QED
  BY <1>1, <1>2, <1>3, <1>4, <1>5, <1>6, <1>7, <1>8 DEF MessagesInv

LEMMA MessagesStep ==
  ASSUME MessagesInv, [Next]_vars
  PROVE  MessagesInv'
<1>1. Shaped'
  BY ShapedNext DEF MessagesInv
<1>2. Listing' /\ NoEdits' /\ NoDeletes'
  BY ListingKept, NoEditsKept, NoDeletesKept DEF MessagesInv
<1>3. Uncrossed' /\ OverlayBacked'
  BY OverlayKept DEF MessagesInv
<1>4. Downloads' /\ HiddenGoing'
  BY DownloadsKept, HiddenKept DEF MessagesInv
<1>5. OptimisticShown' /\ AuthorsOnly'
  BY OptimisticKept, AuthorsKept DEF MessagesInv
<1>6. QED
  BY <1>1, <1>2, <1>3, <1>4, <1>5 DEF MessagesInv

(* The inductive invariant holds of every behaviour of the chat: whatever  *)
(* snapshots, watcher callbacks and completions land, in whatever order.   *)
THEOREM MessagesInvHolds == Spec => []MessagesInv
<1>1. Init => MessagesInv
  BY InitMessages
<1>2. MessagesInv /\ [Next]_vars => MessagesInv'
  BY MessagesStep
<1>3. QED
  BY <1>1, <1>2, PTL DEF Spec

(* An optimistic reaction, edit or deletion is in the overlay exactly as   *)
(* long as its task or its completion is under way, unless two operations  *)
(* of a kind on the message overlapped or the account was switched         *)
(* (react_op, edit_op, on_request_delete_everyone).                        *)
THEOREM OverlayIsBacked == Spec => []OverlayBacked
<1>1. MessagesInv => OverlayBacked
  BY DEF MessagesInv
<1>2. QED
  BY <1>1, MessagesInvHolds, PTL

(* What the user has just done to a message stays on its row while it is   *)
(* in flight, whatever older snapshot of the row lands meanwhile           *)
(* (apply_edit_overlay, apply_reaction_overlay).                           *)
THEOREM OptimisticStays == Spec => []OptimisticShown
<1>1. MessagesInv => OptimisticShown
  BY DEF MessagesInv
<1>2. QED
  BY <1>1, MessagesInvHolds, PTL

(* Nobody but its author rewrites or retracts a message of the user's      *)
(* (aggregate_edits, aggregate_deletes).                                   *)
THEOREM AuthorsAlone == Spec => []AuthorsOnly
<1>1. MessagesInv => AuthorsOnly
  BY DEF MessagesInv
<1>2. QED
  BY <1>1, MessagesInvHolds, PTL

(* The rows fall into groups that begin where the one before has ended,    *)
(* through refreshes in place and appended messages                        *)
(* (preserve_grouping_flags, push_message_grouped).                        *)
THEOREM GroupsStayJoined == Spec => []GroupsJoin
<1>1. MessagesInv => GroupsJoin
  BY GroupsJoined DEF MessagesInv, Listing
<1>2. QED
  BY <1>1, MessagesInvHolds, PTL

(* An attachment of an album, an image or a file is loaded once at a time, *)
(* with its key in the list of those in flight                             *)
(* (attachment_in_flight, autoload_album_cells).                           *)
THEOREM LoadedOnce == Spec => []OneDownload
<1>1. MessagesInv => OneDownload
  BY DownloadsOne DEF MessagesInv
<1>2. QED
  BY <1>1, MessagesInvHolds, PTL

(* A message deleted for the account alone is not shown to it once things  *)
(* have settled, unless its arrival was still to be reported when it was   *)
(* hidden (on_request_delete_me, is_visible_chat_message).                 *)
THEOREM HiddenStayHidden == Spec => []HiddenStays
<1>1. MessagesInv => HiddenStays
  BY HiddenGone DEF MessagesInv
<1>2. QED
  BY <1>1, MessagesInvHolds, PTL
-----------------------------------------------------------------------------
(* Settling: what is built once nothing is under way. A snapshot and what  *)
(* it holds.                                                               *)

(* The record of a message, while a snapshot of every record shows it;     *)
(* what else is filed about a message.                                     *)
FiledAt(m, p) == p \in DOMAIN log /\ log[p].kind = "chat" /\ log[p].msg = m
Current(m, p) == FiledAt(m, p) /\ p > Len(log) - Window
About(q, m)   == q \in DOMAIN log /\ log[q].kind # "chat" /\ log[q].msg = m
RecordsLater  == \A q \in DOMAIN log, m \in Msgs :
                   About(q, m) => \E p \in DOMAIN log : p < q /\ FiledAt(m, p)
SameText(r, s) == /\ (r.dead <=> s.dead) /\ r.text = s.text
                  /\ r.count = s.count /\ r.chips = s.chips

LEMMA WindowIs == Window \in Nat /\ Window > 0
BY MessagesConstantsOK

LEMMA InSnapIs ==
  ASSUME Shaped, FiledOnce, NEW n \in Nat, n <= Len(log), NEW m, NEW p, Current(m, p)
  PROVE  InSnap(n, m) <=> p <= n
<1>1. /\ p \in Nat /\ p >= 1 /\ Len(log) \in Nat /\ p > Len(log) - Window
      /\ log[p].kind = "chat" /\ log[p].msg = m /\ p \in DOMAIN log
  BY DEF Current, FiledAt, Shaped, ScreenShaped
<1>2. ASSUME p <= n PROVE InSnap(n, m)
  <2>1. p \in Within(n)
    BY <1>1, <1>2, WindowIs DEF Within
  <2>2. QED
    BY <1>1, <2>1 DEF InSnap
<1>3. ASSUME InSnap(n, m) PROVE p <= n
  <2>1. PICK i \in Within(n) : log[i].kind = "chat" /\ log[i].msg = m
    BY <1>3 DEF InSnap
  <2>2. i \in DOMAIN log /\ i <= n
    BY WithinLog
  <2>3. i = p
    BY <1>1, <2>1, <2>2 DEF FiledOnce
  <2>4. QED
    BY <2>2, <2>3
<1>4. QED
  BY <1>2, <1>3

LEMMA ShownCurrent ==
  ASSUME Shaped, NEW m, InSnap(Len(log), m)
  PROVE  \E p \in DOMAIN log : Current(m, p)
<1>1. Len(log) \in Nat
  BY DEF Shaped, ScreenShaped
<1>2. PICK i \in Within(Len(log)) : log[i].kind = "chat" /\ log[i].msg = m
  BY DEF InSnap
<1>3. i \in DOMAIN log /\ i > Len(log) - Window
  BY <1>1, WithinLog DEF Within
<1>4. QED
  BY <1>2, <1>3 DEF Current, FiledAt

(* Ranks tell positions apart, so every visible message has its row.       *)
LEMMA RankDiffers ==
  ASSUME NEW n \in Nat, NEW I, I \subseteq 1 .. n, NEW i \in I, NEW j \in I, i < j
  PROVE  Rank(I, i) < Rank(I, j)
<1> DEFINE A == {x \in I : x <= i}
           B == {x \in I : x <= j}
<1>1. \A x \in I : x \in Nat
  OBVIOUS
<1>2. A \cup {j} \subseteq B /\ j \notin A
  <2>1. \A x \in I : x \in Nat /\ (x <= i => x <= j)
    BY <1>1
  <2>2. i \in Nat /\ j \in Nat /\ ~(j <= i) /\ j <= j
    BY <1>1
  <2>3. QED
    BY <2>1, <2>2, Zenon
<1>3. /\ IsFiniteSet(A) /\ Cardinality(A) \in Nat
      /\ IsFiniteSet(B) /\ Cardinality(B) \in Nat
  <2>1. A \subseteq 1 .. n /\ B \subseteq 1 .. n
    OBVIOUS
  <2>2. QED
    BY <2>1, FiniteWithin
<1>4. Cardinality(A \cup {j}) = Cardinality(A) + 1
  <2> HIDE DEF A
  <2>1. QED
    BY <1>2, <1>3, FS_AddElement
<1>5. Cardinality(A \cup {j}) <= Cardinality(B)
  <2> HIDE DEF A, B
  <2>1. QED
    BY <1>2, <1>3, FS_Subset
<1>6. QED
  BY <1>3, <1>4, <1>5 DEF Rank

LEMMA RebuiltHas ==
  ASSUME Shaped, NEW n \in Nat, n <= Len(log), NEW i \in Within(n), Visible(log[i])
  PROVE  \E k \in DOMAIN Rebuilt(n) : Rebuilt(n)[k].msg = log[i].msg
<1> DEFINE I == Seats(n)
<1>1. i \in I /\ I \subseteq 1 .. n /\ I \subseteq DOMAIN log /\ log \in Seq(Filed)
  BY WithinLog DEF Seats, Shaped, ScreenShaped
<1>2. /\ IsFiniteSet(I) /\ Cardinality(I) \in Nat
      /\ Len(Picked(log, I)) = Cardinality(I) /\ Picked(log, I) \in Seq(Filed)
  <2> HIDE DEF I
  <2>1. QED
    BY <1>1, PickedAt
<1>3. Rank(I, i) \in 1 .. Cardinality(I)
  <2> DEFINE A == {x \in I : x <= i}
  <2>1. i \in A /\ A \subseteq I
    BY <1>1
  <2>2. /\ IsFiniteSet(A) /\ Cardinality(A) \in Nat /\ Cardinality(A) <= Cardinality(I)
    <3> HIDE DEF A, I
    <3>1. IsFiniteSet(A)
      BY <1>2, <2>1, FS_Subset
    <3>2. QED
      BY <1>2, <2>1, <3>1, FS_Subset, FS_CardinalityType
  <2>3. Cardinality(A) # 0
    <3> HIDE DEF A
    <3>1. QED
      BY <2>1, <2>2, FS_EmptySet
  <2>4. QED
    BY <1>2, <2>2, <2>3 DEF Rank
<1>4. DOMAIN Rebuilt(n) = 1 .. Cardinality(I)
  <2>1. DOMAIN Rebuilt(n) = DOMAIN Picked(log, I)
    BY DEF Rebuilt, Seats
  <2>2. QED
    BY <1>2, <2>1
<1>5. PICK k : k = Rank(I, i)
  OBVIOUS
<1>6. k \in DOMAIN Rebuilt(n)
  BY <1>3, <1>4, <1>5
<1>7. PICK j \in Within(n) : /\ Rank(I, j) = k /\ log[j].kind = "chat"
                             /\ log[j].msg = Rebuilt(n)[k].msg /\ ~Hidden(log[j].msg)
  BY <1>6, RebuiltShape
<1>8. j \in I
  BY <1>7 DEF Seats, Visible
<1>9. j = i
  <2> HIDE DEF I
  <2>1. i \in Nat /\ j \in Nat /\ Rank(I, i) = Rank(I, j)
    BY <1>1, <1>5, <1>7, <1>8
  <2>2. i \in I /\ j \in I /\ I \subseteq 1 .. n
    BY <1>1, <1>8
  <2>3. ~(i < j)
    <3>1. ASSUME i < j PROVE Rank(I, i) < Rank(I, j)
      BY <2>2, <3>1, RankDiffers
    <3>2. ASSUME Rank(I, i) < Rank(I, j) PROVE FALSE
      <4>1. Rank(I, i) \in Nat
        BY <1>1, <1>3
      <4>2. QED
        BY <2>1, <3>2, <4>1
    <3>3. QED
      BY <3>1, <3>2
  <2>4. ~(j < i)
    <3>1. ASSUME j < i PROVE Rank(I, j) < Rank(I, i)
      BY <2>2, <3>1, RankDiffers
    <3>2. ASSUME Rank(I, j) < Rank(I, i) PROVE FALSE
      <4>1. Rank(I, i) \in Nat
        BY <1>1, <1>3
      <4>2. QED
        BY <2>1, <3>2, <4>1
    <3>3. QED
      BY <3>1, <3>2
  <2>5. QED
    BY <2>1, <2>3, <2>4
<1>10. QED
  BY <1>6, <1>7, <1>9
-----------------------------------------------------------------------------
(* The row a snapshot makes, which is the same from any two that have seen *)
(* all of a message.                                                       *)

(* What a message is built of, whether it is a tombstone or not.           *)
LEMMA BuildText ==
  ASSUME Shaped, NEW n \in Nat, n <= Len(log), NEW m \in Msgs
  PROVE  /\ Build(n, m).dead <=> Tombstone(n, m)
         /\ Build(n, m).text = IF Tombstone(n, m) THEN "none" ELSE Text(n, m)
         /\ Build(n, m).count = IF Tombstone(n, m) THEN 0 ELSE Count(n, m)
         /\ Build(n, m).chips =
              IF Tombstone(n, m) THEN NoChips
              ELSE WithReaction(Chips(n, m), overlay.reactions[m])
         /\ Build(n, m).cells = Cells(m)
<1> DEFINE row == [msg |-> m, dead |-> FALSE, text |-> Text(n, m), count |-> Count(n, m),
                   chips |-> WithReaction(Chips(n, m), overlay.reactions[m]),
                   cells |-> Cells(m), first |-> TRUE, last |-> TRUE]
<1>1. Build(n, m) = IF Tombstone(n, m) THEN AsTombstone(row) ELSE row
  BY DEF Build
<1>2. /\ row.text = Text(n, m) /\ row.count = Count(n, m) /\ ~row.dead
      /\ row.chips = WithReaction(Chips(n, m), overlay.reactions[m])
      /\ row.cells = Cells(m)
  OBVIOUS
<1>3. /\ AsTombstone(row).dead = TRUE /\ AsTombstone(row).text = "none"
      /\ AsTombstone(row).count = 0 /\ AsTombstone(row).chips = NoChips
      /\ AsTombstone(row).cells = Cells(m)
  BY DEF AsTombstone
<1> HIDE DEF row
<1>4. QED
  BY <1>1, <1>2, <1>3

(* What is filed about a message decides how it is built.                  *)
LEMMA NewestIn ==
  ASSUME Shaped, NEW n \in Nat, n <= Len(log), NEW m
  PROVE  Edits(n, m) # {} => Newest(Edits(n, m)) \in Edits(n, m)
<1>1. Edits(n, m) \subseteq 0 .. n
  BY WithinLog DEF Edits
<1>2. Edits(n, m) # {} => \E x \in Edits(n, m) : \A y \in Edits(n, m) : y <= x
  BY <1>1, GreatestOf
<1>3. QED
  BY <1>2 DEF Newest

(* A snapshot that has seen everything about a message shows it as the     *)
(* whole log does.                                                         *)
LEMMA BuildSame ==
  ASSUME Shaped, FiledOnce, RecordsLater, NEW n \in Nat, n <= Len(log), NEW m \in Msgs, NEW p,
         Current(m, p), p <= n, \A q \in DOMAIN log : About(q, m) => q <= n
  PROVE  SameText(Build(n, m), Build(Len(log), m))
<1> DEFINE N == Len(log)
<1>0. /\ N \in Nat /\ N <= N /\ p \in DOMAIN log /\ p \in Nat /\ p > N - Window
      /\ DOMAIN log = 1 .. N /\ log[p].kind = "chat" /\ log[p].msg = m
  BY DEF Shaped, ScreenShaped, Current, FiledAt
<1>1. ASSUME NEW q, About(q, m)
      PROVE  q \in Within(n) /\ q \in Within(N) /\ q <= n
  <2>1. q \in DOMAIN log /\ q <= n
    BY <1>1 DEF About
  <2>2. PICK r \in DOMAIN log : r < q /\ FiledAt(m, r)
    BY <1>1, <2>1 DEF RecordsLater
  <2>3. r = p
    BY <1>0, <2>2 DEF FiledOnce, FiledAt
  <2>4. q \in Nat /\ q > p /\ q >= 1
    BY <1>0, <2>1, <2>2, <2>3
  <2>5. QED
    BY <1>0, <2>1, <2>4, WindowIs DEF Within
<1>2. Edits(n, m) = Edits(N, m)
  <2>1. \A i \in Within(n) \cup Within(N) : ByAuthor(log[i], "edit", m) => About(i, m)
    BY <1>0, WithinLog DEF ByAuthor, About
  <2>2. QED
    BY <1>1, <2>1 DEF Edits
<1>3. Deleted(n, m) <=> Deleted(N, m)
  <2>1. \A i \in Within(n) \cup Within(N) : ByAuthor(log[i], "delete", m) => About(i, m)
    BY <1>0, WithinLog DEF ByAuthor, About
  <2>2. QED
    BY <1>1, <2>1 DEF Deleted
<1>4. ASSUME NEW e \in Emojis PROVE Reactions(n, m, e) = Reactions(N, m, e)
  <2>1. \A i \in Within(n) \cup Within(N) :
          log[i].kind = "react" /\ log[i].msg = m => About(i, m)
    BY <1>0, WithinLog DEF About
  <2>2. \A i \in Within(n) : i \in Nat
    BY DEF Within
  <2>3. ASSUME NEW i \in Within(n) \cup Within(N), NEW j \in i .. N, i \in Nat,
               Rec("unreact", m, log[i].by, "none") = log[j]
        PROVE  j <= n
    <3>1. j \in DOMAIN log
      <4>1. i >= 1
        BY <1>0, <2>3 DEF Within
      <4>2. QED
        BY <1>0, <2>3, <4>1
    <3>2. log[j].kind = "unreact" /\ log[j].msg = m
      BY <2>3 DEF Rec
    <3>3. About(j, m)
      BY <3>1, <3>2 DEF About
    <3>4. QED
      BY <1>1, <3>3
  <2>4. ASSUME NEW i \in Within(n) \cap Within(N)
        PROVE  (\A j \in i .. n : Rec("unreact", m, log[i].by, "none") # log[j])
               <=> (\A j \in i .. N : Rec("unreact", m, log[i].by, "none") # log[j])
    <3>1. i \in Nat /\ i .. n \subseteq i .. N
      BY <1>0, <2>2
    <3>2. ASSUME NEW j \in i .. N, Rec("unreact", m, log[i].by, "none") = log[j]
          PROVE  j \in i .. n
      BY <1>0, <2>3, <3>1, <3>2
    <3>3. QED
      BY <3>1, <3>2
  <2>5. QED
    BY <1>1, <2>1, <2>4 DEF Reactions
<1>5. Chips(n, m) = Chips(N, m)
  BY <1>4 DEF Chips
<1>6. /\ Tombstone(n, m) <=> Tombstone(N, m)
      /\ Text(n, m) = Text(N, m) /\ Count(n, m) = Count(N, m)
  BY <1>2, <1>3 DEF Tombstone, Text, Count
<1>7. QED
  <2>1. /\ Build(n, m).dead <=> Tombstone(n, m)
        /\ Build(n, m).text = IF Tombstone(n, m) THEN "none" ELSE Text(n, m)
        /\ Build(n, m).count = IF Tombstone(n, m) THEN 0 ELSE Count(n, m)
        /\ Build(n, m).chips = IF Tombstone(n, m) THEN NoChips
                               ELSE WithReaction(Chips(n, m), overlay.reactions[m])
    BY BuildText
  <2>2. /\ Build(N, m).dead <=> Tombstone(N, m)
        /\ Build(N, m).text = IF Tombstone(N, m) THEN "none" ELSE Text(N, m)
        /\ Build(N, m).count = IF Tombstone(N, m) THEN 0 ELSE Count(N, m)
        /\ Build(N, m).chips = IF Tombstone(N, m) THEN NoChips
                               ELSE WithReaction(Chips(N, m), overlay.reactions[m])
    <3> HIDE DEF N
    <3>1. N <= Len(log)
      BY <1>0 DEF N
    <3>2. QED
      BY <1>0, <3>1, BuildText
  <2> HIDE DEF N
  <2>3. QED
    BY <1>5, <1>6, <2>1, <2>2 DEF SameText, N

(* As long as the log only grows and the user does nothing to the message, *)
(* an old snapshot of it stays what it was.                                *)
LEMMA BuildSteady ==
  ASSUME Shaped, Shaped', NEW n \in Nat, n <= Len(log), NEW m \in Msgs,
         n <= Len(log'), \A i \in 1 .. n : log'[i] = log[i], UNCHANGED account,
         overlay'.reactions[m] = overlay.reactions[m],
         overlay'.edits[m] = overlay.edits[m],
         m \in overlay'.deletes <=> m \in overlay.deletes
  PROVE  SameText(Build(n, m), Build(n, m)')
<1>0. Within(n)' = Within(n) /\ Within(n) \subseteq 1 .. n
  BY DEF Within
<1>1. Edits(n, m)' = Edits(n, m)
  BY <1>0 DEF Edits, ByAuthor
<1>2. Deleted(n, m)' <=> Deleted(n, m)
  BY <1>0 DEF Deleted, ByAuthor
<1>3. ASSUME NEW e \in Emojis PROVE Reactions(n, m, e)' = Reactions(n, m, e)
  <2>1. \A i \in Within(n) : \A j \in i .. n : j \in 1 .. n
    BY <1>0
  <2>2. ASSUME NEW i \in Within(n)
        PROVE  (\A j \in i .. n : Rec("unreact", m, log[i].by, "none") # log[j])
               <=> (\A j \in i .. n : Rec("unreact", m, log'[i].by, "none") # log'[j])
    BY <1>0, <2>1
  <2>3. QED
    BY <1>0, <2>2 DEF Reactions, Rec
<1>4. Chips(n, m)' = Chips(n, m)
  <2>1. \A e \in Emojis : \A i \in Reactions(n, m, e) : log'[i] = log[i]
    BY <1>0 DEF Reactions
  <2>2. ASSUME NEW e \in Emojis
        PROVE  (\E i \in Reactions(n, m, e)' : log'[i].by = account')
               <=> (\E i \in Reactions(n, m, e) : log[i].by = account)
    BY <1>3, <2>1
  <2>3. ASSUME NEW e \in Emojis
        PROVE  Cardinality(Reactions(n, m, e)') = Cardinality(Reactions(n, m, e))
    BY <1>3
  <2>4. QED
    BY <2>2, <2>3 DEF Chips
<1>5. Text(n, m)' = Text(n, m)
  <2>1. Edits(n, m) # {} => log'[Newest(Edits(n, m))] = log[Newest(Edits(n, m))]
    <3>1. Edits(n, m) \subseteq 1 .. n
      BY <1>0 DEF Edits
    <3>2. QED
      BY <3>1, NewestIn
  <2>2. Newest(Edits(n, m)') = Newest(Edits(n, m))
    BY <1>1
  <2>3. QED
    BY <1>1, <2>1, <2>2 DEF Text, Rewritten
<1>6. Count(n, m)' = Count(n, m)
  BY <1>1 DEF Count, Rewritten
<1>7. Tombstone(n, m)' <=> Tombstone(n, m)
  BY <1>2 DEF Tombstone
<1>8. /\ Build(n, m).dead <=> Tombstone(n, m)
      /\ Build(n, m).text = IF Tombstone(n, m) THEN "none" ELSE Text(n, m)
      /\ Build(n, m).count = IF Tombstone(n, m) THEN 0 ELSE Count(n, m)
      /\ Build(n, m).chips = IF Tombstone(n, m) THEN NoChips
                             ELSE WithReaction(Chips(n, m), overlay.reactions[m])
  BY BuildText
<1>9. ( /\ Build(n, m).dead <=> Tombstone(n, m)
        /\ Build(n, m).text = IF Tombstone(n, m) THEN "none" ELSE Text(n, m)
        /\ Build(n, m).count = IF Tombstone(n, m) THEN 0 ELSE Count(n, m)
        /\ Build(n, m).chips = IF Tombstone(n, m) THEN NoChips
                               ELSE WithReaction(Chips(n, m), overlay.reactions[m]) )'
  <2>1. (Shaped /\ n <= Len(log))'
    OBVIOUS
  <2>2. QED
    BY <2>1, BuildText, PTL
<1>10. QED
  BY <1>4, <1>5, <1>6, <1>7, <1>8, <1>9 DEF SameText
-----------------------------------------------------------------------------
(* Reports, jobs, snapshots and tasks stay until they run.                 *)

(* A row that is to be read again: by a task, once its operation is done,  *)
(* or by a refresh under way, from a snapshot that has seen the record at  *)
(* position q.                                                             *)
Is(x, k, m)  == x.kind = k /\ x.msg = m
DoneOn(m)    == \E i \in DOMAIN uiq : uiq[i].kind = "done" /\ uiq[i].op.msg = m
Operating(m) == (\E o \in BagToSet(ops) : o.msg = m) \/ DoneOn(m)
Repaint(m, q) ==
  \/ \E j \in BagToSet(reads) : Is(j, "refresh", m)
  \/ \E h \in BagToSet(held) : Is(h, "refresh", m) /\ h.n >= q
  \/ \E i \in DOMAIN uiq : Is(uiq[i], "refresh", m) /\ uiq[i].n >= q
Refreshing(m, q) == Operating(m) \/ Repaint(m, q)

(* What becomes of a closure, a job, a snapshot or a task in a step.       *)
LEMMA QueueKeeps ==
  ASSUME Shaped, [Next]_vars, NEW i \in DOMAIN uiq
  PROVE  \/ \E j \in DOMAIN uiq' : uiq'[j] = uiq[i]
         \/ Runs /\ uiq[i] = Head(uiq)
<1>0. uiq \in Seq(Posted)
  BY DEF Shaped, TasksShaped
<1>1. CASE UNCHANGED uiq
  BY <1>1
<1>2. ASSUME NEW c \in Posted, Post(c)
      PROVE  \E j \in DOMAIN uiq' : uiq'[j] = uiq[i]
  BY <1>0, <1>2, UiqPosted
<1>3. ASSUME uiq # <<>>, NEW more \in Seq(Autoload), Take(more), Runs
      PROVE  \/ \E j \in DOMAIN uiq' : uiq'[j] = uiq[i]
             \/ Runs /\ uiq[i] = Head(uiq)
  <2>1. CASE i = 1
    BY <1>3, <2>1, HeadTyped
  <2>2. CASE i # 1
    BY <1>0, <1>3, <2>2, UiqTaken
  <2>3. QED
    BY <2>1, <2>2
<1>4. QED
  BY <1>1, <1>2, <1>3, QueueSteps

LEMMA JobKeeps ==
  ASSUME Shaped, [Next]_vars, NEW j \in BagToSet(reads)
  PROVE  j \in BagToSet(reads') \/ Reading(j) \in BagToSet(held')
<1>1. ASSUME NEW k, NEW n, Job(k, n) \in ReadJob, Ask(k, n)
      PROVE  j \in BagToSet(reads')
  BY <1>1, Asked DEF Shaped
<1>2. ASSUME NEW x \in BagToSet(reads), Read(x)
      PROVE  j \in BagToSet(reads') \/ Reading(j) \in BagToSet(held')
  <2>1. /\ BagToSet(reads) \ {x} \subseteq BagToSet(reads')
        /\ BagToSet(held') = BagToSet(held) \cup {Reading(x)}
    BY <1>2, ReadShape, BagTake DEF Read, Shaped, TasksShaped
  <2>2. QED
    BY <2>1
<1>3. CASE TapsAside
  BY <1>1, <1>3 DEF TapsAside
<1>4. CASE RunAutoload \/ RunTap
  BY <1>4 DEF RunAutoload, RunTap, tasks
<1>5. ASSUME NEW m \in Msgs, Tap(m) PROVE j \in BagToSet(reads')
  BY <1>1, <1>5, JobsRead DEF Tap
<1>6. ASSUME NEW h \in BagToSet(held), Hand(h) PROVE j \in BagToSet(reads')
  BY <1>6 DEF Hand
<1>7. ASSUME NEW l \in BagToSet(loads), Loaded(l) \/ LoadFailed(l)
      PROVE  j \in BagToSet(reads')
  <2>1. Job("refresh", l.msg) \in ReadJob
    BY LoadTyped, JobsRead
  <2>2. UNCHANGED reads \/ Ask("refresh", l.msg)
    BY <1>7 DEF Loaded, LoadFailed
  <2>3. QED
    BY <1>1, <2>1, <2>2
<1>8. QED
  BY <1>2, <1>3, <1>4, <1>5, <1>6, <1>7, TapSteps

LEMMA HeldKeeps ==
  ASSUME Shaped, [Next]_vars, NEW h \in BagToSet(held)
  PROVE  \/ h \in BagToSet(held')
         \/ \E i \in DOMAIN uiq' : uiq'[i] = h
         \/ Hand(h) /\ h.kind = "tap" /\ ~InSnap(h.n, h.msg)
<1>1. ASSUME NEW x \in BagToSet(reads), Read(x) PROVE h \in BagToSet(held')
  BY <1>1, ReadShape
<1>2. ASSUME NEW x \in BagToSet(held), Hand(x)
      PROVE  \/ h \in BagToSet(held')
             \/ \E i \in DOMAIN uiq' : uiq'[i] = h
             \/ Hand(h) /\ h.kind = "tap" /\ ~InSnap(h.n, h.msg)
  <2>1. BagToSet(held) \ {x} \subseteq BagToSet(held')
    BY <1>2, BagTake DEF Hand, Shaped, TasksShaped
  <2>2. CASE h # x
    BY <2>1, <2>2
  <2>3. CASE h = x
    <3>1. (h.kind = "tap" /\ ~InSnap(h.n, h.msg)) \/ Post(h)
      BY <1>2, <2>3 DEF Hand
    <3>2. ASSUME Post(h) PROVE \E i \in DOMAIN uiq' : uiq'[i] = h
      <4>1. uiq \in Seq(Posted) /\ h \in Posted
        BY HeldTyped DEF Shaped, TasksShaped
      <4>2. DOMAIN uiq' = 1 .. Len(uiq) + 1 /\ uiq'[Len(uiq) + 1] = h
        BY <3>2, <4>1, UiqPosted
      <4>3. Len(uiq) + 1 \in DOMAIN uiq'
        BY <4>1, <4>2
      <4>4. QED
        BY <4>2, <4>3
    <3>3. QED
      BY <1>2, <2>3, <3>1, <3>2
  <2>4. QED
    BY <2>2, <2>3
<1>3. CASE UNCHANGED held
  BY <1>3
<1>4. CASE TapsAside \/ RunAutoload \/ RunTap
  BY <1>3, <1>4 DEF TapsAside, RunAutoload, RunTap, tasks
<1>5. ASSUME NEW m \in Msgs, Tap(m) PROVE UNCHANGED held
  BY <1>5 DEF Tap
<1>6. ASSUME NEW l \in BagToSet(loads), Loaded(l) \/ LoadFailed(l) PROVE UNCHANGED held
  BY <1>6 DEF Loaded, LoadFailed
<1>7. QED
  BY <1>1, <1>2, <1>3, <1>4, <1>5, <1>6, TapSteps

(* The tasks that publish: started, storing, or handing over.              *)
LEMMA OpsSteps ==
  ASSUME Shaped, [Next]_vars
  PROVE  \/ UNCHANGED ops
         \/ \E o \in BagToSet(ops) : Stored(o) \/ Completed(o)
         \/ \E k \in {"react", "unreact", "edit", "delete"}, m \in Msgs :
            \E v \in Texts \cup Emojis \cup {"none"} :
              /\ Publish(k, m, v) /\ UNCHANGED <<log, uiq>>
              /\ k = "edit" => v \in Texts
              /\ \/ Shown(m)
                 \/ m \in editing
<1>1. CASE Reacting
  <2>1. PICK k \in {"react", "unreact"}, m \in Msgs, op \in Emojis \cup {"remove"} :
          (k = "react" => op \in Emojis) /\ SetReaction(k, m, op)
    BY <1>1 DEF Reacting
  <2>2. PICK v \in Texts \cup Emojis \cup {"none"} : v = IF k = "react" THEN op ELSE "none"
    BY <2>1
  <2>3. /\ Publish(k, m, v) /\ UNCHANGED <<log, uiq>> /\ Shown(m) /\ k # "edit"
    BY <2>1, <2>2 DEF SetReaction, Alive, store
  <2>4. QED
    BY <2>3
<1>2. ASSUME NEW m \in Msgs, Delete(m)
      PROVE  Publish("delete", m, "none") /\ UNCHANGED <<log, uiq>> /\ Shown(m)
  BY <1>2 DEF Delete, Alive, store
<1>3. ASSUME NEW v \in Texts, SubmitEdit(v)
      PROVE  \E m \in Msgs : Publish("edit", m, v) /\ UNCHANGED <<log, uiq>> /\ m \in editing
  BY <1>3 DEF SubmitEdit, store, Shaped, ScreenShaped
<1>4. CASE Unpublished
  BY <1>4, UnpublishedFrame
<1>5. CASE RunDone
  BY <1>5 DEF RunDone
<1>6. CASE Aside
  BY <1>2, <1>4, <1>5, <1>6, AsideParts
<1>7. CASE Landing
  BY <1>7, LandingFrame
<1>8. ASSUME NEW a \in Accounts, SwitchTo(a) PROVE UNCHANGED ops
  BY <1>8 DEF SwitchTo
<1>9. ASSUME NEW m \in Msgs, Receive(m) PROVE UNCHANGED ops
  BY <1>9 DEF Receive, tasks
<1>10. CASE PeerStores
  BY <1>10 DEF PeerStores, tasks
<1>11. QED
  BY <1>1, <1>3, <1>6, <1>7, <1>8, <1>9, <1>10, Steps DEF vars

LEMMA OpKeeps ==
  ASSUME Shaped, [Next]_vars, NEW o \in BagToSet(ops)
  PROVE  \/ \E p \in BagToSet(ops') : p.msg = o.msg
         \/ \E i \in DOMAIN uiq' : uiq'[i].kind = "done" /\ uiq'[i].op = o
<1>1. CASE UNCHANGED ops
  BY <1>1
<1>2. ASSUME NEW x \in BagToSet(ops), Stored(x)
      PROVE  \E p \in BagToSet(ops') : p.msg = o.msg
  <2>1. /\ [x EXCEPT !.stored = TRUE] \in BagToSet(ops')
        /\ BagToSet(ops) \ {x} \subseteq BagToSet(ops')
    BY <1>2, StoredOps
  <2>2. x \in Operation
    BY OpTyped
  <2>3. [x EXCEPT !.stored = TRUE].msg = x.msg
    BY <2>2 DEF Operation
  <2>4. QED
    BY <2>1, <2>3
<1>3. ASSUME NEW x \in BagToSet(ops), Completed(x)
      PROVE  \/ \E p \in BagToSet(ops') : p.msg = o.msg
             \/ \E i \in DOMAIN uiq' : uiq'[i].kind = "done" /\ uiq'[i].op = o
  <2>1. BagToSet(ops) \ {x} \subseteq BagToSet(ops')
    BY <1>3, CompletedOps
  <2>2. PICK c : c = [kind |-> "done", op |-> x]
    OBVIOUS
  <2>3. c.kind = "done" /\ c.op = x /\ c \in Posted /\ Post(c)
    BY <1>3, <2>2, OpTyped DEF Completed, Posted, Done
  <2>4. uiq \in Seq(Posted)
    BY DEF Shaped, TasksShaped
  <2>5. DOMAIN uiq' = 1 .. Len(uiq) + 1 /\ uiq'[Len(uiq) + 1] = c
    BY <2>3, <2>4, UiqPosted
  <2>6. Len(uiq) + 1 \in DOMAIN uiq'
    BY <2>4, <2>5
  <2>7. QED
    BY <2>1, <2>3, <2>5, <2>6
<1>4. ASSUME NEW k \in {"react", "unreact", "edit", "delete"}, NEW m \in Msgs,
             NEW v \in Texts \cup Emojis \cup {"none"},
             Publish(k, m, v), k = "edit" => v \in Texts
      PROVE  o \in BagToSet(ops')
  BY <1>4, Published DEF Shaped
<1>5. QED
  BY <1>1, <1>2, <1>3, <1>4, OpsSteps

(* A refresh under way goes on until one lands.                            *)
Lands(m, q) == RunRefresh /\ Head(uiq).msg = m /\ Head(uiq).n >= q
LEMMA RepaintGoes ==
  ASSUME Shaped, [Next]_vars, NEW m, NEW q \in DOMAIN log, Repaint(m, q)
  PROVE  Repaint(m, q)' \/ Lands(m, q)
<1>0. Len(log) \in Nat /\ q \in Nat /\ q <= Len(log)
  BY DEF Shaped, ScreenShaped
<1>1. Repaint(m, q)' <=> \/ \E j \in BagToSet(reads') : Is(j, "refresh", m)
                         \/ \E h \in BagToSet(held') : Is(h, "refresh", m) /\ h.n >= q
                         \/ \E i \in DOMAIN uiq' : Is(uiq'[i], "refresh", m) /\ uiq'[i].n >= q
  BY DEF Repaint, Is
<1>2. ASSUME NEW j \in BagToSet(reads), Is(j, "refresh", m) PROVE Repaint(m, q)'
  <2>1. Is(Reading(j), "refresh", m) /\ Reading(j).n >= q
    BY <1>0, <1>2 DEF Reading, Is
  <2>2. QED
    BY <1>1, <1>2, <2>1, JobKeeps
<1>3. ASSUME NEW h \in BagToSet(held), Is(h, "refresh", m), h.n >= q PROVE Repaint(m, q)'
  <2>1. h.kind # "tap"
    BY <1>3 DEF Is
  <2>2. QED
    BY <1>1, <1>3, <2>1, HeldKeeps
<1>4. ASSUME NEW i \in DOMAIN uiq, Is(uiq[i], "refresh", m), uiq[i].n >= q
      PROVE  Repaint(m, q)' \/ Lands(m, q)
  <2>1. CASE \E j \in DOMAIN uiq' : uiq'[j] = uiq[i]
    BY <1>1, <1>4, <2>1
  <2>2. CASE Runs /\ uiq[i] = Head(uiq)
    BY <1>4, <2>2 DEF Runs, Lands, Is
  <2>3. QED
    BY <2>1, <2>2, QueueKeeps
<1>5. QED
  BY <1>2, <1>3, <1>4 DEF Repaint

LEMMA RefreshingGoes ==
  ASSUME Shaped, [Next]_vars, NEW m, NEW q \in DOMAIN log, Refreshing(m, q)
  PROVE  Refreshing(m, q)' \/ Lands(m, q)
<1>0. Refreshing(m, q)' <=> \/ \E o \in BagToSet(ops') : o.msg = m
                            \/ \E i \in DOMAIN uiq' : uiq'[i].kind = "done" /\ uiq'[i].op.msg = m
                            \/ Repaint(m, q)'
  BY DEF Refreshing, Operating, DoneOn
<1>1. CASE Repaint(m, q)
  BY <1>0, <1>1, RepaintGoes
<1>2. CASE \E o \in BagToSet(ops) : o.msg = m
  BY <1>0, <1>2, OpKeeps
<1>3. ASSUME NEW i \in DOMAIN uiq, uiq[i].kind = "done", uiq[i].op.msg = m
      PROVE  Refreshing(m, q)'
  <2>1. CASE \E j \in DOMAIN uiq' : uiq'[j] = uiq[i]
    BY <1>0, <1>3, <2>1
  <2>2. CASE Runs /\ uiq[i] = Head(uiq)
    <3>1. RunDone /\ Head(uiq).op.msg = m
      BY <1>3, <2>2 DEF Runs
    <3>2. Ask("refresh", m) /\ m \in Msgs
      BY <3>1, HeadTyped DEF RunDone, Turn, Operation
    <3>3. Job("refresh", m) \in BagToSet(reads')
      BY <3>2, Asked, JobsRead DEF Shaped
    <3>4. Is(Job("refresh", m), "refresh", m)
      BY DEF Is, Job
    <3>5. Repaint(m, q)'
      <4>1. \E j \in BagToSet(reads') : Is(j, "refresh", m)
        BY <3>3, <3>4
      <4>2. QED
        BY <4>1 DEF Repaint, Is
    <3>6. QED
      BY <1>0, <3>5
  <2>3. QED
    BY <2>1, <2>2, QueueKeeps
<1>4. QED
  BY <1>1, <1>2, <1>3 DEF Refreshing, Operating, DoneOn
-----------------------------------------------------------------------------
(* Loads, and the log.                                                     *)

(* An attachment that is being fetched: a load, or a tap on its way to one.*)
Tapped(m) == \/ \E j \in BagToSet(reads) : Is(j, "tap", m)
             \/ \E h \in BagToSet(held) : Is(h, "tap", m)
             \/ \E i \in DOMAIN uiq : Is(uiq[i], "tap", m)
Fetching(key, m) == [key |-> key, msg |-> m] \in BagToSet(loads) \/ Tapped(m)
Ends(l)  == l \in BagToSet(loads) /\ (Loaded(l) \/ LoadFailed(l))
Drops(m) == \E h \in BagToSet(held) : Hand(h) /\ Is(h, "tap", m) /\ ~InSnap(h.n, m)

LEMMA LoadsGrow ==
  ASSUME Shaped, [Next]_vars, NEW l \in BagToSet(loads)
  PROVE  l \in BagToSet(loads') \/ Ends(l)
<1>0. IsBag(loads, Load)
  BY DEF Shaped, TasksShaped
<1>1. ASSUME NEW T, T \subseteq Load, loads' = loads (+) SetToBag(T)
      PROVE  l \in BagToSet(loads')
  BY <1>0, <1>1, BagAdd
<1>2. ASSUME RunTap PROVE l \in BagToSet(loads')
  <2>1. loads' = loads (+) SetToBag({[key |-> k, msg |-> Head(uiq).msg] : k \in Keys[Head(uiq).msg]})
    BY <1>2 DEF RunTap, Dispatch
  <2>2. Head(uiq).msg \in Msgs
    BY <1>2, SnapLands DEF RunTap
  <2>3. {[key |-> k, msg |-> Head(uiq).msg] : k \in Keys[Head(uiq).msg]} \subseteq Load
    BY <2>2 DEF Load, AllKeys
  <2>4. QED
    BY <1>1, <2>1, <2>3
<1>3. ASSUME RunAutoload PROVE l \in BagToSet(loads')
  <2>1. Head(uiq) \in Autoload
    BY <1>3, HeadTyped DEF RunAutoload, Turn
  <2>2. PICK K : K = StillNeeded(Head(uiq).keys)
    OBVIOUS
  <2>3. loads' = loads (+) SetToBag({[key |-> k, msg |-> Head(uiq).msg] : k \in K})
    BY <1>3, <2>2 DEF RunAutoload
  <2>4. K \subseteq Keys[Head(uiq).msg] /\ Head(uiq).msg \in Msgs
    BY <2>1, <2>2 DEF Autoload, StillNeeded
  <2>5. {[key |-> k, msg |-> Head(uiq).msg] : k \in K} \subseteq Load
    BY <2>4 DEF Load, AllKeys
  <2>6. QED
    BY <1>1, <2>3, <2>5
<1>4. ASSUME NEW x \in BagToSet(loads), Loaded(x) \/ LoadFailed(x)
      PROVE  l \in BagToSet(loads') \/ Ends(l)
  <2>1. loads' = loads (-) SetToBag({x})
    BY <1>4 DEF Loaded, LoadFailed
  <2>2. BagToSet(loads) \ {x} \subseteq BagToSet(loads')
    BY <1>0, <2>1, BagTake
  <2>3. QED
    BY <1>4, <2>2 DEF Ends
<1>5. CASE UNCHANGED loads
  BY <1>5
<1>6. CASE TapsAside
  BY <1>5, <1>6 DEF TapsAside
<1>7. ASSUME NEW m \in Msgs, Tap(m) PROVE UNCHANGED loads
  BY <1>7 DEF Tap, media
<1>8. ASSUME NEW j \in BagToSet(reads), Read(j) PROVE UNCHANGED loads
  BY <1>8 DEF Read, media
<1>9. ASSUME NEW h \in BagToSet(held), Hand(h) PROVE UNCHANGED loads
  BY <1>9 DEF Hand
<1>10. QED
  BY <1>2, <1>3, <1>4, <1>5, <1>6, <1>7, <1>8, <1>9, TapSteps

(* A tap that is handed over starts the loads of all its message's keys.   *)
LEMMA TapStarts ==
  ASSUME Shaped, RunTap, Head(uiq).msg \in Msgs, NEW key \in Keys[Head(uiq).msg]
  PROVE  [key |-> key, msg |-> Head(uiq).msg] \in BagToSet(loads')
<1>1. IsBag(loads, Load)
  BY DEF Shaped, TasksShaped
<1>2. PICK T : T = {[key |-> k, msg |-> Head(uiq).msg] : k \in Keys[Head(uiq).msg]}
  OBVIOUS
<1>3. T \subseteq Load /\ loads' = loads (+) SetToBag(T)
  BY <1>2 DEF Load, AllKeys, RunTap, Dispatch
<1>4. BagToSet(loads') = BagToSet(loads) \cup T
  BY <1>1, <1>3, BagAdd
<1>5. QED
  BY <1>2, <1>4

LEMMA FetchGoes ==
  ASSUME Shaped, [Next]_vars, NEW m \in Msgs, NEW key \in Keys[m], Fetching(key, m)
  PROVE  Fetching(key, m)' \/ Ends([key |-> key, msg |-> m]) \/ Drops(m)
<1>0. Fetching(key, m)' <=> \/ [key |-> key, msg |-> m] \in BagToSet(loads')
                            \/ \E j \in BagToSet(reads') : Is(j, "tap", m)
                            \/ \E h \in BagToSet(held') : Is(h, "tap", m)
                            \/ \E i \in DOMAIN uiq' : Is(uiq'[i], "tap", m)
  BY DEF Fetching, Tapped, Is
<1>1. CASE [key |-> key, msg |-> m] \in BagToSet(loads)
  BY <1>0, <1>1, LoadsGrow
<1>2. ASSUME NEW j \in BagToSet(reads), Is(j, "tap", m) PROVE Fetching(key, m)'
  <2>1. Is(Reading(j), "tap", m)
    BY <1>2 DEF Is, Reading
  <2>2. QED
    BY <1>0, <1>2, <2>1, JobKeeps
<1>3. ASSUME NEW h \in BagToSet(held), Is(h, "tap", m)
      PROVE  Fetching(key, m)' \/ Drops(m)
  <2>1. h.msg = m
    BY <1>3 DEF Is
  <2>2. QED
    BY <1>0, <1>3, <2>1, HeldKeeps DEF Drops
<1>4. ASSUME NEW i \in DOMAIN uiq, Is(uiq[i], "tap", m) PROVE Fetching(key, m)'
  <2>1. CASE \E j \in DOMAIN uiq' : uiq'[j] = uiq[i]
    BY <1>0, <1>4, <2>1
  <2>2. CASE Runs /\ uiq[i] = Head(uiq)
    <3>1. RunTap /\ Head(uiq).msg = m
      BY <1>4, <2>2 DEF Runs, Is
    <3>2. QED
      BY <1>0, <3>1, TapStarts
  <2>3. QED
    BY <2>1, <2>2, QueueKeeps
<1>5. QED
  BY <1>1, <1>2, <1>3, <1>4 DEF Fetching, Tapped

(* A key in flight is being fetched.                                       *)
InflightBacked == \A m \in Msgs : \A key \in Keys[m] : key \in inflight => Fetching(key, m)
LEMMA InflightKept ==
  ASSUME Shaped, InflightBacked, [Next]_vars
  PROVE  InflightBacked'
<1> SUFFICES ASSUME NEW m \in Msgs, NEW key \in Keys[m], key \in inflight'
             PROVE  Fetching(key, m)'
  BY DEF InflightBacked
<1>1. CASE key \in inflight
  <2>1. Fetching(key, m)
    BY <1>1 DEF InflightBacked
  <2>2. ~Ends([key |-> key, msg |-> m])
    <3>1. [key |-> key, msg |-> m].key = key
      OBVIOUS
    <3>2. QED
      BY <3>1 DEF Ends, Loaded, LoadFailed
  <2>3. ~Drops(m)
    BY DEF Drops, Hand, Is
  <2>4. QED
    BY <2>1, <2>2, <2>3, FetchGoes
<1>2. CASE key \notin inflight
  <2>1. ASSUME NEW n \in Msgs, Tap(n) PROVE Fetching(key, m)'
    <3>1. key \in Keys[n] /\ Ask("tap", n)
      BY <1>2, <2>1 DEF Tap
    <3>2. n = m
      BY <3>1, KeysApart
    <3>3. Job("tap", m) \in BagToSet(reads') /\ Is(Job("tap", m), "tap", m)
      BY <3>1, <3>2, Asked, JobsRead DEF Shaped, Is, Job
    <3>4. \E j \in BagToSet(reads') : Is(j, "tap", m)
      BY <3>3
    <3>5. QED
      BY <3>4 DEF Fetching, Tapped, Is
  <2>2. CASE RunAutoload
    <3>1. Head(uiq) \in Autoload
      BY <2>2, HeadTyped DEF RunAutoload, Turn
    <3>2. PICK n \in Msgs : n = Head(uiq).msg
      BY <3>1 DEF Autoload
    <3>3. PICK K : K = StillNeeded(Head(uiq).keys)
      OBVIOUS
    <3>4. PICK T : T = {[key |-> k, msg |-> n] : k \in K}
      OBVIOUS
    <3>5. loads' = loads (+) SetToBag(T) /\ inflight' = inflight \cup K
      BY <2>2, <3>2, <3>3, <3>4 DEF RunAutoload
    <3>6. K \subseteq Keys[n]
      BY <3>1, <3>2, <3>3 DEF Autoload, StillNeeded
    <3>7. T \subseteq Load
      BY <3>4, <3>6 DEF Load, AllKeys
    <3>8. BagToSet(loads') = BagToSet(loads) \cup T
      BY <3>5, <3>7, BagAdd DEF Shaped, TasksShaped
    <3>9. key \in K /\ n = m
      BY <1>2, <3>5, <3>6, KeysApart
    <3>10. [key |-> key, msg |-> m] \in BagToSet(loads')
      BY <3>4, <3>8, <3>9
    <3>11. QED
      BY <3>10 DEF Fetching
  <2>3. CASE inflight' \subseteq inflight
    BY <1>2, <2>3
  <2>4. CASE TapsAside \/ RunTap
    BY <2>3, <2>4 DEF TapsAside, RunTap
  <2>5. ASSUME NEW j \in BagToSet(reads), Read(j) PROVE inflight' \subseteq inflight
    BY <2>5 DEF Read, media
  <2>6. ASSUME NEW h \in BagToSet(held), Hand(h) PROVE inflight' \subseteq inflight
    BY <2>6 DEF Hand
  <2>7. ASSUME NEW l \in BagToSet(loads), Loaded(l) \/ LoadFailed(l)
        PROVE  inflight' \subseteq inflight
    BY <2>7 DEF Loaded, LoadFailed
  <2>8. QED
    BY <2>1, <2>2, <2>3, <2>4, <2>5, <2>6, <2>7, TapSteps
<1>3. QED
  BY <1>1, <1>2
-----------------------------------------------------------------------------
(* The log grows by the records that are stored.                           *)
Stores(r) ==
  /\ Store(r) /\ r \in Filed
  /\ UNCHANGED <<hidden, account, overlay, editing, rows, loaded, watched, reads, held, uiq,
                 media, history>>
  /\ \/ r.kind = "chat" /\ ~IsFiled(r.msg) /\ UNCHANGED ops
     \/ r.kind # "chat" /\ r.kind # "unreact" /\ IsFiled(r.msg) /\ UNCHANGED ops
     \/ /\ r.kind # "chat" /\ \E o \in BagToSet(ops) : o.msg = r.msg
        /\ \E o \in BagToSet(ops') : o.msg = r.msg
LEMMA LogSteps ==
  ASSUME Shaped, [Next]_vars
  PROVE  \/ UNCHANGED <<log, feed, watched>>
         \/ UNCHANGED log /\ feed' = <<>> /\ (RunOpen \/ ~loaded')
         \/ Report /\ UNCHANGED <<log, watched>>
         \/ \E r \in Filed : Stores(r)
<1>1. CASE Reacting
  BY <1>1 DEF Reacting, SetReaction, store
<1>2. CASE Aside
  <2>1. UNCHANGED log
    BY <1>2, AsideFrame
  <2>2. Report \/ UNCHANGED feed
    BY <1>2 DEF Aside, RequestEdit, Delete, Hide, Tap, CancelEdit, Select, RunDone,
                RunAutoload, Completed, Read, Hand, Loaded, LoadFailed
  <2>3. UNCHANGED watched
    BY <1>2 DEF Aside, RequestEdit, Delete, Hide, Tap, CancelEdit, Select, RunDone,
                RunAutoload, Report, Completed, Read, Hand, Loaded, LoadFailed
  <2>4. QED
    BY <2>1, <2>2, <2>3
<1>3. CASE Landing
  <2>1. UNCHANGED log
    BY <1>3, LandingFrame
  <2>2. UNCHANGED <<feed, watched>> \/ (feed' = <<>> /\ RunOpen)
    BY <1>3 DEF Landing, RunRefresh, RunEvent, RunTap, RunEcho, RunRebuild, RunList, RunOpen
  <2>3. QED
    BY <2>1, <2>2
<1>4. ASSUME NEW v \in Texts, SubmitEdit(v) PROVE UNCHANGED <<log, feed, watched>>
  BY <1>4 DEF SubmitEdit, store
<1>5. ASSUME NEW a \in Accounts, SwitchTo(a)
      PROVE  UNCHANGED log /\ feed' = <<>> /\ ~loaded'
  BY <1>5 DEF SwitchTo, store
<1>6. ASSUME NEW m \in Msgs, Receive(m) PROVE \E r \in Filed : Stores(r)
  <2>1. PICK r : r = Rec("chat", m, Author[m], "none")
    OBVIOUS
  <2>2. r \in Filed /\ r.kind = "chat" /\ r.msg = m
    BY <2>1, PeerFiled DEF Rec
  <2>3. ~IsFiled(m)
    BY <1>6 DEF Receive, IsFiled
  <2>4. Stores(r)
    BY <1>6, <2>1, <2>2, <2>3 DEF Receive, Stores, tasks
  <2>5. QED
    BY <2>2, <2>4
<1>7. CASE PeerStores
  BY <1>7 DEF PeerStores, Stores, tasks
<1>8. ASSUME NEW o \in BagToSet(ops), Stored(o) PROVE \E r \in Filed : Stores(r)
  <2>1. PICK r : r = Rec(o.kind, o.msg, o.by, o.val)
    OBVIOUS
  <2>2. r \in Filed /\ r.kind # "chat" /\ r.msg = o.msg
    BY <2>1, OpTyped DEF Rec, Operation
  <2>3. \E p \in BagToSet(ops') : p.msg = o.msg
    <3>1. o \in Operation /\ [o EXCEPT !.stored = TRUE] \in BagToSet(ops')
      BY <1>8, OpTyped, StoredOps
    <3>2. [o EXCEPT !.stored = TRUE].msg = o.msg
      BY <3>1 DEF Operation
    <3>3. QED
      BY <3>1, <3>2
  <2>4. Stores(r)
    BY <1>8, <2>1, <2>2, <2>3 DEF Stored, Stores
  <2>5. QED
    BY <2>2, <2>4
<1>9. QED
  BY <1>1, <1>2, <1>3, <1>4, <1>5, <1>6, <1>7, <1>8, Steps DEF vars

LEMMA LogGrows ==
  ASSUME Shaped, [Next]_vars
  PROVE  /\ Len(log) \in Nat /\ Len(log') \in Nat /\ Len(log) <= Len(log')
         /\ DOMAIN log = 1 .. Len(log) /\ DOMAIN log' = 1 .. Len(log')
         /\ \A i \in DOMAIN log : i \in DOMAIN log' /\ log'[i] = log[i]
<1>0. log \in Seq(Filed) /\ Len(log) \in Nat
  BY DEF Shaped, ScreenShaped
<1>1. CASE UNCHANGED log
  BY <1>0, <1>1
<1>2. ASSUME NEW r \in Filed, Stores(r)
      PROVE  /\ log' \in Seq(Filed) /\ Len(log') = Len(log) + 1
             /\ \A i \in DOMAIN log : i \in DOMAIN log' /\ log'[i] = log[i]
  BY <1>2, StoreShaped DEF Stores
<1>3. QED
  BY <1>0, <1>1, <1>2, LogSteps

(* The watcher is still to be called back for the end of the log.          *)
Heard == Len(log) - Len(feed)
FeedIsTail == /\ Heard \in Nat
              /\ \A i \in DOMAIN feed : feed[i] = log[Heard + i]
              /\ ~watched => feed = <<>>
LEMMA FeedKept ==
  ASSUME Shaped, FeedIsTail, [Next]_vars
  PROVE  FeedIsTail'
<1>0. /\ log \in Seq(Filed) /\ feed \in Seq(Filed) /\ Len(log) \in Nat /\ Len(feed) \in Nat
      /\ Heard' = Len(log') - Len(feed') /\ Heard \in Nat
      /\ \A i \in DOMAIN feed : feed[i] = log[Heard + i]
  BY DEF Shaped, ScreenShaped, TasksShaped, Heard, FeedIsTail
<1>1. CASE UNCHANGED <<log, feed, watched>>
  BY <1>1 DEF FeedIsTail, Heard
<1>2. CASE UNCHANGED log /\ feed' = <<>>
  BY <1>0, <1>2 DEF FeedIsTail
<1>3. CASE Report /\ UNCHANGED <<log, watched>>
  <2>1. feed # <<>> /\ feed' = Tail(feed)
    BY <1>3 DEF Report
  <2>2. Len(feed') = Len(feed) - 1 /\ Len(feed) > 0
    BY <1>0, <2>1
  <2>3. Heard' = Heard + 1 /\ Heard' \in Nat
    BY <1>0, <1>3, <2>2 DEF Heard
  <2>4. ASSUME NEW i \in DOMAIN feed' PROVE feed'[i] = log'[Heard' + i]
    <3>1. i + 1 \in DOMAIN feed /\ feed'[i] = feed[i + 1] /\ i \in Nat
      BY <1>0, <2>1, <2>4, FeedTyped
    <3>2. Heard + (i + 1) = Heard' + i
      BY <1>0, <2>3, <3>1
    <3>3. QED
      BY <1>0, <1>3, <3>1, <3>2
  <2>5. ~watched' => FALSE
    BY <1>3, <2>1 DEF FeedIsTail
  <2>6. QED
    BY <2>3, <2>4, <2>5 DEF FeedIsTail
<1>4. ASSUME NEW r \in Filed, Stores(r) PROVE FeedIsTail'
  <2>1. /\ Len(log') = Len(log) + 1
        /\ \A i \in DOMAIN log : i \in DOMAIN log' /\ log'[i] = log[i]
        /\ log'[Len(log) + 1] = r
    BY <1>4, StoreShaped DEF Stores
  <2>2. UNCHANGED watched /\ feed' = IF watched THEN Append(feed, r) ELSE feed
    BY <1>4 DEF Stores, Store
  <2>3. CASE ~watched
    BY <1>0, <2>1, <2>2, <2>3 DEF FeedIsTail
  <2>4. CASE watched
    <3>1. Len(feed') = Len(feed) + 1 /\ Heard' = Heard
      BY <1>0, <2>1, <2>2, <2>4 DEF Heard
    <3>2. ASSUME NEW i \in DOMAIN feed' PROVE feed'[i] = log'[Heard' + i]
      <4>1. CASE i \in DOMAIN feed
        <5>1. feed'[i] = feed[i] /\ Heard + i \in DOMAIN log
          BY <1>0, <2>2, <2>4, <4>1 DEF Heard
        <5>2. feed[i] = log[Heard + i] /\ log'[Heard + i] = log[Heard + i]
          BY <1>0, <2>1, <4>1, <5>1
        <5>3. QED
          BY <3>1, <5>1, <5>2
      <4>2. CASE i \notin DOMAIN feed
        <5>1. i = Len(feed) + 1 /\ feed'[i] = r
          BY <1>0, <2>2, <2>4, <3>2, <4>2
        <5>2. Heard' + i = Len(log) + 1
          <6>1. Heard = Len(log) - Len(feed)
            BY DEF Heard
          <6>2. Heard' = Heard /\ i = Len(feed) + 1
            BY <3>1, <5>1
          <6>3. Len(log) \in Nat /\ Len(feed) \in Nat
            BY <1>0
          <6>4. Heard + i = Len(log) + 1
            BY <6>1, <6>2, <6>3
          <6>5. QED
            BY <6>2, <6>4
        <5>3. QED
          BY <2>1, <5>1, <5>2
      <4>3. QED
        BY <4>1, <4>2
    <3>3. QED
      BY <1>0, <2>2, <2>4, <3>1, <3>2 DEF FeedIsTail
  <2>5. QED
    BY <2>3, <2>4
<1>5. QED
  BY <1>1, <1>2, <1>3, <1>4, LogSteps
-----------------------------------------------------------------------------
(* What a landing does to the row of a message.                            *)

(* What a step does to the row of one message: nothing but to its text,    *)
(* nothing while a build is noted for later, built from a snapshot, or     *)
(* built with all others for a new watcher; or there are no rows at all.   *)
Live == loaded /\ watched
RowKept(m)  == \A k \in DOMAIN rows' : rows'[k].msg = m =>
                 \E j \in DOMAIN rows : rows[j].msg = m /\ rows'[k].cells = rows[j].cells
TextKept(m) == \A k \in DOMAIN rows' : rows'[k].msg = m =>
                 \E j \in DOMAIN rows : rows[j].msg = m /\ SameText(rows'[k], rows[j])
Stays(m) == /\ RowKept(m) /\ (Shown(m) => Shown(m)')
            /\ UNCHANGED <<loaded, watched>> /\ (m \in behind' <=> m \in behind)
Saw(n, m) == builtAt'[m] = IF n > builtAt[m] THEN n ELSE builtAt[m]
RowFrom(n, m) ==
  /\ \A k \in DOMAIN rows' : rows'[k].msg = m => /\ InSnap(n, m)
                                                 /\ SameText(rows'[k], Build(n, m))
                                                 /\ rows'[k].cells = Cells(m)
  /\ InSnap(n, m) /\ ~Hidden(m) => Shown(m)'

Gone      == ~loaded' /\ rows' = <<>>
Rests(m)  == Stays(m) /\ builtAt'[m] = builtAt[m]
Noted(m)  == Landing /\ Stays(m) /\ TextKept(m) /\ m \in behind /\ Saw(Head(uiq).n, m)
Made(m)   == /\ Landing /\ RowFrom(Head(uiq).n, m) /\ Saw(Head(uiq).n, m)
             /\ (m \in behind' <=> Head(uiq).n < builtAt[m]) /\ UNCHANGED <<loaded, watched>>
Anew(m)   == /\ Landing /\ RowFrom(Head(uiq).n, m)
             /\ watched' => (m \in behind' <=> m \in Since(Head(uiq).n))
             /\ builtAt'[m] = IF m \in behind' THEN Len(log) ELSE Head(uiq).n

BuiltTypes == builtAt \in [Msgs -> 0 .. Len(log)] /\ behind \subseteq Msgs

LEMMA ShowsRow ==
  ASSUME rows' \in Seq(Row), NEW m
  PROVE  Shown(m)' <=> \E k \in DOMAIN rows' : rows'[k].msg = m
<1> DEFINE I == {i \in 1 .. Len(rows') : rows'[i].msg = m}
<1>1. Spot(m)' = IF I # {} THEN Min(I) ELSE 0
  BY DEF Spot, SelectInSeq
<1>2. I \subseteq Nat /\ I = {i \in DOMAIN rows' : rows'[i].msg = m} /\ 0 \notin I
  OBVIOUS
<1>3. CASE I = {}
  BY <1>1, <1>2, <1>3 DEF Shown
<1>4. CASE I # {}
  <2>1. \E x \in I : \A y \in I : x <= y
    BY <1>2, <1>4, LeastOf
  <2>2. Min(I) \in I
    BY <2>1 DEF Min
  <2>3. QED
    BY <1>1, <1>2, <1>4, <2>2 DEF Shown
<1>5. QED
  BY <1>3, <1>4

LEMMA NotedBuild ==
  ASSUME BuiltTypes, NEW n, NEW S, NoteBuilt(n, S), NEW m \in Msgs
  PROVE  /\ m \in S => Saw(n, m) /\ (m \in behind' <=> n < builtAt[m])
         /\ m \notin S => builtAt'[m] = builtAt[m] /\ (m \in behind' <=> m \in behind)
BY DEF BuiltTypes, NoteBuilt, NoteSeen, Saw

LEMMA NotedSeen ==
  ASSUME BuiltTypes, NEW n, NEW S, NoteSeen(n, S), NEW m \in Msgs
  PROVE  /\ m \in S => Saw(n, m)
         /\ m \notin S => builtAt'[m] = builtAt[m]
BY DEF BuiltTypes, NoteSeen, Saw

LEMMA BuiltBody ==
  ASSUME Shaped, NEW n \in Nat, n <= Len(log), NEW m \in Msgs, NEW r,
         SameBody(r, Build(n, m))
  PROVE  SameText(r, Build(n, m)) /\ r.cells = Cells(m) /\ r.msg = m
<1>1. Build(n, m).cells = Cells(m)
  BY BuildText
<1>2. Build(n, m).msg = m
  BY BuildShape
<1>3. QED
  BY <1>1, <1>2 DEF SameBody, SameText

LEMMA RowsStay ==
  ASSUME UNCHANGED rows, NEW m
  PROVE  RowKept(m) /\ TextKept(m) /\ (Shown(m) => Shown(m)')
<1>1. Spot(m)' = Spot(m)
  BY DEF Spot, SelectInSeq
<1>2. QED
  BY <1>1 DEF RowKept, TextKept, SameText, Shown

(* One message's row is refreshed.                                         *)
LEMMA RefreshTouches ==
  ASSUME Shaped, Listing, BuiltTypes, Landing, NEW m \in Msgs, Head(uiq).msg \in Msgs,
         Head(uiq).n \in Nat, Head(uiq).n <= Len(log),
         RefreshRow(Head(uiq).n, Head(uiq).msg), UNCHANGED <<loaded, watched>>
  PROVE  /\ (Rests(m) /\ TextKept(m)) \/ Noted(m) \/ Made(m)
         /\ m = Head(uiq).msg /\ InSnap(Head(uiq).n, m) /\ Shown(m) => Made(m)
         /\ m = Head(uiq).msg /\ m \in behind => Made(m) \/ Noted(m)
<1> DEFINE c == Head(uiq)
           s == Spot(c.msg)
<1>0. rows \in Seq(Row)
  BY DEF Shaped, ScreenShaped
<1>1. /\ rows' \in Seq(Row) /\ DOMAIN rows' = DOMAIN rows
      /\ \A k \in DOMAIN rows : rows'[k].msg = rows[k].msg
      /\ InSnap(c.n, c.msg) /\ Shown(c.msg) =>
           /\ s \in DOMAIN rows /\ rows[s].msg = c.msg
           /\ SameBody(rows'[s], Build(c.n, c.msg))
           /\ \A k \in DOMAIN rows : k # s => rows'[k] = rows[k]
      /\ ~(InSnap(c.n, c.msg) /\ Shown(c.msg)) => UNCHANGED rows
  BY RefreshShape
<1>2. /\ Shown(m) <=> \E k \in DOMAIN rows : rows[k].msg = m
      /\ Shown(m)' <=> \E k \in DOMAIN rows' : rows'[k].msg = m
  BY <1>0, <1>1, SpotFinds, ShowsRow
<1>3. CASE InSnap(c.n, c.msg) /\ Shown(c.msg)
  <2>1. NoteBuilt(c.n, {c.msg})
    BY <1>3 DEF RefreshRow
  <2>2. CASE m = c.msg
    <3>1. Saw(c.n, m) /\ (m \in behind' <=> c.n < builtAt[m])
      BY <2>1, <2>2, NotedBuild
    <3>2. \A k \in DOMAIN rows : rows[k].msg = m => k = s
      BY <1>1, <1>3, <2>2 DEF Listing, RowsDiffer
    <3>3. SameText(rows'[s], Build(c.n, m)) /\ rows'[s].cells = Cells(m)
      <4> HIDE DEF s
      <4>1. QED
        BY <1>1, <1>3, <2>2, BuiltBody
    <3>4. RowFrom(c.n, m)
      BY <1>1, <1>2, <1>3, <2>2, <3>2, <3>3 DEF RowFrom
    <3>5. QED
      BY <3>1, <3>4 DEF Made
  <2>3. CASE m # c.msg
    <3>1. builtAt'[m] = builtAt[m] /\ (m \in behind' <=> m \in behind)
      BY <2>1, <2>3, NotedBuild
    <3>2. \A k \in DOMAIN rows' : rows'[k].msg = m => k \in DOMAIN rows /\ rows'[k] = rows[k]
      BY <1>1, <1>3, <2>3
    <3>3. RowKept(m) /\ TextKept(m)
      BY <3>2 DEF RowKept, TextKept, SameText
    <3>4. QED
      BY <1>1, <1>2, <2>3, <3>1, <3>3 DEF Rests, Stays
  <2>4. QED
    BY <2>2, <2>3
<1>4. CASE ~(InSnap(c.n, c.msg) /\ Shown(c.msg))
  <2>1. NoteSeen(c.n, {c.msg} \cap behind) /\ UNCHANGED <<rows, behind>>
    BY <1>4 DEF RefreshRow
  <2>2. Stays(m) /\ TextKept(m)
    BY <2>1, RowsStay DEF Stays
  <2>3. CASE m = c.msg /\ m \in behind
    BY <1>4, <2>1, <2>2, <2>3, NotedSeen DEF Noted
  <2>4. CASE ~(m = c.msg /\ m \in behind)
    BY <1>4, <2>1, <2>2, <2>4, NotedSeen DEF Rests
  <2>5. QED
    BY <2>3, <2>4
<1>5. QED
  BY <1>3, <1>4

(* Every row is built anew.                                                *)
LEMMA RebuildTouches ==
  ASSUME Shaped, NEW n \in Nat, n <= Len(log), rows' = Rebuilt(n), NEW m \in Msgs
  PROVE  RowFrom(n, m)
<1>1. /\ rows' \in Seq(Row)
      /\ \A k \in DOMAIN rows' : \E i \in Within(n) :
           log[i].kind = "chat" /\ log[i].msg = rows'[k].msg
      /\ \A k \in DOMAIN rows' : SameBody(rows'[k], Build(n, rows'[k].msg))
  BY RebuiltShape
<1>2. \A k \in DOMAIN rows' : rows'[k].msg = m => /\ InSnap(n, m)
                                                  /\ SameText(rows'[k], Build(n, m))
                                                  /\ rows'[k].cells = Cells(m)
  BY <1>1, BuiltBody DEF InSnap
<1>3. ASSUME InSnap(n, m), ~Hidden(m) PROVE Shown(m)'
  <2>1. PICK i \in Within(n) : log[i].kind = "chat" /\ log[i].msg = m
    BY <1>3 DEF InSnap
  <2>2. Visible(log[i])
    BY <1>3, <2>1 DEF Visible
  <2>3. \E k \in DOMAIN rows' : rows'[k].msg = m
    BY <2>1, <2>2, RebuiltHas
  <2>4. QED
    BY <1>1, <2>3, ShowsRow
<1>4. QED
  BY <1>2, <1>3 DEF RowFrom

(* A message that is not shown is appended.                                *)
LEMMA EchoTouches ==
  ASSUME Shaped, Listing, BuiltTypes, RunEcho, NEW m \in Msgs
  PROVE  /\ Gone \/ (Rests(m) /\ TextKept(m)) \/ Made(m)
         /\ m = Head(uiq).msg /\ loaded /\ InSnap(Head(uiq).n, m) /\ ~Shown(m) => Made(m)
<1> DEFINE c == Head(uiq)
           row == Build(c.n, c.msg)
           p == Len(rows) + 1
<1>0. /\ rows \in Seq(Row) /\ c.n \in Nat /\ c.n <= Len(log) /\ c.msg \in Msgs
      /\ UNCHANGED <<loaded, watched>> /\ Landing
  BY SnapLands DEF Shaped, ScreenShaped, RunEcho, Landing
<1>1. CASE ~(InSnap(c.n, c.msg) /\ ~Shown(c.msg))
  <2>1. UNCHANGED <<rows, builtAt, behind>>
    BY <1>1 DEF RunEcho
  <2>2. QED
    BY <1>0, <1>1, <2>1, RowsStay DEF Rests, Stays
<1>2. CASE InSnap(c.n, c.msg) /\ ~Shown(c.msg) /\ ~loaded
  <2>1. rows' = rows
    BY <1>2 DEF RunEcho
  <2>2. rows = <<>>
    BY <1>2 DEF Listing
  <2>3. QED
    BY <1>0, <1>2, <2>1, <2>2 DEF Gone
<1>3. CASE InSnap(c.n, c.msg) /\ ~Shown(c.msg) /\ loaded
  <2>1. rows' = Pushed(row) /\ NoteBuilt(c.n, {c.msg})
    BY <1>3 DEF RunEcho
  <2>2. row \in Row /\ row.msg = c.msg
    BY <1>0, BuildShape
  <2> HIDE DEF row
  <2>3. /\ rows' \in Seq(Row) /\ Len(rows') = p
        /\ \A k \in DOMAIN rows : SameBody(rows'[k], rows[k])
        /\ SameBody(rows'[p], row)
    BY <1>0, <2>1, <2>2, PushedShape
  <2>4. /\ \A k \in DOMAIN rows' : k \in DOMAIN rows \/ k = p
        /\ DOMAIN rows \subseteq DOMAIN rows' /\ p \in DOMAIN rows'
    BY <1>0, <2>3
  <2> HIDE DEF p
  <2>5. /\ Shown(m) <=> \E k \in DOMAIN rows : rows[k].msg = m
        /\ Shown(c.msg) <=> \E k \in DOMAIN rows : rows[k].msg = c.msg
        /\ Shown(m)' <=> \E k \in DOMAIN rows' : rows'[k].msg = m
    BY <1>0, <2>3, SpotFinds, ShowsRow
  <2>6. CASE m = c.msg
    <3>1. \A k \in DOMAIN rows' : rows'[k].msg = m => k = p
      BY <1>3, <2>3, <2>4, <2>5, <2>6 DEF SameBody
    <3>2. SameText(rows'[p], Build(c.n, m)) /\ rows'[p].cells = Cells(m) /\ rows'[p].msg = m
      BY <1>0, <2>3, <2>6, BuiltBody DEF row
    <3>3. RowFrom(c.n, m)
      BY <1>3, <2>4, <2>5, <2>6, <3>1, <3>2 DEF RowFrom
    <3>4. Saw(c.n, m) /\ (m \in behind' <=> c.n < builtAt[m])
      BY <2>1, <2>6, NotedBuild
    <3>5. QED
      BY <1>0, <3>3, <3>4 DEF Made
  <2>7. CASE m # c.msg
    <3>1. builtAt'[m] = builtAt[m] /\ (m \in behind' <=> m \in behind)
      BY <2>1, <2>7, NotedBuild
    <3>2. rows'[p].msg # m
      BY <2>2, <2>3, <2>7 DEF SameBody
    <3>3. \A k \in DOMAIN rows' : rows'[k].msg = m =>
            k \in DOMAIN rows /\ SameBody(rows'[k], rows[k])
      BY <2>3, <2>4, <3>2
    <3>4. RowKept(m) /\ TextKept(m)
      BY <3>3 DEF RowKept, TextKept, SameText, SameBody
    <3>5. Shown(m) => Shown(m)'
      BY <2>3, <2>4, <2>5 DEF SameBody
    <3>6. QED
      BY <1>0, <2>7, <3>1, <3>4, <3>5 DEF Rests, Stays
  <2>8. QED
    BY <2>6, <2>7
<1>4. QED
  BY <1>1, <1>2, <1>3

LEMMA OpenTouches ==
  ASSUME Shaped, Listing, RunOpen, NEW m \in Msgs
  PROVE  Gone \/ Anew(m)
<1> DEFINE c == Head(uiq)
<1>0. c.n \in Nat /\ c.n <= Len(log) /\ Landing
  BY LandingFrame, HeadTyped DEF Landing
<1>1. CASE loaded
  <2>1. /\ rows' = Rebuilt(c.n) /\ behind' = Since(c.n)
        /\ builtAt'[m] = IF m \in Since(c.n) THEN Len(log) ELSE c.n
    BY <1>1 DEF RunOpen
  <2>2. RowFrom(c.n, m)
    BY <1>0, <2>1, RebuildTouches
  <2>3. QED
    BY <1>0, <2>1, <2>2 DEF Anew
<1>2. CASE ~loaded
  BY <1>2 DEF RunOpen, Gone, Listing
<1>3. QED
  BY <1>1, <1>2

LEMMA LandingTouches ==
  ASSUME Shaped, Listing, BuiltTypes, Landing, NEW m \in Msgs
  PROVE  Gone \/ (Rests(m) /\ TextKept(m)) \/ Noted(m) \/ Made(m) \/ Anew(m)
<1> DEFINE c == Head(uiq)
<1>0. /\ c.n \in Nat /\ c.n <= Len(log)
      /\ c.kind \in {"refresh", "rebuild", "tap", "echo", "event"} => c.msg \in Msgs
  BY LandingFrame, HeadTyped
<1>1. ASSUME UNCHANGED <<rows, builtAt, behind, loaded, watched>>
      PROVE  Rests(m) /\ TextKept(m)
  BY <1>1, RowsStay DEF Rests, Stays
<1>2. CASE RunRefresh \/ RunEvent \/ RunTap
  <2>1. c.msg \in Msgs
    BY <1>0, <1>2 DEF RunRefresh, RunEvent, RunTap, Turn
  <2>2. /\ UNCHANGED <<loaded, watched>>
        /\ RefreshRow(c.n, c.msg) \/ UNCHANGED <<rows, builtAt, behind>>
    BY <1>2 DEF RunRefresh, RunEvent, RunTap
  <2>3. QED
    BY <1>0, <1>1, <2>1, <2>2, RefreshTouches
<1>3. CASE RunEcho
  BY <1>3, EchoTouches
<1>4. CASE RunRebuild
  <2>1. UNCHANGED <<loaded, watched>>
    BY <1>4 DEF RunRebuild
  <2>2. CASE loaded
    <3>1. rows' = Rebuilt(c.n) /\ NoteBuilt(c.n, Msgs)
      BY <1>4, <2>2 DEF RunRebuild
    <3>2. RowFrom(c.n, m)
      BY <1>0, <3>1, RebuildTouches
    <3>3. Saw(c.n, m) /\ (m \in behind' <=> c.n < builtAt[m])
      BY <3>1, NotedBuild
    <3>4. QED
      BY <2>1, <3>2, <3>3 DEF Made
  <2>3. CASE ~loaded
    <3>1. UNCHANGED <<rows, builtAt, behind>>
      BY <1>4, <2>3 DEF RunRebuild
    <3>2. QED
      BY <1>1, <2>1, <3>1
  <2>4. QED
    BY <2>2, <2>3
<1>5. CASE RunList
  <2>1. /\ rows' = Rebuilt(c.n) /\ UNCHANGED watched
        /\ behind' = IF watched THEN Since(c.n) ELSE {}
        /\ builtAt'[m] = IF m \in behind' THEN Len(log) ELSE c.n
    BY <1>5 DEF RunList
  <2>2. RowFrom(c.n, m)
    BY <1>0, <2>1, RebuildTouches
  <2>3. QED
    BY <2>1, <2>2 DEF Anew
<1>6. CASE RunOpen
  BY <1>6, OpenTouches
<1>7. QED
  BY <1>2, <1>3, <1>4, <1>5, <1>6 DEF Landing
-----------------------------------------------------------------------------
(* What the other steps do to it.                                          *)

(* What the steps that land no snapshot do to a message.                   *)
SlotsKept(m) == /\ UNCHANGED account
                /\ overlay'.reactions[m] = overlay.reactions[m]
                /\ overlay'.edits[m] = overlay.edits[m]
                /\ m \in overlay'.deletes <=> m \in overlay.deletes
Afresh(m)  == \/ \E o \in BagToSet(ops') : o.msg = m
              \/ \E j \in BagToSet(reads') : Is(j, "refresh", m)
Settled(m) == TextKept(m) /\ SlotsKept(m)

LEMMA AsideQuiet ==
  ASSUME Aside
  PROVE  UNCHANGED <<log, rows, loaded, account, watched, builtAt, behind>>
<1>1. UNCHANGED <<watched, builtAt, behind>>
  <2>1. CASE \E m \in Msgs : RequestEdit(m) \/ Delete(m) \/ Hide(m) \/ Tap(m)
    BY <2>1 DEF RequestEdit, Delete, Hide, Tap, history
  <2>2. CASE CancelEdit \/ Select \/ RunDone \/ RunAutoload \/ Report
    BY <2>2 DEF CancelEdit, Select, RunDone, RunAutoload, Report, history
  <2>3. CASE \E o \in BagToSet(ops) : Completed(o)
    BY <2>3 DEF Completed, history
  <2>4. CASE \/ \E j \in BagToSet(reads) : Read(j)
             \/ \E h \in BagToSet(held) : Hand(h)
    BY <2>4 DEF Read, Hand, history
  <2>5. CASE \E l \in BagToSet(loads) : Loaded(l) \/ LoadFailed(l)
    BY <2>5 DEF Loaded, LoadFailed, history
  <2>6. QED
    BY <2>1, <2>2, <2>3, <2>4, <2>5 DEF Aside
<1>2. QED
  BY <1>1, AsideFrame

LEMMA DoneSlots ==
  ASSUME Shaped, RunDone, NEW m \in Msgs, Head(uiq).op.msg # m
  PROVE  SlotsKept(m)
<1> DEFINE o == Head(uiq).op
<1>1. o \in Operation /\ uiq # <<>>
  BY HeadTyped DEF RunDone, Turn
<1>2. overlay' = Settle(o) /\ UNCHANGED account /\ overlay \in Overlay /\ o.msg # m
  BY DEF RunDone, Shaped, ScreenShaped
<1>3. o.kind \in {"react", "unreact", "edit", "delete"} /\ o.msg \in Msgs
  BY <1>1 DEF Operation
<1> HIDE DEF o
<1>4. CASE o.kind \in {"react", "unreact"}
  <2>1. overlay' = [overlay EXCEPT !.reactions[o.msg] = "none"]
    BY <1>2, <1>4 DEF Settle
  <2>2. QED
    BY <1>2, <1>3, <2>1 DEF SlotsKept, Overlay
<1>5. CASE o.kind = "edit"
  <2>1. overlay' = [overlay EXCEPT !.edits[o.msg] = "none"]
    BY <1>2, <1>5 DEF Settle
  <2>2. QED
    BY <1>2, <1>3, <2>1 DEF SlotsKept, Overlay
<1>6. CASE o.kind = "delete"
  <2>1. overlay' = [overlay EXCEPT !.deletes = @ \ {o.msg}]
    BY <1>2, <1>6 DEF Settle
  <2>2. QED
    BY <1>2, <1>3, <2>1 DEF SlotsKept, Overlay
<1>7. QED
  BY <1>3, <1>4, <1>5, <1>6

LEMMA AsideTouches ==
  ASSUME Shaped, Aside, NEW m \in Msgs
  PROVE  Rests(m) /\ (Settled(m) \/ Afresh(m))
<1>1. UNCHANGED <<log, rows, loaded, account, watched, builtAt, behind>>
  BY AsideQuiet
<1>2. Rests(m) /\ TextKept(m)
  BY <1>1, RowsStay DEF Rests, Stays
<1>3. CASE Unpublished
  BY <1>1, <1>2, <1>3, UnpublishedFrame DEF Settled, SlotsKept
<1>4. ASSUME NEW o \in BagToSet(ops), Completed(o) PROVE Settled(m)
  BY <1>1, <1>2, <1>4 DEF Completed, Settled, SlotsKept
<1>5. CASE RunDone
  <2>1. CASE Head(uiq).op.msg # m
    BY <1>2, <1>5, <2>1, DoneSlots DEF Settled
  <2>2. CASE Head(uiq).op.msg = m
    <3>1. Ask("refresh", m)
      BY <1>5, <2>2 DEF RunDone
    <3>2. Job("refresh", m) \in BagToSet(reads') /\ Is(Job("refresh", m), "refresh", m)
      BY <3>1, Asked, JobsRead DEF Shaped, Is, Job
    <3>3. QED
      BY <1>2, <3>2 DEF Afresh
  <2>3. QED
    BY <1>2, <2>1, <2>2
<1>6. ASSUME NEW n \in Msgs, Delete(n) PROVE Settled(m) \/ Afresh(m)
  <2>1. CASE n = m
    <3>1. Ask("refresh", m)
      BY <1>6, <2>1 DEF Delete
    <3>2. Job("refresh", m) \in BagToSet(reads') /\ Is(Job("refresh", m), "refresh", m)
      BY <3>1, Asked, JobsRead DEF Shaped, Is, Job
    <3>3. QED
      BY <3>2 DEF Afresh
  <2>2. CASE n # m
    <3>1. overlay' = [overlay EXCEPT !.deletes = @ \cup {n}] /\ overlay \in Overlay
      BY <1>6 DEF Delete, Shaped, ScreenShaped
    <3>2. SlotsKept(m)
      BY <1>1, <2>2, <3>1 DEF SlotsKept, Overlay
    <3>3. QED
      BY <1>2, <3>2 DEF Settled
  <2>3. QED
    BY <2>1, <2>2
<1>7. QED
  BY <1>2, <1>3, <1>4, <1>5, <1>6, AsideParts

(* The handlers that write on a row.                                       *)
LEMMA WrittenTouches ==
  ASSUME Shaped, Shaped', DOMAIN rows' = DOMAIN rows, NEW m,
         \A j \in DOMAIN rows : rows'[j].msg = rows[j].msg /\ rows'[j].cells = rows[j].cells,
         UNCHANGED <<loaded, watched, builtAt, behind>>
  PROVE  Rests(m)
<1>1. rows \in Seq(Row) /\ rows' \in Seq(Row)
  BY DEF Shaped, ScreenShaped
<1>2. /\ Shown(m) <=> \E k \in DOMAIN rows : rows[k].msg = m
      /\ Shown(m)' <=> \E k \in DOMAIN rows' : rows'[k].msg = m
  BY <1>1, SpotFinds, ShowsRow
<1>3. QED
  BY <1>2 DEF Rests, Stays, RowKept

LEMMA ReactionTouches ==
  ASSUME Shaped, Shaped', Listing, Reacting, NEW m \in Msgs
  PROVE  Rests(m) /\ (Settled(m) \/ Afresh(m))
<1>1. PICK k \in {"react", "unreact"}, n \in Msgs, op \in Emojis \cup {"remove"} :
        (k = "react" => op \in Emojis) /\ SetReaction(k, n, op)
  BY DEF Reacting
<1>2. /\ DOMAIN rows' = DOMAIN rows
      /\ \A j \in DOMAIN rows :
           /\ rows'[j].msg = rows[j].msg /\ rows'[j].text = rows[j].text
           /\ rows'[j].count = rows[j].count /\ (rows'[j].dead <=> rows[j].dead)
           /\ rows'[j].cells = rows[j].cells
           /\ rows[j].msg # n => rows'[j].chips = rows[j].chips
  BY <1>1, ReactionKeeps
<1>3. UNCHANGED <<loaded, watched, builtAt, behind, account>>
  BY <1>1 DEF SetReaction
<1>4. Rests(m)
  BY <1>2, <1>3, WrittenTouches
<1>5. CASE n # m
  <2>1. TextKept(m)
    BY <1>2, <1>5 DEF TextKept, SameText
  <2>2. overlay' = [overlay EXCEPT !.reactions[n] = op] /\ overlay \in Overlay
    BY <1>1 DEF SetReaction, Shaped, ScreenShaped
  <2>3. SlotsKept(m)
    BY <1>3, <1>5, <2>2 DEF SlotsKept, Overlay
  <2>4. QED
    BY <1>4, <2>1, <2>3 DEF Settled
<1>6. CASE n = m
  <2>1. PICK v \in Texts \cup Emojis \cup {"none"} : v = IF k = "react" THEN op ELSE "none"
    BY <1>1
  <2>2. Publish(k, m, v) /\ k # "edit"
    BY <1>1, <1>6, <2>1 DEF SetReaction
  <2>3. Op(k, m, v) \in BagToSet(ops')
    BY <2>2, Published DEF Shaped
  <2>4. Op(k, m, v).msg = m
    BY DEF Op
  <2>5. QED
    BY <1>4, <2>3, <2>4 DEF Afresh
<1>7. QED
  BY <1>5, <1>6

LEMMA SubmitTouches ==
  ASSUME Shaped, Shaped', Listing, NEW v \in Texts, SubmitEdit(v), NEW m \in Msgs
  PROVE  Rests(m) /\ (Settled(m) \/ Afresh(m))
<1>0. UNCHANGED <<log, loaded, watched, builtAt, behind, account>> /\ editing \subseteq Msgs
  BY DEF SubmitEdit, store, Shaped, ScreenShaped
<1>1. PICK n \in Msgs :
        /\ overlay' = [overlay EXCEPT !.edits[n] = v]
        /\ rows' = IF Shown(n) THEN [rows EXCEPT ![Spot(n)] = WithEdit(@, v)] ELSE rows
        /\ Publish("edit", n, v)
  BY <1>0 DEF SubmitEdit
<1>2. /\ DOMAIN rows' = DOMAIN rows
      /\ \A j \in DOMAIN rows :
           /\ rows'[j].msg = rows[j].msg /\ rows'[j].chips = rows[j].chips
           /\ rows'[j].dead <=> rows[j].dead
           /\ rows'[j].cells = rows[j].cells
           /\ rows[j].msg # n => rows'[j].text = rows[j].text
                                 /\ rows'[j].count = rows[j].count
  BY <1>0, <1>1, SubmitKeeps
<1>3. Rests(m)
  BY <1>0, <1>2, WrittenTouches
<1>4. CASE n # m
  <2>1. TextKept(m)
    BY <1>2, <1>4 DEF TextKept, SameText
  <2>2. overlay' = [overlay EXCEPT !.edits[n] = v] /\ overlay \in Overlay
    BY <1>1 DEF Shaped, ScreenShaped
  <2>3. SlotsKept(m)
    BY <1>0, <1>4, <2>2 DEF SlotsKept, Overlay
  <2>4. QED
    BY <1>3, <2>1, <2>3 DEF Settled
<1>5. CASE n = m
  <2>1. Op("edit", m, v) \in BagToSet(ops')
    BY <1>1, <1>5, Published DEF Shaped
  <2>2. Op("edit", m, v).msg = m
    BY DEF Op
  <2>3. QED
    BY <1>3, <2>1, <2>2 DEF Afresh
<1>6. QED
  BY <1>4, <1>5

LEMMA ElseTouches ==
  ASSUME Shaped, Shaped', Listing, [Next]_vars, ~Landing, NEW m \in Msgs
  PROVE  Gone \/ (Rests(m) /\ (Settled(m) \/ Afresh(m)))
<1>1. ASSUME UNCHANGED <<account, overlay, rows, loaded, watched, builtAt, behind>>
      PROVE  Rests(m) /\ Settled(m)
  BY <1>1, RowsStay DEF Rests, Stays, Settled, SlotsKept
<1>2. CASE Reacting
  BY <1>2, ReactionTouches
<1>3. CASE Aside
  BY <1>3, AsideTouches
<1>4. ASSUME NEW v \in Texts, SubmitEdit(v) PROVE Rests(m) /\ (Settled(m) \/ Afresh(m))
  BY <1>4, SubmitTouches
<1>5. ASSUME NEW a \in Accounts, SwitchTo(a) PROVE Gone
  BY <1>5 DEF SwitchTo, Gone
<1>6. ASSUME NEW n \in Msgs, Receive(n) PROVE Rests(m) /\ Settled(m)
  BY <1>1, <1>6 DEF Receive, history
<1>7. CASE PeerStores
  BY <1>1, <1>7 DEF PeerStores, history
<1>8. ASSUME NEW o \in BagToSet(ops), Stored(o) PROVE Rests(m) /\ Settled(m)
  BY <1>1, <1>8 DEF Stored, history
<1>9. CASE UNCHANGED vars
  BY <1>1, <1>9 DEF vars
<1>10. QED
  BY <1>2, <1>3, <1>4, <1>5, <1>6, <1>7, <1>8, <1>9, Steps

LEMMA HiddenGrows ==
  ASSUME Shaped, [Next]_vars, NEW m, Hidden(m)
  PROVE  Gone \/ Hidden(m)'
<1>0. account \in Accounts /\ hidden \in [Accounts -> SUBSET Msgs]
  BY DEF Shaped, ScreenShaped
<1>1. CASE UNCHANGED <<hidden, echoed, account>>
  BY <1>1 DEF Hidden
<1>2. ASSUME NEW n \in Msgs, Hide(n) PROVE Hidden(m)'
  BY <1>0, <1>2 DEF Hide, Hidden
<1>3. ASSUME NEW a \in Accounts, SwitchTo(a) PROVE Gone
  BY <1>3 DEF SwitchTo, Gone
<1>4. QED
  BY <1>1, <1>2, <1>3, HiddenFrame

LEMMA AfreshIs ==
  ASSUME NEW m, NEW q, Afresh(m)
  PROVE  Refreshing(m, q)'
BY DEF Afresh, Refreshing, Operating, Repaint
-----------------------------------------------------------------------------
(* What is filed, and what has been seen of it.                            *)

(* What is known of the whole chat: what anything is about is filed, and   *)
(* a tap has seen its message.                                             *)
Touched(m)  == m \in editing \/ Operating(m)
TouchedFiled == \A m \in Msgs : Touched(m) => IsFiled(m)
EventsFiled == \A i \in DOMAIN uiq : uiq[i].kind = "event" => IsFiled(uiq[i].msg)
TapsSee ==
  /\ \A j \in BagToSet(reads) : j.kind = "tap" => IsFiled(j.msg)
  /\ \A h \in BagToSet(held) : h.kind = "tap" => \E p \in DOMAIN log : p <= h.n /\ FiledAt(h.msg, p)
Ground == /\ RecordsLater /\ BuiltTypes /\ FeedIsTail /\ InflightBacked
          /\ TouchedFiled /\ EventsFiled /\ TapsSee

LEMMA FiledIs ==
  ASSUME NEW m
  PROVE  IsFiled(m) <=> \E p \in DOMAIN log : FiledAt(m, p)
BY DEF IsFiled, FiledAt

LEMMA FiledStays ==
  ASSUME Shaped, [Next]_vars, NEW m
  PROVE  /\ IsFiled(m) => IsFiled(m)'
         /\ \A p \in DOMAIN log : FiledAt(m, p) => FiledAt(m, p)'
BY LogGrows DEF IsFiled, FiledAt

(* The next record the watcher is called back for.                         *)
LEMMA NextHeard ==
  ASSUME Shaped, FeedIsTail, feed # <<>>
  PROVE  /\ Heard + 1 \in DOMAIN log /\ Head(feed) = log[Heard + 1]
         /\ Head(feed) \in Filed
<1>1. /\ Len(log) \in Nat /\ Len(feed) \in Nat /\ Heard \in Nat /\ log \in Seq(Filed)
      /\ Heard = Len(log) - Len(feed) /\ \A i \in DOMAIN feed : feed[i] = log[Heard + i]
  BY DEF Shaped, ScreenShaped, TasksShaped, FeedIsTail, Heard
<1>2. Head(feed) = feed[1] /\ 1 \in DOMAIN feed /\ Len(feed) >= 1 /\ Head(feed) \in Filed
  BY FeedTyped DEF Shaped, TasksShaped
<1>3. Heard + 1 \in 1 .. Len(log)
  BY <1>1, <1>2
<1>4. QED
  BY <1>1, <1>2, <1>3

LEMMA OpsTouched ==
  ASSUME Shaped, [Next]_vars, NEW o \in BagToSet(ops')
  PROVE  \/ \E p \in BagToSet(ops) : p.msg = o.msg
         \/ o.msg \in Msgs /\ (Shown(o.msg) \/ o.msg \in editing)
<1>1. ASSUME NEW x \in BagToSet(ops), Stored(x)
      PROVE  \E p \in BagToSet(ops) : p.msg = o.msg
  <2>1. BagToSet(ops') \subseteq BagToSet(ops) \cup {[x EXCEPT !.stored = TRUE]}
    BY <1>1, StoredOps
  <2>2. [x EXCEPT !.stored = TRUE].msg = x.msg
    BY OpTyped DEF Operation
  <2>3. QED
    BY <2>1, <2>2
<1>2. ASSUME NEW x \in BagToSet(ops), Completed(x)
      PROVE  \E p \in BagToSet(ops) : p.msg = o.msg
  BY <1>2, CompletedOps
<1>3. ASSUME NEW k \in {"react", "unreact", "edit", "delete"}, NEW m \in Msgs,
             NEW v \in Texts \cup Emojis \cup {"none"},
             Publish(k, m, v), k = "edit" => v \in Texts, Shown(m) \/ m \in editing
      PROVE  \/ \E p \in BagToSet(ops) : p.msg = o.msg
             \/ o.msg \in Msgs /\ (Shown(o.msg) \/ o.msg \in editing)
  <2>1. BagToSet(ops') = BagToSet(ops) \cup {Op(k, m, v)}
    BY <1>3, Published DEF Shaped
  <2>2. Op(k, m, v).msg = m
    BY DEF Op
  <2>3. QED
    BY <1>3, <2>1, <2>2
<1>4. QED
  BY <1>1, <1>2, <1>3, OpsSteps

LEMMA DonesTouched ==
  ASSUME Shaped, [Next]_vars, NEW i \in DOMAIN uiq', uiq'[i].kind = "done"
  PROVE  Operating(uiq'[i].op.msg)
<1>0. uiq \in Seq(Posted)
  BY DEF Shaped, TasksShaped
<1>1. CASE UNCHANGED uiq
  BY <1>1 DEF Operating, DoneOn
<1>2. ASSUME NEW c \in Posted, Post(c), Reported(c) PROVE Operating(uiq'[i].op.msg)
  <2>1. /\ \A j \in DOMAIN uiq : uiq'[j] = uiq[j]
        /\ uiq'[Len(uiq) + 1] = c
        /\ i \in DOMAIN uiq \/ i = Len(uiq) + 1
    BY <1>0, <1>2, UiqPosted
  <2>2. QED
    BY <1>2, <2>1 DEF Reported, Operating, DoneOn
<1>3. ASSUME uiq # <<>>, NEW more \in Seq(Autoload), Take(more)
      PROVE  Operating(uiq'[i].op.msg)
  <2>1. (i + 1 \in DOMAIN uiq /\ uiq'[i] = uiq[i + 1]) \/ uiq'[i] \in Autoload
    BY <1>0, <1>3, UiqTaken
  <2>2. uiq'[i] \notin Autoload
    BY DEF Autoload
  <2>3. QED
    BY <2>1, <2>2 DEF Operating, DoneOn
<1>4. QED
  BY <1>1, <1>2, <1>3, QueueSteps

LEMMA EditingSteps ==
  ASSUME Shaped, [Next]_vars, NEW m \in editing'
  PROVE  m \in editing \/ Shown(m)
<1>1. CASE Reacting
  BY <1>1 DEF Reacting, SetReaction
<1>2. CASE Aside
  BY <1>2 DEF Aside, RequestEdit, Alive, Delete, Hide, Tap, CancelEdit, Select, RunDone,
              RunAutoload, Report, Completed, Read, Hand, Loaded, LoadFailed
<1>3. CASE Landing
  BY <1>3, LandingFrame
<1>4. CASE \/ \E v \in Texts : SubmitEdit(v)
           \/ \E a \in Accounts : SwitchTo(a)
           \/ \E n \in Msgs : Receive(n)
           \/ \E o \in BagToSet(ops) : Stored(o)
           \/ PeerStores
  BY <1>4 DEF SubmitEdit, SwitchTo, Receive, Stored, PeerStores
<1>5. QED
  BY <1>1, <1>2, <1>3, <1>4, Steps DEF vars

LEMMA TouchedSteps ==
  ASSUME Shaped, [Next]_vars, NEW m \in Msgs, Touched(m)'
  PROVE  Touched(m) \/ Shown(m)
<1>1. \/ m \in editing' \/ \E o \in BagToSet(ops') : o.msg = m
      \/ \E i \in DOMAIN uiq' : uiq'[i].kind = "done" /\ uiq'[i].op.msg = m
  BY DEF Touched, Operating, DoneOn
<1>2. QED
  BY <1>1, OpsTouched, DonesTouched, EditingSteps DEF Touched, Operating

LEMMA ShownFiled ==
  ASSUME Shaped, Listing, NEW m, Shown(m)
  PROVE  IsFiled(m)
<1>1. \E k \in DOMAIN rows : rows[k].msg = m
  BY SpotFinds DEF Shaped, ScreenShaped
<1>2. QED
  BY <1>1 DEF Listing, RowsFiled

LEMMA TouchedKept ==
  ASSUME Shaped, Listing, TouchedFiled, [Next]_vars
  PROVE  TouchedFiled'
<1> SUFFICES ASSUME NEW m \in Msgs, Touched(m)' PROVE IsFiled(m)'
  BY DEF TouchedFiled
<1>1. IsFiled(m)
  BY TouchedSteps, ShownFiled DEF TouchedFiled
<1>2. QED
  BY <1>1, FiledStays

LEMMA RecordsKept ==
  ASSUME Shaped, RecordsLater, TouchedFiled, [Next]_vars
  PROVE  RecordsLater'
<1> SUFFICES ASSUME NEW q \in DOMAIN log', NEW m \in Msgs, About(q, m)'
             PROVE  \E p \in DOMAIN log' : p < q /\ FiledAt(m, p)'
  BY DEF RecordsLater
<1>0. /\ DOMAIN log = 1 .. Len(log) /\ Len(log) \in Nat
      /\ \A i \in DOMAIN log : i \in DOMAIN log' /\ log'[i] = log[i]
  BY LogGrows
<1>1. CASE q \in DOMAIN log
  <2>1. About(q, m)
    BY <1>0, <1>1 DEF About
  <2>2. PICK p \in DOMAIN log : p < q /\ FiledAt(m, p)
    BY <1>1, <2>1 DEF RecordsLater
  <2>3. QED
    BY <1>0, <2>2 DEF FiledAt
<1>2. CASE q \notin DOMAIN log
  <2>1. PICK r \in Filed : Stores(r)
    BY <1>2, LogSteps DEF Report
  <2>2. /\ \A i \in DOMAIN log' : i \in DOMAIN log \/ i = Len(log) + 1
        /\ log'[Len(log) + 1] = r
    BY <2>1, StoreShaped DEF Stores
  <2>3. q = Len(log) + 1 /\ r.msg = m /\ r.kind # "chat"
    BY <1>2, <2>2 DEF About
  <2>4. IsFiled(m)
    BY <2>1, <2>3 DEF Stores, TouchedFiled, Touched, Operating
  <2>5. PICK p \in DOMAIN log : FiledAt(m, p)
    BY <2>4, FiledIs
  <2>6. p < q
    BY <1>0, <2>3, <2>5
  <2>7. QED
    BY <1>0, <2>5, <2>6 DEF FiledAt
<1>3. QED
  BY <1>1, <1>2

LEMMA EventsKept ==
  ASSUME Shaped, RecordsLater, FeedIsTail, EventsFiled, [Next]_vars
  PROVE  EventsFiled'
<1> SUFFICES ASSUME NEW i \in DOMAIN uiq', uiq'[i].kind = "event"
             PROVE  IsFiled(uiq'[i].msg)
  BY FiledStays DEF EventsFiled
<1>0. uiq \in Seq(Posted)
  BY DEF Shaped, TasksShaped
<1>1. CASE UNCHANGED uiq
  BY <1>1 DEF EventsFiled
<1>2. ASSUME NEW c \in Posted, Post(c), Reported(c) PROVE IsFiled(uiq'[i].msg)
  <2>1. /\ \A j \in DOMAIN uiq : uiq'[j] = uiq[j]
        /\ uiq'[Len(uiq) + 1] = c
        /\ i \in DOMAIN uiq \/ i = Len(uiq) + 1
    BY <1>0, <1>2, UiqPosted
  <2>2. CASE i \in DOMAIN uiq
    BY <2>1, <2>2 DEF EventsFiled
  <2>3. CASE i = Len(uiq) + 1
    <3>1. Report /\ c = Sighting(Head(feed)) /\ c.kind = "event"
      BY <1>2, <2>1, <2>3 DEF Reported
    <3>2. Head(feed) \in Filed /\ Heard + 1 \in DOMAIN log /\ Head(feed) = log[Heard + 1]
      BY <3>1, NextHeard DEF Report
    <3>3. c.msg = Head(feed).msg /\ Head(feed).kind # "chat" /\ Head(feed).msg \in Msgs
      BY <3>1, <3>2 DEF Sighting, Filed, Record
    <3>4. About(Heard + 1, c.msg)
      BY <3>2, <3>3 DEF About
    <3>5. IsFiled(c.msg)
      BY <3>2, <3>3, <3>4, FiledIs DEF RecordsLater
    <3>6. QED
      BY <2>1, <2>3, <3>5
  <2>4. QED
    BY <2>1, <2>2, <2>3
<1>3. ASSUME uiq # <<>>, NEW more \in Seq(Autoload), Take(more)
      PROVE  IsFiled(uiq'[i].msg)
  <2>1. (i + 1 \in DOMAIN uiq /\ uiq'[i] = uiq[i + 1]) \/ uiq'[i] \in Autoload
    BY <1>0, <1>3, UiqTaken
  <2>2. uiq'[i] \notin Autoload
    BY DEF Autoload
  <2>3. QED
    BY <2>1, <2>2 DEF EventsFiled
<1>4. QED
  BY <1>1, <1>2, <1>3, QueueSteps

LEMMA TapsKept ==
  ASSUME Shaped, Listing, TapsSee, [Next]_vars
  PROVE  TapsSee'
<1>0. /\ IsBag(reads, ReadJob) /\ IsBag(held, Snap) /\ Len(log) \in Nat
      /\ DOMAIN log = 1 .. Len(log)
      /\ \A i \in DOMAIN log : i \in DOMAIN log' /\ log'[i] = log[i]
  BY LogGrows DEF Shaped, TasksShaped
<1>1. ASSUME NEW j \in BagToSet(reads'), j.kind = "tap"
      PROVE  j \in BagToSet(reads) \/ Shown(j.msg)
  <2>1. ASSUME NEW k, NEW n, Job(k, n) \in ReadJob, Ask(k, n)
        PROVE  j \in BagToSet(reads) \/ j = Job(k, n)
    BY <2>1, Asked DEF Shaped
  <2>2. CASE TapsAside
    <3>1. ASSUME NEW k \in {"refresh", "rebuild", "list", "open"}, NEW n,
                 Job(k, n) \in ReadJob, Ask(k, n)
          PROVE  j \in BagToSet(reads)
      BY <1>1, <2>1, <3>1 DEF Job
    <3>2. QED
      BY <2>2, <3>1 DEF TapsAside
  <2>3. ASSUME NEW n \in Msgs, Tap(n) PROVE j \in BagToSet(reads) \/ Shown(j.msg)
    <3>1. Ask("tap", n) /\ Shown(n) /\ Job("tap", n) \in ReadJob /\ Job("tap", n).msg = n
      BY <2>3, JobsRead DEF Tap, Job
    <3>2. QED
      BY <2>1, <3>1
  <2>4. ASSUME NEW x \in BagToSet(reads), Read(x) PROVE j \in BagToSet(reads)
    BY <1>0, <2>4, BagTake DEF Read
  <2>5. ASSUME NEW l \in BagToSet(loads), Loaded(l) \/ LoadFailed(l)
        PROVE  j \in BagToSet(reads)
    <3>1. UNCHANGED reads \/ Ask("refresh", l.msg)
      BY <2>5 DEF Loaded, LoadFailed
    <3>2. Job("refresh", l.msg) \in ReadJob /\ Job("refresh", l.msg).kind = "refresh"
      BY LoadTyped, JobsRead DEF Job
    <3>3. QED
      BY <1>1, <2>1, <3>1, <3>2
  <2>6. CASE RunAutoload \/ RunTap
    BY <2>6 DEF RunAutoload, RunTap, tasks
  <2>7. ASSUME NEW h \in BagToSet(held), Hand(h) PROVE j \in BagToSet(reads)
    BY <2>7 DEF Hand
  <2>8. QED
    BY <2>2, <2>3, <2>4, <2>5, <2>6, <2>7, TapSteps
<1>2. ASSUME NEW h \in BagToSet(held'), h.kind = "tap"
      PROVE  \/ h \in BagToSet(held)
             \/ \E j \in BagToSet(reads) : h = Reading(j)
  <2>1. ASSUME NEW x \in BagToSet(reads), Read(x)
        PROVE  h \in BagToSet(held) \/ h = Reading(x)
    BY <2>1, ReadShape
  <2>2. ASSUME NEW x \in BagToSet(held), Hand(x) PROVE h \in BagToSet(held)
    BY <1>0, <2>2, BagTake DEF Hand
  <2>3. CASE TapsAside \/ RunAutoload \/ RunTap
    BY <2>3 DEF TapsAside, RunAutoload, RunTap, tasks
  <2>4. ASSUME NEW n \in Msgs, Tap(n) PROVE UNCHANGED held
    BY <2>4 DEF Tap
  <2>5. ASSUME NEW l \in BagToSet(loads), Loaded(l) \/ LoadFailed(l) PROVE UNCHANGED held
    BY <2>5 DEF Loaded, LoadFailed
  <2>6. QED
    BY <2>1, <2>2, <2>3, <2>4, <2>5, TapSteps
<1>3. ASSUME NEW j \in BagToSet(reads'), j.kind = "tap" PROVE IsFiled(j.msg)'
  <2>1. IsFiled(j.msg)
    BY <1>1, <1>3, ShownFiled DEF TapsSee
  <2>2. QED
    BY <2>1, FiledStays
<1>4. ASSUME NEW h \in BagToSet(held'), h.kind = "tap"
      PROVE  \E p \in DOMAIN log' : p <= h.n /\ FiledAt(h.msg, p)'
  <2>1. \E p \in DOMAIN log : p <= h.n /\ FiledAt(h.msg, p)
    <3>1. CASE h \in BagToSet(held)
      BY <1>4, <3>1 DEF TapsSee
    <3>2. ASSUME NEW j \in BagToSet(reads), h = Reading(j)
          PROVE  \E p \in DOMAIN log : p <= h.n /\ FiledAt(h.msg, p)
      <4>1. j.kind = "tap" /\ h.msg = j.msg /\ h.n = Len(log)
        BY <1>4, <3>2 DEF Reading
      <4>2. PICK p \in DOMAIN log : FiledAt(h.msg, p)
        BY <4>1, FiledIs DEF TapsSee
      <4>3. QED
        BY <1>0, <4>1, <4>2
    <3>3. QED
      BY <1>2, <1>4, <3>1, <3>2
  <2>2. QED
    BY <1>0, <2>1, FiledStays
<1>5. QED
  BY <1>3, <1>4 DEF TapsSee
-----------------------------------------------------------------------------
(* What a build has seen.                                                  *)

LEMMA BuiltKept ==
  ASSUME Shaped, Listing, BuiltTypes, [Next]_vars
  PROVE  BuiltTypes'
<1>0. /\ Len(log) \in Nat /\ Len(log') \in Nat /\ Len(log) <= Len(log')
      /\ log \in Seq(Filed) /\ DOMAIN log = 1 .. Len(log)
      /\ builtAt \in [Msgs -> 0 .. Len(log)] /\ behind \subseteq Msgs
  BY LogGrows DEF BuiltTypes, Shaped, ScreenShaped
<1>1. CASE UNCHANGED <<builtAt, behind>>
  BY <1>0, <1>1 DEF BuiltTypes
<1>2. CASE Landing
  <2> DEFINE c == Head(uiq)
  <2>0. c.n \in Nat /\ c.n <= Len(log) /\ UNCHANGED log
    BY <1>2, LandingFrame, HeadTyped
  <2>1. ASSUME NEW S, NoteSeen(c.n, S) PROVE builtAt' \in [Msgs -> 0 .. Len(log')]
    BY <1>0, <2>0, <2>1 DEF NoteSeen
  <2>2. ASSUME NEW S, NoteBuilt(c.n, S), S \subseteq Msgs PROVE BuiltTypes'
    BY <1>0, <2>1, <2>2 DEF NoteBuilt, BuiltTypes
  <2>3. Since(c.n) \subseteq Msgs
    BY <1>0, <2>0 DEF Since, Filed, Record
  <2>4. CASE RunList \/ RunOpen
    <3>1. \/ /\ behind' \in {Since(c.n), {}}
             /\ \E S : builtAt' = [m \in Msgs |-> IF m \in S THEN Len(log) ELSE c.n]
          \/ UNCHANGED <<builtAt, behind>>
      BY <2>4 DEF RunList, RunOpen
    <3>2. QED
      BY <1>0, <1>1, <2>0, <2>3, <3>1 DEF BuiltTypes
  <2>5. CASE RunRefresh \/ RunEvent \/ RunTap
    <3>1. c.msg \in Msgs
      BY <2>5, HeadTyped DEF RunRefresh, RunEvent, RunTap, Turn
    <3>2. UNCHANGED <<builtAt, behind>> \/ RefreshRow(c.n, c.msg)
      BY <2>5 DEF RunRefresh, RunEvent, RunTap
    <3>3. \/ UNCHANGED <<builtAt, behind>> \/ NoteBuilt(c.n, {c.msg})
          \/ NoteSeen(c.n, {c.msg} \cap behind) /\ UNCHANGED behind
      BY <3>2 DEF RefreshRow
    <3>4. QED
      BY <1>0, <1>1, <2>1, <2>2, <3>1, <3>3 DEF BuiltTypes
  <2>6. CASE RunEcho
    <3>1. c.msg \in Msgs
      BY <2>6, HeadTyped DEF RunEcho, Turn
    <3>2. UNCHANGED <<builtAt, behind>> \/ NoteBuilt(c.n, {c.msg})
      BY <2>6 DEF RunEcho
    <3>3. QED
      BY <1>1, <2>2, <3>1, <3>2
  <2>7. CASE RunRebuild
    <3>1. UNCHANGED <<builtAt, behind>> \/ NoteBuilt(c.n, Msgs)
      BY <2>7 DEF RunRebuild
    <3>2. QED
      BY <1>1, <2>2, <3>1
  <2>8. QED
    BY <1>2, <2>4, <2>5, <2>6, <2>7 DEF Landing
<1>3. CASE Reacting
  BY <1>1, <1>3 DEF Reacting, SetReaction
<1>4. CASE Aside
  BY <1>1, <1>4, AsideQuiet
<1>5. ASSUME NEW v \in Texts, SubmitEdit(v) PROVE BuiltTypes'
  BY <1>1, <1>5 DEF SubmitEdit
<1>6. ASSUME NEW a \in Accounts, SwitchTo(a) PROVE BuiltTypes'
  BY <1>0, <1>6 DEF SwitchTo, BuiltTypes
<1>7. ASSUME NEW n \in Msgs, Receive(n) PROVE BuiltTypes'
  BY <1>1, <1>7 DEF Receive, history
<1>8. CASE PeerStores
  BY <1>1, <1>8 DEF PeerStores, history
<1>9. ASSUME NEW o \in BagToSet(ops), Stored(o) PROVE BuiltTypes'
  BY <1>1, <1>9 DEF Stored, history
<1>10. CASE UNCHANGED vars
  BY <1>1, <1>10 DEF vars
<1>11. QED
  BY <1>2, <1>3, <1>4, <1>5, <1>6, <1>7, <1>8, <1>9, <1>10, Steps

LEMMA GroundKept ==
  ASSUME Shaped, Listing, Ground, [Next]_vars
  PROVE  Ground'
BY RecordsKept, BuiltKept, FeedKept, InflightKept, TouchedKept, EventsKept, TapsKept
   DEF Ground
-----------------------------------------------------------------------------
(* What the landing of a snapshot has seen of a message.                   *)
LEMMA AnewSees ==
  ASSUME Shaped, NEW m \in Msgs, Anew(m), watched', NEW q \in DOMAIN log, log[q].msg = m
  PROVE  q <= builtAt'[m]
<1>1. /\ Len(log) \in Nat /\ DOMAIN log = 1 .. Len(log) /\ Head(uiq).n \in Nat
  BY LandingFrame, HeadTyped DEF Anew, Shaped, ScreenShaped
<1>2. CASE q <= Head(uiq).n
  BY <1>1, <1>2 DEF Anew
<1>3. CASE q > Head(uiq).n
  <2>1. q \in Head(uiq).n + 1 .. Len(log)
    BY <1>1, <1>3
  <2>2. m \in Since(Head(uiq).n)
    BY <2>1 DEF Since
  <2>3. QED
    BY <1>1, <2>2 DEF Anew
<1>4. QED
  BY <1>1, <1>2, <1>3

(* Otherwise a build never sees less than an earlier one.                  *)
LEMMA SawMore ==
  ASSUME Shaped, BuiltTypes, NEW m \in Msgs, Rests(m) \/ Noted(m) \/ Made(m)
  PROVE  /\ builtAt[m] \in Nat /\ builtAt'[m] \in Nat /\ builtAt[m] <= builtAt'[m]
         /\ Noted(m) \/ Made(m) => Head(uiq).n \in Nat /\ Head(uiq).n <= builtAt'[m]
         /\ UNCHANGED <<loaded, watched>>
         /\ Made(m) /\ m \notin behind' => builtAt'[m] = Head(uiq).n
<1>1. builtAt[m] \in Nat
  BY DEF BuiltTypes
<1>2. Noted(m) \/ Made(m) => Head(uiq).n \in Nat
  BY LandingFrame, HeadTyped DEF Noted, Made
<1>3. UNCHANGED <<loaded, watched>>
  BY DEF Rests, Noted, Made, Stays
<1>4. CASE Rests(m)
  <2>1. builtAt'[m] = builtAt[m]
    BY <1>4 DEF Rests
  <2>2. Noted(m) \/ Made(m) => Saw(Head(uiq).n, m)
    BY DEF Noted, Made
  <2>3. Made(m) /\ m \notin behind' => ~(Head(uiq).n < builtAt[m])
    BY DEF Made
  <2>4. QED
    BY <1>1, <1>2, <1>3, <2>1, <2>2, <2>3 DEF Saw
<1>5. CASE Noted(m) \/ Made(m)
  <2>1. Saw(Head(uiq).n, m)
    BY <1>5 DEF Noted, Made
  <2>2. Made(m) /\ m \notin behind' => ~(Head(uiq).n < builtAt[m])
    BY DEF Made
  <2>3. QED
    BY <1>1, <1>2, <1>3, <1>5, <2>1, <2>2 DEF Saw
<1>6. QED
  BY <1>4, <1>5
-----------------------------------------------------------------------------
(* What is known of a message m that is filed at position p.               *)
Echo(i, m, p) == i \in DOMAIN uiq /\ Is(uiq[i], "echo", m) /\ uiq[i].n >= p

(* A row shows a message that its last build has seen, ..                  *)
RowSeen(m, p) == (\E k \in DOMAIN rows : rows[k].msg = m) => p <= builtAt[m]
(* .. and is there, unless hidden, taken away by an older rebuild.         *)
RowThere(m, p) == /\ loaded /\ ~Hidden(m) /\ m \notin behind /\ p <= builtAt[m]
                  => Shown(m)
(* It is what was built, or is to be refreshed.                            *)
RowBuilt(m, p) == \A k \in DOMAIN rows : rows[k].msg = m /\ m \notin behind =>
                    SameText(rows[k], Build(builtAt[m], m)) \/ Refreshing(m, p)
(* While the watcher runs, the message is built, to be called back for, or *)
(* about to be appended, ..                                                *)
Told(m, p) == Live => p <= builtAt[m] \/ p > Heard \/ \E i \in DOMAIN uiq : Echo(i, m, p)
(* .. before anything that happens to it, ..                               *)
EchoFirst(m, p) ==
  Live => \A k \in DOMAIN uiq : Is(uiq[k], "event", m) =>
            p <= builtAt[m] \/ \E i \in DOMAIN uiq : i < k /\ Echo(i, m, p)
(* .. and before the user does something to it.                            *)
Acted(m, p) == Touched(m) /\ Live => p <= builtAt[m]
(* What is filed about it is built, to be called back for, to be landed,   *)
(* or to be seen by a refresh.                                             *)
Reflected(m, p) ==
  Live /\ ~Hidden(m) => \A q \in DOMAIN log : About(q, m) =>
    \/ q <= builtAt[m]
    \/ q > Heard /\ log[q].kind # "unreact"
    \/ \E k \in DOMAIN uiq : Is(uiq[k], "event", m) /\ uiq[k].n >= q
    \/ p <= builtAt[m] /\ Refreshing(m, q)
(* An attachment shown as loading is being loaded, one that is decoded is  *)
(* shown, or the row is to be refreshed.                                   *)
CellsComing(m, p) ==
  \A k \in DOMAIN rows : rows[k].msg = m => \A key \in Keys[m] :
    /\ rows[k].cells[key] = "loading" =>
         key \in broken \/ Fetching(key, m) \/ Repaint(m, p)
    /\ key \in cache => rows[k].cells[key] = "image" \/ Repaint(m, p)

Followed(m, p) ==
  /\ RowSeen(m, p) /\ RowThere(m, p) /\ RowBuilt(m, p) /\ Told(m, p) /\ EchoFirst(m, p)
  /\ Acted(m, p) /\ Reflected(m, p) /\ CellsComing(m, p)

LEMMA GoneFollowed ==
  ASSUME Gone, NEW m, NEW p
  PROVE  Followed(m, p)'
<1>1. DOMAIN rows' = {}
  BY DEF Gone
<1>2. ~Live'
  BY DEF Gone, Live
<1>3. RowSeen(m, p)' /\ RowThere(m, p)' /\ RowBuilt(m, p)' /\ CellsComing(m, p)'
  BY <1>1 DEF Gone, RowSeen, RowThere, RowBuilt, CellsComing
<1>4. Told(m, p)' /\ EchoFirst(m, p)' /\ Acted(m, p)' /\ Reflected(m, p)'
  BY <1>2 DEF Told, EchoFirst, Acted, Reflected
<1>5. QED
  BY <1>3, <1>4 DEF Followed

(* A message that has just been filed is not built at all.                 *)
LEMMA NewFollowed ==
  ASSUME Shaped, Listing, Ground, [Next]_vars, NEW m \in Msgs, NEW p \in DOMAIN log',
         FiledAt(m, p)', p \notin DOMAIN log
  PROVE  Followed(m, p)'
<1>0. /\ Len(log) \in Nat /\ DOMAIN log = 1 .. Len(log) /\ DOMAIN log' = 1 .. Len(log')
      /\ \A i \in DOMAIN log : i \in DOMAIN log' /\ log'[i] = log[i]
  BY LogGrows
<1>1. PICK r \in Filed : Stores(r)
  BY LogSteps DEF Report
<1>2. p = Len(log) + 1 /\ r.kind = "chat" /\ r.msg = m
  <2>1. /\ \A i \in DOMAIN log' : i \in DOMAIN log \/ i = Len(log) + 1
        /\ log'[Len(log) + 1] = r
    BY <1>1, StoreShaped DEF Stores
  <2>2. QED
    BY <2>1 DEF FiledAt
<1>3. /\ ~IsFiled(m)
      /\ UNCHANGED <<hidden, account, overlay, editing, rows, loaded, watched, reads, held,
                     uiq, ops, builtAt>>
  BY <1>1, <1>2 DEF Stores, history
<1>4. builtAt[m] \in 0 .. Len(log) /\ p > builtAt'[m]
  BY <1>0, <1>2, <1>3 DEF Ground, BuiltTypes
<1>5. \A k \in DOMAIN rows' : rows'[k].msg # m
  BY <1>3 DEF Listing, RowsFiled
<1>6. ~Touched(m)
  BY <1>3 DEF Ground, TouchedFiled
<1>7. \A q \in DOMAIN log' : ~About(q, m)'
  <2> SUFFICES ASSUME NEW q \in DOMAIN log', About(q, m)' PROVE FALSE
    OBVIOUS
  <2>1. q \in DOMAIN log
    <3>1. \A i \in DOMAIN log' : i \in DOMAIN log \/ i = Len(log) + 1
      BY <1>1, StoreShaped DEF Stores
    <3>2. QED
      BY <1>2, <3>1 DEF FiledAt, About
  <2>2. About(q, m)
    BY <1>0, <2>1 DEF About
  <2>3. QED
    BY <1>3, <2>1, <2>2, FiledIs DEF Ground, RecordsLater
<1>8. RowSeen(m, p)' /\ RowBuilt(m, p)' /\ CellsComing(m, p)'
  BY <1>5 DEF RowSeen, RowBuilt, CellsComing
<1>9. RowThere(m, p)'
  <2>1. ~(p <= builtAt'[m])
    BY <1>0, <1>2, <1>3, <1>4
  <2>2. QED
    BY <2>1 DEF RowThere
<1>10. Told(m, p)'
  <2>1. ASSUME Live' PROVE p > Heard'
    <3>1. watched /\ feed' = Append(feed, r)
      BY <1>1, <1>3, <2>1 DEF Live, Stores, Store
    <3>2. /\ Len(feed') = Len(feed) + 1 /\ Len(feed) \in Nat /\ Len(log') = Len(log) + 1
      BY <1>1, <3>1, StoreShaped DEF Stores, Shaped, TasksShaped
    <3>3. QED
      BY <1>0, <1>2, <3>2 DEF Heard
  <2>2. QED
    BY <2>1 DEF Told
<1>11. EchoFirst(m, p)'
  <2>1. \A k \in DOMAIN uiq' : ~Is(uiq'[k], "event", m)
    BY <1>3 DEF Ground, EventsFiled, Is
  <2>2. QED
    BY <2>1 DEF EchoFirst
<1>12. Acted(m, p)'
  BY <1>3, <1>6 DEF Acted, Touched, Operating, DoneOn
<1>13. Reflected(m, p)'
  BY <1>7 DEF Reflected
<1>14. QED
  BY <1>8, <1>9, <1>10, <1>11, <1>12, <1>13 DEF Followed
-----------------------------------------------------------------------------
(* What every step does to the row of a message, and what is kept of it.   *)

LEMMA Touches ==
  ASSUME Shaped, Shaped', Listing, BuiltTypes, [Next]_vars, NEW m \in Msgs
  PROVE  \/ Gone \/ Anew(m) \/ Noted(m) \/ Made(m)
         \/ Rests(m) /\ (Settled(m) \/ Afresh(m))
<1>1. CASE Landing
  <2>1. SlotsKept(m)
    BY <1>1, LandingFrame DEF SlotsKept
  <2>2. QED
    BY <1>1, <2>1, LandingTouches DEF Settled
<1>2. CASE ~Landing
  BY <1>2, ElseTouches
<1>3. QED
  BY <1>1, <1>2

LEMMA CurrentIs ==
  ASSUME Shaped, NEW m, NEW p, Current(m, p)
  PROVE  /\ p \in Nat /\ p \in DOMAIN log /\ p <= Len(log) /\ Len(log) \in Nat
         /\ DOMAIN log = 1 .. Len(log) /\ log[p].kind = "chat" /\ log[p].msg = m
BY DEF Current, FiledAt, Shaped, ScreenShaped

(* What is about a message comes after it.                                 *)
LEMMA AboutLater ==
  ASSUME Shaped, FiledOnce, RecordsLater, NEW m \in Msgs, NEW p, Current(m, p),
         NEW q \in DOMAIN log, About(q, m)
  PROVE  p < q
<1>1. PICK i \in DOMAIN log : i < q /\ FiledAt(m, i)
  BY DEF RecordsLater
<1>2. i = p
  BY <1>1 DEF FiledOnce, Current, FiledAt
<1>3. QED
  BY <1>1, <1>2

(* A refresh that has seen the message.                                    *)
LEMMA RefreshSees ==
  ASSUME Shaped, Listing, BuiltTypes, NEW m \in Msgs, NEW p, Current(m, p), RowThere(m, p),
         RunRefresh \/ RunEvent, loaded, Head(uiq).msg = m, Head(uiq).n >= p
  PROVE  /\ Shown(m) => Made(m)
         /\ ~Hidden(m) /\ p <= builtAt[m] => Head(uiq).n <= builtAt'[m]
<1>1. /\ Landing /\ Head(uiq).n \in Nat /\ Head(uiq).n <= Len(log)
      /\ UNCHANGED <<loaded, watched>> /\ RefreshRow(Head(uiq).n, Head(uiq).msg)
  BY LandingFrame, HeadTyped DEF Landing, RunRefresh, RunEvent
<1>2. InSnap(Head(uiq).n, m)
  BY <1>1, InSnapIs DEF Listing
<1>3. /\ Shown(m) => Made(m)
      /\ m \in behind => Made(m) \/ Noted(m)
  BY <1>1, <1>2, RefreshTouches
<1>4. Made(m) \/ Noted(m) => Head(uiq).n <= builtAt'[m]
  BY SawMore
<1>5. ~Hidden(m) /\ p <= builtAt[m] => Shown(m) \/ m \in behind
  BY DEF RowThere
<1>6. QED
  BY <1>3, <1>4, <1>5

LEMMA LandsMakes ==
  ASSUME Shaped, Listing, BuiltTypes, NEW m \in Msgs, NEW p, Current(m, p), RowThere(m, p),
         NEW q \in Nat, p <= q, Lands(m, q), NEW k \in DOMAIN rows, rows[k].msg = m
  PROVE  Made(m)
<1>1. loaded
  BY DEF Listing
<1>2. Shown(m)
  BY SpotFinds DEF Shaped, ScreenShaped
<1>3. Head(uiq).n \in Nat /\ p \in Nat
  BY CurrentIs, LandingFrame, HeadTyped DEF Lands, Landing
<1>4. Head(uiq).n >= p
  BY <1>3 DEF Lands
<1>5. QED
  BY <1>1, <1>2, <1>4, RefreshSees DEF Lands

LEMMA EchoSees ==
  ASSUME Shaped, Listing, BuiltTypes, NEW m \in Msgs, NEW p, Current(m, p), RowSeen(m, p),
         RunEcho, loaded, Head(uiq).msg = m, Head(uiq).n >= p
  PROVE  Gone \/ p <= builtAt'[m]
<1>1. /\ Head(uiq).n \in Nat /\ Head(uiq).n <= Len(log) /\ p \in Nat
  BY LandingFrame, HeadTyped, CurrentIs DEF Landing, RunEcho
<1>2. InSnap(Head(uiq).n, m)
  BY <1>1, InSnapIs DEF Listing
<1>3. CASE Shown(m)
  <2>1. p <= builtAt[m]
    BY <1>3, SpotFinds DEF RowSeen, Shaped, ScreenShaped
  <2>2. Gone \/ Rests(m) \/ Made(m)
    BY EchoTouches
  <2>3. Rests(m) \/ Made(m) => /\ builtAt[m] \in Nat /\ builtAt'[m] \in Nat
                               /\ builtAt[m] <= builtAt'[m]
    BY SawMore
  <2>4. QED
    BY <1>1, <2>1, <2>2, <2>3
<1>4. CASE ~Shown(m)
  <2>1. Made(m)
    BY <1>2, <1>4, EchoTouches
  <2>2. Head(uiq).n <= builtAt'[m] /\ builtAt'[m] \in Nat
    BY <2>1, SawMore
  <2>3. QED
    BY <1>1, <2>2
<1>5. QED
  BY <1>3, <1>4

-----------------------------------------------------------------------------
LEMMA RowSeenKept ==
  ASSUME Shaped, Shaped', Listing, BuiltTypes, [Next]_vars, NEW m \in Msgs, NEW p,
         Current(m, p), RowSeen(m, p)
  PROVE  Gone \/ RowSeen(m, p)'
<1> SUFFICES ASSUME ~Gone, NEW k \in DOMAIN rows', rows'[k].msg = m
             PROVE  p <= builtAt'[m]
  BY DEF RowSeen
<1>0. p \in Nat /\ p <= Len(log) /\ Len(log) \in Nat
  BY CurrentIs
<1>1. CASE Rests(m) \/ Noted(m)
  <2>1. \E j \in DOMAIN rows : rows[j].msg = m
    BY <1>1 DEF Rests, Noted, Stays, RowKept
  <2>2. p <= builtAt[m]
    BY <2>1 DEF RowSeen
  <2>3. builtAt[m] \in Nat /\ builtAt'[m] \in Nat /\ builtAt[m] <= builtAt'[m]
    BY <1>1, SawMore
  <2>4. QED
    BY <1>0, <2>2, <2>3
<1>2. CASE Made(m) \/ Anew(m)
  <2>1. /\ Landing /\ RowFrom(Head(uiq).n, m)
        /\ Head(uiq).n \in Nat /\ Head(uiq).n <= Len(log)
    BY <1>2, LandingFrame, HeadTyped DEF Made, Anew
  <2>2. p <= Head(uiq).n
    BY <2>1, InSnapIs DEF RowFrom, Listing
  <2>3. CASE Made(m)
    BY <1>0, <2>1, <2>2, <2>3, SawMore
  <2>4. CASE Anew(m)
    BY <1>0, <2>1, <2>2, <2>4 DEF Anew
  <2>5. QED
    BY <1>2, <2>3, <2>4
<1>3. QED
  BY <1>1, <1>2, Touches

LEMMA RowThereKept ==
  ASSUME Shaped, Shaped', Listing, BuiltTypes, [Next]_vars, NEW m \in Msgs, NEW p,
         Current(m, p), RowThere(m, p)
  PROVE  Gone \/ RowThere(m, p)'
<1> SUFFICES ASSUME ~Gone, loaded', ~Hidden(m)', m \notin behind', p <= builtAt'[m]
             PROVE  Shown(m)'
  BY DEF RowThere
<1>0. ~Hidden(m)
  BY HiddenGrows
<1>1. CASE Rests(m) \/ Noted(m)
  <2>1. loaded /\ m \notin behind /\ (Shown(m) => Shown(m)') /\ ~Noted(m)
    BY <1>1 DEF Rests, Noted, Stays
  <2>2. p <= builtAt[m]
    BY <1>1, <2>1 DEF Rests
  <2>3. QED
    BY <1>0, <2>1, <2>2 DEF RowThere
<1>2. CASE Made(m) \/ Anew(m)
  <2>1. /\ Landing /\ RowFrom(Head(uiq).n, m)
        /\ Head(uiq).n \in Nat /\ Head(uiq).n <= Len(log)
    BY <1>2, LandingFrame, HeadTyped DEF Made, Anew
  <2>2. builtAt'[m] = Head(uiq).n
    BY <1>2, SawMore DEF Anew
  <2>3. InSnap(Head(uiq).n, m)
    BY <2>1, <2>2, InSnapIs DEF Listing
  <2>4. QED
    BY <1>0, <2>1, <2>3 DEF RowFrom
<1>3. QED
  BY <1>1, <1>2, Touches

LEMMA BuildAgain ==
  ASSUME Shaped, Shaped', [Next]_vars, NEW n \in Nat, n <= Len(log), NEW m \in Msgs,
         SlotsKept(m), NEW r, SameText(r, Build(n, m))
  PROVE  SameText(r, Build(n, m)')
<1>1. n <= Len(log') /\ \A i \in 1 .. n : log'[i] = log[i]
  BY LogGrows
<1>2. SameText(Build(n, m), Build(n, m)')
  BY <1>1, BuildSteady DEF SlotsKept
<1>3. QED
  BY <1>2 DEF SameText

LEMMA RowBuiltKept ==
  ASSUME Shaped, Shaped', Listing, BuiltTypes, [Next]_vars, NEW m \in Msgs, NEW p,
         Current(m, p), RowThere(m, p), RowBuilt(m, p)
  PROVE  Gone \/ RowBuilt(m, p)'
<1> SUFFICES ASSUME ~Gone, NEW k \in DOMAIN rows', rows'[k].msg = m, m \notin behind'
             PROVE  SameText(rows'[k], Build(builtAt[m], m)') \/ Refreshing(m, p)'
  BY DEF RowBuilt
<1>0. p \in Nat /\ p <= Len(log) /\ Len(log) \in Nat /\ p \in DOMAIN log
  BY CurrentIs
<1>1. ASSUME NEW n \in Nat, n <= Len(log), SlotsKept(m), builtAt'[m] = n,
             SameText(rows'[k], Build(n, m))
      PROVE  SameText(rows'[k], Build(builtAt[m], m)')
  <2>1. SameText(rows'[k], Build(n, m)')
    BY <1>1, BuildAgain
  <2>2. (builtAt[m] = n => Build(builtAt[m], m) = Build(n, m))'
    OBVIOUS
  <2>3. QED
    BY <1>1, <2>1, <2>2
<1>2. CASE Made(m) \/ Anew(m)
  <2>1. /\ Landing /\ RowFrom(Head(uiq).n, m)
        /\ Head(uiq).n \in Nat /\ Head(uiq).n <= Len(log)
    BY <1>2, LandingFrame, HeadTyped DEF Made, Anew
  <2>2. builtAt'[m] = Head(uiq).n
    BY <1>2, SawMore DEF Anew
  <2>3. SlotsKept(m)
    BY <2>1, LandingFrame DEF SlotsKept
  <2>4. SameText(rows'[k], Build(Head(uiq).n, m))
    BY <2>1 DEF RowFrom
  <2>5. PICK n \in Nat : n = Head(uiq).n
    BY <2>1
  <2>6. QED
    BY <1>1, <2>1, <2>2, <2>3, <2>4, <2>5
<1>3. CASE Noted(m)
  BY <1>3 DEF Noted, Stays
<1>4. CASE Rests(m) /\ Settled(m)
  <2>1. m \notin behind /\ builtAt'[m] = builtAt[m] /\ SlotsKept(m)
    BY <1>4 DEF Rests, Stays, Settled
  <2>2. PICK j \in DOMAIN rows : rows[j].msg = m /\ SameText(rows'[k], rows[j])
    BY <1>4 DEF Settled, TextKept
  <2>3. CASE Refreshing(m, p)
    <3>1. Refreshing(m, p)' \/ Lands(m, p)
      BY <1>0, <2>3, RefreshingGoes
    <3>2. Lands(m, p) => Made(m)
      BY <1>0, <2>2, LandsMakes
    <3>3. QED
      BY <1>2, <3>1, <3>2
  <2>4. CASE SameText(rows[j], Build(builtAt[m], m))
    <3>1. PICK n \in 0 .. Len(log) : n = builtAt[m]
      BY DEF BuiltTypes
    <3>2. SameText(rows'[k], Build(n, m))
      BY <2>2, <2>4, <3>1 DEF SameText
    <3>3. n \in Nat /\ n <= Len(log)
      BY <1>0
    <3>4. QED
      BY <1>1, <2>1, <3>1, <3>2, <3>3
  <2>5. QED
    BY <2>1, <2>2, <2>3, <2>4 DEF RowBuilt
<1>5. CASE Afresh(m)
  BY <1>5, AfreshIs
<1>6. QED
  BY <1>2, <1>3, <1>4, <1>5, Touches
-----------------------------------------------------------------------------
(* What is reported of a message.                                          *)

(* A chat that goes on being watched: a build that forgets what it had     *)
(* seen has seen everything about the message anew.                        *)
LEMMA LiveOn ==
  ASSUME Shaped, Shaped', Listing, BuiltTypes, [Next]_vars, NEW m \in Msgs, ~Gone, Live'
  PROVE  \/ Anew(m)
         \/ /\ Live /\ (Rests(m) \/ Noted(m) \/ Made(m))
            /\ builtAt[m] \in Nat /\ builtAt'[m] \in Nat /\ builtAt[m] <= builtAt'[m]
<1>1. CASE Rests(m) \/ Noted(m) \/ Made(m)
  BY <1>1, SawMore DEF Live
<1>2. QED
  BY <1>1, Touches

LEMMA AnewSeesIt ==
  ASSUME Shaped, NEW m \in Msgs, NEW p, Current(m, p), Anew(m), Live'
  PROVE  p <= builtAt'[m]
<1>1. p \in DOMAIN log /\ log[p].msg = m
  BY CurrentIs
<1>2. QED
  BY <1>1, AnewSees DEF Live

(* What the watcher is called back for next.                               *)
LEMMA HeardOn ==
  ASSUME Shaped, Listing, FeedIsTail, [Next]_vars, NEW m \in Msgs, ~Gone, ~Anew(m), Live'
  PROVE  \/ Heard' = Heard /\ Heard \in Nat /\ ~Report
         \/ /\ Report /\ UNCHANGED log /\ Heard \in Nat /\ Heard' = Heard + 1
            /\ Heard + 1 \in DOMAIN log /\ Head(feed) = log[Heard + 1]
<1>0. /\ Len(log) \in Nat /\ Len(feed) \in Nat /\ Heard \in Nat
      /\ Heard = Len(log) - Len(feed) /\ Heard' = Len(log') - Len(feed')
  BY DEF Shaped, ScreenShaped, TasksShaped, FeedIsTail, Heard
<1>1. CASE Report
  <2>1. feed # <<>> /\ feed' = Tail(feed) /\ UNCHANGED log
    BY <1>1 DEF Report, store
  <2>2. Len(feed') = Len(feed) - 1
    BY <2>1 DEF Shaped, TasksShaped
  <2>3. QED
    BY <1>0, <1>1, <2>1, <2>2, NextHeard
<1>2. CASE ~Report
  <2>1. CASE UNCHANGED <<log, feed, watched>>
    BY <1>0, <1>2, <2>1
  <2>2. ASSUME NEW r \in Filed, Stores(r) PROVE Heard' = Heard
    <3>1. watched /\ feed' = Append(feed, r)
      BY <2>2 DEF Live, Stores, Store
    <3>2. Len(feed') = Len(feed) + 1 /\ Len(log') = Len(log) + 1
      BY <2>2, <3>1, StoreShaped DEF Stores, Shaped, TasksShaped
    <3>3. QED
      BY <1>0, <3>2
  <2>3. CASE RunOpen \/ ~loaded'
    BY <2>3, OpenTouches DEF Live
  <2>4. QED
    BY <1>0, <1>2, <2>1, <2>2, <2>3, LogSteps
<1>3. QED
  BY <1>1, <1>2

LEMMA ToldKept ==
  ASSUME Shaped, Shaped', Listing, Ground, [Next]_vars, NEW m \in Msgs, NEW p,
         Current(m, p), RowSeen(m, p), Told(m, p)
  PROVE  Gone \/ Told(m, p)'
<1> SUFFICES ASSUME ~Gone, Live'
             PROVE  p <= builtAt'[m] \/ p > Heard' \/ \E i \in DOMAIN uiq' : Echo(i, m, p)'
  BY DEF Told
<1>0. /\ p \in Nat /\ p \in DOMAIN log /\ p <= Len(log) /\ Len(log) \in Nat
      /\ log[p].kind = "chat" /\ log[p].msg = m /\ BuiltTypes /\ FeedIsTail
      /\ uiq \in Seq(Posted)
  BY CurrentIs DEF Ground, Shaped, TasksShaped
<1>1. CASE Anew(m)
  BY <1>1, AnewSeesIt
<1>2. CASE ~Anew(m)
  <2>1. Live /\ builtAt[m] \in Nat /\ builtAt'[m] \in Nat /\ builtAt[m] <= builtAt'[m]
    BY <1>0, <1>2, LiveOn
  <2>2. \/ Heard' = Heard /\ Heard \in Nat
        \/ /\ Report /\ UNCHANGED log /\ Heard \in Nat /\ Heard' = Heard + 1
           /\ Head(feed) = log[Heard + 1]
    BY <1>0, <1>2, HeardOn
  <2>3. CASE p <= builtAt[m]
    BY <1>0, <2>1, <2>3
  <2>4. CASE p > Heard /\ ~(p > Heard')
    <3>1. Report /\ Head(feed) = log[p] /\ UNCHANGED log
      <4>1. p = Heard + 1
        BY <1>0, <2>2, <2>4
      <4>2. QED
        BY <2>2, <2>4, <4>1
    <3>2. PICK c : c = Sighting(log[p])
      OBVIOUS
    <3>3. c.kind = "echo" /\ c.msg = m /\ c.n = Len(log) /\ c \in Posted
      <4>1. c.kind = "echo" /\ c.msg = m /\ c.n = Len(log)
        BY <1>0, <3>2 DEF Sighting
      <4>2. c \in Seen
        BY <1>0, <3>2 DEF Sighting, Seen
      <4>3. QED
        BY <4>1, <4>2 DEF Posted
    <3>4. Post(c)
      BY <1>0, <3>1, <3>2 DEF Report, Post, Sighting
    <3>5. DOMAIN uiq' = 1 .. Len(uiq) + 1 /\ uiq'[Len(uiq) + 1] = c
      BY <1>0, <3>3, <3>4, UiqPosted
    <3>6. PICK j : j = Len(uiq) + 1
      OBVIOUS
    <3>7. j \in DOMAIN uiq' /\ uiq'[j] = c
      BY <1>0, <3>5, <3>6
    <3>8. Echo(j, m, p)'
      BY <1>0, <3>3, <3>7 DEF Echo, Is
    <3>9. QED
      BY <3>7, <3>8
  <2>5. ASSUME NEW i \in DOMAIN uiq, Echo(i, m, p)
        PROVE  p <= builtAt'[m] \/ \E j \in DOMAIN uiq' : Echo(j, m, p)'
    <3>1. ASSUME NEW j \in DOMAIN uiq', uiq'[j] = uiq[i] PROVE Echo(j, m, p)'
      BY <2>5, <3>1 DEF Echo
    <3>2. ASSUME Runs, uiq[i] = Head(uiq) PROVE p <= builtAt'[m]
      <4>1. RunEcho /\ Head(uiq).msg = m /\ Head(uiq).n >= p
        BY <2>5, <3>2 DEF Runs, Echo, Is
      <4>2. QED
        BY <1>0, <2>1, <4>1, EchoSees DEF Live
    <3>3. QED
      BY <3>1, <3>2, QueueKeeps
  <2>6. QED
    BY <2>1, <2>3, <2>4, <2>5 DEF Told
<1>3. QED
  BY <1>1, <1>2

LEMMA EchoFirstKept ==
  ASSUME Shaped, Shaped', Listing, Ground, [Next]_vars, NEW m \in Msgs, NEW p,
         Current(m, p), RowSeen(m, p), Told(m, p), EchoFirst(m, p)
  PROVE  Gone \/ EchoFirst(m, p)'
<1> SUFFICES ASSUME ~Gone, Live', NEW k \in DOMAIN uiq', Is(uiq'[k], "event", m)
             PROVE  p <= builtAt'[m] \/ \E i \in DOMAIN uiq' : i < k /\ Echo(i, m, p)'
  BY DEF EchoFirst
<1>0. /\ p \in Nat /\ p \in DOMAIN log /\ BuiltTypes /\ FeedIsTail /\ RecordsLater
      /\ uiq \in Seq(Posted) /\ FiledOnce /\ Len(uiq) \in Nat /\ DOMAIN uiq = 1 .. Len(uiq)
  BY CurrentIs DEF Ground, Shaped, TasksShaped, Listing
<1>1. CASE Anew(m)
  BY <1>1, AnewSeesIt
<1>2. CASE ~Anew(m)
  <2>1. Live /\ builtAt[m] \in Nat /\ builtAt'[m] \in Nat /\ builtAt[m] <= builtAt'[m]
    BY <1>0, <1>2, LiveOn
  <2>2. CASE p <= builtAt[m]
    BY <1>0, <2>1, <2>2
  <2>3. ASSUME p > builtAt[m], NEW j \in DOMAIN uiq, uiq[j] = uiq'[k]
        PROVE  \E i \in DOMAIN uiq : i < j /\ Echo(i, m, p)
    BY <1>0, <2>1, <2>3 DEF EchoFirst
  <2>4. CASE UNCHANGED uiq /\ p > builtAt[m]
    BY <2>3, <2>4 DEF Echo
  <2>5. ASSUME p > builtAt[m], NEW c \in Posted, Post(c), Reported(c)
        PROVE  \E i \in DOMAIN uiq' : i < k /\ Echo(i, m, p)'
    <3>1. /\ \A i \in DOMAIN uiq : i \in DOMAIN uiq' /\ uiq'[i] = uiq[i]
          /\ uiq'[Len(uiq) + 1] = c /\ (k \in DOMAIN uiq \/ k = Len(uiq) + 1)
      BY <1>0, <2>5, UiqPosted
    <3>2. \A i \in DOMAIN uiq : Echo(i, m, p) => Echo(i, m, p)'
      BY <3>1 DEF Echo
    <3>3. CASE k \in DOMAIN uiq
      BY <2>3, <2>5, <3>1, <3>2, <3>3
    <3>4. CASE k = Len(uiq) + 1
      <4>1. Report /\ c = Sighting(Head(feed)) /\ c.kind = "event" /\ c.msg = m
        BY <2>5, <3>1, <3>4 DEF Reported, Is
      <4>2. Head(feed) \in Filed /\ Heard + 1 \in DOMAIN log /\ Head(feed) = log[Heard + 1]
        BY <1>0, <4>1, NextHeard DEF Report
      <4>3. Head(feed).msg = m /\ Head(feed).kind # "chat"
        BY <4>1 DEF Sighting
      <4>4. About(Heard + 1, m)
        BY <4>2, <4>3 DEF About
      <4>5. p < Heard + 1
        BY <1>0, <4>2, <4>4, AboutLater
      <4>6. Heard \in Nat
        BY <1>0 DEF FeedIsTail
      <4>7. ~(p <= builtAt[m]) /\ ~(p > Heard)
        BY <1>0, <2>1, <2>5, <4>5, <4>6
      <4>8. PICK i \in DOMAIN uiq : Echo(i, m, p)
        BY <2>1, <4>7 DEF Told
      <4>9. i < k
        BY <1>0, <3>4
      <4>10. QED
        BY <3>1, <3>2, <4>8, <4>9
    <3>5. QED
      BY <3>1, <3>3, <3>4
  <2>6. ASSUME p > builtAt[m], uiq # <<>>, NEW more \in Seq(Autoload), Take(more), Runs
        PROVE  p <= builtAt'[m] \/ \E i \in DOMAIN uiq' : i < k /\ Echo(i, m, p)'
    <3>1. /\ (k + 1 \in DOMAIN uiq /\ uiq'[k] = uiq[k + 1]) \/ uiq'[k] \in Autoload
          /\ \A j \in DOMAIN uiq : j # 1 => j - 1 \in DOMAIN uiq' /\ uiq'[j - 1] = uiq[j]
          /\ k \in Nat /\ uiq[1] = Head(uiq)
      BY <1>0, <2>6, UiqTaken
    <3>2. uiq'[k] \notin Autoload
      BY DEF Autoload, Is
    <3>3. PICK i \in DOMAIN uiq : i < k + 1 /\ Echo(i, m, p)
      BY <2>3, <2>6, <3>1, <3>2
    <3>4. CASE i = 1
      <4>1. RunEcho /\ Head(uiq).msg = m /\ Head(uiq).n >= p
        BY <2>6, <3>1, <3>3, <3>4 DEF Runs, Echo, Is
      <4>2. QED
        BY <1>0, <2>1, <4>1, EchoSees DEF Live
    <3>5. CASE i # 1
      <4>1. i - 1 \in DOMAIN uiq' /\ uiq'[i - 1] = uiq[i] /\ i - 1 < k
        BY <1>0, <3>1, <3>3, <3>5
      <4>2. Echo(i - 1, m, p)'
        BY <3>3, <4>1 DEF Echo
      <4>3. QED
        BY <4>1, <4>2
    <3>6. QED
      BY <3>4, <3>5
  <2>7. QED
    BY <1>0, <2>1, <2>2, <2>4, <2>5, <2>6, QueueSteps
<1>3. QED
  BY <1>1, <1>2

LEMMA ActedKept ==
  ASSUME Shaped, Shaped', Listing, BuiltTypes, [Next]_vars, NEW m \in Msgs, NEW p,
         Current(m, p), RowSeen(m, p), Acted(m, p)
  PROVE  Gone \/ Acted(m, p)'
<1> SUFFICES ASSUME ~Gone, Live', Touched(m)' PROVE p <= builtAt'[m]
  BY DEF Acted
<1>0. p \in Nat
  BY CurrentIs
<1>1. CASE Anew(m)
  BY <1>1, AnewSeesIt
<1>2. CASE ~Anew(m)
  <2>1. Live /\ builtAt[m] \in Nat /\ builtAt'[m] \in Nat /\ builtAt[m] <= builtAt'[m]
    BY <1>2, LiveOn
  <2>2. Touched(m) \/ \E k \in DOMAIN rows : rows[k].msg = m
    BY TouchedSteps, SpotFinds DEF Shaped, ScreenShaped
  <2>3. p <= builtAt[m]
    BY <2>1, <2>2 DEF Acted, RowSeen
  <2>4. QED
    BY <1>0, <2>1, <2>3
<1>3. QED
  BY <1>1, <1>2
-----------------------------------------------------------------------------
(* What is filed about a message, and its attachments.                     *)

LEMMA ReflectedKept ==
  ASSUME Shaped, Shaped', Listing, Ground, [Next]_vars, NEW m \in Msgs, NEW p,
         Current(m, p), RowThere(m, p), EchoFirst(m, p), Acted(m, p), Reflected(m, p)
  PROVE  Gone \/ Reflected(m, p)'
<1> DEFINE Seen1(q) == q <= builtAt'[m]
           Due1(q)  == q > Heard' /\ log'[q].kind # "unreact"
           Event1(q) == \E k \in DOMAIN uiq' : Is(uiq'[k], "event", m) /\ uiq'[k].n >= q
           Fresh1(q) == p <= builtAt'[m] /\ Refreshing(m, q)'
<1> SUFFICES ASSUME ~Gone, Live', ~Hidden(m)', NEW q \in DOMAIN log', About(q, m)'
             PROVE  Seen1(q) \/ Due1(q) \/ Event1(q) \/ Fresh1(q)
  BY DEF Reflected
<1>0. /\ p \in Nat /\ p \in DOMAIN log /\ p <= Len(log) /\ Len(log) \in Nat
      /\ BuiltTypes /\ FeedIsTail /\ RecordsLater /\ uiq \in Seq(Posted) /\ FiledOnce
      /\ DOMAIN log = 1 .. Len(log) /\ q \in Nat
      /\ \A i \in DOMAIN log : i \in DOMAIN log' /\ log'[i] = log[i]
  BY CurrentIs, LogGrows DEF Ground, Shaped, TasksShaped, Listing
<1>1. ~Hidden(m)
  BY HiddenGrows
<1>2. CASE Anew(m)
  <2>1. UNCHANGED log
    BY <1>2, LandingFrame DEF Anew
  <2>2. q \in DOMAIN log /\ log[q].msg = m
    BY <2>1 DEF About
  <2>3. QED
    BY <1>2, <2>2, AnewSees DEF Live
<1>3. CASE ~Anew(m)
  <2>1. Live /\ builtAt[m] \in Nat /\ builtAt'[m] \in Nat /\ builtAt[m] <= builtAt'[m]
    BY <1>0, <1>3, LiveOn
  <2>2. \/ Heard' = Heard /\ Heard \in Nat
        \/ /\ Report /\ UNCHANGED log /\ Heard \in Nat /\ Heard' = Heard + 1
           /\ Heard + 1 \in DOMAIN log /\ Head(feed) = log[Heard + 1]
    BY <1>0, <1>3, HeardOn
  <2>3. CASE q \notin DOMAIN log
    <3>1. PICK r \in Filed : Stores(r)
      BY <2>3, LogSteps DEF Report
    <3>2. q = Len(log) + 1 /\ r.msg = m /\ r.kind # "chat" /\ log'[q] = r
      <4>1. /\ \A i \in DOMAIN log' : i \in DOMAIN log \/ i = Len(log) + 1
            /\ log'[Len(log) + 1] = r
        BY <3>1, StoreShaped DEF Stores
      <4>2. QED
        BY <2>3, <4>1 DEF About
    <3>3. CASE r.kind # "unreact"
      <4>1. Heard' = Heard /\ Heard <= Len(log)
        <5>1. Len(log') = Len(log) + 1
          BY <3>1, StoreShaped DEF Stores
        <5>2. log' # log
          BY <5>1
        <5>3. Heard' = Heard
          BY <2>2, <5>2
        <5>4. Heard <= Len(log)
          BY <1>0 DEF Heard, Shaped, TasksShaped
        <5>5. QED
          BY <5>3, <5>4
      <4>2. q > Heard'
        BY <1>0, <2>2, <3>2, <4>1
      <4>3. QED
        BY <3>2, <3>3, <4>2
    <3>4. CASE r.kind = "unreact"
      <4>1. /\ \E o \in BagToSet(ops) : o.msg = m
            /\ \E o \in BagToSet(ops') : o.msg = m
        BY <3>1, <3>2, <3>4 DEF Stores
      <4>2. p <= builtAt[m]
        BY <2>1, <4>1 DEF Acted, Touched, Operating
      <4>3. p <= builtAt'[m]
        BY <1>0, <2>1, <4>2
      <4>4. Refreshing(m, q)'
        BY <4>1 DEF Refreshing, Operating
      <4>5. QED
        BY <4>3, <4>4
    <3>5. QED
      BY <3>3, <3>4
  <2>4. CASE q \in DOMAIN log
    <3>0. About(q, m) /\ log'[q] = log[q] /\ log[q].kind # "chat" /\ log[q].msg = m
      BY <1>0, <2>4 DEF About
    <3>1. p < q /\ q <= Len(log)
      BY <1>0, <2>4, <3>0, AboutLater
    <3>2. CASE q <= builtAt[m]
      BY <1>0, <2>1, <3>2
    <3>3. CASE q > Heard /\ log[q].kind # "unreact" /\ ~(q > Heard')
      <4>1. q = Heard + 1
        BY <1>0, <2>2, <3>3
      <4>2. Report /\ Head(feed) = log[q]
        BY <1>0, <2>2, <3>3, <4>1
      <4>3. PICK c : c = Sighting(log[q])
        OBVIOUS
      <4>4. c.kind = "event" /\ c.msg = m /\ c.n = Len(log) /\ c \in Posted
        <5>1. c.kind = "event" /\ c.msg = m /\ c.n = Len(log)
          BY <3>0, <4>3 DEF Sighting
        <5>2. c \in Seen
          BY <1>0, <3>0, <4>3 DEF Sighting, Seen
        <5>3. QED
          BY <5>1, <5>2 DEF Posted
      <4>5. Post(c)
        BY <3>0, <3>3, <4>2, <4>3 DEF Report, Post, Sighting
      <4>6. DOMAIN uiq' = 1 .. Len(uiq) + 1 /\ uiq'[Len(uiq) + 1] = c
        BY <1>0, <4>4, <4>5, UiqPosted
      <4>7. Len(uiq) + 1 \in DOMAIN uiq'
        BY <1>0, <4>6
      <4>8. Is(uiq'[Len(uiq) + 1], "event", m) /\ uiq'[Len(uiq) + 1].n >= q
        BY <1>0, <3>1, <4>4, <4>6 DEF Is
      <4>9. QED
        BY <4>7, <4>8
    <3>4. ASSUME RunRefresh \/ RunEvent, Head(uiq).msg = m, Head(uiq).n >= q,
                 p <= builtAt[m]
          PROVE  Seen1(q)
      <4>1. Landing /\ Head(uiq).n \in Nat
        BY <3>4, LandingFrame, HeadTyped DEF Landing
      <4>2. Head(uiq).n >= p
        BY <1>0, <3>1, <3>4, <4>1
      <4>3. Head(uiq).n <= builtAt'[m]
        BY <1>0, <1>1, <2>1, <3>4, <4>2, RefreshSees DEF Live
      <4>4. QED
        BY <1>0, <2>1, <3>4, <4>1, <4>3
    <3>5. ASSUME NEW k \in DOMAIN uiq, Is(uiq[k], "event", m), uiq[k].n >= q
          PROVE  Seen1(q) \/ Event1(q)
      <4>1. CASE \E j \in DOMAIN uiq' : uiq'[j] = uiq[k]
        BY <3>5, <4>1
      <4>2. CASE Runs /\ uiq[k] = Head(uiq)
        <5>1. RunEvent /\ Head(uiq).msg = m /\ Head(uiq).n >= q
          BY <3>5, <4>2 DEF Runs, Is
        <5>2. 1 \in DOMAIN uiq /\ Is(uiq[1], "event", m)
          <6>1. uiq # <<>>
            BY <5>1 DEF RunEvent, Turn
          <6>2. QED
            BY <3>5, <4>2, <6>1, HeadTyped
        <5>3. ~\E i \in DOMAIN uiq : i < 1 /\ Echo(i, m, p)
          BY <1>0
        <5>4. p <= builtAt[m]
          BY <2>1, <5>2, <5>3 DEF EchoFirst
        <5>5. QED
          BY <3>4, <5>1, <5>4
      <4>3. QED
        BY <4>1, <4>2, QueueKeeps
    <3>6. CASE p <= builtAt[m] /\ Refreshing(m, q)
      <4>1. Refreshing(m, q)' \/ Lands(m, q)
        BY <2>4, <3>6, RefreshingGoes
      <4>2. CASE Lands(m, q)
        BY <3>4, <3>6, <4>2 DEF Lands
      <4>3. CASE Refreshing(m, q)'
        <5>1. p <= builtAt'[m]
          BY <1>0, <2>1, <3>6
        <5>2. QED
          BY <4>3, <5>1
      <4>4. QED
        BY <4>1, <4>2, <4>3
    <3>7. CASE q > Heard /\ log[q].kind # "unreact" /\ q > Heard'
      BY <3>0, <3>7
    <3>8. QED
      <4> HIDE DEF Seen1, Due1, Event1, Fresh1
      <4>1. \/ q <= builtAt[m]
            \/ q > Heard /\ log[q].kind # "unreact"
            \/ \E k \in DOMAIN uiq : Is(uiq[k], "event", m) /\ uiq[k].n >= q
            \/ p <= builtAt[m] /\ Refreshing(m, q)
        BY <1>1, <2>1, <2>4, <3>0 DEF Reflected
      <4>2. QED
        BY <3>2, <3>3, <3>5, <3>6, <3>7, <4>1
  <2>5. QED
    BY <2>3, <2>4
<1>4. QED
  BY <1>2, <1>3

LEMMA AskedRepaints ==
  ASSUME Shaped, NEW m \in Msgs, NEW p, Ask("refresh", m)
  PROVE  Repaint(m, p)'
<1>1. Job("refresh", m) \in BagToSet(reads') /\ Is(Job("refresh", m), "refresh", m)
  BY Asked, JobsRead DEF Shaped, Is, Job
<1>2. PICK j : j = Job("refresh", m)
  OBVIOUS
<1>3. QED
  BY <1>1, <1>2 DEF Repaint, Is

(* The end of a load of a key of m's.                                      *)
LEMMA EndsRepaint ==
  ASSUME Shaped, NEW m \in Msgs, NEW key, NEW p, Ends([key |-> key, msg |-> m])
  PROVE  key \in broken' \/ Repaint(m, p)'
<1> DEFINE l == [key |-> key, msg |-> m]
<1>1. l.key = key /\ l.msg = m
  OBVIOUS
<1> HIDE DEF l
<1>2. (Loaded(l) \/ LoadFailed(l))
  BY DEF Ends, l
<1>3. key \in broken' \/ Ask("refresh", m)
  BY <1>1, <1>2 DEF Loaded, LoadFailed
<1>4. QED
  BY <1>3, AskedRepaints

LEMMA BrokenStays ==
  ASSUME Shaped, [Next]_vars
  PROVE  broken \subseteq broken'
<1>1. CASE Reacting
  BY <1>1 DEF Reacting, SetReaction
<1>2. CASE Aside
  BY <1>2 DEF Aside, RequestEdit, Delete, Hide, Tap, CancelEdit, Select, RunDone, RunAutoload,
              Report, Completed, Read, Hand, Loaded, LoadFailed, history
<1>3. CASE Landing
  BY <1>3, LandingFrame
<1>4. CASE \/ \E v \in Texts : SubmitEdit(v)
           \/ \E a \in Accounts : SwitchTo(a)
           \/ \E n \in Msgs : Receive(n)
           \/ \E o \in BagToSet(ops) : Stored(o)
           \/ PeerStores
  BY <1>4 DEF SubmitEdit, SwitchTo, Receive, Stored, PeerStores, history
<1>5. QED
  BY <1>1, <1>2, <1>3, <1>4, Steps DEF vars

(* A key is decoded by a load of the message that has it, which asks for    *)
(* its row to be refreshed.                                                *)
LEMMA CacheSteps ==
  ASSUME Shaped, [Next]_vars, NEW m \in Msgs, NEW key \in Keys[m], key \in cache'
  PROVE  key \in cache \/ Ask("refresh", m)
<1>1. CASE Reacting
  BY <1>1 DEF Reacting, SetReaction, media
<1>2. CASE Aside
  <2>1. ASSUME NEW l \in BagToSet(loads), Loaded(l)
        PROVE  key \in cache \/ Ask("refresh", m)
    <3>1. CASE key = l.key
      <4>1. l \in Load /\ l.key \in Keys[l.msg] /\ l.msg \in Msgs
        BY LoadTyped
      <4>2. l.msg = m
        BY <3>1, <4>1, KeysApart
      <4>3. QED
        BY <2>1, <4>2 DEF Loaded
    <3>2. CASE key # l.key
      BY <2>1, <3>2 DEF Loaded
    <3>3. QED
      BY <3>1, <3>2
  <2>2. ASSUME NEW l \in BagToSet(loads), LoadFailed(l) PROVE UNCHANGED cache
    BY <2>2 DEF LoadFailed
  <2>3. CASE \/ \E n \in Msgs : RequestEdit(n) \/ Delete(n) \/ Hide(n) \/ Tap(n)
             \/ CancelEdit \/ Select \/ RunDone \/ RunAutoload \/ Report
             \/ \E o \in BagToSet(ops) : Completed(o)
             \/ \E j \in BagToSet(reads) : Read(j)
             \/ \E h \in BagToSet(held) : Hand(h)
    BY <2>3 DEF RequestEdit, Delete, Hide, Tap, CancelEdit, Select, RunDone, RunAutoload,
                Report, Completed, Read, Hand, media
  <2>4. QED
    BY <1>2, <2>1, <2>2, <2>3 DEF Aside
<1>3. CASE Landing
  BY <1>3, LandingFrame
<1>4. CASE \/ \E v \in Texts : SubmitEdit(v)
           \/ \E a \in Accounts : SwitchTo(a)
           \/ \E n \in Msgs : Receive(n)
           \/ \E o \in BagToSet(ops) : Stored(o)
           \/ PeerStores
  BY <1>4 DEF SubmitEdit, SwitchTo, Receive, Stored, PeerStores, media
<1>5. QED
  BY <1>1, <1>2, <1>3, <1>4, Steps DEF vars, media

LEMMA CellsComingKept ==
  ASSUME Shaped, Shaped', Listing, Ground, [Next]_vars, NEW m \in Msgs, NEW p,
         Current(m, p), RowThere(m, p), CellsComing(m, p)
  PROVE  Gone \/ CellsComing(m, p)'
<1> SUFFICES ASSUME ~Gone, NEW k \in DOMAIN rows', rows'[k].msg = m, NEW key \in Keys[m]
             PROVE  /\ rows'[k].cells[key] = "loading" =>
                         key \in broken' \/ Fetching(key, m)' \/ Repaint(m, p)'
                    /\ key \in cache' => rows'[k].cells[key] = "image" \/ Repaint(m, p)'
  BY DEF CellsComing
<1>0. /\ p \in Nat /\ p \in DOMAIN log /\ Len(log) \in Nat /\ BuiltTypes /\ FiledOnce
      /\ InflightBacked /\ TapsSee /\ IsBag(held, Snap) /\ DOMAIN log = 1 .. Len(log)
  BY CurrentIs DEF Ground, Listing, Shaped, TasksShaped
<1>1. ASSUME Fetching(key, m)
      PROVE  key \in broken' \/ Fetching(key, m)' \/ Repaint(m, p)'
  <2>1. ~Drops(m)
    <3> SUFFICES ASSUME NEW h \in BagToSet(held), Is(h, "tap", m), ~InSnap(h.n, m)
                 PROVE  FALSE
      BY DEF Drops
    <3>1. PICK i \in DOMAIN log : i <= h.n /\ FiledAt(m, i)
      BY <1>0 DEF TapsSee, Is
    <3>2. i = p
      BY <1>0, <3>1 DEF FiledOnce, Current, FiledAt
    <3>3. h.n \in Nat /\ h.n <= Len(log)
      BY HeldTyped DEF Snap, Shaped, Reached
    <3>4. QED
      BY <1>0, <3>1, <3>2, <3>3, InSnapIs
  <2>2. QED
    BY <1>1, <2>1, FetchGoes, EndsRepaint
<1>2. CASE Made(m) \/ Anew(m)
  <2>1. RowFrom(Head(uiq).n, m) /\ UNCHANGED <<cache, broken>>
    BY <1>2, LandingFrame DEF Made, Anew
  <2>2. rows'[k].cells[key] = Cell(key)
    BY <2>1 DEF RowFrom, Cells
  <2>3. rows'[k].cells[key] = "loading" => Fetching(key, m)
    BY <1>0, <2>2 DEF Cell, InflightBacked
  <2>4. key \in cache' => rows'[k].cells[key] = "image"
    BY <2>1, <2>2 DEF Cell
  <2>5. QED
    BY <1>1, <2>3, <2>4
<1>3. CASE Rests(m) \/ Noted(m)
  <2>1. PICK j \in DOMAIN rows : rows[j].msg = m /\ rows'[k].cells = rows[j].cells
    BY <1>3 DEF Rests, Noted, Stays, RowKept
  <2>2. /\ rows[j].cells[key] = "loading" =>
             key \in broken \/ Fetching(key, m) \/ Repaint(m, p)
        /\ key \in cache => rows[j].cells[key] = "image" \/ Repaint(m, p)
    BY <2>1 DEF CellsComing
  <2>3. CASE Repaint(m, p) /\ ~Repaint(m, p)'
    <3>1. Lands(m, p)
      BY <1>0, <2>3, RepaintGoes
    <3>2. Made(m)
      BY <1>0, <2>1, <3>1, LandsMakes
    <3>3. QED
      BY <1>2, <3>2
  <2>4. CASE Repaint(m, p)'
    BY <2>4
  <2>5. CASE ~Repaint(m, p) /\ ~Repaint(m, p)'
    <3>1. key \in broken => key \in broken'
      BY BrokenStays
    <3>2. key \in cache' => key \in cache
      BY <2>5, CacheSteps, AskedRepaints
    <3>3. QED
      BY <1>1, <2>1, <2>2, <2>5, <3>1, <3>2
  <2>6. QED
    BY <2>3, <2>4, <2>5
<1>4. Anew(m) \/ Noted(m) \/ Made(m) \/ Rests(m)
  BY <1>0, Touches
<1>5. QED
  BY <1>2, <1>3, <1>4
-----------------------------------------------------------------------------
(* Together.                                                               *)

AllFollowed == \A m \in Msgs : \A p \in DOMAIN log : Current(m, p) => Followed(m, p)

LEMMA FollowedKept ==
  ASSUME Shaped, Shaped', Listing, Ground, [Next]_vars, AllFollowed
  PROVE  AllFollowed'
<1> SUFFICES ASSUME NEW m \in Msgs, NEW p \in DOMAIN log', Current(m, p)'
             PROVE  Followed(m, p)'
  BY DEF AllFollowed
<1>1. FiledAt(m, p)' /\ p > Len(log') - Window
  BY DEF Current
<1>2. CASE p \notin DOMAIN log
  BY <1>1, <1>2, NewFollowed
<1>3. CASE Gone
  BY <1>3, GoneFollowed
<1>4. CASE p \in DOMAIN log /\ ~Gone
  <2>1. log'[p] = log[p] /\ FiledAt(m, p)
    BY <1>1, <1>4, LogGrows DEF FiledAt
  <2>2. Current(m, p)
    <3>1. p \in Nat /\ Len(log) \in Nat /\ Len(log') \in Nat /\ Len(log) <= Len(log')
      BY <1>4, LogGrows
    <3>2. Window \in Nat
      BY WindowIs
    <3>3. p > Len(log) - Window
      BY <1>1, <3>1, <3>2
    <3>4. QED
      BY <2>1, <3>3 DEF Current
  <2>3. /\ RowSeen(m, p) /\ RowThere(m, p) /\ RowBuilt(m, p) /\ Told(m, p) /\ EchoFirst(m, p)
        /\ Acted(m, p) /\ Reflected(m, p) /\ CellsComing(m, p)
    BY <1>4, <2>2 DEF AllFollowed, Followed
  <2>4. BuiltTypes
    BY DEF Ground
  <2>5. RowSeen(m, p)' /\ RowThere(m, p)' /\ RowBuilt(m, p)'
    BY <1>4, <2>2, <2>3, <2>4, RowSeenKept, RowThereKept, RowBuiltKept
  <2>6. Told(m, p)' /\ EchoFirst(m, p)' /\ Acted(m, p)'
    BY <1>4, <2>2, <2>3, <2>4, ToldKept, EchoFirstKept, ActedKept
  <2>7. Reflected(m, p)' /\ CellsComing(m, p)'
    BY <1>4, <2>2, <2>3, ReflectedKept, CellsComingKept
  <2>8. QED
    BY <2>5, <2>6, <2>7 DEF Followed
<1>5. QED
  BY <1>2, <1>3, <1>4

LEMMA InitGround == Init => Ground /\ AllFollowed
<1> SUFFICES ASSUME Init PROVE Ground /\ AllFollowed
  OBVIOUS
<1>0. BagToSet(EmptyBag) = {} /\ DOMAIN <<>> = {} /\ Len(log) \in Nat
  BY BagEmpty, ShapedInit DEF Shaped, ScreenShaped
<1>1. /\ DOMAIN rows = {} /\ DOMAIN uiq = {} /\ DOMAIN feed = {} /\ feed = <<>> /\ editing = {}
      /\ BagToSet(ops) = {} /\ BagToSet(held) = {} /\ ~loaded /\ inflight = {}
  BY <1>0 DEF Init
<1>2. \A j \in BagToSet(reads) : j.kind # "tap"
  <2>1. BagToSet(SetToBag({Job("list", "none")})) = {Job("list", "none")}
    BY DEF BagToSet, SetToBag
  <2>2. BagToSet(reads) = {Job("list", "none")} /\ Job("list", "none").kind = "list"
    BY <2>1 DEF Init, Job
  <2>3. QED
    BY <2>2
<1>3. RecordsLater
  <2>1. \A i \in DOMAIN log : log[i].kind = "chat"
    BY DEF Init, Rec
  <2>2. QED
    BY <2>1 DEF RecordsLater, About
<1>4. BuiltTypes
  BY <1>0 DEF Init, BuiltTypes
<1>5. FeedIsTail
  <2>1. Len(feed) = 0
    BY <1>1
  <2>2. QED
    BY <1>0, <1>1, <2>1 DEF FeedIsTail, Heard
<1>6. InflightBacked /\ TouchedFiled /\ EventsFiled /\ TapsSee
  BY <1>1, <1>2 DEF InflightBacked, TouchedFiled, Touched, Operating, DoneOn, EventsFiled, TapsSee
<1>7. ASSUME NEW m, NEW p PROVE Followed(m, p)
  <2>1. RowSeen(m, p) /\ RowThere(m, p) /\ RowBuilt(m, p) /\ CellsComing(m, p)
    BY <1>1 DEF RowSeen, RowThere, RowBuilt, CellsComing
  <2>2. Told(m, p) /\ EchoFirst(m, p) /\ Acted(m, p) /\ Reflected(m, p)
    BY <1>1 DEF Told, EchoFirst, Acted, Reflected, Live
  <2>3. QED
    BY <2>1, <2>2 DEF Followed
<1>8. QED
  BY <1>3, <1>4, <1>5, <1>6, <1>7 DEF Ground, AllFollowed

SettlingInv == MessagesInv /\ Ground /\ AllFollowed

LEMMA SettlingStep ==
  ASSUME SettlingInv, [Next]_vars
  PROVE  SettlingInv'
<1>1. Shaped /\ Listing /\ MessagesInv /\ Ground /\ AllFollowed
  BY DEF SettlingInv, MessagesInv
<1>2. MessagesInv' /\ Shaped'
  BY <1>1, MessagesStep, ShapedNext
<1>3. Ground'
  BY <1>1, GroundKept
<1>4. AllFollowed'
  BY <1>1, <1>2, FollowedKept
<1>5. QED
  BY <1>2, <1>3, <1>4 DEF SettlingInv

(* How the rows hold good once nothing is under way.                       *)
LEMMA IdleQuiet ==
  ASSUME Shaped, Idle
  PROVE  /\ Live /\ Heard = Len(log) /\ DOMAIN uiq = {} /\ Len(log) \in Nat
         /\ \A m, q : ~Refreshing(m, q) /\ ~Repaint(m, q)
         /\ \A m, key : ~Fetching(key, m)
<1>1. BagToSet(EmptyBag) = {} /\ DOMAIN <<>> = {}
  BY BagEmpty
<1>2. /\ loaded /\ watched /\ BagToSet(ops) = {} /\ BagToSet(reads) = {} /\ BagToSet(held) = {}
      /\ BagToSet(loads) = {} /\ DOMAIN uiq = {} /\ feed = <<>>
  BY <1>1 DEF Idle
<1>3. Heard = Len(log) /\ Len(log) \in Nat
  BY <1>2 DEF Heard, Shaped, ScreenShaped
<1>4. \A m, q : ~Refreshing(m, q) /\ ~Repaint(m, q)
  BY <1>2 DEF Refreshing, Operating, DoneOn, Repaint
<1>5. \A m, key : ~Fetching(key, m)
  BY <1>2 DEF Fetching, Tapped
<1>6. QED
  BY <1>2, <1>3, <1>4, <1>5 DEF Live

LEMMA IdleFollowed ==
  ASSUME SettlingInv, Idle, NEW m \in Due
  PROVE  \E p \in DOMAIN log : Current(m, p) /\ Followed(m, p) /\ p <= builtAt[m]
<1>1. Shaped /\ AllFollowed /\ m \in Msgs /\ InSnap(Len(log), m)
  BY DEF SettlingInv, MessagesInv, Due
<1>2. PICK p \in DOMAIN log : Current(m, p)
  BY <1>1, ShownCurrent
<1>3. Followed(m, p)
  BY <1>1, <1>2 DEF AllFollowed
<1>4. /\ Live /\ Heard = Len(log) /\ DOMAIN uiq = {}
  BY <1>1, IdleQuiet
<1>5. ~(p > Heard)
  BY <1>1, <1>2, <1>4, CurrentIs
<1>6. Told(m, p)
  BY <1>3 DEF Followed
<1>7. p <= builtAt[m]
  BY <1>4, <1>5, <1>6 DEF Told
<1>8. QED
  BY <1>2, <1>3, <1>7

LEMMA SettledRows == SettlingInv => RowsSettle
<1> SUFFICES ASSUME SettlingInv, Idle, NEW m \in Due
             PROVE  /\ Cardinality({k \in DOMAIN rows : rows[k].msg = m}) = 1
                    /\ rows[Spot(m)].text = Build(Len(log), m).text
                    /\ rows[Spot(m)].count = Build(Len(log), m).count
                    /\ rows[Spot(m)].chips = Build(Len(log), m).chips
                    /\ rows[Spot(m)].dead = Build(Len(log), m).dead
  BY DEF RowsSettle
<1>0. /\ Shaped /\ Listing /\ Ground /\ FiledOnce /\ RowsDiffer /\ RecordsLater
      /\ m \in Msgs /\ ~Hidden(m) /\ m \notin behind /\ rows \in Seq(Row)
  BY DEF SettlingInv, MessagesInv, Due, Listing, Ground, Shaped, ScreenShaped
<1>1. PICK p \in DOMAIN log : Current(m, p) /\ Followed(m, p) /\ p <= builtAt[m]
  BY IdleFollowed
<1>2. /\ Live /\ Heard = Len(log) /\ DOMAIN uiq = {} /\ Len(log) \in Nat
      /\ \A q : ~Refreshing(m, q)
  BY <1>0, IdleQuiet
<1>3. Shown(m)
  BY <1>0, <1>1, <1>2 DEF Followed, RowThere, Live
<1>4. Spot(m) \in DOMAIN rows /\ rows[Spot(m)].msg = m
  BY <1>0, <1>3, SpotFinds
<1>5. Cardinality({k \in DOMAIN rows : rows[k].msg = m}) = 1
  <2>1. {k \in DOMAIN rows : rows[k].msg = m} = {Spot(m)}
    BY <1>0, <1>4 DEF RowsDiffer
  <2>2. QED
    BY <2>1, FS_Singleton
<1>6. SameText(rows[Spot(m)], Build(builtAt[m], m))
  BY <1>0, <1>1, <1>2, <1>4 DEF Followed, RowBuilt
<1>7. builtAt[m] \in Nat /\ builtAt[m] <= Len(log)
  BY <1>0, <1>2 DEF Ground, BuiltTypes
<1>8. \A q \in DOMAIN log : About(q, m) => q <= builtAt[m]
  <2> SUFFICES ASSUME NEW q \in DOMAIN log, About(q, m) PROVE q <= builtAt[m]
    OBVIOUS
  <2>1. ~(q > Heard)
    BY <1>0, <1>1, <1>2, CurrentIs
  <2>2. QED
    BY <1>0, <1>1, <1>2, <2>1 DEF Followed, Reflected
<1>9. SameText(Build(builtAt[m], m), Build(Len(log), m))
  BY <1>0, <1>1, <1>7, <1>8, BuildSame
<1>10. rows[Spot(m)] \in Row /\ Build(Len(log), m) \in Row
  <2>1. Len(log) <= Len(log)
    BY <1>2
  <2>2. Build(Len(log), m) \in Row
    BY <1>0, <1>2, <2>1, BuildShape
  <2>3. QED
    BY <1>0, <1>4, <2>2
<1>11. rows[Spot(m)].dead \in BOOLEAN /\ Build(Len(log), m).dead \in BOOLEAN
  BY <1>10 DEF Row
<1>12. QED
  BY <1>5, <1>6, <1>9, <1>11 DEF SameText

LEMMA SettledCells == SettlingInv => CellsSettle
<1> SUFFICES ASSUME SettlingInv, Idle, NEW m \in Due, Shown(m), NEW k \in Keys[m]
             PROVE  /\ rows[Spot(m)].cells[k] = "loading" => k \in broken
                    /\ k \in cache => rows[Spot(m)].cells[k] = "image"
  BY DEF CellsSettle
<1>1. Shaped /\ m \in Msgs /\ rows \in Seq(Row)
  BY DEF SettlingInv, MessagesInv, Due, Shaped, ScreenShaped
<1>2. PICK p \in DOMAIN log : Followed(m, p)
  BY IdleFollowed
<1>3. ~Fetching(k, m) /\ ~Repaint(m, p)
  BY <1>1, IdleQuiet
<1>4. Spot(m) \in DOMAIN rows /\ rows[Spot(m)].msg = m
  BY <1>1, SpotFinds
<1>5. QED
  BY <1>2, <1>3, <1>4 DEF Followed, CellsComing

THEOREM SettlingInvHolds == Spec => []SettlingInv
<1>1. Init => SettlingInv
  BY InitMessages, InitGround DEF SettlingInv
<1>2. SettlingInv /\ [Next]_vars => SettlingInv'
  BY SettlingStep
<1>3. QED
  BY <1>1, <1>2, PTL DEF Spec

(* Once nothing is under way, every message of the window is shown exactly *)
(* once, as marmot's records make of it: each optimistic change has become *)
(* the confirmed one or is gone, and no report was overtaken for good by   *)
(* the landing of an older snapshot (the watcher, edit_op, react_op,       *)
(* refresh_message_row, rebuild_chat_messages_from).                       *)
THEOREM RowsAreSettled == Spec => []RowsSettle
<1>1. SettlingInv => RowsSettle
  BY SettledRows
<1>2. QED
  BY <1>1, SettlingInvHolds, PTL

(* .. and none of its attachments is left spinning, or decoded and not     *)
(* painted, but those whose load failed without a refresh                  *)
(* (autoload_album_cells, on_attachment_clicked, Loaded and LoadFailed).   *)
THEOREM CellsAreSettled == Spec => []CellsSettle
<1>1. SettlingInv => CellsSettle
  BY SettledCells
<1>2. QED
  BY <1>1, SettlingInvHolds, PTL
=============================================================================
