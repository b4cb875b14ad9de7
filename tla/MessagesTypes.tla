---------------------------- MODULE MessagesTypes -----------------------------
(***************************************************************************)
(* TLAPS proofs about Messages, the foundations: what its helpers on       *)
(* sequences and bags return, and that every variable keeps its type.      *)
(***************************************************************************)
EXTENDS Messages, DataLemmas

(* SelectInSeq finds a row exactly when there is one.                      *)
LEMMA SpotFinds ==
  ASSUME NEW S, rows \in Seq(S), NEW m
  PROVE  /\ Shown(m) <=> \E k \in DOMAIN rows : rows[k].msg = m
         /\ Shown(m) => Spot(m) \in DOMAIN rows /\ rows[Spot(m)].msg = m
<1> DEFINE I == {i \in 1 .. Len(rows) : rows[i].msg = m}
<1>1. Spot(m) = IF I # {} THEN Min(I) ELSE 0
  BY DEF Spot, SelectInSeq
<1>2. I \subseteq Nat /\ I = {i \in DOMAIN rows : rows[i].msg = m} /\ 0 \notin I
  OBVIOUS
<1>3. CASE I = {}
  BY <1>1, <1>2, <1>3 DEF Shown
<1>4. CASE I # {}
  <2>1. \E x \in I : \A y \in I : x <= y
    BY <1>2, <1>4, LeastOf
  <2>2. Min(I) \in I
    BY <2>1 DEF Min
  <2>3. QED
    BY <1>1, <1>2, <1>4, <2>2 DEF Shown
<1>5. QED
  BY <1>3, <1>4

(* The rank of a position counts the positions up to it.                   *)
LEMMA FiniteWithin ==
  ASSUME NEW n \in Nat, NEW I, I \subseteq 1 .. n
  PROVE  IsFiniteSet(I) /\ Cardinality(I) \in Nat
<1>1. IsFiniteSet(1 .. n)
  BY FS_Interval
<1>2. IsFiniteSet(I)
  BY <1>1, FS_Subset
<1>3. QED
  BY <1>2, FS_CardinalityType

LEMMA RankCounts ==
  ASSUME NEW n \in Nat, NEW I, I \subseteq 1 .. n
  PROVE  /\ \A i \in Nat : Rank(I, i) \in Nat
         /\ Rank(I, 0) = 0 /\ Rank(I, n) = Cardinality(I)
         /\ \A i \in Nat : i + 1 \in I => Rank(I, i + 1) = Rank(I, i) + 1
<1>0. \A j \in I : j \in Nat /\ 1 <= j /\ j <= n
  OBVIOUS
<1>1. ASSUME NEW i \in Nat
      PROVE  /\ IsFiniteSet({j \in I : j <= i})
             /\ Cardinality({j \in I : j <= i}) \in Nat
  <2>1. {j \in I : j <= i} \subseteq 1 .. n
    OBVIOUS
  <2>2. QED
    BY <2>1, FiniteWithin
<1>2. Rank(I, 0) = 0
  <2>1. \A j \in I : ~(j <= 0)
    BY <1>0
  <2>2. {j \in I : j <= 0} = {}
    BY <2>1, Zenon
  <2>3. QED
    BY <2>2, FS_EmptySet DEF Rank
<1>3. Rank(I, n) = Cardinality(I)
  <2>1. {j \in I : j <= n} = I
    BY <1>0
  <2>2. QED
    BY <2>1 DEF Rank
<1>4. ASSUME NEW i \in Nat, i + 1 \in I
      PROVE  Rank(I, i + 1) = Rank(I, i) + 1
  <2>1. {j \in I : j <= i + 1} = {j \in I : j <= i} \cup {i + 1}
    <3>1. \A j \in I : j <= i + 1 <=> j <= i \/ j = i + 1
      BY <1>0, <1>4
    <3>2. QED
      BY <1>4, <3>1, Zenon
  <2>2. i + 1 \notin {j \in I : j <= i}
    OBVIOUS
  <2>3. Cardinality({j \in I : j <= i} \cup {i + 1}) = Cardinality({j \in I : j <= i}) + 1
    BY <1>1, <2>2, FS_AddElement
  <2>4. QED
    BY <2>1, <2>3 DEF Rank
<1>6. \A i \in Nat : Rank(I, i) \in Nat
  BY <1>1 DEF Rank
<1>7. QED
  BY <1>2, <1>3, <1>4, <1>6

LEMMA RankStays ==
  ASSUME NEW n \in Nat, NEW I, I \subseteq 1 .. n, NEW i \in Nat, i + 1 \notin I
  PROVE  Rank(I, i + 1) = Rank(I, i)
<1>1. \A j \in I : j \in Nat /\ 1 <= j /\ j <= n
  OBVIOUS
<1>2. {j \in I : j <= i + 1} = {j \in I : j <= i}
  <2>1. \A j \in I : j <= i + 1 <=> j <= i
    BY <1>1
  <2>2. QED
    BY <2>1, Zenon
<1>3. QED
  BY <1>2 DEF Rank

(* Every rank up to the size of a set of positions is some position's.     *)
LEMMA RankHit ==
  ASSUME NEW n \in Nat, NEW I, I \subseteq 1 .. n, NEW k \in 1 .. Cardinality(I)
  PROVE  \E i \in I : Rank(I, i) = k
<1> DEFINE S == {i \in Nat : Rank(I, i) >= k}
<1>1. /\ \A i \in Nat : Rank(I, i) \in Nat
      /\ Rank(I, 0) = 0 /\ Rank(I, n) = Cardinality(I)
      /\ \A i \in Nat : i + 1 \in I => Rank(I, i + 1) = Rank(I, i) + 1
      /\ \A i \in Nat : i + 1 \notin I => Rank(I, i + 1) = Rank(I, i)
  <2>1. \A i \in Nat : Rank(I, i) \in Nat
    BY RankCounts
  <2>2. Rank(I, 0) = 0
    BY RankCounts
  <2>3. Rank(I, n) = Cardinality(I)
    BY RankCounts
  <2>4. \A i \in Nat : i + 1 \in I => Rank(I, i + 1) = Rank(I, i) + 1
    BY RankCounts
  <2>5. ASSUME NEW i \in Nat, i + 1 \notin I PROVE Rank(I, i + 1) = Rank(I, i)
    BY <2>5, RankStays
  <2>6. QED
    BY <2>1, <2>2, <2>3, <2>4, <2>5
<1>2. k \in Nat /\ k >= 1 /\ Cardinality(I) >= k
  BY FiniteWithin
<1>3. n \in S /\ 0 \notin S /\ S \subseteq Nat
  BY <1>1, <1>2
<1>4. PICK x \in S : \A y \in S : x <= y
  BY <1>3, LeastOf
<1>5. x \in Nat /\ x # 0
  BY <1>3, <1>4
<1>6. PICK i \in Nat : x = i + 1
  <2>1. x - 1 \in Nat /\ x = (x - 1) + 1
    BY <1>5
  <2>2. QED
    BY <2>1
<1>7. i \notin S
  BY <1>4, <1>6
<1>8. Rank(I, i) < k /\ Rank(I, i + 1) >= k
  BY <1>1, <1>2, <1>4, <1>6, <1>7
<1>9. i + 1 \in I /\ Rank(I, i + 1) = k
  <2>1. Rank(I, i) \in Nat /\ Rank(I, i + 1) \in Nat
    BY <1>1
  <2>2. i + 1 \in I
    BY <1>1, <1>2, <1>8, <2>1
  <2>3. Rank(I, i + 1) = Rank(I, i) + 1
    BY <1>1, <2>2
  <2>4. QED
    BY <1>2, <1>8, <2>1, <2>2, <2>3
<1>10. QED
  BY <1>9

(* Picked takes an element of s from one of the positions for each rank.   *)
LEMMA PickedAt ==
  ASSUME NEW S, NEW s \in Seq(S), NEW I, I \subseteq DOMAIN s
  PROVE  /\ IsFiniteSet(I) /\ Cardinality(I) \in Nat
         /\ Picked(s, I) \in Seq(S) /\ Len(Picked(s, I)) = Cardinality(I)
         /\ \A k \in DOMAIN Picked(s, I) :
              \E i \in I : Rank(I, i) = k /\ Picked(s, I)[k] = s[i]
<1>1. I \subseteq 1 .. Len(s) /\ Len(s) \in Nat
  OBVIOUS
<1>2. IsFiniteSet(I) /\ Cardinality(I) \in Nat
  BY <1>1, FiniteWithin
<1>3. ASSUME NEW k \in 1 .. Cardinality(I)
      PROVE  \E i \in I : Rank(I, i) = k /\ Picked(s, I)[k] = s[i]
  <2>1. \E i \in I : Rank(I, i) = k
    BY <1>1, RankHit
  <2>2. QED
    BY <1>3, <2>1 DEF Picked
<1>4. \A k \in 1 .. Cardinality(I) : Picked(s, I)[k] \in S
  BY <1>3
<1>5. /\ Picked(s, I) = [k \in 1 .. Cardinality(I) |-> Picked(s, I)[k]]
      /\ DOMAIN Picked(s, I) = 1 .. Cardinality(I)
  BY DEF Picked
<1>6. Picked(s, I) \in Seq(S) /\ Len(Picked(s, I)) = Cardinality(I)
  <2>1. Picked(s, I) \in [1 .. Cardinality(I) -> S]
    BY <1>4, <1>5
  <2>2. PICK c \in Nat : c = Cardinality(I)
    BY <1>2
  <2>3. Picked(s, I) \in [1 .. c -> S]
    BY <2>1, <2>2
  <2>4. Picked(s, I) \in Seq(S) /\ Len(Picked(s, I)) = c
    BY <2>3
  <2>5. QED
    BY <2>2, <2>4
<1>7. QED
  BY <1>2, <1>3, <1>5, <1>6

-----------------------------------------------------------------------------
(* The shapes of the variables, in full.                                   *)
CellStates == {"image", "loading", "empty"}
ChipBars   == {c \in [Emojis -> [n : Nat, mine : BOOLEAN]] :
                 \A e \in Emojis : c[e].mine => c[e].n > 0}
CellMaps   == UNION {[S -> CellStates] : S \in SUBSET AllKeys}
Row        == [msg : Msgs, dead : BOOLEAN, text : Texts \cup {"none"}, count : Nat,
               chips : ChipBars, cells : CellMaps,
               first : BOOLEAN, last : BOOLEAN]
Filed      == {r \in Record : r.kind = "edit" => r.val \in Texts}
Operation  == {o \in [kind : {"react", "unreact", "edit", "delete"}, msg : Msgs,
                      val : Texts \cup Emojis \cup {"none"}, by : Accounts,
                      stored : BOOLEAN] :
                 o.kind = "edit" => o.val \in Texts}
Overlay    == [reactions : [Msgs -> Emojis \cup {"none", "remove"}],
               edits : [Msgs -> Texts \cup {"none"}], deletes : SUBSET Msgs]
Snap       == [kind : {"refresh", "rebuild", "tap"}, msg : Msgs, n : Nat]
              \cup [kind : {"list", "open"}, msg : {"none"}, n : Nat]
Seen       == [kind : {"echo", "event"}, msg : Msgs, n : Nat]
Done       == [kind : {"done"}, op : Operation]
Autoload   == {c \in [kind : {"autoload"}, msg : Msgs, keys : SUBSET AllKeys] :
                 Kind[c.msg] = "album" /\ c.keys \subseteq Keys[c.msg]}
Posted     == Snap \cup Seen \cup Done \cup Autoload
Load       == {l \in [key : AllKeys, msg : Msgs] : l.key \in Keys[l.msg]}
SnapKinds  == {"refresh", "rebuild", "tap", "list", "open", "echo", "event"}

ScreenShaped ==
  /\ log \in Seq(Filed) /\ account \in Accounts
  /\ hidden \in [Accounts -> SUBSET Msgs]
  /\ overlay \in Overlay /\ editing \subseteq Msgs
  /\ rows \in Seq(Row)
  /\ loaded \in BOOLEAN /\ watched \in BOOLEAN
  /\ used \in [Limited -> Nat]
TasksShaped ==
  /\ IsBag(ops, Operation) /\ IsBag(reads, ReadJob)
  /\ IsBag(held, Snap) /\ IsBag(loads, Load)
  /\ feed \in Seq(Filed) /\ uiq \in Seq(Posted)
MediaShaped ==
  /\ cache \subseteq AllKeys /\ inflight \subseteq AllKeys /\ disk \subseteq AllKeys
  /\ cache \cap inflight = {}
(* A snapshot has read no more records than there are.                     *)
Reached ==
  /\ \A h \in BagToSet(held) : h.n <= Len(log)
  /\ \A i \in DOMAIN uiq : uiq[i].kind \in SnapKinds => uiq[i].n <= Len(log)
Shaped == ScreenShaped /\ TasksShaped /\ MediaShaped /\ Reached

LEMMA ShapedTypes == Shaped => TypeOK
<1> SUFFICES ASSUME Shaped PROVE TypeOK
  OBVIOUS
<1>1. log \in Seq(Record)
  BY DEF Shaped, ScreenShaped, Filed
<1>2. /\ overlay.reactions \in [Msgs -> Emojis \cup {"none", "remove"}]
      /\ overlay.edits \in [Msgs -> Texts \cup {"none"}]
      /\ overlay.deletes \subseteq Msgs
  BY DEF Shaped, ScreenShaped, Overlay
<1>3. ASSUME NEW k \in DOMAIN rows
      PROVE  /\ rows[k].msg \in Msgs /\ rows[k].text \in Texts \cup {"none"}
             /\ rows[k].count \in Nat
             /\ \A e \in Emojis : rows[k].chips[e].n \in Nat
                                  /\ (rows[k].chips[e].mine => rows[k].chips[e].n > 0)
  <2>1. rows[k] \in Row
    BY DEF Shaped, ScreenShaped
  <2>2. rows[k].chips \in ChipBars
    BY <2>1 DEF Row
  <2>3. \A e \in Emojis : rows[k].chips[e] \in [n : Nat, mine : BOOLEAN]
                          /\ (rows[k].chips[e].mine => rows[k].chips[e].n > 0)
    BY <2>2 DEF ChipBars
  <2>4. QED
    BY <2>1, <2>3 DEF Row
<1>4. JobBag(reads, ReadJob)
  BY DEF Shaped, TasksShaped, IsBag, JobBag, BagToSet
<1>5. QED
  BY <1>1, <1>2, <1>3, <1>4 DEF Shaped, ScreenShaped, TasksShaped, MediaShaped, TypeOK

LEMMA SpendUses ==
  ASSUME NEW o \in Limited, used \in [Limited -> Nat], Spend(o)
  PROVE  /\ used' \in [Limited -> Nat] /\ used' = [used EXCEPT ![o] = @ + 1]
         /\ used'[o] # 0
<1>1. used' = [used EXCEPT ![o] = @ + 1]
  BY DEF Spend
<1>2. QED
  BY <1>1
-----------------------------------------------------------------------------
(* What a row is built of.                                                 *)
LEMMA WithinLog ==
  ASSUME Shaped, NEW n \in Nat, n <= Len(log)
  PROVE  /\ Within(n) \subseteq DOMAIN log /\ Within(n) \subseteq 1 .. n
         /\ \A i \in Within(n) : log[i] \in Filed
<1>1. log \in Seq(Filed)
  BY DEF Shaped, ScreenShaped
<1>2. QED
  BY <1>1 DEF Within

LEMMA ReactedBar ==
  ASSUME NEW chips \in ChipBars, NEW op
  PROVE  /\ WithReaction(chips, op) \in ChipBars
         /\ op \in Emojis => WithReaction(chips, op)[op].mine
         /\ op = "remove" => \A e \in Emojis : ~WithReaction(chips, op)[e].mine
<1>1. ASSUME NEW e \in Emojis
      PROVE  /\ WithReaction(chips, op)[e] \in [n : Nat, mine : BOOLEAN]
             /\ WithReaction(chips, op)[e].mine => WithReaction(chips, op)[e].n > 0
             /\ op = e => WithReaction(chips, op)[e].mine
             /\ op = "remove" => ~WithReaction(chips, op)[e].mine
  <2>1. chips[e] \in [n : Nat, mine : BOOLEAN] /\ (chips[e].mine => chips[e].n > 0)
    BY DEF ChipBars
  <2>2. "remove" # e
    BY MessagesConstantsOK
  <2>3. CASE op = e /\ ~chips[e].mine
    <3>1. WithReaction(chips, op)[e] = [n |-> chips[e].n + 1, mine |-> TRUE]
      BY <2>3 DEF WithReaction
    <3>2. QED
      BY <2>1, <2>2, <2>3, <3>1
  <2>4. CASE ~(op = e /\ ~chips[e].mine) /\ op = "remove" /\ chips[e].mine
    <3>1. WithReaction(chips, op)[e] = [n |-> chips[e].n - 1, mine |-> FALSE]
      BY <2>1, <2>4 DEF WithReaction
    <3>2. chips[e].n \in Nat /\ chips[e].n > 0 /\ op # e
      BY <2>1, <2>2, <2>4
    <3>3. WithReaction(chips, op)[e] \in [n : Nat, mine : BOOLEAN]
      BY <3>1, <3>2
    <3>4. ~WithReaction(chips, op)[e].mine
      BY <3>1
    <3>5. QED
      BY <3>2, <3>3, <3>4
  <2>5. CASE ~(op = e /\ ~chips[e].mine) /\ ~(op = "remove" /\ chips[e].mine)
    <3>1. WithReaction(chips, op)[e] = chips[e]
      BY <2>5 DEF WithReaction
    <3>2. QED
      BY <2>1, <2>2, <2>5, <3>1
  <2>6. QED
    BY <2>3, <2>4, <2>5
<1>2. WithReaction(chips, op) \in [Emojis -> [n : Nat, mine : BOOLEAN]]
  <2>1. WithReaction(chips, op) = [e \in Emojis |-> WithReaction(chips, op)[e]]
    BY DEF WithReaction
  <2>2. QED
    BY <1>1, <2>1
<1>3. QED
  BY <1>1, <1>2 DEF ChipBars

LEMMA ChipsBar ==
  ASSUME Shaped, NEW n \in Nat, n <= Len(log), NEW m \in Msgs
  PROVE  Chips(n, m) \in ChipBars
<1>1. ASSUME NEW e \in Emojis
      PROVE  /\ Chips(n, m)[e] \in [n : Nat, mine : BOOLEAN]
             /\ Chips(n, m)[e].mine => Chips(n, m)[e].n > 0
  <2>1. Reactions(n, m, e) \subseteq 1 .. n
    BY WithinLog DEF Reactions
  <2>2. IsFiniteSet(Reactions(n, m, e)) /\ Cardinality(Reactions(n, m, e)) \in Nat
    BY <2>1, FiniteWithin
  <2>3. Reactions(n, m, e) # {} => Cardinality(Reactions(n, m, e)) # 0
    BY <2>2, FS_EmptySet
  <2>4. Chips(n, m)[e] = [n    |-> Cardinality(Reactions(n, m, e)),
                          mine |-> \E i \in Reactions(n, m, e) : log[i].by = account]
    BY DEF Chips
  <2>5. Chips(n, m)[e].mine => Reactions(n, m, e) # {}
    BY <2>4
  <2>6. Chips(n, m)[e].n \in Nat /\ (Chips(n, m)[e].mine => Chips(n, m)[e].n > 0)
    BY <2>2, <2>3, <2>4, <2>5
  <2>7. QED
    BY <2>2, <2>4, <2>6
<1>2. Chips(n, m) \in [Emojis -> [n : Nat, mine : BOOLEAN]]
  <2>1. Chips(n, m) = [e \in Emojis |-> Chips(n, m)[e]]
    BY DEF Chips
  <2>2. QED
    BY <1>1, <2>1
<1>3. QED
  BY <1>1, <1>2 DEF ChipBars

LEMMA TextShaped ==
  ASSUME Shaped, NEW n \in Nat, n <= Len(log), NEW m \in Msgs
  PROVE  /\ Text(n, m) \in Texts \cup {"none"} /\ Count(n, m) \in Nat
         /\ overlay.edits[m] # "none" =>
              Text(n, m) = overlay.edits[m] /\ Count(n, m) > 0
         /\ overlay.edits[m] = "none" /\ Edits(n, m) = {} =>
              Text(n, m) = "none" /\ Count(n, m) = 0
<1>1. Edits(n, m) \subseteq 1 .. n /\ \A i \in Edits(n, m) : log[i].val \in Texts
  BY WithinLog DEF Edits, ByAuthor, Filed
<1>2. IsFiniteSet(Edits(n, m)) /\ Cardinality(Edits(n, m)) \in Nat
  BY <1>1, FiniteWithin
<1>3. Edits(n, m) # {} => Newest(Edits(n, m)) \in Edits(n, m)
  <2>1. Edits(n, m) \subseteq 0 .. n
    BY <1>1
  <2>2. Edits(n, m) # {} => \E x \in Edits(n, m) : \A y \in Edits(n, m) : y <= x
    BY <2>1, GreatestOf
  <2>3. QED
    BY <2>2 DEF Newest
<1>4. overlay.edits[m] \in Texts \cup {"none"}
  BY DEF Shaped, ScreenShaped, Overlay
<1>5. Edits(n, m) = {} => Cardinality(Edits(n, m)) = 0
  BY FS_EmptySet
<1>6. Text(n, m) = IF overlay.edits[m] # "none" THEN overlay.edits[m]
                   ELSE IF Edits(n, m) # {} THEN log[Newest(Edits(n, m))].val ELSE "none"
  BY DEF Text, Rewritten
<1>7. Text(n, m) \in Texts \cup {"none"}
  BY <1>1, <1>3, <1>4, <1>6
<1>8. Count(n, m) \in Nat /\ (overlay.edits[m] # "none" => Count(n, m) > 0)
  BY <1>2 DEF Count, Rewritten
<1>9. overlay.edits[m] = "none" /\ Edits(n, m) = {} => Count(n, m) = 0
  BY <1>2, <1>5 DEF Count, Rewritten
<1>10. QED
  BY <1>6, <1>7, <1>8, <1>9

LEMMA CellsShaped ==
  ASSUME NEW m \in Msgs
  PROVE  Cells(m) \in CellMaps
<1>1. Keys[m] \in SUBSET AllKeys
  BY DEF AllKeys
<1>2. Cells(m) \in [Keys[m] -> CellStates]
  BY DEF Cells, Cell, CellStates
<1>3. QED
  BY <1>1, <1>2 DEF CellMaps

LEMMA TombstoneRow ==
  ASSUME NEW row \in Row
  PROVE  /\ AsTombstone(row) \in Row /\ AsTombstone(row).msg = row.msg
         /\ AsTombstone(row).dead /\ AsTombstone(row).text = "none"
         /\ AsTombstone(row).count = 0
         /\ AsTombstone(row).first = row.first /\ AsTombstone(row).last = row.last
<1>1. NoChips \in ChipBars
  BY DEF NoChips, ChipBars
<1>2. AsTombstone(row) \in Row
  BY <1>1 DEF AsTombstone, Row
<1>3. QED
  BY <1>2 DEF AsTombstone, Row

(* What chat_message_from_with_reactions makes of a message.               *)
LEMMA BuildShape ==
  ASSUME Shaped, NEW n \in Nat, n <= Len(log), NEW m \in Msgs
  PROVE  /\ Build(n, m) \in Row /\ Build(n, m).msg = m
         /\ Build(n, m).first = TRUE /\ Build(n, m).last = TRUE
         /\ Tombstone(n, m) =>
              Build(n, m).dead /\ Build(n, m).text = "none" /\ Build(n, m).count = 0
         /\ ~Tombstone(n, m) =>
              /\ ~Build(n, m).dead
              /\ Build(n, m).text = Text(n, m) /\ Build(n, m).count = Count(n, m)
              /\ Build(n, m).chips = WithReaction(Chips(n, m), overlay.reactions[m])
<1> DEFINE row == [msg |-> m, dead |-> FALSE, text |-> Text(n, m), count |-> Count(n, m),
                   chips |-> WithReaction(Chips(n, m), overlay.reactions[m]),
                   cells |-> Cells(m), first |-> TRUE, last |-> TRUE]
<1>1. WithReaction(Chips(n, m), overlay.reactions[m]) \in ChipBars
  BY ChipsBar, ReactedBar
<1>2. Text(n, m) \in Texts \cup {"none"} /\ Count(n, m) \in Nat
  BY TextShaped
<1>3. row \in Row
  BY <1>1, <1>2, CellsShaped DEF Row
<1>4. /\ row.msg = m /\ row.first = TRUE /\ row.last = TRUE /\ ~row.dead
      /\ row.text = Text(n, m) /\ row.count = Count(n, m)
      /\ row.chips = WithReaction(Chips(n, m), overlay.reactions[m])
  OBVIOUS
<1>5. Build(n, m) = IF Tombstone(n, m) THEN AsTombstone(row) ELSE row
  BY DEF Build
<1> HIDE DEF row
<1>6. CASE Tombstone(n, m)
  <2>1. Build(n, m) = AsTombstone(row)
    BY <1>5, <1>6
  <2>2. QED
    BY <1>3, <1>4, <1>6, <2>1, TombstoneRow
<1>7. CASE ~Tombstone(n, m)
  <2>1. Build(n, m) = row
    BY <1>5, <1>7
  <2>2. QED
    BY <1>3, <1>4, <1>7, <2>1
<1>8. QED
  BY <1>6, <1>7
-----------------------------------------------------------------------------
(* Whole lists of rows: what every way of making one keeps.                *)
SameBody(r, s)  == /\ r.msg = s.msg /\ (r.dead <=> s.dead) /\ r.text = s.text
                   /\ r.count = s.count /\ r.chips = s.chips /\ r.cells = s.cells
SameFlags(r, s) == (r.first <=> s.first) /\ (r.last <=> s.last)
Joined(rs) ==
  /\ \A k \in DOMAIN rs : k + 1 \in DOMAIN rs => (rs[k].last <=> rs[k + 1].first)
  /\ rs # <<>> => rs[1].first /\ rs[Len(rs)].last

LEMMA FlagRow ==
  ASSUME NEW row \in Row, NEW f \in BOOLEAN, NEW l \in BOOLEAN
  PROVE  /\ [row EXCEPT !.first = f, !.last = l] \in Row
         /\ SameBody([row EXCEPT !.first = f, !.last = l], row)
         /\ [row EXCEPT !.first = f, !.last = l].first <=> f
         /\ [row EXCEPT !.first = f, !.last = l].last <=> l
BY DEF Row, SameBody

LEMMA EndRow ==
  ASSUME NEW row \in Row
  PROVE  /\ [row EXCEPT !.last = FALSE] \in Row
         /\ SameBody([row EXCEPT !.last = FALSE], row)
         /\ [row EXCEPT !.last = FALSE].first <=> row.first
         /\ ~[row EXCEPT !.last = FALSE].last
BY DEF Row, SameBody

(* rebuild_chat_messages_from: of visible messages of the snapshot, each   *)
(* at its place, and in groups that join.                                  *)
Seats(n) == {i \in Within(n) : Visible(log[i])}
LEMMA RebuiltShape ==
  ASSUME Shaped, NEW n \in Nat, n <= Len(log)
  PROVE  /\ Rebuilt(n) \in Seq(Row)
         /\ \A k \in DOMAIN Rebuilt(n) : \E i \in Within(n) :
              /\ Rank(Seats(n), i) = k /\ log[i].kind = "chat"
              /\ log[i].msg = Rebuilt(n)[k].msg /\ ~Hidden(log[i].msg)
         /\ \A k \in DOMAIN Rebuilt(n) :
              /\ Rebuilt(n)[k].msg \in Msgs
              /\ SameBody(Rebuilt(n)[k], Build(n, Rebuilt(n)[k].msg))
         /\ Joined(Rebuilt(n))
<1> DEFINE shown == Picked(log, Seats(n))
<1>1. log \in Seq(Filed) /\ Seats(n) \subseteq DOMAIN log
  BY WithinLog DEF Shaped, ScreenShaped, Seats
<1>2. /\ shown \in Seq(Filed) /\ Len(shown) \in Nat
      /\ \A k \in DOMAIN shown : \E i \in Seats(n) : Rank(Seats(n), i) = k /\ shown[k] = log[i]
  BY <1>1, PickedAt
<1> DEFINE First(k) == k = 1 \/ ~Grouped(shown[k - 1].msg, shown[k].msg)
           Final(k) == k = Len(shown) \/ ~Grouped(shown[k].msg, shown[k + 1].msg)
<1>3. Rebuilt(n) = [k \in DOMAIN shown |->
        [Build(n, shown[k].msg) EXCEPT !.first = First(k), !.last = Final(k)]]
  BY DEF Rebuilt, Seats
<1> HIDE DEF shown
<1>4. \A k \in DOMAIN shown : First(k) \in BOOLEAN /\ Final(k) \in BOOLEAN
  OBVIOUS
<1>5. \A k \in DOMAIN shown : k + 1 \in DOMAIN shown => (Final(k) <=> First(k + 1))
  <2> SUFFICES ASSUME NEW k \in DOMAIN shown, k + 1 \in DOMAIN shown
               PROVE  Final(k) <=> First(k + 1)
    OBVIOUS
  <2>1. k \in Nat /\ k + 1 # 1 /\ (k + 1) - 1 = k /\ k # Len(shown)
    BY <1>2
  <2>2. QED
    BY <2>1
<1>6. Len(shown) # 0 => First(1) /\ Final(Len(shown))
  OBVIOUS
<1> HIDE DEF First, Final
<1>7. ASSUME NEW k \in DOMAIN shown
      PROVE  /\ shown[k].msg \in Msgs /\ Rebuilt(n)[k] \in Row
             /\ Rebuilt(n)[k].msg = shown[k].msg
             /\ SameBody(Rebuilt(n)[k], Build(n, shown[k].msg))
             /\ Rebuilt(n)[k].first <=> First(k)
             /\ Rebuilt(n)[k].last <=> Final(k)
  <2>1. shown[k].msg \in Msgs
    BY <1>2 DEF Filed, Record
  <2>2. Build(n, shown[k].msg) \in Row /\ Build(n, shown[k].msg).msg = shown[k].msg
    BY <2>1, BuildShape
  <2>3. Rebuilt(n)[k] = [Build(n, shown[k].msg) EXCEPT !.first = First(k), !.last = Final(k)]
    BY <1>3
  <2>4. First(k) \in BOOLEAN /\ Final(k) \in BOOLEAN
    BY <1>4
  <2>5. /\ Rebuilt(n)[k] \in Row
        /\ SameBody(Rebuilt(n)[k], Build(n, shown[k].msg))
        /\ Rebuilt(n)[k].first <=> First(k)
        /\ Rebuilt(n)[k].last <=> Final(k)
    <3> DEFINE row == Build(n, shown[k].msg)
    <3>1. /\ [row EXCEPT !.first = First(k), !.last = Final(k)] \in Row
          /\ SameBody([row EXCEPT !.first = First(k), !.last = Final(k)], row)
          /\ [row EXCEPT !.first = First(k), !.last = Final(k)].first <=> First(k)
          /\ [row EXCEPT !.first = First(k), !.last = Final(k)].last <=> Final(k)
      <4>1. row \in Row
        BY <2>2
      <4> HIDE DEF row
      <4>2. QED
        BY <2>4, <4>1, FlagRow, Zenon
    <3>2. QED
      BY <2>3, <3>1, Zenon
  <2>6. Rebuilt(n)[k].msg = shown[k].msg
    BY <2>2, <2>5 DEF SameBody
  <2>7. QED
    BY <2>1, <2>5, <2>6
<1>8. DOMAIN Rebuilt(n) = DOMAIN shown /\ DOMAIN shown = 1 .. Len(shown)
  <2>1. DOMAIN Rebuilt(n) = DOMAIN shown
    BY <1>3, Zenon
  <2>2. QED
    BY <1>2, <2>1
<1>9. Rebuilt(n) \in Seq(Row) /\ Len(Rebuilt(n)) = Len(shown)
  <2>1. PICK c \in Nat : c = Len(shown)
    BY <1>2
  <2>2. Rebuilt(n) = [k \in 1 .. c |-> Rebuilt(n)[k]]
    BY <1>3, <1>8, <2>1
  <2>3. Rebuilt(n) \in [1 .. c -> Row]
    BY <1>7, <1>8, <2>1, <2>2
  <2>4. QED
    BY <2>1, <2>3
<1>10. Joined(Rebuilt(n))
  <2>1. ASSUME NEW k \in DOMAIN Rebuilt(n), k + 1 \in DOMAIN Rebuilt(n)
        PROVE  Rebuilt(n)[k].last <=> Rebuilt(n)[k + 1].first
    BY <1>5, <1>7, <1>8, <2>1
  <2>2. ASSUME Rebuilt(n) # <<>>
        PROVE  Rebuilt(n)[1].first /\ Rebuilt(n)[Len(Rebuilt(n))].last
    <3>1. Len(Rebuilt(n)) # 0
      BY <1>9, <2>2
    <3>2. 1 \in DOMAIN shown /\ Len(shown) \in DOMAIN shown
      BY <1>2, <1>8, <1>9, <3>1
    <3>3. QED
      BY <1>6, <1>7, <1>9, <3>1, <3>2
  <2>3. QED
    BY <2>1, <2>2 DEF Joined
<1>11. ASSUME NEW k \in DOMAIN Rebuilt(n)
       PROVE  \E i \in Within(n) :
                /\ Rank(Seats(n), i) = k /\ log[i].kind = "chat"
                /\ log[i].msg = Rebuilt(n)[k].msg /\ ~Hidden(log[i].msg)
  <2>1. PICK i \in Seats(n) : Rank(Seats(n), i) = k /\ shown[k] = log[i]
    BY <1>2, <1>8
  <2>2. i \in Within(n) /\ log[i].kind = "chat" /\ ~Hidden(log[i].msg)
    BY DEF Seats, Visible
  <2>3. log[i].msg = Rebuilt(n)[k].msg
    BY <1>7, <1>8, <2>1
  <2>4. QED
    BY <2>1, <2>2, <2>3
<1>12. \A k \in DOMAIN Rebuilt(n) :
         /\ Rebuilt(n)[k].msg \in Msgs
         /\ SameBody(Rebuilt(n)[k], Build(n, Rebuilt(n)[k].msg))
  BY <1>7, <1>8
<1>13. QED
  BY <1>9, <1>10, <1>11, <1>12

(* A row written in its place: set_row_data.                               *)
LEMMA RowWritten ==
  ASSUME NEW rs \in Seq(Row), NEW k \in DOMAIN rs, NEW row \in Row
  PROVE  /\ [rs EXCEPT ![k] = row] \in Seq(Row)
         /\ DOMAIN [rs EXCEPT ![k] = row] = DOMAIN rs
         /\ Len([rs EXCEPT ![k] = row]) = Len(rs)
         /\ [rs EXCEPT ![k] = row][k] = row
         /\ \A j \in DOMAIN rs : j # k => [rs EXCEPT ![k] = row][j] = rs[j]
OBVIOUS

LEMMA FlagsJoin ==
  ASSUME NEW rs \in Seq(Row), NEW ts \in Seq(Row), DOMAIN ts = DOMAIN rs, Joined(rs),
         \A k \in DOMAIN rs : SameFlags(ts[k], rs[k])
  PROVE  Joined(ts)
<1>1. Len(ts) = Len(rs) /\ (ts # <<>> => rs # <<>>)
  OBVIOUS
<1>2. ASSUME NEW k \in DOMAIN ts, k + 1 \in DOMAIN ts
      PROVE  ts[k].last <=> ts[k + 1].first
  BY <1>2 DEF Joined, SameFlags
<1>3. ASSUME ts # <<>> PROVE ts[1].first /\ ts[Len(ts)].last
  <2>1. 1 \in DOMAIN rs /\ Len(rs) \in DOMAIN rs
    BY <1>1, <1>3
  <2>2. QED
    BY <1>1, <1>3, <2>1 DEF Joined, SameFlags
<1>4. QED
  BY <1>2, <1>3 DEF Joined

(* push_message_grouped keeps the rows, but for a flag, and adds one.      *)
LEMMA PushedShape ==
  ASSUME rows \in Seq(Row), NEW row \in Row
  PROVE  /\ Pushed(row) \in Seq(Row) /\ Len(Pushed(row)) = Len(rows) + 1
         /\ \A k \in DOMAIN rows : SameBody(Pushed(row)[k], rows[k])
         /\ SameBody(Pushed(row)[Len(rows) + 1], row)
         /\ Joined(rows) => Joined(Pushed(row))
<1> DEFINE k    == Len(rows)
           same == k > 0 /\ Author[rows[k].msg] = Author[row.msg]
           kept == IF same THEN [rows EXCEPT ![k].last = FALSE] ELSE rows
           new  == [row EXCEPT !.first = ~same, !.last = TRUE]
<1>1. Pushed(row) = Append(kept, new)
  BY DEF Pushed
<1>2. k \in Nat /\ same \in BOOLEAN /\ (same => k \in DOMAIN rows)
  OBVIOUS
<1>3. new \in Row /\ SameBody(new, row) /\ (new.first <=> ~same) /\ new.last
  <2>1. (~same) \in BOOLEAN
    OBVIOUS
  <2> HIDE DEF same
  <2>2. QED
    BY <2>1, FlagRow
<1> HIDE DEF same, new
<1>4. /\ kept \in Seq(Row) /\ Len(kept) = k /\ DOMAIN kept = DOMAIN rows
      /\ \A j \in DOMAIN rows : /\ SameBody(kept[j], rows[j])
                                /\ kept[j].first <=> rows[j].first
                                /\ j # k => (kept[j].last <=> rows[j].last)
      /\ k > 0 => (kept[k].last <=> ~same /\ rows[k].last)
  <2>1. CASE same
    <3>1. kept = [rows EXCEPT ![k] = [rows[k] EXCEPT !.last = FALSE]] /\ k \in DOMAIN rows
      BY <1>2, <2>1
    <3>2. /\ [rows[k] EXCEPT !.last = FALSE] \in Row
          /\ SameBody([rows[k] EXCEPT !.last = FALSE], rows[k])
          /\ [rows[k] EXCEPT !.last = FALSE].first <=> rows[k].first
          /\ ~[rows[k] EXCEPT !.last = FALSE].last
      BY <3>1, EndRow
    <3>3. QED
      BY <2>1, <3>1, <3>2, RowWritten DEF SameBody
  <2>2. CASE ~same
    BY <2>2 DEF SameBody
  <2>3. QED
    BY <2>1, <2>2
<1> HIDE DEF kept
<1>5. /\ Append(kept, new) \in Seq(Row) /\ Len(Append(kept, new)) = k + 1
      /\ DOMAIN Append(kept, new) = 1 .. k + 1
      /\ \A j \in DOMAIN rows : Append(kept, new)[j] = kept[j]
      /\ Append(kept, new)[k + 1] = new
  BY <1>2, <1>3, <1>4
<1>6. ASSUME Joined(rows) PROVE Joined(Append(kept, new))
  <2>1. ASSUME NEW j \in 1 .. k + 1, j + 1 \in 1 .. k + 1
        PROVE  Append(kept, new)[j].last <=> Append(kept, new)[j + 1].first
    <3>1. j \in DOMAIN rows /\ Append(kept, new)[j] = kept[j]
      BY <1>2, <1>5, <2>1
    <3>2. CASE j = k
      <4>1. Append(kept, new)[j + 1] = new
        BY <1>5, <3>2
      <4>2. rows # <<>> /\ rows[k].last
        BY <1>2, <1>6, <3>1, <3>2 DEF Joined
      <4>3. QED
        BY <1>3, <1>4, <3>1, <3>2, <4>1, <4>2
    <3>3. CASE j # k
      <4>1. j + 1 \in DOMAIN rows /\ Append(kept, new)[j + 1] = kept[j + 1]
        BY <1>2, <1>5, <2>1, <3>3
      <4>2. rows[j].last <=> rows[j + 1].first
        BY <1>6, <3>1, <4>1 DEF Joined
      <4>3. QED
        BY <1>4, <3>1, <3>3, <4>1, <4>2
    <3>4. QED
      BY <3>2, <3>3
  <2>2. Append(kept, new)[1].first
    <3>1. CASE k = 0
      <4>1. ~same
        BY <3>1 DEF same
      <4>2. QED
        BY <1>3, <1>5, <3>1, <4>1
    <3>2. CASE k # 0
      <4>1. 1 \in DOMAIN rows /\ rows # <<>>
        BY <1>2, <3>2
      <4>2. QED
        BY <1>4, <1>5, <1>6, <4>1 DEF Joined
    <3>3. QED
      BY <3>1, <3>2
  <2>3. QED
    BY <1>3, <1>5, <2>1, <2>2 DEF Joined
<1>7. QED
  BY <1>1, <1>2, <1>3, <1>4, <1>5, <1>6
-----------------------------------------------------------------------------
(* The event loop's queue: what is at its head, posted and taken.          *)
LEMMA HeadTyped ==
  ASSUME Shaped, uiq # <<>>
  PROVE  /\ 1 \in DOMAIN uiq /\ Head(uiq) = uiq[1] /\ Head(uiq) \in Posted
         /\ Head(uiq).kind = "done" => Head(uiq).op \in Operation
         /\ Head(uiq).kind = "autoload" => Head(uiq) \in Autoload
         /\ Head(uiq).kind \in SnapKinds => Head(uiq).n \in Nat /\ Head(uiq).n <= Len(log)
         /\ Head(uiq).kind \in {"refresh", "rebuild", "tap", "echo", "event"} =>
              Head(uiq).msg \in Msgs
<1>1. uiq \in Seq(Posted) /\ 1 \in DOMAIN uiq /\ Head(uiq) = uiq[1] /\ uiq[1] \in Posted
  BY DEF Shaped, TasksShaped
<1>2. Head(uiq).kind \in SnapKinds => Head(uiq).n <= Len(log)
  BY <1>1 DEF Shaped, Reached
<1>3. Head(uiq).kind = "done" => Head(uiq).op \in Operation
  BY <1>1 DEF Posted, Snap, Seen, Done, Autoload
<1>4. Head(uiq).kind = "autoload" => Head(uiq) \in Autoload
  BY <1>1 DEF Posted, Snap, Seen, Done
<1>5. Head(uiq).kind \in SnapKinds => Head(uiq).n \in Nat
  BY <1>1 DEF Posted, Snap, Seen, Done, Autoload, SnapKinds
<1>6. Head(uiq).kind \in {"refresh", "rebuild", "tap", "echo", "event"} =>
        Head(uiq).msg \in Msgs
  BY <1>1 DEF Posted, Snap, Seen, Done, Autoload
<1>7. QED
  BY <1>1, <1>2, <1>3, <1>4, <1>5, <1>6

LEMMA UiqPosted ==
  ASSUME uiq \in Seq(Posted), NEW c \in Posted, Post(c)
  PROVE  /\ uiq' \in Seq(Posted) /\ DOMAIN uiq' = 1 .. Len(uiq) + 1
         /\ \A i \in DOMAIN uiq : i \in DOMAIN uiq' /\ uiq'[i] = uiq[i]
         /\ uiq'[Len(uiq) + 1] = c
         /\ \A i \in DOMAIN uiq' : i \in DOMAIN uiq \/ i = Len(uiq) + 1
BY DEF Post

LEMMA UiqTaken ==
  ASSUME uiq \in Seq(Posted), uiq # <<>>, NEW more \in Seq(Autoload), Take(more)
  PROVE  /\ uiq' \in Seq(Posted)
         /\ \A i \in DOMAIN uiq' : \/ i + 1 \in DOMAIN uiq /\ uiq'[i] = uiq[i + 1]
                                   \/ uiq'[i] \in Autoload
         /\ \A j \in DOMAIN uiq : j # 1 => j - 1 \in DOMAIN uiq' /\ uiq'[j - 1] = uiq[j]
<1>1. more \in Seq(Posted)
  BY DEF Posted
<1>2. /\ Tail(uiq) \in Seq(Posted) /\ Len(Tail(uiq)) = Len(uiq) - 1
      /\ \A i \in 1 .. Len(uiq) - 1 : Tail(uiq)[i] = uiq[i + 1]
  OBVIOUS
<1>3. uiq' = Tail(uiq) \o more
  BY DEF Take
<1>4. PICK c \in Nat : c = Len(uiq) - 1
  OBVIOUS
<1>5. PICK d \in Nat : d = Len(more)
  OBVIOUS
<1>6. /\ uiq' \in Seq(Posted) /\ Len(uiq') = c + d
      /\ \A i \in 1 .. c : uiq'[i] = uiq[i + 1]
      /\ \A i \in 1 .. c + d : i > c => uiq'[i] = more[i - c]
  BY <1>1, <1>2, <1>3, <1>4, <1>5
<1>7. ASSUME NEW i \in DOMAIN uiq'
      PROVE  \/ i + 1 \in DOMAIN uiq /\ uiq'[i] = uiq[i + 1]
             \/ uiq'[i] \in Autoload
  <2>1. i \in 1 .. c + d
    BY <1>6
  <2>2. CASE i <= c
    <3>1. i + 1 \in DOMAIN uiq
      BY <1>4, <2>1, <2>2
    <3>2. QED
      BY <1>6, <2>1, <2>2, <3>1
  <2>3. CASE i > c
    <3>1. i - c \in DOMAIN more
      BY <1>5, <2>1, <2>3
    <3>2. QED
      BY <1>6, <2>1, <2>3, <3>1
  <2>4. QED
    BY <2>1, <2>2, <2>3
<1>8. ASSUME NEW j \in DOMAIN uiq, j # 1
      PROVE  j - 1 \in DOMAIN uiq' /\ uiq'[j - 1] = uiq[j]
  <2>1. j - 1 \in 1 .. c /\ (j - 1) + 1 = j
    BY <1>4, <1>8
  <2>2. j - 1 \in DOMAIN uiq'
    BY <1>6, <2>1
  <2>3. QED
    BY <1>6, <2>1, <2>2
<1>9. QED
  BY <1>6, <1>7, <1>8

(* What a closure leaves on the queue was read from no later log.          *)
LEMMA TakenReached ==
  ASSUME Shaped, uiq # <<>>, NEW more \in Seq(Autoload), Take(more), UNCHANGED <<log, held>>
  PROVE  uiq' \in Seq(Posted) /\ Reached'
<1>1. uiq \in Seq(Posted)
  BY DEF Shaped, TasksShaped
<1>2. /\ uiq' \in Seq(Posted)
      /\ \A i \in DOMAIN uiq' : \/ i + 1 \in DOMAIN uiq /\ uiq'[i] = uiq[i + 1]
                                \/ uiq'[i] \in Autoload
  BY <1>1, UiqTaken
<1>3. ASSUME NEW i \in DOMAIN uiq', uiq'[i].kind \in SnapKinds
      PROVE  uiq'[i].n <= Len(log)
  <2>1. uiq'[i] \notin Autoload
    BY <1>3 DEF Autoload, SnapKinds
  <2>2. QED
    BY <1>2, <1>3, <2>1 DEF Shaped, Reached
<1>4. QED
  BY <1>2, <1>3 DEF Shaped, Reached

LEMMA NoMore == <<>> \in Seq(Autoload)
OBVIOUS

LEMMA AutoloadsShaped ==
  ASSUME NEW list \in Seq(Msgs)
  PROVE  Autoloads(list) \in Seq(Autoload)
<1> DEFINE I    == {i \in DOMAIN list : Needed(list[i]) # {}}
           some == Picked(list, I)
<1>1. I \subseteq DOMAIN list
  OBVIOUS
<1>2. /\ some \in Seq(Msgs)
      /\ \A k \in DOMAIN some : \E i \in I : some[k] = list[i]
  <2> HIDE DEF I
  <2>1. QED
    BY <1>1, PickedAt
<1>3. Autoloads(list) = [k \in DOMAIN some |->
        [kind |-> "autoload", msg |-> some[k], keys |-> Needed(some[k])]]
  BY DEF Autoloads
<1>4. ASSUME NEW k \in DOMAIN some
      PROVE  [kind |-> "autoload", msg |-> some[k], keys |-> Needed(some[k])] \in Autoload
  <2>1. some[k] \in Msgs /\ Needed(some[k]) # {}
    <3>1. some[k] \in Msgs
      BY <1>2
    <3>2. PICK i \in I : some[k] = list[i]
      BY <1>2
    <3>3. Needed(list[i]) # {}
      OBVIOUS
    <3>4. QED
      BY <3>1, <3>2, <3>3
  <2>2. Kind[some[k]] = "album" /\ Needed(some[k]) \subseteq Keys[some[k]]
    BY <2>1 DEF Needed
  <2>3. Needed(some[k]) \subseteq AllKeys
    BY <2>1, <2>2 DEF AllKeys
  <2>4. QED
    BY <2>1, <2>2, <2>3 DEF Autoload
<1>5. DOMAIN some = 1 .. Len(some) /\ Len(some) \in Nat
  BY <1>2
<1> HIDE DEF some
<1>6. PICK c \in Nat : c = Len(some)
  BY <1>5
<1>7. Autoloads(list) \in [1 .. c -> Autoload]
  BY <1>3, <1>4, <1>5, <1>6
<1>8. QED
  BY <1>7

LEMMA RowLoadsShaped ==
  ASSUME NEW n, NEW m \in Msgs
  PROVE  RowLoads(n, m) \in Seq(Autoload)
<1>1. <<m>> \in Seq(Msgs)
  OBVIOUS
<1>2. Autoloads(<<m>>) \in Seq(Autoload)
  BY <1>1, AutoloadsShaped
<1>3. QED
  BY <1>2, NoMore DEF RowLoads

LEMMA RebuiltLoads ==
  ASSUME Shaped, NEW n \in Nat, n <= Len(log)
  PROVE  Autoloads([k \in DOMAIN Rebuilt(n) |-> Rebuilt(n)[k].msg]) \in Seq(Autoload)
<1> DEFINE list == Rebuilt(n)
<1>1. list \in Seq(Row) /\ \A k \in DOMAIN list : list[k].msg \in Msgs
  BY RebuiltShape
<1> HIDE DEF list
<1>2. [k \in DOMAIN list |-> list[k].msg] \in Seq(Msgs)
  <2>1. PICK c \in Nat : c = Len(list)
    BY <1>1
  <2>2. [k \in DOMAIN list |-> list[k].msg] \in [1 .. c -> Msgs]
    BY <1>1, <2>1
  <2>3. QED
    BY <2>2
<1>3. QED
  BY <1>2, AutoloadsShaped DEF list

(* refresh_one_message_row_from writes one row or none.                    *)
LEMMA RefreshShape ==
  ASSUME Shaped, NEW n \in Nat, n <= Len(log), NEW m \in Msgs, RefreshRow(n, m)
  PROVE  /\ rows' \in Seq(Row) /\ DOMAIN rows' = DOMAIN rows
         /\ \A k \in DOMAIN rows : /\ SameFlags(rows'[k], rows[k])
                                   /\ rows'[k].msg = rows[k].msg
                                   /\ \/ rows'[k] = rows[k]
                                      \/ SameBody(rows'[k], Build(n, rows[k].msg))
         /\ InSnap(n, m) /\ Shown(m) =>
              /\ Spot(m) \in DOMAIN rows /\ rows[Spot(m)].msg = m
              /\ SameBody(rows'[Spot(m)], Build(n, m))
              /\ \A k \in DOMAIN rows : k # Spot(m) => rows'[k] = rows[k]
         /\ ~(InSnap(n, m) /\ Shown(m)) => UNCHANGED rows
<1>1. rows \in Seq(Row)
  BY DEF Shaped, ScreenShaped
<1>2. CASE InSnap(n, m) /\ Shown(m)
  <2> DEFINE s == Spot(m)
             row == Build(n, m)
             new == [row EXCEPT !.first = rows[s].first, !.last = rows[s].last]
  <2>1. s \in DOMAIN rows /\ rows[s].msg = m
    BY <1>1, <1>2, SpotFinds
  <2>2. row \in Row /\ row.msg = m
    BY BuildShape
  <2>3. rows' = [rows EXCEPT ![s] = new]
    BY <1>2 DEF RefreshRow, Replaced
  <2>4. rows[s].first \in BOOLEAN /\ rows[s].last \in BOOLEAN
    <3>1. rows[s] \in Row
      BY <1>1, <2>1
    <3> HIDE DEF s
    <3>2. QED
      BY <3>1 DEF Row
  <2>5. new \in Row /\ SameBody(new, row) /\ SameFlags(new, rows[s])
    <3> HIDE DEF s, row
    <3>1. QED
      BY <2>2, <2>4, FlagRow DEF SameFlags
  <2> HIDE DEF s, new
  <2>6. /\ rows' \in Seq(Row) /\ DOMAIN rows' = DOMAIN rows /\ rows'[s] = new
        /\ \A j \in DOMAIN rows : j # s => rows'[j] = rows[j]
    BY <1>1, <2>1, <2>3, <2>5, RowWritten
  <2>7. ASSUME NEW k \in DOMAIN rows
        PROVE  /\ SameFlags(rows'[k], rows[k]) /\ rows'[k].msg = rows[k].msg
               /\ rows'[k] = rows[k] \/ SameBody(rows'[k], Build(n, rows[k].msg))
    <3>1. CASE k = s
      BY <2>1, <2>2, <2>5, <2>6, <3>1 DEF SameBody
    <3>2. CASE k # s
      BY <2>6, <3>2 DEF SameFlags
    <3>3. QED
      BY <3>1, <3>2
  <2>8. SameBody(rows'[s], row)
    BY <2>5, <2>6
  <2>9. QED
    BY <1>2, <2>1, <2>6, <2>7, <2>8 DEF s
<1>3. CASE ~(InSnap(n, m) /\ Shown(m))
  BY <1>1, <1>3 DEF RefreshRow, SameFlags
<1>4. QED
  BY <1>2, <1>3
-----------------------------------------------------------------------------
(* The pieces the handlers share.                                          *)
LEMMA Asked ==
  ASSUME TasksShaped, NEW k, NEW m, Job(k, m) \in ReadJob, Ask(k, m)
  PROVE  /\ IsBag(reads', ReadJob)
         /\ BagToSet(reads') = BagToSet(reads) \cup {Job(k, m)}
         /\ Job(k, m) \notin BagToSet(reads) => reads'[Job(k, m)] = 1
         /\ \A x \in BagToSet(reads) : x # Job(k, m) => reads'[x] = reads[x]
<1>1. IsBag(reads, ReadJob) /\ {Job(k, m)} \subseteq ReadJob
  BY DEF TasksShaped
<1>2. reads' = reads (+) SetToBag({Job(k, m)})
  BY DEF Ask
<1>3. QED
  BY <1>1, <1>2, BagAdd

LEMMA JobsRead ==
  /\ \A k \in {"refresh", "rebuild", "tap"}, m \in Msgs : Job(k, m) \in ReadJob
  /\ \A k \in {"list", "open"} : Job(k, "none") \in ReadJob
BY DEF Job, ReadJob

LEMMA Published ==
  ASSUME ScreenShaped, TasksShaped, NEW k \in {"react", "unreact", "edit", "delete"},
         NEW m \in Msgs, NEW v \in Texts \cup Emojis \cup {"none"},
         k = "edit" => v \in Texts, Publish(k, m, v)
  PROVE  /\ Op(k, m, v) \in Operation /\ IsBag(ops', Operation)
         /\ BagToSet(ops') = BagToSet(ops) \cup {Op(k, m, v)}
         /\ Op(k, m, v) \notin BagToSet(ops) => ops'[Op(k, m, v)] = 1
         /\ \A o \in BagToSet(ops) : o # Op(k, m, v) => ops'[o] = ops[o]
<1>1. Op(k, m, v) \in Operation
  BY DEF ScreenShaped, Op, Operation
<1>2. ops' = ops (+) SetToBag({Op(k, m, v)})
  BY DEF Publish
<1>3. IsBag(ops, Operation)
  BY DEF TasksShaped
<1>4. QED
  BY <1>1, <1>2, <1>3, BagAdd

LEMMA EditedRow ==
  ASSUME NEW row \in Row, NEW v \in Texts
  PROVE  /\ WithEdit(row, v) \in Row /\ WithEdit(row, v).msg = row.msg
         /\ WithEdit(row, v).text = v /\ WithEdit(row, v).count > 0
         /\ WithEdit(row, v).chips = row.chips /\ (WithEdit(row, v).dead <=> row.dead)
         /\ SameFlags(WithEdit(row, v), row) /\ WithEdit(row, v).cells = row.cells
<1>1. row.count + 1 \in Nat /\ row.count + 1 > 0 /\ v \in Texts \cup {"none"}
  BY DEF Row
<1>2. WithEdit(row, v) = [row EXCEPT !.text = v, !.count = row.count + 1]
  BY DEF WithEdit, Row
<1>3. PICK c \in Nat : c = row.count + 1 /\ c > 0
  BY <1>1
<1>4. /\ [row EXCEPT !.text = v, !.count = c] \in Row
      /\ LET new == [row EXCEPT !.text = v, !.count = c]
         IN  /\ new.msg = row.msg /\ new.text = v /\ new.count = c
             /\ new.chips = row.chips /\ (new.dead <=> row.dead)
             /\ SameFlags(new, row) /\ new.cells = row.cells
  BY <1>1 DEF Row, SameFlags
<1>5. QED
  BY <1>2, <1>3, <1>4

LEMMA ReactedRow ==
  ASSUME NEW row \in Row, NEW op
  PROVE  /\ [row EXCEPT !.chips = WithReaction(row.chips, op)] \in Row
         /\ LET new == [row EXCEPT !.chips = WithReaction(row.chips, op)]
            IN  /\ new.msg = row.msg /\ new.text = row.text /\ new.count = row.count
                /\ new.chips = WithReaction(row.chips, op) /\ (new.dead <=> row.dead)
                /\ SameFlags(new, row) /\ new.cells = row.cells
<1>1. row.chips \in ChipBars
  BY DEF Row
<1>2. PICK c \in ChipBars : c = WithReaction(row.chips, op)
  BY <1>1, ReactedBar
<1>3. /\ [row EXCEPT !.chips = c] \in Row
      /\ LET new == [row EXCEPT !.chips = c]
         IN  /\ new.msg = row.msg /\ new.text = row.text /\ new.count = row.count
             /\ new.chips = c /\ (new.dead <=> row.dead)
             /\ SameFlags(new, row) /\ new.cells = row.cells
  BY DEF Row, SameFlags
<1>4. QED
  BY <1>2, <1>3, Zenon

(* One row changes in its place.                                           *)
LEMMA ReactionRows ==
  ASSUME Shaped, NEW k, NEW m \in Msgs, NEW op, SetReaction(k, m, op)
  PROVE  LET s == Spot(m) IN
         /\ s \in DOMAIN rows /\ rows[s].msg = m
         /\ rows' \in Seq(Row) /\ DOMAIN rows' = DOMAIN rows
         /\ \A j \in DOMAIN rows : j # s => rows'[j] = rows[j]
         /\ rows'[s] = [rows[s] EXCEPT !.chips = WithReaction(rows[s].chips, op)]
<1> DEFINE s == Spot(m)
<1>1. rows \in Seq(Row)
  BY DEF Shaped, ScreenShaped
<1>2. Shown(m) /\ rows' = [rows EXCEPT ![s].chips = WithReaction(@, op)]
  BY DEF SetReaction, Alive
<1>3. s \in DOMAIN rows /\ rows[s].msg = m
  BY <1>1, <1>2, SpotFinds
<1>4. rows' = [rows EXCEPT ![s] = [rows[s] EXCEPT !.chips = WithReaction(rows[s].chips, op)]]
  BY <1>2, <1>3
<1> HIDE DEF s
<1>5. [rows[s] EXCEPT !.chips = WithReaction(rows[s].chips, op)] \in Row
  BY <1>1, <1>3, ReactedRow
<1>6. /\ rows' \in Seq(Row) /\ DOMAIN rows' = DOMAIN rows
      /\ \A j \in DOMAIN rows : j # s => rows'[j] = rows[j]
      /\ rows'[s] = [rows[s] EXCEPT !.chips = WithReaction(rows[s].chips, op)]
  BY <1>1, <1>3, <1>4, <1>5, RowWritten
<1>7. QED
  BY <1>3, <1>6 DEF s

LEMMA EditRows ==
  ASSUME Shaped, NEW m \in Msgs, NEW v \in Texts,
         rows' = IF Shown(m) THEN [rows EXCEPT ![Spot(m)] = WithEdit(@, v)] ELSE rows
  PROVE  /\ rows' \in Seq(Row) /\ DOMAIN rows' = DOMAIN rows
         /\ Shown(m) => /\ Spot(m) \in DOMAIN rows /\ rows[Spot(m)].msg = m
                        /\ rows'[Spot(m)] = WithEdit(rows[Spot(m)], v)
         /\ \A j \in DOMAIN rows : ~(Shown(m) /\ j = Spot(m)) => rows'[j] = rows[j]
<1> DEFINE s == Spot(m)
<1>1. rows \in Seq(Row)
  BY DEF Shaped, ScreenShaped
<1>2. CASE Shown(m)
  <2>1. s \in DOMAIN rows /\ rows[s].msg = m
    BY <1>1, <1>2, SpotFinds
  <2>2. rows' = [rows EXCEPT ![s] = WithEdit(rows[s], v)]
    BY <1>2, <2>1
  <2> HIDE DEF s
  <2>3. WithEdit(rows[s], v) \in Row
    BY <1>1, <2>1, EditedRow
  <2> HIDE DEF s
  <2>4. /\ rows' \in Seq(Row) /\ DOMAIN rows' = DOMAIN rows
        /\ \A j \in DOMAIN rows : j # s => rows'[j] = rows[j]
        /\ rows'[s] = WithEdit(rows[s], v)
    <3>1. PICK new \in Row : new = WithEdit(rows[s], v)
      BY <2>3
    <3>2. rows' = [rows EXCEPT ![s] = new]
      BY <2>2, <3>1, Zenon
    <3>3. /\ rows' \in Seq(Row) /\ DOMAIN rows' = DOMAIN rows
          /\ \A j \in DOMAIN rows : j # s => rows'[j] = rows[j]
          /\ rows'[s] = new
      <4>1. /\ [rows EXCEPT ![s] = new] \in Seq(Row)
            /\ DOMAIN [rows EXCEPT ![s] = new] = DOMAIN rows
            /\ \A j \in DOMAIN rows : j # s => [rows EXCEPT ![s] = new][j] = rows[j]
            /\ [rows EXCEPT ![s] = new][s] = new
        BY <1>1, <2>1, RowWritten
      <4>2. QED
        BY <3>2, <4>1, Zenon
    <3>4. QED
      BY <3>1, <3>3, Zenon
  <2>5. QED
    BY <1>2, <2>1, <2>4 DEF s
<1>3. CASE ~Shown(m)
  BY <1>1, <1>3
<1>4. QED
  BY <1>2, <1>3

(* A record is stored, and the watcher told.                               *)
LEMMA StoreShaped ==
  ASSUME Shaped, NEW r \in Filed, Store(r)
  PROVE  /\ log' \in Seq(Filed) /\ feed' \in Seq(Filed) /\ Len(log') = Len(log) + 1
         /\ \A i \in DOMAIN log : i \in DOMAIN log' /\ log'[i] = log[i]
         /\ log'[Len(log) + 1] = r
         /\ \A i \in DOMAIN log' : i \in DOMAIN log \/ i = Len(log) + 1
         /\ \A i \in DOMAIN feed' : feed'[i] = r \/ (i \in DOMAIN feed /\ feed'[i] = feed[i])
<1>1. log \in Seq(Filed) /\ feed \in Seq(Filed)
  BY DEF Shaped, ScreenShaped, TasksShaped
<1>2. log' = Append(log, r) /\ (feed' = Append(feed, r) \/ feed' = feed)
  BY DEF Store
<1>3. /\ log' \in Seq(Filed) /\ Len(log') = Len(log) + 1
      /\ \A i \in DOMAIN log : i \in DOMAIN log' /\ log'[i] = log[i]
      /\ log'[Len(log) + 1] = r
      /\ \A i \in DOMAIN log' : i \in DOMAIN log \/ i = Len(log) + 1
  BY <1>1, <1>2
<1>4. CASE feed' = Append(feed, r)
  BY <1>1, <1>3, <1>4
<1>5. CASE feed' = feed
  BY <1>1, <1>3, <1>5
<1>6. QED
  BY <1>2, <1>3, <1>4, <1>5

LEMMA OpTyped ==
  ASSUME Shaped, NEW o \in BagToSet(ops)
  PROVE  /\ o \in Operation /\ o.msg \in Msgs /\ [o EXCEPT !.stored = TRUE] \in Operation
         /\ Rec(o.kind, o.msg, o.by, o.val) \in Filed
<1>1. o \in Operation
  BY DEF Shaped, TasksShaped, IsBag, BagToSet
<1>2. QED
  BY <1>1 DEF Operation, Filed, Record, Rec

LEMMA LoadTyped ==
  ASSUME Shaped, NEW l \in BagToSet(loads)
  PROVE  l.key \in AllKeys /\ l.msg \in Msgs /\ l.key \in Keys[l.msg] /\ l \in Load
BY DEF Shaped, TasksShaped, IsBag, BagToSet, Load
-----------------------------------------------------------------------------
(* The shapes hold at the start, and every handler keeps them.             *)
LEMMA ShapedInit == Init => Shaped
<1> SUFFICES ASSUME Init PROVE Shaped
  OBVIOUS
<1>1. log \in Seq(Filed)
  <2>1. Listed \in Seq(Msgs)
    BY MessagesConstantsOK
  <2>2. PICK c \in Nat : c = Len(Listed) /\ DOMAIN Listed = 1 .. c
    BY <2>1
  <2>3. log = [i \in 1 .. c |-> Rec("chat", Listed[i], Author[Listed[i]], "none")]
    BY <2>2 DEF Init
  <2>4. \A i \in 1 .. c : Rec("chat", Listed[i], Author[Listed[i]], "none") \in Filed
    <3> SUFFICES ASSUME NEW i \in 1 .. c
                 PROVE  Rec("chat", Listed[i], Author[Listed[i]], "none") \in Filed
      OBVIOUS
    <3>1. Listed[i] \in Msgs
      BY <2>1, <2>2
    <3>2. Author[Listed[i]] \in Accounts \cup {"peer"}
      BY <3>1, MessagesConstantsOK
    <3>3. QED
      BY <3>1, <3>2 DEF Rec, Filed, Record
  <2>5. log \in [1 .. c -> Filed]
    BY <2>3, <2>4
  <2>6. QED
    BY <2>5
<1>2. overlay \in Overlay
  BY DEF Init, NoOverlay, Overlay
<1>3. account \in Accounts /\ disk \subseteq AllKeys
  BY MessagesConstantsOK DEF Init
<1>4. IsBag(reads, ReadJob)
  <2>1. {Job("list", "none")} \subseteq ReadJob /\ IsBag(EmptyBag, ReadJob)
    BY JobsRead, BagEmpty
  <2>2. SetToBag({Job("list", "none")}) = [e \in {Job("list", "none")} |-> 1]
    BY DEF SetToBag
  <2>3. reads = [e \in {Job("list", "none")} |-> 1]
    BY <2>2 DEF Init
  <2>4. QED
    BY <2>1, <2>3 DEF IsBag
<1>5. IsBag(ops, Operation) /\ IsBag(held, Snap) /\ IsBag(loads, Load)
  BY BagEmpty DEF Init
<1>6. Reached
  BY BagEmpty DEF Init, Reached
<1>7. rows \in Seq(Row) /\ feed \in Seq(Filed) /\ uiq \in Seq(Posted)
  BY DEF Init
<1>8. /\ hidden \in [Accounts -> SUBSET Msgs] /\ used \in [Limited -> Nat]
      /\ editing \subseteq Msgs /\ loaded \in BOOLEAN /\ watched \in BOOLEAN
      /\ cache = {} /\ inflight = {}
  BY DEF Init
<1>9. QED
  BY <1>1, <1>2, <1>3, <1>4, <1>5, <1>6, <1>7, <1>8
  DEF Shaped, ScreenShaped, TasksShaped, MediaShaped

LEMMA ShapedReaction ==
  ASSUME Shaped, NEW k \in {"react", "unreact"}, NEW m \in Msgs,
         NEW op \in Emojis \cup {"remove"}, k = "react" => op \in Emojis,
         SetReaction(k, m, op)
  PROVE  Shaped'
<1>1. rows' \in Seq(Row)
  BY ReactionRows
<1>2. used' \in [Limited -> Nat]
  BY SpendUses DEF Shaped, ScreenShaped, SetReaction, Limited
<1>3. overlay' \in Overlay
  BY DEF Shaped, ScreenShaped, SetReaction, Overlay
<1>4. IsBag(ops', Operation)
  <2>1. PICK v \in Emojis \cup {"none"} : v = IF k = "react" THEN op ELSE "none"
    OBVIOUS
  <2>2. Publish(k, m, v)
    BY <2>1 DEF SetReaction
  <2>3. QED
    BY <2>2, Published DEF Shaped
<1>5. ScreenShaped'
  BY <1>1, <1>2, <1>3 DEF Shaped, ScreenShaped, SetReaction, store
<1>6. TasksShaped'
  BY <1>4 DEF Shaped, TasksShaped, SetReaction, media
<1>7. MediaShaped' /\ Reached'
  BY DEF Shaped, MediaShaped, Reached, SetReaction, media, store
<1>8. QED
  BY <1>5, <1>6, <1>7 DEF Shaped

LEMMA ShapedReact ==
  ASSUME Shaped, NEW m \in Msgs, NEW e \in Emojis, React(m, e)
  PROVE  Shaped'
BY ShapedReaction DEF React

LEMMA ShapedUnreact ==
  ASSUME Shaped, NEW m \in Msgs, Unreact(m)
  PROVE  Shaped'
BY ShapedReaction DEF Unreact

LEMMA ShapedRequestEdit ==
  ASSUME Shaped, NEW m \in Msgs, RequestEdit(m)
  PROVE  Shaped'
<1>1. used' \in [Limited -> Nat]
  BY SpendUses DEF Shaped, ScreenShaped, RequestEdit, Limited
<1>2. QED
  BY <1>1 DEF Shaped, ScreenShaped, TasksShaped, MediaShaped, Reached, RequestEdit,
     store, tasks, media

LEMMA ShapedCancelEdit ==
  ASSUME Shaped, CancelEdit
  PROVE  Shaped'
BY DEF Shaped, ScreenShaped, TasksShaped, MediaShaped, Reached, CancelEdit,
   store, tasks, media

LEMMA ShapedSubmitEdit ==
  ASSUME Shaped, NEW v \in Texts, SubmitEdit(v)
  PROVE  Shaped'
<1>1. PICK m \in editing :
        /\ overlay' = [overlay EXCEPT !.edits[m] = v]
        /\ rows' = IF Shown(m) THEN [rows EXCEPT ![Spot(m)] = WithEdit(@, v)] ELSE rows
        /\ Publish("edit", m, v)
  BY DEF SubmitEdit
<1>2. m \in Msgs
  BY DEF Shaped, ScreenShaped
<1>3. rows' \in Seq(Row)
  BY <1>1, <1>2, EditRows
<1>4. overlay' \in Overlay
  BY <1>1, <1>2 DEF Shaped, ScreenShaped, Overlay
<1>5. IsBag(ops', Operation)
  BY <1>1, <1>2, Published DEF Shaped
<1>6. ScreenShaped'
  BY <1>3, <1>4 DEF Shaped, ScreenShaped, SubmitEdit, store
<1>7. TasksShaped'
  BY <1>5 DEF Shaped, TasksShaped, SubmitEdit, media
<1>8. MediaShaped' /\ Reached'
  BY DEF Shaped, MediaShaped, Reached, SubmitEdit, media, store
<1>9. QED
  BY <1>6, <1>7, <1>8 DEF Shaped

LEMMA ShapedDelete ==
  ASSUME Shaped, NEW m \in Msgs, Delete(m)
  PROVE  Shaped'
<1>1. used' \in [Limited -> Nat]
  BY SpendUses DEF Shaped, ScreenShaped, Delete, Limited
<1>2. overlay' \in Overlay
  BY DEF Shaped, ScreenShaped, Overlay, Delete
<1>3. IsBag(ops', Operation)
  BY Published DEF Shaped, Delete
<1>4. IsBag(reads', ReadJob)
  BY Asked, JobsRead DEF Shaped, Delete
<1>5. ScreenShaped'
  BY <1>1, <1>2 DEF Shaped, ScreenShaped, Delete, store
<1>6. TasksShaped'
  BY <1>3, <1>4 DEF Shaped, TasksShaped, Delete, media
<1>7. MediaShaped' /\ Reached'
  BY DEF Shaped, MediaShaped, Reached, Delete, media, store
<1>8. QED
  BY <1>5, <1>6, <1>7 DEF Shaped

LEMMA ShapedHide ==
  ASSUME Shaped, NEW m \in Msgs, Hide(m)
  PROVE  Shaped'
<1>1. used' \in [Limited -> Nat]
  BY SpendUses DEF Shaped, ScreenShaped, Hide, Limited
<1>2. hidden' \in [Accounts -> SUBSET Msgs]
  BY DEF Shaped, ScreenShaped, Hide
<1>3. IsBag(reads', ReadJob)
  BY Asked, JobsRead DEF Shaped, Hide
<1>4. ScreenShaped'
  BY <1>1, <1>2 DEF Shaped, ScreenShaped, Hide
<1>5. TasksShaped'
  BY <1>3 DEF Shaped, TasksShaped, Hide, media
<1>6. MediaShaped' /\ Reached'
  BY DEF Shaped, MediaShaped, Reached, Hide, media
<1>7. QED
  BY <1>4, <1>5, <1>6 DEF Shaped

LEMMA ShapedSwitchTo ==
  ASSUME Shaped, NEW a \in Accounts, SwitchTo(a)
  PROVE  Shaped'
<1>1. used' \in [Limited -> Nat]
  BY SpendUses DEF Shaped, ScreenShaped, SwitchTo, Limited
<1>2. overlay' \in Overlay
  BY DEF SwitchTo, NoOverlay, Overlay
<1>3. IsBag(reads', ReadJob)
  BY Asked, JobsRead DEF Shaped, SwitchTo
<1>4. rows' \in Seq(Row) /\ feed' \in Seq(Filed)
  BY DEF SwitchTo
<1>5. ScreenShaped'
  BY <1>1, <1>2, <1>4 DEF Shaped, ScreenShaped, SwitchTo, store
<1>6. TasksShaped'
  BY <1>3, <1>4 DEF Shaped, TasksShaped, SwitchTo, media
<1>7. MediaShaped' /\ Reached'
  BY DEF Shaped, MediaShaped, Reached, SwitchTo, media, store
<1>8. QED
  BY <1>5, <1>6, <1>7 DEF Shaped

LEMMA ShapedSelect ==
  ASSUME Shaped, Select
  PROVE  Shaped'
<1>1. used' \in [Limited -> Nat]
  BY SpendUses DEF Shaped, ScreenShaped, Select, Limited
<1>2. IsBag(reads', ReadJob)
  BY Asked, JobsRead DEF Shaped, Select
<1>3. ScreenShaped'
  BY <1>1 DEF Shaped, ScreenShaped, Select, store
<1>4. TasksShaped'
  BY <1>2 DEF Shaped, TasksShaped, Select, media
<1>5. MediaShaped' /\ Reached'
  BY DEF Shaped, MediaShaped, Reached, Select, media, store
<1>6. QED
  BY <1>3, <1>4, <1>5 DEF Shaped

LEMMA ShapedTap ==
  ASSUME Shaped, NEW m \in Msgs, Tap(m)
  PROVE  Shaped'
<1>1. used' \in [Limited -> Nat]
  BY SpendUses DEF Shaped, ScreenShaped, Tap, Limited
<1>2. IsBag(reads', ReadJob)
  BY Asked, JobsRead DEF Shaped, Tap
<1>3. Keys[m] \subseteq AllKeys
  BY DEF AllKeys
<1>4. MediaShaped'
  BY <1>3 DEF Shaped, MediaShaped, Tap
<1>5. ScreenShaped'
  BY <1>1 DEF Shaped, ScreenShaped, Tap, store
<1>6. TasksShaped'
  BY <1>2 DEF Shaped, TasksShaped, Tap
<1>7. Reached'
  BY DEF Shaped, Reached, Tap, store
<1>8. QED
  BY <1>4, <1>5, <1>6, <1>7 DEF Shaped

LEMMA ShapedStored ==
  ASSUME Shaped, NEW o \in BagToSet(ops), Stored(o)
  PROVE  Shaped'
<1> DEFINE r == Rec(o.kind, o.msg, o.by, o.val)
           p == [o EXCEPT !.stored = TRUE]
<1>1. r \in Filed /\ p \in Operation
  BY OpTyped
<1>2. Store(r)
  BY DEF Stored
<1> HIDE DEF r
<1>3. log' \in Seq(Filed) /\ feed' \in Seq(Filed) /\ Len(log') = Len(log) + 1
  BY <1>1, <1>2, StoreShaped
<1>4. IsBag(ops', Operation)
  <2>1. IsBag(ops, Operation)
    BY DEF Shaped, TasksShaped
  <2>2. IsBag(ops (-) SetToBag({o}), Operation)
    BY <2>1, BagTake
  <2>3. ops' = (ops (-) SetToBag({o})) (+) SetToBag({p})
    BY DEF Stored
  <2>4. {p} \subseteq Operation
    BY <1>1
  <2>5. QED
    BY <2>2, <2>3, <2>4, BagAdd
<1>5. ScreenShaped'
  BY <1>3 DEF Shaped, ScreenShaped, Stored
<1>6. TasksShaped'
  BY <1>3, <1>4 DEF Shaped, TasksShaped, Stored, media
<1>7. Reached'
  <2>1. Len(log) \in Nat
    BY DEF Shaped, ScreenShaped
  <2>2. /\ \A h \in BagToSet(held) : h.n \in Int
        /\ \A i \in DOMAIN uiq : uiq[i].kind \in SnapKinds => uiq[i].n \in Int
    BY SMTT(30) DEF Shaped, TasksShaped, IsBag, BagToSet, Posted, Snap, Seen, Done, Autoload, SnapKinds
  <2>3. QED
    BY <1>3, <2>1, <2>2 DEF Shaped, Reached, Stored
<1>8. MediaShaped'
  BY DEF Shaped, MediaShaped, Stored, media
<1>9. QED
  BY <1>5, <1>6, <1>7, <1>8 DEF Shaped

LEMMA ShapedCompleted ==
  ASSUME Shaped, NEW o \in BagToSet(ops), Completed(o)
  PROVE  Shaped'
<1> DEFINE c == [kind |-> "done", op |-> o]
<1>1. c \in Posted /\ c.kind \notin SnapKinds
  BY OpTyped DEF Posted, Done, SnapKinds
<1>2. Post(c) /\ uiq \in Seq(Posted)
  BY DEF Completed, Shaped, TasksShaped
<1> HIDE DEF c
<1>3. /\ uiq' \in Seq(Posted)
      /\ \A i \in DOMAIN uiq : i \in DOMAIN uiq' /\ uiq'[i] = uiq[i]
      /\ uiq'[Len(uiq) + 1] = c
      /\ \A i \in DOMAIN uiq' : i \in DOMAIN uiq \/ i = Len(uiq) + 1
  BY <1>1, <1>2, UiqPosted
<1>4. used' \in [Limited -> Nat]
  BY SpendUses DEF Shaped, ScreenShaped, Completed, Limited
<1>5. IsBag(ops', Operation)
  BY BagTake DEF Shaped, TasksShaped, Completed
<1>6. ScreenShaped'
  BY <1>4 DEF Shaped, ScreenShaped, Completed, store
<1>7. TasksShaped'
  BY <1>3, <1>5 DEF Shaped, TasksShaped, Completed, media
<1>8. Reached'
  BY <1>1, <1>3 DEF Shaped, Reached, Completed, store
<1>9. MediaShaped'
  BY DEF Shaped, MediaShaped, Completed, media
<1>10. QED
  BY <1>6, <1>7, <1>8, <1>9 DEF Shaped

(* Somebody else's record.                                                 *)
LEMMA ShapedStore ==
  ASSUME Shaped, NEW r \in Filed, Store(r), used' \in [Limited -> Nat],
         UNCHANGED <<hidden, account, overlay, editing, rows, loaded, watched, tasks, uiq,
                     media>>
  PROVE  Shaped'
<1>1. log' \in Seq(Filed) /\ feed' \in Seq(Filed) /\ Len(log') = Len(log) + 1
  BY StoreShaped
<1>2. ScreenShaped'
  BY <1>1 DEF Shaped, ScreenShaped
<1>3. TasksShaped'
  BY <1>1 DEF Shaped, TasksShaped, tasks, media
<1>4. Reached'
  <2>1. Len(log) \in Nat
    BY DEF Shaped, ScreenShaped
  <2>2. /\ \A h \in BagToSet(held) : h.n \in Int
        /\ \A i \in DOMAIN uiq : uiq[i].kind \in SnapKinds => uiq[i].n \in Int
    BY DEF Shaped, TasksShaped, IsBag, BagToSet, Posted, Snap, Seen, Done, Autoload, SnapKinds
  <2>3. QED
    BY <1>1, <2>1, <2>2 DEF Shaped, Reached, tasks
<1>5. MediaShaped'
  BY DEF Shaped, MediaShaped, media
<1>6. QED
  BY <1>2, <1>3, <1>4, <1>5 DEF Shaped

LEMMA PeerFiled ==
  /\ \A m \in Msgs : Rec("chat", m, Author[m], "none") \in Filed
  /\ \A m \in Msgs, e \in Emojis : Rec("react", m, "peer", e) \in Filed
  /\ \A m \in Msgs, v \in Texts : Rec("edit", m, "peer", v) \in Filed
  /\ \A m \in Msgs : Rec("delete", m, "peer", "none") \in Filed
<1>1. \A m \in Msgs : Author[m] \in Accounts \cup {"peer"}
  BY MessagesConstantsOK
<1>2. QED
  BY <1>1 DEF Rec, Filed, Record

LEMMA ShapedReceive ==
  ASSUME Shaped, NEW m \in Msgs, Receive(m)
  PROVE  Shaped'
<1>1. used' \in [Limited -> Nat]
  BY SpendUses DEF Shaped, ScreenShaped, Receive, Limited
<1>2. Rec("chat", m, Author[m], "none") \in Filed
  BY PeerFiled
<1>3. QED
  BY <1>1, <1>2, ShapedStore DEF Receive

LEMMA ShapedPeerActs ==
  ASSUME Shaped, NEW k, NEW m \in Msgs, NEW v, Rec(k, m, "peer", v) \in Filed,
         PeerActs(k, m, v)
  PROVE  Shaped'
<1>1. used' \in [Limited -> Nat]
  BY SpendUses DEF Shaped, ScreenShaped, PeerActs, Limited
<1>2. QED
  BY <1>1, ShapedStore DEF PeerActs

LEMMA FeedTyped ==
  ASSUME Shaped, feed # <<>>
  PROVE  /\ Head(feed) \in Filed /\ Head(feed) = feed[1] /\ 1 \in DOMAIN feed
         /\ Tail(feed) \in Seq(Filed)
         /\ \A i \in DOMAIN Tail(feed) : i + 1 \in DOMAIN feed /\ Tail(feed)[i] = feed[i + 1]
BY DEF Shaped, TasksShaped

(* What the watcher's callback posts for a record.                         *)
Sighting(r) == [kind |-> IF r.kind = "chat" THEN "echo" ELSE "event",
                msg |-> r.msg, n |-> Len(log)]
LEMMA ShapedReport ==
  ASSUME Shaped, Report
  PROVE  Shaped'
<1> DEFINE c == Sighting(Head(feed))
<1>1. feed # <<>> /\ feed' = Tail(feed) /\ feed' \in Seq(Filed)
  BY FeedTyped DEF Report
<1>2. uiq' = uiq \/ Post(c)
  BY DEF Report, Post, Sighting
<1>3. c \in Posted /\ c.n = Len(log)
  <2>1. Head(feed).msg \in Msgs /\ Len(log) \in Nat
    BY <1>1, FeedTyped DEF Shaped, ScreenShaped, Filed, Record
  <2>2. QED
    BY <2>1 DEF Posted, Seen, Sighting
<1> HIDE DEF c
<1>4. uiq \in Seq(Posted) /\ Len(log) \in Nat
  BY DEF Shaped, TasksShaped, ScreenShaped
<1>5. uiq' \in Seq(Posted)
  BY <1>2, <1>3, <1>4, UiqPosted
<1>6. ASSUME NEW i \in DOMAIN uiq', uiq'[i].kind \in SnapKinds
      PROVE  uiq'[i].n <= Len(log)
  <2>1. CASE uiq' = uiq
    BY <1>6, <2>1 DEF Shaped, Reached
  <2>2. CASE Post(c)
    <3>1. (i \in DOMAIN uiq /\ uiq'[i] = uiq[i]) \/ uiq'[i] = c
      BY <1>3, <1>4, <2>2, UiqPosted
    <3>2. QED
      BY <1>3, <1>4, <1>6, <3>1 DEF Shaped, Reached
  <2>3. QED
    BY <1>2, <2>1, <2>2
<1>7. ScreenShaped' /\ MediaShaped'
  BY DEF Shaped, ScreenShaped, MediaShaped, Report, store, media
<1>8. TasksShaped'
  BY <1>1, <1>5 DEF Shaped, TasksShaped, Report, tasks, media
<1>9. Reached'
  BY <1>6 DEF Shaped, Reached, Report, tasks, store
<1>10. QED
  BY <1>7, <1>8, <1>9 DEF Shaped

(* A snapshot that a worker has read.                                      *)
Reading(j) == [kind |-> j.kind, msg |-> j.msg, n |-> Len(log)]
LEMMA ReadShape ==
  ASSUME Shaped, NEW j \in BagToSet(reads), Read(j)
  PROVE  /\ Reading(j) \in Snap /\ IsBag(held', Snap) /\ IsBag(reads', ReadJob)
         /\ BagToSet(held') = BagToSet(held) \cup {Reading(j)}
         /\ Reading(j) \notin BagToSet(held) => held'[Reading(j)] = 1
         /\ \A h \in BagToSet(held) : h # Reading(j) => held'[h] = held[h]
<1>1. IsBag(reads, ReadJob) /\ IsBag(held, Snap) /\ Len(log) \in Nat
  BY DEF Shaped, TasksShaped, ScreenShaped
<1>2. j \in ReadJob
  BY <1>1 DEF IsBag, BagToSet
<1>3. Reading(j) \in Snap
  BY <1>1, <1>2 DEF Reading, ReadJob, Snap
<1>4. held' = held (+) SetToBag({Reading(j)}) /\ reads' = reads (-) SetToBag({j})
  BY DEF Read, Reading
<1>5. {Reading(j)} \subseteq Snap
  BY <1>3
<1>6. PICK h : h = Reading(j)
  OBVIOUS
<1>7. IsBag(reads', ReadJob)
  BY <1>1, <1>4, BagTake
<1>8. /\ IsBag(held', Snap)
      /\ BagToSet(held') = BagToSet(held) \cup {h}
      /\ h \notin BagToSet(held) => held'[h] = 1
      /\ \A g \in BagToSet(held) : g # h => held'[g] = held[g]
  <2>1. {h} \subseteq Snap /\ held' = held (+) SetToBag({h})
    BY <1>4, <1>5, <1>6
  <2>2. QED
    BY <1>1, <2>1, BagAdd
<1>9. QED
  BY <1>3, <1>6, <1>7, <1>8

LEMMA ShapedRead ==
  ASSUME Shaped, NEW j \in BagToSet(reads), Read(j)
  PROVE  Shaped'
<1>1. /\ IsBag(held', Snap) /\ IsBag(reads', ReadJob)
      /\ BagToSet(held') = BagToSet(held) \cup {Reading(j)}
  BY ReadShape
<1>2. ScreenShaped' /\ MediaShaped'
  BY DEF Shaped, ScreenShaped, MediaShaped, Read, store, media
<1>3. TasksShaped'
  BY <1>1 DEF Shaped, TasksShaped, Read, media
<1>4. Reading(j).n <= Len(log)
  BY DEF Shaped, ScreenShaped, Reading
<1>5. Reached'
  BY <1>1, <1>4 DEF Shaped, Reached, Read, store
<1>6. QED
  BY <1>2, <1>3, <1>5 DEF Shaped

LEMMA HeldTyped ==
  ASSUME Shaped, NEW h \in BagToSet(held)
  PROVE  /\ h \in Snap /\ h \in Posted /\ h.n \in Nat /\ h.n <= Len(log)
         /\ h.kind = "tap" => h.msg \in Msgs
<1>1. h \in Snap
  BY DEF Shaped, TasksShaped, IsBag, BagToSet
<1>2. h.n <= Len(log)
  BY DEF Shaped, Reached
<1>3. QED
  BY <1>1, <1>2 DEF Snap, Posted

LEMMA ShapedHand ==
  ASSUME Shaped, NEW h \in BagToSet(held), Hand(h)
  PROVE  Shaped'
<1>1. h \in Posted /\ h.n <= Len(log)
  BY HeldTyped
<1>2. /\ IsBag(held', Snap)
      /\ BagToSet(held') \subseteq BagToSet(held)
  BY BagTake DEF Shaped, TasksShaped, Hand
<1>3. (uiq' = uiq \/ Post(h)) /\ inflight' \subseteq inflight
  BY DEF Hand
<1>4. uiq \in Seq(Posted)
  BY DEF Shaped, TasksShaped
<1>5. uiq' \in Seq(Posted)
  BY <1>1, <1>3, <1>4, UiqPosted
<1>6. ASSUME NEW i \in DOMAIN uiq', uiq'[i].kind \in SnapKinds
      PROVE  uiq'[i].n <= Len(log)
  <2>1. CASE uiq' = uiq
    BY <1>6, <2>1 DEF Shaped, Reached
  <2>2. CASE Post(h)
    <3>1. (i \in DOMAIN uiq /\ uiq'[i] = uiq[i]) \/ uiq'[i] = h
      BY <1>1, <1>4, <2>2, UiqPosted
    <3>2. QED
      BY <1>1, <1>6, <3>1 DEF Shaped, Reached
  <2>3. QED
    BY <1>3, <2>1, <2>2
<1>7. ScreenShaped' /\ MediaShaped'
  BY <1>3 DEF Shaped, ScreenShaped, MediaShaped, Hand, store
<1>8. TasksShaped'
  BY <1>2, <1>5 DEF Shaped, TasksShaped, Hand
<1>9. Reached'
  BY <1>2, <1>6 DEF Shaped, Reached, Hand, store
<1>10. QED
  BY <1>7, <1>8, <1>9 DEF Shaped

LEMMA ShapedLoaded ==
  ASSUME Shaped, NEW l \in BagToSet(loads), Loaded(l)
  PROVE  Shaped'
<1>1. l.key \in AllKeys /\ l.msg \in Msgs
  BY LoadTyped
<1>2. IsBag(loads', Load)
  BY BagTake DEF Shaped, TasksShaped, Loaded
<1>3. IsBag(reads', ReadJob)
  BY <1>1, Asked, JobsRead DEF Shaped, Loaded
<1>4. MediaShaped'
  BY <1>1 DEF Shaped, MediaShaped, Loaded, CachePut
<1>5. ScreenShaped' /\ Reached'
  BY DEF Shaped, ScreenShaped, Reached, Loaded, store
<1>6. TasksShaped'
  BY <1>2, <1>3 DEF Shaped, TasksShaped, Loaded
<1>7. QED
  BY <1>4, <1>5, <1>6 DEF Shaped

LEMMA ShapedLoadFailed ==
  ASSUME Shaped, NEW l \in BagToSet(loads), LoadFailed(l)
  PROVE  Shaped'
<1>1. l.key \in AllKeys /\ l.msg \in Msgs
  BY LoadTyped
<1>2. IsBag(loads', Load)
  BY BagTake DEF Shaped, TasksShaped, LoadFailed
<1>3. IsBag(reads', ReadJob)
  <2>1. IsBag(reads, ReadJob) /\ TasksShaped
    BY DEF Shaped, TasksShaped
  <2>2. CASE Ask("refresh", l.msg)
    BY <1>1, <2>1, <2>2, Asked, JobsRead
  <2>3. CASE UNCHANGED reads
    BY <2>1, <2>3
  <2>4. QED
    BY <2>2, <2>3 DEF LoadFailed
<1>4. used' \in [Limited -> Nat]
  BY SpendUses DEF Shaped, ScreenShaped, LoadFailed, Limited
<1>5. MediaShaped'
  BY <1>1 DEF Shaped, MediaShaped, LoadFailed
<1>6. ScreenShaped'
  BY <1>4 DEF Shaped, ScreenShaped, LoadFailed, store
<1>7. Reached'
  BY DEF Shaped, Reached, LoadFailed, store
<1>8. TasksShaped'
  BY <1>2, <1>3 DEF Shaped, TasksShaped, LoadFailed
<1>9. QED
  BY <1>5, <1>6, <1>7, <1>8 DEF Shaped

(* What the closures on the event loop leave.                              *)
LEMMA SettleShaped ==
  ASSUME overlay \in Overlay, NEW o \in Operation
  PROVE  Settle(o) \in Overlay
<1>1. o.msg \in Msgs /\ o.kind \in {"react", "unreact", "edit", "delete"}
  BY DEF Operation
<1>2. CASE o.kind \in {"react", "unreact"}
  BY <1>1, <1>2 DEF Settle, Overlay
<1>3. CASE o.kind = "edit"
  BY <1>1, <1>3 DEF Settle, Overlay
<1>4. CASE o.kind = "delete"
  BY <1>1, <1>4 DEF Settle, Overlay
<1>5. QED
  BY <1>1, <1>2, <1>3, <1>4

LEMMA ShapedRunDone ==
  ASSUME Shaped, RunDone
  PROVE  Shaped'
<1>1. Head(uiq).op \in Operation /\ uiq # <<>>
  BY HeadTyped DEF RunDone, Turn
<1>2. Head(uiq).op.msg \in Msgs
  BY <1>1 DEF Operation
<1>3. overlay' \in Overlay
  BY <1>1, SettleShaped DEF Shaped, ScreenShaped, RunDone
<1>4. IsBag(reads', ReadJob)
  BY <1>2, Asked, JobsRead DEF Shaped, RunDone
<1>5. uiq' \in Seq(Posted) /\ Reached'
  BY <1>1, NoMore, TakenReached DEF RunDone, store
<1>6. ScreenShaped' /\ MediaShaped'
  BY <1>3 DEF Shaped, ScreenShaped, MediaShaped, RunDone, store, media
<1>7. TasksShaped'
  BY <1>4, <1>5 DEF Shaped, TasksShaped, RunDone, media
<1>8. QED
  BY <1>5, <1>6, <1>7 DEF Shaped

(* A snapshot for one message lands.                                       *)
LEMMA SnapLands ==
  ASSUME Shaped, NEW k \in {"refresh", "rebuild", "tap", "echo", "event"}, Turn(k)
  PROVE  /\ uiq # <<>> /\ Head(uiq).n \in Nat /\ Head(uiq).n <= Len(log)
         /\ Head(uiq).msg \in Msgs
BY HeadTyped DEF Turn, SnapKinds

LEMMA ShapedRunRefresh ==
  ASSUME Shaped, RunRefresh
  PROVE  Shaped'
<1> DEFINE c == Head(uiq)
<1>1. uiq # <<>> /\ c.n \in Nat /\ c.n <= Len(log) /\ c.msg \in Msgs
  BY SnapLands DEF RunRefresh
<1>2. UNCHANGED rows \/ RefreshRow(c.n, c.msg)
  BY DEF RunRefresh
<1>3. \E more \in Seq(Autoload) : Take(more)
  BY <1>1, NoMore, RowLoadsShaped DEF RunRefresh
<1> HIDE DEF c
<1>4. rows' \in Seq(Row)
  BY <1>1, <1>2, RefreshShape DEF Shaped, ScreenShaped
<1>5. uiq' \in Seq(Posted) /\ Reached'
  BY <1>1, <1>3, TakenReached DEF RunRefresh, store, tasks
<1>6. ScreenShaped' /\ MediaShaped'
  BY <1>4 DEF Shaped, ScreenShaped, MediaShaped, RunRefresh, store, media
<1>7. TasksShaped'
  BY <1>5 DEF Shaped, TasksShaped, RunRefresh, tasks, media
<1>8. QED
  BY <1>5, <1>6, <1>7 DEF Shaped

LEMMA ShapedRunEvent ==
  ASSUME Shaped, RunEvent
  PROVE  Shaped'
<1> DEFINE c == Head(uiq)
<1>1. uiq # <<>> /\ c.n \in Nat /\ c.n <= Len(log) /\ c.msg \in Msgs
  BY SnapLands DEF RunEvent
<1>2. RefreshRow(c.n, c.msg)
  BY DEF RunEvent
<1>3. \E more \in Seq(Autoload) : Take(more)
  BY <1>1, RowLoadsShaped DEF RunEvent
<1> HIDE DEF c
<1>4. rows' \in Seq(Row)
  BY <1>1, <1>2, RefreshShape
<1>5. uiq' \in Seq(Posted) /\ Reached'
  BY <1>1, <1>3, TakenReached DEF RunEvent, store, tasks
<1>6. ScreenShaped' /\ MediaShaped'
  BY <1>4 DEF Shaped, ScreenShaped, MediaShaped, RunEvent, store, media
<1>7. TasksShaped'
  BY <1>5 DEF Shaped, TasksShaped, RunEvent, tasks, media
<1>8. QED
  BY <1>5, <1>6, <1>7 DEF Shaped

LEMMA ShapedRunEcho ==
  ASSUME Shaped, RunEcho
  PROVE  Shaped'
<1> DEFINE c == Head(uiq)
<1>1. uiq # <<>> /\ c.n \in Nat /\ c.n <= Len(log) /\ c.msg \in Msgs
  BY SnapLands DEF RunEcho
<1>2. UNCHANGED rows \/ rows' = Pushed(Build(c.n, c.msg))
  BY DEF RunEcho
<1>3. \E more \in Seq(Autoload) : Take(more)
  BY <1>1, RowLoadsShaped DEF RunEcho
<1> HIDE DEF c
<1>4. rows' \in Seq(Row)
  BY <1>1, <1>2, BuildShape, PushedShape DEF Shaped, ScreenShaped
<1>5. uiq' \in Seq(Posted) /\ Reached'
  BY <1>1, <1>3, TakenReached DEF RunEcho, store, tasks
<1>6. ScreenShaped' /\ MediaShaped'
  BY <1>4 DEF Shaped, ScreenShaped, MediaShaped, RunEcho, store, media
<1>7. TasksShaped'
  BY <1>5 DEF Shaped, TasksShaped, RunEcho, tasks, media
<1>8. QED
  BY <1>5, <1>6, <1>7 DEF Shaped

LEMMA ShapedRunRebuild ==
  ASSUME Shaped, RunRebuild
  PROVE  Shaped'
<1> DEFINE n == Head(uiq).n
<1>1. uiq # <<>> /\ n \in Nat /\ n <= Len(log)
  BY SnapLands DEF RunRebuild
<1>2. UNCHANGED rows \/ rows' = Rebuilt(n)
  BY DEF RunRebuild
<1>3. \E more \in Seq(Autoload) : Take(more)
  BY <1>1, NoMore, RebuiltLoads DEF RunRebuild
<1> HIDE DEF n
<1>4. rows' \in Seq(Row)
  BY <1>1, <1>2, RebuiltShape DEF Shaped, ScreenShaped
<1>5. uiq' \in Seq(Posted) /\ Reached'
  BY <1>1, <1>3, TakenReached DEF RunRebuild, store, tasks
<1>6. ScreenShaped' /\ MediaShaped'
  BY <1>4 DEF Shaped, ScreenShaped, MediaShaped, RunRebuild, store, media
<1>7. TasksShaped'
  BY <1>5 DEF Shaped, TasksShaped, RunRebuild, tasks, media
<1>8. QED
  BY <1>5, <1>6, <1>7 DEF Shaped

LEMMA ShapedRunList ==
  ASSUME Shaped, RunList
  PROVE  Shaped'
<1> DEFINE n == Head(uiq).n
<1>1. uiq # <<>> /\ n \in Nat /\ n <= Len(log)
  BY HeadTyped DEF RunList, Turn, SnapKinds
<1>2. rows' = Rebuilt(n)
  BY DEF RunList
<1>3. \E more \in Seq(Autoload) : Take(more)
  BY NoMore DEF RunList
<1> HIDE DEF n
<1>4. rows' \in Seq(Row)
  BY <1>1, <1>2, RebuiltShape
<1>5. uiq' \in Seq(Posted) /\ Reached'
  BY <1>1, <1>3, TakenReached DEF RunList, store, tasks
<1>6. ScreenShaped' /\ MediaShaped'
  BY <1>4 DEF Shaped, ScreenShaped, MediaShaped, RunList, store, media
<1>7. TasksShaped'
  BY <1>5 DEF Shaped, TasksShaped, RunList, tasks, media
<1>8. QED
  BY <1>5, <1>6, <1>7 DEF Shaped

LEMMA ShapedRunOpen ==
  ASSUME Shaped, RunOpen
  PROVE  Shaped'
<1> DEFINE n == Head(uiq).n
<1>1. uiq # <<>> /\ n \in Nat /\ n <= Len(log)
  BY HeadTyped DEF RunOpen, Turn, SnapKinds
<1>2. UNCHANGED rows \/ rows' = Rebuilt(n)
  BY DEF RunOpen
<1>3. \E more \in Seq(Autoload) : Take(more)
  BY <1>1, NoMore, RebuiltLoads DEF RunOpen
<1> HIDE DEF n
<1>4. rows' \in Seq(Row)
  BY <1>1, <1>2, RebuiltShape DEF Shaped, ScreenShaped
<1>5. uiq' \in Seq(Posted) /\ Reached'
  BY <1>1, <1>3, TakenReached DEF RunOpen, store, tasks
<1>6. ScreenShaped' /\ MediaShaped'
  BY <1>4 DEF Shaped, ScreenShaped, MediaShaped, RunOpen, store, media
<1>7. feed' \in Seq(Filed)
  BY DEF RunOpen
<1>8. TasksShaped'
  BY <1>5, <1>7 DEF Shaped, TasksShaped, RunOpen, tasks, media
<1>9. QED
  BY <1>5, <1>6, <1>8 DEF Shaped

LEMMA ShapedRunAutoload ==
  ASSUME Shaped, RunAutoload
  PROVE  Shaped'
<1> DEFINE c    == Head(uiq)
           keys == StillNeeded(c.keys)
           T    == {[key |-> k, msg |-> c.msg] : k \in keys}
<1>1. uiq # <<>> /\ c \in Autoload
  BY HeadTyped DEF RunAutoload, Turn
<1>2. /\ keys \subseteq AllKeys /\ keys \subseteq Keys[c.msg] /\ c.msg \in Msgs
      /\ keys \cap cache = {}
  BY <1>1 DEF Autoload, StillNeeded
<1>3. T \subseteq Load
  BY <1>2 DEF Load
<1>4. inflight' = inflight \cup keys /\ loads' = loads (+) SetToBag(T)
  BY DEF RunAutoload
<1> HIDE DEF c, keys, T
<1>5. IsBag(loads', Load)
  BY <1>3, <1>4, BagAdd DEF Shaped, TasksShaped
<1>6. MediaShaped'
  BY <1>2, <1>4 DEF Shaped, MediaShaped, RunAutoload
<1>7. uiq' \in Seq(Posted) /\ Reached'
  BY <1>1, NoMore, TakenReached DEF RunAutoload, store, tasks
<1>8. ScreenShaped'
  BY DEF Shaped, ScreenShaped, RunAutoload, store
<1>9. TasksShaped'
  BY <1>5, <1>7 DEF Shaped, TasksShaped, RunAutoload, tasks
<1>10. QED
  BY <1>6, <1>7, <1>8, <1>9 DEF Shaped

LEMMA ShapedRunTap ==
  ASSUME Shaped, RunTap
  PROVE  Shaped'
<1> DEFINE c == Head(uiq)
           T == {[key |-> k, msg |-> c.msg] : k \in Keys[c.msg]}
<1>1. uiq # <<>> /\ c.n \in Nat /\ c.n <= Len(log) /\ c.msg \in Msgs
  BY SnapLands DEF RunTap
<1>2. RefreshRow(c.n, c.msg) /\ inflight' \subseteq inflight
  BY DEF RunTap
<1>3. \E more \in Seq(Autoload) : Take(more)
  BY <1>1, RowLoadsShaped DEF RunTap
<1>4. T \subseteq Load
  BY <1>1 DEF Load, AllKeys
<1>5. loads' = loads (+) SetToBag(T)
  BY DEF RunTap, Dispatch
<1> HIDE DEF c, T
<1>6. rows' \in Seq(Row)
  BY <1>1, <1>2, RefreshShape
<1>7. IsBag(loads', Load)
  BY <1>4, <1>5, BagAdd DEF Shaped, TasksShaped
<1>8. uiq' \in Seq(Posted) /\ Reached'
  BY <1>1, <1>3, TakenReached DEF RunTap, store, tasks
<1>9. ScreenShaped' /\ MediaShaped'
  BY <1>2, <1>6 DEF Shaped, ScreenShaped, MediaShaped, RunTap, store
<1>10. TasksShaped'
  BY <1>7, <1>8 DEF Shaped, TasksShaped, RunTap, tasks
<1>11. QED
  BY <1>8, <1>9, <1>10 DEF Shaped

(* Whoever acts acts on a known message.                                   *)
LEMMA TargetsKnown ==
  ASSUME NEW o \in Limited
  PROVE  Targets[o] \subseteq Msgs
BY MessagesConstantsOK

LEMMA ShapedNext ==
  ASSUME Shaped, [Next]_vars
  PROVE  Shaped'
<1>1. CASE User
  <2>1. /\ Targets["react"] \subseteq Msgs /\ Targets["unreact"] \subseteq Msgs
        /\ Targets["edit"] \subseteq Msgs /\ Targets["delete"] \subseteq Msgs
        /\ Targets["hide"] \subseteq Msgs /\ Targets["tap"] \subseteq Msgs
    BY TargetsKnown DEF Limited
  <2>2. QED
    BY <1>1, <2>1, ShapedReact, ShapedUnreact, ShapedRequestEdit, ShapedCancelEdit,
       ShapedSubmitEdit, ShapedDelete, ShapedHide, ShapedSwitchTo, ShapedSelect, ShapedTap
    DEF User
<1>2. CASE Peer
  <2>1. Targets["receive"] \subseteq Msgs /\ Targets["peer"] \subseteq Msgs
    BY TargetsKnown DEF Limited
  <2>2. QED
    BY <1>2, <2>1, PeerFiled, ShapedReceive, ShapedPeerActs DEF Peer
<1>3. CASE Workers
  BY <1>3, ShapedStored, ShapedCompleted, ShapedReport, ShapedRead, ShapedHand,
     ShapedLoaded, ShapedLoadFailed DEF Workers
<1>4. CASE Closures
  BY <1>4, ShapedRunDone, ShapedRunRefresh, ShapedRunEvent, ShapedRunEcho,
     ShapedRunRebuild, ShapedRunList, ShapedRunOpen, ShapedRunAutoload, ShapedRunTap
  DEF Closures
<1>5. CASE UNCHANGED vars
  BY <1>5 DEF vars, Shaped, ScreenShaped, TasksShaped, MediaShaped, Reached
<1>6. QED
  BY <1>1, <1>2, <1>3, <1>4, <1>5 DEF Next

(* Every variable keeps its type: rows show known messages, a key is       *)
(* decoded or in flight and never both, an overlay slot holds what its     *)
(* kind of operation may put there.                                        *)
THEOREM MessagesTypeOK == Spec => []TypeOK
<1>1. Init => Shaped
  BY ShapedInit
<1>2. Shaped /\ [Next]_vars => Shaped'
  BY ShapedNext
<1>3. Shaped => TypeOK
  BY ShapedTypes
<1>4. QED
  BY <1>1, <1>2, <1>3, PTL DEF Spec
=============================================================================
