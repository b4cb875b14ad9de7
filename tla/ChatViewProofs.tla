---------------------------- MODULE ChatViewProofs ----------------------------
(***************************************************************************)
(* TLAPS proofs about ChatView, for every value of its constants: types,   *)
(* parallel lists, one row for each record, the pending bubbles, and the   *)
(* watcher of the open chat.                                               *)
(***************************************************************************)
EXTENDS ChatView, DataLemmas

-----------------------------------------------------------------------------
(* Sequences: what is in them, what occurs once, and where something is.   *)

LEMMA ContainsIs ==
  ASSUME NEW S, NEW s \in Seq(S), NEW x
  PROVE  Contains(s, x) <=> x \in ToSet(s)
<1>1. DOMAIN s = 1 .. Len(s)
  OBVIOUS
<1>2. QED
  BY <1>1 DEF Contains, ToSet

LEMMA ElemsIn ==
  ASSUME NEW S, NEW s \in Seq(S)
  PROVE  ToSet(s) \subseteq S /\ (s = <<>> <=> ToSet(s) = {})
<1>1. /\ DOMAIN s = 1 .. Len(s) /\ Len(s) \in Nat /\ \A i \in DOMAIN s : s[i] \in S
      /\ s = <<>> <=> Len(s) = 0
  OBVIOUS
<1>2. ToSet(s) \subseteq S
  BY <1>1 DEF ToSet
<1>3. ASSUME s # <<>> PROVE s[1] \in ToSet(s)
  <2>1. 1 \in DOMAIN s
    BY <1>1, <1>3
  <2>2. QED
    BY <2>1 DEF ToSet
<1>4. ASSUME s = <<>> PROVE ToSet(s) = {}
  BY <1>1, <1>4 DEF ToSet
<1>5. QED
  BY <1>2, <1>3, <1>4

LEMMA ConcatParts ==
  ASSUME NEW S, NEW s \in Seq(S), NEW t \in Seq(S)
  PROVE  /\ s \o t \in Seq(S) /\ Len(s \o t) = Len(s) + Len(t)
         /\ Len(s) \in Nat /\ Len(t) \in Nat
         /\ DOMAIN s = 1 .. Len(s) /\ DOMAIN t = 1 .. Len(t)
         /\ DOMAIN (s \o t) = 1 .. Len(s) + Len(t)
         /\ \A i \in DOMAIN s : (s \o t)[i] = s[i] /\ i \in DOMAIN (s \o t)
         /\ \A i \in DOMAIN t : (s \o t)[Len(s) + i] = t[i] /\ Len(s) + i \in DOMAIN (s \o t)
         /\ \A i \in DOMAIN (s \o t) : i \in DOMAIN s \/ i - Len(s) \in DOMAIN t
<1>1. /\ s \o t \in Seq(S) /\ Len(s \o t) = Len(s) + Len(t)
      /\ Len(s) \in Nat /\ Len(t) \in Nat
      /\ DOMAIN s = 1 .. Len(s) /\ DOMAIN t = 1 .. Len(t)
      /\ DOMAIN (s \o t) = 1 .. Len(s) + Len(t)
  OBVIOUS
<1>2. \A i \in DOMAIN s : (s \o t)[i] = s[i]
  OBVIOUS
<1>3. \A i \in DOMAIN t : (s \o t)[Len(s) + i] = t[i]
  OBVIOUS
<1> DEFINE u == s \o t
<1> HIDE DEF u
<1>4. /\ \A i \in DOMAIN s : i \in DOMAIN u
      /\ \A i \in DOMAIN t : Len(s) + i \in DOMAIN u
      /\ \A i \in DOMAIN u : i \in DOMAIN s \/ i - Len(s) \in DOMAIN t
  BY <1>1 DEF u
<1>5. QED
  BY <1>1, <1>2, <1>3, <1>4 DEF u

LEMMA ConcatElems ==
  ASSUME NEW S, NEW s \in Seq(S), NEW t \in Seq(S)
  PROVE  ToSet(s \o t) = ToSet(s) \cup ToSet(t)
<1> DEFINE u == s \o t
<1>1. /\ Len(s) \in Nat /\ DOMAIN t = 1 .. Len(t)
      /\ \A i \in DOMAIN s : u[i] = s[i] /\ i \in DOMAIN u
      /\ \A i \in DOMAIN t : u[Len(s) + i] = t[i] /\ Len(s) + i \in DOMAIN u
      /\ \A i \in DOMAIN u : i \in DOMAIN s \/ i - Len(s) \in DOMAIN t
      /\ DOMAIN u = 1 .. Len(s) + Len(t) /\ Len(t) \in Nat
  BY ConcatParts
<1> HIDE DEF u
<1>2. ASSUME NEW x \in ToSet(u) PROVE x \in ToSet(s) \cup ToSet(t)
  <2>1. PICK i \in DOMAIN u : u[i] = x
    BY <1>2 DEF ToSet
  <2>2. CASE i \in DOMAIN s
    BY <1>1, <2>1, <2>2 DEF ToSet
  <2>3. CASE i - Len(s) \in DOMAIN t
    <3>1. Len(s) + (i - Len(s)) = i
      BY <1>1
    <3>2. t[i - Len(s)] = x
      BY <1>1, <2>1, <2>3, <3>1
    <3>3. QED
      BY <2>3, <3>2 DEF ToSet
  <2>4. QED
    BY <1>1, <2>2, <2>3
<1>3. ASSUME NEW x \in ToSet(s) PROVE x \in ToSet(u)
  BY <1>1 DEF ToSet
<1>4. ASSUME NEW x \in ToSet(t) PROVE x \in ToSet(u)
  BY <1>1 DEF ToSet
<1>5. ToSet(u) = ToSet(s) \cup ToSet(t)
  BY <1>2, <1>3, <1>4
<1>6. QED
  BY <1>5 DEF u

LEMMA ConcatOnce ==
  ASSUME NEW S, NEW s \in Seq(S), NEW t \in Seq(S), IsInjective(s), IsInjective(t),
         \A x \in ToSet(s) : x \notin ToSet(t)
  PROVE  IsInjective(s \o t)
<1> DEFINE u == s \o t
<1>1. /\ Len(s) \in Nat /\ DOMAIN t = 1 .. Len(t) /\ DOMAIN s = 1 .. Len(s)
      /\ \A i \in DOMAIN s : u[i] = s[i] /\ i \in DOMAIN u
      /\ \A i \in DOMAIN t : u[Len(s) + i] = t[i] /\ Len(s) + i \in DOMAIN u
      /\ \A i \in DOMAIN u : i \in DOMAIN s \/ i - Len(s) \in DOMAIN t
      /\ DOMAIN u = 1 .. Len(s) + Len(t) /\ Len(t) \in Nat
  BY ConcatParts
<1> HIDE DEF u
<1> SUFFICES ASSUME NEW i \in DOMAIN u, NEW j \in DOMAIN u, u[i] = u[j] PROVE i = j
  BY DEF IsInjective, u
<1>2. ASSUME NEW k \in DOMAIN u, k \notin DOMAIN s
      PROVE  k - Len(s) \in DOMAIN t /\ t[k - Len(s)] = u[k]
  <2>1. k - Len(s) \in DOMAIN t /\ Len(s) + (k - Len(s)) = k
    BY <1>1, <1>2
  <2>2. QED
    BY <1>1, <2>1
<1>3. CASE i \in DOMAIN s /\ j \in DOMAIN s
  BY <1>1, <1>3 DEF IsInjective
<1>4. CASE i \in DOMAIN s /\ j \notin DOMAIN s
  BY <1>1, <1>2, <1>4 DEF ToSet
<1>5. CASE i \notin DOMAIN s /\ j \in DOMAIN s
  BY <1>1, <1>2, <1>5 DEF ToSet
<1>6. CASE i \notin DOMAIN s /\ j \notin DOMAIN s
  <2>1. i - Len(s) = j - Len(s)
    BY <1>2, <1>6 DEF IsInjective
  <2>2. QED
    BY <1>1, <2>1
<1>7. QED
  BY <1>3, <1>4, <1>5, <1>6

LEMMA AppendOnce ==
  ASSUME NEW S, NEW s \in Seq(S), NEW x \in S, IsInjective(s), x \notin ToSet(s)
  PROVE  IsInjective(Append(s, x))
<1> DEFINE u == Append(s, x)
<1>1. /\ DOMAIN u = 1 .. Len(s) + 1 /\ u[Len(s) + 1] = x
      /\ \A i \in DOMAIN s : u[i] = s[i]
      /\ DOMAIN s = 1 .. Len(s) /\ Len(s) \in Nat
  OBVIOUS
<1> HIDE DEF u
<1>2. \A i \in DOMAIN u : i = Len(s) + 1 \/ i \in DOMAIN s
  BY <1>1
<1>3. \A i \in DOMAIN s : u[i] # x
  BY <1>1 DEF ToSet
<1>4. IsInjective(u)
  BY <1>1, <1>2, <1>3 DEF IsInjective
<1>5. QED
  BY <1>4 DEF u

(* The first position of an element, 0 if there is none.                   *)
Spot(s, x) == SelectInSeq(s, LAMBDA y : y = x)

LEMMA SpotFinds ==
  ASSUME NEW S, NEW s \in Seq(S), NEW x
  PROVE  /\ x \in ToSet(s) => Spot(s, x) \in DOMAIN s /\ s[Spot(s, x)] = x
         /\ x \notin ToSet(s) => Spot(s, x) = 0
         /\ Spot(s, x) \in Nat
<1> DEFINE I == {i \in 1 .. Len(s) : s[i] = x}
<1>1. Spot(s, x) = IF I # {} THEN Min(I) ELSE 0
  BY DEF Spot, SelectInSeq
<1>2. I \subseteq Nat /\ DOMAIN s = 1 .. Len(s)
  OBVIOUS
<1>3. CASE I = {}
  BY <1>1, <1>2, <1>3 DEF ToSet
<1>4. CASE I # {}
  <2>1. \E i \in I : \A j \in I : i <= j
    BY <1>2, <1>4, LeastOf
  <2>2. Min(I) \in I
    BY <2>1 DEF Min
  <2>3. x \in ToSet(s)
    BY <1>2, <2>2 DEF ToSet
  <2>4. QED
    BY <1>1, <1>2, <1>4, <2>2, <2>3
<1>5. QED
  BY <1>3, <1>4

LEMMA PositionIs == ASSUME NEW g PROVE Position(g) = Spot(ids, g)
BY DEF Position, Spot

(* The default chat of a list is one of its chats.                         *)
LEMMA DefaultIn ==
  ASSUME NEW S, NEW list \in Seq(S)
  PROVE  /\ list # <<>> => Default(list) \in DOMAIN list
         /\ Default(list) \in Nat \ {0}
<1> DEFINE I == {i \in 1 .. Len(list) : list[i] # Saved}
           k == SelectInSeq(list, LAMBDA g : g # Saved)
<1>1. k = IF I # {} THEN Min(I) ELSE 0
  BY DEF SelectInSeq
<1>2. I \subseteq Nat /\ I \subseteq DOMAIN list /\ 0 \notin I /\ DOMAIN list = 1 .. Len(list)
      /\ (list # <<>> => 1 \in DOMAIN list)
  OBVIOUS
<1>3. k = 0 \/ k \in I
  <2>1. CASE I # {}
    <3>1. \E i \in I : \A j \in I : i <= j
      BY <1>2, <2>1, LeastOf
    <3>2. Min(I) \in I
      BY <3>1 DEF Min
    <3>3. QED
      BY <1>1, <2>1, <3>2
  <2>2. QED
    BY <1>1, <2>1
<1>4. Default(list) = IF k = 0 THEN 1 ELSE k
  BY DEF Default
<1>5. k \in I => k \in Nat \ {0} /\ k \in DOMAIN list
  BY <1>2
<1>6. list # <<>> => 1 \in DOMAIN list
  BY <1>2
<1> HIDE DEF k, I
<1>7. CASE k = 0
  <2>1. Default(list) = 1
    BY <1>4, <1>7
  <2>2. QED
    BY <1>6, <2>1
<1>8. CASE k # 0
  <2>1. Default(list) = k /\ k \in I
    BY <1>3, <1>4, <1>8
  <2>2. QED
    BY <1>5, <2>1
<1>9. QED
  BY <1>7, <1>8

(* Ranked reorders its list.                                               *)
LEMMA RankedIs ==
  ASSUME NEW S, NEW list \in Seq(S), NEW top
  PROVE  /\ Ranked(list, top) \in Seq(S) /\ ToSet(Ranked(list, top)) = ToSet(list)
         /\ Len(Ranked(list, top)) = Len(list)
         /\ IsInjective(list) => IsInjective(Ranked(list, top))
<1> DEFINE rest == ToSet(list) \ top
           a == Sublist(list, top)
           b == Sublist(list, rest)
<1>1. a \in Seq(S) /\ b \in Seq(S)
  BY SublistType
<1>2. ToSet(a) = ToSet(list) \cap top /\ ToSet(b) = ToSet(list) \cap rest
  BY SublistElems
<1>3. Len(a) + Len(b) = Len(list)
  <2>1. list \in Seq(ToSet(list))
    <3>1. DOMAIN list = 1 .. Len(list) /\ Len(list) \in Nat /\ \A i \in DOMAIN list : list[i] \in ToSet(list)
      BY DEF ToSet
    <3>2. QED
      BY <3>1
  <2>2. \A x \in ToSet(list) : x \in top <=> x \notin rest
    OBVIOUS
  <2> HIDE DEF rest
  <2>3. QED
    BY <2>1, <2>2, SublistSplit
<1>4. Ranked(list, top) = a \o b
  BY DEF Ranked
<1>5. IsInjective(list) => IsInjective(a) /\ IsInjective(b)
  BY SublistOnce
<1>6. \A x \in ToSet(a) : x \notin ToSet(b)
  BY <1>2
<1> HIDE DEF a, b
<1>7. a \o b \in Seq(S) /\ ToSet(a \o b) = ToSet(a) \cup ToSet(b) /\ Len(a \o b) = Len(a) + Len(b)
  <2>1. a \o b \in Seq(S) /\ Len(a \o b) = Len(a) + Len(b)
    BY <1>1
  <2>2. ToSet(a \o b) = ToSet(a) \cup ToSet(b)
    BY <1>1, ConcatElems
  <2>3. QED
    BY <2>1, <2>2
<1>8. IsInjective(list) => IsInjective(a \o b)
  <2>1. IsInjective(a) /\ IsInjective(b) => IsInjective(a \o b)
    BY <1>1, <1>6, ConcatOnce
  <2>2. QED
    BY <1>5, <2>1
<1>9. QED
  BY <1>2, <1>3, <1>4, <1>7, <1>8

LEMMA RailOrderIs ==
  ASSUME NEW S, NEW list \in Seq(S)
  PROVE  /\ RailOrder(list) \in Seq(S) /\ ToSet(RailOrder(list)) = ToSet(list)
         /\ IsInjective(list) => IsInjective(RailOrder(list))
<1> DEFINE a == Ranked(list, {Saved})
<1>1. a \in Seq(S) /\ ToSet(a) = ToSet(list) /\ (IsInjective(list) => IsInjective(a))
  BY RankedIs
<1>2. RailOrder(list) = Ranked(a, OnTop)
  BY DEF RailOrder
<1> HIDE DEF a
<1>3. /\ Ranked(a, OnTop) \in Seq(S) /\ ToSet(Ranked(a, OnTop)) = ToSet(a)
      /\ IsInjective(a) => IsInjective(Ranked(a, OnTop))
  BY <1>1, RankedIs
<1>4. QED
  BY <1>1, <1>2, <1>3

-----------------------------------------------------------------------------
(* The records the model is made of.                                       *)

Reads == WindowRead \cup ListRead
Queue == ToSet(uiq)
Rebuilds == {"select", "older"}
Lists    == {"boot", "merge", "refresh"}

LEMMA ClosureFields ==
  ASSUME NEW c \in Closure
  PROVE  /\ c.kind \in Rebuilds => c.grp \in Chats /\ c.at \in Positions /\ c.snap \in Seq(Msgs)
         /\ c.kind = "echo" => c.grp \in Chats /\ c.at \in Positions /\ c.msg \in Msgs
         /\ c.kind = "ack" => c.grp \in Chats /\ c.msg \in Own /\ c.snap \in Seq(Msgs)
         /\ c.kind \in Lists => c.list \in Seq(Chats) /\ c.first \in Seq(Msgs)
         /\ c.kind = "chat" => c.grp \in Chats
BY DEF Closure, Rebuilds, Lists

LEMMA ReadFields ==
  ASSUME NEW r \in Reads
  PROVE  /\ r \in WindowRead <=> r.kind \in Rebuilds
         /\ r \in WindowRead => r.grp \in Chats /\ r.at \in Positions /\ r.kind \in Rebuilds
         /\ r \notin WindowRead => r.kind \in Lists \cup {"pin"}
         /\ r \in ListRead <=> r \notin WindowRead
BY DEF Reads, WindowRead, ListRead, Rebuilds, Lists

LEMMA RowFields ==
  ASSUME NEW m \in Msgs, NEW g \in Chats
  PROVE  /\ Record(m, g) \in Row /\ Record(m, g).msg = m /\ Record(m, g).grp = g
         /\ ~Record(m, g).pending
         /\ PendingRow(m, g) \in Row /\ PendingRow(m, g).msg = m /\ PendingRow(m, g).grp = g
         /\ PendingRow(m, g).pending
BY DEF Record, PendingRow, Row

LEMMA RowShape ==
  ASSUME NEW r \in Row
  PROVE  /\ r.msg \in Msgs /\ r.grp \in Chats
         /\ r.pending => r = PendingRow(r.msg, r.grp)
         /\ ~r.pending => r = Record(r.msg, r.grp)
<1>1. r.msg \in Msgs /\ r.grp \in Chats /\ r.pending \in BOOLEAN
  BY DEF Row
<1>2. r = [msg |-> r.msg, grp |-> r.grp, pending |-> r.pending]
  BY DEF Row
<1>3. r.pending = TRUE \/ r.pending = FALSE
  BY <1>1
<1>4. QED
  BY <1>1, <1>2, <1>3 DEF PendingRow, Record

(* What a rebuild shows: the snapshot, then what the overlay has pending.  *)
Recorded(g, snap) == [k \in DOMAIN snap |-> Record(snap[k], g)]
Pended(g, over)   == [k \in DOMAIN over |-> PendingRow(over[k], g)]

LEMMA RebuiltIs ==
  ASSUME NEW g, NEW snap PROVE Rebuilt(g, snap) = Recorded(g, snap) \o Pended(g, overlay'[g])
BY DEF Rebuilt, Recorded, Pended

LEMMA RecordedIs ==
  ASSUME NEW g \in Chats, NEW snap \in Seq(Msgs)
  PROVE  /\ Recorded(g, snap) \in Seq(Row) /\ DOMAIN Recorded(g, snap) = DOMAIN snap
         /\ Len(Recorded(g, snap)) = Len(snap)
         /\ \A k \in DOMAIN snap : snap[k] \in Msgs /\ Recorded(g, snap)[k] = Record(snap[k], g)
<1>1. \A k \in DOMAIN snap : snap[k] \in Msgs /\ Record(snap[k], g) \in Row
  <2>1. \A k \in DOMAIN snap : snap[k] \in Msgs
    OBVIOUS
  <2>2. QED
    BY <2>1, RowFields
<1>2. DOMAIN snap = 1 .. Len(snap) /\ Len(snap) \in Nat
  OBVIOUS
<1>3. QED
  BY <1>1, <1>2 DEF Recorded

LEMMA PendedIs ==
  ASSUME NEW g \in Chats, NEW over \in Seq(Own)
  PROVE  /\ Pended(g, over) \in Seq(Row) /\ DOMAIN Pended(g, over) = DOMAIN over
         /\ Len(Pended(g, over)) = Len(over)
         /\ \A k \in DOMAIN over : /\ over[k] \in Own /\ over[k] \in Msgs
                                   /\ Pended(g, over)[k] = PendingRow(over[k], g)
<1>1. \A k \in DOMAIN over : over[k] \in Own /\ over[k] \in Msgs
  <2>1. \A k \in DOMAIN over : over[k] \in Own
    OBVIOUS
  <2>2. QED
    BY <2>1 DEF Msgs
<1>2. \A k \in DOMAIN over : PendingRow(over[k], g) \in Row
  BY <1>1, RowFields
<1>3. DOMAIN over = 1 .. Len(over) /\ Len(over) \in Nat
  OBVIOUS
<1>4. QED
  BY <1>1, <1>2, <1>3 DEF Pended

LEMMA RecordedElems ==
  ASSUME NEW g \in Chats, NEW snap \in Seq(Msgs)
  PROVE  /\ \A r : r \in ToSet(Recorded(g, snap)) <=> \E m \in ToSet(snap) : r = Record(m, g)
         /\ IsInjective(snap) => IsInjective(Recorded(g, snap))
<1> DEFINE l == Recorded(g, snap)
<1>1. DOMAIN l = DOMAIN snap /\ \A k \in DOMAIN snap : snap[k] \in Msgs /\ l[k] = Record(snap[k], g)
  BY RecordedIs
<1> HIDE DEF l
<1>2. ASSUME NEW r PROVE r \in ToSet(l) <=> \E m \in ToSet(snap) : r = Record(m, g)
  BY <1>1 DEF ToSet
<1>3. ASSUME IsInjective(snap) PROVE IsInjective(l)
  <2> SUFFICES ASSUME NEW i \in DOMAIN snap, NEW j \in DOMAIN snap, l[i] = l[j] PROVE i = j
    BY <1>1 DEF IsInjective
  <2>1. snap[i] = snap[j]
    BY <1>1, RowFields
  <2>2. QED
    BY <1>3, <2>1 DEF IsInjective
<1>4. QED
  BY <1>2, <1>3 DEF l

LEMMA PendedElems ==
  ASSUME NEW g \in Chats, NEW over \in Seq(Own)
  PROVE  /\ \A r : r \in ToSet(Pended(g, over)) <=> \E m \in ToSet(over) : r = PendingRow(m, g)
         /\ IsInjective(over) => IsInjective(Pended(g, over))
<1> DEFINE l == Pended(g, over)
<1>1. DOMAIN l = DOMAIN over /\ \A k \in DOMAIN over : over[k] \in Msgs /\ l[k] = PendingRow(over[k], g)
  BY PendedIs
<1> HIDE DEF l
<1>2. ASSUME NEW r PROVE r \in ToSet(l) <=> \E m \in ToSet(over) : r = PendingRow(m, g)
  BY <1>1 DEF ToSet
<1>3. ASSUME IsInjective(over) PROVE IsInjective(l)
  <2> SUFFICES ASSUME NEW i \in DOMAIN over, NEW j \in DOMAIN over, l[i] = l[j] PROVE i = j
    BY <1>1 DEF IsInjective
  <2>1. over[i] = over[j]
    BY <1>1, RowFields
  <2>2. QED
    BY <1>3, <2>1 DEF IsInjective
<1>4. QED
  BY <1>2, <1>3 DEF l

(* A rebuilt list, for an overlay over of chat g.                          *)
LEMMA RebuildElems ==
  ASSUME NEW g \in Chats, NEW snap \in Seq(Msgs), NEW over \in Seq(Own)
  PROVE  LET l == Recorded(g, snap) \o Pended(g, over) IN
         /\ l \in Seq(Row)
         /\ \A r : r \in ToSet(l) <=> \/ \E m \in ToSet(snap) : r = Record(m, g)
                                      \/ \E m \in ToSet(over) : r = PendingRow(m, g)
         /\ IsInjective(snap) /\ IsInjective(over) => IsInjective(l)
<1> DEFINE a == Recorded(g, snap)  b == Pended(g, over)
<1>1. a \in Seq(Row) /\ b \in Seq(Row)
  BY RecordedIs, PendedIs
<1>2. \A r : r \in ToSet(a) <=> \E m \in ToSet(snap) : r = Record(m, g)
  BY RecordedElems
<1>3. \A r : r \in ToSet(b) <=> \E m \in ToSet(over) : r = PendingRow(m, g)
  BY PendedElems
<1>4. (IsInjective(snap) => IsInjective(a)) /\ (IsInjective(over) => IsInjective(b))
  BY RecordedElems, PendedElems
<1>5. \A r \in ToSet(a) : r \notin ToSet(b)
  <2>1. ToSet(snap) \subseteq Msgs /\ ToSet(over) \subseteq Msgs
    <3>1. ToSet(snap) \subseteq Msgs /\ ToSet(over) \subseteq Own
      BY ElemsIn
    <3>2. QED
      BY <3>1 DEF Msgs
  <2>2. \A m, n \in Msgs : Record(m, g) # PendingRow(n, g)
    BY RowFields
  <2>3. QED
    BY <1>2, <1>3, <2>1, <2>2
<1> HIDE DEF a, b
<1>6. a \o b \in Seq(Row)
  BY <1>1
<1>7. ToSet(a \o b) = ToSet(a) \cup ToSet(b)
  BY <1>1, ConcatElems
<1>8. IsInjective(a) /\ IsInjective(b) => IsInjective(a \o b)
  BY <1>1, <1>5, ConcatOnce
<1>9. QED
  BY <1>2, <1>3, <1>4, <1>6, <1>7, <1>8 DEF a, b

-----------------------------------------------------------------------------
(* The types, variable by variable.                                        *)

MarmotTypes ==
  /\ visible \in Seq(Chats) /\ store \in [Chats -> Seq(Msgs)]
  /\ sends \subseteq [msg : Own, grp : Chats] /\ committing \subseteq Chats
ListTypes ==
  /\ ids \in Seq(Chats) /\ rows \in Seq(Seq(Row)) /\ open \in Nat \ {0}
OverlayTypes == pinned \subseteq Chats /\ overlay \in [Chats -> Seq(Own)]
WatchTypes ==
  /\ watch \in [grp : Chats, at : Positions, live : BOOLEAN] \cup {NoWatch}
  /\ feed \in Seq(Msgs)
NoteTypes ==
  /\ used \in [Limited -> Nat] /\ moved \in BOOLEAN
  /\ missed \subseteq Msgs /\ blanked \subseteq Chats /\ early \subseteq Msgs
ReadTypes == IsBag(reads, Reads)
QueueTypes == uiq \in Seq(Closure)

Typed == /\ MarmotTypes /\ ListTypes /\ OverlayTypes /\ WatchTypes /\ NoteTypes
         /\ ReadTypes /\ QueueTypes

LEMMA TypeParts == Typed <=> TypeOK
<1>1. IsBag(reads, Reads) <=> IsABag(reads) /\ BagToSet(reads) \subseteq WindowRead \cup ListRead
  <2>1. Nat \ {0} = {n \in Nat : n > 0}
    OBVIOUS
  <2>2. QED
    BY <2>1 DEF IsBag, IsABag, BagToSet, Reads
<1>2. QED
  BY <1>1 DEF Typed, TypeOK, MarmotTypes, ListTypes, OverlayTypes, WatchTypes, NoteTypes,
              ReadTypes, QueueTypes

(* No list has two positions for a chat, marmot's included.                *)
ListsOnce ==
  /\ IsInjective(visible)
  /\ \A c \in Queue : c.kind \in Lists => IsInjective(c.list)

(* Only a watcher has records to call back for.                            *)
FeedWatched == feed # <<>> => watch # NoWatch

Core == Typed /\ ParallelLists /\ ListsOnce /\ FeedWatched

LEMMA PositionsHold ==
  ASSUME ViewConstantsOK, NEW list \in Seq(Chats), IsInjective(list)
  PROVE  DOMAIN list \subseteq Positions
<1>1. IsFiniteSet(Chats)
  BY DEF ViewConstantsOK
<1>2. list \in [1 .. Len(list) -> Chats] /\ Len(list) \in Nat /\ DOMAIN list = 1 .. Len(list)
  OBVIOUS
<1>3. list \in Injection(1 .. Len(list), Chats)
  BY <1>2 DEF Injection
<1>4. Cardinality(1 .. Len(list)) <= Cardinality(Chats) /\ Cardinality(Chats) \in Nat
  <2>1. Cardinality(1 .. Len(list)) <= Cardinality(Chats)
    BY <1>1, <1>3, FS_Injection
  <2>2. Cardinality(Chats) \in Nat
    BY <1>1, FS_CardinalityType
  <2>3. QED
    BY <2>1, <2>2
<1>5. Cardinality(1 .. Len(list)) = Len(list)
  <2>1. ASSUME NEW n \in Nat PROVE Cardinality(1 .. n) = n
    <3>1. Cardinality(1 .. n) = IF 1 > n THEN 0 ELSE n - 1 + 1
      BY FS_Interval
    <3>2. QED
      BY <3>1
  <2>2. QED
    BY <1>2, <2>1
<1>6. QED
  BY <1>2, <1>4, <1>5 DEF Positions

(* Which actions touch what marmot keeps.                                  *)
LEMMA MarmotFrame ==
  ASSUME Next
  PROVE  \/ UNCHANGED backend
         \/ \E m \in Own : Send(m)
         \/ Archive
         \/ \E m \in Foreign : Receive(m)
         \/ \E s \in sends : Publish(s) \/ Resolve(s)
         \/ \E g \in Chats : NewChat(g) \/ CommitArchive(g)
<1>1. User => UNCHANGED backend \/ (\E m \in Own : Send(m)) \/ Archive
  BY DEF User, Select, TogglePin, RequestOlder
<1>2. Worker => \/ UNCHANGED backend
                \/ \E m \in Foreign : Receive(m)
                \/ \E s \in sends : Publish(s) \/ Resolve(s)
                \/ \E g \in Chats : NewChat(g) \/ CommitArchive(g)
  BY DEF Worker, Subscribe, ReportAgain, WatcherCallback, ReadWindow, ReadList, RequestMerge,
         RequestRefresh
<1>3. RunClosure => UNCHANGED backend
  BY DEF RunClosure, RunSelect, RunOlder, RunEcho, RunAck, RunRefresh, RunMerge, RunChat,
         RunPin, RunReload
<1>4. QED
  BY <1>1, <1>2, <1>3 DEF Next

LEMMA StoredTyped ==
  ASSUME MarmotTypes, WatchTypes, NEW m \in Msgs, NEW g \in Chats, missed \subseteq Msgs, Stored(m, g)
  PROVE  store' \in [Chats -> Seq(Msgs)] /\ feed' \in Seq(Msgs) /\ missed' \subseteq Msgs
<1>1. store[g] \in Seq(Msgs)
  BY DEF MarmotTypes
<1>2. Append(store[g], m) \in Seq(Msgs)
  BY <1>1
<1>3. store' \in [Chats -> Seq(Msgs)]
  BY <1>2 DEF Stored, MarmotTypes
<1>4. feed' \in Seq(Msgs) /\ missed' \subseteq Msgs
  BY DEF Stored, WatchTypes
<1>5. QED
  BY <1>3, <1>4

LEMMA MarmotStep ==
  ASSUME ViewConstantsOK, MarmotTypes, ListTypes, WatchTypes, missed \subseteq Msgs,
         IsInjective(visible), Next
  PROVE  MarmotTypes' /\ IsInjective(visible')
<1>1. CASE UNCHANGED backend
  BY <1>1 DEF backend, MarmotTypes
<1>2. ASSUME NEW m \in Own, Send(m) PROVE MarmotTypes' /\ IsInjective(visible')
  <2>1. ids[open] \in Chats
    BY <1>2 DEF Send, Opened, ListTypes
  <2>2. sends' \subseteq [msg : Own, grp : Chats]
    BY <1>2, <2>1 DEF Send, MarmotTypes
  <2>3. QED
    BY <1>2, <2>2 DEF Send, MarmotTypes
<1>3. CASE Archive
  <2>1. ids[open] \in Chats
    BY <1>3 DEF Archive, Opened, ListTypes
  <2>2. QED
    BY <1>3, <2>1 DEF Archive, MarmotTypes
<1>4. ASSUME NEW m \in Foreign, Receive(m) PROVE MarmotTypes' /\ IsInjective(visible')
  <2>1. m \in Msgs /\ ChatOf[m] \in Chats
    BY DEF ViewConstantsOK, Msgs
  <2>2. store' \in [Chats -> Seq(Msgs)]
    BY <1>4, <2>1, StoredTyped DEF Receive
  <2>3. QED
    BY <1>4, <2>2 DEF Receive, MarmotTypes
<1>5. ASSUME NEW s \in sends, Publish(s) PROVE MarmotTypes' /\ IsInjective(visible')
  <2>1. s.msg \in Msgs /\ s.grp \in Chats
    BY DEF MarmotTypes, Msgs
  <2>2. store' \in [Chats -> Seq(Msgs)]
    BY <1>5, <2>1, StoredTyped DEF Publish
  <2>3. QED
    BY <1>5, <2>2 DEF Publish, MarmotTypes
<1>6. ASSUME NEW s \in sends, Resolve(s) PROVE MarmotTypes' /\ IsInjective(visible')
  BY <1>6 DEF Resolve, MarmotTypes
<1>7. ASSUME NEW g \in Chats, NewChat(g) PROVE MarmotTypes' /\ IsInjective(visible')
  <2>1. visible \in Seq(Chats) /\ g \notin ToSet(visible) /\ visible' = Append(visible, g)
    BY <1>7 DEF NewChat, MarmotTypes
  <2>2. IsInjective(visible') /\ visible' \in Seq(Chats)
    <3>1. IsInjective(Append(visible, g))
      BY <2>1, AppendOnce
    <3>2. QED
      BY <2>1, <3>1
  <2>3. QED
    BY <1>7, <2>2 DEF NewChat, MarmotTypes
<1>8. ASSUME NEW g \in Chats, CommitArchive(g) PROVE MarmotTypes' /\ IsInjective(visible')
  <2>1. visible \in Seq(Chats)
    BY DEF MarmotTypes
  <2>2. visible' = Sublist(visible, Chats \ {g}) \/ visible' = visible
    BY <1>8 DEF CommitArchive
  <2>3. IsInjective(visible') /\ visible' \in Seq(Chats)
    <3>1. Sublist(visible, Chats \ {g}) \in Seq(Chats) /\ IsInjective(Sublist(visible, Chats \ {g}))
      BY <2>1, SublistType, SublistOnce
    <3>2. QED
      BY <2>1, <2>2, <3>1
  <2>4. QED
    BY <1>8, <2>3 DEF CommitArchive, MarmotTypes
<1>9. QED
  BY <1>1, <1>2, <1>3, <1>4, <1>5, <1>6, <1>7, <1>8, MarmotFrame

(* The tasks that read for the window.                                     *)
LEMMA ReadsFrame ==
  ASSUME Next, Typed, IsInjective(ids), ViewConstantsOK
  PROVE  \/ UNCHANGED reads
         \/ \E r \in Reads : Ask(r)
         \/ \E r \in BagToSet(reads) : reads' = reads (-) SetToBag({r})
<1>0. \A k \in {"merge", "refresh", "pin"} : [kind |-> k] \in Reads
  BY DEF Reads, ListRead
<1>1. ASSUME NEW k \in DOMAIN ids, NEW d \in Rebuilds
      PROVE  [kind |-> d, grp |-> ids[k], at |-> k] \in Reads
  <2>1. ids \in Seq(Chats)
    BY DEF Typed, ListTypes
  <2>2. ids[k] \in Chats /\ k \in Positions
    <3>1. DOMAIN ids \subseteq Positions
      BY <2>1, PositionsHold
    <3>2. QED
      BY <2>1, <3>1
  <2>3. QED
    BY <2>2 DEF Reads, WindowRead, Rebuilds
<1>2. User => UNCHANGED reads \/ \E r \in Reads : Ask(r)
  <2>1. \A k \in DOMAIN ids : Select(k) => \E r \in Reads : Ask(r)
    BY <1>1 DEF Select, Rebuilds
  <2>2. \A k \in DOMAIN ids : TogglePin(k) => \E r \in Reads : Ask(r)
    BY <1>0 DEF TogglePin
  <2>3. RequestOlder => \E r \in Reads : Ask(r)
    BY <1>1 DEF RequestOlder, Opened, Rebuilds
  <2>4. QED
    BY <2>1, <2>2, <2>3 DEF User, Send, Archive
<1>3. Worker => \/ UNCHANGED reads
                \/ \E r \in Reads : Ask(r)
                \/ \E r \in BagToSet(reads) : reads' = reads (-) SetToBag({r})
  <2>1. RequestMerge \/ RequestRefresh => \E r \in Reads : Ask(r)
    BY <1>0 DEF RequestMerge, RequestRefresh
  <2>2. \A r \in BagToSet(reads) : ReadWindow(r) \/ ReadList(r) => reads' = reads (-) SetToBag({r})
    BY DEF ReadWindow, ReadList, Answered
  <2>3. QED
    BY <2>1, <2>2 DEF Worker, Receive, Publish, Resolve, Subscribe, ReportAgain, WatcherCallback,
                      NewChat, CommitArchive
<1>4. RunClosure => UNCHANGED reads \/ \E r \in Reads : Ask(r)
  BY <1>0 DEF RunClosure, RunSelect, RunOlder, RunEcho, RunAck, RunRefresh, RunMerge, RunChat,
              RunPin, RunReload
<1>5. QED
  BY <1>2, <1>3, <1>4 DEF Next

LEMMA AskIs ==
  ASSUME ReadTypes, NEW r \in Reads, Ask(r)
  PROVE  ReadTypes' /\ BagToSet(reads') = BagToSet(reads) \cup {r}
<1>1. {r} \subseteq Reads /\ reads' = reads (+) SetToBag({r})
  BY DEF Ask
<1>2. IsBag(reads (+) SetToBag({r}), Reads)
      /\ BagToSet(reads (+) SetToBag({r})) = BagToSet(reads) \cup {r}
  BY <1>1, BagAdd DEF ReadTypes
<1>3. IsBag(reads', Reads)
  BY <1>1, <1>2
<1>4. ReadTypes'
  BY <1>3 DEF ReadTypes
<1>5. QED
  BY <1>1, <1>2, <1>4

LEMMA TakeIs ==
  ASSUME ReadTypes, NEW r \in BagToSet(reads), reads' = reads (-) SetToBag({r})
  PROVE  /\ ReadTypes' /\ r \in Reads
         /\ BagToSet(reads') \subseteq BagToSet(reads)
         /\ BagToSet(reads) \ {r} \subseteq BagToSet(reads')
<1>1. /\ IsBag(reads (-) SetToBag({r}), Reads)
      /\ BagToSet(reads (-) SetToBag({r})) \subseteq BagToSet(reads)
      /\ BagToSet(reads) \ {r} \subseteq BagToSet(reads (-) SetToBag({r}))
  BY BagTake DEF ReadTypes
<1>2. r \in Reads
  BY DEF ReadTypes, IsBag, BagToSet
<1>3. ReadTypes'
  BY <1>1 DEF ReadTypes
<1>4. QED
  BY <1>1, <1>2, <1>3

LEMMA ReadsStep ==
  ASSUME ViewConstantsOK, Core, Next PROVE ReadTypes'
<1>0. ReadTypes /\ Typed /\ IsInjective(ids)
  BY DEF Core, Typed, ParallelLists
<1>1. CASE UNCHANGED reads
  BY <1>0, <1>1 DEF ReadTypes
<1>2. QED
  BY <1>0, <1>1, ReadsFrame, AskIs, TakeIs

(* What is posted is a closure, made of what its worker read.              *)
AckOf(s)   == [kind |-> "ack", grp |-> s.grp, msg |-> s.msg, snap |-> store[s.grp]]
EchoOf     == [kind |-> "echo", grp |-> watch.grp, at |-> watch.at, msg |-> Head(feed)]
WindowOf(r) == [kind |-> r.kind, grp |-> r.grp, at |-> r.at, snap |-> store[r.grp]]
ListOf(r)  == LET list == RailOrder(visible) IN
              [kind |-> r.kind, list |-> list,
               first |-> IF list = <<>> THEN <<>> ELSE store[list[Default(list)]]]

Origin(c) ==
  \/ \E s \in sends : Resolve(s) /\ c = AckOf(s)
  \/ WatcherCallback /\ feed # <<>> /\ c = EchoOf
  \/ \E r \in BagToSet(reads) : r \in WindowRead /\ ReadWindow(r) /\ c = WindowOf(r)
  \/ \E r \in BagToSet(reads) : r.kind \in Lists /\ ReadList(r) /\ c = ListOf(r)
  \/ c.kind \in {"chat", "pin", "reload"} /\ UNCHANGED store /\ UNCHANGED sends

Sound(c) == c \in Closure /\ Origin(c) /\ (c.kind \in Lists => IsInjective(c.list))

LEMMA PostIs ==
  ASSUME QueueTypes, NEW c \in Closure, Post(c)
  PROVE  QueueTypes' /\ Queue' = Queue \cup {c}
<1>1. uiq \in Seq(Closure) /\ uiq' = Append(uiq, c)
  BY DEF QueueTypes, Post
<1>2. Append(uiq, c) \in Seq(Closure) /\ ToSet(Append(uiq, c)) = ToSet(uiq) \cup {c}
  BY <1>1, QueueAdds
<1>3. QED
  BY <1>1, <1>2 DEF QueueTypes, Queue

LEMMA RunIs ==
  ASSUME QueueTypes, NEW k, Run(k)
  PROVE  /\ QueueTypes' /\ Queue = Queue' \cup {Head(uiq)} /\ uiq # <<>>
         /\ Head(uiq) \in Closure /\ Head(uiq) \in Queue /\ Head(uiq).kind = k
<1>1. uiq \in Seq(Closure) /\ uiq' = Tail(uiq) /\ uiq # <<>> /\ Head(uiq).kind = k
  BY DEF QueueTypes, Run
<1>2. /\ Tail(uiq) \in Seq(Closure) /\ ToSet(uiq) = ToSet(Tail(uiq)) \cup {Head(uiq)}
      /\ Head(uiq) \in Closure
  BY <1>1, QueueDrops
<1>3. QED
  BY <1>1, <1>2 DEF QueueTypes, Queue

LEMMA QueueFrame ==
  ASSUME Next, Core, ViewConstantsOK
  PROVE  \/ UNCHANGED uiq
         \/ \E c : Sound(c) /\ Post(c)
         \/ \E k : Run(k)
<1>0. /\ visible \in Seq(Chats) /\ store \in [Chats -> Seq(Msgs)] /\ IsInjective(visible)
      /\ sends \subseteq [msg : Own, grp : Chats] /\ feed \in Seq(Msgs)
      /\ ReadTypes
  BY DEF Core, Typed, MarmotTypes, WatchTypes, ListsOnce
<1>1. User => UNCHANGED uiq
  BY DEF User, Select, TogglePin, Send, RequestOlder, Archive
<1>2. RunClosure => \E k : Run(k)
  BY DEF RunClosure, RunSelect, RunOlder, RunEcho, RunAck, RunRefresh, RunMerge, RunChat,
         RunPin, RunReload
<1>3. ASSUME NEW s \in sends, Resolve(s) PROVE \E c : Sound(c) /\ Post(c)
  <2> DEFINE c == [kind |-> "ack", grp |-> s.grp, msg |-> s.msg, snap |-> store[s.grp]]
  <2>1. s.msg \in Own /\ s.grp \in Chats /\ store[s.grp] \in Seq(Msgs)
    BY <1>0
  <2>2. c \in Closure /\ c.kind \notin Lists
    BY <2>1 DEF Closure, Lists
  <2>3. QED
    BY <1>3, <2>2 DEF Resolve, Sound, Origin, AckOf
<1>4. ASSUME WatcherCallback PROVE \E c : Sound(c) /\ Post(c)
  <2> DEFINE c == [kind |-> "echo", grp |-> watch.grp, at |-> watch.at, msg |-> Head(feed)]
  <2>1. feed # <<>>
    BY <1>4 DEF WatcherCallback
  <2>2. Head(feed) \in Msgs
    BY <1>0, <2>1
  <2>3. watch.grp \in Chats /\ watch.at \in Positions
    BY <2>1 DEF Core, Typed, WatchTypes, FeedWatched
  <2>4. c \in Closure /\ c.kind \notin Lists
    BY <2>2, <2>3 DEF Closure, Lists
  <2>5. QED
    BY <1>4, <2>1, <2>4 DEF WatcherCallback, Sound, Origin, EchoOf
<1>5. ASSUME NEW r \in BagToSet(reads), ReadWindow(r) PROVE \E c : Sound(c) /\ Post(c)
  <2> DEFINE c == [kind |-> r.kind, grp |-> r.grp, at |-> r.at, snap |-> store[r.grp]]
  <2>1. r \in Reads /\ r \in WindowRead
    BY <1>5 DEF ReadWindow, Core, Typed, ReadTypes, IsBag, BagToSet
  <2>2. r.grp \in Chats /\ r.at \in Positions /\ r.kind \in Rebuilds
    BY <2>1, ReadFields
  <2>3. store[r.grp] \in Seq(Msgs)
    BY <1>0, <2>2
  <2>4. c \in Closure /\ c.kind \notin Lists
    BY <2>2, <2>3 DEF Closure, Lists, Rebuilds
  <2>5. QED
    BY <1>5, <2>1, <2>4 DEF ReadWindow, Sound, Origin, WindowOf
<1>6. ASSUME NEW r \in BagToSet(reads), ReadList(r) PROVE \E c : Sound(c) /\ Post(c)
  <2> DEFINE list == RailOrder(visible)
             first == IF list = <<>> THEN <<>> ELSE store[list[Default(list)]]
             c == [kind |-> r.kind, list |-> list, first |-> first]
  <2>1. r \in Reads /\ r \in ListRead
    BY <1>6 DEF ReadList, Core, Typed, ReadTypes, IsBag, BagToSet
  <2>2. r.kind \in Lists \cup {"pin"}
    BY <2>1, ReadFields
  <2>3. CASE r.kind = "pin"
    <3>1. [kind |-> "pin"] \in Closure /\ [kind |-> "pin"].kind \notin Lists
      BY DEF Closure, Lists
    <3>2. QED
      BY <1>6, <2>3, <3>1 DEF ReadList, Sound, Origin, backend
  <2>4. CASE r.kind # "pin"
    <3>1. list \in Seq(Chats) /\ IsInjective(list)
      BY <1>0, RailOrderIs
    <3>2. list # <<>> => list[Default(list)] \in Chats
      <4> HIDE DEF list
      <4>1. list # <<>> => Default(list) \in DOMAIN list
        BY <3>1, DefaultIn
      <4>2. QED
        BY <3>1, <4>1
    <3> HIDE DEF list
    <3>3. first \in Seq(Msgs)
      BY <1>0, <3>2
    <3> HIDE DEF first
    <3>4. c \in Closure /\ c.list = list
      BY <2>2, <2>4, <3>1, <3>3 DEF Closure, Lists
    <3>5. Post(c)
      BY <1>6, <2>4 DEF ReadList, list, first
    <3>6. c = ListOf(r)
      BY DEF ListOf, list, first
    <3>7. c.kind = r.kind /\ r.kind \in Lists
      BY <2>2, <2>4
    <3>8. Origin(c)
      <4> HIDE DEF c
      <4>1. QED
        BY <1>6, <3>6, <3>7 DEF Origin
    <3>9. QED
      BY <3>1, <3>4, <3>5, <3>8 DEF Sound
  <2>5. QED
    BY <2>3, <2>4
<1>7. ASSUME NEW g \in Chats, NewChat(g) PROVE \E c : Sound(c) /\ Post(c)
  <2>1. [kind |-> "chat", grp |-> g] \in Closure /\ [kind |-> "chat", grp |-> g].kind \notin Lists
    BY DEF Closure, Lists
  <2>2. QED
    BY <1>7, <2>1 DEF NewChat, Sound, Origin
<1>8. ASSUME NEW g \in Chats, CommitArchive(g) PROVE UNCHANGED uiq \/ \E c : Sound(c) /\ Post(c)
  <2>1. [kind |-> "reload"] \in Closure /\ [kind |-> "reload"].kind \notin Lists
    BY DEF Closure, Lists
  <2>2. QED
    BY <1>8, <2>1 DEF CommitArchive, Sound, Origin
<1>9. Worker => \/ UNCHANGED uiq
                \/ \E c : Sound(c) /\ Post(c)
  BY <1>3, <1>4, <1>5, <1>6, <1>7, <1>8
     DEF Worker, Receive, Publish, Subscribe, ReportAgain, RequestMerge, RequestRefresh
<1>10. QED
  BY <1>1, <1>2, <1>9 DEF Next

LEMMA QueueStep ==
  ASSUME ViewConstantsOK, Core, Next
  PROVE  QueueTypes' /\ \A c \in Queue' : c.kind \in Lists => IsInjective(c.list)
<1>0. QueueTypes /\ \A c \in Queue : c.kind \in Lists => IsInjective(c.list)
  BY DEF Core, Typed, ListsOnce
<1>1. CASE UNCHANGED uiq
  BY <1>0, <1>1 DEF QueueTypes, Queue
<1>2. ASSUME NEW c, Sound(c), Post(c)
      PROVE  QueueTypes' /\ \A d \in Queue' : d.kind \in Lists => IsInjective(d.list)
  <2>1. c \in Closure
    BY <1>2 DEF Sound
  <2>2. QueueTypes' /\ Queue' = Queue \cup {c}
    BY <1>0, <1>2, <2>1, PostIs
  <2>3. QED
    BY <1>0, <1>2, <2>2 DEF Sound
<1>3. ASSUME NEW k, Run(k)
      PROVE  QueueTypes' /\ \A c \in Queue' : c.kind \in Lists => IsInjective(c.list)
  <2>1. QueueTypes' /\ Queue = Queue' \cup {Head(uiq)}
    BY <1>0, <1>3, RunIs
  <2>2. QED
    BY <1>0, <2>1
<1>4. QED
  BY <1>1, <1>2, <1>3, QueueFrame

(* The watcher.                                                            *)
LEMMA WatchFrame ==
  ASSUME Next
  PROVE  \/ UNCHANGED watcher
         \/ \E m \in Foreign : Receive(m)
         \/ \E s \in sends : Publish(s)
         \/ Subscribe \/ ReportAgain \/ WatcherCallback
         \/ RunSelect
<1>1. User => UNCHANGED watcher
  BY DEF User, Select, TogglePin, Send, RequestOlder, Archive
<1>2. Worker => \/ UNCHANGED watcher
                \/ \E m \in Foreign : Receive(m)
                \/ \E s \in sends : Publish(s)
                \/ Subscribe \/ ReportAgain \/ WatcherCallback
  BY DEF Worker, Resolve, ReadWindow, ReadList, NewChat, CommitArchive, RequestMerge,
         RequestRefresh
<1>3. RunClosure => UNCHANGED watcher \/ RunSelect
  BY DEF RunClosure, RunOlder, RunEcho, RunAck, RunRefresh, RunMerge, RunChat, RunPin, RunReload
<1>4. QED
  BY <1>1, <1>2, <1>3 DEF Next

LEMMA WatchIs ==
  ASSUME ViewConstantsOK, NEW g \in Chats, NEW k \in Positions, NEW b \in BOOLEAN
  PROVE  LET w == [grp |-> g, at |-> k, live |-> b] IN
         w \in [grp : Chats, at : Positions, live : BOOLEAN] /\ w # NoWatch
<1>1. Cardinality(Chats) \in Nat
  BY FS_CardinalityType DEF ViewConstantsOK
<1>2. k # 0
  BY <1>1 DEF Positions
<1>3. QED
  BY <1>2 DEF NoWatch

LEMMA WatchFields ==
  ASSUME WatchTypes, watch # NoWatch
  PROVE  /\ watch.grp \in Chats /\ watch.at \in Positions /\ watch.live \in BOOLEAN
         /\ watch = [grp |-> watch.grp, at |-> watch.at, live |-> watch.live]
BY DEF WatchTypes

LEMMA HeadIs ==
  ASSUME QueueTypes, NEW k, Run(k)
  PROVE  LET c == Head(uiq) IN
         /\ c \in Closure /\ c.kind = k /\ c \in Queue
         /\ k \in Rebuilds => c.grp \in Chats /\ c.at \in Positions /\ c.snap \in Seq(Msgs)
         /\ k = "echo" => c.grp \in Chats /\ c.at \in Positions /\ c.msg \in Msgs
         /\ k = "ack" => c.grp \in Chats /\ c.msg \in Own /\ c.snap \in Seq(Msgs)
         /\ k \in Lists => c.list \in Seq(Chats) /\ c.first \in Seq(Msgs)
         /\ k = "chat" => c.grp \in Chats
<1> DEFINE c == Head(uiq)
<1>1. c \in Closure /\ c.kind = k /\ c \in Queue
  BY RunIs
<1> HIDE DEF c
<1>2. /\ k \in Rebuilds => c.grp \in Chats /\ c.at \in Positions /\ c.snap \in Seq(Msgs)
      /\ k = "echo" => c.grp \in Chats /\ c.at \in Positions /\ c.msg \in Msgs
      /\ k = "ack" => c.grp \in Chats /\ c.msg \in Own /\ c.snap \in Seq(Msgs)
      /\ k \in Lists => c.list \in Seq(Chats) /\ c.first \in Seq(Msgs)
      /\ k = "chat" => c.grp \in Chats
  BY <1>1, ClosureFields
<1>3. QED
  BY <1>1, <1>2 DEF c

LEMMA WatchStep ==
  ASSUME ViewConstantsOK, Core, Next PROVE WatchTypes' /\ FeedWatched'
<1>0. /\ WatchTypes /\ FeedWatched /\ MarmotTypes /\ QueueTypes /\ missed \subseteq Msgs
      /\ feed \in Seq(Msgs)
  BY DEF Core, Typed, NoteTypes, WatchTypes
<1>1. CASE UNCHANGED watcher
  BY <1>0, <1>1 DEF WatchTypes, FeedWatched, watcher
<1>2. ASSUME NEW m \in Msgs, NEW g \in Chats, Stored(m, g), UNCHANGED watch
      PROVE  WatchTypes' /\ FeedWatched'
  <2>1. feed' \in Seq(Msgs)
    BY <1>0, <1>2, StoredTyped
  <2>2. feed' = feed \/ (watch.live /\ feed' = Append(feed, m))
    BY <1>2 DEF Stored
  <2>3. watch.live => watch # NoWatch
    BY DEF NoWatch
  <2>4. QED
    BY <1>0, <1>2, <2>1, <2>2, <2>3 DEF WatchTypes, FeedWatched
<1>3. ASSUME NEW m \in Foreign, Receive(m) PROVE WatchTypes' /\ FeedWatched'
  <2>1. m \in Msgs /\ ChatOf[m] \in Chats
    BY DEF ViewConstantsOK, Msgs
  <2>2. QED
    BY <1>2, <1>3, <2>1 DEF Receive
<1>4. ASSUME NEW s \in sends, Publish(s) PROVE WatchTypes' /\ FeedWatched'
  <2>1. s.msg \in Msgs /\ s.grp \in Chats
    BY <1>0 DEF MarmotTypes, Msgs
  <2>2. QED
    BY <1>2, <1>4, <2>1 DEF Publish
<1>5. CASE Subscribe
  <2>1. watch # NoWatch /\ watch' = [watch EXCEPT !.live = TRUE] /\ feed' = feed
    BY <1>5 DEF Subscribe
  <2>2. /\ watch.grp \in Chats /\ watch.at \in Positions
        /\ watch = [grp |-> watch.grp, at |-> watch.at, live |-> watch.live]
    BY <1>0, <2>1, WatchFields
  <2>3. watch' = [grp |-> watch.grp, at |-> watch.at, live |-> TRUE]
    BY <2>1, <2>2
  <2>4. watch' \in [grp : Chats, at : Positions, live : BOOLEAN] /\ watch' # NoWatch
    BY <2>2, <2>3, WatchIs
  <2>5. QED
    BY <1>0, <2>1, <2>4 DEF WatchTypes, FeedWatched, NoWatch
<1>6. CASE ReportAgain
  <2>1. watch.live /\ watch' = watch
    BY <1>6 DEF ReportAgain
  <2>2. watch # NoWatch
    BY <2>1 DEF NoWatch
  <2>3. store[watch.grp] \in Seq(Msgs)
    BY <1>0, <2>2, WatchFields DEF MarmotTypes
  <2>4. ToSet(store[watch.grp]) \subseteq Msgs
    BY <2>3, ElemsIn
  <2>5. \E m \in Msgs : feed' = Append(feed, m)
    BY <1>6, <2>4 DEF ReportAgain
  <2>6. feed' \in Seq(Msgs)
    BY <1>0, <2>5
  <2>7. QED
    BY <1>0, <2>1, <2>2, <2>6 DEF WatchTypes, FeedWatched, NoWatch
<1>7. CASE WatcherCallback
  <2>1. feed # <<>> /\ feed' = Tail(feed) /\ watch' = watch
    BY <1>7 DEF WatcherCallback
  <2>2. feed' \in Seq(Msgs)
    BY <1>0, <2>1
  <2>3. QED
    BY <1>0, <2>1, <2>2 DEF WatchTypes, FeedWatched, NoWatch
<1>8. CASE RunSelect
  <2> DEFINE c == Head(uiq)
  <2>1. Run("select") /\ Attach(c)
    BY <1>8 DEF RunSelect
  <2>2. c.grp \in Chats /\ c.at \in Positions
    BY <1>0, <2>1, HeadIs DEF Rebuilds
  <2> HIDE DEF c
  <2>3. CASE open = c.at
    <3>1. watch' = [grp |-> c.grp, at |-> c.at, live |-> FALSE] /\ feed' = <<>>
      BY <2>1, <2>3 DEF Attach
    <3>2. watch' \in [grp : Chats, at : Positions, live : BOOLEAN]
      BY <2>2, <3>1, WatchIs
    <3>3. QED
      BY <3>1, <3>2 DEF WatchTypes, FeedWatched
  <2>4. CASE open # c.at
    BY <1>0, <2>1, <2>4 DEF Attach, WatchTypes, FeedWatched, watcher
  <2>5. QED
    BY <2>3, <2>4
<1>9. QED
  BY <1>1, <1>3, <1>4, <1>5, <1>6, <1>7, <1>8, WatchFrame

(* The overlay and the pinned set.                                         *)
LEMMA OverlayFrame ==
  ASSUME Next
  PROVE  \/ UNCHANGED <<pinned, overlay>>
         \/ \E k \in DOMAIN ids : TogglePin(k)
         \/ \E m \in Own : Send(m)
         \/ RunAck
<1>1. User => \/ UNCHANGED <<pinned, overlay>>
              \/ \E k \in DOMAIN ids : TogglePin(k)
              \/ \E m \in Own : Send(m)
  BY DEF User, Select, RequestOlder, Archive
<1>2. Worker => UNCHANGED <<pinned, overlay>>
  BY DEF Worker, Receive, Publish, Resolve, Subscribe, ReportAgain, WatcherCallback, ReadWindow,
         ReadList, NewChat, CommitArchive, RequestMerge, RequestRefresh
<1>3. RunClosure => UNCHANGED <<pinned, overlay>> \/ RunAck
  BY DEF RunClosure, RunSelect, RunOlder, RunEcho, RunRefresh, RunMerge, RunChat, RunPin, RunReload
<1>4. QED
  BY <1>1, <1>2, <1>3 DEF Next

LEMMA OverlayStep ==
  ASSUME Core, Next PROVE OverlayTypes'
<1>0. /\ pinned \subseteq Chats /\ overlay \in [Chats -> Seq(Own)] /\ QueueTypes
      /\ ids \in Seq(Chats)
  BY DEF Core, Typed, OverlayTypes, ListTypes
<1>1. CASE UNCHANGED <<pinned, overlay>>
  BY <1>0, <1>1 DEF OverlayTypes
<1>2. ASSUME NEW k \in DOMAIN ids, TogglePin(k) PROVE OverlayTypes'
  <2>1. ids[k] \in Chats
    BY <1>0
  <2>2. QED
    BY <1>0, <1>2, <2>1 DEF TogglePin, OverlayTypes
<1>3. ASSUME NEW m \in Own, Send(m) PROVE OverlayTypes'
  <2>1. ids[open] \in Chats
    BY <1>0, <1>3 DEF Send, Opened
  <2>2. Append(overlay[ids[open]], m) \in Seq(Own)
    BY <1>0, <2>1
  <2>3. QED
    BY <1>0, <1>3, <2>1, <2>2 DEF Send, OverlayTypes
<1>4. CASE RunAck
  <2> DEFINE c == Head(uiq)
  <2>1. Run("ack") /\ pinned' = pinned
    BY <1>4 DEF RunAck
  <2>2. c.grp \in Chats /\ c.msg \in Own
    BY <1>0, <2>1, HeadIs
  <2>3. overlay' = overlay \/ Forget(c.msg, c.grp)
    BY <1>4 DEF RunAck
  <2> HIDE DEF c
  <2>4. Sublist(overlay[c.grp], Own \ {c.msg}) \in Seq(Own)
    <3>1. overlay[c.grp] \in Seq(Own)
      BY <1>0, <2>2
    <3>2. QED
      BY <3>1, SublistType
  <2>5. QED
    BY <1>0, <2>1, <2>2, <2>3, <2>4 DEF Forget, OverlayTypes
<1>5. QED
  BY <1>1, <1>2, <1>3, <1>4, OverlayFrame

(* The bounds and the history.                                             *)
LEMMA UsedStep ==
  ASSUME Core, Next PROVE used' \in [Limited -> Nat]
<1>0. used \in [Limited -> Nat]
  BY DEF Core, Typed, NoteTypes
<1>1. ASSUME NEW o \in Limited, Spend(o) PROVE used' \in [Limited -> Nat]
  BY <1>0, <1>1 DEF Spend
<1>2. "select" \in Limited /\ "older" \in Limited /\ "pin" \in Limited /\ "archive" \in Limited
      /\ "merge" \in Limited /\ "refresh" \in Limited /\ "again" \in Limited
      /\ "diskError" \in Limited
  BY DEF Limited
<1>3. User => UNCHANGED used \/ \E o \in Limited : Spend(o)
  BY <1>2 DEF User, Select, RequestOlder, Archive, Send, TogglePin
<1>4. Worker => UNCHANGED used \/ \E o \in Limited : Spend(o)
  BY <1>2 DEF Worker, Receive, Publish, Resolve, Subscribe, ReportAgain, WatcherCallback,
         ReadWindow, ReadList, NewChat, CommitArchive, RequestMerge, RequestRefresh
<1>5. RunClosure => UNCHANGED used
  BY DEF RunClosure, RunSelect, RunOlder, RunEcho, RunAck, RunRefresh, RunMerge, RunChat, RunPin,
         RunReload
<1>6. QED
  BY <1>0, <1>1, <1>3, <1>4, <1>5 DEF Next

LEMMA MovedStep ==
  ASSUME Core, Next PROVE moved' \in BOOLEAN
<1>0. moved \in BOOLEAN
  BY DEF Core, Typed, NoteTypes
<1>1. User => moved' \in BOOLEAN
  BY <1>0 DEF User, Select, RequestOlder, Archive, Send, TogglePin, history
<1>2. Worker => UNCHANGED moved
  BY DEF Worker, Receive, Publish, Resolve, Subscribe, ReportAgain, WatcherCallback,
         ReadWindow, ReadList, NewChat, CommitArchive, RequestMerge, RequestRefresh, history
<1>3. RunPin \/ RunRefresh => moved' \in BOOLEAN
  BY DEF RunPin, NoteOrder, RunRefresh
<1>4. RunClosure => UNCHANGED moved \/ RunPin \/ RunRefresh
  BY DEF RunClosure, RunSelect, RunOlder, RunEcho, RunAck, RunMerge, RunChat, RunReload, history
<1>5. QED
  BY <1>0, <1>1, <1>2, <1>3, <1>4 DEF Next

LEMMA NoteFrame ==
  ASSUME Next
  PROVE  \/ UNCHANGED <<missed, blanked, early>>
         \/ \E m \in Foreign : Receive(m)
         \/ \E s \in sends : Publish(s)
         \/ RunSelect \/ RunOlder \/ RunEcho \/ RunAck \/ RunRefresh
<1>1. User => UNCHANGED <<missed, blanked, early>>
  BY DEF User, Select, RequestOlder, Archive, Send, TogglePin, history
<1>2. Worker => \/ UNCHANGED <<missed, blanked, early>>
                \/ \E m \in Foreign : Receive(m)
                \/ \E s \in sends : Publish(s)
  BY DEF Worker, Resolve, Subscribe, ReportAgain, WatcherCallback, ReadWindow, ReadList, NewChat,
         CommitArchive, RequestMerge, RequestRefresh, history
<1>3. RunClosure => \/ UNCHANGED <<missed, blanked, early>>
                    \/ RunSelect \/ RunOlder \/ RunEcho \/ RunAck \/ RunRefresh
  BY DEF RunClosure, RunMerge, RunChat, RunPin, RunReload, history
<1>4. QED
  BY <1>1, <1>2, <1>3 DEF Next

LEMMA NoteStep ==
  ASSUME ViewConstantsOK, Core, Next PROVE NoteTypes'
<1> DEFINE Noted == missed \subseteq Msgs /\ blanked \subseteq Chats /\ early \subseteq Msgs
<1>0. /\ missed \subseteq Msgs /\ blanked \subseteq Chats /\ early \subseteq Msgs
      /\ WatchTypes /\ MarmotTypes /\ QueueTypes
      /\ \A g \in Chats : ToSet(store[g]) \subseteq Msgs
  <2>1. \A g \in Chats : store[g] \in Seq(Msgs)
    BY DEF Core, Typed, MarmotTypes
  <2>2. \A g \in Chats : ToSet(store[g]) \subseteq Msgs
    BY <2>1, ElemsIn
  <2>3. QED
    BY <2>2 DEF Core, Typed, NoteTypes
<1>1. ASSUME NEW g \in Chats, NEW snap \in Seq(Msgs), NoteRebuild(g, snap) PROVE Noted'
  <2>1. ToSet(snap) \subseteq Msgs
    BY ElemsIn
  <2>2. QED
    BY <1>0, <1>1, <2>1 DEF NoteRebuild, Newer
<1>2. ASSUME UNCHANGED <<missed, blanked, early>> PROVE Noted'
  BY <1>0, <1>2
<1>3. ASSUME NEW m \in Foreign, Receive(m) PROVE Noted'
  <2>1. m \in Msgs /\ ChatOf[m] \in Chats
    BY DEF ViewConstantsOK, Msgs
  <2>2. missed' \subseteq Msgs
    BY <1>0, <1>3, <2>1, StoredTyped DEF Receive
  <2>3. QED
    BY <1>0, <1>3, <2>2 DEF Receive
<1>4. ASSUME NEW s \in sends, Publish(s) PROVE Noted'
  <2>1. s.msg \in Msgs /\ s.grp \in Chats
    BY <1>0 DEF MarmotTypes, Msgs
  <2>2. missed' \subseteq Msgs
    BY <1>0, <1>4, <2>1, StoredTyped DEF Publish
  <2>3. QED
    BY <1>0, <1>4, <2>2 DEF Publish
<1>5. ASSUME RunSelect PROVE Noted'
  <2>1. Run("select") /\ NoteRebuild(Head(uiq).grp, Head(uiq).snap)
    BY <1>5 DEF RunSelect
  <2>2. Head(uiq).grp \in Chats /\ Head(uiq).snap \in Seq(Msgs)
    BY <1>0, <2>1, HeadIs DEF Rebuilds
  <2>3. QED
    BY <1>1, <2>1, <2>2
<1>6. ASSUME RunOlder PROVE Noted'
  <2>1. Run("older") /\ NoteRebuild(Head(uiq).grp, Head(uiq).snap)
    BY <1>6 DEF RunOlder
  <2>2. Head(uiq).grp \in Chats /\ Head(uiq).snap \in Seq(Msgs)
    BY <1>0, <2>1, HeadIs DEF Rebuilds
  <2>3. QED
    BY <1>1, <2>1, <2>2
<1>7. ASSUME RunEcho PROVE Noted'
  <2>1. Run("echo") /\ UNCHANGED <<missed, blanked>> /\ early' \subseteq early \cup {Head(uiq).msg}
    BY <1>7 DEF RunEcho
  <2>2. Head(uiq).msg \in Msgs
    BY <1>0, <2>1, HeadIs
  <2>3. QED
    BY <1>0, <2>1, <2>2
<1>8. ASSUME RunAck PROVE Noted'
  <2>1. Run("ack") /\ \/ UNCHANGED <<missed, blanked, early>>
                      \/ NoteRebuild(Head(uiq).grp, Head(uiq).snap)
    BY <1>8 DEF RunAck
  <2>2. Head(uiq).grp \in Chats /\ Head(uiq).snap \in Seq(Msgs)
    BY <1>0, <2>1, HeadIs
  <2>3. QED
    BY <1>1, <1>2, <2>1, <2>2
<1>9. ASSUME RunRefresh PROVE Noted'
  <2>1. blanked' \subseteq Chats /\ early' = early
    BY <1>9 DEF RunRefresh
  <2>2. \A m \in missed' : \E g \in Chats : m \in ToSet(store[g])
    BY <1>9 DEF RunRefresh
  <2>3. QED
    BY <1>0, <2>1, <2>2
<1>10. Noted'
  BY <1>2, <1>3, <1>4, <1>5, <1>6, <1>7, <1>8, <1>9, NoteFrame
<1>11. QED
  BY <1>10, UsedStep, MovedStep DEF NoteTypes

(* The lists of the window.                                                *)
LEMMA ListsFrame ==
  ASSUME Next
  PROVE  \/ UNCHANGED lists
         \/ \E k \in DOMAIN ids : Select(k)
         \/ \E m \in Own : Send(m)
         \/ Archive
         \/ RunSelect \/ RunOlder \/ RunEcho \/ RunAck
         \/ RunRefresh \/ RunMerge \/ RunChat \/ RunPin
<1>1. User => \/ UNCHANGED lists
              \/ \E k \in DOMAIN ids : Select(k)
              \/ \E m \in Own : Send(m)
              \/ Archive
  BY DEF User, RequestOlder, TogglePin
<1>2. Worker => UNCHANGED lists
  BY DEF Worker, Receive, Publish, Resolve, Subscribe, ReportAgain, WatcherCallback, ReadWindow,
         ReadList, NewChat, CommitArchive, RequestMerge, RequestRefresh
<1>3. RunClosure => \/ UNCHANGED lists
                    \/ RunSelect \/ RunOlder \/ RunEcho \/ RunAck
                    \/ RunRefresh \/ RunMerge \/ RunChat \/ RunPin
  BY DEF RunClosure, RunReload
<1>4. QED
  BY <1>1, <1>2, <1>3 DEF Next

(* One position's rows are replaced.                                       *)
LEMMA ReplaceIs ==
  ASSUME rows \in Seq(Seq(Row)), NEW k, NEW list \in Seq(Row), Replace(k, list)
  PROVE  /\ rows' \in Seq(Seq(Row)) /\ Len(rows') = Len(rows) /\ DOMAIN rows' = DOMAIN rows
         /\ \A j \in DOMAIN rows : rows'[j] = IF j = k THEN list ELSE rows[j]
<1>1. DOMAIN rows = 1 .. Len(rows) /\ Len(rows) \in Nat /\ \A j \in DOMAIN rows : rows[j] \in Seq(Row)
  OBVIOUS
<1>2. CASE k \in DOMAIN rows
  <2>1. rows' = [rows EXCEPT ![k] = list]
    BY <1>2 DEF Replace
  <2>2. QED
    BY <1>1, <1>2, <2>1
<1>3. CASE k \notin DOMAIN rows
  BY <1>1, <1>3 DEF Replace
<1>4. QED
  BY <1>2, <1>3

LEMMA EchoIs ==
  ASSUME ListTypes, NEW k \in DOMAIN rows, NEW r \in Row,
         rows' = IF Has(rows[k], r) THEN rows ELSE [rows EXCEPT ![k] = Append(@, r)]
  PROVE  /\ rows[k] \in Seq(Row) /\ (Has(rows[k], r) <=> r \in ToSet(rows[k]))
         /\ Replace(k, IF r \in ToSet(rows[k]) THEN rows[k] ELSE Append(rows[k], r))
<1>1. rows[k] \in Seq(Row)
  BY DEF ListTypes
<1>2. Has(rows[k], r) <=> r \in ToSet(rows[k])
  BY <1>1, ContainsIs DEF Has
<1>3. CASE r \in ToSet(rows[k])
  <2>1. rows' = rows /\ rows \in Seq(Seq(Row))
    BY <1>2, <1>3 DEF ListTypes
  <2>2. [rows EXCEPT ![k] = rows[k]] = rows
    BY <2>1
  <2>3. QED
    BY <1>1, <1>2, <1>3, <2>1, <2>2 DEF Replace
<1>4. CASE r \notin ToSet(rows[k])
  BY <1>1, <1>2, <1>4 DEF Replace
<1>5. QED
  BY <1>3, <1>4

(* What an acknowledgement does, with the position of its chat.            *)
AckRow(c) == PendingRow(c.msg, c.grp)
Swapped(list, c) == [list EXCEPT ![Spot(list, AckRow(c))] = Record(c.msg, c.grp)]

LEMMA AckIs ==
  ASSUME Typed, ParallelLists, RunAck
  PROVE  LET c == Head(uiq)  at == Position(c.grp) IN
         /\ Run("ack") /\ c.grp \in Chats /\ c.msg \in Own /\ c.msg \in Msgs /\ c.snap \in Seq(Msgs)
         /\ \/ c.grp \notin ToSet(ids) /\ UNCHANGED <<overlay, rows, missed, blanked, early>>
            \/ /\ at \in DOMAIN ids /\ at \in DOMAIN rows /\ ids[at] = c.grp
               /\ rows[at] \in Seq(Row)
               /\ Forget(c.msg, c.grp)
               /\ overlay' \in [Chats -> Seq(Own)]
               /\ \/ /\ AckRow(c) \in ToSet(rows[at])
                     /\ Spot(rows[at], AckRow(c)) \in DOMAIN rows[at]
                     /\ rows[at][Spot(rows[at], AckRow(c))] = AckRow(c)
                     /\ Swapped(rows[at], c) \in Seq(Row)
                     /\ DOMAIN Swapped(rows[at], c) = DOMAIN rows[at]
                     /\ Len(Swapped(rows[at], c)) = Len(rows[at])
                     /\ Replace(at, Swapped(rows[at], c))
                     /\ UNCHANGED <<missed, blanked, early>>
                  \/ /\ AckRow(c) \notin ToSet(rows[at])
                     /\ Rebuilt(c.grp, c.snap) \in Seq(Row)
                     /\ Replace(at, Rebuilt(c.grp, c.snap))
                     /\ NoteRebuild(c.grp, c.snap)
<1> DEFINE c == Head(uiq)
           at == Position(c.grp)
<1>1. Run("ack") /\ c.grp \in Chats /\ c.msg \in Own /\ c.snap \in Seq(Msgs)
  <2>1. Run("ack") /\ QueueTypes
    BY DEF RunAck, Typed
  <2>2. QED
    BY <2>1, HeadIs
<1>2. c.msg \in Msgs
  BY <1>1 DEF Msgs
<1>3. ids \in Seq(Chats) /\ rows \in Seq(Seq(Row)) /\ DOMAIN rows = DOMAIN ids
  BY DEF Typed, ListTypes, ParallelLists
<1>4. Listed(c.grp) <=> c.grp \in ToSet(ids)
  BY <1>3, ContainsIs DEF Listed
<1>5. ASSUME c.grp \in ToSet(ids)
      PROVE  at \in DOMAIN ids /\ ids[at] = c.grp /\ at \in DOMAIN rows /\ rows[at] \in Seq(Row)
  <2>1. at = Spot(ids, c.grp)
    BY PositionIs
  <2> HIDE DEF c, at
  <2>2. at \in DOMAIN ids /\ ids[at] = c.grp
    BY <1>3, <1>5, <2>1, SpotFinds
  <2>3. QED
    BY <1>3, <2>2
<1>6. ASSUME NEW list \in Seq(Row), AckRow(c) \in ToSet(list)
      PROVE  /\ Spot(list, AckRow(c)) \in DOMAIN list /\ list[Spot(list, AckRow(c))] = AckRow(c)
             /\ Swapped(list, c) \in Seq(Row) /\ DOMAIN Swapped(list, c) = DOMAIN list
             /\ Len(Swapped(list, c)) = Len(list)
             /\ Swapped(list, c) = ReplaceAt(list, SelectInSeq(list, LAMBDA r : r = PendingRow(c.msg, c.grp)),
                                             Record(c.msg, c.grp))
  <2>1. Spot(list, AckRow(c)) \in DOMAIN list /\ list[Spot(list, AckRow(c))] = AckRow(c)
    BY <1>6, SpotFinds
  <2>2. Record(c.msg, c.grp) \in Row
    BY <1>1, <1>2, RowFields
  <2>3. SelectInSeq(list, LAMBDA r : r = PendingRow(c.msg, c.grp)) = Spot(list, AckRow(c))
    BY DEF Spot, AckRow
  <2>4. Swapped(list, c) = ReplaceAt(list, Spot(list, AckRow(c)), Record(c.msg, c.grp))
    BY DEF Swapped, ReplaceAt
  <2>5. /\ Swapped(list, c) \in Seq(Row) /\ DOMAIN Swapped(list, c) = DOMAIN list
        /\ Len(Swapped(list, c)) = Len(list)
    BY <2>1, <2>2 DEF Swapped
  <2>6. QED
    BY <2>1, <2>3, <2>4, <2>5
<1>7. ASSUME Listed(c.grp), Forget(c.msg, c.grp) PROVE overlay' \in [Chats -> Seq(Own)]
  <2>1. overlay \in [Chats -> Seq(Own)]
    BY DEF Typed, OverlayTypes
  <2>2. Sublist(overlay[c.grp], Own \ {c.msg}) \in Seq(Own)
    <3>1. overlay[c.grp] \in Seq(Own)
      BY <1>1, <2>1
    <3>2. QED
      BY <3>1, SublistType
  <2>3. QED
    BY <1>1, <1>7, <2>1, <2>2 DEF Forget
<1>8. CASE ~Listed(c.grp) /\ UNCHANGED <<overlay, rows, missed, blanked, early>>
  BY <1>1, <1>2, <1>4, <1>8
<1>9. CASE /\ Listed(c.grp) /\ Forget(c.msg, c.grp) /\ Has(rows[at], PendingRow(c.msg, c.grp))
           /\ rows' = [rows EXCEPT ![at] =
                ReplaceAt(@, SelectInSeq(@, LAMBDA r : r = PendingRow(c.msg, c.grp)),
                          Record(c.msg, c.grp))]
           /\ UNCHANGED <<missed, blanked, early>>
  <2>1. at \in DOMAIN ids /\ ids[at] = c.grp /\ at \in DOMAIN rows /\ rows[at] \in Seq(Row)
    BY <1>4, <1>5, <1>9
  <2>2. AckRow(c) \in ToSet(rows[at])
    BY <1>9, <2>1, ContainsIs DEF Has, AckRow
  <2> DEFINE list == rows[at]
  <2>3. list \in Seq(Row) /\ AckRow(c) \in ToSet(list)
    BY <2>1, <2>2
  <2>4. /\ Spot(list, AckRow(c)) \in DOMAIN list /\ list[Spot(list, AckRow(c))] = AckRow(c)
        /\ Swapped(list, c) \in Seq(Row) /\ DOMAIN Swapped(list, c) = DOMAIN list
        /\ Len(Swapped(list, c)) = Len(list)
        /\ Swapped(list, c) = ReplaceAt(list, SelectInSeq(list, LAMBDA r : r = PendingRow(c.msg, c.grp)),
                                        Record(c.msg, c.grp))
    <3> HIDE DEF list
    <3>1. QED
      BY <1>6, <2>3
  <2>5. Replace(at, Swapped(list, c))
    BY <1>9, <2>1, <2>4 DEF Replace
  <2>6. overlay' \in [Chats -> Seq(Own)]
    BY <1>7, <1>9
  <2>7. QED
    BY <1>1, <1>2, <1>9, <2>1, <2>2, <2>4, <2>5, <2>6
<1>10. CASE /\ Listed(c.grp) /\ Forget(c.msg, c.grp) /\ ~Has(rows[at], PendingRow(c.msg, c.grp))
            /\ Replace(at, Rebuilt(c.grp, c.snap))
            /\ NoteRebuild(c.grp, c.snap)
  <2>1. at \in DOMAIN ids /\ ids[at] = c.grp /\ at \in DOMAIN rows /\ rows[at] \in Seq(Row)
    BY <1>4, <1>5, <1>10
  <2>2. AckRow(c) \notin ToSet(rows[at])
    BY <1>10, <2>1, ContainsIs DEF Has, AckRow
  <2>3. overlay' \in [Chats -> Seq(Own)]
    BY <1>7, <1>10
  <2>4. Rebuilt(c.grp, c.snap) \in Seq(Row)
    <3>1. overlay'[c.grp] \in Seq(Own)
      BY <1>1, <2>3
    <3>2. Recorded(c.grp, c.snap) \o Pended(c.grp, overlay'[c.grp]) \in Seq(Row)
      BY <1>1, <3>1, RebuildElems
    <3>3. QED
      BY <3>2, RebuiltIs
  <2>5. QED
    BY <1>1, <1>2, <1>10, <2>1, <2>2, <2>3, <2>4
<1>11. \/ ~Listed(c.grp) /\ UNCHANGED <<overlay, rows, missed, blanked, early>>
       \/ /\ Listed(c.grp) /\ Forget(c.msg, c.grp) /\ Has(rows[at], PendingRow(c.msg, c.grp))
          /\ rows' = [rows EXCEPT ![at] =
               ReplaceAt(@, SelectInSeq(@, LAMBDA r : r = PendingRow(c.msg, c.grp)),
                         Record(c.msg, c.grp))]
          /\ UNCHANGED <<missed, blanked, early>>
       \/ /\ Listed(c.grp) /\ Forget(c.msg, c.grp) /\ ~Has(rows[at], PendingRow(c.msg, c.grp))
          /\ Replace(at, Rebuilt(c.grp, c.snap))
          /\ NoteRebuild(c.grp, c.snap)
  BY DEF RunAck
<1>12. QED
  BY <1>8, <1>9, <1>10, <1>11

(* A rebuild of a position, after a selection or a request for older ones. *)
LEMMA RebuildIs ==
  ASSUME Typed, RunSelect \/ RunOlder
  PROVE  LET c == Head(uiq)  l == Recorded(c.grp, c.snap) \o Pended(c.grp, overlay[c.grp]) IN
         /\ c \in Queue /\ c.kind \in Rebuilds
         /\ c.kind = IF RunSelect THEN "select" ELSE "older"
         /\ c.grp \in Chats /\ c.at \in Positions /\ c.snap \in Seq(Msgs)
         /\ overlay[c.grp] \in Seq(Own) /\ UNCHANGED overlay
         /\ l \in Seq(Row) /\ Replace(c.at, l) /\ NoteRebuild(c.grp, c.snap)
<1> DEFINE c == Head(uiq)
           l == Recorded(c.grp, c.snap) \o Pended(c.grp, overlay[c.grp])
<1>1. PICK k \in Rebuilds : Run(k) /\ k = IF RunSelect THEN "select" ELSE "older"
  BY DEF RunSelect, RunOlder, Rebuilds, Run
<1>2. UNCHANGED overlay /\ Replace(c.at, Rebuilt(c.grp, c.snap)) /\ NoteRebuild(c.grp, c.snap)
  BY DEF RunSelect, RunOlder
<1>3. c \in Queue /\ c.kind = k /\ c.grp \in Chats /\ c.at \in Positions /\ c.snap \in Seq(Msgs)
  BY <1>1, HeadIs DEF Typed
<1>4. overlay[c.grp] \in Seq(Own)
  BY <1>3 DEF Typed, OverlayTypes
<1>5. Rebuilt(c.grp, c.snap) = l
  BY <1>2, RebuiltIs
<1>6. l \in Seq(Row)
  BY <1>3, <1>4, RebuildElems
<1>7. QED
  BY <1>1, <1>2, <1>3, <1>4, <1>5, <1>6

(* apply_pin_order permutes the positions.                                 *)
PinOrder == Ranked([k \in DOMAIN ids |-> k], {k \in DOMAIN ids : ids[k] \in OnTop})

LEMMA PinIs ==
  ASSUME Typed, ParallelLists, RunPin
  PROVE  /\ DOMAIN PinOrder = DOMAIN ids /\ DOMAIN ids = DOMAIN rows
         /\ \A k \in DOMAIN ids : PinOrder[k] \in DOMAIN ids
         /\ IsInjective(PinOrder)
         /\ \A j \in DOMAIN ids : \E k \in DOMAIN ids : PinOrder[k] = j
         /\ DOMAIN ids' = DOMAIN ids /\ DOMAIN rows' = DOMAIN ids
         /\ Len(ids') = Len(ids) /\ Len(rows') = Len(ids)
         /\ ids' \in Seq(Chats) /\ rows' \in Seq(Seq(Row))
         /\ \A k \in DOMAIN ids : ids'[k] = ids[PinOrder[k]] /\ rows'[k] = rows[PinOrder[k]]
         /\ open' = IF Opened THEN Spot(ids', ids[open]) ELSE open
<1> DEFINE l == [k \in DOMAIN ids |-> k]  o == PinOrder
<1>1. /\ ids \in Seq(Chats) /\ rows \in Seq(Seq(Row)) /\ Len(rows) = Len(ids)
      /\ DOMAIN ids = 1 .. Len(ids) /\ DOMAIN rows = DOMAIN ids /\ Len(ids) \in Nat
  BY DEF Typed, ListTypes, ParallelLists
<1>2. l \in Seq(Nat) /\ DOMAIN l = DOMAIN ids /\ Len(l) = Len(ids) /\ \A k \in DOMAIN ids : l[k] = k
  BY <1>1
<1>3. ToSet(l) = DOMAIN ids /\ IsInjective(l)
  BY <1>2 DEF ToSet, IsInjective
<1>4. o \in Seq(Nat) /\ ToSet(o) = DOMAIN ids /\ Len(o) = Len(ids) /\ IsInjective(o)
  BY <1>2, <1>3, RankedIs DEF PinOrder
<1> HIDE DEF o
<1>5. DOMAIN o = DOMAIN ids /\ \A k \in DOMAIN ids : o[k] \in DOMAIN ids
  <2>1. DOMAIN o = DOMAIN ids
    BY <1>1, <1>4
  <2>2. QED
    BY <1>4, <2>1 DEF ToSet
<1>6. \A j \in DOMAIN ids : \E k \in DOMAIN ids : o[k] = j
  BY <1>4, <1>5 DEF ToSet
<1>7. /\ ids' = [k \in DOMAIN ids |-> ids[o[k]]] /\ rows' = [k \in DOMAIN ids |-> rows[o[k]]]
      /\ Reselect(ids')
  BY DEF RunPin, PinOrder, o
<1>8. ids' \in Seq(Chats) /\ rows' \in Seq(Seq(Row)) /\ Len(ids') = Len(ids) /\ Len(rows') = Len(ids)
      /\ DOMAIN ids' = DOMAIN ids /\ DOMAIN rows' = DOMAIN ids
  <2>1. \A k \in DOMAIN ids : ids[o[k]] \in Chats /\ rows[o[k]] \in Seq(Row)
    BY <1>1, <1>5
  <2>2. QED
    BY <1>1, <1>7, <2>1
<1>9. open' = IF Opened THEN Spot(ids', ids[open]) ELSE open
  BY <1>7 DEF Reselect, Spot
<1>10. QED
  BY <1>1, <1>4, <1>5, <1>6, <1>7, <1>8, <1>9 DEF o

LEMMA PinOpens ==
  ASSUME Typed, ParallelLists, RunPin
  PROVE  /\ IsInjective(ids') /\ open' \in Nat \ {0}
         /\ Opened => open' \in DOMAIN ids' /\ ids'[open'] = ids[open]
<1>1. /\ DOMAIN PinOrder = DOMAIN ids
      /\ \A k \in DOMAIN ids : PinOrder[k] \in DOMAIN ids
      /\ IsInjective(PinOrder)
      /\ \A j \in DOMAIN ids : \E k \in DOMAIN ids : PinOrder[k] = j
      /\ DOMAIN ids' = DOMAIN ids /\ ids' \in Seq(Chats)
      /\ \A k \in DOMAIN ids : ids'[k] = ids[PinOrder[k]]
      /\ open' = IF Opened THEN Spot(ids', ids[open]) ELSE open
  BY PinIs
<1>2. open \in Nat \ {0} /\ ids \in Seq(Chats) /\ IsInjective(ids)
  BY DEF Typed, ListTypes, ParallelLists
<1>3. IsInjective(ids')
  <2> SUFFICES ASSUME NEW i \in DOMAIN ids, NEW j \in DOMAIN ids, ids'[i] = ids'[j] PROVE i = j
    BY <1>1 DEF IsInjective
  <2>1. PinOrder[i] = PinOrder[j]
    BY <1>1, <1>2 DEF IsInjective
  <2>2. QED
    BY <1>1, <2>1 DEF IsInjective
<1>4. ASSUME Opened PROVE open' \in DOMAIN ids' /\ ids'[open'] = ids[open]
  <2>1. PICK k \in DOMAIN ids : PinOrder[k] = open
    BY <1>1, <1>4 DEF Opened
  <2>2. ids'[k] = ids[open] /\ k \in DOMAIN ids'
    BY <1>1, <2>1
  <2>3. ids[open] \in ToSet(ids')
    BY <2>2 DEF ToSet
  <2>4. QED
    BY <1>1, <1>4, <2>3, SpotFinds
<1>5. DOMAIN ids' \subseteq Nat \ {0}
  <2>1. \A list \in Seq(Chats) : DOMAIN list \subseteq Nat \ {0}
    OBVIOUS
  <2>2. QED
    BY <1>1, <2>1
<1>6. QED
  BY <1>1, <1>2, <1>3, <1>4, <1>5

(* A chat leaves the lists, or joins them at the end.                      *)
LEMMA RemoveIs ==
  ASSUME NEW S, NEW s \in Seq(S), NEW k \in DOMAIN s
  PROVE  /\ RemoveAt(s, k) \in Seq(S) /\ Len(RemoveAt(s, k)) = Len(s) - 1
         /\ Len(s) \in Nat \ {0}
         /\ \A i \in 1 .. Len(s) - 1 : /\ RemoveAt(s, k)[i] = s[IF i < k THEN i ELSE i + 1]
                                       /\ (IF i < k THEN i ELSE i + 1) \in DOMAIN s
<1> DEFINE a == SubSeq(s, 1, k - 1)  b == SubSeq(s, k + 1, Len(s))
<1>1. DOMAIN s = 1 .. Len(s) /\ Len(s) \in Nat /\ k \in 1 .. Len(s)
  OBVIOUS
<1>2. a \in Seq(S) /\ Len(a) = k - 1 /\ \A i \in 1 .. k - 1 : a[i] = s[i]
  BY <1>1
<1>3. b \in Seq(S) /\ Len(b) = Len(s) - k /\ \A i \in 1 .. Len(s) - k : b[i] = s[k + i]
  BY <1>1
<1>4. RemoveAt(s, k) = a \o b
  BY DEF RemoveAt
<1> HIDE DEF a, b
<1>5. /\ a \o b \in Seq(S) /\ Len(a \o b) = Len(s) - 1
      /\ \A i \in DOMAIN a : (a \o b)[i] = a[i]
      /\ \A i \in DOMAIN b : (a \o b)[Len(a) + i] = b[i]
      /\ DOMAIN a = 1 .. k - 1 /\ DOMAIN b = 1 .. Len(s) - k
  <2>1. /\ a \o b \in Seq(S) /\ Len(a \o b) = Len(a) + Len(b)
        /\ DOMAIN a = 1 .. Len(a) /\ DOMAIN b = 1 .. Len(b)
        /\ \A i \in DOMAIN a : (a \o b)[i] = a[i]
        /\ \A i \in DOMAIN b : (a \o b)[Len(a) + i] = b[i]
    <3>1. a \in Seq(S) /\ b \in Seq(S)
      BY <1>2, <1>3
    <3>2. /\ a \o b \in Seq(S) /\ Len(a \o b) = Len(a) + Len(b)
          /\ DOMAIN a = 1 .. Len(a) /\ DOMAIN b = 1 .. Len(b)
      BY <3>1, ConcatParts
    <3>3. \A i \in DOMAIN a : (a \o b)[i] = a[i]
      BY <3>1
    <3>4. \A i \in DOMAIN b : (a \o b)[Len(a) + i] = b[i]
      BY <3>1
    <3>5. QED
      BY <3>2, <3>3, <3>4
  <2>2. Len(a) + Len(b) = Len(s) - 1
    BY <1>1, <1>2, <1>3
  <2>3. DOMAIN a = 1 .. k - 1
    BY <1>2, <2>1
  <2>4. DOMAIN b = 1 .. Len(s) - k
    BY <1>3, <2>1
  <2>5. QED
    BY <2>1, <2>2, <2>3, <2>4
<1>6. ASSUME NEW i \in 1 .. Len(s) - 1
      PROVE  /\ (a \o b)[i] = s[IF i < k THEN i ELSE i + 1]
             /\ (IF i < k THEN i ELSE i + 1) \in DOMAIN s
  <2>1. CASE i < k
    <3>1. i \in DOMAIN a /\ i \in DOMAIN s
      BY <1>1, <1>5, <2>1
    <3>2. QED
      BY <1>2, <1>5, <2>1, <3>1
  <2>2. CASE ~(i < k)
    <3>1. i - (k - 1) \in DOMAIN b /\ Len(a) + (i - (k - 1)) = i /\ k + (i - (k - 1)) = i + 1
          /\ i + 1 \in DOMAIN s
      BY <1>1, <1>2, <1>5, <2>2
    <3>2. (a \o b)[i] = b[i - (k - 1)]
      BY <1>5, <3>1
    <3>3. b[i - (k - 1)] = s[i + 1]
      BY <1>3, <1>5, <3>1
    <3>4. QED
      BY <2>2, <3>1, <3>2, <3>3
  <2>3. QED
    BY <2>1, <2>2
<1>7. QED
  BY <1>1, <1>4, <1>5, <1>6

LEMMA RemoveOnce ==
  ASSUME NEW S, NEW s \in Seq(S), NEW k \in DOMAIN s, IsInjective(s)
  PROVE  IsInjective(RemoveAt(s, k))
<1> DEFINE r == RemoveAt(s, k)  from(i) == IF i < k THEN i ELSE i + 1
<1>1. /\ r \in Seq(S) /\ Len(r) = Len(s) - 1 /\ Len(s) \in Nat \ {0}
      /\ \A i \in 1 .. Len(s) - 1 : r[i] = s[from(i)] /\ from(i) \in DOMAIN s
  BY RemoveIs
<1> HIDE DEF r
<1>2. DOMAIN r = 1 .. Len(s) - 1 /\ k \in Nat
  BY <1>1
<1> SUFFICES ASSUME NEW i \in DOMAIN r, NEW j \in DOMAIN r, r[i] = r[j] PROVE i = j
  BY DEF IsInjective, r
<1>3. s[from(i)] = s[from(j)] /\ from(i) \in DOMAIN s /\ from(j) \in DOMAIN s
  BY <1>1, <1>2
<1>4. from(i) = from(j)
  <2> HIDE DEF from
  <2>1. QED
    BY <1>3 DEF IsInjective
<1>5. QED
  BY <1>2, <1>4

LEMMA ListsStep ==
  ASSUME ViewConstantsOK, Core, Next PROVE ListTypes' /\ ParallelLists'
<1>0. /\ ids \in Seq(Chats) /\ rows \in Seq(Seq(Row)) /\ open \in Nat \ {0}
      /\ IsInjective(ids) /\ Len(rows) = Len(ids)
      /\ DOMAIN ids = 1 .. Len(ids) /\ DOMAIN rows = DOMAIN ids /\ Len(ids) \in Nat
      /\ Typed /\ ParallelLists /\ QueueTypes
      /\ \A c \in Queue : c.kind \in Lists => IsInjective(c.list)
  BY DEF Core, Typed, ListTypes, ParallelLists, ListsOnce
<1>1. ASSUME UNCHANGED <<ids, open>>, rows' \in Seq(Seq(Row)), Len(rows') = Len(rows)
      PROVE  ListTypes' /\ ParallelLists'
  BY <1>0, <1>1 DEF ListTypes, ParallelLists
<1>2. ASSUME UNCHANGED <<ids, open>>, NEW k, NEW list \in Seq(Row), Replace(k, list)
      PROVE  ListTypes' /\ ParallelLists'
  BY <1>0, <1>1, <1>2, ReplaceIs
<1>3. CASE UNCHANGED lists
  BY <1>0, <1>1, <1>3 DEF lists
<1>4. ASSUME NEW k \in DOMAIN ids, Select(k) PROVE ListTypes' /\ ParallelLists'
  <2>1. k \in Nat \ {0}
    BY <1>0
  <2>2. QED
    BY <1>0, <1>4, <2>1 DEF Select, ListTypes, ParallelLists
<1>5. ASSUME NEW m \in Own, Send(m) PROVE ListTypes' /\ ParallelLists'
  <2>1. open \in DOMAIN ids /\ rows[open] \in Seq(Row) /\ ids[open] \in Chats /\ m \in Msgs
    BY <1>0, <1>5 DEF Send, Opened, Msgs
  <2>2. Append(rows[open], PendingRow(m, ids[open])) \in Seq(Row)
    <3>1. PendingRow(m, ids[open]) \in Row
      BY <2>1, RowFields
    <3>2. QED
      BY <2>1, <3>1
  <2>3. QED
    BY <1>2, <1>5, <2>2 DEF Send
<1>6. CASE Archive
  <2>1. open \in DOMAIN ids /\ ids' = RemoveAt(ids, open) /\ rows' = RemoveAt(rows, open)
        /\ open' = Clamp(open, Len(ids'))
    BY <1>6 DEF Archive, Opened
  <2>2. ids' \in Seq(Chats) /\ Len(ids') = Len(ids) - 1
    BY <1>0, <2>1, RemoveIs
  <2>3. rows' \in Seq(Seq(Row)) /\ Len(rows') = Len(rows) - 1
    BY <1>0, <2>1, RemoveIs
  <2>4. IsInjective(ids')
    BY <1>0, <2>1, RemoveOnce
  <2>5. open' \in Nat \ {0}
    <3>1. Len(ids') \in Nat
      BY <2>2
    <3>2. QED
      BY <1>0, <2>1, <3>1 DEF Clamp
  <2>6. QED
    BY <1>0, <2>2, <2>3, <2>4, <2>5 DEF ListTypes, ParallelLists
<1>7. CASE RunSelect \/ RunOlder
  <2> DEFINE c == Head(uiq)  l == Recorded(c.grp, c.snap) \o Pended(c.grp, overlay[c.grp])
  <2>1. l \in Seq(Row) /\ Replace(c.at, l)
    BY <1>0, <1>7, RebuildIs
  <2>2. UNCHANGED <<ids, open>>
    BY <1>7 DEF RunSelect, RunOlder
  <2> HIDE DEF c, l
  <2>3. QED
    BY <1>2, <2>1, <2>2
<1>8. CASE RunEcho
  <2> DEFINE c == Head(uiq)  r == Record(c.msg, c.grp)
  <2>1. Run("echo") /\ UNCHANGED <<ids, open>>
        /\ IF c.at \in DOMAIN rows THEN AppendEcho(c) ELSE UNCHANGED rows
    BY <1>8 DEF RunEcho
  <2>2. r \in Row
    <3>1. c.grp \in Chats /\ c.msg \in Msgs
      BY <1>0, <2>1, HeadIs
    <3>2. QED
      BY <3>1, RowFields
  <2>3. CASE c.at \in DOMAIN rows
    <3>1. rows' = IF Has(rows[c.at], r) THEN rows ELSE [rows EXCEPT ![c.at] = Append(@, r)]
      BY <2>1, <2>3 DEF AppendEcho
    <3>2. ListTypes
      BY <1>0 DEF Typed
    <3> HIDE DEF c, r
    <3> DEFINE list == IF r \in ToSet(rows[c.at]) THEN rows[c.at] ELSE Append(rows[c.at], r)
    <3>3. rows[c.at] \in Seq(Row) /\ Replace(c.at, list)
      BY <2>2, <2>3, <3>1, <3>2, EchoIs
    <3>4. list \in Seq(Row)
      BY <2>2, <3>3
    <3> HIDE DEF list
    <3>5. QED
      BY <1>2, <2>1, <3>3, <3>4
  <2>4. CASE c.at \notin DOMAIN rows
    BY <1>0, <1>1, <2>1, <2>4
  <2>5. QED
    BY <2>3, <2>4
<1>9. CASE RunAck
  <2>1. UNCHANGED <<ids, open>>
    BY <1>9 DEF RunAck
  <2>2. UNCHANGED rows \/ \E k : \E list \in Seq(Row) : Replace(k, list)
    <3>1. Typed /\ ParallelLists /\ RunAck
      BY <1>0, <1>9
    <3>2. QED
      BY <3>1, AckIs
  <2>3. QED
    BY <1>0, <1>1, <1>2, <2>1, <2>2
<1>10. CASE RunRefresh
  <2> DEFINE c == Head(uiq)  d == Default(c.list)
  <2>1. PICK k \in Lists : Run(k)
    BY <1>10 DEF RunRefresh, Lists
  <2>2. /\ ids' = c.list
        /\ rows' = [j \in DOMAIN c.list |->
                      IF j = d THEN SnapshotOnly(c.list[j], c.first) ELSE <<>>]
        /\ open' = IF c.kind = "boot" THEN IF d # 1 THEN d ELSE open ELSE Clamp(open, Len(ids'))
    BY <1>10 DEF RunRefresh
  <2>3. c.list \in Seq(Chats) /\ c.first \in Seq(Msgs) /\ c \in Queue /\ c.kind = k
    BY <1>0, <2>1, HeadIs
  <2>4. IsInjective(c.list)
    BY <1>0, <2>1, <2>3
  <2>5. d \in Nat \ {0}
    BY <2>3, DefaultIn
  <2> HIDE DEF c, d
  <2>6. \A j \in DOMAIN c.list : SnapshotOnly(c.list[j], c.first) \in Seq(Row)
    <3>1. \A j \in DOMAIN c.list : c.list[j] \in Chats
      BY <2>3
    <3>2. ASSUME NEW g \in Chats PROVE SnapshotOnly(g, c.first) \in Seq(Row)
      <4>1. Recorded(g, c.first) \in Seq(Row)
        BY <2>3, RecordedIs
      <4>2. QED
        BY <4>1 DEF SnapshotOnly, Recorded
    <3>3. QED
      BY <3>1, <3>2
  <2>7. rows' \in Seq(Seq(Row)) /\ Len(rows') = Len(c.list)
    <3>1. DOMAIN c.list = 1 .. Len(c.list) /\ Len(c.list) \in Nat
      BY <2>3
    <3>2. \A j \in DOMAIN c.list :
            (IF j = d THEN SnapshotOnly(c.list[j], c.first) ELSE <<>>) \in Seq(Row)
      BY <2>6
    <3> DEFINE f(j) == IF j = d THEN SnapshotOnly(c.list[j], c.first) ELSE <<>>
    <3> HIDE DEF f
    <3>3. rows' = [j \in 1 .. Len(c.list) |-> f(j)] /\ \A j \in 1 .. Len(c.list) : f(j) \in Seq(Row)
      BY <2>2, <3>1, <3>2 DEF f
    <3>4. QED
      BY <3>1, <3>3
  <2>8. open' \in Nat \ {0}
    <3>1. Len(ids') \in Nat
      BY <2>2, <2>3
    <3>2. QED
      BY <1>0, <2>2, <2>5, <3>1 DEF Clamp
  <2>9. QED
    BY <2>2, <2>3, <2>4, <2>7, <2>8 DEF ListTypes, ParallelLists
<1>11. CASE RunMerge
  <2> DEFINE c == Head(uiq)  unseen == Sublist(c.list, Chats \ ToSet(ids))
  <2>1. Run("merge") /\ ids' = ids \o unseen /\ open' = open
        /\ rows' = rows \o [j \in DOMAIN unseen |-> <<>>]
    BY <1>11 DEF RunMerge
  <2>2. c.list \in Seq(Chats) /\ c \in Queue /\ c.kind = "merge"
    BY <1>0, <2>1, HeadIs DEF Lists
  <2>3. IsInjective(c.list)
    BY <1>0, <2>2 DEF Lists
  <2>4. unseen \in Seq(Chats) /\ IsInjective(unseen) /\ ToSet(unseen) = ToSet(c.list) \cap (Chats \ ToSet(ids))
    BY <2>2, <2>3, SublistType, SublistOnce, SublistElems
  <2> HIDE DEF c, unseen
  <2>5. \A g \in ToSet(ids) : g \notin ToSet(unseen)
    BY <2>4
  <2>6. IsInjective(ids')
    BY <1>0, <2>1, <2>4, <2>5, ConcatOnce
  <2> DEFINE none == [j \in DOMAIN unseen |-> <<>>]
  <2>7. none \in Seq(Seq(Row)) /\ Len(none) = Len(unseen)
    <3>1. DOMAIN unseen = 1 .. Len(unseen) /\ Len(unseen) \in Nat /\ <<>> \in Seq(Row)
      BY <2>4
    <3>2. QED
      BY <3>1
  <2> HIDE DEF none
  <2>8. ids' \in Seq(Chats) /\ rows' \in Seq(Seq(Row)) /\ Len(rows') = Len(ids')
    <3>1. ids' \in Seq(Chats) /\ Len(ids') = Len(ids) + Len(unseen)
      BY <1>0, <2>1, <2>4
    <3>2. rows' = rows \o none
      BY <2>1 DEF none
    <3>3. rows' \in Seq(Seq(Row)) /\ Len(rows') = Len(rows) + Len(none)
      <4>1. rows \o none \in Seq(Seq(Row)) /\ Len(rows \o none) = Len(rows) + Len(none)
        <5>1. rows \in Seq(Seq(Row)) /\ none \in Seq(Seq(Row))
          BY <1>0, <2>7
        <5>2. QED
          BY <5>1, ConcatParts
      <4>2. QED
        BY <3>2, <4>1, Zenon
    <3>4. QED
      BY <1>0, <2>7, <3>1, <3>3
  <2>9. QED
    BY <1>0, <2>1, <2>6, <2>8 DEF ListTypes, ParallelLists
<1>12. CASE RunChat
  <2> DEFINE g == Head(uiq).grp
  <2>1. Run("chat") /\ ListChat(g) /\ open' = open
    BY <1>12 DEF RunChat
  <2>2. g \in Chats
    BY <1>0, <2>1, HeadIs
  <2>3. Listed(g) <=> g \in ToSet(ids)
    BY <1>0, ContainsIs DEF Listed
  <2> HIDE DEF g
  <2>4. CASE g \in ToSet(ids)
    BY <1>0, <1>1, <2>1, <2>3, <2>4 DEF ListChat
  <2>5. CASE g \notin ToSet(ids)
    <3>1. ids' = Append(ids, g) /\ rows' = Append(rows, <<>>)
      BY <2>1, <2>3, <2>5 DEF ListChat
    <3>2. IsInjective(ids')
      BY <1>0, <2>2, <2>5, <3>1, AppendOnce
    <3>3. ids' \in Seq(Chats) /\ rows' \in Seq(Seq(Row)) /\ Len(rows') = Len(ids')
      BY <1>0, <2>2, <3>1
    <3>4. QED
      BY <1>0, <2>1, <3>2, <3>3 DEF ListTypes, ParallelLists
  <2>6. QED
    BY <2>4, <2>5
<1>13. CASE RunPin
  <2>1. ids' \in Seq(Chats) /\ rows' \in Seq(Seq(Row)) /\ Len(ids') = Len(ids) /\ Len(rows') = Len(ids)
    BY <1>0, <1>13, PinIs
  <2>2. IsInjective(ids') /\ open' \in Nat \ {0}
    BY <1>0, <1>13, PinOpens
  <2>3. QED
    BY <2>1, <2>2 DEF ListTypes, ParallelLists
<1>14. QED
  BY <1>3, <1>4, <1>5, <1>6, <1>7, <1>8, <1>9, <1>10, <1>11, <1>12, <1>13, ListsFrame

LEMMA CoreInit == ASSUME ViewConstantsOK, Init PROVE Core
<1>1. visible = Roster /\ Roster \in Seq(Chats) /\ IsInjective(Roster)
  BY DEF ViewConstantsOK, Init
<1>2. MarmotTypes /\ ListsOnce
  BY <1>1 DEF Init, MarmotTypes, ListsOnce, Queue, ToSet
<1>3. ListTypes /\ ParallelLists /\ FeedWatched
  <2>1. ids = <<>> /\ rows = <<>> /\ open = 1 /\ feed = <<>>
    BY DEF Init
  <2>2. IsInjective(<<>>) /\ <<>> \in Seq(Chats) /\ <<>> \in Seq(Seq(Row))
    BY DEF IsInjective
  <2>3. QED
    BY <2>1, <2>2 DEF ListTypes, ParallelLists, FeedWatched
<1>4. OverlayTypes /\ WatchTypes
  BY DEF Init, OverlayTypes, WatchTypes, ViewConstantsOK
<1>5. NoteTypes
  BY DEF Init, NoteTypes
<1>6. ReadTypes
  <2>1. {[kind |-> "boot"]} \subseteq Reads
    BY DEF Reads, ListRead
  <2>2. reads = SetToBag({[kind |-> "boot"]})
    BY DEF Init
  <2>3. reads \in [DOMAIN reads -> Nat \ {0}] /\ DOMAIN reads = {[kind |-> "boot"]}
    BY <2>2 DEF SetToBag
  <2>4. QED
    BY <2>1, <2>3 DEF ReadTypes, IsBag
<1>7. QueueTypes
  BY DEF Init, QueueTypes
<1>8. QED
  BY <1>2, <1>3, <1>4, <1>5, <1>6, <1>7 DEF Core, Typed

LEMMA CoreStep == ASSUME ViewConstantsOK, Core, [Next]_vars PROVE Core'
<1>1. CASE Next
  <2>1. MarmotTypes' /\ IsInjective(visible')
    <3>1. MarmotTypes /\ ListTypes /\ WatchTypes /\ missed \subseteq Msgs /\ IsInjective(visible)
      BY DEF Core, Typed, NoteTypes, ListsOnce
    <3>2. QED
      BY <1>1, <3>1, MarmotStep
  <2>2. ListTypes' /\ ParallelLists'
    BY <1>1, ListsStep
  <2>3. OverlayTypes'
    BY <1>1, OverlayStep
  <2>4. WatchTypes' /\ FeedWatched'
    BY <1>1, WatchStep
  <2>5. NoteTypes'
    BY <1>1, NoteStep
  <2>6. ReadTypes'
    BY <1>1, ReadsStep
  <2>7. QueueTypes' /\ \A c \in Queue' : c.kind \in Lists => IsInjective(c.list)
    BY <1>1, QueueStep
  <2>8. ListsOnce'
    BY <2>1, <2>7 DEF ListsOnce
  <2>9. QED
    BY <2>1, <2>2, <2>3, <2>4, <2>5, <2>6, <2>7, <2>8 DEF Core, Typed
<1>2. CASE UNCHANGED vars
  BY <1>2 DEF vars, Core, Typed, MarmotTypes, ListTypes, OverlayTypes, WatchTypes, NoteTypes,
     ReadTypes, QueueTypes, ParallelLists, ListsOnce, FeedWatched, Queue
<1>3. QED
  BY <1>1, <1>2

LEMMA CoreHolds == ASSUME ViewConstantsOK PROVE Spec => []Core
<1>1. Init => Core
  BY CoreInit
<1>2. Core /\ [Next]_vars => Core'
  BY CoreStep
<1>3. QED
  BY <1>1, <1>2, PTL DEF Spec

(* Every variable keeps the shape of its Rust counterpart.                 *)
THEOREM ViewTypes == Spec => []TypeOK
<1>1. Core => TypeOK
  BY TypeParts DEF Core
<1>2. QED
  BY <1>1, ViewConstantsOK, CoreHolds, PTL

(* A position of group_ids, chats and chats_messages belongs to one chat   *)
(* on every path that appends, permutes, removes or replaces.              *)
THEOREM ListsParallel == Spec => []ParallelLists
<1>1. Core => ParallelLists
  BY DEF Core
<1>2. QED
  BY <1>1, ViewConstantsOK, CoreHolds, PTL
(* Both lists grow at the end.                                             *)
LEMMA MergeIs ==
  ASSUME Typed, RunMerge \/ RunChat
  PROVE  /\ \E more \in Seq(Chats) : \E none \in Seq(Seq(Row)) :
              /\ ids' = ids \o more /\ rows' = rows \o none /\ Len(none) = Len(more)
              /\ \A k \in DOMAIN none : none[k] = <<>>
         /\ UNCHANGED <<open, overlay, blanked, moved>>
<1>0. ids \in Seq(Chats) /\ rows \in Seq(Seq(Row)) /\ QueueTypes
  BY DEF Typed, ListTypes
<1>1. UNCHANGED <<open, overlay, blanked, moved>>
  BY DEF RunMerge, RunChat, history
<1>2. CASE RunMerge
  <2> DEFINE c == Head(uiq)  unseen == Sublist(c.list, Chats \ ToSet(ids))
             none == [j \in DOMAIN unseen |-> <<>>]
  <2>1. Run("merge") /\ ids' = ids \o unseen /\ rows' = rows \o none
    BY <1>2 DEF RunMerge
  <2>2. c.list \in Seq(Chats)
    BY <1>0, <2>1, HeadIs DEF Lists
  <2>3. unseen \in Seq(Chats)
    BY <2>2, SublistType
  <2> HIDE DEF unseen
  <2>4. none \in Seq(Seq(Row)) /\ Len(none) = Len(unseen) /\ \A k \in DOMAIN none : none[k] = <<>>
    <3>1. DOMAIN unseen = 1 .. Len(unseen) /\ Len(unseen) \in Nat /\ <<>> \in Seq(Row)
      BY <2>3
    <3>2. QED
      BY <3>1
  <2> HIDE DEF none
  <2>5. QED
    BY <1>1, <2>1, <2>3, <2>4
<1>3. CASE RunChat
  <2> DEFINE g == Head(uiq).grp
  <2>1. Run("chat") /\ ListChat(g)
    BY <1>3 DEF RunChat
  <2>2. g \in Chats
    BY <1>0, <2>1, HeadIs
  <2> HIDE DEF g
  <2>3. CASE Listed(g)
    <3>1. ids' = ids /\ rows' = rows
      BY <2>1, <2>3 DEF ListChat
    <3>2. ids \o <<>> = ids /\ rows \o <<>> = rows /\ <<>> \in Seq(Chats) /\ <<>> \in Seq(Seq(Row))
          /\ DOMAIN <<>> = {}
      BY <1>0
    <3>3. QED
      BY <1>1, <3>1, <3>2
  <2>4. CASE ~Listed(g)
    <3>1. ids' = Append(ids, g) /\ rows' = Append(rows, <<>>)
      BY <2>1, <2>4 DEF ListChat
    <3>2. <<g>> \in Seq(Chats) /\ <<(<<>>)>> \in Seq(Seq(Row)) /\ Len(<<g>>) = 1 /\ Len(<<(<<>>)>>) = 1
          /\ \A k \in DOMAIN <<(<<>>)>> : <<(<<>>)>>[k] = <<>>
      BY <2>2
    <3>3. ids' = ids \o <<g>> /\ rows' = rows \o <<(<<>>)>>
      BY <1>0, <2>2, <3>1
    <3>4. QED
      BY <1>1, <3>2, <3>3
  <2>5. QED
    BY <2>3, <2>4
<1>4. QED
  BY <1>2, <1>3

(* chatlist.rs:1065, main.rs:610: whatever happens to the lists, the chat  *)
(* that is open stays open, but for a selection, an archive of it and a    *)
(* full refresh.                                                           *)
THEOREM OpenStays == Spec => KeepsOpen
<1> DEFINE Stays == open' \in DOMAIN ids' /\ ids'[open'] = ids[open]
<1>1. ASSUME Core, Next, Opened
      PROVE  Stays \/ (\E k \in DOMAIN ids : Select(k)) \/ Archive \/ RunRefresh
  <2>0. Typed /\ ParallelLists /\ ids \in Seq(Chats) /\ open \in DOMAIN ids
    BY <1>1 DEF Core, Typed, ListTypes, Opened
  <2>1. CASE UNCHANGED <<ids, open>>
    BY <2>0, <2>1
  <2>2. \/ UNCHANGED lists
        \/ \E m \in Own : Send(m)
        \/ RunSelect \/ RunOlder \/ RunEcho \/ RunAck
        => UNCHANGED <<ids, open>>
    BY DEF lists, Send, RunSelect, RunOlder, RunEcho, RunAck
  <2>3. CASE RunMerge \/ RunChat
    <3>1. PICK more \in Seq(Chats) : ids' = ids \o more /\ open' = open
      BY <2>0, <2>3, MergeIs
    <3>2. (ids \o more)[open] = ids[open] /\ open \in DOMAIN (ids \o more)
      BY <2>0, ConcatParts
    <3>3. QED
      BY <3>1, <3>2
  <2>4. CASE RunPin
    BY <1>1, <2>0, <2>4, PinOpens
  <2>5. QED
    BY <1>1, <2>1, <2>2, <2>3, <2>4, ListsFrame
<1>2. Core /\ [Next]_vars =>
        [Opened => \/ open' \in DOMAIN ids' /\ ids'[open'] = ids[open]
                   \/ \E k \in DOMAIN ids : Select(k)
                   \/ Archive \/ RunRefresh]_vars
  BY <1>1
<1>3. QED
  BY <1>2, ViewConstantsOK, CoreHolds, PTL DEF Spec, KeepsOpen
-----------------------------------------------------------------------------
(* What marmot stores, and what still has to be stored.                    *)

(* A message is recorded once, in one chat, the one it was sent to.        *)
StoresOnce ==
  /\ \A g \in Chats : IsInjective(store[g])
  /\ \A g, h \in Chats : \A m \in ToSet(store[g]) : m \in ToSet(store[h]) => g = h
  /\ \A g \in Chats : \A m \in ToSet(store[g]) : m \in Foreign => g = ChatOf[m]
SendsOnce ==
  /\ \A s \in sends : \A g \in Chats : s.msg \in ToSet(store[g]) => g = s.grp
  /\ \A s, t \in sends : s.msg = t.msg => s = t

(* The user has sent it, or someone has.                                   *)
Sent(m) == \/ \E s \in sends : s.msg = m
           \/ \E g \in Chats : m \in ToSet(store[g])

LEMMA StoreTyped ==
  ASSUME Typed
  PROVE  /\ \A g \in Chats : store[g] \in Seq(Msgs) /\ ToSet(store[g]) \subseteq Msgs
         /\ \A s \in sends : s.msg \in Own /\ s.msg \in Msgs /\ s.grp \in Chats
         /\ \A g \in Chats : overlay[g] \in Seq(Own) /\ ToSet(overlay[g]) \subseteq Own
<1>1. /\ \A g \in Chats : store[g] \in Seq(Msgs) /\ overlay[g] \in Seq(Own)
      /\ \A s \in sends : s.msg \in Own /\ s.grp \in Chats
  BY DEF Typed, MarmotTypes, OverlayTypes
<1>2. /\ \A g \in Chats : ToSet(store[g]) \subseteq Msgs
      /\ \A g \in Chats : ToSet(overlay[g]) \subseteq Own
  BY <1>1, ElemsIn
<1>3. QED
  BY <1>1, <1>2 DEF Msgs

(* A record is stored at the end of its chat's.                            *)
LEMMA StoredIs ==
  ASSUME Typed, NEW m \in Msgs, NEW g \in Chats, Stored(m, g)
  PROVE  /\ ToSet(store'[g]) = ToSet(store[g]) \cup {m}
         /\ store'[g] = Append(store[g], m)
         /\ \A h \in Chats : h # g => store'[h] = store[h]
<1>1. store \in [Chats -> Seq(Msgs)] /\ store[g] \in Seq(Msgs)
  BY DEF Typed, MarmotTypes
<1>2. store' = [store EXCEPT ![g] = Append(@, m)]
  BY DEF Stored
<1>3. store'[g] = Append(store[g], m) /\ \A h \in Chats : h # g => store'[h] = store[h]
  BY <1>1, <1>2
<1>4. ToSet(Append(store[g], m)) = ToSet(store[g]) \cup {m}
  BY <1>1, QueueAdds
<1>5. QED
  BY <1>3, <1>4

LEMMA StoreFrame ==
  ASSUME ViewConstantsOK, Typed, Next
  PROVE  \/ UNCHANGED store
         \/ \E m \in Foreign : /\ Receive(m) /\ Stored(m, ChatOf[m]) /\ m \in Msgs
                               /\ ChatOf[m] \in Chats /\ m \notin ToSet(store[ChatOf[m]])
                               /\ UNCHANGED sends
         \/ \E s \in sends : /\ Publish(s) /\ Stored(s.msg, s.grp) /\ s.msg \in Own
                             /\ s.msg \in Msgs /\ s.grp \in Chats
                             /\ s.msg \notin ToSet(store[s.grp])
                             /\ UNCHANGED sends
<1>1. CASE UNCHANGED backend
  BY <1>1 DEF backend
<1>2. (\E m \in Own : Send(m)) \/ Archive \/ (\E s \in sends : Resolve(s))
      \/ (\E g \in Chats : NewChat(g) \/ CommitArchive(g)) => UNCHANGED store
  BY DEF Send, Archive, Resolve, NewChat, CommitArchive
<1>3. ASSUME NEW m \in Foreign, Receive(m)
      PROVE  /\ Stored(m, ChatOf[m]) /\ m \in Msgs /\ ChatOf[m] \in Chats /\ UNCHANGED sends
             /\ m \notin ToSet(store[ChatOf[m]])
  <2>1. m \in Msgs /\ ChatOf[m] \in Chats
    BY DEF ViewConstantsOK, Msgs
  <2>2. store[ChatOf[m]] \in Seq(Msgs)
    BY <2>1, StoreTyped
  <2>3. QED
    BY <1>3, <2>1, <2>2, ContainsIs DEF Receive
<1>4. ASSUME NEW s \in sends, Publish(s)
      PROVE  /\ Stored(s.msg, s.grp) /\ s.msg \in Own /\ s.msg \in Msgs /\ s.grp \in Chats
             /\ s.msg \notin ToSet(store[s.grp]) /\ UNCHANGED sends
  <2>1. s.msg \in Own /\ s.msg \in Msgs /\ s.grp \in Chats
    BY StoreTyped
  <2>2. store[s.grp] \in Seq(Msgs)
    BY <2>1, StoreTyped
  <2>3. QED
    BY <1>4, <2>1, <2>2, ContainsIs DEF Publish
<1>5. QED
  BY <1>1, <1>2, <1>3, <1>4, MarmotFrame

LEMMA StoresStep ==
  ASSUME ViewConstantsOK, Typed, StoresOnce, SendsOnce, Next PROVE StoresOnce'
<1>1. CASE UNCHANGED store
  BY <1>1 DEF StoresOnce
<1>2. ASSUME NEW m \in Msgs, NEW g \in Chats, Stored(m, g), m \notin ToSet(store[g]),
             \A h \in Chats : m \in ToSet(store[h]) => h = g,
             m \in Foreign => g = ChatOf[m]
      PROVE  StoresOnce'
  <2>1. /\ ToSet(store'[g]) = ToSet(store[g]) \cup {m} /\ store'[g] = Append(store[g], m)
        /\ \A h \in Chats : h # g => store'[h] = store[h]
    BY <1>2, StoredIs
  <2>2. IsInjective(store'[g])
    <3>1. store[g] \in Seq(Msgs) /\ IsInjective(store[g])
      BY StoreTyped DEF StoresOnce
    <3>2. IsInjective(Append(store[g], m))
      BY <1>2, <3>1, AppendOnce
    <3>3. QED
      BY <2>1, <3>2
  <2>3. \A h \in Chats : IsInjective(store'[h])
    BY <2>1, <2>2 DEF StoresOnce
  <2>4. \A h \in Chats : \A n \in ToSet(store'[h]) : n \in ToSet(store[h]) \/ (h = g /\ n = m)
    BY <2>1
  <2>5. ASSUME NEW h \in Chats, NEW i \in Chats, NEW n \in ToSet(store'[h]), n \in ToSet(store'[i])
        PROVE  h = i
    <3>1. n \in ToSet(store[h]) \/ (h = g /\ n = m)
      BY <2>4
    <3>2. n \in ToSet(store[i]) \/ (i = g /\ n = m)
      BY <2>4, <2>5
    <3>3. QED
      BY <1>2, <3>1, <3>2 DEF StoresOnce
  <2>6. \A h \in Chats : \A n \in ToSet(store'[h]) : n \in Foreign => h = ChatOf[n]
    BY <1>2, <2>4 DEF StoresOnce
  <2>7. QED
    BY <2>3, <2>5, <2>6 DEF StoresOnce
<1>3. ASSUME NEW m \in Foreign, Stored(m, ChatOf[m]), m \in Msgs, ChatOf[m] \in Chats,
             m \notin ToSet(store[ChatOf[m]])
      PROVE  StoresOnce'
  <2>1. \A h \in Chats : m \in ToSet(store[h]) => h = ChatOf[m]
    BY DEF StoresOnce
  <2>2. QED
    BY <1>2, <1>3, <2>1
<1>4. ASSUME NEW s \in sends, Stored(s.msg, s.grp), s.msg \in Own, s.msg \in Msgs, s.grp \in Chats,
             s.msg \notin ToSet(store[s.grp])
      PROVE  StoresOnce'
  <2>1. \A h \in Chats : s.msg \in ToSet(store[h]) => h = s.grp
    BY DEF SendsOnce
  <2>2. s.msg \notin Foreign
    BY <1>4 DEF ViewConstantsOK
  <2>3. QED
    BY <1>2, <1>4, <2>1, <2>2
<1>5. QED
  BY <1>1, <1>3, <1>4, StoreFrame

(* The tasks of the user's sends.                                          *)
LEMMA SendFresh ==
  ASSUME Typed, NEW m \in Own, Send(m)
  PROVE  /\ ~Sent(m) /\ open \in DOMAIN ids /\ ids[open] \in Chats
         /\ UNCHANGED <<store, ids, uiq, early, moved, blanked>>
         /\ sends' = sends \cup {[msg |-> m, grp |-> ids[open]]}
         /\ overlay' = [overlay EXCEPT ![ids[open]] = Append(@, m)]
         /\ Replace(open, Append(rows[open], PendingRow(m, ids[open])))
<1>1. \A g \in Chats : m \notin ToSet(store[g])
  BY StoreTyped, ContainsIs DEF Send
<1>2. ids \in Seq(Chats) /\ rows \in Seq(Seq(Row))
  BY DEF Typed, ListTypes
<1>3. QED
  BY <1>1, <1>2 DEF Send, Sent, Opened, lists, history

LEMMA SendsFrame ==
  ASSUME Next
  PROVE  \/ UNCHANGED sends
         \/ \E m \in Own : Send(m)
         \/ \E s \in sends : Resolve(s)
<1>1. CASE UNCHANGED backend
  BY <1>1 DEF backend
<1>2. Archive \/ (\E m \in Foreign : Receive(m)) \/ (\E s \in sends : Publish(s))
      \/ (\E g \in Chats : NewChat(g) \/ CommitArchive(g)) => UNCHANGED sends
  BY DEF Archive, Receive, Publish, NewChat, CommitArchive
<1>3. QED
  BY <1>1, <1>2, MarmotFrame

LEMMA ResolveIs ==
  ASSUME Typed, NEW s \in sends, Resolve(s)
  PROVE  /\ sends' = sends \ {s} /\ s.msg \in ToSet(store[s.grp])
         /\ UNCHANGED <<store, overlay, rows, ids, early, moved, blanked>>
<1>1. store[s.grp] \in Seq(Msgs)
  BY StoreTyped
<1>2. QED
  BY <1>1, ContainsIs DEF Resolve, lists, history

LEMMA SendsStep ==
  ASSUME ViewConstantsOK, Typed, StoresOnce, SendsOnce, Next PROVE SendsOnce'
<1>1. ASSUME UNCHANGED sends, UNCHANGED store PROVE SendsOnce'
  BY <1>1 DEF SendsOnce
<1>2. ASSUME NEW m \in Msgs, NEW g \in Chats, Stored(m, g), UNCHANGED sends,
             \A s \in sends : s.msg = m => s.grp = g
      PROVE  SendsOnce'
  <2>0. /\ ToSet(store'[g]) = ToSet(store[g]) \cup {m}
        /\ \A h \in Chats : h # g => store'[h] = store[h]
    BY <1>2, StoredIs
  <2>1. \A h \in Chats : \A n \in ToSet(store'[h]) : n \in ToSet(store[h]) \/ (h = g /\ n = m)
    BY <2>0
  <2>2. QED
    BY <1>2, <2>1 DEF SendsOnce
<1>3. ASSUME NEW m \in Foreign, Stored(m, ChatOf[m]), m \in Msgs, ChatOf[m] \in Chats,
             UNCHANGED sends
      PROVE  SendsOnce'
  <2>1. \A s \in sends : s.msg # m
    BY StoreTyped DEF ViewConstantsOK
  <2>2. QED
    BY <1>2, <1>3, <2>1
<1>4. ASSUME NEW s \in sends, Stored(s.msg, s.grp), s.msg \in Msgs, s.grp \in Chats,
             UNCHANGED sends
      PROVE  SendsOnce'
  <2>1. \A t \in sends : t.msg = s.msg => t.grp = s.grp
    BY DEF SendsOnce
  <2>2. QED
    BY <1>2, <1>4, <2>1
<1>5. ASSUME NEW m \in Own, Send(m) PROVE SendsOnce'
  <2>1. ~Sent(m) /\ UNCHANGED store /\ sends' = sends \cup {[msg |-> m, grp |-> ids[open]]}
    BY <1>5, SendFresh
  <2>2. \A s \in sends' : s \in sends \/ (s = [msg |-> m, grp |-> ids[open]] /\ s.msg = m)
    BY <2>1
  <2>3. \A s \in sends : s.msg # m
    BY <2>1 DEF Sent
  <2>4. \A g \in Chats : m \notin ToSet(store[g])
    BY <2>1 DEF Sent
  <2>5. QED
    BY <2>1, <2>2, <2>3, <2>4 DEF SendsOnce
<1>6. ASSUME NEW s \in sends, Resolve(s) PROVE SendsOnce'
  <2>1. sends' \subseteq sends /\ UNCHANGED store
    BY <1>6, ResolveIs
  <2>2. QED
    BY <2>1 DEF SendsOnce
<1>7. QED
  BY <1>1, <1>3, <1>4, <1>5, <1>6, StoreFrame, SendsFrame

(* Nothing is taken back.                                                  *)
Grown == /\ \A g \in Chats : ToSet(store[g]) \subseteq ToSet(store'[g])
         /\ \A m : Sent(m) => Sent(m)'
         /\ early \subseteq early'

LEMMA Grows == ASSUME ViewConstantsOK, Typed, Next PROVE Grown
<1>1. \A g \in Chats : ToSet(store[g]) \subseteq ToSet(store'[g])
  <2>1. ASSUME NEW m \in Msgs, NEW h \in Chats, Stored(m, h)
        PROVE  \A g \in Chats : ToSet(store[g]) \subseteq ToSet(store'[g])
    <3>1. /\ ToSet(store'[h]) = ToSet(store[h]) \cup {m}
          /\ \A g \in Chats : g # h => store'[g] = store[g]
      BY <2>1, StoredIs
    <3>2. QED
      BY <3>1
  <2>2. QED
    BY <2>1, StoreFrame
<1>2. ASSUME NEW m, Sent(m) PROVE Sent(m)'
  <2>1. CASE \E g \in Chats : m \in ToSet(store[g])
    BY <1>1, <2>1 DEF Sent
  <2>2. ASSUME NEW s \in sends, s.msg = m PROVE Sent(m)'
    <3>1. CASE UNCHANGED sends
      BY <2>2, <3>1 DEF Sent
    <3>2. ASSUME NEW n \in Own, Send(n) PROVE Sent(m)'
      <4>1. s \in sends'
        BY <3>2, SendFresh
      <4>2. QED
        BY <2>2, <4>1 DEF Sent
    <3>3. ASSUME NEW t \in sends, Resolve(t) PROVE Sent(m)'
      <4>1. sends' = sends \ {t} /\ t.msg \in ToSet(store[t.grp]) /\ t.grp \in Chats /\ store' = store
        BY <3>3, ResolveIs, StoreTyped
      <4>2. CASE s = t
        BY <2>2, <4>1, <4>2 DEF Sent
      <4>3. CASE s # t
        BY <2>2, <4>1, <4>3 DEF Sent
      <4>4. QED
        BY <4>2, <4>3
    <3>4. QED
      BY <3>1, <3>2, <3>3, SendsFrame
  <2>3. QED
    BY <1>2, <2>1, <2>2 DEF Sent
<1>3. early \subseteq early'
  <2>1. (\E m \in Foreign : Receive(m)) \/ (\E s \in sends : Publish(s)) => UNCHANGED early
    BY DEF Receive, Publish
  <2>2. RunSelect \/ RunOlder \/ RunEcho \/ RunAck \/ RunRefresh => early \subseteq early'
    BY DEF RunSelect, RunOlder, RunEcho, RunAck, RunRefresh, NoteRebuild
  <2>3. QED
    BY <2>1, <2>2, NoteFrame
<1>4. QED
  BY <1>1, <1>2, <1>3 DEF Grown

-----------------------------------------------------------------------------
(* What is under way says what marmot has stored.                          *)

ClosureTrue(c) ==
  /\ c.kind \in Rebuilds \cup {"ack"} =>
       IsInjective(c.snap) /\ ToSet(c.snap) \subseteq ToSet(store[c.grp])
  /\ c.kind \in Lists =>
       /\ IsInjective(c.first)
       /\ c.list # <<>> => ToSet(c.first) \subseteq ToSet(store[c.list[Default(c.list)]])
  /\ c.kind \in {"echo", "ack"} => c.msg \in ToSet(store[c.grp])
FeedTrue == \A m \in ToSet(feed) : m \in ToSet(store[watch.grp])
ReportsTrue == FeedTrue /\ \A c \in Queue : ClosureTrue(c)

LEMMA DefaultFixed == ASSUME NEW list PROVE Default(list)' = Default(list)
OBVIOUS

LEMMA ClosureStays ==
  ASSUME Grown, NEW c \in Closure, ClosureTrue(c) PROVE ClosureTrue(c)'
<1>1. \A g \in Chats : ToSet(store[g]) \subseteq ToSet(store'[g])
  BY DEF Grown
<1>2. c.kind \in Lists /\ c.list # <<>> => c.list[Default(c.list)] \in Chats
  <2>1. ASSUME NEW list \in Seq(Chats), list # <<>> PROVE list[Default(list)] \in Chats
    <3>1. Default(list) \in DOMAIN list
      BY <2>1, DefaultIn
    <3>2. QED
      BY <3>1
  <2>2. c.kind \in Lists => c.list \in Seq(Chats)
    BY ClosureFields
  <2>3. QED
    BY <2>1, <2>2
<1>3. c.kind \in Rebuilds \cup {"ack", "echo"} => c.grp \in Chats
  BY ClosureFields
<1> DEFINE d == Default(c.list)
<1>4. d = Default(c.list) /\ Default(c.list)' = Default(c.list)
  BY DefaultFixed
<1> HIDE DEF d
<1>5. /\ c.kind \in Rebuilds \cup {"ack"} =>
           IsInjective(c.snap) /\ ToSet(c.snap) \subseteq ToSet(store'[c.grp])
      /\ c.kind \in Lists =>
           /\ IsInjective(c.first)
           /\ c.list # <<>> => ToSet(c.first) \subseteq ToSet(store'[c.list[d]])
      /\ c.kind \in {"echo", "ack"} => c.msg \in ToSet(store'[c.grp])
  BY <1>1, <1>2, <1>3, <1>4 DEF ClosureTrue
<1>6. QED
  BY <1>4, <1>5 DEF ClosureTrue

LEMMA OriginTrue ==
  ASSUME Core, StoresOnce, FeedTrue, NEW c, Sound(c) PROVE ClosureTrue(c)'
<1>0. Typed /\ visible \in Seq(Chats) /\ ReadTypes
  BY DEF Core, Typed, MarmotTypes
<1>1. ASSUME NEW s \in sends, Resolve(s), c = AckOf(s) PROVE ClosureTrue(c)'
  <2>1. s.grp \in Chats /\ s.msg \in ToSet(store[s.grp]) /\ store' = store /\ IsInjective(store[s.grp])
    BY <1>0, <1>1, ResolveIs, StoreTyped DEF StoresOnce
  <2>2. c.kind = "ack" /\ c.grp = s.grp /\ c.msg = s.msg /\ c.snap = store[s.grp]
    BY <1>1 DEF AckOf
  <2>3. QED
    BY <2>1, <2>2 DEF ClosureTrue, Lists
<1>2. ASSUME WatcherCallback, feed # <<>>, c = EchoOf PROVE ClosureTrue(c)'
  <2>1. feed \in Seq(Msgs) /\ store' = store
    BY <1>0, <1>2 DEF Typed, WatchTypes, WatcherCallback, backend
  <2>2. Head(feed) \in ToSet(feed)
    <3>1. ToSet(feed) = ToSet(Tail(feed)) \cup {Head(feed)}
      BY <1>2, <2>1, QueueDrops
    <3>2. QED
      BY <3>1
  <2>3. c.kind = "echo" /\ c.grp = watch.grp /\ c.msg = Head(feed)
    BY <1>2 DEF EchoOf
  <2>4. QED
    BY <2>1, <2>2, <2>3 DEF FeedTrue, ClosureTrue, Lists, Rebuilds
<1>3. ASSUME NEW r \in BagToSet(reads), r \in WindowRead, ReadWindow(r), c = WindowOf(r)
      PROVE  ClosureTrue(c)'
  <2>1. r.grp \in Chats /\ r.kind \in Rebuilds
    BY <1>3, ReadFields DEF Reads
  <2>2. store' = store /\ IsInjective(store[r.grp])
    BY <1>3, <2>1 DEF ReadWindow, backend, StoresOnce
  <2>3. c.kind = r.kind /\ c.grp = r.grp /\ c.snap = store[r.grp]
    BY <1>3 DEF WindowOf
  <2>4. QED
    BY <2>1, <2>2, <2>3 DEF ClosureTrue, Lists, Rebuilds
<1>4. ASSUME NEW r \in BagToSet(reads), r.kind \in Lists, ReadList(r), c = ListOf(r)
      PROVE  ClosureTrue(c)'
  <2> DEFINE list == RailOrder(visible)
  <2>1. list \in Seq(Chats)
    BY <1>0, RailOrderIs
  <2>2. /\ c.kind = r.kind /\ c.list = list
        /\ c.first = IF list = <<>> THEN <<>> ELSE store[list[Default(list)]]
    BY <1>4 DEF ListOf
  <2> HIDE DEF list
  <2>3. store' = store
    BY <1>4 DEF ReadList, backend
  <2>4. list # <<>> => list[Default(list)] \in Chats
    <3>1. list # <<>> => Default(list) \in DOMAIN list
      BY <2>1, DefaultIn
    <3>2. QED
      BY <2>1, <3>1
  <2>5. IsInjective(c.first)
    <3>1. IsInjective(<<>>)
      BY DEF IsInjective
    <3>2. QED
      BY <2>2, <2>4, <3>1 DEF StoresOnce
  <2>6. Default(c.list)' = Default(c.list)
    BY DefaultFixed
  <2>7. c.list # <<>> => ToSet(c.first) \subseteq ToSet(store[c.list[Default(c.list)]])
    BY <2>2
  <2>8. QED
    BY <1>4, <2>2, <2>3, <2>5, <2>6, <2>7 DEF ClosureTrue, Lists, Rebuilds
<1>5. ASSUME c.kind \in {"chat", "pin", "reload"} PROVE ClosureTrue(c)'
  BY <1>5 DEF ClosureTrue, Lists, Rebuilds
<1>6. QED
  BY <1>1, <1>2, <1>3, <1>4, <1>5 DEF Sound, Origin

LEMMA FeedStep ==
  ASSUME ViewConstantsOK, Core, FeedTrue, Next PROVE FeedTrue'
<1>0. Typed /\ feed \in Seq(Msgs) /\ Grown /\ FeedWatched
  BY Grows DEF Core, Typed, WatchTypes
<1>1. ASSUME watch'.grp = watch.grp, ToSet(feed') \subseteq ToSet(feed) PROVE FeedTrue'
  <2>1. CASE feed = <<>>
    BY <1>1, <2>1 DEF FeedTrue, ToSet
  <2>2. CASE feed # <<>>
    <3>1. watch.grp \in Chats
      BY <1>0, <2>2, WatchFields DEF FeedWatched, Typed
    <3>2. QED
      BY <1>0, <1>1, <3>1 DEF FeedTrue, Grown
  <2>3. QED
    BY <2>1, <2>2
<1>2. ASSUME NEW m \in Msgs, NEW g \in Chats, Stored(m, g), UNCHANGED watch PROVE FeedTrue'
  <2>1. feed' = feed \/ (watch.grp = g /\ feed' = Append(feed, m))
    BY <1>2 DEF Stored
  <2>2. CASE feed' = feed
    BY <1>1, <1>2, <2>2
  <2>3. CASE watch.grp = g /\ feed' = Append(feed, m)
    <3>1. ToSet(feed') = ToSet(feed) \cup {m}
      BY <1>0, <1>2, <2>3, QueueAdds
    <3>2. ToSet(store'[g]) = ToSet(store[g]) \cup {m}
      BY <1>0, <1>2, StoredIs
    <3>3. QED
      BY <1>2, <2>3, <3>1, <3>2 DEF FeedTrue
  <2>4. QED
    BY <2>1, <2>2, <2>3
<1>3. CASE UNCHANGED watcher
  BY <1>1, <1>3 DEF watcher
<1>4. ASSUME NEW m \in Foreign, Receive(m) PROVE FeedTrue'
  <2>1. m \in Msgs /\ ChatOf[m] \in Chats
    BY DEF ViewConstantsOK, Msgs
  <2>2. QED
    BY <1>2, <1>4, <2>1 DEF Receive
<1>5. ASSUME NEW s \in sends, Publish(s) PROVE FeedTrue'
  <2>1. s.msg \in Msgs /\ s.grp \in Chats
    BY <1>0, StoreTyped
  <2>2. QED
    BY <1>2, <1>5, <2>1 DEF Publish
<1>6. CASE Subscribe
  <2>1. watch # NoWatch /\ watch' = [watch EXCEPT !.live = TRUE] /\ feed' = feed
    BY <1>6 DEF Subscribe
  <2>2. watch = [grp |-> watch.grp, at |-> watch.at, live |-> watch.live]
    BY <1>0, <2>1, WatchFields DEF Typed
  <2>3. watch' = [grp |-> watch.grp, at |-> watch.at, live |-> TRUE]
    BY <2>1, <2>2
  <2>4. QED
    BY <1>1, <2>1, <2>3
<1>7. CASE ReportAgain
  <2>1. watch' = watch /\ watch.live /\ store' = store
    BY <1>7 DEF ReportAgain, backend
  <2>2. watch # NoWatch
    BY <2>1 DEF NoWatch
  <2>3. watch.grp \in Chats
    BY <1>0, <2>2, WatchFields DEF Typed
  <2>4. ToSet(store[watch.grp]) \subseteq Msgs
    BY <1>0, <2>3, StoreTyped
  <2>5. PICK m \in ToSet(store[watch.grp]) : feed' = Append(feed, m)
    BY <1>7 DEF ReportAgain
  <2>6. ToSet(feed') = ToSet(feed) \cup {m}
    <3>1. m \in Msgs
      BY <2>4
    <3>2. QED
      BY <1>0, <2>5, <3>1, QueueAdds
  <2>7. QED
    BY <2>1, <2>6 DEF FeedTrue
<1>8. CASE WatcherCallback
  <2>1. watch' = watch /\ feed # <<>> /\ feed' = Tail(feed)
    BY <1>8 DEF WatcherCallback
  <2>2. ToSet(feed) = ToSet(Tail(feed)) \cup {Head(feed)}
    BY <1>0, <2>1, QueueDrops
  <2>3. QED
    BY <1>1, <2>1, <2>2
<1>9. CASE RunSelect
  <2>1. feed' = <<>> \/ UNCHANGED watcher
    BY <1>9 DEF RunSelect, Attach
  <2>2. feed' = <<>> => FeedTrue'
    BY DEF FeedTrue, ToSet
  <2>3. QED
    BY <1>3, <2>1, <2>2
<1>10. QED
  BY <1>3, <1>4, <1>5, <1>6, <1>7, <1>8, <1>9, WatchFrame

LEMMA ReportsStep ==
  ASSUME ViewConstantsOK, Core, StoresOnce, ReportsTrue, Next PROVE ReportsTrue'
<1>0. Typed /\ QueueTypes /\ FeedTrue /\ Grown
  BY Grows DEF Core, Typed, ReportsTrue
<1>1. FeedTrue'
  BY <1>0, FeedStep
<1>2. ASSUME NEW c \in Queue PROVE ClosureTrue(c)'
  <2>1. c \in Closure /\ ClosureTrue(c)
    <3>1. Queue \subseteq Closure
      BY <1>0, ElemsIn DEF QueueTypes, Queue
    <3>2. QED
      BY <3>1 DEF ReportsTrue
  <2>2. QED
    BY <1>0, <2>1, ClosureStays
<1>3. ASSUME NEW c \in Queue' PROVE ClosureTrue(c)'
  <2>1. CASE UNCHANGED uiq
    BY <1>2, <1>3, <2>1 DEF Queue
  <2>2. ASSUME NEW d, Sound(d), Post(d) PROVE ClosureTrue(c)'
    <3>1. Queue' = Queue \cup {d}
      BY <1>0, <2>2, PostIs DEF Sound
    <3>2. ClosureTrue(d)'
      BY <1>0, <2>2, OriginTrue
    <3>3. QED
      BY <1>2, <1>3, <3>1, <3>2
  <2>3. ASSUME NEW k, Run(k) PROVE ClosureTrue(c)'
    <3>1. Queue = Queue' \cup {Head(uiq)}
      BY <1>0, <2>3, RunIs
    <3>2. QED
      BY <1>2, <1>3, <3>1
  <2>4. QED
    BY <2>1, <2>2, <2>3, QueueFrame
<1>4. QED
  BY <1>1, <1>3 DEF ReportsTrue

-----------------------------------------------------------------------------
(* The overlay holds what was sent and is not acknowledged yet.            *)

OverlayTrue ==
  /\ \A g \in Chats : IsInjective(overlay[g])
  /\ \A g \in Chats : \A m \in ToSet(overlay[g]) : Sent(m)
  /\ \A s \in sends : s.msg \in ToSet(overlay[s.grp])
AcksTrue ==
  /\ \A c \in Queue : c.kind = "ack" =>
       c.msg \in ToSet(overlay[c.grp]) /\ \A s \in sends : s.msg # c.msg
  /\ \A i, j \in DOMAIN uiq :
       uiq[i].kind = "ack" /\ uiq[j].kind = "ack" /\ uiq[i].msg = uiq[j].msg => i = j

LEMMA ForgetIs ==
  ASSUME Typed, NEW m \in Own, NEW g \in Chats, Forget(m, g)
  PROVE  /\ overlay'[g] = Sublist(overlay[g], Own \ {m})
         /\ \A n : n \in ToSet(overlay'[g]) <=> n \in ToSet(overlay[g]) /\ n # m
         /\ IsInjective(overlay[g]) => IsInjective(overlay'[g])
         /\ \A h \in Chats : h # g => overlay'[h] = overlay[h]
<1>1. overlay \in [Chats -> Seq(Own)] /\ overlay[g] \in Seq(Own) /\ ToSet(overlay[g]) \subseteq Own
  BY StoreTyped DEF Typed, OverlayTypes
<1>2. overlay' = [overlay EXCEPT ![g] = Sublist(@, Own \ {m})]
  BY DEF Forget
<1>3. /\ overlay'[g] = Sublist(overlay[g], Own \ {m})
      /\ \A h \in Chats : h # g => overlay'[h] = overlay[h]
  BY <1>1, <1>2
<1>4. /\ ToSet(Sublist(overlay[g], Own \ {m})) = ToSet(overlay[g]) \cap (Own \ {m})
      /\ IsInjective(overlay[g]) => IsInjective(Sublist(overlay[g], Own \ {m}))
  BY <1>1, SublistElems, SublistOnce
<1>5. \A n : n \in ToSet(overlay'[g]) <=> n \in ToSet(overlay[g]) /\ n # m
  BY <1>1, <1>3, <1>4
<1>6. QED
  BY <1>3, <1>4, <1>5

LEMMA SendOverlay ==
  ASSUME Typed, NEW m \in Own, Send(m)
  PROVE  LET g == ids[open] IN
         /\ g \in Chats /\ overlay'[g] = Append(overlay[g], m)
         /\ ToSet(overlay'[g]) = ToSet(overlay[g]) \cup {m}
         /\ \A h \in Chats : h # g => overlay'[h] = overlay[h]
<1> DEFINE g == ids[open]
<1>1. g \in Chats /\ overlay' = [overlay EXCEPT ![g] = Append(@, m)]
  BY SendFresh
<1> HIDE DEF g
<1>2. overlay \in [Chats -> Seq(Own)] /\ overlay[g] \in Seq(Own)
  BY <1>1, StoreTyped DEF Typed, OverlayTypes
<1>3. overlay'[g] = Append(overlay[g], m) /\ \A h \in Chats : h # g => overlay'[h] = overlay[h]
  BY <1>1, <1>2
<1>4. ToSet(Append(overlay[g], m)) = ToSet(overlay[g]) \cup {m}
  BY <1>2, QueueAdds
<1>5. QED
  BY <1>1, <1>3, <1>4 DEF g

LEMMA RunAckIs ==
  ASSUME Typed, ParallelLists, RunAck
  PROVE  LET c == Head(uiq) IN
         /\ Run("ack") /\ c \in Queue /\ c.kind = "ack" /\ c.grp \in Chats /\ c.msg \in Own
         /\ UNCHANGED overlay \/ Forget(c.msg, c.grp)
         /\ UNCHANGED <<sends, store>>
<1>1. Run("ack") /\ UNCHANGED <<sends, store>>
      /\ (UNCHANGED overlay \/ Forget(Head(uiq).msg, Head(uiq).grp))
  BY DEF RunAck, backend
<1>2. Head(uiq) \in Queue /\ Head(uiq).kind = "ack" /\ Head(uiq).grp \in Chats /\ Head(uiq).msg \in Own
  BY <1>1, HeadIs DEF Typed
<1>3. QED
  BY <1>1, <1>2

LEMMA OverlayKept ==
  ASSUME ViewConstantsOK, Core, OverlayTrue, AcksTrue, Next PROVE OverlayTrue'
<1>0. Typed /\ ParallelLists /\ Grown
  BY Grows DEF Core
<1>1. ASSUME NEW m \in Own, Send(m) PROVE OverlayTrue'
  <2> DEFINE g == ids[open]
  <2>1. ~Sent(m) /\ UNCHANGED store /\ sends' = sends \cup {[msg |-> m, grp |-> g]}
    BY <1>0, <1>1, SendFresh
  <2>2. /\ g \in Chats /\ overlay'[g] = Append(overlay[g], m)
        /\ ToSet(overlay'[g]) = ToSet(overlay[g]) \cup {m}
        /\ \A h \in Chats : h # g => overlay'[h] = overlay[h]
    BY <1>0, <1>1, SendOverlay
  <2> HIDE DEF g
  <2>3. overlay[g] \in Seq(Own) /\ m \notin ToSet(overlay[g]) /\ IsInjective(overlay[g])
    BY <1>0, <2>1, <2>2, StoreTyped DEF OverlayTrue
  <2>4. IsInjective(overlay'[g])
    <3>1. IsInjective(Append(overlay[g], m))
      BY <2>3, AppendOnce
    <3>2. QED
      BY <2>2, <3>1
  <2>5. \A h \in Chats : IsInjective(overlay'[h])
    BY <2>2, <2>4 DEF OverlayTrue
  <2>6. ASSUME NEW h \in Chats, NEW n \in ToSet(overlay'[h]) PROVE Sent(n)'
    <3>1. CASE n \in ToSet(overlay[h])
      BY <1>0, <3>1 DEF OverlayTrue, Grown
    <3>2. CASE n \notin ToSet(overlay[h])
      <4>1. n = m
        BY <2>2, <2>6, <3>2
      <4>2. [msg |-> m, grp |-> g] \in sends' /\ [msg |-> m, grp |-> g].msg = m
        BY <2>1
      <4>3. QED
        BY <4>1, <4>2 DEF Sent
    <3>3. QED
      BY <3>1, <3>2
  <2>7. ASSUME NEW s \in sends' PROVE s.msg \in ToSet(overlay'[s.grp])
    <3>1. CASE s \in sends
      <4>1. s.grp \in Chats /\ s.msg \in ToSet(overlay[s.grp])
        BY <1>0, <3>1, StoreTyped DEF OverlayTrue
      <4>2. QED
        BY <2>2, <4>1
    <3>2. CASE s = [msg |-> m, grp |-> g]
      <4>1. s.msg = m /\ s.grp = g
        BY <3>2
      <4>2. QED
        BY <2>2, <4>1
    <3>3. QED
      BY <2>1, <3>1, <3>2
  <2>8. QED
    BY <2>5, <2>6, <2>7 DEF OverlayTrue
<1>2. CASE RunAck
  <2> DEFINE c == Head(uiq)
  <2>1. /\ c \in Queue /\ c.kind = "ack" /\ c.grp \in Chats /\ c.msg \in Own
        /\ UNCHANGED overlay \/ Forget(c.msg, c.grp)
        /\ UNCHANGED <<sends, store>>
    BY <1>0, <1>2, RunAckIs
  <2>2. \A s \in sends : s.msg # c.msg
    BY <2>1 DEF AcksTrue
  <2> HIDE DEF c
  <2>3. \A m : Sent(m)' <=> Sent(m)
    BY <2>1 DEF Sent
  <2>4. CASE UNCHANGED overlay
    BY <2>1, <2>3, <2>4 DEF OverlayTrue
  <2>5. CASE Forget(c.msg, c.grp)
    <3>1. /\ \A n : n \in ToSet(overlay'[c.grp]) <=> n \in ToSet(overlay[c.grp]) /\ n # c.msg
          /\ IsInjective(overlay[c.grp]) => IsInjective(overlay'[c.grp])
          /\ \A h \in Chats : h # c.grp => overlay'[h] = overlay[h]
      <4>1. Typed /\ c.msg \in Own /\ c.grp \in Chats /\ Forget(c.msg, c.grp)
        BY <1>0, <2>1, <2>5
      <4>2. QED
        BY <4>1, ForgetIs, ZenonT(60)
    <3>2. \A h \in Chats : IsInjective(overlay'[h])
      BY <2>1, <3>1 DEF OverlayTrue
    <3>3. \A h \in Chats : \A n \in ToSet(overlay'[h]) : n \in ToSet(overlay[h])
      BY <2>1, <3>1
    <3>4. ASSUME NEW s \in sends PROVE s.msg \in ToSet(overlay'[s.grp])
      <4>1. s.grp \in Chats /\ s.msg \in ToSet(overlay[s.grp]) /\ s.msg # c.msg
        BY <1>0, <2>2, StoreTyped DEF OverlayTrue
      <4>2. QED
        BY <3>1, <4>1
    <3>5. QED
      BY <2>1, <2>3, <3>2, <3>3, <3>4 DEF OverlayTrue
  <2>6. QED
    BY <2>1, <2>4, <2>5
<1>3. ASSUME UNCHANGED overlay, sends' \subseteq sends PROVE OverlayTrue'
  BY <1>0, <1>3 DEF OverlayTrue, Grown
<1>4. CASE UNCHANGED <<pinned, overlay>>
  <2>1. CASE UNCHANGED sends
    BY <1>3, <1>4, <2>1
  <2>2. ASSUME NEW s \in sends, Resolve(s) PROVE OverlayTrue'
    BY <1>0, <1>3, <2>2, ResolveIs
  <2>3. QED
    BY <1>1, <2>1, <2>2, SendsFrame
<1>5. ASSUME NEW k \in DOMAIN ids, TogglePin(k) PROVE OverlayTrue'
  BY <1>3, <1>5 DEF TogglePin, backend
<1>6. QED
  BY <1>1, <1>2, <1>4, <1>5, OverlayFrame

LEMMA AcksKept ==
  ASSUME ViewConstantsOK, Core, SendsOnce, ReportsTrue, OverlayTrue, AcksTrue, Next
  PROVE  AcksTrue'
<1>0. Typed /\ ParallelLists /\ QueueTypes /\ uiq \in Seq(Closure)
      /\ DOMAIN uiq = 1 .. Len(uiq) /\ Len(uiq) \in Nat
  <2>1. Typed /\ ParallelLists /\ QueueTypes /\ uiq \in Seq(Closure)
    BY DEF Core, Typed, QueueTypes
  <2>2. QED
    BY <2>1
<1>a. ASSUME NEW c \in Queue, c.kind = "ack"
      PROVE  c.grp \in Chats /\ c.msg \in Own /\ Sent(c.msg)
  <2>1. c \in Closure
    BY <1>0, ElemsIn DEF Queue
  <2>2. c.grp \in Chats /\ c.msg \in Own
    BY <1>a, <2>1, ClosureFields
  <2>3. c.msg \in ToSet(store[c.grp])
    BY <1>a DEF ReportsTrue, ClosureTrue
  <2>4. QED
    BY <2>2, <2>3 DEF Sent
<1>1. ASSUME NEW m \in Own, Send(m) PROVE AcksTrue'
  <2> DEFINE g == ids[open]
  <2>1. ~Sent(m) /\ UNCHANGED uiq /\ sends' = sends \cup {[msg |-> m, grp |-> g]}
    BY <1>0, <1>1, SendFresh
  <2>2. /\ g \in Chats /\ ToSet(overlay'[g]) = ToSet(overlay[g]) \cup {m}
        /\ \A h \in Chats : h # g => overlay'[h] = overlay[h]
    BY <1>0, <1>1, SendOverlay
  <2> HIDE DEF g
  <2>3. ASSUME NEW c \in Queue, c.kind = "ack"
        PROVE  c.msg \in ToSet(overlay'[c.grp]) /\ \A s \in sends' : s.msg # c.msg
    <3>1. c.grp \in Chats /\ c.msg # m /\ c.msg \in ToSet(overlay[c.grp])
      BY <1>a, <2>1, <2>3 DEF AcksTrue
    <3>2. c.msg \in ToSet(overlay'[c.grp])
      BY <2>2, <3>1
    <3>3. \A s \in sends' : s \in sends \/ s.msg = m
      BY <2>1
    <3>4. QED
      BY <2>3, <3>1, <3>2, <3>3 DEF AcksTrue
  <2>4. QED
    BY <2>1, <2>3 DEF AcksTrue, Queue
<1>2. CASE RunAck
  <2> DEFINE c == Head(uiq)
  <2>1. /\ Run("ack") /\ c \in Queue /\ c.kind = "ack" /\ c.grp \in Chats /\ c.msg \in Own
        /\ UNCHANGED overlay \/ Forget(c.msg, c.grp)
        /\ UNCHANGED <<sends, store>>
    BY <1>0, <1>2, RunAckIs
  <2>2. /\ uiq' = Tail(uiq) /\ uiq # <<>> /\ c = uiq[1] /\ ToSet(uiq) = ToSet(Tail(uiq)) \cup {c}
        /\ Len(uiq) \in Nat \ {0} /\ DOMAIN Tail(uiq) = 1 .. Len(uiq) - 1
        /\ \A i \in DOMAIN Tail(uiq) : Tail(uiq)[i] = uiq[i + 1] /\ i + 1 \in DOMAIN uiq
    <3>1. uiq' = Tail(uiq) /\ uiq # <<>>
      BY <2>1 DEF Run
    <3>2. QED
      BY <1>0, <3>1, QueueDrops
  <2> HIDE DEF c
  <2>3. \A i \in DOMAIN uiq' : i \in Nat /\ i # 0 /\ uiq'[i] = uiq[i + 1] /\ i + 1 \in DOMAIN uiq
    BY <2>2
  <2>4. ASSUME NEW i \in DOMAIN uiq', uiq'[i].kind = "ack"
        PROVE  /\ uiq'[i].msg # c.msg /\ uiq'[i].msg \in ToSet(overlay'[uiq'[i].grp])
               /\ \A s \in sends' : s.msg # uiq'[i].msg
    <3>1. i + 1 \in DOMAIN uiq /\ 1 \in DOMAIN uiq /\ i + 1 # 1 /\ uiq'[i] = uiq[i + 1]
      BY <1>0, <2>2, <2>3
    <3>2. uiq'[i].msg # c.msg
      BY <2>1, <2>2, <2>4, <3>1 DEF AcksTrue
    <3>3. uiq'[i] \in Queue
      BY <3>1 DEF Queue, ToSet
    <3> DEFINE d == uiq'[i]
    <3> HIDE DEF d
    <3>4. d.grp \in Chats /\ d.msg \in ToSet(overlay[d.grp]) /\ \A s \in sends : s.msg # d.msg
      BY <1>a, <2>4, <3>3 DEF AcksTrue, d
    <3>5. d.msg \in ToSet(overlay'[d.grp])
      <4>1. CASE UNCHANGED overlay
        BY <3>4, <4>1
      <4>2. CASE Forget(c.msg, c.grp)
        <5>1. /\ \A n : n \in ToSet(overlay'[c.grp]) <=> n \in ToSet(overlay[c.grp]) /\ n # c.msg
              /\ \A h \in Chats : h # c.grp => overlay'[h] = overlay[h]
          <6>1. Typed /\ c.msg \in Own /\ c.grp \in Chats /\ Forget(c.msg, c.grp)
            BY <1>0, <2>1, <4>2
          <6>2. QED
            BY <6>1, ForgetIs, ZenonT(60)
        <5>2. QED
          BY <3>2, <3>4, <5>1 DEF d
      <4>3. QED
        BY <2>1, <4>1, <4>2
    <3>6. QED
      BY <2>1, <3>2, <3>4, <3>5 DEF d
  <2>5. \A x \in Queue' : \E i \in DOMAIN uiq' : uiq'[i] = x
    BY DEF Queue, ToSet
  <2>6. ASSUME NEW i \in DOMAIN uiq', NEW j \in DOMAIN uiq', uiq'[i].kind = "ack", uiq'[j].kind = "ack",
               uiq'[i].msg = uiq'[j].msg
        PROVE  i = j
    <3>1. i + 1 = j + 1
      BY <2>3, <2>6 DEF AcksTrue
    <3>2. QED
      BY <2>3, <3>1
  <2>7. \A x \in Queue' : x.kind = "ack" =>
          x.msg \in ToSet(overlay'[x.grp]) /\ \A s \in sends' : s.msg # x.msg
    BY <2>4, <2>5
  <2>8. QED
    BY <2>6, <2>7 DEF AcksTrue
<1>3. ASSUME UNCHANGED <<overlay, sends>>,
             UNCHANGED uiq \/ (\E k : Run(k))
      PROVE  AcksTrue'
  <2>1. CASE UNCHANGED uiq
    BY <1>3, <2>1 DEF AcksTrue, Queue
  <2>2. ASSUME NEW k, Run(k) PROVE AcksTrue'
    <3>1. /\ ToSet(uiq) = ToSet(uiq') \cup {Head(uiq)}
          /\ \A i \in DOMAIN uiq' : i \in Nat /\ uiq'[i] = uiq[i + 1] /\ i + 1 \in DOMAIN uiq
      <4>1. uiq' = Tail(uiq) /\ uiq # <<>>
        BY <2>2 DEF Run
      <4>2. /\ ToSet(uiq) = ToSet(Tail(uiq)) \cup {Head(uiq)}
            /\ DOMAIN Tail(uiq) = 1 .. Len(uiq) - 1
            /\ \A i \in DOMAIN Tail(uiq) : Tail(uiq)[i] = uiq[i + 1] /\ i + 1 \in DOMAIN uiq
        BY <1>0, <4>1, QueueDrops
      <4>3. QED
        BY <4>1, <4>2
    <3>2. ASSUME NEW i \in DOMAIN uiq', NEW j \in DOMAIN uiq', uiq'[i].kind = "ack",
                 uiq'[j].kind = "ack", uiq'[i].msg = uiq'[j].msg
          PROVE  i = j
      <4>1. i + 1 = j + 1
        BY <3>1, <3>2 DEF AcksTrue
      <4>2. QED
        BY <3>1, <4>1
    <3>3. Queue' \subseteq Queue
      BY <3>1 DEF Queue
    <3>4. QED
      BY <1>3, <3>2, <3>3 DEF AcksTrue
  <2>3. QED
    BY <1>3, <2>1, <2>2
<1>4. ASSUME NEW c, Sound(c), Post(c) PROVE AcksTrue'
  <2>1. c \in Closure /\ uiq' = Append(uiq, c) /\ Origin(c)
    BY <1>4 DEF Sound, Post
  <2>2. /\ ToSet(uiq') = ToSet(uiq) \cup {c}
        /\ DOMAIN uiq' = 1 .. Len(uiq) + 1 /\ uiq'[Len(uiq) + 1] = c
        /\ \A i \in DOMAIN uiq : uiq'[i] = uiq[i]
    BY <1>0, <2>1, QueueAdds
  <2>3. \A i \in DOMAIN uiq' : (i \in DOMAIN uiq /\ uiq'[i] = uiq[i]) \/ (i = Len(uiq) + 1 /\ uiq'[i] = c)
    BY <1>0, <2>2
  <2>4. ASSUME UNCHANGED <<overlay, sends>>, c.kind # "ack" PROVE AcksTrue'
    <3>1. \A i \in DOMAIN uiq' : uiq'[i].kind = "ack" => i \in DOMAIN uiq /\ uiq'[i] = uiq[i]
      BY <2>3, <2>4
    <3>2. Queue' = Queue \cup {c}
      BY <2>2 DEF Queue
    <3>3. QED
      BY <2>4, <3>1, <3>2 DEF AcksTrue
  <2>5. ASSUME NEW s \in sends, Resolve(s), c = AckOf(s) PROVE AcksTrue'
    <3>1. UNCHANGED overlay /\ sends' = sends \ {s}
      BY <1>0, <2>5, ResolveIs
    <3>2. c.kind = "ack" /\ c.msg = s.msg /\ c.grp = s.grp
      BY <2>5 DEF AckOf
    <3>3. \A x \in Queue : x.kind = "ack" => x.msg # c.msg
      BY <2>5, <3>2 DEF AcksTrue
    <3>4. \A i \in DOMAIN uiq : uiq[i].kind = "ack" => uiq[i].msg # c.msg
      BY <3>3 DEF Queue, ToSet
    <3>5. ASSUME NEW i \in DOMAIN uiq', NEW j \in DOMAIN uiq', uiq'[i].kind = "ack",
                 uiq'[j].kind = "ack", uiq'[i].msg = uiq'[j].msg
          PROVE  i = j
      BY <2>3, <3>4, <3>5 DEF AcksTrue
    <3>6. c.msg \in ToSet(overlay'[c.grp]) /\ \A t \in sends' : t.msg # c.msg
      BY <2>5, <3>1, <3>2 DEF OverlayTrue, SendsOnce
    <3>7. Queue' = Queue \cup {c}
      BY <2>2 DEF Queue
    <3>8. QED
      BY <3>1, <3>5, <3>6, <3>7 DEF AcksTrue
  <2>6. WatcherCallback => UNCHANGED <<overlay, sends>>
    BY DEF WatcherCallback, backend
  <2>7. \A r : ReadWindow(r) \/ ReadList(r) => UNCHANGED <<overlay, sends>>
    BY DEF ReadWindow, ReadList, backend
  <2>8. c = EchoOf => c.kind # "ack"
    BY DEF EchoOf
  <2>9. \A r : r \in WindowRead /\ c = WindowOf(r) => c.kind # "ack"
    BY DEF WindowOf, WindowRead
  <2>10. \A r : r.kind \in Lists /\ c = ListOf(r) => c.kind # "ack"
    BY DEF ListOf, Lists
  <2>11. CASE c.kind \in {"chat", "pin", "reload"}
    <3>1. c.kind # "ack"
      BY <2>11
    <3>2. CASE UNCHANGED <<pinned, overlay>>
      <4>1. CASE UNCHANGED sends
        BY <2>4, <3>1, <3>2, <4>1
      <4>2. ASSUME NEW s \in sends, Resolve(s) PROVE AcksTrue'
        <5>1. sends' # sends
          BY <1>0, <4>2, ResolveIs
        <5>2. QED
          BY <2>1, <2>4, <2>5, <2>6, <2>7, <3>1, <3>2, <5>1 DEF Origin
      <4>3. QED
        BY <1>1, <4>1, <4>2, SendsFrame
    <3>3. ASSUME NEW k \in DOMAIN ids, TogglePin(k) PROVE AcksTrue'
      BY <2>4, <3>1, <3>3 DEF TogglePin, backend
    <3>4. QED
      BY <1>1, <1>2, <3>2, <3>3, OverlayFrame
  <2>12. QED
    BY <2>1, <2>4, <2>5, <2>6, <2>7, <2>8, <2>9, <2>10, <2>11 DEF Origin
<1>5. CASE UNCHANGED uiq \/ \E k : Run(k)
  <2>1. CASE UNCHANGED <<overlay, sends>>
    BY <1>3, <1>5, <2>1
  <2>2. ASSUME NEW s \in sends, Resolve(s) PROVE AcksTrue'
    <3>1. uiq' = Append(uiq, AckOf(s))
      BY <2>2 DEF Resolve, Post, AckOf
    <3>2. AckOf(s) \in Closure /\ Sound(AckOf(s)) /\ Post(AckOf(s))
      <4>1. s.grp \in Chats /\ s.msg \in Own /\ store[s.grp] \in Seq(Msgs)
        BY <1>0, StoreTyped
      <4>2. AckOf(s) \in Closure /\ AckOf(s).kind = "ack"
        BY <4>1 DEF AckOf, Closure
      <4>3. QED
        BY <2>2, <3>1, <4>2 DEF Sound, Origin, Post, Lists
    <3>3. QED
      BY <1>4, <3>2
  <2>3. ASSUME NEW k \in DOMAIN ids, TogglePin(k) PROVE UNCHANGED <<overlay, sends>>
    BY <2>3 DEF TogglePin, backend
  <2>4. QED
    BY <1>1, <1>2, <2>1, <2>2, <2>3, OverlayFrame, SendsFrame
<1>6. QED
  BY <1>4, <1>5, QueueFrame

-----------------------------------------------------------------------------
(* Rows tell what was sent and stored, and each of them once.              *)

RowTrue(r) == IF r.pending THEN Sent(r.msg) ELSE r.msg \in ToSet(store[r.grp])
OnceIn(l)  == \A i, j \in DOMAIN l : l[i] = l[j] => i = j \/ l[i].msg \in early
EarlyIn(l) == \A g \in Chats : \A m \in ToSet(overlay[g]) :
                PendingRow(m, g) \in ToSet(l) /\ Record(m, g) \in ToSet(l) => m \in early
ListOk(l)  == (\A r \in ToSet(l) : RowTrue(r)) /\ OnceIn(l) /\ EarlyIn(l)
RowsOk     == \A l \in ToSet(rows) : ListOk(l)

LEMMA RowTrueIs ==
  ASSUME NEW m \in Msgs, NEW g \in Chats
  PROVE  /\ RowTrue(Record(m, g)) <=> m \in ToSet(store[g])
         /\ RowTrue(PendingRow(m, g)) <=> Sent(m)
BY RowFields DEF RowTrue

(* A list that no step touches stays right.                                *)
LEMMA OldList ==
  ASSUME ViewConstantsOK, Core, NEW l \in Seq(Row), ListOk(l), Next
  PROVE  ListOk(l)'
<1>0. Typed /\ ParallelLists /\ Grown /\ ToSet(l) \subseteq Row
  BY Grows, ElemsIn DEF Core
<1>1. ASSUME NEW r \in ToSet(l) PROVE RowTrue(r)'
  <2>1. RowTrue(r) /\ r.grp \in Chats
    BY <1>0, RowShape DEF ListOk
  <2>2. CASE r.pending
    BY <1>0, <2>1, <2>2 DEF RowTrue, Grown
  <2>3. CASE ~r.pending
    BY <1>0, <2>1, <2>3 DEF RowTrue, Grown
  <2>4. QED
    BY <2>2, <2>3
<1>2. OnceIn(l)'
  BY <1>0 DEF ListOk, OnceIn, Grown
<1>3. ASSUME \A g \in Chats : \A m \in ToSet(overlay'[g]) :
               m \in ToSet(overlay[g]) \/ PendingRow(m, g) \notin ToSet(l)
      PROVE  EarlyIn(l)'
  BY <1>0, <1>3 DEF ListOk, EarlyIn, Grown
<1>4. ASSUME NEW m \in Own, Send(m) PROVE EarlyIn(l)'
  <2> DEFINE g == ids[open]
  <2>1. /\ ~Sent(m) /\ g \in Chats /\ ToSet(overlay'[g]) = ToSet(overlay[g]) \cup {m}
        /\ \A h \in Chats : h # g => overlay'[h] = overlay[h]
    BY <1>0, <1>4, SendFresh, SendOverlay
  <2> HIDE DEF g
  <2>2. PendingRow(m, g) \notin ToSet(l)
    <3>1. m \in Msgs
      BY DEF Msgs
    <3>2. QED
      BY <2>1, <3>1, RowTrueIs DEF ListOk
  <2>3. QED
    BY <1>3, <2>1, <2>2
<1>5. ASSUME RunAck PROVE EarlyIn(l)'
  <2>1. \A g \in Chats : \A m \in ToSet(overlay'[g]) : m \in ToSet(overlay[g])
    <3> DEFINE c == Head(uiq)
    <3>1. c.grp \in Chats /\ c.msg \in Own /\ (UNCHANGED overlay \/ Forget(c.msg, c.grp))
      BY <1>0, <1>5, RunAckIs
    <3> HIDE DEF c
    <3>2. CASE UNCHANGED overlay
      BY <3>2
    <3>3. CASE Forget(c.msg, c.grp)
      <4>1. /\ \A n : n \in ToSet(overlay'[c.grp]) <=> n \in ToSet(overlay[c.grp]) /\ n # c.msg
            /\ \A h \in Chats : h # c.grp => overlay'[h] = overlay[h]
        <5>1. Typed /\ c.msg \in Own /\ c.grp \in Chats /\ Forget(c.msg, c.grp)
          BY <1>0, <3>1, <3>3
        <5>2. QED
          BY <5>1, ForgetIs, ZenonT(60)
      <4>2. QED
        BY <4>1
    <3>4. QED
      BY <3>1, <3>2, <3>3
  <2>2. QED
    BY <1>3, <2>1
<1>6. UNCHANGED overlay => EarlyIn(l)'
  BY <1>3
<1>7. EarlyIn(l)'
  BY <1>4, <1>5, <1>6, OverlayFrame DEF TogglePin
<1>8. QED
  BY <1>1, <1>2, <1>7 DEF ListOk

LEMMA EmptyOk == ASSUME TRUE PROVE ListOk(<<>>)'
<1>1. ToSet(<<>>) = {} /\ DOMAIN <<>> = {}
  BY DEF ToSet
<1>2. QED
  BY <1>1 DEF ListOk, OnceIn, EarlyIn

(* The bubble of a new message.                                            *)
LEMMA BubbleOk ==
  ASSUME ViewConstantsOK, Core, NEW m \in Own, Send(m), NEW l \in Seq(Row), ListOk(l),
         NEW g, g = ids[open]
  PROVE  ListOk(Append(l, PendingRow(m, g)))'
<1> DEFINE t == PendingRow(m, g)
           a == Append(l, t)
<1>0. Typed /\ m \in Msgs /\ Grown /\ Next
  <2>1. Next
    BY DEF Next, User
  <2>2. QED
    BY <2>1, Grows DEF Core, Msgs
<1>1. /\ ~Sent(m) /\ g \in Chats /\ ToSet(overlay'[g]) = ToSet(overlay[g]) \cup {m}
      /\ \A h \in Chats : h # g => overlay'[h] = overlay[h]
      /\ sends' = sends \cup {[msg |-> m, grp |-> g]}
      /\ UNCHANGED <<store, early>>
  BY <1>0, SendFresh, SendOverlay
<1>2. t \in Row /\ t.msg = m /\ t.grp = g /\ t.pending
  BY <1>0, <1>1, RowFields
<1>3. t \notin ToSet(l)
  BY <1>0, <1>1, RowTrueIs DEF ListOk
<1>s. Sent(m)'
  <2>1. [msg |-> m, grp |-> g] \in sends' /\ [msg |-> m, grp |-> g].msg = m
    BY <1>1
  <2>2. QED
    BY <2>1 DEF Sent
<1>t. RowTrue(t)'
  BY <1>2, <1>s DEF RowTrue
<1>o. \A h \in Chats : Record(m, h) \notin ToSet(l)
  BY <1>0, <1>1, RowTrueIs DEF ListOk, Sent
<1>p. \A h \in Chats : \A n \in ToSet(overlay[h]) : PendingRow(n, h) = t => n = m
  <2>1. \A h \in Chats : ToSet(overlay[h]) \subseteq Own
    BY <1>0, StoreTyped
  <2>2. \A h \in Chats : \A n \in ToSet(overlay[h]) : n \in Msgs
    BY <2>1 DEF Msgs
  <2>3. ASSUME NEW h \in Chats, NEW n \in Msgs, PendingRow(n, h) = t PROVE n = m
    <3>1. PendingRow(n, h).msg = n
      BY RowFields
    <3>2. QED
      BY <1>2, <2>3, <3>1
  <2>4. QED
    BY <2>2, <2>3
<1>q. \A h \in Chats : \A n \in Msgs : Record(n, h) # t
  BY <1>2, RowFields
<1>w. \A h \in Chats : ToSet(overlay[h]) \subseteq Msgs
  BY <1>0, StoreTyped DEF Msgs
<1> HIDE DEF t
<1>4. /\ ToSet(a) = ToSet(l) \cup {t} /\ DOMAIN a = 1 .. Len(l) + 1 /\ a[Len(l) + 1] = t
      /\ \A i \in DOMAIN l : a[i] = l[i]
      /\ DOMAIN l = 1 .. Len(l) /\ Len(l) \in Nat
  BY <1>2, QueueAdds
<1> HIDE DEF a
<1>5. ASSUME NEW r \in ToSet(a) PROVE RowTrue(r)'
  <2>1. CASE r \in ToSet(l)
    <3>1. ListOk(l)'
      BY <1>0, OldList
    <3>2. QED
      BY <2>1, <3>1 DEF ListOk
  <2>2. QED
    BY <1>4, <1>t, <1>5, <2>1
<1>6. OnceIn(a)'
  <2> SUFFICES ASSUME NEW i \in DOMAIN a, NEW j \in DOMAIN a, a[i] = a[j]
               PROVE  i = j \/ a[i].msg \in early'
    BY DEF OnceIn
  <2>0. \A n \in Nat : \A k \in 1 .. n + 1 : k \in 1 .. n \/ k = n + 1
    OBVIOUS
  <2>1. \A k \in DOMAIN a : k \in DOMAIN l \/ k = Len(l) + 1
    BY <1>4, <2>0
  <2>2. \A k \in DOMAIN l : a[k] # t
    BY <1>3, <1>4 DEF ToSet
  <2>3. QED
    BY <1>1, <1>4, <2>1, <2>2 DEF ListOk, OnceIn
<1>7. EarlyIn(a)'
  <2> SUFFICES ASSUME NEW h \in Chats, NEW n \in ToSet(overlay'[h]),
                      PendingRow(n, h) \in ToSet(a), Record(n, h) \in ToSet(a)
               PROVE  n \in early'
    BY DEF EarlyIn
  <2>1. n \in ToSet(overlay[h]) \/ n = m
    BY <1>1
  <2>2. n \in Msgs /\ Record(n, h) \in ToSet(l)
    BY <1>0, <1>4, <1>q, <1>w, <2>1
  <2>3. n # m
    BY <1>o, <2>2
  <2>4. PendingRow(n, h) \in ToSet(l)
    BY <1>4, <1>p, <2>1, <2>3
  <2>5. QED
    BY <1>1, <2>1, <2>2, <2>3, <2>4 DEF ListOk, EarlyIn
<1>8. ListOk(a)'
  BY <1>5, <1>6, <1>7 DEF ListOk
<1>9. QED
  BY <1>8 DEF a, t

(* A rebuilt list.                                                         *)
LEMMA RebuildOk ==
  ASSUME ViewConstantsOK, Core, OverlayTrue', NEW g \in Chats, NEW snap \in Seq(Msgs),
         IsInjective(snap), ToSet(snap) \subseteq ToSet(store'[g]), overlay' \in [Chats -> Seq(Own)],
         NoteRebuild(g, snap), NEW over, over = overlay'[g]
  PROVE  ListOk(Recorded(g, snap) \o Pended(g, over))'
<1> DEFINE l == Recorded(g, snap) \o Pended(g, over)
<1>0. over \in Seq(Own) /\ IsInjective(over) /\ \A m \in ToSet(over) : Sent(m)'
  BY DEF OverlayTrue
<1>n. early' = early \cup (ToSet(snap) \cap ToSet(over))
  BY DEF NoteRebuild
<1>a. ToSet(over) \subseteq Own /\ ToSet(snap) \subseteq Msgs
  BY <1>0, ElemsIn
<1>b. \A m \in Own : m \in Msgs
  BY DEF Msgs
<1>v. \A h \in Chats : ToSet(overlay'[h]) \subseteq Own
  <2>1. \A h \in Chats : overlay'[h] \in Seq(Own)
    OBVIOUS
  <2>2. QED
    BY <2>1, ElemsIn
<1>1. /\ \A r : r \in ToSet(l) <=> \/ \E m \in ToSet(snap) : r = Record(m, g)
                                   \/ \E m \in ToSet(over) : r = PendingRow(m, g)
      /\ IsInjective(l)
  BY <1>0, RebuildElems
<1> HIDE DEF l
<1>2. ASSUME NEW r \in ToSet(l) PROVE RowTrue(r)'
  <2>1. ASSUME NEW m \in ToSet(snap), r = Record(m, g) PROVE RowTrue(r)'
    <3>1. ~r.pending /\ r.msg = m /\ r.grp = g
      BY <1>a, <2>1, RowFields
    <3>2. QED
      BY <3>1 DEF RowTrue
  <2>2. ASSUME NEW m \in ToSet(over), r = PendingRow(m, g) PROVE RowTrue(r)'
    <3>1. r.pending /\ r.msg = m
      BY <1>a, <1>b, <2>2, RowFields
    <3>2. QED
      BY <1>0, <3>1 DEF RowTrue
  <2>3. QED
    BY <1>1, <1>2, <2>1, <2>2
<1>3. OnceIn(l)'
  BY <1>1 DEF OnceIn, IsInjective
<1>4. EarlyIn(l)'
  <2> SUFFICES ASSUME NEW h \in Chats, NEW n \in ToSet(overlay'[h]),
                      PendingRow(n, h) \in ToSet(l), Record(n, h) \in ToSet(l)
               PROVE  n \in early'
    BY DEF EarlyIn
  <2>1. n \in Msgs
    BY <1>b, <1>v
  <2>2. \A m \in ToSet(over) : m \in Msgs /\ Record(n, h) # PendingRow(m, g)
    <3>1. ASSUME NEW m \in Msgs PROVE Record(n, h) # PendingRow(m, g)
      BY <2>1, RowFields
    <3>2. QED
      BY <1>a, <1>b, <3>1
  <2>3. PICK m \in ToSet(snap) : Record(n, h) = Record(m, g)
    BY <1>1, <2>2
  <2>4. h = g /\ m = n
    <3>1. m \in Msgs
      BY <1>a
    <3>2. Record(m, g).msg = m /\ Record(m, g).grp = g
      BY <3>1, RowFields
    <3>3. Record(n, h).msg = n /\ Record(n, h).grp = h
      BY <2>1, RowFields
    <3>4. QED
      BY <2>3, <3>2, <3>3
  <2>5. QED
    BY <1>n, <2>3, <2>4
<1>5. ListOk(l)'
  BY <1>2, <1>3, <1>4 DEF ListOk
<1>6. QED
  BY <1>5 DEF l

(* Only the records, after a full refresh.                                 *)
LEMMA SnapshotOk ==
  ASSUME Core, NEW g \in Chats, NEW snap \in Seq(Msgs), IsInjective(snap),
         ToSet(snap) \subseteq ToSet(store'[g]), overlay' \in [Chats -> Seq(Own)]
  PROVE  ListOk(Recorded(g, snap))'
<1> DEFINE l == Recorded(g, snap)
<1>1. /\ \A r : r \in ToSet(l) <=> \E m \in ToSet(snap) : r = Record(m, g)
      /\ IsInjective(l)
  BY RecordedElems
<1>2. ToSet(snap) \subseteq Msgs
  BY ElemsIn
<1> HIDE DEF l
<1>3. ASSUME NEW r \in ToSet(l) PROVE RowTrue(r)' /\ ~r.pending
  <2>1. PICK m \in ToSet(snap) : r = Record(m, g)
    BY <1>1, <1>3
  <2>2. ~r.pending /\ r.msg = m /\ r.grp = g
    BY <1>2, <2>1, RowFields
  <2>3. QED
    BY <2>1, <2>2 DEF RowTrue
<1>4. OnceIn(l)'
  BY <1>1 DEF OnceIn, IsInjective
<1>5. EarlyIn(l)'
  <2>1. \A h \in Chats : overlay'[h] \in Seq(Own)
    OBVIOUS
  <2>2. \A h \in Chats : \A n \in ToSet(overlay'[h]) : n \in Msgs
    BY <2>1, ElemsIn DEF Msgs
  <2>3. \A h \in Chats : \A n \in ToSet(overlay'[h]) : PendingRow(n, h) \notin ToSet(l)
    BY <1>3, <2>2, RowFields
  <2>4. QED
    BY <2>3 DEF EarlyIn
<1>6. ListOk(l)'
  BY <1>3, <1>4, <1>5 DEF ListOk
<1>7. QED
  BY <1>6 DEF l

(* The row of an echo.                                                     *)
LEMMA EchoOk ==
  ASSUME ViewConstantsOK, Core, Next, NEW m \in Msgs, NEW g \in Chats, NEW l \in Seq(Row),
         ListOk(l), m \in ToSet(store[g]), Record(m, g) \notin ToSet(l), UNCHANGED overlay,
         early' = early \cup ({m} \cap ToSet(overlay[g]))
  PROVE  ListOk(Append(l, Record(m, g)))'
<1> DEFINE t == Record(m, g)
           a == Append(l, t)
<1>0. Typed /\ Grown
  BY Grows DEF Core
<1>2. t \in Row /\ t.msg = m /\ t.grp = g /\ ~t.pending /\ t \notin ToSet(l)
  BY RowFields
<1>t. RowTrue(t)'
  BY <1>0, <1>2 DEF RowTrue, Grown
<1>w. \A h \in Chats : ToSet(overlay[h]) \subseteq Msgs
  BY <1>0, StoreTyped DEF Msgs
<1>q. \A h \in Chats : \A n \in Msgs : PendingRow(n, h) # t /\ (Record(n, h) = t => n = m /\ h = g)
  BY <1>2, RowFields
<1> HIDE DEF t
<1>4. /\ ToSet(a) = ToSet(l) \cup {t} /\ DOMAIN a = 1 .. Len(l) + 1 /\ a[Len(l) + 1] = t
      /\ \A i \in DOMAIN l : a[i] = l[i]
      /\ DOMAIN l = 1 .. Len(l) /\ Len(l) \in Nat
  BY <1>2, QueueAdds
<1> HIDE DEF a
<1>o. ListOk(l)'
  BY OldList
<1>5. \A r \in ToSet(a) : RowTrue(r)'
  BY <1>4, <1>o, <1>t DEF ListOk
<1>6. OnceIn(a)'
  <2> SUFFICES ASSUME NEW i \in DOMAIN a, NEW j \in DOMAIN a, a[i] = a[j]
               PROVE  i = j \/ a[i].msg \in early'
    BY DEF OnceIn
  <2>0. \A n \in Nat : \A k \in 1 .. n + 1 : k \in 1 .. n \/ k = n + 1
    OBVIOUS
  <2>1. \A k \in DOMAIN a : k \in DOMAIN l \/ k = Len(l) + 1
    BY <1>4, <2>0
  <2>2. \A k \in DOMAIN l : a[k] # t
    BY <1>2, <1>4 DEF ToSet
  <2>3. QED
    BY <1>o, <1>4, <2>1, <2>2 DEF ListOk, OnceIn
<1>7. EarlyIn(a)'
  <2> SUFFICES ASSUME NEW h \in Chats, NEW n \in ToSet(overlay[h]),
                      PendingRow(n, h) \in ToSet(a), Record(n, h) \in ToSet(a)
               PROVE  n \in early'
    BY DEF EarlyIn
  <2>1. n \in Msgs /\ PendingRow(n, h) \in ToSet(l)
    BY <1>4, <1>q, <1>w
  <2>2. CASE Record(n, h) \in ToSet(l)
    BY <1>o, <2>1, <2>2 DEF ListOk, EarlyIn
  <2>3. CASE Record(n, h) = t
    BY <1>q, <2>1, <2>3
  <2>4. QED
    BY <1>4, <2>2, <2>3
<1>8. ListOk(a)'
  BY <1>5, <1>6, <1>7 DEF ListOk
<1>9. QED
  BY <1>8 DEF a, t

(* The acknowledged bubble.                                                *)
LEMMA SwapOk ==
  ASSUME ViewConstantsOK, Core, Next, NEW c, c.msg \in Own, c.grp \in Chats,
         c.msg \in ToSet(store[c.grp]), c.msg \in ToSet(overlay[c.grp]), Forget(c.msg, c.grp),
         NEW l \in Seq(Row), ListOk(l), AckRow(c) \in ToSet(l)
  PROVE  ListOk(Swapped(l, c))'
<1> DEFINE k == Spot(l, AckRow(c))  t == Record(c.msg, c.grp)  b == Swapped(l, c)
<1>0. Typed /\ Grown /\ c.msg \in Msgs
  BY Grows DEF Core, Msgs
<1>1. k \in DOMAIN l /\ l[k] = AckRow(c)
  BY SpotFinds
<1>2. t.msg = c.msg /\ t.grp = c.grp /\ ~t.pending
  BY <1>0, RowFields
<1>q. \A h \in Chats : \A n \in Msgs : PendingRow(n, h) # t /\ (Record(n, h) = t => n = c.msg /\ h = c.grp)
  BY <1>0, RowFields
<1>t. RowTrue(t)'
  BY <1>0, <1>2 DEF RowTrue, Grown
<1>3. b = [l EXCEPT ![k] = t]
  BY DEF Swapped
<1> HIDE DEF k, t
<1>4. DOMAIN b = DOMAIN l /\ b[k] = t /\ \A i \in DOMAIN l : i # k => b[i] = l[i]
  BY <1>1, <1>3
<1> HIDE DEF b
<1>5. \A r \in ToSet(b) : r \in ToSet(l) \/ r = t
  BY <1>1, <1>4 DEF ToSet
<1>o. ListOk(l)'
  BY OldList
<1>6. \A r \in ToSet(b) : RowTrue(r)'
  BY <1>5, <1>o, <1>t DEF ListOk
<1>7. OnceIn(b)'
  <2> SUFFICES ASSUME NEW i \in DOMAIN l, NEW j \in DOMAIN l, b[i] = b[j]
               PROVE  i = j \/ b[i].msg \in early'
    BY <1>4 DEF OnceIn
  <2>1. ASSUME t \in ToSet(l) PROVE c.msg \in early'
    <3>1. AckRow(c) = PendingRow(c.msg, c.grp) /\ t = Record(c.msg, c.grp)
      BY DEF AckRow, t
    <3>2. c.msg \in early
      BY <2>1, <3>1 DEF ListOk, EarlyIn
    <3>3. QED
      BY <1>0, <3>2 DEF Grown
  <2>2. CASE i # k /\ j # k
    BY <1>4, <1>o, <2>2 DEF ListOk, OnceIn
  <2>3. CASE i = k /\ j # k
    <3>1. t \in ToSet(l) /\ b[i] = t
      BY <1>4, <2>3 DEF ToSet
    <3>2. QED
      BY <1>2, <2>1, <3>1
  <2>4. CASE i # k /\ j = k
    <3>1. t \in ToSet(l) /\ b[i] = t
      BY <1>4, <2>4 DEF ToSet
    <3>2. QED
      BY <1>2, <2>1, <3>1
  <2>5. QED
    BY <2>2, <2>3, <2>4
<1>8. EarlyIn(b)'
  <2> SUFFICES ASSUME NEW h \in Chats, NEW n \in ToSet(overlay'[h]),
                      PendingRow(n, h) \in ToSet(b), Record(n, h) \in ToSet(b)
               PROVE  n \in early'
    BY DEF EarlyIn
  <2>1. /\ \A m : m \in ToSet(overlay'[c.grp]) <=> m \in ToSet(overlay[c.grp]) /\ m # c.msg
        /\ \A i \in Chats : i # c.grp => overlay'[i] = overlay[i]
    BY <1>0, ForgetIs, ZenonT(60)
  <2>2. n \in ToSet(overlay[h]) /\ ~(n = c.msg /\ h = c.grp)
    BY <2>1
  <2>3. n \in Msgs
    <3>1. ToSet(overlay[h]) \subseteq Own
      BY <1>0, StoreTyped
    <3>2. QED
      BY <2>2, <3>1 DEF Msgs
  <2>4. PendingRow(n, h) \in ToSet(l) /\ Record(n, h) \in ToSet(l)
    BY <1>5, <1>q, <2>2, <2>3
  <2>5. QED
    BY <1>o, <2>4 DEF ListOk, EarlyIn
<1>9. ListOk(b)'
  BY <1>6, <1>7, <1>8 DEF ListOk
<1>10. QED
  BY <1>9 DEF b

LEMMA ReplacedIn ==
  ASSUME rows \in Seq(Seq(Row)), NEW k, NEW list \in Seq(Row), Replace(k, list)
  PROVE  \A l \in ToSet(rows') : l \in ToSet(rows) \/ (k \in DOMAIN rows /\ l = list)
<1>1. /\ DOMAIN rows' = DOMAIN rows
      /\ \A j \in DOMAIN rows : rows'[j] = IF j = k THEN list ELSE rows[j]
  BY ReplaceIs
<1>2. QED
  BY <1>1 DEF ToSet

LEMMA RowsStep ==
  ASSUME ViewConstantsOK, Core, StoresOnce, ReportsTrue, OverlayTrue, OverlayTrue', AcksTrue, RowsOk,
         Typed', Next
  PROVE  RowsOk'
<1>0. /\ Typed /\ ParallelLists /\ Grown /\ rows \in Seq(Seq(Row)) /\ ids \in Seq(Chats)
      /\ overlay' \in [Chats -> Seq(Own)] /\ Len(rows) = Len(ids)
      /\ \A c \in Queue : ClosureTrue(c)
  BY Grows DEF Core, Typed, ListTypes, OverlayTypes, ParallelLists, ReportsTrue
<1>a. \A l \in ToSet(rows) : l \in Seq(Row) /\ ListOk(l) /\ ListOk(l)'
  <2>1. ToSet(rows) \subseteq Seq(Row)
    BY <1>0, ElemsIn
  <2>2. QED
    BY <2>1, OldList DEF RowsOk
<1>b. \A k \in DOMAIN rows : rows[k] \in ToSet(rows)
  BY DEF ToSet
<1>c. ASSUME NEW k, NEW list \in Seq(Row), Replace(k, list), k \in DOMAIN rows => ListOk(list)'
      PROVE  RowsOk'
  <2>1. \A l \in ToSet(rows') : l \in ToSet(rows) \/ (k \in DOMAIN rows /\ l = list)
    BY <1>0, <1>c, ReplacedIn
  <2>2. QED
    BY <1>a, <1>c, <2>1 DEF RowsOk
<1>d. ASSUME \A l \in ToSet(rows') : l \in ToSet(rows) \/ l = <<>> PROVE RowsOk'
  BY <1>a, <1>d, EmptyOk DEF RowsOk
<1>1. CASE UNCHANGED rows
  BY <1>d, <1>1
<1>2. ASSUME NEW m \in Own, Send(m) PROVE RowsOk'
  <2> DEFINE g == ids[open]  l == Append(rows[open], PendingRow(m, g))
  <2>1. open \in DOMAIN ids /\ g \in Chats /\ Replace(open, l)
    BY <1>0, <1>2, SendFresh
  <2>2. open \in DOMAIN rows
    BY <1>0, <2>1
  <2>3. rows[open] \in Seq(Row) /\ ListOk(rows[open])
    BY <1>a, <1>b, <2>2
  <2>4. ASSUME NEW x, x = l PROVE ListOk(x)' /\ x \in Seq(Row)
    <3>1. PICK p : p = rows[open]
      OBVIOUS
    <3>2. PICK h : h = g
      OBVIOUS
    <3>3. p \in Seq(Row) /\ ListOk(p)
      BY <1>a, <1>b, <2>2, <3>1
    <3>4. ListOk(Append(p, PendingRow(m, h)))'
      BY <1>2, <3>2, <3>3, BubbleOk
    <3>5. x = Append(p, PendingRow(m, h)) /\ PendingRow(m, h) \in Row
      BY <2>1, <2>4, <3>1, <3>2, RowFields DEF Msgs
    <3>6. QED
      BY <3>3, <3>4, <3>5
  <2> HIDE DEF l
  <2>5. PICK x : x = l
    OBVIOUS
  <2>6. QED
    BY <1>c, <2>1, <2>4, <2>5
<1>3. CASE Archive
  <2>1. rows' = RemoveAt(rows, open) /\ open \in DOMAIN ids
    BY <1>3 DEF Archive, Opened
  <2>2. open \in DOMAIN rows
    BY <1>0, <2>1
  <2>3. /\ RemoveAt(rows, open) \in Seq(Seq(Row)) /\ Len(RemoveAt(rows, open)) = Len(rows) - 1
        /\ Len(rows) \in Nat \ {0}
        /\ \A i \in 1 .. Len(rows) - 1 :
             /\ RemoveAt(rows, open)[i] = rows[IF i < open THEN i ELSE i + 1]
             /\ (IF i < open THEN i ELSE i + 1) \in DOMAIN rows
    BY <1>0, <2>2, RemoveIs
  <2>4. DOMAIN rows' = 1 .. Len(rows) - 1 /\ \A i \in DOMAIN rows' : \E j \in DOMAIN rows : rows'[i] = rows[j]
    <3>1. DOMAIN rows' = 1 .. Len(rows) - 1
      BY <2>1, <2>3
    <3>2. ASSUME NEW i \in DOMAIN rows' PROVE \E j \in DOMAIN rows : rows'[i] = rows[j]
      <4>1. i \in 1 .. Len(rows) - 1
        BY <3>1
      <4>2. PICK j : j = IF i < open THEN i ELSE i + 1
        OBVIOUS
      <4>3. j \in DOMAIN rows /\ rows'[i] = rows[j]
        BY <2>1, <2>3, <4>1, <4>2
      <4>4. QED
        BY <4>3
    <3>3. QED
      BY <3>1, <3>2
  <2>5. \A l \in ToSet(rows') : l \in ToSet(rows)
    BY <2>4 DEF ToSet
  <2>6. QED
    BY <1>d, <2>5
<1>4. CASE RunSelect \/ RunOlder
  <2> DEFINE c == Head(uiq)  l == Recorded(c.grp, c.snap) \o Pended(c.grp, overlay[c.grp])
  <2>1. /\ c \in Queue /\ c.kind \in Rebuilds /\ c.grp \in Chats /\ c.snap \in Seq(Msgs)
        /\ overlay[c.grp] \in Seq(Own) /\ UNCHANGED overlay
        /\ l \in Seq(Row) /\ Replace(c.at, l) /\ NoteRebuild(c.grp, c.snap)
    BY <1>0, <1>4, RebuildIs
  <2>2. IsInjective(c.snap) /\ ToSet(c.snap) \subseteq ToSet(store'[c.grp])
    BY <1>0, <2>1 DEF ClosureTrue, Grown
  <2>3. ASSUME NEW x, x = l PROVE ListOk(x)'
    <3>1. PICK g, snap, over : g = c.grp /\ snap = c.snap /\ over = overlay[g]
      OBVIOUS
    <3>2. g \in Chats /\ snap \in Seq(Msgs) /\ IsInjective(snap) /\ ToSet(snap) \subseteq ToSet(store'[g])
          /\ over = overlay'[g] /\ NoteRebuild(g, snap)
      BY <2>1, <2>2, <3>1
    <3>3. ListOk(Recorded(g, snap) \o Pended(g, over))'
      BY <1>0, <3>2, RebuildOk
    <3>4. x = Recorded(g, snap) \o Pended(g, over)
      BY <2>3, <3>1
    <3>5. QED
      BY <3>3, <3>4
  <2> HIDE DEF l, c
  <2>4. PICK x : x = l
    OBVIOUS
  <2>5. QED
    BY <1>c, <2>1, <2>3, <2>4
<1>5. CASE RunEcho
  <2> DEFINE c == Head(uiq)
  <2>1. Run("echo") /\ UNCHANGED overlay
        /\ (IF c.at \in DOMAIN rows THEN AppendEcho(c) ELSE UNCHANGED rows)
        /\ early' = early \cup ({c.msg} \cap ToSet(overlay[c.grp]))
    BY <1>5 DEF RunEcho
  <2>2. c \in Queue /\ c.kind = "echo" /\ c.grp \in Chats /\ c.msg \in Msgs
    BY <1>0, <2>1, HeadIs DEF Typed
  <2>3. c.msg \in ToSet(store[c.grp])
    BY <1>0, <2>2 DEF ClosureTrue
  <2> HIDE DEF c
  <2>4. CASE c.at \notin DOMAIN rows
    BY <1>1, <2>1, <2>4
  <2>5. CASE c.at \in DOMAIN rows
    <3> DEFINE r == Record(c.msg, c.grp)
               l == IF r \in ToSet(rows[c.at]) THEN rows[c.at] ELSE Append(rows[c.at], r)
    <3>1. r \in Row
      BY <2>2, RowFields
    <3>2. rows[c.at] \in Seq(Row) /\ Replace(c.at, l)
      BY <1>0, <2>1, <2>5, <3>1, EchoIs DEF AppendEcho, Typed
    <3>3. l \in Seq(Row)
      BY <3>1, <3>2
    <3>4. ASSUME NEW x, x = l PROVE ListOk(x)'
      <4>1. PICK p, m, g : p = rows[c.at] /\ m = c.msg /\ g = c.grp
        OBVIOUS
      <4>2. /\ p \in Seq(Row) /\ ListOk(p) /\ ListOk(p)' /\ m \in Msgs /\ g \in Chats
            /\ m \in ToSet(store[g])
            /\ early' = early \cup ({m} \cap ToSet(overlay[g]))
        BY <1>a, <1>b, <2>1, <2>2, <2>3, <2>5, <4>1
      <4>3. CASE Record(m, g) \in ToSet(p)
        <5>1. x = p
          BY <3>4, <4>1, <4>3
        <5>2. QED
          BY <4>2, <5>1
      <4>4. CASE Record(m, g) \notin ToSet(p)
        <5>1. ListOk(Append(p, Record(m, g)))'
          BY <2>1, <4>2, <4>4, EchoOk
        <5>2. x = Append(p, Record(m, g))
          BY <3>4, <4>1, <4>4
        <5>3. QED
          BY <5>1, <5>2
      <4>5. QED
        BY <4>3, <4>4
    <3> HIDE DEF l
    <3>5. PICK x : x = l
      OBVIOUS
    <3>6. QED
      BY <1>c, <3>2, <3>3, <3>4, <3>5
  <2>6. QED
    BY <2>4, <2>5
<1>6. CASE RunAck
  <2> DEFINE c == Head(uiq)  at == Position(c.grp)
  <2>1. /\ Run("ack") /\ c.grp \in Chats /\ c.msg \in Own /\ c.msg \in Msgs /\ c.snap \in Seq(Msgs)
        /\ \/ UNCHANGED rows
           \/ /\ at \in DOMAIN rows /\ rows[at] \in Seq(Row)
              /\ Forget(c.msg, c.grp)
              /\ \/ /\ AckRow(c) \in ToSet(rows[at])
                    /\ Swapped(rows[at], c) \in Seq(Row)
                    /\ Replace(at, Swapped(rows[at], c))
                 \/ /\ Rebuilt(c.grp, c.snap) \in Seq(Row)
                    /\ Replace(at, Rebuilt(c.grp, c.snap))
                    /\ NoteRebuild(c.grp, c.snap)
    BY <1>0, <1>6, AckIs
  <2>2. c \in Queue /\ c.kind = "ack"
    BY <1>0, <1>6, RunAckIs
  <2>3. /\ IsInjective(c.snap) /\ ToSet(c.snap) \subseteq ToSet(store[c.grp])
        /\ c.msg \in ToSet(store[c.grp]) /\ c.msg \in ToSet(overlay[c.grp])
        /\ ToSet(c.snap) \subseteq ToSet(store'[c.grp])
    BY <1>0, <2>1, <2>2 DEF ClosureTrue, AcksTrue, Grown
  <2> HIDE DEF c, at
  <2>4. CASE /\ at \in DOMAIN rows /\ rows[at] \in Seq(Row) /\ Forget(c.msg, c.grp)
             /\ AckRow(c) \in ToSet(rows[at]) /\ Swapped(rows[at], c) \in Seq(Row)
             /\ Replace(at, Swapped(rows[at], c))
    <3>1. PICK d, p : d = c /\ p = rows[at]
      OBVIOUS
    <3>2. p \in Seq(Row) /\ ListOk(p) /\ AckRow(d) \in ToSet(p)
      BY <1>a, <1>b, <2>4, <3>1 DEF AckRow
    <3>3. ListOk(Swapped(p, d))'
      BY <2>1, <2>3, <2>4, <3>1, <3>2, SwapOk
    <3>4. Swapped(p, d) = Swapped(rows[at], c)
      BY <3>1
    <3>5. PICK x : x = Swapped(p, d)
      OBVIOUS
    <3>6. ListOk(x)' /\ x \in Seq(Row) /\ Replace(at, x)
      BY <2>4, <3>3, <3>4, <3>5
    <3>7. QED
      BY <1>c, <3>6
  <2>5. CASE /\ at \in DOMAIN rows /\ Rebuilt(c.grp, c.snap) \in Seq(Row)
             /\ Replace(at, Rebuilt(c.grp, c.snap)) /\ NoteRebuild(c.grp, c.snap)
    <3>1. PICK g, snap, over : g = c.grp /\ snap = c.snap /\ over = overlay'[g]
      OBVIOUS
    <3>2. g \in Chats /\ snap \in Seq(Msgs) /\ IsInjective(snap) /\ ToSet(snap) \subseteq ToSet(store'[g])
          /\ NoteRebuild(g, snap)
      BY <2>1, <2>3, <2>5, <3>1
    <3>3. ListOk(Recorded(g, snap) \o Pended(g, over))'
      BY <1>0, <3>1, <3>2, RebuildOk
    <3>4. Rebuilt(c.grp, c.snap) = Recorded(g, snap) \o Pended(g, over)
      BY <3>1, RebuiltIs
    <3>5. PICK x : x = Recorded(g, snap) \o Pended(g, over)
      OBVIOUS
    <3>6. ListOk(x)' /\ x \in Seq(Row) /\ Replace(at, x)
      BY <2>5, <3>3, <3>4, <3>5
    <3>7. QED
      BY <1>c, <3>6
  <2>6. QED
    BY <1>1, <2>1, <2>4, <2>5
<1>7. CASE RunRefresh
  <2> DEFINE c == Head(uiq)  d == Default(c.list)
  <2>1. /\ (Run("boot") \/ Run("refresh"))
        /\ rows' = [k \in DOMAIN c.list |->
                     IF k = d THEN SnapshotOnly(c.list[k], c.first) ELSE <<>>]
    BY <1>7 DEF RunRefresh
  <2>2. c \in Queue /\ c.kind \in Lists /\ c.list \in Seq(Chats) /\ c.first \in Seq(Msgs)
    BY <1>0, <2>1, HeadIs DEF Typed, Lists
  <2>3. /\ IsInjective(c.first)
        /\ c.list # <<>> => ToSet(c.first) \subseteq ToSet(store[c.list[d]])
    BY <1>0, <2>2 DEF ClosureTrue
  <2> HIDE DEF d, c
  <2>4. ASSUME d \in DOMAIN c.list, NEW l, l = SnapshotOnly(c.list[d], c.first) PROVE ListOk(l)'
    <3>1. PICK g, snap : g = c.list[d] /\ snap = c.first
      OBVIOUS
    <3>2. g \in Chats /\ snap \in Seq(Msgs) /\ IsInjective(snap) /\ ToSet(snap) \subseteq ToSet(store'[g])
      <4>1. g \in Chats /\ c.list # <<>>
        BY <2>2, <2>4, <3>1
      <4>2. ToSet(store[g]) \subseteq ToSet(store'[g])
        BY <1>0, <4>1 DEF Grown
      <4>3. QED
        BY <2>2, <2>3, <3>1, <4>1, <4>2
    <3>3. ListOk(Recorded(g, snap))'
      BY <1>0, <3>2, SnapshotOk
    <3>4. l = Recorded(g, snap)
      BY <2>4, <3>1 DEF SnapshotOnly, Recorded
    <3>5. QED
      BY <3>3, <3>4
  <2>5. \A l \in ToSet(rows') : l = <<>> \/ (d \in DOMAIN c.list /\ l = SnapshotOnly(c.list[d], c.first))
    BY <2>1 DEF ToSet
  <2>6. QED
    BY <2>4, <2>5, EmptyOk DEF RowsOk
<1>8. CASE RunMerge \/ RunChat
  <2>1. PICK none \in Seq(Seq(Row)) : rows' = rows \o none /\ \A k \in DOMAIN none : none[k] = <<>>
    BY <1>0, <1>8, MergeIs
  <2>2. ToSet(rows \o none) = ToSet(rows) \cup ToSet(none)
    BY <1>0, ConcatElems
  <2>3. \A l \in ToSet(none) : l = <<>>
    BY <2>1 DEF ToSet
  <2>4. QED
    BY <1>d, <2>1, <2>2, <2>3
<1>9. CASE RunPin
  <2>1. /\ DOMAIN rows' = DOMAIN ids /\ DOMAIN ids = DOMAIN rows
        /\ \A k \in DOMAIN ids : PinOrder[k] \in DOMAIN ids /\ rows'[k] = rows[PinOrder[k]]
    BY <1>0, <1>9, PinIs
  <2>2. \A l \in ToSet(rows') : l \in ToSet(rows)
    BY <2>1 DEF ToSet
  <2>3. QED
    BY <1>d, <2>2
<1>10. \A k \in DOMAIN ids : Select(k) => UNCHANGED rows
  BY DEF Select
<1>11. QED
  BY <1>1, <1>2, <1>3, <1>4, <1>5, <1>6, <1>7, <1>8, <1>9, <1>10, ListsFrame DEF lists

(* What every reachable state tells about messages and their rows.         *)
Told == /\ Core /\ StoresOnce /\ SendsOnce /\ ReportsTrue /\ OverlayTrue /\ AcksTrue
        /\ RowsOk

LEMMA ToldInit == ASSUME ViewConstantsOK, Init PROVE Told
<1>1. /\ \A g \in Chats : store[g] = <<>> /\ overlay[g] = <<>>
      /\ sends = {} /\ rows = <<>> /\ feed = <<>> /\ uiq = <<>>
  BY DEF Init
<1>2. IsInjective(<<>>) /\ ToSet(<<>>) = {} /\ DOMAIN <<>> = {}
  BY DEF IsInjective, ToSet
<1>3. StoresOnce /\ SendsOnce
  BY <1>1, <1>2 DEF StoresOnce, SendsOnce
<1>4. ReportsTrue /\ OverlayTrue /\ AcksTrue /\ RowsOk
  BY <1>1, <1>2 DEF ReportsTrue, FeedTrue, OverlayTrue, AcksTrue, RowsOk, Queue
<1>5. QED
  BY <1>3, <1>4, CoreInit DEF Told

LEMMA ToldStep == ASSUME ViewConstantsOK, Told, [Next]_vars PROVE Told'
<1>0. /\ Core /\ StoresOnce /\ SendsOnce /\ ReportsTrue /\ OverlayTrue /\ AcksTrue /\ RowsOk
      /\ Typed
  BY DEF Told, Core
<1>1. CASE Next
  <2>1. Core'
    BY <1>0, CoreStep
  <2>2. StoresOnce' /\ SendsOnce'
    BY <1>0, <1>1, StoresStep, SendsStep
  <2>3. ReportsTrue'
    BY <1>0, <1>1, ReportsStep
  <2>4. OverlayTrue'
    BY <1>0, <1>1, OverlayKept
  <2>5. AcksTrue'
    BY <1>0, <1>1, AcksKept
  <2>6. Typed'
    BY <2>1 DEF Core
  <2>7. RowsOk'
    BY <1>0, <1>1, <2>4, <2>6, RowsStep
  <2>8. QED
    BY <2>1, <2>2, <2>3, <2>4, <2>5, <2>7 DEF Told
<1>2. CASE UNCHANGED vars
  <2>1. Core'
    BY <1>0, CoreStep
  <2>2. UNCHANGED <<store, sends, overlay, rows, feed, watch, uiq, early>>
    BY <1>2 DEF vars
  <2>3. (StoresOnce /\ SendsOnce)'
    BY <1>0, <2>2 DEF StoresOnce, SendsOnce
  <2>4. ReportsTrue'
    <3>1. ASSUME NEW c, ClosureTrue(c) PROVE ClosureTrue(c)'
      <4>1. Default(c.list)' = Default(c.list)
        BY DefaultFixed
      <4>2. QED
        BY <2>2, <3>1, <4>1 DEF ClosureTrue
    <3>2. FeedTrue'
      BY <1>0, <2>2 DEF ReportsTrue, FeedTrue
    <3>3. Queue' = Queue
      BY <2>2 DEF Queue
    <3>4. QED
      BY <1>0, <3>1, <3>2, <3>3 DEF ReportsTrue
  <2>5. \A m : Sent(m)' <=> Sent(m)
    BY <2>2 DEF Sent
  <2>6. OverlayTrue'
    BY <1>0, <2>2, <2>5 DEF OverlayTrue
  <2>7. AcksTrue'
    BY <1>0, <2>2 DEF AcksTrue, Queue
  <2>8. ASSUME NEW l, ListOk(l) PROVE ListOk(l)'
    <3>1. \A r : RowTrue(r) => RowTrue(r)'
      BY <2>2, <2>5 DEF RowTrue
    <3>2. OnceIn(l)' /\ EarlyIn(l)'
      BY <2>2, <2>8 DEF ListOk, OnceIn, EarlyIn
    <3>3. QED
      BY <2>8, <3>1, <3>2 DEF ListOk
  <2>9. RowsOk'
    BY <1>0, <2>2, <2>8 DEF RowsOk
  <2>10. QED
    BY <2>1, <2>3, <2>4, <2>6, <2>7, <2>9 DEF Told
<1>3. QED
  BY <1>1, <1>2

LEMMA ToldHolds == Spec => []Told
<1>1. Init => Told
  BY ToldInit, ViewConstantsOK
<1>2. Told /\ [Next]_vars => Told'
  BY ToldStep, ViewConstantsOK
<1>3. QED
  BY <1>1, <1>2, PTL DEF Spec

(* groups.rs:595: however often the watcher reports a record, and however  *)
(* echoes, acknowledgements and rebuilds overlap, no position shows it     *)
(* twice, but for an own message that was shown as a record too early.     *)
THEOREM RowsOnce == Spec => []OneRowEach
<1>1. ASSUME Told PROVE OneRowEach
  <2>1. \A k \in DOMAIN rows : ListOk(rows[k])
    BY <1>1 DEF Told, RowsOk, ToSet
  <2>2. QED
    BY <2>1 DEF OneRowEach, ListOk, OnceIn
<1>2. Told => OneRowEach
  BY <1>1
<1>3. QED
  BY <1>2, ToldHolds, PTL
-----------------------------------------------------------------------------
(* While no chat has changed its position, what was read, watched or       *)
(* posted for a position is of the chat at that position.                  *)

PrefixOf(s, t) == \A k \in DOMAIN s : k \in DOMAIN t /\ t[k] = s[k]

LEMMA PrefixIs ==
  ASSUME NEW S, NEW s \in Seq(S), NEW t \in Seq(S), IsPrefix(s, t)
  PROVE  PrefixOf(s, t) /\ Len(s) <= Len(t)
<1>1. Len(s) <= Len(t) /\ SubSeq(s, 1, Len(s)) = SubSeq(t, 1, Len(s))
  BY DEF IsPrefix
<1>2. /\ DOMAIN s = 1 .. Len(s) /\ DOMAIN t = 1 .. Len(t) /\ Len(s) \in Nat /\ Len(t) \in Nat
      /\ SubSeq(s, 1, Len(s)) = s
  OBVIOUS
<1>3. \A k \in 1 .. Len(s) : SubSeq(t, 1, Len(s))[k] = t[k]
  BY <1>1, <1>2
<1>4. \A k \in DOMAIN s : k \in DOMAIN t /\ t[k] = s[k]
  BY <1>1, <1>2, <1>3
<1>5. QED
  BY <1>1, <1>4 DEF PrefixOf

LEMMA SameSeq ==
  ASSUME NEW S, NEW s \in Seq(S), NEW t \in Seq(S), DOMAIN s = DOMAIN t,
         \A k \in DOMAIN s : s[k] = t[k]
  PROVE  s = t
<1>1. s = [k \in DOMAIN s |-> s[k]] /\ t = [k \in DOMAIN t |-> t[k]]
  OBVIOUS
<1>2. [k \in DOMAIN s |-> s[k]] = [k \in DOMAIN t |-> t[k]]
  OBVIOUS
<1>3. QED
  BY <1>1, <1>2

(* What the steps that leave every chat in place do to the lists.          *)
LEMMA StillThere ==
  ASSUME Core, Core', Next, ~moved'
  PROVE  ~moved /\ PrefixOf(ids, ids')
<1>0. Typed /\ ParallelLists /\ ids \in Seq(Chats) /\ ids' \in Seq(Chats) /\ moved \in BOOLEAN
  BY DEF Core, Typed, ListTypes, NoteTypes
<1>1. User => UNCHANGED moved \/ Archive
  BY DEF User, Select, RequestOlder, Archive, Send, TogglePin, history
<1>2. Worker => UNCHANGED moved
  BY DEF Worker, Receive, Publish, Resolve, Subscribe, ReportAgain, WatcherCallback,
         ReadWindow, ReadList, NewChat, CommitArchive, RequestMerge, RequestRefresh, history
<1>3. RunPin \/ RunRefresh => ~moved /\ IsPrefix(ids, ids')
  BY DEF RunPin, NoteOrder, RunRefresh
<1>4. RunClosure => UNCHANGED moved \/ RunPin \/ RunRefresh
  BY DEF RunClosure, RunSelect, RunOlder, RunEcho, RunAck, RunMerge, RunChat, RunReload, history
<1>5. ~Archive
  BY DEF Archive
<1>6. ~moved
  BY <1>1, <1>2, <1>3, <1>4, <1>5 DEF Next
<1>7. UNCHANGED ids => PrefixOf(ids, ids')
  BY DEF PrefixOf
<1>8. RunPin \/ RunRefresh => PrefixOf(ids, ids')
  BY <1>0, <1>3, PrefixIs
<1>9. RunMerge \/ RunChat => PrefixOf(ids, ids')
  <2> SUFFICES ASSUME RunMerge \/ RunChat PROVE PrefixOf(ids, ids')
    OBVIOUS
  <2>1. PICK more \in Seq(Chats) : ids' = ids \o more
    BY <1>0, MergeIs
  <2>2. \A i \in DOMAIN ids : (ids \o more)[i] = ids[i] /\ i \in DOMAIN (ids \o more)
    BY <1>0, ConcatParts
  <2>3. QED
    BY <2>1, <2>2 DEF PrefixOf
<1>10. (\E k \in DOMAIN ids : Select(k)) \/ (\E m \in Own : Send(m)) \/ RunSelect \/ RunOlder
       \/ RunEcho \/ RunAck \/ UNCHANGED lists => UNCHANGED ids
  BY DEF Select, Send, RunSelect, RunOlder, RunEcho, RunAck, lists
<1>11. QED
  BY <1>5, <1>6, <1>7, <1>8, <1>9, <1>10, ListsFrame

(* A pin that leaves every chat in place changes nothing.                  *)
LEMMA PinInPlace ==
  ASSUME Core, Core', RunPin, ~moved'
  PROVE  UNCHANGED rows /\ UNCHANGED ids /\ (Opened => UNCHANGED open)
<1>0. Typed /\ ParallelLists /\ ids \in Seq(Chats) /\ IsInjective(ids) /\ rows \in Seq(Seq(Row))
      /\ rows' \in Seq(Seq(Row)) /\ ids' \in Seq(Chats)
  BY DEF Core, Typed, ListTypes, ParallelLists
<1>1. Next
  BY DEF Next, RunClosure
<1>2. PrefixOf(ids, ids')
  BY <1>1, StillThere
<1>3. /\ \A k \in DOMAIN ids : PinOrder[k] \in DOMAIN ids
      /\ DOMAIN ids' = DOMAIN ids /\ DOMAIN rows' = DOMAIN ids /\ DOMAIN ids = DOMAIN rows
      /\ Len(ids') = Len(ids) /\ Len(rows') = Len(ids)
      /\ \A k \in DOMAIN ids : ids'[k] = ids[PinOrder[k]] /\ rows'[k] = rows[PinOrder[k]]
  BY <1>0, PinIs
<1>4. \A k \in DOMAIN ids : ids'[k] = ids[k]
  BY <1>2 DEF PrefixOf
<1>5. \A k \in DOMAIN ids : PinOrder[k] = k
  BY <1>0, <1>3, <1>4 DEF IsInjective
<1>6. \A k \in DOMAIN ids : rows'[k] = rows[k]
  BY <1>3, <1>5
<1>7. rows' = rows
  <2>1. /\ rows \in Seq(Seq(Row)) /\ rows' \in Seq(Seq(Row)) /\ DOMAIN rows' = DOMAIN rows
        /\ \A k \in DOMAIN rows' : rows'[k] = rows[k]
    BY <1>0, <1>3, <1>6
  <2>2. QED
    BY <2>1, SameSeq
<1>8. ids' = ids
  <2>1. /\ ids \in Seq(Chats) /\ ids' \in Seq(Chats) /\ DOMAIN ids' = DOMAIN ids
        /\ \A k \in DOMAIN ids' : ids'[k] = ids[k]
    BY <1>0, <1>3, <1>4
  <2>2. QED
    BY <2>1, SameSeq
<1>9. Opened => open' = open
  <2>1. Opened => open' \in DOMAIN ids' /\ ids'[open'] = ids[open]
    BY <1>0, PinOpens
  <2>2. QED
    BY <1>0, <1>8, <2>1 DEF IsInjective, Opened
<1>10. QED
  BY <1>7, <1>8, <1>9

InPlace(x) == x.at \in DOMAIN ids /\ ids[x.at] = x.grp
Placed == ~moved =>
  /\ \A r \in BagToSet(reads) : r \in WindowRead => InPlace(r)
  /\ \A c \in Queue : c.kind \in Rebuilds \cup {"echo"} => InPlace(c)
  /\ watch # NoWatch => InPlace(watch)
  /\ \A g \in Chats : g \notin ToSet(ids) => overlay[g] = <<>>

LEMMA StillInPlace ==
  ASSUME PrefixOf(ids, ids'), NEW x, InPlace(x) PROVE InPlace(x)'
BY DEF PrefixOf, InPlace

LEMMA NewRead ==
  ASSUME ViewConstantsOK, Core, Next, NEW r \in BagToSet(reads'), r \notin BagToSet(reads), r \in WindowRead
  PROVE  InPlace(r)
<1>0. Typed /\ ReadTypes /\ IsInjective(ids)
  BY DEF Core, Typed, ParallelLists
<1>1. ASSUME NEW q \in Reads, Ask(q) PROVE r = q
  <2>1. BagToSet(reads') = BagToSet(reads) \cup {q}
    BY <1>0, <1>1, AskIs
  <2>2. QED
    BY <2>1
<1>2. ASSUME NEW q \in BagToSet(reads), reads' = reads (-) SetToBag({q}) PROVE FALSE
  <2>1. BagToSet(reads') \subseteq BagToSet(reads)
    BY <1>0, <1>2, TakeIs
  <2>2. QED
    BY <2>1
<1>3. PICK q \in Reads : Ask(q)
  BY <1>0, <1>2, ReadsFrame
<1>4. r = q
  BY <1>1, <1>3
<1>5. \A k \in {"merge", "refresh", "pin"} : [kind |-> k] \in Reads /\ [kind |-> k] \notin WindowRead
  <2>1. \A k \in {"merge", "refresh", "pin"} : [kind |-> k] \in Reads
    BY DEF Reads, ListRead
  <2>2. \A k \in {"merge", "refresh", "pin"} : [kind |-> k].kind = k
    OBVIOUS
  <2>3. \A x \in WindowRead : x.kind \in Rebuilds
    BY ReadFields DEF Reads
  <2>4. QED
    BY <2>1, <2>2, <2>3 DEF Rebuilds
<1>6. ASSUME NEW k \in {"merge", "refresh", "pin"}, Ask([kind |-> k]) PROVE FALSE
  <2>1. r = [kind |-> k]
    BY <1>1, <1>5, <1>6
  <2>2. QED
    BY <1>5, <2>1
<1>7. ASSUME NEW k \in DOMAIN ids, NEW d \in Rebuilds, Ask([kind |-> d, grp |-> ids[k], at |-> k])
      PROVE  InPlace(r)
  <2>1. ids \in Seq(Chats)
    BY <1>0 DEF Typed, ListTypes
  <2>2. ids[k] \in Chats /\ k \in Positions
    <3>1. DOMAIN ids \subseteq Positions
      BY <1>0, <2>1, PositionsHold
    <3>2. QED
      BY <2>1, <3>1
  <2>3. [kind |-> d, grp |-> ids[k], at |-> k] \in Reads
    BY <2>2 DEF Reads, WindowRead, Rebuilds
  <2>4. r = [kind |-> d, grp |-> ids[k], at |-> k]
    BY <1>1, <1>7, <2>3
  <2>5. r.grp = ids[k] /\ r.at = k
    BY <2>4
  <2>6. QED
    BY <2>5 DEF InPlace
<1>8. UNCHANGED reads => FALSE
  OBVIOUS
<1>9. CASE User
  <2>1. \A k \in DOMAIN ids : Select(k) => InPlace(r)
    BY <1>7 DEF Select, Rebuilds
  <2>2. RequestOlder => InPlace(r)
    BY <1>7 DEF RequestOlder, Opened, Rebuilds
  <2>3. \A k \in DOMAIN ids : TogglePin(k) => FALSE
    BY <1>6 DEF TogglePin
  <2>4. (\E m \in Own : Send(m)) \/ Archive => FALSE
    BY <1>8 DEF Send, Archive
  <2>5. QED
    BY <1>9, <2>1, <2>2, <2>3, <2>4 DEF User
<1>10. CASE Worker
  <2>1. RequestMerge \/ RequestRefresh => FALSE
    BY <1>6 DEF RequestMerge, RequestRefresh
  <2>2. \A t \in BagToSet(reads) : ReadWindow(t) \/ ReadList(t) => FALSE
    BY <1>2 DEF ReadWindow, ReadList, Answered
  <2>3. QED
    BY <1>8, <1>10, <2>1, <2>2
       DEF Worker, Receive, Publish, Resolve, Subscribe, ReportAgain, WatcherCallback,
           NewChat, CommitArchive
<1>11. CASE RunClosure
  BY <1>6, <1>8, <1>11 DEF RunClosure, RunSelect, RunOlder, RunEcho, RunAck, RunRefresh, RunMerge, RunChat,
              RunPin, RunReload
<1>12. QED
  BY <1>9, <1>10, <1>11 DEF Next

LEMMA PlacedStep ==
  ASSUME ViewConstantsOK, Core, Core', Placed, Next PROVE Placed'
<1> SUFFICES ASSUME ~moved'
             PROVE  /\ \A r \in BagToSet(reads') : r \in WindowRead => InPlace(r)'
                    /\ \A c \in Queue' : c.kind \in Rebuilds \cup {"echo"} => InPlace(c)'
                    /\ watch' # NoWatch => InPlace(watch)'
                    /\ \A g \in Chats : g \notin ToSet(ids') => overlay'[g] = <<>>
  BY DEF Placed, NoWatch
<1>0. Typed /\ ParallelLists /\ ReadTypes /\ QueueTypes /\ FeedWatched /\ IsInjective(ids)
      /\ WatchTypes
  BY DEF Core, Typed, ParallelLists
<1>1. ~moved /\ PrefixOf(ids, ids')
  BY StillThere
<1>2. /\ \A r \in BagToSet(reads) : r \in WindowRead => InPlace(r)
      /\ \A c \in Queue : c.kind \in Rebuilds \cup {"echo"} => InPlace(c)
      /\ watch # NoWatch => InPlace(watch)
      /\ \A g \in Chats : g \notin ToSet(ids) => overlay[g] = <<>>
  BY <1>1 DEF Placed
<1>3. ASSUME NEW x, InPlace(x) PROVE InPlace(x)'
  BY <1>1, <1>3, StillInPlace
<1>4. \A r \in BagToSet(reads') : r \in WindowRead => InPlace(r)'
  BY <1>2, <1>3, NewRead
<1>5. ASSUME NEW c \in Queue', c.kind \in Rebuilds \cup {"echo"} PROVE InPlace(c)'
  <2>1. CASE UNCHANGED uiq
    BY <1>2, <1>3, <1>5, <2>1 DEF Queue
  <2>2. ASSUME NEW d, Sound(d), Post(d) PROVE InPlace(c)'
    <3>1. Queue' = Queue \cup {d}
      BY <1>0, <2>2, PostIs DEF Sound
    <3>2. CASE c \in Queue
      BY <1>2, <1>3, <1>5, <3>2
    <3>3. CASE c = d
      <4>1. Origin(c)
        BY <2>2, <3>3 DEF Sound
      <4>2. \A s : c # AckOf(s)
        BY <1>5 DEF AckOf, Rebuilds
      <4>3. ASSUME feed # <<>>, c = EchoOf PROVE InPlace(c)
        <5>1. c.at = watch.at /\ c.grp = watch.grp /\ InPlace(watch)
          BY <1>0, <1>2, <4>3 DEF EchoOf, FeedWatched
        <5>2. QED
          BY <5>1 DEF InPlace
      <4>4. ASSUME NEW r \in BagToSet(reads), r \in WindowRead, c = WindowOf(r) PROVE InPlace(c)
        <5>1. c.at = r.at /\ c.grp = r.grp /\ InPlace(r)
          BY <1>2, <4>4 DEF WindowOf
        <5>2. QED
          BY <5>1 DEF InPlace
      <4>5. \A r : r.kind \in Lists => c # ListOf(r)
        BY <1>5 DEF ListOf, Lists, Rebuilds
      <4>6. c.kind \notin {"chat", "pin", "reload"}
        BY <1>5 DEF Rebuilds
      <4>7. InPlace(c)
        BY <4>1, <4>2, <4>3, <4>4, <4>5, <4>6 DEF Origin
      <4>8. QED
        BY <1>3, <4>7
    <3>4. QED
      BY <1>5, <3>1, <3>2, <3>3
  <2>3. ASSUME NEW k, Run(k) PROVE InPlace(c)'
    <3>1. Queue = Queue' \cup {Head(uiq)}
      BY <1>0, <2>3, RunIs
    <3>2. QED
      BY <1>2, <1>3, <1>5, <3>1
  <2>4. QED
    BY <2>1, <2>2, <2>3, QueueFrame
<1>6. ASSUME watch' # NoWatch PROVE InPlace(watch)'
  <2>1. ASSUME watch # NoWatch, watch'.grp = watch.grp, watch'.at = watch.at PROVE InPlace(watch)'
    <3>1. watch.at \in DOMAIN ids /\ ids[watch.at] = watch.grp
      BY <1>2, <2>1 DEF InPlace
    <3>2. QED
      BY <1>1, <2>1, <3>1 DEF PrefixOf, InPlace
  <2>2. CASE RunSelect
    <3> DEFINE c == Head(uiq)
    <3>1. c \in Queue /\ c.kind \in Rebuilds
      BY <1>0, <2>2, RebuildIs
    <3>2. InPlace(c)
      BY <1>2, <3>1
    <3>3. UNCHANGED ids /\ Attach(c)
      BY <2>2 DEF RunSelect
    <3> HIDE DEF c
    <3>4. CASE watch' = [grp |-> c.grp, at |-> c.at, live |-> FALSE]
      <4>1. watch'.grp = c.grp /\ watch'.at = c.at
        BY <3>4
      <4>2. QED
        BY <3>2, <3>3, <4>1 DEF InPlace
    <3>5. CASE UNCHANGED watcher
      <4>1. watch' = watch
        BY <3>5 DEF watcher
      <4>2. QED
        BY <1>6, <2>1, <4>1
    <3>6. QED
      BY <3>3, <3>4, <3>5 DEF Attach
  <2>3. CASE Subscribe
    <3>1. watch # NoWatch /\ watch' = [watch EXCEPT !.live = TRUE]
      BY <2>3 DEF Subscribe
    <3>2. watch = [grp |-> watch.grp, at |-> watch.at, live |-> watch.live]
      BY <1>0, <3>1, WatchFields
    <3>3. watch'.grp = watch.grp /\ watch'.at = watch.at
      BY <3>1, <3>2
    <3>4. QED
      BY <2>1, <3>1, <3>3
  <2>4. UNCHANGED watcher \/ (\E m \in Foreign : Receive(m)) \/ (\E s \in sends : Publish(s))
        \/ ReportAgain \/ WatcherCallback => UNCHANGED watch
    BY DEF watcher, Receive, Publish, ReportAgain, WatcherCallback
  <2>5. UNCHANGED watch => InPlace(watch)'
    BY <1>6, <2>1
  <2>6. QED
    BY <2>2, <2>3, <2>4, <2>5, WatchFrame
<1>7. ASSUME NEW g \in Chats, g \notin ToSet(ids') PROVE overlay'[g] = <<>>
  <2>1. g \notin ToSet(ids)
    BY <1>1, <1>7 DEF PrefixOf, ToSet
  <2>2. overlay[g] = <<>>
    BY <1>2, <2>1
  <2>3. ASSUME NEW m \in Own, Send(m) PROVE overlay'[g] = <<>>
    <3>1. open \in DOMAIN ids /\ \A h \in Chats : h # ids[open] => overlay'[h] = overlay[h]
      BY <1>0, <2>3, SendFresh, SendOverlay
    <3>2. g # ids[open]
      BY <2>1, <3>1 DEF ToSet
    <3>3. QED
      BY <2>2, <3>1, <3>2
  <2>4. ASSUME RunAck PROVE overlay'[g] = <<>>
    <3> DEFINE c == Head(uiq)
    <3>1. c.grp \in Chats /\ c.msg \in Own /\ (UNCHANGED overlay \/ Forget(c.msg, c.grp))
      BY <1>0, <2>4, RunAckIs
    <3> HIDE DEF c
    <3>2. CASE UNCHANGED overlay
      BY <2>2, <3>2
    <3>3. CASE Forget(c.msg, c.grp)
      <4>1. /\ overlay'[c.grp] = Sublist(overlay[c.grp], Own \ {c.msg})
            /\ \A h \in Chats : h # c.grp => overlay'[h] = overlay[h]
        <5>1. Typed /\ c.msg \in Own /\ c.grp \in Chats /\ Forget(c.msg, c.grp)
          BY <1>0, <3>1, <3>3
        <5>2. QED
          BY <5>1, ForgetIs, ZenonT(60)
      <4>2. Sublist(<<>>, Own \ {c.msg}) = <<>>
        BY SublistNothing
      <4>3. QED
        BY <2>2, <4>1, <4>2
    <3>4. QED
      BY <3>1, <3>2, <3>3
  <2>5. UNCHANGED overlay => overlay'[g] = <<>>
    BY <2>2
  <2>6. \A k \in DOMAIN ids : TogglePin(k) => UNCHANGED overlay
    BY DEF TogglePin
  <2>7. QED
    BY <2>3, <2>4, <2>5, <2>6, OverlayFrame
<1>8. QED
  BY <1>4, <1>5, <1>6, <1>7
-----------------------------------------------------------------------------
(* The pending bubbles of a list.                                          *)

LEMMA NothingPends ==
  ASSUME NEW g
  PROVE  Pendings(<<>>) = <<>> /\ Pended(g, <<>>) = <<>>
<1>1. Pendings(<<>>) = <<>>
  BY SublistNothing DEF Pendings
<1>2. Pended(g, <<>>) = <<>>
  BY DEF Pended
<1>3. QED
  BY <1>1, <1>2

LEMMA RecordsPend ==
  ASSUME NEW g \in Chats, NEW snap \in Seq(Msgs)
  PROVE  Pendings(Recorded(g, snap)) = <<>>
<1> DEFINE l == Recorded(g, snap)  P == {r \in Row : r.pending}
<1>1. l \in Seq(Row) /\ DOMAIN l = DOMAIN snap
      /\ \A k \in DOMAIN snap : snap[k] \in Msgs /\ l[k] = Record(snap[k], g)
  BY RecordedIs
<1> HIDE DEF l
<1>2. \A k \in DOMAIN l : l[k] \notin P
  BY <1>1, RowFields
<1> HIDE DEF P
<1>3. Sublist(l, P) = <<>>
  BY <1>1, <1>2, SublistNone
<1>4. QED
  BY <1>3 DEF Pendings, l, P

LEMMA BubblesPend ==
  ASSUME NEW g \in Chats, NEW over \in Seq(Own)
  PROVE  Pendings(Pended(g, over)) = Pended(g, over)
<1> DEFINE l == Pended(g, over)  P == {r \in Row : r.pending}
<1>1. l \in Seq(Row) /\ DOMAIN l = DOMAIN over
      /\ \A k \in DOMAIN over : over[k] \in Msgs /\ l[k] = PendingRow(over[k], g)
  BY PendedIs
<1> HIDE DEF l
<1>2. \A k \in DOMAIN l : l[k] \in P
  BY <1>1, RowFields
<1> HIDE DEF P
<1>3. Sublist(l, P) = l
  BY <1>1, <1>2, SublistAll
<1>4. QED
  BY <1>3 DEF Pendings, l, P

LEMMA RebuildPends ==
  ASSUME NEW g \in Chats, NEW snap \in Seq(Msgs), NEW over \in Seq(Own)
  PROVE  Pendings(Recorded(g, snap) \o Pended(g, over)) = Pended(g, over)
<1> DEFINE a == Recorded(g, snap)  b == Pended(g, over)
<1>1. a \in Seq(Row) /\ b \in Seq(Row)
  BY RecordedIs, PendedIs
<1>2. Pendings(a) = <<>> /\ Pendings(b) = b
  BY RecordsPend, BubblesPend
<1> HIDE DEF a, b
<1>3. Pendings(a \o b) = Pendings(a) \o Pendings(b)
  BY <1>1, SublistConcat DEF Pendings
<1>4. <<>> \o b = b
  BY <1>1
<1>5. QED
  BY <1>2, <1>3, <1>4 DEF a, b

LEMMA SendPends ==
  ASSUME NEW g \in Chats, NEW m \in Own, NEW over \in Seq(Own), NEW l \in Seq(Row),
         Pendings(l) = Pended(g, over)
  PROVE  Pendings(Append(l, PendingRow(m, g))) = Pended(g, Append(over, m))
<1> DEFINE t == PendingRow(m, g)  P == {r \in Row : r.pending}  a == Append(over, m)
<1>1. t \in Row /\ t \in P
  BY RowFields DEF Msgs
<1> HIDE DEF t, P
<1>2. Sublist(Append(l, t), P) = Append(Sublist(l, P), t)
  BY <1>1, SublistAdds
<1>3. Pendings(Append(l, t)) = Append(Pended(g, over), t)
  BY <1>2 DEF Pendings, P
<1>4. /\ DOMAIN a = 1 .. Len(over) + 1 /\ a[Len(over) + 1] = m
      /\ \A i \in DOMAIN over : a[i] = over[i]
      /\ DOMAIN over = 1 .. Len(over) /\ Len(over) \in Nat /\ a \in Seq(Own)
  OBVIOUS
<1> HIDE DEF a
<1>5. /\ Pended(g, over) \in Seq(Row) /\ Len(Pended(g, over)) = Len(over)
      /\ DOMAIN Pended(g, over) = DOMAIN over
      /\ \A k \in DOMAIN over : Pended(g, over)[k] = PendingRow(over[k], g)
  BY PendedIs
<1>6. /\ Pended(g, a) \in Seq(Row) /\ DOMAIN Pended(g, a) = DOMAIN a
      /\ \A k \in DOMAIN a : Pended(g, a)[k] = PendingRow(a[k], g)
  BY <1>4, PendedIs
<1> DEFINE p == Pended(g, over)  u == Append(p, t)
<1>7. /\ u \in Seq(Row) /\ DOMAIN u = 1 .. Len(over) + 1 /\ u[Len(over) + 1] = t
      /\ \A i \in DOMAIN over : u[i] = p[i]
  BY <1>1, <1>4, <1>5
<1> HIDE DEF p, u
<1>8. \A k \in DOMAIN u : u[k] = Pended(g, a)[k]
  <2>0. \A n \in Nat : \A k \in 1 .. n + 1 : k \in 1 .. n \/ k = n + 1
    OBVIOUS
  <2>1. \A k \in DOMAIN u : k \in DOMAIN over \/ k = Len(over) + 1
    BY <1>4, <1>7, <2>0
  <2>2. \A k \in DOMAIN over : u[k] = PendingRow(over[k], g)
    BY <1>5, <1>7 DEF p
  <2>3. u[Len(over) + 1] = PendingRow(m, g)
    BY <1>7 DEF t
  <2>4. QED
    BY <1>4, <1>6, <1>7, <2>1, <2>2, <2>3
<1>9. u = Pended(g, a)
  <2>1. u \in Seq(Row) /\ Pended(g, a) \in Seq(Row) /\ DOMAIN u = DOMAIN Pended(g, a)
    BY <1>4, <1>6, <1>7
  <2>2. QED
    BY <1>8, <2>1, SameSeq
<1>10. QED
  BY <1>3, <1>9 DEF u, p, a, t

LEMMA EchoPends ==
  ASSUME NEW g \in Chats, NEW m \in Msgs, NEW l \in Seq(Row)
  PROVE  Pendings(Append(l, Record(m, g))) = Pendings(l)
<1> DEFINE t == Record(m, g)  P == {r \in Row : r.pending}
<1>1. t \in Row /\ t \notin P
  BY RowFields
<1> HIDE DEF t, P
<1>2. Sublist(Append(l, t), P) = Sublist(l, P)
  BY <1>1, SublistAdds
<1>3. QED
  BY <1>2 DEF Pendings, t, P

LEMMA SwapPends ==
  ASSUME NEW c, c.msg \in Own, c.grp \in Chats, NEW over \in Seq(Own), IsInjective(over),
         NEW l \in Seq(Row), AckRow(c) \in ToSet(l), Pendings(l) = Pended(c.grp, over)
  PROVE  Pendings(Swapped(l, c)) = Pended(c.grp, Sublist(over, Own \ {c.msg}))
<1> DEFINE m == c.msg  g == c.grp
           P == {r \in Row : r.pending}
           t == AckRow(c)  r == Record(m, g)  k == Spot(l, t)
           b == Swapped(l, c)  Q == P \ {t}
           F == [n \in Own |-> PendingRow(n, g)]
           rest == Sublist(over, Own \ {m})
<1>1. m \in Own /\ m \in Msgs /\ g \in Chats
  BY DEF Msgs
<1>2. t = PendingRow(m, g) /\ t \in Row /\ t \in P /\ r \in Row /\ r \notin P
  BY <1>1, RowFields DEF AckRow
<1>3. k \in DOMAIN l /\ l[k] = t
  BY SpotFinds
<1>4. b = [l EXCEPT ![k] = r]
  BY DEF Swapped
<1>5. b \in Seq(Row) /\ Len(b) = Len(l) /\ DOMAIN b = DOMAIN l /\ b[k] = r
      /\ \A i \in DOMAIN l : i # k => b[i] = l[i]
  <2> HIDE DEF k, r, b, t
  <2>1. QED
    BY <1>2, <1>3, <1>4
<1>6. F \in [Own -> Row] /\ \A n \in Own : F[n] = PendingRow(n, g) /\ n \in Msgs
  <2>1. \A n \in Own : n \in Msgs
    BY DEF Msgs
  <2>2. \A n \in Own : PendingRow(n, g) \in Row
    BY <1>1, <2>1, RowFields
  <2>3. QED
    BY <2>1, <2>2
<1>7. Sublist(l, P) = Pended(g, over)
  BY DEF Pendings
<1>8. \A n \in Own : n \in Own \ {m} <=> F[n] \in Row \ {t}
  <2>1. ASSUME NEW n \in Own PROVE F[n] \in Row /\ (F[n] = t <=> n = m)
    <3>1. F[n] = PendingRow(n, g) /\ n \in Msgs
      BY <1>6
    <3>2. PendingRow(n, g) \in Row /\ PendingRow(n, g).msg = n /\ PendingRow(m, g).msg = m
      BY <1>1, <3>1, RowFields
    <3>3. QED
      BY <1>2, <3>1, <3>2
  <2>2. QED
    BY <2>1
<1> HIDE DEF m, g, P, t, r, k, b, F, rest
<1>9. IsInjective(Sublist(l, P))
  BY <1>1, <1>7, PendedElems
<1>10. \A i \in DOMAIN l : l[i] = t => i = k
  <2>1. \A i, j \in DOMAIN l : l[i] = l[j] /\ l[i] \in P => i = j
    BY <1>9, SublistOnce
  <2>2. QED
    BY <1>2, <1>3, <2>1
<1>11. Sublist(b, P) = Sublist(l, Q)
  <2>1. \A i \in DOMAIN b : (b[i] \in P <=> l[i] \in Q) /\ (b[i] \in P => b[i] = l[i])
    <3>1. ASSUME NEW i \in DOMAIN l PROVE (b[i] \in P <=> l[i] \in Q) /\ (b[i] \in P => b[i] = l[i])
      <4>1. CASE i = k
        BY <1>2, <1>3, <1>5, <4>1
      <4>2. CASE i # k
        BY <1>5, <1>10, <4>2
      <4>3. QED
        BY <4>1, <4>2
    <3>2. QED
      BY <1>5, <3>1
  <2>2. b \in Seq(Row) /\ l \in Seq(Row) /\ Len(b) = Len(l)
    BY <1>5
  <2> HIDE DEF Q
  <2>3. QED
    BY <2>1, <2>2, SublistAgree
<1>12. Sublist(Sublist(l, P), Row \ {t}) = Sublist(l, Q)
  <2>1. \A x \in Row : x \in Q <=> x \in P /\ x \in Row \ {t}
    OBVIOUS
  <2>2. PICK R : R = Row \ {t}
    OBVIOUS
  <2>3. \A x \in Row : x \in Q <=> x \in P /\ x \in R
    BY <2>1, <2>2
  <2> HIDE DEF Q
  <2>4. Sublist(Sublist(l, P), R) = Sublist(l, Q)
    BY <2>3, SublistTwice
  <2>5. QED
    BY <2>2, <2>4
<1>13. Sublist(Pended(g, over), Row \ {t}) = Pended(g, rest)
  <2>1. \A s \in Seq(Own) : Mapped(F, s) = Pended(g, s)
    <3>1. ASSUME NEW s \in Seq(Own) PROVE Mapped(F, s) = Pended(g, s)
      <4>1. \A i \in DOMAIN s : F[s[i]] = PendingRow(s[i], g)
        <5>1. \A i \in DOMAIN s : s[i] \in Own
          OBVIOUS
        <5>2. QED
          BY <1>6, <5>1
      <4>2. QED
        BY <4>1 DEF Pended, Mapped
    <3>2. QED
      BY <3>1
  <2>2. PICK T, U : T = Own \ {m} /\ U = Row \ {t}
    OBVIOUS
  <2>3. \A n \in Own : n \in T <=> F[n] \in U
    BY <1>8, <2>2
  <2>4. Sublist(Mapped(F, over), U) = Mapped(F, Sublist(over, T))
    BY <2>3, SublistRenamed
  <2>5. Sublist(over, T) \in Seq(Own)
    BY SublistType
  <2>6. Sublist(Pended(g, over), U) = Pended(g, Sublist(over, T))
    BY <2>1, <2>4, <2>5
  <2>7. QED
    BY <2>2, <2>6 DEF rest
<1>14. Sublist(b, P) = Pended(g, rest)
  BY <1>7, <1>11, <1>12, <1>13
<1>15. QED
  BY <1>14 DEF Pendings, P, b, g, rest, m

(* A position's bubbles are its chat's part of the overlay.                *)
LEMMA ShownStep ==
  ASSUME ViewConstantsOK, Core, Core', OverlayTrue, Placed, PendingShown, Next PROVE PendingShown'
<1> SUFFICES ASSUME ~moved', NEW k \in DOMAIN ids', ids'[k] \notin blanked'
             PROVE  Pendings(rows'[k]) = Pended(ids'[k], overlay'[ids'[k]])
  BY DEF PendingShown, Pended
<1>0. /\ Typed /\ ParallelLists /\ IsInjective(ids) /\ rows \in Seq(Seq(Row)) /\ ids \in Seq(Chats)
      /\ DOMAIN rows = DOMAIN ids /\ IsInjective(ids') /\ ids' \in Seq(Chats) /\ rows' \in Seq(Seq(Row))
  BY DEF Core, Typed, ListTypes, ParallelLists
<1>1. ~moved /\ PrefixOf(ids, ids')
  BY StillThere
<1>2. \A j \in DOMAIN ids : ids[j] \notin blanked => Pendings(rows[j]) = Pended(ids[j], overlay[ids[j]])
  BY <1>1 DEF PendingShown, Pended
<1>3. \A j \in DOMAIN ids : ids[j] \in Chats /\ rows[j] \in Seq(Row) /\ overlay[ids[j]] \in Seq(Own)
  <2>1. \A j \in DOMAIN ids : ids[j] \in Chats /\ rows[j] \in Seq(Row)
    BY <1>0
  <2>2. QED
    BY <1>0, <2>1, StoreTyped
<1>4. /\ \A c \in Queue : c.kind \in Rebuilds \cup {"echo"} => InPlace(c)
      /\ \A g \in Chats : g \notin ToSet(ids) => overlay[g] = <<>>
  BY <1>1 DEF Placed
<1>5. ASSUME UNCHANGED <<ids, rows, overlay, blanked>>
      PROVE  Pendings(rows'[k]) = Pended(ids'[k], overlay'[ids'[k]])
  BY <1>2, <1>5
<1>6. ASSUME NEW m \in Own, Send(m)
      PROVE  Pendings(rows'[k]) = Pended(ids'[k], overlay'[ids'[k]])
  <2> DEFINE g == ids[open]  l == rows[open]
  <2>1. /\ open \in DOMAIN ids /\ UNCHANGED <<ids, blanked>>
        /\ Replace(open, Append(l, PendingRow(m, g)))
        /\ g \in Chats /\ overlay'[g] = Append(overlay[g], m)
        /\ \A h \in Chats : h # g => overlay'[h] = overlay[h]
    BY <1>0, <1>6, SendFresh, SendOverlay
  <2>2. l \in Seq(Row) /\ overlay[g] \in Seq(Own) /\ g = ids[open]
    BY <1>3, <2>1
  <2>3. Append(l, PendingRow(m, g)) \in Seq(Row)
    <3>1. PendingRow(m, g) \in Row
      BY <2>1, RowFields DEF Msgs
    <3>2. QED
      BY <2>2, <3>1
  <2>4. \A j \in DOMAIN rows : rows'[j] = IF j = open THEN Append(l, PendingRow(m, g)) ELSE rows[j]
    BY <1>0, <2>1, <2>3, ReplaceIs
  <2>5. CASE k = open
    <3>1. Pendings(l) = Pended(g, overlay[g])
      BY <1>2, <2>1, <2>5
    <3>2. Pendings(Append(l, PendingRow(m, g))) = Pended(g, Append(overlay[g], m))
      <4> HIDE DEF g, l
      <4>1. QED
        BY <2>1, <2>2, <3>1, SendPends
    <3>3. rows'[k] = Append(l, PendingRow(m, g)) /\ ids'[k] = g
      BY <1>0, <2>1, <2>4, <2>5
    <3>4. QED
      BY <2>1, <3>2, <3>3
  <2>6. CASE k # open
    <3>1. k \in DOMAIN ids /\ ids'[k] = ids[k] /\ ids[k] # g
      BY <1>0, <2>1, <2>6 DEF IsInjective
    <3>2. rows'[k] = rows[k]
      BY <1>0, <2>4, <2>6, <3>1
    <3>3. overlay'[ids[k]] = overlay[ids[k]]
      BY <1>3, <2>1, <3>1
    <3>4. QED
      BY <1>2, <2>1, <3>1, <3>2, <3>3
  <2>7. QED
    BY <2>5, <2>6
<1>7. ASSUME RunSelect \/ RunOlder
      PROVE  Pendings(rows'[k]) = Pended(ids'[k], overlay'[ids'[k]])
  <2> DEFINE c == Head(uiq)  l == Recorded(c.grp, c.snap) \o Pended(c.grp, overlay[c.grp])
  <2>1. /\ c \in Queue /\ c.kind \in Rebuilds /\ c.grp \in Chats /\ c.snap \in Seq(Msgs)
        /\ overlay[c.grp] \in Seq(Own) /\ UNCHANGED overlay
        /\ l \in Seq(Row) /\ Replace(c.at, l) /\ NoteRebuild(c.grp, c.snap)
    BY <1>0, <1>7, RebuildIs
  <2>2. UNCHANGED ids
    BY <1>7 DEF RunSelect, RunOlder
  <2>3. c.at \in DOMAIN ids /\ ids[c.at] = c.grp
    BY <1>4, <2>1 DEF InPlace
  <2>4. \A j \in DOMAIN rows : rows'[j] = IF j = c.at THEN l ELSE rows[j]
    BY <1>0, <2>1, ReplaceIs
  <2>5. blanked' = blanked \ {c.grp}
    BY <2>1 DEF NoteRebuild
  <2>6. Pendings(l) = Pended(c.grp, overlay[c.grp])
    <3> HIDE DEF c
    <3>1. QED
      BY <2>1, RebuildPends
  <2> HIDE DEF l, c
  <2>7. CASE k = c.at
    BY <1>0, <2>1, <2>2, <2>3, <2>4, <2>6, <2>7
  <2>8. CASE k # c.at
    <3>1. k \in DOMAIN ids /\ ids[k] # c.grp
      BY <1>0, <2>2, <2>3, <2>8 DEF IsInjective
    <3>2. QED
      BY <1>0, <1>2, <2>1, <2>2, <2>4, <2>5, <2>8, <3>1
  <2>9. QED
    BY <2>7, <2>8
<1>8. ASSUME RunEcho
      PROVE  Pendings(rows'[k]) = Pended(ids'[k], overlay'[ids'[k]])
  <2> DEFINE c == Head(uiq)
  <2>1. Run("echo") /\ UNCHANGED <<ids, overlay, blanked>>
        /\ (IF c.at \in DOMAIN rows THEN AppendEcho(c) ELSE UNCHANGED rows)
    BY <1>8 DEF RunEcho
  <2>2. c.grp \in Chats /\ c.msg \in Msgs
    BY <1>0, <2>1, HeadIs DEF Typed
  <2> HIDE DEF c
  <2>3. CASE c.at \notin DOMAIN rows
    BY <1>5, <2>1, <2>3
  <2>4. CASE c.at \in DOMAIN rows
    <3> DEFINE r == Record(c.msg, c.grp)
               l == IF r \in ToSet(rows[c.at]) THEN rows[c.at] ELSE Append(rows[c.at], r)
    <3>1. r \in Row
      BY <2>2, RowFields
    <3>2. rows[c.at] \in Seq(Row) /\ Replace(c.at, l)
      BY <1>0, <2>1, <2>4, <3>1, EchoIs DEF AppendEcho, Typed
    <3>3. l \in Seq(Row)
      BY <3>1, <3>2
    <3>4. Pendings(l) = Pendings(rows[c.at])
      <4>1. Pendings(Append(rows[c.at], r)) = Pendings(rows[c.at])
        BY <2>2, <3>2, EchoPends
      <4>2. QED
        BY <4>1
    <3> HIDE DEF l
    <3>5. \A j \in DOMAIN rows : rows'[j] = IF j = c.at THEN l ELSE rows[j]
      BY <1>0, <3>2, <3>3, ReplaceIs
    <3>6. k \in DOMAIN rows /\ k \in DOMAIN ids /\ ids'[k] = ids[k]
      BY <1>0, <2>1
    <3>7. Pendings(rows'[k]) = Pendings(rows[k])
      BY <3>4, <3>5, <3>6
    <3>8. QED
      BY <1>2, <2>1, <3>6, <3>7
  <2>5. QED
    BY <2>3, <2>4
<1>9. ASSUME RunAck
      PROVE  Pendings(rows'[k]) = Pended(ids'[k], overlay'[ids'[k]])
  <2> DEFINE c == Head(uiq)  at == Position(c.grp)
  <2>1. /\ c.grp \in Chats /\ c.msg \in Own /\ c.snap \in Seq(Msgs)
        /\ \/ UNCHANGED <<overlay, rows, blanked>>
           \/ /\ at \in DOMAIN ids /\ ids[at] = c.grp /\ rows[at] \in Seq(Row)
              /\ Forget(c.msg, c.grp) /\ overlay' \in [Chats -> Seq(Own)]
              /\ \/ /\ AckRow(c) \in ToSet(rows[at])
                    /\ Swapped(rows[at], c) \in Seq(Row)
                    /\ Replace(at, Swapped(rows[at], c))
                    /\ UNCHANGED blanked
                 \/ /\ Rebuilt(c.grp, c.snap) \in Seq(Row)
                    /\ Replace(at, Rebuilt(c.grp, c.snap))
                    /\ NoteRebuild(c.grp, c.snap)
    <3>1. Typed /\ ParallelLists /\ RunAck
      BY <1>0, <1>9
    <3>2. QED
      BY <3>1, AckIs
  <2>2. UNCHANGED ids
    BY <1>9 DEF RunAck
  <2> HIDE DEF c, at
  <2>3. ASSUME at \in DOMAIN ids, ids[at] = c.grp, Forget(c.msg, c.grp),
               NEW l \in Seq(Row), Replace(at, l),
               c.grp \notin blanked' => Pendings(l) = Pended(c.grp, overlay'[c.grp]),
               \A g \in Chats : g # c.grp /\ g \notin blanked' => g \notin blanked
        PROVE  Pendings(rows'[k]) = Pended(ids'[k], overlay'[ids'[k]])
    <3>1. \A j \in DOMAIN rows : rows'[j] = IF j = at THEN l ELSE rows[j]
      BY <1>0, <2>3, ReplaceIs
    <3>2. \A h \in Chats : h # c.grp => overlay'[h] = overlay[h]
      <4>1. Typed /\ c.msg \in Own /\ c.grp \in Chats /\ Forget(c.msg, c.grp)
        BY <1>0, <2>1, <2>3
      <4>2. QED
        BY <4>1, ForgetIs, ZenonT(60)
    <3>3. CASE k = at
      BY <1>0, <2>2, <2>3, <3>1, <3>3
    <3>4. CASE k # at
      <4>1. k \in DOMAIN ids /\ ids[k] # c.grp /\ ids[k] \in Chats /\ rows'[k] = rows[k]
        BY <1>0, <1>3, <2>2, <2>3, <3>1, <3>4 DEF IsInjective
      <4>2. ids[k] \notin blanked
        BY <2>2, <2>3, <4>1
      <4>3. Pendings(rows[k]) = Pended(ids[k], overlay[ids[k]])
        BY <1>2, <4>1, <4>2
      <4>4. overlay'[ids[k]] = overlay[ids[k]]
        BY <3>2, <4>1
      <4>5. QED
        BY <2>2, <4>1, <4>3, <4>4
    <3>5. QED
      BY <3>3, <3>4
  <2>4. CASE /\ at \in DOMAIN ids /\ ids[at] = c.grp /\ rows[at] \in Seq(Row) /\ Forget(c.msg, c.grp)
             /\ AckRow(c) \in ToSet(rows[at]) /\ Swapped(rows[at], c) \in Seq(Row)
             /\ Replace(at, Swapped(rows[at], c)) /\ UNCHANGED blanked
    <3>1. ASSUME c.grp \notin blanked'
          PROVE  Pendings(Swapped(rows[at], c)) = Pended(c.grp, overlay'[c.grp])
      <4> DEFINE over == overlay[c.grp]  l == rows[at]
      <4>1. over \in Seq(Own) /\ IsInjective(over)
        BY <1>3, <2>1, <2>4 DEF OverlayTrue
      <4>2. Pendings(l) = Pended(c.grp, over)
        BY <1>2, <2>4, <3>1
      <4>3. l \in Seq(Row) /\ AckRow(c) \in ToSet(l)
        BY <2>4 DEF AckRow
      <4>4. overlay'[c.grp] = Sublist(over, Own \ {c.msg})
        <5>1. Typed /\ c.msg \in Own /\ c.grp \in Chats /\ Forget(c.msg, c.grp)
          BY <1>0, <2>1, <2>4
        <5>2. QED
          BY <5>1, ForgetIs, ZenonT(60)
      <4> HIDE DEF over, l
      <4>5. Pendings(Swapped(l, c)) = Pended(c.grp, Sublist(over, Own \ {c.msg}))
        BY <2>1, <4>1, <4>2, <4>3, SwapPends
      <4>6. QED
        BY <4>4, <4>5 DEF l
    <3>2. PICK l : l = Swapped(rows[at], c)
      OBVIOUS
    <3>3. l \in Seq(Row) /\ Replace(at, l) /\ (c.grp \notin blanked' => Pendings(l) = Pended(c.grp, overlay'[c.grp]))
      BY <2>4, <3>1, <3>2
    <3>4. QED
      BY <2>3, <2>4, <3>3
  <2>5. CASE /\ at \in DOMAIN ids /\ ids[at] = c.grp /\ Forget(c.msg, c.grp)
             /\ overlay' \in [Chats -> Seq(Own)]
             /\ Rebuilt(c.grp, c.snap) \in Seq(Row)
             /\ Replace(at, Rebuilt(c.grp, c.snap)) /\ NoteRebuild(c.grp, c.snap)
    <3>1. blanked' = blanked \ {c.grp}
      BY <2>5 DEF NoteRebuild
    <3>2. PICK over : over = overlay'[c.grp]
      OBVIOUS
    <3>3. over \in Seq(Own)
      BY <2>1, <2>5, <3>2
    <3>4. Pendings(Recorded(c.grp, c.snap) \o Pended(c.grp, over)) = Pended(c.grp, over)
      BY <2>1, <3>3, RebuildPends
    <3>5. Rebuilt(c.grp, c.snap) = Recorded(c.grp, c.snap) \o Pended(c.grp, over)
      BY <3>2, RebuiltIs
    <3>6. PICK l : l = Rebuilt(c.grp, c.snap)
      OBVIOUS
    <3>7. l \in Seq(Row) /\ Replace(at, l) /\ Pendings(l) = Pended(c.grp, overlay'[c.grp])
      BY <2>5, <3>2, <3>4, <3>5, <3>6
    <3>8. \A g \in Chats : g # c.grp /\ g \notin blanked' => g \notin blanked
      BY <3>1
    <3>9. QED
      BY <2>3, <2>5, <3>7, <3>8
  <2>6. QED
    BY <1>5, <2>1, <2>2, <2>4, <2>5
<1>10. ASSUME RunRefresh
       PROVE  Pendings(rows'[k]) = Pended(ids'[k], overlay'[ids'[k]])
  <2> DEFINE c == Head(uiq)  d == Default(c.list)
  <2>1. /\ (Run("boot") \/ Run("refresh")) /\ UNCHANGED overlay /\ ids' = c.list
        /\ rows' = [j \in DOMAIN c.list |->
                     IF j = d THEN SnapshotOnly(c.list[j], c.first) ELSE <<>>]
        /\ blanked' = {g \in Chats : overlay[g] # <<>>}
    BY <1>10 DEF RunRefresh
  <2>2. c.list \in Seq(Chats) /\ c.first \in Seq(Msgs)
    BY <1>0, <2>1, HeadIs DEF Typed, Lists
  <2> HIDE DEF d, c
  <2>3. k \in DOMAIN c.list /\ ids'[k] \in Chats /\ ids'[k] = c.list[k]
    BY <1>0, <2>1
  <2>4. overlay[ids'[k]] = <<>>
    BY <2>1, <2>3
  <2>5. Pendings(rows'[k]) = <<>>
    <3>1. CASE k = d
      <4>1. PICK g : g = c.list[k]
        OBVIOUS
      <4>2. rows'[k] = Recorded(g, c.first)
        BY <2>1, <2>3, <3>1, <4>1 DEF SnapshotOnly, Recorded
      <4>3. Pendings(Recorded(g, c.first)) = <<>>
        BY <2>2, <2>3, <4>1, RecordsPend
      <4>4. QED
        BY <4>2, <4>3
    <3>2. CASE k # d
      BY <2>1, <2>3, <3>2, NothingPends
    <3>3. QED
      BY <3>1, <3>2
  <2>6. QED
    BY <2>1, <2>4, <2>5, NothingPends
<1>11. ASSUME RunMerge \/ RunChat
       PROVE  Pendings(rows'[k]) = Pended(ids'[k], overlay'[ids'[k]])
  <2>1. PICK more \in Seq(Chats), none \in Seq(Seq(Row)) :
          /\ ids' = ids \o more /\ rows' = rows \o none /\ Len(none) = Len(more)
          /\ \A j \in DOMAIN none : none[j] = <<>>
    BY <1>0, <1>11, MergeIs
  <2>2. UNCHANGED <<overlay, blanked>>
    BY <1>0, <1>11, MergeIs
  <2>3. CASE k \in DOMAIN ids
    <3>1. ids'[k] = ids[k]
      BY <1>0, <2>1, <2>3, ConcatParts
    <3>2. rows'[k] = rows[k]
      BY <1>0, <2>1, <2>3, ConcatParts
    <3>3. QED
      BY <1>2, <2>2, <2>3, <3>1, <3>2
  <2>4. CASE k \notin DOMAIN ids
    <3>1. ids'[k] \notin ToSet(ids)
      <4>1. ASSUME NEW j \in DOMAIN ids, ids[j] = ids'[k] PROVE FALSE
        <5>1. j \in DOMAIN ids' /\ ids'[j] = ids'[k]
          BY <1>1, <4>1 DEF PrefixOf
        <5>2. QED
          BY <1>0, <2>4, <4>1, <5>1 DEF IsInjective
      <4>2. QED
        BY <4>1 DEF ToSet
    <3>2. ids'[k] \in Chats
      BY <1>0
    <3>3. overlay'[ids'[k]] = <<>>
      BY <1>4, <2>2, <3>1, <3>2
    <3>4. rows'[k] = <<>>
      <4>1. Len(rows) = Len(ids)
        BY <1>0 DEF ParallelLists
      <4>2. DOMAIN (ids \o more) = 1 .. Len(ids) + Len(more)
        BY <1>0, ConcatParts
      <4>0. rows \in Seq(Seq(Row)) /\ none \in Seq(Seq(Row))
        BY <1>0
      <4>3. /\ DOMAIN (rows \o none) = 1 .. Len(rows) + Len(none) /\ DOMAIN none = 1 .. Len(none)
            /\ Len(rows) \in Nat /\ Len(none) \in Nat
        BY <4>0, ConcatParts
      <4>10. \A i \in DOMAIN none : (rows \o none)[Len(rows) + i] = none[i]
        BY <4>0
      <4>11. \A i \in DOMAIN (rows \o none) : i \in DOMAIN rows \/ i - Len(rows) \in DOMAIN none
        BY <4>0, ConcatParts
      <4>4. k \in 1 .. Len(rows) + Len(none) /\ k \notin DOMAIN rows
        BY <1>0, <2>1, <2>4, <4>1, <4>2
      <4>5. k - Len(rows) \in DOMAIN none
        BY <4>3, <4>4, <4>11
      <4>6. Len(rows) + (k - Len(rows)) = k
        BY <4>3, <4>4
      <4>7. (rows \o none)[k] = none[k - Len(rows)]
        BY <4>10, <4>5, <4>6
      <4>8. QED
        BY <2>1, <4>5, <4>7
    <3>5. QED
      BY <3>3, <3>4, NothingPends
  <2>5. QED
    BY <2>3, <2>4
<1>12. ASSUME RunPin
       PROVE  Pendings(rows'[k]) = Pended(ids'[k], overlay'[ids'[k]])
  <2>1. UNCHANGED rows /\ UNCHANGED ids
    BY <1>12, PinInPlace
  <2>2. UNCHANGED <<overlay, blanked>>
    BY <1>12 DEF RunPin
  <2>3. QED
    BY <1>5, <2>1, <2>2
<1>13. ~Archive
  BY DEF Archive
<1>14. (\E j \in DOMAIN ids : Select(j)) => UNCHANGED <<ids, rows, overlay, blanked>>
  BY DEF Select, history
<1>15. \/ \E m \in Own : Send(m)
       \/ RunSelect \/ RunOlder \/ RunAck \/ RunRefresh
       \/ UNCHANGED <<overlay, blanked>>
  <2>1. (\E m \in Foreign : Receive(m)) \/ (\E s \in sends : Publish(s)) \/ RunEcho => UNCHANGED blanked
    BY DEF Receive, Publish, RunEcho
  <2>2. \A j \in DOMAIN ids : TogglePin(j) => UNCHANGED <<overlay, blanked>>
    BY DEF TogglePin, history
  <2>3. QED
    BY <2>1, <2>2, OverlayFrame, NoteFrame
<1>16. QED
  BY <1>5, <1>6, <1>7, <1>8, <1>9, <1>10, <1>11, <1>12, <1>13, <1>14, <1>15, ListsFrame DEF lists
-----------------------------------------------------------------------------
(* After a selection the watcher is the open chat's, or the selection that *)
(* will install it is still being read or waits for the event loop.        *)
Awaited(x) == x.kind = "select" /\ x.at = open
Expected == ~moved /\ used["select"] > 0 =>
  /\ Opened
  /\ \/ watch.at = open
     \/ \E r \in BagToSet(reads) : Awaited(r)
     \/ \E c \in Queue : Awaited(c)

LEMMA OnlySelect ==
  ASSUME Core, Next
  PROVE  (\E k \in DOMAIN ids : Select(k)) \/ used'["select"] = used["select"]
<1>0. used \in [Limited -> Nat] /\ "select" \in Limited
  BY DEF Core, Typed, NoteTypes, Limited
<1>1. ASSUME NEW o \in Limited, o # "select", Spend(o) PROVE used'["select"] = used["select"]
  BY <1>0, <1>1 DEF Spend
<1>2. /\ "older" \in Limited /\ "pin" \in Limited /\ "archive" \in Limited /\ "merge" \in Limited
      /\ "refresh" \in Limited /\ "again" \in Limited /\ "diskError" \in Limited
  BY DEF Limited
<1>3. User => (\E k \in DOMAIN ids : Select(k)) \/ used'["select"] = used["select"]
  BY <1>1, <1>2 DEF User, RequestOlder, Archive, Send, TogglePin
<1>4. Worker => used'["select"] = used["select"]
  BY <1>1, <1>2 DEF Worker, Receive, Publish, Resolve, Subscribe, ReportAgain, WatcherCallback,
         ReadWindow, ReadList, NewChat, CommitArchive, RequestMerge, RequestRefresh
<1>5. RunClosure => UNCHANGED used
  BY DEF RunClosure, RunSelect, RunOlder, RunEcho, RunAck, RunRefresh, RunMerge, RunChat, RunPin,
         RunReload
<1>6. QED
  BY <1>3, <1>4, <1>5 DEF Next

(* A posted closure waits until it is run.                                 *)
LEMMA ClosureWaits ==
  ASSUME ViewConstantsOK, Core, Next, NEW c \in Queue, c \notin Queue'
  PROVE  RunClosure /\ c = Head(uiq) /\ Run(c.kind)
<1>0. QueueTypes /\ Typed
  BY DEF Core, Typed
<1>1. ASSUME NEW k, Run(k) PROVE c = Head(uiq) /\ k = c.kind
  <2>1. Queue = Queue' \cup {Head(uiq)} /\ Head(uiq).kind = k
    BY <1>0, <1>1, RunIs
  <2>2. QED
    BY <2>1
<1>2. ~UNCHANGED uiq /\ \A d : ~(Sound(d) /\ Post(d))
  <2>1. ASSUME NEW d, Sound(d), Post(d) PROVE FALSE
    <3>1. Queue' = Queue \cup {d}
      BY <1>0, <2>1, PostIs DEF Sound
    <3>2. QED
      BY <3>1
  <2>2. QED
    BY <2>1 DEF Queue
<1>3. PICK k : Run(k)
  BY <1>2, QueueFrame
<1>4. k = c.kind /\ c = Head(uiq) /\ Run(c.kind)
  BY <1>1, <1>3
<1>5. uiq \in Seq(Closure) /\ uiq # <<>> /\ Len(uiq') = Len(uiq) - 1 /\ Len(uiq) \in Nat
  BY <1>0, <1>3 DEF QueueTypes, Run
<1>6. \A d : Len(Append(uiq, d)) = Len(uiq) + 1
  BY <1>5
<1>7. ASSUME NEW d, Post(d) PROVE FALSE
  <2>1. Len(uiq') = Len(uiq) + 1
    BY <1>6, <1>7 DEF Post
  <2>2. QED
    BY <1>5, <2>1
<1>8. ~User
  BY <1>2 DEF User, Select, TogglePin, Send, RequestOlder, Archive
<1>9. ~Worker
  BY <1>2, <1>7 DEF Worker, Receive, Publish, Resolve, Subscribe, ReportAgain, WatcherCallback,
         ReadWindow, ReadList, NewChat, CommitArchive, RequestMerge, RequestRefresh
<1>10. QED
  BY <1>4, <1>8, <1>9 DEF Next

LEMMA SelectWaits ==
  ASSUME ViewConstantsOK, Core, Next, NEW c \in Queue, c.kind = "select", c \notin Queue'
  PROVE  RunSelect /\ c = Head(uiq)
<1>1. RunClosure /\ c = Head(uiq)
  BY ClosureWaits
<1>2. ~(RunOlder \/ RunEcho \/ RunAck \/ RunMerge \/ RunChat \/ RunPin \/ RunReload \/ RunRefresh)
  BY <1>1 DEF RunOlder, RunEcho, RunAck, RunRefresh, RunMerge, RunChat, RunPin, RunReload, Run
<1>3. QED
  BY <1>1, <1>2 DEF RunClosure

(* A selection that has been read is posted.                               *)
LEMMA ReadPosts ==
  ASSUME ViewConstantsOK, Core, Next, NEW r \in BagToSet(reads), r.kind = "select",
         r \notin BagToSet(reads')
  PROVE  \E c \in Queue' : c.kind = "select" /\ c.at = r.at
<1>0. Typed /\ ReadTypes /\ QueueTypes /\ IsInjective(ids)
  BY DEF Core, Typed, ParallelLists
<1>1. ASSUME NEW q \in Reads, Ask(q) PROVE FALSE
  BY <1>0, <1>1, AskIs
<1>2. ASSUME NEW q \in BagToSet(reads), reads' = reads (-) SetToBag({q}) PROVE r = q
  BY <1>0, <1>2, TakeIs
<1>3. PICK q \in BagToSet(reads) : reads' = reads (-) SetToBag({q}) /\ r = q
  BY <1>0, <1>1, <1>2, ReadsFrame
<1>4. ~UNCHANGED reads
  OBVIOUS
<1>5. \A k \in {"merge", "refresh", "pin"} : [kind |-> k] \in Reads
  BY DEF Reads, ListRead
<1>6. \A k \in {"merge", "refresh", "pin"} : ~Ask([kind |-> k])
  BY <1>1, <1>5
<1>7. ASSUME NEW k \in DOMAIN ids, NEW d \in Rebuilds
      PROVE  ~Ask([kind |-> d, grp |-> ids[k], at |-> k])
  <2>1. ids \in Seq(Chats)
    BY <1>0 DEF Typed, ListTypes
  <2>2. DOMAIN ids \subseteq Positions
    BY <1>0, <2>1, PositionsHold
  <2>3. [kind |-> d, grp |-> ids[k], at |-> k] \in Reads
    BY <2>1, <2>2 DEF Reads, WindowRead, Rebuilds
  <2>4. QED
    BY <1>1, <2>3
<1>8. ~User
  BY <1>4, <1>6, <1>7 DEF User, Select, TogglePin, RequestOlder, Opened, Send, Archive, Rebuilds
<1>9. ~RunClosure
  BY <1>4, <1>6 DEF RunClosure, RunSelect, RunOlder, RunEcho, RunAck, RunRefresh, RunMerge, RunChat,
              RunPin, RunReload
<1>10. PICK t \in BagToSet(reads) : ReadWindow(t) \/ ReadList(t)
  BY <1>4, <1>6, <1>8, <1>9
     DEF Next, Worker, Receive, Publish, Resolve, Subscribe, ReportAgain, WatcherCallback,
         NewChat, CommitArchive, RequestMerge, RequestRefresh
<1>11. t = r
  BY <1>2, <1>10 DEF ReadWindow, ReadList, Answered
<1>12. r \in Reads
  BY <1>0, <1>3, TakeIs
<1>13. r \in WindowRead
  BY <1>12 DEF Reads, ListRead
<1>14. ReadWindow(r)
  BY <1>10, <1>11 DEF ReadList, ListRead
<1>15. Post(WindowOf(r))
  BY <1>14 DEF ReadWindow, WindowOf
<1>16. WindowOf(r) \in Closure
  <2>1. r.kind \in Rebuilds /\ r.grp \in Chats /\ r.at \in Positions
    BY <1>12, <1>13, ReadFields
  <2>2. store[r.grp] \in Seq(Msgs)
    BY <1>0, <2>1 DEF Typed, MarmotTypes
  <2>3. QED
    BY <2>1, <2>2 DEF WindowOf, Closure, Rebuilds
<1>17. Queue' = Queue \cup {WindowOf(r)}
  BY <1>0, <1>15, <1>16, PostIs
<1>18. WindowOf(r).kind = "select" /\ WindowOf(r).at = r.at
  BY DEF WindowOf
<1>19. QED
  BY <1>17, <1>18

LEMMA ExpectedStep ==
  ASSUME ViewConstantsOK, Core, Core', Expected, Next PROVE Expected'
<1> SUFFICES ASSUME ~moved', used'["select"] > 0
             PROVE  /\ Opened'
                    /\ \/ watch'.at = open'
                       \/ \E r \in BagToSet(reads') : Awaited(r)'
                       \/ \E c \in Queue' : Awaited(c)'
  BY DEF Expected
<1>0. Typed /\ ReadTypes /\ WatchTypes /\ ids \in Seq(Chats) /\ ids' \in Seq(Chats) /\ IsInjective(ids)
  BY DEF Core, Typed, ListTypes, ParallelLists
<1>1. ~moved /\ PrefixOf(ids, ids')
  BY StillThere
<1>2. ASSUME NEW k \in DOMAIN ids, Select(k)
      PROVE  Opened' /\ \E r \in BagToSet(reads') : Awaited(r)'
  <2>1. [kind |-> "select", grp |-> ids[k], at |-> k] \in Reads
    <3>1. DOMAIN ids \subseteq Positions
      BY <1>0, PositionsHold
    <3>2. ids[k] \in Chats
      BY <1>0
    <3>3. QED
      BY <3>1, <3>2 DEF Reads, WindowRead
  <2>2. PICK q \in Reads : q = [kind |-> "select", grp |-> ids[k], at |-> k]
    BY <2>1
  <2>3. open' = k /\ ids' = ids /\ Ask(q) /\ q.kind = "select" /\ q.at = k
    BY <1>2, <2>2 DEF Select
  <2>4. q \in BagToSet(reads')
    BY <1>0, <2>3, AskIs
  <2>5. Opened'
    BY <2>3 DEF Opened
  <2>6. Awaited(q)'
    BY <2>3 DEF Awaited
  <2>7. QED
    BY <2>4, <2>5, <2>6
<1>3. ASSUME \A k \in DOMAIN ids : ~Select(k)
      PROVE  /\ Opened'
             /\ \/ watch'.at = open'
                \/ \E r \in BagToSet(reads') : Awaited(r)'
                \/ \E c \in Queue' : Awaited(c)'
  <2>1. used["select"] > 0
    BY <1>3, OnlySelect
  <2>2. /\ Opened
        /\ \/ watch.at = open
           \/ \E r \in BagToSet(reads) : Awaited(r)
           \/ \E c \in Queue : Awaited(c)
    BY <1>1, <2>1 DEF Expected
  <2>3. open' = open
    <3>1. RunPin => open' = open
      BY <2>2, PinInPlace
    <3>2. RunRefresh => open' = open
      BY <2>2 DEF RunRefresh
    <3>3. ~Archive
      BY DEF Archive
    <3>4. UNCHANGED lists \/ (\E m \in Own : Send(m)) \/ RunSelect \/ RunOlder \/ RunEcho \/ RunAck
          \/ RunMerge \/ RunChat => open' = open
      BY DEF lists, Send, RunSelect, RunOlder, RunEcho, RunAck, RunMerge, RunChat
    <3>5. QED
      BY <1>3, <3>1, <3>2, <3>3, <3>4, ListsFrame
  <2>4. Opened'
    BY <1>1, <2>2, <2>3 DEF Opened, PrefixOf
  <2>5. ASSUME watch.at = open PROVE watch'.at = open'
    <3>1. UNCHANGED watcher \/ (\E m \in Foreign : Receive(m)) \/ (\E s \in sends : Publish(s))
        \/ ReportAgain \/ WatcherCallback => UNCHANGED watch
      BY DEF watcher, Receive, Publish, ReportAgain, WatcherCallback
    <3>2. ASSUME Subscribe PROVE watch'.at = watch.at
      <4>1. watch # NoWatch /\ watch' = [watch EXCEPT !.live = TRUE]
        BY <3>2 DEF Subscribe
      <4>2. watch = [grp |-> watch.grp, at |-> watch.at, live |-> watch.live]
        BY <1>0, <4>1, WatchFields
      <4>3. QED
        BY <4>1, <4>2
    <3>3. ASSUME RunSelect PROVE watch'.at = open
      BY <2>5, <3>3 DEF RunSelect, Attach, watcher
    <3>4. QED
      BY <2>3, <2>5, <3>1, <3>2, <3>3, WatchFrame
  <2>6. ASSUME NEW r \in BagToSet(reads), Awaited(r)
        PROVE  \/ \E q \in BagToSet(reads') : Awaited(q)'
               \/ \E c \in Queue' : Awaited(c)'
    BY <2>3, <2>6, ReadPosts DEF Awaited
  <2>7. ASSUME NEW c \in Queue, Awaited(c)
        PROVE  watch'.at = open' \/ \E d \in Queue' : Awaited(d)'
    <3>1. CASE c \in Queue'
      BY <2>3, <2>7, <3>1 DEF Awaited
    <3>2. CASE c \notin Queue'
      <4>1. RunSelect /\ c = Head(uiq) /\ c.at = open
        BY <2>7, <3>2, SelectWaits DEF Awaited
      <4>2. watch' = [grp |-> c.grp, at |-> c.at, live |-> FALSE]
        BY <4>1 DEF RunSelect, Attach
      <4>3. QED
        BY <2>3, <4>1, <4>2
    <3>3. QED
      BY <3>1, <3>2
  <2>8. QED
    BY <2>2, <2>4, <2>5, <2>6, <2>7
<1>4. QED
  BY <1>2, <1>3
-----------------------------------------------------------------------------
(* The rows of the watched position: what is in them stays in them, or     *)
(* counts as missed; what is reported or posted for them arrives.          *)

LEMMA RebuildKeeps ==
  ASSUME Core, StoresOnce, NEW at \in DOMAIN ids, NEW g \in Chats, ids[at] = g,
         NEW snap \in Seq(Msgs), NEW l \in Seq(Row),
         \A n \in ToSet(snap) : Record(n, g) \in ToSet(l),
         Replace(at, l), NoteRebuild(g, snap),
         NEW k \in DOMAIN ids, NEW m \in ToSet(store[ids[k]]),
         k = at \/ Record(m, ids[k]) \in ToSet(rows[k]) \/ m \in missed
  PROVE  Record(m, ids[k]) \in ToSet(rows'[k]) \/ m \in missed'
<1>0. /\ ids \in Seq(Chats) /\ rows \in Seq(Seq(Row)) /\ DOMAIN rows = DOMAIN ids /\ IsInjective(ids)
  BY DEF Core, Typed, ListTypes, ParallelLists
<1>1. rows'[k] = IF k = at THEN l ELSE rows[k]
  BY <1>0, ReplaceIs
<1>2. missed' = (missed \ ToSet(store[g])) \cup (ToSet(store[g]) \ ToSet(snap))
  BY DEF NoteRebuild, Newer
<1>3. CASE k = at
  BY <1>1, <1>2, <1>3
<1>4. CASE k # at
  <2>1. ids[k] \in Chats /\ ids[k] # g
    BY <1>0, <1>4 DEF IsInjective
  <2>2. m \notin ToSet(store[g])
    BY <2>1 DEF StoresOnce
  <2>3. QED
    BY <1>1, <1>2, <1>4, <2>2
<1>5. QED
  BY <1>3, <1>4

LEMMA RunRebuilds ==
  ASSUME Core, StoresOnce, Placed, ~moved, RunSelect \/ RunOlder,
         NEW k \in DOMAIN ids, NEW m \in ToSet(store[ids[k]]),
         k = Head(uiq).at \/ Record(m, ids[k]) \in ToSet(rows[k]) \/ m \in missed
  PROVE  Record(m, ids[k]) \in ToSet(rows'[k]) \/ m \in missed'
<1>0. Typed
  BY DEF Core
<1> DEFINE c == Head(uiq)
<1>1. /\ c \in Queue /\ c.kind \in Rebuilds
      /\ c.grp \in Chats /\ c.snap \in Seq(Msgs) /\ overlay[c.grp] \in Seq(Own)
      /\ Recorded(c.grp, c.snap) \o Pended(c.grp, overlay[c.grp]) \in Seq(Row)
      /\ Replace(c.at, Recorded(c.grp, c.snap) \o Pended(c.grp, overlay[c.grp]))
      /\ NoteRebuild(c.grp, c.snap)
  BY <1>0, RebuildIs
<1>2. c.at \in DOMAIN ids /\ ids[c.at] = c.grp
  BY <1>1 DEF Placed, InPlace
<1> HIDE DEF c
<1>8. PICK over \in Seq(Own) : over = overlay[c.grp]
  BY <1>1
<1>3. PICK l : l = Recorded(c.grp, c.snap) \o Pended(c.grp, over)
  OBVIOUS
<1>4. \A n \in ToSet(c.snap) : Record(n, c.grp) \in ToSet(l)
  <2>3. c.grp \in Chats /\ c.snap \in Seq(Msgs)
    BY <1>1
  <2>1. \A r : r \in ToSet(l) <=> \/ \E n \in ToSet(c.snap) : r = Record(n, c.grp)
                                  \/ \E n \in ToSet(over) : r = PendingRow(n, c.grp)
    <3>1. over \in Seq(Own)
      BY <1>8
    <3>2. \A r : r \in ToSet(Recorded(c.grp, c.snap) \o Pended(c.grp, over)) <=>
                  \/ \E n \in ToSet(c.snap) : r = Record(n, c.grp)
                  \/ \E n \in ToSet(over) : r = PendingRow(n, c.grp)
      BY <2>3, <3>1, RebuildElems
    <3>3. QED
      BY <1>3, <3>2
  <2>2. QED
    BY <2>1
<1>5. l \in Seq(Row) /\ Replace(c.at, l)
  BY <1>1, <1>3, <1>8
<1>6. k = c.at \/ Record(m, ids[k]) \in ToSet(rows[k]) \/ m \in missed
  BY DEF c
<1>7. QED
  BY <1>1, <1>2, <1>4, <1>5, <1>6, RebuildKeeps

LEMMA AckKeeps ==
  ASSUME Core, StoresOnce, RunAck, NEW k \in DOMAIN ids, NEW m \in ToSet(store[ids[k]]),
         Record(m, ids[k]) \in ToSet(rows[k]) \/ m \in missed
  PROVE  Record(m, ids[k]) \in ToSet(rows'[k]) \/ m \in missed'
<1>0. /\ Typed /\ ParallelLists /\ ids \in Seq(Chats) /\ rows \in Seq(Seq(Row))
      /\ DOMAIN rows = DOMAIN ids
  BY DEF Core, Typed, ListTypes, ParallelLists
<1> DEFINE c == Head(uiq)  at == Position(c.grp)
<1>1. /\ c.grp \in Chats /\ c.msg \in Msgs /\ c.snap \in Seq(Msgs)
      /\ \/ UNCHANGED <<rows, missed>>
         \/ /\ at \in DOMAIN ids /\ ids[at] = c.grp /\ rows[at] \in Seq(Row)
            /\ overlay' \in [Chats -> Seq(Own)]
            /\ \/ /\ AckRow(c) \in ToSet(rows[at])
                  /\ Spot(rows[at], AckRow(c)) \in DOMAIN rows[at]
                  /\ rows[at][Spot(rows[at], AckRow(c))] = AckRow(c)
                  /\ Swapped(rows[at], c) \in Seq(Row)
                  /\ DOMAIN Swapped(rows[at], c) = DOMAIN rows[at]
                  /\ Replace(at, Swapped(rows[at], c))
                  /\ UNCHANGED missed
               \/ /\ Rebuilt(c.grp, c.snap) \in Seq(Row)
                  /\ Replace(at, Rebuilt(c.grp, c.snap))
                  /\ NoteRebuild(c.grp, c.snap)
  BY <1>0, AckIs
<1> HIDE DEF c, at
<1>2. ids[k] \in Chats /\ m \in Msgs
  <2>1. ids[k] \in Chats
    BY <1>0
  <2>2. QED
    BY <1>0, <2>1, StoreTyped
<1>3. CASE UNCHANGED <<rows, missed>>
  BY <1>3
<1>4. CASE /\ at \in DOMAIN ids /\ rows[at] \in Seq(Row)
           /\ Spot(rows[at], AckRow(c)) \in DOMAIN rows[at]
           /\ rows[at][Spot(rows[at], AckRow(c))] = AckRow(c)
           /\ Swapped(rows[at], c) \in Seq(Row)
           /\ DOMAIN Swapped(rows[at], c) = DOMAIN rows[at]
           /\ Replace(at, Swapped(rows[at], c))
           /\ UNCHANGED missed
  <2>1. PICK l : l = Swapped(rows[at], c)
    OBVIOUS
  <2>2. rows'[k] = IF k = at THEN l ELSE rows[k]
    BY <1>0, <1>4, <2>1, ReplaceIs
  <2>3. Record(m, ids[k]) # AckRow(c)
    BY <1>1, <1>2, RowFields DEF AckRow
  <2>4. ASSUME NEW i \in DOMAIN rows[at], rows[at][i] # AckRow(c)
        PROVE  l[i] = rows[at][i] /\ i \in DOMAIN l
    BY <1>4, <2>1, <2>4 DEF Swapped
  <2>5. k = at /\ Record(m, ids[k]) \in ToSet(rows[k]) => Record(m, ids[k]) \in ToSet(l)
    BY <2>3, <2>4 DEF ToSet
  <2>6. QED
    BY <1>4, <2>2, <2>5
<1>5. CASE /\ at \in DOMAIN ids /\ ids[at] = c.grp
           /\ overlay' \in [Chats -> Seq(Own)]
           /\ Rebuilt(c.grp, c.snap) \in Seq(Row)
           /\ Replace(at, Rebuilt(c.grp, c.snap))
           /\ NoteRebuild(c.grp, c.snap)
  <2>1. PICK over \in Seq(Own) : over = overlay'[c.grp]
    BY <1>1, <1>5
  <2>2. PICK l : l = Recorded(c.grp, c.snap) \o Pended(c.grp, over)
    OBVIOUS
  <2>3. l = Rebuilt(c.grp, c.snap)
    BY <2>1, <2>2, RebuiltIs
  <2>4. \A n \in ToSet(c.snap) : Record(n, c.grp) \in ToSet(l)
    <3>1. \A r : r \in ToSet(l) <=> \/ \E n \in ToSet(c.snap) : r = Record(n, c.grp)
                                    \/ \E n \in ToSet(over) : r = PendingRow(n, c.grp)
      BY <1>1, <2>2, RebuildElems
    <3>2. QED
      BY <3>1
  <2>5. l \in Seq(Row) /\ Replace(at, l)
    BY <1>5, <2>3
  <2>6. QED
    BY <1>1, <1>5, <2>4, <2>5, RebuildKeeps
<1>6. QED
  BY <1>1, <1>3, <1>4, <1>5

LEMMA RefreshKeeps ==
  ASSUME Core, Core', RunRefresh, PrefixOf(ids, ids'),
         NEW k \in DOMAIN ids, NEW m \in ToSet(store[ids[k]])
  PROVE  Record(m, ids[k]) \in ToSet(rows'[k]) \/ m \in missed'
<1>0. Typed /\ ids \in Seq(Chats) /\ IsInjective(ids')
  BY DEF Core, Typed, ListTypes, ParallelLists
<1> DEFINE c == Head(uiq)  d == Default(c.list)
           shown(g) == IF c.list # <<>> /\ g = c.list[d] THEN ToSet(c.first) ELSE {}
<1>1. /\ (Run("boot") \/ Run("refresh")) /\ ids' = c.list
      /\ rows' = [j \in DOMAIN c.list |->
                   IF j = d THEN SnapshotOnly(c.list[j], c.first) ELSE <<>>]
      /\ missed' = UNION {ToSet(store[g]) \ shown(g) : g \in Chats}
  BY DEF RunRefresh
<1>2. c.list \in Seq(Chats) /\ c.first \in Seq(Msgs)
  BY <1>0, <1>1, HeadIs DEF Typed, Lists
<1>3. c.list # <<>> => d \in DOMAIN c.list
  BY <1>2, DefaultIn
<1> HIDE DEF d, c
<1>4. SUFFICES ASSUME m \notin missed' PROVE Record(m, ids[k]) \in ToSet(rows'[k])
  OBVIOUS
<1>5. ids[k] \in Chats
  BY <1>0
<1>6. m \in shown(ids[k])
  <2>1. ToSet(store[ids[k]]) \ shown(ids[k]) \subseteq missed'
    <3> HIDE DEF shown
    <3>1. QED
      BY <1>1, <1>5
  <2>2. QED
    BY <1>4, <2>1
<1>7. c.list # <<>> /\ ids[k] = c.list[d] /\ m \in ToSet(c.first)
  BY <1>6
<1>8. k \in DOMAIN c.list /\ c.list[k] = ids[k] /\ k = d
  <2>1. k \in DOMAIN c.list /\ c.list[k] = ids[k]
    BY <1>1 DEF PrefixOf
  <2>2. QED
    BY <1>0, <1>1, <1>3, <1>7, <2>1 DEF IsInjective
<1>9. PICK g \in Chats : g = ids[k]
  BY <1>5
<1>10. rows'[k] = Recorded(g, c.first)
  BY <1>1, <1>8, <1>9 DEF SnapshotOnly, Recorded
<1>11. Record(m, g) \in ToSet(Recorded(g, c.first))
  BY <1>2, <1>7, RecordedElems
<1>12. QED
  BY <1>9, <1>10, <1>11

(* A position's records stay, while chats keep their positions.            *)
LEMMA RecordsStay ==
  ASSUME ViewConstantsOK, Core, Core', StoresOnce, Placed, Next, ~moved',
         NEW k \in DOMAIN ids, NEW m \in ToSet(store[ids[k]]),
         Record(m, ids[k]) \in ToSet(rows[k]) \/ m \in missed
  PROVE  Record(m, ids[k]) \in ToSet(rows'[k]) \/ m \in missed'
<1>0. /\ Typed /\ ParallelLists /\ QueueTypes /\ ids \in Seq(Chats) /\ rows \in Seq(Seq(Row))
      /\ DOMAIN rows = DOMAIN ids /\ ListTypes
  BY DEF Core, Typed, ListTypes, ParallelLists
<1>1. ~moved /\ PrefixOf(ids, ids')
  BY StillThere
<1>2. RunSelect \/ RunOlder \/ RunAck \/ RunRefresh =>
        Record(m, ids[k]) \in ToSet(rows'[k]) \/ m \in missed'
  BY <1>1, RunRebuilds, AckKeeps, RefreshKeeps
<1>3. RunSelect \/ RunOlder \/ RunAck \/ RunRefresh \/ missed \subseteq missed'
  <2>1. (\E n \in Foreign : Receive(n)) \/ (\E s \in sends : Publish(s)) => missed \subseteq missed'
    BY DEF Receive, Publish, Stored
  <2>2. RunEcho => UNCHANGED missed
    BY DEF RunEcho
  <2>3. QED
    BY <2>1, <2>2, NoteFrame
<1>4. \/ RunSelect \/ RunOlder \/ RunAck \/ RunRefresh
      \/ ToSet(rows[k]) \subseteq ToSet(rows'[k])
  <2>1. ASSUME NEW n \in Own, Send(n) PROVE ToSet(rows[k]) \subseteq ToSet(rows'[k])
    <3> DEFINE r == PendingRow(n, ids[open])
    <3>1. open \in DOMAIN ids /\ Replace(open, Append(rows[open], r))
      BY <2>1 DEF Send, Opened
    <3>2. rows[open] \in Seq(Row) /\ r \in Row
      <4>1. rows[open] \in Seq(Row) /\ ids[open] \in Chats /\ n \in Msgs
        BY <1>0, <3>1 DEF Msgs
      <4>2. QED
        BY <4>1, RowFields
    <3> HIDE DEF r
    <3>7. Append(rows[open], r) \in Seq(Row)
      BY <3>2
    <3>3. PICK l \in Seq(Row) : l = Append(rows[open], r)
      BY <3>7
    <3>4. rows'[k] = IF k = open THEN l ELSE rows[k]
      BY <1>0, <3>1, <3>3, ReplaceIs
    <3>5. ToSet(l) = ToSet(rows[open]) \cup {r}
      BY <3>2, <3>3, QueueAdds
    <3>6. QED
      BY <3>4, <3>5
  <2>2. ASSUME RunEcho PROVE ToSet(rows[k]) \subseteq ToSet(rows'[k])
    <3> DEFINE c == Head(uiq)  r == Record(c.msg, c.grp)
    <3>1. Run("echo") /\ IF c.at \in DOMAIN rows THEN AppendEcho(c) ELSE UNCHANGED rows
      BY <2>2 DEF RunEcho
    <3>2. r \in Row
      <4>1. c.grp \in Chats /\ c.msg \in Msgs
        BY <1>0, <3>1, HeadIs
      <4>2. QED
        BY <4>1, RowFields
    <3>3. CASE c.at \in DOMAIN rows
      <4>1. rows' = IF Has(rows[c.at], r) THEN rows ELSE [rows EXCEPT ![c.at] = Append(@, r)]
        BY <3>1, <3>3 DEF AppendEcho
      <4> HIDE DEF c, r
      <4>2. /\ rows[c.at] \in Seq(Row)
            /\ Replace(c.at, IF r \in ToSet(rows[c.at]) THEN rows[c.at] ELSE Append(rows[c.at], r))
        BY <1>0, <3>2, <3>3, <4>1, EchoIs
      <4>3. PICK l : l = IF r \in ToSet(rows[c.at]) THEN rows[c.at] ELSE Append(rows[c.at], r)
        OBVIOUS
      <4>4. l \in Seq(Row) /\ Replace(c.at, l)
        BY <3>2, <4>2, <4>3
      <4>5. rows'[k] = IF k = c.at THEN l ELSE rows[k]
        BY <1>0, <4>4, ReplaceIs
      <4>6. ToSet(Append(rows[c.at], r)) = ToSet(rows[c.at]) \cup {r}
        BY <3>2, <4>2, QueueAdds
      <4>7. ToSet(rows[c.at]) \subseteq ToSet(l)
        BY <4>3, <4>6
      <4>8. QED
        BY <4>5, <4>7
    <3>4. CASE c.at \notin DOMAIN rows
      BY <3>1, <3>4
    <3>5. QED
      BY <3>3, <3>4
  <2>3. ASSUME RunMerge \/ RunChat PROVE rows'[k] = rows[k]
    <3>1. PICK none \in Seq(Seq(Row)) : rows' = rows \o none
      BY <1>0, <2>3, MergeIs
    <3>2. QED
      BY <1>0, <3>1, ConcatParts
  <2>4. RunPin => UNCHANGED rows
    BY PinInPlace
  <2>5. ~Archive
    BY DEF Archive
  <2>6. (\E j \in DOMAIN ids : Select(j)) \/ UNCHANGED lists => UNCHANGED rows
    BY DEF Select, lists
  <2>7. QED
    BY <2>1, <2>2, <2>3, <2>4, <2>5, <2>6, ListsFrame
<1>5. QED
  BY <1>2, <1>3, <1>4
(* The watcher's rows are complete: what marmot has is shown, or missed,   *)
(* or reported and on its way.                                             *)
Echoes(c, m) == c.kind = "echo" /\ c.msg = m /\ c.grp = watch.grp
Covered(m) == \/ Record(m, watch.grp) \in ToSet(rows[watch.at])
              \/ m \in missed \/ m \in ToSet(feed)
              \/ \E c \in Queue : Echoes(c, m)
Complete == ~moved /\ watch # NoWatch => \A m \in ToSet(store[watch.grp]) : Covered(m)

(* An echo that is run is shown.                                           *)
LEMMA EchoLands ==
  ASSUME ViewConstantsOK, Core, Placed, Next, ~moved, NEW c \in Queue, c.kind = "echo", c \notin Queue',
         NEW k \in DOMAIN ids, ids[k] = c.grp
  PROVE  Record(c.msg, c.grp) \in ToSet(rows'[k])
<1>0. /\ Typed /\ QueueTypes /\ rows \in Seq(Seq(Row)) /\ DOMAIN rows = DOMAIN ids /\ ListTypes
      /\ IsInjective(ids)
  BY DEF Core, Typed, ListTypes, ParallelLists
<1>1. RunClosure /\ c = Head(uiq) /\ Run(c.kind)
  BY ClosureWaits
<1>2. ~(RunOlder \/ RunSelect \/ RunAck \/ RunMerge \/ RunChat \/ RunPin \/ RunReload \/ RunRefresh)
  BY <1>1 DEF RunOlder, RunSelect, RunAck, RunRefresh, RunMerge, RunChat, RunPin, RunReload, Run
<1>3. RunEcho
  BY <1>1, <1>2 DEF RunClosure
<1>4. c.at \in DOMAIN ids /\ ids[c.at] = c.grp /\ c.at = k
  <2>1. c.at \in DOMAIN ids /\ ids[c.at] = c.grp
    BY DEF Placed, InPlace
  <2>2. QED
    BY <1>0, <2>1 DEF IsInjective
<1>5. c.grp \in Chats /\ c.msg \in Msgs
  BY <1>0, <1>1, HeadIs
<1>6. PICK r \in Row : r = Record(c.msg, c.grp)
  BY <1>5, RowFields
<1>7. rows' = IF Has(rows[k], r) THEN rows ELSE [rows EXCEPT ![k] = Append(@, r)]
  BY <1>0, <1>1, <1>3, <1>4, <1>6 DEF RunEcho, AppendEcho
<1>8. /\ rows[k] \in Seq(Row)
      /\ Replace(k, IF r \in ToSet(rows[k]) THEN rows[k] ELSE Append(rows[k], r))
  BY <1>0, <1>7, EchoIs
<1>9. PICK l : l = IF r \in ToSet(rows[k]) THEN rows[k] ELSE Append(rows[k], r)
  OBVIOUS
<1>10. l \in Seq(Row) /\ Replace(k, l)
  BY <1>8, <1>9
<1>11. rows'[k] = l
  BY <1>0, <1>10, ReplaceIs
<1>12. ToSet(Append(rows[k], r)) = ToSet(rows[k]) \cup {r}
  BY <1>8, QueueAdds
<1>13. r \in ToSet(l)
  BY <1>9, <1>12
<1>14. QED
  BY <1>6, <1>11, <1>13

(* What the subscription has reported stays reported, or is posted.        *)
LEMMA FeedArrives ==
  ASSUME ViewConstantsOK, Core, Next, NEW m \in ToSet(feed), ~RunSelect, watch # NoWatch
  PROVE  m \in ToSet(feed') \/ \E c \in Queue' : Echoes(c, m)
<1>0. /\ Typed /\ QueueTypes /\ WatchTypes /\ feed \in Seq(Msgs)
  BY DEF Core, Typed, WatchTypes
<1>1. ASSUME NEW n \in Msgs, feed' = Append(feed, n) PROVE m \in ToSet(feed')
  BY <1>0, <1>1, QueueAdds
<1>2. feed' = feed => m \in ToSet(feed')
  OBVIOUS
<1>3. ASSUME NEW n \in Msgs, NEW g \in Chats, Stored(n, g) PROVE m \in ToSet(feed')
  BY <1>1, <1>2, <1>3 DEF Stored
<1>4. ASSUME NEW n \in Foreign, Receive(n) PROVE m \in ToSet(feed')
  <2>1. n \in Msgs /\ ChatOf[n] \in Chats
    BY DEF ViewConstantsOK, Msgs
  <2>2. QED
    BY <1>3, <1>4, <2>1 DEF Receive
<1>5. ASSUME NEW s \in sends, Publish(s) PROVE m \in ToSet(feed')
  <2>1. s.msg \in Msgs /\ s.grp \in Chats
    BY <1>0, StoreTyped
  <2>2. QED
    BY <1>3, <1>5, <2>1 DEF Publish
<1>6. CASE ReportAgain
  <2>1. watch.grp \in Chats
    BY <1>0, WatchFields
  <2>2. ToSet(store[watch.grp]) \subseteq Msgs
    BY <1>0, <2>1, StoreTyped
  <2>3. \E n \in Msgs : feed' = Append(feed, n)
    BY <1>6, <2>2 DEF ReportAgain
  <2>4. QED
    BY <1>1, <2>3
<1>7. CASE WatcherCallback
  <2>1. feed # <<>> /\ feed' = Tail(feed) /\ Post(EchoOf)
    BY <1>7 DEF WatcherCallback, EchoOf
  <2>2. ToSet(feed) = ToSet(feed') \cup {Head(feed)} /\ Head(feed) \in Msgs
    BY <1>0, <2>1, QueueDrops
  <2>3. EchoOf \in Closure
    <3>1. watch.grp \in Chats /\ watch.at \in Positions
      BY <1>0, WatchFields
    <3>2. QED
      BY <2>2, <3>1 DEF EchoOf, Closure
  <2>4. Queue' = Queue \cup {EchoOf}
    BY <1>0, <2>1, <2>3, PostIs
  <2>5. EchoOf.kind = "echo" /\ EchoOf.msg = Head(feed) /\ EchoOf.grp = watch.grp
    BY DEF EchoOf
  <2>6. QED
    BY <2>2, <2>4, <2>5 DEF Echoes
<1>8. UNCHANGED watcher \/ Subscribe => feed' = feed
  BY DEF watcher, Subscribe
<1>9. QED
  BY <1>2, <1>4, <1>5, <1>6, <1>7, <1>8, WatchFrame

(* A record of the watched chat is reported, or counts as missed.          *)
LEMMA NewReported ==
  ASSUME ViewConstantsOK, Core, Next, watch # NoWatch, UNCHANGED watch,
         NEW m \in ToSet(store'[watch.grp]), m \notin ToSet(store[watch.grp])
  PROVE  m \in missed' \/ m \in ToSet(feed')
<1>0. Typed /\ WatchTypes /\ feed \in Seq(Msgs)
  BY DEF Core, Typed, WatchTypes
<1>1. watch.grp \in Chats
  BY <1>0, WatchFields
<1>2. ASSUME NEW n \in Msgs, NEW g \in Chats, Stored(n, g)
      PROVE  m \in missed' \/ m \in ToSet(feed')
  <2>1. /\ ToSet(store'[g]) = ToSet(store[g]) \cup {n}
        /\ \A h \in Chats : h # g => store'[h] = store[h]
    BY <1>0, <1>2, StoredIs
  <2>2. g = watch.grp /\ m = n
    BY <1>1, <2>1
  <2>3. ToSet(Append(feed, n)) = ToSet(feed) \cup {n}
    BY <1>0, QueueAdds
  <2>4. QED
    BY <1>2, <2>2, <2>3 DEF Stored
<1>3. ~UNCHANGED store
  OBVIOUS
<1>4. QED
  BY <1>0, <1>2, <1>3, StoreFrame
LEMMA CompleteStep ==
  ASSUME ViewConstantsOK, Core, Core', StoresOnce, Placed, Complete, Next
  PROVE  Complete'
<1> SUFFICES ASSUME ~moved', watch' # NoWatch, NEW m \in ToSet(store'[watch'.grp])
             PROVE  Covered(m)'
  BY DEF Complete, NoWatch
<1>0. Typed /\ WatchTypes /\ ids \in Seq(Chats)
  BY DEF Core, Typed, ListTypes
<1>1. ~moved /\ PrefixOf(ids, ids')
  BY StillThere
<1>2. ASSUME NEW k \in DOMAIN ids, NEW g \in Chats, ids[k] = g, watch'.at = k, watch'.grp = g,
             \/ Record(m, g) \in ToSet(rows'[k]) \/ m \in missed' \/ m \in ToSet(feed')
             \/ \E c \in Queue' : c.kind = "echo" /\ c.msg = m /\ c.grp = g
      PROVE  Covered(m)'
  BY <1>2 DEF Covered, Echoes
<1>3. ASSUME NEW k \in DOMAIN ids, NEW g \in Chats, ids[k] = g, watch.at = k, watch.grp = g,
             watch'.at = k, watch'.grp = g, watch # NoWatch, ~RunSelect \/ UNCHANGED watcher,
             m \in ToSet(store[g])
      PROVE  Covered(m)'
  <2>1. Covered(m)
    BY <1>1, <1>3 DEF Complete
  <2>2. CASE Record(m, g) \in ToSet(rows[k]) \/ m \in missed
    <3>1. Record(m, g) \in ToSet(rows'[k]) \/ m \in missed'
      BY <1>3, <2>2, RecordsStay
    <3>2. QED
      BY <1>2, <1>3, <3>1
  <2>3. CASE m \in ToSet(feed)
    <3>1. CASE UNCHANGED watcher
      BY <1>2, <1>3, <2>3, <3>1 DEF watcher
    <3>2. CASE ~RunSelect
      <4>1. m \in ToSet(feed') \/ \E c \in Queue' : Echoes(c, m)
        BY <1>3, <2>3, <3>2, FeedArrives
      <4>2. QED
        BY <1>2, <1>3, <4>1 DEF Echoes
    <3>3. QED
      BY <1>3, <3>1, <3>2
  <2>4. ASSUME NEW c \in Queue, Echoes(c, m) PROVE Covered(m)'
    <3>1. c.kind = "echo" /\ c.msg = m /\ c.grp = g
      BY <1>3, <2>4 DEF Echoes
    <3>2. CASE c \in Queue'
      BY <1>2, <1>3, <3>1, <3>2
    <3>3. CASE c \notin Queue'
      <4>1. Record(m, g) \in ToSet(rows'[k])
        BY <1>1, <1>3, <3>1, <3>3, EchoLands
      <4>2. QED
        BY <1>2, <1>3, <4>1
    <3>4. QED
      BY <3>2, <3>3
  <2>5. QED
    BY <1>3, <2>1, <2>2, <2>3, <2>4 DEF Covered
<1>4. ASSUME watch # NoWatch, UNCHANGED watch \/ Subscribe, ~RunSelect \/ UNCHANGED watcher
      PROVE  Covered(m)'
  <2>1. watch.at \in DOMAIN ids /\ ids[watch.at] = watch.grp /\ watch.grp \in Chats
    BY <1>0, <1>1, <1>4, WatchFields DEF Placed, InPlace
  <2>2. watch'.at = watch.at /\ watch'.grp = watch.grp
    <3>1. CASE Subscribe
      <4>1. watch' = [watch EXCEPT !.live = TRUE]
        BY <3>1 DEF Subscribe
      <4>2. watch = [grp |-> watch.grp, at |-> watch.at, live |-> watch.live]
        BY <1>0, <1>4, WatchFields
      <4>3. QED
        BY <4>1, <4>2
    <3>2. QED
      BY <1>4, <3>1
  <2>3. PICK k \in DOMAIN ids, g \in Chats : ids[k] = g /\ watch.at = k /\ watch.grp = g
    BY <2>1
  <2>4. CASE m \in ToSet(store[g])
    BY <1>3, <1>4, <2>2, <2>3, <2>4
  <2>5. CASE m \notin ToSet(store[g])
    <3>1. m \in ToSet(store'[watch.grp]) /\ m \notin ToSet(store[watch.grp])
      BY <2>2, <2>3, <2>5
    <3>2. UNCHANGED watch
      <4>1. Subscribe => UNCHANGED store
        BY DEF Subscribe, backend
      <4>2. QED
        BY <1>4, <3>1, <4>1
    <3>3. m \in missed' \/ m \in ToSet(feed')
      BY <1>4, <3>1, <3>2, NewReported
    <3>4. QED
      BY <1>2, <2>2, <2>3, <3>3
  <2>6. QED
    BY <2>4, <2>5
<1>5. CASE RunSelect
  <2> DEFINE c == Head(uiq)
  <2>1. c \in Queue /\ c.kind \in Rebuilds /\ c.grp \in Chats
    BY <1>0, <1>5, RebuildIs
  <2>2. c.at \in DOMAIN ids /\ ids[c.at] = c.grp
    BY <1>1, <2>1 DEF Placed, InPlace
  <2>3. Attach(c) /\ UNCHANGED store
    BY <1>5 DEF RunSelect, backend
  <2>4. CASE UNCHANGED watcher
    BY <1>4, <2>4 DEF watcher
  <2>5. CASE watch' = [grp |-> c.grp, at |-> c.at, live |-> FALSE]
    <3>1. PICK k \in DOMAIN ids, g \in Chats :
            k = c.at /\ g = c.grp /\ ids[k] = g /\ watch'.at = k /\ watch'.grp = g
      BY <2>1, <2>2, <2>5
    <3>2. m \in ToSet(store[ids[k]]) /\ k = Head(uiq).at
      BY <2>3, <3>1
    <3>3. Record(m, ids[k]) \in ToSet(rows'[k]) \/ m \in missed'
      BY <1>1, <1>5, <3>2, RunRebuilds
    <3>4. QED
      BY <1>2, <3>1, <3>3
  <2>6. QED
    BY <2>3, <2>4, <2>5 DEF Attach
<1>6. CASE ~RunSelect
  <2>1. UNCHANGED watcher \/ (\E n \in Foreign : Receive(n)) \/ (\E s \in sends : Publish(s))
        \/ ReportAgain \/ WatcherCallback => UNCHANGED watch
    BY DEF watcher, Receive, Publish, ReportAgain, WatcherCallback
  <2>2. UNCHANGED watch \/ Subscribe
    BY <1>6, <2>1, WatchFrame
  <2>3. watch # NoWatch
    BY <2>2 DEF Subscribe
  <2>4. QED
    BY <1>4, <1>6, <2>2, <2>3
<1>7. QED
  BY <1>5, <1>6

-----------------------------------------------------------------------------
(* While chats keep their positions, everything about them is in its place.*)
Settled == Told /\ Placed /\ PendingShown /\ Expected /\ Complete

LEMMA SettledInit == ASSUME ViewConstantsOK, Init PROVE Settled
<1>1. /\ ids = <<>> /\ uiq = <<>> /\ watch = NoWatch /\ used["select"] = 0
      /\ reads = SetToBag({[kind |-> "boot"]}) /\ \A g \in Chats : overlay[g] = <<>>
  BY DEF Init, Limited
<1>2. BagToSet(reads) = {[kind |-> "boot"]}
  <2>1. DOMAIN reads = {[kind |-> "boot"]}
    BY <1>1 DEF SetToBag
  <2>2. QED
    BY <2>1 DEF BagToSet
<1>3. [kind |-> "boot"] \notin WindowRead
  <2>1. \A x \in WindowRead : x.kind \in Rebuilds
    BY ReadFields DEF Reads
  <2>2. QED
    BY <2>1 DEF Rebuilds
<1>4. Queue = {}
  BY <1>1 DEF Queue, ToSet
<1>5. Placed
  BY <1>1, <1>2, <1>3, <1>4 DEF Placed
<1>6. PendingShown /\ Expected /\ Complete
  BY <1>1 DEF PendingShown, Expected, Complete
<1>7. QED
  BY <1>5, <1>6, ToldInit DEF Settled

LEMMA SettledStep == ASSUME ViewConstantsOK, Settled, [Next]_vars PROVE Settled'
<1>0. /\ Told /\ Placed /\ PendingShown /\ Expected /\ Complete
      /\ Core /\ OverlayTrue /\ StoresOnce
  BY DEF Settled, Told
<1>1. Told' /\ Core'
  BY <1>0, ToldStep DEF Told
<1>2. CASE Next
  <2>1. Placed'
    BY <1>0, <1>1, <1>2, PlacedStep
  <2>2. PendingShown'
    BY <1>0, <1>1, <1>2, ShownStep
  <2>3. Expected'
    BY <1>0, <1>1, <1>2, ExpectedStep
  <2>4. Complete'
    BY <1>0, <1>1, <1>2, CompleteStep
  <2>5. QED
    BY <1>1, <2>1, <2>2, <2>3, <2>4 DEF Settled
<1>3. CASE UNCHANGED vars
  <2>1. UNCHANGED <<store, reads, ids, rows, open, overlay, watch, feed, uiq, used, moved, missed,
                    blanked>>
    BY <1>3 DEF vars
  <2>2. Queue' = Queue /\ BagToSet(reads') = BagToSet(reads)
    BY <2>1 DEF Queue
  <2>3. Placed'
    BY <1>0, <2>1, <2>2 DEF Placed, InPlace, NoWatch
  <2>4. PendingShown'
    <3>1. SUFFICES ASSUME ~moved', NEW k \in DOMAIN ids', ids'[k] \notin blanked'
                   PROVE  Pendings(rows'[k]) = Pended(ids'[k], overlay'[ids'[k]])
      BY DEF PendingShown, Pended
    <3>2. Pendings(rows[k]) = Pended(ids[k], overlay[ids[k]])
      BY <1>0, <2>1, <3>1 DEF PendingShown, Pended
    <3>3. QED
      BY <2>1, <3>2
  <2>5. Expected'
    BY <1>0, <2>1, <2>2 DEF Expected, Awaited, Opened
  <2>6. Complete'
    BY <1>0, <2>1, <2>2 DEF Complete, Covered, Echoes, NoWatch
  <2>7. QED
    BY <1>1, <2>3, <2>4, <2>5, <2>6 DEF Settled
<1>4. QED
  BY <1>2, <1>3

LEMMA SettledHolds == Spec => []Settled
<1>1. Init => Settled
  BY SettledInit, ViewConstantsOK
<1>2. Settled /\ [Next]_vars => Settled'
  BY SettledStep, ViewConstantsOK
<1>3. QED
  BY <1>1, <1>2, PTL DEF Spec

(* However sends, acknowledgements, echoes and rebuilds overlap, a chat    *)
(* shows exactly the bubbles the overlay has pending for it, in the order  *)
(* they were sent in, until a chat changes its position or a full refresh  *)
(* drops them.                                                             *)
THEOREM BubblesStay == Spec => []PendingShown
<1>1. Settled => PendingShown
  BY DEF Settled
<1>2. QED
  BY <1>1, SettledHolds, PTL

(* However selections overlap, once none is under way the watcher is the   *)
(* open chat's.                                                            *)
THEOREM WatcherFollows == Spec => []WatchesOpen
<1>1. ASSUME Settled PROVE WatchesOpen
  <2> SUFFICES ASSUME ~moved, used["select"] > 0, ~Selecting
               PROVE  watch.at = open /\ Opened /\ watch.grp = ids[open]
    BY DEF WatchesOpen
  <2>1. Core /\ Placed /\ open \in Nat \ {0} /\ uiq \in Seq(Closure)
    BY <1>1 DEF Settled, Told, Core, Typed, ListTypes, QueueTypes
  <2>2. /\ Opened
        /\ \/ watch.at = open
           \/ \E r \in BagToSet(reads) : Awaited(r)
           \/ \E c \in Queue : Awaited(c)
    BY <1>1 DEF Settled, Expected
  <2>3. ~\E r \in BagToSet(reads) : Awaited(r)
    BY DEF Selecting, Awaited
  <2>4. ~\E c \in Queue : Awaited(c)
    BY DEF Selecting, Awaited, Queue, ToSet
  <2>5. watch.at = open
    BY <2>2, <2>3, <2>4
  <2>6. watch # NoWatch
    BY <2>1, <2>5 DEF NoWatch
  <2>7. QED
    BY <2>1, <2>2, <2>5, <2>6 DEF Placed, InPlace
<1>2. Settled => WatchesOpen
  BY <1>1
<1>3. QED
  BY <1>2, SettledHolds, PTL

(* While its chat keeps its position, no record of the watched chat is     *)
(* lost: it is shown, reported and on its way, or it came between the      *)
(* snapshot the rows were built from and the subscription.                 *)
THEOREM WatchedRowsComplete == Spec => []WatchedIsComplete
<1>1. ASSUME Settled PROVE WatchedIsComplete
  <2> SUFFICES ASSUME ~moved, watch # NoWatch, NEW m \in ToSet(store[watch.grp])
               PROVE  \/ Has(rows[watch.at], Record(m, watch.grp))
                      \/ Contains(feed, m) \/ m \in missed
                      \/ \E k \in DOMAIN uiq : uiq[k].kind = "echo" /\ uiq[k].msg = m
    BY DEF WatchedIsComplete
  <2>1. /\ Core /\ Placed /\ rows \in Seq(Seq(Row)) /\ feed \in Seq(Msgs) /\ DOMAIN rows = DOMAIN ids
    BY <1>1 DEF Settled, Told, Core, Typed, ListTypes, WatchTypes, ParallelLists
  <2>2. Covered(m)
    BY <1>1 DEF Settled, Complete
  <2>3. Contains(feed, m) <=> m \in ToSet(feed)
    BY <2>1, ContainsIs
  <2>4. Has(rows[watch.at], Record(m, watch.grp)) <=> Record(m, watch.grp) \in ToSet(rows[watch.at])
    <3>1. rows[watch.at] \in Seq(Row)
      BY <2>1 DEF Placed, InPlace
    <3>2. QED
      BY <3>1, ContainsIs DEF Has
  <2>5. ASSUME NEW c \in Queue, Echoes(c, m)
        PROVE  \E k \in DOMAIN uiq : uiq[k].kind = "echo" /\ uiq[k].msg = m
    BY <2>5 DEF Queue, ToSet, Echoes
  <2>6. QED
    BY <2>2, <2>3, <2>4, <2>5 DEF Covered
<1>2. Settled => WatchedIsComplete
  BY <1>1
<1>3. QED
  BY <1>2, SettledHolds, PTL
=============================================================================
