------------------------------ MODULE DataLemmas ------------------------------
(***************************************************************************)
(* TLAPS proofs about the data the models are made of: sets of numbers,    *)
(* bags of tasks, and the sublists of a sequence.                          *)
(***************************************************************************)
EXTENDS Sublists, SequencesExt, Bags, FiniteSetTheorems, WellFoundedInduction, TLAPS

(* A set of numbers has a least element, and a bounded one a greatest.     *)
LEMMA LeastOf ==
  ASSUME NEW S, S \subseteq Nat, S # {}
  PROVE  \E x \in S : \A y \in S : x <= y
<1>1. IsWellFoundedOn(OpToRel(<, Nat), Nat)
  BY NatLessThanWellFounded
<1>2. PICK x \in S : \A y \in S : ~ (<<y, x>> \in OpToRel(<, Nat))
  BY <1>1, WFMin
<1>3. x \in Nat /\ \A y \in S : y \in Nat /\ ~(y < x)
  BY <1>2 DEF OpToRel
<1>4. \A y \in S : x <= y
  BY <1>3
<1>5. QED
  BY <1>4

LEMMA GreatestOf ==
  ASSUME NEW S, NEW n \in Nat, S \subseteq 0 .. n, S # {}
  PROVE  \E x \in S : \A y \in S : y <= x
<1> DEFINE T == {i \in 0 .. n : n - i \in S}
<1>1. T \subseteq Nat /\ T # {}
  <2>1. PICK x \in S : TRUE
    OBVIOUS
  <2>2. n - x \in T
    <3>1. n - x \in 0 .. n /\ n - (n - x) = x
      BY <2>1
    <3>2. QED
      BY <2>1, <3>1
  <2>3. T \subseteq Nat
    OBVIOUS
  <2>4. QED
    BY <2>2, <2>3
<1>2. PICK i \in T : \A j \in T : i <= j
  BY <1>1, LeastOf
<1>3. ASSUME NEW y \in S PROVE y <= n - i
  <2>1. n - y \in 0 .. n /\ n - (n - y) = y
    OBVIOUS
  <2>2. n - y \in T
    BY <2>1
  <2>3. i <= n - y
    BY <1>2, <2>2
  <2>4. QED
    BY <1>2, <2>3
<1>4. QED
  BY <1>2, <1>3

(* Induction up to a bound, over a set of numbers.                         *)
LEMMA UpTo ==
  ASSUME NEW n \in Nat, NEW P, 0 \in P, \A i \in 0 .. n - 1 : i \in P => i + 1 \in P
  PROVE  0 .. n \subseteq P
<1> DEFINE Bad == {i \in 0 .. n : i \notin P}
<1> SUFFICES ASSUME Bad # {} PROVE FALSE
  OBVIOUS
<1>1. PICK i \in Bad : \A j \in Bad : i <= j
  <2>1. Bad \subseteq Nat
    OBVIOUS
  <2>2. QED
    BY <2>1, LeastOf
<1>2. i \in 0 .. n /\ i \notin P /\ i # 0
  BY <1>1
<1>3. i - 1 \in 0 .. n - 1 /\ i - 1 \notin Bad /\ (i - 1) + 1 = i
  BY <1>1, <1>2
<1>4. i - 1 \in P
  BY <1>3
<1>5. QED
  BY <1>2, <1>3, <1>4

-----------------------------------------------------------------------------
(* Bags of tasks: of elements of a set, each counted at least once.        *)
IsBag(b, S) == b \in [DOMAIN b -> Nat \ {0}] /\ DOMAIN b \subseteq S

LEMMA BagEmpty ==
  ASSUME NEW S
  PROVE  IsBag(EmptyBag, S) /\ BagToSet(EmptyBag) = {}
BY DEF IsBag, EmptyBag, SetToBag, BagToSet

LEMMA BagAdd ==
  ASSUME NEW S, NEW b, IsBag(b, S), NEW T, T \subseteq S
  PROVE  /\ IsBag(b (+) SetToBag(T), S)
         /\ BagToSet(b (+) SetToBag(T)) = BagToSet(b) \cup T
         /\ \A x \in T \ BagToSet(b) : (b (+) SetToBag(T))[x] = 1
         /\ \A x \in BagToSet(b) \ T : (b (+) SetToBag(T))[x] = b[x]
<1>1. DOMAIN (b (+) SetToBag(T)) = DOMAIN b \cup T
  BY DEF (+), SetToBag
<1>2. \A x \in T \ DOMAIN b : (b (+) SetToBag(T))[x] = 1
  BY DEF (+), SetToBag
<1>3. \A x \in DOMAIN b \ T : (b (+) SetToBag(T))[x] = b[x]
  BY DEF (+), SetToBag, IsBag
<1>4. \A x \in DOMAIN b \cap T : (b (+) SetToBag(T))[x] = b[x] + 1
  BY DEF (+), SetToBag, IsBag
<1>5. ASSUME NEW x \in DOMAIN b \cup T PROVE (b (+) SetToBag(T))[x] \in Nat \ {0}
  <2>1. x \in DOMAIN b => b[x] \in Nat \ {0}
    BY DEF IsBag
  <2>2. QED
    BY <1>2, <1>3, <1>4, <2>1
<1>6. b (+) SetToBag(T) = [x \in DOMAIN (b (+) SetToBag(T)) |-> (b (+) SetToBag(T))[x]]
  BY DEF (+), SetToBag
<1>7. b (+) SetToBag(T) \in [DOMAIN (b (+) SetToBag(T)) -> Nat \ {0}]
  BY <1>1, <1>5, <1>6
<1>8. QED
  BY <1>1, <1>2, <1>3, <1>7 DEF IsBag, BagToSet

LEMMA BagTake ==
  ASSUME NEW S, NEW b, IsBag(b, S), NEW x \in BagToSet(b)
  PROVE  /\ IsBag(b (-) SetToBag({x}), S)
         /\ BagToSet(b (-) SetToBag({x})) \subseteq BagToSet(b)
         /\ BagToSet(b) \ {x} \subseteq BagToSet(b (-) SetToBag({x}))
         /\ x \in BagToSet(b (-) SetToBag({x})) <=> b[x] > 1
         /\ \A y \in BagToSet(b) \ {x} : (b (-) SetToBag({x}))[y] = b[y]
<1> DEFINE c == [e \in DOMAIN b |-> IF e \in {x} THEN b[e] - 1 ELSE b[e]]
           D == {d \in DOMAIN b : c[d] > 0}
<1>1. b (-) SetToBag({x}) = [e \in D |-> c[e]]
  BY DEF (-), SetToBag
<1>2. \A e \in DOMAIN b : b[e] \in Nat \ {0}
  BY DEF IsBag
<1>3. /\ \A e \in DOMAIN b \ {x} : c[e] = b[e] /\ e \in D
      /\ c[x] = b[x] - 1 /\ (x \in D <=> b[x] > 1)
  BY <1>2 DEF BagToSet
<1>4. \A e \in D : c[e] \in Nat \ {0}
  BY <1>2, <1>3 DEF BagToSet
<1>5. D \subseteq DOMAIN b
  OBVIOUS
<1> HIDE DEF c, D
<1>6. [e \in D |-> c[e]] \in [D -> Nat \ {0}]
  BY <1>4
<1>7. DOMAIN [e \in D |-> c[e]] = D /\ \A e \in D : [d \in D |-> c[d]][e] = c[e]
  OBVIOUS
<1>8. IsBag(b (-) SetToBag({x}), S)
  BY <1>1, <1>5, <1>6, <1>7 DEF IsBag
<1>9. BagToSet(b (-) SetToBag({x})) = D /\ BagToSet(b) = DOMAIN b
  BY <1>1, <1>7 DEF BagToSet
<1>10. QED
  BY <1>1, <1>3, <1>5, <1>7, <1>8, <1>9
-----------------------------------------------------------------------------
(* The recursion of Sublist, run n steps.                                  *)
Sub(f, s, T, n) ==
  f = [i \in 0 .. n |-> IF i = 0 THEN <<>>
                        ELSE IF s[i] \in T THEN Append(f[i - 1], s[i]) ELSE f[i - 1]]

LEMMA SubExists ==
  ASSUME NEW S, NEW s \in Seq(S), NEW T
  PROVE  \A n \in Nat : \E f : Sub(f, s, T, n)
<1> DEFINE Bad == {n \in Nat : ~ \E f : Sub(f, s, T, n)}
<1> SUFFICES ASSUME Bad # {} PROVE FALSE
  OBVIOUS
<1>1. PICK n \in Bad : \A m \in Bad : n <= m
  <2>1. Bad \subseteq Nat
    OBVIOUS
  <2>2. QED
    BY <2>1, LeastOf
<1>2. CASE n = 0
  <2> DEFINE f == [i \in 0 .. 0 |-> <<>>]
  <2>1. Sub(f, s, T, 0)
    BY DEF Sub
  <2>2. QED
    BY <1>2, <2>1
<1>3. CASE n # 0
  <2>1. n \in Nat /\ n - 1 \in Nat /\ n - 1 \notin Bad
    BY <1>1, <1>3
  <2>2. PICK g : Sub(g, s, T, n - 1)
    BY <2>1
  <2> DEFINE f == [i \in 0 .. n |-> IF i = 0 THEN <<>>
                        ELSE IF s[i] \in T THEN Append(g[i - 1], s[i]) ELSE g[i - 1]]
  <2>3. ASSUME NEW i \in 0 .. n - 1 PROVE f[i] = g[i]
    <3>1. g[i] = IF i = 0 THEN <<>>
                        ELSE IF s[i] \in T THEN Append(g[i - 1], s[i]) ELSE g[i - 1]
      BY <2>1, <2>2 DEF Sub
    <3>2. QED
      BY <3>1, <2>1
  <2>4. Sub(f, s, T, n)
    <3>1. ASSUME NEW i \in 0 .. n, i # 0 PROVE f[i - 1] = g[i - 1]
      <4>1. i - 1 \in 0 .. n - 1
        BY <2>1, <3>1
      <4>2. QED
        BY <2>3, <4>1
    <3>2. f = [i \in 0 .. n |-> IF i = 0 THEN <<>>
                        ELSE IF s[i] \in T THEN Append(f[i - 1], s[i]) ELSE f[i - 1]]
      <4> DEFINE h == [i \in 0 .. n |-> IF i = 0 THEN <<>>
                        ELSE IF s[i] \in T THEN Append(f[i - 1], s[i]) ELSE f[i - 1]]
      <4>1. ASSUME NEW i \in 0 .. n PROVE f[i] = h[i]
        <5>1. CASE i = 0
          BY <5>1
        <5>2. CASE i # 0
          <6>1. f[i - 1] = g[i - 1]
            BY <5>2, <3>1
          <6>2. f[i] = IF s[i] \in T THEN Append(g[i - 1], s[i]) ELSE g[i - 1]
            BY <5>2
          <6>3. h[i] = IF s[i] \in T THEN Append(f[i - 1], s[i]) ELSE f[i - 1]
            BY <5>2
          <6> HIDE DEF f, h
          <6>4. QED
            BY <6>1, <6>2, <6>3
        <5>3. QED
          BY <5>1, <5>2
      <4>2. f = [i \in 0 .. n |-> f[i]] /\ h = [i \in 0 .. n |-> h[i]]
        OBVIOUS
      <4>3. f = h
        <5> HIDE DEF f, h
        <5>1. QED
          BY <4>1, <4>2
      <4>4. QED
        BY <4>3
    <3> HIDE DEF f
    <3>3. QED
      BY <3>2 DEF Sub
  <2>5. QED
    <3>1. n \notin Bad
      <4> HIDE DEF f
      <4>1. QED
        BY <2>4
    <3>2. QED
      BY <3>1
<1>4. QED
  BY <1>2, <1>3

LEMMA SublistRuns ==
  ASSUME NEW S, NEW s \in Seq(S), NEW T
  PROVE  \E f : Sub(f, s, T, Len(s)) /\ Sublist(s, T) = f[Len(s)]
<1> DEFINE F == CHOOSE f : Sub(f, s, T, Len(s))
<1>1. Sub(F, s, T, Len(s))
  <2>1. \E f : Sub(f, s, T, Len(s))
    BY SubExists
  <2>2. QED
    BY <2>1
<1>2. Sublist(s, T) = F[Len(s)]
  BY DEF Sublist, Sub
<1>3. QED
  BY <1>1, <1>2

(* A sublist is a sequence of what it was picked from, in increasing       *)
(* positions, and all that is in the set is picked.                        *)
Picks(l, e, s, T, n) ==
  /\ Len(l) = Len(e)
  /\ \A k \in DOMAIN e : e[k] \in 1 .. n /\ s[e[k]] \in T /\ l[k] = s[e[k]]
  /\ \A j, k \in DOMAIN e : j < k => e[j] < e[k]
  /\ \A i \in 1 .. n : s[i] \in T => \E k \in DOMAIN e : e[k] = i

LEMMA SublistPicks ==
  ASSUME NEW S, NEW s \in Seq(S), NEW T
  PROVE  /\ Sublist(s, T) \in Seq(S)
         /\ \E e \in Seq(Nat) : Picks(Sublist(s, T), e, s, T, Len(s))
<1>1. PICK f : Sub(f, s, T, Len(s)) /\ Sublist(s, T) = f[Len(s)]
  BY SublistRuns
<1>2. /\ f[0] = <<>>
      /\ \A i \in 1 .. Len(s) :
           f[i] = IF s[i] \in T THEN Append(f[i - 1], s[i]) ELSE f[i - 1]
  <2>1. \A i \in 0 .. Len(s) :
          f[i] = IF i = 0 THEN <<>>
                 ELSE IF s[i] \in T THEN Append(f[i - 1], s[i]) ELSE f[i - 1]
    <3> DEFINE h == [i \in 0 .. Len(s) |-> IF i = 0 THEN <<>>
                       ELSE IF s[i] \in T THEN Append(f[i - 1], s[i]) ELSE f[i - 1]]
    <3>1. f = h
      BY <1>1 DEF Sub
    <3>2. \A i \in 0 .. Len(s) : h[i] = IF i = 0 THEN <<>>
                 ELSE IF s[i] \in T THEN Append(f[i - 1], s[i]) ELSE f[i - 1]
      OBVIOUS
    <3> HIDE DEF h
    <3>3. QED
      BY <3>1, <3>2
  <2>2. 0 \in 0 .. Len(s) /\ \A i \in 1 .. Len(s) : i \in 0 .. Len(s) /\ i # 0
    OBVIOUS
  <2>3. QED
    BY <2>1, <2>2
<1> DEFINE Good(i) == f[i] \in Seq(S) /\ \E e \in Seq(Nat) : Picks(f[i], e, s, T, i)
           P == {i \in 0 .. Len(s) : Good(i)}
<1>3. Good(0)
  <2>1. <<>> \in Seq(Nat) /\ <<>> \in Seq(S) /\ Picks(<<>>, <<>>, s, T, 0)
    BY DEF Picks
  <2>2. QED
    BY <1>2, <2>1
<1>4. ASSUME NEW i \in 0 .. Len(s) - 1, Good(i) PROVE Good(i + 1)
  <2>1. i + 1 \in 1 .. Len(s) /\ (i + 1) - 1 = i /\ s[i + 1] \in S /\ i \in Nat
    OBVIOUS
  <2>2. f[i + 1] = IF s[i + 1] \in T THEN Append(f[i], s[i + 1]) ELSE f[i]
    BY <1>2, <2>1
  <2>3. PICK e \in Seq(Nat) : Picks(f[i], e, s, T, i)
    BY <1>4
  <2>4. f[i] \in Seq(S)
    BY <1>4
  <2>5. CASE s[i + 1] \in T
    <3> DEFINE d == Append(e, i + 1)  l == Append(f[i], s[i + 1])
    <3>1. /\ d \in Seq(Nat) /\ Len(d) = Len(e) + 1 /\ d[Len(e) + 1] = i + 1
          /\ \A k \in DOMAIN e : d[k] = e[k] /\ k \in Nat /\ k <= Len(e)
          /\ \A k \in DOMAIN d : k \in DOMAIN e \/ k = Len(e) + 1
          /\ DOMAIN d = 1 .. Len(e) + 1 /\ DOMAIN e = 1 .. Len(e)
      BY <2>1
    <3>2. /\ l \in Seq(S) /\ Len(l) = Len(e) + 1 /\ l[Len(e) + 1] = s[i + 1]
          /\ \A k \in DOMAIN e : l[k] = f[i][k]
      BY <2>1, <2>3, <2>4, SMTT(30) DEF Picks
    <3> HIDE DEF d, l
    <3>3. \A k \in DOMAIN d : d[k] \in 1 .. i + 1 /\ s[d[k]] \in T /\ l[k] = s[d[k]]
      <4> TAKE k \in DOMAIN d
      <4>1. CASE k \in DOMAIN e
        <5>1. e[k] \in 1 .. i /\ s[e[k]] \in T /\ f[i][k] = s[e[k]]
          BY <2>3, <4>1 DEF Picks
        <5>2. e[k] \in 1 .. i + 1 /\ d[k] = e[k] /\ l[k] = f[i][k]
          BY <5>1, <2>1, <3>1, <3>2, <4>1
        <5>3. QED
          BY <5>1, <5>2
      <4>2. CASE k = Len(e) + 1
        BY <2>1, <2>5, <3>1, <3>2, <4>2
      <4>3. QED
        BY <3>1, <4>1, <4>2
    <3>4. \A j, k \in DOMAIN d : j < k => d[j] < d[k]
      BY <2>1, <2>3, <3>1, SMTT(30) DEF Picks
    <3>5. \A j \in 1 .. i + 1 : s[j] \in T => \E k \in DOMAIN d : d[k] = j
      <4> TAKE j \in 1 .. i + 1
      <4>1. CASE j = i + 1
        <5>1. Len(e) + 1 \in DOMAIN d
          BY <3>1
        <5>2. QED
          BY <4>1, <5>1, <3>1
      <4>2. CASE j # i + 1
        <5>1. j \in 1 .. i
          BY <4>2, <2>1
        <5>2. QED
          BY <5>1, <2>3, <3>1 DEF Picks
      <4>3. QED
        BY <4>1, <4>2
    <3>6. Picks(l, d, s, T, i + 1)
      BY <3>1, <3>2, <3>3, <3>4, <3>5 DEF Picks
    <3>7. f[i + 1] = l
      BY <2>2, <2>5 DEF l
    <3>8. QED
      BY <3>1, <3>2, <3>6, <3>7
  <2>6. CASE s[i + 1] \notin T
    <3>1. Picks(f[i], e, s, T, i + 1)
      <4>1. \A k \in DOMAIN e : e[k] \in 1 .. i + 1
        BY <2>1, <2>3 DEF Picks
      <4>2. \A j \in 1 .. i + 1 : s[j] \in T => j \in 1 .. i
        BY <2>1, <2>6
      <4>3. QED
        BY <2>3, <4>1, <4>2 DEF Picks
    <3>2. QED
      BY <2>2, <2>4, <2>6, <3>1
  <2>7. QED
    BY <2>5, <2>6
<1>5. 0 \in P /\ \A i \in 0 .. Len(s) - 1 : i \in P => i + 1 \in P
  <2>1. \A i \in 0 .. Len(s) - 1 : Good(i) => Good(i + 1)
    BY <1>4
  <2> HIDE DEF Good
  <2>2. QED
    BY <1>3, <2>1
<1>6. Len(s) \in 0 .. Len(s) /\ Len(s) \in Nat
  OBVIOUS
<1>7. Good(Len(s))
  <2> HIDE DEF Good
  <2>1. Len(s) \in P
    <3> HIDE DEF P
    <3>1. QED
      BY <1>5, <1>6, UpTo
  <2>2. QED
    BY <2>1
<1>8. QED
  BY <1>1, <1>7

LEMMA SublistType ==
  ASSUME NEW S, NEW s \in Seq(S), NEW T
  PROVE  Sublist(s, T) \in Seq(S)
BY SublistPicks

(* Induction over sequences.                                               *)
LEMMA SeqUp ==
  ASSUME NEW S, NEW P, <<>> \in P, \A q \in Seq(S) \cap P, x \in S : Append(q, x) \in P
  PROVE  Seq(S) \subseteq P
<1> SUFFICES ASSUME NEW s \in Seq(S) PROVE s \in P
  OBVIOUS
<1> DEFINE N == {n \in 0 .. Len(s) : SubSeq(s, 1, n) \in P}
<1>1. 0 \in N
  <2>1. SubSeq(s, 1, 0) = <<>> /\ 0 \in 0 .. Len(s)
    OBVIOUS
  <2>2. QED
    BY <2>1
<1>2. ASSUME NEW n \in 0 .. Len(s) - 1, n \in N PROVE n + 1 \in N
  <2>1. SubSeq(s, 1, n) \in Seq(S) /\ s[n + 1] \in S /\ n + 1 \in 0 .. Len(s)
    OBVIOUS
  <2>2. SubSeq(s, 1, n + 1) = Append(SubSeq(s, 1, n), s[n + 1])
    OBVIOUS
  <2>3. QED
    BY <1>2, <2>1, <2>2
<1>3. Len(s) \in N
  <2> HIDE DEF N
  <2>1. Len(s) \in Nat /\ Len(s) \in 0 .. Len(s)
    OBVIOUS
  <2>2. QED
    BY <1>1, <1>2, <2>1, UpTo
<1>4. SubSeq(s, 1, Len(s)) = s
  OBVIOUS
<1>5. QED
  BY <1>3, <1>4

(* Sequences that agree on what is picked have the same sublist.           *)
LEMMA SubRun ==
  ASSUME NEW f, NEW s, NEW T, NEW n \in Nat, Sub(f, s, T, n)
  PROVE  /\ f[0] = <<>>
         /\ \A i \in 1 .. n : f[i] = IF s[i] \in T THEN Append(f[i - 1], s[i]) ELSE f[i - 1]
<1> DEFINE h == [i \in 0 .. n |-> IF i = 0 THEN <<>>
                   ELSE IF s[i] \in T THEN Append(f[i - 1], s[i]) ELSE f[i - 1]]
<1>1. f = h
  BY DEF Sub
<1>2. \A i \in 0 .. n : h[i] = IF i = 0 THEN <<>>
             ELSE IF s[i] \in T THEN Append(f[i - 1], s[i]) ELSE f[i - 1]
  OBVIOUS
<1> HIDE DEF h
<1>3. 0 \in 0 .. n /\ \A i \in 1 .. n : i \in 0 .. n /\ i # 0
  OBVIOUS
<1>4. QED
  BY <1>1, <1>2, <1>3

LEMMA RunsAgree ==
  ASSUME NEW f, NEW g, NEW s, NEW t, NEW T, NEW U, NEW n \in Nat, NEW k \in Nat, k <= n,
         Sub(f, s, T, k), Sub(g, t, U, n),
         \A i \in 1 .. k : (s[i] \in T <=> t[i] \in U) /\ (s[i] \in T => s[i] = t[i])
  PROVE  f[k] = g[k]
<1> DEFINE P == {i \in 0 .. k : f[i] = g[i]}
<1>1. /\ f[0] = <<>> /\ g[0] = <<>>
      /\ \A i \in 1 .. k : f[i] = IF s[i] \in T THEN Append(f[i - 1], s[i]) ELSE f[i - 1]
      /\ \A i \in 1 .. n : g[i] = IF t[i] \in U THEN Append(g[i - 1], t[i]) ELSE g[i - 1]
  BY SubRun
<1>2. 0 \in P
  BY <1>1
<1>3. ASSUME NEW i \in 0 .. k - 1, i \in P PROVE i + 1 \in P
  <2>1. i + 1 \in 1 .. k /\ i + 1 \in 1 .. n /\ (i + 1) - 1 = i /\ f[i] = g[i]
    BY <1>3
  <2>2. f[i + 1] = (IF s[i + 1] \in T THEN Append(f[i], s[i + 1]) ELSE f[i])
        /\ g[i + 1] = (IF t[i + 1] \in U THEN Append(g[i], t[i + 1]) ELSE g[i])
    BY <1>1, <2>1
  <2>3. f[i + 1] = g[i + 1]
    BY <2>1, <2>2
  <2>4. QED
    BY <2>1, <2>3
<1>4. k \in P
  <2> HIDE DEF P
  <2>1. k \in 0 .. k
    OBVIOUS
  <2>2. QED
    BY <1>2, <1>3, <2>1, UpTo
<1>5. QED
  BY <1>4

LEMMA SublistAgree ==
  ASSUME NEW S, NEW s \in Seq(S), NEW t \in Seq(S), NEW T, NEW U, Len(s) = Len(t),
         \A i \in DOMAIN s : (s[i] \in T <=> t[i] \in U) /\ (s[i] \in T => s[i] = t[i])
  PROVE  Sublist(s, T) = Sublist(t, U)
<1>1. PICK f : Sub(f, s, T, Len(s)) /\ Sublist(s, T) = f[Len(s)]
  BY SublistRuns
<1>2. PICK g : Sub(g, t, U, Len(t)) /\ Sublist(t, U) = g[Len(t)]
  BY SublistRuns
<1>3. Len(s) \in Nat /\ DOMAIN s = 1 .. Len(s) /\ Len(s) <= Len(t)
  OBVIOUS
<1>4. f[Len(s)] = g[Len(s)]
  BY <1>1, <1>2, <1>3, RunsAgree
<1>5. QED
  BY <1>1, <1>2, <1>4

LEMMA SublistAdds ==
  ASSUME NEW S, NEW s \in Seq(S), NEW x \in S, NEW T
  PROVE  Sublist(Append(s, x), T) = IF x \in T THEN Append(Sublist(s, T), x) ELSE Sublist(s, T)
<1> DEFINE r == Append(s, x)
<1>1. PICK f : Sub(f, s, T, Len(s)) /\ Sublist(s, T) = f[Len(s)]
  BY SublistRuns
<1>2. r \in Seq(S) /\ Len(r) = Len(s) + 1 /\ Len(s) \in Nat /\ r[Len(s) + 1] = x
      /\ Len(s) <= Len(s) + 1 /\ Len(s) + 1 \in Nat
      /\ \A i \in 1 .. Len(s) : r[i] = s[i]
  OBVIOUS
<1> HIDE DEF r
<1>3. PICK g : Sub(g, r, T, Len(r)) /\ Sublist(r, T) = g[Len(r)]
  BY <1>2, SublistRuns
<1>4. f[Len(s)] = g[Len(s)]
  BY <1>1, <1>2, <1>3, RunsAgree
<1>5. Len(r) \in 1 .. Len(r) /\ Len(r) - 1 = Len(s)
  BY <1>2
<1>6. g[Len(r)] = IF x \in T THEN Append(g[Len(s)], x) ELSE g[Len(s)]
  BY <1>2, <1>3, <1>5, SubRun
<1>7. QED
  BY <1>1, <1>3, <1>4, <1>6 DEF r

LEMMA SublistNothing == ASSUME NEW T PROVE Sublist(<<>>, T) = <<>>
<1>1. <<>> \in Seq({}) /\ Len(<<>>) = 0
  OBVIOUS
<1>2. PICK f : Sub(f, <<>>, T, 0) /\ Sublist(<<>>, T) = f[0]
  BY <1>1, SublistRuns
<1>3. QED
  BY <1>2, SubRun

LEMMA SublistConcat ==
  ASSUME NEW S, NEW s \in Seq(S), NEW t \in Seq(S), NEW T
  PROVE  Sublist(s \o t, T) = Sublist(s, T) \o Sublist(t, T)
<1> DEFINE P == {q \in Seq(S) : Sublist(s \o q, T) = Sublist(s, T) \o Sublist(q, T)}
<1>1. <<>> \in P
  <2>1. s \o <<>> = s /\ <<>> \in Seq(S) /\ Sublist(s, T) \in Seq(S)
    BY SublistType
  <2>2. Sublist(s, T) \o <<>> = Sublist(s, T)
    BY <2>1
  <2>3. QED
    BY <2>1, <2>2, SublistNothing
<1>2. ASSUME NEW q \in Seq(S) \cap P, NEW x \in S PROVE Append(q, x) \in P
  <2>1. /\ s \o Append(q, x) = Append(s \o q, x) /\ s \o q \in Seq(S) /\ Append(q, x) \in Seq(S)
        /\ Sublist(s \o q, T) = Sublist(s, T) \o Sublist(q, T)
    <3>1. q \in Seq(S) /\ Sublist(s \o q, T) = Sublist(s, T) \o Sublist(q, T)
      OBVIOUS
    <3>2. s \o Append(q, x) = Append(s \o q, x)
      BY <3>1, SMTT(30)
    <3>3. s \o q \in Seq(S) /\ Append(q, x) \in Seq(S)
      BY <3>1
    <3>4. QED
      BY <3>1, <3>2, <3>3
  <2> DEFINE a == Sublist(s, T)  b == Sublist(q, T)  c == s \o q
  <2>2. a \in Seq(S) /\ b \in Seq(S)
    BY SublistType
  <2>3. Sublist(Append(c, x), T) = IF x \in T THEN Append(Sublist(c, T), x)
                                   ELSE Sublist(c, T)
    <3>1. c \in Seq(S)
      OBVIOUS
    <3> HIDE DEF c
    <3>2. QED
      BY <3>1, SublistAdds
  <2>4. Sublist(Append(q, x), T) = IF x \in T THEN Append(b, x) ELSE b
    BY SublistAdds
  <2> HIDE DEF a, b
  <2>5. Append(a \o b, x) = a \o Append(b, x)
    <3>1. ASSUME NEW u \in Seq(S), NEW v \in Seq(S) PROVE u \o Append(v, x) = Append(u \o v, x)
      OBVIOUS
    <3>2. QED
      BY <2>2, <3>1
  <2>6. QED
    BY <2>1, <2>3, <2>4, <2>5 DEF a, b
<1>3. Seq(S) \subseteq P
  <2> HIDE DEF P
  <2>1. QED
    BY <1>1, <1>2, SeqUp
<1>4. QED
  BY <1>3

LEMMA SublistNone ==
  ASSUME NEW S, NEW T
  PROVE  \A s \in Seq(S) : (\A i \in DOMAIN s : s[i] \notin T) => Sublist(s, T) = <<>>
<1> DEFINE P == {q \in Seq(S) : (\A i \in DOMAIN q : q[i] \notin T) => Sublist(q, T) = <<>>}
<1>1. <<>> \in P
  BY SublistNothing
<1>2. ASSUME NEW q \in Seq(S) \cap P, NEW x \in S PROVE Append(q, x) \in P
  <2>0. Append(q, x) \in Seq(S)
    OBVIOUS
  <2> SUFFICES ASSUME \A i \in DOMAIN Append(q, x) : Append(q, x)[i] \notin T
               PROVE  Sublist(Append(q, x), T) = <<>>
    BY <2>0
  <2>1. x \notin T
    <3>1. Len(q) + 1 \in DOMAIN Append(q, x) /\ Append(q, x)[Len(q) + 1] = x
      OBVIOUS
    <3>2. QED
      BY <3>1
  <2>2. \A i \in DOMAIN q : q[i] \notin T
    <3>1. \A i \in DOMAIN q : i \in DOMAIN Append(q, x) /\ Append(q, x)[i] = q[i]
      OBVIOUS
    <3>2. QED
      BY <3>1
  <2>3. Sublist(q, T) = <<>>
    BY <2>2
  <2>4. QED
    BY <2>1, <2>3, SublistAdds
<1>3. Seq(S) \subseteq P
  <2> HIDE DEF P
  <2>1. QED
    BY <1>1, <1>2, SeqUp
<1>4. QED
  BY <1>3

LEMMA SublistAll ==
  ASSUME NEW S, NEW T
  PROVE  \A s \in Seq(S) : (\A i \in DOMAIN s : s[i] \in T) => Sublist(s, T) = s
<1> DEFINE P == {q \in Seq(S) : (\A i \in DOMAIN q : q[i] \in T) => Sublist(q, T) = q}
<1>1. <<>> \in P
  BY SublistNothing
<1>2. ASSUME NEW q \in Seq(S) \cap P, NEW x \in S PROVE Append(q, x) \in P
  <2>0. Append(q, x) \in Seq(S)
    OBVIOUS
  <2> SUFFICES ASSUME \A i \in DOMAIN Append(q, x) : Append(q, x)[i] \in T
               PROVE  Sublist(Append(q, x), T) = Append(q, x)
    BY <2>0
  <2>1. x \in T
    <3>1. Len(q) + 1 \in DOMAIN Append(q, x) /\ Append(q, x)[Len(q) + 1] = x
      OBVIOUS
    <3>2. QED
      BY <3>1
  <2>2. \A i \in DOMAIN q : q[i] \in T
    <3>1. \A i \in DOMAIN q : i \in DOMAIN Append(q, x) /\ Append(q, x)[i] = q[i]
      OBVIOUS
    <3>2. QED
      BY <3>1
  <2>3. Sublist(q, T) = q
    BY <2>2
  <2>4. QED
    BY <2>1, <2>3, SublistAdds
<1>3. Seq(S) \subseteq P
  <2> HIDE DEF P
  <2>1. QED
    BY <1>1, <1>2, SeqUp
<1>4. QED
  BY <1>3

LEMMA SublistTwice ==
  ASSUME NEW S, NEW s \in Seq(S), NEW T, NEW U, NEW V,
         \A x \in S : x \in V <=> x \in T /\ x \in U
  PROVE  Sublist(Sublist(s, T), U) = Sublist(s, V)
<1> DEFINE P == {q \in Seq(S) : Sublist(Sublist(q, T), U) = Sublist(q, V)}
<1>1. <<>> \in P
  BY SublistNothing
<1>2. ASSUME NEW q \in Seq(S) \cap P, NEW x \in S PROVE Append(q, x) \in P
  <2> DEFINE a == Sublist(q, T)
  <2>1. a \in Seq(S) /\ Sublist(a, U) = Sublist(q, V)
    BY SublistType
  <2>2. Sublist(Append(q, x), T) = IF x \in T THEN Append(a, x) ELSE a
    BY SublistAdds
  <2>3. Sublist(Append(q, x), V) = IF x \in V THEN Append(Sublist(q, V), x) ELSE Sublist(q, V)
    BY SublistAdds
  <2> HIDE DEF a
  <2>4. Sublist(Append(a, x), U) = IF x \in U THEN Append(Sublist(a, U), x) ELSE Sublist(a, U)
    BY <2>1, SublistAdds
  <2>5. Append(q, x) \in Seq(S)
    OBVIOUS
  <2>6. Sublist(Sublist(Append(q, x), T), U) = Sublist(Append(q, x), V)
    <3>0. x \in V <=> x \in T /\ x \in U
      OBVIOUS
    <3>1. CASE x \in T /\ x \in U
      <4>1. Sublist(Append(q, x), T) = Append(a, x) /\ Sublist(Append(q, x), V) = Append(Sublist(q, V), x)
            /\ Sublist(Append(a, x), U) = Append(Sublist(a, U), x)
        BY <2>2, <2>3, <2>4, <3>0, <3>1
      <4>2. QED
        BY <2>1, <4>1, Zenon
    <3>2. CASE x \in T /\ x \notin U
      <4>1. Sublist(Append(q, x), T) = Append(a, x) /\ Sublist(Append(q, x), V) = Sublist(q, V)
            /\ Sublist(Append(a, x), U) = Sublist(a, U)
        BY <2>2, <2>3, <2>4, <3>0, <3>2
      <4>2. QED
        BY <2>1, <4>1, Zenon
    <3>3. CASE x \notin T
      <4>1. Sublist(Append(q, x), T) = a /\ Sublist(Append(q, x), V) = Sublist(q, V)
        BY <2>2, <2>3, <3>0, <3>3
      <4>2. QED
        BY <2>1, <4>1, Zenon
    <3>4. QED
      BY <3>1, <3>2, <3>3
  <2>7. QED
    BY <2>5, <2>6
<1>3. Seq(S) \subseteq P
  <2> HIDE DEF P
  <2>1. QED
    BY <1>1, <1>2, SeqUp
<1>4. QED
  BY <1>3

(* What is picked and what is left make up the whole.                      *)
LEMMA SublistSplit ==
  ASSUME NEW S, NEW s \in Seq(S), NEW T, NEW U, \A x \in S : x \in T <=> x \notin U
  PROVE  Len(Sublist(s, T)) + Len(Sublist(s, U)) = Len(s)
<1> DEFINE P == {q \in Seq(S) : Len(Sublist(q, T)) + Len(Sublist(q, U)) = Len(q)}
<1>1. <<>> \in P
  BY SublistNothing
<1>2. ASSUME NEW q \in Seq(S) \cap P, NEW x \in S PROVE Append(q, x) \in P
  <2> DEFINE a == Sublist(q, T)  b == Sublist(q, U)
  <2>1. a \in Seq(S) /\ b \in Seq(S) /\ Len(a) + Len(b) = Len(q)
    BY SublistType
  <2>2. /\ Sublist(Append(q, x), T) = IF x \in T THEN Append(a, x) ELSE a
        /\ Sublist(Append(q, x), U) = IF x \in U THEN Append(b, x) ELSE b
    BY SublistAdds
  <2> HIDE DEF a, b
  <2>3. Len(Append(a, x)) = Len(a) + 1 /\ Len(Append(b, x)) = Len(b) + 1
        /\ Len(Append(q, x)) = Len(q) + 1 /\ Append(q, x) \in Seq(S)
        /\ Len(a) \in Nat /\ Len(b) \in Nat
    BY <2>1
  <2>4. QED
    BY <2>1, <2>2, <2>3
<1>3. Seq(S) \subseteq P
  <2> HIDE DEF P
  <2>1. QED
    BY <1>1, <1>2, SeqUp
<1>4. QED
  BY <1>3

(* Picking from a renamed sequence.                                        *)
Mapped(F, s) == [i \in DOMAIN s |-> F[s[i]]]

LEMMA SublistRenamed ==
  ASSUME NEW S, NEW F, NEW s \in Seq(S), NEW T, NEW U,
         \A x \in S : x \in T <=> F[x] \in U
  PROVE  Sublist(Mapped(F, s), U) = Mapped(F, Sublist(s, T))
<1> DEFINE R == {F[x] : x \in S}
           Image(q) == [i \in DOMAIN q |-> F[q[i]]]
           P == {q \in Seq(S) : Sublist(Image(q), U) = Image(Sublist(q, T))}
<1>0. ASSUME NEW q \in Seq(S), NEW x \in S
      PROVE  Image(Append(q, x)) = Append(Image(q), F[x]) /\ Image(q) \in Seq(R)
  OBVIOUS
<1>1. <<>> \in P
  <2>1. Image(<<>>) = <<>> /\ <<>> \in Seq(S)
    OBVIOUS
  <2> HIDE DEF Image
  <2>2. Sublist(Image(<<>>), U) = <<>> /\ Image(Sublist(<<>>, T)) = <<>>
    BY <2>1, SublistNothing
  <2>3. QED
    BY <2>1, <2>2
<1>2. ASSUME NEW q \in Seq(S) \cap P, NEW x \in S PROVE Append(q, x) \in P
  <2> DEFINE a == Sublist(q, T)
  <2> HIDE DEF a, Image, R
  <2>1. a \in Seq(S) /\ Sublist(Image(q), U) = Image(a)
    BY SublistType DEF a
  <2>2. Sublist(Append(q, x), T) = IF x \in T THEN Append(a, x) ELSE a
    BY SublistAdds DEF a
  <2>3. Image(Append(q, x)) = Append(Image(q), F[x]) /\ Image(q) \in Seq(R) /\ F[x] \in R
    BY <1>0 DEF R
  <2>4. Sublist(Append(Image(q), F[x]), U) = IF F[x] \in U THEN Append(Sublist(Image(q), U), F[x])
                                             ELSE Sublist(Image(q), U)
    <3>1. \A r \in Seq(R) : \A y \in R :
            Sublist(Append(r, y), U) = IF y \in U THEN Append(Sublist(r, U), y) ELSE Sublist(r, U)
      BY SublistAdds
    <3>2. QED
      BY <2>3, <3>1
  <2>5. Image(Append(a, x)) = Append(Image(a), F[x])
    BY <1>0, <2>1
  <2>6. Append(q, x) \in Seq(S)
    OBVIOUS
  <2>7. QED
    BY <2>1, <2>2, <2>3, <2>4, <2>5, <2>6
<1>3. Seq(S) \subseteq P
  <2> HIDE DEF P
  <2>1. QED
    BY <1>1, <1>2, SeqUp
<1>4. QED
  BY <1>3 DEF Mapped

(* What a sublist has, and that it repeats nothing the sequence does not.  *)
LEMMA SublistElems ==
  ASSUME NEW S, NEW s \in Seq(S), NEW T
  PROVE  ToSet(Sublist(s, T)) = ToSet(s) \cap T
<1> DEFINE l == Sublist(s, T)
<1>1. PICK e \in Seq(Nat) : Picks(l, e, s, T, Len(s))
  BY SublistPicks
<1>2. l \in Seq(S)
  BY SublistType
<1> HIDE DEF l
<1>3. DOMAIN l = DOMAIN e /\ DOMAIN s = 1 .. Len(s)
  BY <1>1, <1>2 DEF Picks
<1>4. ASSUME NEW y PROVE y \in ToSet(l) <=> y \in ToSet(s) \cap T
  <2>1. ASSUME y \in ToSet(l) PROVE y \in ToSet(s) \cap T
    <3>1. PICK k \in DOMAIN e : l[k] = y
      BY <1>3, <2>1 DEF ToSet
    <3>2. e[k] \in DOMAIN s /\ s[e[k]] \in T /\ y = s[e[k]]
      BY <1>1, <1>3, <3>1 DEF Picks
    <3>3. QED
      BY <3>2 DEF ToSet
  <2>2. ASSUME y \in ToSet(s) \cap T PROVE y \in ToSet(l)
    <3>1. PICK i \in 1 .. Len(s) : s[i] = y
      BY <1>3, <2>2 DEF ToSet
    <3>2. PICK k \in DOMAIN e : e[k] = i
      BY <1>1, <2>2, <3>1 DEF Picks
    <3>3. l[k] = y /\ k \in DOMAIN l
      BY <1>1, <1>3, <3>1, <3>2 DEF Picks
    <3>4. QED
      BY <3>3 DEF ToSet
  <2>3. QED
    BY <2>1, <2>2
<1>5. ToSet(l) = ToSet(s) \cap T
  BY <1>4
<1>6. QED
  BY <1>5 DEF l

LEMMA SublistOnce ==
  ASSUME NEW S, NEW s \in Seq(S), NEW T
  PROVE  /\ IsInjective(s) => IsInjective(Sublist(s, T))
         /\ IsInjective(Sublist(s, T)) =>
              \A i, j \in DOMAIN s : s[i] = s[j] /\ s[i] \in T => i = j
<1> DEFINE l == Sublist(s, T)
<1>1. PICK e \in Seq(Nat) : Picks(l, e, s, T, Len(s))
  BY SublistPicks
<1>2. l \in Seq(S)
  BY SublistType
<1> HIDE DEF l
<1>3. DOMAIN l = DOMAIN e /\ DOMAIN s = 1 .. Len(s) /\ DOMAIN e \subseteq Nat
  BY <1>1, <1>2 DEF Picks
<1>4. ASSUME IsInjective(s) PROVE IsInjective(l)
  <2> SUFFICES ASSUME NEW j \in DOMAIN e, NEW k \in DOMAIN e, l[j] = l[k] PROVE j = k
    BY <1>3 DEF IsInjective
  <2>1. e[j] \in DOMAIN s /\ e[k] \in DOMAIN s /\ s[e[j]] = s[e[k]]
    BY <1>1, <1>3 DEF Picks
  <2>2. e[j] = e[k]
    BY <1>4, <2>1 DEF IsInjective
  <2>3. ~(j < k) /\ ~(k < j)
    BY <1>1, <1>3, <2>1, <2>2 DEF Picks
  <2>4. QED
    BY <1>3, <2>3
<1>5. ASSUME IsInjective(l), NEW i \in DOMAIN s, NEW j \in DOMAIN s, s[i] = s[j], s[i] \in T
      PROVE  i = j
  <2>1. PICK k \in DOMAIN e : e[k] = i
    BY <1>1, <1>3, <1>5 DEF Picks
  <2>2. PICK h \in DOMAIN e : e[h] = j
    BY <1>1, <1>3, <1>5 DEF Picks
  <2>3. l[k] = l[h]
    BY <1>1, <1>5, <2>1, <2>2 DEF Picks
  <2>4. k = h
    BY <1>3, <1>5, <2>3 DEF IsInjective
  <2>5. QED
    BY <2>1, <2>2, <2>4
<1>6. QED
  BY <1>4, <1>5 DEF l

(* What a queue holds after an element joined it, or left it.             *)
LEMMA QueueAdds ==
  ASSUME NEW S, NEW q \in Seq(S), NEW x \in S
  PROVE  /\ Append(q, x) \in Seq(S) /\ ToSet(Append(q, x)) = ToSet(q) \cup {x}
         /\ DOMAIN Append(q, x) = 1 .. Len(q) + 1 /\ Append(q, x)[Len(q) + 1] = x
         /\ \A i \in DOMAIN q : Append(q, x)[i] = q[i] /\ i \in 1 .. Len(q)
<1>1. /\ Append(q, x) \in Seq(S)
      /\ DOMAIN Append(q, x) = 1 .. Len(q) + 1 /\ Append(q, x)[Len(q) + 1] = x
      /\ DOMAIN q = 1 .. Len(q) /\ \A i \in DOMAIN q : Append(q, x)[i] = q[i]
  OBVIOUS
<1>2. Len(q) \in Nat
  OBVIOUS
<1> DEFINE r == Append(q, x)
<1> HIDE DEF r
<1>3. ASSUME NEW y PROVE y \in ToSet(r) <=> y \in ToSet(q) \cup {x}
  <2>1. ASSUME y \in ToSet(r) PROVE y \in ToSet(q) \cup {x}
    <3>1. PICK i \in DOMAIN r : r[i] = y
      BY <2>1 DEF ToSet
    <3>2. i = Len(q) + 1 \/ i \in DOMAIN q
      BY <1>1, <1>2 DEF r
    <3>3. QED
      BY <1>1, <3>1, <3>2 DEF r, ToSet
  <2>2. ASSUME y \in ToSet(q) PROVE y \in ToSet(r)
    <3>1. PICK i \in DOMAIN q : q[i] = y
      BY <2>2 DEF ToSet
    <3>2. i \in DOMAIN r /\ r[i] = y
      BY <1>1, <1>2, <3>1 DEF r
    <3>3. QED
      BY <3>2 DEF ToSet
  <2>3. x \in ToSet(r)
    <3>1. Len(q) + 1 \in DOMAIN r
      BY <1>1, <1>2 DEF r
    <3>2. QED
      BY <1>1, <3>1 DEF r, ToSet
  <2>4. QED
    BY <2>1, <2>2, <2>3
<1>4. ToSet(r) = ToSet(q) \cup {x}
  BY <1>3
<1>5. QED
  BY <1>1, <1>4 DEF r

LEMMA QueueDrops ==
  ASSUME NEW S, NEW q \in Seq(S), q # <<>>
  PROVE  /\ Head(q) \in S /\ Head(q) = q[1] /\ Tail(q) \in Seq(S)
         /\ ToSet(q) = ToSet(Tail(q)) \cup {Head(q)}
         /\ Len(q) \in Nat \ {0} /\ DOMAIN q = 1 .. Len(q)
         /\ DOMAIN Tail(q) = 1 .. Len(q) - 1
         /\ \A i \in DOMAIN Tail(q) : Tail(q)[i] = q[i + 1] /\ i + 1 \in DOMAIN q
         /\ Tail(q) \o <<>> = Tail(q)
<1>1. /\ Head(q) \in S /\ Head(q) = q[1] /\ Tail(q) \in Seq(S)
      /\ Len(q) \in Nat \ {0} /\ DOMAIN q = 1 .. Len(q)
      /\ DOMAIN Tail(q) = 1 .. Len(q) - 1
      /\ \A i \in DOMAIN Tail(q) : Tail(q)[i] = q[i + 1]
      /\ Tail(q) \o <<>> = Tail(q)
  OBVIOUS
<1> DEFINE r == Tail(q)  h == Head(q)
<1> HIDE DEF r, h
<1>2. ASSUME NEW y PROVE y \in ToSet(q) <=> y \in ToSet(r) \cup {h}
  <2>1. ASSUME y \in ToSet(q), y # h PROVE y \in ToSet(r)
    <3>1. PICK i \in DOMAIN q : q[i] = y
      BY <2>1 DEF ToSet
    <3>2. i # 1
      BY <1>1, <2>1, <3>1 DEF h
    <3>3. i - 1 \in DOMAIN r /\ r[i - 1] = y
      <4>1. i - 1 \in DOMAIN r /\ (i - 1) + 1 = i
        BY <1>1, <3>1, <3>2 DEF r
      <4>2. QED
        BY <1>1, <3>1, <4>1 DEF r
    <3>4. QED
      BY <3>3 DEF ToSet
  <2>2. ASSUME y \in ToSet(r) PROVE y \in ToSet(q)
    <3>1. PICK i \in DOMAIN r : r[i] = y
      BY <2>2 DEF ToSet
    <3>2. i + 1 \in DOMAIN q /\ q[i + 1] = y
      BY <1>1, <3>1 DEF r
    <3>3. QED
      BY <3>2 DEF ToSet
  <2>3. h \in ToSet(q)
    <3>1. 1 \in DOMAIN q
      BY <1>1
    <3>2. QED
      BY <1>1, <3>1 DEF h, ToSet
  <2>4. QED
    BY <2>1, <2>2, <2>3
<1>3. ToSet(q) = ToSet(r) \cup {h}
  BY <1>2
<1>4. \A i \in DOMAIN r : i + 1 \in DOMAIN q
  BY <1>1 DEF r
<1>5. QED
  BY <1>1, <1>3, <1>4 DEF r, h
=============================================================================
