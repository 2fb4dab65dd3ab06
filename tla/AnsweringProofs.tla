-------------------------- MODULE AnsweringProofs --------------------------
(***************************************************************************)
(* Proofs about Answering, for any chats, documents, texts and ways to cut *)
(* them into pieces.  The lemmas about sequences are inductions over their *)
(* length: a set of numbers that has 0 and all successors has the bound.   *)
(***************************************************************************)
EXTENDS Answering, SequenceTheorems, WellFoundedInduction, TLAPS

(* Every set of numbers that is not empty has a least one. *)
LEMMA LeastNumber ==
  ASSUME NEW T \in SUBSET Nat, T # {}
  PROVE  \E m \in T : \A k \in T : m <= k
<1>1. PICK m \in T : \A k \in T : ~(<<k, m>> \in OpToRel(<, Nat))
  BY WFMin, NatLessThanWellFounded, Zenon
<1>2. \A k \in T : ~(k < m)
  BY <1>1, Zenon DEF OpToRel
<1> QED
  BY <1>2

(* What holds of 0, and of n + 1 if it does of n, holds up to N. *)
LEMMA UpTo ==
  ASSUME NEW N \in Nat, NEW T, 0 \in T, \A n \in 0..(N-1) : n \in T => n + 1 \in T
  PROVE  \A n \in 0..N : n \in T
<1> DEFINE Bad == {n \in 0..N : n \notin T}
<1>1. SUFFICES ASSUME Bad # {} PROVE FALSE
  OBVIOUS
<1>2. PICK m \in Bad : \A k \in Bad : m <= k
  <2>1. Bad \in SUBSET Nat
    OBVIOUS
  <2> HIDE DEF Bad
  <2> QED
    BY <1>1, <2>1, LeastNumber
<1>3. m \in 0..N /\ m \notin T /\ m # 0
  OBVIOUS
<1>4. m - 1 \in 0..(N-1) /\ m - 1 \notin Bad
  BY <1>2, <1>3
<1>5. m - 1 \in T
  BY <1>4
<1> QED
  BY <1>3, <1>4, <1>5
(* A sequence that is cut in two. *)
LEMMA Split ==
  ASSUME NEW S, NEW s \in Seq(S), NEW k \in 0..Len(s)
  PROVE  /\ SubSeq(s, 1, k) \in Seq(S) /\ Len(SubSeq(s, 1, k)) = k
         /\ \A i \in 1..k : SubSeq(s, 1, k)[i] = s[i]
         /\ SubSeq(s, k + 1, Len(s)) \in Seq(S) /\ Len(SubSeq(s, k + 1, Len(s))) = Len(s) - k
         /\ SubSeq(s, 1, k) \o SubSeq(s, k + 1, Len(s)) = s
<1>1. Len(s) \in Nat /\ \A i \in 1..Len(s) : s[i] \in S
  OBVIOUS
<1>2. 1 \in 1..Len(s)+1 /\ k \in 1-1..Len(s) /\ Len(s) \in k..Len(s) /\ k \in Int
  BY <1>1
<1>3. SubSeq(s, 1, k) \o SubSeq(s, k + 1, Len(s)) = SubSeq(s, 1, Len(s))
  BY <1>2, ConcatAdjacentSubSeq
<1>4. SubSeq(s, 1, Len(s)) = s
  BY SubSeqFull
<1>5. /\ SubSeq(s, 1, k) \in Seq(S) /\ Len(SubSeq(s, 1, k)) = k
      /\ \A i \in 1..k : SubSeq(s, 1, k)[i] = s[i]
  BY <1>1, <1>2
<1>6. SubSeq(s, k + 1, Len(s)) \in Seq(S) /\ Len(SubSeq(s, k + 1, Len(s))) = Len(s) - k
  <2> DEFINE m == k + 1
             n == Len(s)
  <2>1. m \in Int /\ n \in Int /\ \A i \in m..n : s[i] \in S
    BY <1>1, <1>2
  <2>2. n - m + 1 = n - k /\ (m <= n \/ n - k = 0)
    BY <1>1, <1>2
  <2> HIDE DEF m, n
  <2>3. SubSeq(s, m, n) \in Seq(S) /\ Len(SubSeq(s, m, n)) = IF m <= n THEN n - m + 1 ELSE 0
    BY <2>1, SubSeqProperties
  <2>4. SubSeq(s, m, n) \in Seq(S) /\ Len(SubSeq(s, m, n)) = n - k
    BY <2>2, <2>3
  <2> QED
    BY <2>4 DEF m, n
<1> QED
  BY <1>3, <1>4, <1>5, <1>6

----------------------------------------------------------------------------
(* Items of some sorts. *)

IsSelected(f, s, sorts, m) ==
  f = [n \in 0..m |->
        IF n = 0 THEN <<>>
        ELSE IF Sort(s[n]) \in sorts THEN Append(f[n-1], s[n]) ELSE f[n-1]]

LEMMA SelectedExists ==
  ASSUME NEW s, NEW sorts, NEW m \in Nat
  PROVE  \E f : IsSelected(f, s, sorts, m)
<1> DEFINE T == {n \in Nat : \E f : IsSelected(f, s, sorts, n)}
<1>1. 0 \in T
  <2>1. IsSelected([n \in 0..0 |-> <<>>], s, sorts, 0)
    BY DEF IsSelected
  <2> QED
    BY <2>1
<1>2. ASSUME NEW n \in 0..(m-1), n \in T
      PROVE  n + 1 \in T
  <2>1. PICK f : IsSelected(f, s, sorts, n)
    BY <1>2
  <2> DEFINE last == IF Sort(s[n+1]) \in sorts THEN Append(f[n], s[n+1]) ELSE f[n]
             g == [k \in 0..(n+1) |-> IF k = n + 1 THEN last ELSE f[k]]
  <2>2. \A k \in 0..n : f[k] = IF k = 0 THEN <<>>
                               ELSE IF Sort(s[k]) \in sorts THEN Append(f[k-1], s[k]) ELSE f[k-1]
    BY <2>1 DEF IsSelected
  <2>3. \A k \in 0..(n+1) : g[k] = IF k = 0 THEN <<>>
                               ELSE IF Sort(s[k]) \in sorts THEN Append(g[k-1], s[k]) ELSE g[k-1]
    <3> SUFFICES ASSUME NEW k \in 0..(n+1)
                 PROVE  g[k] = IF k = 0 THEN <<>>
                               ELSE IF Sort(s[k]) \in sorts THEN Append(g[k-1], s[k]) ELSE g[k-1]
      OBVIOUS
    <3>1. CASE k = n + 1
      <4>1. g[k] = last /\ g[k-1] = f[n] /\ k # 0
        BY <3>1
      <4> QED
        BY <3>1, <4>1
    <3>2. CASE k \in 1..n
      <4>1. g[k] = f[k] /\ g[k-1] = f[k-1]
        BY <3>2
      <4> QED
        BY <2>2, <3>2, <4>1
    <3>3. CASE k = 0
      BY <2>2, <3>3
    <3> QED
      BY <3>1, <3>2, <3>3
  <2>4. g = [k \in 0..(n+1) |-> IF k = 0 THEN <<>>
                                ELSE IF Sort(s[k]) \in sorts THEN Append(g[k-1], s[k]) ELSE g[k-1]]
    <3>1. DOMAIN g = 0..(n+1) /\ g = [k \in 0..(n+1) |-> g[k]]
      OBVIOUS
    <3> HIDE DEF g
    <3> QED
      BY <2>3, <3>1
  <2>5. IsSelected(g, s, sorts, n+1)
    <3> HIDE DEF g
    <3> QED
      BY <2>4 DEF IsSelected
  <2> QED
    BY <2>5
<1> HIDE DEF T
<1>3. \A n \in 0..m : n \in T
  BY <1>1, <1>2, UpTo
<1> QED
  BY <1>3 DEF T

LEMMA SelectedDef ==
  ASSUME NEW s, NEW sorts, Len(s) \in Nat
  PROVE  /\ Selected(s, sorts)[0] = <<>>
         /\ \A n \in 1..Len(s) : Selected(s, sorts)[n] =
              IF Sort(s[n]) \in sorts THEN Append(Selected(s, sorts)[n-1], s[n])
              ELSE Selected(s, sorts)[n-1]
<1>1. Selected(s, sorts) = CHOOSE f : IsSelected(f, s, sorts, Len(s))
  BY DEF Selected, IsSelected
<1>2. IsSelected(Selected(s, sorts), s, sorts, Len(s))
  BY <1>1, SelectedExists
<1> DEFINE f == Selected(s, sorts)
<1> HIDE DEF f
<1>3. f = [n \in 0..Len(s) |->
            IF n = 0 THEN <<>>
            ELSE IF Sort(s[n]) \in sorts THEN Append(f[n-1], s[n]) ELSE f[n-1]]
  BY <1>2 DEF IsSelected, f
<1>4. \A n \in 0..Len(s) : f[n] = IF n = 0 THEN <<>>
            ELSE IF Sort(s[n]) \in sorts THEN Append(f[n-1], s[n]) ELSE f[n-1]
  BY <1>3
<1>5. f[0] = <<>> /\ \A n \in 1..Len(s) : f[n] =
         IF Sort(s[n]) \in sorts THEN Append(f[n-1], s[n]) ELSE f[n-1]
  BY <1>4
<1> QED
  BY <1>5 DEF f

LEMMA SelectedType ==
  ASSUME NEW S, NEW s \in Seq(S), NEW sorts
  PROVE  \A n \in 0..Len(s) : Selected(s, sorts)[n] \in Seq({x \in S : Sort(x) \in sorts})
<1> DEFINE U == {x \in S : Sort(x) \in sorts}
           T == {n \in Nat : Selected(s, sorts)[n] \in Seq(U)}
<1>0. Len(s) \in Nat
  OBVIOUS
<1>1. 0 \in T
  <2>1. Selected(s, sorts)[0] = <<>>
    BY <1>0, SelectedDef
  <2>2. <<>> \in Seq(U)
    BY EmptySeq
  <2> HIDE DEF U
  <2> QED
    BY <2>1, <2>2
<1>2. ASSUME NEW n \in 0..(Len(s) - 1), n \in T
      PROVE  n + 1 \in T
  <2> DEFINE x == Selected(s, sorts)[n]
  <2>1. x \in Seq(U) /\ n + 1 \in 1..Len(s) /\ n + 1 - 1 = n
    BY <1>2
  <2>2. Selected(s, sorts)[n+1] = IF Sort(s[n+1]) \in sorts THEN Append(x, s[n+1]) ELSE x
    BY <2>1, SelectedDef
  <2>3. s[n+1] \in S
    BY <2>1
  <2> HIDE DEF x
  <2>4. Selected(s, sorts)[n+1] \in Seq(U)
    BY <2>1, <2>2, <2>3
  <2> QED
    BY <2>4
<1> HIDE DEF T
<1>3. \A n \in 0..Len(s) : n \in T
  BY <1>1, <1>2, UpTo
<1> QED
  BY <1>3 DEF T

LEMMA OnlyType ==
  ASSUME NEW S, NEW s \in Seq(S), NEW sorts
  PROVE  /\ Only(s, sorts) \in Seq(S)
         /\ \A n \in 1..Len(Only(s, sorts)) : Sort(Only(s, sorts)[n]) \in sorts
<1>1. Only(s, sorts) \in Seq({x \in S : Sort(x) \in sorts})
  BY SelectedType DEF Only
<1> HIDE DEF Only
<1> QED
  BY <1>1

(* Selecting distributes over concatenation. *)
LEMMA OnlyConcat ==
  ASSUME NEW S, NEW s \in Seq(S), NEW t \in Seq(S), NEW sorts
  PROVE  Only(s \o t, sorts) = Only(s, sorts) \o Only(t, sorts)
<1> DEFINE st == s \o t
<1>1. /\ st \in Seq(S) /\ Len(st) = Len(s) + Len(t) /\ Len(s) \in Nat /\ Len(t) \in Nat
      /\ \A n \in 1..Len(s) : st[n] = s[n]
      /\ \A n \in 1..Len(t) : st[Len(s) + n] = t[n]
  OBVIOUS
<1> HIDE DEF st
<1> DEFINE f == Selected(st, sorts)
           g == Selected(s, sorts)
           h == Selected(t, sorts)
<1>2. /\ f[0] = <<>> /\ g[0] = <<>> /\ h[0] = <<>>
      /\ \A n \in 1..Len(st) : f[n] = IF Sort(st[n]) \in sorts THEN Append(f[n-1], st[n]) ELSE f[n-1]
      /\ \A n \in 1..Len(s) : g[n] = IF Sort(s[n]) \in sorts THEN Append(g[n-1], s[n]) ELSE g[n-1]
      /\ \A n \in 1..Len(t) : h[n] = IF Sort(t[n]) \in sorts THEN Append(h[n-1], t[n]) ELSE h[n-1]
  <2>1. Len(st) \in Nat /\ Len(s) \in Nat /\ Len(t) \in Nat
    BY <1>1
  <2>2. /\ f[0] = <<>>
        /\ \A n \in 1..Len(st) : f[n] = IF Sort(st[n]) \in sorts THEN Append(f[n-1], st[n]) ELSE f[n-1]
    BY ONLY <2>1, SelectedDef
  <2>3. /\ g[0] = <<>>
        /\ \A n \in 1..Len(s) : g[n] = IF Sort(s[n]) \in sorts THEN Append(g[n-1], s[n]) ELSE g[n-1]
    BY ONLY <2>1, SelectedDef
  <2>4. /\ h[0] = <<>>
        /\ \A n \in 1..Len(t) : h[n] = IF Sort(t[n]) \in sorts THEN Append(h[n-1], t[n]) ELSE h[n-1]
    BY ONLY <2>1, SelectedDef
  <2> QED
    BY <2>2, <2>3, <2>4
<1>3. /\ \A n \in 0..Len(s) : g[n] \in Seq(S)
      /\ \A n \in 0..Len(t) : h[n] \in Seq(S)
  <2>1. ASSUME NEW n \in 0..Len(s) PROVE g[n] \in Seq(S)
    <3>1. g[n] \in Seq({x \in S : Sort(x) \in sorts})
      BY SelectedType
    <3> HIDE DEF g
    <3> QED
      BY <3>1
  <2>2. ASSUME NEW n \in 0..Len(t) PROVE h[n] \in Seq(S)
    <3>1. h[n] \in Seq({x \in S : Sort(x) \in sorts})
      BY SelectedType
    <3> HIDE DEF h
    <3> QED
      BY <3>1
  <2> QED
    BY <2>1, <2>2
<1> HIDE DEF f, g, h
<1>4. \A n \in 0..Len(s) : f[n] = g[n]
  <2> DEFINE T == {n \in Nat : f[n] = g[n]}
  <2>1. 0 \in T
    BY <1>2
  <2>2. ASSUME NEW n \in 0..(Len(s) - 1), n \in T
        PROVE  n + 1 \in T
    <3>1. n + 1 \in 1..Len(s) /\ n + 1 \in 1..Len(st) /\ (n + 1) - 1 = n
      BY <1>1, <2>2
    <3>2. f[n] = g[n] /\ st[n+1] = s[n+1]
      BY <1>1, <2>2, <3>1
    <3>3. f[n+1] = g[n+1]
      BY <1>2, <3>1, <3>2
    <3> QED
      BY <3>1, <3>3
  <2> HIDE DEF T
  <2>3. \A n \in 0..Len(s) : n \in T
    BY <1>1, <2>1, <2>2, UpTo
  <2> QED
    BY <2>3 DEF T
<1>5. \A n \in 0..Len(t) : f[Len(s) + n] = g[Len(s)] \o h[n]
  <2> DEFINE T == {n \in Nat : f[Len(s) + n] = g[Len(s)] \o h[n]}
             G == g[Len(s)]
  <2>0. G \in Seq(S)
    BY <1>1, <1>3
  <2>3. \A x \in Seq(S), e \in S : Append(G \o x, e) = G \o Append(x, e)
    <3> SUFFICES ASSUME NEW x \in Seq(S), NEW e \in S
                 PROVE  Append(G \o x, e) = G \o Append(x, e)
      OBVIOUS
    <3> HIDE DEF G, T
    <3>1. <<e>> \in Seq(S) /\ G \o x \in Seq(S)
      BY <2>0
    <3>2. Append(G \o x, e) = (G \o x) \o <<e>> /\ Append(x, e) = x \o <<e>>
      BY <3>1, AppendIsConcat
    <3>3. (G \o x) \o <<e>> = G \o (x \o <<e>>)
      BY <2>0, <3>1, ConcatAssociative
    <3> QED
      BY ONLY <3>2, <3>3
  <2>1. 0 \in T
    <3>1. G \o <<>> = G
      BY <2>0
    <3>2. f[Len(s)] = G /\ h[0] = <<>> /\ Len(s) + 0 = Len(s)
      BY <1>1, <1>2, <1>4
    <3> HIDE DEF G
    <3>3. f[Len(s) + 0] = G \o h[0]
      BY <3>1, <3>2
    <3> QED
      BY <3>3 DEF G
  <2>2. ASSUME NEW n \in 0..(Len(t) - 1), n \in T
        PROVE  n + 1 \in T
    <3>1. /\ n + 1 \in 1..Len(t) /\ Len(s) + (n + 1) \in 1..Len(st) /\ (n + 1) - 1 = n
          /\ (Len(s) + (n + 1)) - 1 = Len(s) + n
      BY <1>1, <2>2
    <3>2. f[Len(s) + n] = G \o h[n] /\ st[Len(s) + (n + 1)] = t[n+1]
      BY <1>1, <2>2, <3>1
    <3>3. h[n] \in Seq(S) /\ t[n+1] \in S
      BY <1>3, <2>2, <3>1
    <3> HIDE DEF G
    <3>4. Append(G \o h[n], t[n+1]) = G \o Append(h[n], t[n+1])
      BY <2>3, <3>3
    <3>5. f[Len(s) + (n + 1)] = G \o h[n+1]
      BY <1>2, <3>1, <3>2, <3>4
    <3>6. n + 1 \in Nat
      BY <3>1
    <3> QED
      BY <3>5, <3>6 DEF G
  <2> HIDE DEF T
  <2>4. \A n \in 0..Len(t) : n \in T
    BY <1>1, <2>1, <2>2, UpTo
  <2> QED
    BY <2>4 DEF T
<1>6. f[Len(st)] = g[Len(s)] \o h[Len(t)]
  <2>1. Len(t) \in 0..Len(t) /\ Len(st) = Len(s) + Len(t)
    BY <1>1
  <2> QED
    BY ONLY <1>5, <2>1
<1> QED
  BY <1>6 DEF Only, f, g, h, st

LEMMA OnlyEmpty ==
  ASSUME NEW sorts
  PROVE  Only(<<>>, sorts) = <<>>
<1>1. Len(<<>>) = 0
  OBVIOUS
<1> QED
  BY <1>1, SelectedDef DEF Only

LEMMA OnlyAppend ==
  ASSUME NEW S, NEW s \in Seq(S), NEW e \in S, NEW sorts
  PROVE  Only(Append(s, e), sorts) = IF Sort(e) \in sorts THEN Append(Only(s, sorts), e)
                                     ELSE Only(s, sorts)
<1> DEFINE o == <<e>>
           x == Only(s, sorts)
<1>1. o \in Seq(S) /\ Len(o) = 1 /\ o[1] = e /\ Append(s, e) = s \o o
  OBVIOUS
<1>2. x \in Seq(S)
  BY OnlyType
<1> HIDE DEF o, x
<1>3. Only(o, sorts) = IF Sort(e) \in sorts THEN Append(<<>>, e) ELSE <<>>
  <2>1. Selected(o, sorts)[1] = IF Sort(e) \in sorts THEN Append(Selected(o, sorts)[0], e)
                                ELSE Selected(o, sorts)[0]
    <3>1. \A n \in 1..Len(o) : Selected(o, sorts)[n] =
            IF Sort(o[n]) \in sorts THEN Append(Selected(o, sorts)[n-1], o[n])
            ELSE Selected(o, sorts)[n-1]
      BY <1>1, SelectedDef
    <3>2. 1 \in 1..Len(o) /\ 1 - 1 = 0
      BY <1>1
    <3> QED
      BY <1>1, <3>1, <3>2
  <2>2. Selected(o, sorts)[0] = <<>>
    BY <1>1, SelectedDef
  <2> QED
    BY ONLY <1>1, <2>1, <2>2 DEF Only
<1>4. Only(Append(s, e), sorts) = x \o Only(o, sorts)
  BY <1>1, OnlyConcat DEF x
<1>5. x \o <<>> = x /\ x \o Append(<<>>, e) = Append(x, e)
  BY <1>2
<1> QED
  BY <1>3, <1>4, <1>5 DEF x

(* All, none, and some of the items. *)
LEMMA OnlyAll ==
  ASSUME NEW S, NEW s \in Seq(S), NEW sorts, \A n \in 1..Len(s) : Sort(s[n]) \in sorts
  PROVE  Only(s, sorts) = s
<1> DEFINE f == Selected(s, sorts)
           T == {n \in Nat : f[n] = SubSeq(s, 1, n)}
<1>1. Len(s) \in Nat
  OBVIOUS
<1>2. f[0] = <<>> /\ \A n \in 1..Len(s) : f[n] = Append(f[n-1], s[n])
  BY <1>1, SelectedDef
<1> HIDE DEF f
<1>3. 0 \in T
  <2>1. SubSeq(s, 1, 0) = <<>>
    BY SubSeqEmpty
  <2> QED
    BY <1>2, <2>1
<1>4. ASSUME NEW n \in 0..(Len(s) - 1), n \in T
      PROVE  n + 1 \in T
  <2>1. n + 1 \in 1..Len(s) /\ (n + 1) - 1 = n
    BY <1>1
  <2>2. f[n+1] = Append(SubSeq(s, 1, n), s[n+1])
    BY <1>2, <1>4, <2>1
  <2>3. SubSeq(s, 1, n+1) = Append(SubSeq(s, 1, n), s[n+1])
    BY <2>1
  <2> QED
    BY <2>1, <2>2, <2>3
<1> HIDE DEF T
<1>5. \A n \in 0..Len(s) : n \in T
  BY <1>1, <1>3, <1>4, UpTo
<1>6. f[Len(s)] = SubSeq(s, 1, Len(s))
  BY <1>1, <1>5 DEF T
<1>7. SubSeq(s, 1, Len(s)) = s
  BY SubSeqFull
<1> QED
  BY <1>6, <1>7 DEF f, Only

LEMMA OnlyNone ==
  ASSUME NEW S, NEW s \in Seq(S), NEW sorts, \A n \in 1..Len(s) : Sort(s[n]) \notin sorts
  PROVE  Only(s, sorts) = <<>>
<1> DEFINE f == Selected(s, sorts)
           T == {n \in Nat : f[n] = <<>>}
<1>1. Len(s) \in Nat
  OBVIOUS
<1>2. f[0] = <<>> /\ \A n \in 1..Len(s) : f[n] = f[n-1]
  BY <1>1, SelectedDef
<1> HIDE DEF f
<1>3. 0 \in T
  BY <1>2
<1>4. ASSUME NEW n \in 0..(Len(s) - 1), n \in T
      PROVE  n + 1 \in T
  <2>1. n + 1 \in 1..Len(s) /\ (n + 1) - 1 = n
    BY <1>1
  <2> QED
    BY <1>2, <1>4, <2>1
<1> HIDE DEF T
<1>5. \A n \in 0..Len(s) : n \in T
  BY <1>1, <1>3, <1>4, UpTo
<1> QED
  BY <1>1, <1>5 DEF T, f, Only

LEMMA OnlySome ==
  ASSUME NEW S, NEW s \in Seq(S), NEW sorts, NEW k \in 1..Len(s), Sort(s[k]) \in sorts
  PROVE  Len(Only(s, sorts)) > 0
<1> DEFINE f == Selected(s, sorts)
           T == {n \in Nat : k <= n => Len(f[n]) > 0}
<1>1. Len(s) \in Nat
  OBVIOUS
<1>2. \A n \in 0..Len(s) : f[n] \in Seq(S)
  <2> SUFFICES ASSUME NEW n \in 0..Len(s) PROVE f[n] \in Seq(S)
    OBVIOUS
  <2>1. f[n] \in Seq({x \in S : Sort(x) \in sorts})
    BY SelectedType
  <2> HIDE DEF f
  <2> QED
    BY <2>1
<1>3. f[0] = <<>> /\ \A n \in 1..Len(s) :
        f[n] = IF Sort(s[n]) \in sorts THEN Append(f[n-1], s[n]) ELSE f[n-1]
  BY <1>1, SelectedDef
<1> HIDE DEF f
<1>4. 0 \in T
  OBVIOUS
<1>5. ASSUME NEW n \in 0..(Len(s) - 1), n \in T
      PROVE  n + 1 \in T
  <2>1. n + 1 \in 1..Len(s) /\ (n + 1) - 1 = n /\ s[n+1] \in S
    BY <1>1
  <2>2. f[n] \in Seq(S) /\ Len(f[n]) \in Nat /\ Len(Append(f[n], s[n+1])) = Len(f[n]) + 1
    <3>1. f[n] \in Seq(S)
      BY <1>2, <2>1
    <3> QED
      BY <2>1, <3>1
  <2>6. f[n+1] = IF Sort(s[n+1]) \in sorts THEN Append(f[n], s[n+1]) ELSE f[n]
    BY <1>3, <2>1
  <2>7. n + 1 \in Nat
    BY <2>1
  <2>3. CASE k = n + 1
    <3>1. Len(f[n+1]) > 0
      BY <2>2, <2>3, <2>6
    <3> QED
      BY <2>7, <3>1
  <2>4. CASE k <= n
    <3>1. Len(f[n]) > 0
      BY <1>5, <2>4
    <3>2. Len(f[n+1]) > 0
      BY <2>2, <2>6, <3>1
    <3> QED
      BY <2>7, <3>2
  <2>5. CASE ~(k <= n + 1)
    BY <2>5
  <2> QED
    BY <2>3, <2>4, <2>5
<1> HIDE DEF T
<1>6. \A n \in 0..Len(s) : n \in T
  BY <1>1, <1>4, <1>5, UpTo
<1> QED
  BY <1>1, <1>6 DEF T, f, Only

(* Selecting twice selects what is of both. *)
LEMMA OnlyTwice ==
  ASSUME NEW S, NEW s \in Seq(S), NEW A, NEW B
  PROVE  Only(Only(s, A), B) = Only(s, A \intersect B)
<1> DEFINE f == Selected(s, A)
           g == Selected(s, A \intersect B)
           T == {n \in Nat : Only(f[n], B) = g[n]}
<1>1. Len(s) \in Nat
  OBVIOUS
<1>2. \A n \in 0..Len(s) : f[n] \in Seq(S)
  <2> SUFFICES ASSUME NEW n \in 0..Len(s) PROVE f[n] \in Seq(S)
    OBVIOUS
  <2>1. f[n] \in Seq({x \in S : Sort(x) \in A})
    BY SelectedType
  <2> HIDE DEF f
  <2> QED
    BY <2>1
<1>3. /\ f[0] = <<>> /\ g[0] = <<>>
      /\ \A n \in 1..Len(s) : f[n] = IF Sort(s[n]) \in A THEN Append(f[n-1], s[n]) ELSE f[n-1]
      /\ \A n \in 1..Len(s) : g[n] = IF Sort(s[n]) \in A \intersect B THEN Append(g[n-1], s[n])
                                     ELSE g[n-1]
  BY <1>1, SelectedDef
<1> HIDE DEF f, g
<1>4. 0 \in T
  BY <1>3, OnlyEmpty
<1>5. ASSUME NEW n \in 0..(Len(s) - 1), n \in T
      PROVE  n + 1 \in T
  <2>1. n + 1 \in 1..Len(s) /\ (n + 1) - 1 = n /\ s[n+1] \in S
    BY <1>1
  <2>2. f[n] \in Seq(S) /\ Only(f[n], B) = g[n]
    BY <1>2, <1>5, <2>1
  <2>3. Only(Append(f[n], s[n+1]), B) = IF Sort(s[n+1]) \in B THEN Append(g[n], s[n+1]) ELSE g[n]
    BY <2>1, <2>2, OnlyAppend
  <2>4. Only(f[n+1], B) = g[n+1]
    BY <1>3, <2>1, <2>2, <2>3
  <2> QED
    BY <2>1, <2>4
<1> HIDE DEF T
<1>6. \A n \in 0..Len(s) : n \in T
  BY <1>1, <1>4, <1>5, UpTo
<1>7. Only(f[Len(s)], B) = g[Len(s)]
  BY <1>1, <1>6 DEF T
<1>8. f[Len(s)] = Only(s, A) /\ g[Len(s)] = Only(s, A \intersect B)
  BY DEF Only, f, g
<1> QED
  BY <1>7, <1>8
----------------------------------------------------------------------------
(* Texts. *)

Items == {Char(c) : c \in Characters} \union {Number(n) : n \in Int}
AllSorts == {"letter", "blank", "item", "stray"}

LEMMA Sorts ==
  /\ \A c \in Characters : Sort(Char(c)) \in {"letter", "blank"} /\ Char(c).number = -1
  /\ \A n : Sort(Number(n)) = (IF 0 <= n /\ n < Len(Found) THEN "item" ELSE "stray")
  /\ Sort(Nothing) = "nothing"
<1>1. ASSUME NEW c \in Characters PROVE Sort(Char(c)) \in {"letter", "blank"}
  <2>1. c # "" /\ c # "nothing"
    BY AnsweringAssumption
  <2> QED
    BY <2>1 DEF Sort, Char, Nothing
<1>2. ASSUME NEW n
      PROVE  Sort(Number(n)) = (IF 0 <= n /\ n < Len(Found) THEN "item" ELSE "stray")
  BY DEF Sort, Number, Nothing, InRange
<1> QED
  BY <1>1, <1>2 DEF Sort, Char, Nothing

LEMMA Values == \A c \in Digits : Value[c] \in 0..9
<1> SUFFICES ASSUME NEW c \in Digits PROVE Value[c] \in 0..9
  OBVIOUS
<1>1. PICK n \in 1..10 : Digit[n] = c
  BY DEF Digits
<1>2. n - 1 \in 0..9 /\ Digit[(n - 1) + 1] = c
  BY <1>1
<1> HIDE DEF Digit
<1>3. (CHOOSE k \in 0..9 : Digit[k+1] = c) \in 0..9
  BY <1>2
<1> QED
  BY <1>3 DEF Value

IsDecimal(f, s, m) ==
  f = [n \in 0..m |-> IF n = 0 THEN 0 ELSE 10 * f[n-1] + Value[s[n]]]

LEMMA DecimalExists ==
  ASSUME NEW s \in Seq(Digits), NEW m \in 0..Len(s)
  PROVE  \E f \in [0..m -> Nat] : IsDecimal(f, s, m)
<1> DEFINE T == {n \in Nat : \E f \in [0..n -> Nat] : IsDecimal(f, s, n)}
<1>1. 0 \in T
  <2> DEFINE f == [n \in 0..0 |-> 0]
  <2>1. f \in [0..0 -> Nat] /\ IsDecimal(f, s, 0)
    BY DEF IsDecimal
  <2> HIDE DEF f
  <2> QED
    BY <2>1
<1>2. ASSUME NEW n \in 0..(m-1), n \in T
      PROVE  n + 1 \in T
  <2>1. PICK f \in [0..n -> Nat] : IsDecimal(f, s, n)
    BY <1>2
  <2> DEFINE last == 10 * f[n] + Value[s[n+1]]
             g == [k \in 0..(n+1) |-> IF k = n + 1 THEN last ELSE f[k]]
  <2>2. \A k \in 0..n : f[k] = IF k = 0 THEN 0 ELSE 10 * f[k-1] + Value[s[k]]
    BY <2>1 DEF IsDecimal
  <2>3. last \in Nat
    <3>1. s[n+1] \in Digits /\ f[n] \in Nat
      OBVIOUS
    <3>2. Value[s[n+1]] \in 0..9
      BY <3>1, Values
    <3> DEFINE a == f[n]
               b == Value[s[n+1]]
    <3>3. a \in Nat /\ b \in 0..9
      BY <3>1, <3>2
    <3> HIDE DEF a, b
    <3>4. 10 * a + b \in Nat
      BY ONLY <3>3
    <3> QED
      BY <3>4 DEF a, b
  <2>4. \A k \in 0..(n+1) : g[k] = IF k = 0 THEN 0 ELSE 10 * g[k-1] + Value[s[k]]
    <3> SUFFICES ASSUME NEW k \in 0..(n+1)
                 PROVE  g[k] = IF k = 0 THEN 0 ELSE 10 * g[k-1] + Value[s[k]]
      OBVIOUS
    <3>1. CASE k = n + 1
      <4>1. g[k] = last /\ g[k-1] = f[n] /\ k # 0
        BY <3>1
      <4> QED
        BY <3>1, <4>1
    <3>2. CASE k \in 1..n
      <4>1. g[k] = f[k] /\ g[k-1] = f[k-1]
        BY <3>2
      <4> QED
        BY <2>2, <3>2, <4>1
    <3>3. CASE k = 0
      BY <2>2, <3>3
    <3> QED
      BY <3>1, <3>2, <3>3
  <2>5. g \in [0..(n+1) -> Nat]
    <3> HIDE DEF last
    <3> QED
      BY <2>3
  <2>6. g = [k \in 0..(n+1) |-> IF k = 0 THEN 0 ELSE 10 * g[k-1] + Value[s[k]]]
    <3>1. g = [k \in 0..(n+1) |-> g[k]]
      OBVIOUS
    <3> HIDE DEF g
    <3> QED
      BY <2>4, <3>1
  <2>7. IsDecimal(g, s, n+1)
    <3> HIDE DEF g
    <3> QED
      BY <2>6 DEF IsDecimal
  <2> QED
    BY <2>5, <2>7
<1> HIDE DEF T
<1>3. m \in Nat /\ m \in 0..m
  OBVIOUS
<1>4. \A n \in 0..m : n \in T
  BY <1>1, <1>2, <1>3, UpTo
<1>5. m \in T
  BY ONLY <1>3, <1>4
<1> QED
  BY ONLY <1>5 DEF T

LEMMA DecimalUnique ==
  ASSUME NEW s \in Seq(Digits), NEW m \in Nat,
         NEW f \in [0..m -> Nat], IsDecimal(f, s, m), NEW g, IsDecimal(g, s, m)
  PROVE  g[m] = f[m]
<1> DEFINE T == {n \in Nat : g[n] = f[n]}
<1>1. /\ \A k \in 0..m : f[k] = IF k = 0 THEN 0 ELSE 10 * f[k-1] + Value[s[k]]
      /\ \A k \in 0..m : g[k] = IF k = 0 THEN 0 ELSE 10 * g[k-1] + Value[s[k]]
  BY DEF IsDecimal
<1>2. 0 \in T
  BY <1>1
<1>3. ASSUME NEW n \in 0..(m-1), n \in T
      PROVE  n + 1 \in T
  <2>1. n + 1 \in 0..m /\ n + 1 # 0 /\ (n + 1) - 1 = n /\ g[n] = f[n] /\ n + 1 \in Nat
    BY <1>3
  <2>2. f[n+1] = 10 * f[n] + Value[s[n+1]] /\ g[n+1] = 10 * g[n] + Value[s[n+1]]
    BY ONLY <1>1, <2>1
  <2> QED
    BY ONLY <2>1, <2>2
<1> HIDE DEF T
<1>4. \A n \in 0..m : n \in T
  BY <1>2, <1>3, UpTo
<1>5. m \in 0..m
  OBVIOUS
<1>6. m \in T
  BY ONLY <1>4, <1>5
<1> QED
  BY ONLY <1>6 DEF T

LEMMA DecimalNat ==
  ASSUME NEW s \in Seq(Digits)
  PROVE  Decimal(s) \in Nat
<1>0. Len(s) \in Nat
  OBVIOUS
<1> DEFINE g == CHOOSE f : IsDecimal(f, s, Len(s))
<1>1. Decimal(s) = g[Len(s)]
  BY DEF Decimal, IsDecimal
<1>2. PICK f \in [0..Len(s) -> Nat] : IsDecimal(f, s, Len(s))
  BY <1>0, DecimalExists
<1>3. IsDecimal(g, s, Len(s))
  BY <1>2
<1> HIDE DEF g
<1>4. g[Len(s)] = f[Len(s)]
  BY <1>0, <1>2, <1>3, DecimalUnique
<1> QED
  BY <1>0, <1>1, <1>4

LEMMA Brackets ==
  /\ "<" \notin Digits /\ "[" \notin Digits /\ "]" \notin Digits /\ ">" \notin Digits
  /\ "<" # "[" /\ "<" # "]" /\ "<" # ">" /\ ">" # "[" /\ ">" # "]"
BY DEF Digits, Digit

LEMMA RefsAre ==
  ASSUME NEW s, NEW p
  PROVE  p \in Refs(s) <=> /\ p = <<p[1], p[2]>> /\ p[1] \in 1..Len(s) /\ p[2] \in 1..Len(s)
                           /\ RefAt(s, p[1], p[2])
BY DEF Refs

(* References that share a character are the same. *)
LEMMA RefsApart ==
  ASSUME NEW s, Len(s) \in Nat, NEW p \in Refs(s), NEW q \in Refs(s),
         p[1] <= q[2], q[1] <= p[2]
  PROVE  p = q
<1>1. ASSUME NEW x \in Refs(s), NEW y \in Refs(s), x[1] <= y[1], y[1] <= x[2]
      PROVE  y[1] = x[1]
  <2> DEFINE k == y[1]
  <2>1. /\ x[1] \in 1..Len(s) /\ x[2] \in 1..Len(s) /\ k \in 1..Len(s)
        /\ RefAt(s, x[1], x[2]) /\ s[k] = "<"
    BY RefsAre DEF RefAt
  <2>2. k # x[1] + 1 /\ k # x[2] - 1 /\ k # x[2]
    BY <2>1, Brackets DEF RefAt
  <2>3. k \notin (x[1] + 2)..(x[2] - 2)
    BY <2>1, Brackets DEF RefAt
  <2> HIDE DEF k
  <2>4. k = x[1]
    BY <1>1, <2>1, <2>2, <2>3 DEF k
  <2> QED
    BY <2>4 DEF k
<1>2. ASSUME NEW x \in Refs(s), NEW y \in Refs(s), x[1] = y[1], x[2] < y[2]
      PROVE  FALSE
  <2> DEFINE k == x[2]
  <2>1. /\ x[1] \in 1..Len(s) /\ k \in 1..Len(s) /\ y[2] \in 1..Len(s)
        /\ RefAt(s, y[1], y[2]) /\ s[k] = ">" /\ x[1] + 4 <= k
    BY RefsAre DEF RefAt
  <2>2. k # y[2] - 1 /\ k \notin (y[1] + 2)..(y[2] - 2)
    BY <2>1, Brackets DEF RefAt
  <2> HIDE DEF k
  <2> QED
    BY <1>2, <2>1, <2>2 DEF k
<1>3. /\ p[1] \in Nat /\ p[2] \in Nat /\ q[1] \in Nat /\ q[2] \in Nat
      /\ p = <<p[1], p[2]>> /\ q = <<q[1], q[2]>>
  BY RefsAre
<1>4. p[1] = q[1]
  <2>1. CASE p[1] <= q[1]
    BY <1>1, <2>1
  <2>2. CASE q[1] <= p[1]
    BY <1>1, <2>2
  <2> QED
    BY <1>3, <2>1, <2>2
<1>5. p[2] = q[2]
  <2>1. ~(p[2] < q[2])
    BY <1>2, <1>4
  <2>2. ~(q[2] < p[2])
    BY <1>2, <1>4
  <2> QED
    BY <1>3, <2>1, <2>2
<1> QED
  BY <1>3, <1>4, <1>5

(* A reference is seen in a part of the text that has all of it.            *)
LEMMA RefAtConcat ==
  ASSUME NEW S, NEW s \in Seq(S), NEW t \in Seq(S)
  PROVE  /\ \A i \in 1..Len(s), j \in 1..Len(s) : RefAt(s \o t, i, j) <=> RefAt(s, i, j)
         /\ \A i \in 1..Len(t), j \in 1..Len(t) :
              RefAt(s \o t, Len(s) + i, Len(s) + j) <=> RefAt(t, i, j)
<1> DEFINE st == s \o t
<1>1. /\ Len(st) = Len(s) + Len(t) /\ Len(s) \in Nat /\ Len(t) \in Nat
      /\ \A n \in 1..Len(s) : st[n] = s[n]
      /\ \A n \in 1..Len(t) : st[Len(s) + n] = t[n]
  OBVIOUS
<1> HIDE DEF st
<1>2. ASSUME NEW i \in 1..Len(s), NEW j \in 1..Len(s)
      PROVE  RefAt(st, i, j) <=> RefAt(s, i, j)
  <2>1. CASE ~(i + 4 <= j)
    BY <2>1 DEF RefAt
  <2>2. CASE i + 4 <= j
    <3>1. /\ i + 1 \in 1..Len(s) /\ j - 1 \in 1..Len(s) /\ j <= Len(s) /\ j <= Len(st)
          /\ \A n \in (i+2)..(j-2) : n \in 1..Len(s)
      BY <1>1, <2>2
    <3>2. /\ st[i] = s[i] /\ st[i+1] = s[i+1] /\ st[j-1] = s[j-1] /\ st[j] = s[j]
          /\ \A n \in (i+2)..(j-2) : st[n] = s[n]
      BY <1>1, <3>1
    <3> QED
      BY <3>1, <3>2 DEF RefAt
  <2> QED
    BY <2>1, <2>2
<1>3. ASSUME NEW i \in 1..Len(t), NEW j \in 1..Len(t)
      PROVE  RefAt(st, Len(s) + i, Len(s) + j) <=> RefAt(t, i, j)
  <2> DEFINE k == Len(s)
  <2>0. k \in Nat /\ Len(st) = k + Len(t) /\ \A n \in 1..Len(t) : st[k + n] = t[n]
    BY <1>1
  <2> HIDE DEF k
  <2>1. CASE ~(i + 4 <= j)
    <3>1. ~((k + i) + 4 <= k + j)
      BY <2>0, <2>1
    <3> QED
      BY <2>1, <3>1 DEF RefAt, k
  <2>2. CASE i + 4 <= j
    <3>1. /\ i + 1 \in 1..Len(t) /\ j - 1 \in 1..Len(t)
          /\ (k + i) + 1 = k + (i + 1) /\ (k + j) - 1 = k + (j - 1)
          /\ (k + i) + 4 <= k + j /\ k + j <= Len(st) /\ j <= Len(t)
      <4>1. i \in Nat /\ j \in Nat /\ 1 <= i /\ j <= Len(t) /\ Len(t) \in Nat
        BY <1>1
      <4> QED
        BY ONLY <2>0, <2>2, <4>1
    <3>2. /\ st[k + i] = t[i] /\ st[k + j] = t[j]
          /\ st[k + (i + 1)] = t[i + 1] /\ st[k + (j - 1)] = t[j - 1]
      BY <2>0, <3>1
    <3>4. st[(k + i) + 1] = t[i + 1] /\ st[(k + j) - 1] = t[j - 1]
      BY <3>1, <3>2
    <3>3. (\A n \in ((k + i) + 2)..((k + j) - 2) : st[n] \in Digits)
            <=> \A n \in (i + 2)..(j - 2) : t[n] \in Digits
      <4>1. ASSUME NEW n \in (i + 2)..(j - 2)
            PROVE  k + n \in ((k + i) + 2)..((k + j) - 2) /\ st[k + n] = t[n]
        BY <2>0
      <4>2. ASSUME NEW n \in ((k + i) + 2)..((k + j) - 2)
            PROVE  n - k \in (i + 2)..(j - 2) /\ st[n] = t[n - k]
        <5>1. n - k \in (i + 2)..(j - 2) /\ n - k \in 1..Len(t) /\ n = k + (n - k)
          BY <2>0
        <5> QED
          BY <2>0, <5>1
      <4> QED
        BY <4>1, <4>2
    <3> QED
      BY <2>2, <3>1, <3>2, <3>3, <3>4 DEF RefAt, k
  <2> QED
    BY <2>1, <2>2
<1> QED
  BY <1>2, <1>3 DEF st

LEMMA RefsConcat ==
  ASSUME NEW S, NEW s \in Seq(S), NEW t \in Seq(S)
  PROVE  /\ Refs(s) \subseteq Refs(s \o t)
         /\ \A p \in Refs(s \o t) : p[2] <= Len(s) => p \in Refs(s)
         /\ \A p \in Refs(t) : <<Len(s) + p[1], Len(s) + p[2]>> \in Refs(s \o t)
         /\ \A p \in Refs(s \o t) :
              p[1] > Len(s) => <<p[1] - Len(s), p[2] - Len(s)>> \in Refs(t)
<1> DEFINE st == s \o t
<1>1. /\ Len(st) = Len(s) + Len(t) /\ Len(s) \in Nat /\ Len(t) \in Nat
  OBVIOUS
<1>2. /\ \A i \in 1..Len(s), j \in 1..Len(s) : RefAt(st, i, j) <=> RefAt(s, i, j)
      /\ \A i \in 1..Len(t), j \in 1..Len(t) : RefAt(st, Len(s) + i, Len(s) + j) <=> RefAt(t, i, j)
  BY RefAtConcat
<1> HIDE DEF st
<1>3. ASSUME NEW p \in Refs(s) PROVE p \in Refs(st)
  BY <1>1, <1>2, RefsAre
<1>4. ASSUME NEW p \in Refs(st), p[2] <= Len(s) PROVE p \in Refs(s)
  <2>1. p = <<p[1], p[2]>> /\ p[1] \in 1..Len(st) /\ p[2] \in 1..Len(st) /\ RefAt(st, p[1], p[2])
    BY RefsAre
  <2>2. p[1] \in 1..Len(s) /\ p[2] \in 1..Len(s)
    BY <1>1, <1>4, <2>1 DEF RefAt
  <2> QED
    BY <1>2, <2>1, <2>2, RefsAre
<1>5. ASSUME NEW p \in Refs(t) PROVE <<Len(s) + p[1], Len(s) + p[2]>> \in Refs(st)
  <2>1. p[1] \in 1..Len(t) /\ p[2] \in 1..Len(t) /\ RefAt(t, p[1], p[2])
    BY RefsAre
  <2>2. RefAt(st, Len(s) + p[1], Len(s) + p[2])
    BY <1>2, <2>1
  <2>3. Len(s) + p[1] \in 1..Len(st) /\ Len(s) + p[2] \in 1..Len(st)
    BY <1>1, <2>1
  <2> QED
    BY <2>2, <2>3 DEF Refs
<1>6. ASSUME NEW p \in Refs(st), p[1] > Len(s)
      PROVE  <<p[1] - Len(s), p[2] - Len(s)>> \in Refs(t)
  <2>1. p[1] \in 1..Len(st) /\ p[2] \in 1..Len(st) /\ RefAt(st, p[1], p[2])
    BY RefsAre
  <2>2. /\ p[1] - Len(s) \in 1..Len(t) /\ p[2] - Len(s) \in 1..Len(t)
        /\ Len(s) + (p[1] - Len(s)) = p[1] /\ Len(s) + (p[2] - Len(s)) = p[2]
    <3> DEFINE i == p[1]
               j == p[2]
               k == Len(s)
               l == Len(t)
    <3>1. i + 4 <= j
      BY <2>1 DEF RefAt
    <3>2. k \in Nat /\ l \in Nat /\ k < i /\ i \in 1..(k + l) /\ j \in 1..(k + l)
      BY <1>1, <1>6, <2>1
    <3> HIDE DEF i, j, k, l
    <3>3. i - k \in 1..l /\ j - k \in 1..l /\ k + (i - k) = i /\ k + (j - k) = j
      BY ONLY <3>1, <3>2
    <3> QED
      BY ONLY <3>3 DEF i, j, k, l
  <2>3. RefAt(t, p[1] - Len(s), p[2] - Len(s))
    BY <1>2, <2>1, <2>2
  <2> QED
    BY <2>2, <2>3 DEF Refs
<1> QED
  BY <1>3, <1>4, <1>5, <1>6 DEF st

LEMMA RefBounds ==
  ASSUME NEW S, NEW s \in Seq(S), NEW p \in Refs(s)
  PROVE  /\ p[1] \in 1..Len(s) /\ p[2] \in 1..Len(s) /\ p[1] + 4 <= p[2]
         /\ SubSeq(s, p[1] + 2, p[2] - 2) \in Seq(Digits)
<1>1. p[1] \in 1..Len(s) /\ p[2] \in 1..Len(s) /\ RefAt(s, p[1], p[2])
  BY RefsAre
<1>2. /\ p[1] + 4 <= p[2] /\ \A n \in (p[1] + 2)..(p[2] - 2) : s[n] \in Digits
  BY <1>1 DEF RefAt
<1> DEFINE i == p[1] + 2
           j == p[2] - 2
           d == SubSeq(s, i, j)
<1>3. i \in 1..Len(s) /\ j \in 1..Len(s) /\ i <= j
  BY <1>1, <1>2
<1>4. \A n \in i..j : s[n] \in Digits
  BY <1>2
<1> HIDE DEF i, j
<1>5. i \in Int /\ j \in Int
  BY <1>3
<1>6. d \in Seq(Digits)
  BY <1>4, <1>5, SubSeqProperties
<1> QED
  BY <1>1, <1>2, <1>6 DEF i, j

LEMMA PartIs ==
  ASSUME NEW S, NEW s \in Seq(S), NEW n \in Nat
  PROVE  /\ (\A p \in Refs(s) : ~(p[1] <= n /\ n <= p[2])) => Part(s, Refs(s), n) = Char(s[n])
         /\ \A p \in Refs(s) : p[1] <= n /\ n <= p[2] =>
              Part(s, Refs(s), n) = IF p[1] = n THEN Number(RefIndex(s, p)) ELSE Nothing
<1> DEFINE within == {p \in Refs(s) : p[1] <= n /\ n <= p[2]}
           q == CHOOSE p \in within : TRUE
<1>1. Part(s, Refs(s), n) = IF within = {} THEN Char(s[n])
        ELSE IF q[1] = n THEN Number(RefIndex(s, q)) ELSE Nothing
  BY DEF Part
<1>2. ASSUME NEW p \in Refs(s), p[1] <= n, n <= p[2]
      PROVE  within # {} /\ q = p
  <2>1. within # {} /\ q \in within
    BY <1>2
  <2>2. q \in Refs(s) /\ q[1] <= n /\ n <= q[2]
    BY <2>1
  <2> HIDE DEF q
  <2>5. p[1] \in Nat /\ p[2] \in Nat /\ q[1] \in Nat /\ q[2] \in Nat
    BY <2>2, RefsAre
  <2>3. q[1] <= p[2] /\ p[1] <= q[2]
    BY <1>2, <2>2, <2>5
  <2>4. Len(s) \in Nat
    OBVIOUS
  <2> QED
    BY <2>1, <2>2, <2>3, <2>4, RefsApart
<1> QED
  BY <1>1, <1>2

(* A text is torn after its first m characters if a reference is cut there. *)
Torn(s, m) == \E p \in Refs(s) : p[1] <= m /\ m < p[2]

Parts(s) == [n \in 1..Len(s) |-> Part(s, Refs(s), n)]
AnyItem == Items \union {Nothing}

LEMMA PartTypes ==
  ASSUME NEW s \in Seq(Characters)
  PROVE  Parts(s) \in Seq(AnyItem) /\ Len(Parts(s)) = Len(s)
<1>1. Len(s) \in Nat
  OBVIOUS
<1>2. ASSUME NEW n \in 1..Len(s) PROVE Part(s, Refs(s), n) \in AnyItem
  <2>1. CASE \A p \in Refs(s) : ~(p[1] <= n /\ n <= p[2])
    <3>1. Part(s, Refs(s), n) = Char(s[n]) /\ s[n] \in Characters
      BY <2>1, PartIs
    <3> QED
      BY <3>1 DEF AnyItem, Items
  <2>2. ASSUME NEW p \in Refs(s), p[1] <= n, n <= p[2]
        PROVE  Part(s, Refs(s), n) \in AnyItem
    <3>1. Part(s, Refs(s), n) = IF p[1] = n THEN Number(RefIndex(s, p)) ELSE Nothing
      BY <2>2, PartIs
    <3>2. SubSeq(s, p[1] + 2, p[2] - 2) \in Seq(Digits)
      BY RefBounds
    <3>3. Decimal(SubSeq(s, p[1] + 2, p[2] - 2)) \in Nat
      BY ONLY <3>2, DecimalNat
    <3>4. RefIndex(s, p) \in Int
      BY <3>3 DEF RefIndex
    <3> QED
      BY <3>1, <3>4 DEF AnyItem, Items
  <2> QED
    BY <2>1, <2>2
<1>3. Parts(s) \in [1..Len(s) -> AnyItem]
  BY <1>2 DEF Parts
<1> QED
  BY <1>1, <1>3

LEMMA ReadingIs ==
  ASSUME NEW s \in Seq(Characters)
  PROVE  /\ Reading(s) = Only(Parts(s), AllSorts)
         /\ Refs(s) = {} => Parts(s) = Chars(s)
         /\ Chars(s) \in Seq(Items)
<1>1. Len(s) \in Nat /\ \A n \in 1..Len(s) : s[n] \in Characters
  OBVIOUS
<1>2. Chars(s) \in Seq(Items) /\ Len(Chars(s)) = Len(s)
  <2>1. Chars(s) \in [1..Len(s) -> Items]
    BY <1>1 DEF Chars, Items
  <2> QED
    BY <1>1, <2>1 DEF Chars
<1>3. ASSUME Refs(s) = {} PROVE Parts(s) = Chars(s)
  <2>1. ASSUME NEW n \in 1..Len(s) PROVE Part(s, Refs(s), n) = Char(s[n])
    <3>1. n \in Nat /\ \A p \in Refs(s) : ~(p[1] <= n /\ n <= p[2])
      BY <1>1, <1>3
    <3> QED
      BY <3>1, PartIs
  <2> QED
    BY <2>1 DEF Parts, Chars
<1>4. Only(Chars(s), AllSorts) = Chars(s)
  <2>1. \A n \in 1..Len(Chars(s)) : Sort(Chars(s)[n]) \in AllSorts
    BY <1>1, <1>2, Sorts DEF Chars, AllSorts
  <2> QED
    BY <1>2, <2>1, OnlyAll
<1>5. Reading(s) = IF Refs(s) = {} THEN Chars(s) ELSE Only(Parts(s), AllSorts)
  BY DEF Reading, Parts, AllSorts
<1> QED
  BY <1>2, <1>3, <1>4, <1>5

LEMMA ReadingType ==
  ASSUME NEW s \in Seq(Characters)
  PROVE  Reading(s) \in Seq(Items)
<1> DEFINE U == {x \in AnyItem : Sort(x) \in AllSorts}
<1>1. Only(Parts(s), AllSorts) \in Seq(U)
  BY PartTypes, SelectedType DEF Only
<1>2. U \subseteq Items
  BY Sorts DEF AnyItem, AllSorts
<1> HIDE DEF U
<1>3. Seq(U) \subseteq Seq(Items)
  BY <1>2
<1> QED
  BY <1>1, <1>3, ReadingIs

(* Reading distributes over concatenation where no reference is torn. *)
LEMMA ReadingConcat ==
  ASSUME NEW s \in Seq(Characters), NEW t \in Seq(Characters), ~Torn(s \o t, Len(s))
  PROVE  Reading(s \o t) = Reading(s) \o Reading(t)
<1> DEFINE st == s \o t
           k == Len(s)
<1>1. /\ st \in Seq(Characters) /\ Len(st) = k + Len(t) /\ k \in Nat /\ Len(t) \in Nat
      /\ \A n \in 1..k : st[n] = s[n]
      /\ \A n \in 1..Len(t) : st[k + n] = t[n]
  OBVIOUS
<1>2. /\ Refs(s) \subseteq Refs(st)
      /\ \A p \in Refs(st) : p[2] <= k => p \in Refs(s)
      /\ \A p \in Refs(t) : <<k + p[1], k + p[2]>> \in Refs(st)
      /\ \A p \in Refs(st) : p[1] > k => <<p[1] - k, p[2] - k>> \in Refs(t)
  BY RefsConcat
<1>3. \A p \in Refs(st) : p[1] > k \/ p[2] <= k
  <2>1. \A p \in Refs(st) : p[1] \in Nat /\ p[2] \in Nat
    BY RefsAre
  <2> QED
    BY <1>1, <2>1 DEF Torn
<1>4. ASSUME NEW p \in Refs(s) PROVE RefIndex(st, p) = RefIndex(s, p)
  <2>1. p[1] \in 1..k /\ p[2] \in 1..k /\ p[1] + 4 <= p[2]
    BY RefBounds
  <2>2. SubSeq(st, p[1] + 2, p[2] - 2) = SubSeq(s, p[1] + 2, p[2] - 2)
    <3>1. p[1] + 2 \in 1..k /\ p[2] - 2 \in 1..k
      BY <2>1
    <3> QED
      BY <3>1, SubSeqOfConcat1
  <2> QED
    BY <2>2 DEF RefIndex
<1>5. ASSUME NEW p \in Refs(t) PROVE RefIndex(st, <<k + p[1], k + p[2]>>) = RefIndex(t, p)
  <2>1. p[1] \in 1..Len(t) /\ p[2] \in 1..Len(t) /\ p[1] + 4 <= p[2]
    BY RefBounds
  <2>2. SubSeq(st, (k + p[1]) + 2, (k + p[2]) - 2) = SubSeq(t, p[1] + 2, p[2] - 2)
    <3> DEFINE i == (k + p[1]) + 2
               j == (k + p[2]) - 2
    <3>1. /\ i \in k+1 .. k+Len(t) /\ j \in k+1 .. k+Len(t)
          /\ i - k = p[1] + 2 /\ j - k = p[2] - 2
      <4>1. \A x, N \in Nat : \A a, b \in 1..N : a + 4 <= b =>
              /\ (x + a) + 2 \in x+1 .. x+N /\ (x + b) - 2 \in x+1 .. x+N
              /\ ((x + a) + 2) - x = a + 2 /\ ((x + b) - 2) - x = b - 2
        OBVIOUS
      <4>2. k \in Nat /\ Len(t) \in Nat
        OBVIOUS
      <4> HIDE DEF k
      <4> QED
        BY <2>1, <4>1, <4>2
    <3> HIDE DEF i, j
    <3>2. SubSeq(st, i, j) = SubSeq(t, i - k, j - k)
      BY <3>1, SubSeqOfConcat2
    <3> QED
      BY <3>1, <3>2 DEF i, j
  <2> QED
    BY <2>2 DEF RefIndex
<1> HIDE DEF st, k
<1>6. ASSUME NEW n \in 1..k PROVE Part(st, Refs(st), n) = Part(s, Refs(s), n)
  <2>1. n \in Nat
    BY <1>1
  <2>2. CASE \A p \in Refs(s) : ~(p[1] <= n /\ n <= p[2])
    <3>1. \A p \in Refs(st) : ~(p[1] <= n /\ n <= p[2])
      <4>1. \A p \in Refs(st) : p[1] \in Nat /\ p[2] \in Nat
        BY RefsAre
      <4> QED
        BY <1>1, <1>2, <1>3, <2>2, <4>1
    <3>2. Part(st, Refs(st), n) = Char(st[n])
      BY <1>1, <2>1, <3>1, PartIs
    <3>3. Part(s, Refs(s), n) = Char(s[n])
      BY <2>1, <2>2, PartIs
    <3> QED
      BY <1>1, <3>2, <3>3
  <2>3. ASSUME NEW p \in Refs(s), p[1] <= n, n <= p[2]
        PROVE  Part(st, Refs(st), n) = Part(s, Refs(s), n)
    <3>1. p \in Refs(st)
      BY <1>2
    <3>2. Part(st, Refs(st), n) = IF p[1] = n THEN Number(RefIndex(st, p)) ELSE Nothing
      BY <1>1, <2>1, <2>3, <3>1, PartIs
    <3>3. Part(s, Refs(s), n) = IF p[1] = n THEN Number(RefIndex(s, p)) ELSE Nothing
      BY <2>1, <2>3, PartIs
    <3> QED
      BY <1>4, <3>2, <3>3
  <2> QED
    BY <2>2, <2>3
<1>7. ASSUME NEW n \in 1..Len(t) PROVE Part(st, Refs(st), k + n) = Part(t, Refs(t), n)
  <2>1. n \in Nat /\ k + n \in Nat
    BY <1>1
  <2>2. CASE \A p \in Refs(t) : ~(p[1] <= n /\ n <= p[2])
    <3>1. ASSUME NEW p \in Refs(st), p[1] <= k + n, k + n <= p[2] PROVE FALSE
      <4>1. p[1] \in Nat /\ p[2] \in Nat
        BY RefsAre
      <4>2. p[1] > k
        BY <1>1, <1>3, <3>1, <4>1
      <4> DEFINE q == <<p[1] - k, p[2] - k>>
      <4>3. q \in Refs(t)
        BY <1>2, <4>2
      <4>4. q[1] <= n /\ n <= q[2]
        BY <1>1, <3>1, <4>1
      <4> QED
        BY <2>2, <4>3, <4>4
    <3>2. Part(st, Refs(st), k + n) = Char(st[k + n])
      BY <1>1, <2>1, <3>1, PartIs
    <3>3. Part(t, Refs(t), n) = Char(t[n])
      BY <2>1, <2>2, PartIs
    <3> QED
      BY <1>1, <3>2, <3>3
  <2>3. ASSUME NEW p \in Refs(t), p[1] <= n, n <= p[2]
        PROVE  Part(st, Refs(st), k + n) = Part(t, Refs(t), n)
    <3> DEFINE q == <<k + p[1], k + p[2]>>
    <3>0. p[1] \in Nat /\ p[2] \in Nat
      BY RefsAre
    <3>1. q \in Refs(st) /\ q[1] <= k + n /\ k + n <= q[2] /\ (q[1] = k + n <=> p[1] = n)
      BY <1>1, <1>2, <2>3, <3>0
    <3>4. RefIndex(st, q) = RefIndex(t, p)
      BY <1>5
    <3> HIDE DEF q
    <3>2. Part(st, Refs(st), k + n) = IF q[1] = k + n THEN Number(RefIndex(st, q)) ELSE Nothing
      BY <1>1, <2>1, <3>1, PartIs
    <3>3. Part(t, Refs(t), n) = IF p[1] = n THEN Number(RefIndex(t, p)) ELSE Nothing
      BY <2>1, <2>3, PartIs
    <3> QED
      BY <3>1, <3>2, <3>3, <3>4
  <2> QED
    BY <2>2, <2>3
<1>8. Parts(st) = Parts(s) \o Parts(t)
  <2> DEFINE x == Parts(st)
             y == Parts(s)
             z == Parts(t)
             yz == y \o z
  <2>1. /\ x \in Seq(AnyItem) /\ Len(x) = k + Len(t)
        /\ y \in Seq(AnyItem) /\ Len(y) = k
        /\ z \in Seq(AnyItem) /\ Len(z) = Len(t)
    BY <1>1, PartTypes DEF k
  <2>2. /\ \A n \in 1..k : x[n] = y[n]
        /\ \A n \in 1..Len(t) : x[k + n] = z[n]
    BY <1>1, <1>6, <1>7 DEF Parts, k
  <2> HIDE DEF x, y, z
  <2>3. /\ yz \in Seq(AnyItem) /\ Len(yz) = k + Len(t)
        /\ \A n \in 1..k : yz[n] = y[n]
        /\ \A n \in 1..Len(t) : yz[k + n] = z[n]
    BY <1>1, <2>1
  <2>4. ASSUME NEW n \in 1..(k + Len(t)) PROVE x[n] = yz[n]
    <3>1. CASE n <= k
      <4>1. n \in 1..k
        BY <1>1, <3>1
      <4> QED
        BY <2>2, <2>3, <4>1
    <3>2. CASE n > k
      <4>1. n - k \in 1..Len(t) /\ k + (n - k) = n
        BY <1>1, <3>2
      <4> QED
        BY <2>2, <2>3, <4>1
    <3>3. n <= k \/ n > k
      BY <1>1
    <3> QED
      BY <3>1, <3>2, <3>3
  <2> HIDE DEF yz
  <2>5. x = yz
    BY <2>1, <2>3, <2>4, SeqEqual
  <2> QED
    BY <2>5 DEF x, y, z, yz
<1>9. Only(Parts(s) \o Parts(t), AllSorts) = Only(Parts(s), AllSorts) \o Only(Parts(t), AllSorts)
  BY PartTypes, OnlyConcat
<1>10. Reading(st) = Only(Parts(st), AllSorts)
  BY <1>1, ReadingIs
<1> QED
  BY <1>8, <1>9, <1>10, ReadingIs DEF st

(* What stays of a text that is held back whole: no reference.             *)
LEMMA ReadingPlain ==
  ASSUME NEW s \in Seq(Characters), NEW h \in Seq(Characters), Refs(h) = {},
         ~Torn(s \o h, Len(s))
  PROVE  Reading(s \o h) = Reading(s) \o Chars(h)
<1>1. Reading(h) = Chars(h)
  BY DEF Reading
<1> QED
  BY <1>1, ReadingConcat

(* All of a text, and none of it: no reference is torn.                    *)
LEMMA NotTornAtEnds ==
  ASSUME NEW S, NEW s \in Seq(S)
  PROVE  ~Torn(s, 0) /\ ~Torn(s, Len(s)) /\ Refs(<<>>) = {}
<1>1. \A p \in Refs(s) : p[1] \in 1..Len(s) /\ p[2] \in 1..Len(s)
  BY RefsAre
<1>2. Len(s) \in Nat /\ Len(<<>>) = 0
  OBVIOUS
<1> QED
  BY <1>1, <1>2 DEF Torn, Refs

(* A reference that is torn in a part of the text is torn in the text.      *)
LEMMA TornConcat ==
  ASSUME NEW S, NEW s \in Seq(S), NEW t \in Seq(S), NEW m \in Nat
  PROVE  /\ Torn(s, m) => Torn(s \o t, m)
         /\ Torn(s \o t, Len(s) + m) => Torn(s \o t, Len(s)) \/ Torn(t, m)
<1>1. Torn(s, m) => Torn(s \o t, m)
  BY RefsConcat DEF Torn
<1>2. ASSUME Torn(s \o t, Len(s) + m), ~Torn(s \o t, Len(s)) PROVE Torn(t, m)
  <2> DEFINE st == s \o t
             k == Len(s)
  <2>1. k \in Nat /\ \A p \in Refs(st) : p[1] > k => <<p[1] - k, p[2] - k>> \in Refs(t)
    BY RefsConcat
  <2>2. Torn(st, k + m) /\ ~Torn(st, k)
    BY <1>2
  <2> HIDE DEF st, k
  <2>3. PICK p \in Refs(st) : p[1] <= k + m /\ k + m < p[2]
    BY <2>2 DEF Torn
  <2>4. p[1] \in Nat /\ p[2] \in Nat
    BY RefsAre
  <2>5. ~(p[1] <= k /\ k < p[2])
    BY <2>2 DEF Torn
  <2>6. p[1] > k
    BY <2>1, <2>3, <2>4, <2>5
  <2> DEFINE q == <<p[1] - k, p[2] - k>>
  <2>7. q \in Refs(t) /\ q[1] <= m /\ m < q[2]
    BY <2>1, <2>3, <2>4, <2>6
  <2> HIDE DEF q
  <2> QED
    BY <2>7 DEF Torn
<1> QED
  BY <1>1, <1>2

LEMMA LastRefIs ==
  ASSUME NEW S, NEW s \in Seq(S)
  PROVE  /\ Refs(s) = {} => LastRef(s) = 0
         /\ Refs(s) # {} => \E p \in Refs(s) : LastRef(s) = p[2]
         /\ \A p \in Refs(s) : p[2] <= LastRef(s)
         /\ LastRef(s) \in 0..Len(s)
<1> DEFINE last == CHOOSE p \in Refs(s) : \A q \in Refs(s) : q[2] <= p[2]
<1>1. Len(s) \in Nat /\ \A p \in Refs(s) : p[2] \in 1..Len(s)
  BY RefsAre
<1>2. ASSUME Refs(s) # {}
      PROVE  last \in Refs(s) /\ \A q \in Refs(s) : q[2] <= last[2]
  <2> DEFINE T == {Len(s) - p[2] : p \in Refs(s)}
  <2>1. T \in SUBSET Nat /\ T # {}
    BY <1>1, <1>2
  <2> HIDE DEF T
  <2>2. PICK m \in T : \A k \in T : m <= k
    BY <2>1, LeastNumber
  <2>3. PICK p \in Refs(s) : m = Len(s) - p[2]
    BY <2>2 DEF T
  <2>4. \A q \in Refs(s) : q[2] <= p[2]
    <3> SUFFICES ASSUME NEW q \in Refs(s) PROVE q[2] <= p[2]
      OBVIOUS
    <3>1. Len(s) - q[2] \in T
      BY DEF T
    <3>2. Len(s) - p[2] <= Len(s) - q[2]
      BY <2>2, <2>3, <3>1
    <3>3. p[2] \in Int /\ q[2] \in Int
      BY <1>1
    <3> QED
      BY <1>1, <3>2, <3>3
  <2> QED
    BY <2>4
<1>3. LastRef(s) = IF Refs(s) = {} THEN 0 ELSE last[2]
  BY DEF LastRef
<1> HIDE DEF last
<1> QED
  BY <1>1, <1>2, <1>3

(* Where a piece is cut: after its last reference, and before anything that *)
(* may be the begin of one.                                                 *)
LEMMA CutIs ==
  ASSUME NEW S, NEW s \in Seq(S)
  PROVE  /\ Cut(s) \in LastRef(s)..Len(s)
         /\ \A i \in (LastRef(s)+1)..(Len(s)-1) : s[i] = "<" /\ s[i+1] = "[" => Cut(s) < i
         /\ s # <<>> /\ s[Len(s)] = "<" => Cut(s) < Len(s)
<1> DEFINE opens == {i \in (LastRef(s)+1)..(Len(s)-1) : s[i] = "<" /\ s[i+1] = "["}
           first == CHOOSE i \in opens : \A j \in opens : i <= j
           l == LastRef(s)
<1>1. Len(s) \in Nat /\ l \in 0..Len(s)
  BY LastRefIs
<1>2. Cut(s) = IF opens # {} THEN first - 1
               ELSE IF s # <<>> /\ s[Len(s)] = "<" THEN Len(s) - 1 ELSE Len(s)
  BY DEF Cut
<1>3. opens \in SUBSET Nat /\ \A i \in opens : l + 1 <= i /\ i <= Len(s) - 1
  BY <1>1
<1>4. ASSUME opens # {} PROVE first \in opens /\ \A j \in opens : first <= j
  <2> HIDE DEF opens
  <2>1. \E i \in opens : \A j \in opens : i <= j
    BY <1>3, <1>4, LeastNumber
  <2> QED
    BY <2>1
<1>5. ASSUME s # <<>>, s[Len(s)] = "<" PROVE l <= Len(s) - 1
  <2>1. Len(s) # 0
    BY <1>5
  <2>2. ASSUME NEW p \in Refs(s) PROVE p[2] # Len(s)
    <3>1. s[p[2]] = ">"
      BY RefsAre DEF RefAt
    <3> QED
      BY <1>5, <3>1, Brackets
  <2>3. l # Len(s)
    BY <2>1, <2>2, LastRefIs
  <2> QED
    BY <1>1, <2>3
<1>6. \A i \in (LastRef(s)+1)..(Len(s)-1) : s[i] = "<" /\ s[i+1] = "[" => i \in opens
  OBVIOUS
<1> HIDE DEF first, opens
<1>7. CASE opens # {}
  <2>1. /\ first \in Nat /\ l + 1 <= first /\ first <= Len(s) - 1
        /\ \A j \in opens : first <= j
    BY <1>3, <1>4, <1>7
  <2>2. Cut(s) = first - 1
    BY <1>2, <1>7
  <2>3. Cut(s) \in l..Len(s) /\ Cut(s) < Len(s)
    BY <1>1, <2>1, <2>2
  <2>4. \A j \in opens : Cut(s) < j
    BY <1>3, <2>1, <2>2
  <2> QED
    BY <1>6, <2>3, <2>4
<1>8. CASE opens = {}
  <2>1. Cut(s) = IF s # <<>> /\ s[Len(s)] = "<" THEN Len(s) - 1 ELSE Len(s)
    BY <1>2, <1>8
  <2>2. Cut(s) \in l..Len(s) /\ (s # <<>> /\ s[Len(s)] = "<" => Cut(s) < Len(s))
    BY <1>1, <1>5, <2>1
  <2> QED
    BY <1>6, <1>8, <2>2
<1> QED
  BY <1>7, <1>8

(* However a text goes on after a piece, the cut tears no reference, and    *)
(* what is held back has none.                                              *)
LEMMA CutTearsNothing ==
  ASSUME NEW S, NEW s \in Seq(S), NEW t \in Seq(S)
  PROVE  /\ ~Torn(s \o t, Cut(s))
         /\ Refs(SubSeq(s, Cut(s) + 1, Len(s))) = {}
<1> DEFINE st == s \o t
           k == Cut(s)
           l == LastRef(s)
           n == Len(s)
<1>1. /\ n \in Nat /\ l \in 0..n /\ k \in l..n
      /\ \A i \in (l+1)..(n-1) : s[i] = "<" /\ s[i+1] = "[" => k < i
      /\ s # <<>> /\ s[n] = "<" => k < n
      /\ Len(st) \in Nat /\ \A i \in 1..n : st[i] = s[i]
      /\ \A p \in Refs(s) : p[2] <= l
      /\ Refs(s) = {} => l = 0
      /\ Refs(s) # {} => \E p \in Refs(s) : l = p[2]
  BY LastRefIs, CutIs
<1>2. /\ Refs(s) \subseteq Refs(st)
      /\ \A p \in Refs(st) : p[2] <= n => p \in Refs(s)
  BY RefsConcat
<1>3. s = <<>> => n = 0
  OBVIOUS
<1> HIDE DEF st, k, l, n
<1>4. ASSUME NEW q \in Refs(st), q[1] <= k, k < q[2] PROVE FALSE
  <2>1. q[1] \in Nat /\ q[2] \in Nat /\ q[1] # 0 /\ RefAt(st, q[1], q[2])
    BY RefsAre
  <2>2. q[2] > n
    <3>1. ~(q[2] <= l)
      BY <1>1, <1>4, <2>1
    <3> QED
      BY <1>1, <1>2, <2>1, <3>1
  <2>3. q[1] > l
    <3> SUFFICES ASSUME q[1] <= l PROVE FALSE
      BY <1>1, <2>1
    <3>1. Refs(s) # {}
      BY <1>1, <2>1
    <3>2. PICK p \in Refs(s) : l = p[2]
      BY <1>1, <3>1
    <3>3. p \in Refs(st) /\ p[1] \in 1..n
      BY <1>2, RefsAre DEF n
    <3>4. q[1] <= p[2] /\ p[1] <= q[2]
      BY <1>1, <2>1, <2>2, <3>2, <3>3
    <3>5. p = q
      BY <1>1, <3>3, <3>4, RefsApart
    <3> QED
      BY <1>1, <2>1, <2>2, <3>2, <3>5
  <2>4. st[q[1]] = "<" /\ st[q[1] + 1] = "["
    BY <2>1 DEF RefAt
  <2>5. q[1] \in 1..n
    BY <1>1, <1>4, <2>1
  <2>6. CASE q[1] < n
    <3>1. q[1] \in (l+1)..(n-1) /\ q[1] + 1 \in 1..n
      BY <1>1, <2>1, <2>3, <2>6
    <3>2. s[q[1]] = "<" /\ s[q[1] + 1] = "["
      BY <1>1, <2>4, <2>5, <3>1
    <3> QED
      BY <1>1, <1>4, <2>1, <3>1, <3>2
  <2>7. CASE q[1] = n
    <3>1. s # <<>> /\ s[n] = "<"
      BY <1>1, <1>3, <2>4, <2>5, <2>7
    <3> QED
      BY <1>1, <1>4, <2>7, <3>1
  <2> QED
    BY <1>1, <2>5, <2>6, <2>7
<1>5. ASSUME NEW p \in Refs(SubSeq(s, k + 1, n)) PROVE FALSE
  <2> DEFINE a == SubSeq(s, 1, k)
             b == SubSeq(s, k + 1, n)
  <2>1. k \in 0..n /\ a \in Seq(S) /\ b \in Seq(S) /\ Len(a) = k /\ a \o b = s
    <3>1. k \in 0..Len(s)
      BY <1>1 DEF n
    <3> QED
      BY <3>1, Split DEF n
  <2> HIDE DEF a, b
  <2>2. <<k + p[1], k + p[2]>> \in Refs(s)
    BY <2>1, RefsConcat DEF b
  <2>3. k + p[2] <= l
    BY <1>1, <2>2
  <2>4. p[2] \in Nat /\ p[2] # 0
    BY RefsAre
  <2> QED
    BY <1>1, <2>3, <2>4
<1> QED
  BY <1>4, <1>5 DEF Torn, st, k, n
----------------------------------------------------------------------------
(* The stream of one chat. *)

(* Sequences of characters, and of items, for the proofs that follow. *)
LEMMA Texts ==
  /\ \A s, t \in Seq(Characters) : s \o t \in Seq(Characters) /\ Len(s \o t) = Len(s) + Len(t)
  /\ \A s \in Seq(Characters) : s \o <<>> = s /\ Len(s) \in Nat
OBVIOUS

(* Concatenation as an operator of its own: its laws, and nothing else, are *)
(* in sight of a proof that takes the pieces of a text together.            *)
Join(s, t) == s \o t

LEMMA TextsJoin ==
  /\ \A s, t \in Seq(Characters) : Join(s, t) \in Seq(Characters)
  /\ \A s, t, u \in Seq(Characters) : Join(Join(s, t), u) = Join(s, Join(t, u))
<1>1. ASSUME NEW s \in Seq(Characters), NEW t \in Seq(Characters)
      PROVE  Join(s, t) \in Seq(Characters)
  BY DEF Join
<1>2. ASSUME NEW s \in Seq(Characters), NEW t \in Seq(Characters), NEW u \in Seq(Characters)
      PROVE  Join(Join(s, t), u) = Join(s, Join(t, u))
  BY ConcatAssociative DEF Join
<1> QED
  BY <1>1, <1>2

LEMMA ItemsJoin ==
  \A s, t, u \in Seq(Items) : Join(Join(s, t), u) = Join(s, Join(t, u))
<1> SUFFICES ASSUME NEW s \in Seq(Items), NEW t \in Seq(Items), NEW u \in Seq(Items)
             PROVE  Join(Join(s, t), u) = Join(s, Join(t, u))
  OBVIOUS
<1> QED
  BY ConcatAssociative DEF Join

LEMMA ItemsOnly ==
  /\ \A s, t \in Seq(Items) : Only(s \o t, {"item"}) = Only(s, {"item"}) \o Only(t, {"item"})
  /\ \A s, t \in Seq(Items) : Letters(s \o t) = Letters(s) \o Letters(t)
  /\ \A s \in Seq(Items) : Only(s, {"item"}) \in Seq(Items) /\ Letters(s) \in Seq(Items)
<1>1. ASSUME NEW s \in Seq(Items), NEW t \in Seq(Items), NEW A
      PROVE  Only(s \o t, A) = Only(s, A) \o Only(t, A)
  BY OnlyConcat
<1>2. ASSUME NEW s \in Seq(Items), NEW A
      PROVE  Only(s, A) \in Seq(Items)
  BY OnlyType
<1> QED
  BY <1>1, <1>2 DEF Letters

(* What is cited, as items of the text. *)
Citations(cited) == [n \in DOMAIN cited |-> Number(cited[n] - 1)]

LEMMA CitationsType ==
  ASSUME NEW cited \in Seq(Int)
  PROVE  Citations(cited) \in Seq(Items)
<1>1. Citations(cited) \in [1..Len(cited) -> Items] /\ Len(cited) \in Nat
  BY DEF Citations, Items
<1> QED
  BY <1>1

(* The text is what was parsed, what is held back, and what is to come: no  *)
(* reference reaches over the end of the first, and none is in the second.  *)
(* What was sent and what waits to be sent are what the first reads as.     *)
Streaming(text, unread, held, items, shown, cited) ==
  \E parsed \in Seq(Characters) :
    /\ text = (parsed \o held) \o unread
    /\ ~Torn(text, Len(parsed)) /\ Refs(held) = {}
    /\ Letters(shown) \o Letters(items) = Letters(Reading(parsed))
    /\ Citations(cited) \o Only(items, {"item"}) = Only(Reading(parsed), {"item"})

LEMMA ReceiveStreams ==
  ASSUME NEW text, NEW unread \in Seq(Characters), NEW held \in Seq(Characters),
         NEW shown \in Seq(Items), NEW cited \in Seq(Int),
         Letters(shown) \in Seq(Items), Citations(cited) \in Seq(Items),
         NEW size \in 1..Len(unread), Streaming(text, unread, held, <<>>, shown, cited),
         NEW piece, piece = held \o SubSeq(unread, 1, size),
         NEW sent, sent = SubSeq(piece, 1, Cut(piece))
  PROVE  LET rest == SubSeq(unread, size + 1, Len(unread))
             kept == SubSeq(piece, Len(sent) + 1, Len(piece))
         IN /\ rest \in Seq(Characters) /\ kept \in Seq(Characters) /\ Reading(sent) \in Seq(Items)
            /\ Streaming(text, rest, kept, Reading(sent), shown, cited)
<1> DEFINE rest == SubSeq(unread, size + 1, Len(unread))
           kept == SubSeq(piece, Len(sent) + 1, Len(piece))
           head == SubSeq(unread, 1, size)
<1>1. head \in Seq(Characters) /\ rest \in Seq(Characters) /\ head \o rest = unread
  <2>1. size \in 0..Len(unread)
    OBVIOUS
  <2> QED
    BY <2>1, Split
<1>2. piece \in Seq(Characters)
  <2> HIDE DEF head
  <2>1. piece = held \o head
    BY DEF head
  <2>2. held \in Seq(Characters) /\ head \in Seq(Characters)
    BY <1>1
  <2> QED
    BY ONLY <2>1, <2>2, Texts
<1>3. Cut(piece) \in 0..Len(piece)
  <2>1. Cut(piece) \in LastRef(piece)..Len(piece) /\ LastRef(piece) \in 0..Len(piece)
    BY <1>2, CutIs, LastRefIs
  <2> QED
    BY <1>2, <2>1
<1>4. sent \in Seq(Characters) /\ Len(sent) = Cut(piece) /\ kept \in Seq(Characters) /\ sent \o kept = piece
  <2>1. /\ sent \in Seq(Characters) /\ Len(sent) = Cut(piece)
        /\ SubSeq(piece, Cut(piece) + 1, Len(piece)) \in Seq(Characters)
        /\ sent \o SubSeq(piece, Cut(piece) + 1, Len(piece)) = piece
    BY ONLY <1>2, <1>3, Split, sent = SubSeq(piece, 1, Cut(piece))
  <2> QED
    BY <2>1
<1>5. Refs(kept) = {} /\ ~Torn(piece \o rest, Len(sent))
  <2>1. Refs(SubSeq(piece, Cut(piece) + 1, Len(piece))) = {} /\ ~Torn(piece \o rest, Cut(piece))
    BY ONLY <1>1, <1>2, CutTearsNothing
  <2> QED
    BY <1>4, <2>1
<1>6. PICK parsed \in Seq(Characters) :
         /\ text = (parsed \o held) \o unread
         /\ ~Torn(text, Len(parsed)) /\ Refs(held) = {}
         /\ Letters(shown) \o Letters(<<>>) = Letters(Reading(parsed))
         /\ Citations(cited) \o Only(<<>>, {"item"}) = Only(Reading(parsed), {"item"})
  BY Zenon DEF Streaming
<1>7. piece = held \o head
  BY DEF head
<1> HIDE DEF head, rest, kept
<1> DEFINE read == parsed \o sent
<1>8. /\ text = (read \o kept) \o rest
      /\ text = parsed \o (piece \o rest)
      /\ text = read \o (kept \o rest)
  <2>1. /\ head \in Seq(Characters) /\ rest \in Seq(Characters)
        /\ sent \in Seq(Characters) /\ kept \in Seq(Characters)
        /\ parsed \in Seq(Characters) /\ held \in Seq(Characters)
    BY <1>1, <1>4
  <2>2. /\ Join(head, rest) = unread /\ Join(held, head) = piece /\ Join(sent, kept) = piece
        /\ text = Join(Join(parsed, held), unread)
    BY ONLY <1>1, <1>4, <1>6, <1>7 DEF Join
  <2>3. text = Join(parsed, Join(piece, rest))
    BY ONLY <2>1, <2>2, TextsJoin
  <2>4. text = Join(Join(parsed, sent), Join(kept, rest))
    BY ONLY <2>1, <2>2, <2>3, TextsJoin
  <2>5. text = Join(Join(Join(parsed, sent), kept), rest)
    <3>1. Join(parsed, sent) \in Seq(Characters)
      BY ONLY <2>1, TextsJoin
    <3>2. Join(Join(Join(parsed, sent), kept), rest) = Join(Join(parsed, sent), Join(kept, rest))
      BY ONLY <2>1, <3>1, TextsJoin
    <3> QED
      BY ONLY <2>4, <3>2
  <2> QED
    BY ONLY <2>3, <2>4, <2>5 DEF Join
<1>9. read \in Seq(Characters) /\ Len(read) = Len(parsed) + Len(sent) /\ Len(sent) \in Nat /\ Len(parsed) \in Nat
  BY <1>4, Texts
<1>10. ~Torn(text, Len(read))
  <2>1. piece \o rest \in Seq(Characters)
    BY <1>1, <1>2
  <2>2. Torn(parsed \o (piece \o rest), Len(parsed) + Len(sent)) =>
          Torn(parsed \o (piece \o rest), Len(parsed)) \/ Torn(piece \o rest, Len(sent))
    BY <1>9, <2>1, TornConcat
  <2> QED
    BY <1>5, <1>6, <1>8, <1>9, <2>2
<1>11. Reading(read) = Reading(parsed) \o Reading(sent)
  <2>1. kept \o rest \in Seq(Characters)
    BY <1>1, <1>4
  <2>2. Torn(read, Len(parsed)) => Torn(read \o (kept \o rest), Len(parsed))
    BY <1>9, <2>1, TornConcat
  <2>3. ~Torn(parsed \o sent, Len(parsed))
    BY <1>6, <1>8, <2>2
  <2> QED
    BY <1>4, <2>3, ReadingConcat
<1>12. Reading(parsed) \in Seq(Items) /\ Reading(sent) \in Seq(Items)
  BY <1>4, ReadingType
<1> HIDE DEF read
<1>13. /\ Letters(shown) = Letters(Reading(parsed))
       /\ Citations(cited) = Only(Reading(parsed), {"item"})
  <2>1. Letters(<<>>) = <<>> /\ Only(<<>>, {"item"}) = <<>>
    BY OnlyEmpty DEF Letters
  <2>2. Letters(shown) \o <<>> = Letters(shown) /\ Citations(cited) \o <<>> = Citations(cited)
    <3>1. \A x \in Seq(Items) : x \o <<>> = x
      OBVIOUS
    <3> QED
      BY <3>1
  <2> QED
    BY <1>6, <2>1, <2>2
<1>14. /\ Letters(Reading(read)) = Letters(Reading(parsed)) \o Letters(Reading(sent))
       /\ Only(Reading(read), {"item"}) = Only(Reading(parsed), {"item"}) \o Only(Reading(sent), {"item"})
  <2>1. /\ Letters(Reading(parsed) \o Reading(sent)) = Letters(Reading(parsed)) \o Letters(Reading(sent))
        /\ Only(Reading(parsed) \o Reading(sent), {"item"})
             = Only(Reading(parsed), {"item"}) \o Only(Reading(sent), {"item"})
    BY ONLY <1>12, ItemsOnly
  <2> QED
    BY ONLY <1>11, <2>1
<1>15. Streaming(text, rest, kept, Reading(sent), shown, cited)
  BY <1>5, <1>8, <1>9, <1>10, <1>13, <1>14 DEF Streaming
<1> QED
  BY <1>1, <1>4, <1>12, <1>15 DEF rest, kept

LEMMA EndStreams ==
  ASSUME NEW text, NEW held \in Seq(Characters), NEW shown \in Seq(Items), NEW cited \in Seq(Int),
         Letters(shown) \in Seq(Items), Citations(cited) \in Seq(Items),
         Streaming(text, <<>>, held, <<>>, shown, cited)
  PROVE  Streaming(text, <<>>, <<>>, Chars(held), shown, cited)
<1>1. PICK parsed \in Seq(Characters) :
         /\ text = (parsed \o held) \o <<>>
         /\ ~Torn(text, Len(parsed)) /\ Refs(held) = {}
         /\ Letters(shown) \o Letters(<<>>) = Letters(Reading(parsed))
         /\ Citations(cited) \o Only(<<>>, {"item"}) = Only(Reading(parsed), {"item"})
  BY Zenon DEF Streaming
<1>2. text = parsed \o held /\ text \in Seq(Characters) /\ text = (text \o <<>>) \o <<>>
  BY <1>1
<1>3. Reading(text) = Reading(parsed) \o Chars(held)
  BY <1>1, <1>2, ReadingPlain
<1>4. Reading(parsed) \in Seq(Items) /\ Chars(held) \in Seq(Items)
  BY ReadingType, ReadingIs
<1>5. /\ Letters(shown) = Letters(Reading(parsed))
      /\ Citations(cited) = Only(Reading(parsed), {"item"})
  <2>1. Letters(<<>>) = <<>> /\ Only(<<>>, {"item"}) = <<>>
    BY OnlyEmpty DEF Letters
  <2>2. \A x \in Seq(Items) : x \o <<>> = x
    OBVIOUS
  <2> QED
    BY <1>1, <2>1, <2>2
<1>6. /\ Letters(Reading(text)) = Letters(Reading(parsed)) \o Letters(Chars(held))
      /\ Only(Reading(text), {"item"}) = Only(Reading(parsed), {"item"}) \o Only(Chars(held), {"item"})
  <2>1. /\ Letters(Reading(parsed) \o Chars(held)) = Letters(Reading(parsed)) \o Letters(Chars(held))
        /\ Only(Reading(parsed) \o Chars(held), {"item"})
             = Only(Reading(parsed), {"item"}) \o Only(Chars(held), {"item"})
    BY ONLY <1>4, ItemsOnly
  <2> QED
    BY ONLY <1>3, <2>1
<1>7. ~Torn(text, Len(text)) /\ Refs(<<>>) = {}
  BY <1>2, NotTornAtEnds
<1> QED
  BY <1>2, <1>5, <1>6, <1>7 DEF Streaming

LEMMA SendStreams ==
  ASSUME NEW text, NEW unread, NEW held, NEW shown \in Seq(Items), NEW cited,
         NEW items \in Seq(Items), NEW sent \in Seq(Items), NEW rest \in Seq(Items),
         items = sent \o rest, \A n \in 1..Len(sent) : Sort(sent[n]) # "item",
         Streaming(text, unread, held, items, shown, cited)
  PROVE  Streaming(text, unread, held, rest, shown \o Letters(sent), cited)
<1>1. Only(items, {"item"}) = Only(rest, {"item"})
  <2>1. Only(items, {"item"}) = Only(sent, {"item"}) \o Only(rest, {"item"})
    BY OnlyConcat
  <2>2. Only(sent, {"item"}) = <<>>
    BY OnlyNone
  <2>3. Only(rest, {"item"}) \in Seq(Items)
    BY OnlyType
  <2> QED
    BY <2>1, <2>2, <2>3
<1>2. Letters(shown \o Letters(sent)) \o Letters(rest) = Letters(shown) \o Letters(items)
  <2> DEFINE x == Letters(shown)
             y == Letters(sent)
             z == Letters(rest)
  <2>1. x \in Seq(Items) /\ y \in Seq(Items) /\ z \in Seq(Items)
    BY OnlyType DEF Letters
  <2>2. Letters(y) = y
    <3>1. {"letter", "blank"} \intersect {"letter", "blank"} = {"letter", "blank"}
      OBVIOUS
    <3> QED
      BY <3>1, OnlyTwice DEF Letters
  <2>3. Letters(items) = y \o z
    BY ItemsOnly
  <2> HIDE DEF y
  <2>4. Letters(shown \o y) = x \o Letters(y)
    BY <2>1, ItemsOnly
  <2> HIDE DEF x, z
  <2>5. (x \o y) \o z = x \o (y \o z)
    <3>1. Join(Join(x, y), z) = Join(x, Join(y, z))
      BY ONLY <2>1, ItemsJoin
    <3> QED
      BY ONLY <3>1 DEF Join
  <2>6. Letters(shown \o y) \o z = x \o Letters(items)
    BY <2>2, <2>3, <2>4, <2>5
  <2> QED
    BY <2>6 DEF x, y, z
<1> QED
  BY <1>1, <1>2 DEF Streaming

LEMMA CiteStreams ==
  ASSUME NEW text, NEW unread, NEW held, NEW shown, NEW cited \in Seq(Int),
         NEW items \in Seq(Items), items # <<>>, InRange(Head(items)),
         NEW shown2, Letters(shown2) = Letters(shown),
         Streaming(text, unread, held, items, shown, cited)
  PROVE  Streaming(text, unread, held, Tail(items), shown2, Append(cited, Head(items).number + 1))
<1> DEFINE h == Head(items)
           t == Tail(items)
           i == {"item"}
           new == Append(cited, h.number + 1)
<1>1. h \in Items /\ t \in Seq(Items) /\ items = <<h>> \o t /\ <<h>> \in Seq(Items)
  <2>1. h \in Items /\ t \in Seq(Items)
    BY HeadTailProperties
  <2>2. items = <<h>> \o t
    OBVIOUS
  <2>3. <<h>> \in Seq(Items)
    BY <2>1
  <2> QED
    BY <2>1, <2>2, <2>3
<1> HIDE DEF h, t
<1>2. h = Number(h.number) /\ h.number \in Int /\ Sort(h) = "item"
  <2>1. 0 <= h.number /\ h.number < Len(Found)
    BY DEF InRange, h
  <2>2. \A c \in Characters : h # Char(c)
    BY <2>1 DEF Char
  <2>3. PICK n \in Int : h = Number(n)
    BY <1>1, <2>2 DEF Items
  <2>4. h.number = n
    BY <2>3 DEF Number
  <2> QED
    BY <2>1, <2>3, <2>4, Sorts
<1>3. Only(<<h>>, i) = <<h>> /\ Letters(<<h>>) = <<>>
  <2>1. Len(<<h>>) = 1 /\ <<h>>[1] = h
    OBVIOUS
  <2> DEFINE one == <<h>>
  <2>2. one \in Seq(Items) /\ \A n \in 1..Len(one) : Sort(one[n]) = "item"
    BY <1>1, <1>2, <2>1
  <2> HIDE DEF one
  <2>3. Only(one, i) = one
    BY <2>2, OnlyAll
  <2>4. Only(one, {"letter", "blank"}) = <<>>
    BY <2>2, OnlyNone
  <2> QED
    BY <2>3, <2>4 DEF one, Letters
<1>4. Only(items, i) = <<h>> \o Only(t, i)
  <2>1. Only(<<h>> \o t, i) = Only(<<h>>, i) \o Only(t, i)
    BY ONLY <1>1, ItemsOnly
  <2> QED
    BY ONLY <1>1, <1>3, <2>1
<1>5. Letters(items) = Letters(t)
  <2>1. Letters(items) = <<>> \o Letters(t)
    <3>1. Letters(<<h>> \o t) = Letters(<<h>>) \o Letters(t)
      BY ONLY <1>1, ItemsOnly
    <3> QED
      BY ONLY <1>1, <1>3, <3>1
  <2>2. Letters(t) \in Seq(Items)
    BY <1>1, OnlyType DEF Letters
  <2> QED
    BY <2>1, <2>2
<1>6. Citations(new) = Append(Citations(cited), h) /\ Citations(cited) \in Seq(Items)
  <2> DEFINE x == Citations(cited)
             y == Citations(new)
  <2>1. new \in Seq(Int) /\ Len(new) = Len(cited) + 1 /\ Len(cited) \in Nat
    BY <1>2
  <2>2. /\ \A n \in 1..Len(cited) : new[n] = cited[n]
        /\ new[Len(cited) + 1] = h.number + 1
    BY <1>2
  <2>3. x \in Seq(Items) /\ Len(x) = Len(cited)
    <3>1. x \in [1..Len(cited) -> Items]
      BY DEF Citations, Items
    <3> QED
      BY <2>1, <3>1 DEF Citations
  <2>4. y \in Seq(Items) /\ Len(y) = Len(new)
    <3> HIDE DEF new
    <3>1. y \in [1..Len(new) -> Items]
      BY <2>1 DEF Citations, Items
    <3> QED
      BY <2>1, <3>1 DEF Citations
  <2>5. \A n \in 1..Len(cited) : y[n] = x[n]
    <3> HIDE DEF new
    <3> QED
      BY <2>1, <2>2 DEF Citations
  <2>6. y[Len(cited) + 1] = h
    <3> HIDE DEF new
    <3>1. Len(cited) + 1 \in DOMAIN new /\ (h.number + 1) - 1 = h.number
      BY <1>2, <2>1
    <3>2. y[Len(cited) + 1] = Number((h.number + 1) - 1)
      BY <2>2, <3>1 DEF Citations
    <3> QED
      BY <1>2, <3>1, <3>2
  <2> HIDE DEF x, y, new
  <2> DEFINE z == Append(x, h)
  <2>7. /\ z \in Seq(Items) /\ Len(z) = Len(x) + 1 /\ z[Len(x) + 1] = h
        /\ \A n \in 1..Len(x) : z[n] = x[n]
    BY <1>1, <2>3
  <2>8. \A n \in 1..Len(y) : y[n] = z[n]
    BY <2>1, <2>3, <2>4, <2>5, <2>6, <2>7
  <2> HIDE DEF z
  <2>9. y = z
    BY <2>1, <2>3, <2>4, <2>7, <2>8, SeqEqual
  <2> QED
    BY <2>3, <2>9 DEF x, y, z
<1>7. Citations(new) \o Only(t, i) = Citations(cited) \o Only(items, i)
  <2> DEFINE x == Citations(cited)
             z == Only(t, i)
  <2>1. x \in Seq(Items) /\ z \in Seq(Items)
    BY <1>1, <1>6, OnlyType
  <2> HIDE DEF x, z
  <2>2. Append(x, h) = x \o <<h>>
    BY <1>1, <2>1, AppendIsConcat
  <2>3. (x \o <<h>>) \o z = x \o (<<h>> \o z)
    BY <1>1, <2>1, ConcatAssociative
  <2> QED
    BY <1>4, <1>6, <2>2, <2>3 DEF x, z
<1> HIDE DEF new
<1>8. Streaming(text, unread, held, t, shown2, new)
  BY <1>5, <1>7 DEF Streaming
<1> QED
  BY <1>8 DEF h, t, new

(* What a chat has sent, with what waits and what is held back, is what the *)
(* text up to here reads as.                                                *)
Matches(text, unread, held, items, shown, cited) ==
  LET read == SubSeq(text, 1, Len(text) - Len(unread))
      rest == items \o Chars(held)
  IN /\ Letters(shown) \o Letters(rest) = Letters(Reading(read))
     /\ Citations(cited) \o Only(rest, {"item"}) = Only(Reading(read), {"item"})

LEMMA StreamingMatches ==
  ASSUME NEW text, NEW unread \in Seq(Characters), NEW held \in Seq(Characters),
         NEW items \in Seq(Items), NEW shown \in Seq(Items), NEW cited,
         Citations(cited) \in Seq(Items),
         Streaming(text, unread, held, items, shown, cited)
  PROVE  Matches(text, unread, held, items, shown, cited)
<1> DEFINE read == SubSeq(text, 1, Len(text) - Len(unread))
           rest == items \o Chars(held)
<1>1. PICK parsed \in Seq(Characters) :
         /\ text = (parsed \o held) \o unread
         /\ ~Torn(text, Len(parsed)) /\ Refs(held) = {}
         /\ Letters(shown) \o Letters(items) = Letters(Reading(parsed))
         /\ Citations(cited) \o Only(items, {"item"}) = Only(Reading(parsed), {"item"})
  BY Zenon DEF Streaming
<1> DEFINE whole == parsed \o held
<1>2. whole \in Seq(Characters) /\ Len(whole) \in Nat /\ Len(parsed) \in Nat
  OBVIOUS
<1>3. read = whole
  <2> HIDE DEF whole
  <2>1. text = whole \o unread
    BY <1>1 DEF whole
  <2> QED
    BY <1>2, <2>1
<1>4. ~Torn(parsed \o held, Len(parsed))
  <2>1. Torn(whole, Len(parsed)) => Torn(whole \o unread, Len(parsed))
    <3> HIDE DEF whole
    <3> QED
      BY <1>2, TornConcat
  <2> QED
    BY <1>1, <2>1
<1>5. Reading(whole) = Reading(parsed) \o Chars(held)
  BY <1>1, <1>4, ReadingPlain
<1> HIDE DEF whole
<1>6. Reading(parsed) \in Seq(Items) /\ Chars(held) \in Seq(Items)
  BY ReadingType, ReadingIs
<1>7. /\ Letters(Reading(whole)) = Letters(Reading(parsed)) \o Letters(Chars(held))
      /\ Only(Reading(whole), {"item"}) = Only(Reading(parsed), {"item"}) \o Only(Chars(held), {"item"})
  <2>1. /\ Letters(Reading(parsed) \o Chars(held)) = Letters(Reading(parsed)) \o Letters(Chars(held))
        /\ Only(Reading(parsed) \o Chars(held), {"item"})
             = Only(Reading(parsed), {"item"}) \o Only(Chars(held), {"item"})
    BY ONLY <1>6, ItemsOnly
  <2> QED
    BY ONLY <1>5, <2>1
<1>8. /\ Letters(rest) = Letters(items) \o Letters(Chars(held))
      /\ Only(rest, {"item"}) = Only(items, {"item"}) \o Only(Chars(held), {"item"})
  <2>1. items \in Seq(Items)
    OBVIOUS
  <2>2. /\ Letters(items \o Chars(held)) = Letters(items) \o Letters(Chars(held))
        /\ Only(items \o Chars(held), {"item"}) = Only(items, {"item"}) \o Only(Chars(held), {"item"})
    BY ONLY <1>6, <2>1, ItemsOnly
  <2> QED
    BY ONLY <2>2
<1>9. /\ Letters(shown) \in Seq(Items) /\ Letters(items) \in Seq(Items)
      /\ Letters(Chars(held)) \in Seq(Items) /\ Only(items, {"item"}) \in Seq(Items)
      /\ Only(Chars(held), {"item"}) \in Seq(Items) /\ Citations(cited) \in Seq(Items)
  BY <1>6, ItemsOnly
<1>10. /\ (Letters(shown) \o Letters(items)) \o Letters(Chars(held))
           = Letters(shown) \o (Letters(items) \o Letters(Chars(held)))
       /\ (Citations(cited) \o Only(items, {"item"})) \o Only(Chars(held), {"item"})
           = Citations(cited) \o (Only(items, {"item"}) \o Only(Chars(held), {"item"}))
  <2>1. /\ Join(Join(Letters(shown), Letters(items)), Letters(Chars(held)))
             = Join(Letters(shown), Join(Letters(items), Letters(Chars(held))))
        /\ Join(Join(Citations(cited), Only(items, {"item"})), Only(Chars(held), {"item"}))
             = Join(Citations(cited), Join(Only(items, {"item"}), Only(Chars(held), {"item"})))
    BY ONLY <1>9, ItemsJoin
  <2> QED
    BY ONLY <2>1 DEF Join
<1>11. /\ Letters(shown) \o Letters(rest) = Letters(Reading(read))
       /\ Citations(cited) \o Only(rest, {"item"}) = Only(Reading(read), {"item"})
  BY ONLY <1>1, <1>3, <1>7, <1>8, <1>10
<1> QED
  BY ONLY <1>11 DEF Matches, read, rest
----------------------------------------------------------------------------
(* What one step of an answer writes. *)

Letter == {"letter"}

LEMMA WriteText ==
  ASSUME NEW shown \in Seq(Items), NEW sent \in Seq(Items)
  PROVE  /\ shown \o Letters(sent) \in Seq(Items)
         /\ Numbers(shown \o Letters(sent)) = Numbers(shown)
         /\ Len(Only(shown, Letter)) \in Nat
         /\ Len(Only(shown \o Letters(sent), Letter)) \in Nat
         /\ (\E n \in 1..Len(sent) : Sort(sent[n]) = "letter") =>
              Len(Only(shown \o Letters(sent), Letter)) > Len(Only(shown, Letter))
         /\ (\A n \in 1..Len(sent) : Sort(sent[n]) # "letter") =>
              Len(Only(shown \o Letters(sent), Letter)) = Len(Only(shown, Letter))
<1> DEFINE text == Letters(sent)
           x == Only(shown, Letter)
           y == Only(sent, Letter)
<1>1. text \in Seq(Items) /\ x \in Seq(Items) /\ y \in Seq(Items) /\ Numbers(shown) \in Seq(Items)
  BY OnlyType DEF Letters, Numbers
<1>2. Only(text, Letter) = y
  <2>1. {"letter", "blank"} \intersect Letter = Letter
    BY DEF Letter
  <2> QED
    BY <2>1, OnlyTwice DEF Letters
<1>3. Numbers(text) = <<>>
  <2> DEFINE none == {"letter", "blank"} \intersect {"item", "stray"}
  <2>1. none = {}
    OBVIOUS
  <2>2. Only(text, {"item", "stray"}) = Only(sent, none)
    BY OnlyTwice DEF Letters
  <2> HIDE DEF none
  <2>3. Only(sent, none) = <<>>
    BY <2>1, OnlyNone
  <2> QED
    BY <2>2, <2>3 DEF Numbers
<1> HIDE DEF text, x, y
<1>4. shown \o text \in Seq(Items)
  BY <1>1
<1>5. Only(shown \o text, Letter) = x \o y
  <2>1. shown \in Seq(Items) /\ text \in Seq(Items)
    BY <1>1
  <2>2. Only(shown \o text, Letter) = Only(shown, Letter) \o Only(text, Letter)
    BY ONLY <2>1, OnlyConcat
  <2> QED
    BY ONLY <1>2, <2>2 DEF x
<1>6. Numbers(shown \o text) = Numbers(shown)
  <2>1. Numbers(shown \o text) = Numbers(shown) \o Numbers(text)
    <3>1. shown \in Seq(Items) /\ text \in Seq(Items)
      BY <1>1
    <3> QED
      BY ONLY <3>1, OnlyConcat DEF Numbers
  <2> QED
    BY <1>1, <1>3, <2>1
<1>7. Len(x \o y) = Len(x) + Len(y) /\ Len(x) \in Nat /\ Len(y) \in Nat
  BY <1>1
<1>8. ASSUME NEW n \in 1..Len(sent), Sort(sent[n]) = "letter" PROVE Len(y) > 0
  <2>1. Sort(sent[n]) \in Letter
    BY <1>8 DEF Letter
  <2> QED
    BY <2>1, OnlySome DEF y
<1>9. ASSUME \A n \in 1..Len(sent) : Sort(sent[n]) # "letter" PROVE Len(y) = 0
  <2>1. \A n \in 1..Len(sent) : Sort(sent[n]) \notin Letter
    BY <1>9 DEF Letter
  <2>2. y = <<>>
    BY <2>1, OnlyNone DEF y
  <2> QED
    BY <2>2
<1>10. Len(Only(shown \o text, Letter)) = Len(x) + Len(y)
  BY <1>5, <1>7
<1>11. /\ (\E n \in 1..Len(sent) : Sort(sent[n]) = "letter") =>
            Len(Only(shown \o text, Letter)) > Len(x)
       /\ (\A n \in 1..Len(sent) : Sort(sent[n]) # "letter") =>
            Len(Only(shown \o text, Letter)) = Len(x)
  BY <1>7, <1>8, <1>9, <1>10
<1> QED
  BY <1>4, <1>6, <1>7, <1>10, <1>11 DEF text, x

LEMMA WriteNumber ==
  ASSUME NEW shown \in Seq(Items), NEW n \in Int
  PROVE  /\ Append(shown, Number(n)) \in Seq(Items)
         /\ Letters(Append(shown, Number(n))) = Letters(shown)
         /\ Only(Append(shown, Number(n)), Letter) = Only(shown, Letter)
         /\ Numbers(Append(shown, Number(n))) = Append(Numbers(shown), Number(n))
         /\ Numbers(shown) \in Seq(Items)
<1>1. Number(n) \in Items /\ Sort(Number(n)) \in {"item", "stray"}
  BY Sorts DEF Items
<1>2. Append(shown, Number(n)) \in Seq(Items)
  BY <1>1
<1>3. Only(Append(shown, Number(n)), Letter) = Only(shown, Letter)
  <2>1. Sort(Number(n)) \notin Letter
    BY <1>1 DEF Letter
  <2> QED
    BY <1>1, <2>1, OnlyAppend
<1>4. Letters(Append(shown, Number(n))) = Letters(shown)
  <2>1. Sort(Number(n)) \notin {"letter", "blank"}
    BY <1>1
  <2> QED
    BY <1>1, <2>1, OnlyAppend DEF Letters
<1>5. Numbers(Append(shown, Number(n))) = Append(Numbers(shown), Number(n))
  BY <1>1, OnlyAppend DEF Numbers
<1>6. Numbers(shown) \in Seq(Items)
  BY OnlyType DEF Numbers
<1> QED
  BY <1>2, <1>3, <1>4, <1>5, <1>6

Keys == {Key(n) : n \in DOMAIN Found}
Notes == [tag : Nat, item : Int, after : Nat]
Answers == [shown : Seq(Items), tag : Nat, tags : Nat, notes : Seq(Notes),
            attached : Seq(Keys), cited : Seq(Int)]

(* The notes of an open group are those after which no letter was written.  *)
Grouped(a) ==
  LET now == Len(Only(a.shown, Letter)) IN
  /\ a.tag \in {0, a.tags}
  /\ \A n \in DOMAIN a.notes :
       /\ a.notes[n].tag \in 1..a.tags
       /\ a.notes[n].after <= now
       /\ IF a.tag = 0 THEN a.notes[n].after < now
          ELSE a.notes[n].tag = a.tag <=> a.notes[n].after = now
  /\ \A m, n \in DOMAIN a.notes :
       a.notes[m].tag = a.notes[n].tag <=> a.notes[m].after = a.notes[n].after

(* Each number that was written is that of the attachment of its page.      *)
Marked(a) ==
  LET marks == Numbers(a.shown) IN
  /\ Len(marks) = Len(a.cited)
  /\ \A n \in DOMAIN marks :
       /\ marks[n].number \in DOMAIN a.attached
       /\ a.attached[marks[n].number] = Key(a.cited[n])
  /\ \A m, n \in DOMAIN a.attached : a.attached[m] = a.attached[n] => m = n

(* An answer with more text, and with one more citation.                    *)
Continued(a, sent) ==
  [a EXCEPT !.shown = @ \o Letters(sent),
            !.tag = IF \E n \in DOMAIN sent : Sort(sent[n]) = "letter" THEN 0 ELSE @]

LEMMA SendKeeps ==
  ASSUME NEW a \in Answers, NEW sent \in Seq(Items), Grouped(a), NEW b, b = Continued(a, sent)
  PROVE  b \in Answers /\ Grouped(b) /\ (Marked(a) => Marked(b))
<1>1. /\ a.shown \in Seq(Items) /\ a.tag \in Nat /\ a.tags \in Nat /\ a.notes \in Seq(Notes)
      /\ a.attached \in Seq(Keys) /\ a.cited \in Seq(Int)
  BY DEF Answers
<1>2. /\ b.shown = a.shown \o Letters(sent) /\ b.tags = a.tags /\ b.notes = a.notes
      /\ b.attached = a.attached /\ b.cited = a.cited
      /\ b.tag = IF \E n \in DOMAIN sent : Sort(sent[n]) = "letter" THEN 0 ELSE a.tag
  BY DEF Answers, Continued
<1>8. b = [shown |-> b.shown, tag |-> b.tag, tags |-> b.tags, notes |-> b.notes,
           attached |-> b.attached, cited |-> b.cited]
  BY DEF Answers, Continued
<1>3. DOMAIN sent = 1..Len(sent)
  OBVIOUS
<1> DEFINE old == Len(Only(a.shown, Letter))
           now == Len(Only(b.shown, Letter))
<1>4. /\ b.shown \in Seq(Items) /\ Numbers(b.shown) = Numbers(a.shown)
      /\ old \in Nat /\ now \in Nat
      /\ (\E n \in 1..Len(sent) : Sort(sent[n]) = "letter") => now > old
      /\ (\A n \in 1..Len(sent) : Sort(sent[n]) # "letter") => now = old
  BY <1>1, <1>2, WriteText
<1>5. b \in Answers
  <2>1. /\ b.shown \in Seq(Items) /\ b.tag \in Nat /\ b.tags \in Nat /\ b.notes \in Seq(Notes)
        /\ b.attached \in Seq(Keys) /\ b.cited \in Seq(Int)
    BY <1>1, <1>2, <1>4
  <2> QED
    BY ONLY <1>8, <2>1 DEF Answers
<1>6. Marked(a) => Marked(b)
  BY <1>2, <1>4 DEF Marked
<1> HIDE DEF old, now
<1>7. Grouped(b)
  <2>1. /\ a.tag \in {0, a.tags}
        /\ \A n \in DOMAIN a.notes :
             /\ a.notes[n].tag \in 1..a.tags
             /\ a.notes[n].after <= old
             /\ IF a.tag = 0 THEN a.notes[n].after < old
                ELSE a.notes[n].tag = a.tag <=> a.notes[n].after = old
        /\ \A m, n \in DOMAIN a.notes :
             a.notes[m].tag = a.notes[n].tag <=> a.notes[m].after = a.notes[n].after
    BY DEF Grouped, old
  <2>2. \A n \in DOMAIN a.notes : a.notes[n].after \in Nat
    <3>1. \A n \in DOMAIN a.notes : a.notes[n] \in Notes
      BY <1>1
    <3> QED
      BY <3>1 DEF Notes
  <2>3. CASE \E n \in DOMAIN sent : Sort(sent[n]) = "letter"
    <3>1. now > old /\ b.tag = 0
      BY <1>2, <1>3, <1>4, <2>3
    <3>2. \A n \in DOMAIN a.notes : a.notes[n].after < now /\ a.notes[n].after <= now
      BY <1>4, <2>1, <2>2, <3>1
    <3> QED
      BY <1>2, <2>1, <3>1, <3>2 DEF Grouped, now
  <2>4. CASE ~(\E n \in DOMAIN sent : Sort(sent[n]) = "letter")
    <3>1. now = old /\ b.tag = a.tag
      BY <1>2, <1>3, <1>4, <2>4
    <3> QED
      BY <1>2, <2>1, <3>1 DEF Grouped, now
  <2> QED
    BY <2>3, <2>4
<1> QED
  BY <1>5, <1>6, <1>7

LEMMA CitePlainKeeps ==
  ASSUME NEW a \in Answers, NEW k \in Int, Grouped(a),
         NEW b, b = [a EXCEPT !.shown = Append(@, Number(k)), !.cited = Append(@, k)]
  PROVE  /\ b \in Answers /\ Grouped(b)
         /\ Letters(b.shown) = Letters(a.shown) /\ b.cited = Append(a.cited, k)
<1>1. /\ a.shown \in Seq(Items) /\ a.tag \in Nat /\ a.tags \in Nat /\ a.notes \in Seq(Notes)
      /\ a.attached \in Seq(Keys) /\ a.cited \in Seq(Int)
  BY DEF Answers
<1>2. /\ b.shown = Append(a.shown, Number(k)) /\ b.tags = a.tags /\ b.notes = a.notes
      /\ b.attached = a.attached /\ b.cited = Append(a.cited, k) /\ b.tag = a.tag
  BY DEF Answers
<1>3. /\ b.shown \in Seq(Items) /\ Letters(b.shown) = Letters(a.shown)
      /\ Only(b.shown, Letter) = Only(a.shown, Letter)
  BY <1>1, <1>2, WriteNumber
<1>4. b.cited \in Seq(Int)
  BY <1>1, <1>2
<1>5. b \in Answers
  BY <1>1, <1>2, <1>3, <1>4 DEF Answers
<1>6. Grouped(b)
  BY <1>2, <1>3 DEF Grouped
<1> QED
  BY <1>2, <1>3, <1>5, <1>6

Annotated(a, k) ==
  LET tag == IF a.tag = 0 THEN a.tags + 1 ELSE a.tag
  IN [a EXCEPT !.tag = tag, !.tags = IF a.tag = 0 THEN @ + 1 ELSE @,
               !.shown = IF a.tag = 0 THEN Append(@, Number(tag)) ELSE @,
               !.notes = Append(@, [tag |-> tag, item |-> k, after |-> Len(Only(a.shown, Letter))]),
               !.cited = Append(@, k)]

LEMMA CiteAnnotationKeeps ==
  ASSUME NEW a \in Answers, NEW k \in Int, Grouped(a), NEW b, b = Annotated(a, k)
  PROVE  /\ b \in Answers /\ Grouped(b)
         /\ Letters(b.shown) = Letters(a.shown) /\ b.cited = Append(a.cited, k)
<1> DEFINE tag == IF a.tag = 0 THEN a.tags + 1 ELSE a.tag
           now == Len(Only(a.shown, Letter))
           note == [tag |-> tag, item |-> k, after |-> now]
           N == Len(a.notes)
<1>1. /\ a.shown \in Seq(Items) /\ a.tag \in Nat /\ a.tags \in Nat /\ a.notes \in Seq(Notes)
      /\ a.attached \in Seq(Keys) /\ a.cited \in Seq(Int)
  BY DEF Answers
<1>2. /\ b.shown = (IF a.tag = 0 THEN Append(a.shown, Number(tag)) ELSE a.shown)
      /\ b.tags = (IF a.tag = 0 THEN a.tags + 1 ELSE a.tags) /\ b.notes = Append(a.notes, note)
      /\ b.attached = a.attached /\ b.cited = Append(a.cited, k) /\ b.tag = tag
  BY DEF Answers, Annotated
<1>19. b = [shown |-> b.shown, tag |-> b.tag, tags |-> b.tags, notes |-> b.notes,
            attached |-> b.attached, cited |-> b.cited]
  BY DEF Answers, Annotated
<1>3. now \in Nat
  BY <1>1, WriteText
<1>4. /\ tag \in Nat /\ b.tags \in Nat /\ tag = b.tags /\ tag # 0 /\ a.tags <= b.tags
      /\ b.tags \in 1..b.tags
  BY <1>1, <1>2 DEF Grouped
<1>18. tag = IF a.tag = 0 THEN a.tags + 1 ELSE a.tag
  OBVIOUS
<1> HIDE DEF tag
<1>5. /\ b.shown \in Seq(Items) /\ Letters(b.shown) = Letters(a.shown)
      /\ Only(b.shown, Letter) = Only(a.shown, Letter)
  BY <1>1, <1>2, <1>4, WriteNumber
<1>6. /\ note \in Notes /\ note.tag = tag /\ note.after = now
  BY <1>3, <1>4 DEF Notes
<1> HIDE DEF note
<1>7. /\ b.notes \in Seq(Notes) /\ N \in Nat /\ DOMAIN b.notes = 1..(N+1) /\ DOMAIN a.notes = 1..N
      /\ b.notes[N+1] = note /\ \A n \in 1..N : b.notes[n] = a.notes[n]
  <2>1. a.notes \in Seq(Notes) /\ note \in Notes
    BY <1>1, <1>6
  <2>2. /\ Append(a.notes, note) \in Seq(Notes) /\ Len(Append(a.notes, note)) = N + 1
        /\ Append(a.notes, note)[N+1] = note /\ N \in Nat
        /\ \A n \in 1..N : Append(a.notes, note)[n] = a.notes[n]
        /\ DOMAIN Append(a.notes, note) = 1..(N+1) /\ DOMAIN a.notes = 1..N
    BY ONLY <2>1, AppendProperties
  <2> QED
    BY ONLY <1>2, <2>2
<1>8. b.cited \in Seq(Int)
  BY <1>1, <1>2
<1>9. b \in Answers
  <2>1. /\ b.shown \in Seq(Items) /\ b.tag \in Nat /\ b.tags \in Nat /\ b.notes \in Seq(Notes)
        /\ b.attached \in Seq(Keys) /\ b.cited \in Seq(Int)
    BY <1>1, <1>2, <1>4, <1>5, <1>7, <1>8
  <2> QED
    BY ONLY <1>19, <2>1 DEF Answers
<1>10. Len(Only(b.shown, Letter)) = now
  BY <1>5
<1>11. \A n \in 1..N : a.notes[n].after \in Nat /\ a.notes[n].tag \in Nat
  <2>1. \A n \in 1..N : a.notes[n] \in Notes
    BY <1>1, <1>7
  <2> QED
    BY <2>1 DEF Notes
<1> HIDE DEF now, N
<1>12. /\ a.tag \in {0, a.tags}
       /\ \A n \in 1..N :
            /\ a.notes[n].tag \in 1..a.tags
            /\ a.notes[n].after <= now
            /\ IF a.tag = 0 THEN a.notes[n].after < now
               ELSE a.notes[n].tag = a.tag <=> a.notes[n].after = now
       /\ \A m, n \in 1..N : a.notes[m].tag = a.notes[n].tag <=> a.notes[m].after = a.notes[n].after
  BY <1>7 DEF Grouped, now
<1>13. ASSUME NEW n \in 1..N
       PROVE  /\ b.notes[n].tag \in 1..b.tags /\ b.notes[n].after <= now
              /\ b.notes[n].tag = tag <=> b.notes[n].after = now
  <2>1. b.notes[n] = a.notes[n]
    BY <1>7
  <2>2. b.notes[n].tag \in 1..b.tags /\ b.notes[n].after <= now
    <3>1. a.notes[n].tag \in 1..a.tags /\ a.notes[n].after <= now
      BY ONLY <1>12, n \in 1..N
    <3>2. a.tags \in Nat /\ b.tags \in Nat /\ a.tags <= b.tags
      BY <1>1, <1>4
    <3> QED
      BY ONLY <2>1, <3>1, <3>2
  <2>3. CASE a.tag = 0
    <3>1. a.notes[n].tag <= a.tags /\ tag = a.tags + 1 /\ a.notes[n].after < now
      BY <1>1, <1>12, <1>18, <2>3
    <3>2. a.notes[n].tag \in Nat /\ a.notes[n].after \in Nat /\ now \in Nat /\ a.tags \in Nat
      BY <1>1, <1>3, <1>11
    <3>3. b.notes[n].tag # tag /\ b.notes[n].after # now
      BY ONLY <2>1, <3>1, <3>2
    <3> QED
      BY <2>2, <3>3
  <2>4. CASE a.tag # 0
    <3>1. tag = a.tag
      BY <1>18, <2>4
    <3> QED
      BY <1>12, <2>1, <2>2, <2>4, <3>1
  <2> QED
    BY <2>3, <2>4
<1>14. /\ b.notes[N+1].tag = tag /\ b.notes[N+1].after = now
       /\ b.notes[N+1].tag \in 1..b.tags /\ b.notes[N+1].after <= now
  BY <1>3, <1>4, <1>6, <1>7
<1>15. \A n \in DOMAIN b.notes : n \in 1..N \/ n = N + 1
  BY <1>7
<1>16. \A m, n \in DOMAIN b.notes :
         b.notes[m].tag = b.notes[n].tag <=> b.notes[m].after = b.notes[n].after
  <2> SUFFICES ASSUME NEW m \in DOMAIN b.notes, NEW n \in DOMAIN b.notes
               PROVE  b.notes[m].tag = b.notes[n].tag <=> b.notes[m].after = b.notes[n].after
    OBVIOUS
  <2>1. CASE m \in 1..N /\ n \in 1..N
    <3>1. b.notes[m] = a.notes[m] /\ b.notes[n] = a.notes[n]
      BY <1>7, <2>1
    <3> QED
      BY <1>12, <2>1, <3>1
  <2>2. CASE m = N + 1 \/ n = N + 1
    BY <1>13, <1>14, <1>15, <2>2
  <2> QED
    BY <1>15, <2>1, <2>2
<1>17. Grouped(b)
  <2>1. b.tag = tag /\ b.tag \in {0, b.tags} /\ b.tag # 0
    BY <1>2, <1>4
  <2>2. \A n \in DOMAIN b.notes :
          /\ b.notes[n].tag \in 1..b.tags /\ b.notes[n].after <= now
          /\ b.notes[n].tag = b.tag <=> b.notes[n].after = now
    BY <1>13, <1>14, <1>15, <2>1
  <2> QED
    BY <1>10, <1>16, <2>1, <2>2 DEF Grouped
<1> QED
  BY <1>2, <1>5, <1>9, <1>17

Attached(a, k) ==
  LET known == {n \in DOMAIN a.attached : a.attached[n] = Key(k)}
      attached == IF known = {} THEN Append(a.attached, Key(k)) ELSE a.attached
      number == IF known = {} THEN Len(attached) ELSE CHOOSE n \in known : TRUE
  IN [a EXCEPT !.attached = attached, !.shown = Append(@, Number(number)), !.cited = Append(@, k)]

LEMMA CiteAttachmentKeeps ==
  ASSUME NEW a \in Answers, NEW k \in DOMAIN Found, Grouped(a), Marked(a),
         NEW b, b = Attached(a, k)
  PROVE  /\ b \in Answers /\ Grouped(b) /\ Marked(b)
         /\ Letters(b.shown) = Letters(a.shown) /\ b.cited = Append(a.cited, k)
<1> DEFINE known == {n \in DOMAIN a.attached : a.attached[n] = Key(k)}
           attached == IF known = {} THEN Append(a.attached, Key(k)) ELSE a.attached
           number == IF known = {} THEN Len(attached) ELSE CHOOSE n \in known : TRUE
<1>1. /\ a.shown \in Seq(Items) /\ a.tag \in Nat /\ a.tags \in Nat /\ a.notes \in Seq(Notes)
      /\ a.attached \in Seq(Keys) /\ a.cited \in Seq(Int)
  BY DEF Answers
<1>2. /\ b.shown = Append(a.shown, Number(number)) /\ b.tags = a.tags /\ b.notes = a.notes
      /\ b.attached = attached /\ b.cited = Append(a.cited, k) /\ b.tag = a.tag
  BY DEF Answers, Attached
<1>19. b = [shown |-> b.shown, tag |-> b.tag, tags |-> b.tags, notes |-> b.notes,
            attached |-> b.attached, cited |-> b.cited]
  BY DEF Answers, Attached
<1>3. k \in Int /\ Key(k) \in Keys
  <2>1. Len(Found) \in Nat /\ DOMAIN Found = 1..Len(Found)
    BY AnsweringAssumption
  <2> QED
    BY <2>1 DEF Keys
<1> DEFINE N == Len(a.attached)
<1>4. N \in Nat /\ DOMAIN a.attached = 1..N
  BY <1>1
<1>5. /\ attached \in Seq(Keys) /\ number \in DOMAIN attached /\ number \in Int
      /\ attached[number] = Key(k)
      /\ \A n \in DOMAIN a.attached : n \in DOMAIN attached /\ attached[n] = a.attached[n]
      /\ \A m, n \in DOMAIN attached : attached[m] = attached[n] => m = n
  <2>1. \A m, n \in 1..N : a.attached[m] = a.attached[n] => m = n
    BY <1>4 DEF Marked
  <2>2. CASE known = {}
    <3>1. attached = Append(a.attached, Key(k)) /\ number = Len(attached)
      BY <2>2
    <3>2. /\ attached \in Seq(Keys) /\ Len(attached) = N + 1 /\ DOMAIN attached = 1..(N+1)
          /\ attached[N+1] = Key(k) /\ \A n \in 1..N : attached[n] = a.attached[n]
      <4> HIDE DEF Key
      <4> QED
        BY <1>1, <1>3, <3>1
    <3>3. \A n \in 1..N : attached[n] # Key(k)
      BY <1>4, <2>2, <3>2
    <3> HIDE DEF N
    <3>4. \A m, n \in 1..(N+1) : attached[m] = attached[n] => m = n
      <4> SUFFICES ASSUME NEW m \in 1..(N+1), NEW n \in 1..(N+1), attached[m] = attached[n]
                   PROVE  m = n
        OBVIOUS
      <4>1. (m \in 1..N \/ m = N+1) /\ (n \in 1..N \/ n = N+1)
        BY <1>4
      <4> QED
        BY <2>1, <3>2, <3>3, <4>1
    <3> QED
      BY <1>4, <3>1, <3>2, <3>4
  <2>3. CASE known # {}
    <3>1. attached = a.attached /\ number \in known
      BY <2>3
    <3>2. number \in 1..N /\ attached[number] = Key(k)
      BY <1>4, <3>1
    <3>3. a.attached \in Seq(Keys) /\ number \in Int
      BY <1>1, <1>4, <3>2
    <3> HIDE DEF N
    <3> QED
      BY ONLY <1>4, <2>1, <3>1, <3>2, <3>3
  <2> QED
    BY <2>2, <2>3
<1> HIDE DEF known, attached, number
<1>6. /\ b.shown \in Seq(Items) /\ Letters(b.shown) = Letters(a.shown)
      /\ Only(b.shown, Letter) = Only(a.shown, Letter)
      /\ Numbers(b.shown) = Append(Numbers(a.shown), Number(number))
      /\ Numbers(a.shown) \in Seq(Items)
  <2>1. number \in Int /\ a.shown \in Seq(Items) /\ b.shown = Append(a.shown, Number(number))
    BY <1>1, <1>2, <1>5
  <2> QED
    BY ONLY <2>1, WriteNumber
<1>7. b.cited \in Seq(Int) /\ Len(b.cited) = Len(a.cited) + 1 /\ Len(a.cited) \in Nat
      /\ b.cited[Len(a.cited) + 1] = k /\ \A n \in 1..Len(a.cited) : b.cited[n] = a.cited[n]
  BY <1>1, <1>2, <1>3
<1>8. b \in Answers
  <2>1. /\ b.shown \in Seq(Items) /\ b.tag \in Nat /\ b.tags \in Nat /\ b.notes \in Seq(Notes)
        /\ b.attached \in Seq(Keys) /\ b.cited \in Seq(Int)
    BY <1>1, <1>2, <1>5, <1>6, <1>7
  <2> QED
    BY ONLY <1>19, <2>1 DEF Answers
<1>9. Grouped(b)
  <2>1. /\ Only(b.shown, Letter) = Only(a.shown, Letter) /\ b.notes = a.notes
        /\ b.tag = a.tag /\ b.tags = a.tags
    BY <1>2, <1>6
  <2>2. Grouped(a)
    OBVIOUS
  <2> QED
    BY ONLY <2>1, <2>2 DEF Grouped
<1>10. Marked(b)
  <2> DEFINE x == Numbers(a.shown)
             y == Numbers(b.shown)
             M == Len(a.cited)
  <2>1. /\ Len(x) = M
        /\ \A n \in DOMAIN x : /\ x[n].number \in DOMAIN a.attached
                               /\ a.attached[x[n].number] = Key(a.cited[n])
    BY DEF Marked
  <2>2. x \in Seq(Items) /\ y = Append(x, Number(number)) /\ M \in Nat
    BY <1>6, <1>7
  <2> HIDE DEF x, y, M
  <2>3. Number(number) \in Items /\ Number(number).number = number
    BY <1>5 DEF Items, Number
  <2>4. /\ DOMAIN x = 1..M /\ Len(y) = M + 1 /\ DOMAIN y = 1..(M+1)
        /\ y[M+1] = Number(number) /\ \A n \in 1..M : y[n] = x[n]
    BY <2>1, <2>2, <2>3
  <2>5. Len(b.cited) = M + 1 /\ b.cited[M+1] = k /\ \A n \in 1..M : b.cited[n] = a.cited[n]
    BY <1>7 DEF M
  <2>6. ASSUME NEW n \in DOMAIN y
        PROVE  y[n].number \in DOMAIN attached /\ attached[y[n].number] = Key(b.cited[n])
    <3>1. n \in 1..M \/ n = M + 1
      BY <2>2, <2>4
    <3>2. CASE n \in 1..M
      <4>1. x[n].number \in DOMAIN a.attached /\ a.attached[x[n].number] = Key(a.cited[n])
        BY <2>1, <2>4, <3>2
      <4> QED
        BY ONLY <1>5, <2>4, <2>5, <3>2, <4>1
    <3>3. CASE n = M + 1
      BY ONLY <1>5, <2>3, <2>4, <2>5, <3>3
    <3> QED
      BY <3>1, <3>2, <3>3
  <2> QED
    BY ONLY <1>2, <1>5, <2>4, <2>5, <2>6 DEF Marked, y
<1> QED
  BY <1>2, <1>6, <1>8, <1>9, <1>10
----------------------------------------------------------------------------
(* The invariant. *)

Chatting == [pc : {"read", "share", "copy", "done", "failed"}, unread : Seq(Characters),
             held : Seq(Characters), items : Seq(Items), urls : SUBSET Docs]

TypesInv ==
  /\ present \subseteq Docs
  /\ opening \in Openings
  /\ chat \in [Chats -> Chatting]
  /\ answer \in [Chats -> Answers]

(* What a chat has sent fits its text and, by how it is answered, itself. *)
Fits(o, h, a) ==
  /\ Streaming(o.text, h.unread, h.held, h.items, a.shown, a.cited)
  /\ Grouped(a)
  /\ o.mode = "attachment" => Marked(a)

FitInv == \A c \in Chats : Fits(opening[c], chat[c], answer[c])

Sharing(c) == chat[c].pc \in {"share", "copy"}

(* A chat that shares has a citation to write, and the lock of its document. *)
LocksInv ==
  /\ locks \in [Docs -> Chats \union {NoOne}]
  /\ \A c \in Chats : Sharing(c) => chat[c].items # <<>> /\ InRange(Item(c))
  /\ \A d \in Docs, c \in Chats : locks[d] = c <=> (Sharing(c) /\ Doc(c) = d)

AnsweringInv == TypesInv /\ FitInv /\ LocksInv

(* The next item, when it is a reference to cite. *)
LEMMA NextItem ==
  ASSUME NEW items \in Seq(Items), items # <<>>, InRange(Head(items))
  PROVE  /\ Head(items).number + 1 \in DOMAIN Found /\ Head(items).number + 1 \in Int
         /\ Found[Head(items).number + 1].doc \in Docs
         /\ Tail(items) \in Seq(Items)
<1> DEFINE h == Head(items)
<1>1. h \in Items /\ Tail(items) \in Seq(Items)
  BY HeadTailProperties
<1>2. 0 <= h.number /\ h.number < Len(Found)
  BY DEF InRange
<1>3. Len(Found) \in Nat /\ DOMAIN Found = 1..Len(Found) /\ \A n \in DOMAIN Found : Found[n].doc \in Docs
  BY AnsweringAssumption
<1> HIDE DEF h
<1>4. h.number \in Int
  <2>1. (\E c \in Characters : h = Char(c)) \/ (\E n \in Int : h = Number(n))
    BY <1>1 DEF Items
  <2>2. \A c : Char(c).number = -1
    BY DEF Char
  <2>3. \A n : Number(n).number = n
    BY DEF Number
  <2>4. -1 \in Int
    OBVIOUS
  <2> QED
    BY <2>1, <2>2, <2>3, <2>4
<1>5. h.number + 1 \in DOMAIN Found
  BY <1>2, <1>3, <1>4
<1> QED
  BY <1>1, <1>3, <1>4, <1>5 DEF h

(* A step of one chat: the others stay as they are. *)
LEMMA OneChat ==
  ASSUME TypesInv, FitInv, NEW c \in Chats, NEW h \in Chatting, NEW a \in Answers,
         chat' = [chat EXCEPT ![c] = h], answer' = [answer EXCEPT ![c] = a],
         present' \subseteq Docs, opening' = opening, Fits(opening[c], h, a)
  PROVE  TypesInv' /\ FitInv'
<1>1. TypesInv'
  BY DEF TypesInv
<1>2. chat'[c] = h /\ answer'[c] = a
  BY DEF TypesInv
<1>3. \A x \in Chats : x # c => chat'[x] = chat[x] /\ answer'[x] = answer[x]
  BY DEF TypesInv
<1>4. ASSUME NEW x \in Chats PROVE Fits(opening'[x], chat'[x], answer'[x])
  <2>1. CASE x = c
    BY <1>2, <2>1
  <2>2. CASE x # c
    BY <1>3, <2>2 DEF FitInv
  <2> QED
    BY <2>1, <2>2
<1> QED
  BY <1>1, <1>4 DEF FitInv

LEMMA CiteKeeps ==
  ASSUME TypesInv, FitInv, NEW c \in Chats, chat[c].items # <<>>, InRange(Item(c)), Cite(c)
  PROVE  \E a \in Answers :
           /\ answer' = [answer EXCEPT ![c] = a]
           /\ \A h : h.unread = chat[c].unread /\ h.held = chat[c].held /\ h.items = Tail(chat[c].items)
                       => Fits(opening[c], h, a)
<1> DEFINE o == answer[c]
           k == Cited(c)
           items == chat[c].items
<1>1. /\ o \in Answers /\ chat[c] \in Chatting /\ items \in Seq(Items)
      /\ chat[c].unread \in Seq(Characters) /\ o.cited \in Seq(Int) /\ o.shown \in Seq(Items)
  BY DEF TypesInv, Chatting, Answers
<1>2. k = Head(items).number + 1 /\ k \in DOMAIN Found /\ k \in Int /\ InRange(Head(items)) /\ items # <<>>
  BY <1>1, NextItem DEF Cited, Item
<1>3. /\ Streaming(opening[c].text, chat[c].unread, chat[c].held, items, o.shown, o.cited)
      /\ Grouped(o)
      /\ opening[c].mode = "attachment" => Marked(o)
  BY DEF FitInv, Fits
<1>4. SUFFICES \E a \in Answers :
        /\ answer' = [answer EXCEPT ![c] = a] /\ Grouped(a)
        /\ opening[c].mode = "attachment" => Marked(a)
        /\ Letters(a.shown) = Letters(o.shown) /\ a.cited = Append(o.cited, k)
  <2> SUFFICES ASSUME NEW a \in Answers,
                      answer' = [answer EXCEPT ![c] = a], Grouped(a),
                      opening[c].mode = "attachment" => Marked(a),
                      Letters(a.shown) = Letters(o.shown), a.cited = Append(o.cited, k),
                      NEW h, h.unread = chat[c].unread, h.held = chat[c].held, h.items = Tail(items)
               PROVE  Fits(opening[c], h, a)
    OBVIOUS
  <2> HIDE DEF o, items
  <2>1. Streaming(opening[c].text, chat[c].unread, chat[c].held, Tail(items), a.shown,
                  Append(o.cited, Head(items).number + 1))
    BY <1>1, <1>2, <1>3, CiteStreams
  <2> QED
    BY <1>2, <2>1 DEF Fits
<1>5. CASE Mode(c) = "plain"
  <2> DEFINE b == [o EXCEPT !.shown = Append(@, Number(k)), !.cited = Append(@, k)]
  <2>1. answer' = [answer EXCEPT ![c] = b]
    BY <1>5 DEF Cite, CitePlain, TypesInv
  <2>2. b \in Answers /\ Grouped(b) /\ Letters(b.shown) = Letters(o.shown) /\ b.cited = Append(o.cited, k)
    <3> HIDE DEF o, k
    <3> QED
      BY <1>1, <1>2, <1>3, CitePlainKeeps
  <2> HIDE DEF b
  <2> QED
    BY <1>5, <2>1, <2>2 DEF Mode
<1>6. CASE Mode(c) = "annotation"
  <2> DEFINE b == Annotated(o, k)
  <2>1. answer' = [answer EXCEPT ![c] = b]
    BY <1>6 DEF Cite, CiteAnnotation, Annotated, TypesInv, Letter
  <2>2. b \in Answers /\ Grouped(b) /\ Letters(b.shown) = Letters(o.shown) /\ b.cited = Append(o.cited, k)
    <3> HIDE DEF o, k, b
    <3>1. b = Annotated(o, k)
      BY DEF b
    <3>2. o \in Answers /\ k \in Int /\ Grouped(o)
      BY ONLY <1>1, <1>2, <1>3
    <3> QED
      BY ONLY <3>1, <3>2, CiteAnnotationKeeps
  <2> HIDE DEF b
  <2> QED
    BY <1>6, <2>1, <2>2 DEF Mode
<1>7. CASE Mode(c) \notin {"plain", "annotation"}
  <2> DEFINE b == Attached(o, k)
  <2>1. answer' = [answer EXCEPT ![c] = b]
    BY <1>7 DEF Cite, CiteAttachment, Attached, TypesInv
  <2>2. Mode(c) = "attachment"
    <3>1. opening[c].mode \in Modes
      BY AnsweringAssumption DEF TypesInv
    <3> QED
      BY <1>7, <3>1 DEF Mode, Modes
  <2>3. /\ b \in Answers /\ Grouped(b) /\ Marked(b)
        /\ Letters(b.shown) = Letters(o.shown) /\ b.cited = Append(o.cited, k)
    <3>1. Marked(o)
      BY <1>3, <2>2 DEF Mode
    <3> HIDE DEF o, k
    <3> QED
      BY <1>1, <1>2, <1>3, <3>1, CiteAttachmentKeeps
  <2> HIDE DEF b
  <2> QED
    BY <2>1, <2>3
<1> QED
  BY <1>5, <1>6, <1>7

LEMMA InitHolds == Init => AnsweringInv
<1> SUFFICES ASSUME Init PROVE AnsweringInv
  OBVIOUS
<1> USE DEF Init
<1>1. TypesInv
  <2>1. \A c \in Chats : opening[c].text \in Seq(Characters)
    BY AnsweringAssumption
  <2>2. <<>> \in Seq(Characters) /\ <<>> \in Seq(Items) /\ <<>> \in Seq(Notes) /\ <<>> \in Seq(Keys)
        /\ <<>> \in Seq(Int)
    BY EmptySeq
  <2> HIDE DEF Items, Notes, Keys
  <2>3. chat \in [Chats -> Chatting]
    BY <2>1, <2>2 DEF Chatting
  <2>4. answer \in [Chats -> Answers]
    BY <2>2 DEF Answers
  <2> QED
    BY <2>3, <2>4 DEF TypesInv
<1>2. FitInv
  <2> SUFFICES ASSUME NEW c \in Chats PROVE Fits(opening[c], chat[c], answer[c])
    BY DEF FitInv
  <2> DEFINE text == opening[c].text
  <2>1. /\ chat[c].unread = text /\ chat[c].held = <<>> /\ chat[c].items = <<>>
        /\ answer[c].shown = <<>> /\ answer[c].cited = <<>> /\ answer[c].attached = <<>>
        /\ answer[c].notes = <<>> /\ answer[c].tag = 0 /\ answer[c].tags = 0
        /\ text \in Seq(Characters)
    BY AnsweringAssumption
  <2> HIDE DEF text, Init
  <2>2. Streaming(text, text, <<>>, <<>>, <<>>, <<>>)
    <3> DEFINE parsed == <<>>
    <3>1. parsed \in Seq(Characters) /\ Len(parsed) = 0 /\ text = (parsed \o <<>>) \o text
      BY <2>1
    <3>2. ~Torn(text, 0) /\ Refs(<<>>) = {}
      BY <2>1, NotTornAtEnds
    <3>3. Reading(parsed) = <<>>
      <4>1. Refs(parsed) = {}
        BY <3>2
      <4>2. Chars(parsed) = <<>>
        BY DEF Chars
      <4> QED
        BY <4>1, <4>2 DEF Reading
    <3>4. Letters(<<>>) = <<>> /\ Only(<<>>, {"item"}) = <<>> /\ <<>> \o <<>> = <<>>
      BY OnlyEmpty DEF Letters
    <3>5. Citations(<<>>) = <<>>
      BY DEF Citations
    <3> HIDE DEF parsed
    <3> QED
      BY ONLY <3>1, <3>2, <3>3, <3>4, <3>5 DEF Streaming
  <2>3. Grouped(answer[c])
    BY <2>1 DEF Grouped
  <2>4. Marked(answer[c])
    <3>1. Numbers(<<>>) = <<>> /\ Len(<<>>) = 0 /\ DOMAIN <<>> = {}
      BY OnlyEmpty DEF Numbers
    <3> QED
      BY <2>1, <3>1 DEF Marked
  <2> QED
    BY <2>1, <2>2, <2>3, <2>4 DEF Fits, text
<1>3. LocksInv
  BY AnsweringAssumption DEF LocksInv, Sharing, NoOne
<1> QED
  BY <1>1, <1>2, <1>3 DEF AnsweringInv

(* Receive, with the chat after it. *)
LEMMA ReceiveKeeps ==
  ASSUME TypesInv, FitInv, NEW c \in Chats, NEW size \in 1..Len(chat[c].unread), Receive(c, size)
  PROVE  /\ TypesInv' /\ FitInv'
         /\ \E h \in Chatting : chat' = [chat EXCEPT ![c] = h] /\ h.pc = "read"
<1> DEFINE o == chat[c]
           a == answer[c]
           text == opening[c].text
<1>1. /\ o \in Chatting /\ a \in Answers /\ o.unread \in Seq(Characters) /\ o.held \in Seq(Characters)
      /\ a.shown \in Seq(Items) /\ a.cited \in Seq(Int)
  BY DEF TypesInv, Chatting, Answers
<1>2. Fits(opening[c], o, a)
  BY DEF FitInv
<1>3. /\ o.pc = "read" /\ o.items = <<>> /\ present' = present /\ opening' = opening /\ answer' = answer
  BY DEF Receive
<1>4. PICK piece, sent :
         /\ piece = o.held \o SubSeq(o.unread, 1, size) /\ sent = SubSeq(piece, 1, Cut(piece))
         /\ chat' = [chat EXCEPT ![c].unread = SubSeq(@, size + 1, Len(@)),
                                 ![c].held = SubSeq(piece, Len(sent) + 1, Len(piece)),
                                 ![c].items = Reading(sent)]
  BY Zenon DEF Receive
<1> DEFINE rest == SubSeq(o.unread, size + 1, Len(o.unread))
           kept == SubSeq(piece, Len(sent) + 1, Len(piece))
           h == [o EXCEPT !.unread = rest, !.held = kept, !.items = Reading(sent)]
<1>5. chat' = [chat EXCEPT ![c] = h]
  BY <1>4 DEF TypesInv
<1>6. Letters(a.shown) \in Seq(Items) /\ Citations(a.cited) \in Seq(Items)
  BY <1>1, ItemsOnly, CitationsType
<1>7. /\ rest \in Seq(Characters) /\ kept \in Seq(Characters) /\ Reading(sent) \in Seq(Items)
      /\ Streaming(text, rest, kept, Reading(sent), a.shown, a.cited)
  <2>1. Streaming(text, o.unread, o.held, <<>>, a.shown, a.cited)
    BY <1>2, <1>3 DEF Fits
  <2> DEFINE unread == o.unread
             held == o.held
             shown == a.shown
             cited == a.cited
  <2>2. /\ unread \in Seq(Characters) /\ held \in Seq(Characters) /\ shown \in Seq(Items)
        /\ cited \in Seq(Int) /\ Letters(shown) \in Seq(Items) /\ Citations(cited) \in Seq(Items)
        /\ size \in 1..Len(unread) /\ Streaming(text, unread, held, <<>>, shown, cited)
        /\ piece = held \o SubSeq(unread, 1, size) /\ sent = SubSeq(piece, 1, Cut(piece))
    BY <1>1, <1>4, <1>6, <2>1
  <2> HIDE DEF unread, held, shown, cited, text
  <2>3. LET left == SubSeq(unread, size + 1, Len(unread))
            keep == SubSeq(piece, Len(sent) + 1, Len(piece))
        IN /\ left \in Seq(Characters) /\ keep \in Seq(Characters) /\ Reading(sent) \in Seq(Items)
           /\ Streaming(text, left, keep, Reading(sent), shown, cited)
    BY ONLY <2>2, ReceiveStreams
  <2> QED
    BY <2>3 DEF unread, shown, cited
<1> HIDE DEF rest, kept
<1>8. /\ h \in Chatting /\ h.pc = "read" /\ h.unread = rest /\ h.held = kept /\ h.items = Reading(sent)
  BY <1>1, <1>3, <1>7 DEF Chatting
<1> HIDE DEF h
<1>9. Fits(opening[c], h, a)
  BY <1>2, <1>7, <1>8 DEF Fits
<1>10. answer' = [answer EXCEPT ![c] = a] /\ present' \subseteq Docs
  BY <1>3 DEF TypesInv
<1>11. TypesInv' /\ FitInv'
  <2> HIDE DEF o, a
  <2> QED
    BY <1>1, <1>3, <1>5, <1>8, <1>9, <1>10, OneChat DEF a
<1> QED
  BY <1>5, <1>8, <1>11

LEMMA EndStreamKeeps ==
  ASSUME TypesInv, FitInv, NEW c \in Chats, EndStream(c)
  PROVE  /\ TypesInv' /\ FitInv'
         /\ \E h \in Chatting : chat' = [chat EXCEPT ![c] = h] /\ h.pc \in {"read", "done"}
<1> DEFINE o == chat[c]
           a == answer[c]
           text == opening[c].text
<1>1. /\ o \in Chatting /\ a \in Answers /\ o.unread \in Seq(Characters) /\ o.held \in Seq(Characters)
      /\ a.shown \in Seq(Items) /\ a.cited \in Seq(Int)
  BY DEF TypesInv, Chatting, Answers
<1>2. Fits(opening[c], o, a)
  BY DEF FitInv
<1>3. /\ o.pc = "read" /\ o.items = <<>> /\ o.unread = <<>>
      /\ present' = present /\ opening' = opening /\ answer' = answer
  BY DEF EndStream
<1>4. answer' = [answer EXCEPT ![c] = a] /\ present' \subseteq Docs
  BY <1>3 DEF TypesInv
<1>5. SUFFICES \E h \in Chatting :
         chat' = [chat EXCEPT ![c] = h] /\ h.pc \in {"read", "done"} /\ Fits(opening[c], h, a)
  <2> SUFFICES ASSUME NEW h \in Chatting, chat' = [chat EXCEPT ![c] = h], h.pc \in {"read", "done"},
                      Fits(opening[c], h, a)
               PROVE  TypesInv' /\ FitInv'
    OBVIOUS
  <2> HIDE DEF o, a
  <2> QED
    BY <1>1, <1>3, <1>4, OneChat DEF a
<1>6. CASE o.held = <<>>
  <2> DEFINE h == [o EXCEPT !.pc = "done"]
  <2>1. chat' = [chat EXCEPT ![c] = h]
    BY <1>6 DEF EndStream, TypesInv
  <2>2. /\ h \in Chatting /\ h.pc = "done"
        /\ h.unread = o.unread /\ h.held = o.held /\ h.items = o.items
    BY <1>1 DEF Chatting
  <2> HIDE DEF h
  <2>3. Fits(opening[c], h, a)
    BY <1>2, <2>2 DEF Fits
  <2> QED
    BY <2>1, <2>2, <2>3
<1>7. CASE o.held # <<>>
  <2> DEFINE h == [o EXCEPT !.held = <<>>, !.items = Chars(o.held)]
  <2>1. chat' = [chat EXCEPT ![c] = h]
    BY <1>7 DEF EndStream, TypesInv
  <2>2. Chars(o.held) \in Seq(Items) /\ <<>> \in Seq(Characters)
    BY <1>1, ReadingIs
  <2>3. /\ h \in Chatting /\ h.pc = "read"
        /\ h.unread = <<>> /\ h.held = <<>> /\ h.items = Chars(o.held)
    BY <1>1, <1>3, <2>2 DEF Chatting
  <2>4. Streaming(text, <<>>, <<>>, Chars(o.held), a.shown, a.cited)
    <3> DEFINE held == o.held
               shown == a.shown
               cited == a.cited
    <3>1. /\ held \in Seq(Characters) /\ shown \in Seq(Items) /\ cited \in Seq(Int)
          /\ Letters(shown) \in Seq(Items) /\ Citations(cited) \in Seq(Items)
          /\ Streaming(text, <<>>, held, <<>>, shown, cited)
      BY <1>1, <1>2, <1>3, ItemsOnly, CitationsType DEF Fits
    <3> HIDE DEF held, shown, cited, text
    <3>2. Streaming(text, <<>>, <<>>, Chars(held), shown, cited)
      BY ONLY <3>1, EndStreams
    <3> QED
      BY <3>2 DEF held, shown, cited
  <2> HIDE DEF h
  <2>5. Fits(opening[c], h, a)
    BY <1>2, <2>3, <2>4 DEF Fits
  <2> QED
    BY <2>1, <2>3, <2>5
<1> QED
  BY <1>6, <1>7

(* The items before the first reference in bounds. *)
LEMMA SentIs ==
  ASSUME NEW c, NEW items \in Seq(Items), items = chat[c].items
  PROVE  LET sent == Sent(c)
             rest == SubSeq(items, Len(sent) + 1, Len(items))
         IN /\ sent \in Seq(Items) /\ rest \in Seq(Items) /\ items = sent \o rest
            /\ \A n \in 1..Len(sent) : Sort(sent[n]) # "item"
<1> DEFINE stops == {n \in DOMAIN items : InRange(items[n])}
           first == CHOOSE n \in stops : \A m \in stops : n <= m
           k == IF stops = {} THEN Len(items) ELSE first - 1
<1>1. Len(items) \in Nat /\ DOMAIN items = 1..Len(items)
  OBVIOUS
<1>2. stops \in SUBSET Nat /\ \A n \in stops : n \in 1..Len(items)
  BY <1>1
<1>3. ASSUME stops # {} PROVE first \in stops /\ \A m \in stops : first <= m
  <2> HIDE DEF stops
  <2>1. \E n \in stops : \A m \in stops : n <= m
    BY <1>2, <1>3, LeastNumber
  <2> QED
    BY <2>1
<1>4. \A n \in 1..Len(items) : InRange(items[n]) => n \in stops
  BY <1>1
<1>5. Sent(c) = IF stops = {} THEN items ELSE SubSeq(items, 1, first - 1)
  BY DEF Sent
<1> HIDE DEF stops, first
<1>6. k \in 0..Len(items) /\ \A n \in 1..k : n \notin stops /\ n \in 1..Len(items)
  <2>1. CASE stops = {}
    BY <1>1, <2>1
  <2>2. CASE stops # {}
    <3>1. first \in 1..Len(items) /\ \A m \in stops : first <= m /\ m \in Nat
      BY <1>2, <1>3, <2>2
    <3> QED
      BY <1>1, <2>2, <3>1
  <2> QED
    BY <2>1, <2>2
<1>7. Sent(c) = SubSeq(items, 1, k)
  <2>1. SubSeq(items, 1, Len(items)) = items
    BY SubSeqFull
  <2> QED
    BY <1>5, <2>1
<1> HIDE DEF k
<1>8. /\ SubSeq(items, 1, k) \in Seq(Items) /\ Len(SubSeq(items, 1, k)) = k
      /\ \A i \in 1..k : SubSeq(items, 1, k)[i] = items[i]
      /\ SubSeq(items, k + 1, Len(items)) \in Seq(Items)
      /\ SubSeq(items, 1, k) \o SubSeq(items, k + 1, Len(items)) = items
  <2>1. items \in Seq(Items) /\ k \in 0..Len(items)
    BY <1>6
  <2> QED
    BY ONLY <2>1, Split
<1>9. \A x : Sort(x) = "item" => InRange(x)
  BY DEF Sort
<1>10. \A n \in 1..k : Sort(items[n]) # "item"
  BY <1>4, <1>6, <1>9
<1> QED
  BY <1>7, <1>8, <1>10

LEMMA AppendContentKeeps ==
  ASSUME TypesInv, FitInv, NEW c \in Chats, AppendContent(c)
  PROVE  /\ TypesInv' /\ FitInv'
         /\ \E h \in Chatting : chat' = [chat EXCEPT ![c] = h] /\ h.pc = "read"
<1> DEFINE o == chat[c]
           a == answer[c]
           sent == Sent(c)
           rest == SubSeq(o.items, Len(sent) + 1, Len(o.items))
           h == [o EXCEPT !.items = rest]
           b == Continued(a, sent)
<1>1. /\ o \in Chatting /\ a \in Answers /\ o.items \in Seq(Items) /\ a.shown \in Seq(Items)
  BY DEF TypesInv, Chatting, Answers
<1>2. Fits(opening[c], o, a)
  BY DEF FitInv
<1>3. o.pc = "read" /\ present' = present /\ opening' = opening
  BY DEF AppendContent, Send, Processing
<1>4. chat' = [chat EXCEPT ![c] = h] /\ answer' = [answer EXCEPT ![c] = b]
  BY DEF AppendContent, Send, Continued, TypesInv
<1>5. /\ sent \in Seq(Items) /\ rest \in Seq(Items) /\ o.items = sent \o rest
      /\ \A n \in 1..Len(sent) : Sort(sent[n]) # "item"
  BY <1>1, SentIs
<1>6. b \in Answers /\ Grouped(b) /\ (Marked(a) => Marked(b))
  <2>1. Grouped(a)
    BY <1>2 DEF Fits
  <2> HIDE DEF a, sent
  <2> QED
    BY <1>1, <1>5, <2>1, SendKeeps
<1>7. b.shown = a.shown \o Letters(sent) /\ b.cited = a.cited
  BY <1>1 DEF Answers, Continued
<1>8. /\ h \in Chatting /\ h.pc = "read" /\ h.unread = o.unread /\ h.held = o.held /\ h.items = rest
  BY <1>1, <1>3, <1>5 DEF Chatting
<1>9. Streaming(opening[c].text, o.unread, o.held, rest, a.shown \o Letters(sent), a.cited)
  <2>1. Streaming(opening[c].text, o.unread, o.held, o.items, a.shown, a.cited)
    BY <1>2 DEF Fits
  <2> DEFINE items == o.items
             shown == a.shown
  <2>2. /\ items \in Seq(Items) /\ shown \in Seq(Items) /\ sent \in Seq(Items) /\ rest \in Seq(Items)
        /\ items = sent \o rest /\ \A n \in 1..Len(sent) : Sort(sent[n]) # "item"
        /\ Streaming(opening[c].text, o.unread, o.held, items, shown, a.cited)
    BY <1>1, <1>5, <2>1
  <2> HIDE DEF items, shown, sent, rest, o, a
  <2>3. Streaming(opening[c].text, o.unread, o.held, rest, shown \o Letters(sent), a.cited)
    BY ONLY <2>2, SendStreams
  <2> QED
    BY <2>3 DEF shown
<1> HIDE DEF h, b, rest, sent
<1>10. Fits(opening[c], h, b)
  BY <1>2, <1>6, <1>7, <1>8, <1>9 DEF Fits
<1>11. TypesInv' /\ FitInv'
  <2>1. present' \subseteq Docs
    BY <1>3 DEF TypesInv
  <2> HIDE DEF o, a
  <2> QED
    BY <1>3, <1>4, <1>6, <1>8, <1>10, <2>1, OneChat
<1> QED
  BY <1>4, <1>8, <1>11

(* A step that only moves a chat to another place. *)
LEMMA MoveKeeps ==
  ASSUME TypesInv, FitInv, NEW c \in Chats, NEW pc \in {"read", "share", "copy", "done", "failed"},
         chat' = [chat EXCEPT ![c].pc = pc], UNCHANGED <<present, opening, answer>>
  PROVE  TypesInv' /\ FitInv'
<1> DEFINE o == chat[c]
           a == answer[c]
           h == [o EXCEPT !.pc = pc]
<1>1. o \in Chatting /\ a \in Answers /\ Fits(opening[c], o, a)
  BY DEF TypesInv, FitInv
<1>2. chat' = [chat EXCEPT ![c] = h] /\ answer' = [answer EXCEPT ![c] = a] /\ present' \subseteq Docs
  BY DEF TypesInv
<1>3. h \in Chatting /\ h.unread = o.unread /\ h.held = o.held /\ h.items = o.items
  BY <1>1 DEF Chatting
<1> HIDE DEF o, a, h
<1>4. Fits(opening[c], h, a)
  BY <1>1, <1>3 DEF Fits
<1> QED
  BY <1>1, <1>2, <1>3, <1>4, OneChat

(* A step that writes the next citation. *)
LEMMA CitationKeeps ==
  ASSUME TypesInv, FitInv, NEW c \in Chats, chat[c].items # <<>>, InRange(Item(c)), Cite(c),
         NEW h \in Chatting, chat' = [chat EXCEPT ![c] = h],
         h.unread = chat[c].unread, h.held = chat[c].held, h.items = Tail(chat[c].items)
  PROVE  TypesInv' /\ FitInv'
<1>1. PICK a \in Answers :
        /\ answer' = [answer EXCEPT ![c] = a]
        /\ \A g : g.unread = chat[c].unread /\ g.held = chat[c].held /\ g.items = Tail(chat[c].items)
                    => Fits(opening[c], g, a)
  BY CiteKeeps
<1>2. Fits(opening[c], h, a)
  BY <1>1
<1>3. present' \subseteq Docs /\ opening' = opening
  BY DEF Cite, TypesInv
<1> QED
  BY <1>1, <1>2, <1>3, OneChat

(* The locks: a chat that shares nothing, before and after.                 *)
LEMMA LocksStay ==
  ASSUME TypesInv, LocksInv, NEW c \in Chats, NEW h \in Chatting, chat' = [chat EXCEPT ![c] = h],
         ~Sharing(c), h.pc \notin {"share", "copy"}, locks' = locks
  PROVE  LocksInv'
<1>1. chat'[c] = h /\ \A x \in Chats : x # c => chat'[x] = chat[x]
  BY DEF TypesInv
<1>2. ~Sharing(c)'
  BY <1>1 DEF Sharing
<1>3. ASSUME NEW x \in Chats, x # c
      PROVE  /\ (Sharing(x)' <=> Sharing(x)) /\ chat'[x].items = chat[x].items
             /\ Item(x)' = Item(x) /\ Doc(x)' = Doc(x)
  BY <1>1, <1>3 DEF Sharing, Item, Doc, Cited
<1>4. \A x \in Chats : Sharing(x)' => chat'[x].items # <<>> /\ InRange(Item(x)')
  BY <1>2, <1>3 DEF LocksInv
<1>5. \A d \in Docs, x \in Chats : locks'[d] = x <=> (Sharing(x)' /\ Doc(x)' = d)
  BY <1>2, <1>3 DEF LocksInv
<1> QED
  BY <1>4, <1>5 DEF LocksInv, InRange

(* A chat that goes on sharing the same document.                           *)
LEMMA LocksKept ==
  ASSUME TypesInv, LocksInv, NEW c \in Chats, NEW h \in Chatting, chat' = [chat EXCEPT ![c] = h],
         Sharing(c), h.pc \in {"share", "copy"}, h.items = chat[c].items, locks' = locks
  PROVE  LocksInv'
<1>1. chat'[c] = h /\ \A x \in Chats : x # c => chat'[x] = chat[x]
  BY DEF TypesInv
<1>2. ASSUME NEW x \in Chats
      PROVE  /\ (Sharing(x)' <=> Sharing(x)) /\ chat'[x].items = chat[x].items
             /\ Item(x)' = Item(x) /\ Doc(x)' = Doc(x)
  <2>1. (Sharing(x)' <=> Sharing(x)) /\ chat'[x].items = chat[x].items
    BY <1>1 DEF Sharing
  <2> QED
    BY <2>1 DEF Item, Doc, Cited
<1> QED
  BY <1>2 DEF LocksInv, InRange

(* A lock that was free is taken.                                           *)
LEMMA LockTaken ==
  ASSUME TypesInv, LocksInv, NEW c \in Chats, LockUrl(c)
  PROVE  LocksInv'
<1> DEFINE h == [chat[c] EXCEPT !.pc = "share"]
           e == Doc(c)
<1>1. chat[c] \in Chatting /\ chat[c].items \in Seq(Items)
  BY DEF TypesInv, Chatting
<1>2. /\ chat[c].pc = "read" /\ chat[c].items # <<>> /\ InRange(Item(c))
      /\ locks[e] = NoOne /\ locks' = [locks EXCEPT ![e] = c] /\ chat' = [chat EXCEPT ![c].pc = "share"]
  BY DEF LockUrl, Processing
<1>3. e \in Docs
  BY <1>1, <1>2, NextItem DEF Doc, Cited, Item
<1>4. chat'[c] = h /\ \A x \in Chats : x # c => chat'[x] = chat[x]
  BY <1>2 DEF TypesInv
<1>5. h.pc = "share" /\ h.items = chat[c].items
  BY <1>1 DEF Chatting
<1> HIDE DEF h, e
<1>6. Sharing(c)' /\ chat'[c].items = chat[c].items /\ Item(c)' = Item(c) /\ Doc(c)' = e
  BY <1>4, <1>5 DEF Sharing, Item, Doc, Cited, e
<1>7. ASSUME NEW x \in Chats, x # c
      PROVE  /\ (Sharing(x)' <=> Sharing(x)) /\ chat'[x].items = chat[x].items
             /\ Item(x)' = Item(x) /\ Doc(x)' = Doc(x)
  BY <1>4, <1>7 DEF Sharing, Item, Doc, Cited
<1>8. ~Sharing(c) /\ NoOne \notin Chats
  BY <1>2, AnsweringAssumption DEF Sharing, NoOne
<1>9. /\ locks' \in [Docs -> Chats \union {NoOne}]
      /\ locks'[e] = c /\ \A d \in Docs : d # e => locks'[d] = locks[d]
  BY <1>2, <1>3 DEF LocksInv
<1>10. \A x \in Chats : Sharing(x)' => chat'[x].items # <<>> /\ InRange(Item(x)')
  BY <1>2, <1>6, <1>7 DEF LocksInv
<1>11. ASSUME NEW d \in Docs, NEW x \in Chats
       PROVE  locks'[d] = x <=> (Sharing(x)' /\ Doc(x)' = d)
  <2>0. locks[d] = x <=> (Sharing(x) /\ Doc(x) = d)
    BY DEF LocksInv
  <2>1. CASE x = c
    BY <1>6, <1>8, <1>9, <2>0, <2>1
  <2>2. CASE x # c /\ d = e
    BY <1>2, <1>7, <1>8, <1>9, <2>0, <2>2
  <2>3. CASE x # c /\ d # e
    <3>1. locks'[d] = locks[d]
      BY <1>9, <2>3
    <3>2. (Sharing(x)' <=> Sharing(x)) /\ Doc(x)' = Doc(x)
      BY <1>7, <2>3
    <3> QED
      BY ONLY <2>0, <3>1, <3>2
  <2> QED
    BY <2>1, <2>2, <2>3
<1> QED
  BY <1>9, <1>10, <1>11 DEF LocksInv, InRange

(* The lock is given back.                                                  *)
LEMMA LockFreed ==
  ASSUME TypesInv, LocksInv, NEW c \in Chats, NEW h \in Chatting, chat' = [chat EXCEPT ![c] = h],
         Sharing(c), h.pc \notin {"share", "copy"}, locks' = Unlocked(c)
  PROVE  LocksInv'
<1> DEFINE e == Doc(c)
<1>1. chat'[c] = h /\ \A x \in Chats : x # c => chat'[x] = chat[x]
  BY DEF TypesInv
<1>2. ~Sharing(c)' /\ NoOne \notin Chats
  BY <1>1, AnsweringAssumption DEF Sharing, NoOne
<1>3. ASSUME NEW x \in Chats, x # c
      PROVE  /\ (Sharing(x)' <=> Sharing(x)) /\ chat'[x].items = chat[x].items
             /\ Item(x)' = Item(x) /\ Doc(x)' = Doc(x)
  BY <1>1, <1>3 DEF Sharing, Item, Doc, Cited
<1>4. e \in Docs
  <2>1. chat[c].items \in Seq(Items) /\ chat[c].items # <<>> /\ InRange(Head(chat[c].items))
    BY DEF TypesInv, Chatting, LocksInv, Item
  <2> QED
    BY <2>1, NextItem DEF Doc, Cited, Item
<1>5. /\ locks' \in [Docs -> Chats \union {NoOne}]
      /\ locks'[e] = NoOne /\ \A d \in Docs : d # e => locks'[d] = locks[d]
  BY <1>4 DEF LocksInv, Unlocked
<1>6. locks[e] = c
  BY <1>4 DEF LocksInv
<1>7. \A x \in Chats : Sharing(x)' => chat'[x].items # <<>> /\ InRange(Item(x)')
  BY <1>2, <1>3 DEF LocksInv
<1> HIDE DEF e
<1>8. ASSUME NEW d \in Docs, NEW x \in Chats
      PROVE  locks'[d] = x <=> (Sharing(x)' /\ Doc(x)' = d)
  <2>0. locks[d] = x <=> (Sharing(x) /\ Doc(x) = d)
    BY DEF LocksInv
  <2>1. CASE x = c
    <3>1. locks'[d] # c
      <4>1. d # e => locks[d] # c
        BY DEF LocksInv, e
      <4> QED
        BY <1>2, <1>5, <4>1
    <3> QED
      BY <1>2, <2>1, <3>1
  <2>2. CASE x # c /\ d = e
    BY <1>2, <1>3, <1>5, <1>6, <2>0, <2>2
  <2>3. CASE x # c /\ d # e
    BY <1>3, <1>5, <2>0, <2>3
  <2> QED
    BY <2>1, <2>2, <2>3
<1> QED
  BY <1>5, <1>7, <1>8 DEF LocksInv, InRange

LEMMA NextKeeps == AnsweringInv /\ [Next]_vars => AnsweringInv'
<1> SUFFICES ASSUME AnsweringInv, [Next]_vars PROVE AnsweringInv'
  OBVIOUS
<1>0. TypesInv /\ FitInv /\ LocksInv
  BY DEF AnsweringInv
<1>1. ASSUME NEW c \in Chats, NEW size \in 1..Len(chat[c].unread), Receive(c, size)
      PROVE  AnsweringInv'
  <2>1. PICK h \in Chatting : chat' = [chat EXCEPT ![c] = h] /\ h.pc = "read"
    BY <1>0, <1>1, ReceiveKeeps
  <2>2. ~Sharing(c) /\ locks' = locks
    BY <1>1 DEF Receive, Sharing
  <2>3. LocksInv'
    BY <1>0, <2>1, <2>2, LocksStay
  <2> QED
    BY <1>0, <1>1, <2>3, ReceiveKeeps DEF AnsweringInv
<1>2. ASSUME NEW c \in Chats, EndStream(c) PROVE AnsweringInv'
  <2>1. PICK h \in Chatting : chat' = [chat EXCEPT ![c] = h] /\ h.pc \in {"read", "done"}
    BY <1>0, <1>2, EndStreamKeeps
  <2>2. ~Sharing(c) /\ locks' = locks
    BY <1>2 DEF EndStream, Sharing
  <2>3. LocksInv'
    BY <1>0, <2>1, <2>2, LocksStay
  <2> QED
    BY <1>0, <1>2, <2>3, EndStreamKeeps DEF AnsweringInv
<1>3. ASSUME NEW c \in Chats, AppendContent(c) PROVE AnsweringInv'
  <2>1. PICK h \in Chatting : chat' = [chat EXCEPT ![c] = h] /\ h.pc = "read"
    BY <1>0, <1>3, AppendContentKeeps
  <2>2. ~Sharing(c) /\ locks' = locks
    BY <1>3 DEF AppendContent, Send, Processing, Sharing
  <2>3. LocksInv'
    BY <1>0, <2>1, <2>2, LocksStay
  <2> QED
    BY <1>0, <1>3, <2>3, AppendContentKeeps DEF AnsweringInv
<1>4. ASSUME NEW c \in Chats, CiteShared(c) PROVE AnsweringInv'
  <2> DEFINE h == Took(c)
  <2>1. /\ chat[c].pc = "read" /\ chat[c].items # <<>> /\ InRange(Item(c)) /\ Cite(c)
        /\ chat' = [chat EXCEPT ![c] = h] /\ locks' = locks
    BY <1>4 DEF CiteShared, Processing
  <2>2. chat[c] \in Chatting /\ Tail(chat[c].items) \in Seq(Items)
    BY <1>0, <2>1, NextItem DEF TypesInv, Chatting, Item
  <2>3. /\ h \in Chatting /\ h.pc = "read" /\ h.unread = chat[c].unread /\ h.held = chat[c].held
        /\ h.items = Tail(chat[c].items)
    BY <2>2 DEF Took, Chatting
  <2> HIDE DEF h
  <2>4. TypesInv' /\ FitInv'
    BY <1>0, <2>1, <2>3, CitationKeeps
  <2>5. LocksInv'
    <3>1. ~Sharing(c)
      BY <2>1 DEF Sharing
    <3> QED
      BY <1>0, <2>1, <2>3, <3>1, LocksStay
  <2> QED
    BY <2>4, <2>5 DEF AnsweringInv
<1>5. ASSUME NEW c \in Chats, LockUrl(c) PROVE AnsweringInv'
  <2>1. chat' = [chat EXCEPT ![c].pc = "share"] /\ UNCHANGED <<present, opening, answer>>
    BY <1>5 DEF LockUrl
  <2> QED
    BY <1>0, <1>5, <2>1, MoveKeeps, LockTaken DEF AnsweringInv
<1>6. ASSUME NEW c \in Chats, FindDocument(c) PROVE AnsweringInv'
  <2>1. chat[c] \in Chatting /\ Sharing(c)
    BY <1>0, <1>6 DEF TypesInv, FindDocument, Sharing
  <2>2. CASE Doc(c) \in present
    <3> DEFINE h == [chat[c] EXCEPT !.pc = "copy"]
    <3>1. chat' = [chat EXCEPT ![c].pc = "copy"] /\ UNCHANGED <<present, opening, answer>> /\ locks' = locks
      BY <1>6, <2>2 DEF FindDocument
    <3>2. h \in Chatting /\ h.pc = "copy" /\ h.items = chat[c].items /\ chat' = [chat EXCEPT ![c] = h]
      BY <1>0, <2>1, <3>1 DEF Chatting, TypesInv
    <3> HIDE DEF h
    <3>3. LocksInv'
      BY <1>0, <2>1, <3>1, <3>2, LocksKept
    <3> QED
      BY <1>0, <3>1, <3>3, MoveKeeps DEF AnsweringInv
  <2>3. CASE Doc(c) \notin present
    <3> DEFINE h == [chat[c] EXCEPT !.pc = "failed"]
    <3>1. /\ chat' = [chat EXCEPT ![c].pc = "failed"] /\ UNCHANGED <<present, opening, answer>>
          /\ locks' = Unlocked(c)
      BY <1>6, <2>3 DEF FindDocument
    <3>2. h \in Chatting /\ h.pc = "failed" /\ chat' = [chat EXCEPT ![c] = h]
      BY <1>0, <2>1, <3>1 DEF Chatting, TypesInv
    <3> HIDE DEF h
    <3>3. LocksInv'
      BY <1>0, <2>1, <3>1, <3>2, LockFreed
    <3> QED
      BY <1>0, <3>1, <3>3, MoveKeeps DEF AnsweringInv
  <2> QED
    BY <2>2, <2>3
<1>7. ASSUME NEW c \in Chats, CopyToUser(c) PROVE AnsweringInv'
  <2>1. /\ chat[c] \in Chatting /\ Sharing(c) /\ locks' = Unlocked(c)
        /\ chat[c].items # <<>> /\ InRange(Item(c))
    BY <1>0, <1>7 DEF TypesInv, CopyToUser, Sharing, LocksInv
  <2>2. CASE Doc(c) \in present
    <3> DEFINE h == [Took(c) EXCEPT !.urls = @ \union {Doc(c)}]
    <3>1. chat' = [chat EXCEPT ![c] = h] /\ Cite(c)
      BY <1>7, <2>2 DEF CopyToUser
    <3>2. Tail(chat[c].items) \in Seq(Items) /\ Doc(c) \in Docs
      BY <1>0, <2>1, NextItem DEF TypesInv, Chatting, Item, Doc, Cited
    <3>3. /\ h \in Chatting /\ h.pc = "read" /\ h.unread = chat[c].unread /\ h.held = chat[c].held
          /\ h.items = Tail(chat[c].items)
      BY <2>1, <3>2 DEF Took, Chatting
    <3> HIDE DEF h
    <3>4. TypesInv' /\ FitInv'
      BY <1>0, <2>1, <3>1, <3>3, CitationKeeps
    <3>5. LocksInv'
      BY <1>0, <2>1, <3>1, <3>3, LockFreed
    <3> QED
      BY <3>4, <3>5 DEF AnsweringInv
  <2>3. CASE Doc(c) \notin present
    <3> DEFINE h == [chat[c] EXCEPT !.pc = "failed"]
    <3>1. chat' = [chat EXCEPT ![c].pc = "failed"] /\ UNCHANGED <<present, opening, answer>>
      BY <1>7, <2>3 DEF CopyToUser
    <3>2. h \in Chatting /\ h.pc = "failed" /\ chat' = [chat EXCEPT ![c] = h]
      BY <1>0, <2>1, <3>1 DEF Chatting, TypesInv
    <3> HIDE DEF h
    <3>3. LocksInv'
      BY <1>0, <2>1, <3>2, LockFreed
    <3> QED
      BY <1>0, <3>1, <3>3, MoveKeeps DEF AnsweringInv
  <2> QED
    BY <2>2, <2>3
<1>8. ASSUME NEW d \in Docs, DeleteDocument(d) PROVE AnsweringInv'
  <2>1. present' \subseteq Docs /\ UNCHANGED <<locks, opening, chat, answer>>
    BY <1>0, <1>8 DEF DeleteDocument, TypesInv
  <2> QED
    BY <1>0, <2>1 DEF AnsweringInv, TypesInv, FitInv, LocksInv, Sharing, Item, Doc, Cited, InRange
<1>9. CASE UNCHANGED vars
  BY <1>0, <1>9 DEF vars, AnsweringInv, TypesInv, FitInv, LocksInv, Sharing, Item, Doc, Cited, InRange
<1> QED
  BY <1>1, <1>2, <1>3, <1>4, <1>5, <1>6, <1>7, <1>8, <1>9 DEF Next, Step

(* The invariant, of every behaviour of the chats (utils.py, answers.py).   *)
THEOREM AnsweringInvCorrect == Spec => []AnsweringInv
<1>1. Init => AnsweringInv
  BY InitHolds
<1>2. AnsweringInv /\ [Next]_vars => AnsweringInv'
  BY NextKeeps
<1> QED
  BY <1>1, <1>2, PTL DEF Spec
----------------------------------------------------------------------------
(* The lock of a document's url (SharingManager.share_document) is held     *)
(* exactly while its chat shares that document: no chat holds a second one, *)
(* and one that ends or fails holds none.                                   *)
THEOREM TypeOKCorrect == Spec => []TypeOK
<1>1. AnsweringInv => TypeOK
  <2> SUFFICES ASSUME AnsweringInv PROVE TypeOK
    OBVIOUS
  <2>1. present \subseteq Docs
    BY DEF AnsweringInv, TypesInv
  <2>2. ASSUME NEW c \in Chats
        PROVE  /\ chat[c].pc \in {"read", "share", "copy", "done", "failed"}
               /\ chat[c].urls \subseteq Docs /\ answer[c].tag \in 0..answer[c].tags
    <3>1. chat[c] \in Chatting /\ answer[c] \in Answers /\ Grouped(answer[c])
      BY DEF AnsweringInv, TypesInv, FitInv, Fits
    <3>2. answer[c].tag \in Nat /\ answer[c].tags \in Nat /\ answer[c].tag \in {0, answer[c].tags}
      BY <3>1 DEF Answers, Grouped
    <3>3. answer[c].tag \in 0..answer[c].tags
      BY <3>2
    <3> QED
      BY <3>1, <3>3 DEF Chatting
  <2>3. \A d \in Docs, c \in Chats :
          locks[d] = c <=> (chat[c].pc \in {"share", "copy"} /\ Doc(c) = d)
    BY DEF AnsweringInv, LocksInv, Sharing
  <2> QED
    BY <2>1, <2>2, <2>3 DEF TypeOK
<1> QED
  BY <1>1, AnsweringInvCorrect, PTL

(* However the stream of the model is cut into pieces, what was sent, what  *)
(* waits and what is held back are what the text up to here reads as        *)
(* (ReferencesParser.atransform): no reference is torn, lost or sent twice. *)
THEOREM StreamMatchesTextCorrect == Spec => []StreamMatchesText
<1>1. AnsweringInv => StreamMatchesText
  <2> SUFFICES ASSUME AnsweringInv, NEW c \in Chats
               PROVE  LET text == opening[c].text
                          read == SubSeq(text, 1, Len(text) - Len(chat[c].unread))
                          rest == chat[c].items \o Chars(chat[c].held)
                      IN /\ Letters(answer[c].shown) \o Letters(rest) = Letters(Reading(read))
                         /\ Citations(answer[c].cited) \o Only(rest, {"item"})
                              = Only(Reading(read), {"item"})
    BY DEF StreamMatchesText, Citations
  <2> DEFINE text == opening[c].text
             unread == chat[c].unread
             held == chat[c].held
             items == chat[c].items
             shown == answer[c].shown
             cited == answer[c].cited
  <2>1. chat[c] \in Chatting /\ answer[c] \in Answers /\ Fits(opening[c], chat[c], answer[c])
    BY DEF AnsweringInv, TypesInv, FitInv
  <2>2. /\ unread \in Seq(Characters) /\ held \in Seq(Characters) /\ items \in Seq(Items)
        /\ shown \in Seq(Items) /\ cited \in Seq(Int)
        /\ Streaming(text, unread, held, items, shown, cited)
    BY <2>1 DEF Chatting, Answers, Fits
  <2> HIDE DEF text, unread, held, items, shown, cited
  <2>3. Citations(cited) \in Seq(Items)
    BY ONLY <2>2, CitationsType
  <2>4. Matches(text, unread, held, items, shown, cited)
    BY ONLY <2>2, <2>3, StreamingMatches
  <2> QED
    BY <2>4 DEF Matches, text, unread, held, items, shown, cited
<1> QED
  BY <1>1, AnsweringInvCorrect, PTL

(* A number in an answer with attachments (_cite_as_attachment) is that of  *)
(* the attachment of the page that was cited there, attached once.          *)
THEOREM MarksMatchCorrect == Spec => []MarksMatch
<1>1. AnsweringInv => MarksMatch
  BY DEF AnsweringInv, FitInv, Fits, MarksMatch, Marked, Mode
<1> QED
  BY <1>1, AnsweringInvCorrect, PTL

(* Citations share a tag (_cite_as_annotation, append_content) if and only  *)
(* if nothing but blanks stands between them.                               *)
THEOREM TagsFollowTextCorrect == Spec => []TagsFollowText
<1>1. AnsweringInv => TagsFollowText
  <2> SUFFICES ASSUME AnsweringInv, NEW c \in Chats
               PROVE  \A m, n \in DOMAIN answer[c].notes :
                        answer[c].notes[m].tag = answer[c].notes[n].tag
                          <=> answer[c].notes[m].after = answer[c].notes[n].after
    BY DEF TagsFollowText
  <2>1. Grouped(answer[c])
    BY DEF AnsweringInv, FitInv, Fits
  <2> QED
    BY <2>1 DEF Grouped
<1> QED
  BY <1>1, AnsweringInvCorrect, PTL
============================================================================
