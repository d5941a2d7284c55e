------------------------------ MODULE SeqLemmas ------------------------------
(***************************************************************************)
(* What the proofs about queues and rings keep needing: which elements the *)
(* operators on sequences keep, and that a set of naturals has a least     *)
(* element, from which properties of recursive functions follow.           *)
(***************************************************************************)
EXTENDS Integers, Sequences, SequenceTheorems, WellFoundedInduction, TLAPS

\* the elements of a sequence
Held(s) == {s[k] : k \in DOMAIN s}

-----------------------------------------------------------------------------
\* A nonempty set of naturals has a least element.
LEMMA LeastNat ==
    ASSUME NEW S \in SUBSET Nat, S # {}
    PROVE  \E x \in S : \A y \in S : x <= y
  <1> DEFINE R == OpToRel(<, Nat)
  <1>1. IsWellFoundedOn(R, Nat)
    BY NatLessThanWellFounded
  <1>2. R = {ss \in Nat \X Nat : ss[1] < ss[2]}
    BY DEF OpToRel
  <1> HIDE DEF R
  <1>3. PICK x \in S : \A y \in S : ~(<<y, x>> \in R)
    BY <1>1, WFMin
  <1>4. ASSUME NEW y \in S PROVE x <= y
    <2>1. ~(<<y, x>> \in {ss \in Nat \X Nat : ss[1] < ss[2]})
      BY <1>2, <1>3
    <2> QED BY <2>1
  <1> QED BY <1>4

\* What the first value of a run of values has, and every step keeps, each has.
LEMMA Climb ==
    ASSUME NEW N \in Nat, NEW V, NEW g, g[0] \in V, \A k \in 1 .. N : g[k - 1] \in V => g[k] \in V
    PROVE  \A k \in 0 .. N : g[k] \in V
  <1> DEFINE Bad == {k \in Nat : k <= N /\ g[k] \notin V}
  <1>1. SUFFICES ASSUME Bad # {} PROVE FALSE
    OBVIOUS
  <1>2. PICK n \in Bad : \A m \in Bad : n <= m
    <2>1. Bad \subseteq Nat
      OBVIOUS
    <2> HIDE DEF Bad
    <2> QED BY <1>1, <2>1, LeastNat
  <1>3. n # 0 /\ n \in 1 .. N /\ n - 1 \in Nat /\ n - 1 <= N
    BY <1>2
  <1>4. n - 1 \notin Bad
    BY <1>2, <1>3
  <1>5. g[n - 1] \in V
    BY <1>3, <1>4
  <1> QED BY <1>2, <1>3, <1>5

\* g starts at a and follows st for n steps
Follows(g, a, st, n) == g = [k \in 0 .. n |-> IF k = 0 THEN a ELSE st[<<k, g[k - 1]>>]]

\* A function that takes each value from the one before exists.
LEMMA Iterated ==
    ASSUME NEW N \in Nat, NEW V, NEW a \in V, NEW st \in [(1 .. N) \X V -> V]
    PROVE  \E g \in [0 .. N -> V] : Follows(g, a, st, N)
  <1> DEFINE Bad == {n \in Nat : n <= N /\ ~\E g \in [0 .. n -> V] : Follows(g, a, st, n)}
  <1>1. SUFFICES ASSUME Bad # {} PROVE FALSE
    OBVIOUS
  <1>2. PICK n \in Bad : \A m \in Bad : n <= m
    <2>1. Bad \subseteq Nat
      OBVIOUS
    <2> HIDE DEF Bad
    <2> QED BY <1>1, <2>1, LeastNat
  <1>3. CASE n = 0
    <2>1. Follows([k \in 0 .. 0 |-> a], a, st, 0)
      BY DEF Follows
    <2>2. [k \in 0 .. 0 |-> a] \in [0 .. 0 -> V]
      OBVIOUS
    <2> QED BY <1>2, <1>3, <2>1, <2>2
  <1>4. CASE n # 0
    <2>1. n \in 1 .. N /\ n - 1 \in Nat /\ n - 1 <= N /\ n - 1 \notin Bad
      BY <1>2, <1>4
    <2>2. PICK g \in [0 .. (n - 1) -> V] : Follows(g, a, st, n - 1)
      BY <2>1
    <2> DEFINE x == st[<<n, g[n - 1]>>]
               h == [k \in 0 .. n |-> IF k = n THEN x ELSE g[k]]
    <2>3. x \in V
      BY <2>1, <2>2
    <2>4. h \in [0 .. n -> V]
      BY <2>1, <2>2, <2>3
    <2>5. ASSUME NEW k \in 0 .. n PROVE h[k] = IF k = 0 THEN a ELSE st[<<k, h[k - 1]>>]
      <3> HIDE DEF x
      <3>1. CASE k = n
        <4>1. h[k] = x /\ h[k - 1] = g[n - 1]
          BY <2>1, <3>1
        <4> QED BY <1>4, <3>1, <4>1 DEF x
      <3>2. CASE k # n
        <4>1. k \in 0 .. (n - 1) /\ h[k] = g[k] /\ (k # 0 => h[k - 1] = g[k - 1])
          BY <2>1, <3>2
        <4>2. g[k] = IF k = 0 THEN a ELSE st[<<k, g[k - 1]>>]
          BY <2>2, <4>1 DEF Follows
        <4> QED BY <4>1, <4>2
      <3> QED BY <3>1, <3>2
    <2>6. h = [k \in 0 .. n |-> h[k]]
      OBVIOUS
    <2> HIDE DEF h
    <2>7. Follows(h, a, st, n)
      BY <2>5, <2>6 DEF Follows
    <2>8. n \notin Bad
      BY <2>4, <2>7
    <2> QED BY <1>2, <2>8
  <1> QED BY <1>3, <1>4

\* g starts at a, counted from 1, and follows st for n values
FollowsFrom1(g, a, st, n) == g = [i \in 1 .. n |-> IF i = 1 THEN a ELSE st[<<i, g[i - 1]>>]]

\* Such a run of values exists as well.
LEMMA Counted ==
    ASSUME NEW N \in Nat, NEW V, NEW a \in V, NEW st \in [(1 .. N) \X V -> V]
    PROVE  \E g \in [1 .. N -> V] : FollowsFrom1(g, a, st, N)
  <1>1. CASE N = 0
    <2> DEFINE g == [i \in 1 .. N |-> a]
    <2>1. g \in [1 .. N -> V]
      OBVIOUS
    <2>2. 1 .. N = {}
      BY <1>1
    <2>3. FollowsFrom1(g, a, st, N)
      BY <2>2 DEF FollowsFrom1
    <2> QED BY <2>1, <2>3
  <1>2. CASE N # 0
    <2> DEFINE sh == [x \in (1 .. (N - 1)) \X V |-> st[<<x[1] + 1, x[2]>>]]
    <2>1. N - 1 \in Nat
      BY <1>2
    <2>2. sh \in [(1 .. (N - 1)) \X V -> V]
      BY <1>2
    <2>3. PICK h \in [0 .. (N - 1) -> V] : Follows(h, a, sh, N - 1)
      <3> HIDE DEF sh
      <3> QED BY <2>1, <2>2, Iterated
    <2> DEFINE g == [i \in 1 .. N |-> h[i - 1]]
    <2>4. g \in [1 .. N -> V]
      BY <2>3
    <2>5. ASSUME NEW i \in 1 .. N PROVE g[i] = IF i = 1 THEN a ELSE st[<<i, g[i - 1]>>]
      <3>1. i - 1 \in 0 .. (N - 1) /\ g[i] = h[i - 1]
        OBVIOUS
      <3>2. h[i - 1] = IF i - 1 = 0 THEN a ELSE sh[<<i - 1, h[(i - 1) - 1]>>]
        BY <2>3, <3>1 DEF Follows
      <3>3. CASE i = 1
        BY <3>1, <3>2, <3>3
      <3>4. CASE i # 1
        <4>1. i - 1 \in 1 .. (N - 1) /\ (i - 1) - 1 \in 0 .. (N - 1) /\ i - 1 \in 1 .. N
          BY <3>4
        <4>2. h[(i - 1) - 1] \in V
          BY <2>3, <4>1
        <4>3. <<i - 1, h[(i - 1) - 1]>> \in (1 .. (N - 1)) \X V
          BY <4>1, <4>2
        <4>4. sh[<<i - 1, h[(i - 1) - 1]>>] = st[<<(i - 1) + 1, h[(i - 1) - 1]>>]
          BY <4>3
        <4>5. g[i - 1] = h[(i - 1) - 1] /\ (i - 1) + 1 = i /\ i - 1 # 0
          BY <3>4, <4>1
        <4> HIDE DEF sh, g
        <4> QED BY <3>1, <3>2, <3>4, <4>4, <4>5
      <3> QED BY <3>3, <3>4
    <2>6. g = [i \in 1 .. N |-> g[i]]
      OBVIOUS
    <2> HIDE DEF g
    <2>7. FollowsFrom1(g, a, st, N)
      BY <2>5, <2>6 DEF FollowsFrom1
    <2> QED BY <2>4, <2>7
  <1> QED BY <1>1, <1>2

\* What the first of them has, and every step keeps, each has.
LEMMA ClimbFrom1 ==
    ASSUME NEW N \in Nat, NEW V, NEW g, g[1] \in V, \A i \in 2 .. N : g[i - 1] \in V => g[i] \in V
    PROVE  \A i \in 1 .. N : g[i] \in V
  <1> DEFINE h == [k \in 0 .. N |-> g[k + 1]]
  <1>1. CASE N = 0
    BY <1>1
  <1>2. CASE N # 0
    <2>1. N - 1 \in Nat
      BY <1>2
    <2>2. h[0] \in V
      <3>1. h[0] = g[0 + 1] /\ 0 + 1 = 1
        OBVIOUS
      <3> QED BY <3>1
    <2>3. ASSUME NEW k \in 1 .. (N - 1), h[k - 1] \in V PROVE h[k] \in V
      <3>1. k - 1 \in 0 .. N /\ k \in 0 .. N /\ k + 1 \in 2 .. N /\ (k - 1) + 1 = k /\ (k + 1) - 1 = k
        OBVIOUS
      <3>2. h[k - 1] = g[k] /\ h[k] = g[k + 1]
        BY <3>1
      <3> HIDE DEF h
      <3> QED BY <2>3, <3>1, <3>2
    <2>4. \A k \in 0 .. (N - 1) : h[k] \in V
      <3> HIDE DEF h
      <3> QED BY <2>1, <2>2, <2>3, Climb
    <2>5. ASSUME NEW i \in 1 .. N PROVE g[i] \in V
      <3>1. i - 1 \in 0 .. (N - 1) /\ i - 1 \in 0 .. N /\ (i - 1) + 1 = i
        OBVIOUS
      <3>2. h[i - 1] = g[i]
        BY <3>1
      <3> HIDE DEF h
      <3> QED BY <2>4, <3>1, <3>2
    <2> QED BY <2>5
  <1> QED BY <1>1, <1>2

-----------------------------------------------------------------------------
\* Appending adds one element, at the end of a queue.
LEMMA HeldAppend ==
    ASSUME NEW S, NEW s \in Seq(S), NEW x \in S
    PROVE  Append(s, x) \in Seq(S) /\ Held(Append(s, x)) = Held(s) \cup {x}
  <1>1. Append(s, x) \in Seq(S) /\ DOMAIN Append(s, x) = 1 .. (Len(s) + 1) /\ DOMAIN s = 1 .. Len(s)
    BY AppendProperties, LenProperties
  <1>2. \A k \in 1 .. (Len(s) + 1) : Append(s, x)[k] = IF k = Len(s) + 1 THEN x ELSE s[k]
    BY AppendProperties, LenProperties
  <1>3. Held(Append(s, x)) \subseteq Held(s) \cup {x}
    BY <1>1, <1>2, LenProperties DEF Held
  <1>4. ASSUME NEW k \in DOMAIN s PROVE s[k] \in Held(Append(s, x))
    BY <1>1, <1>2, LenProperties DEF Held
  <1>5. x \in Held(Append(s, x))
    BY <1>1, <1>2, LenProperties DEF Held
  <1> QED BY <1>1, <1>3, <1>4, <1>5 DEF Held

\* The head of a queue is one of its elements, and taking it adds none.
LEMMA HeldTail ==
    ASSUME NEW S, NEW s \in Seq(S), s # <<>>
    PROVE  /\ Head(s) \in S /\ Head(s) \in Held(s)
           /\ Tail(s) \in Seq(S) /\ Held(Tail(s)) \subseteq Held(s)
  <1>1. /\ Head(s) \in S /\ Tail(s) \in Seq(S) /\ Head(s) = s[1]
        /\ Len(s) \in Nat /\ Len(s) > 0 /\ Len(Tail(s)) = Len(s) - 1
        /\ \A i \in 1 .. Len(Tail(s)) : Tail(s)[i] = s[i + 1]
    BY HeadTailProperties, EmptySeq, LenProperties
  <1>2. DOMAIN s = 1 .. Len(s) /\ DOMAIN Tail(s) = 1 .. (Len(s) - 1)
    BY <1>1, LenProperties
  <1>3. Head(s) \in Held(s)
    BY <1>1, <1>2 DEF Held
  <1>4. ASSUME NEW k \in DOMAIN Tail(s) PROVE Tail(s)[k] \in Held(s)
    BY <1>1, <1>2 DEF Held
  <1> QED BY <1>1, <1>3, <1>4 DEF Held

\* Two queues joined hold what either held.
LEMMA HeldConcat ==
    ASSUME NEW S, NEW s \in Seq(S), NEW t \in Seq(S)
    PROVE  s \o t \in Seq(S) /\ Held(s \o t) = Held(s) \cup Held(t)
  <1>1. /\ s \o t \in Seq(S) /\ Len(s \o t) = Len(s) + Len(t) /\ Len(s) \in Nat /\ Len(t) \in Nat
        /\ \A i \in 1 .. (Len(s) + Len(t)) : (s \o t)[i] = IF i <= Len(s) THEN s[i] ELSE t[i - Len(s)]
    BY ConcatProperties, LenProperties
  <1>2. DOMAIN s = 1 .. Len(s) /\ DOMAIN t = 1 .. Len(t) /\ DOMAIN (s \o t) = 1 .. (Len(s) + Len(t))
    BY <1>1, LenProperties
  <1>3. Held(s \o t) \subseteq Held(s) \cup Held(t)
    BY <1>1, <1>2 DEF Held
  <1>4. ASSUME NEW k \in DOMAIN s PROVE s[k] \in Held(s \o t)
    BY <1>1, <1>2 DEF Held
  <1>5. ASSUME NEW k \in DOMAIN t PROVE t[k] \in Held(s \o t)
    <2>1. (k + Len(s)) \in 1 .. (Len(s) + Len(t)) /\ (s \o t)[k + Len(s)] = t[k]
      BY <1>1, <1>2
    <2> QED BY <1>2, <2>1 DEF Held
  <1> QED BY <1>1, <1>3, <1>4, <1>5 DEF Held

\* A part of a queue holds nothing else.
LEMMA HeldSub ==
    ASSUME NEW S, NEW s \in Seq(S), NEW m \in Int, NEW n \in Int, 1 <= m, n <= Len(s)
    PROVE  SubSeq(s, m, n) \in Seq(S) /\ Held(SubSeq(s, m, n)) \subseteq Held(s)
  <1>1. Len(s) \in Nat /\ DOMAIN s = 1 .. Len(s)
    BY LenProperties
  <1>2. CASE m <= n
    <2>1. m \in 1 .. (Len(s) + 1) /\ n \in (m - 1) .. Len(s)
      BY <1>1, <1>2
    <2>2. /\ SubSeq(s, m, n) \in Seq(S) /\ Len(SubSeq(s, m, n)) = n - m + 1
          /\ \A i \in 1 .. (n - m + 1) : SubSeq(s, m, n)[i] = s[m + i - 1]
      BY <2>1, SubSeqProperties
    <2>3. DOMAIN SubSeq(s, m, n) = 1 .. (n - m + 1)
      BY <2>2, LenProperties
    <2>4. \A i \in 1 .. (n - m + 1) : m + i - 1 \in 1 .. Len(s)
      BY <1>1, <1>2
    <2> QED BY <1>1, <2>2, <2>3, <2>4 DEF Held
  <1>3. CASE m > n
    <2>1. SubSeq(s, m, n) = <<>>
      BY <1>3, SubSeqEmpty
    <2> QED BY <2>1 DEF Held
  <1> QED BY <1>2, <1>3

\* The empty queue.
LEMMA HeldNone ==
    ASSUME NEW S
    PROVE  <<>> \in Seq(S) /\ Held(<<>>) = {}
  BY DEF Held

\* A queue of one.
LEMMA HeldOne ==
    ASSUME NEW S, NEW x \in S
    PROVE  <<x>> \in Seq(S) /\ Held(<<x>>) = {x}
  BY DEF Held

\* Every element of a sequence over S is in S.
LEMMA HeldIn ==
    ASSUME NEW S, NEW s \in Seq(S)
    PROVE  Held(s) \subseteq S
  BY ElementOfSeq, LenProperties DEF Held

\* A function over the places of a sequence is one.
LEMMA SameLength ==
    ASSUME NEW S, NEW T, NEW s \in Seq(S), NEW t, t = [k \in DOMAIN s |-> t[k]], \A k \in DOMAIN s : t[k] \in T
    PROVE  t \in Seq(T) /\ DOMAIN t = DOMAIN s
  <1>1. Len(s) \in Nat /\ DOMAIN s = 1 .. Len(s)
    BY LenProperties
  <1>2. t \in [1 .. Len(s) -> T]
    BY <1>1
  <1> QED BY <1>1, <1>2, SeqDef

\* A sequence is one over any set that has its elements.
LEMMA SeqOver ==
    ASSUME NEW S, NEW T, NEW s \in Seq(S), Held(s) \subseteq T
    PROVE  s \in Seq(T)
  <1>1. Len(s) \in Nat /\ DOMAIN s = 1 .. Len(s) /\ s = [i \in 1 .. Len(s) |-> s[i]]
    BY LenProperties
  <1>2. s \in [1 .. Len(s) -> T]
    BY <1>1 DEF Held
  <1> QED BY <1>1, <1>2, SeqDef

=============================================================================
