---------------------------- MODULE ListsProofs -----------------------------
(***************************************************************************)
(* What Filtered returns, for every sequence: a sequence of elements of    *)
(* the given one, in their order, that has every element to be kept and no *)
(* other. Filtered is a recursive function; the induction that its         *)
(* unfolding needs is derived from the library's well-founded order on Nat.*)
(***************************************************************************)
EXTENDS Lists, SequencesExt, WellFoundedInduction, SequenceTheorems, TLAPS

\* The order of the natural numbers, as a set of pairs.
NatLess == {r \in Nat \X Nat : r[1] < r[2]}

\* Every set of natural numbers has a least one: the library states it for
\* another form of the same relation.
LEMMA NatLessIsWellFounded == IsWellFoundedOn(NatLess, Nat)
<1>1. OpToRel(<, Nat) = NatLess
  BY DEF OpToRel, NatLess
<1> QED BY <1>1, NatLessThanWellFounded

\* Induction on the natural numbers, as a statement about sets.
LEMMA Induction ==
  ASSUME NEW T \in SUBSET Nat, 0 \in T, \A n \in T : n + 1 \in T
  PROVE  T = Nat
<1> SUFFICES ASSUME Nat \ T # {} PROVE FALSE
  OBVIOUS
<1>1. PICK x \in Nat \ T : \A y \in Nat \ T : ~ (<<y, x>> \in NatLess)
  <2>1. Nat \ T \subseteq Nat
    OBVIOUS
  <2> QED BY <2>1, NatLessIsWellFounded, WFMin
<1>2. x # 0 /\ x - 1 \in Nat /\ x - 1 < x
  BY <1>1
<1>3. <<x - 1, x>> \in NatLess
  BY <1>1, <1>2 DEF NatLess
<1>4. x - 1 \in T
  BY <1>1, <1>2, <1>3
<1> QED BY <1>1, <1>2, <1>4

\* The same up to a bound, for the places of a sequence.
LEMMA UpTo ==
  ASSUME NEW m \in Nat, NEW T, 0 \in T, \A n \in 0 .. m : n < m /\ n \in T => n + 1 \in T
  PROVE  \A n \in 0 .. m : n \in T
<1> DEFINE U == {n \in Nat : n <= m => n \in T}
<1>1. 0 \in U
  OBVIOUS
<1>2. ASSUME NEW n \in U PROVE n + 1 \in U
  <2>1. n \in Nat /\ (n + 1 <= m => n \in 0 .. m /\ n < m)
    OBVIOUS
  <2> QED BY <2>1
<1>3. U \subseteq Nat
  OBVIOUS
<1> HIDE DEF U
<1>4. U = Nat
  BY <1>1, <1>2, <1>3, Induction
<1> QED BY <1>4 DEF U

\* What is kept of the first elements, with the next one, and after n of them.
Added(s, keep, g, i) == IF s[i] \in keep THEN Append(g, s[i]) ELSE g

Steps(s, keep, g, n) ==
  g[0] = <<>> /\ \A i \in 1 .. n : g[i] = Added(s, keep, g[i - 1], i)

\* There are such sequences: what is kept of the first 0, 1, ... elements.
LEMMA FirstsExist ==
  ASSUME NEW S, NEW s \in Seq(S), NEW keep
  PROVE  \E g \in [0 .. Len(s) -> Seq(S)] : Steps(s, keep, g, Len(s))
<1> DEFINE T == {n \in 0 .. Len(s) : \E g \in [0 .. n -> Seq(S)] : Steps(s, keep, g, n)}
<1>0. Len(s) \in Nat
  OBVIOUS
<1>1. 0 \in T
  <2> DEFINE g == [i \in 0 .. 0 |-> <<>>]
  <2>1. g \in [0 .. 0 -> Seq(S)]
    OBVIOUS
  <2>2. g[0] = <<>>
    OBVIOUS
  <2>3. 1 .. 0 = {}
    OBVIOUS
  <2> HIDE DEF g
  <2>4. Steps(s, keep, g, 0)
    BY <2>2, <2>3 DEF Steps
  <2> QED BY <1>0, <2>1, <2>4
<1>2. ASSUME NEW n \in 0 .. Len(s), n < Len(s), n \in T PROVE n + 1 \in T
  <2>1. n \in Nat /\ n <= Len(s) /\ n + 1 \in 0 .. Len(s) /\ s[n + 1] \in S
    BY <1>0, <1>2
  <2>2. PICK h \in [0 .. n -> Seq(S)] : Steps(s, keep, h, n)
    BY <1>2
  <2> DEFINE next == Added(s, keep, h[n], n + 1)
             g == [i \in 0 .. n + 1 |-> IF i = n + 1 THEN next ELSE h[i]]
  <2>3. next \in Seq(S)
    BY <2>1, <2>2 DEF Added
  <2> HIDE DEF next
  <2>4. g \in [0 .. n + 1 -> Seq(S)]
    BY <2>1, <2>2, <2>3
  <2>5. g[0] = <<>>
    BY <2>1, <2>2 DEF Steps
  <2>6. ASSUME NEW i \in 1 .. n + 1 PROVE g[i] = Added(s, keep, g[i - 1], i)
    <3>1. CASE i = n + 1
      <4>1. g[i] = next /\ g[i - 1] = h[n]
        BY <2>1, <3>1
      <4> QED BY <3>1, <4>1 DEF next
    <3>2. CASE i # n + 1
      <4>1. i \in 1 .. n /\ i - 1 \in 0 .. n /\ g[i] = h[i] /\ g[i - 1] = h[i - 1]
        BY <2>1, <3>2
      <4> QED BY <2>2, <4>1 DEF Steps
    <3> QED BY <3>1, <3>2
  <2> HIDE DEF g
  <2>7. Steps(s, keep, g, n + 1)
    BY <2>5, <2>6 DEF Steps
  <2> QED BY <2>1, <2>4, <2>7
<1> HIDE DEF T
<1>3. \A n \in 0 .. Len(s) : n < Len(s) /\ n \in T => n + 1 \in T
  BY <1>2
<1>4. \A n \in 0 .. Len(s) : n \in T
  BY <1>0, <1>1, <1>3, UpTo
<1>5. Len(s) \in T
  BY <1>0, <1>4
<1> QED BY <1>5 DEF T

\* What is defined recursively: the sequences kept of the first elements.
LEMMA FilteredIs ==
  ASSUME NEW S, NEW s \in Seq(S), NEW keep
  PROVE  \E g \in [0 .. Len(s) -> Seq(S)] :
           Steps(s, keep, g, Len(s)) /\ Filtered(s, keep) = g[Len(s)]
<1> DEFINE first[i \in 0 .. Len(s)] ==
             IF i = 0 THEN <<>>
             ELSE IF s[i] \in keep THEN Append(first[i - 1], s[i]) ELSE first[i - 1]
           F(g) == [i \in 0 .. Len(s) |->
                      IF i = 0 THEN <<>>
                      ELSE IF s[i] \in keep THEN Append(g[i - 1], s[i]) ELSE g[i - 1]]
<1>0. Len(s) \in Nat /\ \A i \in 0 .. Len(s) : i # 0 => i \in 1 .. Len(s)
  OBVIOUS
<1>1. PICK g \in [0 .. Len(s) -> Seq(S)] : Steps(s, keep, g, Len(s))
  <2> HIDE DEF first
  <2> QED BY FirstsExist
<1>2. g = F(g)
  <2>1. \A i \in 0 .. Len(s) : g[i] = F(g)[i]
    <3>1. ASSUME NEW i \in 0 .. Len(s), i = 0 PROVE g[i] = F(g)[i]
      BY <1>1, <3>1 DEF Steps
    <3>2. ASSUME NEW i \in 0 .. Len(s), i # 0 PROVE g[i] = F(g)[i]
      <4>1. i \in 1 .. Len(s)
        BY <1>0, <3>2
      <4> QED BY <1>1, <3>2, <4>1 DEF Added, Steps
    <3> QED BY <3>1, <3>2
  <2>2. F(g) = [i \in 0 .. Len(s) |-> F(g)[i]]
    OBVIOUS
  <2> HIDE DEF F
  <2> QED BY <1>1, <2>1, <2>2
<1>3. first = CHOOSE f : f = F(f)
  BY DEF first
<1>4. Filtered(s, keep) = first[Len(s)]
  BY DEF Filtered, first
<1> HIDE DEF first
<1>5. first = F(first)
  <2> HIDE DEF F
  <2> QED BY <1>2, <1>3
<1>6. /\ first = [i \in 0 .. Len(s) |-> first[i]]
      /\ first[0] = <<>>
      /\ \A i \in 1 .. Len(s) : first[i] = Added(s, keep, first[i - 1], i)
  <2>1. F(first) = [i \in 0 .. Len(s) |-> F(first)[i]]
    OBVIOUS
  <2>2. F(first)[0] = <<>>
    BY <1>0
  <2>3. \A i \in 1 .. Len(s) : F(first)[i] = Added(s, keep, first[i - 1], i)
    BY <1>0 DEF Added
  <2> HIDE DEF F
  <2> QED BY <1>5, <2>1, <2>2, <2>3
<1> HIDE DEF F
<1> DEFINE T == {i \in 0 .. Len(s) : first[i] \in Seq(S)}
<1>7. 0 \in T
  <2>1. first[0] = <<>>
    BY <1>6
  <2>2. <<>> \in Seq(S) /\ 0 \in 0 .. Len(s)
    BY <1>0
  <2> QED BY <2>1, <2>2
<1>8. ASSUME NEW n \in 0 .. Len(s), n < Len(s), n \in T PROVE n + 1 \in T
  <2>1. n + 1 \in 1 .. Len(s) /\ (n + 1) - 1 = n /\ s[n + 1] \in S
    BY <1>0, <1>8
  <2>2. first[n + 1] = Added(s, keep, first[n], n + 1)
    BY <1>6, <2>1
  <2>3. first[n + 1] \in Seq(S)
    BY <1>8, <2>1, <2>2 DEF Added
  <2>4. n + 1 \in 0 .. Len(s)
    BY <1>0, <1>8
  <2> QED BY <2>3, <2>4
<1> HIDE DEF T
<1>9. \A i \in 0 .. Len(s) : i \in T
  <2>1. \A n \in 0 .. Len(s) : n < Len(s) /\ n \in T => n + 1 \in T
    BY <1>8
  <2> QED BY <1>0, <1>7, <2>1, UpTo
<1>10. first \in [0 .. Len(s) -> Seq(S)]
  BY <1>6, <1>9 DEF T
<1> QED BY <1>4, <1>6, <1>10 DEF Steps

\* h gives the places in s of the elements of r, which are those of the first n
\* of s that are kept.
Picks(s, keep, r, h, n) ==
  /\ h \in [1 .. Len(r) -> 1 .. n]
  /\ \A k \in 1 .. Len(r) : r[k] = s[h[k]] /\ s[h[k]] \in keep
  /\ \A k, l \in 1 .. Len(r) : k < l => h[k] < h[l]
  /\ \A i \in 1 .. n : s[i] \in keep => \E k \in 1 .. Len(r) : h[k] = i

\* Going on to the next element.
LEMMA AddedPicks ==
  ASSUME NEW S, NEW s \in Seq(S), NEW keep, NEW n \in Nat, n < Len(s), NEW r \in Seq(S), NEW h,
         Picks(s, keep, r, h, n)
  PROVE  /\ Added(s, keep, r, n + 1) \in Seq(S)
         /\ \E j : Picks(s, keep, Added(s, keep, r, n + 1), j, n + 1)
<1>1. n + 1 \in 1 .. Len(s) /\ s[n + 1] \in S /\ Len(r) \in Nat
  OBVIOUS
<1>2. CASE s[n + 1] \notin keep
  <2>1. Added(s, keep, r, n + 1) = r
    BY <1>2 DEF Added
  <2>2. \A i \in 1 .. n + 1 : i \in 1 .. n \/ i = n + 1
    OBVIOUS
  <2>3. h \in [1 .. Len(r) -> 1 .. n + 1]
    BY DEF Picks
  <2>4. Picks(s, keep, r, h, n + 1)
    BY <1>2, <2>2, <2>3 DEF Picks
  <2> QED BY <2>1, <2>4
<1>3. CASE s[n + 1] \in keep
  <2> DEFINE q == Append(r, s[n + 1])
             j == [k \in 1 .. Len(r) + 1 |-> IF k = Len(r) + 1 THEN n + 1 ELSE h[k]]
  <2>1. Added(s, keep, r, n + 1) = q
    BY <1>3 DEF Added
  <2>2. /\ q \in Seq(S) /\ Len(q) = Len(r) + 1 /\ q[Len(r) + 1] = s[n + 1]
        /\ \A k \in 1 .. Len(r) : q[k] = r[k]
    BY <1>1
  <2>3. \A k \in 1 .. Len(r) + 1 : k \in 1 .. Len(r) \/ k = Len(r) + 1
    BY <1>1
  <2>4. /\ j[Len(r) + 1] = n + 1
        /\ \A k \in 1 .. Len(r) : j[k] = h[k] /\ h[k] \in 1 .. n
    BY <1>1 DEF Picks
  <2>5. j \in [1 .. Len(q) -> 1 .. n + 1]
    <3>1. ASSUME NEW k \in 1 .. Len(r) + 1 PROVE j[k] \in 1 .. n + 1
      <4> HIDE DEF j
      <4>1. CASE k = Len(r) + 1
        BY <2>4, <4>1
      <4>2. CASE k \in 1 .. Len(r)
        <5>1. j[k] \in 1 .. n
          BY <2>4, <4>2
        <5> QED BY <5>1
      <4> QED BY <2>3, <4>1, <4>2
    <3> QED BY <2>2, <3>1
  <2> HIDE DEF q, j
  <2>6. \A k \in 1 .. Len(q) : q[k] = s[j[k]] /\ s[j[k]] \in keep
    BY <1>3, <2>2, <2>3, <2>4 DEF Picks
  <2>7. ASSUME NEW k \in 1 .. Len(q), NEW l \in 1 .. Len(q), k < l
        PROVE  j[k] < j[l]
    <3>1. k \in 1 .. Len(r)
      BY <1>1, <2>2, <2>7
    <3>2. CASE l = Len(r) + 1
      <4>1. j[l] = n + 1 /\ j[k] \in 1 .. n
        BY <2>4, <3>1, <3>2
      <4> QED BY <4>1
    <3>3. CASE l \in 1 .. Len(r)
      BY <2>4, <2>7, <3>1, <3>3 DEF Picks
    <3> QED BY <2>2, <2>3, <3>2, <3>3
  <2>8. ASSUME NEW i \in 1 .. n + 1, s[i] \in keep PROVE \E k \in 1 .. Len(q) : j[k] = i
    <3>1. CASE i = n + 1
      <4>1. Len(r) + 1 \in 1 .. Len(q)
        BY <1>1, <2>2
      <4> QED BY <2>4, <3>1, <4>1
    <3>2. CASE i # n + 1
      <4>1. i \in 1 .. n
        BY <3>2
      <4>2. PICK k \in 1 .. Len(r) : h[k] = i
        BY <2>8, <4>1 DEF Picks
      <4>3. k \in 1 .. Len(q)
        BY <1>1, <2>2
      <4> QED BY <2>4, <4>2, <4>3
    <3> QED BY <3>1, <3>2
  <2>9. Picks(s, keep, q, j, n + 1)
    BY <2>5, <2>6, <2>7, <2>8 DEF Picks
  <2> QED BY <2>1, <2>2, <2>9
<1> QED BY <1>2, <1>3

\* What is kept: the elements that are to be kept, in their order.
LEMMA FilteredPicks ==
  ASSUME NEW S, NEW s \in Seq(S), NEW keep
  PROVE  /\ Filtered(s, keep) \in Seq(S)
         /\ \E h : Picks(s, keep, Filtered(s, keep), h, Len(s))
<1>0. Len(s) \in Nat
  OBVIOUS
<1>1. PICK g \in [0 .. Len(s) -> Seq(S)] :
        Steps(s, keep, g, Len(s)) /\ Filtered(s, keep) = g[Len(s)]
  BY FilteredIs
<1> DEFINE T == {n \in 0 .. Len(s) : \E h : Picks(s, keep, g[n], h, n)}
<1>2. 0 \in T
  <2>1. g[0] = <<>> /\ 0 \in 0 .. Len(s) /\ 1 .. 0 = {}
    BY <1>0, <1>1 DEF Steps
  <2>2. 1 .. Len(<<>>) = {}
    OBVIOUS
  <2>3. Picks(s, keep, <<>>, [k \in {} |-> 1], 0)
    BY <2>1, <2>2 DEF Picks
  <2> QED BY <2>1, <2>3
<1>3. ASSUME NEW n \in 0 .. Len(s), n < Len(s), n \in T PROVE n + 1 \in T
  <2>1. n \in Nat /\ n + 1 \in 1 .. Len(s) /\ (n + 1) - 1 = n /\ n + 1 \in 0 .. Len(s)
    BY <1>0, <1>3
  <2>2. g[n] \in Seq(S) /\ g[n + 1] = Added(s, keep, g[n], n + 1)
    BY <1>1, <2>1 DEF Steps
  <2>3. PICK h : Picks(s, keep, g[n], h, n)
    BY <1>3
  <2>4. \E j : Picks(s, keep, g[n + 1], j, n + 1)
    BY <1>3, <2>1, <2>2, <2>3, AddedPicks
  <2> QED BY <2>1, <2>4
<1> HIDE DEF T
<1>4. \A n \in 0 .. Len(s) : n \in T
  <2>1. \A n \in 0 .. Len(s) : n < Len(s) /\ n \in T => n + 1 \in T
    BY <1>3
  <2> QED BY <1>0, <1>2, <2>1, UpTo
<1>5. Len(s) \in 0 .. Len(s)
  BY <1>0
<1> QED BY <1>1, <1>4, <1>5 DEF T

\* What is kept of two lists is kept of them joined.
LEMMA FilteredConcat ==
  ASSUME NEW S, NEW s \in Seq(S), NEW t \in Seq(S), NEW keep
  PROVE  Filtered(s \o t, keep) = Filtered(s, keep) \o Filtered(t, keep)
<1>a. ASSUME NEW x \in Seq(S), NEW y \in Seq(S), NEW e \in S
      PROVE  Append(x \o y, e) = x \o Append(y, e)
  <2>1. x \o y \in Seq(S) /\ <<e>> \in Seq(S)
    OBVIOUS
  <2>2. Append(x \o y, e) = (x \o y) \o <<e>>
    BY <2>1, AppendIsConcat
  <2>3. Append(y, e) = y \o <<e>>
    BY AppendIsConcat
  <2>4. (x \o y) \o <<e>> = x \o (y \o <<e>>)
    BY <2>1, ConcatAssociative
  <2> QED BY <2>2, <2>3, <2>4
<1> DEFINE c == s \o t
<1>0. /\ Len(s) \in Nat /\ Len(t) \in Nat /\ c \in Seq(S) /\ Len(c) = Len(s) + Len(t)
      /\ \A i \in 1 .. Len(s) : c[i] = s[i]
      /\ \A i \in 1 .. Len(t) : c[Len(s) + i] = t[i]
  OBVIOUS
<1> HIDE DEF c
<1>1. PICK gs \in [0 .. Len(s) -> Seq(S)] :
        Steps(s, keep, gs, Len(s)) /\ Filtered(s, keep) = gs[Len(s)]
  BY FilteredIs
<1>2. PICK gt \in [0 .. Len(t) -> Seq(S)] :
        Steps(t, keep, gt, Len(t)) /\ Filtered(t, keep) = gt[Len(t)]
  BY FilteredIs
<1>3. PICK gc \in [0 .. Len(c) -> Seq(S)] :
        Steps(c, keep, gc, Len(c)) /\ Filtered(c, keep) = gc[Len(c)]
  <2>1. c \in Seq(S)
    BY <1>0
  <2> QED BY <2>1, FilteredIs
<1>4. gc[Len(s)] = gs[Len(s)]
  <2> DEFINE T == {n \in 0 .. Len(s) : gc[n] = gs[n]}
  <2>1. 0 \in T
    BY <1>0, <1>1, <1>3 DEF Steps
  <2>2. ASSUME NEW n \in 0 .. Len(s), n < Len(s), n \in T PROVE n + 1 \in T
    <3>1. /\ n + 1 \in 1 .. Len(s) /\ n + 1 \in 1 .. Len(c) /\ (n + 1) - 1 = n
          /\ n + 1 \in 0 .. Len(s)
      BY <1>0, <2>2
    <3>2. gc[n + 1] = Added(c, keep, gc[n], n + 1)
      BY <1>3, <3>1 DEF Steps
    <3>3. gs[n + 1] = Added(s, keep, gs[n], n + 1)
      BY <1>1, <3>1 DEF Steps
    <3>4. c[n + 1] = s[n + 1]
      BY <1>0, <3>1
    <3> QED BY <2>2, <3>1, <3>2, <3>3, <3>4 DEF Added
  <2> HIDE DEF T
  <2>3. \A n \in 0 .. Len(s) : n \in T
    <3>1. \A n \in 0 .. Len(s) : n < Len(s) /\ n \in T => n + 1 \in T
      BY <2>2
    <3> QED BY <1>0, <2>1, <3>1, UpTo
  <2>4. Len(s) \in 0 .. Len(s)
    BY <1>0
  <2> QED BY <2>3, <2>4 DEF T
<1>5. gc[Len(s) + Len(t)] = gs[Len(s)] \o gt[Len(t)]
  <2> DEFINE T == {n \in 0 .. Len(t) : gc[Len(s) + n] = gs[Len(s)] \o gt[n]}
  <2>0. gs[Len(s)] \in Seq(S) /\ \A n \in 0 .. Len(t) : gt[n] \in Seq(S)
    <3>1. Len(s) \in 0 .. Len(s)
      BY <1>0
    <3>2. gs[Len(s)] \in Seq(S)
      BY <1>1, <3>1
    <3> QED BY <1>2, <3>2
  <2>1. 0 \in T
    <3>1. gt[0] = <<>> /\ 0 \in 0 .. Len(t) /\ Len(s) + 0 = Len(s)
      BY <1>0, <1>2 DEF Steps
    <3>2. gs[Len(s)] \o <<>> = gs[Len(s)]
      BY <2>0, ConcatEmptySeq
    <3> QED BY <1>4, <3>1, <3>2
  <2>2. ASSUME NEW n \in 0 .. Len(t), n < Len(t), n \in T PROVE n + 1 \in T
    <3>1. /\ n + 1 \in 1 .. Len(t) /\ Len(s) + (n + 1) \in 1 .. Len(c) /\ (n + 1) - 1 = n
          /\ (Len(s) + (n + 1)) - 1 = Len(s) + n /\ n + 1 \in 0 .. Len(t)
      BY <1>0, <2>2
    <3>2. gc[Len(s) + (n + 1)] = Added(c, keep, gc[Len(s) + n], Len(s) + (n + 1))
      BY <1>3, <3>1 DEF Steps
    <3>3. gt[n + 1] = Added(t, keep, gt[n], n + 1)
      BY <1>2, <3>1 DEF Steps
    <3>4. c[Len(s) + (n + 1)] = t[n + 1] /\ t[n + 1] \in S
      BY <1>0, <3>1
    <3>5. gc[Len(s) + n] = gs[Len(s)] \o gt[n]
      BY <2>2
    <3>6. Append(gs[Len(s)] \o gt[n], t[n + 1]) = gs[Len(s)] \o Append(gt[n], t[n + 1])
      <4>1. gt[n] \in Seq(S)
        BY <2>0, <2>2
      <4>3. gs[Len(s)] \in Seq(S) /\ t[n + 1] \in S
        BY <2>0, <3>4
      <4> QED BY <1>a, <4>1, <4>3, Zenon
    <3> QED BY <3>1, <3>2, <3>3, <3>4, <3>5, <3>6 DEF Added
  <2> HIDE DEF T
  <2>3. \A n \in 0 .. Len(t) : n \in T
    <3>1. \A n \in 0 .. Len(t) : n < Len(t) /\ n \in T => n + 1 \in T
      BY <2>2
    <3> QED BY <1>0, <2>1, <3>1, UpTo
  <2>4. Len(t) \in 0 .. Len(t)
    BY <1>0
  <2> QED BY <2>3, <2>4 DEF T
<1> QED BY <1>0, <1>1, <1>2, <1>3, <1>5 DEF c

\* A list of which nothing is to be kept, and one of which all is.
LEMMA FilteredNothing ==
  ASSUME NEW S, NEW s \in Seq(S), NEW keep, \A i \in 1 .. Len(s) : s[i] \notin keep
  PROVE  Filtered(s, keep) = <<>>
<1> DEFINE r == Filtered(s, keep)
<1>1. r \in Seq(S) /\ \E h : Picks(s, keep, r, h, Len(s))
  BY FilteredPicks
<1> HIDE DEF r
<1>2. \A k \in 1 .. Len(r) : FALSE
  BY <1>1 DEF Picks
<1>3. Len(r) = 0
  BY <1>1, <1>2
<1> QED BY <1>1, <1>3 DEF r

\* A list of which all is to be kept.
LEMMA FilteredAll ==
  ASSUME NEW S, NEW s \in Seq(S), NEW keep, \A i \in 1 .. Len(s) : s[i] \in keep
  PROVE  Filtered(s, keep) = s
<1>0. Len(s) \in Nat
  OBVIOUS
<1>1. PICK g \in [0 .. Len(s) -> Seq(S)] :
        Steps(s, keep, g, Len(s)) /\ Filtered(s, keep) = g[Len(s)]
  BY FilteredIs
<1> DEFINE T == {n \in 0 .. Len(s) : g[n] = SubSeq(s, 1, n)}
<1>2. 0 \in T
  <2>1. SubSeq(s, 1, 0) = <<>>
    OBVIOUS
  <2> QED BY <1>0, <1>1, <2>1 DEF Steps
<1>3. ASSUME NEW n \in 0 .. Len(s), n < Len(s), n \in T PROVE n + 1 \in T
  <2>1. n + 1 \in 1 .. Len(s) /\ (n + 1) - 1 = n /\ n + 1 \in 0 .. Len(s) /\ s[n + 1] \in S
    BY <1>0, <1>3
  <2>2. g[n + 1] = Append(g[n], s[n + 1])
    BY <1>1, <2>1 DEF Steps, Added
  <2>3. SubSeq(s, 1, n + 1) = Append(SubSeq(s, 1, n), s[n + 1])
    BY <1>0, <1>3, <2>1
  <2> QED BY <1>3, <2>1, <2>2, <2>3
<1> HIDE DEF T
<1>4. \A n \in 0 .. Len(s) : n \in T
  <2>1. \A n \in 0 .. Len(s) : n < Len(s) /\ n \in T => n + 1 \in T
    BY <1>3
  <2> QED BY <1>0, <1>2, <2>1, UpTo
<1>5. Len(s) \in 0 .. Len(s)
  BY <1>0
<1>6. SubSeq(s, 1, Len(s)) = s
  OBVIOUS
<1> QED BY <1>1, <1>4, <1>5, <1>6 DEF T

\* What is known of a filtered list wherever its order does not matter.
LEMMA ListFiltered ==
  ASSUME NEW S, NEW s \in Seq(S), NEW keep
  PROVE  /\ Filtered(s, keep) \in Seq(S)
         /\ ToSet(Filtered(s, keep)) = ToSet(s) \cap keep
         /\ IsInjective(s) => IsInjective(Filtered(s, keep))
<1> DEFINE r == Filtered(s, keep)
<1>1. r \in Seq(S) /\ \E h : Picks(s, keep, r, h, Len(s))
  BY FilteredPicks
<1> HIDE DEF r
<1>2. PICK h : Picks(s, keep, r, h, Len(s))
  BY <1>1
<1>3. DOMAIN r = 1 .. Len(r) /\ DOMAIN s = 1 .. Len(s) /\ Len(r) \in Nat /\ Len(s) \in Nat
  BY <1>1
<1>4. ToSet(r) = ToSet(s) \cap keep
  <2>1. ASSUME NEW k \in 1 .. Len(r) PROVE r[k] \in ToSet(s) \cap keep
    <3>1. h[k] \in DOMAIN s
      BY <1>2, <1>3 DEF Picks
    <3> QED BY <1>2, <3>1 DEF Picks, ToSet
  <2>2. ASSUME NEW i \in 1 .. Len(s), s[i] \in keep PROVE s[i] \in ToSet(r)
    <3>1. PICK k \in 1 .. Len(r) : h[k] = i
      BY <1>2, <2>2 DEF Picks
    <3>2. r[k] = s[i]
      BY <1>2, <3>1 DEF Picks
    <3> QED BY <1>3, <3>2 DEF ToSet
  <2> QED BY <1>3, <2>1, <2>2 DEF ToSet
<1>5. ASSUME IsInjective(s) PROVE IsInjective(r)
  <2> SUFFICES ASSUME NEW k \in 1 .. Len(r), NEW l \in 1 .. Len(r), r[k] = r[l]
               PROVE  k = l
    BY <1>3 DEF IsInjective
  <2>1. h[k] \in DOMAIN s /\ h[l] \in DOMAIN s /\ s[h[k]] = s[h[l]]
    BY <1>2, <1>3 DEF Picks
  <2>2. h[k] = h[l]
    BY <1>5, <2>1 DEF IsInjective
  <2>3. ~(k < l) /\ ~(l < k)
    <3>1. h[k] \in Nat
      BY <1>3, <2>1
    <3>2. k < l => h[k] < h[l]
      BY <1>2 DEF Picks
    <3>3. l < k => h[l] < h[k]
      BY <1>2 DEF Picks
    <3> QED BY <2>2, <3>1, <3>2, <3>3
  <2> QED BY <1>3, <2>3
<1> QED BY <1>1, <1>4, <1>5 DEF r

\* Three facts about what is in a list: with one more, without the first, and
\* of two joined.
LEMMA ListAppended ==
  ASSUME NEW S, NEW s \in Seq(S), NEW e \in S
  PROVE  /\ Append(s, e) \in Seq(S)
         /\ ToSet(Append(s, e)) = ToSet(s) \cup {e}
<1> DEFINE r == Append(s, e)
<1>1. /\ r \in Seq(S) /\ Len(r) = Len(s) + 1 /\ Len(s) \in Nat
      /\ r[Len(s) + 1] = e /\ \A i \in 1 .. Len(s) : r[i] = s[i]
      /\ DOMAIN r = 1 .. Len(s) + 1 /\ DOMAIN s = 1 .. Len(s)
  OBVIOUS
<1> HIDE DEF r
<1>2. /\ \A i \in 1 .. Len(s) + 1 : i \in 1 .. Len(s) \/ i = Len(s) + 1
      /\ \A i \in 1 .. Len(s) : i \in 1 .. Len(s) + 1
      /\ Len(s) + 1 \in 1 .. Len(s) + 1
  BY <1>1
<1>3. ToSet(r) = ToSet(s) \cup {e}
  BY <1>1, <1>2 DEF ToSet
<1> QED BY <1>1, <1>3 DEF r

\* What is in a list is its first element and what is in the rest.
LEMMA FirstAndRest ==
  ASSUME NEW S, NEW s \in Seq(S), s # <<>>
  PROVE  /\ Head(s) \in S /\ Tail(s) \in Seq(S)
         /\ ToSet(s) = {Head(s)} \cup ToSet(Tail(s))
<1> DEFINE r == Tail(s)
<1>1. /\ Len(s) \in Nat \ {0} /\ DOMAIN s = 1 .. Len(s) /\ Head(s) = s[1] /\ Head(s) \in S
      /\ r \in Seq(S) /\ Len(r) = Len(s) - 1 /\ \A i \in 1 .. Len(s) - 1 : r[i] = s[i + 1]
      /\ DOMAIN r = 1 .. Len(s) - 1
  OBVIOUS
<1> HIDE DEF r
<1>2. 1 \in DOMAIN s /\ \A i \in 1 .. Len(s) - 1 : i + 1 \in DOMAIN s
  BY <1>1
<1>3. \A i \in DOMAIN s : i = 1 \/ (i - 1 \in 1 .. Len(s) - 1 /\ (i - 1) + 1 = i)
  BY <1>1
<1>4. ToSet(r) \subseteq ToSet(s) /\ Head(s) \in ToSet(s)
  BY <1>1, <1>2 DEF ToSet
<1>5. ASSUME NEW i \in DOMAIN s PROVE s[i] \in {Head(s)} \cup ToSet(r)
  BY <1>1, <1>3 DEF ToSet
<1>6. ToSet(s) \subseteq {Head(s)} \cup ToSet(r)
  BY <1>5 DEF ToSet
<1> QED BY <1>1, <1>4, <1>6 DEF r

\* What is in two lists joined is in one of them.
LEMMA ListsJoined ==
  ASSUME NEW S, NEW s \in Seq(S), NEW t \in Seq(S)
  PROVE  s \o t \in Seq(S) /\ ToSet(s \o t) = ToSet(s) \cup ToSet(t)
<1> DEFINE r == s \o t
<1>1. /\ r \in Seq(S) /\ DOMAIN r = 1 .. Len(s) + Len(t)
      /\ Len(s) \in Nat /\ Len(t) \in Nat /\ DOMAIN s = 1 .. Len(s) /\ DOMAIN t = 1 .. Len(t)
      /\ \A i \in 1 .. Len(s) : r[i] = s[i]
      /\ \A i \in 1 .. Len(t) : r[Len(s) + i] = t[i]
  OBVIOUS
<1> HIDE DEF r
<1>2. /\ \A i \in 1 .. Len(s) : i \in DOMAIN r
      /\ \A i \in 1 .. Len(t) : Len(s) + i \in DOMAIN r
      /\ \A i \in DOMAIN r : \/ i \in 1 .. Len(s)
                             \/ i - Len(s) \in 1 .. Len(t) /\ i = Len(s) + (i - Len(s))
  BY <1>1
<1>3. ToSet(s) \subseteq ToSet(r) /\ ToSet(t) \subseteq ToSet(r)
  BY <1>1, <1>2 DEF ToSet
<1>4. ASSUME NEW i \in DOMAIN r PROVE r[i] \in ToSet(s) \cup ToSet(t)
  <2>1. CASE i \in 1 .. Len(s)
    BY <1>1, <2>1 DEF ToSet
  <2>2. CASE i - Len(s) \in 1 .. Len(t) /\ i = Len(s) + (i - Len(s))
    <3>1. r[i] = t[i - Len(s)]
      BY <1>1, <2>2
    <3> QED BY <1>1, <2>2, <3>1 DEF ToSet
  <2> QED BY <1>2, <2>1, <2>2
<1>5. ToSet(r) \subseteq ToSet(s) \cup ToSet(t)
  BY <1>4 DEF ToSet
<1> QED BY <1>1, <1>3, <1>5 DEF r
=============================================================================
