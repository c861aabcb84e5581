----------------------------- MODULE MergeProofs ----------------------------
(***************************************************************************)
(* A cue merge that nothing disturbs is verified, for any plans, fixtures  *)
(* and cues: what its commands do to a console that does as it is told     *)
(* agrees with what the export is compared with.                           *)
(*                                                                         *)
(* The commands of a plan are a row of blocks, each of which clears the    *)
(* programmer, fills it and stores or creates something (Cov).  While they *)
(* are sent                                                                *)
(*   - the programmer holds what the block has put there (Doing),          *)
(*   - the show keeps what the plan does not name (Kept),                  *)
(*   - the cues whose blocks are past hold what the blocks called (Called) *)
(*   - and what the plan creates is there once it was created (Made).      *)
(* So every command is accepted, and at the end the show matches.          *)
(***************************************************************************)
EXTENDS DesignProofs, WellFoundedInduction

-----------------------------------------------------------------------------
(* Sequences made of sequences.                                             *)

\* A set of numbers has a least one: its beginnings are ordered by inclusion.
LEMMA LeastNumber ==
    ASSUME NEW S \in SUBSET Nat, S # {} PROVE \E n \in S : \A k \in S : n <= k
<1>1. PICK m \in S : TRUE
  OBVIOUS
<1> DEFINE upTo(n) == S \cap (0..n)
           Starts  == {upTo(n) : n \in {k \in S : k <= m}}
           Less    == StrictSubsetOrdering(0..m)
<1>2. IsWellFoundedOn(Less, SUBSET (0..m))
  <2>1. IsFiniteSet(0..m)
    BY FS_Interval
  <2> QED BY <2>1, FS_FiniteSubsetsOfFinite, FS_StrictSubsetOrderingWellFounded
<1>3. Starts \subseteq SUBSET (0..m) /\ Starts # {}
  <2>1. m \in {k \in S : k <= m}
    OBVIOUS
  <2>2. \A n \in {k \in S : k <= m} : upTo(n) \in SUBSET (0..m)
    OBVIOUS
  <2> QED BY <2>1, <2>2
<1> HIDE DEF Starts, Less
<1>4. PICK x \in Starts : \A y \in Starts : ~(<<y, x>> \in Less)
  BY <1>2, <1>3, WFMin
<1>5. PICK n \in S : n <= m /\ x = upTo(n)
  BY <1>4 DEF Starts
<1>6. ASSUME NEW k \in S, k < n PROVE FALSE
  <2>1. upTo(k) \in Starts
    BY <1>5, <1>6 DEF Starts
  <2>2. upTo(k) \subseteq upTo(n) /\ n \in upTo(n) /\ n \notin upTo(k)
    BY <1>6
  <2>3. <<upTo(k), x>> \in Less
    BY <1>3, <1>4, <1>5, <2>1, <2>2 DEF Less, StrictSubsetOrdering
  <2> QED BY <1>4, <2>1, <2>3
<1> QED BY <1>5, <1>6

\* What holds of 0 and passes on holds of every number up to n.
LEMMA Upward ==
    ASSUME NEW n \in Nat, NEW S, 0 \in S, \A k \in 0..(n - 1) : k \in S => k + 1 \in S
    PROVE  \A k \in 0..n : k \in S
<1> SUFFICES ASSUME NEW m \in 0..n, m \notin S PROVE FALSE
  OBVIOUS
<1> DEFINE Bad == (0..n) \ S
<1>1. PICK l \in Bad : \A k \in Bad : l <= k
  <2>1. Bad \in SUBSET Nat /\ Bad # {}
    OBVIOUS
  <2> HIDE DEF Bad
  <2> QED BY <2>1, LeastNumber
<1>2. l \in 1..n /\ l - 1 \in 0..(n - 1) /\ l - 1 \notin Bad
  BY <1>1
<1>3. l - 1 \in S
  BY <1>2
<1>4. (l - 1) + 1 \in S /\ (l - 1) + 1 = l
  BY <1>2, <1>3
<1> QED BY <1>1, <1>4

\* The members of w are those of s that follow its k-th.
Win(w, s, k) ==
    k \in Nat /\ k + Len(w) <= Len(s) /\ \A m \in 1..Len(w) : s[k + m] = w[m]

\* A sequence is in itself, and two that are put together are in the result.
LEMMA WinTop ==
    ASSUME NEW T, NEW s \in Seq(T), NEW t \in Seq(T)
    PROVE  Win(s, s, 0) /\ Win(s, s \o t, 0) /\ Win(t, s \o t, Len(s))
  BY DEF Win

\* What is in a part is in the whole.
LEMMA WinIn ==
    ASSUME NEW T, NEW s \in Seq(T), NEW t \in Seq(T), NEW u \in Seq(T), NEW j, NEW k,
           Win(s, t, j), Win(t, u, k)
    PROVE  Win(s, u, k + j)
<1>1. j \in Nat /\ k \in Nat /\ k + j \in Nat /\ (k + j) + Len(s) <= Len(u)
  BY DEF Win
<1>2. ASSUME NEW m \in 1..Len(s) PROVE u[(k + j) + m] = s[m]
  <2>1. t[j + m] = s[m] /\ j + m \in 1..Len(t)
    <3>1. Len(s) \in Nat /\ Len(t) \in Nat /\ j + Len(s) <= Len(t)
      BY DEF Win
    <3> QED BY <1>1, <3>1 DEF Win
  <2>2. u[k + (j + m)] = t[j + m]
    BY <2>1 DEF Win
  <2>3. k + (j + m) = (k + j) + m
    BY <1>1
  <2> QED BY <2>1, <2>2, <2>3
<1> QED BY <1>1, <1>2 DEF Win

\* A sequence of sequences as one: each has its place, and nothing else is there.
LEMMA Flattened ==
    ASSUME NEW T, NEW n \in Nat, NEW ss \in [1..n -> Seq(T)]
    PROVE  /\ Merge!FlattenSeq(ss) \in Seq(T)
           /\ \A i \in 1..n : \E k : Win(ss[i], Merge!FlattenSeq(ss), k)
           /\ \A m \in 1..Len(Merge!FlattenSeq(ss)) :
                 \E i \in 1..n, k \in Nat : Win(ss[i], Merge!FlattenSeq(ss), k) /\ m \in (k + 1)..(k + Len(ss[i]))
<1>1. Len(ss) = n
  OBVIOUS
<1>2. CASE n = 0
  <2>1. Merge!FlattenSeq(ss) = ss
    BY <1>1, <1>2 DEF Merge!FlattenSeq
  <2>2. ss = <<>>
    BY <1>2
  <2>3. 1..n = {} /\ Len(<<>>) = 0 /\ <<>> \in Seq(T) /\ 1..0 = {}
    BY <1>2
  <2> QED BY <2>1, <2>2, <2>3
<1>3. CASE n # 0
  <2> DEFINE step(f, i) == IF i = 1 THEN ss[i] ELSE f[i - 1] \o ss[i]
             is(f, k)   == f = [i \in 1..k |-> step(f, i)]
             some       == {k \in 0..n : \E f : is(f, k)}
             flat       == CHOOSE f : is(f, n)
  <2>1. 0 \in some
    <3> DEFINE f == [i \in 1..0 |-> step(<<>>, i)]
    <3>1. f = [i \in 1..0 |-> step(f, i)]
      <4>1. \A i \in 1..0 : step(<<>>, i) = step(f, i)
        <5>1. 1..0 = {}
          OBVIOUS
        <5> QED BY <5>1
      <4> QED BY <4>1
    <3>2. is(f, 0)
      BY <3>1
    <3> HIDE DEF is, f
    <3> QED BY <3>2
  <2>2. ASSUME NEW k \in 0..(n - 1), k \in some PROVE k + 1 \in some
    <3>1. PICK f : is(f, k)
      BY <2>2
    <3> DEFINE g == [i \in 1..(k + 1) |-> IF i = k + 1 THEN step(f, i) ELSE f[i]]
    <3>2. ASSUME NEW i \in 1..(k + 1) PROVE g[i] = step(g, i)
      <4>1. CASE i = 1
        BY <3>1, <4>1
      <4>2. CASE i # 1
        <5>1. i - 1 \in 1..k /\ g[i - 1] = f[i - 1]
          BY <4>2
        <5>2. g[i] = step(f, i)
          <6>1. i # k + 1 => i \in 1..k /\ f[i] = step(f, i)
            <7>1. i # k + 1 => i \in 1..k
              OBVIOUS
            <7>2. \A l \in 1..k : f[l] = step(f, l)
              <8> HIDE DEF step
              <8> QED BY <3>1, Zenon
            <7> QED BY <7>1, <7>2
          <6> HIDE DEF step
          <6> QED BY <6>1
        <5> QED BY <5>1, <5>2
      <4> QED BY <4>1, <4>2
    <3>3. is(g, k + 1)
      <4>1. g = [i \in 1..(k + 1) |-> g[i]]
        OBVIOUS
      <4> HIDE DEF g, step
      <4> QED BY <3>2, <4>1
    <3> HIDE DEF is
    <3> QED BY <3>3
  <2>3. n \in some
    <3>1. n \in 0..n
      OBVIOUS
    <3> HIDE DEF some
    <3>2. \A k \in 0..(n - 1) : k \in some => k + 1 \in some
      BY <2>2
    <3>3. \A k \in 0..n : k \in some
      BY <2>1, <3>2, Upward
    <3> QED BY <3>1, <3>3
  <2>4. is(flat, n)
    <3> HIDE DEF is
    <3> QED BY <2>3
  <2>5. Merge!FlattenSeq(ss) = flat[n]
    BY <1>1, <1>3, Zenon DEF Merge!FlattenSeq
  <2> DEFINE whole(f, j) ==
                /\ f \in Seq(T)
                /\ \A i \in 1..j : \E k : Win(ss[i], f, k)
                /\ \A m \in 1..Len(f) :
                      \E i \in 1..j, k \in Nat : Win(ss[i], f, k) /\ m \in (k + 1)..(k + Len(ss[i]))
             good == {j \in 0..n : j = 0 \/ whole(flat[j], j)}
  <2> HIDE DEF flat
  <2>6. ASSUME NEW j \in 0..(n - 1), j \in good PROVE j + 1 \in good
    <3>1. CASE j = 0
      <4>1. flat[1] = ss[1] /\ ss[1] \in Seq(T)
        BY <1>3, <2>4
      <4>2. Win(ss[1], ss[1], 0)
        BY <4>1, WinTop
      <4>3. whole(ss[1], 1)
        BY <4>1, <4>2
      <4> QED BY <3>1, <4>1, <4>3, <1>3
    <3>2. CASE j # 0
      <4>1. flat[j + 1] = flat[j] \o ss[j + 1] /\ ss[j + 1] \in Seq(T)
        <5>1. j + 1 \in 1..n /\ j + 1 # 1 /\ (j + 1) - 1 = j
          BY <3>2
        <5>2. flat[j + 1] = step(flat, j + 1)
          <6> HIDE DEF step
          <6> QED BY <2>4, <5>1
        <5> QED BY <5>1, <5>2
      <4>2. whole(flat[j], j)
        BY <2>6, <3>2
      <4>3. PICK f : f = flat[j]
        OBVIOUS
      <4>4. PICK t : t = ss[j + 1]
        OBVIOUS
      <4>5. PICK u : u = f \o t
        OBVIOUS
      <4>6. f \in Seq(T) /\ t \in Seq(T) /\ u \in Seq(T) /\ Len(u) = Len(f) + Len(t)
        BY <4>1, <4>2, <4>3, <4>4, <4>5
      <4>7. Win(f, u, 0) /\ Win(t, u, Len(f))
        BY <4>5, <4>6, WinTop
      <4>8. ASSUME NEW i \in 1..j, NEW k, Win(ss[i], f, k) PROVE Win(ss[i], u, k)
        <5>1. ss[i] \in Seq(T) /\ k \in Nat /\ 0 + k = k
          BY <4>8 DEF Win
        <5>2. Win(ss[i], u, 0 + k)
          BY <4>6, <4>7, <4>8, <5>1, WinIn
        <5> QED BY <5>1, <5>2
      <4>9. ASSUME NEW i \in 1..(j + 1) PROVE \E k : Win(ss[i], u, k)
        <5>1. CASE i = j + 1
          BY <4>4, <4>7, <5>1
        <5>2. CASE i # j + 1
          <6>1. i \in 1..j
            BY <5>2
          <6>2. PICK k : Win(ss[i], f, k)
            BY <4>2, <4>3, <6>1
          <6> QED BY <4>8, <6>1, <6>2
        <5> QED BY <5>1, <5>2
      <4>10. ASSUME NEW m \in 1..Len(u)
             PROVE  \E i \in 1..(j + 1), k \in Nat : Win(ss[i], u, k) /\ m \in (k + 1)..(k + Len(ss[i]))
        <5>1. CASE m <= Len(f)
          <6>1. m \in 1..Len(f)
            BY <4>6, <5>1
          <6>2. PICK i \in 1..j, k \in Nat : Win(ss[i], f, k) /\ m \in (k + 1)..(k + Len(ss[i]))
            BY <4>2, <4>3, <6>1
          <6>3. Win(ss[i], u, k)
            BY <4>8, <6>2
          <6>4. i \in 1..(j + 1)
            OBVIOUS
          <6> QED BY <6>2, <6>3, <6>4
        <5>2. CASE m > Len(f)
          <6>1. Len(f) \in Nat /\ Len(t) \in Nat
            BY <4>6
          <6>2. m \in (Len(f) + 1)..(Len(f) + Len(t))
            BY <4>6, <5>2, <6>1
          <6>3. j + 1 \in 1..(j + 1)
            OBVIOUS
          <6> QED BY <4>4, <4>7, <6>1, <6>2, <6>3
        <5> QED BY <4>6, <5>1, <5>2
      <4>11. whole(u, j + 1)
        BY <4>6, <4>9, <4>10
      <4>12. flat[j + 1] = u
        BY <4>1, <4>3, <4>4, <4>5
      <4> HIDE DEF whole
      <4> QED BY <4>11, <4>12
    <3> QED BY <3>1, <3>2
  <2>7. \A j \in 0..n : j \in good
    <3>1. 0 \in good
      OBVIOUS
    <3> HIDE DEF good
    <3> QED BY <2>6, <3>1, Upward
  <2>8. whole(flat[n], n)
    <3>1. n \in good
      <4> HIDE DEF good
      <4> QED BY <2>7
    <3> HIDE DEF whole
    <3> QED BY <1>3, <3>1
  <2> QED BY <2>5, <2>8
<1> QED BY <1>2, <1>3

-----------------------------------------------------------------------------
(* The commands of a merge are made of blocks.                              *)

\* The library is instantiated twice, within the merge and here: the same size,
LEMMA MergeCounts == \A S : Merge!Cardinality(S) = Cardinality(S)
  BY Zenon DEF Merge!Cardinality, Cardinality

\* and the same finite sets.
LEMMA MergeFinite == \A S : Merge!IsFiniteSet(S) <=> IsFiniteSet(S)
  BY Zenon DEF Merge!IsFiniteSet, IsFiniteSet

\* A set of numbers in order: each once, a lesser one earlier.
LEMMA SortedIs ==
    ASSUME NEW S \in SUBSET Nat, IsFiniteSet(S)
    PROVE  /\ Cardinality(S) \in Nat
           /\ Merge!Sorted(S) \in [1..Cardinality(S) -> S]
           /\ \A x \in S : \E i \in 1..Cardinality(S) : Merge!Sorted(S)[i] = x
           /\ \A i, j \in 1..Cardinality(S) : i < j => Merge!Sorted(S)[i] < Merge!Sorted(S)[j]
<1> DEFINE R == {q \in S \X S : q[1] < q[2]}
<1>1. Orders(R, S)
  BY DEF Orders
<1>2. \A x, y : <<x, y>> \in R => x < y
  OBVIOUS
<1> HIDE DEF R
<1> PICK n : n = Cardinality(S)
  OBVIOUS
<1> PICK L : L = Router!Listed(S, R)
  OBVIOUS
<1>3. n \in Nat /\ L \in [1..n -> S] /\ \A i, j \in 1..n : i < j => L[i] < L[j]
  <2>1. n \in Nat /\ L \in [1..n -> S]
    BY <1>1, ListedIs
  <2>2. \A i, j \in 1..n : i < j <=> <<L[i], L[j]>> \in R
    BY <1>1, ListedIs
  <2> QED BY <1>2, <2>1, <2>2
<1> DEFINE rises(s) == \A i, j \in DOMAIN s : i < j => s[i] < s[j]
<1>4. Merge!Sorted(S) = CHOOSE s \in [1..n -> S] : rises(s)
  BY MergeCounts DEF Merge!Sorted
<1> PICK s : s = Merge!Sorted(S)
  OBVIOUS
<1>5. s \in [1..n -> S] /\ rises(s)
  <2>1. rises(L)
    BY <1>3
  <2> HIDE DEF rises
  <2> QED BY <1>3, <1>4, <2>1
<1>6. \A i, j \in 1..n : s[i] = s[j] => i = j
  <2>1. ASSUME NEW i \in 1..n, NEW j \in 1..n, s[i] = s[j] PROVE i = j
    <3>1. s[i] \in Nat /\ ~(s[i] < s[j]) /\ ~(s[j] < s[i])
      <4>1. s[i] \in S /\ S \subseteq Nat
        BY <1>5
      <4>2. \A v \in Nat : ~(v < v)
        OBVIOUS
      <4> QED BY <2>1, <4>1, <4>2
    <3> QED BY <1>3, <1>5, <3>1
  <2> QED BY <2>1
<1>7. s \in Surjection(1..n, S)
  <2>1. s \in Injection(1..n, S)
    BY <1>5, <1>6 DEF Injection, IsInjective
  <2>2. IsFiniteSet(1..n) /\ Cardinality(1..n) = n
    BY <1>3, FS_Interval
  <2> QED BY <2>1, <2>2, FS_Injection
<1>8. \A x \in S : \E i \in 1..n : s[i] = x
  BY <1>7 DEF Surjection
<1> QED BY <1>3, <1>5, <1>8

\* Every member of C is in one of the blocks B.
InBlock(B, C, m) == \E b \in B, k \in Nat : Win(b, C, k) /\ m \in (k + 1)..(k + Len(b))
Cov(B, C) == \A m \in 1..Len(C) : InBlock(B, C, m)

\* A block is covered by itself,
LEMMA CovTop ==
    ASSUME NEW T, NEW B \in SUBSET Seq(T), NEW b \in B PROVE Cov(B, b)
<1>1. Win(b, b, 0) /\ Len(b) \in Nat
  BY WinTop
<1>2. \A m \in 1..Len(b) : m \in (0 + 1)..(0 + Len(b))
  BY <1>1
<1> QED BY <1>1, <1>2 DEF Cov, InBlock

\* What is in blocks is so where it stands in more.
LEMMA CovIn ==
    ASSUME NEW T, NEW B \in SUBSET Seq(T), NEW s \in Seq(T), NEW u \in Seq(T), NEW j,
           Win(s, u, j), Cov(B, s), NEW m \in (j + 1)..(j + Len(s))
    PROVE  InBlock(B, u, m)
<1>1. j \in Nat /\ Len(s) \in Nat /\ m - j \in 1..Len(s)
  BY DEF Win
<1>2. PICK b \in B, k \in Nat : Win(b, s, k) /\ m - j \in (k + 1)..(k + Len(b))
  BY <1>1 DEF Cov, InBlock
<1>3. Win(b, u, j + k)
  BY <1>2, WinIn
<1>4. j + k \in Nat /\ m \in ((j + k) + 1)..((j + k) + Len(b))
  <2>1. Len(b) \in Nat
    OBVIOUS
  <2> QED BY <1>1, <1>2, <2>1
<1> QED BY <1>2, <1>3, <1>4 DEF InBlock

\* two covered sequences make a covered one,
LEMMA CovCat ==
    ASSUME NEW T, NEW B \in SUBSET Seq(T), NEW s \in Seq(T), NEW t \in Seq(T), Cov(B, s), Cov(B, t)
    PROVE  Cov(B, s \o t)
<1> SUFFICES ASSUME NEW m \in 1..Len(s \o t)
             PROVE  InBlock(B, s \o t, m)
  BY DEF Cov
<1> PICK u : u = s \o t
  OBVIOUS
<1>1. /\ Win(s, u, 0) /\ Win(t, u, Len(s)) /\ u \in Seq(T)
      /\ Len(s) \in Nat /\ Len(t) \in Nat /\ Len(u) = Len(s) + Len(t)
  BY WinTop
<1>2. CASE m <= Len(s)
  <2>1. m \in (0 + 1)..(0 + Len(s))
    BY <1>1, <1>2
  <2>2. InBlock(B, u, m)
    BY <1>1, <2>1, CovIn
  <2> QED BY <2>2
<1>3. CASE m > Len(s)
  <2>1. m \in (Len(s) + 1)..(Len(s) + Len(t))
    BY <1>1, <1>3
  <2>2. InBlock(B, u, m)
    BY <1>1, <2>1, CovIn
  <2> QED BY <2>2
<1> QED BY <1>1, <1>2, <1>3

\* and so do any number of them.
LEMMA CovFlat ==
    ASSUME NEW T, NEW B \in SUBSET Seq(T), NEW n \in Nat, NEW ss \in [1..n -> Seq(T)],
           \A i \in 1..n : Cov(B, ss[i])
    PROVE  Cov(B, Merge!FlattenSeq(ss))
<1> SUFFICES ASSUME NEW m \in 1..Len(Merge!FlattenSeq(ss))
             PROVE  InBlock(B, Merge!FlattenSeq(ss), m)
  BY DEF Cov
<1> PICK u : u = Merge!FlattenSeq(ss)
  OBVIOUS
<1>1. u \in Seq(T)
  BY Flattened
<1>2. PICK i \in 1..n, k \in Nat : Win(ss[i], u, k) /\ m \in (k + 1)..(k + Len(ss[i]))
  BY Flattened
<1>3. ss[i] \in Seq(T) /\ Cov(B, ss[i])
  OBVIOUS
<1>4. InBlock(B, u, m)
  BY <1>1, <1>2, <1>3, CovIn
<1> QED BY <1>4

\* Where something is in s, it is in what holds s.
LEMMA HasIn ==
    ASSUME NEW T, NEW w \in Seq(T), NEW s \in Seq(T), NEW u \in Seq(T),
           \E j : Win(w, s, j), \E j : Win(s, u, j)
    PROVE  \E j : Win(w, u, j)
<1>1. PICK i : Win(w, s, i)
  OBVIOUS
<1>2. PICK j : Win(s, u, j)
  OBVIOUS
<1> QED BY <1>1, <1>2, WinIn

-----------------------------------------------------------------------------
\* The commands of a plan p for the show s.
Creation(p, s, c) ==
    [op |-> "create preset", number |-> Merge!NumberOf(p, s, c), label |-> p.cue[c].name]
EffectCreation == [op |-> "create effect"]

\* All that a plan may send to a show s.
CommandSet(p, s) ==
    {Merge!Clear, Merge!Group, EffectCreation}
    \cup {Merge!Store(c) : c \in Cues}
    \cup {Merge!Call(Merge!Colour)}
    \cup {Merge!Call(Merge!Position(Merge!NumberOf(p, s, c))) : c \in Cues}
    \cup {Merge!Effect(p.cue[c].effect) : c \in Cues}
    \cup {Creation(p, s, c) : c \in Cues}
    \cup [op : {"select"}, fixtures : SUBSET Merge!Targets]
    \cup [op : {"value"}, attribute : {"PAN", "TILT"}, to : Int]

\* The fixtures that are sent where the i-th is, and the commands that send them there.
Alike(p, c, i) == {j \in 1..Len(Order) : Merge!Sent(p, c, j) = Merge!Sent(p, c, i)}
Triple(p, c, i) ==
    << [op |-> "select", fixtures |-> {Order[j] : j \in Alike(p, c, i)}],
       [op |-> "value", attribute |-> "PAN",  to |-> Merge!Sent(p, c, i)[1]],
       [op |-> "value", attribute |-> "TILT", to |-> Merge!Sent(p, c, i)[2]] >>
Piece(p, c, i) == IF \E j \in Alike(p, c, i) : j < i THEN <<>> ELSE Triple(p, c, i)

\* Values are set, and then stored or made a preset.
MoveBlock(p, c, x) == <<Merge!Clear>> \o Merge!Moves(p, c) \o <<x>>

\* The blocks that create presets and effects, and those that store cues.
Making(p, s) ==
    {<<Merge!Clear>>, <<Merge!Clear, EffectCreation>>}
    \cup {MoveBlock(p, c, Creation(p, s, c)) : c \in Merge!Distinct(p)}

Calling(p, s) ==
    {<<Merge!Clear>>}
    \cup {Merge!CallPreset(p, s, c) : c \in Cues}
    \cup {Merge!CallEffect(p, c) : c \in Cues}
    \cup (IF p.kind = "resources" THEN {}
          ELSE {MoveBlock(p, c, Merge!Store(c)) : c \in Cues})

Blocks(p, s) == Calling(p, s) \cup (IF p.kind = "resources" THEN Making(p, s) ELSE {})

\* The fixtures of a rig have an order, and each its place in it.
LEMMA OrderIsSeq ==
    ASSUME Merge!CueMergeAssumption
    PROVE  /\ Len(Order) \in Nat /\ DOMAIN Order = 1..Len(Order)
           /\ Merge!Targets = {Order[i] : i \in 1..Len(Order)}
           /\ \A i, j \in 1..Len(Order) : Order[i] = Order[j] => i = j
<1>1. Len(Order) \in Nat /\ DOMAIN Order = 1..Len(Order)
  BY DEF Merge!CueMergeAssumption
<1> QED BY <1>1 DEF Merge!CueMergeAssumption, Merge!IsInjective, Merge!Targets, Merge!ToSet

\* A position is a pair of whole numbers, and so is what is sent of it.
LEMMA SentIs ==
    ASSUME Merge!CueMergeAssumption, NEW p \in Plans, NEW s, Merge!Fits(p, s),
           NEW c \in Cues, NEW i \in 1..Len(Order)
    PROVE  /\ \A k \in 1..2 : /\ Merge!Aim(p, c, i)[k] \in Int
                              /\ Merge!Sent(p, c, i)[k] = Merge!Fmt(Merge!Aim(p, c, i)[k])
                              /\ Merge!Sent(p, c, i)[k] \in Int
                              /\ Merge!Sent(p, c, i)[k] - Merge!Aim(p, c, i)[k] \in -10..10
           /\ p.kind = "resources" => Merge!Aim(p, c, i) = p.cue[c].raw[i]
<1>1. p.kind = "resources" => Merge!Aim(p, c, i) = p.cue[c].raw[i]
  BY DEF Merge!Aim
<1>2. \A k \in 1..2 : Merge!Aim(p, c, i)[k] \in Int
  <2>1. CASE p.kind = "resources"
    <3>1. p.cue[c].raw[i] \in Int \X Int
      BY <2>1 DEF Merge!CueMergeAssumption, Merge!IsPlan
    <3> QED BY <1>1, <2>1, <3>1
  <2>2. CASE p.kind # "resources"
    <3>1. \A v \in Merge!Limits : v \in Int
      BY DEF Merge!Limits
    <3>2. Merge!InRange(p)
      BY DEF Merge!Fits
    <3>3. \A k \in 1..2 : Merge!Aim(p, c, i)[k] \in Merge!Limits
      BY <2>2, <3>2 DEF Merge!InRange
    <3> QED BY <3>1, <3>3
  <2> QED BY <2>1, <2>2
<1>3. ASSUME NEW k \in 1..2
      PROVE  /\ Merge!Sent(p, c, i)[k] = Merge!Fmt(Merge!Aim(p, c, i)[k])
             /\ Merge!Sent(p, c, i)[k] \in Int
             /\ Merge!Sent(p, c, i)[k] - Merge!Aim(p, c, i)[k] \in -10..10
  <2>1. PICK v \in Int : v = Merge!Aim(p, c, i)[k]
    BY <1>2
  <2>2. Merge!Sent(p, c, i)[k] = Merge!Fmt(v)
    BY <2>1 DEF Merge!Sent
  <2>3. Merge!Fmt(v) \in Int /\ Merge!Fmt(v) - v \in -10..10
    BY DEF Merge!Fmt
  <2> QED BY <2>1, <2>2, <2>3
<1> QED BY <1>1, <1>2, <1>3

\* The moves of a cue: groups of equal values, and every fixture is in one.
LEMMA MovesAre ==
    ASSUME Merge!CueMergeAssumption, NEW p \in Plans, NEW s, Merge!Fits(p, s), NEW c \in Cues
    PROVE  /\ Merge!Moves(p, c) \in Seq(CommandSet(p, s))
           /\ \A i \in 1..Len(Order) : Triple(p, c, i) \in Seq(CommandSet(p, s))
           /\ \A m \in 1..Len(Merge!Moves(p, c)) :
                 \E i \in 1..Len(Order), k \in Nat :
                    Win(Triple(p, c, i), Merge!Moves(p, c), k) /\ m \in (k + 1)..(k + 3)
           /\ \A j \in 1..Len(Order) :
                 \E i \in 1..Len(Order), k \in Nat :
                    j \in Alike(p, c, i) /\ Win(Triple(p, c, i), Merge!Moves(p, c), k)
<1> DEFINE n  == Len(Order)
           T  == CommandSet(p, s)
           ss == [i \in 1..n |-> Piece(p, c, i)]
           M  == Merge!Moves(p, c)
<1>1. M = Merge!FlattenSeq(ss) /\ n \in Nat
  BY OrderIsSeq, Zenon DEF Merge!Moves, Piece, Triple, Alike
<1>2. ASSUME NEW i \in 1..n PROVE Triple(p, c, i) \in Seq(T) /\ Len(Triple(p, c, i)) = 3
  <2>1. {Order[j] : j \in Alike(p, c, i)} \in SUBSET Merge!Targets
    BY OrderIsSeq DEF Alike
  <2>2. Merge!Sent(p, c, i)[1] \in Int /\ Merge!Sent(p, c, i)[2] \in Int
    BY SentIs
  <2>3. PICK a, b, d : /\ a = [op |-> "select", fixtures |-> {Order[j] : j \in Alike(p, c, i)}]
                       /\ b = [op |-> "value", attribute |-> "PAN",  to |-> Merge!Sent(p, c, i)[1]]
                       /\ d = [op |-> "value", attribute |-> "TILT", to |-> Merge!Sent(p, c, i)[2]]
    OBVIOUS
  <2>4. a \in T /\ b \in T /\ d \in T
    BY <2>1, <2>2, <2>3 DEF CommandSet
  <2>5. Triple(p, c, i) = <<a, b, d>>
    BY <2>3 DEF Triple
  <2> HIDE DEF T
  <2> QED BY <2>4, <2>5
<1>3. ss \in [1..n -> Seq(T)]
  <2> HIDE DEF T
  <2>1. <<>> \in Seq(T)
    OBVIOUS
  <2> QED BY <1>2, <2>1 DEF Piece
<1>4. /\ M \in Seq(T)
      /\ \A i \in 1..n : \E k : Win(ss[i], M, k)
      /\ \A m \in 1..Len(M) : \E i \in 1..n, k \in Nat : Win(ss[i], M, k) /\ m \in (k + 1)..(k + Len(ss[i]))
  <2> HIDE DEF T, n, ss, M
  <2> QED BY <1>1, <1>3, Flattened
<1>5. ASSUME NEW m \in 1..Len(M)
      PROVE  \E i \in 1..n, k \in Nat : Win(Triple(p, c, i), M, k) /\ m \in (k + 1)..(k + 3)
  <2>1. PICK i \in 1..n, k \in Nat : Win(ss[i], M, k) /\ m \in (k + 1)..(k + Len(ss[i]))
    BY <1>4
  <2>2. ss[i] = Triple(p, c, i)
    <3>1. ss[i] # <<>>
      BY <2>1
    <3> QED BY <3>1 DEF Piece
  <2> HIDE DEF ss, n, M
  <2> QED BY <1>2, <2>1, <2>2
<1>6. ASSUME NEW j \in 1..n
      PROVE  \E i \in 1..n, k \in Nat : j \in Alike(p, c, i) /\ Win(Triple(p, c, i), M, k)
  <2>1. j \in Alike(p, c, j) /\ Alike(p, c, j) \in SUBSET Nat
    BY DEF Alike
  <2>2. PICK i \in Alike(p, c, j) : \A l \in Alike(p, c, j) : i <= l
    BY <2>1, LeastNumber
  <2>3. /\ Alike(p, c, i) = Alike(p, c, j) /\ i \in 1..n
    BY <2>2 DEF Alike
  <2>4. ~(\E l \in Alike(p, c, i) : l < i)
    BY <2>1, <2>2, <2>3
  <2>5. ss[i] = Triple(p, c, i)
    BY <2>3, <2>4 DEF Piece
  <2>6. PICK k : Win(ss[i], M, k)
    BY <1>4, <2>3
  <2>7. k \in Nat
    BY <2>6 DEF Win
  <2> HIDE DEF ss, n, M
  <2> QED BY <2>1, <2>3, <2>5, <2>6, <2>7
<1> QED BY <1>2, <1>4, <1>5, <1>6

\* A group is selected, then given its pan and its tilt.
LEMMA TripleIs ==
    ASSUME NEW p, NEW c, NEW i
    PROVE  /\ Len(Triple(p, c, i)) = 3
           /\ Triple(p, c, i)[1] =
                 [op |-> "select", fixtures |-> {Order[j] : j \in Alike(p, c, i)}]
           /\ Triple(p, c, i)[2] =
                 [op |-> "value", attribute |-> "PAN",  to |-> Merge!Sent(p, c, i)[1]]
           /\ Triple(p, c, i)[3] =
                 [op |-> "value", attribute |-> "TILT", to |-> Merge!Sent(p, c, i)[2]]
  BY DEF Triple

\* A block of moves begins with Clear, ends with x and moves in between.
LEMMA MoveBlockIs ==
    ASSUME Merge!CueMergeAssumption, NEW p \in Plans, NEW s, Merge!Fits(p, s), NEW c \in Cues,
           NEW x \in CommandSet(p, s)
    PROVE  /\ MoveBlock(p, c, x) \in Seq(CommandSet(p, s))
           /\ Len(Merge!Moves(p, c)) \in Nat
           /\ Len(MoveBlock(p, c, x)) = Len(Merge!Moves(p, c)) + 2
           /\ MoveBlock(p, c, x)[1] = Merge!Clear
           /\ MoveBlock(p, c, x)[Len(Merge!Moves(p, c)) + 2] = x
           /\ \A m \in 1..Len(Merge!Moves(p, c)) :
                 MoveBlock(p, c, x)[m + 1] = Merge!Moves(p, c)[m]
<1> DEFINE T == CommandSet(p, s)
<1> PICK M : M = Merge!Moves(p, c)
  OBVIOUS
<1>1. M \in Seq(T)
  BY MovesAre
<1>2. Merge!Clear \in T
  BY DEF CommandSet
<1> HIDE DEF T
<1>3. PICK a : a = Merge!Clear
  OBVIOUS
<1>4. MoveBlock(p, c, x) = <<a>> \o M \o <<x>>
  BY <1>3 DEF MoveBlock
<1>5. PICK h : h = <<a>> \o M
  OBVIOUS
<1>6. /\ h \in Seq(T) /\ Len(h) = Len(M) + 1 /\ h[1] = a /\ Len(M) \in Nat
      /\ \A m \in 1..Len(M) : h[m + 1] = M[m]
  BY <1>1, <1>2, <1>3, <1>5
<1>7. PICK b : b = h \o <<x>>
  OBVIOUS
<1>8. /\ b \in Seq(T) /\ Len(b) = Len(M) + 2 /\ b[1] = a /\ b[Len(M) + 2] = x
  <2>1. x \in T
    BY DEF T
  <2> QED BY <1>6, <1>7, <2>1
<1>9. ASSUME NEW m \in 1..Len(M) PROVE b[m + 1] = M[m]
  <2>1. m + 1 \in 1..Len(h)
    BY <1>6
  <2>2. b[m + 1] = h[m + 1]
    BY <1>6, <1>7, <2>1
  <2> QED BY <1>6, <2>2
<1> QED BY <1>3, <1>4, <1>5, <1>6, <1>7, <1>8, <1>9 DEF T

\* A command of a cue's moves.
LEMMA MoveIs ==
    ASSUME Merge!CueMergeAssumption, NEW p \in Plans, NEW s, Merge!Fits(p, s), NEW c \in Cues,
           NEW m \in 1..Len(Merge!Moves(p, c))
    PROVE  Merge!Moves(p, c)[m].op \in {"select", "value"}
<1>1. PICK i \in 1..Len(Order), k \in Nat :
         Win(Triple(p, c, i), Merge!Moves(p, c), k) /\ m \in (k + 1)..(k + 3)
  BY MovesAre
<1>2. PICK r \in 1..3 : m = k + r
  BY <1>1
<1> PICK t : t = Triple(p, c, i)
  OBVIOUS
<1>5. Len(t) = 3 /\ t[1].op = "select" /\ t[2].op = "value" /\ t[3].op = "value"
  BY DEF Triple
<1>3. Merge!Moves(p, c)[k + r] = t[r]
  BY <1>1, <1>2, <1>5 DEF Win
<1>4. t[r].op \in {"select", "value"}
  <2>1. r = 1 \/ r = 2 \/ r = 3
    BY <1>2
  <2> QED BY <2>1, <1>5
<1> QED BY <1>2, <1>3, <1>4

\* What is sent for a cue is among the commands of its plan.
LEMMA CueOfPlan ==
    ASSUME NEW p, NEW s, NEW c \in Cues
    PROVE  /\ Merge!Store(c) \in CommandSet(p, s) /\ Creation(p, s, c) \in CommandSet(p, s)
           /\ Merge!Clear \in CommandSet(p, s) /\ Merge!Group \in CommandSet(p, s)
           /\ EffectCreation \in CommandSet(p, s)
           /\ Merge!Call(Merge!Colour) \in CommandSet(p, s)
           /\ Merge!Call(Merge!Position(Merge!NumberOf(p, s, c))) \in CommandSet(p, s)
           /\ Merge!Effect(p.cue[c].effect) \in CommandSet(p, s)
  BY DEF CommandSet

\* The blocks of a plan are sequences of its commands.
LEMMA BlocksAre ==
    ASSUME Merge!CueMergeAssumption, NEW p \in Plans, NEW s, Merge!Fits(p, s)
    PROVE  /\ Making(p, s) \in SUBSET Seq(CommandSet(p, s))
           /\ Calling(p, s) \in SUBSET Seq(CommandSet(p, s))
           /\ Blocks(p, s) \in SUBSET Seq(CommandSet(p, s))
<1> DEFINE T == CommandSet(p, s)
<1>1. Merge!Clear \in T /\ EffectCreation \in T
  BY DEF CommandSet
<1>2. ASSUME NEW c \in Cues
      PROVE  /\ Merge!CallPreset(p, s, c) \in Seq(T) /\ Merge!CallEffect(p, c) \in Seq(T)
             /\ MoveBlock(p, c, Merge!Store(c)) \in Seq(T)
             /\ MoveBlock(p, c, Creation(p, s, c)) \in Seq(T)
  <2>1. Merge!CallPreset(p, s, c) \in Seq(T)
    <3> PICK a, g, x, y, z : /\ a = Merge!Clear /\ g = Merge!Group /\ x = Merge!Call(Merge!Colour)
                         /\ y = Merge!Call(Merge!Position(Merge!NumberOf(p, s, c)))
                         /\ z = Merge!Store(c)
        OBVIOUS
    <3>1. a \in T /\ g \in T /\ x \in T /\ y \in T /\ z \in T
        BY CueOfPlan
    <3>2. Merge!CallPreset(p, s, c) \in {<<a, g, x, z>>, <<a, g, y, z>>, <<>>}
        BY DEF Merge!CallPreset
    <3> HIDE DEF T
    <3>3. <<a, g, x, z>> \in Seq(T) /\ <<a, g, y, z>> \in Seq(T) /\ <<>> \in Seq(T)
        BY <3>1
    <3> QED BY <3>2, <3>3
  <2>2. Merge!CallEffect(p, c) \in Seq(T)
    <3> PICK a, g, x, z : /\ a = Merge!Clear /\ g = Merge!Group
                          /\ x = Merge!Effect(p.cue[c].effect) /\ z = Merge!Store(c)
        OBVIOUS
    <3>1. a \in T /\ g \in T /\ x \in T /\ z \in T
        BY CueOfPlan
    <3>2. Merge!CallEffect(p, c) \in {<<a, g, x, z>>, <<>>}
        BY DEF Merge!CallEffect
    <3> HIDE DEF T
    <3>3. <<a, g, x, z>> \in Seq(T) /\ <<>> \in Seq(T)
        BY <3>1
    <3> QED BY <3>2, <3>3
  <2>3. Merge!Store(c) \in T /\ Creation(p, s, c) \in T
    BY CueOfPlan
  <2> HIDE DEF T
  <2>4. MoveBlock(p, c, Merge!Store(c)) \in Seq(T) /\ MoveBlock(p, c, Creation(p, s, c)) \in Seq(T)
    BY <2>3, MoveBlockIs DEF T
  <2> QED BY <2>1, <2>2, <2>4
<1>3. <<Merge!Clear>> \in Seq(T) /\ <<Merge!Clear, EffectCreation>> \in Seq(T)
  <2> PICK a, b : a = Merge!Clear /\ b = EffectCreation
    OBVIOUS
  <2> HIDE DEF T
  <2> QED BY <1>1
<1>4. Merge!Distinct(p) \subseteq Cues
  BY DEF Merge!Distinct
<1>5. Making(p, s) \in SUBSET Seq(T)
  <2> HIDE DEF T
  <2> QED BY <1>2, <1>3, <1>4 DEF Making
<1>6. Calling(p, s) \in SUBSET Seq(T)
  <2> HIDE DEF T
  <2> QED BY <1>2, <1>3 DEF Calling
<1> QED BY <1>5, <1>6 DEF Blocks

\* What is done in a cue: a preset is called, an effect, values are set.
LEMMA CueCommandsAre ==
    ASSUME Merge!CueMergeAssumption, NEW p \in Plans, NEW s, Merge!Fits(p, s), NEW c \in Cues
    PROVE  /\ Merge!CueCommands(p, s, c) \in Seq(CommandSet(p, s))
           /\ Cov(Calling(p, s), Merge!CueCommands(p, s, c))
           /\ \E k : Win(Merge!CallPreset(p, s, c), Merge!CueCommands(p, s, c), k)
           /\ \E k : Win(Merge!CallEffect(p, c), Merge!CueCommands(p, s, c), k)
           /\ p.kind # "resources" =>
                 \E k : Win(MoveBlock(p, c, Merge!Store(c)), Merge!CueCommands(p, s, c), k)
<1> PICK T : T = CommandSet(p, s)
  OBVIOUS
<1> PICK B : B = Calling(p, s)
  OBVIOUS
<1> PICK x : x = Merge!CallPreset(p, s, c)
  OBVIOUS
<1> PICK y : y = Merge!CallEffect(p, c)
  OBVIOUS
<1> PICK z : z = IF p.kind = "resources" THEN <<>> ELSE MoveBlock(p, c, Merge!Store(c))
  OBVIOUS
<1> PICK u : u = x \o y
  OBVIOUS
<1> PICK w : w = u \o z
  OBVIOUS
<1>1. Merge!CueCommands(p, s, c) = w
  BY DEF Merge!CueCommands, MoveBlock
<1>2. x \in B /\ y \in B /\ (p.kind # "resources" => z \in B) /\ B \in SUBSET Seq(T)
  BY BlocksAre DEF Calling
<1>3. z \in Seq(T) /\ Cov(B, z)
  <2>1. CASE p.kind = "resources"
    BY <2>1 DEF Cov
  <2>2. CASE p.kind # "resources"
    BY <1>2, <2>2, CovTop
  <2> QED BY <2>1, <2>2
<1>4. /\ u \in Seq(T) /\ Cov(B, u) /\ Win(x, u, 0) /\ \E k : Win(y, u, k)
  <2>1. x \in Seq(T) /\ y \in Seq(T) /\ Cov(B, x) /\ Cov(B, y)
    BY <1>2, CovTop
  <2>2. u \in Seq(T) /\ Win(x, u, 0) /\ Win(y, u, Len(x))
    BY <2>1, WinTop
  <2>3. Cov(B, u)
    BY <1>2, <2>1, CovCat
  <2> QED BY <2>2, <2>3
<1>5. w \in Seq(T) /\ Cov(B, w) /\ (\E k : Win(u, w, k)) /\ \E k : Win(z, w, k)
  <2>0. u \in Seq(T) /\ z \in Seq(T)
    BY <1>3, <1>4
  <2>1. w \in Seq(T)
    BY <2>0
  <2>3. Win(u, w, 0) /\ Win(z, w, Len(u))
    BY <2>0, WinTop
  <2>2. Cov(B, w)
    BY <1>2, <1>3, <1>4, CovCat
  <2> QED BY <2>1, <2>2, <2>3
<1>6. (\E k : Win(x, w, k)) /\ \E k : Win(y, w, k)
  <2>1. x \in Seq(T) /\ y \in Seq(T)
    BY <1>2
  <2>2. \E k : Win(x, u, k)
    BY <1>4
  <2>3. \E k : Win(x, w, k)
    BY <1>4, <1>5, <2>1, <2>2, HasIn
  <2>4. \E k : Win(y, w, k)
    BY <1>4, <1>5, <2>1, HasIn
  <2> QED BY <2>3, <2>4
<1> QED BY <1>1, <1>5, <1>6

\* What a plan creates it creates before it calls anything.
LEMMA AuthoringIs ==
    ASSUME Merge!CueMergeAssumption, NEW p \in Plans, NEW s, Merge!Fits(p, s),
           p.kind = "resources"
    PROVE  /\ Merge!Authoring(p, s) \in Seq(CommandSet(p, s))
           /\ Cov(Making(p, s), Merge!Authoring(p, s))
           /\ \A c \in Merge!Distinct(p) :
                 \E k : Win(MoveBlock(p, c, Creation(p, s, c)), Merge!Authoring(p, s), k)
           /\ \E k : Win(<<Merge!Clear, EffectCreation>>, Merge!Authoring(p, s), k)
<1> PICK T : T = CommandSet(p, s)
  OBVIOUS
<1> PICK B : B = Making(p, s)
  OBVIOUS
<1> PICK D : D = Merge!Distinct(p)
  OBVIOUS
<1> PICK n : n = Cardinality(D)
  OBVIOUS
<1> PICK cues : cues = Merge!Sorted(D)
  OBVIOUS
<1>1. D \in SUBSET Cues /\ D \in SUBSET Nat /\ IsFiniteSet(D)
  <2>1. Cues \in SUBSET Nat /\ IsFiniteSet(Cues)
    BY MergeFinite DEF Merge!CueMergeAssumption
  <2>2. D \in SUBSET Cues
    BY DEF Merge!Distinct
  <2> QED BY <2>1, <2>2, FS_Subset
<1>2. n \in Nat /\ cues \in [1..n -> D] /\ \A c \in D : \E i \in 1..n : cues[i] = c
  BY <1>1, SortedIs
<1> DEFINE item(c) == MoveBlock(p, c, Creation(p, s, c)) \o <<Merge!Clear>>
           ss      == [i \in 1..n |-> item(cues[i])]
<1> PICK e : e = <<Merge!Clear, EffectCreation>>
  OBVIOUS
<1> PICK o : o = <<Merge!Clear>>
  OBVIOUS
<1>3. e \in B /\ o \in B /\ B \in SUBSET Seq(T)
  BY BlocksAre DEF Making
<1>4. ASSUME NEW c \in D
      PROVE  /\ item(c) \in Seq(T) /\ Cov(B, item(c))
             /\ MoveBlock(p, c, Creation(p, s, c)) \in Seq(T)
             /\ \E k : Win(MoveBlock(p, c, Creation(p, s, c)), item(c), k)
  <2> PICK b : b = MoveBlock(p, c, Creation(p, s, c))
    OBVIOUS
  <2>1. b \in B
    BY DEF Making
  <2>2. b \in Seq(T) /\ o \in Seq(T) /\ Cov(B, b) /\ Cov(B, o)
    BY <1>3, <2>1, CovTop
  <2>3. Cov(B, b \o o) /\ b \o o \in Seq(T) /\ Win(b, b \o o, 0)
    BY <1>3, <2>2, CovCat, WinTop
  <2> QED BY <2>2, <2>3
<1>5. PICK F : F = Merge!FlattenSeq(ss)
  OBVIOUS
<1> PICK t : t = << Merge!Clear, EffectCreation, Merge!Clear >>
  OBVIOUS
<1>6. Merge!Authoring(p, s) = F \o t
  <2>1. Len(cues) = n
    BY <1>2
  <2>2. \A i \in 1..n : item(cues[i]) =
            <<Merge!Clear>> \o Merge!Moves(p, cues[i]) \o
            << [op |-> "create preset", number |-> Merge!NumberOf(p, s, cues[i]),
                label |-> p.cue[cues[i]].name], Merge!Clear >>
    <3> SUFFICES ASSUME NEW c \in D
                 PROVE item(c) = <<Merge!Clear>> \o Merge!Moves(p, c) \o
                           << [op |-> "create preset", number |-> Merge!NumberOf(p, s, c),
                               label |-> p.cue[c].name], Merge!Clear >>
        BY <1>2
    <3> PICK M : M = Merge!Moves(p, c)
        OBVIOUS
    <3> PICK a : a = Merge!Clear
        OBVIOUS
    <3> PICK x : x = Creation(p, s, c)
        OBVIOUS
    <3>1. M \in Seq(T) /\ a \in T /\ x \in T
        BY <1>1, MovesAre, CueOfPlan
    <3>2. (<<a>> \o M \o <<x>>) \o <<a>> = <<a>> \o M \o <<x, a>>
      <4>1. PICK h : h = <<a>> \o M
        OBVIOUS
      <4>2. h \in Seq(T)
        BY <3>1, <4>1
      <4>3. (h \o <<x>>) \o <<a>> = h \o <<x, a>>
        BY <3>1, <4>2
      <4> QED BY <4>1, <4>3
    <3> QED BY <3>2 DEF MoveBlock, Creation
  <2>3. ss = [i \in 1..Len(cues) |->
            <<Merge!Clear>> \o Merge!Moves(p, cues[i]) \o
            << [op |-> "create preset", number |-> Merge!NumberOf(p, s, cues[i]),
                label |-> p.cue[cues[i]].name], Merge!Clear >>]
    <3> HIDE DEF item
    <3> QED BY <2>1, <2>2
  <2>5. Merge!Authoring(p, s) = F \o << Merge!Clear, EffectCreation, Merge!Clear >>
    <3> HIDE DEF ss
    <3> QED BY <1>5, <2>3, Zenon DEF Merge!Authoring, EffectCreation
  <2> QED BY <2>5
<1>7. ss \in [1..n -> Seq(T)] /\ \A i \in 1..n : Cov(B, ss[i])
  <2> HIDE DEF item
  <2> QED BY <1>2, <1>4
<1> HIDE DEF ss
<1>8. F \in Seq(T) /\ Cov(B, F) /\ \A i \in 1..n : \E k : Win(ss[i], F, k)
  BY <1>2, <1>3, <1>5, <1>7, Flattened, CovFlat
<1>10. t \in Seq(T) /\ Cov(B, t) /\ Win(e, t, 0)
  <2>1. t \in Seq(T) /\ Len(t) = 3 /\ Len(e) = 2 /\ Len(o) = 1
    <3> PICK x, y : x = Merge!Clear /\ y = EffectCreation
        OBVIOUS
    <3>1. x \in T /\ y \in T
        BY DEF CommandSet
    <3> QED BY <3>1
  <2>2. Win(e, t, 0) /\ Win(o, t, 2)
    <3>1. e[1] = t[1] /\ e[2] = t[2] /\ o[1] = t[3]
        OBVIOUS
    <3> QED BY <2>1, <3>1 DEF Win
  <2>3. ASSUME NEW m \in 1..3 PROVE InBlock(B, t, m)
    <3>1. m \in (0 + 1)..(0 + Len(e)) \/ m \in (2 + 1)..(2 + Len(o))
        BY <2>1
    <3> QED BY <1>3, <2>2, <3>1 DEF InBlock
  <2> QED BY <2>1, <2>2, <2>3 DEF Cov
<1>11. PICK w : w = F \o t
  OBVIOUS
<1>12. w \in Seq(T) /\ Cov(B, w) /\ Win(F, w, 0) /\ Win(t, w, Len(F))
  <2>1. F \in Seq(T) /\ t \in Seq(T) /\ w \in Seq(T)
    BY <1>8, <1>10, <1>11
  <2>2. Win(F, w, 0) /\ Win(t, w, Len(F))
    BY <1>11, <2>1, WinTop
  <2>3. Cov(B, w)
    BY <1>3, <1>8, <1>10, <1>11, CovCat
  <2> QED BY <2>1, <2>2, <2>3
<1>13. \E k : Win(e, w, k)
  <2>1. e \in Seq(T) /\ (\E k : Win(e, t, k)) /\ \E k : Win(t, w, k)
    BY <1>3, <1>10, <1>12
  <2> QED BY <1>10, <1>12, <2>1, HasIn
<1>14. ASSUME NEW c \in D PROVE \E k : Win(MoveBlock(p, c, Creation(p, s, c)), w, k)
  <2> PICK b : b = MoveBlock(p, c, Creation(p, s, c))
    OBVIOUS
  <2> PICK v : v = item(c)
    OBVIOUS
  <2>1. b \in Seq(T) /\ v \in Seq(T) /\ \E k : Win(b, v, k)
    BY <1>4
  <2>2. PICK i \in 1..n : cues[i] = c
    BY <1>2
  <2>3. ss[i] = v
    BY <2>2 DEF ss
  <2> HIDE DEF item
  <2>4. (\E k : Win(v, F, k)) /\ \E k : Win(F, w, k)
    BY <1>8, <1>12, <2>3
  <2>5. \E k : Win(b, F, k)
    BY <1>8, <2>1, <2>4, HasIn
  <2> QED BY <1>8, <1>12, <2>1, <2>4, <2>5, HasIn
<1> QED BY <1>6, <1>11, <1>12, <1>13, <1>14

\* No command by which a plan creates something calls or stores anything.
LEMMA MakingIs ==
    ASSUME Merge!CueMergeAssumption, NEW p \in Plans, NEW s, Merge!Fits(p, s),
           NEW C \in Seq(CommandSet(p, s)), Cov(Making(p, s), C), NEW m \in 1..Len(C)
    PROVE  C[m].op \in {"clear", "select", "value", "create preset", "create effect"}
<1>0. ASSUME NEW c \in Cues, NEW x \in CommandSet(p, s)
      PROVE  /\ Len(Merge!Moves(p, c)) \in Nat
             /\ Len(MoveBlock(p, c, x)) = Len(Merge!Moves(p, c)) + 2
             /\ MoveBlock(p, c, x)[1] = Merge!Clear
             /\ MoveBlock(p, c, x)[Len(Merge!Moves(p, c)) + 2] = x
             /\ \A q \in 1..Len(Merge!Moves(p, c)) :
                   MoveBlock(p, c, x)[q + 1] = Merge!Moves(p, c)[q]
  BY MoveBlockIs
<1>1. PICK b \in Making(p, s), k \in Nat : Win(b, C, k) /\ m \in (k + 1)..(k + Len(b))
  BY DEF Cov, InBlock
<1>2. Len(b) \in Nat
  BY BlocksAre
<1>3. PICK r \in 1..Len(b) : m = k + r
  BY <1>1, <1>2
<1>4. C[m] = b[r]
  BY <1>1, <1>3 DEF Win
<1>5. CASE b = <<Merge!Clear>>
  <2>1. Len(b) = 1 /\ b[1].op = "clear"
    BY <1>5 DEF Merge!Clear
  <2>2. r = 1
    BY <2>1
  <2> QED BY <1>4, <2>1, <2>2
<1>6. CASE b = <<Merge!Clear, EffectCreation>>
  <2>1. Len(b) = 2 /\ b[1].op = "clear" /\ b[2].op = "create effect"
    <3>1. Merge!Clear.op = "clear" /\ EffectCreation.op = "create effect"
      BY DEF Merge!Clear, EffectCreation
    <3>2. b[1] = Merge!Clear /\ b[2] = EffectCreation /\ Len(b) = 2
      BY <1>6
    <3> QED BY <3>1, <3>2
  <2>2. r = 1 \/ r = 2
    <3>1. r \in 1..2
      BY <2>1
    <3> QED BY <3>1
  <2> QED BY <1>4, <2>1, <2>2
<1>7. CASE \E c \in Merge!Distinct(p) : b = MoveBlock(p, c, Creation(p, s, c))
  <2>1. PICK c \in Cues : b = MoveBlock(p, c, Creation(p, s, c))
    BY <1>7 DEF Merge!Distinct
  <2> PICK x : x = Creation(p, s, c)
    OBVIOUS
  <2>2. x \in CommandSet(p, s) /\ x.op = "create preset"
    BY CueOfPlan DEF Creation
  <2> PICK l : l = Len(Merge!Moves(p, c))
    OBVIOUS
  <2>3. /\ l \in Nat /\ Len(b) = l + 2 /\ b[1].op = "clear" /\ b[l + 2] = x
        /\ \A q \in 1..l : b[q + 1] = Merge!Moves(p, c)[q]
    <3>1. Merge!Clear.op = "clear"
      BY DEF Merge!Clear
    <3>2. b = MoveBlock(p, c, x)
      BY <2>1
    <3>3. c \in Cues
      BY <2>1
    <3> QED BY <1>0, <2>2, <3>1, <3>2, <3>3
  <2>4. CASE r = 1
    BY <1>4, <2>3, <2>4
  <2>5. CASE r = l + 2
    BY <1>4, <2>2, <2>3, <2>5
  <2>6. CASE r # 1 /\ r # l + 2
    <3>1. PICK q \in 1..l : r = q + 1
        <4>1. r - 1 \in 1..l /\ r = (r - 1) + 1
          BY <1>3, <2>3, <2>6
        <4> QED BY <4>1
    <3>2. Merge!Moves(p, c)[q].op \in {"select", "value"}
        BY <3>1, MoveIs
    <3> QED BY <1>4, <2>3, <3>1, <3>2
  <2> QED BY <2>4, <2>5, <2>6
<1> QED BY <1>1, <1>5, <1>6, <1>7 DEF Making

\* The commands of a plan: each is in a block, every block that is to be there
\* is, and what is created is created before anything is called or stored.
LEMMA CommandsAre ==
    ASSUME Merge!CueMergeAssumption, NEW p \in Plans, NEW s, Merge!Fits(p, s)
    PROVE  /\ Merge!CommandsOf(p, s) \in Seq(CommandSet(p, s))
           /\ Cov(Blocks(p, s), Merge!CommandsOf(p, s))
           /\ Len(Merge!CommandsOf(p, s)) # 0
           /\ Merge!CommandsOf(p, s)[Len(Merge!CommandsOf(p, s))] = Merge!Clear
           /\ \A c \in Cues :
                 /\ \E k : Win(Merge!CallPreset(p, s, c), Merge!CommandsOf(p, s), k)
                 /\ \E k : Win(Merge!CallEffect(p, c), Merge!CommandsOf(p, s), k)
                 /\ p.kind # "resources" =>
                       \E k : Win(MoveBlock(p, c, Merge!Store(c)), Merge!CommandsOf(p, s), k)
           /\ p.kind = "resources" =>
                 \E A \in Nat :
                    /\ \A m \in 1..A :
                          /\ m \in 1..Len(Merge!CommandsOf(p, s))
                          /\ Merge!CommandsOf(p, s)[m].op \notin {"preset", "effect", "store"}
                    /\ \A c \in Merge!Distinct(p) :
                          \E k : /\ Win(MoveBlock(p, c, Creation(p, s, c)), Merge!CommandsOf(p, s), k)
                                 /\ k + Len(MoveBlock(p, c, Creation(p, s, c))) <= A
                    /\ \E k : /\ Win(<<Merge!Clear, EffectCreation>>, Merge!CommandsOf(p, s), k)
                              /\ k + 2 <= A
<1> PICK T : T = CommandSet(p, s)
  OBVIOUS
<1> PICK B : B = Blocks(p, s)
  OBVIOUS
<1> PICK n : n = Cardinality(Cues)
  OBVIOUS
<1> PICK cues : cues = Merge!Sorted(Cues)
  OBVIOUS
<1>1. Cues \in SUBSET Nat /\ IsFiniteSet(Cues)
  BY MergeFinite DEF Merge!CueMergeAssumption
<1>2. n \in Nat /\ cues \in [1..n -> Cues] /\ \A c \in Cues : \E i \in 1..n : cues[i] = c
  BY <1>1, SortedIs
<1>3. /\ B \in SUBSET Seq(T) /\ Calling(p, s) \in SUBSET B
      /\ p.kind = "resources" => Making(p, s) \in SUBSET B
  BY BlocksAre DEF Blocks
<1> PICK o : o = <<Merge!Clear>>
  OBVIOUS
<1>4. o \in Seq(T) /\ Cov(B, o) /\ Len(o) = 1 /\ o[1] = Merge!Clear
  <2>1. o \in B
    BY <1>3 DEF Calling
  <2> QED BY <1>3, <2>1, CovTop
<1>5. \A D, C : D \in SUBSET B /\ Cov(D, C) => Cov(B, C)
  BY DEF Cov, InBlock
<1> PICK a : a = Merge!Authoring(p, s)
  OBVIOUS
<1>6. a \in Seq(T) /\ Cov(B, a) /\ Len(a) \in Nat
  <2>1. CASE p.kind = "resources"
    BY <1>3, <1>5, <2>1, AuthoringIs
  <2>2. CASE p.kind # "resources"
    <3>1. a = <<>>
        BY <2>2 DEF Merge!Authoring
    <3> QED BY <3>1 DEF Cov
  <2> QED BY <2>1, <2>2
<1> DEFINE ss == [i \in 1..n |-> Merge!CueCommands(p, s, cues[i])]
<1> PICK F : F = Merge!FlattenSeq(ss)
  OBVIOUS
<1>7. Merge!CommandsOf(p, s) = (a \o F) \o o
  <2>1. Len(cues) = n
    BY <1>2
  <2>2. ss = [k \in 1..Len(cues) |-> Merge!CueCommands(p, s, cues[k])]
    BY <2>1
  <2> HIDE DEF ss
  <2> QED BY <2>2, Zenon DEF Merge!CommandsOf
<1>8. \A c \in Cues : Merge!CueCommands(p, s, c) \in Seq(T) /\ Cov(B, Merge!CueCommands(p, s, c))
  BY <1>3, <1>5, CueCommandsAre
<1>9. ss \in [1..n -> Seq(T)] /\ \A i \in 1..n : Cov(B, ss[i])
  BY <1>2, <1>8
<1> HIDE DEF ss
<1>10. F \in Seq(T) /\ Cov(B, F) /\ \A i \in 1..n : \E k : Win(ss[i], F, k)
  BY <1>2, <1>3, <1>9, Flattened, CovFlat
<1> PICK u : u = a \o F
  OBVIOUS
<1>11. u \in Seq(T) /\ Cov(B, u) /\ Win(a, u, 0) /\ Win(F, u, Len(a)) /\ Len(u) \in Nat
  <2>1. u \in Seq(T)
    BY <1>6, <1>10
  <2>2. Win(a, u, 0) /\ Win(F, u, Len(a))
    BY <1>6, <1>10, WinTop
  <2>3. Cov(B, u)
    BY <1>3, <1>6, <1>10, CovCat
  <2> QED BY <2>1, <2>2, <2>3
<1> PICK w : w = u \o o
  OBVIOUS
<1>12. w \in Seq(T) /\ Cov(B, w) /\ Win(u, w, 0) /\ Win(o, w, Len(u)) /\ Len(w) = Len(u) + 1
  <2>1. w \in Seq(T) /\ Len(w) = Len(u) + 1
    BY <1>4, <1>11
  <2>2. Win(u, w, 0) /\ Win(o, w, Len(u))
    BY <1>4, <1>11, WinTop
  <2>3. Cov(B, w)
    BY <1>3, <1>4, <1>11, CovCat
  <2> QED BY <2>1, <2>2, <2>3
<1>13. Len(w) # 0 /\ w[Len(w)] = Merge!Clear
  <2>1. w[Len(u) + 1] = o[1]
    BY <1>4, <1>12 DEF Win
  <2> QED BY <1>4, <1>11, <1>12, <2>1
<1>14. ASSUME NEW c \in Cues
       PROVE  /\ \E k : Win(Merge!CallPreset(p, s, c), w, k)
              /\ \E k : Win(Merge!CallEffect(p, c), w, k)
              /\ p.kind # "resources" => \E k : Win(MoveBlock(p, c, Merge!Store(c)), w, k)
  <2>1. PICK i \in 1..n : cues[i] = c
    BY <1>2
  <2> PICK v : v = Merge!CueCommands(p, s, c)
    OBVIOUS
  <2>2. ss[i] = v /\ v \in Seq(T)
    BY <1>8, <2>1 DEF ss
  <2>3. (\E k : Win(v, F, k)) /\ (\E k : Win(F, u, k)) /\ \E k : Win(u, w, k)
    BY <1>10, <1>11, <1>12, <2>2
  <2>4. \E k : Win(v, u, k)
    BY <1>10, <1>11, <2>2, <2>3, HasIn
  <2>5. \E k : Win(v, w, k)
    BY <1>11, <1>12, <2>2, <2>3, <2>4, HasIn
  <2>6. ASSUME NEW b \in Seq(T), \E k : Win(b, v, k) PROVE \E k : Win(b, w, k)
    BY <1>12, <2>2, <2>5, <2>6, HasIn
  <2>7. Merge!CallPreset(p, s, c) \in Seq(T) /\ Merge!CallEffect(p, c) \in Seq(T)
    BY BlocksAre DEF Calling
  <2>8. p.kind # "resources" => MoveBlock(p, c, Merge!Store(c)) \in Seq(T)
    BY BlocksAre DEF Calling
  <2>9. /\ \E k : Win(Merge!CallPreset(p, s, c), v, k)
        /\ \E k : Win(Merge!CallEffect(p, c), v, k)
        /\ p.kind # "resources" => \E k : Win(MoveBlock(p, c, Merge!Store(c)), v, k)
    BY CueCommandsAre
  <2> QED BY <2>6, <2>7, <2>8, <2>9
<1>15. ASSUME p.kind = "resources"
       PROVE  /\ \A m \in 1..Len(a) : m \in 1..Len(w) /\ w[m].op \notin {"preset", "effect", "store"}
              /\ \A c \in Merge!Distinct(p) :
                    \E k : /\ Win(MoveBlock(p, c, Creation(p, s, c)), w, k)
                           /\ k + Len(MoveBlock(p, c, Creation(p, s, c))) <= Len(a)
              /\ \E k : Win(<<Merge!Clear, EffectCreation>>, w, k) /\ k + 2 <= Len(a)
  <2>1. Win(a, w, 0)
    <3>1. Win(a, w, 0 + 0)
        BY <1>6, <1>11, <1>12, WinIn
    <3> QED BY <3>1
  <2>2. ASSUME NEW m \in 1..Len(a)
        PROVE  m \in 1..Len(w) /\ w[m].op \notin {"preset", "effect", "store"}
    <3>1. w[0 + m] = a[m] /\ m \in 1..Len(w)
        BY <1>6, <1>11, <1>12, <2>1 DEF Win
    <3>2. a[m].op \in {"clear", "select", "value", "create preset", "create effect"}
        BY <1>15, AuthoringIs, MakingIs
    <3>3. w[m] = a[m]
        BY <3>1
    <3> QED BY <3>1, <3>2, <3>3
  <2>3. ASSUME NEW b \in Seq(T), \E k : Win(b, a, k)
        PROVE  \E k : Win(b, w, k) /\ k + Len(b) <= Len(a)
    <3>1. PICK k : Win(b, a, k)
        BY <2>3
    <3>2. Win(b, w, 0 + k) /\ k \in Nat /\ k + Len(b) <= Len(a)
      <4>1. Win(b, w, 0 + k)
        BY <1>6, <1>12, <2>1, <3>1, WinIn
      <4> QED BY <3>1, <4>1 DEF Win
    <3>3. 0 + k = k
        BY <3>2
    <3> QED BY <3>2, <3>3
  <2>4. ASSUME NEW c \in Merge!Distinct(p)
        PROVE  \E k : /\ Win(MoveBlock(p, c, Creation(p, s, c)), w, k)
                      /\ k + Len(MoveBlock(p, c, Creation(p, s, c))) <= Len(a)
    <3>1. MoveBlock(p, c, Creation(p, s, c)) \in Seq(T)
        BY BlocksAre DEF Making
    <3>2. \E k : Win(MoveBlock(p, c, Creation(p, s, c)), a, k)
        BY <1>15, AuthoringIs
    <3> QED BY <2>3, <3>1, <3>2
  <2>5. \E k : Win(<<Merge!Clear, EffectCreation>>, w, k) /\ k + 2 <= Len(a)
    <3> PICK e : e = <<Merge!Clear, EffectCreation>>
        OBVIOUS
    <3>1. e \in Seq(T) /\ Len(e) = 2
        BY BlocksAre DEF Making
    <3>2. \E k : Win(e, a, k)
        BY <1>15, AuthoringIs
    <3>3. \E k : Win(e, w, k) /\ k + Len(e) <= Len(a)
        BY <2>3, <3>1, <3>2
    <3> QED BY <3>1, <3>3
  <2> QED BY <2>2, <2>4, <2>5
<1>16. Merge!CommandsOf(p, s) = w
  BY <1>7
<1> QED BY <1>6, <1>12, <1>13, <1>14, <1>15, <1>16

\* Cues of an equal position share a number that was free, others do not.
LEMMA NumbersAre ==
    ASSUME Merge!CueMergeAssumption, NEW p \in Plans, NEW s, Merge!Fits(p, s),
           p.kind = "resources"
    PROVE  /\ \A c \in Cues : \E d \in Merge!Distinct(p) :
                 p.cue[d].raw = p.cue[c].raw /\ Merge!NumberOf(p, s, d) = Merge!NumberOf(p, s, c)
           /\ \A d \in Merge!Distinct(p) :
                 Merge!NumberOf(p, s, d) \in Merge!Numbers /\ s.preset[Merge!NumberOf(p, s, d)] = None
           /\ \A c, d \in Merge!Distinct(p) :
                 Merge!NumberOf(p, s, c) = Merge!NumberOf(p, s, d) => c = d
<1> PICK D : D = Merge!Distinct(p)
  OBVIOUS
<1> DEFINE upTo(d) == {e \in D : e <= d}
           rank(d) == Cardinality(upTo(d))
           first(c) == CHOOSE d \in D : p.cue[d].raw = p.cue[c].raw
<1>1. Cues \in SUBSET Nat /\ IsFiniteSet(Cues) /\ D \in SUBSET Cues
  BY MergeFinite DEF Merge!CueMergeAssumption, Merge!Distinct
<1>2. IsFiniteSet(D) /\ Cardinality(D) \in Nat
  BY <1>1, FS_Subset, FS_CardinalityType
<1>3. ASSUME NEW c \in Cues PROVE first(c) \in D /\ p.cue[first(c)].raw = p.cue[c].raw
  <2> DEFINE Same == {d \in Cues : p.cue[d].raw = p.cue[c].raw}
  <2>1. PICK d \in Same : \A e \in Same : d <= e
    <3>1. Same \in SUBSET Nat /\ Same # {}
      BY <1>1
    <3> HIDE DEF Same
    <3> QED BY <3>1, LeastNumber
  <2>2. d \in D
    <3>1. \A e \in Cues : e < d => p.cue[e].raw # p.cue[d].raw
      BY <1>1, <2>1
    <3> QED BY <2>1, <3>1 DEF Merge!Distinct
  <2> QED BY <2>1, <2>2
<1>4. \A c, d \in D : p.cue[c].raw = p.cue[d].raw => c = d
  <2> SUFFICES ASSUME NEW c \in D, NEW d \in D, p.cue[c].raw = p.cue[d].raw PROVE c = d
    OBVIOUS
  <2>1. c \in Cues /\ d \in Cues /\ ~(c < d) /\ ~(d < c)
    BY DEF Merge!Distinct
  <2>2. c \in Nat /\ d \in Nat
    BY <1>1, <2>1
  <2> QED BY <2>1, <2>2
<1>5. \A d \in D : first(d) = d
  <2> SUFFICES ASSUME NEW d \in D PROVE first(d) = d
    OBVIOUS
  <2>1. first(d) \in D /\ p.cue[first(d)].raw = p.cue[d].raw
    BY <1>1, <1>3
  <2> HIDE DEF first
  <2> QED BY <1>4, <2>1
<1> PICK F : F = {n \in Merge!Numbers : s.preset[n] = None}
  OBVIOUS
<1> PICK n : n = Cardinality(F)
  OBVIOUS
<1> PICK L : L = Merge!Sorted(F)
  OBVIOUS
<1>6. n \in Nat /\ L \in [1..n -> F] /\ \A i, j \in 1..n : i < j => L[i] < L[j]
  <2>1. Merge!Numbers \in SUBSET Nat /\ IsFiniteSet(Merge!Numbers)
    <3>1. Merge!Cardinality(Cues) + 1 \in Nat
      BY <1>1, MergeCounts, FS_CardinalityType
    <3>2. IsFiniteSet(1..(Merge!Cardinality(Cues) + 1))
      BY <3>1, FS_Interval
    <3> QED BY <3>1, <3>2 DEF Merge!Numbers
  <2>2. F \in SUBSET Nat /\ IsFiniteSet(F)
    BY <2>1, FS_Subset
  <2> QED BY <2>2, SortedIs
<1>7. Cardinality(D) <= n
  <2>1. Merge!FreeNumbers(s) = L
    BY DEF Merge!FreeNumbers
  <2>2. Merge!Cardinality(D) <= Len(L)
    BY <2>1 DEF Merge!Fits, Merge!ResourcesFit
  <2>3. Len(L) = n
    BY <1>6
  <2> QED BY <2>2, <2>3, MergeCounts
<1>8. ASSUME NEW d \in D
      PROVE  /\ rank(d) \in 1..n
             /\ \A c \in D : c < d => rank(c) < rank(d)
  <2>1. IsFiniteSet(upTo(d)) /\ rank(d) \in Nat /\ rank(d) <= Cardinality(D)
    <3>1. upTo(d) \in SUBSET D
      OBVIOUS
    <3> QED BY <1>2, <3>1, FS_Subset, FS_CardinalityType
  <2>2. d \in upTo(d) /\ d \in Nat
    BY <1>1
  <2>3. rank(d) # 0
    <3>1. upTo(d) # {}
      BY <2>2
    <3> HIDE DEF upTo
    <3> QED BY <2>1, <3>1, FS_EmptySet
  <2>4. ASSUME NEW c \in D, c < d PROVE rank(c) < rank(d)
    <3>1. upTo(c) \in SUBSET upTo(d) /\ d \notin upTo(c)
      <4>1. c \in Nat /\ \A e \in D : e \in Nat
        BY <1>1
      <4>2. \A e \in D : e <= c => e <= d
        BY <2>2, <2>4, <4>1
      <4>3. ~(d <= c)
        BY <2>2, <2>4, <4>1
      <4> QED BY <4>2, <4>3
    <3>2. upTo(c) # upTo(d)
      BY <2>2, <3>1
    <3> HIDE DEF upTo
    <3> QED BY <2>1, <3>1, <3>2, FS_Subset, FS_CardinalityType
  <2> HIDE DEF upTo
  <2> QED BY <1>2, <1>6, <1>7, <2>1, <2>3, <2>4
<1>9. \A c \in Cues : Merge!NumberOf(p, s, c) = L[rank(first(c))]
  <2> SUFFICES ASSUME NEW c \in Cues PROVE Merge!NumberOf(p, s, c) = L[rank(first(c))]
    OBVIOUS
  <2>1. L = Merge!FreeNumbers(s)
    BY DEF Merge!FreeNumbers
  <2>2. Merge!NumberOf(p, s, c) = L[Merge!Cardinality({d \in D : d <= first(c)})]
    BY <2>1 DEF Merge!NumberOf
  <2> QED BY <2>2, MergeCounts
<1> HIDE DEF rank, first
<1>10. \A d \in D : Merge!NumberOf(p, s, d) = L[rank(d)] /\ rank(d) \in 1..n
  BY <1>1, <1>5, <1>8, <1>9
<1>11. ASSUME NEW c \in Cues
       PROVE  \E d \in D : p.cue[d].raw = p.cue[c].raw /\ Merge!NumberOf(p, s, d) = Merge!NumberOf(p, s, c)
  <2>1. first(c) \in D /\ Merge!NumberOf(p, s, first(c)) = L[rank(first(c))]
    BY <1>3, <1>10
  <2> QED BY <1>3, <1>9, <2>1
<1>12. \A d \in D : Merge!NumberOf(p, s, d) \in F
  BY <1>6, <1>10
<1>13. ASSUME NEW c \in D, NEW d \in D, Merge!NumberOf(p, s, c) = Merge!NumberOf(p, s, d)
       PROVE  c = d
  <2> PICK i, j : i = rank(c) /\ j = rank(d)
    OBVIOUS
  <2>1. i \in 1..n /\ j \in 1..n /\ L[i] = L[j]
    BY <1>10, <1>13
  <2>2. L[i] \in Nat /\ L[j] \in Nat
    <3>1. \A e \in F : e \in Nat
      BY DEF Merge!Numbers
    <3> QED BY <1>6, <2>1, <3>1
  <2>3. ~(i < j) /\ ~(j < i)
    BY <1>6, <2>1, <2>2
  <2>4. i = j
    BY <2>1, <2>3
  <2>5. c \in Nat /\ d \in Nat /\ ~(c < d) /\ ~(d < c)
    <3>1. (c < d => i < j) /\ (d < c => j < i)
      BY <1>8
    <3> QED BY <1>1, <2>1, <2>4, <3>1
  <2> QED BY <2>5
<1> QED BY <1>11, <1>12, <1>13

-----------------------------------------------------------------------------
(* The programmer while the moves of a cue are sent.                        *)

\* The two position slots of the j-th fixture, and the fixtures that move with the i-th.
Attribute(k) == IF k = 1 THEN "PAN" ELSE "TILT"
Slot2(j, k)  == <<Order[j], Attribute(k)>>
Members(p, c, i) == {Order[j] : j \in Alike(p, c, i)}

\* After m of them: only positions of the cue are active, those of the groups
\* that had their values are there, and the group whose turn it is is selected.
AfterMoves(p, c, g, m) ==
    /\ \A x \in Merge!Slots : g.row[x].preset = None /\ g.row[x].effect = None
    /\ \A x \in Merge!Slots : g.row[x].value # None =>
          \E j \in 1..Len(Order), k \in 1..2 :
             x = Slot2(j, k) /\ g.row[x].value = Merge!Sent(p, c, j)[k]
    /\ m = 0 => g.selection = {}
    /\ m > 0 /\ Merge!Moves(p, c)[m].op = "value" => g.used
    /\ \A i \in 1..Len(Order), l \in Nat :
          Win(Triple(p, c, i), Merge!Moves(p, c), l) =>
             /\ m \in (l + 1)..(l + 3) => g.selection = Members(p, c, i)
             /\ \A j \in Alike(p, c, i), k \in 1..2 :
                   m >= (l + 1) + k => g.row[Slot2(j, k)].value = Merge!Sent(p, c, j)[k]

\* The pan and tilt of the fixtures are slots, each of one fixture and attribute.
LEMMA PositionSlots ==
    ASSUME Merge!CueMergeAssumption
    PROVE  /\ \A j \in 1..Len(Order), k \in 1..2 :
                 /\ Slot2(j, k) \in Merge!Slots /\ Slot2(j, k)[1] = Order[j]
                 /\ Slot2(j, k)[2] = Attribute(k) /\ Merge!OnTarget(Slot2(j, k))
                 /\ Slot2(j, k) = <<Order[j], <<"PAN", "TILT">>[k]>>
                 /\ Order[j] \in Merge!Targets
           /\ \A i, j \in 1..Len(Order), k, l \in 1..2 : Slot2(i, k) = Slot2(j, l) => i = j /\ k = l
           /\ \A x \in Merge!Slots :
                 Merge!OnTarget(x) /\ x[2] \in {"PAN", "TILT"} =>
                    \E j \in 1..Len(Order), k \in 1..2 : x = Slot2(j, k)
<1>1. ASSUME NEW j \in 1..Len(Order), NEW k \in 1..2
      PROVE  /\ Slot2(j, k) \in Merge!Slots /\ Slot2(j, k)[1] = Order[j]
             /\ Slot2(j, k)[2] = Attribute(k) /\ Merge!OnTarget(Slot2(j, k))
             /\ Slot2(j, k) = <<Order[j], <<"PAN", "TILT">>[k]>>
             /\ Order[j] \in Merge!Targets
  <2>1. Order[j] \in Merge!Targets /\ Order[j] \in Merge!Fixtures
    BY OrderIsSeq DEF Merge!Fixtures
  <2>2. Attribute(k) \in {"PAN", "TILT"} /\ Attribute(k) = <<"PAN", "TILT">>[k]
    BY DEF Attribute
  <2> QED BY <2>1, <2>2, SlotIs DEF Slot2, Merge!OnTarget
<1>2. ASSUME NEW i \in 1..Len(Order), NEW j \in 1..Len(Order), NEW k \in 1..2, NEW l \in 1..2,
             Slot2(i, k) = Slot2(j, l)
      PROVE  i = j /\ k = l
  <2>1. Order[i] = Order[j] /\ Attribute(k) = Attribute(l)
    BY <1>2 DEF Slot2
  <2> QED BY <2>1, OrderIsSeq DEF Attribute
<1>3. ASSUME NEW x \in Merge!Slots, Merge!OnTarget(x), x[2] \in {"PAN", "TILT"}
      PROVE  \E j \in 1..Len(Order), k \in 1..2 : x = Slot2(j, k)
  <2>1. PICK j \in 1..Len(Order) : x[1] = Order[j]
    BY <1>3, TargetIs
  <2>2. x = <<Order[j], x[2]>>
    BY <2>1, SlotsAre
  <2>3. x[2] = Attribute(1) \/ x[2] = Attribute(2)
    BY <1>3 DEF Attribute
  <2> QED BY <2>2, <2>3 DEF Slot2
<1> QED BY <1>1, <1>2, <1>3

\* What the programmer becomes by a command.
LEMMA ProgrammerSelects ==
    ASSUME NEW cmd, cmd.op = "select", IsProgrammer(prog)
    PROVE  /\ Merge!Programmer(cmd).row = prog.row
           /\ Merge!Programmer(cmd).used = FALSE
           /\ Merge!Programmer(cmd).selection =
                 IF prog.used THEN cmd.fixtures ELSE prog.selection \cup cmd.fixtures
<1> PICK g : g = Merge!Programmer(cmd)
  OBVIOUS
<1>1. g = Merge!Selected(cmd.fixtures)
  BY DEF Merge!Programmer
<1>2. g = [prog EXCEPT !.selection = IF prog.used THEN cmd.fixtures ELSE @ \cup cmd.fixtures,
                       !.used = FALSE]
  BY <1>1 DEF Merge!Selected
<1> QED BY <1>2 DEF IsProgrammer

\* A value, a preset or an effect goes to the selected fixtures and nothing else.
LEMMA ProgrammerGiven ==
    ASSUME NEW cmd, cmd.op = "value" \/ cmd.op = "preset" \/ cmd.op = "effect", IsProgrammer(prog)
    PROVE  /\ Merge!Programmer(cmd).selection = prog.selection
           /\ Merge!Programmer(cmd).used = TRUE
           /\ \A x \in Merge!Slots :
                 Merge!Programmer(cmd).row[x] =
                    IF x[1] \in prog.selection /\ x[2] \in Merge!Attributes(cmd)
                    THEN Merge!Given(cmd, x, prog.row[x]) ELSE prog.row[x]
<1> PICK g : g = Merge!Programmer(cmd)
  OBVIOUS
<1>1. g = [prog EXCEPT !.used = TRUE,
              !.row = [x \in Merge!Slots |->
                         IF x[1] \in prog.selection /\ x[2] \in Merge!Attributes(cmd)
                         THEN Merge!Given(cmd, x, prog.row[x]) ELSE prog.row[x]]]
  BY DEF Merge!Programmer
<1> QED BY <1>1 DEF IsProgrammer

\* What a slot is given by each of the three.
LEMMA GivenParts ==
    ASSUME NEW cmd, NEW x \in Merge!Slots, IsProgrammer(prog)
    PROVE  /\ cmd.op = "value" =>
                 /\ Merge!Given(cmd, x, prog.row[x]).value = cmd.to
                 /\ Merge!Given(cmd, x, prog.row[x]).preset = None
                 /\ Merge!Given(cmd, x, prog.row[x]).effect = prog.row[x].effect
           /\ cmd.op = "preset" =>
                 /\ Merge!Given(cmd, x, prog.row[x]).value = Merge!Held(cmd.preset, x[1], x[2])
                 /\ Merge!Given(cmd, x, prog.row[x]).preset = cmd.preset
                 /\ Merge!Given(cmd, x, prog.row[x]).effect = prog.row[x].effect
           /\ cmd.op = "effect" =>
                 /\ Merge!Given(cmd, x, prog.row[x]).value = prog.row[x].value
                 /\ Merge!Given(cmd, x, prog.row[x]).preset = prog.row[x].preset
                 /\ Merge!Given(cmd, x, prog.row[x]).effect = cmd.effect
<1> PICK r : r = prog.row[x]
  OBVIOUS
<1> PICK g : g = Merge!Given(cmd, x, r)
  OBVIOUS
<1>1. r = [value |-> r.value, preset |-> r.preset, effect |-> r.effect]
  BY DEF IsProgrammer, Merge!IsRow
<1>2. cmd.op = "value" => g = [r EXCEPT !.value = cmd.to, !.preset = None]
  BY DEF Merge!Given
<1>3. cmd.op = "preset" =>
         g = [r EXCEPT !.value = Merge!Held(cmd.preset, x[1], x[2]), !.preset = cmd.preset]
  BY DEF Merge!Given
<1>4. cmd.op = "effect" => g = [r EXCEPT !.effect = cmd.effect]
  BY DEF Merge!Given
<1>5. cmd.op = "value" => g.value = cmd.to /\ g.preset = None /\ g.effect = r.effect
  BY <1>1, <1>2
<1>6. cmd.op = "preset" =>
         /\ g.value = Merge!Held(cmd.preset, x[1], x[2])
         /\ g.preset = cmd.preset /\ g.effect = r.effect
  BY <1>1, <1>3
<1>7. cmd.op = "effect" => g.value = r.value /\ g.preset = r.preset /\ g.effect = cmd.effect
  BY <1>1, <1>4
<1> QED BY <1>5, <1>6, <1>7

\* Nothing is in a programmer that was cleared,
LEMMA ClearedParts ==
    /\ Merge!Cleared.selection = {} /\ Merge!Cleared.used = FALSE
    /\ \A x \in Merge!Slots : /\ Merge!Cleared.row[x].value = None
                              /\ Merge!Cleared.row[x].preset = None
                              /\ Merge!Cleared.row[x].effect = None
  BY DEF Merge!Cleared, Merge!Blank

\* which is where the moves of a cue begin.
LEMMA MovesBegin ==
    ASSUME Merge!CueMergeAssumption, NEW p \in Plans, NEW c \in Cues
    PROVE  AfterMoves(p, c, Merge!Cleared, 0)
  BY ClearedParts DEF AfterMoves

\* What a command of a triple is.
LEMMA TripleAt ==
    ASSUME NEW p, NEW c, NEW i, NEW M, NEW l \in Nat, Win(Triple(p, c, i), M, l)
    PROVE  /\ M[l + 1].op = "select" /\ M[l + 1].fixtures = Members(p, c, i)
           /\ \A k \in 1..2 : /\ M[(l + 1) + k].op = "value"
                              /\ M[(l + 1) + k].attribute = Attribute(k)
                              /\ M[(l + 1) + k].to = Merge!Sent(p, c, i)[k]
<1> PICK t : t = Triple(p, c, i)
  OBVIOUS
<1>1. /\ Len(t) = 3 /\ t[1].op = "select" /\ t[1].fixtures = Members(p, c, i)
      /\ t[2].op = "value" /\ t[2].attribute = "PAN" /\ t[2].to = Merge!Sent(p, c, i)[1]
      /\ t[3].op = "value" /\ t[3].attribute = "TILT" /\ t[3].to = Merge!Sent(p, c, i)[2]
  <2>1. /\ t[1] = [op |-> "select", fixtures |-> Members(p, c, i)]
        /\ t[2] = [op |-> "value", attribute |-> "PAN",  to |-> Merge!Sent(p, c, i)[1]]
        /\ t[3] = [op |-> "value", attribute |-> "TILT", to |-> Merge!Sent(p, c, i)[2]]
        /\ Len(t) = 3
    BY TripleIs DEF Members
  <2> QED BY <2>1
<1>2. \A m \in 1..3 : M[l + m] = t[m]
  BY <1>1 DEF Win
<1>3. M[l + 1] = t[1] /\ M[l + 2] = t[2] /\ M[l + 3] = t[3]
  BY <1>2
<1>4. ASSUME NEW k \in 1..2
      PROVE  /\ M[(l + 1) + k].op = "value" /\ M[(l + 1) + k].attribute = Attribute(k)
             /\ M[(l + 1) + k].to = Merge!Sent(p, c, i)[k]
  <2>1. CASE k = 1
    <3>1. (l + 1) + k = l + 2
      BY <2>1
    <3> QED BY <1>1, <1>3, <2>1, <3>1 DEF Attribute
  <2>2. CASE k = 2
    <3>1. (l + 1) + k = l + 3
      BY <2>2
    <3> QED BY <1>1, <1>3, <2>2, <3>1 DEF Attribute
  <2> QED BY <2>1, <2>2
<1> QED BY <1>1, <1>3, <1>4

\* The next move goes where it should.
LEMMA MovesGoOn ==
    ASSUME Merge!CueMergeAssumption, NEW p \in Plans, NEW s, Merge!Fits(p, s), NEW c \in Cues,
           NEW m \in Nat, m + 1 \in 1..Len(Merge!Moves(p, c)),
           AfterMoves(p, c, prog, m), IsProgrammer(prog)
    PROVE  AfterMoves(p, c, Merge!Programmer(Merge!Moves(p, c)[m + 1]), m + 1)
<1> PICK M : M = Merge!Moves(p, c)
  OBVIOUS
<1> PICK cmd : cmd = M[m + 1]
  OBVIOUS
<1> PICK g : g = Merge!Programmer(cmd)
  OBVIOUS
<1> DEFINE Places == {q \in (1..Len(Order)) \X Nat : Win(Triple(p, c, q[1]), M, q[2])}
           Sends(j, k) == Merge!Sent(p, c, j)[k]
<1>1. ASSUME NEW n \in 1..Len(M)
      PROVE  \E i \in 1..Len(Order), l \in Nat :
                /\ Win(Triple(p, c, i), M, l)
                /\ n = l + 1 \/ \E k \in 1..2 : n = (l + 1) + k
  <2>1. PICK i \in 1..Len(Order), l \in Nat : Win(Triple(p, c, i), M, l) /\ n \in (l + 1)..(l + 3)
    BY MovesAre
  <2>2. n = l + 1 \/ n = (l + 1) + 1 \/ n = (l + 1) + 2
    BY <2>1
  <2> QED BY <2>1, <2>2
<1>2. \A i, l : l \in Nat /\ Win(Triple(p, c, i), M, l) =>
         /\ M[l + 1].op = "select" /\ M[l + 1].fixtures = Members(p, c, i)
         /\ \A k \in 1..2 : /\ M[(l + 1) + k].op = "value"
                            /\ M[(l + 1) + k].attribute = Attribute(k)
                            /\ M[(l + 1) + k].to = Sends(i, k)
  BY TripleAt
<1>3. /\ \A x \in Merge!Slots : prog.row[x].preset = None /\ prog.row[x].effect = None
      /\ \A x \in Merge!Slots : prog.row[x].value # None =>
            \E j \in 1..Len(Order), k \in 1..2 :
               x = Slot2(j, k) /\ prog.row[x].value = Sends(j, k)
      /\ m = 0 => prog.selection = {}
      /\ m > 0 /\ M[m].op = "value" => prog.used
      /\ \A i \in 1..Len(Order), l \in Nat :
            Win(Triple(p, c, i), M, l) =>
               /\ m \in (l + 1)..(l + 3) => prog.selection = Members(p, c, i)
               /\ \A j \in Alike(p, c, i), k \in 1..2 :
                     m >= (l + 1) + k => prog.row[Slot2(j, k)].value = Sends(j, k)
  BY DEF AfterMoves
<1>4. \A i \in 1..Len(Order), j \in 1..Len(Order) :
         j \in Alike(p, c, i) => \A k \in 1..2 : Sends(j, k) = Sends(i, k)
  BY DEF Alike
<1>5. \A i \in 1..Len(Order), j \in 1..Len(Order) :
         Order[j] \in Members(p, c, i) <=> j \in Alike(p, c, i)
  <2>1. \A i \in 1..Len(Order) : Alike(p, c, i) \in SUBSET (1..Len(Order))
    BY DEF Alike
  <2> QED BY <2>1, OrderIsSeq DEF Members
<1>6. ASSUME cmd.op = "select"
      PROVE  AfterMoves(p, c, g, m + 1)
  <2>1. g.row = prog.row /\ g.selection = IF prog.used THEN cmd.fixtures ELSE prog.selection \cup cmd.fixtures
    BY <1>6, ProgrammerSelects
  <2>2. m > 0 => prog.used
    <3>1. SUFFICES ASSUME m > 0, M[m].op = "select" PROVE FALSE
      <4>1. m \in 1..Len(M) => M[m].op \in {"select", "value"}
        BY MoveIs
      <4>2. m > 0 => m \in 1..Len(M)
        OBVIOUS
      <4> QED BY <1>3, <4>1, <4>2
    <3>2. PICK i \in 1..Len(Order), l \in Nat :
             /\ Win(Triple(p, c, i), M, l)
             /\ m = l + 1 \/ \E k \in 1..2 : m = (l + 1) + k
      <4>1. m \in 1..Len(M)
        BY <3>1
      <4> QED BY <1>1, <4>1
    <3>3. m = l + 1
      <4>1. \A k \in 1..2 : M[(l + 1) + k].op = "value"
        BY <1>2, <3>2
      <4> QED BY <3>1, <3>2, <4>1
    <3>4. M[(l + 1) + 1].op = "value" /\ m + 1 = (l + 1) + 1
      BY <1>2, <3>2, <3>3
    <3> QED BY <1>6, <3>4
  <2>3. g.selection = cmd.fixtures
    <3>1. CASE m = 0
      <4>1. prog.selection = {}
        BY <1>3, <3>1
      <4> QED BY <2>1, <4>1
    <3>2. CASE m > 0
      BY <2>1, <2>2, <3>2
    <3> QED BY <3>1, <3>2
  <2>4. ASSUME NEW i \in 1..Len(Order), NEW l \in Nat, Win(Triple(p, c, i), M, l)
        PROVE  /\ m + 1 \in (l + 1)..(l + 3) => g.selection = Members(p, c, i)
               /\ \A j \in Alike(p, c, i), k \in 1..2 :
                     m + 1 >= (l + 1) + k => g.row[Slot2(j, k)].value = Sends(j, k)
    <3>1. \A k \in 1..2 : m + 1 # (l + 1) + k
      BY <1>2, <1>6, <2>4
    <3>2. ASSUME m + 1 \in (l + 1)..(l + 3) PROVE g.selection = Members(p, c, i)
      <4>1. m + 1 = l + 1
        BY <3>1, <3>2
      <4> QED BY <1>2, <2>3, <2>4, <4>1
    <3>3. ASSUME NEW j \in Alike(p, c, i), NEW k \in 1..2, m + 1 >= (l + 1) + k
          PROVE  g.row[Slot2(j, k)].value = Sends(j, k)
      <4>1. m >= (l + 1) + k
        BY <3>1, <3>3
      <4> QED BY <1>3, <2>1, <2>4, <4>1
    <3> QED BY <3>2, <3>3
  <2>5. M[m + 1].op # "value"
    BY <1>6
  <2> QED BY <1>3, <2>1, <2>4, <2>5 DEF AfterMoves
<1>7. ASSUME cmd.op = "value"
      PROVE  AfterMoves(p, c, g, m + 1)
  <2>1. PICK i \in 1..Len(Order), l \in Nat, k \in 1..2 :
           Win(Triple(p, c, i), M, l) /\ m + 1 = (l + 1) + k
    <3>1. PICK i \in 1..Len(Order), l \in Nat :
             /\ Win(Triple(p, c, i), M, l)
             /\ m + 1 = l + 1 \/ \E k \in 1..2 : m + 1 = (l + 1) + k
      BY <1>1
    <3>2. m + 1 # l + 1
      <4>1. M[l + 1].op = "select"
        BY <1>2, <3>1
      <4> QED BY <1>7, <4>1
    <3> QED BY <3>1, <3>2
  <2>2. cmd.attribute = Attribute(k) /\ cmd.to = Sends(i, k)
    BY <1>2, <2>1
  <2>3. prog.selection = Members(p, c, i)
    <3>1. m \in (l + 1)..(l + 3)
      BY <2>1
    <3> QED BY <1>3, <2>1, <3>1
  <2>4. /\ g.selection = prog.selection /\ g.used = TRUE
        /\ \A x \in Merge!Slots :
              LET given == x[1] \in Members(p, c, i) /\ x[2] = Attribute(k)
              IN  /\ g.row[x].value = IF given THEN Sends(i, k) ELSE prog.row[x].value
                  /\ g.row[x].preset = None /\ g.row[x].effect = None
    <3>1. Merge!Attributes(cmd) = {Attribute(k)}
      BY <1>7, <2>2 DEF Merge!Attributes
    <3>2. g.selection = prog.selection /\ g.used = TRUE
      BY <1>7, ProgrammerGiven
    <3>3. ASSUME NEW x \in Merge!Slots
          PROVE  LET given == x[1] \in Members(p, c, i) /\ x[2] = Attribute(k)
                 IN  /\ g.row[x].value = IF given THEN Sends(i, k) ELSE prog.row[x].value
                     /\ g.row[x].preset = None /\ g.row[x].effect = None
      <4>1. g.row[x] = IF x[1] \in Members(p, c, i) /\ x[2] = Attribute(k)
                       THEN Merge!Given(cmd, x, prog.row[x]) ELSE prog.row[x]
        <5>1. g.row[x] = IF x[1] \in prog.selection /\ x[2] \in Merge!Attributes(cmd)
                         THEN Merge!Given(cmd, x, prog.row[x]) ELSE prog.row[x]
          BY <1>7, ProgrammerGiven
        <5> QED BY <2>3, <3>1, <5>1
      <4>2. /\ Merge!Given(cmd, x, prog.row[x]).value = Sends(i, k)
            /\ Merge!Given(cmd, x, prog.row[x]).preset = None
            /\ Merge!Given(cmd, x, prog.row[x]).effect = None
        BY <1>3, <1>7, <2>2, GivenParts
      <4> QED BY <1>3, <4>1, <4>2
    <3> QED BY <3>2, <3>3
  <2> HIDE DEF Sends
  <2>5. ASSUME NEW j \in 1..Len(Order), NEW q \in 1..2
        PROVE  /\ Slot2(j, q) \in Merge!Slots
               /\ g.row[Slot2(j, q)].value =
                     IF j \in Alike(p, c, i) /\ q = k THEN Sends(j, q) ELSE prog.row[Slot2(j, q)].value
    <3>1. Slot2(j, q) \in Merge!Slots /\ Slot2(j, q)[1] = Order[j] /\ Slot2(j, q)[2] = Attribute(q)
      BY PositionSlots
    <3>2. Attribute(q) = Attribute(k) <=> q = k
      BY DEF Attribute
    <3>3. g.row[Slot2(j, q)].value =
             IF j \in Alike(p, c, i) /\ q = k THEN Sends(i, k) ELSE prog.row[Slot2(j, q)].value
      BY <1>5, <2>1, <2>4, <3>1, <3>2
    <3> QED BY <1>4, <2>1, <3>1, <3>3
  <2>6. ASSUME NEW x \in Merge!Slots, g.row[x].value # None
        PROVE  \E j \in 1..Len(Order), q \in 1..2 : x = Slot2(j, q) /\ g.row[x].value = Sends(j, q)
    <3>1. CASE x[1] \in Members(p, c, i) /\ x[2] = Attribute(k)
      <4>1. PICK j \in Alike(p, c, i) : x[1] = Order[j]
        BY <3>1 DEF Members
      <4>2. j \in 1..Len(Order) /\ x = Slot2(j, k)
        BY <3>1, <4>1, SlotsAre DEF Alike, Slot2
      <4> QED BY <2>1, <2>5, <4>1, <4>2
    <3>2. CASE ~(x[1] \in Members(p, c, i) /\ x[2] = Attribute(k))
      <4>1. g.row[x].value = prog.row[x].value
        BY <2>4, <3>2
      <4> QED BY <1>3, <2>6, <4>1
    <3> QED BY <3>1, <3>2
  <2>7. ASSUME NEW h \in 1..Len(Order), NEW n \in Nat, Win(Triple(p, c, h), M, n)
        PROVE  /\ m + 1 \in (n + 1)..(n + 3) => g.selection = Members(p, c, h)
               /\ \A j \in Alike(p, c, h), q \in 1..2 :
                     m + 1 >= (n + 1) + q => g.row[Slot2(j, q)].value = Sends(j, q)
    <3>1. m + 1 # n + 1
      BY <1>2, <1>7, <2>7
    <3>2. ASSUME m + 1 \in (n + 1)..(n + 3) PROVE g.selection = Members(p, c, h)
      <4>1. m \in (n + 1)..(n + 3)
        BY <3>1, <3>2
      <4> QED BY <1>3, <2>4, <2>7, <4>1
    <3>3. ASSUME NEW j \in Alike(p, c, h), NEW q \in 1..2, m + 1 >= (n + 1) + q
          PROVE  g.row[Slot2(j, q)].value = Sends(j, q)
      <4>1. j \in 1..Len(Order)
        BY DEF Alike
      <4>2. CASE m >= (n + 1) + q
        <5>1. prog.row[Slot2(j, q)].value = Sends(j, q)
          BY <1>3, <2>7, <4>2
        <5> QED BY <2>5, <4>1, <5>1
      <4>3. CASE m + 1 = (n + 1) + q
        <5>1. Attribute(q) = Attribute(k)
          BY <1>2, <2>2, <2>7, <4>3
        <5>2. q = k
          BY <2>1, <5>1 DEF Attribute
        <5>3. prog.selection = Members(p, c, h)
          <6>1. m \in (n + 1)..(n + 3)
            BY <4>3
          <6> QED BY <1>3, <2>7, <6>1
        <5>4. j \in Alike(p, c, i)
          BY <1>5, <2>1, <2>3, <4>1, <5>3
        <5> QED BY <2>5, <4>1, <5>2, <5>4
      <4> QED BY <3>3, <4>2, <4>3
    <3> QED BY <3>2, <3>3
  <2> QED BY <2>4, <2>6, <2>7 DEF AfterMoves, Sends
<1>8. cmd.op \in {"select", "value"}
  BY MoveIs
<1> QED BY <1>6, <1>7, <1>8

\* After the last of them every position of the cue is active.
LEMMA MovesEnd ==
    ASSUME Merge!CueMergeAssumption, NEW p \in Plans, NEW s, Merge!Fits(p, s), NEW c \in Cues,
           NEW g, AfterMoves(p, c, g, Len(Merge!Moves(p, c)))
    PROVE  \A j \in 1..Len(Order), k \in 1..2 :
              g.row[Slot2(j, k)].value = Merge!Sent(p, c, j)[k]
<1> SUFFICES ASSUME NEW j \in 1..Len(Order), NEW k \in 1..2
             PROVE  g.row[Slot2(j, k)].value = Merge!Sent(p, c, j)[k]
  OBVIOUS
<1> PICK M : M = Merge!Moves(p, c)
  OBVIOUS
<1>1. PICK i \in 1..Len(Order), l \in Nat :
         j \in Alike(p, c, i) /\ Win(Triple(p, c, i), M, l)
  BY MovesAre
<1>2. l + 3 <= Len(M) /\ Len(M) \in Nat
  <2>1. Len(Triple(p, c, i)) = 3
    BY TripleIs
  <2>2. Len(M) \in Nat
    BY MovesAre
  <2> QED BY <1>1, <2>1, <2>2 DEF Win
<1>3. Len(M) >= (l + 1) + k
  BY <1>2
<1> QED BY <1>1, <1>3 DEF AfterMoves

\* What the commands of a plan are for.
LEMMA OpsAre ==
    /\ Merge!Clear.op = "clear"
    /\ Merge!Group.op = "select" /\ Merge!Group.fixtures = Merge!Targets
    /\ \A c : Merge!Store(c).op = "store" /\ Merge!Store(c).cue = c
    /\ \A r : Merge!Call(r).op = "preset" /\ Merge!Call(r).preset = r
    /\ \A e : Merge!Effect(e).op = "effect" /\ Merge!Effect(e).effect = e
    /\ EffectCreation.op = "create effect"
  BY DEF Merge!Clear, Merge!Group, Merge!Store, Merge!Call, Merge!Effect, EffectCreation

\* The preset that is created for a cue.
LEMMA CreationIs ==
    ASSUME NEW p, NEW s, NEW c
    PROVE  /\ Creation(p, s, c).op = "create preset"
           /\ Creation(p, s, c).number = Merge!NumberOf(p, s, c)
           /\ Creation(p, s, c).label = p.cue[c].name
  BY DEF Creation

\* A preset is called in the cue c, and which.
Presets(p, c) == Merge!HasColour(p, c) \/ p.kind = "resources"
PresetOf(p, s, c) ==
    IF Merge!HasColour(p, c) THEN Merge!Colour ELSE Merge!Position(Merge!NumberOf(p, s, c))

\* The block that calls a preset, where the cue has one.
LEMMA CallPresetIs ==
    ASSUME NEW p, NEW s, NEW c
    PROVE  /\ ~Presets(p, c) => Merge!CallPreset(p, s, c) = <<>>
           /\ Presets(p, c) =>
                 /\ Len(Merge!CallPreset(p, s, c)) = 4
                 /\ Merge!CallPreset(p, s, c)[1] = Merge!Clear
                 /\ Merge!CallPreset(p, s, c)[2] = Merge!Group
                 /\ Merge!CallPreset(p, s, c)[3] = Merge!Call(PresetOf(p, s, c))
                 /\ Merge!CallPreset(p, s, c)[4] = Merge!Store(c)
<1> PICK b : b = Merge!CallPreset(p, s, c)
  OBVIOUS
<1> PICK y, g, x, z : /\ y = Merge!Clear /\ g = Merge!Group /\ z = Merge!Store(c)
                      /\ x = Merge!Call(PresetOf(p, s, c))
  OBVIOUS
<1>1. ~Presets(p, c) => b = <<>>
  BY DEF Presets, Merge!CallPreset
<1>2. Presets(p, c) => b = <<y, g, x, z>>
  BY DEF Presets, PresetOf, Merge!CallPreset, Merge!HasColour
<1>3. Presets(p, c) => Len(b) = 4 /\ b[1] = y /\ b[2] = g /\ b[3] = x /\ b[4] = z
  BY <1>2
<1> QED BY <1>1, <1>3

\* The block that calls an effect, where the cue has one.
LEMMA CallEffectIs ==
    ASSUME NEW p, NEW c
    PROVE  /\ ~Merge!HasEffect(p, c) => Merge!CallEffect(p, c) = <<>>
           /\ Merge!HasEffect(p, c) =>
                 /\ Len(Merge!CallEffect(p, c)) = 4
                 /\ Merge!CallEffect(p, c)[1] = Merge!Clear
                 /\ Merge!CallEffect(p, c)[2] = Merge!Group
                 /\ Merge!CallEffect(p, c)[3] = Merge!Effect(p.cue[c].effect)
                 /\ Merge!CallEffect(p, c)[4] = Merge!Store(c)
<1> PICK b : b = Merge!CallEffect(p, c)
  OBVIOUS
<1> PICK y, g, x, z : /\ y = Merge!Clear /\ g = Merge!Group /\ z = Merge!Store(c)
                      /\ x = Merge!Effect(p.cue[c].effect)
  OBVIOUS
<1>1. ~Merge!HasEffect(p, c) => b = <<>>
  BY DEF Merge!CallEffect
<1>2. Merge!HasEffect(p, c) => b = <<y, g, x, z>>
  BY DEF Merge!CallEffect
<1>3. Merge!HasEffect(p, c) => Len(b) = 4 /\ b[1] = y /\ b[2] = g /\ b[3] = x /\ b[4] = z
  BY <1>2
<1> QED BY <1>1, <1>3

\* What is in a block of moves, by its op.
LEMMA InMoveBlock ==
    ASSUME Merge!CueMergeAssumption, NEW p \in Plans, NEW s, Merge!Fits(p, s), NEW c \in Cues,
           NEW x \in CommandSet(p, s), NEW r \in 1..Len(MoveBlock(p, c, x))
    PROVE  \/ MoveBlock(p, c, x)[r].op \in {"clear", "select", "value"}
           \/ r = Len(Merge!Moves(p, c)) + 2 /\ MoveBlock(p, c, x)[r] = x
<1> PICK l : l = Len(Merge!Moves(p, c))
  OBVIOUS
<1> PICK b : b = MoveBlock(p, c, x)
  OBVIOUS
<1>1. /\ l \in Nat /\ Len(b) = l + 2 /\ b[1] = Merge!Clear /\ b[l + 2] = x
      /\ \A q \in 1..l : b[q + 1] = Merge!Moves(p, c)[q]
  BY MoveBlockIs
<1>2. CASE r = 1
  BY <1>1, <1>2, OpsAre
<1>3. CASE r = l + 2
  BY <1>1, <1>3
<1>4. CASE r # 1 /\ r # l + 2
  <2>1. r \in 1..(l + 2) /\ l \in Nat
    BY <1>1
  <2>2. r - 1 \in 1..l /\ r = (r - 1) + 1
    BY <1>4, <2>1
  <2>3. Merge!Moves(p, c)[r - 1].op \in {"select", "value"}
    BY <2>2, MoveIs
  <2>4. b[r] = Merge!Moves(p, c)[r - 1]
    BY <1>1, <2>2
  <2> QED BY <2>3, <2>4
<1> QED BY <1>2, <1>3, <1>4

\* Where a command stands that calls, stores or creates.
Calls(p, s, C, m)   == \E c \in Cues, k \in Nat :
    Presets(p, c) /\ Win(Merge!CallPreset(p, s, c), C, k) /\ m = k + 3 /\ C[m] = Merge!Call(PresetOf(p, s, c))
Effects(p, s, C, m) == \E c \in Cues, k \in Nat :
    Merge!HasEffect(p, c) /\ Win(Merge!CallEffect(p, c), C, k) /\ m = k + 3 /\ C[m] = Merge!Effect(p.cue[c].effect)
Stores(p, s, C, m)  == \E c \in Cues, k \in Nat :
    /\ C[m] = Merge!Store(c)
    /\ \/ Presets(p, c) /\ Win(Merge!CallPreset(p, s, c), C, k) /\ m = k + 4
       \/ Merge!HasEffect(p, c) /\ Win(Merge!CallEffect(p, c), C, k) /\ m = k + 4
       \/ /\ p.kind # "resources" /\ Win(MoveBlock(p, c, Merge!Store(c)), C, k)
          /\ m = k + (Len(Merge!Moves(p, c)) + 2)
Creates(p, s, C, m) == \E c \in Merge!Distinct(p), k \in Nat :
    /\ C[m] = Creation(p, s, c) /\ Win(MoveBlock(p, c, Creation(p, s, c)), C, k)
    /\ p.kind = "resources"
    /\ m = k + (Len(Merge!Moves(p, c)) + 2)

\* A command that calls, stores or creates stands in a block of that kind.
LEMMA WhereItStands ==
    ASSUME Merge!CueMergeAssumption, NEW p \in Plans, NEW s, Merge!Fits(p, s),
           NEW C, Cov(Blocks(p, s), C), NEW m \in 1..Len(C)
    PROVE  /\ C[m].op = "preset" => Calls(p, s, C, m)
           /\ C[m].op = "effect" => Effects(p, s, C, m)
           /\ C[m].op = "store" => Stores(p, s, C, m)
           /\ C[m].op = "create preset" => Creates(p, s, C, m)
           /\ C[m].op = "create effect" => p.kind = "resources"
           /\ C[m].op \in {"clear", "select", "value", "preset", "effect", "store", "create preset",
                           "create effect"}
<1> DEFINE Standing(o) ==
             /\ o = "preset" => Calls(p, s, C, m)
             /\ o = "effect" => Effects(p, s, C, m)
             /\ o = "store" => Stores(p, s, C, m)
             /\ o = "create preset" => Creates(p, s, C, m)
             /\ o = "create effect" => p.kind = "resources"
             /\ o \in {"clear", "select", "value", "preset", "effect", "store", "create preset",
                       "create effect"}
<1>1. PICK b \in Blocks(p, s), k \in Nat : Win(b, C, k) /\ m \in (k + 1)..(k + Len(b))
  BY DEF Cov, InBlock
<1>2. Len(b) \in Nat
  BY BlocksAre
<1>3. PICK r \in 1..Len(b) : m = k + r
  BY <1>1, <1>2
<1>4. C[m] = b[r]
  BY <1>1, <1>3 DEF Win
<1>5. CASE \E c \in Cues : b = Merge!CallPreset(p, s, c)
  <2>1. PICK c \in Cues : b = Merge!CallPreset(p, s, c)
    BY <1>5
  <2>2. Presets(p, c) /\ Len(b) = 4
    <3>1. Len(b) # 0
      BY <1>2
    <3>2. Len(<<>>) = 0
      OBVIOUS
    <3> QED BY <2>1, <3>1, <3>2, CallPresetIs
  <2>3. /\ b[1].op = "clear" /\ b[2].op = "select" /\ b[3] = Merge!Call(PresetOf(p, s, c))
        /\ b[3].op = "preset" /\ b[4] = Merge!Store(c) /\ b[4].op = "store"
    <3>1. /\ b[1] = Merge!Clear /\ b[2] = Merge!Group /\ b[3] = Merge!Call(PresetOf(p, s, c))
          /\ b[4] = Merge!Store(c)
      BY <2>1, <2>2, CallPresetIs
    <3>2. /\ Merge!Clear.op = "clear" /\ Merge!Group.op = "select"
          /\ Merge!Call(PresetOf(p, s, c)).op = "preset" /\ Merge!Store(c).op = "store"
      BY OpsAre
    <3> QED BY <3>1, <3>2
  <2>4. r = 1 \/ r = 2 \/ r = 3 \/ r = 4
    BY <2>2
  <2>5. r = 3 => Calls(p, s, C, m)
    BY <1>1, <1>3, <1>4, <2>1, <2>2, <2>3 DEF Calls
  <2>6. r = 4 => Stores(p, s, C, m)
    BY <1>1, <1>3, <1>4, <2>1, <2>2, <2>3 DEF Stores
  <2>7. Standing(b[r].op)
    BY <2>3, <2>4, <2>5, <2>6
  <2> QED BY <1>4, <2>7
<1>6. CASE \E c \in Cues : b = Merge!CallEffect(p, c)
  <2>1. PICK c \in Cues : b = Merge!CallEffect(p, c)
    BY <1>6
  <2>2. Merge!HasEffect(p, c) /\ Len(b) = 4
    <3>1. Len(b) # 0
      BY <1>2
    <3>2. Len(<<>>) = 0
      OBVIOUS
    <3> QED BY <2>1, <3>1, <3>2, CallEffectIs
  <2>3. /\ b[1].op = "clear" /\ b[2].op = "select" /\ b[3] = Merge!Effect(p.cue[c].effect)
        /\ b[3].op = "effect" /\ b[4] = Merge!Store(c) /\ b[4].op = "store"
    <3>1. /\ b[1] = Merge!Clear /\ b[2] = Merge!Group /\ b[4] = Merge!Store(c)
          /\ b[3] = Merge!Effect(p.cue[c].effect)
      BY <2>1, <2>2, CallEffectIs
    <3>2. /\ Merge!Clear.op = "clear" /\ Merge!Group.op = "select"
          /\ Merge!Effect(p.cue[c].effect).op = "effect" /\ Merge!Store(c).op = "store"
      BY OpsAre
    <3> QED BY <3>1, <3>2
  <2>4. r = 1 \/ r = 2 \/ r = 3 \/ r = 4
    BY <2>2
  <2>5. r = 3 => Effects(p, s, C, m)
    BY <1>1, <1>3, <1>4, <2>1, <2>2, <2>3 DEF Effects
  <2>6. r = 4 => Stores(p, s, C, m)
    BY <1>1, <1>3, <1>4, <2>1, <2>2, <2>3 DEF Stores
  <2>7. Standing(b[r].op)
    BY <2>3, <2>4, <2>5, <2>6
  <2> QED BY <1>4, <2>7
<1>7. CASE b = <<Merge!Clear>> \/ (p.kind = "resources" /\ b = <<Merge!Clear, EffectCreation>>)
  <2>1. b[r] = Merge!Clear \/ (p.kind = "resources" /\ b[r] = EffectCreation)
    <3> PICK y, z : y = Merge!Clear /\ z = EffectCreation
      OBVIOUS
    <3>1. b = <<y>> \/ (p.kind = "resources" /\ b = <<y, z>>)
      BY <1>7
    <3>2. b = <<y>> => b[r] = y
      OBVIOUS
    <3>3. b = <<y, z>> => b[r] = y \/ b[r] = z
      OBVIOUS
    <3> QED BY <3>1, <3>2, <3>3
  <2>2. Standing(b[r].op)
    BY <2>1, OpsAre
  <2> QED BY <1>4, <2>2
<1>8. CASE p.kind # "resources" /\ \E c \in Cues : b = MoveBlock(p, c, Merge!Store(c))
  <2>1. PICK c \in Cues : b = MoveBlock(p, c, Merge!Store(c))
    BY <1>8
  <2>2. \/ b[r].op \in {"clear", "select", "value"}
        \/ r = Len(Merge!Moves(p, c)) + 2 /\ b[r] = Merge!Store(c)
    BY <2>1, InMoveBlock, CueOfPlan
  <2>3. r = Len(Merge!Moves(p, c)) + 2 /\ b[r] = Merge!Store(c) => Stores(p, s, C, m)
    BY <1>1, <1>3, <1>4, <1>8, <2>1 DEF Stores
  <2>4. Standing(b[r].op)
    <3>1. Merge!Store(c).op = "store"
      BY OpsAre
    <3>2. \/ b[r].op = "clear" \/ b[r].op = "select" \/ b[r].op = "value"
          \/ b[r].op = "store" /\ Stores(p, s, C, m)
      BY <2>2, <2>3, <3>1
    <3> QED BY <3>2
  <2> QED BY <1>4, <2>4
<1>9. CASE p.kind = "resources" /\ \E c \in Merge!Distinct(p) : b = MoveBlock(p, c, Creation(p, s, c))
  <2>1. PICK c \in Merge!Distinct(p) : b = MoveBlock(p, c, Creation(p, s, c))
    BY <1>9
  <2>2. c \in Cues
    BY <2>1 DEF Merge!Distinct
  <2>3. \/ b[r].op \in {"clear", "select", "value"}
        \/ r = Len(Merge!Moves(p, c)) + 2 /\ b[r] = Creation(p, s, c)
    BY <2>1, <2>2, InMoveBlock, CueOfPlan
  <2>4. r = Len(Merge!Moves(p, c)) + 2 /\ b[r] = Creation(p, s, c) => Creates(p, s, C, m)
    BY <1>1, <1>3, <1>4, <1>9, <2>1 DEF Creates
  <2>5. Standing(b[r].op)
    <3>1. Creation(p, s, c).op = "create preset"
      BY CreationIs
    <3>2. CASE b[r].op \in {"clear", "select", "value"}
      BY <3>2
    <3>3. CASE r = Len(Merge!Moves(p, c)) + 2 /\ b[r] = Creation(p, s, c)
      <4>1. b[r].op = "create preset"
        BY <3>1, <3>3
      <4>2. Creates(p, s, C, m)
        BY <2>4, <3>3
      <4> QED BY <4>1, <4>2
    <3> QED BY <2>3, <3>2, <3>3
  <2> QED BY <1>4, <2>5
<1> QED BY <1>1, <1>5, <1>6, <1>7, <1>8, <1>9 DEF Blocks, Calling, Making

-----------------------------------------------------------------------------
(* The programmer while a preset or an effect is called.                    *)

\* The slots of a cue that its preset goes to, and its effect.
PresetSlot(p, c, x) ==
    /\ Merge!OnTarget(x)
    /\ IF Merge!HasColour(p, c) THEN x[2] = "COLOR" ELSE x[2] \in {"PAN", "TILT"}
EffectSlot(p, c, x) == Merge!OnTarget(x) /\ x[2] = "DIM" /\ Merge!HasEffect(p, c)

\* A row holds what its cue was to get.
AsCalled(p, s, c, x, r) ==
    /\ x[2] = "COLOR" => r.preset = Merge!Colour
    /\ \A j \in 1..Len(Order), k \in 1..2 : x = Slot2(j, k) =>
          /\ p.kind = "resources" =>
                r.value = Merge!Aim(p, c, j)[k] /\ r.preset = Merge!Position(Merge!NumberOf(p, s, c))
          /\ p.kind # "resources" => r.value = Merge!Sent(p, c, j)[k]

Grouped(g) ==
    /\ g.selection = Merge!Targets
    /\ \A x \in Merge!Slots : g.row[x].value = None /\ g.row[x].preset = None /\ g.row[x].effect = None

PresetReady(p, s, c, g) ==
    \A x \in Merge!Slots :
       /\ g.row[x].effect = None
       /\ PresetSlot(p, c, x) => g.row[x].value # None /\ AsCalled(p, s, c, x, g.row[x])
       /\ ~PresetSlot(p, c, x) => g.row[x].value = None

EffectReady(p, c, g) ==
    \A x \in Merge!Slots :
       /\ g.row[x].value = None
       /\ EffectSlot(p, c, x) => g.row[x].effect = p.cue[c].effect
       /\ ~EffectSlot(p, c, x) => g.row[x].effect = None

\* The preset that a cue calls holds its positions.
HoldsPosition(p, s, c, w) ==
    /\ w.preset[Merge!NumberOf(p, s, c)] # None
    /\ \A j \in 1..Len(Order), k \in 1..2 :
          w.preset[Merge!NumberOf(p, s, c)].at[Order[j]][k] = Merge!Sent(p, c, j)[k]

\* The group selects the targets of the plan.
LEMMA GroupSelects ==
    ASSUME prog = Merge!Cleared, IsProgrammer(prog) PROVE Grouped(Merge!Programmer(Merge!Group))
<1> PICK g : g = Merge!Programmer(Merge!Group)
  OBVIOUS
<1>1. Merge!Group.op = "select" /\ Merge!Group.fixtures = Merge!Targets
  BY OpsAre
<1>2. /\ g.row = prog.row
      /\ g.selection = IF prog.used THEN Merge!Targets ELSE prog.selection \cup Merge!Targets
  BY <1>1, ProgrammerSelects
<1>3. g.selection = Merge!Targets
  BY <1>2, ClearedParts
<1>4. \A x \in Merge!Slots : g.row[x].value = None /\ g.row[x].preset = None /\ g.row[x].effect = None
  BY <1>2, ClearedParts
<1> QED BY <1>3, <1>4 DEF Grouped

\* A preset that is called puts its colour or its position there,
LEMMA PresetGiven ==
    ASSUME Merge!CueMergeAssumption, NEW p \in Plans, NEW s, Merge!Fits(p, s), NEW c \in Cues,
           Exact(p), Presets(p, c), Grouped(prog), IsProgrammer(prog),
           p.kind = "resources" => HoldsPosition(p, s, c, show)
    PROVE  PresetReady(p, s, c, Merge!Programmer(Merge!Call(PresetOf(p, s, c))))
<1> PICK q : q = PresetOf(p, s, c)
  OBVIOUS
<1> PICK cmd : cmd = Merge!Call(q)
  OBVIOUS
<1> PICK g : g = Merge!Programmer(cmd)
  OBVIOUS
<1>1. cmd.op = "preset" /\ cmd.preset = q
  BY OpsAre
<1>2. /\ Merge!HasColour(p, c) => q = Merge!Colour /\ p.kind # "resources"
      /\ ~Merge!HasColour(p, c) =>
            /\ p.kind = "resources" /\ q = Merge!Position(Merge!NumberOf(p, s, c))
            /\ q # Merge!Colour /\ q[2] = Merge!NumberOf(p, s, c)
  BY DEF PresetOf, Presets, Merge!HasColour, Merge!Colour, Merge!Position
<1>3. Merge!Attributes(cmd) = IF Merge!HasColour(p, c) THEN {"COLOR"} ELSE {"PAN", "TILT"}
  BY <1>1, <1>2 DEF Merge!Attributes
<1> SUFFICES ASSUME NEW x \in Merge!Slots
             PROVE  /\ g.row[x].effect = None
                    /\ PresetSlot(p, c, x) => g.row[x].value # None /\ AsCalled(p, s, c, x, g.row[x])
                    /\ ~PresetSlot(p, c, x) => g.row[x].value = None
  BY DEF PresetReady
<1>4. prog.selection = Merge!Targets /\ prog.row[x].value = None /\ prog.row[x].effect = None
  BY DEF Grouped
<1>5. x[1] \in prog.selection /\ x[2] \in Merge!Attributes(cmd) <=> PresetSlot(p, c, x)
  BY <1>3, <1>4 DEF PresetSlot, Merge!OnTarget
<1>6. g.row[x] = IF PresetSlot(p, c, x) THEN Merge!Given(cmd, x, prog.row[x]) ELSE prog.row[x]
  <2>1. g.row[x] = IF x[1] \in prog.selection /\ x[2] \in Merge!Attributes(cmd)
                   THEN Merge!Given(cmd, x, prog.row[x]) ELSE prog.row[x]
    BY <1>1, ProgrammerGiven
  <2> QED BY <1>5, <2>1
<1>7. CASE ~PresetSlot(p, c, x)
  BY <1>4, <1>6, <1>7
<1>8. CASE PresetSlot(p, c, x)
  <2>1. /\ g.row[x].value = Merge!Held(q, x[1], x[2]) /\ g.row[x].preset = q
        /\ g.row[x].effect = None
    <3>1. g.row[x] = Merge!Given(cmd, x, prog.row[x])
      BY <1>6, <1>8
    <3> QED BY <1>1, <1>4, <3>1, GivenParts
  <2>2. CASE Merge!HasColour(p, c)
    <3>1. x[2] = "COLOR" /\ q = Merge!Colour
      BY <1>2, <1>8, <2>2 DEF PresetSlot
    <3>2. g.row[x].value = 41 /\ 41 # None
      BY <2>1, <3>1 DEF Merge!Held, Merge!CueMergeAssumption, Merge!NoneIsNone
    <3>3. \A j \in 1..Len(Order), k \in 1..2 : x # Slot2(j, k)
      BY <3>1, PositionSlots DEF Attribute
    <3> QED BY <1>8, <2>1, <3>1, <3>2, <3>3 DEF AsCalled
  <2>3. CASE ~Merge!HasColour(p, c)
    <3>1. x[2] \in {"PAN", "TILT"} /\ Merge!OnTarget(x)
      BY <1>8, <2>3 DEF PresetSlot
    <3>2. PICK j \in 1..Len(Order), k \in 1..2 : x = Slot2(j, k)
      BY <3>1, PositionSlots
    <3>3. x[1] = Order[j] /\ k = IF x[2] = "PAN" THEN 1 ELSE 2
      BY <3>2, PositionSlots DEF Attribute
    <3>4. g.row[x].value = show.preset[q[2]].at[Order[j]][k]
      BY <1>2, <2>1, <2>3, <3>3 DEF Merge!Held
    <3>5. g.row[x].value = Merge!Aim(p, c, j)[k]
      BY <1>2, <2>3, <3>4 DEF HoldsPosition, Exact
    <3>6. g.row[x].value # None
      BY <3>5, SentIs DEF Merge!CueMergeAssumption, Merge!NoneIsNone
    <3>7. ASSUME NEW i \in 1..Len(Order), NEW l \in 1..2, x = Slot2(i, l) PROVE i = j /\ l = k
      <4>1. Slot2(i, l) = Slot2(j, k)
        BY <3>2, <3>7
      <4> QED BY <3>2, <4>1, PositionSlots
    <3> QED BY <1>2, <1>8, <2>1, <2>3, <3>1, <3>5, <3>6, <3>7 DEF AsCalled
  <2> QED BY <2>2, <2>3
<1> QED BY <1>7, <1>8

\* and an effect itself.
LEMMA EffectGiven ==
    ASSUME Merge!CueMergeAssumption, NEW p \in Plans, NEW c \in Cues,
           Merge!HasEffect(p, c), Grouped(prog), IsProgrammer(prog)
    PROVE  EffectReady(p, c, Merge!Programmer(Merge!Effect(p.cue[c].effect)))
<1> PICK cmd : cmd = Merge!Effect(p.cue[c].effect)
  OBVIOUS
<1> PICK g : g = Merge!Programmer(cmd)
  OBVIOUS
<1>1. cmd.op = "effect" /\ cmd.effect = p.cue[c].effect
  BY OpsAre
<1>2. Merge!Attributes(cmd) = {"DIM"}
  BY <1>1 DEF Merge!Attributes
<1> SUFFICES ASSUME NEW x \in Merge!Slots
             PROVE  /\ g.row[x].value = None
                    /\ EffectSlot(p, c, x) => g.row[x].effect = p.cue[c].effect
                    /\ ~EffectSlot(p, c, x) => g.row[x].effect = None
  BY DEF EffectReady
<1>3. prog.selection = Merge!Targets /\ prog.row[x].value = None /\ prog.row[x].effect = None
  BY DEF Grouped
<1>4. x[1] \in prog.selection /\ x[2] \in Merge!Attributes(cmd) <=> EffectSlot(p, c, x)
  BY <1>2, <1>3 DEF EffectSlot, Merge!OnTarget
<1>5. g.row[x] = IF EffectSlot(p, c, x) THEN Merge!Given(cmd, x, prog.row[x]) ELSE prog.row[x]
  <2>1. g.row[x] = IF x[1] \in prog.selection /\ x[2] \in Merge!Attributes(cmd)
                   THEN Merge!Given(cmd, x, prog.row[x]) ELSE prog.row[x]
    BY <1>1, ProgrammerGiven
  <2> QED BY <1>4, <2>1
<1>6. /\ Merge!Given(cmd, x, prog.row[x]).value = None
      /\ Merge!Given(cmd, x, prog.row[x]).effect = p.cue[c].effect
  BY <1>1, <1>3, GivenParts
<1> QED BY <1>3, <1>5, <1>6

-----------------------------------------------------------------------------
\* What the programmer holds when the command a is next.
Doing(p, s, C, a, g) ==
    /\ a > 1 /\ C[a - 1] = Merge!Clear => g = Merge!Cleared
    /\ \A c \in Cues, k \in Nat :
          /\ Presets(p, c) /\ Win(Merge!CallPreset(p, s, c), C, k) =>
                (a = k + 3 => Grouped(g)) /\ (a = k + 4 => PresetReady(p, s, c, g))
          /\ Merge!HasEffect(p, c) /\ Win(Merge!CallEffect(p, c), C, k) =>
                (a = k + 3 => Grouped(g)) /\ (a = k + 4 => EffectReady(p, c, g))
          /\ \A y \in CommandSet(p, s) : Win(MoveBlock(p, c, y), C, k) =>
                \A m \in 0..Len(Merge!Moves(p, c)) : a = (k + 2) + m => AfterMoves(p, c, g, m)

\* The programmer follows the blocks from one command to the next.
LEMMA DoingGoesOn ==
    ASSUME Merge!CueMergeAssumption, NEW p \in Plans, NEW s, Merge!Fits(p, s), Exact(p),
           NEW C, NEW a \in Nat, a >= 1, Doing(p, s, C, a, prog), IsProgrammer(prog),
           p.kind = "resources" /\ C[a].op = "preset" => \A c \in Cues : HoldsPosition(p, s, c, show)
    PROVE  Doing(p, s, C, a + 1, Merge!Programmer(C[a]))
<1> PICK cmd : cmd = C[a]
  OBVIOUS
<1> PICK g : g = Merge!Programmer(cmd)
  OBVIOUS
<1>1. cmd = Merge!Clear => g = Merge!Cleared
  BY OpsAre DEF Merge!Programmer
<1>2. C[a - 1] = Merge!Clear /\ a > 1 => prog = Merge!Cleared
  BY DEF Doing
<1>3. ASSUME NEW c \in Cues, NEW k \in Nat, Presets(p, c), Win(Merge!CallPreset(p, s, c), C, k)
      PROVE  (a + 1 = k + 3 => Grouped(g)) /\ (a + 1 = k + 4 => PresetReady(p, s, c, g))
  <2> PICK b : b = Merge!CallPreset(p, s, c)
    OBVIOUS
  <2>1. Len(b) = 4 /\ b[1] = Merge!Clear /\ b[2] = Merge!Group /\ b[3] = Merge!Call(PresetOf(p, s, c))
    BY <1>3, CallPresetIs
  <2>2. C[k + 1] = Merge!Clear /\ C[k + 2] = Merge!Group /\ C[k + 3] = Merge!Call(PresetOf(p, s, c))
    BY <1>3, <2>1 DEF Win
  <2>3. ASSUME a + 1 = k + 3 PROVE Grouped(g)
    <3>1. a = k + 2 /\ a - 1 = k + 1 /\ a > 1
      BY <2>3
    <3>2. prog = Merge!Cleared /\ cmd = Merge!Group
      BY <1>2, <2>2, <3>1
    <3> QED BY <3>2, GroupSelects
  <2>4. ASSUME a + 1 = k + 4 PROVE PresetReady(p, s, c, g)
    <3>1. a = k + 3
      BY <2>4
    <3>2. Grouped(prog) /\ cmd = Merge!Call(PresetOf(p, s, c))
      BY <1>3, <2>2, <3>1 DEF Doing
    <3>3. cmd.op = "preset"
      BY <3>2, OpsAre
    <3> QED BY <1>3, <3>2, <3>3, PresetGiven
  <2> QED BY <2>3, <2>4
<1>4. ASSUME NEW c \in Cues, NEW k \in Nat, Merge!HasEffect(p, c), Win(Merge!CallEffect(p, c), C, k)
      PROVE  (a + 1 = k + 3 => Grouped(g)) /\ (a + 1 = k + 4 => EffectReady(p, c, g))
  <2> PICK b : b = Merge!CallEffect(p, c)
    OBVIOUS
  <2>1. Len(b) = 4 /\ b[1] = Merge!Clear /\ b[2] = Merge!Group /\ b[3] = Merge!Effect(p.cue[c].effect)
    BY <1>4, CallEffectIs
  <2>2. C[k + 1] = Merge!Clear /\ C[k + 2] = Merge!Group /\ C[k + 3] = Merge!Effect(p.cue[c].effect)
    BY <1>4, <2>1 DEF Win
  <2>3. ASSUME a + 1 = k + 3 PROVE Grouped(g)
    <3>1. a = k + 2 /\ a - 1 = k + 1 /\ a > 1
      BY <2>3
    <3>2. prog = Merge!Cleared /\ cmd = Merge!Group
      BY <1>2, <2>2, <3>1
    <3> QED BY <3>2, GroupSelects
  <2>4. ASSUME a + 1 = k + 4 PROVE EffectReady(p, c, g)
    <3>1. a = k + 3
      BY <2>4
    <3>2. Grouped(prog) /\ cmd = Merge!Effect(p.cue[c].effect)
      BY <1>4, <2>2, <3>1 DEF Doing
    <3> QED BY <1>4, <3>2, EffectGiven
  <2> QED BY <2>3, <2>4
<1>5. ASSUME NEW c \in Cues, NEW k \in Nat, NEW y \in CommandSet(p, s), Win(MoveBlock(p, c, y), C, k),
             NEW m \in 0..Len(Merge!Moves(p, c)), a + 1 = (k + 2) + m
      PROVE  AfterMoves(p, c, g, m)
  <2> PICK b : b = MoveBlock(p, c, y)
    OBVIOUS
  <2> PICK l : l = Len(Merge!Moves(p, c))
    OBVIOUS
  <2>1. /\ l \in Nat /\ Len(b) = l + 2 /\ b[1] = Merge!Clear
        /\ \A q \in 1..l : b[q + 1] = Merge!Moves(p, c)[q]
    BY MoveBlockIs
  <2>2. C[k + 1] = Merge!Clear /\ \A q \in 1..l : C[k + (q + 1)] = Merge!Moves(p, c)[q]
    <3>1. \A q \in 1..(l + 2) : C[k + q] = b[q]
      BY <1>5, <2>1 DEF Win
    <3>2. 1 \in 1..(l + 2) /\ \A q \in 1..l : q + 1 \in 1..(l + 2)
      BY <2>1
    <3> QED BY <2>1, <3>1, <3>2
  <2>3. CASE m = 0
    <3>1. cmd = Merge!Clear
      <4>1. a = k + 1
        BY <1>5, <2>3
      <4> QED BY <2>2, <4>1
    <3> QED BY <1>1, <2>3, <3>1, MovesBegin
  <2>4. CASE m # 0
    <3> PICK q : q = m - 1
      OBVIOUS
    <3>1. q \in Nat /\ q \in 0..l /\ q + 1 \in 1..l /\ m = q + 1 /\ a = (k + 2) + q
      BY <1>5, <2>1, <2>4
    <3>2. AfterMoves(p, c, prog, q)
      BY <1>5, <3>1 DEF Doing
    <3>3. cmd = Merge!Moves(p, c)[q + 1]
      <4>1. a = k + ((q + 1) + 1)
        BY <3>1
      <4> QED BY <2>2, <3>1, <4>1
    <3>4. AfterMoves(p, c, Merge!Programmer(Merge!Moves(p, c)[q + 1]), q + 1)
      BY <3>1, <3>2, MovesGoOn
    <3> QED BY <3>1, <3>3, <3>4
  <2> QED BY <2>3, <2>4
<1>6. C[(a + 1) - 1] = cmd
  <2>1. (a + 1) - 1 = a
    OBVIOUS
  <2> QED BY <2>1
<1> QED BY <1>1, <1>3, <1>4, <1>5, <1>6 DEF Doing

-----------------------------------------------------------------------------
(* What the show becomes.                                                   *)

ValueSlot(p, c, x) ==
    /\ Merge!OnTarget(x)
    /\ x[2] \in {"PAN", "TILT"} \/ (x[2] = "COLOR" /\ Merge!HasColour(p, c))

\* A row that was q is as it was or as the plan has it.
RowIs(p, s, c, x, q, r) ==
    /\ r.effect = q.effect \/ (EffectSlot(p, c, x) /\ r.effect = p.cue[c].effect)
    /\ (r.value = q.value /\ r.preset = q.preset) \/ (ValueSlot(p, c, x) /\ AsCalled(p, s, c, x, r))

\* The show has kept what the plan does not name.
Kept(p, s, w) ==
    /\ \A c \in Cues, x \in Merge!Slots : RowIs(p, s, c, x, s.row[c][x], w.row[c][x])
    /\ w.labels = s.labels
    /\ \A e \in {Merge!Created, Merge!Verified} : s.effect[e] # None => w.effect[e] # None

\* The programmer holds nothing that the cue is not to get.
RowReady(p, s, c, x, a) ==
    /\ a.effect # None => EffectSlot(p, c, x) /\ a.effect = p.cue[c].effect
    /\ a.value # None => ValueSlot(p, c, x) /\ AsCalled(p, s, c, x, a)

StoreReady(p, s, c, g) == \A x \in Merge!Slots : RowReady(p, s, c, x, g.row[x])

\* The preset of a cue is there, under the name of the cue.
PresetIs(p, s, d, w) ==
    HoldsPosition(p, s, d, w) /\ w.preset[Merge!NumberOf(p, s, d)].label = p.cue[d].name

\* The block b, behind the k-th command of C, is past when the command a is next.
IsPast(b, C, a, k) == Win(b, C, k) /\ k + Len(b) < a

\* A cue holds what a block was to store in it.
PresetStored(p, s, c, w) ==
    \A x \in Merge!Slots : PresetSlot(p, c, x) => AsCalled(p, s, c, x, w.row[c][x])
EffectStored(p, c, w) ==
    \A x \in Merge!Slots : EffectSlot(p, c, x) => w.row[c][x].effect = p.cue[c].effect
MovesStored(p, s, c, w) ==
    \A x \in Merge!Slots :
       Merge!OnTarget(x) /\ x[2] \in {"PAN", "TILT"} => AsCalled(p, s, c, x, w.row[c][x])

\* Before the command a the cues were given this, and these were created.
Called(p, s, C, a, w) ==
    \A c \in Cues, k \in Nat :
       /\ Presets(p, c) /\ IsPast(Merge!CallPreset(p, s, c), C, a, k) => PresetStored(p, s, c, w)
       /\ Merge!HasEffect(p, c) /\ IsPast(Merge!CallEffect(p, c), C, a, k) => EffectStored(p, c, w)
       /\ p.kind # "resources" /\ IsPast(MoveBlock(p, c, Merge!Store(c)), C, a, k) =>
             MovesStored(p, s, c, w)

Made(p, s, C, a, w) ==
    p.kind = "resources" =>
        /\ \A d \in Merge!Distinct(p), k \in Nat :
              IsPast(MoveBlock(p, d, Creation(p, s, d)), C, a, k) => PresetIs(p, s, d, w)
        /\ \A k \in Nat :
              IsPast(<<Merge!Clear, EffectCreation>>, C, a, k) => w.effect[Merge!Created] # None

-----------------------------------------------------------------------------
\* What a store finds in the programmer suits its cue: after a preset,
LEMMA PresetStores ==
    ASSUME NEW p, NEW s, NEW c, NEW g, Presets(p, c), PresetReady(p, s, c, g)
    PROVE  StoreReady(p, s, c, g)
<1>1. \A x : PresetSlot(p, c, x) => ValueSlot(p, c, x)
  BY DEF PresetSlot, ValueSlot
<1> QED BY <1>1 DEF PresetReady, StoreReady, RowReady

\* after an effect
LEMMA EffectStores ==
    ASSUME NEW p, NEW s, NEW c, NEW g, EffectReady(p, c, g) PROVE StoreReady(p, s, c, g)
  BY DEF EffectReady, StoreReady, RowReady

\* and after the moves.
LEMMA MovesStore ==
    ASSUME Merge!CueMergeAssumption, NEW p \in Plans, NEW s, Merge!Fits(p, s), NEW c \in Cues, NEW g,
           p.kind # "resources", AfterMoves(p, c, g, Len(Merge!Moves(p, c)))
    PROVE  StoreReady(p, s, c, g)
<1>1. ASSUME NEW x \in Merge!Slots, g.row[x].value # None
      PROVE  ValueSlot(p, c, x) /\ AsCalled(p, s, c, x, g.row[x])
  <2>1. PICK j \in 1..Len(Order), k \in 1..2 :
           x = Slot2(j, k) /\ g.row[x].value = Merge!Sent(p, c, j)[k]
    BY <1>1 DEF AfterMoves
  <2>2. Merge!OnTarget(x) /\ x[2] \in {"PAN", "TILT"}
    BY <2>1, PositionSlots DEF Attribute
  <2>3. ASSUME NEW i \in 1..Len(Order), NEW l \in 1..2, x = Slot2(i, l)
        PROVE  g.row[x].value = Merge!Sent(p, c, i)[l]
    <3>1. Slot2(i, l) = Slot2(j, k)
      BY <2>1, <2>3
    <3>2. i = j /\ l = k
      BY <2>1, <3>1, PositionSlots
    <3> QED BY <2>1, <3>2
  <2>4. x[2] # "COLOR"
    BY <2>2
  <2> QED BY <2>2, <2>3, <2>4 DEF ValueSlot, AsCalled
<1>2. \A x \in Merge!Slots : g.row[x].effect = None
  BY DEF AfterMoves
<1> QED BY <1>1, <1>2 DEF StoreReady, RowReady

\* A row that the programmer is merged into.
LEMMA RowStored ==
    ASSUME NEW p, NEW s, NEW c, NEW x, NEW q, NEW r, NEW a,
           RowReady(p, s, c, x, a)
    PROVE  /\ RowIs(p, s, c, x, q, r) => RowIs(p, s, c, x, q, Merge!Merged(r, a))
           /\ AsCalled(p, s, c, x, r) => AsCalled(p, s, c, x, Merge!Merged(r, a))
           /\ a.value # None => AsCalled(p, s, c, x, Merge!Merged(r, a))
           /\ r.effect = p.cue[c].effect => Merge!Merged(r, a).effect = p.cue[c].effect
           /\ a.effect # None => Merge!Merged(r, a).effect = p.cue[c].effect
<1> PICK n : n = Merge!Merged(r, a)
  OBVIOUS
<1>1. /\ n.value = IF a.value # None THEN a.value ELSE r.value
      /\ n.preset = IF a.value # None THEN a.preset ELSE r.preset
      /\ n.effect = IF a.effect # None THEN a.effect ELSE r.effect
  BY DEF Merge!Merged
<1>2. \A u, v : u.value = v.value /\ u.preset = v.preset /\ AsCalled(p, s, c, x, u) => AsCalled(p, s, c, x, v)
  BY DEF AsCalled
<1>0. /\ a.effect # None => EffectSlot(p, c, x) /\ a.effect = p.cue[c].effect
      /\ a.value # None => ValueSlot(p, c, x) /\ AsCalled(p, s, c, x, a)
  BY DEF RowReady
<1>3. a.value # None => AsCalled(p, s, c, x, n)
  BY <1>0, <1>1, <1>2
<1>4. a.value = None => n.value = r.value /\ n.preset = r.preset
  BY <1>1
<1>5. AsCalled(p, s, c, x, r) => AsCalled(p, s, c, x, n)
  BY <1>2, <1>3, <1>4
<1>6. RowIs(p, s, c, x, q, r) => RowIs(p, s, c, x, q, n)
  BY <1>0, <1>1, <1>3, <1>4, <1>5 DEF RowIs
<1> QED BY <1>0, <1>1, <1>3, <1>5, <1>6

\* What a command writes.
LEMMA ShowParts ==
    ASSUME NEW cmd, IsShow(show)
    PROVE  /\ cmd.op = "store" /\ cmd.cue \in Cues =>
                 /\ Merge!Show(cmd).labels = show.labels /\ Merge!Show(cmd).preset = show.preset
                 /\ Merge!Show(cmd).effect = show.effect
                 /\ \A c \in Cues, x \in Merge!Slots :
                       Merge!Show(cmd).row[c][x] =
                          IF c = cmd.cue THEN Merge!Merged(show.row[c][x], prog.row[x])
                          ELSE show.row[c][x]
           /\ cmd.op = "create preset" =>
                 /\ Merge!Show(cmd).labels = show.labels /\ Merge!Show(cmd).row = show.row
                 /\ Merge!Show(cmd).effect = show.effect
                 /\ \A n \in Merge!Numbers :
                       Merge!Show(cmd).preset[n] =
                          IF n = cmd.number
                          THEN [label |-> cmd.label, by |-> "plan",
                                at |-> [f \in Merge!Fixtures |-> <<prog.row[<<f, "PAN">>].value,
                                                                   prog.row[<<f, "TILT">>].value>>]]
                          ELSE show.preset[n]
           /\ cmd.op = "create effect" =>
                 /\ Merge!Show(cmd).labels = show.labels /\ Merge!Show(cmd).row = show.row
                 /\ Merge!Show(cmd).preset = show.preset
                 /\ \A e \in {Merge!Created, Merge!Verified} :
                       Merge!Show(cmd).effect[e] = IF e = Merge!Created THEN "plan" ELSE show.effect[e]
           /\ cmd.op # "store" /\ cmd.op # "create preset" /\ cmd.op # "create effect" =>
                 Merge!Show(cmd) = show
<1> PICK w : w = Merge!Show(cmd)
  OBVIOUS
<1>1. ASSUME cmd.op = "store", cmd.cue \in Cues
      PROVE  /\ w.labels = show.labels /\ w.preset = show.preset /\ w.effect = show.effect
             /\ \A c \in Cues, x \in Merge!Slots :
                   w.row[c][x] = IF c = cmd.cue THEN Merge!Merged(show.row[c][x], prog.row[x])
                                 ELSE show.row[c][x]
  <2>1. PICK q : q = [x \in Merge!Slots |-> Merge!Merged(show.row[cmd.cue][x], prog.row[x])]
    OBVIOUS
  <2>2. w = [show EXCEPT !.row[cmd.cue] = q]
    BY <1>1, <2>1 DEF Merge!Show
  <2>3. /\ w.labels = show.labels /\ w.preset = show.preset /\ w.effect = show.effect
        /\ w.row = [show.row EXCEPT ![cmd.cue] = q]
    BY <2>2 DEF IsShow
  <2>4. \A c \in Cues : w.row[c] = IF c = cmd.cue THEN q ELSE show.row[c]
    BY <1>1, <2>3 DEF IsShow
  <2> QED BY <2>1, <2>3, <2>4
<1>2. ASSUME cmd.op = "create preset"
      PROVE  /\ w.labels = show.labels /\ w.row = show.row /\ w.effect = show.effect
             /\ \A n \in Merge!Numbers :
                   w.preset[n] =
                      IF n = cmd.number
                      THEN [label |-> cmd.label, by |-> "plan",
                            at |-> [f \in Merge!Fixtures |-> <<prog.row[<<f, "PAN">>].value,
                                                               prog.row[<<f, "TILT">>].value>>]]
                      ELSE show.preset[n]
  <2>1. PICK v : v = [label |-> cmd.label, by |-> "plan",
                at |-> [f \in Merge!Fixtures |-> <<prog.row[<<f, "PAN">>].value,
                                                   prog.row[<<f, "TILT">>].value>>]]
    OBVIOUS
  <2>2. w = [show EXCEPT !.preset[cmd.number] = v]
    BY <1>2, <2>1 DEF Merge!Show
  <2>3. /\ w.labels = show.labels /\ w.row = show.row /\ w.effect = show.effect
        /\ w.preset = [show.preset EXCEPT ![cmd.number] = v]
    BY <2>2 DEF IsShow
  <2>4. \A n \in Merge!Numbers : w.preset[n] = IF n = cmd.number THEN v ELSE show.preset[n]
    BY <2>3 DEF IsShow
  <2> QED BY <2>1, <2>3, <2>4
<1>3. ASSUME cmd.op = "create effect"
      PROVE  /\ w.labels = show.labels /\ w.row = show.row /\ w.preset = show.preset
             /\ \A e \in {Merge!Created, Merge!Verified} :
                   w.effect[e] = IF e = Merge!Created THEN "plan" ELSE show.effect[e]
  <2>1. w = [show EXCEPT !.effect[Merge!Created] = "plan"]
    BY <1>3 DEF Merge!Show
  <2>2. /\ w.labels = show.labels /\ w.row = show.row /\ w.preset = show.preset
        /\ w.effect = [show.effect EXCEPT ![Merge!Created] = "plan"]
    BY <2>1 DEF IsShow
  <2> QED BY <2>2 DEF IsShow
<1>4. ASSUME cmd.op # "store", cmd.op # "create preset", cmd.op # "create effect"
      PROVE  w = show
  BY <1>4 DEF Merge!Show
<1> QED BY <1>1, <1>2, <1>3, <1>4

\* A block that ends with the command a.
LEMMA BlockEnds ==
    ASSUME Merge!CueMergeAssumption, NEW p \in Plans, NEW s, Merge!Fits(p, s), NEW c \in Cues,
           NEW C, NEW a \in Nat, NEW k \in Nat
    PROVE  /\ Presets(p, c) /\ Win(Merge!CallPreset(p, s, c), C, k)
                /\ k + Len(Merge!CallPreset(p, s, c)) = a =>
                 a = k + 4 /\ C[a] = Merge!Store(c)
           /\ Merge!HasEffect(p, c) /\ Win(Merge!CallEffect(p, c), C, k)
                /\ k + Len(Merge!CallEffect(p, c)) = a =>
                 a = k + 4 /\ C[a] = Merge!Store(c)
           /\ \A y \in CommandSet(p, s) :
                 Win(MoveBlock(p, c, y), C, k) /\ k + Len(MoveBlock(p, c, y)) = a =>
                    a = (k + 2) + Len(Merge!Moves(p, c)) /\ C[a] = y
<1>1. ASSUME Presets(p, c), Win(Merge!CallPreset(p, s, c), C, k),
             k + Len(Merge!CallPreset(p, s, c)) = a
      PROVE  a = k + 4 /\ C[a] = Merge!Store(c)
  <2> PICK b : b = Merge!CallPreset(p, s, c)
    OBVIOUS
  <2>1. Len(b) = 4 /\ b[4] = Merge!Store(c)
    BY <1>1, CallPresetIs
  <2>2. a = k + 4 /\ C[k + 4] = b[4]
    BY <1>1, <2>1 DEF Win
  <2> QED BY <2>1, <2>2
<1>2. ASSUME Merge!HasEffect(p, c), Win(Merge!CallEffect(p, c), C, k),
             k + Len(Merge!CallEffect(p, c)) = a
      PROVE  a = k + 4 /\ C[a] = Merge!Store(c)
  <2> PICK b : b = Merge!CallEffect(p, c)
    OBVIOUS
  <2>1. Len(b) = 4 /\ b[4] = Merge!Store(c)
    BY <1>2, CallEffectIs
  <2>2. a = k + 4 /\ C[k + 4] = b[4]
    BY <1>2, <2>1 DEF Win
  <2> QED BY <2>1, <2>2
<1>3. ASSUME NEW y \in CommandSet(p, s), Win(MoveBlock(p, c, y), C, k),
             k + Len(MoveBlock(p, c, y)) = a
      PROVE  a = (k + 2) + Len(Merge!Moves(p, c)) /\ C[a] = y
  <2> PICK b : b = MoveBlock(p, c, y)
    OBVIOUS
  <2> PICK l : l = Len(Merge!Moves(p, c))
    OBVIOUS
  <2>1. l \in Nat /\ Len(b) = l + 2 /\ b[l + 2] = y
    BY MoveBlockIs
  <2>2. a = (k + 2) + l /\ a = k + (l + 2)
    BY <1>3, <2>1
  <2>3. C[k + (l + 2)] = b[l + 2]
    <3>1. l + 2 \in 1..Len(b)
      BY <2>1
    <3> QED BY <1>3, <3>1 DEF Win
  <2> QED BY <2>1, <2>2, <2>3
<1> QED BY <1>1, <1>2, <1>3

\* What has passed after a command had passed before or ends with it.
LEMMA PassedNext ==
    ASSUME NEW b, NEW C, NEW a \in Nat, NEW k \in Nat, NEW T, b \in Seq(T), IsPast(b, C, a + 1, k)
    PROVE  IsPast(b, C, a, k) \/ (Win(b, C, k) /\ k + Len(b) = a)
<1>1. Len(b) \in Nat
  OBVIOUS
<1>2. k + Len(b) < a + 1 => k + Len(b) < a \/ k + Len(b) = a
  BY <1>1
<1> QED BY <1>2 DEF IsPast

\* The block that creates an effect ends with doing so,
LEMMA EffectCreationEnds ==
    ASSUME NEW C, NEW a, NEW k \in Nat, Win(<<Merge!Clear, EffectCreation>>, C, k),
           k + Len(<<Merge!Clear, EffectCreation>>) = a
    PROVE  C[a] = EffectCreation
<1> PICK b : b = <<Merge!Clear, EffectCreation>>
  OBVIOUS
<1>1. Len(b) = 2 /\ b[2] = EffectCreation
  OBVIOUS
<1>2. a = k + 2 /\ C[k + 2] = b[2]
  BY <1>1 DEF Win
<1> QED BY <1>1, <1>2

\* A cue that is stored is given what the plan has for it, and nothing else.
LEMMA StoreGoes ==
    ASSUME Merge!CueMergeAssumption, NEW p \in Plans, NEW s, Merge!Fits(p, s),
           NEW C, Cov(Blocks(p, s), C), NEW a \in 1..Len(C), Len(C) \in Nat,
           Doing(p, s, C, a, prog), IsShow(show),
           Kept(p, s, show), Called(p, s, C, a, show), C[a].op = "store"
    PROVE  Kept(p, s, Merge!Show(C[a])) /\ Called(p, s, C, a + 1, Merge!Show(C[a]))
<1> PICK cmd : cmd = C[a]
  OBVIOUS
<1> PICK w : w = Merge!Show(cmd)
  OBVIOUS
<1>1. \A c \in Cues, k \in Nat :
         /\ Presets(p, c) /\ Win(Merge!CallPreset(p, s, c), C, k) => (a = k + 4 => PresetReady(p, s, c, prog))
         /\ Merge!HasEffect(p, c) /\ Win(Merge!CallEffect(p, c), C, k) => (a = k + 4 => EffectReady(p, c, prog))
         /\ \A y \in CommandSet(p, s) : Win(MoveBlock(p, c, y), C, k) =>
               (a = (k + 2) + Len(Merge!Moves(p, c)) => AfterMoves(p, c, prog, Len(Merge!Moves(p, c))))
  <2>1. \A c \in Cues : Len(Merge!Moves(p, c)) \in 0..Len(Merge!Moves(p, c))
    BY MovesAre
  <2> QED BY <2>1 DEF Doing
<1>2. PICK d \in Cues : cmd = Merge!Store(d) /\ StoreReady(p, s, d, prog)
  <2>1. Stores(p, s, C, a)
    BY WhereItStands
  <2>2. PICK c \in Cues, k \in Nat :
           /\ C[a] = Merge!Store(c)
           /\ \/ Presets(p, c) /\ Win(Merge!CallPreset(p, s, c), C, k) /\ a = k + 4
              \/ Merge!HasEffect(p, c) /\ Win(Merge!CallEffect(p, c), C, k) /\ a = k + 4
              \/ /\ p.kind # "resources" /\ Win(MoveBlock(p, c, Merge!Store(c)), C, k)
                 /\ a = k + (Len(Merge!Moves(p, c)) + 2)
    BY <2>1 DEF Stores
  <2>3. CASE Presets(p, c) /\ Win(Merge!CallPreset(p, s, c), C, k) /\ a = k + 4
    BY <1>1, <2>2, <2>3, PresetStores
  <2>4. CASE Merge!HasEffect(p, c) /\ Win(Merge!CallEffect(p, c), C, k) /\ a = k + 4
    BY <1>1, <2>2, <2>4, EffectStores
  <2>5. CASE /\ p.kind # "resources" /\ Win(MoveBlock(p, c, Merge!Store(c)), C, k)
             /\ a = k + (Len(Merge!Moves(p, c)) + 2)
    <3>1. a = (k + 2) + Len(Merge!Moves(p, c))
      BY <2>5, MovesAre
    <3>2. Merge!Store(c) \in CommandSet(p, s)
      BY CueOfPlan
    <3>3. AfterMoves(p, c, prog, Len(Merge!Moves(p, c)))
      BY <1>1, <2>5, <3>1, <3>2
    <3> QED BY <2>2, <2>5, <3>3, MovesStore
  <2> QED BY <2>2, <2>3, <2>4, <2>5
<1>3. cmd.op = "store" /\ cmd.cue = d
  BY <1>2, OpsAre
<1>4. /\ w.labels = show.labels /\ w.preset = show.preset /\ w.effect = show.effect
      /\ \A c \in Cues, x \in Merge!Slots :
            w.row[c][x] = IF c = d THEN Merge!Merged(show.row[c][x], prog.row[x]) ELSE show.row[c][x]
  BY <1>2, <1>3, ShowParts
<1>5. ASSUME NEW x \in Merge!Slots
      PROVE  RowReady(p, s, d, x, prog.row[x])
  BY <1>2 DEF StoreReady
<1>6. ASSUME NEW c \in Cues, NEW x \in Merge!Slots
      PROVE  /\ RowIs(p, s, c, x, s.row[c][x], w.row[c][x])
             /\ AsCalled(p, s, c, x, show.row[c][x]) => AsCalled(p, s, c, x, w.row[c][x])
             /\ show.row[c][x].effect = p.cue[c].effect => w.row[c][x].effect = p.cue[c].effect
             /\ c = d /\ prog.row[x].value # None => AsCalled(p, s, c, x, w.row[c][x])
             /\ c = d /\ prog.row[x].effect # None => w.row[c][x].effect = p.cue[c].effect
  <2>1. RowIs(p, s, c, x, s.row[c][x], show.row[c][x])
    BY DEF Kept
  <2>2. CASE c # d
    <3>1. w.row[c][x] = show.row[c][x]
      BY <1>4, <2>2
    <3> QED BY <2>1, <2>2, <3>1
  <2>3. CASE c = d
    <3> PICK q, r, b : q = s.row[d][x] /\ r = show.row[d][x] /\ b = prog.row[x]
      OBVIOUS
    <3>0. RowReady(p, s, d, x, b)
      BY <1>5
    <3>1. w.row[d][x] = Merge!Merged(r, b)
      BY <1>4
    <3>2. /\ RowIs(p, s, d, x, q, r) => RowIs(p, s, d, x, q, Merge!Merged(r, b))
          /\ AsCalled(p, s, d, x, r) => AsCalled(p, s, d, x, Merge!Merged(r, b))
          /\ b.value # None => AsCalled(p, s, d, x, Merge!Merged(r, b))
          /\ r.effect = p.cue[d].effect => Merge!Merged(r, b).effect = p.cue[d].effect
          /\ b.effect # None => Merge!Merged(r, b).effect = p.cue[d].effect
      BY <3>0, RowStored
    <3> QED BY <2>1, <2>3, <3>1, <3>2
  <2> QED BY <2>2, <2>3
<1>7. Kept(p, s, w)
  BY <1>4, <1>6 DEF Kept
<1>8. ASSUME NEW c \in Cues, NEW k \in Nat, Presets(p, c),
             IsPast(Merge!CallPreset(p, s, c), C, a + 1, k)
      PROVE  PresetStored(p, s, c, w)
  <2>1. CASE IsPast(Merge!CallPreset(p, s, c), C, a, k)
    <3>1. PresetStored(p, s, c, show)
      BY <1>8, <2>1 DEF Called
    <3> QED BY <1>6, <3>1 DEF PresetStored
  <2>2. CASE Win(Merge!CallPreset(p, s, c), C, k) /\ k + Len(Merge!CallPreset(p, s, c)) = a
    <3>1. a = k + 4 /\ cmd = Merge!Store(c)
      BY <1>8, <2>2, BlockEnds
    <3>2. c = d
      BY <1>3, <3>1, OpsAre
    <3>3. PresetReady(p, s, c, prog)
      BY <1>1, <1>8, <2>2, <3>1
    <3> QED BY <1>6, <3>2, <3>3 DEF PresetStored, PresetReady
  <2>3. Merge!CallPreset(p, s, c) \in Seq(CommandSet(p, s)) /\ a \in Nat
    BY BlocksAre DEF Calling
  <2>4. \/ IsPast(Merge!CallPreset(p, s, c), C, a, k)
        \/ Win(Merge!CallPreset(p, s, c), C, k) /\ k + Len(Merge!CallPreset(p, s, c)) = a
    BY <1>8, <2>3, PassedNext
  <2> QED BY <2>1, <2>2, <2>4
<1>9. ASSUME NEW c \in Cues, NEW k \in Nat, Merge!HasEffect(p, c),
             IsPast(Merge!CallEffect(p, c), C, a + 1, k)
      PROVE  EffectStored(p, c, w)
  <2>1. CASE IsPast(Merge!CallEffect(p, c), C, a, k)
    <3>1. EffectStored(p, c, show)
      BY <1>9, <2>1 DEF Called
    <3> QED BY <1>6, <3>1 DEF EffectStored
  <2>2. CASE Win(Merge!CallEffect(p, c), C, k) /\ k + Len(Merge!CallEffect(p, c)) = a
    <3>1. a = k + 4 /\ cmd = Merge!Store(c)
      BY <1>9, <2>2, BlockEnds
    <3>2. c = d
      BY <1>3, <3>1, OpsAre
    <3>3. EffectReady(p, c, prog)
      BY <1>1, <1>9, <2>2, <3>1
    <3>4. p.cue[c].effect # None
      BY <1>9 DEF Merge!HasEffect
    <3> QED BY <1>6, <3>2, <3>3, <3>4 DEF EffectStored, EffectReady
  <2>3. Merge!CallEffect(p, c) \in Seq(CommandSet(p, s)) /\ a \in Nat
    BY BlocksAre DEF Calling
  <2>4. \/ IsPast(Merge!CallEffect(p, c), C, a, k)
        \/ Win(Merge!CallEffect(p, c), C, k) /\ k + Len(Merge!CallEffect(p, c)) = a
    BY <1>9, <2>3, PassedNext
  <2> QED BY <2>1, <2>2, <2>4
<1>10. ASSUME NEW c \in Cues, NEW k \in Nat, p.kind # "resources",
              IsPast(MoveBlock(p, c, Merge!Store(c)), C, a + 1, k)
       PROVE  MovesStored(p, s, c, w)
  <2>0. Merge!Store(c) \in CommandSet(p, s)
    BY CueOfPlan
  <2>1. CASE IsPast(MoveBlock(p, c, Merge!Store(c)), C, a, k)
    <3>1. MovesStored(p, s, c, show)
      BY <1>10, <2>1 DEF Called
    <3> QED BY <1>6, <3>1 DEF MovesStored
  <2>2. CASE Win(MoveBlock(p, c, Merge!Store(c)), C, k) /\ k + Len(MoveBlock(p, c, Merge!Store(c))) = a
    <3>1. a = (k + 2) + Len(Merge!Moves(p, c)) /\ cmd = Merge!Store(c)
      BY <2>0, <2>2, BlockEnds
    <3>2. c = d
      BY <1>3, <3>1, OpsAre
    <3>3. AfterMoves(p, c, prog, Len(Merge!Moves(p, c)))
      BY <1>1, <2>0, <2>2, <3>1
    <3>4. ASSUME NEW x \in Merge!Slots, Merge!OnTarget(x), x[2] \in {"PAN", "TILT"}
          PROVE  prog.row[x].value # None
      <4>1. PICK j \in 1..Len(Order), l \in 1..2 : x = Slot2(j, l)
        BY <3>4, PositionSlots
      <4>2. prog.row[x].value = Merge!Sent(p, c, j)[l]
        BY <3>3, <4>1, MovesEnd
      <4> QED BY <4>2, SentIs DEF Merge!CueMergeAssumption, Merge!NoneIsNone
    <3> QED BY <1>6, <3>2, <3>4 DEF MovesStored
  <2>3. MoveBlock(p, c, Merge!Store(c)) \in Seq(CommandSet(p, s))
    BY <2>0, MoveBlockIs
  <2> QED BY <1>10, <2>1, <2>2, <2>3, PassedNext
<1> QED BY <1>7, <1>8, <1>9, <1>10 DEF Called

\* What passes with a command.
LEMMA WhatPasses ==
    ASSUME Merge!CueMergeAssumption, NEW p \in Plans, NEW s, Merge!Fits(p, s), NEW c \in Cues,
           NEW C, NEW a \in Nat, NEW k \in Nat
    PROVE  /\ Presets(p, c) /\ IsPast(Merge!CallPreset(p, s, c), C, a + 1, k) =>
                 IsPast(Merge!CallPreset(p, s, c), C, a, k) \/ C[a].op = "store"
           /\ Merge!HasEffect(p, c) /\ IsPast(Merge!CallEffect(p, c), C, a + 1, k) =>
                 IsPast(Merge!CallEffect(p, c), C, a, k) \/ C[a].op = "store"
           /\ \A y \in CommandSet(p, s) : IsPast(MoveBlock(p, c, y), C, a + 1, k) =>
                 IsPast(MoveBlock(p, c, y), C, a, k) \/ C[a] = y
<1>1. ASSUME Presets(p, c), IsPast(Merge!CallPreset(p, s, c), C, a + 1, k)
      PROVE  IsPast(Merge!CallPreset(p, s, c), C, a, k) \/ C[a].op = "store"
  <2>1. Merge!CallPreset(p, s, c) \in Seq(CommandSet(p, s))
    BY BlocksAre DEF Calling
  <2>2. \/ IsPast(Merge!CallPreset(p, s, c), C, a, k)
        \/ Win(Merge!CallPreset(p, s, c), C, k) /\ k + Len(Merge!CallPreset(p, s, c)) = a
    BY <1>1, <2>1, PassedNext
  <2>3. Merge!Store(c).op = "store"
    BY OpsAre
  <2> QED BY <1>1, <2>2, <2>3, BlockEnds
<1>2. ASSUME Merge!HasEffect(p, c), IsPast(Merge!CallEffect(p, c), C, a + 1, k)
      PROVE  IsPast(Merge!CallEffect(p, c), C, a, k) \/ C[a].op = "store"
  <2>1. Merge!CallEffect(p, c) \in Seq(CommandSet(p, s))
    BY BlocksAre DEF Calling
  <2>2. \/ IsPast(Merge!CallEffect(p, c), C, a, k)
        \/ Win(Merge!CallEffect(p, c), C, k) /\ k + Len(Merge!CallEffect(p, c)) = a
    BY <1>2, <2>1, PassedNext
  <2>3. Merge!Store(c).op = "store"
    BY OpsAre
  <2> QED BY <1>2, <2>2, <2>3, BlockEnds
<1>3. ASSUME NEW y \in CommandSet(p, s), IsPast(MoveBlock(p, c, y), C, a + 1, k)
      PROVE  IsPast(MoveBlock(p, c, y), C, a, k) \/ C[a] = y
  <2>1. MoveBlock(p, c, y) \in Seq(CommandSet(p, s))
    BY MoveBlockIs
  <2>2. \/ IsPast(MoveBlock(p, c, y), C, a, k)
        \/ Win(MoveBlock(p, c, y), C, k) /\ k + Len(MoveBlock(p, c, y)) = a
    BY <1>3, <2>1, PassedNext
  <2> QED BY <2>2, BlockEnds
<1> QED BY <1>1, <1>2, <1>3

\* and has passed once that was sent.
LEMMA EffectPasses ==
    ASSUME NEW C, NEW a \in Nat, NEW k \in Nat, IsPast(<<Merge!Clear, EffectCreation>>, C, a + 1, k)
    PROVE  IsPast(<<Merge!Clear, EffectCreation>>, C, a, k) \/ C[a] = EffectCreation
<1>1. <<Merge!Clear, EffectCreation>> \in Seq({Merge!Clear, EffectCreation})
  OBVIOUS
<1>2. \/ IsPast(<<Merge!Clear, EffectCreation>>, C, a, k)
      \/ /\ Win(<<Merge!Clear, EffectCreation>>, C, k)
         /\ k + Len(<<Merge!Clear, EffectCreation>>) = a
  BY <1>1, PassedNext
<1> QED BY <1>2, EffectCreationEnds

\* A command that does not store leaves what was called as it is, and one that
\* does not create what was made.
LEMMA CalledOn ==
    ASSUME Merge!CueMergeAssumption, NEW p \in Plans, NEW s, Merge!Fits(p, s),
           NEW C, NEW a \in Nat, NEW w, NEW v, C[a].op # "store",
           Called(p, s, C, a, w), v.row = w.row
    PROVE  Called(p, s, C, a + 1, v)
<1>1. ASSUME NEW c \in Cues, NEW k \in Nat
      PROVE  /\ Presets(p, c) /\ IsPast(Merge!CallPreset(p, s, c), C, a + 1, k) => PresetStored(p, s, c, w)
             /\ Merge!HasEffect(p, c) /\ IsPast(Merge!CallEffect(p, c), C, a + 1, k) => EffectStored(p, c, w)
             /\ p.kind # "resources" /\ IsPast(MoveBlock(p, c, Merge!Store(c)), C, a + 1, k) =>
                   MovesStored(p, s, c, w)
  <2>1. Merge!Store(c) \in CommandSet(p, s) /\ Merge!Store(c).op = "store"
    BY CueOfPlan, OpsAre
  <2>2. /\ Presets(p, c) /\ IsPast(Merge!CallPreset(p, s, c), C, a + 1, k) =>
              IsPast(Merge!CallPreset(p, s, c), C, a, k)
        /\ Merge!HasEffect(p, c) /\ IsPast(Merge!CallEffect(p, c), C, a + 1, k) =>
              IsPast(Merge!CallEffect(p, c), C, a, k)
        /\ IsPast(MoveBlock(p, c, Merge!Store(c)), C, a + 1, k) =>
              IsPast(MoveBlock(p, c, Merge!Store(c)), C, a, k)
    BY <2>1, WhatPasses
  <2> QED BY <2>2 DEF Called
<1>2. \A c \in Cues :
         /\ PresetStored(p, s, c, w) => PresetStored(p, s, c, v)
         /\ EffectStored(p, c, w) => EffectStored(p, c, v)
         /\ MovesStored(p, s, c, w) => MovesStored(p, s, c, v)
  BY DEF PresetStored, EffectStored, MovesStored
<1> QED BY <1>1, <1>2 DEF Called

\* A command that creates nothing leaves what was created as it was.
LEMMA MadeOn ==
    ASSUME Merge!CueMergeAssumption, NEW p \in Plans, NEW s, Merge!Fits(p, s),
           NEW C, NEW a \in Nat, NEW w, NEW v,
           C[a].op # "create preset" /\ C[a].op # "create effect",
           Made(p, s, C, a, w), v.preset = w.preset, v.effect = w.effect
    PROVE  Made(p, s, C, a + 1, v)
<1> SUFFICES ASSUME p.kind = "resources"
             PROVE  /\ \A d \in Merge!Distinct(p), k \in Nat :
                          IsPast(MoveBlock(p, d, Creation(p, s, d)), C, a + 1, k) => PresetIs(p, s, d, v)
                    /\ \A k \in Nat : IsPast(<<Merge!Clear, EffectCreation>>, C, a + 1, k) =>
                                         v.effect[Merge!Created] # None
  BY DEF Made
<1>1. ASSUME NEW d \in Merge!Distinct(p), NEW k \in Nat,
             IsPast(MoveBlock(p, d, Creation(p, s, d)), C, a + 1, k)
      PROVE  PresetIs(p, s, d, v)
  <2>1. d \in Cues
    BY DEF Merge!Distinct
  <2>2. Creation(p, s, d) \in CommandSet(p, s) /\ Creation(p, s, d).op = "create preset"
    BY <2>1, CueOfPlan, CreationIs
  <2>3. IsPast(MoveBlock(p, d, Creation(p, s, d)), C, a, k)
    BY <1>1, <2>1, <2>2, WhatPasses
  <2>4. PresetIs(p, s, d, w)
    BY <2>3 DEF Made
  <2> QED BY <2>4 DEF PresetIs, HoldsPosition
<1>2. ASSUME NEW k \in Nat, IsPast(<<Merge!Clear, EffectCreation>>, C, a + 1, k)
      PROVE  v.effect[Merge!Created] # None
  <2>1. EffectCreation.op = "create effect"
    BY OpsAre
  <2>2. IsPast(<<Merge!Clear, EffectCreation>>, C, a, k)
    BY <1>2, <2>1, EffectPasses
  <2> QED BY <2>2 DEF Made
<1> QED BY <1>1, <1>2

Preset(lab, g) ==
    [label |-> lab, by |-> "plan",
     at |-> [f \in Merge!Fixtures |-> <<g.row[<<f, "PAN">>].value, g.row[<<f, "TILT">>].value>>]]

\* A preset that is created holds the positions of its cue.
LEMMA PresetHolds ==
    ASSUME Merge!CueMergeAssumption, NEW p \in Plans, NEW s, Merge!Fits(p, s), NEW c \in Cues,
           p.kind = "resources", NEW g, AfterMoves(p, c, g, Len(Merge!Moves(p, c)))
    PROVE  /\ Preset(p.cue[c].name, g) # None
           /\ Preset(p.cue[c].name, g).label = p.cue[c].name
           /\ \A j \in 1..Len(Order), k \in 1..2 :
                 Preset(p.cue[c].name, g).at[Order[j]][k] = Merge!Sent(p, c, j)[k]
<1>v. PICK v : v = Preset(p.cue[c].name, g)
  OBVIOUS
<1>l. PICK lab : lab = p.cue[c].name
  OBVIOUS
<1>1. ASSUME NEW x \in Merge!Slots PROVE g.row[x].value \in Merge!Values
  <2>1. CASE g.row[x].value = None
    BY <2>1 DEF Merge!Values
  <2>2. CASE g.row[x].value # None
    <3>1. PICK j \in 1..Len(Order), k \in 1..2 :
             x = Slot2(j, k) /\ g.row[x].value = Merge!Sent(p, c, j)[k]
      BY <2>2 DEF AfterMoves
    <3>2. Merge!Sent(p, c, j)[k] \in Int
      BY <3>1, SentIs
    <3> QED BY <3>1, <3>2 DEF Merge!Values
  <2> QED BY <2>1, <2>2
<1>2. \A f \in Merge!Fixtures : <<f, "PAN">> \in Merge!Slots /\ <<f, "TILT">> \in Merge!Slots
  BY DEF Merge!Slots
<1>h. PICK h : h = [f \in Merge!Fixtures |-> <<g.row[<<f, "PAN">>].value, g.row[<<f, "TILT">>].value>>]
  OBVIOUS
<1>3. v = [label |-> lab, by |-> "plan", at |-> h]
  BY <1>v, <1>l, <1>h DEF Preset
<1>4. h \in [Merge!Fixtures -> Merge!Values \X Merge!Values]
  BY <1>1, <1>2, <1>h
<1>5. lab \in Merge!Names
  BY <1>l DEF Merge!Names
<1>6. v \in [label : Merge!Names, by : {"plan"}, at : [Merge!Fixtures -> Merge!Values \X Merge!Values]]
  BY <1>3, <1>4, <1>5
<1>7. v # None
  BY <1>6 DEF Merge!CueMergeAssumption, Merge!NoneIsNone
<1>8. ASSUME NEW j \in 1..Len(Order), NEW k \in 1..2
      PROVE  v.at[Order[j]][k] = Merge!Sent(p, c, j)[k]
  <2>1. Order[j] \in Merge!Fixtures
    BY PositionSlots DEF Merge!Fixtures
  <2>2. h[Order[j]] = <<g.row[<<Order[j], "PAN">>].value, g.row[<<Order[j], "TILT">>].value>>
    BY <1>h, <2>1
  <2>3. /\ g.row[<<Order[j], "PAN">>].value = Merge!Sent(p, c, j)[1]
        /\ g.row[<<Order[j], "TILT">>].value = Merge!Sent(p, c, j)[2]
    <3>1. Slot2(j, 1) = <<Order[j], "PAN">> /\ Slot2(j, 2) = <<Order[j], "TILT">>
      BY DEF Slot2, Attribute
    <3>2. /\ g.row[Slot2(j, 1)].value = Merge!Sent(p, c, j)[1]
          /\ g.row[Slot2(j, 2)].value = Merge!Sent(p, c, j)[2]
      BY MovesEnd
    <3> QED BY <3>1, <3>2
  <2> PICK y, z : y = Merge!Sent(p, c, j)[1] /\ z = Merge!Sent(p, c, j)[2]
    OBVIOUS
  <2>4. h[Order[j]] = <<y, z>>
    BY <2>2, <2>3
  <2>5. h[Order[j]][1] = y /\ h[Order[j]][2] = z
    BY <2>4
  <2>6. v.at = h
    BY <1>3
  <2>7. CASE k = 1
    BY <2>5, <2>6, <2>7
  <2>8. CASE k = 2
    BY <2>5, <2>6, <2>8
  <2> QED BY <2>7, <2>8
<1> QED BY <1>v, <1>l, <1>3, <1>7, <1>8

\* The moves of a cue are a finite number of commands.
LEMMA MovesCount ==
    ASSUME Merge!CueMergeAssumption, NEW p \in Plans, NEW s, Merge!Fits(p, s), NEW c \in Cues
    PROVE  Len(Merge!Moves(p, c)) \in Nat
  BY CueOfPlan, MoveBlockIs

\* A block ends two commands after its moves began and their number.
LEMMA WhereMovesEnd ==
    ASSUME NEW k \in Nat, NEW l \in Nat, NEW a, a = k + (l + 2)
    PROVE  a = (k + 2) + l /\ l \in 0..l
  OBVIOUS

\* What passes when a preset is created is there,
LEMMA PresetGoes ==
    ASSUME Merge!CueMergeAssumption, NEW p \in Plans, NEW s, Merge!Fits(p, s),
           NEW C, Cov(Blocks(p, s), C), NEW a \in Nat, a \in 1..Len(C),
           Doing(p, s, C, a, prog), IsShow(show),
           Made(p, s, C, a, show), C[a].op = "create preset"
    PROVE  Made(p, s, C, a + 1, Merge!Show(C[a]))
<1> PICK cmd : cmd = C[a]
  OBVIOUS
<1> PICK w : w = Merge!Show(cmd)
  OBVIOUS
<1>1. Creates(p, s, C, a)
  BY WhereItStands
<1>2. PICK d \in Merge!Distinct(p), k \in Nat :
         /\ cmd = Creation(p, s, d) /\ Win(MoveBlock(p, d, Creation(p, s, d)), C, k)
         /\ p.kind = "resources" /\ a = k + (Len(Merge!Moves(p, d)) + 2)
  BY <1>1 DEF Creates
<1>3. d \in Cues
  BY <1>2 DEF Merge!Distinct
<1>4. AfterMoves(p, d, prog, Len(Merge!Moves(p, d)))
  <2>0. Len(Merge!Moves(p, d)) \in Nat
    BY <1>3, MovesCount
  <2>1. a = (k + 2) + Len(Merge!Moves(p, d)) /\ Len(Merge!Moves(p, d)) \in 0..Len(Merge!Moves(p, d))
    BY <1>2, <2>0, WhereMovesEnd
  <2>2. Creation(p, s, d) \in CommandSet(p, s)
    BY <1>3, CueOfPlan
  <2> QED BY <1>2, <1>3, <2>1, <2>2 DEF Doing
<1>5. cmd.op = "create preset" /\ cmd.number = Merge!NumberOf(p, s, d) /\ cmd.label = p.cue[d].name
  <2>1. /\ Creation(p, s, d).op = "create preset"
        /\ Creation(p, s, d).number = Merge!NumberOf(p, s, d)
        /\ Creation(p, s, d).label = p.cue[d].name
    BY CreationIs
  <2> QED BY <1>2, <2>1
<1>v. PICK v : v = Preset(p.cue[d].name, prog)
  OBVIOUS
<1>6. /\ w.effect = show.effect
      /\ \A n \in Merge!Numbers :
            w.preset[n] = IF n = Merge!NumberOf(p, s, d) THEN v ELSE show.preset[n]
  <2>1. /\ w.effect = show.effect
        /\ \A n \in Merge!Numbers :
              w.preset[n] =
                 IF n = cmd.number
                 THEN [label |-> cmd.label, by |-> "plan",
                       at |-> [f \in Merge!Fixtures |-> <<prog.row[<<f, "PAN">>].value,
                                                          prog.row[<<f, "TILT">>].value>>]]
                 ELSE show.preset[n]
    BY <1>5, ShowParts
  <2>2. v = [label |-> cmd.label, by |-> "plan",
             at |-> [f \in Merge!Fixtures |-> <<prog.row[<<f, "PAN">>].value,
                                                prog.row[<<f, "TILT">>].value>>]]
    BY <1>5, <1>v DEF Preset
  <2>3. \A n \in Merge!Numbers : w.preset[n] = IF n = cmd.number THEN v ELSE show.preset[n]
    BY <2>1, <2>2
  <2> QED BY <1>5, <2>1, <2>3
<1>7. /\ v # None /\ v.label = p.cue[d].name
      /\ \A j \in 1..Len(Order), l \in 1..2 : v.at[Order[j]][l] = Merge!Sent(p, d, j)[l]
  BY <1>2, <1>3, <1>4, <1>v, PresetHolds
<1>8. /\ \A e \in Merge!Distinct(p) : Merge!NumberOf(p, s, e) \in Merge!Numbers
      /\ \A e \in Merge!Distinct(p) : Merge!NumberOf(p, s, e) = Merge!NumberOf(p, s, d) => e = d
  <2>1. \A e \in Merge!Distinct(p) : Merge!NumberOf(p, s, e) \in Merge!Numbers
    BY <1>2, NumbersAre
  <2>2. \A c, e \in Merge!Distinct(p) : Merge!NumberOf(p, s, c) = Merge!NumberOf(p, s, e) => c = e
    BY <1>2, NumbersAre
  <2> QED BY <1>2, <2>1, <2>2
<1>9. PresetIs(p, s, d, w)
  <2>1. w.preset[Merge!NumberOf(p, s, d)] = v
    BY <1>2, <1>6, <1>8
  <2> QED BY <1>7, <2>1 DEF PresetIs, HoldsPosition
<1>10. ASSUME NEW e \in Merge!Distinct(p), NEW l \in Nat,
              IsPast(MoveBlock(p, e, Creation(p, s, e)), C, a + 1, l)
       PROVE  PresetIs(p, s, e, w)
  <2>1. e \in Cues
    BY DEF Merge!Distinct
  <2>2. CASE e = d
    BY <1>9, <2>2
  <2>3. CASE e # d
    <3>1. Creation(p, s, e) # cmd
      <4>1. Creation(p, s, e).number = Merge!NumberOf(p, s, e)
        BY CreationIs
      <4> QED BY <1>5, <1>8, <2>3, <4>1
    <3>2. IsPast(MoveBlock(p, e, Creation(p, s, e)), C, a, l)
      <4> PICK y : y = Creation(p, s, e)
        OBVIOUS
      <4>1. y \in CommandSet(p, s)
        BY <2>1, CueOfPlan
      <4>2. IsPast(MoveBlock(p, e, y), C, a + 1, l)
        BY <1>10
      <4>3. IsPast(MoveBlock(p, e, y), C, a, l) \/ C[a] = y
        BY <2>1, <4>1, <4>2, WhatPasses
      <4> QED BY <3>1, <4>3
    <3>3. PresetIs(p, s, e, show)
      BY <1>2, <3>2 DEF Made
    <3>4. w.preset[Merge!NumberOf(p, s, e)] = show.preset[Merge!NumberOf(p, s, e)]
      BY <1>6, <1>8, <2>3
    <3> QED BY <3>3, <3>4 DEF PresetIs, HoldsPosition
  <2> QED BY <2>2, <2>3
<1>11. ASSUME NEW l \in Nat, IsPast(<<Merge!Clear, EffectCreation>>, C, a + 1, l)
       PROVE  w.effect[Merge!Created] # None
  <2>1. EffectCreation # cmd
    BY <1>5, OpsAre
  <2>2. IsPast(<<Merge!Clear, EffectCreation>>, C, a, l)
    BY <1>11, <2>1, EffectPasses
  <2> QED BY <1>2, <1>6, <2>2 DEF Made
<1> QED BY <1>10, <1>11 DEF Made

\* and when an effect is.
LEMMA EffectGoes ==
    ASSUME Merge!CueMergeAssumption, NEW p \in Plans, NEW s, Merge!Fits(p, s),
           NEW C, NEW a \in Nat, IsShow(show), Made(p, s, C, a, show), C[a].op = "create effect"
    PROVE  Made(p, s, C, a + 1, Merge!Show(C[a]))
<1> PICK w : w = Merge!Show(C[a])
  OBVIOUS
<1>1. w.preset = show.preset /\ w.effect[Merge!Created] = "plan"
  BY ShowParts
<1>2. w.effect[Merge!Created] # None
  BY <1>1 DEF Merge!CueMergeAssumption, Merge!NoneIsNone
<1>3. ASSUME NEW d \in Merge!Distinct(p), NEW k \in Nat, p.kind = "resources",
             IsPast(MoveBlock(p, d, Creation(p, s, d)), C, a + 1, k)
      PROVE  PresetIs(p, s, d, w)
  <2>1. d \in Cues
    BY DEF Merge!Distinct
  <2>2. Creation(p, s, d) \in CommandSet(p, s) /\ Creation(p, s, d).op = "create preset"
    BY <2>1, CueOfPlan, CreationIs
  <2>3. IsPast(MoveBlock(p, d, Creation(p, s, d)), C, a, k)
    BY <1>3, <2>1, <2>2, WhatPasses
  <2>4. PresetIs(p, s, d, show)
    BY <1>3, <2>3 DEF Made
  <2> QED BY <1>1, <2>4 DEF PresetIs, HoldsPosition
<1> QED BY <1>2, <1>3 DEF Made

\* Every command leaves the show as far as the plan has it.
LEMMA ShowGoesOn ==
    ASSUME Merge!CueMergeAssumption, NEW p \in Plans, NEW s, Merge!Fits(p, s),
           NEW C, Cov(Blocks(p, s), C), NEW a \in 1..Len(C), Len(C) \in Nat,
           Doing(p, s, C, a, prog), IsShow(show),
           Kept(p, s, show), Called(p, s, C, a, show), Made(p, s, C, a, show)
    PROVE  /\ Kept(p, s, Merge!Show(C[a]))
           /\ Called(p, s, C, a + 1, Merge!Show(C[a]))
           /\ Made(p, s, C, a + 1, Merge!Show(C[a]))
<1> PICK w : w = Merge!Show(C[a])
  OBVIOUS
<1>0. a \in Nat
  OBVIOUS
<1>1. CASE C[a].op = "store"
  <2>1. Kept(p, s, w) /\ Called(p, s, C, a + 1, w)
    BY <1>1, StoreGoes
  <2>2. PICK c \in Cues : C[a] = Merge!Store(c)
    BY <1>1, WhereItStands DEF Stores
  <2>3. C[a].cue \in Cues
    BY <2>2, OpsAre
  <2>4. w.preset = show.preset /\ w.effect = show.effect
    BY <1>1, <2>3, ShowParts
  <2>5. C[a].op # "create preset" /\ C[a].op # "create effect"
    BY <1>1
  <2>6. Made(p, s, C, a + 1, w)
    BY <1>0, <2>4, <2>5, MadeOn
  <2> QED BY <2>1, <2>6
<1>2. CASE C[a].op = "create preset"
  <2>1. w.row = show.row /\ w.labels = show.labels /\ w.effect = show.effect
    BY <1>2, ShowParts
  <2>2. C[a].op # "store"
    BY <1>2
  <2>3. Called(p, s, C, a + 1, w)
    BY <1>0, <2>1, <2>2, CalledOn
  <2>4. Kept(p, s, w)
    BY <2>1 DEF Kept
  <2>5. Made(p, s, C, a + 1, w)
    BY <1>0, <1>2, PresetGoes
  <2> QED BY <2>3, <2>4, <2>5
<1>3. CASE C[a].op = "create effect"
  <2>1. /\ w.row = show.row /\ w.labels = show.labels
        /\ \A e \in {Merge!Created, Merge!Verified} :
              w.effect[e] = IF e = Merge!Created THEN "plan" ELSE show.effect[e]
    BY <1>3, ShowParts
  <2>2. C[a].op # "store"
    BY <1>3
  <2>3. Called(p, s, C, a + 1, w)
    BY <1>0, <2>1, <2>2, CalledOn
  <2>4. "plan" # None
    BY DEF Merge!CueMergeAssumption, Merge!NoneIsNone
  <2>5. Kept(p, s, w)
    BY <2>1, <2>4 DEF Kept
  <2>6. Made(p, s, C, a + 1, w)
    BY <1>0, <1>3, EffectGoes
  <2> QED BY <2>3, <2>5, <2>6
<1>4. CASE C[a].op # "store" /\ C[a].op # "create preset" /\ C[a].op # "create effect"
  <2>1. w = show
    BY <1>4, ShowParts
  <2>2. Called(p, s, C, a + 1, w)
    BY <1>0, <1>4, <2>1, CalledOn
  <2>3. Made(p, s, C, a + 1, w)
    BY <1>0, <1>4, <2>1, MadeOn
  <2> QED BY <2>1, <2>2, <2>3
<1> QED BY <1>1, <1>2, <1>3, <1>4

-----------------------------------------------------------------------------
(* Every command of a plan nobody disturbs is accepted.                     *)

\* What is created is there before it is called.
LEMMA AllMade ==
    ASSUME Merge!CueMergeAssumption, NEW p \in Plans, NEW s, Merge!Fits(p, s), p.kind = "resources",
           NEW C, C = Merge!CommandsOf(p, s), NEW a \in Nat, a \in 1..Len(C), NEW w,
           Made(p, s, C, a, w),
           C[a].op = "preset" \/ C[a].op = "effect" \/ a = Len(C)
    PROVE  /\ \A d \in Merge!Distinct(p) : PresetIs(p, s, d, w)
           /\ \A c \in Cues : HoldsPosition(p, s, c, w)
           /\ w.effect[Merge!Created] # None
<1>1. PICK A \in Nat :
         /\ \A m \in 1..A : m \in 1..Len(C) /\ C[m].op \notin {"preset", "effect", "store"}
         /\ \A c \in Merge!Distinct(p) :
               \E k : /\ Win(MoveBlock(p, c, Creation(p, s, c)), C, k)
                      /\ k + Len(MoveBlock(p, c, Creation(p, s, c))) <= A
         /\ \E k : Win(<<Merge!Clear, EffectCreation>>, C, k) /\ k + 2 <= A
  BY CommandsAre
<1>2. C \in Seq(CommandSet(p, s)) /\ Len(C) \in Nat
  BY CommandsAre
<1>3. C[a].op \in {"preset", "effect", "clear"}
  <2>1. a = Len(C) => C[a].op = "clear"
    BY CommandsAre, OpsAre
  <2> QED BY <2>1
<1>4. A <= a
  <2>1. CASE a = Len(C)
    <3>1. A = 0 \/ A \in 1..A
      OBVIOUS
    <3>2. A = 0 \/ A \in 1..Len(C)
      BY <1>1, <3>1
    <3> QED BY <1>2, <2>1, <3>2
  <2>2. CASE C[a].op = "preset" \/ C[a].op = "effect"
    <3>1. a \notin 1..A
      BY <1>1, <2>2
    <3>2. a >= 1
      BY <1>2
    <3> QED BY <3>1, <3>2
  <2> QED BY <2>1, <2>2
<1>5. ASSUME NEW d \in Merge!Distinct(p) PROVE PresetIs(p, s, d, w)
  <2>1. d \in Cues
    BY DEF Merge!Distinct
  <2>2. PICK y : y = Creation(p, s, d)
    OBVIOUS
  <2>3. y \in CommandSet(p, s) /\ y.op = "create preset"
    BY <2>1, <2>2, CueOfPlan, CreationIs
  <2>4. PICK k : Win(MoveBlock(p, d, y), C, k) /\ k + Len(MoveBlock(p, d, y)) <= A
    BY <1>1, <2>2
  <2>5. k \in Nat /\ Len(MoveBlock(p, d, y)) \in Nat
    <3>1. MoveBlock(p, d, y) \in Seq(CommandSet(p, s))
      BY <2>1, <2>3, MoveBlockIs
    <3> QED BY <2>4, <3>1 DEF Win
  <2>6. k + Len(MoveBlock(p, d, y)) # a
    <3>1. ASSUME k + Len(MoveBlock(p, d, y)) = a PROVE C[a] = y
      <4>1. \A x \in CommandSet(p, s) :
               Win(MoveBlock(p, d, x), C, k) /\ k + Len(MoveBlock(p, d, x)) = a => C[a] = x
        BY <2>1, <2>5, BlockEnds
      <4> QED BY <2>3, <2>4, <3>1, <4>1
    <3> QED BY <1>3, <2>3, <3>1
  <2>7. k + Len(MoveBlock(p, d, y)) < a
    BY <1>4, <2>4, <2>5, <2>6
  <2>8. IsPast(MoveBlock(p, d, y), C, a, k)
    BY <2>4, <2>7 DEF IsPast
  <2> QED BY <2>2, <2>5, <2>8 DEF Made
<1>6. w.effect[Merge!Created] # None
  <2> PICK b : b = <<Merge!Clear, EffectCreation>>
    OBVIOUS
  <2>1. PICK k : Win(b, C, k) /\ k + 2 <= A
    BY <1>1
  <2>2. k \in Nat /\ Len(b) = 2
    BY <2>1 DEF Win
  <2>3. k + Len(b) # a
    <3>1. ASSUME k + Len(b) = a PROVE C[a] = EffectCreation
      BY <2>1, <2>2, <3>1, EffectCreationEnds
    <3> QED BY <1>3, <3>1, OpsAre
  <2>4. k + Len(b) < a
    BY <1>4, <2>1, <2>2, <2>3
  <2>5. IsPast(b, C, a, k)
    BY <2>1, <2>4 DEF IsPast
  <2> QED BY <2>2, <2>5 DEF Made
<1>7. ASSUME NEW c \in Cues PROVE HoldsPosition(p, s, c, w)
  <2>1. PICK d \in Merge!Distinct(p) :
           p.cue[d].raw = p.cue[c].raw /\ Merge!NumberOf(p, s, d) = Merge!NumberOf(p, s, c)
    BY NumbersAre
  <2>2. HoldsPosition(p, s, d, w) /\ d \in Cues
    BY <1>5 DEF PresetIs, Merge!Distinct
  <2>3. ASSUME NEW j \in 1..Len(Order) PROVE Merge!Sent(p, d, j) = Merge!Sent(p, c, j)
    <3>1. Merge!Aim(p, d, j) = p.cue[d].raw[j] /\ Merge!Aim(p, c, j) = p.cue[c].raw[j]
      BY <2>2, SentIs
    <3>2. Merge!Aim(p, d, j) = Merge!Aim(p, c, j)
      BY <2>1, <3>1
    <3> QED BY <3>2 DEF Merge!Sent
  <2> QED BY <2>1, <2>2, <2>3 DEF HoldsPosition
<1> QED BY <1>5, <1>6, <1>7

\* The console refuses no command of the plan.
LEMMA AcceptsAll ==
    ASSUME Merge!CueMergeAssumption, NEW p \in Plans, NEW s, Merge!Fits(p, s),
           NEW C, C = Merge!CommandsOf(p, s), NEW a \in Nat, a \in 1..Len(C),
           Kept(p, s, show), Made(p, s, C, a, show)
    PROVE  Merge!Accepts(C[a])
<1> PICK cmd : cmd = C[a]
  OBVIOUS
<1>0. Cov(Blocks(p, s), C)
  BY CommandsAre
<1>1. CASE cmd.op = "preset"
  <2>1. PICK c \in Cues : Presets(p, c) /\ cmd = Merge!Call(PresetOf(p, s, c))
    <3>1. Calls(p, s, C, a)
      BY <1>0, <1>1, WhereItStands
    <3> QED BY <3>1 DEF Calls
  <2>2. cmd.preset = PresetOf(p, s, c)
    BY <2>1, OpsAre
  <2>3. CASE Merge!HasColour(p, c)
    BY <1>1, <2>2, <2>3 DEF PresetOf, Merge!Accepts, Merge!Has
  <2>4. CASE ~Merge!HasColour(p, c)
    <3>1. p.kind = "resources"
      BY <2>1, <2>4 DEF Presets
    <3>2. show.preset[Merge!NumberOf(p, s, c)] # None
      BY <1>1, <3>1, AllMade DEF HoldsPosition
    <3>3. cmd.preset[2] = Merge!NumberOf(p, s, c)
      BY <2>2, <2>4 DEF PresetOf, Merge!Position
    <3> QED BY <1>1, <3>2, <3>3 DEF Merge!Accepts, Merge!Has
  <2> QED BY <2>3, <2>4
<1>2. CASE cmd.op = "effect"
  <2>1. PICK c \in Cues : Merge!HasEffect(p, c) /\ cmd = Merge!Effect(p.cue[c].effect)
    BY <1>0, <1>2, WhereItStands DEF Effects
  <2>2. PICK e : e = p.cue[c].effect
    OBVIOUS
  <2>3. cmd.effect = e
    BY <2>1, <2>2, OpsAre
  <2>4. show.effect[e] # None
    <3>1. p.kind # "position" /\ e # None
      BY <2>1, <2>2 DEF Merge!HasEffect
    <3>2. /\ p.kind = "position" \/ p.kind = "dynamic" \/ p.kind = "resources"
          /\ p.kind = "dynamic" => e \in {None, Merge!Created, Merge!Verified}
          /\ p.kind = "resources" => e \in {None, Merge!Created}
      BY <2>1, <2>2 DEF Merge!CueMergeAssumption, Merge!IsPlan
    <3>3. CASE p.kind = "dynamic"
      <4>1. s.effect[e] # None
        BY <2>1, <2>2, <3>3 DEF Merge!Fits, Merge!DynamicFits
      <4> QED BY <3>1, <3>2, <3>3, <4>1 DEF Kept
    <3>4. CASE p.kind = "resources"
      <4>1. e = Merge!Created
        BY <3>1, <3>2, <3>4
      <4>2. show.effect[Merge!Created] # None
        BY <1>2, <3>4, AllMade
      <4> QED BY <4>1, <4>2
    <3> QED BY <3>1, <3>2, <3>3, <3>4
  <2> QED BY <1>2, <2>3, <2>4 DEF Merge!Accepts
<1>3. CASE cmd.op # "preset" /\ cmd.op # "effect"
  BY <1>3 DEF Merge!Accepts
<1> QED BY <1>1, <1>2, <1>3

-----------------------------------------------------------------------------
(* What was called and made is what the export is compared with.            *)

\* At the end every cue holds what its blocks called.
LEMMA AllCalled ==
    ASSUME Merge!CueMergeAssumption, NEW p \in Plans, NEW s, Merge!Fits(p, s),
           NEW C, C = Merge!CommandsOf(p, s), NEW w, Called(p, s, C, Len(C), w), NEW c \in Cues
    PROVE  /\ Presets(p, c) => PresetStored(p, s, c, w)
           /\ Merge!HasEffect(p, c) => EffectStored(p, c, w)
           /\ p.kind # "resources" => MovesStored(p, s, c, w)
<1> PICK a : a = Len(C)
  OBVIOUS
<1>1. /\ C \in Seq(CommandSet(p, s)) /\ a \in Nat
      /\ C[a].op = "clear"
  <2>1. C \in Seq(CommandSet(p, s))
    BY CommandsAre
  <2>2. C[Len(C)] = Merge!Clear
    BY CommandsAre
  <2>3. C[a].op = "clear"
    BY <2>2, OpsAre
  <2> QED BY <2>1, <2>3
<1>2. Merge!Store(c) \in CommandSet(p, s) /\ Merge!Store(c).op = "store"
  BY CueOfPlan, OpsAre
<1>3. ASSUME NEW b \in Seq(CommandSet(p, s)), NEW k, Win(b, C, k),
             k + Len(b) = a => C[a] = Merge!Store(c)
      PROVE  k \in Nat /\ IsPast(b, C, a, k)
  <2>1. k \in Nat /\ Len(b) \in Nat /\ k + Len(b) <= a
    BY <1>3 DEF Win
  <2>2. k + Len(b) # a
    BY <1>1, <1>2, <1>3
  <2>3. k + Len(b) < a
    BY <1>1, <2>1, <2>2
  <2> QED BY <1>3, <2>1, <2>3 DEF IsPast
<1>4. ASSUME Presets(p, c) PROVE PresetStored(p, s, c, w)
  <2> PICK b : b = Merge!CallPreset(p, s, c)
    OBVIOUS
  <2>1. PICK k : Win(b, C, k)
    BY CommandsAre
  <2>2. b \in Seq(CommandSet(p, s))
    BY BlocksAre DEF Calling
  <2>3. k \in Nat
    BY <2>1 DEF Win
  <2>4. k + Len(b) = a => C[a] = Merge!Store(c)
    BY <1>1, <1>4, <2>1, <2>3, BlockEnds
  <2>5. IsPast(b, C, a, k)
    BY <1>3, <2>1, <2>2, <2>4
  <2> QED BY <1>4, <2>3, <2>5 DEF Called
<1>5. ASSUME Merge!HasEffect(p, c) PROVE EffectStored(p, c, w)
  <2> PICK b : b = Merge!CallEffect(p, c)
    OBVIOUS
  <2>1. PICK k : Win(b, C, k)
    BY CommandsAre
  <2>2. b \in Seq(CommandSet(p, s))
    BY BlocksAre DEF Calling
  <2>3. k \in Nat
    BY <2>1 DEF Win
  <2>4. k + Len(b) = a => C[a] = Merge!Store(c)
    BY <1>1, <1>5, <2>1, <2>3, BlockEnds
  <2>5. IsPast(b, C, a, k)
    BY <1>3, <2>1, <2>2, <2>4
  <2> QED BY <1>5, <2>3, <2>5 DEF Called
<1>6. ASSUME p.kind # "resources" PROVE MovesStored(p, s, c, w)
  <2> PICK y : y = Merge!Store(c)
    OBVIOUS
  <2> PICK b : b = MoveBlock(p, c, y)
    OBVIOUS
  <2>1. PICK k : Win(b, C, k)
    BY <1>6, CommandsAre
  <2>2. b \in Seq(CommandSet(p, s))
    BY <1>2, MoveBlockIs
  <2>3. k \in Nat
    BY <2>1 DEF Win
  <2>4. k + Len(b) = a => C[a] = y
    <3>1. \A x \in CommandSet(p, s) :
             Win(MoveBlock(p, c, x), C, k) /\ k + Len(MoveBlock(p, c, x)) = a => C[a] = x
      BY <1>1, <2>3, BlockEnds
    <3> QED BY <1>2, <2>1, <3>1
  <2>5. IsPast(b, C, a, k)
    BY <1>3, <2>1, <2>2, <2>4
  <2> QED BY <1>6, <2>3, <2>5 DEF Called
<1> QED BY <1>4, <1>5, <1>6

\* A row that became what the plan has kept what the verifier protects.
LEMMA RowProtected ==
    ASSUME NEW p, NEW s, NEW c, NEW x, NEW q, NEW r, RowIs(p, s, c, x, q, r),
           Merge!IsRow(x, q), Merge!IsRow(x, r)
    PROVE  /\ Merge!Protected(p, c, x, r) = Merge!Protected(p, c, x, q)
           /\ p.kind = "position" /\ ~Merge!PositionRow(x) => r = q
<1> DEFINE free == /\ Merge!OnTarget(x)
                   /\ Merge!PositionRow(x) \/ (x[2] = "COLOR" /\ Merge!HasColour(p, c))
           held(u) == IF free THEN [u EXCEPT !.value = None, !.preset = None] ELSE u
<1>1. /\ q = [value |-> q.value, preset |-> q.preset, effect |-> q.effect]
      /\ r = [value |-> r.value, preset |-> r.preset, effect |-> r.effect]
  BY DEF Merge!IsRow
<1>2. ValueSlot(p, c, x) => free
  BY DEF ValueSlot, Merge!PositionRow
<1>3. ~free => r.value = q.value /\ r.preset = q.preset
  BY <1>2 DEF RowIs
<1>4. EffectSlot(p, c, x) <=> Merge!OnTarget(x) /\ x[2] = "DIM" /\ Merge!HasEffect(p, c)
  BY DEF EffectSlot
<1>5. ~EffectSlot(p, c, x) => r.effect = q.effect
  BY DEF RowIs
<1>6. \A u : Merge!Protected(p, c, x, u) =
                IF EffectSlot(p, c, x) THEN [held(u) EXCEPT !.effect = None] ELSE held(u)
  BY <1>4 DEF Merge!Protected
<1>7. \A u : u = [value |-> u.value, preset |-> u.preset, effect |-> u.effect] =>
          held(u) = [value |-> IF free THEN None ELSE u.value,
                     preset |-> IF free THEN None ELSE u.preset, effect |-> u.effect]
  OBVIOUS
<1> HIDE DEF free
<1>8. /\ held(q) = [value |-> IF free THEN None ELSE q.value,
                    preset |-> IF free THEN None ELSE q.preset, effect |-> q.effect]
      /\ held(r) = [value |-> IF free THEN None ELSE r.value,
                    preset |-> IF free THEN None ELSE r.preset, effect |-> r.effect]
  BY <1>1, <1>7
<1> HIDE DEF held
<1>9. Merge!Protected(p, c, x, r) = Merge!Protected(p, c, x, q)
  <2>1. CASE EffectSlot(p, c, x)
    <3>1. [held(q) EXCEPT !.effect = None] = [held(r) EXCEPT !.effect = None]
      BY <1>3, <1>8
    <3> QED BY <1>6, <2>1, <3>1
  <2>2. CASE ~EffectSlot(p, c, x)
    <3>1. held(q) = held(r)
      BY <1>3, <1>5, <1>8, <2>2
    <3> QED BY <1>6, <2>2, <3>1
  <2> QED BY <2>1, <2>2
<1>10. ASSUME p.kind = "position", ~Merge!PositionRow(x) PROVE r = q
  <2>1. ~Merge!HasEffect(p, c) /\ ~Merge!HasColour(p, c)
    BY <1>10 DEF Merge!HasEffect, Merge!HasColour
  <2>2. ~free
    BY <1>10, <2>1 DEF free
  <2>3. r.effect = q.effect
    BY <1>4, <1>5, <2>1
  <2> QED BY <1>1, <1>3, <2>2, <2>3
<1> QED BY <1>9, <1>10

\* What a merge must not touch is as the preview found it.
LEMMA SnapshotKept ==
    ASSUME NEW p, NEW s, NEW w, Kept(p, s, w), IsShow(s), IsShow(w)
    PROVE  Merge!Snapshot(p, w) = Merge!Snapshot(p, s)
<1>1. ASSUME NEW c \in Cues, NEW x \in Merge!Slots
      PROVE  /\ Merge!Protected(p, c, x, w.row[c][x]) = Merge!Protected(p, c, x, s.row[c][x])
             /\ p.kind = "position" /\ ~Merge!PositionRow(x) => w.row[c][x] = s.row[c][x]
  <2> PICK q, r : q = s.row[c][x] /\ r = w.row[c][x]
    OBVIOUS
  <2>1. Merge!IsRow(x, q) /\ Merge!IsRow(x, r)
    BY DEF IsShow
  <2>2. RowIs(p, s, c, x, q, r)
    BY DEF Kept
  <2> QED BY <2>1, <2>2, RowProtected
<1>2. CASE p.kind = "position"
  <2>1. ASSUME NEW c \in Cues
        PROVE  [x \in {y \in Merge!Slots : ~Merge!PositionRow(y)} |-> w.row[c][x]] =
                  [x \in {y \in Merge!Slots : ~Merge!PositionRow(y)} |-> s.row[c][x]]
    BY <1>1, <1>2
  <2>2. Merge!NonPosition(w) = Merge!NonPosition(s)
    BY <2>1, Zenon DEF Merge!NonPosition
  <2> QED BY <1>2, <2>2 DEF Merge!Snapshot
<1>3. CASE p.kind # "position"
  <2>1. ASSUME NEW c \in Cues
        PROVE  [x \in Merge!Slots |-> Merge!Protected(p, c, x, w.row[c][x])] =
                  [x \in Merge!Slots |-> Merge!Protected(p, c, x, s.row[c][x])]
    BY <1>1
  <2>2. [c \in Cues |-> [x \in Merge!Slots |-> Merge!Protected(p, c, x, w.row[c][x])]] =
           [c \in Cues |-> [x \in Merge!Slots |-> Merge!Protected(p, c, x, s.row[c][x])]]
    BY <2>1, Zenon
  <2> QED BY <1>3, <2>2 DEF Merge!Snapshot
<1> QED BY <1>2, <1>3

\* The effects of a cue are those it should have afterwards.
LEMMA EffectsKept ==
    ASSUME Merge!CueMergeAssumption, NEW p \in Plans, NEW s, Merge!Fits(p, s), NEW w, Kept(p, s, w),
           NEW c \in Cues, p.kind # "position", Merge!HasEffect(p, c) => EffectStored(p, c, w),
           NEW f \in Merge!Targets
    PROVE  Merge!EffectIds(w, c, f) =
              IF Merge!HasEffect(p, c) THEN {p.cue[c].effect} ELSE Merge!EffectIds(s, c, f)
<1>1. ASSUME NEW x \in Merge!Slots
      PROVE  w.row[c][x].effect = s.row[c][x].effect
                \/ (EffectSlot(p, c, x) /\ w.row[c][x].effect = p.cue[c].effect)
  BY DEF Kept, RowIs
<1>2. CASE ~Merge!HasEffect(p, c)
  <2>1. \A x \in Merge!Slots : w.row[c][x].effect = s.row[c][x].effect
    BY <1>1, <1>2 DEF EffectSlot
  <2> QED BY <1>2, <2>1 DEF Merge!EffectIds
<1>3. CASE Merge!HasEffect(p, c)
  <2> PICK e : e = p.cue[c].effect
    OBVIOUS
  <2>1. e # None
    BY <1>3 DEF Merge!HasEffect
  <2>2. Merge!EffectIds(s, c, f) = {}
    <3>1. p.kind = "dynamic" \/ p.kind = "resources"
      BY DEF Merge!CueMergeAssumption, Merge!IsPlan
    <3> QED BY <1>3, <3>1 DEF Merge!Fits, Merge!DynamicFits, Merge!ResourcesFit
  <2>3. \A x \in Merge!Slots : x[1] = f => s.row[c][x].effect = None
    BY <2>2 DEF Merge!EffectIds
  <2>4. \A x \in Merge!Slots : x[1] = f => w.row[c][x].effect \in {None, e}
    BY <1>1, <2>3
  <2>5. <<f, "DIM">> \in Merge!Slots /\ <<f, "DIM">>[1] = f
    BY DEF Merge!Slots, Merge!Fixtures
  <2>6. EffectSlot(p, c, <<f, "DIM">>)
    BY <1>3 DEF EffectSlot, Merge!OnTarget
  <2>7. w.row[c][<<f, "DIM">>].effect = e
    BY <1>3, <2>5, <2>6 DEF EffectStored
  <2>8. Merge!EffectIds(w, c, f) = {e}
    BY <2>1, <2>4, <2>5, <2>7 DEF Merge!EffectIds
  <2> QED BY <1>3, <2>8
<1> QED BY <1>2, <1>3

\* A preset that was called is found on every target.
LEMMA PresetFound ==
    ASSUME Merge!CueMergeAssumption, NEW p \in Plans, NEW s, Merge!Fits(p, s), NEW w,
           NEW c \in Cues, Presets(p, c), PresetStored(p, s, c, w), NEW i \in 1..Len(Order)
    PROVE  PresetOf(p, s, c) \in Merge!PresetRefs(w, c, Order[i])
<1> PICK f : f = Order[i]
  OBVIOUS
<1>1. f \in Merge!Targets
  BY PositionSlots
<1> PICK q : q = PresetOf(p, s, c)
  OBVIOUS
<1>2. q # None
  <2>1. CASE Merge!HasColour(p, c)
    BY <2>1 DEF PresetOf, Merge!CueMergeAssumption, Merge!NoneIsNone
  <2>2. CASE ~Merge!HasColour(p, c)
    <3>1. p.kind = "resources" /\ q = Merge!Position(Merge!NumberOf(p, s, c))
      BY <2>2 DEF Presets, PresetOf
    <3>2. Merge!NumberOf(p, s, c) \in Merge!Numbers
      BY <3>1, NumbersAre
    <3>3. \A n \in Merge!Numbers : Merge!Position(n) # None
      BY DEF Merge!CueMergeAssumption, Merge!NoneIsNone
    <3> QED BY <3>1, <3>2, <3>3
  <2> QED BY <2>1, <2>2
<1>3. PICK x \in Merge!Slots : x[1] = f /\ w.row[c][x].preset = q
  <2>1. CASE Merge!HasColour(p, c)
    <3> PICK x : x = <<f, "COLOR">>
      OBVIOUS
    <3>1. x \in Merge!Slots /\ x[1] = f /\ x[2] = "COLOR"
      BY <1>1 DEF Merge!Slots, Merge!Fixtures
    <3>2. PresetSlot(p, c, x)
      BY <1>1, <2>1, <3>1 DEF PresetSlot, Merge!OnTarget
    <3>3. w.row[c][x].preset = Merge!Colour
      BY <3>1, <3>2 DEF PresetStored, AsCalled
    <3> QED BY <2>1, <3>1, <3>3 DEF PresetOf
  <2>2. CASE ~Merge!HasColour(p, c)
    <3> PICK x : x = Slot2(i, 1)
      OBVIOUS
    <3>1. x \in Merge!Slots /\ x[1] = f /\ x[2] = "PAN"
      BY PositionSlots DEF Attribute
    <3>2. PresetSlot(p, c, x)
      BY <1>1, <2>2, <3>1 DEF PresetSlot, Merge!OnTarget
    <3>3. AsCalled(p, s, c, x, w.row[c][x])
      BY <3>1, <3>2 DEF PresetStored
    <3>4. p.kind = "resources"
      BY <2>2 DEF Presets
    <3>5. 1 \in 1..2
      OBVIOUS
    <3>6. w.row[c][x].preset = Merge!Position(Merge!NumberOf(p, s, c))
      BY <3>3, <3>4, <3>5 DEF AsCalled
    <3> QED BY <2>2, <3>1, <3>6 DEF PresetOf
  <2> QED BY <2>1, <2>2
<1> QED BY <1>2, <1>3 DEF Merge!PresetRefs

\* The positions of a cue are those of the plan.
LEMMA PositionsShown ==
    ASSUME Merge!CueMergeAssumption, plan \in Plans, Merge!Fits(plan, basis), NEW w, NEW c \in Cues,
           plan.kind = "resources" => PresetStored(plan, basis, c, w),
           plan.kind # "resources" => MovesStored(plan, basis, c, w),
           NEW i \in 1..Len(Order)
    PROVE  Merge!ShowsPosition(w, c, i)
<1> SUFFICES ASSUME NEW k \in 1..2
             PROVE  IF plan.kind = "resources"
                    THEN w.row[c][Slot2(i, k)].value = Merge!Aim(plan, c, i)[k]
                    ELSE Merge!Close(w.row[c][Slot2(i, k)].value, Merge!Aim(plan, c, i)[k])
  <2>1. \A k \in 1..2 : Slot2(i, k) = <<Order[i], <<"PAN", "TILT">>[k]>>
    BY PositionSlots
  <2> QED BY <2>1 DEF Merge!ShowsPosition
<1> PICK x : x = Slot2(i, k)
  OBVIOUS
<1>1. x \in Merge!Slots /\ Merge!OnTarget(x) /\ x[2] \in {"PAN", "TILT"}
  BY PositionSlots DEF Attribute
<1>2. AsCalled(plan, basis, c, x, w.row[c][x])
  <2>1. CASE plan.kind = "resources"
    <3>1. PresetSlot(plan, c, x)
      BY <1>1, <2>1 DEF PresetSlot, Merge!HasColour
    <3> QED BY <1>1, <2>1, <3>1 DEF PresetStored
  <2>2. CASE plan.kind # "resources"
    BY <1>1, <2>2 DEF MovesStored
  <2> QED BY <2>1, <2>2
<1>3. CASE plan.kind = "resources"
  BY <1>2, <1>3 DEF AsCalled
<1>4. CASE plan.kind # "resources"
  <2>1. w.row[c][x].value = Merge!Sent(plan, c, i)[k]
    BY <1>2, <1>4 DEF AsCalled
  <2>2. /\ Merge!Sent(plan, c, i)[k] \in Int
        /\ Merge!Sent(plan, c, i)[k] - Merge!Aim(plan, c, i)[k] \in -10..10
    BY SentIs
  <2>3. Merge!Sent(plan, c, i)[k] # None
    BY <2>2 DEF Merge!CueMergeAssumption, Merge!NoneIsNone
  <2> QED BY <1>4, <2>1, <2>2, <2>3 DEF Merge!Close
<1> QED BY <1>3, <1>4

\* An export after the last command is what was planned.
LEMMA EndMatches ==
    ASSUME Merge!CueMergeAssumption, plan \in Plans, IsShow(basis), Merge!Fits(plan, basis),
           commands = Merge!CommandsOf(plan, basis), IsShow(show),
           Kept(plan, basis, show), Called(plan, basis, commands, Len(commands), show),
           Made(plan, basis, commands, Len(commands), show)
    PROVE  Merge!Matches(show)
<1>1. Merge!Snapshot(plan, show) = Merge!Snapshot(plan, basis)
  BY SnapshotKept
<1>2. \A c \in Cues :
         /\ Presets(plan, c) => PresetStored(plan, basis, c, show)
         /\ Merge!HasEffect(plan, c) => EffectStored(plan, c, show)
         /\ plan.kind # "resources" => MovesStored(plan, basis, c, show)
  BY AllCalled
<1>3. ASSUME NEW c \in Cues, NEW i \in 1..Len(Order)
      PROVE  /\ Merge!ShowsPosition(show, c, i)
             /\ plan.kind # "position" =>
                   Merge!EffectIds(show, c, Order[i]) = Merge!EffectsAfter(c, Order[i])
             /\ Merge!HasColour(plan, c) => Merge!Colour \in Merge!PresetRefs(show, c, Order[i])
  <2>1. Merge!ShowsPosition(show, c, i)
    BY <1>2, PositionsShown DEF Presets
  <2>2. Order[i] \in Merge!Targets
    BY PositionSlots
  <2>3. plan.kind # "position" =>
           Merge!EffectIds(show, c, Order[i]) = Merge!EffectsAfter(c, Order[i])
    BY <1>2, <2>2, EffectsKept DEF Merge!EffectsAfter
  <2>4. Merge!HasColour(plan, c) => Merge!Colour \in Merge!PresetRefs(show, c, Order[i])
    BY <1>2, PresetFound DEF Presets, PresetOf
  <2> QED BY <2>1, <2>3, <2>4
<1>4. ASSUME plan.kind = "resources" PROVE Merge!ShowsResources(show)
  <2>1. ASSUME NEW c \in Cues, NEW f \in Merge!Targets
        PROVE  Merge!Position(Merge!NumberOf(plan, basis, c)) \in Merge!PresetRefs(show, c, f)
    <3>1. PICK i \in 1..Len(Order) : f = Order[i]
      BY OrderIsSeq
    <3>2. ~Merge!HasColour(plan, c) /\ Presets(plan, c)
      BY <1>4 DEF Merge!HasColour, Presets
    <3> QED BY <1>2, <3>1, <3>2, PresetFound DEF PresetOf
  <2>2. ASSUME NEW k \in 1..Len(commands), commands[k].op = "create preset"
        PROVE  /\ show.preset[commands[k].number] # None
               /\ show.preset[commands[k].number].label = commands[k].label
    <3>1. Creates(plan, basis, commands, k)
      BY <2>2, CommandsAre, WhereItStands
    <3>2. PICK d \in Merge!Distinct(plan) : commands[k] = Creation(plan, basis, d)
      BY <3>1 DEF Creates
    <3>3. commands[k].number = Merge!NumberOf(plan, basis, d) /\ commands[k].label = plan.cue[d].name
      <4>1. /\ Creation(plan, basis, d).number = Merge!NumberOf(plan, basis, d)
            /\ Creation(plan, basis, d).label = plan.cue[d].name
        BY CreationIs
      <4> QED BY <3>2, <4>1
    <3>4. Len(commands) \in Nat /\ Len(commands) \in 1..Len(commands)
      <4>1. commands \in Seq(CommandSet(plan, basis)) /\ Len(commands) # 0
        BY CommandsAre
      <4> QED BY <4>1
    <3>5. PresetIs(plan, basis, d, show)
      BY <1>4, <3>4, AllMade
    <3> QED BY <3>3, <3>5 DEF PresetIs, HoldsPosition
  <2> QED BY <2>1, <2>2 DEF Merge!ShowsResources
<1>5. show.labels = basis.labels
  BY DEF Kept
<1> QED BY <1>1, <1>3, <1>4, <1>5 DEF Merge!Matches

-----------------------------------------------------------------------------
(* The workflow is that of the plan, whoever disturbs it.                   *)

\* In the status st the command a of C is next, and g is in the programmer.
CompiledAs(st, p, s, C, a, g) ==
    /\ st = "none" => C = <<>> /\ a = 1
    /\ st # "none" => C = Merge!CommandsOf(p, s) /\ a \in 1..Len(C)
    /\ st = "preview" => a = 1
    /\ g.selection \subseteq Merge!Fixtures

\* It is as the steps of a merge leave it,
Compiled == CompiledAs(status, plan, basis, commands, at, prog)

\* A command of the plan selects fixtures of the rig only.
LEMMA SelectionIs ==
    ASSUME NEW p, NEW s, NEW cmd \in CommandSet(p, s), IsProgrammer(prog),
           prog.selection \subseteq Merge!Fixtures
    PROVE  Merge!Programmer(cmd).selection \subseteq Merge!Fixtures
<1>1. CASE cmd.op = "clear"
  BY <1>1, ClearedParts DEF Merge!Programmer
<1>2. CASE cmd.op = "select"
  <2>1. cmd.fixtures \subseteq Merge!Targets
    <3>1. /\ Merge!Clear.op # "select" /\ EffectCreation.op # "select"
          /\ Merge!Group.fixtures = Merge!Targets
          /\ \A c : Merge!Store(c).op # "select"
          /\ \A r : Merge!Call(r).op # "select"
          /\ \A e : Merge!Effect(e).op # "select"
      BY OpsAre
    <3>2. \A c : Creation(p, s, c).op # "select"
      BY CreationIs
    <3>3. \A x \in [op : {"value"}, attribute : {"PAN", "TILT"}, to : Int] : x.op # "select"
      OBVIOUS
    <3>4. \A x \in [op : {"select"}, fixtures : SUBSET Merge!Targets] : x.fixtures \subseteq Merge!Targets
      OBVIOUS
    <3> QED BY <1>2, <3>1, <3>2, <3>3, <3>4 DEF CommandSet
  <2>2. cmd.fixtures \subseteq Merge!Fixtures
    BY <2>1 DEF Merge!Fixtures
  <2> QED BY <1>2, <2>2, ProgrammerSelects
<1>3. CASE cmd.op = "value" \/ cmd.op = "preset" \/ cmd.op = "effect"
  BY <1>3, ProgrammerGiven
<1>4. CASE /\ cmd.op # "clear" /\ cmd.op # "select" /\ cmd.op # "value"
           /\ cmd.op # "preset" /\ cmd.op # "effect"
  <2>1. Merge!Programmer(cmd) = prog
    BY <1>4 DEF Merge!Programmer
  <2> QED BY <2>1
<1> QED BY <1>1, <1>2, <1>3, <1>4

\* The workflow stays the one of its plan at every step.
LEMMA CompiledStep ==
    ASSUME Merge!CueMergeAssumption, MergeInv, Compiled, Merge!Next PROVE Compiled'
<1>0. /\ IsProgrammer(prog) /\ prog.selection \subseteq Merge!Fixtures
      /\ Merge!Cleared.selection \subseteq Merge!Fixtures
  BY ClearedParts DEF MergeInv, Compiled, CompiledAs
<1>1. ASSUME NEW p \in Plans, Merge!Preview(p) PROVE Compiled'
  <2>1. /\ status = "none" /\ Merge!Fits(p, show) /\ status' = "preview" /\ plan' = p /\ basis' = show
        /\ commands' = Merge!CommandsOf(p, show) /\ at' = at /\ prog' = prog
    BY <1>1 DEF Merge!Preview
  <2> PICK C : C = Merge!CommandsOf(p, show)
    OBVIOUS
  <2>2. 1 \in 1..Len(C)
    <3>1. C \in Seq(CommandSet(p, show)) /\ Len(C) # 0
      BY <2>1, CommandsAre
    <3> QED BY <3>1
  <2>3. at = 1
    BY <2>1 DEF Compiled, CompiledAs
  <2>4. CompiledAs(status', plan', basis', commands', at', prog')
    BY <1>0, <2>1, <2>2, <2>3 DEF CompiledAs
  <2> QED BY <2>4 DEF Compiled
<1>2. ASSUME Merge!Send PROVE Compiled'
  <2>1. /\ status = "running" /\ at \in DOMAIN commands /\ at # Len(commands)
        /\ prog' = Merge!Programmer(commands[at]) /\ at' = at + 1
        /\ UNCHANGED <<status, plan, basis, commands>>
    BY <1>2 DEF Merge!Send, Merge!More
  <2>2. plan \in Plans /\ Merge!Fits(plan, basis) /\ commands = Merge!CommandsOf(plan, basis)
        /\ at \in 1..Len(commands)
    BY <2>1 DEF MergeInv, Previewed, Compiled, CompiledAs
  <2>3. commands \in Seq(CommandSet(plan, basis))
    BY <2>2, CommandsAre
  <2>4. commands[at] \in CommandSet(plan, basis) /\ at + 1 \in 1..Len(commands)
    BY <2>1, <2>2, <2>3
  <2>5. prog'.selection \subseteq Merge!Fixtures
    BY <1>0, <2>1, <2>4, SelectionIs
  <2>6. CompiledAs(status', plan', basis', commands', at', prog')
    BY <2>1, <2>2, <2>4, <2>5 DEF CompiledAs
  <2> QED BY <2>6 DEF Compiled
<1>3. ASSUME Merge!Ignore PROVE Compiled'
  <2>1. /\ status = "running" /\ at \in DOMAIN commands /\ at # Len(commands)
        /\ \/ status' = "FAILED" /\ at' = at /\ (prog' = Merge!Cleared \/ prog' = prog)
           \/ at' = at + 1 /\ status' = status /\ prog' = prog
        /\ UNCHANGED <<plan, basis, commands>>
    BY <1>3 DEF Merge!Ignore, Merge!More, Merge!Fail
  <2>2. plan \in Plans /\ Merge!Fits(plan, basis) /\ commands = Merge!CommandsOf(plan, basis)
        /\ at \in 1..Len(commands)
    BY <2>1 DEF MergeInv, Previewed, Compiled, CompiledAs
  <2>3. Len(commands) \in Nat
    <3>1. commands \in Seq(CommandSet(plan, basis))
      BY <2>2, CommandsAre
    <3> QED BY <3>1
  <2>4. at' \in 1..Len(commands)
    BY <2>1, <2>2, <2>3
  <2>5. CompiledAs(status', plan', basis', commands', at', prog')
    BY <1>0, <2>1, <2>2, <2>4 DEF CompiledAs
  <2> QED BY <2>5 DEF Compiled
<1>4. ASSUME status # "none", status' # "none", status' # "preview",
             UNCHANGED <<plan, basis, commands, at>>,
             prog' = Merge!Cleared \/ prog' = prog
      PROVE  Compiled'
  <2>1. CompiledAs(status', plan', basis', commands', at', prog')
    BY <1>0, <1>4 DEF Compiled, CompiledAs
  <2> QED BY <2>1 DEF Compiled
<1>5. ASSUME Merge!Approve \/ Merge!Refuse \/ Merge!Export \/ Merge!Conclude PROVE Compiled'
  <2>1. CASE Merge!Approve
    BY <1>4, <2>1 DEF Merge!Approve
  <2>2. CASE Merge!Refuse
    BY <1>4, <2>2 DEF Merge!Refuse, Merge!Fail
  <2>3. CASE Merge!Export
    BY <1>4, <2>3 DEF Merge!Export, Merge!Fail
  <2>4. CASE Merge!Conclude
    BY <1>4, <2>4 DEF Merge!Conclude
  <2> QED BY <1>5, <2>1, <2>2, <2>3, <2>4
<1>6. ASSUME UNCHANGED <<status, plan, basis, commands, at>>, prog'.selection \subseteq Merge!Fixtures
      PROVE  Compiled'
  <2>1. CompiledAs(status', plan', basis', commands', at', prog')
    BY <1>6 DEF Compiled, CompiledAs
  <2> QED BY <2>1 DEF Compiled
<1>7. ASSUME NEW e \in Edits, Merge!Touch(e) PROVE Compiled'
  <2>1. /\ UNCHANGED <<status, plan, basis, commands, at>>
        /\ prog' = [prog EXCEPT !.selection = {e.slot[1]}, !.used = TRUE, !.row[e.slot] = e.row]
    BY <1>7 DEF Merge!Touch, Merge!Edit
  <2>2. prog'.selection = {e.slot[1]}
    BY <1>0, <2>1 DEF IsProgrammer
  <2>3. e.slot \in Merge!Slots
    BY DEF Merge!CueMergeAssumption
  <2>4. e.slot[1] \in Merge!Fixtures
    BY <2>3, SlotsAre
  <2> QED BY <1>6, <2>1, <2>2, <2>4
<1>8. ASSUME Merge!Operator PROVE Compiled'
  <2>1. ASSUME Merge!Edit, prog' = prog PROVE Compiled'
    BY <1>0, <1>6, <2>1 DEF Merge!Edit
  <2>2. ASSUME NEW e \in Edits, Merge!EditCue(e) PROVE Compiled'
    BY <2>1, <2>2 DEF Merge!EditCue
  <2>3. ASSUME Merge!Relabel \/ Merge!StoreEffect PROVE Compiled'
    BY <2>1, <2>3 DEF Merge!Relabel, Merge!StoreEffect
  <2>4. ASSUME NEW n \in Merge!Numbers, Merge!StorePreset(n) PROVE Compiled'
    BY <2>1, <2>4 DEF Merge!StorePreset
  <2> QED BY <1>7, <1>8, <2>2, <2>3, <2>4 DEF Merge!Operator
<1>9. ASSUME Merge!Concluded PROVE Compiled'
  BY <1>0, <1>6, <1>9 DEF Merge!Concluded, Merge!vars
<1> QED BY <1>1, <1>2, <1>3, <1>5, <1>8, <1>9 DEF Merge!Next, Merge!Step

-----------------------------------------------------------------------------
(* A merge nobody disturbs.                                                 *)

UndisturbedAs(st, p, s, C, a, g, w) ==
    /\ st \in {"none", "preview"} => g = Merge!Cleared
    /\ st = "preview" => w = s
    /\ st = "running" =>
          Doing(p, s, C, a, g) /\ Kept(p, s, w) /\ Called(p, s, C, a, w) /\ Made(p, s, C, a, w)
    /\ st = "exported" => w.labels = s.labels
    /\ st # "STALE" /\ st # "FAILED"

Undisturbed == quiet => UndisturbedAs(status, plan, basis, commands, at, prog, show)

\* Before the first command nothing is done.
LEMMA Begins ==
    ASSUME Merge!CueMergeAssumption, NEW p \in Plans, NEW s, Merge!Fits(p, s), NEW C
    PROVE  /\ Doing(p, s, C, 1, Merge!Cleared) /\ Kept(p, s, s)
           /\ Called(p, s, C, 1, s) /\ Made(p, s, C, 1, s)
<1>1. Doing(p, s, C, 1, Merge!Cleared)
  <2>1. \A k \in Nat : 1 # k + 3 /\ 1 # k + 4
    OBVIOUS
  <2>2. ASSUME NEW c \in Cues, NEW k \in Nat, NEW m \in 0..Len(Merge!Moves(p, c))
        PROVE  1 # (k + 2) + m
    <3>1. Len(Merge!Moves(p, c)) \in Nat
      BY MovesCount
    <3>2. m \in Nat
      BY <3>1
    <3> QED BY <3>2
  <2>3. ~(1 > 1)
    OBVIOUS
  <2> QED BY <2>1, <2>2, <2>3 DEF Doing
<1>2. Kept(p, s, s)
  BY DEF Kept, RowIs
<1>3. \A k \in Nat : ~(k + 4 < 1) /\ ~(k + 2 < 1)
  OBVIOUS
<1>4. ASSUME NEW c \in Cues, NEW k \in Nat, NEW y \in CommandSet(p, s)
      PROVE  ~IsPast(MoveBlock(p, c, y), C, 1, k)
  <2>1. Len(Merge!Moves(p, c)) \in Nat /\ Len(MoveBlock(p, c, y)) = Len(Merge!Moves(p, c)) + 2
    BY MoveBlockIs
  <2>2. ~(k + Len(MoveBlock(p, c, y)) < 1)
    BY <2>1
  <2> QED BY <2>2 DEF IsPast
<1>5. Called(p, s, C, 1, s)
  <2>1. ASSUME NEW c \in Cues, NEW k \in Nat
        PROVE  /\ Presets(p, c) => ~IsPast(Merge!CallPreset(p, s, c), C, 1, k)
               /\ Merge!HasEffect(p, c) => ~IsPast(Merge!CallEffect(p, c), C, 1, k)
               /\ ~IsPast(MoveBlock(p, c, Merge!Store(c)), C, 1, k)
    <3>1. Presets(p, c) => Len(Merge!CallPreset(p, s, c)) = 4
      BY CallPresetIs
    <3>2. Merge!HasEffect(p, c) => Len(Merge!CallEffect(p, c)) = 4
      BY CallEffectIs
    <3>3. Merge!Store(c) \in CommandSet(p, s)
      BY CueOfPlan
    <3> QED BY <1>3, <1>4, <3>1, <3>2, <3>3 DEF IsPast
  <2> QED BY <2>1 DEF Called
<1>6. Made(p, s, C, 1, s)
  <2>1. ASSUME NEW d \in Merge!Distinct(p), NEW k \in Nat
        PROVE  ~IsPast(MoveBlock(p, d, Creation(p, s, d)), C, 1, k)
    <3>1. d \in Cues
      BY DEF Merge!Distinct
    <3>2. Creation(p, s, d) \in CommandSet(p, s)
      BY <3>1, CueOfPlan
    <3> QED BY <1>4, <3>1, <3>2
  <2>2. Len(<<Merge!Clear, EffectCreation>>) = 2
    OBVIOUS
  <2>3. \A k \in Nat : ~IsPast(<<Merge!Clear, EffectCreation>>, C, 1, k)
    BY <1>3, <2>2 DEF IsPast
  <2> QED BY <2>1, <2>3 DEF Made
<1> QED BY <1>1, <1>2, <1>5, <1>6

\* What the preview was built from is not found changed.
LEMMA NothingChanged ==
    ASSUME Merge!CueMergeAssumption, plan \in Plans, Merge!Fits(plan, basis), show = basis,
           commands = Merge!CommandsOf(plan, basis)
    PROVE  Merge!Unchanged
<1>1. plan.kind = "dynamic" => Merge!DynamicUnchanged
  BY DEF Merge!Fits, Merge!DynamicUnchanged
<1>2. commands \in Seq(CommandSet(plan, basis)) /\ Cov(Blocks(plan, basis), commands)
  BY CommandsAre
<1>3. DOMAIN commands = 1..Len(commands)
  BY <1>2
<1>4. Merge!CreatesEffect => show.effect[Merge!Created] = None
  <2>1. SUFFICES ASSUME Merge!CreatesEffect PROVE basis.effect[Merge!Created] = None
    OBVIOUS
  <2>2. PICK k \in 1..Len(commands) : commands[k].op = "create effect"
    BY <1>3, <2>1 DEF Merge!CreatesEffect
  <2>3. plan.kind = "resources"
    BY <1>2, <2>2, WhereItStands
  <2> QED BY <2>3 DEF Merge!Fits, Merge!ResourcesFit
<1>5. ASSUME NEW n \in Merge!Reserved PROVE show.preset[n] = None
  <2>1. PICK k \in 1..Len(commands) : commands[k].op = "create preset" /\ n = commands[k].number
    BY <1>3 DEF Merge!Reserved
  <2>2. Creates(plan, basis, commands, k)
    BY <1>2, <2>1, WhereItStands
  <2>3. PICK d \in Merge!Distinct(plan) : commands[k] = Creation(plan, basis, d) /\ plan.kind = "resources"
    BY <2>2 DEF Creates
  <2>4. Creation(plan, basis, d).number = Merge!NumberOf(plan, basis, d)
    BY CreationIs
  <2>5. basis.preset[Merge!NumberOf(plan, basis, d)] = None
    BY <2>3, NumbersAre
  <2> QED BY <2>1, <2>3, <2>4, <2>5
<1>6. Merge!ResourcesUnchanged
  BY <1>4, <1>5 DEF Merge!ResourcesUnchanged
<1> QED BY <1>1, <1>6 DEF Merge!Unchanged

\* A merge nobody disturbs stays on its way when a command is sent,
LEMMA UndisturbedSend ==
    ASSUME Merge!CueMergeAssumption, MergeInv, Compiled, Undisturbed, quiet, Exact(plan), Merge!Send
    PROVE  UndisturbedAs(status', plan', basis', commands', at', prog', show')
<1>1. /\ status = "running" /\ at # Len(commands)
      /\ prog' = Merge!Programmer(commands[at]) /\ show' = Merge!Show(commands[at]) /\ at' = at + 1
      /\ UNCHANGED <<status, plan, basis, commands>>
  BY DEF Merge!Send, Merge!More
<1>2. /\ plan \in Plans /\ Merge!Fits(plan, basis) /\ commands = Merge!CommandsOf(plan, basis)
      /\ at \in 1..Len(commands) /\ IsShow(show) /\ IsProgrammer(prog) /\ at \in Nat \ {0}
  BY <1>1 DEF MergeInv, MergeTypes, Previewed, Compiled, CompiledAs
<1>3. /\ Doing(plan, basis, commands, at, prog) /\ Kept(plan, basis, show)
      /\ Called(plan, basis, commands, at, show) /\ Made(plan, basis, commands, at, show)
  BY <1>1 DEF Undisturbed, UndisturbedAs
<1>4. at \in Nat /\ at >= 1
  BY <1>2
<1>5. Cov(Blocks(plan, basis), commands) /\ Len(commands) \in Nat
  <2>1. commands \in Seq(CommandSet(plan, basis)) /\ Cov(Blocks(plan, basis), commands)
    BY <1>2, CommandsAre
  <2> QED BY <2>1
<1>6. plan.kind = "resources" /\ commands[at].op = "preset" =>
         \A c \in Cues : HoldsPosition(plan, basis, c, show)
  BY <1>2, <1>3, <1>4, AllMade
<1>7. Doing(plan, basis, commands, at + 1, Merge!Programmer(commands[at]))
  BY <1>2, <1>3, <1>4, <1>6, DoingGoesOn
<1>8. /\ Kept(plan, basis, Merge!Show(commands[at]))
      /\ Called(plan, basis, commands, at + 1, Merge!Show(commands[at]))
      /\ Made(plan, basis, commands, at + 1, Merge!Show(commands[at]))
  BY <1>2, <1>3, <1>5, ShowGoesOn
<1> QED BY <1>1, <1>7, <1>8 DEF UndisturbedAs

\* and at every other step.
LEMMA UndisturbedStep ==
    ASSUME Merge!CueMergeAssumption, MergeInv, Compiled, Undisturbed,
           \A p \in Plans : Exact(p), Merge!Next
    PROVE  Undisturbed'
<1> SUFFICES ASSUME quiet'
             PROVE  UndisturbedAs(status', plan', basis', commands', at', prog', show')
  BY DEF Undisturbed
<1>0. status # "none" =>
         /\ plan \in Plans /\ Merge!Fits(plan, basis) /\ IsShow(basis) /\ IsShow(show)
         /\ commands = Merge!CommandsOf(plan, basis) /\ at \in 1..Len(commands) /\ at \in Nat
  BY DEF MergeInv, MergeTypes, Previewed, Compiled, CompiledAs
<1>u. quiet => UndisturbedAs(status, plan, basis, commands, at, prog, show)
  BY DEF Undisturbed
<1>1. ASSUME NEW p \in Plans, Merge!Preview(p)
      PROVE  UndisturbedAs(status', plan', basis', commands', at', prog', show')
  <2>1. /\ status = "none" /\ status' = "preview" /\ basis' = show
        /\ UNCHANGED <<prog, show, quiet>>
    BY <1>1 DEF Merge!Preview
  <2> QED BY <1>u, <2>1 DEF UndisturbedAs
<1>2. ASSUME Merge!Approve
      PROVE  UndisturbedAs(status', plan', basis', commands', at', prog', show')
  <2>1. /\ status = "preview" /\ (Merge!Unchanged => status' = "running")
        /\ UNCHANGED <<plan, basis, commands, at, show, prog, quiet>>
    BY <1>2 DEF Merge!Approve
  <2>2. show = basis /\ prog = Merge!Cleared
    BY <1>u, <2>1 DEF UndisturbedAs
  <2>3. Merge!Unchanged
    BY <1>0, <2>1, <2>2, NothingChanged
  <2>4. at = 1
    BY <2>1 DEF Compiled, CompiledAs
  <2>5. /\ Doing(plan, basis, commands, 1, Merge!Cleared) /\ Kept(plan, basis, basis)
        /\ Called(plan, basis, commands, 1, basis) /\ Made(plan, basis, commands, 1, basis)
    BY <1>0, <2>1, Begins
  <2> QED BY <2>1, <2>2, <2>3, <2>4, <2>5 DEF UndisturbedAs
<1>3. ASSUME Merge!Send
      PROVE  UndisturbedAs(status', plan', basis', commands', at', prog', show')
  <2>1. quiet /\ status = "running"
    BY <1>3 DEF Merge!Send
  <2> QED BY <1>0, <1>3, <2>1, UndisturbedSend
<1>4. ASSUME Merge!Refuse PROVE FALSE
  <2>1. status = "running" /\ quiet /\ ~Merge!Accepts(commands[at])
    BY <1>4 DEF Merge!Refuse
  <2>2. Kept(plan, basis, show) /\ Made(plan, basis, commands, at, show)
    BY <1>u, <2>1 DEF UndisturbedAs
  <2> QED BY <1>0, <2>1, <2>2, AcceptsAll
<1>5. ASSUME Merge!Ignore PROVE FALSE
  BY <1>5 DEF Merge!Ignore
<1>6. ASSUME Merge!Export
      PROVE  UndisturbedAs(status', plan', basis', commands', at', prog', show')
  <2>1. /\ status = "running" /\ at = Len(commands) /\ (Merge!Matches(show) => status' = "exported")
        /\ UNCHANGED <<plan, basis, commands, at, show, quiet>>
    BY <1>6 DEF Merge!Export
  <2>2. /\ Kept(plan, basis, show) /\ Called(plan, basis, commands, Len(commands), show)
        /\ Made(plan, basis, commands, Len(commands), show)
    BY <1>u, <2>1 DEF UndisturbedAs
  <2>3. Merge!Matches(show)
    BY <1>0, <2>1, <2>2, EndMatches
  <2>4. show.labels = basis.labels
    BY <2>2 DEF Kept
  <2> QED BY <2>1, <2>3, <2>4 DEF UndisturbedAs
<1>7. ASSUME Merge!Conclude
      PROVE  UndisturbedAs(status', plan', basis', commands', at', prog', show')
  <2>1. /\ status = "exported" /\ (show.labels = basis.labels => status' = "VERIFIED")
        /\ quiet
    BY <1>7 DEF Merge!Conclude
  <2>2. status' = "VERIFIED"
    BY <1>u, <2>1 DEF UndisturbedAs
  <2> QED BY <2>2 DEF UndisturbedAs
<1>8. ASSUME Merge!Operator PROVE FALSE
  BY <1>8 DEF Merge!Operator, Merge!EditCue, Merge!Touch, Merge!Relabel, Merge!StoreEffect,
              Merge!StorePreset, Merge!Edit
<1>9. ASSUME Merge!Concluded
      PROVE  UndisturbedAs(status', plan', basis', commands', at', prog', show')
  BY <1>u, <1>9 DEF Merge!Concluded, Merge!vars
<1> QED BY <1>1, <1>2, <1>3, <1>4, <1>5, <1>6, <1>7, <1>8, <1>9 DEF Merge!Next, Merge!Step

\* Within the design.
MergeCompiled    == part = "merge" => Compiled
MergeUndisturbed == part = "merge" => Undisturbed

\* Neither invariant depends on what the other parts of the design do:
LEMMA CompiledRests ==
    ASSUME Compiled, UNCHANGED <<plan, basis, commands, at, status, prog>> PROVE Compiled'
  BY DEF Compiled

\* a step of theirs keeps both.
LEMMA UndisturbedRests ==
    ASSUME Undisturbed, UNCHANGED <<plan, basis, commands, at, status, show, prog, quiet>>
    PROVE  Undisturbed'
  BY DEF Undisturbed

\* Both are kept by every step of the design: the first one,
LEMMA MergeCompiledStep ==
    ASSUME MergeInvariant, MergeCompiled, [Next]_vars PROVE MergeCompiled'
<1> USE DEF MergeInvariant, MergeCompiled
<1>0. Merge!CueMergeAssumption
  BY ConstantsFit
<1>1. CASE UNCHANGED vars
  <2>1. UNCHANGED <<part, plan, basis, commands, at, status, prog>>
    BY <1>1 DEF vars, OwnMerge
  <2> QED BY <2>1, CompiledRests
<1>2. CASE MergeDoes(Merge!Next)
  BY <1>0, <1>2, CompiledStep DEF MergeDoes
<1>3. CASE Next /\ ~MergeDoes(Merge!Next)
  <2>1. part # "merge" /\ part' = part
    BY <1>3 DEF Next, RouterDoes, RunDoes, RevisionDoes
  <2> QED BY <2>1
<1> QED BY <1>1, <1>2, <1>3

\* and the second one.
LEMMA MergeUndisturbedStep ==
    ASSUME MergeInvariant, MergeCompiled, MergeUndisturbed, \A p \in Plans : Exact(p), [Next]_vars
    PROVE  MergeUndisturbed'
<1> USE DEF MergeInvariant, MergeCompiled, MergeUndisturbed
<1>0. Merge!CueMergeAssumption
  BY ConstantsFit
<1>1. CASE UNCHANGED vars
  <2>1. UNCHANGED <<part, plan, basis, commands, at, status, show, prog, quiet>>
    BY <1>1 DEF vars, OwnMerge
  <2> QED BY <2>1, UndisturbedRests
<1>2. CASE MergeDoes(Merge!Next)
  BY <1>0, <1>2, UndisturbedStep DEF MergeDoes
<1>3. CASE Next /\ ~MergeDoes(Merge!Next)
  <2>1. part # "merge" /\ part' = part
    BY <1>3 DEF Next, RouterDoes, RunDoes, RevisionDoes
  <2> QED BY <2>1
<1> QED BY <1>1, <1>2, <1>3

\* From the preview on the workflow is the one that the plan and the export of
\* the preview give, its next command is one of them, and the programmer holds
\* nothing but fixtures of the rig, whoever else works on the console
\* (CueMerge, the command builders of the three executors).
THEOREM MergeFollowsItsPlan == Spec => [](part = "merge" => Merge!InWorkflow)
<1>1. Init => MergeCompiled
  <2> SUFFICES ASSUME Init, part = "merge" PROVE Compiled
    BY DEF MergeCompiled
  <2>1. Merge!Init
    BY DEF Init, RouterStarts, RunStarts, RevisionStarts, MergeStarts
  <2>2. status = "none" /\ commands = <<>> /\ at = 1 /\ prog = Merge!Cleared
    BY <2>1 DEF Merge!Init
  <2> QED BY <2>2, ClearedParts DEF Compiled, CompiledAs
<1>2. MergeInvariant /\ MergeCompiled /\ [Next]_vars => MergeCompiled'
  BY MergeCompiledStep
<1>3. MergeInvariant /\ MergeCompiled => (part = "merge" => Merge!InWorkflow)
  <2> SUFFICES ASSUME MergeInvariant, MergeCompiled, part = "merge" PROVE Merge!InWorkflow
    OBVIOUS
  <2>0. Merge!CueMergeAssumption
    BY ConstantsFit
  <2>1. prog.selection \subseteq Merge!Fixtures
    BY DEF MergeCompiled, Compiled, CompiledAs
  <2>2. at \in 1..(Len(commands) + 1)
    <3>1. CASE status = "none"
      <4>1. commands = <<>> /\ at = 1
        BY <3>1 DEF MergeCompiled, Compiled, CompiledAs
      <4> QED BY <4>1
    <3>2. CASE status # "none"
      <4>1. plan \in Plans /\ Merge!Fits(plan, basis) /\ commands = Merge!CommandsOf(plan, basis)
            /\ at \in 1..Len(commands)
        BY <3>2 DEF MergeInvariant, MergeInv, Previewed, MergeCompiled, Compiled, CompiledAs
      <4>2. commands \in Seq(CommandSet(plan, basis))
        BY <2>0, <4>1, CommandsAre
      <4>3. Len(commands) \in Nat
        BY <4>2
      <4> QED BY <4>1, <4>3
    <3> QED BY <3>1, <3>2
  <2> QED BY <2>1, <2>2 DEF Merge!InWorkflow
<1> QED BY <1>1, <1>2, <1>3, MergeInvariantHolds, PTL DEF Spec

\* A merge that nobody interferes with is not called stale and does not fail,
\* provided that no position has more decimals than a command can carry: every
\* command is accepted, and what the console stores is what the verifiers look
\* for (CueMerge, the three executors and verifiers).
THEOREM UndisturbedMergeVerifies ==
    (\A p \in Plans : Exact(p)) => (Spec => []UndisturbedVerifies)
<1> SUFFICES ASSUME \A p \in Plans : Exact(p) PROVE Spec => []UndisturbedVerifies
  OBVIOUS
<1>0. \A p \in Plans : Exact(p)
  OBVIOUS
<1>1. Init => MergeCompiled /\ MergeUndisturbed
  <2> SUFFICES ASSUME Init, part = "merge" PROVE Compiled /\ Undisturbed
    BY DEF MergeCompiled, MergeUndisturbed
  <2>1. Merge!Init
    BY DEF Init, RouterStarts, RunStarts, RevisionStarts, MergeStarts
  <2>2. status = "none" /\ commands = <<>> /\ at = 1 /\ prog = Merge!Cleared
    BY <2>1 DEF Merge!Init
  <2> QED BY <2>2, ClearedParts DEF Compiled, CompiledAs, Undisturbed, UndisturbedAs
<1>2. MergeInvariant /\ MergeCompiled /\ MergeUndisturbed /\ [Next]_vars =>
         MergeCompiled' /\ MergeUndisturbed'
  BY <1>0, MergeCompiledStep, MergeUndisturbedStep
<1>3. MergeUndisturbed /\ (part = "merge" => Merge!InWorkflow) => UndisturbedVerifies
  BY DEF MergeUndisturbed, Undisturbed, UndisturbedAs, UndisturbedVerifies,
         Merge!UndisturbedVerifies
<1> QED BY <1>1, <1>2, <1>3, MergeInvariantHolds, MergeFollowsItsPlan, PTL DEF Spec
=============================================================================
