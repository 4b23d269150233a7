----------------------------- MODULE ListProofs ------------------------------
(***************************************************************************)
(* Lemmas about lists and ranks.  FlattenSeq is defined by recursion, and  *)
(* what a list joined or picked from others holds is shown from the least  *)
(* position at which it would fail (LeastNumber).                          *)
(***************************************************************************)
EXTENDS Lists, SequenceTheorems, FiniteSetTheorems, WellFoundedInduction, TLAPS

(***************************************************************************)
(* A set of numbers that is not empty has a least one.                     *)
(***************************************************************************)
LEMMA LeastNumber ==
    ASSUME NEW T \in SUBSET Nat, T # {}
    PROVE  \E x \in T : \A y \in T : x <= y
<1>1. PICK R : R = OpToRel(<, Nat)
  OBVIOUS
<1>2. IsWellFoundedOn(R, Nat)
  BY <1>1, NatLessThanWellFounded
<1>3. \A x, y \in Nat : y < x => <<y, x>> \in R
  BY <1>1 DEF OpToRel
<1>4. PICK x \in T : \A y \in T : ~(<<y, x>> \in R)
  BY <1>2, WFMin
<1>5. ASSUME NEW y \in T PROVE x <= y
  <2>1. x \in Nat /\ y \in Nat
    OBVIOUS
  <2>2. ~(y < x)
    BY <2>1, <1>3, <1>4
  <2>. QED BY <2>1, <2>2
<1>. QED BY <1>5

(***************************************************************************)
(* Induction over 1..m, for a set.                                         *)
(***************************************************************************)
LEMMA UpTo ==
    ASSUME NEW m \in Nat, NEW T, 1 \in T,
           \A n \in 2..m : n - 1 \in T => n \in T
    PROVE  1..m \subseteq T
<1> DEFINE Bad == (1..m) \ T
<1>1. ASSUME Bad # {} PROVE FALSE
  <2>1. PICK n \in Bad : \A k \in Bad : n <= k
    <3>1. Bad \in SUBSET Nat
      OBVIOUS
    <3> HIDE DEF Bad
    <3>. QED BY <1>1, <3>1, LeastNumber
  <2>2. n \in 2..m /\ n - 1 \in 1..m
    BY <2>1
  <2>3. n - 1 \in T
    BY <2>1, <2>2
  <2>. QED BY <2>1, <2>2, <2>3
<1>. QED BY <1>1

(***************************************************************************)
(* f is FlattenSeq at work: what it has joined after each list.            *)
(***************************************************************************)
Joins(f, ss, m, S) ==
    /\ \A i \in 1..m : f[i] \in Seq(S)
    /\ f[1] = ss[1]
    /\ \A i \in 2..m : f[i] = f[i - 1] \o ss[i]
    /\ FlattenSeq(ss) = f[m]

LEMMA FlattenSteps ==
    ASSUME NEW S, NEW m \in Nat, m > 0, NEW ss, m = Len(ss),
           \A i \in 1..m : ss[i] \in Seq(S)
    PROVE  \E f : Joins(f, ss, m, S)
<1> DEFINE Plus(a, b) == a \o b
           Partial(g, n) ==
             /\ g \in [1..n -> Seq(S)] /\ g[1] = ss[1]
             /\ \A i \in 2..n : g[i] = Plus(g[i - 1], ss[i])
           Done == {n \in 1..m : \E g : Partial(g, n)}
<1>1. \A i \in 1..m : ss[i] \in Seq(S)
  OBVIOUS
<1>2. \A a, b \in Seq(S) : Plus(a, b) \in Seq(S)
  BY ConcatProperties
<1>3. PICK f : f = CHOOSE h :
          h = [i \in 1..m |-> IF i = 1 THEN ss[i] ELSE Plus(h[i - 1], ss[i])]
  OBVIOUS
<1>4. FlattenSeq(ss) = f[m]
  BY <1>3 DEF FlattenSeq
<1> HIDE DEF Plus
<1>5. ASSUME NEW n \in 2..m, n - 1 \in Done PROVE n \in Done
  <2>1. PICK g : Partial(g, n - 1)
    BY <1>5
  <2>2. PICK h : h = [i \in 1..n |-> IF i = n THEN Plus(g[n - 1], ss[n]) ELSE g[i]]
    OBVIOUS
  <2>3. Plus(g[n - 1], ss[n]) \in Seq(S)
    BY <1>1, <1>2, <2>1
  <2>4. h \in [1..n -> Seq(S)]
    BY <2>1, <2>2, <2>3
  <2>5. h[1] = ss[1]
    BY <2>1, <2>2
  <2>6. \A i \in 2..n : h[i] = Plus(h[i - 1], ss[i])
    BY <2>1, <2>2
  <2>7. Partial(h, n)
    BY <2>4, <2>5, <2>6
  <2>8. n \in 1..m
    OBVIOUS
  <2> HIDE DEF Partial
  <2>. QED BY <2>7, <2>8
<1>6. 1 \in Done
  <2>1. Partial([i \in 1..1 |-> ss[1]], 1)
    BY <1>1
  <2>2. 1 \in 1..m
    OBVIOUS
  <2> HIDE DEF Partial
  <2>. QED BY <2>1, <2>2
<1>7. m \in Done
  <2>1. m \in 1..m
    OBVIOUS
  <2>2. 1..m \subseteq Done
    <3> HIDE DEF Done
    <3>. QED BY <1>5, <1>6, UpTo
  <2> HIDE DEF Done
  <2>. QED BY <2>1, <2>2
<1>8. PICK g : Partial(g, m)
  BY <1>7
<1>9. g = [i \in 1..m |-> IF i = 1 THEN ss[i] ELSE Plus(g[i - 1], ss[i])]
  BY <1>8
<1>10. f = [i \in 1..m |-> IF i = 1 THEN ss[i] ELSE Plus(f[i - 1], ss[i])]
  BY <1>3, <1>9
<1>11. f[1] = ss[1] /\ \A i \in 2..m : f[i] = Plus(f[i - 1], ss[i])
  BY <1>10
<1>12. \A i \in 1..m : f[i] \in Seq(S)
  <2> DEFINE Good == {n \in 1..m : f[n] \in Seq(S)}
  <2>1. 1 \in Good
    BY <1>1, <1>11
  <2>2. ASSUME NEW n \in 2..m, n - 1 \in Good PROVE n \in Good
    BY <1>1, <1>2, <1>11, <2>2
  <2>3. 1..m \subseteq Good
    <3> HIDE DEF Good
    <3>. QED BY <2>1, <2>2, UpTo
  <2>. QED BY <2>3
<1>13. \A i \in 2..m : f[i] = f[i - 1] \o ss[i]
  BY <1>11 DEF Plus
<1>. QED BY <1>4, <1>11, <1>12, <1>13 DEF Joins

(***************************************************************************)
(* x is an element of one of the first n lists.                            *)
(***************************************************************************)
ComesFrom(ss, n, x) == \E i \in 1..n : \E j \in 1..Len(ss[i]) : x = ss[i][j]

LEMMA ComesFromConcat ==
    ASSUME NEW S, NEW ss, NEW n \in Nat, n > 1,
           NEW a \in Seq(S), ss[n] \in Seq(S),
           \A k \in 1..Len(a) : ComesFrom(ss, n - 1, a[k]),
           NEW k \in 1..Len(a \o ss[n])
    PROVE  ComesFrom(ss, n, (a \o ss[n])[k])
<1>1. PICK b \in Seq(S) : b = ss[n]
  OBVIOUS
<1>2. /\ Len(a) \in Nat /\ Len(b) \in Nat /\ Len(a \o b) = Len(a) + Len(b)
      /\ k \in 1..(Len(a) + Len(b))
  BY <1>1, ConcatProperties
<1>3. CASE k <= Len(a)
  <2>1. (a \o b)[k] = a[k] /\ k \in 1..Len(a)
    BY <1>2, <1>3
  <2>2. ComesFrom(ss, n - 1, a[k])
    BY <2>1
  <2>3. 1..(n - 1) \subseteq 1..n
    OBVIOUS
  <2>. QED BY <1>1, <2>1, <2>2, <2>3 DEF ComesFrom
<1>4. CASE k > Len(a)
  <2>1. (a \o b)[k] = b[k - Len(a)] /\ k - Len(a) \in 1..Len(b)
    BY <1>2, <1>4
  <2>2. n \in 1..n
    OBVIOUS
  <2>. QED BY <1>1, <2>1, <2>2 DEF ComesFrom
<1>. QED BY <1>2, <1>3, <1>4

LEMMA FlattenFacts ==
    ASSUME NEW S, NEW m \in Nat, NEW ss, DOMAIN ss = 1..m, m = Len(ss),
           m = 0 => ss = <<>>,
           \A i \in 1..m : ss[i] \in Seq(S)
    PROVE  /\ FlattenSeq(ss) \in Seq(S)
           /\ \A k \in 1..Len(FlattenSeq(ss)) : ComesFrom(ss, m, FlattenSeq(ss)[k])
<1>1. CASE m = 0
  <2>1. FlattenSeq(ss) = ss
    BY <1>1 DEF FlattenSeq
  <2>. QED BY <1>1, <2>1
<1>2. CASE m > 0
  <2>1. PICK f : Joins(f, ss, m, S)
    BY <1>2, FlattenSteps
  <2> DEFINE Good == {n \in 1..m : \A k \in 1..Len(f[n]) : ComesFrom(ss, n, f[n][k])}
  <2>2. 1 \in Good
    BY <1>2, <2>1 DEF Joins, ComesFrom
  <2>3. ASSUME NEW n \in 2..m, n - 1 \in Good PROVE n \in Good
    <3>0. n - 1 \in 1..m
      OBVIOUS
    <3>1. f[n - 1] \in Seq(S)
      BY <2>1, <3>0 DEF Joins
    <3>5. f[n] = f[n - 1] \o ss[n]
      BY <2>1 DEF Joins
    <3>2. n \in Nat /\ n > 1 /\ n \in 1..m /\ ss[n] \in Seq(S)
      OBVIOUS
    <3>3. \A k \in 1..Len(f[n - 1]) : ComesFrom(ss, n - 1, f[n - 1][k])
      BY <2>3
    <3>4. \A k \in 1..Len(f[n]) : ComesFrom(ss, n, f[n][k])
      BY <3>1, <3>2, <3>3, <3>5, ComesFromConcat
    <3>. QED BY <3>2, <3>4
  <2>4. 1..m \subseteq Good
    <3> HIDE DEF Good
    <3>. QED BY <2>2, <2>3, UpTo
  <2>5. m \in 1..m
    BY <1>2
  <2>6. m \in Good
    <3> HIDE DEF Good
    <3>. QED BY <2>4, <2>5
  <2>. QED BY <2>1, <2>5, <2>6 DEF Joins
<1>. QED BY <1>1, <1>2

(***************************************************************************)
(* p is what I selects of the first n elements of s, and h says from       *)
(* where.                                                                  *)
(***************************************************************************)
Selects(s, I, n, p, h) ==
    /\ h \in [1..Len(p) -> I \cap 1..n]
    /\ \A k \in 1..Len(p) : p[k] = s[h[k]]
    /\ \A j, k \in 1..Len(p) : j < k => h[j] < h[k]
    /\ \A i \in I \cap 1..n : \E k \in 1..Len(p) : h[k] = i

LEMMA SelectsOneMore ==
    ASSUME NEW S, NEW s, NEW I, NEW n \in Nat, n > 0, n \in I, s[n] \in S,
           NEW a \in Seq(S), NEW h, Selects(s, I, n - 1, a, h)
    PROVE  \E g : Selects(s, I, n, Append(a, s[n]), g)
<1>1. PICK l \in Nat : l = Len(a)
  BY LenProperties
<1>2. PICK p : p = Append(a, s[n])
  OBVIOUS
<1>3. /\ Len(p) = l + 1 /\ p[l + 1] = s[n]
      /\ \A k \in 1..l : p[k] = a[k]
  BY <1>1, <1>2, AppendProperties
<1>4. PICK g : g = [k \in 1..(l + 1) |-> IF k = l + 1 THEN n ELSE h[k]]
  OBVIOUS
<1>5. /\ h \in [1..l -> I \cap 1..(n - 1)]
      /\ \A k \in 1..l : a[k] = s[h[k]]
      /\ \A j, k \in 1..l : j < k => h[j] < h[k]
      /\ \A i \in I \cap 1..(n - 1) : \E k \in 1..l : h[k] = i
  BY <1>1 DEF Selects
<1>6. \A k \in 1..l : g[k] = h[k] /\ h[k] \in I /\ h[k] \in 1..(n - 1)
  <2> SUFFICES ASSUME NEW k \in 1..l
               PROVE  g[k] = h[k] /\ h[k] \in I /\ h[k] \in 1..(n - 1)
    OBVIOUS
  <2>1. h[k] \in I \cap 1..(n - 1)
    BY <1>5
  <2>2. k \in 1..(l + 1) /\ k # l + 1
    OBVIOUS
  <2>. QED BY <1>4, <2>1, <2>2
<1>7. g[l + 1] = n
  BY <1>4
<1>8. g \in [1..(l + 1) -> I \cap 1..n]
  <2>1. \A k \in 1..(l + 1) : g[k] \in I \cap 1..n
    BY <1>6, <1>7
  <2>. QED BY <1>4, <2>1
<1>9. \A k \in 1..(l + 1) : p[k] = s[g[k]]
  BY <1>3, <1>5, <1>6, <1>7
<1>10. ASSUME NEW j \in 1..(l + 1), NEW k \in 1..(l + 1), j < k
       PROVE  g[j] < g[k]
  <2>1. j \in 1..l
    BY <1>10
  <2>2. CASE k = l + 1
    BY <1>6, <1>7, <2>1, <2>2
  <2>3. CASE k # l + 1
    <3>1. k \in 1..l
      BY <2>3
    <3>. QED BY <1>5, <1>6, <1>10, <2>1, <3>1
  <2>. QED BY <2>2, <2>3
<1>11. ASSUME NEW i \in I \cap 1..n PROVE \E k \in 1..(l + 1) : g[k] = i
  <2>1. CASE i = n
    BY <1>7, <2>1
  <2>2. CASE i # n
    <3>1. i \in I \cap 1..(n - 1)
      BY <2>2
    <3>2. PICK k \in 1..l : h[k] = i
      BY <1>5, <3>1
    <3>. QED BY <1>6, <3>2
  <2>. QED BY <2>1, <2>2
<1>12. Selects(s, I, n, p, g)
  BY <1>3, <1>8, <1>9, <1>10, <1>11 DEF Selects
<1>. QED BY <1>2, <1>12

LEMMA SelectsNoMore ==
    ASSUME NEW s, NEW I, NEW n \in Nat, n > 0, n \notin I,
           NEW p, NEW h, Selects(s, I, n - 1, p, h)
    PROVE  Selects(s, I, n, p, h)
<1>1. I \cap 1..n = I \cap 1..(n - 1)
  OBVIOUS
<1>. QED BY <1>1 DEF Selects

LEMMA SelectsNone == \A s, I : Selects(s, I, 0, <<>>, [k \in 1..0 |-> 0])
BY DEF Selects

LEMMA PickedFacts ==
    ASSUME NEW S, NEW s \in Seq(S), NEW I, I \subseteq 1..Len(s)
    PROVE  /\ Picked(s, I) \in Seq(S)
           /\ \E h : Selects(s, I, Len(s), Picked(s, I), h)
<1>1. PICK m \in Nat : m = Len(s) /\ DOMAIN s = 1..m
  BY LenProperties
<1>2. PICK ss : ss = [i \in 1..m |-> IF i \in I THEN <<s[i]>> ELSE <<>>]
  OBVIOUS
<1>3. Picked(s, I) = FlattenSeq(ss)
  BY <1>1, <1>2 DEF Picked
<1>4. \A i \in 1..m : s[i] \in S /\ ss[i] \in Seq(S)
  BY <1>1, <1>2, ElementOfSeq
<1>5. Len(ss) = m
  BY <1>2
<1>6. CASE m = 0
  <2>1. FlattenSeq(ss) = ss /\ ss = <<>>
    BY <1>2, <1>5, <1>6 DEF FlattenSeq
  <2>2. Picked(s, I) = <<>>
    BY <1>3, <2>1
  <2>. QED BY <1>1, <1>6, <2>2, SelectsNone
<1>7. CASE m > 0
  <2>0. PICK f : Joins(f, ss, m, S)
    BY <1>4, <1>5, <1>7, FlattenSteps
  <2>1. /\ \A i \in 1..m : f[i] \in Seq(S)
        /\ f[1] = ss[1]
        /\ \A i \in 2..m : f[i] = f[i - 1] \o ss[i]
        /\ FlattenSeq(ss) = f[m]
    BY <2>0 DEF Joins
  <2> DEFINE Good == {n \in 1..m : \E h : Selects(s, I, n, f[n], h)}
  <2>2. ASSUME NEW n \in 1..m, NEW a \in Seq(S), NEW h,
               Selects(s, I, n - 1, a, h), f[n] = a \o ss[n]
        PROVE  n \in Good
    <3>1. CASE n \in I
      <4>1. ss[n] = <<s[n]>> /\ s[n] \in S
        BY <1>2, <1>4, <3>1
      <4>2. f[n] = Append(a, s[n])
        BY <2>2, <4>1, AppendIsConcat
      <4>3. \E g : Selects(s, I, n, Append(a, s[n]), g)
        BY <2>2, <3>1, <4>1, SelectsOneMore
      <4>. QED BY <4>2, <4>3
    <3>2. CASE n \notin I
      <4>1. ss[n] = <<>>
        BY <1>2, <3>2
      <4>2. f[n] = a
        BY <2>2, <4>1, ConcatEmptySeq
      <4>3. Selects(s, I, n, a, h)
        BY <2>2, <3>2, SelectsNoMore
      <4>. QED BY <4>2, <4>3
    <3>. QED BY <3>1, <3>2
  <2>3. 1 \in Good
    <3>1. <<>> \in Seq(S) /\ <<>> \o ss[1] = ss[1] /\ 1 \in 1..m
      BY <1>4, <1>7, ConcatEmptySeq
    <3>2. Selects(s, I, 1 - 1, <<>>, [k \in 1..0 |-> 0])
      BY SelectsNone
    <3>3. f[1] = <<>> \o ss[1]
      BY <2>1, <3>1
    <3> HIDE DEF Good
    <3>. QED BY <2>2, <3>1, <3>2, <3>3
  <2>4. ASSUME NEW n \in 2..m, n - 1 \in Good PROVE n \in Good
    <3>1. PICK h : Selects(s, I, n - 1, f[n - 1], h)
      BY <2>4
    <3>2. f[n - 1] \in Seq(S) /\ n \in 1..m
      BY <2>1
    <3>3. f[n] = f[n - 1] \o ss[n]
      BY <2>1
    <3> HIDE DEF Good
    <3>. QED BY <2>2, <3>1, <3>2, <3>3
  <2>5. 1..m \subseteq Good
    <3> HIDE DEF Good
    <3>. QED BY <2>3, <2>4, UpTo
  <2>6. m \in 1..m
    BY <1>7
  <2>7. m \in Good /\ f[m] \in Seq(S)
    BY <2>1, <2>5, <2>6
  <2>. QED BY <1>1, <1>3, <2>1, <2>7
<1>. QED BY <1>6, <1>7

(***************************************************************************)
(* A list of lists, joined.                                                *)
(***************************************************************************)
LEMMA JoinedLists ==
    ASSUME NEW T, NEW n \in Nat, NEW ss \in [1..n -> Seq(T)]
    PROVE  FlattenSeq(ss) \in Seq(T)
<1>1. DOMAIN ss = 1..n /\ n = Len(ss) /\ (n = 0 => ss = <<>>)
  OBVIOUS
<1>2. \A i \in 1..n : ss[i] \in Seq(T)
  OBVIOUS
<1>. QED BY <1>1, <1>2, FlattenFacts

LEMMA PickedIsSeq ==
    ASSUME NEW S, NEW s \in Seq(S), NEW I, I \subseteq DOMAIN s
    PROVE  Picked(s, I) \in Seq(S)
<1>1. DOMAIN s = 1..Len(s)
  BY LenProperties
<1>. QED BY <1>1, PickedFacts

(***************************************************************************)
(* Lists of whatever they hold.                                            *)
(***************************************************************************)
LEMMA ListDomain ==
    ASSUME NEW s, IsList(s)
    PROVE  Len(s) \in Nat /\ DOMAIN s = 1..Len(s)
BY LenProperties DEF IsList

LEMMA ListOf ==
    ASSUME NEW S, NEW s \in Seq(S)
    PROVE  IsList(s) /\ Range(s) \subseteq S
<1>1. PICK n \in Nat : n = Len(s) /\ DOMAIN s = 1..n
  BY LenProperties
<1>2. \A k \in 1..n : s[k] \in S
  BY <1>1, ElementOfSeq
<1>3. s \in [1..n -> Range(s)]
  BY <1>1, SeqDef DEF Range
<1>4. s \in Seq(Range(s))
  BY <1>3, SeqDef
<1>. QED BY <1>1, <1>2, <1>4 DEF IsList, Range

LEMMA ListOfLength ==
    ASSUME NEW n \in Nat, NEW s, s = [k \in 1..n |-> s[k]]
    PROVE  IsList(s) /\ Len(s) = n /\ DOMAIN s = 1..n
<1>1. s \in [1..n -> Range(s)]
  BY DEF Range
<1>2. s \in Seq(Range(s))
  BY <1>1, SeqDef
<1>. QED BY <1>1, <1>2, LenProperties DEF IsList

LEMMA ListConcat ==
    ASSUME NEW a, NEW b, IsList(a), IsList(b)
    PROVE  /\ IsList(a \o b) /\ Len(a \o b) = Len(a) + Len(b)
           /\ Range(a \o b) = Range(a) \cup Range(b)
           /\ \A k \in 1..Len(a) : (a \o b)[k] = a[k]
           /\ \A k \in 1..Len(b) : (a \o b)[Len(a) + k] = b[k]
<1>1. PICK S : S = Range(a) \cup Range(b)
  OBVIOUS
<1>2. a \in Seq(S) /\ b \in Seq(S)
  <2>1. Seq(Range(a)) \subseteq Seq(S) /\ Seq(Range(b)) \subseteq Seq(S)
    BY <1>1, SeqDef
  <2>. QED BY <2>1 DEF IsList
<1>3. PICK n \in Nat, m \in Nat :
         n = Len(a) /\ m = Len(b) /\ DOMAIN a = 1..n /\ DOMAIN b = 1..m
  BY ListDomain
<1>4. PICK c : c = a \o b
  OBVIOUS
<1>5. /\ c \in Seq(S) /\ Len(c) = n + m /\ DOMAIN c = 1..(n + m)
      /\ \A k \in 1..(n + m) : c[k] = IF k <= n THEN a[k] ELSE b[k - n]
  BY <1>2, <1>3, <1>4, ConcatProperties, LenProperties
<1>6. \A k \in 1..n : k \in 1..(n + m) /\ c[k] = a[k]
  BY <1>5
<1>7. \A k \in 1..m : n + k \in 1..(n + m) /\ c[n + k] = b[k]
  <2> SUFFICES ASSUME NEW k \in 1..m PROVE n + k \in 1..(n + m) /\ c[n + k] = b[k]
    OBVIOUS
  <2>1. n + k \in 1..(n + m) /\ ~(n + k <= n) /\ (n + k) - n = k
    OBVIOUS
  <2>2. c[n + k] = b[(n + k) - n]
    BY <1>5, <2>1
  <2>. QED BY <2>1, <2>2
<1>8. ASSUME NEW k \in 1..(n + m) PROVE c[k] \in S
  BY <1>5, ElementOfSeq
<1>9. Range(c) = S
  <2>1. Range(c) \subseteq S
    BY <1>5, <1>8 DEF Range
  <2>2. ASSUME NEW x \in Range(a) PROVE x \in Range(c)
    <3>1. PICK k \in 1..n : x = a[k]
      BY <1>3 DEF Range
    <3>2. k \in DOMAIN c /\ c[k] = x
      BY <1>5, <1>6, <3>1
    <3>. QED BY <3>2 DEF Range
  <2>3. ASSUME NEW x \in Range(b) PROVE x \in Range(c)
    <3>1. PICK k \in 1..m : x = b[k]
      BY <1>3 DEF Range
    <3>2. n + k \in DOMAIN c /\ c[n + k] = x
      BY <1>5, <1>7, <3>1
    <3>. QED BY <3>2 DEF Range
  <2>. QED BY <1>1, <2>1, <2>2, <2>3
<1>. QED BY <1>1, <1>3, <1>4, <1>5, <1>6, <1>7, <1>9 DEF IsList

LEMMA ListFlatten ==
    ASSUME NEW n \in Nat, NEW ss, ss = [i \in 1..n |-> ss[i]],
           \A i \in 1..n : IsList(ss[i])
    PROVE  /\ IsList(FlattenSeq(ss))
           /\ \A x \in Range(FlattenSeq(ss)) : \E i \in 1..n : x \in Range(ss[i])
<1>1. PICK S : S = UNION {Range(ss[i]) : i \in 1..n}
  OBVIOUS
<1>2. \A i \in 1..n : ss[i] \in Seq(S)
  <2> SUFFICES ASSUME NEW i \in 1..n PROVE ss[i] \in Seq(S)
    OBVIOUS
  <2>1. Range(ss[i]) \subseteq S
    BY <1>1
  <2>2. Seq(Range(ss[i])) \subseteq Seq(S)
    BY <2>1, SeqDef
  <2>. QED BY <2>2 DEF IsList
<1>3. DOMAIN ss = 1..n /\ n = Len(ss) /\ (n = 0 => ss = <<>>)
  BY ListOfLength
<1>4. /\ FlattenSeq(ss) \in Seq(S)
      /\ \A k \in 1..Len(FlattenSeq(ss)) : ComesFrom(ss, n, FlattenSeq(ss)[k])
  BY <1>2, <1>3, FlattenFacts
<1>5. PICK f : f = FlattenSeq(ss)
  OBVIOUS
<1>6. IsList(f)
  BY <1>4, <1>5, ListOf
<1>7. ASSUME NEW x \in Range(f) PROVE \E i \in 1..n : x \in Range(ss[i])
  <2>1. PICK k \in 1..Len(f) : x = f[k]
    BY <1>6, ListDomain DEF Range
  <2>2. PICK i \in 1..n : \E j \in 1..Len(ss[i]) : x = ss[i][j]
    BY <1>4, <1>5, <2>1 DEF ComesFrom
  <2>3. IsList(ss[i])
    OBVIOUS
  <2>. QED BY <2>2, <2>3, ListDomain DEF Range
<1>. QED BY <1>5, <1>6, <1>7

(***************************************************************************)
(* What is picked is picked once, in order, and no place is left out.      *)
(***************************************************************************)
LEMMA ListPicked ==
    ASSUME NEW s, IsList(s), NEW I, I \subseteq DOMAIN s
    PROVE  /\ IsList(Picked(s, I)) /\ Range(Picked(s, I)) = {s[i] : i \in I}
           /\ \E h : Selects(s, I, Len(s), Picked(s, I), h)
<1>1. s \in Seq(Range(s)) /\ I \subseteq 1..Len(s)
  BY ListDomain DEF IsList
<1>2. /\ Picked(s, I) \in Seq(Range(s))
      /\ \E h : Selects(s, I, Len(s), Picked(s, I), h)
  BY <1>1, PickedFacts
<1>3. PICK p, h : p = Picked(s, I) /\ Selects(s, I, Len(s), p, h)
  BY <1>2
<1>4. IsList(p) /\ DOMAIN p = 1..Len(p)
  BY <1>2, <1>3, ListOf, ListDomain
<1>5. /\ h \in [1..Len(p) -> I \cap 1..Len(s)]
      /\ \A k \in 1..Len(p) : p[k] = s[h[k]]
      /\ \A i \in I \cap 1..Len(s) : \E k \in 1..Len(p) : h[k] = i
  BY <1>3 DEF Selects
<1>6. Range(p) = {s[i] : i \in I}
  <2>1. ASSUME NEW x \in Range(p) PROVE x \in {s[i] : i \in I}
    <3>1. PICK k \in 1..Len(p) : x = p[k]
      BY <1>4 DEF Range
    <3>2. h[k] \in I \cap 1..Len(s) /\ x = s[h[k]]
      BY <1>5, <3>1
    <3>. QED BY <3>2
  <2>2. ASSUME NEW i \in I PROVE s[i] \in Range(p)
    <3>1. i \in I \cap 1..Len(s)
      BY <1>1
    <3>2. PICK k \in 1..Len(p) : h[k] = i
      BY <1>5, <3>1
    <3>3. p[k] = s[i]
      BY <1>5, <3>2
    <3>. QED BY <1>4, <3>3 DEF Range
  <2>. QED BY <2>1, <2>2
<1>. QED BY <1>2, <1>3, <1>4, <1>6

(***************************************************************************)
(* The places themselves.                                                  *)
(***************************************************************************)
LEMMA PlacesFacts ==
    ASSUME NEW s, IsList(s), NEW I, I \subseteq DOMAIN s
    PROVE  /\ IsList(PlacesIn(s, I)) /\ Range(PlacesIn(s, I)) = I
           /\ \A j, k \in DOMAIN PlacesIn(s, I) :
                 PlacesIn(s, I)[j] = PlacesIn(s, I)[k] => j = k
<1>1. PICK n \in Nat : n = Len(s) /\ DOMAIN s = 1..n
  BY ListDomain
<1>2. PICK id : id = [i \in 1..n |-> i]
  OBVIOUS
<1>3. IsList(id) /\ Len(id) = n /\ DOMAIN id = 1..n
  BY <1>2, ListOfLength
<1>4. PICK p : p = PlacesIn(s, I) /\ p = Picked(id, I)
  BY <1>1, <1>2 DEF PlacesIn
<1>5. /\ IsList(p) /\ Range(p) = {id[i] : i \in I}
      /\ \E h : Selects(id, I, n, p, h)
  BY <1>1, <1>3, <1>4, ListPicked
<1>6. Range(p) = I
  BY <1>1, <1>2, <1>5
<1>7. PICK h : Selects(id, I, n, p, h)
  BY <1>5
<1>8. /\ \A k \in 1..Len(p) : h[k] \in 1..n /\ p[k] = h[k]
      /\ \A j, k \in 1..Len(p) : j < k => h[j] < h[k]
  BY <1>2, <1>7 DEF Selects
<1>9. Len(p) \in Nat /\ DOMAIN p = 1..Len(p)
  BY <1>5, ListDomain
<1>10. ASSUME NEW j \in DOMAIN p, NEW k \in DOMAIN p, p[j] = p[k] PROVE j = k
  <2>1. j \in 1..Len(p) /\ k \in 1..Len(p) /\ j \in Int /\ k \in Int
    BY <1>9
  <2>2. h[j] = h[k] /\ h[j] \in Int /\ h[k] \in Int
    BY <1>8, <1>10, <2>1
  <2>. QED BY <1>8, <2>1, <2>2
<1>. QED BY <1>4, <1>5, <1>6, <1>10

(***************************************************************************)
(* Ranks.  before gives each element of a finite set the elements before   *)
(* it, in a strict order in which any two compare: then an element's rank, *)
(* the number of those before it, is its alone, and every rank is taken.   *)
(***************************************************************************)
Ordering(P, before) ==
    /\ IsFiniteSet(P)
    /\ before \in [P -> SUBSET P]
    /\ \A u \in P : u \notin before[u]
    /\ \A u, v \in P : u # v => u \in before[v] \/ v \in before[u]
    /\ \A u, v \in P : u \in before[v] => before[u] \subseteq before[v]

LEMMA RanksRise ==
    ASSUME NEW P, NEW before, Ordering(P, before),
           NEW u \in P, NEW v \in P, u \in before[v]
    PROVE  Cardinality(before[u]) < Cardinality(before[v])
<1>1. IsFiniteSet(before[v]) /\ before[v] \in SUBSET P
  BY FS_Subset DEF Ordering
<1>2. before[u] \in SUBSET (before[v] \ {u})
  BY DEF Ordering
<1>3. /\ IsFiniteSet(before[v] \ {u})
      /\ Cardinality(before[v] \ {u}) = Cardinality(before[v]) - 1
  BY <1>1, FS_RemoveElement
<1>4. /\ Cardinality(before[u]) <= Cardinality(before[v] \ {u})
      /\ IsFiniteSet(before[u])
  BY <1>2, <1>3, FS_Subset
<1>5. Cardinality(before[u]) \in Nat /\ Cardinality(before[v]) \in Nat
  BY <1>1, <1>4, FS_CardinalityType
<1>. QED BY <1>3, <1>4, <1>5

LEMMA Ranks ==
    ASSUME NEW P, NEW before, Ordering(P, before)
    PROVE  /\ Cardinality(P) \in Nat
           /\ \A k \in 1..Cardinality(P) :
                 \E u \in P : Cardinality(before[u]) = k - 1
           /\ \A u \in P : Cardinality(before[u]) + 1 \in 1..Cardinality(P)
           /\ \A u, v \in P :
                 Cardinality(before[u]) = Cardinality(before[v]) => u = v
<1>0. IsFiniteSet(P)
  BY DEF Ordering
<1>1. PICK n \in Nat : n = Cardinality(P)
  BY <1>0, FS_CardinalityType
<1>2. \A u \in P : Cardinality(before[u]) \in 0..(n - 1)
  <2> SUFFICES ASSUME NEW u \in P PROVE Cardinality(before[u]) \in 0..(n - 1)
    OBVIOUS
  <2>1. /\ IsFiniteSet(P \ {u})
        /\ Cardinality(P \ {u}) = n - 1
    BY <1>0, <1>1, FS_RemoveElement
  <2>2. before[u] \in SUBSET (P \ {u})
    BY DEF Ordering
  <2>3. /\ IsFiniteSet(before[u])
        /\ Cardinality(before[u]) <= n - 1
    BY <2>1, <2>2, FS_Subset
  <2>4. Cardinality(before[u]) \in Nat
    BY <2>3, FS_CardinalityType
  <2>. QED BY <2>3, <2>4
<1>3. \A u, v \in P : Cardinality(before[u]) = Cardinality(before[v]) => u = v
  <2> SUFFICES ASSUME NEW u \in P, NEW v \in P, u # v
               PROVE  Cardinality(before[u]) # Cardinality(before[v])
    OBVIOUS
  <2>0. Cardinality(before[u]) \in Int /\ Cardinality(before[v]) \in Int
    BY <1>2
  <2>1. u \in before[v] \/ v \in before[u]
    BY DEF Ordering
  <2>2. CASE u \in before[v]
    BY <2>0, <2>2, RanksRise
  <2>3. CASE v \in before[u]
    BY <2>0, <2>3, RanksRise
  <2>. QED BY <2>1, <2>2, <2>3
<1>4. PICK rank : rank = [u \in P |-> Cardinality(before[u])]
  OBVIOUS
<1>5. rank \in Injection(P, 0..(n - 1))
  BY <1>2, <1>3, <1>4 DEF Injection, IsInjective
<1>6. IsFiniteSet(0..(n - 1)) /\ Cardinality(0..(n - 1)) = n
  <2>1. 0 \in Int /\ n - 1 \in Int
    OBVIOUS
  <2>2. /\ IsFiniteSet(0..(n - 1))
        /\ Cardinality(0..(n - 1)) = IF 0 > n - 1 THEN 0 ELSE (n - 1) - 0 + 1
    BY <2>1, FS_Interval
  <2>. QED BY <2>2
<1>7. rank \in Surjection(P, 0..(n - 1))
  BY <1>1, <1>5, <1>6, FS_Injection
<1>8. \A k \in 1..n : \E u \in P : rank[u] = k - 1
  <2> SUFFICES ASSUME NEW k \in 1..n PROVE \E u \in P : rank[u] = k - 1
    OBVIOUS
  <2>1. k - 1 \in 0..(n - 1)
    OBVIOUS
  <2>. QED BY <2>1, <1>7 DEF Surjection
<1>. QED BY <1>1, <1>2, <1>3, <1>4, <1>8

(***************************************************************************)
(* Somebody comes first.                                                   *)
(***************************************************************************)
LEMMA FirstRanked ==
    ASSUME NEW P, NEW before, Ordering(P, before), P # {}
    PROVE  \E u \in P : \A v \in P : u = v \/ u \in before[v]
<1>1. IsFiniteSet(P)
  BY DEF Ordering
<1>2. PICK n \in Nat : n = Cardinality(P)
  BY <1>1, FS_CardinalityType
<1>3. n # 0
  BY <1>1, <1>2, FS_EmptySet
<1>4. 1 \in 1..n
  BY <1>3
<1>5. PICK u \in P : Cardinality(before[u]) = 1 - 1
  BY <1>2, <1>4, Ranks
<1>6. before[u] \in SUBSET P
  BY DEF Ordering
<1>7. IsFiniteSet(before[u])
  BY <1>1, <1>6, FS_Subset
<1>8. before[u] = {}
  BY <1>5, <1>7, FS_EmptySet
<1>. QED BY <1>8 DEF Ordering
==============================================================================
