--------------------------- MODULE EpsCoresProofs ---------------------------
(***************************************************************************)
(* Theorems about EpsCores, for all allocations, topologies and sizes of   *)
(* the text.                                                               *)
(***************************************************************************)
EXTENDS EpsCores, EpsSums, SequenceTheorems

-----------------------------------------------------------------------------
(* The maximal ranges of a set of cores.                                   *)

LEMMA RangeIs ==
    ASSUME NEW S \in SUBSET Nat, NEW r \in Ranges(S)
    PROVE  /\ r = <<r[1], r[2]>> /\ r[1] \in S /\ r[2] \in S /\ r[1] \in Nat /\ r[2] \in Nat
           /\ r[1] <= r[2] /\ r[1]..r[2] \subseteq S
           /\ r[1] - 1 \notin S /\ r[2] + 1 \notin S
<1>1. r \in S \X S BY DEF Ranges
<1>2. r = <<r[1], r[2]>> /\ r[1] \in S /\ r[2] \in S BY <1>1
<1>3. /\ r[1] <= r[2] /\ r[1]..r[2] \subseteq S
      /\ r[1] - 1 \notin S /\ r[2] + 1 \notin S
  BY DEF Ranges
<1> QED BY <1>2, <1>3

\* Between two maximal ranges there is a gap.
LEMMA RangesApart ==
    ASSUME NEW S \in SUBSET Nat, NEW r \in Ranges(S), NEW q \in Ranges(S),
           r # q, r[1] <= q[1]
    PROVE  r[2] < q[1]
<1>1. /\ r[1] \in Nat /\ r[2] \in Nat /\ r[1] <= r[2] /\ r[1]..r[2] \subseteq S
      /\ r[2] + 1 \notin S /\ r = <<r[1], r[2]>>
  BY RangeIs
<1>2. /\ q[1] \in Nat /\ q[2] \in Nat /\ q[1] <= q[2] /\ q[1]..q[2] \subseteq S
      /\ q[1] - 1 \notin S /\ q[2] + 1 \notin S /\ q = <<q[1], q[2]>>
  BY RangeIs
<1>3. SUFFICES ASSUME q[1] <= r[2] PROVE FALSE BY <1>1, <1>2
<1>4. r[1] = q[1]
  <2>1. SUFFICES ASSUME r[1] < q[1] PROVE FALSE BY <1>1, <1>2
  <2>2. q[1] - 1 \in r[1]..r[2] BY <1>1, <1>2, <1>3, <2>1
  <2> QED BY <1>1, <1>2, <2>2
<1>5. CASE r[2] < q[2]
  <2>1. r[2] + 1 \in q[1]..q[2] BY <1>1, <1>2, <1>3, <1>5
  <2> QED BY <1>1, <1>2, <2>1
<1>6. CASE q[2] < r[2]
  <2>1. q[2] + 1 \in r[1]..r[2] BY <1>1, <1>2, <1>4, <1>6
  <2> QED BY <1>1, <1>2, <2>1
<1>7. CASE r[2] = q[2] BY <1>1, <1>2, <1>4, <1>7
<1> QED BY <1>1, <1>2, <1>5, <1>6, <1>7

\* Every core is in one.
LEMMA RangesCover ==
    ASSUME NEW m \in Nat, NEW S \in SUBSET (0..m), NEW c \in S
    PROVE  \E r \in Ranges(S) : c \in r[1]..r[2]
<1> DEFINE L == {x \in Nat : x <= c /\ x..c \subseteq S}
           H == {y \in Nat : c <= y /\ c..y \subseteq S}
<1>1. c \in L /\ c \in H OBVIOUS
<1>2. PICK lo \in L : \A x \in L : lo <= x
  <2>1. L \in SUBSET Nat /\ L # {} BY <1>1
  <2> HIDE DEF L
  <2> QED BY <2>1, LeastNat
<1>3. PICK hi \in H : \A y \in H : y <= hi
  <2>1. H \in SUBSET Nat /\ H # {} BY <1>1
  <2>2. \A y \in H : y <= m OBVIOUS
  <2> HIDE DEF H
  <2> QED BY <2>1, <2>2, GreatestNat
<1>4. lo..hi \subseteq S
  <2>1. \A x \in lo..hi : x \in lo..c \/ x \in c..hi OBVIOUS
  <2> QED BY <2>1
<1>5. lo - 1 \notin S
  <2>1. SUFFICES ASSUME lo - 1 \in S PROVE FALSE OBVIOUS
  <2>2. lo - 1 \in Nat /\ lo - 1 <= c BY <2>1
  <2>3. \A x \in (lo - 1)..c : x = lo - 1 \/ x \in lo..c BY <2>2
  <2>4. lo - 1 \in L BY <2>1, <2>2, <2>3
  <2> QED BY <1>2, <2>2, <2>4
<1>6. hi + 1 \notin S
  <2>1. SUFFICES ASSUME hi + 1 \in S PROVE FALSE OBVIOUS
  <2>2. \A x \in c..(hi + 1) : x = hi + 1 \/ x \in c..hi OBVIOUS
  <2>3. hi + 1 \in H BY <2>1, <2>2
  <2> QED BY <1>3, <2>3
<1>7. lo \in S /\ hi \in S /\ lo <= hi OBVIOUS
<1>8. <<lo, hi>> \in Ranges(S) BY <1>4, <1>5, <1>6, <1>7 DEF Ranges
<1> QED BY <1>8

LEMMA RangesFinite == ASSUME NEW S, IsFiniteSet(S) PROVE IsFiniteSet(Ranges(S))
<1>1. IsFiniteSet(S \X S) BY FS_Product
<1>2. Ranges(S) \subseteq S \X S BY DEF Ranges
<1> QED BY <1>1, <1>2, FS_Subset

-----------------------------------------------------------------------------
(* The ranges in ascending order.                                          *)

\* How many ranges do not begin after r.
Rank(R, r) == Cardinality({x \in R : x[1] <= r[1]})

LEMMA RankGrows ==
    ASSUME NEW S \in SUBSET Nat, IsFiniteSet(S), NEW r \in Ranges(S), NEW q \in Ranges(S),
           r[1] < q[1]
    PROVE  Rank(Ranges(S), r) < Rank(Ranges(S), q)
<1> DEFINE R == Ranges(S)
           A == {x \in R : x[1] <= r[1]}
           B == {x \in R : x[1] <= q[1]}
<1>1. \A x \in R : x[1] \in Nat BY RangeIs
<1>2. IsFiniteSet(R) BY RangesFinite
<1>3. IsFiniteSet(A) /\ IsFiniteSet(B) BY <1>2, FS_Subset
<1>4. A \subseteq B
  <2>1. r[1] \in Nat /\ q[1] \in Nat BY RangeIs
  <2> HIDE DEF R
  <2> QED BY <1>1, <2>1
<1>5. q \in B /\ q \notin A BY <1>1
<1>6. Cardinality(A) <= Cardinality(B) /\ Cardinality(A) # Cardinality(B)
  <2>1. A \in SUBSET B /\ A # B BY <1>4, <1>5
  <2> HIDE DEF A, B
  <2> QED BY <1>3, <2>1, FS_Subset
<1>7. Cardinality(A) \in Nat /\ Cardinality(B) \in Nat BY <1>3, FS_CardinalityType
<1>8. Cardinality(A) < Cardinality(B)
  <2> HIDE DEF A, B
  <2> QED BY <1>6, <1>7
<1> QED BY <1>8 DEF Rank

LEMMA RankBounds ==
    ASSUME NEW S \in SUBSET Nat, IsFiniteSet(S), NEW r \in Ranges(S)
    PROVE  Rank(Ranges(S), r) \in 1..Cardinality(Ranges(S))
<1> DEFINE R == Ranges(S)
           n == Cardinality(R)
           A == {x \in R : x[1] <= r[1]}
<1>1. IsFiniteSet(R) /\ n \in Nat BY RangesFinite, FS_CardinalityType
<1>2. A \in SUBSET R OBVIOUS
<1>3. r \in A BY RangeIs
<1>4. Cardinality(A) \in 1..n
  <2> HIDE DEF A, R
  <2>1. IsFiniteSet(A) /\ Cardinality(A) <= n BY <1>1, <1>2, FS_Subset
  <2>2. Cardinality(A) \in Nat /\ Cardinality(A) # 0
    BY <1>3, <2>1, FS_CardinalityType, FS_EmptySet
  <2> QED BY <1>1, <2>1, <2>2
<1> QED BY <1>4 DEF Rank

LEMMA RanksDiffer ==
    ASSUME NEW S \in SUBSET Nat, IsFiniteSet(S), NEW r \in Ranges(S), NEW q \in Ranges(S),
           Rank(Ranges(S), r) = Rank(Ranges(S), q)
    PROVE  r = q
<1> DEFINE R == Ranges(S)
<1> SUFFICES ASSUME r # q PROVE FALSE OBVIOUS
<1>1. /\ r[1] \in Nat /\ r[2] \in Nat /\ q[1] \in Nat /\ q[2] \in Nat
      /\ r[1] <= r[2] /\ q[1] <= q[2]
  BY RangeIs
<1>2. r[1] # q[1]
  <2>1. r[1] <= q[1] => r[2] < q[1] BY RangesApart
  <2> QED BY <1>1, <2>1
<1>3. Rank(R, r) \in Int /\ Rank(R, q) \in Int
  <2>1. Cardinality(R) \in Nat BY RangesFinite, FS_CardinalityType
  <2> QED BY <2>1, RankBounds
<1>4. CASE r[1] < q[1]
  <2>1. Rank(R, r) < Rank(R, q) BY <1>4, RankGrows
  <2> HIDE DEF R
  <2> QED BY <1>3, <2>1 DEF R
<1>5. CASE q[1] < r[1]
  <2>1. Rank(R, q) < Rank(R, r) BY <1>5, RankGrows
  <2> HIDE DEF R
  <2> QED BY <1>3, <2>1 DEF R
<1> QED BY <1>1, <1>2, <1>4, <1>5

LEMMA Ranks ==
    ASSUME NEW S \in SUBSET Nat, IsFiniteSet(S), NEW i \in 1..Cardinality(Ranges(S))
    PROVE  \E r \in Ranges(S) : Rank(Ranges(S), r) = i
<1> DEFINE R == Ranges(S)
           n == Cardinality(R)
           f == [r \in R |-> Rank(R, r)]
<1>1. IsFiniteSet(R) /\ n \in Nat BY RangesFinite, FS_CardinalityType
<1>2. \A r \in R : Rank(R, r) \in 1..n BY RankBounds
<1>3. \A r, q \in R : f[r] = f[q] => r = q BY RanksDiffer
<1>4. f \in Surjection(R, 1..n)
  <2>1. f \in Injection(R, 1..n)
    <3>1. f \in [R -> 1..n] BY <1>2
    <3> HIDE DEF f, R
    <3> QED BY <1>3, <3>1 DEF Injection, IsInjective
  <2>2. IsFiniteSet(1..n) /\ Cardinality(1..n) = n
    <3> HIDE DEF n
    <3> QED BY <1>1, FS_Interval
  <2> HIDE DEF f, n
  <2> QED BY <2>1, <2>2, FS_Injection DEF n
<1>5. PICK r \in R : f[r] = i
  <2> HIDE DEF f, R
  <2> QED BY <1>4 DEF Surjection, n, R
<1> QED BY <1>5

LEMMA TokensSeq ==
    ASSUME NEW S \in SUBSET Nat, IsFiniteSet(S)
    PROVE  /\ Cardinality(Ranges(S)) \in Nat
           /\ Tokens(S) \in Seq(Ranges(S)) /\ Len(Tokens(S)) = Cardinality(Ranges(S))
           /\ \A i \in 1..Len(Tokens(S)) : /\ Tokens(S)[i] \in Ranges(S)
                                          /\ Rank(Ranges(S), Tokens(S)[i]) = i
<1> DEFINE R == Ranges(S)
           n == Cardinality(R)
           t == Tokens(S)
<1>1. n \in Nat BY RangesFinite, FS_CardinalityType
<1>2. t = [i \in 1..n |-> CHOOSE r \in R : Rank(R, r) = i] BY DEF Tokens, Rank
<1>3. \A i \in 1..n : t[i] \in R /\ Rank(R, t[i]) = i
  <2> TAKE i \in 1..n
  <2>1. \E r \in R : Rank(R, r) = i BY Ranks
  <2>2. t[i] = CHOOSE r \in R : Rank(R, r) = i BY <1>2
  <2> QED BY <2>1, <2>2
<1>4. t \in Seq(R) /\ Len(t) = n
  <2>1. t \in [1..n -> R]
    <3> HIDE DEF R, n
    <3>1. DOMAIN t = 1..n /\ t = [i \in 1..n |-> t[i]] BY <1>2
    <3> HIDE DEF t
    <3> QED BY <1>3, <3>1
  <2> HIDE DEF t, R, n
  <2> QED BY <1>1, <2>1
<1> HIDE DEF n
<1> QED BY <1>1, <1>3, <1>4 DEF n

\* What the loop over tokens and elements needs: ranges, none of them empty.
IsList(t) == t \in Seq(Nat \X Nat) /\ \A i \in 1..Len(t) : t[i][1] <= t[i][2]

\* The first n of them are ranges of cores of S, in ascending order.
Own(t, n, S) ==
    /\ \A i \in 1..n : t[i][1]..t[i][2] \subseteq S
    /\ \A i, l \in 1..n : i < l => t[i][2] < t[l][1]

LEMMA TokensAreOwn ==
    ASSUME NEW S \in SUBSET Nat, IsFiniteSet(S)
    PROVE  IsList(Tokens(S)) /\ Own(Tokens(S), Len(Tokens(S)), S)
<1> DEFINE R == Ranges(S)
           t == Tokens(S)
<1>1. t \in Seq(R) BY TokensSeq
<1>2. \A i \in 1..Len(t) : t[i] \in R /\ Rank(R, t[i]) = i BY TokensSeq
<1>3. t \in Seq(Nat \X Nat)
  <2>1. R \subseteq Nat \X Nat BY DEF Ranges
  <2> HIDE DEF t, R
  <2> QED BY <1>1, <2>1, SeqMonotonic
<1>4. \A i \in 1..Len(t) : t[i][1] <= t[i][2] /\ t[i][1]..t[i][2] \subseteq S
  <2>1. \A r \in R : r[1] <= r[2] /\ r[1]..r[2] \subseteq S BY RangeIs
  <2> HIDE DEF t, R
  <2> QED BY <1>2, <2>1
<1>5. ASSUME NEW i \in 1..Len(t), NEW l \in 1..Len(t), i < l PROVE t[i][2] < t[l][1]
  <2>1. t[i] \in R /\ t[l] \in R BY <1>2
  <2>2. t[i] # t[l] BY <1>2, <1>5
  <2>3. t[i][1] \in Nat /\ t[l][1] \in Nat BY <2>1, RangeIs
  <2>4. ~ (t[l][1] < t[i][1])
    <3>1. SUFFICES ASSUME t[l][1] < t[i][1] PROVE FALSE OBVIOUS
    <3>2. Rank(R, t[l]) < Rank(R, t[i])
      <4> HIDE DEF t
      <4> QED BY <2>1, <3>1, RankGrows
    <3>3. Rank(R, t[l]) = l /\ Rank(R, t[i]) = i BY <1>2
    <3>4. i \in Int /\ l \in Int BY <1>1
    <3> HIDE DEF t, R
    <3> QED BY <1>5, <3>2, <3>3, <3>4
  <2>5. t[i][1] <= t[l][1] BY <2>3, <2>4
  <2> HIDE DEF t
  <2> QED BY <2>1, <2>2, <2>5, RangesApart
<1> QED BY <1>3, <1>4, <1>5 DEF IsList, Own

LEMMA TokensCover ==
    ASSUME NEW m \in Nat, NEW S \in SUBSET (0..m), NEW c \in S
    PROVE  \E i \in 1..Len(Tokens(S)) : c \in Tokens(S)[i][1]..Tokens(S)[i][2]
<1> DEFINE R == Ranges(S)
           t == Tokens(S)
<1>1. S \in SUBSET Nat /\ IsFiniteSet(S)
  <2>1. IsFiniteSet(0..m) BY FS_Interval
  <2>2. IsFiniteSet(S) BY <2>1, FS_Subset
  <2>3. S \in SUBSET Nat OBVIOUS
  <2> QED BY <2>2, <2>3
<1>2. PICK r \in R : c \in r[1]..r[2] BY RangesCover
<1> DEFINE i == Rank(R, r)
<1>3. i \in 1..Len(t) BY <1>1, RankBounds, TokensSeq
<1>4. t[i] \in R /\ Rank(R, t[i]) = Rank(R, r) BY <1>1, <1>3, TokensSeq
<1>5. t[i] = r
  <2> HIDE DEF t, i
  <2> QED BY <1>1, <1>4, RanksDiffer
<1> HIDE DEF t, i
<1>6. c \in t[i][1]..t[i][2] BY <1>2, <1>5
<1> QED BY <1>3, <1>6 DEF t

-----------------------------------------------------------------------------
(* The text, and what is parsed of it.                                     *)

LEMMA FmtWithRoom ==
    ASSUME NEW S, TextLength(Tokens(S)) < CPU_IDS_SIZE
    PROVE  Fmt(S) = [tokens |-> Tokens(S), comma |-> FALSE]
BY DEF Fmt

\* Without room some ranges are left, and no comma or a part of one more.
LEMMA FmtWithoutRoom ==
    ASSUME NEW S \in SUBSET Nat, IsFiniteSet(S), ~(TextLength(Tokens(S)) < CPU_IDS_SIZE)
    PROVE  \E n \in 0..(Len(Tokens(S)) - 1) : \E m :
              \/ Fmt(S) = [tokens |-> SubSeq(Tokens(S), 1, n), comma |-> TRUE]
              \/ Fmt(S) = [tokens |-> Append(SubSeq(Tokens(S), 1, n), Left(Tokens(S)[n + 1], m)),
                           comma  |-> FALSE]
<1> DEFINE t == Tokens(S)
           room == CPU_IDS_SIZE - 2
           fits == {n \in 0..Len(t) : TextLength(SubSeq(t, 1, n)) <= room}
           most == CHOOSE n \in fits : \A m \in fits : m <= n
           whole == SubSeq(t, 1, most)
           left == room - TextLength(whole)
<1>1. t \in Seq(Nat \X Nat) /\ Len(t) \in Nat
  <2>1. IsList(t) BY TokensAreOwn
  <2> QED BY <2>1 DEF IsList
<1>2. Fmt(S) = IF left = 0 THEN [tokens |-> whole, comma |-> TRUE]
               ELSE [tokens |-> Append(whole, Left(t[most + 1], left)), comma |-> FALSE]
  BY DEF Fmt
<1>3. ~(TextLength(t) < CPU_IDS_SIZE) OBVIOUS
<1> HIDE DEF t
<1>4. room \in Nat /\ ~(room >= CPU_IDS_SIZE) BY SizeAssumption
<1>5. 0 \in fits
  <2>1. SubSeq(t, 1, 0) = <<>> BY SubSeqEmpty
  <2>2. TextLength(<<>>) = 0
    <3>1. DOMAIN [i \in DOMAIN <<>> |-> Chars(<<>>[i])] = {} OBVIOUS
    <3> QED BY <3>1, SumEmpty, Zenon DEF TextLength, SumFunction
  <2>3. TextLength(SubSeq(t, 1, 0)) = 0 BY <2>1, <2>2, Zenon
  <2> QED BY <1>1, <1>4, <2>3
<1>6. most \in fits
  <2>1. fits \in SUBSET Nat /\ fits # {} /\ \A n \in fits : n <= Len(t) BY <1>1, <1>5
  <2> HIDE DEF fits
  <2>2. \E n \in fits : \A m \in fits : m <= n BY <1>1, <2>1, GreatestNat
  <2> QED BY <2>2
<1>7. Len(t) \notin fits
  <2>1. SUFFICES ASSUME TextLength(SubSeq(t, 1, Len(t))) <= room PROVE FALSE OBVIOUS
  <2>2. SubSeq(t, 1, Len(t)) = t BY <1>1, SubSeqFull
  <2>3. TextLength(SubSeq(t, 1, Len(t))) = TextLength(t) BY <2>2, Zenon
  <2>4. TextLength(t) \in Int
    <3> DEFINE f == [i \in DOMAIN t |-> Chars(t[i])]
    <3>1. \A i \in 1..Len(t) : f[i] \in Int BY <1>1 DEF Chars, Digits
    <3>2. DOMAIN f = 1..Len(t) /\ IsFiniteSet(1..Len(t)) BY <1>1, FS_Interval
    <3> HIDE DEF f
    <3>3. SumFunctionOnSet(f, DOMAIN f) \in Int BY <3>1, <3>2, SumInt
    <3> QED BY <3>3 DEF TextLength, SumFunction, f
  <2> QED BY <1>3, <2>1, <2>3, <2>4, SizeAssumption
<1>8. most \in 0..(Len(t) - 1)
  <2>1. most \in 0..Len(t) /\ most # Len(t) BY <1>6, <1>7
  <2> HIDE DEF most
  <2> QED BY <1>1, <2>1
<1> HIDE DEF most, left
<1> QED BY <1>2, <1>8, Zenon DEF t

\* The first digits of a number are no larger number.
LEMMA FirstDigitsOf == ASSUME NEW n \in Nat, NEW d PROVE FirstDigits(n, d) \in 0..n
<1>1. n \div 10 \in 0..n /\ n \div 100 \in 0..n OBVIOUS
<1> QED BY <1>1 DEF FirstDigits

\* A token that is cut is read as a front part of its range, or as one number that is
\* not above it.
LEMMA LeftOf ==
    ASSUME NEW r \in Nat \X Nat, r[1] <= r[2], NEW m, NEW v, v = Value(Left(r, m))
    PROVE  /\ v \in Nat \X Nat /\ v[1] <= v[2]
           /\ \/ v[1] = r[1] /\ v[2] <= r[2]
              \/ v[1] = v[2] /\ v[1] <= r[1]
<1>1. r[1] \in Nat /\ r[2] \in Nat OBVIOUS
<1>2. CASE m <= Digits(r[1])
  <2> DEFINE c == FirstDigits(r[1], m)
  <2>1. c \in 0..r[1] BY <1>1, FirstDigitsOf
  <2>2. Left(r, m) = <<c, c>> BY <1>2 DEF Left
  <2> HIDE DEF c
  <2>3. v = <<c, c>> BY <2>1, <2>2 DEF Value
  <2> QED BY <1>1, <2>1, <2>3
<1>3. CASE ~(m <= Digits(r[1]))
  <2> DEFINE e == FirstDigits(r[2], m - Digits(r[1]) - 1)
  <2>1. e \in 0..r[2] BY <1>1, FirstDigitsOf
  <2>2. Left(r, m) = <<r[1], e>> BY <1>3 DEF Left
  <2> HIDE DEF e
  <2>3. v = IF r[1] < e THEN <<r[1], e>> ELSE <<r[1], r[1]>> BY <2>2 DEF Value
  <2> QED BY <1>1, <2>1, <2>3
<1> QED BY <1>2, <1>3

LEMMA ValueOfRange == ASSUME NEW r \in Nat \X Nat, r[1] <= r[2] PROVE Value(r) = r
BY DEF Value

\* What is parsed of a text without a comma at its end: ranges of cores of S, or all
\* but the last, and that is one number not above a core of S.
Readable(v, S) ==
    \/ Own(v, Len(v), S)
    \/ /\ Own(v, Len(v) - 1, S)
       /\ v[Len(v)][1] = v[Len(v)][2] /\ \E x \in S : v[Len(v)][1] <= x

LEMMA ParsedWhole ==
    ASSUME NEW S \in SUBSET Nat, IsFiniteSet(S) PROVE Values(Tokens(S)) = Tokens(S)
<1> DEFINE t == Tokens(S)
<1>1. IsList(t) BY TokensAreOwn
<1> HIDE DEF t
<1>2. t \in Seq(Nat \X Nat) /\ \A i \in DOMAIN t : t[i] \in Nat \X Nat /\ t[i][1] <= t[i][2]
  BY <1>1 DEF IsList
<1>3. \A i \in DOMAIN t : Value(t[i]) = t[i] BY <1>2, ValueOfRange
<1>4. t = [i \in DOMAIN t |-> t[i]] BY <1>2
<1>5. Values(t) = t BY <1>3, <1>4 DEF Values
<1> QED BY <1>5 DEF t

LEMMA ParsedOf ==
    ASSUME NEW S \in SUBSET Nat, IsFiniteSet(S), NEW v, v = Values(Fmt(S).tokens)
    PROVE  /\ IsList(v)
           /\ Fmt(S).tokens # <<>> => v # <<>>
           /\ ~Fmt(S).comma => Readable(v, S)
           /\ TextLength(Tokens(S)) < CPU_IDS_SIZE => ~Fmt(S).comma /\ v = Tokens(S)
<1> DEFINE t == Tokens(S)
<1>1. IsList(t) /\ Own(t, Len(t), S) BY TokensAreOwn
<1>2. CASE TextLength(t) < CPU_IDS_SIZE
  <2>1. Fmt(S) = [tokens |-> t, comma |-> FALSE] BY <1>2, FmtWithRoom
  <2>2. v = t /\ Fmt(S).tokens = v /\ ~Fmt(S).comma BY <2>1, ParsedWhole
  <2> HIDE DEF t
  <2> QED BY <1>1, <2>2 DEF Readable, t
<1>3. CASE ~(TextLength(t) < CPU_IDS_SIZE)
  <2>0. PICK n \in 0..(Len(t) - 1) : \E m :
           \/ Fmt(S) = [tokens |-> SubSeq(t, 1, n), comma |-> TRUE]
           \/ Fmt(S) = [tokens |-> Append(SubSeq(t, 1, n), Left(t[n + 1], m)), comma |-> FALSE]
    BY <1>3, FmtWithoutRoom
  <2>1. PICK m :
           \/ Fmt(S) = [tokens |-> SubSeq(t, 1, n), comma |-> TRUE]
           \/ Fmt(S) = [tokens |-> Append(SubSeq(t, 1, n), Left(t[n + 1], m)), comma |-> FALSE]
    BY <2>0
  <2> HIDE DEF t
  <2> DEFINE w == SubSeq(t, 1, n)
             l == Left(t[n + 1], m)
             x == Value(l)
  <2>2. /\ t \in Seq(Nat \X Nat) /\ Len(t) \in Nat
        /\ \A i \in 1..Len(t) : t[i] \in Nat \X Nat /\ t[i][1] <= t[i][2]
    BY <1>1 DEF IsList
  <2>3. n + 1 \in 1..Len(t) /\ 1..n \subseteq 1..Len(t) BY <2>2
  <2>4. /\ w \in Seq(Nat \X Nat) /\ Len(w) = n /\ DOMAIN w = 1..n
        /\ \A i \in 1..n : w[i] = t[i] /\ Value(w[i]) = t[i]
    <3>1. /\ w \in Seq(Nat \X Nat) /\ Len(w) = n /\ DOMAIN w = 1..n
          /\ \A i \in 1..n : w[i] = t[i]
      BY <2>2, <2>3
    <3> HIDE DEF w
    <3> QED BY <2>2, <2>3, <3>1, ValueOfRange
  <2>5. /\ x \in Nat \X Nat /\ x[1] <= x[2]
        /\ \/ x[1] = t[n + 1][1] /\ x[2] <= t[n + 1][2]
           \/ x[1] = x[2] /\ x[1] <= t[n + 1][1]
    BY <2>2, <2>3, LeftOf
  <2> HIDE DEF w, l
  <2>6. CASE Fmt(S) = [tokens |-> w, comma |-> TRUE]
    <3>1. v = Values(w) /\ Fmt(S).tokens = w /\ Fmt(S).comma BY <2>6
    <3>2. v = w
      <4>1. w = [i \in DOMAIN w |-> w[i]] BY <2>4
      <4> QED BY <2>4, <3>1, <4>1 DEF Values
    <3>3. IsList(v) BY <2>2, <2>3, <2>4, <3>2 DEF IsList
    <3> QED BY <1>3, <3>1, <3>2, <3>3 DEF t
  <2>7. CASE Fmt(S) = [tokens |-> Append(w, l), comma |-> FALSE]
    <3>1. v = Values(Append(w, l)) /\ Fmt(S).comma = FALSE BY <2>7
    <3>2. v = [i \in 1..(n + 1) |-> IF i = n + 1 THEN x ELSE w[i]]
      <4>1. /\ DOMAIN Append(w, l) = 1..(n + 1) /\ Append(w, l)[n + 1] = l
            /\ \A i \in 1..n : Append(w, l)[i] = t[i]
        BY <2>4
      <4>2. v = [i \in 1..(n + 1) |-> Value(Append(w, l)[i])] BY <3>1, <4>1 DEF Values
      <4>3. \A i \in 1..(n + 1) : i = n + 1 \/ i \in 1..n OBVIOUS
      <4>4. \A i \in 1..(n + 1) :
               Value(Append(w, l)[i]) = IF i = n + 1 THEN x ELSE w[i]
        BY <2>2, <2>3, <2>4, <4>1, <4>3, ValueOfRange
      <4> HIDE DEF x
      <4> QED BY <4>2, <4>4
    <3> HIDE DEF x
    <3>3. /\ v \in Seq(Nat \X Nat) /\ Len(v) = n + 1 /\ v[n + 1] = x
          /\ \A i \in 1..n : v[i] = t[i]
      <4>1. \A i \in 1..(n + 1) : i # n + 1 => i \in 1..n OBVIOUS
      <4>2. v \in [1..(n + 1) -> Nat \X Nat] BY <2>2, <2>3, <2>4, <2>5, <3>2, <4>1
      <4>3. v \in Seq(Nat \X Nat) /\ Len(v) = n + 1 BY <4>2
      <4> QED BY <2>4, <3>2, <4>3
    <3>4. \A i \in 1..(n + 1) : i = n + 1 \/ i \in 1..n OBVIOUS
    <3>5. IsList(v) BY <2>2, <2>3, <2>5, <3>3, <3>4 DEF IsList
    <3>6. Own(v, n, S) BY <1>1, <2>3, <3>3 DEF Own
    <3>7. Readable(v, S)
      <4>1. t[n + 1][1]..t[n + 1][2] \subseteq S /\ t[n + 1] \in Nat \X Nat
            /\ t[n + 1][1] <= t[n + 1][2]
        BY <1>1, <2>2, <2>3 DEF Own
      <4>2. CASE x[1] = t[n + 1][1] /\ x[2] <= t[n + 1][2]
        <5>1. x[1]..x[2] \subseteq S BY <2>5, <4>1, <4>2
        <5>2. \A i \in 1..n : t[i][2] < x[1] BY <1>1, <2>3, <4>2 DEF Own
        <5>3. Own(v, n + 1, S)
          <6>1. \A i \in 1..(n + 1) : v[i][1]..v[i][2] \subseteq S
            BY <3>3, <3>4, <3>6, <5>1 DEF Own
          <6>2. ASSUME NEW i \in 1..(n + 1), NEW y \in 1..(n + 1), i < y
                PROVE  v[i][2] < v[y][1]
            <7>1. i \in 1..n BY <3>4, <6>2
            <7> QED BY <3>3, <3>4, <3>6, <5>2, <6>2, <7>1 DEF Own
          <6> QED BY <6>1, <6>2 DEF Own
        <5> QED BY <3>3, <5>3 DEF Readable
      <4>3. CASE x[1] = x[2] /\ x[1] <= t[n + 1][1]
        <5>1. t[n + 1][1] \in S BY <4>1
        <5>2. Own(v, Len(v) - 1, S)
          <6>1. Len(v) - 1 = n BY <3>3
          <6> QED BY <3>6, <6>1, Zenon
        <5> QED BY <3>3, <4>3, <5>1, <5>2 DEF Readable
      <4> QED BY <2>5, <4>2, <4>3
    <3>8. v # <<>>
      <4>1. Len(v) # 0 BY <2>2, <2>3, <3>3
      <4> QED BY <4>1, EmptySeq
    <3> QED BY <1>3, <3>1, <3>5, <3>7, <3>8 DEF t
  <2> QED BY <2>1, <2>6, <2>7 DEF w, l
<1> QED BY <1>2, <1>3

-----------------------------------------------------------------------------
(* The inductive invariant.                                                *)

Sizes(t) == [i \in DOMAIN t |-> SizeOf(t[i])]
Before(t, i) == SumFunctionOnSet(Sizes(t), 1..i)

TypeInv ==
    /\ a \in Allocations /\ Len(hw) = a.cores[a.node + 1]
    /\ pc \in {"prolog", "parse", "failed", "flatten", "count", "done"}
    /\ j \in Nat /\ k \in Nat
    /\ indexes \in Seq(Nat)
    /\ utilized \in [Sockets -> Nat]

\* The text is that of the prolog, and what is parsed of it can be read.
TextInv ==
    /\ text \in {NoText, Fmt(Local)}
    /\ IsList(parsed)
    /\ pc \in {"prolog", "parse"} => parsed = <<>> /\ j = 1 /\ k = 0
    /\ pc \in {"flatten", "count", "done"} => parsed # <<>>
    /\ parsed = <<>> => indexes = <<>>
    /\ parsed # <<>> /\ ~text.comma => Readable(parsed, Local)
    /\ parsed # <<>> /\ Whole => ~text.comma /\ parsed = Tokens(Local)

\* The position of the loop: as many indexes as there are elements before it.
PositionInv ==
    pc = "flatten" =>
        /\ j \in 1..(Len(parsed) + 1)
        /\ IF j <= Len(parsed) THEN k < SizeOf(parsed[j]) ELSE k = 0
        /\ Len(indexes) = Before(parsed, j - 1) + k

\* Each index is the element of a token that its position says.
IsElement(t, i, v) ==
    \E m \in 1..Len(t) : /\ Before(t, m - 1) < i /\ i <= Before(t, m)
                          /\ v = t[m][1] + (i - Before(t, m - 1) - 1)
Elements(t, q) == \A i \in 1..Len(q) : IsElement(t, i, q[i])

IndexesInv ==
    /\ Elements(parsed, indexes)
    /\ pc \in {"count", "done"} => Len(indexes) = Before(parsed, Len(parsed))

Ascending(q) == \A i, l \in 1..Len(q) : i < l => q[i] < q[l]

\* The cores among the first n indexes that lie on socket s of the topology.
SocketOf(h, c) == IF h[c + 1] = NoSocket THEN 0 ELSE h[c + 1]
Counted(h, q, n, s) == {c \in {q[i] : i \in 1..n} : SocketOf(h, c) = s}

CountInv ==
    /\ pc \in {"count", "done"} => k <= Len(indexes)
    /\ pc = "done" => k = Len(indexes)
    /\ Whole => IF pc \in {"count", "done"}
                THEN \A s \in Sockets : utilized[s] = Cardinality(Counted(hw, indexes, k, s))
                ELSE utilized = [s \in Sockets |-> 0]

CoresInv == TypeInv /\ TextInv /\ PositionInv /\ IndexesInv /\ CountInv

-----------------------------------------------------------------------------
(* The elements before a position.                                         *)

LEMMA SizesOf ==
    ASSUME NEW t, IsList(t)
    PROVE  /\ Len(t) \in Nat /\ DOMAIN Sizes(t) = 1..Len(t)
           /\ \A i \in 1..Len(t) : /\ t[i][1] \in Nat /\ t[i][2] \in Nat
                                   /\ Sizes(t)[i] = SizeOf(t[i])
                                   /\ SizeOf(t[i]) \in Nat \ {0}
                                   /\ SizeOf(t[i]) = t[i][2] - t[i][1] + 1
<1>1. t \in Seq(Nat \X Nat) BY DEF IsList
<1>2. Len(t) \in Nat /\ DOMAIN t = 1..Len(t) BY <1>1
<1>3. \A i \in 1..Len(t) : t[i] \in Nat \X Nat BY <1>1
<1>4. \A i \in 1..Len(t) : t[i][1] \in Nat /\ t[i][2] \in Nat /\ t[i][1] <= t[i][2]
  BY <1>3 DEF IsList
<1> QED BY <1>2, <1>4 DEF Sizes, SizeOf

LEMMA BeforeNat ==
    ASSUME NEW t, IsList(t), NEW l \in 0..Len(t), NEW i \in 0..l
    PROVE  /\ Before(t, i) \in Nat /\ Before(t, l) \in Nat
           /\ Before(t, i) <= Before(t, l)
<1>1. Len(t) \in Nat /\ \A x \in 1..Len(t) : Sizes(t)[x] \in Nat BY SizesOf
<1>2. 1..i \in SUBSET (1..l) /\ 1..l \in SUBSET (1..Len(t)) BY <1>1
<1>3. IsFiniteSet(1..i) /\ IsFiniteSet(1..l) BY <1>1, FS_Interval
<1>4. \A x \in 1..l : Sizes(t)[x] \in Nat BY <1>1, <1>2
<1>5. Before(t, i) \in Nat
  <2>1. \A x \in 1..i : Sizes(t)[x] \in Nat BY <1>2, <1>4
  <2> QED BY <1>3, <2>1, SumNat DEF Before
<1>6. Before(t, l) \in Nat BY <1>3, <1>4, SumNat DEF Before
<1>7. Before(t, i) <= Before(t, l) BY <1>2, <1>3, <1>4, SumGrows DEF Before
<1> QED BY <1>5, <1>6, <1>7

LEMMA BeforeNext ==
    ASSUME NEW t, IsList(t), NEW i \in 1..Len(t)
    PROVE  Before(t, i) = Before(t, i - 1) + SizeOf(t[i])
<1>1. /\ Len(t) \in Nat
      /\ \A x \in 1..Len(t) : Sizes(t)[x] \in Nat /\ Sizes(t)[x] = SizeOf(t[x])
  BY SizesOf
<1>2. 1..i = (1..(i - 1)) \union {i} BY <1>1
<1>3. IsFiniteSet(1..(i - 1)) BY FS_Interval
<1>4. \A x \in (1..(i - 1)) \union {i} : Sizes(t)[x] \in Int BY <1>1, <1>2
<1>5. i \notin 1..(i - 1) OBVIOUS
<1>6. SumFunctionOnSet(Sizes(t), (1..(i - 1)) \union {i})
         = SumFunctionOnSet(Sizes(t), 1..(i - 1)) + Sizes(t)[i]
  BY <1>3, <1>4, <1>5, SumAdd
<1>7. Before(t, i) = Before(t, i - 1) + Sizes(t)[i]
  BY <1>2, <1>6, Zenon DEF Before
<1> QED BY <1>1, <1>7

LEMMA BeforeFirst == ASSUME NEW t PROVE Before(t, 0) = 0
<1>1. 1..0 = {} OBVIOUS
<1> QED BY <1>1, SumEmpty, Zenon DEF Before

LEMMA BeforeLast ==
    ASSUME IsList(parsed) PROVE TotalSize = Before(parsed, Len(parsed))
<1>1. DOMAIN Sizes(parsed) = 1..Len(parsed) BY SizesOf
<1>2. TotalSize = SumFunctionOnSet(Sizes(parsed), DOMAIN Sizes(parsed))
  BY Zenon DEF TotalSize, Sizes, SumFunction
<1> QED BY <1>1, <1>2, Zenon DEF Before

\* The i-th element is in one token only, and that is found by counting.
LEMMA ElementOf ==
    ASSUME NEW t, IsList(t), NEW i \in Nat, NEW m \in 1..Len(t), NEW l \in 1..Len(t),
           Before(t, m - 1) < i, i <= Before(t, m)
    PROVE  /\ i <= Before(t, l) => m <= l
           /\ Before(t, l - 1) < i => l <= m
           /\ t[m][1] + (i - Before(t, m - 1) - 1) \in t[m][1]..t[m][2]
<1>1. Len(t) \in Nat BY SizesOf
<1>2. /\ m \in 0..Len(t) /\ m - 1 \in 0..m /\ m - 1 \in 0..Len(t)
      /\ l \in 0..Len(t) /\ l - 1 \in 0..l /\ l - 1 \in 0..Len(t)
  BY <1>1
<1>3. /\ Before(t, m) \in Nat /\ Before(t, m - 1) \in Nat
      /\ Before(t, l) \in Nat /\ Before(t, l - 1) \in Nat
  BY <1>2, BeforeNat
<1>4. i <= Before(t, l) => m <= l
  <2>1. SUFFICES ASSUME i <= Before(t, l), ~(m <= l) PROVE FALSE OBVIOUS
  <2>2. l \in 0..(m - 1) BY <1>1, <2>1
  <2>3. Before(t, l) <= Before(t, m - 1) BY <1>2, <2>2, BeforeNat
  <2> QED BY <1>3, <2>1, <2>3
<1>5. Before(t, l - 1) < i => l <= m
  <2>1. SUFFICES ASSUME Before(t, l - 1) < i, ~(l <= m) PROVE FALSE OBVIOUS
  <2>2. m \in 0..(l - 1) BY <1>1, <2>1
  <2>3. Before(t, m) <= Before(t, l - 1) BY <1>2, <2>2, BeforeNat
  <2> QED BY <1>3, <2>1, <2>3
<1>6. t[m][1] + (i - Before(t, m - 1) - 1) \in t[m][1]..t[m][2]
  <2>1. Before(t, m) = Before(t, m - 1) + SizeOf(t[m]) BY BeforeNext
  <2>2. /\ t[m][1] \in Nat /\ t[m][2] \in Nat
        /\ SizeOf(t[m]) = t[m][2] - t[m][1] + 1
    BY SizesOf
  <2>3. \A x, y, b, e \in Nat : b < i /\ i <= e /\ e = b + (y - x + 1)
                                => x + (i - b - 1) \in x..y
    OBVIOUS
  <2>4. Before(t, m) = Before(t, m - 1) + (t[m][2] - t[m][1] + 1) BY <2>1, <2>2
  <2> QED BY <1>3, <2>2, <2>3, <2>4
<1> QED BY <1>4, <1>5, <1>6

\* The elements of the first n tokens ascend and are cores of S, if the tokens do and are.
LEMMA OwnElements ==
    ASSUME NEW t, IsList(t), NEW n \in 0..Len(t), NEW S, Own(t, n, S),
           NEW q, \A i \in 1..Before(t, n) : IsElement(t, i, q[i])
    PROVE  /\ \A x \in 1..Before(t, n) : q[x] \in S /\ q[x] \in Nat
           /\ \A x, y \in 1..Before(t, n) : x < y => q[x] < q[y]
<1>1. /\ Len(t) \in Nat
      /\ \A m \in 1..Len(t) : t[m][1] \in Nat /\ t[m][2] \in Nat
  BY SizesOf
<1>2. Before(t, n) \in Nat
  <2>1. n \in 0..n BY <1>1
  <2> QED BY <2>1, BeforeNat
<1>3. ASSUME NEW x \in 1..Before(t, n)
      PROVE  \E m \in 1..n : /\ Before(t, m - 1) < x /\ x <= Before(t, m)
                              /\ q[x] = t[m][1] + (x - Before(t, m - 1) - 1)
                              /\ q[x] \in t[m][1]..t[m][2]
  <2>1. PICK m \in 1..Len(t) : /\ Before(t, m - 1) < x /\ x <= Before(t, m)
                               /\ q[x] = t[m][1] + (x - Before(t, m - 1) - 1)
    BY DEF IsElement
  <2>2. x \in Nat /\ x <= Before(t, n) BY <1>2
  <2>3. n \in 1..Len(t)
    <3>1. n # 0
      <4>1. SUFFICES ASSUME n = 0 PROVE FALSE OBVIOUS
      <4>2. Before(t, n) = 0 BY <4>1, BeforeFirst, Zenon
      <4> QED BY <2>2, <4>2
    <3> QED BY <1>1, <3>1
  <2>4. m <= n /\ q[x] \in t[m][1]..t[m][2] BY <2>1, <2>2, <2>3, ElementOf
  <2>5. m \in 1..n BY <1>1, <2>4
  <2> QED BY <2>1, <2>4, <2>5
<1>4. 1..n \subseteq 1..Len(t) BY <1>1
<1>5. ASSUME NEW x \in 1..Before(t, n) PROVE q[x] \in S /\ q[x] \in Nat
  <2>1. PICK m \in 1..n : q[x] \in t[m][1]..t[m][2] BY <1>3
  <2> QED BY <1>1, <1>4, <2>1 DEF Own
<1>6. ASSUME NEW x \in 1..Before(t, n), NEW y \in 1..Before(t, n), x < y PROVE q[x] < q[y]
  <2>1. PICK m \in 1..n : /\ Before(t, m - 1) < x /\ x <= Before(t, m)
                          /\ q[x] = t[m][1] + (x - Before(t, m - 1) - 1)
                          /\ q[x] \in t[m][1]..t[m][2]
    BY <1>3
  <2>2. PICK l \in 1..n : /\ Before(t, l - 1) < y /\ y <= Before(t, l)
                          /\ q[y] = t[l][1] + (y - Before(t, l - 1) - 1)
                          /\ q[y] \in t[l][1]..t[l][2]
    BY <1>3
  <2>3. m \in 1..Len(t) /\ l \in 1..Len(t) BY <1>4
  <2>4. /\ Before(t, m - 1) \in Nat /\ Before(t, l - 1) \in Nat
        /\ Before(t, m) \in Nat /\ Before(t, l) \in Nat
    <3>1. /\ m \in 0..Len(t) /\ m - 1 \in 0..m
          /\ l \in 0..Len(t) /\ l - 1 \in 0..l
      BY <1>1, <2>3
    <3> QED BY <3>1, BeforeNat
  <2>5. x \in Nat /\ y \in Nat BY <1>2
  <2>6. m <= l
    <3>1. x <= Before(t, l) BY <1>6, <2>2, <2>4, <2>5
    <3> QED BY <2>1, <2>3, <2>5, <3>1, ElementOf
  <2>7. CASE m = l
    <3>1. t[m][1] \in Nat BY <1>1, <2>3
    <3> QED BY <1>6, <2>1, <2>2, <2>4, <2>5, <2>7, <3>1
  <2>8. CASE m # l
    <3>1. m < l BY <2>6, <2>8, <1>1
    <3>2. t[m][2] < t[l][1] BY <3>1 DEF Own
    <3>3. /\ t[m][1] \in Nat /\ t[m][2] \in Nat /\ t[l][1] \in Nat /\ t[l][2] \in Nat
      BY <1>1, <2>3
    <3> QED BY <2>1, <2>2, <3>2, <3>3
  <2> QED BY <2>7, <2>8
<1> QED BY <1>5, <1>6

\* Every core of a token is an element.
LEMMA ElementsCover ==
    ASSUME NEW t, IsList(t), NEW q, \A i \in 1..Before(t, Len(t)) : IsElement(t, i, q[i]),
           NEW m \in 1..Len(t), NEW c \in t[m][1]..t[m][2]
    PROVE  \E i \in 1..Before(t, Len(t)) : q[i] = c
<1> DEFINE i == Before(t, m - 1) + (c - t[m][1]) + 1
<1>1. /\ Len(t) \in Nat /\ t[m][1] \in Nat /\ t[m][2] \in Nat
      /\ SizeOf(t[m]) = t[m][2] - t[m][1] + 1
  BY SizesOf
<1>2. /\ Before(t, m) \in Nat /\ Before(t, m - 1) \in Nat /\ Before(t, Len(t)) \in Nat
      /\ Before(t, m) <= Before(t, Len(t))
      /\ Before(t, m) = Before(t, m - 1) + SizeOf(t[m])
  <2>1. m \in 0..Len(t) /\ m - 1 \in 0..m /\ Len(t) \in 0..Len(t) BY <1>1
  <2> QED BY <2>1, BeforeNat, BeforeNext
<1>3. /\ i \in Nat /\ Before(t, m - 1) < i /\ i <= Before(t, m)
      /\ i \in 1..Before(t, Len(t))
  <2>1. \A x, y, b, e, n \in Nat : c \in x..y /\ e = b + (y - x + 1) /\ e <= n
           => b + (c - x) + 1 \in 1..n /\ b < b + (c - x) + 1 /\ b + (c - x) + 1 <= e
    OBVIOUS
  <2>2. Before(t, m) = Before(t, m - 1) + (t[m][2] - t[m][1] + 1) BY <1>1, <1>2
  <2>3. /\ i \in 1..Before(t, Len(t)) /\ Before(t, m - 1) < i /\ i <= Before(t, m)
    BY <1>1, <1>2, <2>1, <2>2
  <2> QED BY <1>2, <2>3
<1>4. PICK l \in 1..Len(t) : /\ Before(t, l - 1) < i /\ i <= Before(t, l)
                             /\ q[i] = t[l][1] + (i - Before(t, l - 1) - 1)
  BY <1>3 DEF IsElement
<1>5. l = m
  <2>1. l <= m /\ m <= l
    <3> HIDE DEF i
    <3> QED BY <1>3, <1>4, ElementOf
  <2> QED BY <1>1, <2>1
<1>6. q[i] = c
  <2>1. q[i] = t[m][1] + (i - Before(t, m - 1) - 1) BY <1>4, <1>5
  <2> QED BY <1>1, <1>2, <2>1
<1> HIDE DEF i
<1> QED BY <1>3, <1>6

-----------------------------------------------------------------------------
(* The cores of this node.                                                 *)

LEMMA PrefixNext ==
    ASSUME NEW c \in Seq(Nat), NEW n \in 0..(Len(c) - 1)
    PROVE  /\ SumFunctionOnSet(c, 1..n) \in Nat /\ c[n + 1] \in Nat
           /\ SumFunctionOnSet(c, 1..(n + 1)) = SumFunctionOnSet(c, 1..n) + c[n + 1]
<1> DEFINE d == n + 1
<1>1. \A i \in 1..d : c[i] \in Nat OBVIOUS
<1>2. IsFiniteSet(1..n) BY FS_Interval
<1>3. 1..d = (1..n) \union {d} /\ d \notin 1..n OBVIOUS
<1> HIDE DEF d
<1>4. SumFunctionOnSet(c, (1..n) \union {d}) = SumFunctionOnSet(c, 1..n) + c[d]
  <2>1. \A i \in (1..n) \union {d} : c[i] \in Int BY <1>1, <1>3
  <2> QED BY <1>2, <1>3, <2>1, SumAdd
<1>5. SumFunctionOnSet(c, 1..d) = SumFunctionOnSet(c, 1..n) + c[d]
  BY <1>3, <1>4, Zenon
<1>6. SumFunctionOnSet(c, 1..n) \in Nat
  <2>1. \A i \in 1..n : c[i] \in Nat BY <1>1, <1>3
  <2> QED BY <1>2, <2>1, SumNat
<1>7. c[d] \in Nat BY <1>1, <1>3
<1> QED BY <1>5, <1>6, <1>7, Zenon DEF d

LEMMA OffsetNext ==
    ASSUME a \in Allocations
    PROVE  /\ Offset(a.node) \in Nat /\ a.cores[a.node + 1] \in Nat
           /\ Offset(a.node + 1) = Offset(a.node) + a.cores[a.node + 1]
<1>1. a.cores \in Seq(Nat) /\ a.node \in 0..(Len(a.cores) - 1) BY BitsAssumption
<1> QED BY <1>1, PrefixNext DEF Offset

LEMMA LocalIsCores ==
    ASSUME a \in Allocations, Len(hw) = a.cores[a.node + 1]
    PROVE  /\ Local \subseteq Cores /\ Local \in SUBSET Nat /\ IsFiniteSet(Local)
           /\ CoreCount \in Nat /\ Local \in SUBSET (0..CoreCount)
           /\ IsFiniteSet(Cores)
<1> DEFINE o == Offset(a.node)
           e == Offset(a.node + 1)
<1>1. o \in Nat /\ e = o + CoreCount /\ CoreCount \in Nat BY OffsetNext DEF CoreCount
<1>2. \A b \in a.bits : b \in Nat BY BitsAssumption
<1>3. Local = {b - o : b \in a.bits \intersect o..(e - 1)} BY DEF Local
<1> HIDE DEF o, e
<1>4. \A b \in a.bits \intersect o..(e - 1) : b - o \in 0..(CoreCount - 1)
  BY <1>1, <1>2
<1>5. Local \subseteq Cores BY <1>3, <1>4 DEF Cores
<1>6. Cores \subseteq 0..CoreCount /\ Cores \subseteq Nat BY <1>1 DEF Cores
<1>7. IsFiniteSet(Cores) BY <1>1, FS_Interval DEF Cores
<1>8. IsFiniteSet(Local) BY <1>5, <1>7, FS_Subset
<1> QED BY <1>1, <1>5, <1>6, <1>7, <1>8

-----------------------------------------------------------------------------
(* What one more index changes.                                            *)

LEMMA AppendElement ==
    ASSUME NEW t, NEW q \in Seq(Nat), NEW v \in Nat, Elements(t, q), IsElement(t, Len(q) + 1, v)
    PROVE  /\ Append(q, v) \in Seq(Nat) /\ Len(Append(q, v)) = Len(q) + 1
           /\ Elements(t, Append(q, v))
<1> DEFINE p == Append(q, v)
<1>1. /\ p \in Seq(Nat) /\ Len(p) = Len(q) + 1 /\ Len(q) \in Nat
      /\ p[Len(q) + 1] = v /\ \A i \in 1..Len(q) : p[i] = q[i]
  OBVIOUS
<1> HIDE DEF p
<1>2. \A i \in 1..Len(p) : i = Len(q) + 1 \/ i \in 1..Len(q) BY <1>1
<1>3. Elements(t, p)
  <2>1. SUFFICES ASSUME NEW i \in 1..Len(p) PROVE IsElement(t, i, p[i]) BY DEF Elements
  <2>2. CASE i = Len(q) + 1
    <3>1. p[i] = v BY <1>1, <2>2
    <3> QED BY <2>2, <3>1, Zenon
  <2>3. CASE i \in 1..Len(q)
    <3>1. p[i] = q[i] /\ IsElement(t, i, q[i]) BY <1>1, <2>3 DEF Elements
    <3> QED BY <3>1, Zenon
  <2> QED BY <1>2, <2>2, <2>3
<1> QED BY <1>1, <1>3 DEF p

LEMMA CountedNext ==
    ASSUME NEW q \in Seq(Nat), Ascending(q), NEW n \in Nat, n < Len(q),
           NEW h, NEW s
    PROVE  Cardinality(Counted(h, q, n + 1, s))
              = Cardinality(Counted(h, q, n, s)) + IF SocketOf(h, q[n + 1]) = s THEN 1 ELSE 0
<1> DEFINE v == q[n + 1]
           C == {q[i] : i \in 1..n}
           D == Counted(h, q, n, s)
<1>1. v \notin C
  <2>1. Len(q) \in Nat /\ n + 1 \in 1..Len(q) /\ v \in Nat OBVIOUS
  <2>2. \A i \in 1..n : i \in 1..Len(q) /\ i < n + 1 /\ q[i] \in Nat BY <2>1
  <2>3. \A i \in 1..n : q[i] < v BY <2>1, <2>2 DEF Ascending
  <2> HIDE DEF v
  <2> QED BY <2>1, <2>2, <2>3
<1>2. {q[i] : i \in 1..(n + 1)} = C \union {v}
  <2>1. 1..(n + 1) = (1..n) \union {n + 1} OBVIOUS
  <2> QED BY <2>1
<1>3. Counted(h, q, n + 1, s) = {c \in C \union {v} : SocketOf(h, c) = s}
  BY <1>2, Zenon DEF Counted
<1>4. D = {c \in C : SocketOf(h, c) = s} BY DEF Counted
<1>5. IsFiniteSet(D) /\ Cardinality(D) \in Nat
  <2> DEFINE g == [i \in 1..n |-> q[i]]
  <2>1. IsFiniteSet(1..n) BY FS_Interval
  <2>2. g \in Surjection(1..n, C) BY DEF Surjection
  <2>3. IsFiniteSet(C)
    <3> HIDE DEF g, C
    <3> QED BY <2>1, <2>2, FS_Surjection
  <2>4. D \in SUBSET C BY <1>4
  <2> HIDE DEF D, C
  <2> QED BY <2>3, <2>4, FS_Subset, FS_CardinalityType
<1>6. v \notin D BY <1>1, <1>4
<1> HIDE DEF v, C, D
<1>7. CASE SocketOf(h, v) = s
  <2>1. Counted(h, q, n + 1, s) = D \union {v} BY <1>3, <1>4, <1>7
  <2>2. Cardinality(D \union {v}) = Cardinality(D) + 1 BY <1>5, <1>6, FS_AddElement
  <2>3. Cardinality(Counted(h, q, n + 1, s)) = Cardinality(D) + 1 BY <2>1, <2>2, Zenon
  <2> QED BY <1>7, <2>3 DEF v, D
<1>8. CASE SocketOf(h, v) # s
  <2>1. Counted(h, q, n + 1, s) = D BY <1>3, <1>4, <1>8
  <2>2. Cardinality(Counted(h, q, n + 1, s)) = Cardinality(D) BY <2>1, Zenon
  <2> QED BY <1>5, <1>8, <2>2 DEF v, D
<1> QED BY <1>7, <1>8

LEMMA Stays ==
    ASSUME a' = a, hw' = hw
    PROVE  Local' = Local /\ Sockets' = Sockets /\ Cores' = Cores /\ Whole' = Whole
<1>1. Local' = Local BY Zenon DEF Local, Offset
<1>2. Cores' = Cores BY DEF Cores, CoreCount
<1>3. Sockets' = Sockets BY <1>2, Zenon DEF Sockets, Parent
<1>4. Tokens(Local)' = Tokens(Local) BY <1>1, Zenon
<1>5. Whole' = Whole BY <1>4, Zenon DEF Whole
<1> QED BY <1>1, <1>2, <1>3, <1>5

-----------------------------------------------------------------------------
(* The loop over tokens and elements.                                      *)

LEMMA AtPosition ==
    ASSUME TypeInv, TextInv, PositionInv, pc = "flatten"
    PROVE  /\ Len(indexes) \in Nat /\ Len(parsed) \in Nat
           /\ Len(indexes) < TotalSize => j \in 1..Len(parsed) /\ k < SizeOf(parsed[j])
           /\ Len(indexes) = TotalSize => j = Len(parsed) + 1 /\ k = 0
<1>1. IsList(parsed) BY DEF TextInv
<1>2. TotalSize = Before(parsed, Len(parsed)) BY <1>1, BeforeLast
<1>3. Len(parsed) \in Nat /\ Len(indexes) \in Nat BY <1>1, SizesOf DEF TypeInv
<1>4. /\ j \in 1..(Len(parsed) + 1) /\ k \in Nat
      /\ Len(indexes) = Before(parsed, j - 1) + k
      /\ j <= Len(parsed) => k < SizeOf(parsed[j])
      /\ j = Len(parsed) + 1 => k = 0
  BY <1>3 DEF PositionInv, TypeInv
<1>5. CASE j = Len(parsed) + 1
  <2>1. j - 1 = Len(parsed) BY <1>3, <1>5
  <2>2. Before(parsed, j - 1) = Before(parsed, Len(parsed)) BY <2>1, Zenon
  <2>3. Before(parsed, Len(parsed)) \in Nat
    <3>1. Len(parsed) \in 0..Len(parsed) BY <1>3
    <3> QED BY <1>1, <3>1, BeforeNat
  <2> QED BY <1>2, <1>3, <1>4, <1>5, <2>2, <2>3
<1>6. CASE j \in 1..Len(parsed)
  <2>1. j \in 0..Len(parsed) /\ j - 1 \in 0..j /\ Len(parsed) \in 0..Len(parsed)
    BY <1>3, <1>6
  <2>2. /\ Before(parsed, j) \in Nat /\ Before(parsed, j - 1) \in Nat
        /\ Before(parsed, j) <= Before(parsed, Len(parsed))
        /\ Before(parsed, Len(parsed)) \in Nat
    BY <1>1, <2>1, BeforeNat
  <2>3. Before(parsed, j) = Before(parsed, j - 1) + SizeOf(parsed[j])
    BY <1>1, <1>6, BeforeNext
  <2>4. SizeOf(parsed[j]) \in Nat BY <1>1, <1>6, SizesOf
  <2>5. k < SizeOf(parsed[j]) BY <1>4, <1>6
  <2>6. Len(indexes) < TotalSize BY <1>2, <1>4, <2>2, <2>3, <2>4, <2>5
  <2> QED BY <1>3, <1>6, <2>2, <2>5, <2>6
<1> QED BY <1>3, <1>4, <1>5, <1>6

LEMMA FlattensStep == CoresInv /\ Flattens => CoresInv'
<1> SUFFICES ASSUME CoresInv, Flattens PROVE CoresInv' OBVIOUS
<1> DEFINE v == parsed[j][1] + k
<1>1. /\ pc = "flatten" /\ pc' = pc /\ Len(indexes) < TotalSize
      /\ indexes' = Append(indexes, v)
      /\ IF k = SizeOf(parsed[j]) - 1 THEN k' = 0 /\ j' = j + 1 ELSE k' = k + 1 /\ j' = j
      /\ a' = a /\ hw' = hw /\ text' = text /\ parsed' = parsed /\ utilized' = utilized
  BY DEF Flattens
<1>2. TypeInv /\ TextInv /\ PositionInv /\ IndexesInv /\ CountInv BY DEF CoresInv
<1>3. Local' = Local /\ Sockets' = Sockets /\ Whole' = Whole BY <1>1, Stays
<1>4. IsList(parsed) BY <1>2 DEF TextInv
<1>5. /\ j \in 1..Len(parsed) /\ k \in Nat /\ k < SizeOf(parsed[j])
      /\ Len(parsed) \in Nat /\ Len(indexes) \in Nat
  BY <1>1, <1>2, AtPosition DEF TypeInv
<1>6. SizeOf(parsed[j]) \in Nat /\ parsed[j][1] \in Nat BY <1>4, <1>5, SizesOf
<1>7. Len(indexes) = Before(parsed, j - 1) + k BY <1>1, <1>2 DEF PositionInv
<1>8. Before(parsed, j) = Before(parsed, j - 1) + SizeOf(parsed[j])
  BY <1>4, <1>5, BeforeNext
<1>9. Before(parsed, j - 1) \in Nat
  <2>1. j \in 0..Len(parsed) /\ j - 1 \in 0..j BY <1>5
  <2> QED BY <1>4, <2>1, BeforeNat
<1>10. v \in Nat /\ IsElement(parsed, Len(indexes) + 1, v)
  <2>1. /\ Before(parsed, j - 1) < Len(indexes) + 1
        /\ Len(indexes) + 1 <= Before(parsed, j)
        /\ v = parsed[j][1] + ((Len(indexes) + 1) - Before(parsed, j - 1) - 1)
    BY <1>5, <1>6, <1>7, <1>8, <1>9
  <2>2. v \in Nat BY <1>5, <1>6
  <2> HIDE DEF v
  <2> QED BY <1>5, <2>1, <2>2 DEF IsElement
<1>11. indexes \in Seq(Nat) /\ Elements(parsed, indexes) BY <1>2 DEF TypeInv, IndexesInv
<1> HIDE DEF v
<1>12. /\ indexes' \in Seq(Nat) /\ Len(indexes') = Len(indexes) + 1
       /\ Elements(parsed, indexes')
  BY <1>1, <1>10, <1>11, AppendElement
<1>13. TypeInv'
  <2>1. j' \in Nat /\ k' \in Nat BY <1>1, <1>5
  <2> QED BY <1>1, <1>2, <1>3, <1>12, <2>1 DEF TypeInv
<1>14. TextInv' BY <1>1, <1>2, <1>3 DEF TextInv
<1>15. PositionInv'
  <2>1. CASE k = SizeOf(parsed[j]) - 1
    <3>1. k' = 0 /\ j' = j + 1 BY <1>1, <2>1
    <3>2. j' \in 1..(Len(parsed) + 1) BY <1>5, <3>1
    <3>3. j' - 1 = j BY <1>5, <3>1
    <3>4. Before(parsed, j' - 1) = Before(parsed, j) BY <3>3, Zenon
    <3>5. Len(indexes') = Before(parsed, j' - 1) + k'
      BY <1>5, <1>6, <1>7, <1>8, <1>9, <1>12, <2>1, <3>1, <3>4
    <3>6. j' <= Len(parsed) => k' < SizeOf(parsed[j'])
      <4>1. j' <= Len(parsed) => j' \in 1..Len(parsed) BY <1>5, <3>2
      <4>2. j' <= Len(parsed) => SizeOf(parsed[j']) \in Nat \ {0} BY <1>4, <4>1, SizesOf
      <4> QED BY <3>1, <4>2
    <3> QED BY <1>1, <3>1, <3>2, <3>5, <3>6 DEF PositionInv
  <2>2. CASE k # SizeOf(parsed[j]) - 1
    <3>1. k' = k + 1 /\ j' = j BY <1>1, <2>2
    <3>2. k' < SizeOf(parsed[j']) /\ j' <= Len(parsed) /\ j' \in 1..(Len(parsed) + 1)
      BY <1>5, <1>6, <2>2, <3>1
    <3>3. Before(parsed, j' - 1) = Before(parsed, j - 1) BY <3>1
    <3>4. Len(indexes') = Before(parsed, j' - 1) + k'
      BY <1>5, <1>7, <1>9, <1>12, <3>1, <3>3
    <3> QED BY <1>1, <3>2, <3>4 DEF PositionInv
  <2> QED BY <2>1, <2>2
<1>16. IndexesInv' BY <1>1, <1>12 DEF IndexesInv
<1>17. CountInv' BY <1>1, <1>2, <1>3 DEF CountInv
<1> QED BY <1>13, <1>14, <1>15, <1>16, <1>17 DEF CoresInv

-----------------------------------------------------------------------------
(* The other actions.                                                      *)

LEMMA NoElements == Elements(parsed, <<>>)
BY DEF Elements

LEMMA CoresInit == Init => CoresInv
<1> SUFFICES ASSUME Init PROVE CoresInv OBVIOUS
<1>1. TypeInv BY DEF Init, TypeInv
<1>2. TextInv BY DEF Init, TextInv, IsList
<1>3. PositionInv BY DEF Init, PositionInv
<1>4. IndexesInv BY NoElements DEF Init, IndexesInv
<1>5. CountInv BY DEF Init, CountInv
<1> QED BY <1>1, <1>2, <1>3, <1>4, <1>5 DEF CoresInv

LEMMA ProcessCpusStep == CoresInv /\ ProcessCpus => CoresInv'
<1> SUFFICES ASSUME CoresInv, ProcessCpus PROVE CoresInv' OBVIOUS
<1>1. /\ pc = "prolog" /\ pc' = "parse" /\ text' \in {Fmt(Local), NoText}
      /\ UNCHANGED <<a, hw, parsed, indexes, j, k, utilized>>
  BY DEF ProcessCpus
<1>2. TypeInv /\ TextInv /\ IndexesInv /\ CountInv BY DEF CoresInv
<1>3. Local' = Local /\ Sockets' = Sockets /\ Whole' = Whole BY <1>1, Stays
<1>4. TypeInv' BY <1>1, <1>2, <1>3 DEF TypeInv
<1>5. TextInv' BY <1>1, <1>2, <1>3 DEF TextInv
<1>6. PositionInv' BY <1>1 DEF PositionInv
<1>7. IndexesInv' BY <1>1, <1>2 DEF IndexesInv
<1>8. CountInv' BY <1>1, <1>2, <1>3 DEF CountInv
<1> QED BY <1>4, <1>5, <1>6, <1>7, <1>8 DEF CoresInv

\* What parse_index_range gets out of a text that is not empty.
LEMMA ParsesList ==
    ASSUME TypeInv, text = Fmt(Local), text.tokens # <<>>, NEW p,
           IF text.comma THEN \E g \in Garbage : p = Append(Values(text.tokens), g)
           ELSE p = Values(text.tokens)
    PROVE  /\ IsList(p) /\ p # <<>>
           /\ ~text.comma => Readable(p, Local)
           /\ Whole => ~text.comma /\ p = Tokens(Local)
<1> DEFINE v == Values(text.tokens)
<1>1. Local \in SUBSET Nat /\ IsFiniteSet(Local) BY LocalIsCores DEF TypeInv
<1>2. v = Values(Fmt(Local).tokens) OBVIOUS
<1>3. /\ IsList(v) /\ v # <<>> /\ (~text.comma => Readable(v, Local))
      /\ Whole => ~text.comma /\ v = Tokens(Local)
  <2> HIDE DEF v
  <2> QED BY <1>1, <1>2, ParsedOf DEF Whole
<1>4. ASSUME NEW g \in Garbage PROVE IsList(Append(v, g)) /\ Append(v, g) # <<>>
  <2>1. g \in Nat \X Nat /\ g[1] <= g[2] BY GarbageAssumption
  <2>2. v \in Seq(Nat \X Nat) /\ \A i \in 1..Len(v) : v[i][1] <= v[i][2]
    BY <1>3 DEF IsList
  <2> HIDE DEF v
  <2>3. /\ Append(v, g) \in Seq(Nat \X Nat) /\ Len(Append(v, g)) = Len(v) + 1
        /\ Len(v) \in Nat /\ Append(v, g)[Len(v) + 1] = g
        /\ \A i \in 1..Len(v) : Append(v, g)[i] = v[i]
    BY <2>1, <2>2
  <2>4. \A i \in 1..(Len(v) + 1) : i = Len(v) + 1 \/ i \in 1..Len(v) BY <2>3
  <2>5. IsList(Append(v, g)) BY <2>1, <2>2, <2>3, <2>4 DEF IsList
  <2>6. Append(v, g) # <<>> BY <2>3, EmptySeq
  <2> QED BY <2>5, <2>6
<1> HIDE DEF v
<1>5. IF text.comma THEN \E g \in Garbage : p = Append(v, g) ELSE p = v BY DEF v
<1> QED BY <1>3, <1>4, <1>5

LEMMA ParsesStep == CoresInv /\ Parses => CoresInv'
<1> SUFFICES ASSUME CoresInv, Parses PROVE CoresInv' OBVIOUS
<1>1. pc = "parse" /\ UNCHANGED <<a, hw, text, indexes, j, k, utilized>> BY DEF Parses
<1>2. TypeInv /\ TextInv /\ IndexesInv /\ CountInv BY DEF CoresInv
<1>3. Local' = Local /\ Sockets' = Sockets /\ Whole' = Whole BY <1>1, Stays
<1>4. parsed = <<>> /\ indexes = <<>> /\ j = 1 /\ k = 0 BY <1>1, <1>2 DEF TextInv
<1>5. IndexesInv' /\ pc' \notin {"count", "done"}
  <2>1. Elements(parsed', <<>>) BY DEF Elements
  <2>2. pc' \in {"flatten", "failed"} BY DEF Parses
  <2> QED BY <1>1, <1>4, <2>1, <2>2 DEF IndexesInv
<1>6. CountInv' BY <1>1, <1>2, <1>3, <1>5 DEF CountInv
<1>7. CASE pc' = "failed" /\ UNCHANGED parsed
  <2>1. TypeInv' BY <1>1, <1>2, <1>3, <1>7 DEF TypeInv
  <2>2. TextInv' BY <1>1, <1>2, <1>3, <1>4, <1>7 DEF TextInv
  <2>3. PositionInv' BY <1>7 DEF PositionInv
  <2> QED BY <1>5, <1>6, <2>1, <2>2, <2>3 DEF CoresInv
<1>8. CASE /\ text.tokens # <<>> /\ pc' = "flatten"
           /\ IF text.comma THEN \E g \in Garbage : parsed' = Append(Values(text.tokens), g)
              ELSE parsed' = Values(text.tokens)
  <2>1. text = Fmt(Local) BY <1>2, <1>8 DEF TextInv, NoText
  <2>2. /\ IsList(parsed') /\ parsed' # <<>>
        /\ ~text.comma => Readable(parsed', Local)
        /\ Whole => ~text.comma /\ parsed' = Tokens(Local)
    BY <1>2, <1>8, <2>1, ParsesList
  <2>3. TypeInv' BY <1>1, <1>2, <1>3, <1>8 DEF TypeInv
  <2>4. TextInv' BY <1>1, <1>2, <1>3, <1>4, <1>8, <2>2 DEF TextInv
  <2>5. PositionInv'
    <3> DEFINE p == parsed'
    <3>1. IsList(p) /\ p # <<>> BY <2>2
    <3> HIDE DEF p
    <3>2. Len(p) \in Nat \ {0} BY <3>1, EmptySeq DEF IsList
    <3>3. SizeOf(p[1]) \in Nat \ {0} BY <3>1, <3>2, SizesOf
    <3>4. Before(p, 1 - 1) = 0
      <4>1. 1 - 1 = 0 OBVIOUS
      <4> QED BY <4>1, BeforeFirst, Zenon
    <3>5. j' = 1 /\ k' = 0 /\ indexes' = <<>> BY <1>1, <1>4
    <3>6. /\ 1 \in 1..(Len(p) + 1)
          /\ IF 1 <= Len(p) THEN 0 < SizeOf(p[1]) ELSE 0 = 0
          /\ Len(<<>>) = Before(p, 1 - 1) + 0
      BY <3>2, <3>3, <3>4
    <3> QED BY <3>5, <3>6 DEF PositionInv, p
  <2> QED BY <1>5, <1>6, <2>3, <2>4, <2>5 DEF CoresInv
<1> QED BY <1>7, <1>8 DEF Parses

LEMMA FlattenedStep == CoresInv /\ Flattened => CoresInv'
<1> SUFFICES ASSUME CoresInv, Flattened PROVE CoresInv' OBVIOUS
<1>1. /\ pc = "flatten" /\ Len(indexes) = TotalSize /\ pc' = "count" /\ k' = 0
      /\ UNCHANGED <<a, hw, text, parsed, indexes, j, utilized>>
  BY DEF Flattened
<1>2. TypeInv /\ TextInv /\ PositionInv /\ IndexesInv /\ CountInv BY DEF CoresInv
<1>3. Local' = Local /\ Sockets' = Sockets /\ Whole' = Whole BY <1>1, Stays
<1>4. Len(indexes) \in Nat BY <1>2 DEF TypeInv
<1>5. Len(indexes) = Before(parsed, Len(parsed)) BY <1>1, <1>2, BeforeLast DEF TextInv
<1>6. TypeInv' BY <1>1, <1>2, <1>3 DEF TypeInv
<1>7. TextInv' BY <1>1, <1>2, <1>3 DEF TextInv
<1>8. PositionInv' BY <1>1 DEF PositionInv
<1>9. IndexesInv' BY <1>1, <1>2, <1>5 DEF IndexesInv
<1>10. CountInv'
  <2>1. Whole => utilized = [s \in Sockets |-> 0] BY <1>1, <1>2 DEF CountInv
  <2>2. \A s : Cardinality(Counted(hw, indexes, 0, s)) = 0
    <3>1. \A s : Counted(hw, indexes, 0, s) = {} BY DEF Counted
    <3> QED BY <3>1, FS_EmptySet, Zenon
  <2> QED BY <1>1, <1>3, <1>4, <2>1, <2>2 DEF CountInv
<1> QED BY <1>6, <1>7, <1>8, <1>9, <1>10 DEF CoresInv

-----------------------------------------------------------------------------
(* The indexes.                                                            *)

LEMMA LastElement ==
    ASSUME NEW t, IsList(t), t # <<>>
    PROVE  /\ Len(t) \in Nat \ {0} /\ Before(t, Len(t) - 1) \in Nat
           /\ Before(t, Len(t)) = Before(t, Len(t) - 1) + SizeOf(t[Len(t)])
           /\ SizeOf(t[Len(t)]) \in Nat \ {0}
           /\ t[Len(t)][1] = t[Len(t)][2] => SizeOf(t[Len(t)]) = 1
<1>1. Len(t) \in Nat \ {0} BY EmptySeq DEF IsList
<1>2. Len(t) \in 1..Len(t) /\ Len(t) \in 0..Len(t) /\ Len(t) - 1 \in 0..Len(t) BY <1>1
<1>3. /\ Before(t, Len(t) - 1) \in Nat
      /\ Before(t, Len(t)) = Before(t, Len(t) - 1) + SizeOf(t[Len(t)])
  BY <1>2, BeforeNat, BeforeNext
<1>4. /\ t[Len(t)][1] \in Nat /\ SizeOf(t[Len(t)]) \in Nat \ {0}
      /\ SizeOf(t[Len(t)]) = t[Len(t)][2] - t[Len(t)][1] + 1
  BY <1>2, SizesOf
<1>5. t[Len(t)][1] = t[Len(t)][2] => SizeOf(t[Len(t)]) = 1 BY <1>4
<1> QED BY <1>1, <1>3, <1>4, <1>5

\* When the loop is over all indexes but the last, at least, are the job's, and ascend.
LEMMA OwnIndexes ==
    ASSUME TypeInv, TextInv, IndexesInv, pc \in {"count", "done"}, ~text.comma
    PROVE  /\ Len(indexes) \in Nat \ {0}
           /\ \A i \in 1..(Len(indexes) - 1) : indexes[i] \in Local
           /\ \A i, l \in 1..(Len(indexes) - 1) : i < l => indexes[i] < indexes[l]
<1>1. IsList(parsed) /\ parsed # <<>> /\ Readable(parsed, Local) BY DEF TextInv
<1> DEFINE n == Len(parsed)
<1>2. /\ n \in Nat \ {0} /\ Before(parsed, n - 1) \in Nat
      /\ Before(parsed, n) = Before(parsed, n - 1) + SizeOf(parsed[n])
      /\ SizeOf(parsed[n]) \in Nat \ {0}
      /\ parsed[n][1] = parsed[n][2] => SizeOf(parsed[n]) = 1
  BY <1>1, LastElement
<1>3. Len(indexes) = Before(parsed, n) BY DEF IndexesInv
<1>4. Len(indexes) \in Nat \ {0} BY <1>2, <1>3
<1>5. \A i \in 1..Len(indexes) : IsElement(parsed, i, indexes[i])
  BY DEF IndexesInv, Elements
<1>6. n \in 0..n /\ n - 1 \in 0..n BY <1>2
<1> HIDE DEF n
<1>7. 1..(Len(indexes) - 1) \subseteq 1..Len(indexes) BY <1>4
<1>8. CASE Own(parsed, n, Local)
  <2>1. \A i \in 1..Before(parsed, n) : IsElement(parsed, i, indexes[i]) BY <1>3, <1>5
  <2>2. /\ \A x \in 1..Before(parsed, n) : indexes[x] \in Local
        /\ \A x, y \in 1..Before(parsed, n) : x < y => indexes[x] < indexes[y]
    BY <1>1, <1>6, <1>8, <2>1, OwnElements DEF n
  <2>3. \A x \in 1..(Len(indexes) - 1) : x \in 1..Before(parsed, n) BY <1>3, <1>7
  <2> QED BY <1>4, <2>2, <2>3
<1>9. CASE Own(parsed, n - 1, Local) /\ parsed[n][1] = parsed[n][2]
  <2>1. Before(parsed, n - 1) = Len(indexes) - 1 BY <1>2, <1>3, <1>9
  <2>2. \A i \in 1..Before(parsed, n - 1) : IsElement(parsed, i, indexes[i])
    BY <1>5, <1>7, <2>1
  <2>3. /\ \A x \in 1..Before(parsed, n - 1) : indexes[x] \in Local
        /\ \A x, y \in 1..Before(parsed, n - 1) : x < y => indexes[x] < indexes[y]
    BY <1>1, <1>6, <1>9, <2>2, OwnElements DEF n
  <2> QED BY <1>4, <2>1, <2>3
<1> QED BY <1>1, <1>8, <1>9 DEF Readable, n

\* All of them are when the text has room, and they are all there.
LEMMA WholeIndexes ==
    ASSUME TypeInv, TextInv, IndexesInv, pc \in {"count", "done"}, Whole
    PROVE  Ascending(indexes) /\ Range(indexes) = Local
<1> DEFINE t == Tokens(Local)
           n == Len(t)
<1>1. /\ CoreCount \in Nat /\ Local \in SUBSET (0..CoreCount)
      /\ Local \in SUBSET Nat /\ IsFiniteSet(Local)
  BY LocalIsCores DEF TypeInv
<1>2. parsed = t BY DEF TextInv
<1>3. IsList(t) /\ Own(t, n, Local) BY <1>1, TokensAreOwn
<1>4. /\ Len(indexes) = Before(t, n) /\ DOMAIN indexes = 1..Len(indexes)
      /\ \A i \in 1..Len(indexes) : IsElement(t, i, indexes[i])
  BY <1>2 DEF IndexesInv, Elements, TypeInv
<1>5. ASSUME NEW c \in Local PROVE \E i \in 1..n : c \in t[i][1]..t[i][2]
  BY <1>1, TokensCover
<1>6. n \in 0..n
  <2>1. n \in Nat BY <1>3, SizesOf
  <2> QED BY <2>1
<1> HIDE DEF t
<1>7. /\ \A x \in 1..Len(indexes) : indexes[x] \in Local
      /\ \A x, y \in 1..Len(indexes) : x < y => indexes[x] < indexes[y]
  BY <1>3, <1>4, <1>6, OwnElements
<1>8. ASSUME NEW c \in Local PROVE \E i \in 1..Len(indexes) : indexes[i] = c
  <2>1. PICK i \in 1..n : c \in t[i][1]..t[i][2] BY <1>5
  <2> QED BY <1>3, <1>4, <2>1, ElementsCover
<1> QED BY <1>4, <1>7, <1>8 DEF Ascending, Range

-----------------------------------------------------------------------------
(* Counting.                                                               *)

LEMMA UtilizesStep == CoresInv /\ Utilizes => CoresInv'
<1> SUFFICES ASSUME CoresInv, Utilizes PROVE CoresInv' OBVIOUS
<1> DEFINE v == indexes[k + 1]
           Counts(u, x) == [s \in Sockets |-> u[s] + IF s = x THEN 1 ELSE 0]
<1>1. pc = "count" /\ UNCHANGED <<a, hw, text, parsed, indexes, j>> BY DEF Utilizes
<1>2. TypeInv /\ TextInv /\ IndexesInv /\ CountInv BY DEF CoresInv
<1>3. Local' = Local /\ Sockets' = Sockets /\ Whole' = Whole BY <1>1, Stays
<1>4. k \in Nat /\ Len(indexes) \in Nat /\ indexes \in Seq(Nat)
      /\ utilized \in [Sockets -> Nat]
  BY <1>2 DEF TypeInv
<1>5. /\ k <= Len(indexes)
      /\ Whole => \A s \in Sockets : utilized[s] = Cardinality(Counted(hw, indexes, k, s))
  BY <1>1, <1>2 DEF CountInv
<1>6. pc' \in {"count", "done", "failed"} BY <1>1 DEF Utilizes
<1>7. TextInv' BY <1>1, <1>2, <1>3, <1>6 DEF TextInv
<1>8. PositionInv' BY <1>6 DEF PositionInv
<1>9. IndexesInv' BY <1>1, <1>2, <1>6 DEF IndexesInv
<1>10. ASSUME Whole, k < Len(indexes) PROVE Ascending(indexes) /\ v \in Cores
  <2>1. Ascending(indexes) /\ Range(indexes) = Local BY <1>1, <1>2, <1>10, WholeIndexes
  <2>2. Local \subseteq Cores BY <1>2, LocalIsCores DEF TypeInv
  <2>3. v \in Range(indexes) BY <1>4, <1>10 DEF Range
  <2> QED BY <2>1, <2>2, <2>3
<1>11. CASE k < Len(indexes) /\ (\E x \in SocketsRead(v) : utilized' = Counts(utilized, x))
            /\ k' = k + 1 /\ pc' = pc
  <2>1. PICK x \in SocketsRead(v) : utilized' = Counts(utilized, x) BY <1>11
  <2>2. utilized' \in [Sockets -> Nat]
    <3>1. \A s \in Sockets : utilized[s] + (IF s = x THEN 1 ELSE 0) \in Nat BY <1>4
    <3> QED BY <2>1, <3>1
  <2>3. ASSUME Whole, NEW s \in Sockets
        PROVE  utilized'[s] = Cardinality(Counted(hw, indexes, k + 1, s))
    <3>1. Cardinality(Counted(hw, indexes, k + 1, s))
             = Cardinality(Counted(hw, indexes, k, s)) + IF SocketOf(hw, v) = s THEN 1 ELSE 0
      BY <1>4, <1>10, <1>11, <2>3, CountedNext
    <3>2. x = SocketOf(hw, v)
      <4>1. v \in Cores BY <1>10, <1>11, <2>3
      <4> HIDE DEF v
      <4> QED BY <2>1, <4>1 DEF SocketsRead, SocketIdx, SocketOf, Parent
    <3>3. utilized'[s] = utilized[s] + IF s = x THEN 1 ELSE 0 BY <2>1
    <3> HIDE DEF v
    <3> QED BY <1>5, <2>3, <3>1, <3>2, <3>3
  <2>4. k' <= Len(indexes) /\ k' \in Nat BY <1>4, <1>11
  <2>5. CountInv' BY <1>1, <1>3, <1>11, <2>3, <2>4 DEF CountInv
  <2>6. TypeInv' BY <1>1, <1>2, <1>3, <1>11, <2>2, <2>4 DEF TypeInv
  <2> QED BY <1>7, <1>8, <1>9, <2>5, <2>6 DEF CoresInv
<1>12. CASE /\ k < Len(indexes) /\ v \notin Cores
            /\ pc' = "failed" /\ k' = k /\ utilized' = utilized
  <2>1. ~Whole BY <1>10, <1>12
  <2>2. CountInv' BY <1>3, <1>12, <2>1 DEF CountInv
  <2>3. TypeInv' BY <1>1, <1>2, <1>3, <1>12 DEF TypeInv
  <2> QED BY <1>7, <1>8, <1>9, <2>2, <2>3 DEF CoresInv
<1>13. CASE ~(k < Len(indexes)) /\ pc' = "done" /\ k' = k /\ utilized' = utilized
  <2>1. k = Len(indexes) BY <1>4, <1>5, <1>13
  <2>2. CountInv' BY <1>1, <1>3, <1>5, <1>13, <2>1 DEF CountInv
  <2>3. TypeInv' BY <1>1, <1>2, <1>3, <1>13 DEF TypeInv
  <2> QED BY <1>7, <1>8, <1>9, <2>2, <2>3 DEF CoresInv
<1> QED BY <1>11, <1>12, <1>13 DEF Utilizes

LEMMA CoresStutter == CoresInv /\ UNCHANGED vars => CoresInv'
<1> SUFFICES ASSUME CoresInv, UNCHANGED vars PROVE CoresInv' OBVIOUS
<1>1. UNCHANGED <<a, hw, pc, text, parsed, indexes, j, k, utilized>> BY DEF vars
<1>2. TypeInv /\ TextInv /\ PositionInv /\ IndexesInv /\ CountInv BY DEF CoresInv
<1>3. Local' = Local /\ Sockets' = Sockets /\ Whole' = Whole BY <1>1, Stays
<1>4. TypeInv' BY <1>1, <1>2, <1>3 DEF TypeInv
<1>5. TextInv' BY <1>1, <1>2, <1>3 DEF TextInv
<1>6. PositionInv' BY <1>1, <1>2 DEF PositionInv
<1>7. IndexesInv' BY <1>1, <1>2 DEF IndexesInv
<1>8. CountInv' BY <1>1, <1>2, <1>3 DEF CountInv
<1> QED BY <1>4, <1>5, <1>6, <1>7, <1>8 DEF CoresInv

\* The text is cut from this node's cores, and the position of the loop, the indexes
\* read and the cores counted fit one another, from the prolog to the end.
THEOREM CoresInvariant == Spec => []CoresInv
<1>1. CoresInv /\ [Next]_vars => CoresInv'
  BY ProcessCpusStep, ParsesStep, FlattensStep, FlattenedStep, UtilizesStep, CoresStutter
     DEF Next, Ended
<1> QED BY <1>1, CoresInit, PTL DEF Spec

-----------------------------------------------------------------------------
(* The results.                                                            *)

LEMMA AscendingInjective ==
    ASSUME NEW q \in Seq(Nat), Ascending(q) PROVE IsInjective(q)
<1>1. /\ DOMAIN q = 1..Len(q) /\ Len(q) \in Nat
      /\ \A i \in 1..Len(q) : q[i] \in Nat
  OBVIOUS
<1>2. SUFFICES ASSUME NEW x \in 1..Len(q), NEW y \in 1..Len(q), q[x] = q[y] PROVE x = y
  BY <1>1 DEF IsInjective
<1>3. ~(x < y) /\ ~(y < x) BY <1>1, <1>2 DEF Ascending
<1> QED BY <1>1, <1>3

\* The indexes the EFP reads (eps_utils.c, parse_index_range) are the cores of this node
\* that the job was allocated, each once, when the text has room for them; of a text that
\* is cut inside a token all but the last are such cores, each once.
THEOREM ReadsOwnCores == Spec => []OwnCoresOnce
<1>1. CoresInv => OwnCoresOnce
  <2> SUFFICES ASSUME CoresInv, pc \in {"count", "done"}, ~text.comma,
                      NEW own, own = SubSeq(indexes, 1, Len(indexes) - 1)
               PROVE  /\ IsInjective(own) /\ Range(own) \subseteq Local
                      /\ Whole => IsInjective(indexes) /\ Range(indexes) = Local
    BY DEF OwnCoresOnce
  <2>1. TypeInv /\ TextInv /\ IndexesInv BY DEF CoresInv
  <2>2. indexes \in Seq(Nat) BY <2>1 DEF TypeInv
  <2>3. /\ Len(indexes) \in Nat \ {0}
        /\ \A i \in 1..(Len(indexes) - 1) : indexes[i] \in Local
        /\ \A i, l \in 1..(Len(indexes) - 1) : i < l => indexes[i] < indexes[l]
    BY <2>1, OwnIndexes
  <2> DEFINE n == Len(indexes) - 1
  <2>4. own \in Seq(Nat) /\ Len(own) = n /\ \A i \in 1..n : own[i] = indexes[i]
    <3>1. n \in Nat /\ n + 1 = Len(indexes) /\ own = SubSeq(indexes, 1, n) BY <2>3
    <3> HIDE DEF n
    <3> QED BY <2>2, <3>1
  <2> HIDE DEF n
  <2>5. /\ \A i \in 1..n : own[i] \in Local
        /\ \A i, l \in 1..n : i < l => own[i] < own[l]
    BY <2>3, <2>4 DEF n
  <2>6. IsInjective(own)
    <3>1. Ascending(own) BY <2>4, <2>5 DEF Ascending
    <3> QED BY <2>4, <3>1, AscendingInjective
  <2>7. Range(own) \subseteq Local
    <3>1. DOMAIN own = 1..n BY <2>4
    <3> QED BY <2>5, <3>1 DEF Range
  <2>8. ASSUME Whole PROVE IsInjective(indexes) /\ Range(indexes) = Local
    <3>1. Ascending(indexes) /\ Range(indexes) = Local BY <2>1, <2>8, WholeIndexes
    <3> QED BY <2>2, <3>1, AscendingInjective
  <2> QED BY <2>6, <2>7, <2>8
<1> QED BY <1>1, CoresInvariant, PTL

\* A text that has room for this node's cores (eps_cpuinfo.c, bit_fmt) is neither cut nor
\* ends in a comma, and what is parsed of it are the ranges it was made of.
THEOREM RoomForAll == Spec => [](Whole /\ parsed # <<>> => ~text.comma /\ parsed = Tokens(Local))
<1>1. CoresInv => (Whole /\ parsed # <<>> => ~text.comma /\ parsed = Tokens(Local))
  BY DEF CoresInv, TextInv
<1> QED BY <1>1, CoresInvariant, PTL

\* parse_index_range ends with the last element of the last token; and socket_idx is
\* only read for cores the node's topology has, also when the text is cut, unless it
\* ends in a comma.
THEOREM StaysInBounds == Spec => []ReadsInBounds
<1>1. CoresInv => ReadsInBounds
  <2> SUFFICES ASSUME CoresInv PROVE ReadsInBounds OBVIOUS
  <2>1. TypeInv /\ TextInv /\ PositionInv /\ IndexesInv BY DEF CoresInv
  <2>2. IsList(parsed) /\ Local \subseteq Cores /\ CoreCount \in Nat
    BY <2>1, LocalIsCores DEF TypeInv, TextInv
  <2>3. pc = "flatten" /\ Len(indexes) < TotalSize
           => j <= Len(parsed) /\ k < SizeOf(parsed[j])
    BY <2>1, AtPosition
  <2>4. ASSUME ~text.comma, NEW i \in 1..Len(indexes) PROVE indexes[i] \in Cores
    <3>1. /\ IsElement(parsed, i, indexes[i]) /\ indexes \in Seq(Nat)
      BY <2>1, <2>4 DEF IndexesInv, Elements, TypeInv
    <3>2. parsed # <<>>
      <4>1. indexes # <<>> BY <2>4
      <4> QED BY <2>1, <4>1 DEF TextInv
    <3>3. Readable(parsed, Local) BY <2>1, <2>4, <3>2 DEF TextInv
    <3>4. PICK m \in 1..Len(parsed) :
             /\ Before(parsed, m - 1) < i /\ i <= Before(parsed, m)
             /\ indexes[i] = parsed[m][1] + (i - Before(parsed, m - 1) - 1)
      BY <3>1 DEF IsElement
    <3>5. i \in Nat BY <3>1
    <3>6. indexes[i] \in parsed[m][1]..parsed[m][2] BY <2>2, <3>4, <3>5, ElementOf
    <3>7. Len(parsed) \in Nat /\ parsed[m][1] \in Nat /\ parsed[m][2] \in Nat
      BY <2>2, SizesOf
    <3>8. CASE m <= Len(parsed) - 1 \/ Own(parsed, Len(parsed), Local)
      <4>1. parsed[m][1]..parsed[m][2] \subseteq Local
        <5>1. m <= Len(parsed) - 1 => m \in 1..(Len(parsed) - 1) BY <3>7
        <5> QED BY <3>3, <3>7, <3>8, <5>1 DEF Readable, Own
      <4> QED BY <2>2, <3>6, <4>1
    <3>9. CASE m = Len(parsed) /\ parsed[m][1] = parsed[m][2]
               /\ \E x \in Local : parsed[m][1] <= x
      <4>1. indexes[i] = parsed[m][1] BY <3>6, <3>7, <3>9
      <4>2. PICK x \in Local : parsed[m][1] <= x BY <3>9
      <4>3. x \in 0..(CoreCount - 1) BY <2>2 DEF Cores
      <4> QED BY <2>2, <3>7, <4>1, <4>2, <4>3 DEF Cores
    <3> QED BY <3>3, <3>7, <3>8, <3>9 DEF Readable
  <2>5. ~text.comma => Range(indexes) \subseteq Cores
    <3>1. DOMAIN indexes = 1..Len(indexes) BY <2>1 DEF TypeInv
    <3> QED BY <2>4, <3>1 DEF Range
  <2> QED BY <2>3, <2>5 DEF ReadsInBounds
<1> QED BY <1>1, CoresInvariant, PTL

\* The utilization efp_main computes is the number of cores the job has on each
\* socket (when the text has room and every core a socket), at most all of them.
THEOREM CountsOwnCores == Spec => []UtilizationIsShare
<1>1. CoresInv => UtilizationIsShare
  <2> SUFFICES ASSUME CoresInv, Whole, \A c \in Cores : Parent(c) # NoSocket
               PROVE  /\ UtilizationAsDocumented
                      /\ \A s \in Sockets : utilized[s] <= CoresPerSocket(s)
    BY DEF UtilizationIsShare
  <2>1. TypeInv /\ TextInv /\ IndexesInv /\ CountInv BY DEF CoresInv
  <2>2. /\ Local \subseteq Cores /\ IsFiniteSet(Cores) /\ CoreCount \in Nat
    BY <2>1, LocalIsCores DEF TypeInv
  <2>3. \A c \in Cores : SocketOf(hw, c) = Parent(c) BY DEF SocketOf, Parent
  <2>4. /\ indexes \in Seq(Nat) /\ Len(indexes) \in Nat /\ DOMAIN indexes = 1..Len(indexes)
        /\ k \in Nat
    BY <2>1 DEF TypeInv
  <2>5. ASSUME pc = "done", NEW s \in Sockets
        PROVE  utilized[s] = Cardinality({c \in Local : Parent(c) = s})
    <3>1. k = Len(indexes) /\ utilized[s] = Cardinality(Counted(hw, indexes, k, s))
      BY <2>1, <2>5 DEF CountInv
    <3>2. {indexes[i] : i \in 1..k} = Local
      <4>1. Range(indexes) = Local BY <2>1, <2>5, WholeIndexes
      <4> QED BY <2>4, <3>1, <4>1 DEF Range
    <3>3. Counted(hw, indexes, k, s) = {c \in Local : Parent(c) = s}
      <4>1. Counted(hw, indexes, k, s) = {c \in Local : SocketOf(hw, c) = s}
        BY <3>2, Zenon DEF Counted
      <4> QED BY <2>2, <2>3, <4>1
    <3> QED BY <3>1, <3>3, Zenon
  <2>6. ASSUME NEW s \in Sockets PROVE utilized[s] <= CoresPerSocket(s)
    <3> DEFINE All == {c \in Cores : Parent(c) = s}
               D == Counted(hw, indexes, k, s)
    <3>1. IsFiniteSet(All) BY <2>2, FS_Subset
    <3>2. CASE pc \in {"count", "done"}
      <4>1. k <= Len(indexes) /\ utilized[s] = Cardinality(D) BY <2>1, <3>2 DEF CountInv
      <4>2. {indexes[i] : i \in 1..k} \subseteq Local
        <5>1. \A i \in 1..k : i \in DOMAIN indexes BY <2>4, <4>1
        <5>2. Range(indexes) = Local BY <2>1, <3>2, WholeIndexes
        <5> QED BY <5>1, <5>2 DEF Range
      <4>3. D \in SUBSET All BY <2>2, <2>3, <4>2 DEF Counted
      <4> HIDE DEF All, D
      <4>4. Cardinality(D) <= Cardinality(All) BY <3>1, <4>3, FS_Subset
      <4> QED BY <4>1, <4>4 DEF CoresPerSocket, All
    <3>3. CASE pc \notin {"count", "done"}
      <4>1. utilized[s] = 0 BY <2>1, <3>3 DEF CountInv
      <4>2. Cardinality(All) \in Nat BY <3>1, FS_CardinalityType
      <4> HIDE DEF All
      <4>3. 0 <= Cardinality(All) BY <4>2
      <4> QED BY <4>1, <4>3 DEF CoresPerSocket, All
    <3> QED BY <3>2, <3>3
  <2> QED BY <2>5, <2>6 DEF UtilizationAsDocumented
<1> QED BY <1>1, CoresInvariant, PTL
=============================================================================
