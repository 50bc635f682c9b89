----------------------------- MODULE RangeProofs ----------------------------
(***************************************************************************)
(* The ranges, in three parts: the operations on the vector of ranges, for *)
(* any vector and any range of integers; common::RangeContainer, which is  *)
(* the set that AddressSet describes whatever the inserts and removes, for *)
(* every MaxElem; and RangesToDecode, from the first segment that is added *)
(* to the last range that decoding removes, for every image and            *)
(* configuration, every alignment of instructions and every length of the  *)
(* zero sequences that are left out.                                       *)
(***************************************************************************)
EXTENDS RangeContainer, RangesToDecode, FiniteSetTheorems, SequenceTheorems,
        NaturalsInduction, WellFoundedInduction, TLAPS

IntRange == [start : Int, end : Int]

\* The ranges of the vector have elements, and a gap lies between any two of
\* them.  The order of neighbours alone would not be enough to reason about
\* ranges that lie further apart.
Canon(rs) ==
  /\ rs \in Seq(IntRange)
  /\ \A i \in 1..Len(rs) : rs[i].start < rs[i].end
  /\ \A i, j \in 1..Len(rs) : i < j => rs[i].end < rs[j].start

\* e lies before s, with a gap between them unless gap is 0.
Sep(gap, e, s) == e <= s /\ (gap # 0 => e < s)

\* The same, where gap 0 allows adjacent ranges: remove splits a stored range in two
\* adjacent ones when it is called with an empty range.
Spaced(gap, rs) ==
  /\ rs \in Seq(IntRange)
  /\ \A i \in 1..Len(rs) : rs[i].start < rs[i].end
  /\ \A i, j \in 1..Len(rs) : i < j => Sep(gap, rs[i].end, rs[j].start)

\* Every range of s ends before every range of t.
Before(gap, s, t) ==
  \A i \in 1..Len(s), j \in 1..Len(t) : Sep(gap, s[i].end, t[j].start)

\* The ranges of rs before position p end before s, those from q on begin
\* behind e.
Apart(rs, p, q, s, e) ==
  /\ p \in 1..(Len(rs) + 1)
  /\ q \in p..(Len(rs) + 1)
  /\ \A i \in 1..Len(rs) : i < p => rs[i].end < s
  /\ \A i \in 1..Len(rs) : i >= q => e < rs[i].start

\* The elements of out are those of r and those of rs but for the ranges at p to
\* q - 1.
HasSpliced(out, rs, p, q, r) ==
  \A x : x \in Elems(out) <=>
    x \in Int /\ \/ r.start <= x /\ x < r.end
                 \/ \E i \in 1..Len(rs) :
                      ~(p <= i /\ i < q) /\ rs[i].start <= x /\ x < rs[i].end

\* A range of out starts where one of rs does, or at e.
StartsFrom(out, rs, e) ==
  \A k \in 1..Len(out) :
    out[k].start = e \/ \E i \in 1..Len(rs) : out[k].start = rs[i].start

-----------------------------------------------------------------------------
(* Minima, elements, pieces of vectors *)

\* A range is its bounds.
LEMMA SameRange ==
  ASSUME NEW r \in IntRange, NEW s \in IntRange, r.start = s.start, r.end = s.end
  PROVE  r = s
BY DEF IntRange

\* A canonical vector is one with a gap of 1 at least.
LEMMA CanonIsSpaced ==
  ASSUME NEW rs
  PROVE  Canon(rs) <=> Spaced(1, rs)
<1>1. ASSUME rs \in Seq(IntRange), NEW i \in 1..Len(rs), NEW j \in 1..Len(rs)
      PROVE  rs[i].end < rs[j].start <=> Sep(1, rs[i].end, rs[j].start)
  <2>1. rs[i] \in IntRange /\ rs[j] \in IntRange
    BY <1>1
  <2>2. rs[i].end \in Int /\ rs[j].start \in Int
    BY <2>1 DEF IntRange
  <2> QED
    BY <2>2 DEF Sep
<1> QED
  BY <1>1 DEF Canon, Spaced

\* The vector of the pair that insert returns.
LEMMA VectorOfPair ==
  ASSUME NEW a, NEW b
  PROVE  [ranges |-> a, flag |-> b].ranges = a
OBVIOUS

\* Min finds the least position of a non-empty set of positions.
LEMMA MinOfNats ==
  ASSUME NEW S \in SUBSET Nat, S # {}
  PROVE  Min(S) \in S /\ \A x \in S : Min(S) <= x
<1>1. PICK m \in S : \A y \in S : ~(<<y, m>> \in OpToRel(<, Nat))
  BY NatLessThanWellFounded, WFMin
<1>2. \A y \in S : m <= y
  <2>1. SUFFICES ASSUME NEW y \in S, y < m PROVE FALSE
    OBVIOUS
  <2>2. <<y, m>> \in Nat \X Nat /\ <<y, m>>[1] = y /\ <<y, m>>[2] = m
    OBVIOUS
  <2>3. <<y, m>> \in OpToRel(<, Nat)
    BY <2>1, <2>2, Zenon DEF OpToRel
  <2> QED
    BY <1>1, <2>3
<1> QED
  BY <1>2 DEF Min

\* The smaller and the larger of two integers.
LEMMA MinMaxOfTwo ==
  ASSUME NEW a \in Int, NEW b \in Int
  PROVE  /\ Min({a, b}) = IF a <= b THEN a ELSE b
         /\ Max({a, b}) = IF a >= b THEN a ELSE b
<1>1. Min({a, b}) \in {a, b} /\ \A y \in {a, b} : Min({a, b}) <= y
  BY DEF Min
<1>2. Max({a, b}) \in {a, b} /\ \A y \in {a, b} : Max({a, b}) >= y
  BY DEF Max
<1> QED
  BY <1>1, <1>2

\* The ranges of a vector have integer bounds.
LEMMA BoundsOf ==
  ASSUME NEW rs \in Seq(IntRange), NEW i \in 1..Len(rs)
  PROVE  rs[i] \in IntRange /\ rs[i].start \in Int /\ rs[i].end \in Int
<1>1. rs[i] \in IntRange
  OBVIOUS
<1> QED
  BY <1>1 DEF IntRange

\* The elements of a vector, range by range.
LEMMA ElemsOf ==
  ASSUME NEW rs \in Seq(IntRange), NEW x
  PROVE  x \in Elems(rs) <=>
           x \in Int /\ \E i \in 1..Len(rs) : rs[i].start <= x /\ x < rs[i].end
<1>2. \A i \in 1..Len(rs) : rs[i].start \in Int /\ rs[i].end \in Int
  BY BoundsOf
<1>3. x \in Elems(rs) <=> \E i \in 1..Len(rs) : x \in rs[i].start..(rs[i].end - 1)
  BY DEF Elems
<1> QED
  BY <1>2, <1>3

\* Of two vectors one behind the other: their concatenation.
LEMMA Concat ==
  ASSUME NEW gap, NEW s, NEW t, Spaced(gap, s), Spaced(gap, t), Before(gap, s, t)
  PROVE  /\ Spaced(gap, s \o t)
         /\ Len(s \o t) = Len(s) + Len(t)
         /\ Elems(s \o t) = Elems(s) \cup Elems(t)
<1>1. s \in Seq(IntRange) /\ t \in Seq(IntRange)
  BY DEF Spaced
<1>2. /\ s \o t \in Seq(IntRange)
      /\ Len(s \o t) = Len(s) + Len(t)
      /\ \A i \in 1..Len(s) + Len(t) :
           (s \o t)[i] = IF i <= Len(s) THEN s[i] ELSE t[i - Len(s)]
  BY <1>1, ConcatProperties
<1>3. Len(s) \in Nat /\ Len(t) \in Nat
  BY <1>1
<1>4. Spaced(gap, s \o t)
  <2> DEFINE u == s \o t
  <2>1. ASSUME NEW i \in 1..Len(u)
        PROVE  \/ i \in 1..Len(s) /\ u[i] = s[i]
               \/ i - Len(s) \in 1..Len(t) /\ u[i] = t[i - Len(s)]
    <3>1. i \in 1..Len(s) + Len(t)
      BY <1>2
    <3>2. CASE i <= Len(s)
      BY <1>2, <1>3, <3>1, <3>2
    <3>3. CASE ~(i <= Len(s))
      <4>1. i - Len(s) \in 1..Len(t)
        BY <1>3, <3>1, <3>3
      <4> QED
        BY <1>2, <3>1, <3>3, <4>1
    <3> QED
      BY <3>2, <3>3
  <2>2. \A i \in 1..Len(u) : u[i].start < u[i].end
    BY <2>1 DEF Spaced
  <2>3. ASSUME NEW i \in 1..Len(u), NEW j \in 1..Len(u), i < j
        PROVE  Sep(gap, u[i].end, u[j].start)
    <3>1. CASE i \in 1..Len(s) /\ u[i] = s[i] /\ j \in 1..Len(s) /\ u[j] = s[j]
      BY <2>3, <3>1 DEF Spaced
    <3>2. CASE /\ i \in 1..Len(s) /\ u[i] = s[i]
               /\ j - Len(s) \in 1..Len(t) /\ u[j] = t[j - Len(s)]
      BY <3>2 DEF Before
    <3>3. CASE /\ i - Len(s) \in 1..Len(t) /\ u[i] = t[i - Len(s)]
               /\ j - Len(s) \in 1..Len(t) /\ u[j] = t[j - Len(s)]
      <4>1. i - Len(s) < j - Len(s)
        BY <1>3, <2>3
      <4> QED
        BY <3>3, <4>1 DEF Spaced
    <3>4. ~(i - Len(s) \in 1..Len(t) /\ j \in 1..Len(s))
      BY <1>3, <2>3
    <3> QED
      BY <2>1, <3>1, <3>2, <3>3, <3>4
  <2> QED
    BY <1>2, <2>2, <2>3 DEF Spaced
<1>5. ASSUME NEW x PROVE x \in Elems(s \o t) <=> x \in Elems(s) \/ x \in Elems(t)
  <2>1. ASSUME NEW i \in 1..Len(s) PROVE i \in 1..Len(s \o t) /\ (s \o t)[i] = s[i]
    BY <1>2, <1>3
  <2>2. ASSUME NEW i \in 1..Len(t)
        PROVE  /\ i + Len(s) \in 1..Len(s \o t)
               /\ (s \o t)[i + Len(s)] = t[i]
    <3>1. (i + Len(s)) - Len(s) = i /\ ~(i + Len(s) <= Len(s))
      BY <1>3
    <3> QED
      BY <1>2, <1>3, <3>1
  <2>3. ASSUME x \in Elems(s \o t) PROVE x \in Elems(s) \/ x \in Elems(t)
    <3>1. PICK i \in 1..Len(s \o t) :
            x \in Int /\ (s \o t)[i].start <= x /\ x < (s \o t)[i].end
      BY <1>2, <2>3, ElemsOf
    <3>2. CASE i <= Len(s)
      <4>1. i \in 1..Len(s) /\ (s \o t)[i] = s[i]
        BY <1>2, <1>3, <3>2
      <4> QED
        BY <1>1, <3>1, <4>1, ElemsOf
    <3>3. CASE ~(i <= Len(s))
      <4>1. i - Len(s) \in 1..Len(t) /\ (s \o t)[i] = t[i - Len(s)]
        BY <1>2, <1>3, <3>3
      <4> QED
        BY <1>1, <3>1, <4>1, ElemsOf
    <3> QED
      BY <3>2, <3>3
  <2>4. ASSUME x \in Elems(s) PROVE x \in Elems(s \o t)
    <3>1. PICK i \in 1..Len(s) : x \in Int /\ s[i].start <= x /\ x < s[i].end
      BY <1>1, <2>4, ElemsOf
    <3> QED
      BY <1>2, <2>1, <3>1, ElemsOf
  <2>5. ASSUME x \in Elems(t) PROVE x \in Elems(s \o t)
    <3>1. PICK i \in 1..Len(t) : x \in Int /\ t[i].start <= x /\ x < t[i].end
      BY <1>1, <2>5, ElemsOf
    <3> QED
      BY <1>2, <2>2, <3>1, ElemsOf
  <2> QED
    BY <2>3, <2>4, <2>5
<1> QED
  BY <1>2, <1>4, <1>5

\* Two vectors that lie before a third do so together.
LEMMA BeforeConcat ==
  ASSUME NEW gap, NEW s \in Seq(IntRange), NEW t \in Seq(IntRange), NEW u,
         Before(gap, s, u), Before(gap, t, u)
  PROVE  Before(gap, s \o t, u)
<1>1. /\ Len(s \o t) = Len(s) + Len(t) /\ Len(s) \in Nat /\ Len(t) \in Nat
      /\ \A i \in 1..Len(s) + Len(t) :
           (s \o t)[i] = IF i <= Len(s) THEN s[i] ELSE t[i - Len(s)]
  BY ConcatProperties
<1>2. ASSUME NEW i \in 1..Len(s \o t), NEW j \in 1..Len(u)
      PROVE  Sep(gap, (s \o t)[i].end, u[j].start)
  <2>1. i \in 1..Len(s) + Len(t)
    BY <1>1
  <2>2. CASE i <= Len(s)
    <3>1. i \in 1..Len(s) /\ (s \o t)[i] = s[i]
      BY <1>1, <2>1, <2>2
    <3> QED
      BY <3>1 DEF Before
  <2>3. CASE ~(i <= Len(s))
    <3>1. i - Len(s) \in 1..Len(t)
      BY <1>1, <2>1, <2>3
    <3>2. (s \o t)[i] = t[i - Len(s)]
      BY <1>1, <2>1, <2>3
    <3> QED
      BY <3>1, <3>2 DEF Before
  <2> QED
    BY <2>2, <2>3
<1> QED
  BY <1>2 DEF Before

\* The starts of a concatenation are those of its parts.
LEMMA StartsOfConcat ==
  ASSUME NEW s \in Seq(IntRange), NEW t \in Seq(IntRange), NEW rs, NEW e,
         StartsFrom(s, rs, e), StartsFrom(t, rs, e)
  PROVE  StartsFrom(s \o t, rs, e)
<1>1. /\ Len(s \o t) = Len(s) + Len(t) /\ Len(s) \in Nat /\ Len(t) \in Nat
      /\ \A i \in 1..Len(s) + Len(t) :
           (s \o t)[i] = IF i <= Len(s) THEN s[i] ELSE t[i - Len(s)]
  BY ConcatProperties
<1>2. ASSUME NEW k \in 1..Len(s \o t)
      PROVE  \/ k \in 1..Len(s) /\ (s \o t)[k] = s[k]
             \/ k - Len(s) \in 1..Len(t) /\ (s \o t)[k] = t[k - Len(s)]
  <2>1. k \in 1..Len(s) + Len(t)
    BY <1>1
  <2>2. CASE k <= Len(s)
    BY <1>1, <2>1, <2>2
  <2>3. CASE ~(k <= Len(s))
    <3>1. k - Len(s) \in 1..Len(t)
      BY <1>1, <2>1, <2>3
    <3> QED
      BY <1>1, <2>1, <2>3, <3>1
  <2> QED
    BY <2>2, <2>3
<1> QED
  BY <1>2 DEF StartsFrom

\* piece holds the ranges at positions m to n of the vector rs.
IsPiece(gap, piece, rs, m, n) ==
  /\ Spaced(gap, piece)
  /\ \A k \in 1..Len(piece) : m + k - 1 \in m..n /\ piece[k] = rs[m + k - 1]
  /\ \A i \in m..n : i - m + 1 \in 1..Len(piece) /\ piece[i - m + 1] = rs[i]
  /\ \A x : x \in Elems(piece) <=>
       x \in Int /\ \E i \in m..n : rs[i].start <= x /\ x < rs[i].end

\* What ends no later is no less far from what follows.
LEMMA SepFromEarlier ==
  ASSUME NEW gap, NEW d \in Int, NEW e \in Int, NEW s \in Int, d <= e, Sep(gap, e, s)
  PROVE  Sep(gap, d, s)
BY DEF Sep

\* A piece of a vector is a vector; its ranges are those at its positions.
LEMMA Piece ==
  ASSUME NEW gap, NEW rs, Spaced(gap, rs), NEW m \in 1..(Len(rs) + 1), NEW n \in 0..Len(rs)
  PROVE  IsPiece(gap, SubSeq(rs, m, n), rs, m, n)
<1> DEFINE p == SubSeq(rs, m, n)
<1>1. rs \in Seq(IntRange) /\ Len(rs) \in Nat
  BY DEF Spaced
<1>2. /\ p \in Seq(IntRange)
      /\ Len(p) = IF m <= n THEN n - m + 1 ELSE 0
      /\ \A i \in 1..n - m + 1 : p[i] = rs[m + i - 1]
  <2>1. \A i \in m..n : rs[i] \in IntRange
    BY <1>1
  <2> QED
    BY <2>1, <1>1, SubSeqProperties
<1> HIDE DEF p
<1>3. \A k \in 1..Len(p) : m + k - 1 \in m..n /\ p[k] = rs[m + k - 1]
  BY <1>1, <1>2
<1>4. ASSUME NEW i \in m..n
      PROVE  i - m + 1 \in 1..Len(p) /\ p[i - m + 1] = rs[i]
  <2>1. i - m + 1 \in 1..(n - m + 1) /\ m <= n
    BY <1>1
  <2>2. m + (i - m + 1) - 1 = i
    BY <1>1
  <2> QED
    BY <1>2, <2>1, <2>2
<1>5. Spaced(gap, p)
  <2>1. \A k \in 1..Len(p) : m + k - 1 \in 1..Len(rs)
    BY <1>1, <1>3
  <2>2. \A k, l \in 1..Len(p) : k < l => m + k - 1 < m + l - 1
    BY <1>1, <1>2
  <2> QED
    BY <1>2, <1>3, <2>1, <2>2 DEF Spaced
<1>6. \A x : x \in Elems(p) <=>
        x \in Int /\ \E i \in m..n : rs[i].start <= x /\ x < rs[i].end
  <2>1. \A x : x \in Elems(p) <=>
          x \in Int /\ \E k \in 1..Len(p) : p[k].start <= x /\ x < p[k].end
    BY <1>2, ElemsOf
  <2> QED
    BY <1>3, <1>4, <2>1, Zenon
<1> QED
  <2>1. IsPiece(gap, p, rs, m, n)
    BY <1>3, <1>4, <1>5, <1>6, Zenon DEF IsPiece
  <2> QED
    BY <2>1 DEF p

\* The first position of a set of positions, or the end iterator.
LEMMA FirstOf ==
  ASSUME NEW n \in Nat, NEW P \in SUBSET (1..n), NEW p, p = Min(P \cup {n + 1})
  PROVE  /\ p \in 1..(n + 1)
         /\ p # n + 1 => p \in P
         /\ \A i \in 1..n : i < p => i \notin P
<1>1. P \cup {n + 1} \in SUBSET Nat /\ P \cup {n + 1} # {}
  OBVIOUS
<1>2. p \in P \cup {n + 1} /\ \A x \in P \cup {n + 1} : p <= x
  BY <1>1, MinOfNats
<1> QED
  BY <1>2

\* A vector of one range.
LEMMA Single ==
  ASSUME NEW gap, NEW r \in IntRange, r.start < r.end
  PROVE  /\ Spaced(gap, <<r>>)
         /\ Len(<<r>>) = 1
         /\ <<r>>[1] = r
         /\ Elems(<<r>>) = r.start..(r.end - 1)
<1> DEFINE s == <<r>>
<1>1. s \in Seq(IntRange) /\ Len(s) = 1 /\ s[1] = r
  OBVIOUS
<1> HIDE DEF s
<1>2. Spaced(gap, s)
  BY <1>1 DEF Spaced
<1>3. r.start \in Int /\ r.end \in Int
  BY DEF IntRange
<1>4. \A x : x \in Elems(s) <=> x \in Int /\ r.start <= x /\ x < r.end
  BY <1>1, ElemsOf
<1>5. \A x : x \in Elems(s) <=> x \in r.start..(r.end - 1)
  BY <1>3, <1>4
<1>6. Elems(s) = r.start..(r.end - 1)
  BY <1>5, Zenon
<1> QED
  BY <1>1, <1>2, <1>6 DEF s

\* The empty vector.
LEMMA Empty ==
  ASSUME NEW gap
  PROVE  /\ Spaced(gap, <<>>)
         /\ Elems(<<>>) = {}
<1> DEFINE s == <<>>
<1>1. s \in Seq(IntRange) /\ Len(s) = 0
  OBVIOUS
<1> HIDE DEF s
<1>2. ASSUME NEW x PROVE x \notin Elems(s)
  <2>1. x \in Elems(s) => \E i \in 1..Len(s) : s[i].start <= x
    BY <1>1, ElemsOf
  <2> QED
    BY <1>1, <2>1
<1>3. Spaced(gap, s) /\ Elems(s) = {}
  BY <1>1, <1>2 DEF Spaced
<1> QED
  BY <1>3 DEF s

\* A range between two pieces of a vector: what both ways of insert build.
LEMMA Splice ==
  ASSUME NEW rs, Canon(rs), NEW p, NEW q, NEW r \in IntRange, r.start < r.end,
         Apart(rs, p, q, r.start, r.end),
         NEW out, out = SubSeq(rs, 1, p - 1) \o <<r>> \o SubSeq(rs, q, Len(rs))
  PROVE  Canon(out) /\ HasSpliced(out, rs, p, q, r)
<1> p \in 1..(Len(rs) + 1) /\ q \in p..(Len(rs) + 1)
  BY DEF Apart
<1>0. /\ \A i \in 1..Len(rs) : i < p => rs[i].end < r.start
      /\ \A i \in 1..Len(rs) : i >= q => r.end < rs[i].start
  BY DEF Apart
<1> DEFINE left == SubSeq(rs, 1, p - 1)
           right == SubSeq(rs, q, Len(rs))
<1>1. rs \in Seq(IntRange) /\ Len(rs) \in Nat
  BY DEF Canon
<1>2. \A i \in 1..Len(rs) : rs[i].start \in Int /\ rs[i].end \in Int
  BY <1>1, BoundsOf
<1>3. r.start \in Int /\ r.end \in Int
  BY DEF IntRange
<1>4. /\ 1 \in 1..(Len(rs) + 1) /\ p - 1 \in 0..Len(rs)
      /\ q \in 1..(Len(rs) + 1) /\ Len(rs) \in 0..Len(rs)
  BY <1>1
<1>p. Spaced(1, rs)
  BY CanonIsSpaced
<1>5. IsPiece(1, left, rs, 1, p - 1)
  BY <1>4, <1>p, Piece
<1>6. IsPiece(1, right, rs, q, Len(rs))
  BY <1>4, <1>p, Piece
<1>7. out = left \o <<r>> \o right
  OBVIOUS
<1> HIDE DEF left, right
<1>l. /\ Canon(left)
      /\ \A k \in 1..Len(left) : 1 + k - 1 \in 1..(p - 1) /\ left[k] = rs[1 + k - 1]
      /\ \A x : x \in Elems(left) <=>
           x \in Int /\ \E i \in 1..(p - 1) : rs[i].start <= x /\ x < rs[i].end
  BY <1>5, CanonIsSpaced, Zenon DEF IsPiece
<1>r. /\ Canon(right)
      /\ \A k \in 1..Len(right) : q + k - 1 \in q..Len(rs) /\ right[k] = rs[q + k - 1]
      /\ \A x : x \in Elems(right) <=>
           x \in Int /\ \E i \in q..Len(rs) : rs[i].start <= x /\ x < rs[i].end
  BY <1>6, CanonIsSpaced, Zenon DEF IsPiece
<1>8. /\ Canon(<<r>>) /\ Len(<<r>>) = 1 /\ <<r>>[1] = r
      /\ Elems(<<r>>) = r.start..(r.end - 1)
  BY Single, CanonIsSpaced
<1>9. Before(1, left, <<r>>)
  <2>1. ASSUME NEW k \in 1..Len(left) PROVE Sep(1, left[k].end, r.start)
    <3>1. /\ left[k] = rs[1 + k - 1] /\ 1 + k - 1 \in 1..Len(rs)
          /\ left[k].end < r.start
      BY <1>0, <1>1, <1>l
    <3> QED
      BY <1>2, <1>3, <3>1 DEF Sep
  <2> QED
    BY <1>8, <2>1 DEF Before
<1>10. /\ Canon(left \o <<r>>)
       /\ Len(left \o <<r>>) = Len(left) + 1
       /\ Elems(left \o <<r>>) = Elems(left) \cup Elems(<<r>>)
  BY <1>l, <1>8, <1>9, Concat, CanonIsSpaced
<1>11. Before(1, left \o <<r>>, right)
  <2>1. left \in Seq(IntRange) /\ <<r>> \in Seq(IntRange)
    BY <1>l, <1>8 DEF Canon
  <2>2. Before(1, <<r>>, right)
    <3>1. ASSUME NEW l \in 1..Len(right) PROVE Sep(1, r.end, right[l].start)
      <4>1. /\ right[l] = rs[q + l - 1] /\ q + l - 1 \in 1..Len(rs)
            /\ r.end < right[l].start
        <5>1. /\ right[l] = rs[q + l - 1] /\ q + l - 1 \in q..Len(rs)
          BY <1>r
        <5>2. q + l - 1 \in 1..Len(rs) /\ q + l - 1 >= q
          BY <1>1, <5>1
        <5> QED
          BY <1>0, <5>1, <5>2
      <4> QED
        BY <1>2, <1>3, <4>1 DEF Sep
    <3> QED
      BY <1>8, <3>1 DEF Before
  <2>3. Before(1, left, right)
    <3>1. ASSUME NEW k \in 1..Len(left), NEW l \in 1..Len(right)
          PROVE  Sep(1, left[k].end, right[l].start)
      <4>1. /\ left[k] = rs[1 + k - 1] /\ 1 + k - 1 \in 1..Len(rs)
            /\ left[k].end < r.start
        <5>1. left[k] = rs[1 + k - 1] /\ 1 + k - 1 \in 1..(p - 1)
          BY <1>l
        <5>2. 1 + k - 1 \in 1..Len(rs) /\ 1 + k - 1 < p
          BY <1>1, <5>1
        <5> QED
          BY <1>0, <5>1, <5>2
      <4>2. /\ right[l] = rs[q + l - 1] /\ q + l - 1 \in 1..Len(rs)
            /\ r.end < right[l].start
        <5>1. right[l] = rs[q + l - 1] /\ q + l - 1 \in q..Len(rs)
          BY <1>r
        <5>2. q + l - 1 \in 1..Len(rs) /\ q + l - 1 >= q
          BY <1>1, <5>1
        <5> QED
          BY <1>0, <5>1, <5>2
      <4>3. left[k].end \in Int /\ right[l].start \in Int
        BY <1>2, <4>1, <4>2
      <4> QED
        <5>1. \A x, y, z \in Int : x < y /\ y < z => x < z
          OBVIOUS
        <5>2. left[k].end < right[l].start
          BY <1>3, <4>1, <4>2, <4>3, <5>1, Zenon
        <5> QED
          BY <4>3, <5>2 DEF Sep
    <3> QED
      BY <3>1 DEF Before
  <2> QED
    BY <2>1, <2>2, <2>3, BeforeConcat
<1>12. /\ Canon(out)
       /\ Elems(out) = Elems(left) \cup Elems(<<r>>) \cup Elems(right)
  <2> DEFINE lr == left \o <<r>>
  <2>1. /\ Spaced(1, lr) /\ Spaced(1, right) /\ Before(1, lr, right)
        /\ out = lr \o right
    BY <1>r, <1>7, <1>10, <1>11, CanonIsSpaced
  <2> HIDE DEF lr
  <2>2. /\ Spaced(1, lr \o right)
        /\ Len(lr \o right) = Len(lr) + Len(right)
        /\ Elems(lr \o right) = Elems(lr) \cup Elems(right)
    <3> SUFFICES ASSUME NEW s, s = lr, NEW t, t = right
                 PROVE  /\ Spaced(1, s \o t)
                        /\ Len(s \o t) = Len(s) + Len(t)
                        /\ Elems(s \o t) = Elems(s) \cup Elems(t)
      OBVIOUS
    <3>1. Spaced(1, s) /\ Spaced(1, t) /\ Before(1, s, t)
      BY <2>1
    <3> QED
      BY <3>1, Concat
  <2> QED
    BY <1>10, <2>1, <2>2, CanonIsSpaced DEF lr
<1>13. ASSUME NEW x
       PROVE  x \in Elems(out) <=>
                x \in Int /\ \/ r.start <= x /\ x < r.end
                             \/ \E i \in 1..Len(rs) :
                                  ~(p <= i /\ i < q) /\ rs[i].start <= x /\ x < rs[i].end
  <2>1. x \in Elems(<<r>>) <=> x \in Int /\ r.start <= x /\ x < r.end
    BY <1>3, <1>8
  <2>2. \A i \in 1..Len(rs) : ~(p <= i /\ i < q) <=> i \in 1..(p - 1) \/ i \in q..Len(rs)
    BY <1>1
  <2>3. \A i : i \in 1..(p - 1) \/ i \in q..Len(rs) => i \in 1..Len(rs)
    BY <1>1
  <2> QED
    BY <1>l, <1>r, <1>12, <2>1, <2>2, <2>3
<1> QED
  BY <1>12, <1>13 DEF HasSpliced

-----------------------------------------------------------------------------
(* insert *)

\* The ranges that insert merges with r are those that meet or touch r; the
\* others lie strictly before or behind it.
LEMMA MergedPositions ==
  ASSUME NEW rs, Canon(rs), NEW r \in IntRange, r.start < r.end,
         NEW p, p = FirstNotEndingBefore(rs, r.start),
         NEW q, q = FirstStartingAfter(rs, r.end)
  PROVE  /\ Apart(rs, p, q, r.start, r.end)
         /\ \A i \in 1..Len(rs) :
              p <= i /\ i < q => r.start <= rs[i].end /\ rs[i].start <= r.end
<1>1. rs \in Seq(IntRange) /\ Len(rs) \in Nat
  BY DEF Canon
<1>2. \A i \in 1..Len(rs) : rs[i].start \in Int /\ rs[i].end \in Int
  BY <1>1, BoundsOf
<1>3. r.start \in Int /\ r.end \in Int
  BY DEF IntRange
<1> DEFINE P == {i \in 1..Len(rs) : ~(rs[i].end < r.start)}
           Q == {i \in 1..Len(rs) : r.end < rs[i].start}
<1>4. /\ P \in SUBSET (1..Len(rs)) /\ p = Min(P \cup {Len(rs) + 1})
      /\ Q \in SUBSET (1..Len(rs)) /\ q = Min(Q \cup {Len(rs) + 1})
      /\ \A i \in 1..Len(rs) : i \in P <=> ~(rs[i].end < r.start)
      /\ \A i \in 1..Len(rs) : i \in Q <=> r.end < rs[i].start
  BY DEF FirstNotEndingBefore, FirstStartingAfter
<1> HIDE DEF P, Q
<1>5. /\ p \in 1..(Len(rs) + 1) /\ (p # Len(rs) + 1 => p \in P)
      /\ \A i \in 1..Len(rs) : i < p => i \notin P
  BY <1>1, <1>4, FirstOf
<1>6. /\ q \in 1..(Len(rs) + 1) /\ (q # Len(rs) + 1 => q \in Q)
      /\ \A i \in 1..Len(rs) : i < q => i \notin Q
  BY <1>1, <1>4, FirstOf
<1>7. \A i \in 1..Len(rs) : i < p => rs[i].end < r.start
  BY <1>4, <1>5
<1>8. ASSUME NEW i \in 1..Len(rs), i >= p PROVE r.start <= rs[i].end
  <2>1. p \in 1..Len(rs) /\ ~(rs[p].end < r.start)
    BY <1>1, <1>4, <1>5, <1>8
  <2>2. i = p \/ (rs[p].end < rs[i].start /\ rs[i].start < rs[i].end)
    BY <1>1, <1>8, <2>1 DEF Canon
  <2> QED
    BY <1>2, <1>3, <2>1, <2>2
<1>9. ASSUME NEW i \in 1..Len(rs), i >= q PROVE r.end < rs[i].start
  <2>1. q \in 1..Len(rs) /\ r.end < rs[q].start
    BY <1>1, <1>4, <1>6, <1>9
  <2>2. i = q \/ (rs[q].start < rs[q].end /\ rs[q].end < rs[i].start)
    BY <1>1, <1>9, <2>1 DEF Canon
  <2> QED
    BY <1>2, <1>3, <2>1, <2>2
<1>10. ASSUME NEW i \in 1..Len(rs), i < q PROVE rs[i].start <= r.end
  <2>1. ~(r.end < rs[i].start)
    BY <1>4, <1>6, <1>10
  <2> QED
    BY <1>2, <1>3, <2>1
<1>11. p <= q
  <2>1. SUFFICES ASSUME q < p PROVE FALSE
    BY <1>5, <1>6
  <2>2. q \in 1..Len(rs)
    BY <1>1, <1>5, <1>6, <2>1
  <2>3. rs[q].end < r.start /\ r.end < rs[q].start /\ rs[q].start < rs[q].end
    BY <1>7, <1>9, <2>1, <2>2 DEF Canon
  <2> QED
    BY <1>2, <1>3, <2>2, <2>3
<1> QED
  BY <1>1, <1>5, <1>6, <1>7, <1>8, <1>9, <1>10, <1>11 DEF Apart

\* insert keeps the vector canonical, adds exactly the elements of r, and
\* returns TRUE if and only if one of them was not there.
LEMMA InsertAddsTheRange ==
  ASSUME NEW rs, Canon(rs), NEW r \in IntRange, r.start < r.end
  PROVE  /\ Canon(InsertRange(rs, r).ranges)
         /\ Elems(InsertRange(rs, r).ranges) = Elems(rs) \cup (r.start..(r.end - 1))
         /\ InsertRange(rs, r).flag =
              (Elems(InsertRange(rs, r).ranges) # Elems(rs))
<1> DEFINE p == FirstNotEndingBefore(rs, r.start)
           q == FirstStartingAfter(rs, r.end)
           m == MkRange(Min({r.start, rs[p].start}), Max({r.end, rs[q - 1].end}))
           new == InsertRange(rs, r).ranges
           flag == InsertRange(rs, r).flag
<1>1. rs \in Seq(IntRange) /\ Len(rs) \in Nat
  BY DEF Canon
<1>2. \A i \in 1..Len(rs) : rs[i].start \in Int /\ rs[i].end \in Int
  BY <1>1, BoundsOf
<1>3. r.start \in Int /\ r.end \in Int
  BY DEF IntRange
<1>0. /\ Apart(rs, p, q, r.start, r.end)
      /\ \A i \in 1..Len(rs) :
           p <= i /\ i < q => r.start <= rs[i].end /\ rs[i].start <= r.end
  BY MergedPositions
<1>4. /\ p \in 1..(Len(rs) + 1)
      /\ q \in p..(Len(rs) + 1)
      /\ \A i \in 1..Len(rs) : i < p => rs[i].end < r.start
      /\ \A i \in 1..Len(rs) : i >= q => r.end < rs[i].start
      /\ \A i \in 1..Len(rs) :
           p <= i /\ i < q => r.start <= rs[i].end /\ rs[i].start <= r.end
  BY <1>0 DEF Apart
<1>5. InsertRange(rs, r) =
        IF p = q
        THEN [ranges |-> SubSeq(rs, 1, p - 1) \o <<r>> \o SubSeq(rs, p, Len(rs)),
              flag |-> TRUE]
        ELSE [ranges |-> SubSeq(rs, 1, p - 1) \o <<m>> \o SubSeq(rs, q, Len(rs)),
              flag |-> rs[p] # m]
  BY DEF InsertRange, InsertAt
<1> HIDE DEF p, q, m
<1>6. CASE p = q
  <2>1. new = SubSeq(rs, 1, p - 1) \o <<r>> \o SubSeq(rs, q, Len(rs)) /\ flag = TRUE
    <3>1. InsertRange(rs, r) =
            [ranges |-> SubSeq(rs, 1, p - 1) \o <<r>> \o SubSeq(rs, p, Len(rs)),
             flag |-> TRUE]
      BY <1>5, <1>6, Zenon
    <3>2. new = SubSeq(rs, 1, p - 1) \o <<r>> \o SubSeq(rs, p, Len(rs))
      BY <3>1, VectorOfPair, Zenon
    <3>3. flag = TRUE
      BY <3>1
    <3> QED
      BY <1>6, <3>2, <3>3, Zenon
  <2> HIDE DEF new, flag
  <2>2. Canon(new) /\ HasSpliced(new, rs, p, q, r)
    BY <1>0, <2>1, Splice
  <2>3. \A i \in 1..Len(rs) : ~(p <= i /\ i < q)
    BY <1>1, <1>4, <1>6
  <2>4. \A x : x \in Elems(new) <=> x \in Elems(rs) \/ x \in r.start..(r.end - 1)
    BY <1>1, <1>3, <2>2, <2>3, ElemsOf DEF HasSpliced
  <2>5. r.start \notin Elems(rs) /\ r.start \in r.start..(r.end - 1)
    <3>1. ASSUME NEW i \in 1..Len(rs), rs[i].start <= r.start, r.start < rs[i].end
          PROVE  FALSE
      <4>1. rs[i].end < r.start \/ r.end < rs[i].start
        BY <1>1, <1>4, <1>6
      <4> QED
        BY <1>2, <1>3, <3>1, <4>1
    <3> QED
      BY <1>1, <1>3, <3>1, ElemsOf
  <2>6. Elems(new) = Elems(rs) \cup (r.start..(r.end - 1))
    BY <2>4, Zenon
  <2>7. Elems(new) # Elems(rs)
    BY <2>4, <2>5
  <2> QED
    BY <2>1, <2>2, <2>6, <2>7 DEF new, flag
<1>7. CASE p # q
  <2>1. p \in 1..Len(rs) /\ q - 1 \in p..Len(rs) /\ q - 1 \in 1..Len(rs)
    BY <1>1, <1>4, <1>7
  <2>2. /\ m = [start |-> IF r.start <= rs[p].start THEN r.start ELSE rs[p].start,
                end |-> IF r.end >= rs[q - 1].end THEN r.end ELSE rs[q - 1].end]
    BY <1>2, <1>3, <2>1, MinMaxOfTwo DEF m, MkRange
  <2>3. /\ m \in IntRange
        /\ m.start <= r.start /\ m.start <= rs[p].start
        /\ m.start = r.start \/ m.start = rs[p].start
        /\ m.end >= r.end /\ m.end >= rs[q - 1].end
        /\ m.end = r.end \/ m.end = rs[q - 1].end
    BY <1>2, <1>3, <2>1, <2>2 DEF IntRange
  <2>4. m.start \in Int /\ m.end \in Int /\ m.start < m.end
    BY <1>3, <2>3 DEF IntRange
  <2>5. new = SubSeq(rs, 1, p - 1) \o <<m>> \o SubSeq(rs, q, Len(rs)) /\ flag = (rs[p] # m)
    <3>1. InsertRange(rs, r) =
            [ranges |-> SubSeq(rs, 1, p - 1) \o <<m>> \o SubSeq(rs, q, Len(rs)),
             flag |-> rs[p] # m]
      BY <1>5, <1>7, Zenon
    <3>2. new = SubSeq(rs, 1, p - 1) \o <<m>> \o SubSeq(rs, q, Len(rs))
      BY <3>1, VectorOfPair, Zenon
    <3>3. flag = (rs[p] # m)
      BY <3>1
    <3> QED
      BY <3>2, <3>3, Zenon
  <2> HIDE DEF new, flag
  <2>6. \A i \in 1..Len(rs) : i < p => rs[i].end < m.start
    BY <1>1, <1>2, <1>3, <1>4, <2>1, <2>3 DEF Canon
  <2>7. \A i \in 1..Len(rs) : i >= q => m.end < rs[i].start
    <3>1. \A i \in 1..Len(rs) : i >= q => q - 1 < i
      BY <1>1, <1>4
    <3>2. \A i \in 1..Len(rs) : i >= q => rs[q - 1].end < rs[i].start
      BY <2>1, <3>1 DEF Canon
    <3> QED
      BY <1>4, <2>3, <3>2
  <2>8. Canon(new) /\ HasSpliced(new, rs, p, q, m)
    <3>1. Apart(rs, p, q, m.start, m.end)
      BY <1>4, <2>6, <2>7 DEF Apart
    <3> QED
      BY <2>3, <2>4, <2>5, <3>1, Splice
  \* What is merged is r, and the ranges that meet or touch it.
  <2>9. ASSUME NEW x \in Int, m.start <= x, x < m.end
        PROVE  \/ r.start <= x /\ x < r.end
               \/ \E i \in 1..Len(rs) : rs[i].start <= x /\ x < rs[i].end
    <3>1. CASE x < r.start
      <4>1. rs[p].start <= x /\ r.start <= rs[p].end
        BY <1>2, <1>3, <1>4, <1>7, <2>1, <2>3, <2>4, <2>9, <3>1
      <4> QED
        BY <1>2, <1>3, <2>1, <3>1, <4>1
    <3>2. CASE x >= r.end
      <4>1. q - 1 < q /\ p <= q - 1
        BY <1>1, <1>4, <2>1
      <4>2. x < rs[q - 1].end /\ rs[q - 1].start <= r.end
        BY <1>2, <1>3, <1>4, <2>1, <2>3, <2>4, <2>9, <3>2, <4>1
      <4> QED
        BY <1>2, <1>3, <2>1, <3>2, <4>2
    <3> QED
      BY <1>3, <3>1, <3>2
  <2>10. ASSUME NEW x \in Int, NEW i \in 1..Len(rs), p <= i, i < q,
                rs[i].start <= x, x < rs[i].end
         PROVE  m.start <= x /\ x < m.end
    <3>1. i = p \/ (rs[p].start < rs[p].end /\ rs[p].end < rs[i].start)
      BY <1>1, <1>4, <2>1, <2>10 DEF Canon
    <3>2. i = q - 1 \/ (rs[i].end < rs[q - 1].start /\ rs[q - 1].start < rs[q - 1].end)
      BY <1>1, <1>4, <2>1, <2>10 DEF Canon
    <3>3. rs[p].start <= rs[i].start /\ rs[i].end <= rs[q - 1].end
      BY <1>2, <2>1, <3>1, <3>2
    <3>4. m.start <= rs[i].start /\ rs[i].end <= m.end
      BY <1>2, <2>1, <2>3, <2>4, <3>3
    <3> QED
      BY <1>2, <2>4, <2>10, <3>4
  <2>11. \A x \in Int : r.start <= x /\ x < r.end => m.start <= x /\ x < m.end
    BY <1>3, <2>3, <2>4
  <2>12. ASSUME NEW x
         PROVE  x \in Elems(new) <=> x \in Elems(rs) \/ x \in r.start..(r.end - 1)
    <3>1. x \in Elems(new) =>
            x \in Int /\ \/ m.start <= x /\ x < m.end
                         \/ \E i \in 1..Len(rs) : rs[i].start <= x /\ x < rs[i].end
      BY <2>8 DEF HasSpliced
    <3>2. x \in Elems(rs) <=>
            x \in Int /\ \E i \in 1..Len(rs) : rs[i].start <= x /\ x < rs[i].end
      BY <1>1, ElemsOf
    <3>3. x \in r.start..(r.end - 1) <=> x \in Int /\ r.start <= x /\ x < r.end
      BY <1>3
    <3>4. x \in Elems(new) => x \in Elems(rs) \/ x \in r.start..(r.end - 1)
      BY <2>9, <3>1, <3>2, <3>3
    <3>5. x \in r.start..(r.end - 1) => x \in Elems(new)
      BY <2>8, <2>11, <3>3 DEF HasSpliced
    <3>6. x \in Elems(rs) => x \in Elems(new)
      BY <2>8, <2>10, <3>2 DEF HasSpliced
    <3> QED
      BY <3>4, <3>5, <3>6
  <2>13. Elems(new) = Elems(rs) \cup (r.start..(r.end - 1))
    BY <2>12, Zenon
  <2>14. CASE rs[p] = m
    <3>1. \A x \in r.start..(r.end - 1) : x \in Int /\ rs[p].start <= x /\ x < rs[p].end
      BY <1>3, <2>11, <2>14
    <3>2. \A x \in r.start..(r.end - 1) : x \in Elems(rs)
      BY <1>1, <2>1, <3>1, ElemsOf
    <3>3. Elems(new) = Elems(rs)
      BY <2>12, <3>2
    <3> QED
      BY <2>5, <2>8, <2>13, <2>14, <3>3 DEF new, flag
  <2>15. CASE rs[p] # m
    \* Either r begins before the first merged range, or it reaches beyond the
    \* end of that range, where there was a gap.
    <3>1. ASSUME m.start # rs[p].start PROVE Elems(new) # Elems(rs)
      <4>1. r.start < rs[p].start
        BY <1>2, <1>3, <2>1, <2>3, <2>4, <3>1
      <4>2. ASSUME NEW i \in 1..Len(rs), rs[i].start <= r.start, r.start < rs[i].end
            PROVE  FALSE
        <5>1. rs[i].end < r.start \/ i = p
              \/ (rs[p].start < rs[p].end /\ rs[p].end < rs[i].start)
          BY <1>1, <1>4, <2>1 DEF Canon
        <5> QED
          BY <1>2, <1>3, <2>1, <4>1, <4>2, <5>1
      <4>3. r.start \notin Elems(rs) /\ r.start \in r.start..(r.end - 1)
        BY <1>1, <1>3, <4>2, ElemsOf
      <4> QED
        BY <2>13, <4>3, Zenon
    <3>2. ASSUME m.end # rs[p].end PROVE Elems(new) # Elems(rs)
      <4>1. rs[p].end < r.end
        <5>1. q - 1 = p \/ (/\ rs[p].end < rs[q - 1].start
                            /\ p <= q - 1 /\ q - 1 < q)
          BY <1>1, <1>4, <2>1 DEF Canon
        <5>2. q - 1 = p \/ (rs[p].end < rs[q - 1].start /\ rs[q - 1].start <= r.end)
          BY <1>4, <2>1, <5>1
        <5> QED
          BY <1>2, <1>3, <2>1, <2>3, <2>4, <3>2, <5>2
      <4>2. r.start <= rs[p].end
        BY <1>4, <1>7, <2>1
      <4>3. ASSUME NEW i \in 1..Len(rs), rs[i].start <= rs[p].end, rs[p].end < rs[i].end
            PROVE  FALSE
        <5>1. i = p \/ rs[p].end < rs[i].start
              \/ (rs[i].end < rs[p].start /\ rs[p].start < rs[p].end)
          BY <1>1, <2>1 DEF Canon
        <5> QED
          BY <1>2, <2>1, <4>3, <5>1
      <4>4. rs[p].end \notin Elems(rs)
        BY <1>1, <4>3, ElemsOf
      <4>5. rs[p].end \in r.start..(r.end - 1)
        BY <1>2, <1>3, <2>1, <4>1, <4>2
      <4> QED
        BY <2>12, <4>4, <4>5
    <3>3. m.start # rs[p].start \/ m.end # rs[p].end
      BY <1>1, <2>1, <2>3, <2>15, BoundsOf, SameRange
    <3>4. Elems(new) # Elems(rs)
      BY <3>1, <3>2, <3>3
    <3> QED
      BY <2>5, <2>8, <2>13, <2>15, <3>4 DEF new, flag
  <2> QED
    BY <2>14, <2>15
<1> QED
  BY <1>6, <1>7

-----------------------------------------------------------------------------
(* remove *)

\* A sequence of vectors that are empty but for the first and the last.
LEMMA FlattenEnds ==
  ASSUME NEW T, NEW n \in Nat \ {0}, NEW S \in [1..n -> Seq(T)],
         \A i \in 2..(n - 1) : S[i] = <<>>
  PROVE  FlattenSeq(S) = IF n = 1 THEN S[1] ELSE S[1] \o S[n]
<1> DEFINE Def(f) == f = [i \in 1..n |-> IF i = 1 THEN S[i] ELSE f[i - 1] \o S[i]]
           g == [i \in 1..n |-> IF i = 1 THEN S[1] ELSE S[1] \o S[i]]
           f == CHOOSE h : Def(h)
<1>1. S \in Seq(Seq(T)) /\ Len(S) = n
  OBVIOUS
<1>2. FlattenSeq(S) = f[n]
  BY <1>1 DEF FlattenSeq
<1>3. \A i \in 1..n : S[i] \in Seq(T)
  OBVIOUS
<1>4. ASSUME NEW i \in 1..n, i # 1 PROVE g[i] = g[i - 1] \o S[i]
  <2>1. i - 1 \in 1..n
    BY <1>4
  <2>2. CASE i - 1 = 1
    BY <1>4, <2>1, <2>2
  <2>3. CASE i - 1 # 1
    <3>1. S[i - 1] = <<>>
      BY <1>4, <2>1, <2>3
    <3>2. g[i - 1] = S[1] \o S[i - 1] /\ g[i] = S[1] \o S[i]
      BY <1>4, <2>1, <2>3
    <3>3. S[1] \o <<>> = S[1]
      BY <1>3, ConcatEmptySeq
    <3> QED
      BY <3>1, <3>2, <3>3
  <2> QED
    BY <2>2, <2>3
<1>5. Def(g)
  <2>1. g[1] = S[1]
    OBVIOUS
  <2>2. \A i \in 1..n : g[i] = IF i = 1 THEN S[i] ELSE g[i - 1] \o S[i]
    BY <1>4, <2>1
  <2> HIDE DEF g
  <2>3. g = [i \in 1..n |-> g[i]]
    BY DEF g
  <2> QED
    BY <2>2, <2>3, Zenon
<1>6. Def(f)
  BY <1>5, Zenon
<1> HIDE DEF f
<1>7. \A i \in 1..n : f[i] = IF i = 1 THEN S[i] ELSE f[i - 1] \o S[i]
  BY <1>6, Zenon
<1>8. \A i \in 1..n : f[i] = g[i]
  <2> DEFINE Wrong == {i \in 1..n : f[i] # g[i]}
  <2>1. SUFFICES ASSUME Wrong # {} PROVE FALSE
    OBVIOUS
  <2>2. PICK m \in Wrong : \A i \in Wrong : m <= i
    <3>1. Wrong \in SUBSET Nat
      OBVIOUS
    <3> QED
      BY <2>1, <3>1, MinOfNats
  <2>3. m # 1
    BY <1>7, <2>2
  <2>4. m - 1 \in 1..n /\ m - 1 \notin Wrong
    BY <2>2, <2>3
  <2>5. f[m - 1] = g[m - 1]
    BY <2>4
  <2>6. f[m] = f[m - 1] \o S[m] /\ g[m] = g[m - 1] \o S[m]
    BY <1>4, <1>7, <2>2, <2>3
  <2> QED
    BY <2>2, <2>5, <2>6
<1>9. f[n] = g[n]
  BY <1>8
<1> QED
  BY <1>2, <1>9

\* mid is what remove leaves of the ranges of rs at p to q - 1.
LeftOf(gap, mid, rs, p, q, r) ==
  /\ Spaced(gap, mid)
  /\ \A k \in 1..Len(mid) : \E i \in p..(q - 1) :
       rs[i].start <= mid[k].start /\ mid[k].end <= rs[i].end
  /\ \A k \in 1..Len(mid) :
       mid[k].start = r.end \/ \E i \in 1..Len(rs) : mid[k].start = rs[i].start
  /\ \A x : x \in Elems(mid) <=>
       /\ x \in Int /\ ~(r.start <= x /\ x < r.end)
       /\ \E i \in p..(q - 1) : rs[i].start <= x /\ x < rs[i].end

\* What is left of one range: up to two ranges within it, without what is
\* removed.
LEMMA CutLeavesTheRest ==
  ASSUME NEW gap, NEW old \in IntRange, old.start < old.end,
         NEW r \in IntRange, Sep(gap, r.start, r.end), old.start < r.end
  PROVE  /\ Spaced(gap, CutRange(old, r))
         /\ \A k \in 1..Len(CutRange(old, r)) :
              /\ old.start <= CutRange(old, r)[k].start
              /\ CutRange(old, r)[k].end <= old.end
              /\ CutRange(old, r)[k].start \in {old.start, r.end}
         /\ \A x : x \in Elems(CutRange(old, r)) <=>
              /\ x \in Int /\ ~(r.start <= x /\ x < r.end)
              /\ old.start <= x /\ x < old.end
<1>1. old.start \in Int /\ old.end \in Int /\ r.start \in Int /\ r.end \in Int
  BY DEF IntRange
<1>2. CASE ~(r.start < old.end)
  <2>1. CutRange(old, r) = <<old>>
    BY <1>2 DEF CutRange
  <2>2. /\ Spaced(gap, <<old>>) /\ Len(<<old>>) = 1 /\ <<old>>[1] = old
        /\ Elems(<<old>>) = old.start..(old.end - 1)
    BY Single
  <2> QED
    BY <1>1, <1>2, <2>1, <2>2
<1>3. CASE r.start < old.end
  <2> DEFINE a == IF old.start < r.start THEN <<MkRange(old.start, r.start)>> ELSE <<>>
             b == IF old.end > r.end THEN <<MkRange(r.end, old.end)>> ELSE <<>>
  <2>1. CutRange(old, r) = a \o b
    BY <1>3 DEF CutRange
  <2>2. ASSUME NEW u \in Int, NEW v \in Int, u < v
        PROVE  /\ MkRange(u, v) \in IntRange
               /\ MkRange(u, v).start = u /\ MkRange(u, v).end = v
    BY DEF MkRange, IntRange
  <2>3. /\ Spaced(gap, a)
        /\ \A k \in 1..Len(a) : a[k].start = old.start /\ a[k].end = r.start
                                /\ old.start < r.start
        /\ \A x : x \in Elems(a) <=> x \in Int /\ old.start <= x /\ x < r.start
    <3>1. CASE old.start < r.start
      <4> DEFINE o == MkRange(old.start, r.start)
      <4>1. /\ a = <<o>> /\ o \in IntRange
            /\ o.start = old.start /\ o.end = r.start
        BY <1>1, <2>2, <3>1
      <4> HIDE DEF a, o
      <4>2. /\ Spaced(gap, a) /\ Len(a) = 1 /\ a[1] = o
            /\ Elems(a) = o.start..(o.end - 1)
        BY <3>1, <4>1, Single
      <4> QED
        BY <1>1, <3>1, <4>1, <4>2
    <3>2. CASE ~(old.start < r.start)
      <4>1. a = <<>>
        BY <3>2
      <4> HIDE DEF a
      <4>2. Spaced(gap, a) /\ Elems(a) = {} /\ Len(a) = 0
        BY <4>1, Empty
      <4> QED
        BY <1>1, <3>2, <4>2
    <3> QED
      BY <3>1, <3>2
  <2>4. /\ Spaced(gap, b)
        /\ \A k \in 1..Len(b) : b[k].start = r.end /\ b[k].end = old.end
        /\ \A x : x \in Elems(b) <=> x \in Int /\ r.end <= x /\ x < old.end
    <3>1. CASE old.end > r.end
      <4> DEFINE o == MkRange(r.end, old.end)
      <4>1. /\ b = <<o>> /\ o \in IntRange
            /\ o.start = r.end /\ o.end = old.end
        BY <1>1, <2>2, <3>1
      <4> HIDE DEF b, o
      <4>2. /\ Spaced(gap, b) /\ Len(b) = 1 /\ b[1] = o
            /\ Elems(b) = o.start..(o.end - 1)
        BY <1>1, <3>1, <4>1, Single
      <4> QED
        BY <1>1, <3>1, <4>1, <4>2
    <3>2. CASE ~(old.end > r.end)
      <4>1. b = <<>>
        BY <3>2
      <4> HIDE DEF b
      <4>2. Spaced(gap, b) /\ Elems(b) = {} /\ Len(b) = 0
        BY <4>1, Empty
      <4> QED
        BY <1>1, <3>2, <4>2
    <3> QED
      BY <3>1, <3>2
  <2> HIDE DEF a, b
  <2>5. Before(gap, a, b)
    BY <1>1, <2>3, <2>4 DEF Before
  <2>6. /\ Spaced(gap, a \o b)
        /\ Len(a \o b) = Len(a) + Len(b)
        /\ Elems(a \o b) = Elems(a) \cup Elems(b)
    BY <2>3, <2>4, <2>5, Concat
  <2>7. ASSUME NEW k \in 1..Len(a \o b)
        PROVE  /\ old.start <= (a \o b)[k].start /\ (a \o b)[k].end <= old.end
               /\ (a \o b)[k].start \in {old.start, r.end}
    <3>1. a \in Seq(IntRange) /\ b \in Seq(IntRange) /\ Len(a) \in Nat /\ Len(b) \in Nat
      BY <2>3, <2>4 DEF Spaced
    <3>2. (a \o b)[k] = IF k <= Len(a) THEN a[k] ELSE b[k - Len(a)]
      BY <2>6, <3>1, ConcatProperties
    <3>3. CASE k <= Len(a)
      <4>1. k \in 1..Len(a)
        BY <2>6, <3>1, <3>3
      <4> QED
        BY <1>1, <1>3, <2>3, <3>2, <3>3, <4>1
    <3>4. CASE ~(k <= Len(a))
      <4>1. k - Len(a) \in 1..Len(b)
        BY <2>6, <3>1, <3>4
      <4>2. (a \o b)[k].start = r.end /\ (a \o b)[k].end = old.end
        BY <2>4, <3>2, <3>4, <4>1
      <4> QED
        BY <1>1, <4>2
    <3> QED
      BY <3>3, <3>4
  <2>8. ASSUME NEW x
        PROVE  x \in Elems(a \o b) <=>
                 /\ x \in Int /\ ~(r.start <= x /\ x < r.end)
                 /\ old.start <= x /\ x < old.end
    BY <1>1, <1>3, <2>3, <2>4, <2>6
  <2> QED
    BY <2>1, <2>6, <2>7, <2>8
<1> QED
  BY <1>2, <1>3

\* lower_bound on the starts: the starts before it are less, the others not.
LEMMA LowerBound ==
  ASSUME NEW gap, NEW rs, Spaced(gap, rs), NEW x \in Int, NEW lb, lb = FirstNotLess(rs, x)
  PROVE  /\ lb \in 1..(Len(rs) + 1)
         /\ \A i \in 1..Len(rs) : i < lb => rs[i].start < x
         /\ \A i \in 1..Len(rs) : lb <= i => x <= rs[i].start
<1>1. rs \in Seq(IntRange) /\ Len(rs) \in Nat
  BY DEF Spaced
<1>2. \A i \in 1..Len(rs) : rs[i].start \in Int /\ rs[i].end \in Int
  BY <1>1, BoundsOf
<1> DEFINE P == {i \in 1..Len(rs) : ~(rs[i].start < x)}
<1>3. /\ P \in SUBSET (1..Len(rs)) /\ lb = Min(P \cup {Len(rs) + 1})
      /\ \A i \in 1..Len(rs) : i \in P <=> ~(rs[i].start < x)
  BY DEF FirstNotLess
<1> HIDE DEF P
<1>4. /\ lb \in 1..(Len(rs) + 1)
      /\ lb # Len(rs) + 1 => lb \in P
      /\ \A i \in 1..Len(rs) : i < lb => i \notin P
  BY <1>1, <1>3, FirstOf
<1>5. ASSUME NEW i \in 1..Len(rs), lb <= i PROVE x <= rs[i].start
  <2>1. lb \in 1..Len(rs) /\ lb \in P
    BY <1>1, <1>4, <1>5
  <2>2. x <= rs[lb].start
    BY <1>2, <1>3, <2>1
  <2>3. lb = i \/ (rs[lb].start < rs[lb].end /\ Sep(gap, rs[lb].end, rs[i].start))
    BY <1>5, <2>1 DEF Spaced
  <2> QED
    BY <1>2, <2>1, <2>2, <2>3 DEF Sep
<1> QED
  BY <1>3, <1>4, <1>5

\* Where the loop of remove begins and ends: what lies before or behind does
\* not meet r, and what lies between is inside r but for the two ends.
LEMMA VisitedPositions ==
  ASSUME NEW gap, NEW rs, Spaced(gap, rs), NEW r \in IntRange, Sep(gap, r.start, r.end),
         NEW lb, lb = FirstNotLess(rs, r.start),
         NEW p, p = IF lb > 1 THEN lb - 1 ELSE lb,
         NEW q, q = Min({i \in p..Len(rs) : rs[i].start >= r.end} \cup {Len(rs) + 1})
  PROVE  /\ p \in 1..(Len(rs) + 1)
         /\ q \in p..(Len(rs) + 1)
         /\ \A i \in 1..Len(rs) : i < p => rs[i].end < r.start
         /\ \A i \in 1..Len(rs) : p < i => r.start <= rs[i].start
         /\ \A i \in p..(q - 1) : rs[i].start < r.end
         /\ \A i \in 1..Len(rs) : q <= i => r.end <= rs[i].start
<1>1. rs \in Seq(IntRange) /\ Len(rs) \in Nat
  BY DEF Spaced
<1>2. \A i \in 1..Len(rs) : rs[i].start \in Int /\ rs[i].end \in Int
  BY <1>1, BoundsOf
<1>3. r.start \in Int /\ r.end \in Int
  BY DEF IntRange
<1> DEFINE Q == {i \in p..Len(rs) : rs[i].start >= r.end}
<1>5. /\ lb \in 1..(Len(rs) + 1)
      /\ \A i \in 1..Len(rs) : i < lb => rs[i].start < r.start
      /\ \A i \in 1..Len(rs) : lb <= i => r.start <= rs[i].start
  BY <1>3, LowerBound
<1>6. p \in 1..(Len(rs) + 1) /\ p <= lb
  BY <1>1, <1>5
<1>7. /\ Q \in SUBSET (1..Len(rs)) /\ q = Min(Q \cup {Len(rs) + 1})
      /\ \A i \in Q : i >= p
      /\ \A i \in p..Len(rs) : i \in Q <=> rs[i].start >= r.end
  BY <1>1, <1>6
<1> HIDE DEF Q
<1>8. /\ q \in 1..(Len(rs) + 1)
      /\ q # Len(rs) + 1 => q \in Q
      /\ \A i \in 1..Len(rs) : i < q => i \notin Q
  BY <1>1, <1>7, FirstOf
<1>9. q >= p
  BY <1>1, <1>6, <1>7, <1>8
<1>10. ASSUME NEW i \in 1..Len(rs), i < p PROVE rs[i].end < r.start
  <2>1. p = lb - 1 /\ p \in 1..Len(rs) /\ p < lb
    BY <1>1, <1>5, <1>10
  <2>2. rs[p].start < r.start
    BY <1>5, <2>1
  <2>3. Sep(gap, rs[i].end, rs[p].start)
    BY <1>10, <2>1 DEF Spaced
  <2> QED
    BY <1>2, <1>3, <2>1, <2>2, <2>3 DEF Sep
<1>11. \A i \in 1..Len(rs) : p < i => r.start <= rs[i].start
  BY <1>1, <1>5
<1>12. ASSUME NEW i \in p..(q - 1) PROVE rs[i].start < r.end
  <2>1. i \in p..Len(rs) /\ i \in 1..Len(rs) /\ i < q
    BY <1>1, <1>6, <1>8
  <2>2. ~(rs[i].start >= r.end)
    BY <1>7, <1>8, <2>1
  <2> QED
    BY <1>2, <1>3, <2>1, <2>2
<1>13. ASSUME NEW i \in 1..Len(rs), q <= i PROVE r.end <= rs[i].start
  <2>1. q \in Q /\ q \in p..Len(rs) /\ q \in 1..Len(rs)
    BY <1>1, <1>6, <1>8, <1>9, <1>13
  <2>2. rs[q].start >= r.end
    BY <1>7, <2>1
  <2>3. q = i \/ (rs[q].start < rs[q].end /\ Sep(gap, rs[q].end, rs[i].start))
    BY <1>13, <2>1 DEF Spaced
  <2> QED
    BY <1>2, <1>3, <2>1, <2>2, <2>3 DEF Sep
<1> QED
  BY <1>6, <1>8, <1>9, <1>10, <1>11, <1>12, <1>13

\* What the loop of remove leaves of the ranges it visits.
LEMMA VisitedAreCut ==
  ASSUME NEW gap, NEW rs, Spaced(gap, rs), NEW r \in IntRange, Sep(gap, r.start, r.end),
         NEW p \in 1..(Len(rs) + 1), NEW q \in p..(Len(rs) + 1),
         \A i \in 1..Len(rs) : p < i => r.start <= rs[i].start,
         \A i \in p..(q - 1) : rs[i].start < r.end
  PROVE  LeftOf(gap, FlattenSeq([i \in 1..(q - p) |-> CutRange(rs[p + i - 1], r)]),
                rs, p, q, r)
<1>1. rs \in Seq(IntRange) /\ Len(rs) \in Nat /\ p \in Nat /\ q \in Nat
  BY DEF Spaced
<1>2. \A i \in 1..Len(rs) : rs[i] \in IntRange /\ rs[i].start \in Int /\ rs[i].end \in Int
  BY <1>1, BoundsOf
<1>3. r.start \in Int /\ r.end \in Int
  BY DEF IntRange
<1> DEFINE n == q - p
           S == [i \in 1..n |-> CutRange(rs[p + i - 1], r)]
           mid == FlattenSeq(S)
<1>4. ASSUME NEW i \in p..(q - 1)
      PROVE  /\ i \in 1..Len(rs)
             /\ Spaced(gap, CutRange(rs[i], r))
             /\ \A k \in 1..Len(CutRange(rs[i], r)) :
                  /\ rs[i].start <= CutRange(rs[i], r)[k].start
                  /\ CutRange(rs[i], r)[k].end <= rs[i].end
                  /\ CutRange(rs[i], r)[k].start \in {rs[i].start, r.end}
             /\ \A x : x \in Elems(CutRange(rs[i], r)) <=>
                  /\ x \in Int /\ ~(r.start <= x /\ x < r.end)
                  /\ rs[i].start <= x /\ x < rs[i].end
  <2>1. i \in 1..Len(rs)
    BY <1>1
  <2>2. rs[i] \in IntRange /\ rs[i].start < rs[i].end /\ rs[i].start < r.end
    BY <1>2, <2>1 DEF Spaced
  <2> QED
    BY <2>1, <2>2, CutLeavesTheRest
<1>5. n \in Nat /\ \A i \in 1..n : p + i - 1 \in p..(q - 1)
  BY <1>1
<1>6. S \in [1..n -> Seq(IntRange)]
  BY <1>4, <1>5 DEF Spaced
\* A range between two visited ones lies inside r.
<1>7. ASSUME NEW i \in p..(q - 1), p < i, i < q - 1
      PROVE  /\ CutRange(rs[i], r) = <<>>
             /\ \A x \in Int : rs[i].start <= x /\ x < rs[i].end =>
                               r.start <= x /\ x < r.end
  <2>1. i \in 1..Len(rs) /\ i + 1 \in p..(q - 1) /\ i + 1 \in 1..Len(rs) /\ i < i + 1
    BY <1>1, <1>4, <1>7
  <2>2. r.start <= rs[i].start /\ rs[i].start < rs[i].end
    BY <1>7, <2>1 DEF Spaced
  <2>3. Sep(gap, rs[i].end, rs[i + 1].start) /\ rs[i + 1].start < r.end
    BY <2>1 DEF Spaced
  <2>4. /\ r.start < rs[i].end /\ ~(rs[i].start < r.start) /\ ~(rs[i].end > r.end)
        /\ rs[i].end < r.end
    <3>1. rs[i].start \in Int /\ rs[i].end \in Int /\ rs[i + 1].start \in Int
      BY <1>2, <2>1
    <3>2. rs[i].end <= rs[i + 1].start
      BY <2>3 DEF Sep
    <3> QED
      BY <1>3, <2>2, <2>3, <3>1, <3>2
  <2>5. CutRange(rs[i], r) = <<>> \o <<>>
    BY <2>4 DEF CutRange
  <2>6. <<>> \o <<>> = <<>>
    BY EmptySeq, ConcatEmptySeq
  <2> QED
    BY <1>2, <1>3, <2>1, <2>2, <2>4, <2>5, <2>6
<1>8. CASE n = 0
  <2>1. mid = S /\ S = <<>>
    BY <1>8 DEF FlattenSeq
  <2> HIDE DEF mid
  <2>2. Spaced(gap, mid) /\ Elems(mid) = {} /\ Len(mid) = 0
    BY <2>1, Empty
  <2>3. p..(q - 1) = {} /\ 1..Len(mid) = {}
    BY <1>1, <1>8, <2>2
  <2>4. LeftOf(gap, mid, rs, p, q, r)
    BY <2>2, <2>3 DEF LeftOf
  <2> QED
    BY <2>4 DEF mid
<1>9. CASE n = 1
  <2>1. p..(q - 1) = {p}
    BY <1>1, <1>9
  <2>2. mid = CutRange(rs[p], r)
    <3>1. S[1] = CutRange(rs[p], r)
      BY <1>1, <1>9
    <3>2. \A i \in 2..(n - 1) : S[i] = <<>>
      BY <1>9
    <3> HIDE DEF S
    <3>3. n = 1 /\ n \in Nat \ {0}
      BY <1>5, <1>9
    <3>4. mid = S[1]
      BY <1>6, <3>2, <3>3, FlattenEnds
    <3> QED
      BY <3>1, <3>4
  <2> HIDE DEF mid
  <2>3. p \in p..(q - 1) /\ p \in 1..Len(rs)
    <3>1. p \in p..(q - 1)
      BY <2>1
    <3> QED
      BY <1>4, <3>1
  <2>4. \A k \in 1..Len(mid) :
          mid[k].start = r.end \/ \E i \in 1..Len(rs) : mid[k].start = rs[i].start
    BY <1>4, <2>2, <2>3
  <2>5. LeftOf(gap, mid, rs, p, q, r)
    BY <1>4, <2>1, <2>2, <2>3, <2>4 DEF LeftOf
  <2> QED
    BY <2>5 DEF mid
<1>10. CASE n >= 2
  <2> DEFINE a == CutRange(rs[p], r)
             b == CutRange(rs[q - 1], r)
  <2>1. mid = a \o b
    <3>1. S[1] = a /\ S[n] = b
      <4>1. p + 1 - 1 = p /\ p + n - 1 = q - 1 /\ 1 \in 1..n /\ n \in 1..n
        BY <1>1, <1>10
      <4> QED
        BY <4>1
    <3>2. \A i \in 2..(n - 1) : S[i] = <<>>
      <4>1. ASSUME NEW i \in 2..(n - 1) PROVE S[i] = <<>>
        <5>1. p + i - 1 \in p..(q - 1) /\ p < p + i - 1 /\ p + i - 1 < q - 1 /\ i \in 1..n
          BY <1>1, <1>10
        <5> QED
          BY <1>7, <5>1
      <4> QED
        BY <4>1
    <3> HIDE DEF S, a, b
    <3>3. n # 1 /\ n \in Nat \ {0}
      BY <1>5, <1>10
    <3>4. mid = S[1] \o S[n]
      BY <1>6, <3>2, <3>3, FlattenEnds
    <3> QED
      BY <3>1, <3>4
  <2>2. p \in p..(q - 1) /\ q - 1 \in p..(q - 1) /\ p < q - 1
    BY <1>1, <1>10
  <2>3. /\ p \in 1..Len(rs) /\ Spaced(gap, a)
        /\ \A k \in 1..Len(a) : rs[p].start <= a[k].start /\ a[k].end <= rs[p].end
        /\ \A k \in 1..Len(a) : a[k].start \in {rs[p].start, r.end}
        /\ \A x : x \in Elems(a) <=>
             /\ x \in Int /\ ~(r.start <= x /\ x < r.end)
             /\ rs[p].start <= x /\ x < rs[p].end
    BY <1>4, <2>2
  <2>4. /\ q - 1 \in 1..Len(rs) /\ Spaced(gap, b)
        /\ \A k \in 1..Len(b) : rs[q - 1].start <= b[k].start /\ b[k].end <= rs[q - 1].end
        /\ \A k \in 1..Len(b) : b[k].start \in {rs[q - 1].start, r.end}
        /\ \A x : x \in Elems(b) <=>
             /\ x \in Int /\ ~(r.start <= x /\ x < r.end)
             /\ rs[q - 1].start <= x /\ x < rs[q - 1].end
    BY <1>4, <2>2
  <2> HIDE DEF mid, a, b
  <2>5. a \in Seq(IntRange) /\ b \in Seq(IntRange) /\ Len(a) \in Nat /\ Len(b) \in Nat
    BY <2>3, <2>4 DEF Spaced
  <2>6. Before(gap, a, b)
    <3>1. Sep(gap, rs[p].end, rs[q - 1].start)
      BY <2>2, <2>3, <2>4 DEF Spaced
    <3>2. \A k \in 1..Len(a) : a[k].end \in Int
      BY <2>5, BoundsOf
    <3>3. \A k \in 1..Len(b) : b[k].start \in Int
      BY <2>5, BoundsOf
    <3>4. ASSUME NEW k \in 1..Len(a), NEW l \in 1..Len(b)
          PROVE  Sep(gap, a[k].end, b[l].start)
      <4>1. a[k].end <= rs[p].end /\ rs[q - 1].start <= b[l].start
        BY <2>3, <2>4
      <4>2. /\ rs[p].end \in Int /\ rs[q - 1].start \in Int
            /\ a[k].end \in Int /\ b[l].start \in Int
        BY <1>2, <2>3, <2>4, <3>2, <3>3
      <4> QED
        BY <3>1, <4>1, <4>2 DEF Sep
    <3> QED
      BY <3>4 DEF Before
  <2>7. /\ Spaced(gap, mid)
        /\ Len(mid) = Len(a) + Len(b)
        /\ Elems(mid) = Elems(a) \cup Elems(b)
    BY <2>1, <2>3, <2>4, <2>6, Concat
  <2>8. ASSUME NEW k \in 1..Len(mid)
        PROVE  /\ \E i \in p..(q - 1) : rs[i].start <= mid[k].start /\ mid[k].end <= rs[i].end
               /\ mid[k].start = r.end \/ \E i \in 1..Len(rs) : mid[k].start = rs[i].start
    <3>1. mid[k] = IF k <= Len(a) THEN a[k] ELSE b[k - Len(a)]
      BY <2>1, <2>5, <2>7, ConcatProperties
    <3>2. CASE k <= Len(a)
      <4>1. k \in 1..Len(a)
        BY <2>5, <2>7, <3>2
      <4> QED
        BY <2>2, <2>3, <3>1, <3>2, <4>1
    <3>3. CASE ~(k <= Len(a))
      <4>1. k - Len(a) \in 1..Len(b)
        BY <2>5, <2>7, <3>3
      <4> QED
        BY <2>2, <2>4, <3>1, <3>3, <4>1
    <3> QED
      BY <3>2, <3>3
  <2>9. ASSUME NEW x
        PROVE  x \in Elems(mid) <=>
                 /\ x \in Int /\ ~(r.start <= x /\ x < r.end)
                 /\ \E i \in p..(q - 1) : rs[i].start <= x /\ x < rs[i].end
    <3>1. x \in Elems(mid) <=> x \in Elems(a) \/ x \in Elems(b)
      BY <2>7
    <3>2. ASSUME NEW i \in p..(q - 1), x \in Int, ~(r.start <= x /\ x < r.end),
                 rs[i].start <= x, x < rs[i].end
          PROVE  i = p \/ i = q - 1
      <4>1. i = p \/ i = q - 1 \/ (p < i /\ i < q - 1)
        BY <1>1
      <4> QED
        BY <1>7, <3>2, <4>1
    <3> QED
      BY <2>2, <2>3, <2>4, <3>1, <3>2
  <2> QED
    BY <2>7, <2>8, <2>9 DEF LeftOf, mid
<1>11. n = 0 \/ n = 1 \/ n >= 2
  BY <1>5
<1> QED
  BY <1>8, <1>9, <1>10, <1>11

\* remove takes away exactly the elements of r and keeps the gaps; an empty range
\* takes nothing, but may leave two adjacent ranges.
LEMMA RemoveKeepsSpacing ==
  ASSUME NEW gap, NEW rs, Spaced(gap, rs), NEW r \in IntRange, Sep(gap, r.start, r.end)
  PROVE  /\ Spaced(gap, RemoveRange(rs, r))
         /\ Elems(RemoveRange(rs, r)) = Elems(rs) \ (r.start..(r.end - 1))
         /\ StartsFrom(RemoveRange(rs, r), rs, r.end)
<1> DEFINE lb == FirstNotLess(rs, r.start)
           p == IF lb > 1 THEN lb - 1 ELSE lb
           q == Min({i \in p..Len(rs) : rs[i].start >= r.end} \cup {Len(rs) + 1})
           left == SubSeq(rs, 1, p - 1)
           mid == FlattenSeq([i \in 1..(q - p) |-> CutRange(rs[p + i - 1], r)])
           right == SubSeq(rs, q, Len(rs))
           new == RemoveRange(rs, r)
<1>1. rs \in Seq(IntRange) /\ Len(rs) \in Nat
  BY DEF Spaced
<1>2. \A i \in 1..Len(rs) : rs[i].start \in Int /\ rs[i].end \in Int
  BY <1>1, BoundsOf
<1>3. r.start \in Int /\ r.end \in Int
  BY DEF IntRange
<1>4. new = left \o mid \o right
  BY DEF RemoveRange
<1>5. /\ p \in 1..(Len(rs) + 1)
      /\ q \in p..(Len(rs) + 1)
      /\ \A i \in 1..Len(rs) : i < p => rs[i].end < r.start
      /\ \A i \in 1..Len(rs) : p < i => r.start <= rs[i].start
      /\ \A i \in p..(q - 1) : rs[i].start < r.end
      /\ \A i \in 1..Len(rs) : q <= i => r.end <= rs[i].start
  <2> HIDE DEF lb
  <2>1. lb = FirstNotLess(rs, r.start)
    BY DEF lb
  <2> QED
    BY <2>1, VisitedPositions
<1> HIDE DEF p, q, new
<1>6. LeftOf(gap, mid, rs, p, q, r)
  BY <1>5, VisitedAreCut
<1> HIDE DEF mid
<1>7. /\ 1 \in 1..(Len(rs) + 1) /\ p - 1 \in 0..Len(rs)
      /\ q \in 1..(Len(rs) + 1) /\ Len(rs) \in 0..Len(rs)
  BY <1>1, <1>5
<1>8. /\ Spaced(gap, left)
      /\ \A k \in 1..Len(left) : 1 + k - 1 \in 1..(p - 1) /\ left[k] = rs[1 + k - 1]
      /\ \A x : x \in Elems(left) <=>
           x \in Int /\ \E i \in 1..(p - 1) : rs[i].start <= x /\ x < rs[i].end
  <2>1. IsPiece(gap, left, rs, 1, p - 1)
    BY <1>7, Piece
  <2> HIDE DEF left
  <2> QED
    BY <2>1, Zenon DEF IsPiece
<1>9. /\ Spaced(gap, right)
      /\ \A k \in 1..Len(right) : q + k - 1 \in q..Len(rs) /\ right[k] = rs[q + k - 1]
      /\ \A x : x \in Elems(right) <=>
           x \in Int /\ \E i \in q..Len(rs) : rs[i].start <= x /\ x < rs[i].end
  <2>1. IsPiece(gap, right, rs, q, Len(rs))
    BY <1>7, Piece
  <2> HIDE DEF right
  <2> QED
    BY <2>1, Zenon DEF IsPiece
<1> HIDE DEF left, right
<1>10. \A k \in 1..Len(left) : \E i \in 1..Len(rs) : i < p /\ left[k] = rs[i]
  <2>1. ASSUME NEW k \in 1..Len(left) PROVE \E i \in 1..Len(rs) : i < p /\ left[k] = rs[i]
    <3>1. 1 + k - 1 \in 1..(p - 1) /\ left[k] = rs[1 + k - 1]
      BY <1>8
    <3>2. 1 + k - 1 \in 1..Len(rs) /\ 1 + k - 1 < p
      BY <1>1, <1>5, <3>1
    <3> QED
      BY <3>1, <3>2
  <2> QED
    BY <2>1
<1>11. \A k \in 1..Len(right) : \E i \in 1..Len(rs) : q <= i /\ right[k] = rs[i]
  <2>1. ASSUME NEW k \in 1..Len(right) PROVE \E i \in 1..Len(rs) : q <= i /\ right[k] = rs[i]
    <3>1. q + k - 1 \in q..Len(rs) /\ right[k] = rs[q + k - 1]
      BY <1>9
    <3>2. q + k - 1 \in 1..Len(rs) /\ q <= q + k - 1
      BY <1>1, <1>5, <3>1
    <3> QED
      BY <3>1, <3>2
  <2> QED
    BY <2>1
<1>12. Spaced(gap, mid) /\ mid \in Seq(IntRange) /\ left \in Seq(IntRange) /\ right \in Seq(IntRange)
  <2>1. Spaced(gap, mid)
    BY <1>6 DEF LeftOf
  <2> QED
    BY <1>8, <1>9, <2>1 DEF Spaced
<1>13. \A k \in 1..Len(mid) : \E i \in 1..Len(rs) :
         p <= i /\ i < q /\ rs[i].start <= mid[k].start /\ mid[k].end <= rs[i].end
  BY <1>1, <1>5, <1>6 DEF LeftOf
<1>14. \A k \in 1..Len(mid) : mid[k].start \in Int /\ mid[k].end \in Int
  BY <1>12, BoundsOf
<1>15. Before(gap, left, mid)
  <2>1. ASSUME NEW k \in 1..Len(left), NEW l \in 1..Len(mid)
        PROVE  Sep(gap, left[k].end, mid[l].start)
    <3>1. PICK i \in 1..Len(rs) : i < p /\ left[k] = rs[i]
      BY <1>10
    <3>2. PICK j \in 1..Len(rs) : p <= j /\ j < q /\ rs[j].start <= mid[l].start
      BY <1>13
    <3>3. Sep(gap, rs[i].end, rs[j].start)
      BY <1>5, <3>1, <3>2 DEF Spaced
    <3> QED
      BY <1>2, <1>14, <3>1, <3>2, <3>3 DEF Sep
  <2> QED
    BY <2>1 DEF Before
<1>16. Before(gap, mid, right)
  <2>1. ASSUME NEW k \in 1..Len(mid), NEW l \in 1..Len(right)
        PROVE  Sep(gap, mid[k].end, right[l].start)
    <3>1. PICK i \in 1..Len(rs) : q <= i /\ right[l] = rs[i]
      BY <1>11
    <3>2. PICK j \in 1..Len(rs) : p <= j /\ j < q /\ mid[k].end <= rs[j].end
      BY <1>13
    <3>3. Sep(gap, rs[j].end, right[l].start)
      BY <1>5, <3>1, <3>2 DEF Spaced
    <3>4. mid[k].end \in Int /\ rs[j].end \in Int /\ right[l].start \in Int
      BY <1>2, <1>14, <3>1
    <3> QED
      BY <3>2, <3>3, <3>4, SepFromEarlier
  <2> QED
    BY <2>1 DEF Before
<1>17. Before(gap, left, right)
  <2>1. ASSUME NEW k \in 1..Len(left), NEW l \in 1..Len(right)
        PROVE  Sep(gap, left[k].end, right[l].start)
    <3>1. PICK i \in 1..Len(rs) : i < p /\ left[k] = rs[i]
      BY <1>10
    <3>2. PICK j \in 1..Len(rs) : q <= j /\ right[l] = rs[j]
      BY <1>11
    <3> QED
      BY <1>5, <3>1, <3>2 DEF Spaced
  <2> QED
    BY <2>1 DEF Before
<1>18. /\ Spaced(gap, left \o mid)
       /\ Elems(left \o mid) = Elems(left) \cup Elems(mid)
  BY <1>8, <1>12, <1>15, Concat
<1>19. Before(gap, left \o mid, right)
  BY <1>12, <1>16, <1>17, BeforeConcat
<1>20. /\ Spaced(gap, new)
       /\ Elems(new) = Elems(left) \cup Elems(mid) \cup Elems(right)
  BY <1>4, <1>9, <1>18, <1>19, Concat
<1>21. ASSUME NEW x
       PROVE  x \in Elems(new) <=> x \in Elems(rs) /\ x \notin r.start..(r.end - 1)
  <2>1. x \in Elems(rs) <=>
          x \in Int /\ \E i \in 1..Len(rs) : rs[i].start <= x /\ x < rs[i].end
    BY <1>1, ElemsOf
  <2>2. x \in r.start..(r.end - 1) <=> x \in Int /\ r.start <= x /\ x < r.end
    BY <1>3
  <2>3. ASSUME x \in Elems(left)
        PROVE  x \in Elems(rs) /\ x \notin r.start..(r.end - 1)
    <3>1. PICK i \in 1..(p - 1) : x \in Int /\ rs[i].start <= x /\ x < rs[i].end
      BY <1>8, <2>3
    <3>2. i \in 1..Len(rs) /\ rs[i].end < r.start
      BY <1>1, <1>5
    <3> QED
      BY <1>2, <1>3, <2>1, <2>2, <3>1, <3>2
  <2>4. ASSUME x \in Elems(right)
        PROVE  x \in Elems(rs) /\ x \notin r.start..(r.end - 1)
    <3>1. PICK i \in q..Len(rs) : x \in Int /\ rs[i].start <= x /\ x < rs[i].end
      BY <1>9, <2>4
    <3>2. i \in 1..Len(rs) /\ r.end <= rs[i].start
      BY <1>1, <1>5
    <3> QED
      BY <1>2, <1>3, <2>1, <2>2, <3>1, <3>2
  <2>5. x \in Elems(mid) <=>
          /\ x \in Int /\ x \notin r.start..(r.end - 1)
          /\ \E i \in p..(q - 1) : rs[i].start <= x /\ x < rs[i].end
    BY <1>6, <2>2 DEF LeftOf
  <2>6. x \in Elems(mid) => x \in Elems(rs) /\ x \notin r.start..(r.end - 1)
    <3>1. \A i \in p..(q - 1) : i \in 1..Len(rs)
      BY <1>1, <1>5
    <3> QED
      BY <2>1, <2>5, <3>1
  <2>7. ASSUME x \in Elems(rs), x \notin r.start..(r.end - 1)
        PROVE  x \in Elems(left) \/ x \in Elems(mid) \/ x \in Elems(right)
    <3>1. PICK i \in 1..Len(rs) : x \in Int /\ rs[i].start <= x /\ x < rs[i].end
      BY <2>1, <2>7
    <3>2. i \in 1..(p - 1) \/ i \in p..(q - 1) \/ i \in q..Len(rs)
      BY <1>1, <1>5
    <3> QED
      BY <1>8, <1>9, <2>5, <2>7, <3>1, <3>2
  <2> QED
    BY <1>20, <2>3, <2>4, <2>6, <2>7
<1>22. Elems(new) = Elems(rs) \ (r.start..(r.end - 1))
  BY <1>21, Zenon
<1>23. StartsFrom(new, rs, r.end)
  <2>1. \A k \in 1..Len(mid) :
          mid[k].start = r.end \/ \E i \in 1..Len(rs) : mid[k].start = rs[i].start
    BY <1>6 DEF LeftOf
  <2>2. StartsFrom(left, rs, r.end) /\ StartsFrom(mid, rs, r.end)
        /\ StartsFrom(right, rs, r.end)
    BY <1>10, <1>11, <2>1 DEF StartsFrom
  <2>3. StartsFrom(left \o mid, rs, r.end) /\ left \o mid \in Seq(IntRange)
    BY <1>12, <2>2, StartsOfConcat, ConcatProperties
  <2> QED
    BY <1>4, <1>12, <2>2, <2>3, StartsOfConcat
<1> QED
  BY <1>20, <1>22, <1>23 DEF new

\* Removing a range that is not empty keeps a canonical vector canonical.
LEMMA RemoveTakesTheRange ==
  ASSUME NEW rs, Canon(rs), NEW r \in IntRange, r.start < r.end
  PROVE  /\ Canon(RemoveRange(rs, r))
         /\ Elems(RemoveRange(rs, r)) = Elems(rs) \ (r.start..(r.end - 1))
<1>1. r.start \in Int /\ r.end \in Int
  BY DEF IntRange
<1>2. Spaced(1, rs) /\ Sep(1, r.start, r.end)
  BY <1>1, CanonIsSpaced DEF Sep
<1> QED
  BY <1>2, RemoveKeepsSpacing, CanonIsSpaced

\* Adjacent ranges are allowed where gaps are.
LEMMA CanonIsLoose ==
  ASSUME NEW rs, Canon(rs)
  PROVE  Spaced(0, rs)
<1>1. rs \in Seq(IntRange)
  BY DEF Canon
<1>2. ASSUME NEW i \in 1..Len(rs), NEW j \in 1..Len(rs), i < j
      PROVE  Sep(0, rs[i].end, rs[j].start)
  <2>1. rs[i].end \in Int /\ rs[j].start \in Int
    BY <1>1, BoundsOf
  <2>2. rs[i].end < rs[j].start
    BY <1>2 DEF Canon
  <2> QED
    BY <2>1, <2>2 DEF Sep
<1> QED
  BY <1>1, <1>2 DEF Canon, Spaced

\* A range starts at an element; in a canonical vector none lies right before it.
LEMMA StartIsElem ==
  ASSUME NEW rs, Spaced(0, rs), NEW k \in 1..Len(rs)
  PROVE  /\ rs[k].start \in Int /\ rs[k].start \in Elems(rs)
         /\ rs[k].end \in Int /\ rs[k].start < rs[k].end
         /\ Canon(rs) => rs[k].start - 1 \notin Elems(rs)
<1>1. rs \in Seq(IntRange) /\ \A i \in 1..Len(rs) : rs[i].start < rs[i].end
  BY DEF Spaced
<1>2. \A i \in 1..Len(rs) : rs[i].start \in Int /\ rs[i].end \in Int
  BY <1>1, BoundsOf
<1>3. rs[k].start \in Elems(rs)
  <2> DEFINE x == rs[k].start
  <2>1. x \in Int /\ rs[k].start <= x /\ x < rs[k].end
    BY <1>1, <1>2
  <2> HIDE DEF x
  <2>2. x \in Elems(rs)
    BY <1>1, <2>1, ElemsOf
  <2> QED
    BY <2>2 DEF x
<1>4. ASSUME Canon(rs), rs[k].start - 1 \in Elems(rs) PROVE FALSE
  <2>1. PICK i \in 1..Len(rs) : rs[i].start <= rs[k].start - 1 /\ rs[k].start - 1 < rs[i].end
    BY <1>1, <1>4, ElemsOf
  <2>2. i = k \/ rs[i].end < rs[k].start \/ rs[k].end < rs[i].start
    <3>1. i = k \/ i < k \/ k < i
      BY <1>1
    <3> QED
      BY <1>4, <3>1 DEF Canon
  <2> QED
    BY <1>1, <1>2, <2>1, <2>2
<1> QED
  BY <1>1, <1>2, <1>3, <1>4

\* After insert a range starts where one did, or where the inserted one does.
LEMMA InsertStarts ==
  ASSUME NEW rs, Canon(rs), NEW r \in IntRange, r.start < r.end
  PROVE  StartsFrom(InsertRange(rs, r).ranges, rs, r.start)
<1> DEFINE new == InsertRange(rs, r).ranges
<1>1. Canon(new) /\ Elems(new) = Elems(rs) \cup (r.start..(r.end - 1))
  BY InsertAddsTheRange
<1> HIDE DEF new
<1>2. r.start \in Int /\ r.end \in Int
  BY DEF IntRange
<1>3. rs \in Seq(IntRange) /\ \A i \in 1..Len(rs) : rs[i].start \in Int
  BY BoundsOf DEF Canon
<1>4. ASSUME NEW k \in 1..Len(new), new[k].start # r.start
      PROVE  \E i \in 1..Len(rs) : new[k].start = rs[i].start
  <2> DEFINE x == new[k].start
  <2>1. x \in Int /\ x \in Elems(new) /\ x - 1 \notin Elems(new)
    BY <1>1, CanonIsLoose, StartIsElem
  <2>2. x # r.start
    BY <1>4
  <2> HIDE DEF x
  <2>3. x \notin r.start..(r.end - 1)
    BY <1>1, <1>2, <2>1, <2>2
  <2>4. x \in Elems(rs) /\ x - 1 \notin Elems(rs) /\ x - 1 \in Int
    BY <1>1, <2>1, <2>3
  <2>5. PICK i \in 1..Len(rs) : rs[i].start <= x /\ x < rs[i].end
    BY <1>3, <2>4, ElemsOf
  <2>6. ~(rs[i].start <= x - 1)
    <3>1. SUFFICES ASSUME rs[i].start <= x - 1 PROVE FALSE
      OBVIOUS
    <3>2. rs[i].end \in Int
      BY <1>3, BoundsOf
    <3>3. x - 1 < rs[i].end
      BY <2>1, <2>5, <3>2
    <3>4. x - 1 \in Elems(rs)
      BY <1>3, <2>4, <3>1, <3>3, ElemsOf
    <3> QED
      BY <2>4, <3>4
  <2>7. x = rs[i].start
    BY <1>3, <2>1, <2>5, <2>6
  <2> QED
    BY <2>7 DEF x
<1> QED
  BY <1>4 DEF StartsFrom, new

-----------------------------------------------------------------------------
(* A loop of removals *)

\* The vector after the first n removals.
Removed(removed, rs, seq, n) ==
  removed = [m \in 0..n |->
               IF m = 0 THEN rs ELSE RemoveRange(removed[m - 1], seq[m])]

\* The recursive definition of the loop defines something.
LEMMA LoopIsDefined ==
  ASSUME NEW rs, NEW seq, NEW n \in Nat
  PROVE  \E f : Removed(f, rs, seq, n)
<1> DEFINE Bad == {b \in 0..n : \A f : ~Removed(f, rs, seq, b)}
<1>1. SUFFICES ASSUME Bad # {} PROVE FALSE
  <2>1. n \in 0..n
    OBVIOUS
  <2> QED
    BY <1>1, <2>1
<1> DEFINE b == Min(Bad)
<1>2. Bad \in SUBSET Nat
  OBVIOUS
<1> HIDE DEF Bad
<1>3. b \in Bad /\ \A x \in Bad : b <= x
  BY <1>1, <1>2, MinOfNats
<1>4. b \in 0..n /\ \A f : ~Removed(f, rs, seq, b)
  BY <1>3 DEF Bad
<1> HIDE DEF b
<1>5. CASE b = 0
  <2> DEFINE g == [m \in 0..0 |-> rs]
  <2>1. g = [m \in 0..0 |-> IF m = 0 THEN rs ELSE RemoveRange(g[m - 1], seq[m])]
    OBVIOUS
  <2> QED
    BY <1>4, <1>5, <2>1 DEF Removed
<1>6. CASE b # 0
  <2>1. b - 1 \in 0..n /\ b - 1 \notin Bad
    BY <1>3, <1>4, <1>6
  <2>2. PICK f : Removed(f, rs, seq, b - 1)
    BY <2>1 DEF Bad
  <2> DEFINE g == [m \in 0..b |-> IF m = b THEN RemoveRange(f[b - 1], seq[b]) ELSE f[m]]
             h == [m \in 0..b |-> IF m = 0 THEN rs ELSE RemoveRange(g[m - 1], seq[m])]
  <2>3. ASSUME NEW m \in 0..b PROVE g[m] = h[m]
    <3>1. CASE m = b
      <4>1. b - 1 \in 0..b /\ b - 1 # b
        BY <1>4, <1>6
      <4>2. g[b - 1] = f[b - 1]
        BY <4>1
      <4> QED
        BY <1>6, <3>1, <4>2
    <3>2. CASE m # b /\ m # 0
      <4>1. m \in 0..(b - 1) /\ m - 1 \in 0..b /\ m - 1 # b
        BY <1>4, <3>2
      <4>2. f[m] = RemoveRange(f[m - 1], seq[m])
        BY <2>2, <3>2, <4>1 DEF Removed
      <4>3. g[m - 1] = f[m - 1] /\ g[m] = f[m]
        BY <3>2, <4>1
      <4> QED
        BY <3>2, <4>2, <4>3
    <3>3. CASE m # b /\ m = 0
      <4>1. 0 \in 0..(b - 1)
        BY <1>4, <1>6
      <4>2. f[0] = rs
        BY <2>2, <4>1 DEF Removed
      <4> QED
        BY <3>3, <4>2
    <3> QED
      BY <3>1, <3>2, <3>3
  <2>4. g = h
    BY <2>3
  <2>5. Removed(g, rs, seq, b)
    <3> HIDE DEF g
    <3> QED
      BY <2>4 DEF Removed
  <2> QED
    BY <1>4, <2>5
<1> QED
  BY <1>5, <1>6

\* The elements of out are those of rs in none of the first n ranges; a range of
\* out starts where one of rs does, or at the end of one of them.
Leaves(out, rs, seq, n) ==
  /\ Spaced(0, out)
  /\ \A x : x \in Elems(out) <=>
       x \in Elems(rs) /\ \A i \in 1..n : x \notin seq[i].start..(seq[i].end - 1)
  /\ \A k \in 1..Len(out) :
       \/ \E i \in 1..Len(rs) : out[k].start = rs[i].start
       \/ \E i \in 1..n : out[k].start = seq[i].end

\* The loop removes all its ranges.
LEMMA RemoveAllTakesThem ==
  ASSUME NEW rs, Spaced(0, rs), NEW seq \in Seq(IntRange),
         \A i \in 1..Len(seq) : seq[i].start <= seq[i].end
  PROVE  Leaves(RemoveAll(rs, seq), rs, seq, Len(seq))
<1> DEFINE N == Len(seq)
           f == CHOOSE f : Removed(f, rs, seq, N)
<1>1. N \in Nat
  OBVIOUS
<1>2. RemoveAll(rs, seq) = f[N]
  BY DEF RemoveAll, Removed
<1> HIDE DEF N
<1>3. Removed(f, rs, seq, N)
  BY <1>1, LoopIsDefined
<1> HIDE DEF f
<1>4. f[0] = rs /\ \A m \in 1..N : f[m] = RemoveRange(f[m - 1], seq[m])
  BY <1>1, <1>3 DEF Removed
<1> DEFINE Bad == {b \in 0..N : ~Leaves(f[b], rs, seq, b)}
<1>5. SUFFICES ASSUME Bad # {} PROVE FALSE
  <2>1. N \in 0..N
    BY <1>1
  <2> QED
    BY <1>2, <1>5, <2>1 DEF N
<1> DEFINE b == Min(Bad)
<1>6. Bad \in SUBSET Nat
  BY <1>1
<1> HIDE DEF Bad
<1>7. b \in Bad /\ \A x \in Bad : b <= x
  BY <1>5, <1>6, MinOfNats
<1>8. b \in 0..N /\ ~Leaves(f[b], rs, seq, b)
  BY <1>7 DEF Bad
<1> HIDE DEF b
<1>9. CASE b = 0
  BY <1>4, <1>8, <1>9 DEF Leaves
<1>10. CASE b # 0
  <2> DEFINE old == f[b - 1]
             new == f[b]
             r == seq[b]
  <2>1. b \in 1..N /\ b - 1 \in 0..N /\ b - 1 \notin Bad
    BY <1>1, <1>7, <1>8, <1>10
  <2>2. Leaves(old, rs, seq, b - 1)
    BY <2>1 DEF Bad
  <2>3. new = RemoveRange(old, r)
    BY <1>4, <2>1
  <2>4. r \in IntRange /\ Sep(0, r.start, r.end)
    BY <2>1 DEF N, Sep
  <2>8. \A i : i \in 1..b <=> i \in 1..(b - 1) \/ i = b
    BY <1>1, <2>1
  <2>9. r = seq[b]
    OBVIOUS
  <2>10. ~Leaves(new, rs, seq, b)
    BY <1>8
  <2> HIDE DEF old, new, r
  <2>5. /\ Spaced(0, new) /\ Elems(new) = Elems(old) \ (r.start..(r.end - 1))
        /\ StartsFrom(new, old, r.end)
    BY <2>2, <2>3, <2>4, RemoveKeepsSpacing DEF Leaves
  <2>6. ASSUME NEW x
        PROVE  x \in Elems(new) <=>
                 /\ x \in Elems(rs)
                 /\ \A i \in 1..b : x \notin seq[i].start..(seq[i].end - 1)
    <3>1. x \in Elems(old) <=>
            /\ x \in Elems(rs)
            /\ \A i \in 1..(b - 1) : x \notin seq[i].start..(seq[i].end - 1)
      BY <2>2 DEF Leaves
    <3>2. x \in Elems(new) <=> x \in Elems(old) /\ x \notin r.start..(r.end - 1)
      BY <2>5
    <3> QED
      BY <2>8, <2>9, <3>1, <3>2, Zenon
  <2>7. ASSUME NEW k \in 1..Len(new)
        PROVE  \/ \E i \in 1..Len(rs) : new[k].start = rs[i].start
               \/ \E i \in 1..b : new[k].start = seq[i].end
    <3>1. CASE new[k].start = r.end
      BY <2>8, <2>9, <3>1, Zenon
    <3>2. CASE \E i \in 1..Len(old) : new[k].start = old[i].start
      <4>1. PICK j \in 1..Len(old) : new[k].start = old[j].start
        BY <3>2
      <4>2. \/ \E i \in 1..Len(rs) : old[j].start = rs[i].start
            \/ \E i \in 1..(b - 1) : old[j].start = seq[i].end
        BY <2>2 DEF Leaves
      <4> QED
        BY <2>8, <4>1, <4>2, Zenon
    <3> QED
      BY <2>5, <3>1, <3>2 DEF StartsFrom
  <2> QED
    BY <2>5, <2>6, <2>7, <2>10 DEF Leaves
<1> QED
  BY <1>9, <1>10

-----------------------------------------------------------------------------
(* getRange *)

\* found is the range of rs around e, and that range is a run that ends on both
\* sides, or nothing when no range has e.
FindsTheRun(found, rs, e) ==
  IF e \in Elems(rs)
  THEN \E r \in found :
         /\ e \in r.start..(r.end - 1)
         /\ r.start..(r.end - 1) \subseteq Elems(rs)
         /\ {r.start - 1, r.end} \cap Elems(rs) = {}
  ELSE found = {}

\* getRange finds the run of an element.
LEMMA GetRangeIsTheRun ==
  ASSUME NEW rs, Canon(rs), NEW e \in Int
  PROVE  FindsTheRun(GetRange(rs, e), rs, e)
<1> DEFINE lb == FirstNotLess(rs, e)
           at == IF lb = Len(rs) + 1 \/ (lb > 1 /\ rs[lb].start # e) THEN lb - 1 ELSE lb
<1>1. rs \in Seq(IntRange) /\ Len(rs) \in Nat
  BY DEF Canon
<1>2. \A i \in 1..Len(rs) : rs[i].start \in Int /\ rs[i].end \in Int
  BY <1>1, BoundsOf
<1>4. /\ lb \in 1..(Len(rs) + 1)
      /\ \A i \in 1..Len(rs) : i < lb => rs[i].start < e
      /\ \A i \in 1..Len(rs) : lb <= i => e <= rs[i].start
  <2> SUFFICES ASSUME NEW l, l = FirstNotLess(rs, e)
               PROVE  /\ l \in 1..(Len(rs) + 1)
                      /\ \A i \in 1..Len(rs) : i < l => rs[i].start < e
                      /\ \A i \in 1..Len(rs) : l <= i => e <= rs[i].start
    OBVIOUS
  <2> QED
    BY LowerBound, CanonIsSpaced
<1>5. GetRange(rs, e) = IF rs # <<>> /\ ContainsElem(rs[at], e) THEN {rs[at]} ELSE {}
  BY DEF GetRange
<1> HIDE DEF lb
<1>6. rs # <<>> => at \in 1..Len(rs)
  <2>1. rs # <<>> => Len(rs) >= 1
    BY <1>1, EmptySeq
  <2> QED
    BY <1>1, <1>4, <2>1
\* A range with e is the one at that place.
<1>7. ASSUME NEW i \in 1..Len(rs), rs[i].start <= e, e < rs[i].end
      PROVE  i = at
  <2>1. CASE rs[i].start = e
    <3>1. i >= lb
      <4>1. ~(i < lb)
        BY <1>4, <2>1
      <4> QED
        BY <1>1, <1>4, <4>1
    <3>2. lb \in 1..Len(rs) /\ e <= rs[lb].start
      BY <1>1, <1>4, <3>1
    <3>3. i = lb \/ (rs[lb].start < rs[lb].end /\ rs[lb].end < rs[i].start)
      BY <1>1, <1>4, <3>1, <3>2 DEF Canon
    <3>4. i = lb
      BY <1>2, <2>1, <3>2, <3>3
    <3> QED
      BY <1>1, <2>1, <3>2, <3>4
  <2>2. CASE rs[i].start < e
    <3>2. i < lb
      <4>1. ~(lb <= i)
        BY <1>2, <1>4, <2>2
      <4> QED
        BY <1>1, <1>4, <4>1
    <3>3. i = lb - 1
      <4>1. SUFFICES ASSUME i < lb - 1 PROVE FALSE
        BY <1>1, <1>4, <3>2
      <4>2. lb - 1 \in 1..Len(rs) /\ lb - 1 < lb
        BY <1>1, <1>4, <4>1
      <4>3. rs[lb - 1].start < e
        BY <1>4, <4>2
      <4>4. rs[i].end < rs[lb - 1].start
        BY <4>1, <4>2 DEF Canon
      <4> QED
        BY <1>2, <1>7, <4>2, <4>3, <4>4
    <3>4. lb = Len(rs) + 1 \/ rs[lb].start # e
      <4>1. SUFFICES ASSUME lb \in 1..Len(rs) PROVE rs[lb].start # e
        BY <1>1, <1>4
      <4>2. rs[i].end < rs[lb].start
        BY <3>2, <4>1 DEF Canon
      <4> QED
        BY <1>2, <1>7, <4>1, <4>2
    <3> QED
      BY <1>1, <1>4, <3>2, <3>3, <3>4
  <2> QED
    BY <1>2, <1>7, <2>1, <2>2
<1> HIDE DEF at
<1>8. CASE e \in Elems(rs)
  <2>1. PICK i \in 1..Len(rs) : rs[i].start <= e /\ e < rs[i].end
    BY <1>1, <1>8, ElemsOf
  <2>2. i = at /\ rs # <<>>
    <3>1. Len(rs) # 0
      BY <1>1, <2>1
    <3> QED
      BY <1>7, <2>1, <3>1, EmptySeq
  <2>3. GetRange(rs, e) = {rs[i]}
    BY <1>5, <2>1, <2>2 DEF ContainsElem
  <2>4. e \in rs[i].start..(rs[i].end - 1)
    BY <1>2, <2>1
  <2>5. rs[i].start..(rs[i].end - 1) \subseteq Elems(rs)
    BY <1>1, <1>2, <2>1, ElemsOf
  <2>6. ASSUME NEW j \in 1..Len(rs), NEW x \in {rs[i].start - 1, rs[i].end},
               rs[j].start <= x, x < rs[j].end
        PROVE  FALSE
    <3>1. \/ i = j
          \/ rs[i].start < rs[i].end /\ rs[i].end < rs[j].start
          \/ rs[j].end < rs[i].start /\ rs[i].start < rs[i].end
      BY <1>1, <2>1 DEF Canon
    <3> QED
      BY <1>2, <2>1, <2>6, <3>1
  <2>7. {rs[i].start - 1, rs[i].end} \cap Elems(rs) = {}
    BY <1>1, <2>6, ElemsOf
  <2> QED
    BY <1>8, <2>3, <2>4, <2>5, <2>7 DEF FindsTheRun
<1>9. CASE e \notin Elems(rs)
  <2>1. rs # <<>> => ~ContainsElem(rs[at], e)
    BY <1>1, <1>6, <1>9, ElemsOf DEF ContainsElem
  <2> QED
    BY <1>5, <1>9, <2>1 DEF FindsTheRun
<1> QED
  BY <1>8, <1>9

-----------------------------------------------------------------------------
(* The container *)

\* The inductive invariant: the order of Canonical between any two ranges, and
\* bounds that a caller can have asked for.
RangeInv ==
  /\ Canon(ranges)
  /\ Elems(ranges) \subseteq 0..(MaxElem - 1)
  /\ inserted \in BOOLEAN

\* The ranges of the calls have integer bounds and an element.
LEMMA CalledRanges ==
  ASSUME NEW r \in Ranges
  PROVE  /\ r \in IntRange /\ r.start < r.end
         /\ r.start \in Bounds /\ r.end \in Bounds
         /\ r.start..(r.end - 1) \subseteq 0..(MaxElem - 1)
<1>1. /\ r \in [start : Bounds, end : Bounds] /\ r.start < r.end
      /\ MaxElem \in Nat
  BY RangeAssumption DEF Ranges
<1>2. r.start \in 0..MaxElem /\ r.end \in 0..MaxElem
  BY <1>1 DEF Bounds
<1>3. Bounds \subseteq Int
  BY <1>1 DEF Bounds
<1> QED
  BY <1>1, <1>2, <1>3 DEF IntRange, Bounds

\* The container has type and order at all times: sorted, merged, none empty,
\* and nothing in it that was never inserted.
THEOREM RangeInvariance == RangeSpec => []RangeInv
<1>1. RangeInit => RangeInv
  BY Empty, CanonIsSpaced DEF RangeInit, RangeInv
<1>2. RangeInv /\ [RangeNext]_rangeVars => RangeInv'
  <2> SUFFICES ASSUME RangeInv, [RangeNext]_rangeVars PROVE RangeInv'
    OBVIOUS
  <2>1. ASSUME NEW r \in Ranges, Insert(r) PROVE RangeInv'
    <3>1. /\ Canon(InsertRange(ranges, r).ranges)
          /\ Elems(InsertRange(ranges, r).ranges)
               = Elems(ranges) \cup (r.start..(r.end - 1))
          /\ InsertRange(ranges, r).flag
               = (Elems(InsertRange(ranges, r).ranges) # Elems(ranges))
      BY CalledRanges, InsertAddsTheRange DEF RangeInv
    <3>2. ranges' = InsertRange(ranges, r).ranges /\ inserted' = InsertRange(ranges, r).flag
      BY <2>1 DEF Insert
    <3>3. Elems(ranges') \subseteq 0..(MaxElem - 1)
      BY <3>1, <3>2, CalledRanges DEF RangeInv
    <3>4. inserted' \in BOOLEAN
      BY <3>1, <3>2, Zenon
    <3> QED
      BY <3>1, <3>2, <3>3, <3>4 DEF RangeInv
  <2>2. ASSUME NEW r \in Ranges, RemoveElems(r) PROVE RangeInv'
    <3>1. /\ Canon(RemoveRange(ranges, r))
          /\ Elems(RemoveRange(ranges, r)) = Elems(ranges) \ (r.start..(r.end - 1))
      BY CalledRanges, RemoveTakesTheRange DEF RangeInv
    <3> QED
      BY <2>2, <3>1 DEF RemoveElems, RangeInv
  <2>3. CASE Clear
    BY <2>3, Empty, CanonIsSpaced DEF Clear, RangeInv
  <2>4. CASE UNCHANGED rangeVars
    BY <2>4 DEF rangeVars, RangeInv
  <2> QED
    BY <2>1, <2>2, <2>3, <2>4 DEF RangeNext
<1> QED
  BY <1>1, <1>2, PTL DEF RangeSpec

\* The class comment of RangeContainer holds after any calls: disjoint, merged,
\* in ascending order, and no range is empty.
THEOREM AlwaysCanonical == RangeSpec => []Canonical
<1>1. RangeInv => Canonical
  <2> SUFFICES ASSUME RangeInv PROVE Canonical
    OBVIOUS
  <2>1. Len(ranges) \in Nat
    BY DEF RangeInv, Canon
  <2>2. ASSUME NEW i \in 1..(Len(ranges) - 1)
        PROVE  ranges[i].end < ranges[i + 1].start
    <3>1. i \in 1..Len(ranges) /\ i + 1 \in 1..Len(ranges) /\ i < i + 1
      BY <2>1
    <3> QED
      BY <3>1 DEF RangeInv, Canon
  <2> QED
    BY <2>2 DEF RangeInv, Canon, Canonical
<1> QED
  BY <1>1, RangeInvariance, PTL

\* The binary search of getRange, with its step back, finds the stored range of
\* every element, and no range of anything else; what it finds is a whole run.
THEOREM SearchFindsTheRun == RangeSpec => []GetRangeFindsTheRun
<1>1. RangeInv => GetRangeFindsTheRun
  <2> SUFFICES ASSUME RangeInv, NEW e \in Bounds
               PROVE  IF e \in Elems(ranges)
                      THEN \E r \in GetRange(ranges, e) :
                             /\ e \in r.start..(r.end - 1)
                             /\ r.start..(r.end - 1) \subseteq Elems(ranges)
                             /\ {r.start - 1, r.end} \cap Elems(ranges) = {}
                      ELSE GetRange(ranges, e) = {}
    BY DEF GetRangeFindsTheRun
  <2>1. e \in Int
    BY RangeAssumption DEF Bounds
  <2> QED
    BY <2>1, GetRangeIsTheRun DEF RangeInv, FindsTheRun
<1> QED
  BY <1>1, RangeInvariance, PTL

\* The container implements AddressSet: every call changes the set of stored
\* elements as it promises to, and the flag of insert tells whether it did.
THEOREM Refinement == RangeSpec => ImplementsAddressSet
<1>1. RangeInit => Abs!Init
  BY Empty DEF RangeInit, Abs!Init
<1>2. RangeInv /\ [RangeNext]_rangeVars => [Abs!Next]_(Abs!setVars)
  <2> SUFFICES ASSUME RangeInv, [RangeNext]_rangeVars PROVE [Abs!Next]_(Abs!setVars)
    OBVIOUS
  <2>1. ASSUME NEW r \in Ranges, Insert(r) PROVE Abs!Next
    <3>1. /\ r.start \in Abs!Bounds /\ r.end \in Abs!Bounds /\ r.start < r.end
      BY CalledRanges DEF Bounds, Abs!Bounds
    <3>2. /\ Elems(InsertRange(ranges, r).ranges)
               = Elems(ranges) \cup (r.start..(r.end - 1))
          /\ InsertRange(ranges, r).flag
               = (Elems(InsertRange(ranges, r).ranges) # Elems(ranges))
      BY CalledRanges, InsertAddsTheRange DEF RangeInv
    <3>3. /\ call' = <<"insert", r.start, r.end>>
          /\ ranges' = InsertRange(ranges, r).ranges
          /\ inserted' = InsertRange(ranges, r).flag
      BY <2>1 DEF Insert
    <3>4. Abs!Insert(r.start, r.end)
      BY <3>2, <3>3, Zenon DEF Abs!Insert
    <3> QED
      BY <3>1, <3>4 DEF Abs!Next
  <2>2. ASSUME NEW r \in Ranges, RemoveElems(r) PROVE Abs!Next
    <3>1. /\ r.start \in Abs!Bounds /\ r.end \in Abs!Bounds /\ r.start < r.end
      BY CalledRanges DEF Bounds, Abs!Bounds
    <3>2. Elems(RemoveRange(ranges, r)) = Elems(ranges) \ (r.start..(r.end - 1))
      BY CalledRanges, RemoveTakesTheRange DEF RangeInv
    <3>3. Abs!Remove(r.start, r.end)
      BY <2>2, <3>2 DEF RemoveElems, Abs!Remove
    <3> QED
      BY <3>1, <3>3 DEF Abs!Next
  <2>3. CASE Clear
    <3>1. Abs!Clear
      BY <2>3, Empty DEF Clear, Abs!Clear
    <3> QED
      BY <3>1 DEF Abs!Next
  <2>4. CASE UNCHANGED rangeVars
    BY <2>4 DEF rangeVars, Abs!setVars
  <2> QED
    BY <2>1, <2>2, <2>3, <2>4 DEF RangeNext
<1> QED
  BY <1>1, <1>2, RangeInvariance, PTL DEF RangeSpec, Abs!Spec, ImplementsAddressSet

(***************************************************************************)
(* RangesToDecode: the inductive invariant                                 *)
(***************************************************************************)

TypeOK ==
  /\ input \in Inputs
  /\ pos \in Nat \ {0}
  /\ phase \in {"add", "nonDecodable", "zeroes", "promote", "decode"}
  /\ before \subseteq Nat
  /\ asked \subseteq AddressRange

\* While ranges are added no two of them are adjacent; removing an empty range
\* may change that.  Nothing is held that was not asked for.
Vectors ==
  /\ phase = "add" => Canon(primary) /\ Canon(alternative)
  /\ Spaced(0, primary) /\ Spaced(0, alternative)
  /\ Held \subseteq Wanted

\* No range starts in the middle of an instruction.
StartsOK(rs) ==
  \A i \in 1..Len(rs) : IsSlot(rs[i].start) \/ input.bytes[rs[i].start] # "code"

\* The entry point is an instruction that is held once its segment was added.
EpIsCode ==
  /\ input.selected = <<>> /\ IsSlot(input.ep) /\ input.bytes[input.ep] = "code"

EpIn(n) ==
  \E i \in 1..Len(input.segments) :
    i < n /\ IsEpSegment(input.segments[i]) /\ input.segments[i].kind # "skip"

EntryPointHeld ==
  EpIsCode /\ asked = {} =>
    /\ phase = "add" /\ EpIn(pos) => input.ep \in Held
    /\ phase # "add" /\ EpIn(Len(input.segments) + 1) => input.ep \in Held

\* Decoding has taken the asked ranges, up to their aligned ends.
AskedAreGone ==
  /\ phase # "decode" => asked = {}
  /\ phase = "decode" =>
       Held = {a \in before : \A r \in asked : ~(r.start <= a /\ a < AlignUp(r.end))}

IInv ==
  /\ TypeOK
  /\ Vectors
  /\ Gapless => StartsOK(primary) /\ StartsOK(alternative)
  /\ EntryPointHeld
  /\ AskedAreGone
  /\ ZeroRemovalKeepsCode

-----------------------------------------------------------------------------
(* Alignment, and the operations on one container *)

\* Quotient and remainder.
LEMMA Division ==
  ASSUME NEW s \in Int, NEW A \in Int, A > 0
  PROVE  s = A * (s \div A) + (s % A)
OBVIOUS

\* An aligned address is the first slot that is not before the given one.
LEMMA AlignUpIsNextSlot ==
  ASSUME NEW s \in Nat
  PROVE  /\ AlignUp(s) \in Nat /\ s <= AlignUp(s) /\ IsSlot(AlignUp(s))
         /\ \A a \in Nat : IsSlot(a) /\ s <= a => AlignUp(s) <= a
<1> DEFINE A == InsnAlign
<1>1. A \in Nat
  BY RangesAssumption
<1>2. CASE A = 0
  <2>1. AlignUp(s) = s
    BY <1>2 DEF AlignUp
  <2> QED
    BY <1>2, <2>1 DEF IsSlot
<1>3. CASE A # 0
  <2>0. A \in Nat \ {0}
    BY <1>1, <1>3
  <2> HIDE DEF A
  <2>1. s % A \in 0..(A - 1) /\ s = A * (s \div A) + (s % A) /\ s \div A \in Nat
    <3>1. s % A \in 0..(A - 1)
      BY <2>0
    <3>2. s \div A \in Nat
      BY <2>0
    <3>3. s \in Int /\ A \in Int /\ A > 0
      BY <2>0
    <3> QED
      BY <3>1, <3>2, <3>3, Division
  <2> DEFINE k == s \div A
             m == s % A
  <2>2. /\ k \in Nat /\ m \in Nat /\ m < A /\ s = A * k + m
    BY <2>0, <2>1
  <2>3. AlignUp(s) = IF m # 0 THEN s + A - m ELSE s
    BY <2>0 DEF AlignUp, A
  <2>4. \A a : IsSlot(a) <=> a % A = 0
    BY <2>0 DEF IsSlot, A
  <2> HIDE DEF k, m
  <2>5. \A q \in Nat : (A * q) % A = 0
    BY <2>0
  <2>6. A * (k + 1) = A * k + A
    BY <2>0, <2>2
  <2>7. CASE m = 0
    <3>1. AlignUp(s) = s /\ s = A * k
      BY <2>0, <2>2, <2>3, <2>7
    <3>2. IsSlot(s)
      BY <2>2, <2>4, <2>5, <3>1
    <3> QED
      BY <3>1, <3>2
  <2>8. CASE m # 0
    <3>0. A * k \in Nat
      BY <2>0, <2>2
    <3>1. AlignUp(s) = A * k + A
      BY <2>0, <2>2, <2>3, <2>8, <3>0
    <3>2. IsSlot(A * (k + 1))
      BY <2>2, <2>4, <2>5
    <3>3. ASSUME NEW a \in Nat, IsSlot(a), s <= a PROVE AlignUp(s) <= a
      <4>1. a % A = 0 /\ a = A * (a \div A) + (a % A) /\ a \div A \in Nat
        <5>1. a \div A \in Nat
          BY <2>0
        <5>2. a \in Int /\ A \in Int /\ A > 0
          BY <2>0
        <5> QED
          BY <2>4, <3>3, <5>1, <5>2, Division
      <4> DEFINE q == a \div A
      <4>2. a = A * q /\ q \in Nat
        BY <2>0, <4>1
      <4> HIDE DEF q
      <4>3. ~(q <= k)
        <5>1. SUFFICES ASSUME q <= k PROVE FALSE
          OBVIOUS
        <5>2. A * q <= A * k
          BY <2>0, <2>2, <4>2, <5>1
        <5> QED
          BY <2>2, <2>8, <3>0, <3>3, <4>2, <5>2
      <4>4. k + 1 <= q
        BY <2>2, <4>2, <4>3
      <4>5. A * (k + 1) <= A * q
        BY <2>0, <2>2, <4>2, <4>4
      <4> QED
        BY <2>6, <3>1, <4>2, <4>5
    <3>4. AlignUp(s) \in Nat /\ s <= AlignUp(s)
      BY <2>0, <2>2, <3>0, <3>1
    <3> QED
      BY <2>6, <3>1, <3>2, <3>3, <3>4
  <2> QED
    BY <2>7, <2>8
<1> QED
  BY <1>2, <1>3

\* The fields of a pair of bounds.
LEMMA MadeRange ==
  ASSUME NEW s \in Int, NEW e \in Int
  PROVE  MkRange(s, e) \in IntRange /\ MkRange(s, e).start = s /\ MkRange(s, e).end = e
BY DEF MkRange, IntRange

\* Adding holds what was wanted from its first slot on.
LEMMA AddToAdds ==
  ASSUME NEW rs, Canon(rs), NEW s \in Nat, NEW e \in Nat
  PROVE  /\ Canon(AddTo(rs, s, e))
         /\ Elems(AddTo(rs, s, e)) = Elems(rs) \cup (AlignUp(s)..(e - 1))
         /\ StartsFrom(AddTo(rs, s, e), rs, AlignUp(s))
<1> DEFINE a == AlignUp(s)
<1>1. a \in Nat
  BY AlignUpIsNextSlot
<1>0. AddTo(rs, s, e) = IF e > a THEN InsertRange(rs, MkRange(a, e)).ranges ELSE rs
  BY DEF AddTo
<1> HIDE DEF a
<1>2. CASE e > a
  <2> DEFINE r == MkRange(a, e)
  <2>1. r \in IntRange /\ r.start = a /\ r.end = e
    BY <1>1, MadeRange
  <2> HIDE DEF r
  <2>2. r.start < r.end
    BY <1>1, <1>2, <2>1
  <2>3. /\ Canon(InsertRange(rs, r).ranges)
        /\ Elems(InsertRange(rs, r).ranges) = Elems(rs) \cup (a..(e - 1))
        /\ StartsFrom(InsertRange(rs, r).ranges, rs, a)
    BY <2>1, <2>2, InsertAddsTheRange, InsertStarts
  <2> QED
    BY <1>0, <1>2, <2>3 DEF a, r
<1>3. CASE ~(e > a)
  <2>1. a..(e - 1) = {}
    BY <1>1, <1>3
  <2>2. AddTo(rs, s, e) = rs
    BY <1>0, <1>3
  <2> QED
    BY <2>1, <2>2 DEF StartsFrom, a
<1> QED
  BY <1>2, <1>3

\* Removing takes everything up to the next slot behind the range.
LEMMA RemoveFromTakes ==
  ASSUME NEW rs, Spaced(0, rs), NEW s \in Nat, NEW e \in Nat, s <= e
  PROVE  /\ Spaced(0, RemoveFrom(rs, s, e))
         /\ Elems(RemoveFrom(rs, s, e)) = Elems(rs) \ (s..(AlignUp(e) - 1))
         /\ StartsFrom(RemoveFrom(rs, s, e), rs, AlignUp(e))
<1> DEFINE a == AlignUp(e)
           r == MkRange(s, a)
<1>1. a \in Nat /\ e <= a
  BY AlignUpIsNextSlot
<1>2. RemoveFrom(rs, s, e) = RemoveRange(rs, r)
  BY DEF RemoveFrom
<1> HIDE DEF a
<1>3. r \in IntRange /\ r.start = s /\ r.end = a
  BY <1>1, MadeRange
<1> HIDE DEF r
<1>4. Sep(0, r.start, r.end)
  BY <1>1, <1>3 DEF Sep
<1> QED
  BY <1>2, <1>3, <1>4, RemoveKeepsSpacing DEF a

-----------------------------------------------------------------------------
(* Zero sequences *)

\* What is asked to be decoded are addresses.
LEMMA WantedAreAddresses ==
  ASSUME input \in Inputs
  PROVE  /\ Wanted \subseteq Nat
         /\ \A i \in 1..Len(input.segments) : input.segments[i].range \in AddressRange
         /\ \A i \in 1..Len(input.selected) : input.selected[i] \in AddressRange
         /\ \A i \in 1..Len(input.nonDecodable) : input.nonDecodable[i] \in AddressRange
<1>1. /\ input.segments \in Seq(SegmentOf(AddressRange))
      /\ input.nonDecodable \in Seq(AddressRange)
      /\ input.selected \in Seq(AddressRange)
  BY InputsAssumption
<1>2. \A i \in 1..Len(input.segments) : input.segments[i].range \in AddressRange
  <2>1. \A i \in 1..Len(input.segments) : input.segments[i] \in SegmentOf(AddressRange)
    BY <1>1
  <2> QED
    BY <2>1 DEF SegmentOf
<1>3. /\ \A i \in 1..Len(input.selected) : input.selected[i] \in AddressRange
      /\ \A i \in 1..Len(input.nonDecodable) : input.nonDecodable[i] \in AddressRange
  BY <1>1
<1>4. \A r \in AddressRange : AddrsIn(r) \subseteq Nat
  BY DEF AddressRange, AddrsIn
<1>5. Wanted \subseteq Nat
  BY <1>2, <1>3, <1>4 DEF Wanted
<1> QED
  BY <1>2, <1>3, <1>5

\* Without selected ranges, no wanted byte is unreadable.
LEMMA SegmentsHaveNoGap ==
  ASSUME input \in Inputs, input.selected = <<>>
  PROVE  Gapless
<1>1. \A i \in 1..Len(input.segments) :
        \A a \in AddrsIn(input.segments[i].range) : input.bytes[a] # "none"
  BY InputsAssumption
<1>2. \A a \in Wanted : input.bytes[a] # "none"
  BY <1>1 DEF Wanted
<1> QED
  BY <1>2 DEF Gapless

\* The scan of a range ends at its end, or at a byte that cannot be read.
LEMMA ScanEndsAt ==
  ASSUME NEW r, r.start \in Nat, r.end \in Nat, r.start < r.end
  PROVE  /\ ScanEnd(r) \in Nat /\ r.start <= ScanEnd(r) /\ ScanEnd(r) <= r.end
         /\ ScanEnd(r) # r.end => input.bytes[ScanEnd(r)] = "none"
<1> DEFINE S == {a \in AddrsIn(r) : input.bytes[a] = "none"} \cup {r.end}
<1>1. /\ S \in SUBSET Nat /\ S # {}
      /\ \A x \in S : r.start <= x /\ x <= r.end
      /\ \A x \in S : x # r.end => input.bytes[x] = "none"
  BY DEF AddrsIn
<1>2. ScanEnd(r) = Min(S)
  BY DEF ScanEnd
<1> HIDE DEF S
<1>3. ScanEnd(r) \in S
  BY <1>1, <1>2, MinOfNats
<1> QED
  BY <1>1, <1>3

\* Among bytes of r that are not code, with the margin on both sides.
InZeroes(q, r) ==
  \E z \in Nat, e \in Nat :
    /\ q = MkRange(z + Margin, e - Margin)
    /\ r.start <= z /\ z + 2 * Margin < e /\ e <= r.end
    /\ Gapless => \A c \in z..(e - 1) : input.bytes[c] # "code"

\* The ranges that removeZeroSequences collects lie among such bytes.
LEMMA CollectedAreInZeroes ==
  ASSUME NEW rs, Spaced(0, rs), Elems(rs) \subseteq Wanted, Wanted \subseteq Nat,
         NEW i \in 1..Len(rs), NEW q \in ZeroSequences(rs[i])
  PROVE  InZeroes(q, rs[i])
<1> DEFINE r == rs[i]
<1>1. r.start \in Nat /\ r.end \in Nat /\ r.start < r.end
  BY StartIsElem
<1>2. \A x : x \in Int /\ r.start <= x /\ x < r.end => x \in Wanted
  BY ElemsOf DEF Spaced
<1>3. PICK run \in ZeroRuns(r) :
        /\ run.z + 2 * Margin < MeasuredEnd(r, run)
        /\ q = MkRange(run.z + Margin, MeasuredEnd(r, run) - Margin)
  BY DEF ZeroSequences
<1> HIDE DEF r
<1> DEFINE z == run.z
           stop == run.stop
           e == MeasuredEnd(r, run)
           scan == ScanEnd(r)
<1>4. /\ z \in AddrsIn(r) /\ stop \in r.start..r.end
      /\ z < stop /\ stop <= scan
      /\ \A a \in z..(stop - 1) : input.bytes[a] = "zero"
  BY <1>3 DEF ZeroRuns
<1>5. z \in Nat /\ r.start <= z /\ z < r.end /\ stop \in Nat /\ stop <= r.end
  BY <1>1, <1>4 DEF AddrsIn
<1>6. e = IF stop < scan THEN stop ELSE IF scan = r.end THEN r.end - 1 ELSE r.end
  BY DEF MeasuredEnd
<1>7. /\ scan \in Nat /\ r.start <= scan /\ scan <= r.end
      /\ scan # r.end => input.bytes[scan] = "none"
  BY <1>1, ScanEndsAt
<1>8. z + 2 * Margin < e /\ q = MkRange(z + Margin, e - Margin)
  BY <1>3
<1> HIDE DEF z, stop, e, scan
<1>9. e \in Nat /\ e <= r.end
  BY <1>1, <1>5, <1>6
<1>10. ASSUME Gapless, NEW c \in z..(e - 1) PROVE input.bytes[c] # "code"
  <2>1. CASE c < stop
    <3>1. c \in z..(stop - 1)
      BY <1>5, <1>9, <2>1
    <3> QED
      BY <1>4, <3>1
  <2>2. CASE ~(c < stop)
    <3>1. stop = scan /\ scan < r.end /\ scan <= c /\ c < r.end /\ c \in Int
      BY <1>1, <1>4, <1>5, <1>6, <1>7, <1>9, <2>2
    <3>2. input.bytes[scan] = "none"
      BY <1>7, <3>1
    <3>3. scan..c \subseteq Wanted /\ scan \in Wanted /\ c \in Wanted
      BY <1>1, <1>2, <1>7, <3>1
    <3>4. scan = c \/ scan < c
      BY <1>7, <3>1
    <3>5. input.bytes[c] = "none"
      BY <1>10, <3>2, <3>3, <3>4 DEF Gapless
    <3> QED
      BY <3>5
  <2> QED
    BY <2>1, <2>2
<1>11. InZeroes(q, r)
  BY <1>5, <1>8, <1>9, <1>10 DEF InZeroes
<1> QED
  BY <1>11 DEF r

\* A set of which every element is listed once.
LEMMA ListOfSet ==
  ASSUME NEW S, IsFiniteSet(S)
  PROVE  SetToSeq(S) \in Seq(S)
<1> DEFINE n == Cardinality(S)
<1>1. n \in Nat /\ Bijection(1..n, S) # {}
  BY FS_CardinalityType DEF ExistsBijection
<1>2. \E f \in [1..n -> S] : IsInjective(f)
  BY <1>1 DEF Bijection, Injection
<1>3. SetToSeq(S) \in [1..n -> S]
  BY <1>2 DEF SetToSeq
<1> QED
  BY <1>1, <1>3

\* Ranges between two addresses are finitely many.
LEMMA FinitelyManyRanges ==
  ASSUME NEW S, NEW n \in Nat,
         \A q \in S : q \in IntRange /\ q.start \in 0..n /\ q.end \in 0..n
  PROVE  IsFiniteSet(S)
<1> DEFINE P == (0..n) \X (0..n)
           f == [q \in S |-> <<q.start, q.end>>]
<1>1. IsFiniteSet(0..n)
  BY FS_Interval
<1>2. IsFiniteSet(P)
  BY <1>1, FS_Product
<1>3. f \in [S -> P]
  OBVIOUS
<1>4. ASSUME NEW p \in S, NEW q \in S, f[p] = f[q] PROVE p = q
  <2>1. f[p] = <<p.start, p.end>> /\ f[q] = <<q.start, q.end>>
    OBVIOUS
  <2>2. p.start = q.start /\ p.end = q.end
    BY <1>4, <2>1
  <2> QED
    BY <2>2, SameRange
<1>5. DOMAIN f = S
  OBVIOUS
<1> HIDE DEF f, P
<1>6. f \in Injection(S, P)
  BY <1>3, <1>4, <1>5 DEF Injection, IsInjective
<1> QED
  BY <1>2, <1>6, FS_Injection

\* No range of the vector ends behind some address.
LEMMA EndsAreBounded ==
  ASSUME NEW rs, Spaced(0, rs), Elems(rs) \subseteq Nat
  PROVE  \E n \in Nat : \A i \in 1..Len(rs) : rs[i].end <= n
<1>1. Len(rs) \in Nat
  BY DEF Spaced
<1>2. \A i \in 1..Len(rs) : rs[i].start \in Nat /\ rs[i].end \in Nat /\ rs[i].start < rs[i].end
  BY StartIsElem
<1>3. CASE Len(rs) = 0
  BY <1>3
<1>4. CASE Len(rs) # 0
  <2> DEFINE l == Len(rs)
  <2>1. l \in 1..Len(rs)
    BY <1>1, <1>4
  <2>2. ASSUME NEW i \in 1..Len(rs) PROVE rs[i].end <= rs[l].end
    <3>1. i = l \/ i < l
      BY <1>1
    <3>2. CASE i < l
      <4>1. Sep(0, rs[i].end, rs[l].start)
        BY <2>1, <3>2 DEF Spaced
      <4> QED
        BY <1>2, <2>1, <4>1 DEF Sep
    <3> QED
      BY <1>2, <3>1, <3>2
  <2> QED
    BY <1>2, <2>1, <2>2
<1> QED
  BY <1>3, <1>4

\* What removeZeroSequences leaves of a container: the bytes that are code, and
\* those within the margin of one; and ranges do not start in code where they
\* did not before.
LeavesCode(out, rs) ==
  /\ StartsOK(rs) => StartsOK(out)
  /\ \A a \in Nat, b \in Elems(rs) :
       input.bytes[a] = "code" /\ a - Margin <= b /\ b <= a + Margin => b \in Elems(out)

\* The loop over the collected ranges removes nothing else.
LEMMA ZeroesAreTaken ==
  ASSUME NEW rs, Spaced(0, rs), Elems(rs) \subseteq Wanted, Wanted \subseteq Nat
  PROVE  /\ Spaced(0, WithoutZeroes(rs))
         /\ Elems(WithoutZeroes(rs)) \subseteq Elems(rs)
         /\ Gapless => LeavesCode(WithoutZeroes(rs), rs)
<1> DEFINE Z == UNION {ZeroSequences(rs[i]) : i \in 1..Len(rs)}
           seq == SetToSeq(Z)
           out == WithoutZeroes(rs)
<1>1. out = RemoveAll(rs, seq)
  BY DEF WithoutZeroes
<1>2. \A q \in Z : \E i \in 1..Len(rs) : InZeroes(q, rs[i])
  BY CollectedAreInZeroes
<1> HIDE DEF Z
<1>3. PICK n \in Nat : \A i \in 1..Len(rs) : rs[i].end <= n
  BY EndsAreBounded
<1>4. Margin \in Nat \ {0}
  BY RangesAssumption
<1>5. \A i \in 1..Len(rs) : rs[i].start \in Nat /\ rs[i].end \in Nat
  BY StartIsElem
<1>6. ASSUME NEW q \in Z
      PROVE  /\ q \in IntRange /\ q.start \in 0..n /\ q.end \in 0..n
             /\ q.start < q.end
             /\ \E z \in Nat, e \in Nat :
                  /\ q.start = z + Margin /\ q.end = e - Margin /\ z + 2 * Margin < e
                  /\ Gapless => \A c \in z..(e - 1) : input.bytes[c] # "code"
  <2>1. PICK i \in 1..Len(rs) : InZeroes(q, rs[i])
    BY <1>2
  <2>2. PICK z \in Nat, e \in Nat :
          /\ q = MkRange(z + Margin, e - Margin)
          /\ rs[i].start <= z /\ z + 2 * Margin < e /\ e <= rs[i].end
          /\ Gapless => \A c \in z..(e - 1) : input.bytes[c] # "code"
    BY <2>1 DEF InZeroes
  <2>3. q \in IntRange /\ q.start = z + Margin /\ q.end = e - Margin
    BY <1>4, <2>2, MadeRange
  <2>4. e <= n
    BY <1>3, <1>5, <2>2
  <2>5. q.start \in 0..n /\ q.end \in 0..n /\ q.start < q.end
    BY <1>4, <2>2, <2>3, <2>4
  <2> QED
    BY <2>2, <2>3, <2>5
<1>7. IsFiniteSet(Z)
  BY <1>6, FinitelyManyRanges
<1>8. seq \in Seq(Z)
  BY <1>7, ListOfSet
<1> HIDE DEF seq
<1>9. Len(seq) \in Nat /\ \A i \in 1..Len(seq) : seq[i] \in Z
  BY <1>8
<1>10. seq \in Seq(IntRange)
  <2>1. Z \subseteq IntRange
    BY <1>6
  <2> QED
    BY <1>8, <2>1
<1>11. \A i \in 1..Len(seq) : seq[i].start <= seq[i].end
  <2>1. ASSUME NEW q \in Z PROVE q.start <= q.end
    BY <1>6
  <2> QED
    BY <1>9, <2>1
<1>12. Leaves(out, rs, seq, Len(seq))
  BY <1>1, <1>10, <1>11, RemoveAllTakesThem
<1> HIDE DEF out
<1>13. Spaced(0, out) /\ Elems(out) \subseteq Elems(rs)
  BY <1>12 DEF Leaves
<1>14. ASSUME Gapless, StartsOK(rs) PROVE StartsOK(out)
  <2>1. ASSUME NEW k \in 1..Len(out)
        PROVE  IsSlot(out[k].start) \/ input.bytes[out[k].start] # "code"
    <3>1. CASE \E i \in 1..Len(rs) : out[k].start = rs[i].start
      BY <1>14, <3>1 DEF StartsOK
    <3>2. CASE \E i \in 1..Len(seq) : out[k].start = seq[i].end
      <4>1. PICK q \in Z : out[k].start = q.end
        BY <1>9, <3>2
      <4>2. PICK z \in Nat, e \in Nat :
              /\ q.end = e - Margin /\ z + 2 * Margin < e
              /\ \A c \in z..(e - 1) : input.bytes[c] # "code"
        BY <1>6, <1>14
      <4>3. e - Margin \in z..(e - 1)
        BY <1>4, <4>2
      <4> QED
        BY <4>1, <4>2, <4>3
    <3> QED
      BY <1>12, <3>1, <3>2 DEF Leaves
  <2> QED
    BY <2>1 DEF StartsOK
<1>15. ASSUME Gapless, NEW a \in Nat, NEW b \in Elems(rs), input.bytes[a] = "code",
              a - Margin <= b, b <= a + Margin
       PROVE  b \in Elems(out)
  <2>0. b \in Nat
    OBVIOUS
  <2>1. ASSUME NEW q \in Z PROVE b \notin q.start..(q.end - 1)
    <3>1. PICK z \in Nat, e \in Nat :
            /\ q.start = z + Margin /\ q.end = e - Margin
            /\ \A c \in z..(e - 1) : input.bytes[c] # "code"
      BY <1>6, <1>15
    <3>2. a < z \/ e <= a
      BY <1>15, <3>1
    <3> QED
      BY <1>4, <1>15, <2>0, <3>1, <3>2
  <2>2. \A i \in 1..Len(seq) : b \notin seq[i].start..(seq[i].end - 1)
    BY <1>9, <2>1
  <2> QED
    BY <1>12, <2>2 DEF Leaves
<1>16. ASSUME Gapless PROVE LeavesCode(out, rs)
  BY <1>14, <1>15, <1>16 DEF LeavesCode
<1> QED
  BY <1>13, <1>16 DEF out

-----------------------------------------------------------------------------
(* Steps *)

\* A slot is where instructions start.
LEMMA StartsKept ==
  ASSUME NEW out, NEW rs, NEW e, StartsFrom(out, rs, e), IsSlot(e), StartsOK(rs)
  PROVE  StartsOK(out)
BY DEF StartsFrom, StartsOK

\* A state in which the input is the same: what depends on it alone.
LEMMA SameInput ==
  ASSUME input' = input
  PROVE  /\ Wanted' = Wanted /\ Gapless' = Gapless /\ EpIsCode' = EpIsCode
         /\ \A n : EpIn(n)' = EpIn(n)
         /\ \A rs : StartsOK(rs)' = StartsOK(rs)
<1>1. Wanted' = Wanted
  BY DEF Wanted
<1> QED
  BY <1>1 DEF Gapless, EpIsCode, EpIn, IsEpSegment, StartsOK, IsSlot

\* Adding a range, or not, to one container.
LEMMA AddedTo ==
  ASSUME NEW rs, Canon(rs), NEW r \in AddressRange, NEW new,
         new = rs \/ new = AddTo(rs, r.start, r.end)
  PROVE  /\ Canon(new) /\ Spaced(0, new)
         /\ Elems(rs) \subseteq Elems(new)
         /\ Elems(new) \subseteq Elems(rs) \cup AddrsIn(r)
         /\ StartsOK(rs) => StartsOK(new)
         /\ new = AddTo(rs, r.start, r.end) => AlignUp(r.start)..(r.end - 1) \subseteq Elems(new)
<1>1. r.start \in Nat /\ r.end \in Nat
  BY DEF AddressRange
<1>2. AlignUp(r.start) \in Nat /\ r.start <= AlignUp(r.start) /\ IsSlot(AlignUp(r.start))
  BY <1>1, AlignUpIsNextSlot
<1>3. AlignUp(r.start)..(r.end - 1) \subseteq AddrsIn(r)
  BY <1>1, <1>2 DEF AddrsIn
<1>4. /\ Canon(AddTo(rs, r.start, r.end))
      /\ Elems(AddTo(rs, r.start, r.end)) = Elems(rs) \cup (AlignUp(r.start)..(r.end - 1))
      /\ StartsFrom(AddTo(rs, r.start, r.end), rs, AlignUp(r.start))
  BY <1>1, AddToAdds
<1>5. CASE new = AddTo(rs, r.start, r.end)
  BY <1>2, <1>3, <1>4, <1>5, StartsKept, CanonIsLoose
<1>6. CASE new = rs /\ new # AddTo(rs, r.start, r.end)
  BY <1>6, CanonIsLoose
<1> QED
  BY <1>5, <1>6

\* The range of a segment goes to the container that its section calls for.
LEMMA AddSegmentKeepsIt ==
  ASSUME IInv, AddSegment
  PROVE  IInv'
<1> DEFINE seg == input.segments[pos]
           r == seg.range
<1>1. /\ phase = "add" /\ pos <= Len(input.segments) /\ pos \in Nat \ {0}
      /\ input.selected = <<>> /\ input \in Inputs
      /\ primary' = IF Container(seg) = "primary"
                    THEN AddTo(primary, r.start, r.end) ELSE primary
      /\ alternative' = IF Container(seg) = "alternative"
                        THEN AddTo(alternative, r.start, r.end) ELSE alternative
      /\ pos' = pos + 1 /\ input' = input /\ phase' = phase
      /\ before' = before /\ asked' = asked
  BY DEF IInv, TypeOK, AddSegment
<1>2. Len(input.segments) \in Nat
  BY <1>1, InputsAssumption
<1>3. pos \in 1..Len(input.segments)
  BY <1>1, <1>2
<1>4. r \in AddressRange /\ r.start \in Nat /\ r.end \in Nat
  BY <1>1, <1>3, WantedAreAddresses DEF AddressRange
<1>5. AddrsIn(r) \subseteq Wanted
  BY <1>1, <1>3 DEF Wanted
<1>6. seg.kind \in {"code", "plt", "data", "skip", "const", "nosec"}
  <2>1. input.segments \in Seq(SegmentOf(AddressRange))
    BY <1>1, InputsAssumption
  <2>2. seg \in SegmentOf(AddressRange)
    BY <1>3, <2>1
  <2> QED
    BY <2>2 DEF SegmentOf
<1>7. IsEpSegment(seg) <=> input.ep \in AddrsIn(r)
  BY DEF IsEpSegment
<1>8. IsEpSegment(seg) /\ seg.kind # "skip" => Container(seg) \in {"primary", "alternative"}
  BY <1>6 DEF Container
<1>9. \A i : i \in 1..Len(input.segments) /\ i < pos + 1 => i < pos \/ i = pos
  BY <1>2, <1>3
<1>10. EpIn(pos + 1) => EpIn(pos) \/ (IsEpSegment(seg) /\ seg.kind # "skip")
  BY <1>9 DEF EpIn
<1> HIDE DEF r, seg
<1>11. /\ Canon(primary) /\ Canon(alternative)
       /\ Elems(primary) \subseteq Wanted /\ Elems(alternative) \subseteq Wanted
  BY <1>1 DEF IInv, Vectors, Held
<1>12. /\ Canon(primary') /\ Spaced(0, primary')
       /\ Elems(primary) \subseteq Elems(primary')
       /\ Elems(primary') \subseteq Elems(primary) \cup AddrsIn(r)
       /\ StartsOK(primary) => StartsOK(primary')
       /\ Container(seg) = "primary" =>
            AlignUp(r.start)..(r.end - 1) \subseteq Elems(primary')
  <2> SUFFICES ASSUME NEW new, new = primary'
               PROVE  /\ Canon(new) /\ Spaced(0, new)
                      /\ Elems(primary) \subseteq Elems(new)
                      /\ Elems(new) \subseteq Elems(primary) \cup AddrsIn(r)
                      /\ StartsOK(primary) => StartsOK(new)
                      /\ Container(seg) = "primary" =>
                           AlignUp(r.start)..(r.end - 1) \subseteq Elems(new)
    OBVIOUS
  <2> QED
    BY <1>1, <1>4, <1>11, AddedTo
<1>13. /\ Canon(alternative') /\ Spaced(0, alternative')
       /\ Elems(alternative) \subseteq Elems(alternative')
       /\ Elems(alternative') \subseteq Elems(alternative) \cup AddrsIn(r)
       /\ StartsOK(alternative) => StartsOK(alternative')
       /\ Container(seg) = "alternative" =>
            AlignUp(r.start)..(r.end - 1) \subseteq Elems(alternative')
  <2> SUFFICES ASSUME NEW new, new = alternative'
               PROVE  /\ Canon(new) /\ Spaced(0, new)
                      /\ Elems(alternative) \subseteq Elems(new)
                      /\ Elems(new) \subseteq Elems(alternative) \cup AddrsIn(r)
                      /\ StartsOK(alternative) => StartsOK(new)
                      /\ Container(seg) = "alternative" =>
                           AlignUp(r.start)..(r.end - 1) \subseteq Elems(new)
    OBVIOUS
  <2> QED
    BY <1>1, <1>4, <1>11, AddedTo
<1>14. TypeOK'
  BY <1>1 DEF IInv, TypeOK
<1>15. Vectors'
  BY <1>1, <1>5, <1>11, <1>12, <1>13, SameInput DEF Vectors, Held
<1>16. (Gapless => StartsOK(primary) /\ StartsOK(alternative))'
  <2>1. Gapless => StartsOK(primary) /\ StartsOK(alternative)
    BY DEF IInv
  <2> QED
    BY <1>1, <1>12, <1>13, <2>1, SameInput DEF StartsOK
<1>17. EntryPointHeld'
  <2>1. SUFFICES ASSUME EpIsCode, asked = {}, EpIn(pos + 1)
                 PROVE  input.ep \in Elems(primary') \cup Elems(alternative')
    BY <1>1, SameInput DEF EntryPointHeld, Held, EpIsCode, EpIn, IsEpSegment
  <2>2. CASE EpIn(pos)
    <3>1. input.ep \in Held
      BY <1>1, <2>1, <2>2 DEF IInv, EntryPointHeld
    <3> QED
      BY <1>12, <1>13, <3>1 DEF Held
  <2>3. CASE IsEpSegment(seg) /\ seg.kind # "skip"
    <3>1. input.ep \in AddrsIn(r) /\ IsSlot(input.ep) /\ input.ep \in Nat
      BY <1>1, <1>7, <2>1, <2>3, InputsAssumption DEF EpIsCode
    <3>2. input.ep \in AlignUp(r.start)..(r.end - 1)
      <4>1. AlignUp(r.start) \in Nat
            /\ \A a \in Nat : IsSlot(a) /\ r.start <= a => AlignUp(r.start) <= a
        BY <1>4, AlignUpIsNextSlot
      <4>2. r.start <= input.ep /\ input.ep < r.end
        BY <1>4, <3>1 DEF AddrsIn
      <4> QED
        BY <1>4, <3>1, <4>1, <4>2
    <3> QED
      BY <1>8, <1>12, <1>13, <2>3, <3>2
  <2> QED
    BY <1>10, <2>1, <2>2, <2>3
<1>18. AskedAreGone' /\ ZeroRemovalKeepsCode'
  BY <1>1 DEF IInv, AskedAreGone, ZeroRemovalKeepsCode
<1> QED
  BY <1>14, <1>15, <1>16, <1>17, <1>18 DEF IInv

\* A range that was selected goes to the primary ranges.
LEMMA AddSelectedKeepsIt ==
  ASSUME IInv, AddSelected
  PROVE  IInv'
<1> DEFINE r == input.selected[pos]
<1>1. /\ phase = "add" /\ pos <= Len(input.selected) /\ pos \in Nat \ {0}
      /\ input \in Inputs
      /\ primary' = AddTo(primary, r.start, r.end) /\ alternative' = alternative
      /\ pos' = pos + 1 /\ input' = input /\ phase' = phase
      /\ before' = before /\ asked' = asked
  BY DEF IInv, TypeOK, AddSelected
<1>2. Len(input.selected) \in Nat
  BY <1>1, InputsAssumption
<1>3. pos \in 1..Len(input.selected)
  BY <1>1, <1>2
<1>4. r \in AddressRange
  BY <1>1, <1>3, WantedAreAddresses
<1>5. input.selected # <<>>
  BY <1>3
<1>6. AddrsIn(r) \subseteq Wanted
  BY <1>3, <1>5 DEF Wanted
<1> HIDE DEF r
<1>7. /\ Canon(primary) /\ Canon(alternative) /\ Spaced(0, alternative)
      /\ Elems(primary) \subseteq Wanted /\ Elems(alternative) \subseteq Wanted
  BY <1>1 DEF IInv, Vectors, Held
<1>8. /\ Canon(primary') /\ Spaced(0, primary')
      /\ Elems(primary') \subseteq Elems(primary) \cup AddrsIn(r)
      /\ StartsOK(primary) => StartsOK(primary')
  <2> SUFFICES ASSUME NEW new, new = primary'
               PROVE  /\ Canon(new) /\ Spaced(0, new)
                      /\ Elems(new) \subseteq Elems(primary) \cup AddrsIn(r)
                      /\ StartsOK(primary) => StartsOK(new)
    OBVIOUS
  <2> QED
    BY <1>1, <1>4, <1>7, AddedTo
<1>9. TypeOK'
  BY <1>1 DEF IInv, TypeOK
<1>10. Vectors'
  BY <1>1, <1>6, <1>7, <1>8, SameInput DEF Vectors, Held
<1>11. (Gapless => StartsOK(primary) /\ StartsOK(alternative))'
  <2>1. Gapless => StartsOK(primary) /\ StartsOK(alternative)
    BY DEF IInv
  <2> QED
    BY <1>1, <1>8, <2>1, SameInput DEF StartsOK
<1>12. EntryPointHeld' /\ AskedAreGone' /\ ZeroRemovalKeepsCode'
  BY <1>1, <1>5 DEF IInv, EntryPointHeld, EpIsCode, AskedAreGone, ZeroRemovalKeepsCode
<1> QED
  BY <1>9, <1>10, <1>11, <1>12 DEF IInv

\* The loops end.
LEMMA LoopsEnd ==
  ASSUME IInv, EndAdd \/ EndNonDecodable
  PROVE  IInv'
<1>1. /\ input' = input /\ primary' = primary /\ alternative' = alternative
      /\ before' = before /\ asked' = asked
      /\ pos' \in Nat \ {0} /\ phase' \in {"nonDecodable", "zeroes"}
      /\ phase \in {"add", "nonDecodable"} /\ input \in Inputs
  BY DEF IInv, TypeOK, EndAdd, EndNonDecodable
<1>2. TypeOK' /\ Vectors' /\ AskedAreGone' /\ ZeroRemovalKeepsCode'
  BY <1>1, SameInput
     DEF IInv, TypeOK, Vectors, Held, AskedAreGone, ZeroRemovalKeepsCode
<1>3. (Gapless => StartsOK(primary) /\ StartsOK(alternative))'
  <2>1. Gapless => StartsOK(primary) /\ StartsOK(alternative)
    BY DEF IInv
  <2> QED
    BY <1>1, <2>1, SameInput DEF StartsOK
<1>4. EntryPointHeld'
  <2>1. SUFFICES ASSUME EpIsCode, asked = {}, EpIn(Len(input.segments) + 1)
                 PROVE  input.ep \in Held
    BY <1>1, SameInput DEF EntryPointHeld, Held, EpIsCode, EpIn, IsEpSegment
  <2>2. CASE phase = "nonDecodable"
    BY <2>1, <2>2 DEF IInv, EntryPointHeld
  <2>3. CASE phase = "add"
    <3>1. EndAdd /\ input.selected = <<>>
      BY <2>1, <2>3 DEF EndNonDecodable, EpIsCode
    <3>2. pos > Len(input.segments) /\ pos \in Nat /\ Len(input.segments) \in Nat
      BY <1>1, <3>1, InputsAssumption DEF EndAdd, IInv, TypeOK
    <3>3. EpIn(pos)
      BY <2>1, <3>2 DEF EpIn
    <3> QED
      BY <2>1, <2>3, <3>3 DEF IInv, EntryPointHeld
  <2> QED
    BY <1>1, <2>2, <2>3
<1> QED
  BY <1>2, <1>3, <1>4 DEF IInv

\* Removing one range from both containers.
LEMMA RemovedFromBoth ==
  ASSUME IInv, NEW s \in Nat, NEW e \in Nat, s <= e, input' = input,
         primary' = RemoveFrom(primary, s, e),
         alternative' = RemoveFrom(alternative, s, e)
  PROVE  /\ Spaced(0, primary') /\ Spaced(0, alternative')
         /\ Held' = Held \ (s..(AlignUp(e) - 1))
         /\ (Gapless => StartsOK(primary) /\ StartsOK(alternative))'
<1>1. Spaced(0, primary) /\ Spaced(0, alternative)
  BY DEF IInv, Vectors
<1>2. IsSlot(AlignUp(e))
  BY AlignUpIsNextSlot
<1>3. ASSUME NEW rs, Spaced(0, rs), NEW new, new = RemoveFrom(rs, s, e)
      PROVE  /\ Spaced(0, new)
             /\ Elems(new) = Elems(rs) \ (s..(AlignUp(e) - 1))
             /\ StartsOK(rs) => StartsOK(new)
  BY <1>2, <1>3, RemoveFromTakes, StartsKept
<1>4. /\ Spaced(0, primary')
      /\ Elems(primary') = Elems(primary) \ (s..(AlignUp(e) - 1))
      /\ StartsOK(primary) => StartsOK(primary')
  <2> SUFFICES ASSUME NEW new, new = primary'
               PROVE  /\ Spaced(0, new)
                      /\ Elems(new) = Elems(primary) \ (s..(AlignUp(e) - 1))
                      /\ StartsOK(primary) => StartsOK(new)
    OBVIOUS
  <2> QED
    BY <1>1, <1>3
<1>5. /\ Spaced(0, alternative')
      /\ Elems(alternative') = Elems(alternative) \ (s..(AlignUp(e) - 1))
      /\ StartsOK(alternative) => StartsOK(alternative')
  <2> SUFFICES ASSUME NEW new, new = alternative'
               PROVE  /\ Spaced(0, new)
                      /\ Elems(new) = Elems(alternative) \ (s..(AlignUp(e) - 1))
                      /\ StartsOK(alternative) => StartsOK(new)
    OBVIOUS
  <2> QED
    BY <1>1, <1>3
<1>6. Held' = Held \ (s..(AlignUp(e) - 1))
  BY <1>4, <1>5 DEF Held
<1>7. Gapless => StartsOK(primary) /\ StartsOK(alternative)
  BY DEF IInv
<1> QED
  BY <1>4, <1>5, <1>6, <1>7, SameInput DEF StartsOK

\* A range of the image that is not to be decoded.
LEMMA RemoveNonDecodableKeepsIt ==
  ASSUME IInv, RemoveNonDecodable
  PROVE  IInv'
<1> DEFINE r == input.nonDecodable[pos]
<1>1. /\ phase = "nonDecodable" /\ pos <= Len(input.nonDecodable) /\ pos \in Nat \ {0}
      /\ input \in Inputs /\ pos' = pos + 1 /\ input' = input /\ phase' = phase
      /\ before' = before /\ asked' = asked
      /\ IF ContainsElem(r, input.ep) THEN UNCHANGED <<primary, alternative>>
         ELSE /\ primary' = RemoveFrom(primary, r.start, r.end)
              /\ alternative' = RemoveFrom(alternative, r.start, r.end)
  BY DEF IInv, TypeOK, RemoveNonDecodable
<1>2. Len(input.nonDecodable) \in Nat
  BY <1>1, InputsAssumption
<1>3. pos \in 1..Len(input.nonDecodable)
  BY <1>1, <1>2
<1>4. r.start \in Nat /\ r.end \in Nat /\ r.start <= r.end
  BY <1>1, <1>3, WantedAreAddresses DEF AddressRange
<1>5. ContainsElem(r, input.ep) <=> r.start <= input.ep /\ input.ep < r.end
  BY DEF ContainsElem
<1> HIDE DEF r
<1>6. TypeOK' /\ AskedAreGone' /\ ZeroRemovalKeepsCode'
  BY <1>1 DEF IInv, TypeOK, AskedAreGone, ZeroRemovalKeepsCode
<1>7. CASE ContainsElem(r, input.ep)
  <2>1. primary' = primary /\ alternative' = alternative
    BY <1>1, <1>7
  <2>2. Vectors' /\ EntryPointHeld'
    BY <1>1, <2>1, SameInput
       DEF IInv, Vectors, Held, EntryPointHeld, EpIsCode, EpIn, IsEpSegment
  <2>3. (Gapless => StartsOK(primary) /\ StartsOK(alternative))'
    <3>1. Gapless => StartsOK(primary) /\ StartsOK(alternative)
      BY DEF IInv
    <3> QED
      BY <1>1, <2>1, <3>1, SameInput DEF StartsOK
  <2> QED
    BY <1>6, <2>2, <2>3 DEF IInv
<1>8. CASE ~ContainsElem(r, input.ep)
  <2>1. /\ Spaced(0, primary') /\ Spaced(0, alternative')
        /\ Held' = Held \ (r.start..(AlignUp(r.end) - 1))
        /\ (Gapless => StartsOK(primary) /\ StartsOK(alternative))'
    BY <1>1, <1>4, <1>8, RemovedFromBoth
  <2>2. Vectors'
    BY <1>1, <2>1, SameInput DEF IInv, Vectors
  <2>3. EntryPointHeld'
    <3>1. SUFFICES ASSUME EpIsCode, asked = {}, EpIn(Len(input.segments) + 1)
                   PROVE  input.ep \in Held'
      BY <1>1, SameInput DEF EntryPointHeld, EpIsCode, EpIn, IsEpSegment
    <3>2. input.ep \in Held
      BY <1>1, <3>1 DEF IInv, EntryPointHeld
    <3>3. input.ep \in Nat /\ IsSlot(input.ep)
      BY <1>1, <3>1, InputsAssumption DEF EpIsCode
    <3>4. r.end <= input.ep => AlignUp(r.end) <= input.ep
      BY <1>4, <3>3, AlignUpIsNextSlot
    <3>5. AlignUp(r.end) \in Nat
      BY <1>4, AlignUpIsNextSlot
    <3> QED
      BY <1>4, <1>5, <1>8, <2>1, <3>2, <3>3, <3>4, <3>5
  <2> QED
    BY <1>6, <2>1, <2>2, <2>3 DEF IInv
<1> QED
  BY <1>7, <1>8

\* The long sequences of zeroes leave both containers.
LEMMA RemoveZeroSequencesKeepsIt ==
  ASSUME IInv, RemoveZeroSequences
  PROVE  IInv'
<1>1. /\ phase = "zeroes" /\ phase' = "promote" /\ input' = input /\ pos' = pos
      /\ primary' = WithoutZeroes(primary) /\ alternative' = WithoutZeroes(alternative)
      /\ before' = Held /\ asked' = asked /\ input \in Inputs
      /\ Wanted \subseteq Nat /\ Held \subseteq Wanted
  BY WantedAreAddresses DEF IInv, TypeOK, Vectors, RemoveZeroSequences
<1>2. /\ Spaced(0, primary) /\ Elems(primary) \subseteq Wanted
      /\ Spaced(0, alternative) /\ Elems(alternative) \subseteq Wanted
  BY <1>1 DEF IInv, Vectors, Held
<1>3. /\ Spaced(0, primary') /\ Elems(primary') \subseteq Elems(primary)
      /\ Gapless => LeavesCode(primary', primary)
  <2> SUFFICES ASSUME NEW new, new = primary'
               PROVE  /\ Spaced(0, new) /\ Elems(new) \subseteq Elems(primary)
                      /\ Gapless => LeavesCode(new, primary)
    BY Zenon DEF LeavesCode, StartsOK
  <2> QED
    BY <1>1, <1>2, ZeroesAreTaken
<1>4. /\ Spaced(0, alternative') /\ Elems(alternative') \subseteq Elems(alternative)
      /\ Gapless => LeavesCode(alternative', alternative)
  <2> SUFFICES ASSUME NEW new, new = alternative'
               PROVE  /\ Spaced(0, new) /\ Elems(new) \subseteq Elems(alternative)
                      /\ Gapless => LeavesCode(new, alternative)
    BY Zenon DEF LeavesCode, StartsOK
  <2> QED
    BY <1>1, <1>2, ZeroesAreTaken
<1>5. TypeOK'
  BY <1>1 DEF IInv, TypeOK
<1>6. Vectors'
  BY <1>1, <1>3, <1>4, SameInput DEF Vectors, Held
<1>7. (Gapless => StartsOK(primary) /\ StartsOK(alternative))'
  <2>1. Gapless => StartsOK(primary) /\ StartsOK(alternative)
    BY DEF IInv
  <2> QED
    BY <1>1, <1>3, <1>4, <2>1, SameInput DEF LeavesCode, StartsOK
<1>8. \* Held bytes near code stay held.
      ASSUME Gapless, NEW a \in Nat, NEW b \in Held, input.bytes[a] = "code",
             a - Margin <= b, b <= a + Margin
      PROVE  b \in Held'
  BY <1>3, <1>4, <1>8 DEF LeavesCode, Held
<1>9. EntryPointHeld'
  <2>1. SUFFICES ASSUME EpIsCode, asked = {}, EpIn(Len(input.segments) + 1)
                 PROVE  input.ep \in Held'
    BY <1>1, SameInput DEF EntryPointHeld, EpIsCode, EpIn, IsEpSegment
  <2>2. input.ep \in Held /\ input.ep \in Nat /\ input.bytes[input.ep] = "code"
    BY <1>1, <2>1, InputsAssumption DEF IInv, EntryPointHeld, EpIsCode
  <2>3. Gapless
    BY <1>1, <2>1, SegmentsHaveNoGap DEF EpIsCode
  <2>4. Margin \in Nat
    BY RangesAssumption
  <2> QED
    BY <1>8, <2>2, <2>3, <2>4
<1>10. AskedAreGone'
  BY <1>1 DEF IInv, AskedAreGone
<1>11. ZeroRemovalKeepsCode'
  <2>1. SUFFICES ASSUME Gapless, NEW a \in Held, input.bytes[a] = "code",
                        NEW b \in (a - Margin)..(a + Margin), b \in Held
                 PROVE  b \in Held'
    BY <1>1, SameInput DEF ZeroRemovalKeepsCode
  <2>2. a \in Nat /\ Margin \in Nat
    BY <1>1, RangesAssumption
  <2>3. a - Margin <= b /\ b <= a + Margin
    BY <2>2
  <2> QED
    BY <1>8, <2>1, <2>2, <2>3
<1> QED
  BY <1>5, <1>6, <1>7, <1>9, <1>10, <1>11 DEF IInv

\* The alternative ranges become the primary ones.
LEMMA PromoteKeepsIt ==
  ASSUME IInv, Promote
  PROVE  IInv'
<1>1. /\ phase = "promote" /\ phase' = "decode" /\ input' = input /\ pos' = pos
      /\ before' = Held /\ asked' = asked /\ asked = {}
      /\ IF primary = <<>> THEN primary' = alternative /\ alternative' = <<>>
         ELSE primary' = primary /\ alternative' = alternative
  BY DEF IInv, AskedAreGone, Promote
<1>2. Spaced(0, <<>>) /\ Elems(<<>>) = {}
  BY Empty
<1>3. Held' = Held
  BY <1>1, <1>2 DEF Held
<1>4. TypeOK'
  <2>1. Held \subseteq Nat
    BY WantedAreAddresses DEF IInv, TypeOK, Vectors
  <2> QED
    BY <1>1, <2>1 DEF IInv, TypeOK
<1>5. Vectors'
  BY <1>1, <1>2, <1>3, SameInput DEF IInv, Vectors
<1>6. (Gapless => StartsOK(primary) /\ StartsOK(alternative))'
  <2>1. Gapless => StartsOK(primary) /\ StartsOK(alternative)
    BY DEF IInv
  <2>2. StartsOK(<<>>)
    BY DEF StartsOK
  <2> QED
    BY <1>1, <2>1, <2>2, SameInput DEF StartsOK
<1>7. EntryPointHeld'
  BY <1>1, <1>3, SameInput DEF IInv, EntryPointHeld, EpIsCode, EpIn, IsEpSegment
<1>8. AskedAreGone' /\ ZeroRemovalKeepsCode'
  BY <1>1, <1>3 DEF AskedAreGone, ZeroRemovalKeepsCode
<1> QED
  BY <1>4, <1>5, <1>6, <1>7, <1>8 DEF IInv

\* Decoding removes a range that starts in one of the containers.
LEMMA DecodingKeepsIt ==
  ASSUME IInv, Decoding
  PROVE  IInv'
<1>1. PICK s \in Held, n \in 1..5 : Remove_(s, s + n)
  BY DEF Decoding
<1> DEFINE e == s + n
<1>2. s \in Nat /\ e \in Nat /\ s <= e
  <2>1. s \in Nat
    BY WantedAreAddresses DEF IInv, TypeOK, Vectors
  <2> QED
    BY <2>1
<1>3. /\ phase = "decode" /\ phase' = phase /\ input' = input /\ pos' = pos
      /\ primary' = RemoveFrom(primary, s, e)
      /\ alternative' = RemoveFrom(alternative, s, e)
      /\ asked' = asked \cup {MkRange(s, e)} /\ before' = before
  BY <1>1 DEF Remove_
<1> HIDE DEF e
<1>4. /\ MkRange(s, e) \in AddressRange
      /\ MkRange(s, e).start = s /\ MkRange(s, e).end = e
  BY <1>2 DEF MkRange, AddressRange
<1>5. /\ Spaced(0, primary') /\ Spaced(0, alternative')
      /\ Held' = Held \ (s..(AlignUp(e) - 1))
      /\ (Gapless => StartsOK(primary) /\ StartsOK(alternative))'
  BY <1>2, <1>3, RemovedFromBoth
<1>6. TypeOK'
  BY <1>3, <1>4 DEF IInv, TypeOK
<1>7. Vectors'
  BY <1>3, <1>5, SameInput DEF IInv, Vectors
<1>8. EntryPointHeld' /\ ZeroRemovalKeepsCode'
  BY <1>3 DEF EntryPointHeld, ZeroRemovalKeepsCode
<1>9. AskedAreGone'
  <2>1. /\ Held = {a \in before :
                     \A r \in asked : ~(r.start <= a /\ a < AlignUp(r.end))}
        /\ before \subseteq Nat
    BY <1>3 DEF IInv, AskedAreGone, TypeOK
  <2>2. AlignUp(e) \in Nat
    BY <1>2, AlignUpIsNextSlot
  <2>3. \A a \in Nat : a \in s..(AlignUp(e) - 1) <=> s <= a /\ a < AlignUp(e)
    BY <1>2, <2>2
  <2>4. \A a : a \in Held' <=>
          /\ a \in before
          /\ \A r \in asked' : ~(r.start <= a /\ a < AlignUp(r.end))
    BY <1>3, <1>4, <1>5, <2>1, <2>3
  <2>5. Held' = {a \in before :
                   \A r \in asked' : ~(r.start <= a /\ a < AlignUp(r.end))}
    BY <2>4, Zenon
  <2> QED
    BY <1>3, <2>5 DEF AskedAreGone, AlignUp
<1> QED
  BY <1>5, <1>6, <1>7, <1>8, <1>9 DEF IInv

\* Nothing changes.
LEMMA StutteringKeepsIt ==
  ASSUME IInv, UNCHANGED rtdVars
  PROVE  IInv'
<1>1. /\ input' = input /\ pos' = pos /\ phase' = phase /\ primary' = primary
      /\ alternative' = alternative /\ before' = before /\ asked' = asked
  BY DEF rtdVars
<1>2. TypeOK' /\ Vectors' /\ EntryPointHeld' /\ AskedAreGone' /\ ZeroRemovalKeepsCode'
  BY <1>1, SameInput
     DEF IInv, TypeOK, Vectors, Held, EntryPointHeld, EpIsCode, EpIn, IsEpSegment,
         AskedAreGone, AlignUp, ZeroRemovalKeepsCode
<1>3. (Gapless => StartsOK(primary) /\ StartsOK(alternative))'
  <2>1. Gapless => StartsOK(primary) /\ StartsOK(alternative)
    BY DEF IInv
  <2> QED
    BY <1>1, <2>1, SameInput DEF StartsOK
<1> QED
  BY <1>2, <1>3 DEF IInv

(***************************************************************************)
(* The theorems                                                            *)
(***************************************************************************)

\* The inductive invariant holds throughout.
THEOREM Invariance == Spec => []IInv
<1>1. Init => IInv
  <2> SUFFICES ASSUME Init PROVE IInv
    OBVIOUS
  <2>1. /\ input \in Inputs /\ pos = 1 /\ phase = "add" /\ before = {} /\ asked = {}
        /\ primary = <<>> /\ alternative = <<>>
    BY DEF Init
  <2>2. Canon(<<>>) /\ Spaced(0, <<>>) /\ Elems(<<>>) = {}
    BY Empty, CanonIsSpaced
  <2>3. StartsOK(<<>>)
    BY DEF StartsOK
  <2>4. ~EpIn(1)
    <3>1. \A i \in 1..Len(input.segments) : ~(i < 1)
      <4>1. Len(input.segments) \in Nat
        BY <2>1, InputsAssumption
      <4> QED
        BY <4>1
    <3> QED
      BY <3>1 DEF EpIn
  <2>5. TypeOK /\ Vectors /\ EntryPointHeld /\ AskedAreGone /\ ZeroRemovalKeepsCode
    BY <2>1, <2>2, <2>4
       DEF TypeOK, Vectors, Held, EntryPointHeld, AskedAreGone, ZeroRemovalKeepsCode
  <2> QED
    BY <2>1, <2>3, <2>5 DEF IInv
<1>2. IInv /\ [Next]_rtdVars => IInv'
  BY AddSegmentKeepsIt, AddSelectedKeepsIt, LoopsEnd, RemoveNonDecodableKeepsIt,
     RemoveZeroSequencesKeepsIt, PromoteKeepsIt, DecodingKeepsIt, StutteringKeepsIt
     DEF Next, Done
<1> QED
  BY <1>1, <1>2, PTL DEF Spec

\* Whatever is added and removed, in whatever order the containers hold it: where
\* a range starts is an instruction slot or no code.
THEOREM StartsOnInstructions == Spec => []StartsOnInstruction
<1>1. IInv => StartsOnInstruction
  BY DEF IInv, StartsOnInstruction, StartsOK
<1> QED
  BY <1>1, Invariance, PTL

\* The slots that are held while decoding are those held when it began, less
\* those that were asked for: aligning the end up loses and leaves none.
THEOREM SlotsAskedAreRemoved == Spec => []RemovesTheSlotsAsked
<1>1. IInv => RemovesTheSlotsAsked
  <2> SUFFICES ASSUME IInv, phase = "decode", NEW a \in before, IsSlot(a)
               PROVE  a \in Held <=> \A r \in asked : a \notin AddrsIn(r)
    BY DEF RemovesTheSlotsAsked
  <2>1. a \in Nat /\ asked \subseteq AddressRange
    BY DEF IInv, TypeOK
  <2>2. a \in Held <=> \A r \in asked : ~(r.start <= a /\ a < AlignUp(r.end))
    BY DEF IInv, AskedAreGone
  <2>3. ASSUME NEW r \in asked
        PROVE  a \notin AddrsIn(r) <=> ~(r.start <= a /\ a < AlignUp(r.end))
    <3>1. r.start \in Nat /\ r.end \in Nat
      BY <2>1 DEF AddressRange
    <3>2. /\ AlignUp(r.end) \in Nat /\ r.end <= AlignUp(r.end)
          /\ r.end <= a => AlignUp(r.end) <= a
      BY <2>1, <3>1, AlignUpIsNextSlot
    <3>3. a \in AddrsIn(r) <=> r.start <= a /\ a < r.end
      BY <2>1, <3>1 DEF AddrsIn
    <3> QED
      BY <2>1, <3>1, <3>2, <3>3
  <2> QED
    BY <2>2, <2>3
<1> QED
  BY <1>1, Invariance, PTL

\* Leaving zero sequences out makes no instruction undecodable.
THEOREM CodeSurvivesZeroRemoval == Spec => []ZeroRemovalKeepsCode
<1>1. IInv => ZeroRemovalKeepsCode
  BY DEF IInv
<1> QED
  BY <1>1, Invariance, PTL

\* The entry point survives every list of structures and every zero sequence,
\* and can be decoded first.
THEOREM EntryPointStaysDecodable == Spec => []EntryPointIsDecodable
<1>1. IInv => EntryPointIsDecodable
  <2> SUFFICES ASSUME IInv, phase = "decode", asked = {}, EpIsCode,
                      NEW i \in 1..Len(input.segments),
                      IsEpSegment(input.segments[i]), input.segments[i].kind # "skip"
               PROVE  input.ep \in Held
    BY DEF EntryPointIsDecodable, EpIsCode
  <2>1. Len(input.segments) \in Nat
    BY InputsAssumption DEF IInv, TypeOK
  <2>2. EpIn(Len(input.segments) + 1)
    BY <2>1 DEF EpIn
  <2> QED
    BY <2>2 DEF IInv, EntryPointHeld
<1> QED
  BY <1>1, Invariance, PTL
=============================================================================
