---------------------------- MODULE LoaderProofs ----------------------------
(***************************************************************************)
(* What the images hold that the loader makes, for every file.             *)
(***************************************************************************)
EXTENDS ElfImage, PeImage, FiniteSetTheorems, SequenceTheorems, NaturalsInduction,
        WellFoundedInduction, TLAPS

(***************************************************************************)
(* What the images share                                                   *)
(***************************************************************************)

\* Min finds the least element of a non-empty set of naturals.
LEMMA LeastElement ==
  ASSUME NEW S \in SUBSET Nat, S # {}
  PROVE  Min(S) \in S /\ \A x \in S : Min(S) <= x
<1>1. PICK m \in S : \A y \in S : ~(<<y, m>> \in OpToRel(<, Nat))
  BY NatLessThanWellFounded, WFMin
<1>2. \A y \in S : m <= y
  <2>1. SUFFICES ASSUME NEW y \in S, y < m PROVE FALSE
    OBVIOUS
  <2>2. <<y, m>> \in Nat \X Nat /\ <<y, m>>[1] = y /\ <<y, m>>[2] = m
    OBVIOUS
  <2>3. <<y, m>> \in OpToRel(<, Nat)
    BY <2>1, <2>2, Zenon DEF OpToRel
  <2> QED
    BY <1>1, <2>3
<1> QED
  BY <1>2 DEF Min

\* Min and Max of a pair.
LEMMA LeastAndGreatest ==
  ASSUME NEW a \in Int, NEW b \in Int
  PROVE  /\ Min({a, b}) = IF a <= b THEN a ELSE b
         /\ Max({a, b}) = IF a >= b THEN a ELSE b
<1>1. Min({a, b}) \in {a, b} /\ \A y \in {a, b} : Min({a, b}) <= y
  BY DEF Min
<1>2. Max({a, b}) \in {a, b} /\ \A y \in {a, b} : Max({a, b}) >= y
  BY DEF Max
<1> QED
  BY <1>1, <1>2

\* What comes first when segs is sorted by address, equal addresses in their order.
Precedes(segs, i, j) ==
  segs[i].addr < segs[j].addr \/ (segs[i].addr = segs[j].addr /\ i < j)

\* The place of the i-th one among those at the places in part.
RankOf(segs, part, i) == 1 + Cardinality({j \in part : Precedes(segs, j, i)})

\* No two have the same rank, and every rank is taken.
LEMMA RanksArePlaces ==
  ASSUME NEW segs, NEW part \in SUBSET Int, IsFiniteSet(part),
         \A i \in part : segs[i].addr \in Int
  PROVE  /\ Cardinality(part) \in Nat
         /\ \A i \in part : RankOf(segs, part, i) \in 1..Cardinality(part)
         /\ \A i, j \in part :
              Precedes(segs, i, j) => RankOf(segs, part, i) < RankOf(segs, part, j)
         /\ \A i, j \in part : RankOf(segs, part, i) = RankOf(segs, part, j) => i = j
         /\ \A k \in 1..Cardinality(part) : \E i \in part : RankOf(segs, part, i) = k
<1> DEFINE n == Cardinality(part)
           Below(i) == {j \in part : Precedes(segs, j, i)}
<1>1. n \in Nat
  BY FS_CardinalityType
<1>2. \A i \in part : /\ IsFiniteSet(Below(i)) /\ Cardinality(Below(i)) \in Nat
                      /\ RankOf(segs, part, i) = 1 + Cardinality(Below(i))
  BY FS_Subset, FS_CardinalityType DEF RankOf
<1>3. /\ \A i \in part : ~Precedes(segs, i, i)
      /\ \A i, j, k \in part : Precedes(segs, i, j) /\ Precedes(segs, j, k) => Precedes(segs, i, k)
      /\ \A i, j \in part : i # j => Precedes(segs, i, j) \/ Precedes(segs, j, i)
  BY DEF Precedes
<1>4. ASSUME NEW i \in part, NEW j \in part, Precedes(segs, i, j)
      PROVE  RankOf(segs, part, i) < RankOf(segs, part, j)
  <2>1. Below(i) \cup {i} \subseteq Below(j) /\ i \notin Below(i)
    BY <1>3, <1>4
  <2>2. Cardinality(Below(i) \cup {i}) = Cardinality(Below(i)) + 1
    BY <1>2, <2>1, FS_AddElement
  <2>3. Cardinality(Below(i) \cup {i}) <= Cardinality(Below(j))
    BY <1>2, <2>1, FS_Subset
  <2> HIDE DEF Below
  <2> QED
    BY <1>2, <2>2, <2>3
<1>5. ASSUME NEW i \in part PROVE RankOf(segs, part, i) \in 1..n
  <2>1. Below(i) \cup {i} \subseteq part /\ i \notin Below(i)
    BY <1>3
  <2>2. Cardinality(Below(i) \cup {i}) = Cardinality(Below(i)) + 1
    BY <1>2, <2>1, FS_AddElement
  <2>3. Cardinality(Below(i) \cup {i}) <= n
    BY <2>1, FS_Subset
  <2> HIDE DEF Below, n
  <2> QED
    BY <1>1, <1>2, <2>2, <2>3
<1>6. ASSUME NEW i \in part, NEW j \in part, RankOf(segs, part, i) = RankOf(segs, part, j)
      PROVE  i = j
  <2>1. RankOf(segs, part, i) \in Int /\ RankOf(segs, part, j) \in Int
    BY <1>5
  <2>2. ~(RankOf(segs, part, i) < RankOf(segs, part, j)) /\ ~(RankOf(segs, part, j) < RankOf(segs, part, i))
    BY <1>6, <2>1
  <2>3. ~Precedes(segs, i, j) /\ ~Precedes(segs, j, i)
    BY <1>4, <2>2
  <2> QED
    BY <1>3, <2>3
<1>7. \A k \in 1..n : \E i \in part : RankOf(segs, part, i) = k
  <2> DEFINE f == [i \in part |-> RankOf(segs, part, i)]
  <2>1. f \in [part -> 1..n]
    BY <1>5
  <2>2. \A i, j \in part : f[i] = f[j] => i = j
    BY <1>6
  <2> HIDE DEF f
  <2>3. f \in Injection(part, 1..n)
    BY <2>1, <2>2 DEF Injection, IsInjective
  <2>4. IsFiniteSet(1..n) /\ Cardinality(1..n) = n
    BY <1>1, FS_Interval
  <2>5. f \in Surjection(part, 1..n)
    BY <2>3, <2>4, FS_Injection
  <2>6. \A k \in 1..n : \E i \in part : f[i] = k
    BY <2>5 DEF Surjection
  <2> QED
    BY <2>6 DEF f
<1> QED
  BY <1>1, <1>4, <1>5, <1>6, <1>7

\* sorted has those of segs at the places in part, each once, in the order of their
\* addresses; place[k] is where the k-th one was.
IsSorting(sorted, segs, part, place) ==
  /\ place \in [1..Cardinality(part) -> part]
  /\ sorted = [k \in 1..Cardinality(part) |-> segs[place[k]]]
  /\ \A i \in part : \E k \in 1..Cardinality(part) : place[k] = i
  /\ \A k, l \in 1..Cardinality(part) :
       k < l => place[k] # place[l] /\ sorted[k].addr <= sorted[l].addr

\* Sorting loses and doubles nothing.
LEMMA SortSorts ==
  ASSUME NEW segs, NEW part \in SUBSET Int, IsFiniteSet(part),
         \A i \in part : segs[i].addr \in Int
  PROVE  \E place : IsSorting(SortedPart(segs, part), segs, part, place)
<1> DEFINE n == Cardinality(part)
           place == [k \in 1..n |-> CHOOSE i \in part : RankOf(segs, part, i) = k]
           sorted == SortedPart(segs, part)
<1>1. /\ \A i \in part : RankOf(segs, part, i) \in 1..n
      /\ \A i, j \in part : Precedes(segs, i, j) => RankOf(segs, part, i) < RankOf(segs, part, j)
      /\ \A i, j \in part : RankOf(segs, part, i) = RankOf(segs, part, j) => i = j
      /\ \A k \in 1..n : \E i \in part : RankOf(segs, part, i) = k
  BY RanksArePlaces
<1>2. \A k \in 1..n : place[k] \in part /\ RankOf(segs, part, place[k]) = k
  BY <1>1
<1>3. sorted = [k \in 1..n |-> segs[place[k]]]
  BY DEF SortedPart, RankOf, Precedes
<1>4. place \in [1..n -> part]
  BY <1>2
<1> HIDE DEF place, sorted
<1>5. ASSUME NEW i \in part PROVE \E k \in 1..n : place[k] = i
  <2>1. RankOf(segs, part, i) \in 1..n
    BY <1>1
  <2>2. RankOf(segs, part, place[RankOf(segs, part, i)]) = RankOf(segs, part, i)
    BY <1>2, <2>1
  <2>3. place[RankOf(segs, part, i)] = i
    BY <1>1, <1>2, <2>1, <2>2
  <2> QED
    BY <2>1, <2>3
<1>6. ASSUME NEW k \in 1..n, NEW l \in 1..n, k < l
      PROVE  place[k] # place[l] /\ segs[place[k]].addr <= segs[place[l]].addr
  <2>1. /\ place[k] \in part /\ place[l] \in part
        /\ RankOf(segs, part, place[k]) = k /\ RankOf(segs, part, place[l]) = l
        /\ k \in Int /\ l \in Int /\ ~(l < k)
    BY <1>2, <1>6
  <2>2. ASSUME Precedes(segs, place[l], place[k]) PROVE FALSE
    <3>1. RankOf(segs, part, place[l]) < RankOf(segs, part, place[k])
      BY <1>1, <2>1, <2>2
    <3> QED
      BY <2>1, <3>1
  <2>3. segs[place[k]].addr \in Int /\ segs[place[l]].addr \in Int
    BY <2>1
  <2>4. segs[place[k]].addr <= segs[place[l]].addr
    BY <2>2, <2>3 DEF Precedes
  <2>5. place[k] # place[l]
    BY <1>6, <2>1
  <2> QED
    BY <2>4, <2>5
<1>7. \A k \in 1..n : sorted[k].addr = segs[place[k]].addr
  BY <1>3
<1>8. IsSorting(sorted, segs, part, place)
  BY <1>3, <1>4, <1>5, <1>6, <1>7 DEF IsSorting
<1> QED
  BY <1>8 DEF sorted

\* The same for all of a sequence.
LEMMA SortAllSorts ==
  ASSUME NEW segs, Len(segs) \in Nat, \A i \in 1..Len(segs) : segs[i].addr \in Int
  PROVE  /\ Cardinality(1..Len(segs)) = Len(segs)
         /\ \E place : IsSorting(SortSegments(segs), segs, 1..Len(segs), place)
<1>1. IsFiniteSet(1..Len(segs)) /\ Cardinality(1..Len(segs)) = Len(segs)
  BY FS_Interval, SMTT(20)
<1>2. 1..Len(segs) \in SUBSET Int
  OBVIOUS
<1> QED
  BY <1>1, <1>2, SortSorts DEF SortSegments

\* Where resolve sees no overlap, the ranges share no address.
LEMMA NoneIsApart ==
  ASSUME NEW first, NEW second, first.start \in Int, first.end \in Int,
         second.start \in Int, second.end \in Int,
         first.start < first.end, second.start < second.end,
         Resolve(first, second)[1] = "None"
  PROVE  ~Shares(first, second)
<1> DEFINE full == second.start <= first.start /\ first.end <= second.end
           startIn == InRng(first, second.start)
           endIn == InRng(first, second.end)
<1>1. ~full /\ ~startIn /\ ~endIn
  BY DEF Resolve
<1> QED
  BY <1>1 DEF InRng, Shares

\* Ranges share an address with one another.
LEMMA ApartEitherWay ==
  ASSUME NEW r, NEW s
  PROVE  Shares(r, s) <=> Shares(s, r)
BY DEF Shares

\* A segment with the parts the operations below look at.
SegmentType == [addr : Nat, size : Nat, off : Nat, len : Nat, nonDecodable : SUBSET Int]

\* The ranges of a segment have numbers for bounds and at least one address.
LEMMA RangesOfSegments ==
  ASSUME NEW seg, seg.addr \in Nat, seg.size \in Nat, seg.len \in Nat
  PROVE  /\ SegRange(seg).start = seg.addr /\ SegRange(seg).end \in Nat
         /\ SegRange(seg).start < SegRange(seg).end
         /\ PhysicalRange(seg).start = seg.addr /\ PhysicalRange(seg).end \in Nat
         /\ PhysicalRange(seg).end <= SegRange(seg).end
<1>1. PhysicalSize(seg) = IF seg.len <= seg.size THEN seg.len ELSE seg.size
  BY LeastAndGreatest DEF PhysicalSize
<1> QED
  BY <1>1 DEF SegRange, PhysicalRange, EndOf, Rng

\* Where no two segments share an address, a lookup finds the one that has it.
LEMMA LookupFindsTheSegment ==
  ASSUME NEW segs, NEW a \in Int, NEW i \in 1..Len(segs), Len(segs) \in Nat,
         \A j \in 1..Len(segs) :
           SegRange(segs[j]).start \in Int /\ SegRange(segs[j]).end \in Int,
         \A j, k \in 1..Len(segs) : j # k => ~Shares(SegRange(segs[j]), SegRange(segs[k])),
         InRng(SegRange(segs[i]), a)
  PROVE  ByteAt(segs, a) = ByteOf(segs[i], a)
<1> DEFINE hits == {j \in 1..Len(segs) : InRng(SegRange(segs[j]), a)}
<1>1. ASSUME NEW j \in hits PROVE j = i
  <2>1. j \in 1..Len(segs) /\ InRng(SegRange(segs[j]), a)
    OBVIOUS
  <2>2. Shares(SegRange(segs[j]), SegRange(segs[i]))
    <3>1. ASSUME NEW p, NEW q, p.start \in Int, p.end \in Int, q.start \in Int, q.end \in Int,
                 InRng(p, a), InRng(q, a)
          PROVE  Shares(p, q)
      BY <3>1, SMTT(20) DEF InRng, Shares
    <3> QED
      BY <2>1, <3>1, Zenon
  <2> QED
    BY <2>1, <2>2, Zenon
<1>2. hits = {i, i} /\ hits # {} /\ i \in Int
  BY <1>1
<1>3. Min(hits) = i
  BY <1>2, LeastAndGreatest
<1> QED
  BY <1>2, <1>3 DEF ByteAt

(***************************************************************************)
(* PeImage                                                                 *)
(***************************************************************************)

\* The physical addresses of a segment that the first n structures cover.
Marks(seg, n) ==
  {a \in PhysicalRange(seg).start..(PhysicalRange(seg).end - 1) :
     \E k \in 1..n : InRng(file.structures[k], a - file.base)}

\* addNonDecodableRange adds the physical addresses of the range.
LEMMA AddingMarks ==
  ASSUME NEW seg \in SegmentType, NEW r, r.start \in Int, r.end \in Int
  PROVE  AddNonDecodable(seg, r) =
           [seg EXCEPT !.nonDecodable =
              @ \cup {a \in PhysicalRange(seg).start..(PhysicalRange(seg).end - 1) : InRng(r, a)}]
<1> DEFINE p == PhysicalRange(seg)
           new == {a \in p.start..(p.end - 1) : InRng(r, a)}
<1>1. seg.addr \in Nat /\ seg.size \in Nat /\ seg.len \in Nat
  BY DEF SegmentType
<1>2. p.start \in Int /\ p.end \in Int
  BY <1>1, RangesOfSegments
<1>3. CASE Shares(p, r)
  <2>1. /\ Max({r.start, p.start}) = IF r.start >= p.start THEN r.start ELSE p.start
        /\ Min({r.end, p.end}) = IF r.end <= p.end THEN r.end ELSE p.end
    BY <1>2, LeastAndGreatest
  <2> DEFINE cut == Max({r.start, p.start})..(Min({r.end, p.end}) - 1)
  <2> HIDE DEF p
  <2>2. \A a : a \in cut <=> a \in new
    BY <1>2, <2>1 DEF InRng
  <2>3. cut = new
    BY <2>2, Zenon
  <2> USE DEF p
  <2>4. AddNonDecodable(seg, r) = [seg EXCEPT !.nonDecodable = @ \cup cut]
    BY <1>3 DEF AddNonDecodable
  <2> QED
    BY <2>3, <2>4
<1>4. CASE ~Shares(p, r)
  <2> HIDE DEF p
  <2>1. \A a : a \notin new
    BY <1>2, <1>4 DEF InRng, Shares
  <2>2. new = {}
    BY <2>1, Zenon
  <2>3. [seg EXCEPT !.nonDecodable = @ \cup {}] = seg
    BY DEF SegmentType
  <2> USE DEF p
  <2>4. AddNonDecodable(seg, r) = seg
    BY <1>4 DEF AddNonDecodable
  <2> QED
    BY <2>2, <2>3, <2>4
<1> QED
  BY <1>3, <1>4

\* A segment of the file that is loaded has its structures marked, all of them
\* and nothing else.
LEMMA AllStructuresAreMarked ==
  ASSUME NEW seg \in SegmentType, seg.nonDecodable = {}, file \in PeFiles
  PROVE  Marked(seg) = [seg EXCEPT !.nonDecodable = Marks(seg, Len(file.structures))]
<1> DEFINE N == Len(file.structures)
           R(n) == Rng(file.base + file.structures[n].start, file.base + file.structures[n].end)
           g == [n \in 0..N |-> [seg EXCEPT !.nonDecodable = Marks(seg, n)]]
<1>1. /\ N \in Nat /\ file.base \in Nat
      /\ \A k \in 1..N : file.structures[k].start \in Nat /\ file.structures[k].end \in Nat
  <2>1. file.structures \in Seq([start : Nat, end : Nat]) /\ file.base \in Nat
    BY PeAssumption
  <2> DEFINE T == [start : Nat, end : Nat]
             f == file.structures
  <2>2. f \in Seq(T)
    BY <2>1
  <2> HIDE DEF T, f
  <2>3. \A k \in 1..Len(f) : f[k] \in T
    BY <2>2
  <2> USE DEF T, f
  <2> QED
    BY <2>1, <2>3
<1>2. PhysicalRange(seg).start \in Int /\ PhysicalRange(seg).end \in Int
  BY RangesOfSegments DEF SegmentType
<1>3. ASSUME NEW n \in 1..N
      PROVE  [seg EXCEPT !.nonDecodable = Marks(seg, n)]
               = AddNonDecodable([seg EXCEPT !.nonDecodable = Marks(seg, n - 1)], R(n))
  <2> DEFINE old == [seg EXCEPT !.nonDecodable = Marks(seg, n - 1)]
             p == PhysicalRange(seg)
             new == {a \in p.start..(p.end - 1) : InRng(R(n), a)}
  <2>1. Marks(seg, n - 1) \subseteq Int
    BY <1>2 DEF Marks
  <2>2. old \in SegmentType /\ PhysicalRange(old) = p
    BY <2>1 DEF SegmentType, PhysicalRange, PhysicalSize
  <2>3. R(n).start \in Int /\ R(n).end \in Int
    BY <1>1 DEF Rng
  <2>4. AddNonDecodable(old, R(n)) = [old EXCEPT !.nonDecodable = @ \cup new]
    <3> HIDE DEF old, R
    <3>1. AddNonDecodable(old, R(n)) =
            [old EXCEPT !.nonDecodable = @ \cup
               {a \in PhysicalRange(old).start..(PhysicalRange(old).end - 1) : InRng(R(n), a)}]
      BY <2>2, <2>3, AddingMarks
    <3> HIDE DEF p
    <3> QED
      BY <2>2, <3>1
  <2>5. ASSUME NEW a \in Int
        PROVE  (\E k \in 1..n : InRng(file.structures[k], a - file.base))
                 <=> \/ \E k \in 1..(n - 1) : InRng(file.structures[k], a - file.base)
                     \/ InRng(R(n), a)
    <3>1. InRng(R(n), a) <=> InRng(file.structures[n], a - file.base)
      <4>1. file.structures[n].start \in Nat /\ file.structures[n].end \in Nat /\ file.base \in Nat
        BY <1>1
      <4> QED
        BY <4>1, SMTT(20) DEF InRng, Rng
    <3>2. \A k : k \in 1..n <=> k \in 1..(n - 1) \/ k = n
      BY <1>1
    <3> QED
      BY <3>1, <3>2
  <2> HIDE DEF p
  <2>6. p.start \in Int /\ p.end \in Int
    BY <1>2 DEF p
  <2>7. \A a : a \in Marks(seg, n) <=> a \in Marks(seg, n - 1) \cup new
    <3> DEFINE cover(m) == {a \in p.start..(p.end - 1) :
                              \E k \in 1..m : InRng(file.structures[k], a - file.base)}
    <3>1. Marks(seg, n) = cover(n) /\ Marks(seg, n - 1) = cover(n - 1)
      BY DEF Marks, p
    <3>2. p.start..(p.end - 1) \subseteq Int
      BY <2>6
    <3> HIDE DEF R
    <3>3. \A a : a \in cover(n) <=> a \in cover(n - 1) \cup new
      BY <2>5, <3>2, Zenon
    <3> HIDE DEF cover, new
    <3> QED
      BY <3>1, <3>3, Zenon
  <2>8. Marks(seg, n) = Marks(seg, n - 1) \cup new
    BY <2>7, Zenon
  <2>9. [old EXCEPT !.nonDecodable = @ \cup new] = [seg EXCEPT !.nonDecodable = Marks(seg, n - 1) \cup new]
    BY DEF SegmentType
  <2> QED
    BY <2>4, <2>8, <2>9
<1>4. [seg EXCEPT !.nonDecodable = Marks(seg, 0)] = seg
  <2>1. \A a : a \notin Marks(seg, 0)
    BY DEF Marks
  <2>2. Marks(seg, 0) = {}
    BY <2>1, Zenon
  <2> QED
    BY <2>2 DEF SegmentType
<1> DEFINE IsMarked(h) == h = [n \in 0..N |-> IF n = 0 THEN seg ELSE AddNonDecodable(h[n - 1], R(n))]
           h == CHOOSE f : IsMarked(f)
<1>5. Marked(seg) = h[N]
  BY DEF Marked
<1> HIDE DEF R
<1>6. IsMarked(g)
  <2> DEFINE rhs == [n \in 0..N |-> IF n = 0 THEN seg ELSE AddNonDecodable(g[n - 1], R(n))]
  <2>1. ASSUME NEW n \in 0..N PROVE g[n] = rhs[n]
    <3>1. CASE n = 0
      BY <1>4, <3>1
    <3>2. CASE n # 0
      <4>1. n \in 1..N /\ n - 1 \in 0..N
        BY <1>1, <3>2
      <4>2. g[n - 1] = [seg EXCEPT !.nonDecodable = Marks(seg, n - 1)]
        BY <4>1
      <4> QED
        BY <1>3, <3>2, <4>1, <4>2
    <3> QED
      BY <3>1, <3>2
  <2> QED
    BY <2>1
<1>7. IsMarked(h)
  BY <1>6
<1> HIDE DEF g, h
<1> DEFINE Bad == {n \in 0..N : h[n] # g[n]}
<1>8. Bad = {}
  <2>1. SUFFICES ASSUME Bad # {} PROVE FALSE
    OBVIOUS
  <2>2. Bad \in SUBSET Nat
    BY <1>1
  <2> DEFINE m == Min(Bad)
  <2>3. m \in Bad /\ \A x \in Bad : m <= x
    BY <2>1, <2>2, LeastElement, Zenon
  <2> HIDE DEF m
  <2>4. m \in 0..N /\ h[m] # g[m]
    BY <2>3
  <2>5. CASE m = 0
    BY <1>6, <1>7, <2>4, <2>5
  <2>6. CASE m # 0
    <3>1. m - 1 \in 0..N /\ ~(m <= m - 1)
      BY <1>1, <2>4, <2>6
    <3>2. h[m - 1] = g[m - 1]
      BY <2>3, <3>1
    <3> QED
      BY <1>6, <1>7, <2>4, <2>6, <3>2
  <2> QED
    BY <2>5, <2>6
<1>9. h[N] = g[N]
  BY <1>1, <1>8
<1>10. g[N] = [seg EXCEPT !.nonDecodable = Marks(seg, N)]
  BY <1>1 DEF g
<1> QED
  BY <1>5, <1>9, <1>10
-----------------------------------------------------------------------------
\* Segment k of the section table has a segment of its own.
IsIn(k, segs) == \E i \in 1..Len(segs) : segs[i] = PeSegment(file.sections[k])

\* While sections are added: nothing is marked, no two segments share an
\* address, and every section that was gone over has its segment.
Adding(segs) ==
  /\ segs \in Seq(SegmentType)
  /\ \A i \in 1..Len(segs) : segs[i].nonDecodable = {}
  /\ \A i, j \in 1..Len(segs) : i # j => ~Shares(SegRange(segs[i]), SegRange(segs[j]))

PeInv ==
  /\ file \in PeFiles
  /\ nextSection \in 1..(Len(file.sections) + 1)
  /\ result \in {"loading", "true", "false"}
  /\ result = "loading" => Adding(segments) /\ \A k \in 1..(nextSection - 1) : IsIn(k, segments)
  /\ SectionsAreWhole
  /\ StructuresAreMarked

\* The segment of a section is like its header.
LEMMA SegmentOfSection ==
  ASSUME file \in PeFiles, NEW k \in 1..Len(file.sections)
  PROVE  /\ PeSegment(file.sections[k]) \in SegmentType
         /\ PeSegment(file.sections[k]).nonDecodable = {}
         /\ SectionRange(file.sections[k]) = SegRange(PeSegment(file.sections[k]))
<1>1. file.sections \in Seq(SectionHeader)
  BY PeAssumption
<1>2. file.sections[k] \in SectionHeader
  BY <1>1
<1> QED
  BY <1>2 DEF SectionHeader, PeSegment, SegmentType, VirtualSize, SectionRange, SegRange

\* A section that overlaps no segment can be added.
LEMMA AddingKeeps ==
  ASSUME NEW segs, NEW seg \in SegmentType, Adding(segs), seg.nonDecodable = {},
         CanAddSegment(segs, SegRange(seg))
  PROVE  Adding(Append(segs, seg))
<1> DEFINE new == Append(segs, seg)
           n == Len(segs)
<1>1. segs \in Seq(SegmentType) /\ n \in Nat
  BY DEF Adding
<1>2. /\ new \in Seq(SegmentType) /\ Len(new) = n + 1 /\ new[n + 1] = seg
      /\ \A i \in 1..n : new[i] = segs[i]
  BY <1>1
<1>3. ASSUME NEW i \in 1..n PROVE ~Shares(SegRange(segs[i]), SegRange(seg))
  <2>1. segs[i] \in SegmentType
    BY <1>1
  <2>2. /\ SegRange(segs[i]).start \in Int /\ SegRange(segs[i]).end \in Int
        /\ SegRange(segs[i]).start < SegRange(segs[i]).end
        /\ SegRange(seg).start \in Int /\ SegRange(seg).end \in Int
        /\ SegRange(seg).start < SegRange(seg).end
    BY <2>1, RangesOfSegments, SMTT(20) DEF SegmentType
  <2>3. Resolve(SegRange(segs[i]), SegRange(seg))[1] = "None"
    BY DEF CanAddSegment
  <2> QED
    BY <2>2, <2>3, NoneIsApart, Zenon
<1> HIDE DEF new
<1>4. \A i \in 1..(n + 1) : i \in 1..n \/ i = n + 1
  BY <1>1
<1>5. \A i \in 1..(n + 1) : new[i].nonDecodable = {}
  BY <1>2, <1>4 DEF Adding
<1>6. ASSUME NEW i \in 1..(n + 1), NEW j \in 1..(n + 1), i # j
      PROVE  ~Shares(SegRange(new[i]), SegRange(new[j]))
  <2>1. CASE i \in 1..n /\ j \in 1..n
    BY <1>2, <1>6, <2>1 DEF Adding
  <2>2. CASE i \in 1..n /\ j = n + 1
    BY <1>2, <1>3, <2>2
  <2>3. CASE i = n + 1 /\ j \in 1..n
    BY <1>2, <1>3, <2>3, ApartEitherWay
  <2> QED
    BY <1>4, <1>6, <2>1, <2>2, <2>3
<1> QED
  BY <1>2, <1>5, <1>6 DEF Adding, new

\* Marking changes nothing else.
LEMMA OnlyMarksChange ==
  ASSUME NEW seg \in SegmentType, NEW S
  PROVE  /\ [seg EXCEPT !.nonDecodable = S].addr = seg.addr
         /\ [seg EXCEPT !.nonDecodable = S].size = seg.size
         /\ [seg EXCEPT !.nonDecodable = S].off = seg.off
         /\ [seg EXCEPT !.nonDecodable = S].len = seg.len
         /\ [seg EXCEPT !.nonDecodable = S].nonDecodable = S
BY DEF SegmentType

\* Sorting and marking give every section its bytes and mark the structures.
LEMMA MarkingFinishes ==
  ASSUME file \in PeFiles, NEW segs, Adding(segs),
         \A k \in 1..Len(file.sections) : IsIn(k, segs),
         NEW done, done = [i \in 1..Len(SortSegments(segs)) |-> Marked(SortSegments(segs)[i])]
  PROVE  /\ \A k \in 1..Len(file.sections) :
              \A a \in SectionRange(file.sections[k]).start..(SectionRange(file.sections[k]).end - 1) :
                ByteAt(done, a) = ByteOf(PeSegment(file.sections[k]), a)
         /\ \A i \in 1..Len(done) :
              done[i].nonDecodable = Marks(done[i], Len(file.structures))
<1> DEFINE n == Len(segs)
           N == Len(file.structures)
           sorted == SortSegments(segs)
<1>1. segs \in Seq(SegmentType) /\ n \in Nat /\ \A i \in 1..n : segs[i] \in SegmentType
  BY DEF Adding
<1>2. \A i \in 1..n : segs[i].addr \in Int
  BY <1>1, SMTT(20) DEF SegmentType
<1>3. /\ Cardinality(1..n) = n
      /\ \E place : IsSorting(sorted, segs, 1..n, place)
  BY <1>1, <1>2, SortAllSorts
<1> PICK place : IsSorting(sorted, segs, 1..n, place)
  BY <1>3
<1> HIDE DEF sorted
<1>4. /\ \A i \in 1..n : place[i] \in 1..n
      /\ \A i \in 1..n : sorted[i] = segs[place[i]]
      /\ \A j \in 1..n : \E i \in 1..n : place[i] = j
      /\ Len(sorted) = n
  <2>1. /\ place \in [1..n -> 1..n]
        /\ sorted = [i \in 1..n |-> segs[place[i]]]
        /\ \A j \in 1..n : \E i \in 1..n : place[i] = j
    BY <1>3 DEF IsSorting
  <2>2. Len(sorted) = n
    BY <1>1, <2>1
  <2> QED
    BY <2>1, <2>2
<1>5. \A i, j \in 1..n : i # j => place[i] # place[j]
  <2>1. ASSUME NEW i \in 1..n, NEW j \in 1..n, i # j PROVE i < j \/ j < i
    BY <2>1
  <2> QED
    BY <1>3, <2>1 DEF IsSorting
<1>6. Len(done) = n /\ \A i \in 1..n : done[i] = Marked(sorted[i])
  BY <1>1, <1>4 DEF sorted
<1>7. ASSUME NEW i \in 1..n
      PROVE  done[i] = [segs[place[i]] EXCEPT !.nonDecodable = Marks(segs[place[i]], N)]
  <2>1. segs[place[i]] \in SegmentType /\ segs[place[i]].nonDecodable = {}
    BY <1>1, <1>4 DEF Adding
  <2>2. Marked(segs[place[i]]) = [segs[place[i]] EXCEPT !.nonDecodable = Marks(segs[place[i]], N)]
    BY <2>1, AllStructuresAreMarked
  <2> QED
    BY <1>4, <1>6, <2>2
<1>8. ASSUME NEW i \in 1..n
      PROVE  /\ SegRange(done[i]) = SegRange(segs[place[i]])
             /\ done[i].nonDecodable = Marks(done[i], N)
             /\ \A a : ByteOf(done[i], a) = ByteOf(segs[place[i]], a)
             /\ SegRange(done[i]).start \in Int /\ SegRange(done[i]).end \in Int
  <2>1. segs[place[i]] \in SegmentType
    BY <1>1, <1>4
  <2>2. /\ done[i].addr = segs[place[i]].addr /\ done[i].size = segs[place[i]].size
        /\ done[i].off = segs[place[i]].off /\ done[i].len = segs[place[i]].len
        /\ done[i].nonDecodable = Marks(segs[place[i]], N)
    <3> DEFINE S == Marks(segs[place[i]], N)
    <3> HIDE DEF S
    <3>1. done[i] = [segs[place[i]] EXCEPT !.nonDecodable = S]
      BY <1>7 DEF S
    <3> SUFFICES /\ done[i].addr = segs[place[i]].addr /\ done[i].size = segs[place[i]].size
                 /\ done[i].off = segs[place[i]].off /\ done[i].len = segs[place[i]].len
                 /\ done[i].nonDecodable = S
      BY DEF S
    <3> DEFINE new == [segs[place[i]] EXCEPT !.nonDecodable = S]
    <3>2. /\ new.addr = segs[place[i]].addr /\ new.size = segs[place[i]].size
          /\ new.off = segs[place[i]].off /\ new.len = segs[place[i]].len
          /\ new.nonDecodable = S
      BY <2>1, OnlyMarksChange
    <3> HIDE DEF new
    <3> QED
      BY <3>1, <3>2 DEF new
  <2>3. SegRange(done[i]) = SegRange(segs[place[i]]) /\ PhysicalRange(done[i]) = PhysicalRange(segs[place[i]])
    BY <2>2 DEF SegRange, PhysicalRange, PhysicalSize
  <2>4. SegRange(done[i]).start \in Int /\ SegRange(done[i]).end \in Int
    <3>1. SegRange(segs[place[i]]).start \in Int /\ SegRange(segs[place[i]]).end \in Int
      <4>1. /\ segs[place[i]].addr \in Nat /\ segs[place[i]].size \in Nat
            /\ segs[place[i]].len \in Nat
        BY <2>1 DEF SegmentType
      <4> QED
        BY <4>1, RangesOfSegments
    <3> QED
      BY <2>3, <3>1
  <2>5. Marks(done[i], N) = Marks(segs[place[i]], N)
    BY <2>3 DEF Marks
  <2>6. \A a : ByteOf(done[i], a) = ByteOf(segs[place[i]], a)
    BY <2>2 DEF ByteOf
  <2> QED
    BY <2>2, <2>3, <2>4, <2>5, <2>6
<1>9. ASSUME NEW i \in 1..n, NEW j \in 1..n, i # j
      PROVE  ~Shares(SegRange(done[i]), SegRange(done[j]))
  <2>1. place[i] \in 1..n /\ place[j] \in 1..n /\ place[i] # place[j]
    BY <1>4, <1>5, <1>9
  <2>2. ~Shares(SegRange(segs[place[i]]), SegRange(segs[place[j]]))
    BY <2>1 DEF Adding
  <2> QED
    BY <1>8, <2>2
<1>10. ASSUME NEW k \in 1..Len(file.sections),
              NEW a \in SectionRange(file.sections[k]).start..(SectionRange(file.sections[k]).end - 1)
       PROVE  ByteAt(done, a) = ByteOf(PeSegment(file.sections[k]), a)
  <2>1. PICK j \in 1..n : segs[j] = PeSegment(file.sections[k])
    BY DEF IsIn
  <2>2. PICK i \in 1..n : place[i] = j
    BY <1>4
  <2>3. SegRange(done[i]) = SectionRange(file.sections[k])
    BY <1>8, <2>1, <2>2, SegmentOfSection
  <2>4. SegRange(done[i]).start \in Int /\ SegRange(done[i]).end \in Int
    BY <1>8
  <2>5. a \in SegRange(done[i]).start..(SegRange(done[i]).end - 1)
    BY <2>3
  <2>6. InRng(SegRange(done[i]), a) /\ a \in Int
    BY <2>4, <2>5 DEF InRng
  <2>7. /\ Len(done) \in Nat /\ i \in 1..Len(done)
        /\ \A l \in 1..Len(done) :
             SegRange(done[l]).start \in Int /\ SegRange(done[l]).end \in Int
        /\ \A l, m \in 1..Len(done) : l # m => ~Shares(SegRange(done[l]), SegRange(done[m]))
    BY <1>1, <1>6, <1>8, <1>9
  <2>8. ByteAt(done, a) = ByteOf(done[i], a)
    BY <2>6, <2>7, LookupFindsTheSegment
  <2> QED
    BY <1>8, <2>1, <2>2, <2>8
<1> QED
  BY <1>6, <1>8, <1>10

\* The invariant is inductive.
THEOREM PeInvariance == PeSpec => []PeInv
<1>1. PeInit => PeInv
  <2> SUFFICES ASSUME PeInit PROVE PeInv
    OBVIOUS
  <2>1. Len(file.sections) \in Nat
    BY PeAssumption DEF PeInit
  <2>2. Adding(<<>>)
    BY DEF Adding
  <2> QED
    BY <2>1, <2>2 DEF PeInit, PeInv, SectionsAreWhole, StructuresAreMarked
<1>2. PeInv /\ [PeNext]_peVars => PeInv'
  <2> SUFFICES ASSUME PeInv, [PeNext]_peVars PROVE PeInv'
    OBVIOUS
  <2>1. file.sections \in Seq(SectionHeader) /\ Len(file.sections) \in Nat
    BY PeAssumption DEF PeInv
  <2>2. CASE AddSection
    <3> DEFINE seg == PeSegment(file.sections[nextSection])
    <3>1. /\ file' = file /\ nextSection' = nextSection + 1 /\ result = "loading"
          /\ nextSection \in 1..Len(file.sections) /\ nextSection' \in 1..(Len(file'.sections) + 1)
          /\ Adding(segments)
          /\ \A k \in 1..(nextSection - 1) : IsIn(k, segments)
      BY <2>1, <2>2 DEF AddSection, PeInv
    <3>2. seg \in SegmentType /\ seg.nonDecodable = {}
      BY <3>1, SegmentOfSection DEF PeInv
    <3>3. CASE CanAddSegment(segments, SegRange(seg))
      <4>1. segments' = Append(segments, seg) /\ result' = "loading"
        BY <2>2, <3>1, <3>3 DEF AddSection
      <4>2. Adding(segments')
        BY <3>1, <3>2, <3>3, <4>1, AddingKeeps
      <4>3. /\ segments \in Seq(SegmentType) /\ Len(segments') = Len(segments) + 1
            /\ segments'[Len(segments) + 1] = seg
            /\ \A i \in 1..Len(segments) : i \in 1..Len(segments') /\ segments'[i] = segments[i]
        BY <3>1, <4>1 DEF Adding
      <4>4. ASSUME NEW k \in 1..(nextSection' - 1)
            PROVE  \E i \in 1..Len(segments') : segments'[i] = PeSegment(file.sections[k])
        <5>1. CASE k \in 1..(nextSection - 1)
          BY <3>1, <4>3, <5>1 DEF IsIn
        <5>2. CASE k = nextSection
          BY <4>3, <5>2
        <5> QED
          BY <3>1, <5>1, <5>2
      <4>5. Adding(segments)'
        BY <4>2 DEF Adding
      <4>6. \A k \in 1..(nextSection' - 1) : IsIn(k, segments)'
        BY <3>1, <4>4 DEF IsIn
      <4> QED
        BY <3>1, <4>1, <4>5, <4>6 DEF PeInv, SectionsAreWhole, StructuresAreMarked
    <3>4. CASE ~CanAddSegment(segments, SegRange(seg))
      <4>1. result' = "false"
        BY <2>2, <3>4 DEF AddSection
      <4> QED
        BY <3>1, <4>1 DEF PeInv, SectionsAreWhole, StructuresAreMarked
    <3> QED
      BY <3>3, <3>4
  <2>3. CASE AddSingleSegment
    <3> DEFINE seg == [addr |-> file.base, size |-> file.length, off |-> 0,
                       len |-> file.length, nonDecodable |-> {}]
    <3>1. /\ file' = file /\ nextSection' = nextSection /\ result' = "loading" /\ segments' = <<seg>>
          /\ Len(file.sections) = 0 /\ nextSection = 1
      BY <2>1, <2>3 DEF AddSingleSegment, PeInv
    <3>2. seg \in SegmentType /\ seg.nonDecodable = {}
      BY PeAssumption DEF PeInv, SegmentType
    <3> HIDE DEF seg
    <3>3. Adding(<<seg>>)
      BY <3>2 DEF Adding
    <3>4. Adding(segments)'
      BY <3>1, <3>3 DEF Adding
    <3> QED
      BY <3>1, <3>4 DEF PeInv, SectionsAreWhole, StructuresAreMarked
  <2>4. CASE SortAndMark
    <3>1. /\ file' = file /\ nextSection' = nextSection /\ result' = "true" /\ Adding(segments)
          /\ segments' = [i \in 1..Len(SortSegments(segments)) |-> Marked(SortSegments(segments)[i])]
          /\ \A k \in 1..Len(file.sections) : IsIn(k, segments)
      BY <2>1, <2>4 DEF SortAndMark, PeInv
    <3>2. /\ \A k \in 1..Len(file.sections) :
               \A a \in SectionRange(file.sections[k]).start..(SectionRange(file.sections[k]).end - 1) :
                 ByteAt(segments', a) = ByteOf(PeSegment(file.sections[k]), a)
          /\ \A i \in 1..Len(segments') :
               segments'[i].nonDecodable = Marks(segments'[i], Len(file.structures))
      <4> SUFFICES ASSUME NEW done, done = segments'
                   PROVE  /\ \A k \in 1..Len(file.sections) :
                               \A a \in SectionRange(file.sections[k]).start
                                          ..(SectionRange(file.sections[k]).end - 1) :
                                 ByteAt(done, a) = ByteOf(PeSegment(file.sections[k]), a)
                          /\ \A i \in 1..Len(done) :
                               done[i].nonDecodable = Marks(done[i], Len(file.structures))
        OBVIOUS
      <4> QED
        BY <3>1, MarkingFinishes DEF PeInv
    <3>3. SectionsAreWhole'
      BY <3>1, <3>2 DEF SectionsAreWhole
    <3>4. StructuresAreMarked'
      BY <3>1, <3>2 DEF StructuresAreMarked, Marks
    <3> QED
      BY <3>1, <3>3, <3>4 DEF PeInv
  <2>5. CASE Returned \/ UNCHANGED peVars
    <3>1. UNCHANGED peVars
      BY <2>5 DEF Returned
    <3> QED
      BY <3>1 DEF peVars, PeInv, Adding, IsIn, SectionsAreWhole, StructuresAreMarked
  <2> QED
    BY <2>2, <2>3, <2>4, <2>5 DEF PeNext
<1> QED
  BY <1>1, <1>2, PTL DEF PeSpec

\* A PE file that loads is in memory as its section table says: sections that
\* overlap make load fail (canAddSegment), and sorting hides no byte of one.
THEOREM PeSectionsAreWhole == PeSpec => []SectionsAreWhole
<1>1. PeInv => SectionsAreWhole
  BY DEF PeInv
<1> QED
  BY <1>1, PeInvariance, PTL

\* loadNonDecodableAddressRanges marks the bytes of the structures that are in
\* the file and no others.
THEOREM PeStructuresAreMarked == PeSpec => []StructuresAreMarked
<1>1. PeInv => StructuresAreMarked
  BY DEF PeInv
<1> QED
  BY <1>1, PeInvariance, PTL
(***************************************************************************)
(* ElfImage                                                                *)
(***************************************************************************)

\* x is the one element of the sequence at place i of S.
IsOne(S, i, x) == Len(S[i]) = 1 /\ x = S[i][1]

\* flat has the single elements of the sequences in S up to place n, in their order.
PickedFrom(T, S, n, flat) ==
  /\ flat \in Seq(T)
  /\ \A i \in 1..n : Len(S[i]) = 1 => \E p \in 1..Len(flat) : IsOne(S, i, flat[p])
  /\ \A p \in 1..Len(flat) : \E i \in 1..n : IsOne(S, i, flat[p])
  /\ \A p, q \in 1..Len(flat) :
       p < q => \E i, j \in 1..n : i < j /\ IsOne(S, i, flat[p]) /\ IsOne(S, j, flat[q])

\* Putting what is left of each segment in one sequence: an induction on its
\* first wrong part.
Flattening(f, S, n) == f = [i \in 1..n |-> IF i = 1 THEN S[i] ELSE f[i - 1] \o S[i]]

\* There is such a function.
LEMMA FlatteningExists ==
  ASSUME NEW S, NEW n \in Nat \ {0}
  PROVE  \E f : Flattening(f, S, n)
<1> DEFINE Bad == {b \in 1..n : \A f : ~Flattening(f, S, b)}
<1>1. SUFFICES ASSUME Bad # {} PROVE FALSE
  <2>1. n \in 1..n
    OBVIOUS
  <2> QED
    BY <1>1, <2>1
<1>2. Bad \in SUBSET Nat
  OBVIOUS
<1> DEFINE b == Min(Bad)
<1>3. b \in Bad /\ \A x \in Bad : b <= x
  BY <1>1, <1>2, LeastElement, Zenon
<1> HIDE DEF b
<1>4. b \in 1..n /\ \A f : ~Flattening(f, S, b)
  BY <1>3
<1>5. CASE b = 1
  <2> DEFINE g == [i \in 1..1 |-> S[1]]
  <2>1. g = [i \in 1..1 |-> IF i = 1 THEN S[i] ELSE g[i - 1] \o S[i]]
    OBVIOUS
  <2> QED
    BY <1>4, <1>5, <2>1 DEF Flattening
<1>6. CASE b # 1
  <2>1. b - 1 \in 1..n /\ b - 1 \notin Bad
    BY <1>3, <1>4, <1>6
  <2>2. PICK f : Flattening(f, S, b - 1)
    BY <2>1
  <2> DEFINE g == [i \in 1..b |-> IF i = b THEN f[b - 1] \o S[b] ELSE f[i]]
             h == [i \in 1..b |-> IF i = 1 THEN S[i] ELSE g[i - 1] \o S[i]]
  <2>3. ASSUME NEW i \in 1..b PROVE g[i] = h[i]
    <3>1. CASE i = b
      <4>1. b - 1 \in 1..b /\ b - 1 # b
        BY <1>4, <1>6
      <4>2. g[b - 1] = f[b - 1]
        BY <4>1
      <4> QED
        BY <1>6, <3>1, <4>2
    <3>2. CASE i # b /\ i # 1
      <4>1. i \in 1..(b - 1) /\ i - 1 \in 1..b /\ i - 1 # b
        BY <1>4, <3>2
      <4>2. f[i] = f[i - 1] \o S[i]
        BY <2>2, <3>2, <4>1 DEF Flattening
      <4>3. g[i - 1] = f[i - 1] /\ g[i] = f[i]
        BY <3>2, <4>1
      <4> QED
        BY <3>2, <4>2, <4>3
    <3>3. CASE i # b /\ i = 1
      <4>1. 1 \in 1..(b - 1)
        BY <1>4, <1>6
      <4>2. f[1] = S[1]
        BY <2>2, <4>1 DEF Flattening
      <4> QED
        BY <3>3, <4>2
    <3> QED
      BY <3>1, <3>2, <3>3
  <2>4. g = h
    BY <2>3
  <2>5. Flattening(g, S, b)
    <3> HIDE DEF g
    <3> QED
      BY <2>4 DEF Flattening
  <2> QED
    BY <1>4, <2>5
<1> QED
  BY <1>5, <1>6

\* One more sequence of at most one element.
LEMMA PickOneMore ==
  ASSUME NEW T, NEW S, NEW n \in Nat, NEW flat, PickedFrom(T, S, n, flat),
         S[n + 1] \in Seq(T), Len(S[n + 1]) \in {0, 1}
  PROVE  PickedFrom(T, S, n + 1, flat \o S[n + 1])
<1> DEFINE new == S[n + 1]
           all == flat \o new
<1>1. flat \in Seq(T) /\ Len(flat) \in Nat
  BY DEF PickedFrom
<1>2. \A i \in 1..n : i \in 1..(n + 1) /\ i < n + 1
  OBVIOUS
<1>3. CASE Len(new) = 0
  <2>1. all = flat
    BY <1>1, <1>3
  <2>2. Len(S[n + 1]) # 1 /\ \A i \in 1..(n + 1) : i \in 1..n \/ i = n + 1
    BY <1>3
  <2> HIDE DEF all
  <2> QED
    BY <1>2, <2>1, <2>2 DEF PickedFrom, all
<1>4. CASE Len(new) = 1
  <2>1. /\ all \in Seq(T) /\ Len(all) = Len(flat) + 1 /\ all[Len(flat) + 1] = new[1]
        /\ \A p \in 1..Len(flat) : all[p] = flat[p]
    <3>1. new \in Seq(T)
      OBVIOUS
    <3> HIDE DEF new
    <3>2. /\ flat \o new \in Seq(T) /\ Len(flat \o new) = Len(flat) + Len(new)
          /\ \A p \in 1..(Len(flat) + Len(new)) :
               (flat \o new)[p] = IF p <= Len(flat) THEN flat[p] ELSE new[p - Len(flat)]
      BY <1>1, <3>1, ConcatProperties
    <3> HIDE DEF all
    <3>3. /\ all \in Seq(T) /\ Len(all) = Len(flat) + 1
          /\ \A p \in 1..(Len(flat) + 1) :
               all[p] = IF p <= Len(flat) THEN flat[p] ELSE new[p - Len(flat)]
      BY <1>4, <3>2 DEF all
    <3> QED
      BY <1>1, <3>3
  <2> HIDE DEF all
  <2>2. n + 1 \in 1..(n + 1) /\ IsOne(S, n + 1, all[Len(flat) + 1])
    BY <1>4, <2>1 DEF IsOne
  <2>3. ASSUME NEW p \in 1..Len(all)
        PROVE  \E i \in 1..(n + 1) : IsOne(S, i, all[p])
    <3>1. CASE p \in 1..Len(flat)
      BY <1>2, <2>1, <3>1 DEF PickedFrom
    <3>2. CASE p = Len(flat) + 1
      BY <2>2, <3>2
    <3> QED
      BY <1>1, <2>1, <3>1, <3>2
  <2>4. ASSUME NEW p \in 1..Len(all), NEW q \in 1..Len(all), p < q
        PROVE  \E i, j \in 1..(n + 1) : i < j /\ IsOne(S, i, all[p]) /\ IsOne(S, j, all[q])
    <3>1. p \in 1..Len(flat)
      BY <1>1, <2>1, <2>4
    <3>2. CASE q \in 1..Len(flat)
      <4>1. PICK i \in 1..n, j \in 1..n : i < j /\ IsOne(S, i, flat[p]) /\ IsOne(S, j, flat[q])
        BY <2>4, <3>1, <3>2 DEF PickedFrom
      <4> QED
        BY <1>2, <2>1, <3>1, <3>2, <4>1
    <3>3. CASE q = Len(flat) + 1
      <4>1. PICK i \in 1..n : IsOne(S, i, flat[p])
        BY <3>1 DEF PickedFrom
      <4> QED
        BY <1>2, <2>1, <2>2, <3>1, <3>3, <4>1
    <3> QED
      BY <1>1, <2>1, <3>2, <3>3
  <2>5. ASSUME NEW i \in 1..(n + 1), Len(S[i]) = 1
        PROVE  \E p \in 1..Len(all) : IsOne(S, i, all[p])
    <3>1. CASE i \in 1..n
      <4>1. PICK p \in 1..Len(flat) : IsOne(S, i, flat[p])
        BY <2>5, <3>1 DEF PickedFrom
      <4>2. p \in 1..Len(all) /\ all[p] = flat[p]
        BY <1>1, <2>1
      <4> QED
        BY <4>1, <4>2
    <3>2. CASE i = n + 1
      <4>1. Len(flat) + 1 \in 1..Len(all)
        BY <1>1, <2>1
      <4> QED
        BY <2>2, <3>2, <4>1
    <3> QED
      BY <3>1, <3>2
  <2> QED
    BY <2>1, <2>3, <2>4, <2>5 DEF PickedFrom, all
<1> QED
  BY <1>3, <1>4

\* FlattenSeq of sequences of at most one element.
LEMMA FlattenPicks ==
  ASSUME NEW T, NEW n \in Nat, NEW S \in [1..n -> Seq(T)],
         \A i \in 1..n : Len(S[i]) \in {0, 1}
  PROVE  PickedFrom(T, S, n, FlattenSeq(S))
<1>1. S \in Seq(Seq(T)) /\ Len(S) = n
  OBVIOUS
<1>2. CASE n = 0
  <2>1. FlattenSeq(S) = <<>>
    BY <1>1, <1>2 DEF FlattenSeq
  <2> QED
    BY <1>2, <2>1 DEF PickedFrom
<1>3. CASE n # 0
  <2> DEFINE f == CHOOSE h : Flattening(h, S, n)
  <2>1. FlattenSeq(S) = f[n]
    BY <1>1, <1>3 DEF FlattenSeq, Flattening
  <2>2. Flattening(f, S, n)
    BY <1>3, FlatteningExists
  <2> HIDE DEF f
  <2>3. \A i \in 1..n : f[i] = IF i = 1 THEN S[i] ELSE f[i - 1] \o S[i]
    BY <2>2 DEF Flattening
  <2> DEFINE Bad == {i \in 1..n : ~PickedFrom(T, S, i, f[i])}
  <2>4. Bad = {}
    <3>1. SUFFICES ASSUME Bad # {} PROVE FALSE
      OBVIOUS
    <3>2. Bad \in SUBSET Nat
      OBVIOUS
    <3> DEFINE b == Min(Bad)
    <3>3. b \in Bad /\ \A x \in Bad : b <= x
      BY <3>1, <3>2, LeastElement, Zenon
    <3> HIDE DEF b
    <3>4. b \in 1..n /\ ~PickedFrom(T, S, b, f[b])
      BY <3>3
    <3>5. ASSUME NEW x, x = S[b] PROVE x \in Seq(T) /\ Len(x) \in {0, 1}
      BY <3>4, <3>5
    <3>6. CASE b = 1
      <4>1. PickedFrom(T, S, 0, <<>>)
        BY DEF PickedFrom
      <4>2. S[0 + 1] \in Seq(T) /\ Len(S[0 + 1]) \in {0, 1}
        BY <3>5, <3>6
      <4>3. PickedFrom(T, S, 0 + 1, <<>> \o S[0 + 1])
        BY <4>1, <4>2, PickOneMore
      <4>4. <<>> \o S[0 + 1] = S[1] /\ f[1] = S[1]
        BY <2>3, <3>4, <3>6, <4>2
      <4> QED
        BY <3>4, <3>6, <4>3, <4>4
    <3>7. CASE b # 1
      <4> DEFINE c == b - 1
      <4>1. c \in 1..n /\ c \in Nat /\ c + 1 = b /\ c \notin Bad
        BY <3>3, <3>4, <3>7
      <4>2. PickedFrom(T, S, c, f[c])
        BY <4>1
      <4>3. f[b] = f[c] \o S[b]
        BY <2>3, <3>4, <3>7
      <4> HIDE DEF c
      <4>4. S[c + 1] \in Seq(T) /\ Len(S[c + 1]) \in {0, 1}
        BY <3>5, <4>1
      <4>5. PickedFrom(T, S, c + 1, f[c] \o S[c + 1])
        BY <4>1, <4>2, <4>4, PickOneMore
      <4> QED
        BY <3>4, <4>1, <4>3, <4>5
    <3> QED
      BY <3>6, <3>7
  <2>5. n \in 1..n
    BY <1>3
  <2> QED
    BY <2>1, <2>4, <2>5
<1> QED
  BY <1>2, <1>3
-----------------------------------------------------------------------------
ElfSegment == [addr : Nat, size : Nat, off : Nat, len : Nat, bss : BOOLEAN]

\* The segment x lies within s.
Within(x, s) ==
  SegRange(s).start <= SegRange(x).start /\ SegRange(x).end <= SegRange(s).end

\* A segment that is cut to a part of its range takes exactly that part.
LEMMA ShrinkTakesThePart ==
  ASSUME NEW seg \in ElfSegment, NEW r, r.start \in Int, r.end \in Int,
         seg.size # 0, seg.addr <= r.start, r.start < r.end, r.end <= seg.addr + seg.size
  PROVE  /\ SegShrink(seg, r.start, r.end - r.start) \in ElfSegment
         /\ SegRange(SegShrink(seg, r.start, r.end - r.start)).start = r.start
         /\ SegRange(SegShrink(seg, r.start, r.end - r.start)).end = r.end
<1> DEFINE size == r.end - r.start
           off == r.start - seg.addr
           data == DataShrink(seg, off, size)
           new == [data EXCEPT !.addr = r.start, !.size = size]
<1>1. /\ seg.addr \in Nat /\ seg.size \in Nat /\ seg.off \in Nat /\ seg.len \in Nat
      /\ seg.bss \in BOOLEAN
  BY DEF ElfSegment
<1>2. /\ r.start \in Nat /\ size \in Nat /\ size # 0 /\ off \in Nat
      /\ r.start < seg.addr + seg.size /\ size <= seg.size /\ r.start + size = r.end
  BY <1>1
<1>3. SegShrink(seg, r.start, r.end - r.start) = new
  BY <1>1, <1>2 DEF SegShrink, SegRange, EndOf, InRng, Rng
<1> HIDE DEF size, off
<1>4. data \in ElfSegment
  <2>1. CASE size > seg.len
    BY <2>1 DEF DataShrink
  <2>2. CASE ~(size > seg.len)
    <3> DEFINE len == IF off >= seg.len THEN 0 ELSE Min({size, seg.len - off})
    <3>1. seg.len - off \in Int
      BY <1>1, <1>2
    <3>2. Min({size, seg.len - off}) = IF size <= seg.len - off THEN size ELSE seg.len - off
      BY <1>2, <3>1, LeastAndGreatest
    <3>3. len \in Nat
      BY <1>1, <1>2, <3>2
    <3>4. data = [seg EXCEPT !.off = @ + off, !.len = len]
      BY <2>2 DEF DataShrink
    <3> DEFINE o == seg.off + off
    <3>5. o \in Nat
      BY <1>1, <1>2
    <3>6. data = [seg EXCEPT !.off = o, !.len = len]
      BY <3>4
    <3> HIDE DEF len, o, data
    <3> QED
      BY <3>3, <3>5, <3>6 DEF ElfSegment
  <2> QED
    BY <1>1, <1>2, <2>1, <2>2
<1> HIDE DEF data
<1>5. new \in ElfSegment /\ new.addr = r.start /\ new.size = size
  BY <1>2, <1>4 DEF ElfSegment
<1> HIDE DEF new
<1>6. SegRange(new).start = r.start /\ SegRange(new).end = r.end
  BY <1>2, <1>5 DEF SegRange, EndOf, Rng
<1> QED
  BY <1>3, <1>5, <1>6

\* What is left of a segment when the range new is added: at most one segment in
\* its place and one copy, within its range, apart from new and from each other.
LEMMA LeftIsApart ==
  ASSUME NEW seg \in ElfSegment, NEW new, new.start \in Int, new.end \in Int, new.start < new.end
  PROVE  /\ LeftOf(seg, new).kept \in Seq(ElfSegment) /\ Len(LeftOf(seg, new).kept) \in {0, 1}
         /\ LeftOf(seg, new).copy \in Seq(ElfSegment) /\ Len(LeftOf(seg, new).copy) \in {0, 1}
         /\ Len(LeftOf(seg, new).kept) = 1 =>
              /\ Within(LeftOf(seg, new).kept[1], seg)
              /\ ~Shares(SegRange(LeftOf(seg, new).kept[1]), new)
         /\ Len(LeftOf(seg, new).copy) = 1 =>
              /\ Within(LeftOf(seg, new).copy[1], seg)
              /\ ~Shares(SegRange(LeftOf(seg, new).copy[1]), new)
         /\ Len(LeftOf(seg, new).kept) = 1 /\ Len(LeftOf(seg, new).copy) = 1 =>
              ~Shares(SegRange(LeftOf(seg, new).kept[1]), SegRange(LeftOf(seg, new).copy[1]))
<1> DEFINE first == SegRange(seg)
           res == Resolve(first, new)
           Shrunk(r) == SegShrink(seg, r.start, r.end - r.start)
           full == new.start <= first.start /\ first.end <= new.end
           startIn == InRng(first, new.start)
           endIn == InRng(first, new.end)
           atStart == first.start = new.start
           left == Rng(first.start, new.start)
           right == Rng(new.end, first.end)
<1>1. /\ seg.addr \in Nat /\ seg.size \in Nat
      /\ first.start = seg.addr /\ first.end = EndOf(seg.addr, seg.size)
      /\ first.start \in Int /\ first.end \in Int /\ first.start < first.end
  BY DEF ElfSegment, SegRange, EndOf, Rng
<1>2. left.start = first.start /\ left.end = new.start /\ right.start = new.end /\ right.end = first.end
  BY DEF Rng
<1>3. Within(seg, seg)
  BY <1>1 DEF Within
<1>4. CASE full
  <2>1. res[1] = "Full"
    BY <1>4 DEF Resolve
  <2>2. LeftOf(seg, new) = [kept |-> <<>>, copy |-> <<>>]
    BY <2>1 DEF LeftOf
  <2> QED
    BY <2>2
<1>5. CASE ~full /\ startIn /\ ~endIn
  <2>1. res = <<"OverEnd", left>>
    BY <1>5 DEF Resolve
  <2>2. /\ seg.size # 0 /\ seg.addr <= left.start /\ left.start < left.end
        /\ left.end <= seg.addr + seg.size
    BY <1>1, <1>2, <1>5 DEF InRng, EndOf
  <2> HIDE DEF first, res, left
  <2>3. Shrunk(left) \in ElfSegment /\ SegRange(Shrunk(left)).start = left.start /\ SegRange(Shrunk(left)).end = left.end
    BY <1>1, <1>2, <2>2, ShrinkTakesThePart
  <2>4. LeftOf(seg, new) = [kept |-> <<Shrunk(left)>>, copy |-> <<>>]
    BY <2>1 DEF LeftOf, res, first
  <2> HIDE DEF Shrunk
  <2>5. Within(Shrunk(left), seg) /\ ~Shares(SegRange(Shrunk(left)), new)
    BY <1>1, <1>2, <1>5, <2>3 DEF Within, Shares, InRng, first
  <2> QED
    BY <2>3, <2>4, <2>5
<1>6. CASE ~full /\ endIn /\ (~startIn \/ atStart)
  <2>1. res = <<"OverStart", right>>
    BY <1>6 DEF Resolve
  <2> HIDE DEF res
  <2>2. LeftOf(seg, new) = [kept |-> <<Shrunk(right)>>, copy |-> <<>>]
    BY <2>1 DEF LeftOf, res
  <2>3. CASE seg.size # 0
    <3>1. /\ seg.addr <= right.start /\ right.start < right.end
          /\ right.end <= seg.addr + seg.size
      BY <1>1, <1>2, <1>6, <2>3 DEF InRng, EndOf
    <3> HIDE DEF first, right
    <3>2. Shrunk(right) \in ElfSegment /\ SegRange(Shrunk(right)).start = right.start /\ SegRange(Shrunk(right)).end = right.end
      BY <1>1, <1>2, <2>3, <3>1, ShrinkTakesThePart
    <3> HIDE DEF Shrunk
    <3>3. Within(Shrunk(right), seg) /\ ~Shares(SegRange(Shrunk(right)), new)
      BY <1>1, <1>2, <1>6, <3>2 DEF Within, Shares, InRng, first
    <3> QED
      BY <2>2, <3>2, <3>3
  \* A segment of size 0 that new touches is not cut, since it cannot be.
  <2>4. CASE seg.size = 0
    <3>1. right.end - right.start > seg.size
      BY <1>1, <1>2, <1>6, <2>4 DEF InRng, EndOf
    <3>2. Shrunk(right) = seg
      BY <3>1, <1>1, <1>2 DEF SegShrink
    <3>3. ~Shares(first, new)
      BY <1>1, <1>6, <2>4 DEF InRng, EndOf, Shares
    <3> QED
      BY <1>3, <2>2, <3>2, <3>3
  <2> QED
    BY <2>3, <2>4
<1>7. CASE ~full /\ endIn /\ startIn /\ ~atStart
  <2>1. res = <<"InMiddle", left, right>>
    BY <1>7 DEF Resolve
  <2>2. /\ seg.size # 0 /\ seg.addr <= left.start /\ left.start < left.end
        /\ left.end <= seg.addr + seg.size
        /\ seg.addr <= right.start /\ right.start < right.end
        /\ right.end <= seg.addr + seg.size
    BY <1>1, <1>2, <1>7 DEF InRng, EndOf
  <2> HIDE DEF first, res, left, right
  <2>3. Shrunk(left) \in ElfSegment /\ SegRange(Shrunk(left)).start = left.start /\ SegRange(Shrunk(left)).end = left.end
    BY <1>1, <1>2, <2>2, ShrinkTakesThePart
  <2>4. Shrunk(right) \in ElfSegment /\ SegRange(Shrunk(right)).start = right.start /\ SegRange(Shrunk(right)).end = right.end
    BY <1>1, <1>2, <2>2, ShrinkTakesThePart
  <2>5. LeftOf(seg, new) = [kept |-> <<Shrunk(left)>>, copy |-> <<Shrunk(right)>>]
    BY <2>1 DEF LeftOf, res, first
  <2> HIDE DEF Shrunk
  <2>6. /\ Within(Shrunk(left), seg) /\ ~Shares(SegRange(Shrunk(left)), new)
        /\ Within(Shrunk(right), seg) /\ ~Shares(SegRange(Shrunk(right)), new)
        /\ ~Shares(SegRange(Shrunk(left)), SegRange(Shrunk(right)))
    BY <1>1, <1>2, <1>7, <2>3, <2>4 DEF Within, Shares, InRng, first
  <2> QED
    BY <2>3, <2>4, <2>5, <2>6
<1>8. CASE ~full /\ ~startIn /\ ~endIn
  <2>1. res[1] = "None"
    BY <1>8 DEF Resolve
  <2>2. LeftOf(seg, new) = [kept |-> <<seg>>, copy |-> <<>>]
    BY <2>1 DEF LeftOf
  <2>3. ~Shares(first, new)
    BY <1>1, <1>8 DEF InRng, Shares
  <2> QED
    BY <1>3, <2>2, <2>3
<1> QED
  BY <1>4, <1>5, <1>6, <1>7, <1>8
\* No two of segs share an address.
Apart(segs) ==
  /\ segs \in Seq(ElfSegment)
  /\ \A i, j \in 1..Len(segs) : i # j => ~Shares(SegRange(segs[i]), SegRange(segs[j]))

\* The range of an ELF segment.
LEMMA RangeOfElfSegment ==
  ASSUME NEW seg \in ElfSegment
  PROVE  /\ SegRange(seg).start = seg.addr /\ SegRange(seg).end = EndOf(seg.addr, seg.size)
         /\ SegRange(seg).start \in Int /\ SegRange(seg).end \in Int
         /\ SegRange(seg).start < SegRange(seg).end
         /\ seg.addr \in Nat /\ seg.size \in Nat
BY DEF ElfSegment, SegRange, EndOf, Rng

\* Parts of segments apart are apart.
LEMMA PartsAreApart ==
  ASSUME NEW s \in ElfSegment, NEW t \in ElfSegment, NEW x \in ElfSegment, NEW y \in ElfSegment,
         Within(x, s), Within(y, t), ~Shares(SegRange(s), SegRange(t))
  PROVE  ~Shares(SegRange(x), SegRange(y))
<1>1. /\ SegRange(s).start \in Int /\ SegRange(s).end \in Int
      /\ SegRange(t).start \in Int /\ SegRange(t).end \in Int
      /\ SegRange(x).start \in Int /\ SegRange(x).end \in Int
      /\ SegRange(y).start \in Int /\ SegRange(y).end \in Int
  BY RangeOfElfSegment
<1> QED
  BY <1>1 DEF Within, Shares

\* addSegment cuts whatever shares an address with the new segment, and the
\* pieces of all old ones stay apart.
LEMMA AddingKeepsApart ==
  ASSUME NEW segs, NEW seg \in ElfSegment, Apart(segs)
  PROVE  Apart(AddSegment(segs, seg))
<1> DEFINE n == Len(segs)
           new == SegRange(seg)
           K == [i \in 1..n |-> LeftOf(segs[i], new).kept]
           C == [i \in 1..n |-> LeftOf(segs[i], new).copy]
           kept == FlattenSeq(K)
           copy == FlattenSeq(C)
           Piece(x, i) == /\ x \in ElfSegment /\ Within(x, segs[i])
                          /\ ~Shares(SegRange(x), new)
<1>1. n \in Nat /\ \A i \in 1..n : segs[i] \in ElfSegment
  BY DEF Apart
<1>2. new.start \in Int /\ new.end \in Int /\ new.start < new.end
  BY RangeOfElfSegment
<1> HIDE DEF new
<1>3. ASSUME NEW i \in 1..n
      PROVE  /\ K[i] \in Seq(ElfSegment) /\ Len(K[i]) \in {0, 1}
             /\ C[i] \in Seq(ElfSegment) /\ Len(C[i]) \in {0, 1}
             /\ \A x : IsOne(K, i, x) => Piece(x, i)
             /\ \A x : IsOne(C, i, x) => Piece(x, i)
             /\ \A x, y : IsOne(K, i, x) /\ IsOne(C, i, y) => ~Shares(SegRange(x), SegRange(y))
  <2> DEFINE L == LeftOf(segs[i], new)
  <2>1. K[i] = L.kept /\ C[i] = L.copy
    OBVIOUS
  <2>2. /\ L.kept \in Seq(ElfSegment) /\ Len(L.kept) \in {0, 1}
        /\ L.copy \in Seq(ElfSegment) /\ Len(L.copy) \in {0, 1}
        /\ Len(L.kept) = 1 => Within(L.kept[1], segs[i]) /\ ~Shares(SegRange(L.kept[1]), new)
        /\ Len(L.copy) = 1 => Within(L.copy[1], segs[i]) /\ ~Shares(SegRange(L.copy[1]), new)
        /\ Len(L.kept) = 1 /\ Len(L.copy) = 1 =>
             ~Shares(SegRange(L.kept[1]), SegRange(L.copy[1]))
    BY <1>1, <1>2, LeftIsApart
  <2> HIDE DEF L, K, C
  <2>3. /\ Len(L.kept) = 1 => L.kept[1] \in ElfSegment
        /\ Len(L.copy) = 1 => L.copy[1] \in ElfSegment
    BY <2>2
  <2> QED
    BY <2>1, <2>2, <2>3 DEF IsOne
<1>4. ASSUME NEW i \in 1..n, NEW j \in 1..n, i # j, NEW x, NEW y, Piece(x, i), Piece(y, j)
      PROVE  ~Shares(SegRange(x), SegRange(y))
  <2>1. segs[i] \in ElfSegment /\ segs[j] \in ElfSegment /\ ~Shares(SegRange(segs[i]), SegRange(segs[j]))
    BY <1>1, <1>4 DEF Apart
  <2> QED
    BY <1>4, <2>1, PartsAreApart
<1>5. K \in [1..n -> Seq(ElfSegment)] /\ C \in [1..n -> Seq(ElfSegment)]
  BY <1>3
<1> HIDE DEF K, C, Piece
<1>6. PickedFrom(ElfSegment, K, n, kept) /\ PickedFrom(ElfSegment, C, n, copy)
  BY <1>1, <1>3, <1>5, FlattenPicks
<1>7. AddSegment(segs, seg) = (kept \o <<seg>>) \o copy
  BY DEF AddSegment, K, C, new
<1> HIDE DEF kept, copy
<1> DEFINE all == (kept \o <<seg>>) \o copy
           m == Len(kept)
<1>8. /\ kept \in Seq(ElfSegment) /\ m \in Nat /\ copy \in Seq(ElfSegment) /\ Len(copy) \in Nat
  BY <1>6 DEF PickedFrom
<1>9. /\ all \in Seq(ElfSegment) /\ Len(all) = m + 1 + Len(copy)
      /\ \A p \in 1..m : all[p] = kept[p]
      /\ all[m + 1] = seg
      /\ \A p \in 1..Len(all) : p > m + 1 => p - (m + 1) \in 1..Len(copy) /\ all[p] = copy[p - (m + 1)]
  <2> DEFINE front == kept \o <<seg>>
  <2>1. /\ front \in Seq(ElfSegment) /\ Len(front) = m + 1 /\ front[m + 1] = seg
        /\ \A p \in 1..m : front[p] = kept[p]
    BY <1>8
  <2> HIDE DEF front
  <2>2. /\ front \o copy \in Seq(ElfSegment) /\ Len(front \o copy) = Len(front) + Len(copy)
        /\ \A p \in 1..(Len(front) + Len(copy)) :
             (front \o copy)[p] = IF p <= Len(front) THEN front[p] ELSE copy[p - Len(front)]
    BY <1>8, <2>1, ConcatProperties
  <2>3. all = front \o copy
    BY DEF front
  <2> HIDE DEF all, m
  <2> QED
    BY <1>8, <2>1, <2>2, <2>3
<1> HIDE DEF all, m
<1>10. \A p \in 1..Len(all) : p \in 1..m \/ p = m + 1 \/ p > m + 1
  BY <1>8
<1>11. ASSUME NEW p \in 1..Len(all), NEW q \in 1..Len(all), p < q
       PROVE  ~Shares(SegRange(all[p]), SegRange(all[q]))
  <2>1. CASE p \in 1..m /\ q \in 1..m
    <3>1. PICK i \in 1..n, j \in 1..n : i < j /\ IsOne(K, i, kept[p]) /\ IsOne(K, j, kept[q])
      BY <1>6, <1>11, <2>1 DEF PickedFrom, m
    <3> QED
      BY <1>1, <1>3, <1>4, <1>9, <2>1, <3>1
  <2>2. CASE p \in 1..m /\ q = m + 1
    <3>1. PICK i \in 1..n : IsOne(K, i, kept[p])
      BY <1>6, <2>2 DEF PickedFrom, m
    <3>2. ~Shares(SegRange(kept[p]), new)
      BY <1>3, <3>1 DEF Piece
    <3> QED
      BY <1>9, <2>2, <3>2 DEF new
  <2>3. CASE p \in 1..m /\ q > m + 1
    <3> DEFINE r == q - (m + 1)
    <3>1. r \in 1..Len(copy) /\ all[q] = copy[r]
      BY <1>9, <2>3
    <3> HIDE DEF r
    <3>2. PICK i \in 1..n : IsOne(K, i, kept[p])
      BY <1>6, <2>3 DEF PickedFrom, m
    <3>3. PICK j \in 1..n : IsOne(C, j, copy[r])
      BY <1>6, <3>1 DEF PickedFrom
    <3>4. ~Shares(SegRange(kept[p]), SegRange(copy[r]))
      BY <1>3, <1>4, <3>2, <3>3
    <3> QED
      BY <1>9, <2>3, <3>1, <3>4
  <2>4. CASE p = m + 1 /\ q > m + 1
    <3> DEFINE r == q - (m + 1)
    <3>1. r \in 1..Len(copy) /\ all[q] = copy[r]
      BY <1>9, <2>4
    <3> HIDE DEF r
    <3>2. PICK j \in 1..n : IsOne(C, j, copy[r])
      BY <1>6, <3>1 DEF PickedFrom
    <3>3. ~Shares(new, SegRange(copy[r]))
      BY <1>3, <3>2, ApartEitherWay DEF Piece
    <3> QED
      BY <1>9, <2>4, <3>1, <3>3 DEF new
  <2>5. CASE p > m + 1 /\ q > m + 1
    <3> DEFINE r == p - (m + 1)
               s == q - (m + 1)
    <3>1. /\ r \in 1..Len(copy) /\ all[p] = copy[r]
          /\ s \in 1..Len(copy) /\ all[q] = copy[s] /\ r < s
      BY <1>8, <1>9, <1>11, <2>5, SMTT(20)
    <3> HIDE DEF r, s
    <3>2. PICK i \in 1..n, j \in 1..n : i < j /\ IsOne(C, i, copy[r]) /\ IsOne(C, j, copy[s])
      BY <1>6, <3>1 DEF PickedFrom
    <3> QED
      BY <1>1, <1>3, <1>4, <3>1, <3>2
  <2> QED
    BY <1>8, <1>10, <1>11, <2>1, <2>2, <2>3, <2>4, <2>5
<1>12. ASSUME NEW p \in 1..Len(all), NEW q \in 1..Len(all), p # q
       PROVE  ~Shares(SegRange(all[p]), SegRange(all[q]))
  <2>1. p < q \/ q < p
    BY <1>12
  <2> QED
    BY <1>11, <2>1, ApartEitherWay
<1>13. Apart(all)
  BY <1>9, <1>12 DEF Apart
<1> QED
  BY <1>7, <1>13 DEF all
\* Growing the empty BSS segments of a sorted vector makes each
\* end where the next one starts, at most.
LEMMA GrowingFillsGaps ==
  ASSUME NEW f, NEW sorted, Apart(sorted),
         \A k, l \in 1..Len(sorted) : k < l => sorted[k].addr <= sorted[l].addr
  PROVE  /\ \A i, j \in 1..Len(sorted) : i < j => SegRange(sorted[i]).end <= sorted[j].addr
         /\ \A i \in 1..Len(sorted) : SegRange(FixedBss(f, sorted, i)).start = sorted[i].addr
         /\ \A i \in 1..Len(sorted) : i < Len(sorted) =>
              /\ SegRange(FixedBss(f, sorted, i)).end \in Int
              /\ SegRange(FixedBss(f, sorted, i)).end <= sorted[i + 1].addr
<1> DEFINE n == Len(sorted)
           done == [i \in 1..n |-> FixedBss(f, sorted, i)]
<1>1. n \in Nat /\ \A i \in 1..n : sorted[i] \in ElfSegment
  BY DEF Apart
<1>2. \A i \in 1..n : done[i] = FixedBss(f, sorted, i)
  BY <1>1
<1>3. ASSUME NEW i \in 1..n, NEW j \in 1..n, i < j
      PROVE  SegRange(sorted[i]).end <= sorted[j].addr
  <2>1. /\ SegRange(sorted[i]).start = sorted[i].addr /\ SegRange(sorted[j]).start = sorted[j].addr
        /\ SegRange(sorted[i]).end \in Int /\ SegRange(sorted[j]).end \in Int
        /\ sorted[i].addr < SegRange(sorted[i]).end /\ sorted[j].addr < SegRange(sorted[j]).end
        /\ sorted[i].addr \in Nat /\ sorted[j].addr \in Nat
    BY <1>1, RangeOfElfSegment
  <2>2. ~Shares(SegRange(sorted[i]), SegRange(sorted[j])) /\ sorted[i].addr <= sorted[j].addr
    BY <1>3 DEF Apart
  <2> QED
    BY <2>1, <2>2 DEF Shares
<1>4. ASSUME NEW i \in 1..n
      PROVE  /\ SegRange(done[i]).start = sorted[i].addr
             /\ i < n => SegRange(done[i]).end \in Int /\ SegRange(done[i]).end <= sorted[i + 1].addr
  <2> DEFINE seg == sorted[i]
  <2>1. /\ SegRange(seg).start = seg.addr /\ SegRange(seg).end = EndOf(seg.addr, seg.size)
        /\ SegRange(seg).end \in Int /\ seg.addr \in Nat /\ seg.size \in Nat
    BY <1>1, RangeOfElfSegment
  <2>2. i < n => i + 1 \in 1..n /\ SegRange(seg).end <= sorted[i + 1].addr /\ sorted[i + 1].addr \in Nat
    <3>1. ASSUME i < n PROVE i + 1 \in 1..n /\ i < i + 1
      BY <1>1, <3>1
    <3> QED
      BY <1>1, <1>3, <3>1, RangeOfElfSegment
  <2>3. CASE done[i] = seg
    BY <2>1, <2>2, <2>3
  <2>4. CASE done[i] # seg
    <3>1. PICK size : /\ done[i] = SegResize(seg, size)
                      /\ i < n => size = sorted[i + 1].addr - seg.addr
      <4>1. done[i] = FixedBss(f, sorted, i)
        BY <1>2
      <4> QED
        BY <2>4, <4>1 DEF FixedBss
    <3>2. done[i].addr = seg.addr /\ done[i].size = size
      <4>1. seg \in ElfSegment
        BY <1>1
      <4> HIDE DEF seg
      <4> QED
        BY <3>1, <4>1 DEF SegResize, ElfSegment
    <3>3. SegRange(done[i]).start = seg.addr /\ SegRange(done[i]).end = EndOf(seg.addr, size)
      BY <3>2 DEF SegRange, Rng
    <3>4. ASSUME i < n PROVE EndOf(seg.addr, size) = sorted[i + 1].addr
      <4>1. seg.addr < sorted[i + 1].addr /\ sorted[i + 1].addr \in Nat
        BY <1>1, <2>1, <2>2, <3>4, RangeOfElfSegment
      <4>2. size = sorted[i + 1].addr - seg.addr
        BY <3>1, <3>4
      <4> DEFINE next == sorted[i + 1].addr
                 a == seg.addr
      <4>3. a \in Nat /\ next \in Nat /\ a < next /\ size = next - a
        BY <2>1, <4>1, <4>2
      <4> HIDE DEF next, a
      <4>4. size # 0 /\ a + size = next
        BY <4>3
      <4>5. EndOf(a, size) = next
        BY <4>4 DEF EndOf
      <4> QED
        BY <4>5 DEF next, a
    <3> QED
      BY <2>2, <3>3, <3>4
  <2> QED
    BY <2>3, <2>4
<1> HIDE DEF done
<1> QED
  BY <1>2, <1>3, <1>4

\* Growing them keeps segments apart.
LEMMA GrowingKeepsApart ==
  ASSUME NEW f, NEW sorted, Apart(sorted),
         \A k, l \in 1..Len(sorted) : k < l => sorted[k].addr <= sorted[l].addr,
         NEW done, done = [i \in 1..Len(sorted) |-> FixedBss(f, sorted, i)]
  PROVE  \A i, j \in 1..Len(done) : i # j => ~Shares(SegRange(done[i]), SegRange(done[j]))
<1> DEFINE n == Len(sorted)
<1>1. n \in Nat /\ \A i \in 1..n : sorted[i] \in ElfSegment
  BY DEF Apart
<1>2. Len(done) = n /\ \A i \in 1..n : done[i] = FixedBss(f, sorted, i)
  BY <1>1
<1>3. /\ \A i \in 1..n : SegRange(done[i]).start = sorted[i].addr
      /\ \A i \in 1..n : i < n =>
           SegRange(done[i]).end \in Int /\ SegRange(done[i]).end <= sorted[i + 1].addr
  BY <1>2, GrowingFillsGaps
<1>4. ASSUME NEW i \in 1..n, NEW j \in 1..n, i < j
      PROVE  ~Shares(SegRange(done[i]), SegRange(done[j]))
  <2>1. i < n /\ i + 1 \in 1..n /\ (i + 1 = j \/ i + 1 < j)
    BY <1>1, <1>4
  <2>2. sorted[i + 1].addr <= sorted[j].addr /\ sorted[i + 1].addr \in Nat /\ sorted[j].addr \in Nat
    BY <1>1, <2>1, RangeOfElfSegment
  <2>3. /\ SegRange(done[i]).end \in Int /\ SegRange(done[i]).end <= sorted[j].addr
        /\ SegRange(done[j]).start = sorted[j].addr
    BY <1>3, <2>1, <2>2
  <2> QED
    BY <2>2, <2>3 DEF Shares
<1>5. ASSUME NEW i \in 1..n, NEW j \in 1..n, i # j
      PROVE  ~Shares(SegRange(done[i]), SegRange(done[j]))
  <2>1. i < j \/ j < i
    BY <1>5
  <2> QED
    BY <1>4, <2>1, ApartEitherWay
<1> QED
  BY <1>2, <1>5

\* Sorting keeps segments apart.
LEMMA SortingKeepsApart ==
  ASSUME NEW segs, Apart(segs)
  PROVE  /\ Apart(SortSegments(segs))
         /\ \A k, l \in 1..Len(SortSegments(segs)) :
              k < l => SortSegments(segs)[k].addr <= SortSegments(segs)[l].addr
<1> DEFINE n == Len(segs)
           sorted == SortSegments(segs)
<1>1. n \in Nat /\ \A i \in 1..n : segs[i] \in ElfSegment
  BY DEF Apart
<1>2. \A i \in 1..n : segs[i].addr \in Int
  BY <1>1, RangeOfElfSegment
<1>3. /\ Cardinality(1..n) = n
      /\ \E place : IsSorting(sorted, segs, 1..n, place)
  BY <1>1, <1>2, SortAllSorts
<1> PICK place : IsSorting(sorted, segs, 1..n, place)
  BY <1>3
<1> HIDE DEF sorted
<1>4. /\ place \in [1..n -> 1..n] /\ sorted = [k \in 1..n |-> segs[place[k]]]
      /\ \A k, l \in 1..n : k < l => place[k] # place[l] /\ sorted[k].addr <= sorted[l].addr
  BY <1>3 DEF IsSorting
<1>5. /\ sorted \in Seq(ElfSegment) /\ Len(sorted) = n
      /\ \A k \in 1..n : sorted[k] = segs[place[k]]
  <2>1. \A k \in 1..n : segs[place[k]] \in ElfSegment
    BY <1>1, <1>4
  <2> QED
    BY <1>1, <1>4, <2>1
<1>6. ASSUME NEW k \in 1..n, NEW l \in 1..n, k # l
      PROVE  ~Shares(SegRange(sorted[k]), SegRange(sorted[l]))
  <2>1. k < l \/ l < k
    BY <1>6
  <2>2. place[k] # place[l] /\ place[k] \in 1..n /\ place[l] \in 1..n
    BY <1>4, <2>1
  <2> QED
    BY <1>5, <2>2 DEF Apart
<1>7. Apart(sorted)
  BY <1>5, <1>6 DEF Apart
<1> QED
  BY <1>4, <1>5, <1>7 DEF sorted

\* The sections that replace a header are sections of the file, mapped to it.
LEMMA SectionsAreHeaders ==
  ASSUME NEW f \in ElfFiles, NEW ph
  PROVE  /\ SectionsOf(f, ph) \in Seq(Header)
         /\ \A k \in 1..Len(SectionsOf(f, ph)) : MappedTo(SectionsOf(f, ph)[k], ph)
<1> DEFINE secs == f.sections
           part == {k \in 1..Len(secs) : MappedTo(secs[k], ph)}
           sorted == SortedPart(secs, part)
<1>1. secs \in Seq(Header)
  BY ElfAssumption
<1> HIDE DEF secs
<1>2. /\ IsFiniteSet(1..Len(secs)) /\ part \subseteq 1..Len(secs)
      /\ Len(secs) \in Nat /\ \A k \in 1..Len(secs) : secs[k] \in Header
  BY <1>1, FS_Interval
<1>3. \A k \in part : MappedTo(secs[k], ph)
  OBVIOUS
<1> HIDE DEF part
<1>4. /\ IsFiniteSet(part) /\ part \in SUBSET Int /\ Cardinality(part) \in Nat
      /\ \A k \in part : secs[k] \in Header
  <2>1. IsFiniteSet(part) /\ Cardinality(part) \in Nat
    BY <1>2, FS_Subset, FS_CardinalityType
  <2>2. \A k \in part : k \in 1..Len(secs)
    BY <1>2
  <2>3. \A k \in part : k \in Int /\ secs[k] \in Header
    BY <1>2, <2>2
  <2> QED
    BY <2>1, <2>3
<1>5. \A k \in part : secs[k].addr \in Int
  <2>1. \A h \in Header : h.addr \in Int
    BY DEF Header
  <2> QED
    BY <1>4, <2>1
<1>6. PICK place : IsSorting(sorted, secs, part, place)
  BY <1>4, <1>5, SortSorts
<1> HIDE DEF sorted
<1>7. sorted = [k \in 1..Cardinality(part) |-> secs[place[k]]]
      /\ \A k \in 1..Cardinality(part) :
           secs[place[k]] \in Header /\ MappedTo(secs[place[k]], ph)
  BY <1>4, <1>6, <1>3 DEF IsSorting
<1>8. sorted \in Seq(Header) /\ \A k \in 1..Len(sorted) : MappedTo(sorted[k], ph)
  <2>1. sorted \in Seq(Header) /\ Len(sorted) = Cardinality(part)
    BY <1>4, <1>7
  <2>2. \A k \in 1..Cardinality(part) : sorted[k] = secs[place[k]]
    BY <1>7
  <2> QED
    BY <1>7, <2>1, <2>2
<1> QED
  BY <1>8 DEF SectionsOf, sorted, part, secs

\* A section or a header becomes a segment.
LEMMA SegmentOfHeader ==
  ASSUME NEW s \in Header
  PROVE  SegmentOf(s) \in ElfSegment
BY DEF Header, SegmentOf, ElfSegment

-----------------------------------------------------------------------------
\* While segments are added they are apart and the loops are within the file;
\* Disjoint alone does not keep the numbers that shrink and resize count with.
ElfInv ==
  /\ file \in ElfFiles
  /\ phase \in {"table", "load", "done"}
  /\ phase \in {"table", "load"} => Apart(segments)
  /\ phase = "load" => \A k \in 1..Len(file.phdrs) : table[k] \in Seq(Header)
  /\ pos \in (Nat \ {0}) \X (Nat \ {0})
  /\ phase = "table" => pos[2] = 1
  /\ phase = "load" /\ pos[1] <= Len(file.phdrs) =>
       pos[2] = 1 \/ pos[2] <= Len(table[pos[1]])
  /\ Disjoint

\* Each addSegment of the loops keeps the segments apart.
LEMMA AddStep ==
  ASSUME ElfInv, phase = "load", NEW s \in Header, Add(s)
  PROVE  Apart(segments')
<1>1. segments' = AddSegment(segments, SegmentOf(s)) /\ Apart(segments)
  BY DEF Add, ElfInv
<1>2. Apart(AddSegment(segments, SegmentOf(s)))
  BY <1>1, SegmentOfHeader, AddingKeepsApart
<1> QED
  BY <1>1, <1>2

\* The loop over a header's sections stays within them.
LEMMA LoadsASection ==
  ASSUME ElfInv, LoadSection
  PROVE  /\ pos[1] \in 1..Len(file.phdrs) /\ table[pos[1]] \in Seq(Header)
         /\ pos[2] \in 1..Len(table[pos[1]]) /\ table[pos[1]][pos[2]] \in Header
<1> DEFINE secs == table[pos[1]]
<1>1. file.phdrs \in Seq(Header) /\ Len(file.phdrs) \in Nat
  BY ElfAssumption DEF ElfInv
<1>2. phase = "load" /\ secs # <<>> /\ pos[1] \in 1..Len(file.phdrs)
  BY <1>1 DEF LoadSection, ElfInv
<1>3. /\ secs \in Seq(Header) /\ pos[2] \in Nat \ {0}
      /\ pos[2] = 1 \/ pos[2] <= Len(secs)
  BY <1>1, <1>2 DEF ElfInv
<1> HIDE DEF secs
<1>4. pos[2] \in 1..Len(secs)
  BY <1>2, <1>3
<1>5. secs[pos[2]] \in Header
  BY <1>3, <1>4
<1> QED
  BY <1>2, <1>3, <1>4, <1>5 DEF secs

\* The invariant is inductive.
THEOREM ElfInvariance == ElfSpec => []ElfInv
<1>1. ElfInit => ElfInv
  <2> SUFFICES ASSUME ElfInit PROVE ElfInv
    OBVIOUS
  <2>1. Apart(<<>>)
    BY DEF Apart
  <2> QED
    BY <2>1 DEF ElfInit, ElfInv, Disjoint
<1>2. ElfInv /\ [ElfNext]_elfVars => ElfInv'
  <2> SUFFICES ASSUME ElfInv, [ElfNext]_elfVars PROVE ElfInv'
    OBVIOUS
  <2>1. file.phdrs \in Seq(Header) /\ Len(file.phdrs) \in Nat
    BY ElfAssumption DEF ElfInv
  <2>2. ASSUME Apart(segments') PROVE Disjoint' /\ Apart(segments)'
    BY <2>2 DEF Apart, Disjoint
  <2>3. CASE CreateTable
    <3>1. /\ phase = "table" /\ phase' = "load" /\ file' = file /\ pos' = pos /\ segments' = segments
          /\ table' = [k \in 1..Len(file.phdrs) |-> SectionsOf(file, file.phdrs[k])]
          /\ Apart(segments') /\ pos[2] = 1
      BY <2>3 DEF CreateTable, ElfInv
    <3>2. \A k \in 1..Len(file.phdrs) : table'[k] \in Seq(Header)
      BY <3>1, SectionsAreHeaders DEF ElfInv
    <3> QED
      BY <2>2, <3>1, <3>2 DEF ElfInv
  <2>4. CASE SkipHeader
    <3>1. /\ phase = "load" /\ phase' = "load" /\ file' = file /\ table' = table
          /\ segments' = segments /\ pos' = <<pos[1] + 1, 1>> /\ Apart(segments')
      BY <2>4 DEF SkipHeader, ElfInv
    <3> QED
      BY <2>2, <3>1 DEF ElfInv
  <2>5. CASE LoadHeader
    <3>1. /\ phase = "load" /\ phase' = "load" /\ file' = file /\ table' = table
          /\ pos' = <<pos[1] + 1, 1>> /\ Add(file.phdrs[pos[1]])
          /\ pos[1] \in 1..Len(file.phdrs)
      BY <2>1, <2>5 DEF LoadHeader, ElfInv
    <3>2. file.phdrs[pos[1]] \in Header
      BY <2>1, <3>1
    <3>3. Apart(segments')
      BY <3>1, <3>2, AddStep
    <3> QED
      BY <2>2, <3>1, <3>3 DEF ElfInv
  <2>6. CASE LoadSection
    <3> DEFINE secs == table[pos[1]]
    <3>1. /\ phase = "load" /\ phase' = "load" /\ file' = file /\ table' = table
          /\ pos' = IF pos[2] = Len(secs) THEN <<pos[1] + 1, 1>> ELSE <<pos[1], pos[2] + 1>>
          /\ Add(secs[pos[2]]) /\ secs # <<>>
          /\ pos[1] \in 1..Len(file.phdrs)
      BY <2>1, <2>6 DEF LoadSection, ElfInv
    <3>2. secs \in Seq(Header) /\ pos[2] \in Nat \ {0}
      BY <2>6, LoadsASection DEF ElfInv
    <3>3. pos[2] \in 1..Len(secs)
      BY <2>6, LoadsASection
    <3>4. secs[pos[2]] \in Header
      BY <2>6, LoadsASection
    <3> HIDE DEF secs
    <3>5. Apart(segments')
      BY <3>1, <3>4, AddStep
    <3>6. /\ pos' \in (Nat \ {0}) \X (Nat \ {0})
          /\ pos'[2] = 1 \/ (pos'[1] = pos[1] /\ pos'[2] <= Len(secs))
      <4>1. pos[1] \in Nat \ {0} /\ Len(secs) \in Nat
        BY <3>2 DEF ElfInv
      <4>2. CASE pos[2] = Len(secs)
        BY <3>1, <4>1, <4>2
      <4>3. CASE pos[2] # Len(secs)
        BY <3>1, <3>2, <3>3, <4>1, <4>3
      <4> QED
        BY <4>2, <4>3
    <3> QED
      BY <2>2, <3>1, <3>5, <3>6 DEF ElfInv, secs
  <2>7. CASE SortAndFix
    <3> DEFINE sorted == SortSegments(segments)
    <3>1. /\ phase' = "done" /\ file' = file /\ pos' = pos /\ Apart(segments)
          /\ segments' = [i \in 1..Len(sorted) |-> FixedBss(file, sorted, i)]
      BY <2>7 DEF SortAndFix, ElfInv
    <3>2. /\ Apart(sorted)
          /\ \A k, l \in 1..Len(sorted) : k < l => sorted[k].addr <= sorted[l].addr
      BY <3>1, SortingKeepsApart
    <3> HIDE DEF sorted
    <3>3. \A i, j \in 1..Len(segments') :
            i # j => ~Shares(SegRange(segments'[i]), SegRange(segments'[j]))
      BY <3>1, <3>2, GrowingKeepsApart
    <3>4. Disjoint'
      BY <3>3 DEF Disjoint
    <3> QED
      BY <3>1, <3>4 DEF ElfInv
  <2>8. CASE Loaded \/ UNCHANGED elfVars
    <3>1. UNCHANGED elfVars
      BY <2>8 DEF Loaded
    <3> QED
      BY <3>1 DEF elfVars, ElfInv, Disjoint
  <2> QED
    BY <2>3, <2>4, <2>5, <2>6, <2>7, <2>8 DEF ElfNext
<1> QED
  BY <1>1, <1>2, PTL DEF ElfSpec

\* Whatever headers and sections overlap, and although BSS segments grow at the end,
\* no address of an ELF image is in two segments.
THEOREM ElfSegmentsAreDisjoint == ElfSpec => []Disjoint
<1>1. ElfInv => Disjoint
  BY DEF ElfInv
<1> QED
  BY <1>1, ElfInvariance, PTL

(***************************************************************************)
(* What the bytes of an ELF image are                                      *)
(***************************************************************************)

\* A segment of which only the first bytes are in the file.
Partial(seg) == 0 < seg.len /\ seg.len < seg.size

\* A part x of seg reads as seg does, and has only its first bytes in the file at
\* most where seg starts.
ReadsAs(x, seg) ==
  /\ \A a \in Int : InRng(SegRange(x), a) => ByteOf(x, a) = ByteOf(seg, a)
  /\ Partial(x) => Partial(seg) /\ x.addr = seg.addr
  /\ x.bss = seg.bss
  /\ seg.len = 0 => x.len = 0

\* shrink of a segment that has all of its bytes in the file or none, or of one
\* that keeps its start.
LEMMA ShrinkKeepsBytes ==
  ASSUME NEW seg \in ElfSegment, NEW r, r.start \in Int, r.end \in Int,
         seg.size # 0, seg.addr <= r.start, r.start < r.end, r.end <= seg.addr + seg.size,
         Partial(seg) => r.start = seg.addr
  PROVE  ReadsAs(SegShrink(seg, r.start, r.end - r.start), seg)
<1> DEFINE size == r.end - r.start
           off == r.start - seg.addr
           data == DataShrink(seg, off, size)
           new == [data EXCEPT !.addr = r.start, !.size = size]
<1>1. /\ seg.addr \in Nat /\ seg.size \in Nat /\ seg.off \in Nat /\ seg.len \in Nat
      /\ seg.bss \in BOOLEAN
  BY DEF ElfSegment
<1>2. /\ r.start \in Nat /\ size \in Nat /\ size # 0 /\ off \in Nat
      /\ r.start = seg.addr + off /\ r.end = r.start + size /\ off + size <= seg.size
  BY <1>1
<1>3. SegShrink(seg, r.start, r.end - r.start) = new
  BY <1>1, <1>2 DEF SegShrink, SegRange, EndOf, InRng, Rng
<1>4. Partial(seg) => off = 0
  BY <1>1
<1> HIDE DEF size, off
<1>5. /\ data.bss = seg.bss /\ data \in ElfSegment
      /\ \/ size > seg.len /\ data.off = seg.off /\ data.len = seg.len
         \/ /\ size <= seg.len /\ data.off = seg.off + off
            /\ data.len = IF off >= seg.len THEN 0
                          ELSE IF size <= seg.len - off THEN size ELSE seg.len - off
  <2>1. CASE size > seg.len
    BY <1>1, <2>1 DEF DataShrink, ElfSegment
  <2>2. CASE ~(size > seg.len)
    <3> DEFINE len == IF off >= seg.len THEN 0 ELSE Min({size, seg.len - off})
               o == seg.off + off
    <3>1. seg.len - off \in Int /\ o \in Nat
      BY <1>1, <1>2
    <3>2. Min({size, seg.len - off}) = IF size <= seg.len - off THEN size ELSE seg.len - off
      BY <1>2, <3>1, LeastAndGreatest
    <3>3. len \in Nat
      BY <1>1, <1>2, <3>2
    <3>4. data = [seg EXCEPT !.off = o, !.len = len]
      BY <2>2 DEF DataShrink
    <3>5. len = IF off >= seg.len THEN 0 ELSE IF size <= seg.len - off THEN size ELSE seg.len - off
      BY <3>2
    <3> HIDE DEF len, data
    <3>6. /\ data.off = o /\ data.len = len /\ data.bss = seg.bss
          /\ data \in ElfSegment
      <4> HIDE DEF o
      <4>1. data \in ElfSegment
        BY <3>1, <3>3, <3>4 DEF ElfSegment
      <4>2. data.off = o /\ data.len = len /\ data.bss = seg.bss
        BY <3>4 DEF ElfSegment
      <4> QED
        BY <4>1, <4>2
    <3> QED
      BY <1>1, <1>2, <2>2, <3>5, <3>6
  <2> QED
    BY <2>1, <2>2
<1> HIDE DEF data
<1>6. /\ new.addr = r.start /\ new.size = size /\ new.off = data.off /\ new.len = data.len
      /\ new.bss = seg.bss
  BY <1>5
<1> HIDE DEF new
<1>7. seg.len = 0 \/ seg.len >= seg.size \/ off = 0
  BY <1>1, <1>4 DEF Partial
<1>8. /\ seg.len = 0 => new.len = 0
      /\ Partial(new) => Partial(seg) /\ new.addr = seg.addr
  BY <1>1, <1>2, <1>5, <1>6, <1>7 DEF Partial
<1>9. ASSUME NEW a \in Int, InRng(SegRange(new), a) PROVE ByteOf(new, a) = ByteOf(seg, a)
  <2> DEFINE d == a - r.start
  <2>1. r.start <= a /\ a < r.start + size
    BY <1>2, <1>6, <1>9 DEF InRng, SegRange, EndOf, Rng
  <2>2. d \in Nat /\ d < size /\ a - seg.addr = d + off /\ d + off < seg.size
    BY <1>1, <1>2, <2>1
  <2> HIDE DEF d
  <2>3. ByteOf(seg, a) = IF d + off < seg.len THEN seg.off + (d + off) ELSE Zero
    BY <1>1, <1>2, <2>2 DEF ByteOf
  <2>4. ByteOf(new, a) = IF d < data.len THEN data.off + d ELSE Zero
    BY <1>2, <1>6, <2>2 DEF ByteOf, d
  <2>5. CASE size > seg.len /\ data.off = seg.off /\ data.len = seg.len
    <3>1. CASE off = 0
      <4>1. d + off = d
        BY <2>2, <3>1
      <4> QED
        BY <2>3, <2>4, <2>5, <4>1
    <3>2. CASE off # 0
      <4>1. seg.len = 0
        BY <1>1, <1>2, <1>7, <2>5, <3>2
      <4>2. ~(d + off < seg.len) /\ ~(d < data.len)
        BY <1>2, <2>2, <2>5, <4>1
      <4> QED
        BY <2>3, <2>4, <4>2
    <3> QED
      BY <3>1, <3>2
  <2>6. CASE ~(size > seg.len /\ data.off = seg.off /\ data.len = seg.len)
    <3>1. /\ size <= seg.len /\ data.off = seg.off + off
          /\ data.len = IF off >= seg.len THEN 0
                        ELSE IF size <= seg.len - off THEN size ELSE seg.len - off
      BY <1>5, <2>6
    <3>2. d < data.len <=> d + off < seg.len
      BY <1>1, <1>2, <1>7, <2>2, <3>1
    <3>3. data.off + d = seg.off + (d + off)
      BY <1>1, <1>2, <2>2, <3>1
    <3> QED
      BY <2>3, <2>4, <3>2, <3>3
  <2> QED
    BY <2>5, <2>6
<1> QED
  BY <1>3, <1>6, <1>8, <1>9 DEF ReadsAs

\* x is what is left of seg when the range new is added: in its place or as the copy.
PieceOf(x, seg, new) ==
  \/ Len(LeftOf(seg, new).kept) = 1 /\ x = LeftOf(seg, new).kept[1]
  \/ Len(LeftOf(seg, new).copy) = 1 /\ x = LeftOf(seg, new).copy[1]

\* A segment with only its first bytes in the file must not be cut at its start.
MayCut(seg, new) == Partial(seg) => ~(seg.addr < new.end /\ new.end < SegRange(seg).end)

\* The pieces of a segment read as it does, and every address of it outside of new
\* is in one of them.
LEMMA PiecesKeepBytes ==
  ASSUME NEW seg \in ElfSegment, NEW new, new.start \in Int, new.end \in Int,
         new.start < new.end, MayCut(seg, new)
  PROVE  /\ \A x : PieceOf(x, seg, new) => ReadsAs(x, seg)
         /\ \A a \in Int : InRng(SegRange(seg), a) /\ ~InRng(new, a) =>
              \E x : PieceOf(x, seg, new) /\ InRng(SegRange(x), a)
<1> DEFINE first == SegRange(seg)
           res == Resolve(first, new)
           Shrunk(r) == SegShrink(seg, r.start, r.end - r.start)
           full == new.start <= first.start /\ first.end <= new.end
           startIn == InRng(first, new.start)
           endIn == InRng(first, new.end)
           atStart == first.start = new.start
           left == Rng(first.start, new.start)
           right == Rng(new.end, first.end)
<1>1. /\ seg.addr \in Nat /\ seg.size \in Nat
      /\ first.start = seg.addr /\ first.end = EndOf(seg.addr, seg.size)
      /\ first.start \in Int /\ first.end \in Int /\ first.start < first.end
  BY RangeOfElfSegment
<1>2. left.start = first.start /\ left.end = new.start /\ right.start = new.end /\ right.end = first.end
  BY DEF Rng
<1>3. ReadsAs(seg, seg)
  BY DEF ReadsAs
<1>4. CASE full
  <2>1. res[1] = "Full"
    BY <1>4 DEF Resolve
  <2>2. LeftOf(seg, new) = [kept |-> <<>>, copy |-> <<>>]
    BY <2>1 DEF LeftOf
  <2>3. \A x : ~PieceOf(x, seg, new)
    BY <2>2 DEF PieceOf
  <2>4. \A a \in Int : InRng(first, a) => InRng(new, a)
    BY <1>1, <1>4 DEF InRng
  <2> QED
    BY <2>3, <2>4
<1>5. CASE ~full /\ startIn /\ ~endIn
  <2>1. res = <<"OverEnd", left>>
    BY <1>5 DEF Resolve
  <2>2. /\ seg.size # 0 /\ seg.addr <= left.start /\ left.start < left.end
        /\ left.end <= seg.addr + seg.size /\ left.start = seg.addr
    BY <1>1, <1>2, <1>5 DEF InRng, EndOf
  <2> HIDE DEF first, res, left
  <2>3. SegRange(Shrunk(left)).start = left.start /\ SegRange(Shrunk(left)).end = left.end
    BY <1>1, <1>2, <2>2, ShrinkTakesThePart
  <2>4. ReadsAs(Shrunk(left), seg)
    BY <1>1, <1>2, <2>2, ShrinkKeepsBytes
  <2>5. LeftOf(seg, new) = [kept |-> <<Shrunk(left)>>, copy |-> <<>>]
    BY <2>1 DEF LeftOf, res, first
  <2> HIDE DEF Shrunk
  <2>6. \A x : PieceOf(x, seg, new) <=> x = Shrunk(left)
    BY <2>5 DEF PieceOf
  <2>7. \A a \in Int : InRng(first, a) /\ ~InRng(new, a) => InRng(SegRange(Shrunk(left)), a)
    BY <1>1, <1>2, <1>5, <2>3 DEF InRng
  <2> QED
    BY <2>4, <2>6, <2>7 DEF first
<1>6. CASE ~full /\ endIn /\ (~startIn \/ atStart)
  <2>1. res = <<"OverStart", right>>
    BY <1>6 DEF Resolve
  <2> HIDE DEF res
  <2>2. LeftOf(seg, new) = [kept |-> <<Shrunk(right)>>, copy |-> <<>>]
    BY <2>1 DEF LeftOf, res
  <2>3. \A x : PieceOf(x, seg, new) <=> x = Shrunk(right)
    <3> HIDE DEF Shrunk
    <3> QED
      BY <2>2 DEF PieceOf
  <2>4. CASE seg.size # 0
    <3>1. /\ seg.addr <= right.start /\ right.start < right.end
          /\ right.end <= seg.addr + seg.size
      BY <1>1, <1>2, <1>6, <2>4 DEF InRng, EndOf
    <3>2. Partial(seg) => right.start = seg.addr
      BY <1>1, <1>2, <3>1 DEF MayCut
    <3> HIDE DEF first, right
    <3>3. SegRange(Shrunk(right)).start = right.start /\ SegRange(Shrunk(right)).end = right.end
      BY <1>1, <1>2, <2>4, <3>1, ShrinkTakesThePart
    <3>4. ReadsAs(Shrunk(right), seg)
      BY <1>1, <1>2, <2>4, <3>1, <3>2, ShrinkKeepsBytes
    <3> HIDE DEF Shrunk
    <3>5. \A a \in Int : InRng(first, a) /\ ~InRng(new, a) => InRng(SegRange(Shrunk(right)), a)
      BY <1>1, <1>2, <1>6, <3>3 DEF InRng
    <3> QED
      BY <2>3, <3>4, <3>5 DEF first
  <2>5. CASE seg.size = 0
    <3>1. right.end - right.start > seg.size
      BY <1>1, <1>2, <1>6, <2>5 DEF InRng, EndOf
    <3>2. Shrunk(right) = seg
      BY <3>1, <1>1, <1>2 DEF SegShrink
    <3> QED
      BY <1>3, <2>3, <3>2
  <2> QED
    BY <2>4, <2>5
<1>7. CASE ~full /\ endIn /\ startIn /\ ~atStart
  <2>1. res = <<"InMiddle", left, right>>
    BY <1>7 DEF Resolve
  <2>2. /\ seg.size # 0 /\ seg.addr <= left.start /\ left.start < left.end
        /\ left.end <= seg.addr + seg.size /\ left.start = seg.addr
        /\ seg.addr <= right.start /\ right.start < right.end
        /\ right.end <= seg.addr + seg.size
    BY <1>1, <1>2, <1>7 DEF InRng, EndOf
  <2>3. Partial(seg) => right.start = seg.addr
    BY <1>1, <1>2, <2>2 DEF MayCut
  <2> HIDE DEF first, res, left, right
  <2>4. SegRange(Shrunk(left)).start = left.start /\ SegRange(Shrunk(left)).end = left.end
    BY <1>1, <1>2, <2>2, ShrinkTakesThePart
  <2>5. SegRange(Shrunk(right)).start = right.start /\ SegRange(Shrunk(right)).end = right.end
    BY <1>1, <1>2, <2>2, ShrinkTakesThePart
  <2>6. ReadsAs(Shrunk(left), seg)
    BY <1>1, <1>2, <2>2, ShrinkKeepsBytes
  <2>7. ReadsAs(Shrunk(right), seg)
    BY <1>1, <1>2, <2>2, <2>3, ShrinkKeepsBytes
  <2>8. LeftOf(seg, new) = [kept |-> <<Shrunk(left)>>, copy |-> <<Shrunk(right)>>]
    BY <2>1 DEF LeftOf, res, first
  <2> HIDE DEF Shrunk
  <2>9. \A x : PieceOf(x, seg, new) <=> x = Shrunk(left) \/ x = Shrunk(right)
    BY <2>8 DEF PieceOf
  <2>10. \A a \in Int : InRng(first, a) /\ ~InRng(new, a) =>
           InRng(SegRange(Shrunk(left)), a) \/ InRng(SegRange(Shrunk(right)), a)
    BY <1>1, <1>2, <1>7, <2>4, <2>5 DEF InRng
  <2> QED
    BY <2>6, <2>7, <2>9, <2>10 DEF first
<1>8. CASE ~full /\ ~startIn /\ ~endIn
  <2>1. res[1] = "None"
    BY <1>8 DEF Resolve
  <2>2. LeftOf(seg, new) = [kept |-> <<seg>>, copy |-> <<>>]
    BY <2>1 DEF LeftOf
  <2>3. \A x : PieceOf(x, seg, new) <=> x = seg
    BY <2>2 DEF PieceOf
  <2> QED
    BY <1>3, <2>3
<1> QED
  BY <1>4, <1>5, <1>6, <1>7, <1>8

\* What addSegment puts in the vector: the new segment and every piece of the old
\* ones, and nothing else.
LEMMA AddedAreThePieces ==
  ASSUME NEW segs \in Seq(ElfSegment), NEW seg \in ElfSegment
  PROVE  /\ AddSegment(segs, seg) \in Seq(ElfSegment)
         /\ \A p \in 1..Len(AddSegment(segs, seg)) :
              \/ AddSegment(segs, seg)[p] = seg
              \/ \E i \in 1..Len(segs) : PieceOf(AddSegment(segs, seg)[p], segs[i], SegRange(seg))
         /\ \E p \in 1..Len(AddSegment(segs, seg)) : AddSegment(segs, seg)[p] = seg
         /\ \A i \in 1..Len(segs) : \A x : PieceOf(x, segs[i], SegRange(seg)) =>
              \E p \in 1..Len(AddSegment(segs, seg)) : AddSegment(segs, seg)[p] = x
<1> DEFINE n == Len(segs)
           new == SegRange(seg)
           K == [i \in 1..n |-> LeftOf(segs[i], new).kept]
           C == [i \in 1..n |-> LeftOf(segs[i], new).copy]
           kept == FlattenSeq(K)
           copy == FlattenSeq(C)
<1>1. n \in Nat /\ \A i \in 1..n : segs[i] \in ElfSegment
  OBVIOUS
<1>2. new.start \in Int /\ new.end \in Int /\ new.start < new.end
  BY RangeOfElfSegment
<1> HIDE DEF new
<1>3. ASSUME NEW i \in 1..n
      PROVE  /\ K[i] \in Seq(ElfSegment) /\ Len(K[i]) \in {0, 1}
             /\ C[i] \in Seq(ElfSegment) /\ Len(C[i]) \in {0, 1}
             /\ \A x : PieceOf(x, segs[i], new) <=> IsOne(K, i, x) \/ IsOne(C, i, x)
  <2> DEFINE L == LeftOf(segs[i], new)
  <2>1. K[i] = L.kept /\ C[i] = L.copy
    OBVIOUS
  <2>2. /\ L.kept \in Seq(ElfSegment) /\ Len(L.kept) \in {0, 1}
        /\ L.copy \in Seq(ElfSegment) /\ Len(L.copy) \in {0, 1}
    BY <1>1, <1>2, LeftIsApart
  <2>3. \A x : PieceOf(x, segs[i], new) <=>
          (Len(L.kept) = 1 /\ x = L.kept[1]) \/ (Len(L.copy) = 1 /\ x = L.copy[1])
    BY DEF PieceOf
  <2> HIDE DEF L, K, C
  <2> QED
    BY <2>1, <2>2, <2>3 DEF IsOne
<1>4. K \in [1..n -> Seq(ElfSegment)] /\ C \in [1..n -> Seq(ElfSegment)]
  BY <1>3
<1> HIDE DEF K, C
<1>5. PickedFrom(ElfSegment, K, n, kept) /\ PickedFrom(ElfSegment, C, n, copy)
  BY <1>1, <1>3, <1>4, FlattenPicks
<1>6. AddSegment(segs, seg) = (kept \o <<seg>>) \o copy
  BY DEF AddSegment, K, C, new
<1> HIDE DEF kept, copy
<1> DEFINE all == (kept \o <<seg>>) \o copy
           m == Len(kept)
<1>7. /\ kept \in Seq(ElfSegment) /\ m \in Nat /\ copy \in Seq(ElfSegment) /\ Len(copy) \in Nat
  BY <1>5 DEF PickedFrom
<1>8. /\ all \in Seq(ElfSegment) /\ Len(all) = m + 1 + Len(copy)
      /\ \A p \in 1..m : all[p] = kept[p]
      /\ all[m + 1] = seg
      /\ \A p \in 1..Len(copy) : all[m + 1 + p] = copy[p]
  <2> DEFINE front == kept \o <<seg>>
  <2>1. /\ front \in Seq(ElfSegment) /\ Len(front) = m + 1 /\ front[m + 1] = seg
        /\ \A p \in 1..m : front[p] = kept[p]
    BY <1>7
  <2> HIDE DEF front
  <2>2. /\ front \o copy \in Seq(ElfSegment) /\ Len(front \o copy) = Len(front) + Len(copy)
        /\ \A p \in 1..(Len(front) + Len(copy)) :
             (front \o copy)[p] = IF p <= Len(front) THEN front[p] ELSE copy[p - Len(front)]
    BY <1>7, <2>1, ConcatProperties
  <2>3. all = front \o copy
    BY DEF front
  <2> HIDE DEF all, m
  <2>4. ASSUME NEW p \in 1..Len(copy) PROVE all[m + 1 + p] = copy[p]
    <3> DEFINE q == m + 1 + p
    <3>1. q \in 1..(Len(front) + Len(copy)) /\ ~(q <= Len(front)) /\ q - Len(front) = p
      BY <1>7, <2>1
    <3> HIDE DEF q
    <3>2. all[q] = copy[p]
      BY <2>2, <2>3, <3>1
    <3> QED
      BY <3>2 DEF q
  <2> QED
    BY <1>7, <2>1, <2>2, <2>3, <2>4
<1> HIDE DEF all, m
<1>9. ASSUME NEW p \in 1..Len(all)
      PROVE  all[p] = seg \/ \E i \in 1..n : PieceOf(all[p], segs[i], new)
  <2>1. CASE p \in 1..m
    <3>1. PICK i \in 1..n : IsOne(K, i, kept[p])
      BY <1>5, <2>1 DEF PickedFrom, m
    <3> QED
      BY <1>3, <1>8, <2>1, <3>1
  <2>2. CASE p = m + 1
    BY <1>8, <2>2
  <2>3. CASE p > m + 1
    <3> DEFINE r == p - (m + 1)
    <3>1. r \in 1..Len(copy) /\ m + 1 + r = p
      BY <1>7, <1>8, <2>3
    <3> HIDE DEF r
    <3>2. all[p] = copy[r]
      BY <1>8, <3>1
    <3>3. PICK i \in 1..n : IsOne(C, i, copy[r])
      BY <1>5, <3>1 DEF PickedFrom
    <3> QED
      BY <1>3, <3>2, <3>3
  <2> QED
    BY <1>7, <1>8, <2>1, <2>2, <2>3
<1>10. \E p \in 1..Len(all) : all[p] = seg
  <2>1. m + 1 \in 1..Len(all)
    BY <1>7, <1>8
  <2> QED
    BY <1>8, <2>1
<1>11. ASSUME NEW i \in 1..n, NEW x, PieceOf(x, segs[i], new)
       PROVE  \E p \in 1..Len(all) : all[p] = x
  <2>1. CASE IsOne(K, i, x)
    <3>1. Len(K[i]) = 1 /\ x = K[i][1]
      BY <2>1 DEF IsOne
    <3>2. PICK p \in 1..Len(kept) : IsOne(K, i, kept[p])
      BY <1>5, <3>1 DEF PickedFrom
    <3>3. p \in 1..m /\ p \in 1..Len(all) /\ kept[p] = x
      BY <1>7, <1>8, <3>1, <3>2 DEF IsOne, m
    <3> QED
      BY <1>8, <3>3
  <2>2. CASE IsOne(C, i, x)
    <3>1. Len(C[i]) = 1 /\ x = C[i][1]
      BY <2>2 DEF IsOne
    <3>2. PICK p \in 1..Len(copy) : IsOne(C, i, copy[p])
      BY <1>5, <3>1 DEF PickedFrom
    <3>3. copy[p] = x
      BY <3>1, <3>2 DEF IsOne
    <3>4. m + 1 + p \in 1..Len(all)
      BY <1>7, <1>8
    <3> QED
      BY <1>8, <3>3, <3>4
  <2> QED
    BY <1>3, <1>11, <2>1, <2>2
<1>12. AddSegment(segs, seg) = all
  BY <1>6 DEF all
<1> QED
  BY <1>8, <1>9, <1>10, <1>11, <1>12 DEF new

-----------------------------------------------------------------------------
\* The sections and headers of ad that cover an address, and the byte that the last
\* of them has there.
Covering(ad, a) == {k \in 1..Len(ad) : InRng(SegRange(SegmentOf(ad[k])), a)}

LastByte(ad, a) ==
  IF Covering(ad, a) = {} THEN Unreadable ELSE ByteOf(SegmentOf(ad[Max(Covering(ad, a))]), a)

\* Nothing that is added later ends within a segment of which only the first bytes
\* are in the file.
KeepTheirStart(ad) ==
  \A k, l \in 1..Len(ad) :
    k < l /\ Partial(SegmentOf(ad[k])) =>
      ~(/\ ad[k].addr < SegRange(SegmentOf(ad[l])).end
        /\ SegRange(SegmentOf(ad[l])).end < SegRange(SegmentOf(ad[k])).end)

\* The segments after ad was added: what covers an address has the byte there that
\* was added last; what was covered is still; a segment with only its first bytes
\* in the file starts where such a one was added; BSS has no bytes.
ImageReads(ad, segs) ==
  /\ \A i \in 1..Len(segs) : \A a \in Int :
       InRng(SegRange(segs[i]), a) => Covering(ad, a) # {} /\ ByteOf(segs[i], a) = LastByte(ad, a)
  /\ \A a \in Int : Covering(ad, a) # {} => \E i \in 1..Len(segs) : InRng(SegRange(segs[i]), a)
  /\ \A i \in 1..Len(segs) : Partial(segs[i]) =>
       \E k \in 1..Len(ad) : /\ Partial(SegmentOf(ad[k]))
                             /\ segs[i].addr = ad[k].addr
                             /\ SegRange(segs[i]).end <= SegRange(SegmentOf(ad[k])).end
  /\ \A i \in 1..Len(segs) : segs[i].bss => segs[i].len = 0

\* Max finds the greatest element of a non-empty set of places.
LEMMA GreatestPlace ==
  ASSUME NEW n \in Nat, NEW S \in SUBSET (1..n), S # {}
  PROVE  Max(S) \in S /\ \A x \in S : Max(S) >= x
<1> DEFINE D == {d \in Nat : n - d \in S}
<1>1. D \in SUBSET Nat /\ D # {}
  <2>1. PICK x \in S : TRUE
    OBVIOUS
  <2>2. n - x \in Nat /\ n - (n - x) = x
    OBVIOUS
  <2> QED
    BY <2>2
<1>2. PICK d \in D : \A e \in D : d <= e
  BY <1>1, LeastElement
<1>3. n - d \in S
  OBVIOUS
<1>4. ASSUME NEW x \in S PROVE n - d >= x
  <2>1. n - x \in Nat /\ n - (n - x) = x
    OBVIOUS
  <2>2. n - x \in D
    BY <2>1
  <2>3. d \in Int /\ x \in Int
    OBVIOUS
  <2> HIDE DEF D
  <2>4. d <= n - x
    BY <1>2, <2>2
  <2> QED
    BY <2>3, <2>4
<1> QED
  BY <1>3, <1>4 DEF Max

\* The byte added last when one more is added.
LEMMA LastByteOfMore ==
  ASSUME NEW ad \in Seq(Header), NEW s \in Header, NEW a \in Int
  PROVE  /\ InRng(SegRange(SegmentOf(s)), a) =>
              /\ Covering(Append(ad, s), a) # {}
              /\ LastByte(Append(ad, s), a) = ByteOf(SegmentOf(s), a)
         /\ ~InRng(SegRange(SegmentOf(s)), a) =>
              /\ Covering(Append(ad, s), a) = Covering(ad, a)
              /\ LastByte(Append(ad, s), a) = LastByte(ad, a)
<1> DEFINE n == Len(ad)
           more == Append(ad, s)
<1>1. /\ n \in Nat /\ Len(more) = n + 1 /\ more[n + 1] = s
      /\ \A k \in 1..n : more[k] = ad[k]
  OBVIOUS
<1>2. \A k \in 1..(n + 1) : k \in 1..n \/ k = n + 1
  BY <1>1
<1> HIDE DEF more
<1>3. CASE InRng(SegRange(SegmentOf(s)), a)
  <2> DEFINE S == Covering(more, a)
  <2>1. n + 1 \in S /\ \A k \in S : k \in Int /\ n + 1 >= k
    BY <1>1, <1>3 DEF Covering
  <2>2. Max(S) = n + 1
    <3> HIDE DEF S
    <3>1. Max(S) \in S /\ \A x \in S : Max(S) >= x
      BY <2>1 DEF Max
    <3> QED
      BY <1>1, <2>1, <3>1
  <2>3. S # {}
    BY <2>1
  <2> QED
    BY <1>1, <1>3, <2>2, <2>3 DEF LastByte, more
<1>4. CASE ~InRng(SegRange(SegmentOf(s)), a)
  <2> DEFINE S == Covering(ad, a)
  <2>1. Covering(more, a) = S
    BY <1>1, <1>2, <1>4 DEF Covering
  <2>2. CASE S = {}
    BY <1>4, <2>1, <2>2 DEF LastByte, more
  <2>3. CASE S # {}
    <3>1. S \in SUBSET (1..n)
      BY DEF Covering
    <3> HIDE DEF S
    <3>2. Max(S) \in 1..n
      BY <1>1, <2>3, <3>1, GreatestPlace
    <3>3. more[Max(S)] = ad[Max(S)]
      BY <1>1, <3>2
    <3> QED
      BY <1>4, <2>1, <3>3 DEF LastByte, more, S
  <2> QED
    BY <2>2, <2>3
<1> QED
  BY <1>3, <1>4

\* addSegment keeps to what was added last.
LEMMA AddingReads ==
  ASSUME NEW ad \in Seq(Header), NEW s \in Header, NEW segs \in Seq(ElfSegment),
         ImageReads(ad, segs), KeepTheirStart(Append(ad, s))
  PROVE  ImageReads(Append(ad, s), AddSegment(segs, SegmentOf(s)))
<1> DEFINE seg == SegmentOf(s)
           new == SegRange(seg)
           n == Len(ad)
           more == Append(ad, s)
           all == AddSegment(segs, seg)
           Adds(x) == \E p \in 1..Len(all) : all[p] = x
<1>1. /\ n \in Nat /\ Len(more) = n + 1 /\ more[n + 1] = s
      /\ \A k \in 1..n : more[k] = ad[k] /\ ad[k] \in Header /\ k \in 1..(n + 1)
      /\ n + 1 \in 1..(n + 1)
  OBVIOUS
<1>2. seg \in ElfSegment /\ \A i \in 1..Len(segs) : segs[i] \in ElfSegment
  BY SegmentOfHeader
<1>3. new.start \in Int /\ new.end \in Int /\ new.start < new.end /\ seg.addr = s.addr
  BY <1>2, RangeOfElfSegment DEF SegmentOf
<1>4. /\ \A p \in 1..Len(all) :
           all[p] = seg \/ \E i \in 1..Len(segs) : PieceOf(all[p], segs[i], new)
      /\ Adds(seg)
      /\ \A i \in 1..Len(segs) : \A x : PieceOf(x, segs[i], new) => Adds(x)
  BY <1>2, AddedAreThePieces
<1>5. \A a \in Int :
        /\ InRng(new, a) => Covering(more, a) # {} /\ LastByte(more, a) = ByteOf(seg, a)
        /\ ~InRng(new, a) =>
             Covering(more, a) = Covering(ad, a) /\ LastByte(more, a) = LastByte(ad, a)
  BY LastByteOfMore
<1>6. seg.bss => seg.len = 0
  BY DEF SegmentOf
<1>7. KeepTheirStart(more)
  OBVIOUS
<1> HIDE DEF seg, new, more, all
<1>8. ASSUME NEW i \in 1..Len(segs) PROVE MayCut(segs[i], new)
  <2>1. SUFFICES ASSUME Partial(segs[i]), segs[i].addr < new.end, new.end < SegRange(segs[i]).end
                 PROVE  FALSE
    BY DEF MayCut
  <2>2. PICK k \in 1..n : /\ Partial(SegmentOf(ad[k]))
                          /\ segs[i].addr = ad[k].addr
                          /\ SegRange(segs[i]).end <= SegRange(SegmentOf(ad[k])).end
    BY <2>1 DEF ImageReads
  <2>3. more[k] = ad[k] /\ k \in 1..Len(more) /\ n + 1 \in 1..Len(more) /\ k < n + 1
    BY <1>1
  <2>4. ~(ad[k].addr < new.end /\ new.end < SegRange(SegmentOf(ad[k])).end)
    BY <1>1, <1>7, <2>2, <2>3 DEF KeepTheirStart, new, seg
  <2>5. SegRange(SegmentOf(ad[k])).end \in Int /\ SegRange(segs[i]).end \in Int
    BY <1>1, <1>2, SegmentOfHeader, RangeOfElfSegment
  <2> QED
    BY <1>3, <2>1, <2>2, <2>4, <2>5
<1>9. ASSUME NEW i \in 1..Len(segs), NEW x, PieceOf(x, segs[i], new)
      PROVE  /\ x \in ElfSegment /\ ReadsAs(x, segs[i]) /\ Adds(x)
             /\ SegRange(x).end <= SegRange(segs[i]).end
             /\ \A a \in Int : InRng(SegRange(x), a) => InRng(SegRange(segs[i]), a) /\ ~InRng(new, a)
  <2> DEFINE old == segs[i]
             L == LeftOf(old, new)
  <2>1. old \in ElfSegment /\ MayCut(old, new)
    BY <1>2, <1>8
  <2> HIDE DEF old
  <2>2. /\ L.kept \in Seq(ElfSegment) /\ L.copy \in Seq(ElfSegment)
        /\ Len(L.kept) = 1 => Within(L.kept[1], old) /\ ~Shares(SegRange(L.kept[1]), new)
        /\ Len(L.copy) = 1 => Within(L.copy[1], old) /\ ~Shares(SegRange(L.copy[1]), new)
    BY <1>3, <2>1, LeftIsApart
  <2>3. (Len(L.kept) = 1 /\ x = L.kept[1]) \/ (Len(L.copy) = 1 /\ x = L.copy[1])
    BY <1>9 DEF PieceOf, old
  <2> HIDE DEF L
  <2>4. x \in ElfSegment /\ Within(x, old) /\ ~Shares(SegRange(x), new)
    BY <2>2, <2>3
  <2>5. /\ SegRange(x).start \in Int /\ SegRange(x).end \in Int
        /\ SegRange(old).start \in Int /\ SegRange(old).end \in Int
    BY <2>1, <2>4, RangeOfElfSegment
  <2>6. /\ SegRange(x).end <= SegRange(old).end
        /\ \A a \in Int : InRng(SegRange(x), a) => InRng(SegRange(old), a) /\ ~InRng(new, a)
    <3> DEFINE r == SegRange(x)
               o == SegRange(old)
    <3>1. /\ r.start \in Int /\ r.end \in Int /\ o.start \in Int /\ o.end \in Int
          /\ o.start <= r.start /\ r.end <= o.end /\ ~(r.start < new.end /\ new.start < r.end)
      BY <2>4, <2>5 DEF Within, Shares
    <3> HIDE DEF r, o
    <3>2. \A a \in Int : InRng(r, a) => InRng(o, a)
      BY <3>1 DEF InRng
    <3>3. \A a \in Int : InRng(r, a) => ~InRng(new, a)
      BY <1>3, <3>1 DEF InRng
    <3> QED
      BY <3>1, <3>2, <3>3 DEF r, o
  <2>7. ReadsAs(x, old)
    BY <1>3, <1>9, <2>1, PiecesKeepBytes DEF old
  <2> QED
    BY <1>4, <1>9, <2>4, <2>6, <2>7 DEF old
<1>10. ASSUME NEW p \in 1..Len(all), NEW a \in Int, InRng(SegRange(all[p]), a)
       PROVE  Covering(more, a) # {} /\ ByteOf(all[p], a) = LastByte(more, a)
  <2>1. CASE all[p] = seg
    BY <1>5, <1>10, <2>1 DEF new
  <2>2. CASE all[p] # seg
    <3>1. PICK i \in 1..Len(segs) : PieceOf(all[p], segs[i], new)
      BY <1>4, <2>2
    <3>2. InRng(SegRange(segs[i]), a) /\ ~InRng(new, a) /\ ByteOf(all[p], a) = ByteOf(segs[i], a)
      BY <1>9, <1>10, <3>1 DEF ReadsAs
    <3>3. Covering(ad, a) # {} /\ ByteOf(segs[i], a) = LastByte(ad, a)
      BY <3>2 DEF ImageReads
    <3> QED
      BY <1>5, <3>2, <3>3
  <2> QED
    BY <2>1, <2>2
<1>11. ASSUME NEW a \in Int, Covering(more, a) # {}
       PROVE  \E p \in 1..Len(all) : InRng(SegRange(all[p]), a)
  <2>1. CASE InRng(new, a)
    BY <1>4, <2>1 DEF new
  <2>2. CASE ~InRng(new, a)
    <3>1. Covering(ad, a) # {}
      BY <1>5, <1>11, <2>2
    <3>2. PICK i \in 1..Len(segs) : InRng(SegRange(segs[i]), a)
      BY <3>1 DEF ImageReads
    <3>3. segs[i] \in ElfSegment /\ MayCut(segs[i], new)
      BY <1>2, <1>8
    <3>4. PICK x : PieceOf(x, segs[i], new) /\ InRng(SegRange(x), a)
      BY <1>3, <2>2, <3>2, <3>3, PiecesKeepBytes
    <3>5. Adds(x)
      BY <1>4, <3>4
    <3> QED
      BY <3>4, <3>5
  <2> QED
    BY <2>1, <2>2
<1>12. ASSUME NEW p \in 1..Len(all), Partial(all[p])
       PROVE  \E k \in 1..Len(more) :
                /\ Partial(SegmentOf(more[k]))
                /\ all[p].addr = more[k].addr
                /\ SegRange(all[p]).end <= SegRange(SegmentOf(more[k])).end
  <2>1. CASE all[p] = seg
    <3>1. /\ Partial(SegmentOf(more[n + 1])) /\ all[p].addr = more[n + 1].addr
          /\ SegRange(all[p]) = SegRange(SegmentOf(more[n + 1]))
          /\ SegRange(all[p]).end \in Int /\ n + 1 \in 1..Len(more)
      BY <1>1, <1>2, <1>3, <1>12, <2>1, RangeOfElfSegment DEF seg
    <3> QED
      BY <3>1
  <2>2. CASE all[p] # seg
    <3>1. PICK i \in 1..Len(segs) : PieceOf(all[p], segs[i], new)
      BY <1>4, <2>2
    <3>2. /\ Partial(segs[i]) /\ all[p].addr = segs[i].addr
          /\ SegRange(all[p]).end <= SegRange(segs[i]).end
          /\ SegRange(all[p]).end \in Int /\ SegRange(segs[i]).end \in Int
      BY <1>2, <1>9, <1>12, <3>1, RangeOfElfSegment DEF ReadsAs
    <3>3. PICK k \in 1..n : /\ Partial(SegmentOf(ad[k]))
                            /\ segs[i].addr = ad[k].addr
                            /\ SegRange(segs[i]).end <= SegRange(SegmentOf(ad[k])).end
      BY <3>2 DEF ImageReads
    <3>4. SegRange(SegmentOf(ad[k])).end \in Int
      BY <1>1, SegmentOfHeader, RangeOfElfSegment
    <3>5. SegRange(all[p]).end <= SegRange(SegmentOf(ad[k])).end
      BY <3>2, <3>3, <3>4
    <3> QED
      BY <1>1, <3>2, <3>3, <3>5
  <2> QED
    BY <2>1, <2>2
<1>13. ASSUME NEW p \in 1..Len(all), all[p].bss PROVE all[p].len = 0
  <2>1. CASE all[p] = seg
    BY <1>6, <1>13, <2>1
  <2>2. CASE all[p] # seg
    <3>1. PICK i \in 1..Len(segs) : PieceOf(all[p], segs[i], new)
      BY <1>4, <2>2
    <3> QED
      BY <1>9, <1>13, <3>1 DEF ReadsAs, ImageReads
  <2> QED
    BY <2>1, <2>2
<1>14. ImageReads(more, all)
  BY <1>10, <1>11, <1>12, <1>13 DEF ImageReads
<1> QED
  BY <1>14 DEF more, all, seg

\* Sorting changes no byte.
LEMMA SortingReads ==
  ASSUME NEW ad, NEW segs \in Seq(ElfSegment), ImageReads(ad, segs)
  PROVE  ImageReads(ad, SortSegments(segs))
<1> DEFINE n == Len(segs)
           sorted == SortSegments(segs)
<1>1. n \in Nat /\ \A i \in 1..n : segs[i].addr \in Int
  BY RangeOfElfSegment
<1>2. /\ Cardinality(1..n) = n
      /\ \E place : IsSorting(sorted, segs, 1..n, place)
  BY <1>1, SortAllSorts
<1>3. PICK place : IsSorting(sorted, segs, 1..n, place)
  BY <1>2
<1> HIDE DEF sorted
<1>4. /\ place \in [1..n -> 1..n] /\ sorted = [k \in 1..n |-> segs[place[k]]]
      /\ \A i \in 1..n : \E k \in 1..n : place[k] = i
  BY <1>2, <1>3 DEF IsSorting
<1>5. /\ Len(sorted) = n
      /\ \A k \in 1..n : place[k] \in 1..n /\ sorted[k] = segs[place[k]]
      /\ \A i \in 1..n : \E k \in 1..n : sorted[k] = segs[i]
  <2>1. \A k \in 1..n : place[k] \in 1..n /\ sorted[k] = segs[place[k]]
    BY <1>4
  <2>2. Len(sorted) = n
    BY <1>1, <1>4
  <2>3. \A i \in 1..n : \E k \in 1..n : sorted[k] = segs[i]
    BY <1>4, <2>1
  <2> QED
    BY <2>1, <2>2, <2>3
<1>6. ASSUME NEW a \in Int, Covering(ad, a) # {}
      PROVE  \E k \in 1..n : InRng(SegRange(sorted[k]), a)
  <2>1. PICK i \in 1..n : InRng(SegRange(segs[i]), a)
    BY <1>6 DEF ImageReads
  <2>2. PICK k \in 1..n : sorted[k] = segs[i]
    BY <1>5
  <2> QED
    BY <2>1, <2>2
<1>7. ASSUME NEW k \in 1..n
      PROVE  /\ \A a \in Int : InRng(SegRange(sorted[k]), a) =>
                  Covering(ad, a) # {} /\ ByteOf(sorted[k], a) = LastByte(ad, a)
             /\ Partial(sorted[k]) =>
                  \E l \in 1..Len(ad) :
                    /\ Partial(SegmentOf(ad[l])) /\ sorted[k].addr = ad[l].addr
                    /\ SegRange(sorted[k]).end <= SegRange(SegmentOf(ad[l])).end
             /\ sorted[k].bss => sorted[k].len = 0
  <2>1. PICK i \in 1..n : sorted[k] = segs[i]
    BY <1>5
  <2> QED
    BY <2>1 DEF ImageReads
<1>8. ImageReads(ad, sorted)
  BY <1>5, <1>6, <1>7 DEF ImageReads
<1> QED
  BY <1>8 DEF sorted

-----------------------------------------------------------------------------
\* Every address is read as it was added last, while segments are added.
LEMMA LookupReads ==
  ASSUME NEW ad, NEW segs, Len(segs) \in Nat, ImageReads(ad, segs), NEW a \in Int
  PROVE  ByteAt(segs, a) = LastByte(ad, a)
<1> DEFINE hits == {i \in 1..Len(segs) : InRng(SegRange(segs[i]), a)}
<1>1. ByteAt(segs, a) = IF hits = {} THEN Unreadable ELSE ByteOf(segs[Min(hits)], a)
  BY DEF ByteAt
<1>2. CASE hits = {}
  <2>1. Covering(ad, a) = {}
    BY <1>2 DEF ImageReads
  <2> QED
    BY <1>1, <1>2, <2>1 DEF LastByte
<1>3. CASE hits # {}
  <2>1. hits \in SUBSET Nat
    OBVIOUS
  <2>2. Min(hits) \in hits
    BY <1>3, <2>1, LeastElement
  <2> QED
    BY <1>1, <1>3, <2>2 DEF ImageReads
<1> QED
  BY <1>2, <1>3

\* The finished image: an address that could not be read may read as zero.
ImageIs(ad, segs) ==
  \A a \in Int :
    \/ ByteAt(segs, a) = LastByte(ad, a)
    \/ LastByte(ad, a) = Unreadable /\ ByteAt(segs, a) = Zero

\* A BSS segment that was resized.
LEMMA ResizedReads ==
  ASSUME NEW seg \in ElfSegment, seg.size = 0, seg.len = 0, NEW size \in Int,
         NEW a \in Int, InRng(SegRange(SegResize(seg, size)), a)
  PROVE  /\ ByteOf(SegResize(seg, size), a) \in {Zero, Unreadable}
         /\ seg.addr <= a
<1> DEFINE new == SegResize(seg, size)
           len == Min({0, size})
<1>1. len \in Int /\ len <= 0
  BY LeastAndGreatest
<1>2. new = [seg EXCEPT !.size = size, !.len = len]
  BY DEF SegResize
<1> HIDE DEF len
<1>3. new.addr = seg.addr /\ new.size = size /\ new.len = len /\ seg.addr \in Nat
  BY <1>2 DEF ElfSegment
<1> HIDE DEF new
<1>4. InRng(SegRange(new), a)
  BY DEF new
<1>5. seg.addr <= a
  BY <1>3, <1>4 DEF InRng, SegRange, Rng
<1>6. a - seg.addr \in Nat /\ ~(a - seg.addr < len)
  BY <1>1, <1>3, <1>5
<1>7. ByteOf(new, a) \in {Zero, Unreadable}
  BY <1>3, <1>6 DEF ByteOf
<1> QED
  BY <1>5, <1>7 DEF new

\* fixBssSegments leaves a segment as it is or resizes an empty BSS segment.
LEMMA FixedOrResized ==
  ASSUME NEW f \in ElfFiles, NEW sorted \in Seq(ElfSegment), NEW i \in 1..Len(sorted)
  PROVE  \/ FixedBss(f, sorted, i) = sorted[i]
         \/ /\ sorted[i].bss /\ sorted[i].size = 0
            /\ \E size \in Int : FixedBss(f, sorted, i) = SegResize(sorted[i], size)
<1> DEFINE seg == sorted[i]
           holds == {k \in 1..Len(f.phdrs) :
                       InRng(Rng(f.phdrs[k].addr,
                                 EndOf(f.phdrs[k].addr,
                                       Max({f.phdrs[k].mem, f.phdrs[k].len}))),
                             seg.addr)}
           ph == f.phdrs[Max(holds)]
           size == (IF i < Len(sorted) THEN sorted[i + 1].addr ELSE ph.addr + ph.mem) - seg.addr
<1>1. FixedBss(f, sorted, i) =
        IF ~seg.bss \/ seg.size # 0 \/ (i = Len(sorted) /\ holds = {}) THEN seg
        ELSE SegResize(seg, size)
  BY DEF FixedBss
<1>2. SUFFICES ASSUME seg.bss, seg.size = 0, ~(i = Len(sorted) /\ holds = {})
               PROVE  size \in Int
  BY <1>1
<1>3. seg \in ElfSegment /\ Len(sorted) \in Nat /\ seg.addr \in Nat
  BY RangeOfElfSegment
<1>4. CASE i < Len(sorted)
  <2>1. i + 1 \in 1..Len(sorted)
    BY <1>3, <1>4
  <2>2. sorted[i + 1].addr \in Nat
    BY <2>1, RangeOfElfSegment
  <2> QED
    BY <1>3, <1>4, <2>2
<1>5. CASE ~(i < Len(sorted))
  <2>1. holds # {}
    BY <1>2, <1>3, <1>5
  <2>2. f.phdrs \in Seq(Header) /\ Len(f.phdrs) \in Nat
    BY ElfAssumption
  <2>3. holds \in SUBSET (1..Len(f.phdrs))
    OBVIOUS
  <2> HIDE DEF holds
  <2>4. Max(holds) \in 1..Len(f.phdrs)
    BY <2>1, <2>2, <2>3, GreatestPlace
  <2>5. ph \in Header
    BY <2>2, <2>4
  <2>6. ph.addr \in Nat /\ ph.mem \in Nat
    BY <2>5 DEF Header
  <2> QED
    BY <1>3, <1>5, <2>6
<1> QED
  BY <1>4, <1>5

\* Growing the empty BSS segments of the sorted vector shows zeroes only where
\* nothing could be read.
LEMMA GrowingReads ==
  ASSUME NEW f \in ElfFiles, NEW ad, NEW sorted, Apart(sorted),
         \A k, l \in 1..Len(sorted) : k < l => sorted[k].addr <= sorted[l].addr,
         ImageReads(ad, sorted),
         NEW done, done = [i \in 1..Len(sorted) |-> FixedBss(f, sorted, i)]
  PROVE  ImageIs(ad, done)
<1> DEFINE n == Len(sorted)
<1>1. n \in Nat /\ sorted \in Seq(ElfSegment) /\ \A i \in 1..n : sorted[i] \in ElfSegment
  BY DEF Apart
<1>2. Len(done) = n /\ \A i \in 1..n : done[i] = FixedBss(f, sorted, i)
  BY <1>1
<1>3. /\ \A i, j \in 1..n : i < j => SegRange(sorted[i]).end <= sorted[j].addr
      /\ \A i \in 1..n : i < n =>
           SegRange(done[i]).end \in Int /\ SegRange(done[i]).end <= sorted[i + 1].addr
  BY <1>2, GrowingFillsGaps
<1>4. \A i \in 1..n :
        /\ SegRange(sorted[i]).start = sorted[i].addr /\ SegRange(sorted[i]).end \in Int
        /\ SegRange(sorted[i]).end = EndOf(sorted[i].addr, sorted[i].size)
        /\ sorted[i].addr \in Nat /\ sorted[i].size \in Nat
  BY <1>1, RangeOfElfSegment
<1>5. ASSUME NEW i \in 1..n, sorted[i].size = 0, NEW a \in Int, InRng(SegRange(sorted[i]), a)
      PROVE  LastByte(ad, a) = Unreadable
  <2>1. a = sorted[i].addr
    BY <1>4, <1>5 DEF InRng, EndOf
  <2>2. a - sorted[i].addr >= sorted[i].size
    BY <1>4, <1>5, <2>1
  <2>3. ByteOf(sorted[i], a) = Unreadable
    BY <2>2 DEF ByteOf
  <2> QED
    BY <1>5, <2>3 DEF ImageReads
<1>6. ASSUME NEW i \in 1..n, done[i] # sorted[i]
      PROVE  /\ sorted[i].size = 0 /\ sorted[i].len = 0
             /\ \E size \in Int : done[i] = SegResize(sorted[i], size)
  <2>1. /\ sorted[i].bss /\ sorted[i].size = 0
        /\ \E size \in Int : FixedBss(f, sorted, i) = SegResize(sorted[i], size)
    BY <1>1, <1>2, <1>6, FixedOrResized
  <2> QED
    BY <1>2, <2>1 DEF ImageReads
<1>7. ASSUME NEW i \in 1..n, done[i] # sorted[i], NEW a \in Int, InRng(SegRange(done[i]), a)
      PROVE  ByteOf(done[i], a) \in {Zero, Unreadable} /\ LastByte(ad, a) = Unreadable
  <2>1. PICK size \in Int : done[i] = SegResize(sorted[i], size)
    BY <1>6, <1>7
  <2>2. ByteOf(done[i], a) \in {Zero, Unreadable} /\ sorted[i].addr <= a
    BY <1>1, <1>6, <1>7, <2>1, ResizedReads
  <2>3. CASE Covering(ad, a) = {}
    BY <2>2, <2>3 DEF LastByte
  <2>4. CASE Covering(ad, a) # {}
    <3>1. PICK j \in 1..n : InRng(SegRange(sorted[j]), a)
      BY <2>4 DEF ImageReads
    <3>2. sorted[j].addr <= a /\ a < SegRange(sorted[j]).end
      BY <1>4, <3>1 DEF InRng
    <3>3. ~(j < i)
      BY <1>3, <1>4, <2>2, <3>2
    <3>4. ASSUME i < j PROVE FALSE
      <4>1. i < n /\ i + 1 \in 1..n /\ (i + 1 = j \/ i + 1 < j)
        BY <1>1, <3>4
      <4>2. SegRange(done[i]).end \in Int /\ SegRange(done[i]).end <= sorted[i + 1].addr
        BY <1>3, <4>1
      <4>3. sorted[i + 1].addr <= sorted[j].addr /\ sorted[i + 1].addr \in Nat /\ sorted[j].addr \in Nat
        BY <1>4, <4>1
      <4>4. a < SegRange(done[i]).end
        BY <1>7 DEF InRng
      <4> QED
        BY <3>2, <4>2, <4>3, <4>4
    <3>5. j = i
      BY <3>3, <3>4
    <3>6. LastByte(ad, a) = Unreadable
      BY <1>5, <1>6, <1>7, <3>1, <3>5
    <3> QED
      BY <2>2, <3>6
  <2> QED
    BY <2>3, <2>4
<1>8. ASSUME NEW a \in Int
      PROVE  \/ ByteAt(done, a) = LastByte(ad, a)
             \/ LastByte(ad, a) = Unreadable /\ ByteAt(done, a) = Zero
  <2> DEFINE hits == {i \in 1..Len(done) : InRng(SegRange(done[i]), a)}
  <2>1. ByteAt(done, a) = IF hits = {} THEN Unreadable ELSE ByteOf(done[Min(hits)], a)
    BY DEF ByteAt
  <2>2. CASE hits = {}
    <3>1. CASE Covering(ad, a) = {}
      BY <2>1, <2>2, <3>1 DEF LastByte
    <3>2. CASE Covering(ad, a) # {}
      <4>1. PICK j \in 1..n : InRng(SegRange(sorted[j]), a)
        BY <3>2 DEF ImageReads
      <4>2. ~InRng(SegRange(done[j]), a)
        BY <1>2, <2>2
      <4>3. done[j] # sorted[j]
        BY <4>1, <4>2
      <4>4. LastByte(ad, a) = Unreadable
        BY <1>5, <1>6, <4>1, <4>3
      <4> QED
        BY <2>1, <2>2, <4>4
    <3> QED
      BY <3>1, <3>2
  <2>3. CASE hits # {}
    <3>1. hits \in SUBSET Nat
      OBVIOUS
    <3>2. Min(hits) \in hits
      BY <2>3, <3>1, LeastElement
    <3>3. PICK i : i = Min(hits)
      OBVIOUS
    <3>4. i \in 1..n /\ InRng(SegRange(done[i]), a) /\ ByteAt(done, a) = ByteOf(done[i], a)
      BY <1>2, <2>1, <2>3, <3>2, <3>3
    <3>5. CASE done[i] = sorted[i]
      BY <3>4, <3>5 DEF ImageReads
    <3>6. CASE done[i] # sorted[i]
      BY <1>7, <3>4, <3>6
    <3> QED
      BY <3>5, <3>6
  <2> QED
    BY <2>2, <2>3
<1> QED
  BY <1>8 DEF ImageIs

-----------------------------------------------------------------------------
\* A header of the file or a section that is mapped to one.
OfHeader(f, s) == \E j \in 1..Len(f.phdrs) : s = f.phdrs[j] \/ MappedTo(s, f.phdrs[j])

\* Nothing that was added ends within a segment of which only the first bytes are in
\* the file: SegmentDataSource::shrink would refuse to move its window.
PartialsKeepTheirStart == KeepTheirStart(added)

\* What the segments read as, and where they come from.
BytesInv ==
  /\ added \in Seq(Header)
  /\ \A k \in 1..Len(added) : OfHeader(file, added[k])
  /\ phase = "load" =>
       \A k \in 1..Len(file.phdrs) : \A p \in 1..Len(table[k]) : MappedTo(table[k][p], file.phdrs[k])
  /\ KeepTheirStart(added) =>
       /\ phase \in {"table", "load"} => ImageReads(added, segments)
       /\ phase = "done" => ImageIs(added, segments)

\* What holds of all that was added held before the last one was.
LEMMA KeptTheirStart ==
  ASSUME NEW ad \in Seq(Header), NEW s, KeepTheirStart(Append(ad, s))
  PROVE  KeepTheirStart(ad)
<1> DEFINE more == Append(ad, s)
<1>1. \A k \in 1..Len(ad) : k \in 1..Len(more) /\ more[k] = ad[k]
  OBVIOUS
<1>2. KeepTheirStart(more)
  OBVIOUS
<1> HIDE DEF more
<1> QED
  BY <1>1, <1>2 DEF KeepTheirStart

\* Each addSegment of the loops.
LEMMA AddBytes ==
  ASSUME ElfInv, BytesInv, phase = "load", NEW s \in Header, OfHeader(file, s),
         Add(s), UNCHANGED <<file, table, phase>>
  PROVE  BytesInv'
<1>1. /\ segments' = AddSegment(segments, SegmentOf(s)) /\ added' = Append(added, s)
      /\ added \in Seq(Header) /\ segments \in Seq(ElfSegment)
      /\ file' = file /\ table' = table /\ phase' = "load"
  BY DEF Add, BytesInv, ElfInv, Apart
<1>2. ASSUME KeepTheirStart(Append(added, s))
      PROVE  ImageReads(Append(added, s), AddSegment(segments, SegmentOf(s)))
  <2>1. ImageReads(added, segments)
    BY <1>1, <1>2, KeptTheirStart DEF BytesInv
  <2> QED
    BY <1>1, <1>2, <2>1, AddingReads
<1>3. added' \in Seq(Header) /\ \A k \in 1..Len(added') : OfHeader(file, added'[k])
  <2>1. /\ added' \in Seq(Header) /\ Len(added') = Len(added) + 1 /\ added'[Len(added) + 1] = s
        /\ \A k \in 1..Len(added) : added'[k] = added[k]
        /\ Len(added) \in Nat
    BY <1>1
  <2>2. \A k \in 1..Len(added') : k \in 1..Len(added) \/ k = Len(added) + 1
    BY <2>1
  <2> QED
    BY <2>1, <2>2 DEF BytesInv
<1> QED
  BY <1>1, <1>2, <1>3 DEF BytesInv

\* The invariant is inductive.
THEOREM BytesInvariance == ElfSpec => []BytesInv
<1>1. ElfInit => BytesInv
  <2> SUFFICES ASSUME ElfInit PROVE BytesInv
    OBVIOUS
  <2>1. added = <<>> /\ segments = <<>> /\ phase = "table"
    BY DEF ElfInit
  <2>2. ImageReads(<<>>, <<>>)
    BY DEF ImageReads, Covering
  <2> QED
    BY <2>1, <2>2 DEF BytesInv
<1>2. ElfInv /\ BytesInv /\ [ElfNext]_elfVars => BytesInv'
  <2> SUFFICES ASSUME ElfInv, BytesInv, [ElfNext]_elfVars PROVE BytesInv'
    OBVIOUS
  <2>1. file.phdrs \in Seq(Header) /\ Len(file.phdrs) \in Nat /\ file \in ElfFiles
    BY ElfAssumption DEF ElfInv
  <2>2. CASE CreateTable
    <3>1. /\ phase = "table" /\ phase' = "load" /\ file' = file /\ segments' = segments
          /\ added' = added
          /\ table' = [k \in 1..Len(file.phdrs) |-> SectionsOf(file, file.phdrs[k])]
      BY <2>2 DEF CreateTable
    <3>2. ASSUME NEW k \in 1..Len(file.phdrs)
          PROVE  \A p \in 1..Len(table'[k]) : MappedTo(table'[k][p], file.phdrs[k])
      <4>1. table'[k] = SectionsOf(file, file.phdrs[k])
        BY <3>1
      <4>2. \A p \in 1..Len(SectionsOf(file, file.phdrs[k])) :
              MappedTo(SectionsOf(file, file.phdrs[k])[p], file.phdrs[k])
        BY <2>1, SectionsAreHeaders
      <4> QED
        BY <4>1, <4>2
    <3> QED
      BY <3>1, <3>2 DEF BytesInv
  <2>3. CASE SkipHeader
    BY <2>3 DEF SkipHeader, BytesInv
  <2>4. CASE LoadHeader
    <3>1. /\ phase = "load" /\ Add(file.phdrs[pos[1]]) /\ UNCHANGED <<file, table, phase>>
          /\ pos[1] \in 1..Len(file.phdrs)
      BY <2>1, <2>4 DEF LoadHeader, ElfInv
    <3>2. file.phdrs[pos[1]] \in Header /\ OfHeader(file, file.phdrs[pos[1]])
      BY <2>1, <3>1 DEF OfHeader
    <3> QED
      BY <3>1, <3>2, AddBytes
  <2>5. CASE LoadSection
    <3>1. /\ phase = "load" /\ Add(table[pos[1]][pos[2]]) /\ UNCHANGED <<file, table, phase>>
      BY <2>5 DEF LoadSection
    <3>2. /\ pos[1] \in 1..Len(file.phdrs) /\ pos[2] \in 1..Len(table[pos[1]])
          /\ table[pos[1]][pos[2]] \in Header
      BY <2>5, LoadsASection
    <3>3. MappedTo(table[pos[1]][pos[2]], file.phdrs[pos[1]])
      BY <3>1, <3>2 DEF BytesInv
    <3>4. OfHeader(file, table[pos[1]][pos[2]])
      BY <3>2, <3>3 DEF OfHeader
    <3> QED
      BY <3>1, <3>2, <3>4, AddBytes
  <2>6. CASE SortAndFix
    <3> DEFINE sorted == SortSegments(segments)
    <3>1. /\ phase = "load" /\ phase' = "done" /\ file' = file /\ added' = added /\ Apart(segments)
          /\ segments' = [i \in 1..Len(sorted) |-> FixedBss(file, sorted, i)]
      BY <2>6 DEF SortAndFix, ElfInv
    <3>2. /\ Apart(sorted)
          /\ \A k, l \in 1..Len(sorted) : k < l => sorted[k].addr <= sorted[l].addr
      BY <3>1, SortingKeepsApart
    <3>3. ASSUME KeepTheirStart(added) PROVE ImageIs(added, segments')
      <4>1. ImageReads(added, segments) /\ segments \in Seq(ElfSegment)
        BY <3>1, <3>3 DEF BytesInv, Apart
      <4>2. ImageReads(added, sorted)
        BY <4>1, SortingReads
      <4> HIDE DEF sorted
      <4> QED
        BY <2>1, <3>1, <3>2, <4>2, GrowingReads
    <3> QED
      BY <3>1, <3>3 DEF BytesInv
  <2>7. CASE Loaded \/ UNCHANGED elfVars
    <3>1. UNCHANGED elfVars
      BY <2>7 DEF Loaded
    <3> QED
      BY <3>1 DEF elfVars, BytesInv
  <2> QED
    BY <2>2, <2>3, <2>4, <2>5, <2>6, <2>7 DEF ElfNext
<1> QED
  BY <1>1, <1>2, ElfInvariance, PTL DEF ElfSpec

\* Every address of the image reads as BytesInv says, added or finished.
LEMMA ImageReadsTheLast ==
  ASSUME ElfInv, BytesInv, PartialsKeepTheirStart, NEW a \in Int
  PROVE  \/ ByteAt(segments, a) = Expected(a)
         \/ phase = "done" /\ Expected(a) = Unreadable /\ ByteAt(segments, a) = Zero
<1>1. Expected(a) = LastByte(added, a)
  BY DEF Expected, LastAdded, LastByte, Covering
<1>2. CASE phase = "done"
  BY <1>1, <1>2 DEF BytesInv, PartialsKeepTheirStart, ImageIs
<1>3. CASE phase # "done"
  <2>1. ImageReads(added, segments) /\ Len(segments) \in Nat
    BY <1>3 DEF ElfInv, BytesInv, PartialsKeepTheirStart, Apart
  <2> QED
    BY <1>1, <2>1, LookupReads
<1> QED
  BY <1>2, <1>3

\* The addresses of the properties are numbers.
LEMMA AddressesAreInt ==
  ASSUME BytesInv
  PROVE  \A a \in Addresses : a \in Int
<1>1. SUFFICES ASSUME NEW k \in 1..Len(added)
               PROVE  /\ SegRange(SegmentOf(added[k])).start \in Int
                      /\ SegRange(SegmentOf(added[k])).end \in Int
  BY DEF Addresses
<1>2. added[k] \in Header
  BY DEF BytesInv
<1> QED
  BY <1>2, SegmentOfHeader, RangeOfElfSegment

\* As long as nothing ends within a segment of which only the first bytes are in the
\* file, cutting, splitting, sorting and growing never show another byte than the
\* one of the last section or header that covers the address.
THEOREM ElfReadsTheLastLoaded ==
  ElfSpec => [](PartialsKeepTheirStart => BytesAreTheLastLoaded)
<1>1. ElfInv /\ BytesInv => (PartialsKeepTheirStart => BytesAreTheLastLoaded)
  BY ImageReadsTheLast, AddressesAreInt DEF BytesAreTheLastLoaded
<1> QED
  BY <1>1, ElfInvariance, BytesInvariance, PTL

\* Under the same condition a byte of the finished image that comes from the file is
\* one that the kernel would map there, although sections were loaded for headers.
THEOREM ElfAgreesWithKernel ==
  ElfSpec => [](PartialsKeepTheirStart => AgreesWithKernel)
<1>1. ASSUME ElfInv, BytesInv, PartialsKeepTheirStart, NEW a \in Int, ByteAt(segments, a) >= 0
      PROVE  ByteAt(segments, a) \in KernelBytes(a)
  <2>1. ByteAt(segments, a) = Expected(a) /\ Expected(a) >= 0
    BY <1>1, ImageReadsTheLast DEF Zero
  <2>2. LastAdded(a) # {}
    BY <2>1 DEF Expected, Unreadable
  <2> DEFINE k == Max(LastAdded(a))
  <2>3. added \in Seq(Header) /\ Len(added) \in Nat
    BY <1>1 DEF BytesInv
  <2>4. LastAdded(a) \in SUBSET (1..Len(added))
    BY DEF LastAdded
  <2>5. k \in LastAdded(a)
    BY <2>2, <2>3, <2>4, GreatestPlace
  <2>6. Expected(a) = ByteOf(SegmentOf(added[k]), a)
    BY <2>2 DEF Expected
  <2> HIDE DEF k
  <2>7. k \in 1..Len(added) /\ InRng(SegRange(SegmentOf(added[k])), a)
    BY <2>5 DEF LastAdded
  <2> DEFINE s == added[k]
             seg == SegmentOf(s)
  <2>8. s \in Header /\ seg \in ElfSegment
    BY <2>3, <2>7, SegmentOfHeader
  <2>9. OfHeader(file, s)
    BY <1>1, <2>7 DEF BytesInv
  <2> HIDE DEF s
  <2>10. /\ s.addr \in Nat /\ s.off \in Nat /\ s.len \in Nat /\ seg.len \in Nat /\ seg.addr = s.addr
         /\ seg.off = s.off /\ seg.len = IF s.kind = "nobits" THEN 0 ELSE s.len
    BY <2>8 DEF Header, SegmentOf
  <2> HIDE DEF seg
  <2>11. /\ a - s.addr < seg.len /\ Expected(a) = s.off + (a - s.addr)
    BY <2>1, <2>6, <2>10 DEF ByteOf, Zero, Unreadable, s, seg
  <2>12. s.addr <= a
    BY <2>7, <2>8, <2>10, RangeOfElfSegment DEF InRng, s, seg
  <2>13. s.kind # "nobits" /\ a - s.addr < s.len
    BY <2>10, <2>11, <2>12
  <2>14. PICK j \in 1..Len(file.phdrs) : s = file.phdrs[j] \/ MappedTo(s, file.phdrs[j])
    BY <2>9 DEF OfHeader
  <2> DEFINE ph == file.phdrs[j]
  <2>15. ph.addr \in Nat /\ ph.off \in Nat /\ ph.len \in Nat
    <3>1. ph \in Header
      BY <1>1, <2>14, ElfAssumption DEF ElfInv
    <3> QED
      BY <3>1 DEF Header
  <2>16. s = ph \/ MappedTo(s, ph)
    BY <2>14
  <2> HIDE DEF ph
  <2>17. /\ ph.addr <= a /\ a < ph.addr + ph.len
         /\ Expected(a) = ph.off + (a - ph.addr)
    <3>1. CASE s = ph
      BY <2>10, <2>11, <2>12, <2>13, <3>1
    <3>2. CASE MappedTo(s, ph)
      <4>1. /\ s.off >= ph.off /\ s.off + s.len <= ph.off + ph.len
            /\ ph.addr - s.addr = ph.off - s.off
        BY <2>13, <3>2 DEF MappedTo
      <4> DEFINE u == ph.addr
                 v == s.addr
                 x == ph.off
                 y == s.off
                 l == ph.len
                 m == s.len
      <4>2. /\ u \in Int /\ v \in Int /\ x \in Int /\ y \in Int /\ l \in Int /\ m \in Int
            /\ u - v = x - y /\ y >= x /\ y + m <= x + l /\ v <= a /\ a - v < m
            /\ Expected(a) = y + (a - v)
        <5>1. /\ u \in Int /\ v \in Int /\ x \in Int /\ y \in Int /\ l \in Int /\ m \in Int
          BY <2>10, <2>15
        <5>2. u - v = x - y /\ y >= x /\ y + m <= x + l
          BY <4>1
        <5>3. v <= a /\ a - v < m /\ Expected(a) = y + (a - v)
          BY <2>11, <2>12, <2>13
        <5> QED
          BY <5>1, <5>2, <5>3
      <4> HIDE DEF u, v, x, y, l, m
      <4>3. u <= a /\ a < u + l /\ y + (a - v) = x + (a - u)
        BY <4>2
      <4>4. u <= a /\ a < u + l /\ Expected(a) = x + (a - u)
        BY <4>2, <4>3
      <4> QED
        BY <4>4 DEF u, x, l
    <3> QED
      BY <2>16, <3>1, <3>2
  <2>18. InRng(Rng(ph.addr, ph.addr + ph.len), a)
    BY <2>17 DEF InRng, Rng
  <2>19. Expected(a) \in KernelBytes(a)
    BY <2>14, <2>17, <2>18 DEF KernelBytes, ph
  <2> QED
    BY <2>1, <2>19
<1>2. ElfInv /\ BytesInv => (PartialsKeepTheirStart => AgreesWithKernel)
  BY <1>1, AddressesAreInt DEF AgreesWithKernel
<1> QED
  BY <1>2, ElfInvariance, BytesInvariance, PTL
=============================================================================
