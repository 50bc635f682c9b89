-------------------------- MODULE DecoderIrProofs --------------------------
(***************************************************************************)
(* What the operations of DecoderIr do to a module: the structure of its   *)
(* functions and blocks, and the layout of its code, which the decoder and *)
(* the patterns after it keep.                                             *)
(***************************************************************************)
EXTENDS DecoderIr, FiniteSetTheorems, SequenceTheorems, NaturalsInduction,
        WellFoundedInduction, TLAPS

\* Min finds the least element of a non-empty set of naturals.
LEMMA MinOfNats ==
  ASSUME NEW S \in SUBSET Nat, S # {}
  PROVE  Min(S) \in S /\ \A x \in S : Min(S) <= x
<1>1. PICK m \in S : \A y \in S : ~(<<y, m>> \in OpToRel(<, Nat))
  BY NatLessThanWellFounded, WFMin
<1>2. \A y \in S : m <= y
  <2>1. SUFFICES ASSUME NEW y \in S, y < m PROVE FALSE
    OBVIOUS
  <2>2. <<y, m>> \in Nat \X Nat /\ <<y, m>>[1] = y /\ <<y, m>>[2] = m
    OBVIOUS
  <2>3. <<y, m>> \in OpToRel(<, Nat)
    BY <2>1, <2>2, Zenon DEF OpToRel
  <2> QED
    BY <1>1, <2>3
<1> QED
  BY <1>2 DEF Min

-----------------------------------------------------------------------------
(* Block lists *)

\* s is a list of blocks for the function at f: addresses, none twice, and the
\* first is f.
BlockList(f, s) ==
  /\ s \in Seq(Nat)
  /\ \A i, j \in 1..Len(s) : s[i] = s[j] => i = j
  /\ s # <<>> => s[1] = f

\* Every function has such a list, and no two have a block in common.
ListsOk(fncs) ==
  /\ \A f \in DOMAIN fncs : f \in Nat /\ BlockList(f, fncs[f])
  /\ \A f, h \in DOMAIN fncs : f # h => ToSet(fncs[f]) \cap ToSet(fncs[h]) = {}

\* Max finds the greatest element of a set of naturals with a bound.
LEMMA MaxOfNats ==
  ASSUME NEW a \in Nat, NEW S \in SUBSET Nat, S # {}, \A x \in S : x <= a
  PROVE  Max(S) \in S /\ \A x \in S : x <= Max(S)
<1> DEFINE bounds == {n \in Nat : \A x \in S : x <= n}
<1>1. bounds \in SUBSET Nat /\ bounds # {}
  OBVIOUS
<1>2. PICK m \in bounds : \A n \in bounds : m <= n
  BY <1>1, MinOfNats
<1>3. m \in S
  <2> SUFFICES ASSUME m \notin S PROVE FALSE
    OBVIOUS
  <2>1. PICK x \in S : TRUE
    OBVIOUS
  <2>2. m - 1 \in bounds
    BY <1>2, <2>1
  <2> QED
    BY <1>2, <2>2
<1> QED
  BY <1>2, <1>3 DEF Max

\* The elements of a list, by their positions.
LEMMA ElementsOfList ==
  ASSUME NEW s \in Seq(Nat), NEW b
  PROVE  b \in ToSet(s) <=> \E i \in 1..Len(s) : s[i] = b
BY DEF ToSet

\* The blocks of the module are those in its lists, and have addresses.
LEMMA BlocksOfLists ==
  ASSUME NEW g, ListsOk(g.fncs), NEW b
  PROVE  /\ b \in Blocks(g) <=> \E f \in DOMAIN g.fncs : b \in ToSet(g.fncs[f])
         /\ b \in Blocks(g) => b \in Nat
<1>1. \A f \in DOMAIN g.fncs : b \in ToSet(g.fncs[f]) => b \in Nat
  BY ElementsOfList DEF ListsOk, BlockList
<1> QED
  BY <1>1 DEF Blocks

\* The function of a block is the one in whose list it is.
LEMMA FunctionOfBlock ==
  ASSUME NEW g, ListsOk(g.fncs), NEW b, b \in Blocks(g)
  PROVE  /\ FncOf(g, b) \in DOMAIN g.fncs /\ b \in ToSet(g.fncs[FncOf(g, b)])
         /\ \A f \in DOMAIN g.fncs : b \in ToSet(g.fncs[f]) => f = FncOf(g, b)
<1>1. \E f \in DOMAIN g.fncs : b \in ToSet(g.fncs[f])
  BY BlocksOfLists
<1>2. FncOf(g, b) \in DOMAIN g.fncs /\ b \in ToSet(g.fncs[FncOf(g, b)])
  BY <1>1, Zenon DEF FncOf
<1> QED
  BY <1>2 DEF ListsOk

\* The elements of two lists, one behind the other.
LEMMA JoinedLists ==
  ASSUME NEW u \in Seq(Nat), NEW v \in Seq(Nat)
  PROVE  /\ u \o v \in Seq(Nat) /\ Len(u \o v) = Len(u) + Len(v)
         /\ \A i \in 1..Len(u) : (u \o v)[i] = u[i]
         /\ \A i \in (Len(u) + 1)..(Len(u) + Len(v)) : (u \o v)[i] = v[i - Len(u)]
OBVIOUS

\* The positions of a list with b behind its first n elements.
LEMMA InsertedPositions ==
  ASSUME NEW s \in Seq(Nat), NEW b \in Nat, NEW n \in 1..Len(s)
  PROVE  LET t == InsertAt(s, n + 1, b)
         IN  /\ t \in Seq(Nat) /\ Len(t) = Len(s) + 1
             /\ \A i \in 1..n : t[i] = s[i]
             /\ t[n + 1] = b
             /\ \A i \in (n + 2)..(Len(s) + 1) : t[i] = s[i - 1]
<1> DEFINE t == InsertAt(s, n + 1, b)
<1>1. n \in Nat /\ Len(s) \in Nat /\ n <= Len(s) /\ 1 <= n
  OBVIOUS
<1> DEFINE p == SubSeq(s, 1, n)
           q == SubSeq(s, n + 1, Len(s))
<1>2. t = p \o <<b>> \o q
  <2>1. (n + 1) - 1 = n
    BY <1>1
  <2> QED
    BY <2>1, Zenon DEF InsertAt
<1>3. /\ t \in Seq(Nat) /\ Len(t) = Len(s) + 1
      /\ \A i \in 1..n : t[i] = s[i]
      /\ t[n + 1] = b
      /\ \A i \in (n + 2)..(Len(s) + 1) : t[i] = s[i - 1]
  <2>1. /\ p \in Seq(Nat) /\ Len(p) = n /\ \A i \in 1..n : p[i] = s[i]
    BY <1>1
  <2>2. /\ q \in Seq(Nat) /\ Len(q) = Len(s) - n
        /\ \A i \in 1..(Len(s) - n) : q[i] = s[n + i]
    BY <1>1
  <2> HIDE DEF p, q
  <2> DEFINE u == p \o <<b>>
  <2>3. /\ u \in Seq(Nat) /\ Len(u) = n + 1
        /\ \A i \in 1..n : u[i] = s[i]
        /\ u[n + 1] = b
    BY <1>1, <2>1
  <2>4. t = u \o q
    BY <1>2
  <2> HIDE DEF u
  <2>5. /\ t \in Seq(Nat) /\ Len(t) = (n + 1) + (Len(s) - n)
        /\ \A i \in 1..(n + 1) : t[i] = u[i]
        /\ \A i \in (n + 2)..(Len(s) + 1) : t[i] = q[i - (n + 1)]
    <3>1. Len(u) \in Nat /\ Len(q) \in Nat
      BY <2>2, <2>3
    <3>2. /\ t \in Seq(Nat) /\ Len(t) = Len(u) + Len(q)
          /\ \A i \in 1..Len(u) : t[i] = u[i]
          /\ \A i \in (Len(u) + 1)..(Len(u) + Len(q)) : t[i] = q[i - Len(u)]
      <4> HIDE DEF t
      <4>1. \A x, y \in Seq(Nat) :
              /\ x \o y \in Seq(Nat) /\ Len(x \o y) = Len(x) + Len(y)
              /\ \A i \in 1..Len(x) : (x \o y)[i] = x[i]
              /\ \A i \in (Len(x) + 1)..(Len(x) + Len(y)) : (x \o y)[i] = y[i - Len(x)]
        BY JoinedLists
      <4>2. /\ u \o q \in Seq(Nat) /\ Len(u \o q) = Len(u) + Len(q)
            /\ \A i \in 1..Len(u) : (u \o q)[i] = u[i]
            /\ \A i \in (Len(u) + 1)..(Len(u) + Len(q)) : (u \o q)[i] = q[i - Len(u)]
        BY <2>2, <2>3, <4>1, Zenon
      <4> QED
        BY <2>4, <4>2, Zenon
    <3>3. (Len(u) + 1)..(Len(u) + Len(q)) = (n + 2)..(Len(s) + 1)
      BY <1>1, <2>2, <2>3
    <3> QED
      BY <2>2, <2>3, <3>2, <3>3
  <2>6. ASSUME NEW i \in (n + 2)..(Len(s) + 1) PROVE t[i] = s[i - 1]
    <3>1. i - (n + 1) \in 1..(Len(s) - n) /\ n + (i - (n + 1)) = i - 1
      BY <1>1
    <3> QED
      BY <2>2, <2>5, <3>1
  <2>7. /\ \A i \in 1..n : i \in 1..(n + 1)
        /\ n + 1 \in 1..(n + 1) /\ (n + 1) + (Len(s) - n) = Len(s) + 1
    BY <1>1
  <2> QED
    BY <2>3, <2>5, <2>6, <2>7
<1> QED
  BY <1>3

\* A block after another one: the list has one more, in no other place.
LEMMA InsertedBlock ==
  ASSUME NEW f, NEW s, BlockList(f, s), NEW b \in Nat, b \notin ToSet(s),
         NEW n \in 1..Len(s)
  PROVE  /\ BlockList(f, InsertAt(s, n + 1, b))
         /\ \A x : x \in ToSet(InsertAt(s, n + 1, b)) <=> x = b \/ x \in ToSet(s)
<1> SUFFICES ASSUME NEW t, t = InsertAt(s, n + 1, b)
             PROVE  /\ BlockList(f, t)
                    /\ \A x : x \in ToSet(t) <=> x = b \/ x \in ToSet(s)
  OBVIOUS
<1>a. s \in Seq(Nat) /\ \A i, j \in 1..Len(s) : s[i] = s[j] => i = j
  BY DEF BlockList
<1>b. \A i \in 1..Len(s) : s[i] # b
  BY <1>a, ElementsOfList
<1>1. n \in Nat /\ Len(s) \in Nat /\ n <= Len(s) /\ 1 <= n
  BY <1>a
<1>3. /\ t \in Seq(Nat) /\ Len(t) = Len(s) + 1
      /\ \A i \in 1..n : t[i] = s[i]
      /\ t[n + 1] = b
      /\ \A i \in (n + 2)..(Len(s) + 1) : t[i] = s[i - 1]
  <2>1. s \in Seq(Nat)
    BY <1>a
  <2>2. \A u \in Seq(Nat) : \A m \in 1..Len(u) :
          LET w == InsertAt(u, m + 1, b)
          IN  /\ w \in Seq(Nat) /\ Len(w) = Len(u) + 1
              /\ \A i \in 1..m : w[i] = u[i]
              /\ w[m + 1] = b
              /\ \A i \in (m + 2)..(Len(u) + 1) : w[i] = u[i - 1]
    BY InsertedPositions, Zenon
  <2> QED
    BY <2>1, <2>2, Zenon
<1>4. ASSUME NEW i \in 1..Len(t), i # n + 1
      PROVE  \E k \in 1..Len(s) : t[i] = s[k] /\ i = IF k <= n THEN k ELSE k + 1
  <2>1. CASE i <= n
    <3>1. i \in 1..n /\ i \in 1..Len(s)
      BY <1>1, <2>1
    <3> QED
      BY <1>3, <2>1, <3>1
  <2>2. CASE i > n
    <3>1. i \in (n + 2)..(Len(s) + 1) /\ i - 1 \in 1..Len(s) /\ i - 1 > n /\ i = (i - 1) + 1
      BY <1>1, <1>3, <1>4, <2>2
    <3> QED
      BY <1>1, <1>3, <3>1
  <2> QED
    BY <1>1, <1>3, <2>1, <2>2
<1>5. ASSUME NEW i \in 1..Len(t), i # n + 1 PROVE t[i] # b
  BY <1>b, <1>4, <1>5
<1>6. ASSUME NEW i \in 1..Len(t), NEW j \in 1..Len(t), t[i] = t[j]
      PROVE  i = j
  <2>1. CASE i = n + 1 \/ j = n + 1
    BY <1>3, <1>5, <1>6, <2>1
  <2>2. CASE i # n + 1 /\ j # n + 1
    <3>1. PICK k \in 1..Len(s) : t[i] = s[k] /\ i = IF k <= n THEN k ELSE k + 1
      BY <1>4, <2>2
    <3>2. PICK l \in 1..Len(s) : t[j] = s[l] /\ j = IF l <= n THEN l ELSE l + 1
      BY <1>4, <2>2
    <3>3. k = l
      BY <1>a, <1>6, <3>1, <3>2
    <3> QED
      BY <3>1, <3>2, <3>3
  <2> QED
    BY <2>1, <2>2
<1>7. ASSUME NEW x
      PROVE  (\E i \in 1..Len(t) : t[i] = x) <=> x = b \/ \E i \in 1..Len(s) : s[i] = x
  <2>1. ASSUME NEW i \in 1..Len(t), t[i] = x
        PROVE  x = b \/ \E k \in 1..Len(s) : s[k] = x
    BY <1>3, <1>4, <2>1
  <2>2. ASSUME NEW k \in 1..Len(s), s[k] = x PROVE \E i \in 1..Len(t) : t[i] = x
    <3>1. CASE k <= n
      <4>1. k \in 1..n /\ k \in 1..Len(t)
        BY <1>1, <1>3, <3>1
      <4> QED
        BY <1>3, <2>2, <4>1
    <3>2. CASE k > n
      <4>1. k + 1 \in (n + 2)..(Len(s) + 1) /\ k + 1 \in 1..Len(t) /\ (k + 1) - 1 = k
        BY <1>1, <1>3, <3>2
      <4> QED
        BY <1>3, <2>2, <4>1
    <3> QED
      BY <1>1, <3>1, <3>2
  <2>3. n + 1 \in 1..Len(t) /\ t[n + 1] = b
    BY <1>1, <1>3
  <2> QED
    BY <2>1, <2>2, <2>3
<1>8. t[1] = s[1]
  BY <1>1, <1>3
<1>9. s # <<>> /\ s[1] = f
  BY <1>a, <1>1 DEF BlockList
<1>10. \A x : x \in ToSet(t) <=> x = b \/ x \in ToSet(s)
  <2>1. /\ \A x : x \in ToSet(t) <=> \E i \in 1..Len(t) : t[i] = x
        /\ \A x : x \in ToSet(s) <=> \E i \in 1..Len(s) : s[i] = x
    BY <1>a, <1>3, ElementsOfList
  <2> QED
    BY <1>7, <2>1, Zenon
<1> QED
  BY <1>3, <1>6, <1>8, <1>9, <1>10 DEF BlockList

\* The list of one block, and the empty one.
LEMMA NewList ==
  ASSUME NEW a \in Nat
  PROVE  /\ BlockList(a, <<a>>) /\ BlockList(a, <<>>)
         /\ ToSet(<<a>>) = {a} /\ ToSet(<<>>) = {}
BY DEF BlockList, ToSet

\* The place of a block in its list.
LEMMA PosOfBlock ==
  ASSUME NEW g, ListsOk(g.fncs), NEW b, b \in Blocks(g)
  PROVE  /\ ListOf(g, b) = g.fncs[FncOf(g, b)]
         /\ Pos(g, b) \in 1..Len(ListOf(g, b))
         /\ ListOf(g, b)[Pos(g, b)] = b
<1>1. FncOf(g, b) \in DOMAIN g.fncs /\ b \in ToSet(ListOf(g, b))
  BY FunctionOfBlock DEF ListOf
<1>2. ListOf(g, b) \in Seq(Nat)
  BY <1>1 DEF ListsOk, BlockList, ListOf
<1>3. \E i \in 1..Len(ListOf(g, b)) : ListOf(g, b)[i] = b
  BY <1>1, <1>2, ElementsOfList
<1> QED
  BY <1>3 DEF Pos, IndexIn, ListOf

\* b comes before c in the list of a function.
Before(g, b, c) ==
  /\ b \in Blocks(g) /\ c \in Blocks(g) /\ FncOf(g, b) = FncOf(g, c)
  /\ Pos(g, b) < Pos(g, c)

\* The function and the place of a block, from a place in a list.
LEMMA PlaceInList ==
  ASSUME NEW g, ListsOk(g.fncs), NEW f \in DOMAIN g.fncs, NEW i \in 1..Len(g.fncs[f])
  PROVE  /\ g.fncs[f][i] \in Blocks(g) /\ FncOf(g, g.fncs[f][i]) = f
         /\ Pos(g, g.fncs[f][i]) = i
<1>1. PICK b : b = g.fncs[f][i]
  OBVIOUS
<1>2. BlockList(f, g.fncs[f]) /\ g.fncs[f] \in Seq(Nat)
  BY DEF ListsOk, BlockList
<1>3. b \in ToSet(g.fncs[f])
  BY <1>1, <1>2, ElementsOfList
<1>4. b \in Blocks(g) /\ FncOf(g, b) = f
  <2>1. b \in Blocks(g)
    BY <1>3 DEF Blocks
  <2> QED
    BY <1>3, <2>1, FunctionOfBlock
<1>5. Pos(g, b) \in 1..Len(g.fncs[f]) /\ g.fncs[f][Pos(g, b)] = b
  BY <1>4, PosOfBlock
<1>6. Pos(g, b) = i
  BY <1>1, <1>2, <1>5 DEF BlockList
<1> QED
  BY <1>1, <1>4, <1>6

\* A list puts its blocks in an order, the function's own block first.
LEMMA OrderOfBlocks ==
  ASSUME NEW g, ListsOk(g.fncs)
  PROVE  /\ \A b, c : Before(g, b, c) => b # c /\ ~Before(g, c, b)
         /\ \A b, c \in Blocks(g) :
              FncOf(g, b) = FncOf(g, c) => b = c \/ Before(g, b, c) \/ Before(g, c, b)
         /\ \A b, c, d : Before(g, b, c) /\ Before(g, c, d) => Before(g, b, d)
         /\ \A b \in Blocks(g) :
              /\ FncOf(g, b) \in Blocks(g) /\ FncOf(g, FncOf(g, b)) = FncOf(g, b)
              /\ b = FncOf(g, b) \/ Before(g, FncOf(g, b), b)
              /\ IsFirst(g, b) <=> b = FncOf(g, b)
<1>1. \A b \in Blocks(g) :
        /\ FncOf(g, b) \in DOMAIN g.fncs /\ Pos(g, b) \in 1..Len(g.fncs[FncOf(g, b)])
        /\ g.fncs[FncOf(g, b)][Pos(g, b)] = b
  BY FunctionOfBlock, PosOfBlock
<1>2. \A b \in Blocks(g) : Pos(g, b) \in Int /\ 1 <= Pos(g, b)
  BY <1>1
<1>3. \A b, c : Before(g, b, c) => b # c /\ ~Before(g, c, b)
  BY <1>2 DEF Before
<1>4. ASSUME NEW b \in Blocks(g), NEW c \in Blocks(g), FncOf(g, b) = FncOf(g, c)
      PROVE  b = c \/ Before(g, b, c) \/ Before(g, c, b)
  <2>1. Pos(g, b) = Pos(g, c) => b = c
    BY <1>1, <1>4
  <2> QED
    BY <1>2, <1>4, <2>1 DEF Before
<1>5. \A b, c, d : Before(g, b, c) /\ Before(g, c, d) => Before(g, b, d)
  BY <1>2 DEF Before
<1>6. ASSUME NEW b \in Blocks(g)
      PROVE  /\ FncOf(g, b) \in Blocks(g) /\ FncOf(g, FncOf(g, b)) = FncOf(g, b)
             /\ b = FncOf(g, b) \/ Before(g, FncOf(g, b), b)
             /\ IsFirst(g, b) <=> b = FncOf(g, b)
  <2>1. PICK f : f = FncOf(g, b)
    OBVIOUS
  <2>2. f \in DOMAIN g.fncs /\ Pos(g, b) \in 1..Len(g.fncs[f]) /\ BlockList(f, g.fncs[f])
    BY <1>1, <2>1 DEF ListsOk
  <2>3. 1 \in 1..Len(g.fncs[f]) /\ g.fncs[f] # <<>> /\ g.fncs[f] \in Seq(Nat)
    BY <2>2 DEF BlockList
  <2>4. g.fncs[f][1] = f
    BY <2>2, <2>3 DEF BlockList
  <2>5. f \in Blocks(g) /\ FncOf(g, f) = f /\ Pos(g, f) = 1
    BY <2>2, <2>3, <2>4, PlaceInList
  <2>6. b = f \/ Before(g, f, b)
    <3>1. b = f \/ Before(g, f, b) \/ Before(g, b, f)
      BY <1>4, <2>1, <2>5
    <3> QED
      BY <1>2, <2>5, <3>1 DEF Before
  <2>7. IsFirst(g, b) <=> b = f
    BY <2>1, <2>3, <2>4 DEF IsFirst, ListOf
  <2> QED
    BY <2>1, <2>5, <2>6, <2>7
<1> QED
  BY <1>3, <1>4, <1>5, <1>6

\* The module has its parts.
HasParts(g) == {"fncs", "bbOf", "end", "edges", "fncSz"} \subseteq DOMAIN g

\* h differs from g in its lists of blocks only.
OnlyLists(g, h) ==
  /\ HasParts(h)
  /\ h.bbOf = g.bbOf /\ h.end = g.end /\ h.edges = g.edges /\ h.fncSz = g.fncSz

\* Creating a block adds it to the list of the block before it.
LEMMA CreatingBlock ==
  ASSUME NEW g, HasParts(g), ListsOk(g.fncs), NEW a \in Nat, a \notin Blocks(g),
         NEW after, after \in Blocks(g), NEW h, h = CreateBasicBlock(g, a, after)
  PROVE  /\ OnlyLists(g, h) /\ ListsOk(h.fncs)
         /\ \A b : b \in Blocks(h) <=> b \in Blocks(g) \/ b = a
<1>1. PICK f : f = FncOf(g, after)
  OBVIOUS
<1>2. PICK n : n = Pos(g, after)
  OBVIOUS
<1>3. f \in DOMAIN g.fncs /\ n \in 1..Len(g.fncs[f])
  BY <1>1, <1>2, FunctionOfBlock, PosOfBlock
<1>4. PICK t : t = InsertAt(g.fncs[f], n + 1, a)
  OBVIOUS
<1>5. h.fncs = [g.fncs EXCEPT ![f] = t] /\ OnlyLists(g, h)
  BY <1>1, <1>2, <1>4 DEF CreateBasicBlock, OnlyLists, HasParts
<1>6. BlockList(f, g.fncs[f]) /\ a \notin ToSet(g.fncs[f])
  BY <1>3, BlocksOfLists DEF ListsOk
<1>7. BlockList(f, t) /\ \A x : x \in ToSet(t) <=> x = a \/ x \in ToSet(g.fncs[f])
  BY <1>3, <1>4, <1>6, InsertedBlock
<1>8. /\ DOMAIN h.fncs = DOMAIN g.fncs /\ h.fncs[f] = t
      /\ \A k \in DOMAIN g.fncs \ {f} : h.fncs[k] = g.fncs[k]
  BY <1>3, <1>5
<1>9. \A k \in DOMAIN g.fncs : a \notin ToSet(g.fncs[k])
  BY BlocksOfLists
<1>10. ListsOk(h.fncs)
  <2>1. \A k \in DOMAIN h.fncs : k \in Nat /\ BlockList(k, h.fncs[k])
    BY <1>7, <1>8 DEF ListsOk
  <2>2. ASSUME NEW k \in DOMAIN h.fncs, NEW l \in DOMAIN h.fncs, k # l
        PROVE  ToSet(h.fncs[k]) \cap ToSet(h.fncs[l]) = {}
    <3>1. ToSet(g.fncs[k]) \cap ToSet(g.fncs[l]) = {}
      BY <1>8, <2>2 DEF ListsOk
    <3> QED
      BY <1>7, <1>8, <1>9, <2>2, <3>1
  <2> QED
    BY <2>1, <2>2 DEF ListsOk
<1>11. \A b : b \in Blocks(h) <=> b \in Blocks(g) \/ b = a
  BY <1>3, <1>7, <1>8 DEF Blocks
<1> QED
  BY <1>5, <1>10, <1>11

\* Creating a function adds a list with its first block, or without any.
LEMMA CreatingFunction ==
  ASSUME NEW g, HasParts(g), ListsOk(g.fncs), NEW a \in Nat, a \notin Blocks(g),
         NEW h, h = CreateFunction(g, a)
  PROVE  /\ OnlyLists(g, h) /\ ListsOk(h.fncs) /\ a \in DOMAIN h.fncs
         /\ \A b : b \in Blocks(g) => b \in Blocks(h)
<1>1. CASE a \in DOMAIN g.fncs
  BY <1>1 DEF CreateFunction, OnlyLists
<1>2. CASE a \notin DOMAIN g.fncs
  <2>1. PICK s : s = IF a \in Image THEN <<a>> ELSE <<>>
    OBVIOUS
  <2>2. /\ OnlyLists(g, h)
        /\ DOMAIN h.fncs = DOMAIN g.fncs \cup {a} /\ h.fncs[a] = s
        /\ \A f \in DOMAIN g.fncs : h.fncs[f] = g.fncs[f]
    BY <1>2, <2>1 DEF CreateFunction, OnlyLists, HasParts, With
  <2>3. BlockList(a, s) /\ ToSet(s) \subseteq {a}
    BY <2>1, NewList
  <2>4. \A k \in DOMAIN g.fncs : a \notin ToSet(g.fncs[k])
    BY BlocksOfLists
  <2>5. ListsOk(h.fncs)
    <3>1. \A k \in DOMAIN h.fncs : k \in Nat /\ BlockList(k, h.fncs[k])
      BY <2>2, <2>3 DEF ListsOk
    <3>2. \A k, l \in DOMAIN h.fncs : k # l => ToSet(h.fncs[k]) \cap ToSet(h.fncs[l]) = {}
      BY <2>2, <2>3, <2>4 DEF ListsOk
    <3> QED
      BY <3>1, <3>2 DEF ListsOk
  <2> QED
    BY <2>2, <2>5 DEF Blocks
<1> QED
  BY <1>1, <1>2

\* A new block takes its place in the order right behind another.
LEMMA OrderWithBlock ==
  ASSUME NEW g, HasParts(g), ListsOk(g.fncs), NEW a \in Nat, a \notin Blocks(g),
         NEW after, after \in Blocks(g), NEW h, h = CreateBasicBlock(g, a, after)
  PROVE  /\ \A b \in Blocks(g) : FncOf(h, b) = FncOf(g, b)
         /\ FncOf(h, a) = FncOf(g, after)
         /\ \A b, c \in Blocks(g) : Before(h, b, c) => Before(g, b, c)
         /\ \A b \in Blocks(g) : Before(h, b, a) => b = after \/ Before(g, b, after)
         /\ \A c \in Blocks(g) : Before(h, a, c) => Before(g, after, c)
         /\ DOMAIN h.fncs = DOMAIN g.fncs
         /\ \A f \in DOMAIN g.fncs : g.fncs[f] # <<>> => h.fncs[f] # <<>>
<1>1. PICK f : f = FncOf(g, after)
  OBVIOUS
<1>2. PICK n : n = Pos(g, after)
  OBVIOUS
<1>3. f \in DOMAIN g.fncs /\ n \in 1..Len(g.fncs[f]) /\ g.fncs[f][n] = after
  BY <1>1, <1>2, FunctionOfBlock, PosOfBlock
<1>4. PICK s : s = g.fncs[f]
  OBVIOUS
<1>5. PICK t : t = InsertAt(s, n + 1, a)
  OBVIOUS
<1>6. /\ h.fncs = [g.fncs EXCEPT ![f] = t]
      /\ OnlyLists(g, h) /\ ListsOk(h.fncs)
      /\ \A b : b \in Blocks(h) <=> b \in Blocks(g) \/ b = a
  <2>1. h.fncs = [g.fncs EXCEPT ![f] = t]
    BY <1>1, <1>2, <1>4, <1>5 DEF CreateBasicBlock, HasParts
  <2> QED
    BY <2>1, CreatingBlock
<1>7. /\ DOMAIN h.fncs = DOMAIN g.fncs /\ h.fncs[f] = t
      /\ \A k \in DOMAIN g.fncs \ {f} : h.fncs[k] = g.fncs[k]
  BY <1>3, <1>6
<1>8. s \in Seq(Nat) /\ Len(s) \in Nat /\ n \in 1..Len(s) /\ n \in Nat
  BY <1>3, <1>4 DEF ListsOk, BlockList
<1>9. /\ t \in Seq(Nat) /\ Len(t) = Len(s) + 1
      /\ \A i \in 1..n : t[i] = s[i]
      /\ t[n + 1] = a
      /\ \A i \in (n + 2)..(Len(s) + 1) : t[i] = s[i - 1]
  <2>1. \A u \in Seq(Nat) : \A m \in 1..Len(u) :
          LET w == InsertAt(u, m + 1, a)
          IN  /\ w \in Seq(Nat) /\ Len(w) = Len(u) + 1
              /\ \A i \in 1..m : w[i] = u[i]
              /\ w[m + 1] = a
              /\ \A i \in (m + 2)..(Len(u) + 1) : w[i] = u[i - 1]
    BY InsertedPositions, Zenon
  <2> QED
    BY <1>5, <1>8, <2>1, Zenon
<1>10. FncOf(h, a) = f /\ Pos(h, a) = n + 1
  <2>1. n + 1 \in 1..Len(h.fncs[f]) /\ h.fncs[f][n + 1] = a
    BY <1>7, <1>8, <1>9
  <2> QED
    BY <1>3, <1>6, <1>7, <2>1, PlaceInList
<1>11. ASSUME NEW b \in Blocks(g)
       PROVE  /\ FncOf(h, b) = FncOf(g, b)
              /\ FncOf(g, b) # f => Pos(h, b) = Pos(g, b)
              /\ FncOf(g, b) = f =>
                   Pos(h, b) = IF Pos(g, b) <= n THEN Pos(g, b) ELSE Pos(g, b) + 1
  <2>1. PICK k : k = FncOf(g, b)
    OBVIOUS
  <2>2. PICK i : i = Pos(g, b)
    OBVIOUS
  <2>3. k \in DOMAIN g.fncs /\ i \in 1..Len(g.fncs[k]) /\ g.fncs[k][i] = b
    BY <2>1, <2>2, FunctionOfBlock, PosOfBlock
  <2>4. CASE k # f
    <3>1. k \in DOMAIN h.fncs /\ h.fncs[k] = g.fncs[k]
      BY <1>7, <2>3, <2>4
    <3>2. FncOf(h, b) = k /\ Pos(h, b) = i
      BY <1>6, <2>3, <3>1, PlaceInList
    <3> QED
      BY <2>1, <2>2, <2>4, <3>2
  <2>a. k = f => i \in 1..Len(s) /\ s[i] = b
    BY <1>4, <2>3
  <2>b. Len(h.fncs[f]) = Len(s) + 1 /\ h.fncs[f] = t
    BY <1>7, <1>9
  <2>5. CASE k = f /\ i <= n
    <3>0. i \in 1..n /\ i \in 1..(Len(s) + 1)
      BY <1>8, <2>a, <2>5
    <3>1. i \in 1..Len(h.fncs[f]) /\ h.fncs[f][i] = b
      BY <1>9, <2>a, <2>b, <2>5, <3>0
    <3>2. FncOf(h, b) = f /\ Pos(h, b) = i
      BY <1>3, <1>6, <1>7, <3>1, PlaceInList
    <3> QED
      BY <2>1, <2>2, <2>5, <3>2
  <2>6. CASE k = f /\ i > n
    <3>0. /\ i + 1 \in (n + 2)..(Len(s) + 1) /\ i + 1 \in 1..(Len(s) + 1)
          /\ (i + 1) - 1 = i
      BY <1>8, <2>a, <2>6
    <3>1. i + 1 \in 1..Len(h.fncs[f])
      BY <2>b, <3>0
    <3>2. h.fncs[f][i + 1] = b
      BY <1>9, <2>a, <2>b, <2>6, <3>0
    <3>3. FncOf(h, b) = f /\ Pos(h, b) = i + 1
      BY <1>3, <1>6, <1>7, <3>1, <3>2, PlaceInList
    <3>4. ~(i <= n)
      BY <1>8, <2>3, <2>6
    <3> QED
      BY <2>1, <2>2, <2>6, <3>3, <3>4
  <2> QED
    BY <1>8, <2>3, <2>4, <2>5, <2>6
<1>12. \A b \in Blocks(g) : Pos(g, b) \in Nat
  <2>1. \A b \in Blocks(g) : Pos(g, b) \in 1..Len(ListOf(g, b))
    BY PosOfBlock
  <2> QED
    BY <2>1
<1>13. ASSUME NEW b \in Blocks(g), NEW c \in Blocks(g), Before(h, b, c)
       PROVE  Before(g, b, c)
  <2>1. FncOf(g, b) = FncOf(g, c) /\ Pos(h, b) < Pos(h, c)
    BY <1>11, <1>13 DEF Before
  <2>2. CASE FncOf(g, b) = f
    BY <1>8, <1>11, <1>12, <2>1, <2>2 DEF Before
  <2>3. CASE FncOf(g, b) # f
    BY <1>11, <2>1, <2>3 DEF Before
  <2> QED
    BY <2>2, <2>3
<1>14. ASSUME NEW b \in Blocks(g), Before(h, b, a) PROVE b = after \/ Before(g, b, after)
  <2>1. FncOf(g, b) = f /\ Pos(h, b) < n + 1
    BY <1>10, <1>11, <1>14 DEF Before
  <2>2. Pos(g, b) <= n
    BY <1>8, <1>11, <1>12, <2>1
  <2>3. Pos(g, b) = n => b = after
    BY <1>3, <2>1, PosOfBlock
  <2> QED
    BY <1>1, <1>2, <1>8, <1>12, <2>1, <2>2, <2>3 DEF Before
<1>15. ASSUME NEW c \in Blocks(g), Before(h, a, c) PROVE Before(g, after, c)
  <2>1. FncOf(g, c) = f /\ n + 1 < Pos(h, c)
    BY <1>10, <1>11, <1>15 DEF Before
  <2>2. n < Pos(g, c)
    BY <1>8, <1>11, <1>12, <2>1
  <2> QED
    BY <1>1, <1>2, <2>1, <2>2 DEF Before
<1>16. \A k \in DOMAIN g.fncs : g.fncs[k] # <<>> => h.fncs[k] # <<>>
  <2>1. t # <<>>
    BY <1>8, <1>9
  <2> QED
    BY <1>3, <1>7, <2>1
<1> QED
  BY <1>1, <1>7, <1>10, <1>11, <1>13, <1>14, <1>15, <1>16

\* The functions that have blocks in g have blocks in h.
KeepsFunctions(g, h) ==
  \A f \in DOMAIN g.fncs : g.fncs[f] # <<>> => f \in DOMAIN h.fncs /\ h.fncs[f] # <<>>

\* A new function changes no order.
LEMMA OrderWithFunction ==
  ASSUME NEW g, HasParts(g), ListsOk(g.fncs), NEW a \in Nat, a \notin Blocks(g),
         NEW h, h = CreateFunction(g, a)
  PROVE  /\ \A b \in Blocks(g) : FncOf(h, b) = FncOf(g, b)
         /\ \A b, c : Before(h, b, c) => Before(g, b, c)
         /\ KeepsFunctions(g, h)
<1>1. CASE a \in DOMAIN g.fncs
  BY <1>1 DEF CreateFunction, KeepsFunctions
<1>2. CASE a \notin DOMAIN g.fncs
  <2>1. PICK s : s = IF a \in Image THEN <<a>> ELSE <<>>
    OBVIOUS
  <2>2. /\ DOMAIN h.fncs = DOMAIN g.fncs \cup {a} /\ h.fncs[a] = s
        /\ \A f \in DOMAIN g.fncs : h.fncs[f] = g.fncs[f]
    BY <1>2, <2>1 DEF CreateFunction, HasParts, With
  <2>3. ListsOk(h.fncs)
    BY CreatingFunction
  <2>4. ASSUME NEW b \in Blocks(g)
        PROVE  FncOf(h, b) = FncOf(g, b) /\ Pos(h, b) = Pos(g, b)
    <3>1. PICK k : k = FncOf(g, b)
      OBVIOUS
    <3>2. PICK i : i = Pos(g, b)
      OBVIOUS
    <3>3. k \in DOMAIN g.fncs /\ i \in 1..Len(g.fncs[k]) /\ g.fncs[k][i] = b
      BY <3>1, <3>2, FunctionOfBlock, PosOfBlock
    <3>4. k \in DOMAIN h.fncs /\ i \in 1..Len(h.fncs[k]) /\ h.fncs[k][i] = b
      BY <2>2, <3>3
    <3>5. FncOf(h, b) = k /\ Pos(h, b) = i
      BY <2>3, <3>4, PlaceInList
    <3> QED
      BY <3>1, <3>2, <3>5
  <2>5. ASSUME NEW b, NEW c, Before(h, b, c) PROVE Before(g, b, c)
    <3>1. b \in Blocks(h) /\ c \in Blocks(h) /\ FncOf(h, b) = FncOf(h, c) /\ b # c
      BY <2>3, <2>5, OrderOfBlocks DEF Before
    <3>2. PICK k \in DOMAIN h.fncs : b \in ToSet(h.fncs[k]) /\ c \in ToSet(h.fncs[k])
      BY <2>3, <3>1, FunctionOfBlock
    <3>3. k \in DOMAIN g.fncs
      <4>1. ToSet(s) \subseteq {a}
        BY <2>1, NewList
      <4> QED
        BY <2>2, <3>1, <3>2, <4>1
    <3>4. b \in Blocks(g) /\ c \in Blocks(g)
      BY <2>2, <3>2, <3>3 DEF Blocks
    <3> QED
      BY <2>4, <2>5, <3>4 DEF Before
  <2> QED
    BY <2>2, <2>4, <2>5 DEF KeepsFunctions
<1> QED
  BY <1>1, <1>2

-----------------------------------------------------------------------------
(* The structure of the module *)

\* a is the last instruction of its block.
LastIn(g, a) == \A x \in DOMAIN g.bbOf : g.bbOf[x] = g.bbOf[a] => x <= a

\* The block of the instruction a ends behind it, without a branch.
Open(g, a) == LastIn(g, a) /\ \A e \in g.edges : g.bbOf[e.at] # g.bbOf[a]

\* Every instruction is in a block that begins at or before it, with an
\* instruction of its own.
InsnsOk(g) ==
  \A x \in DOMAIN g.bbOf :
    /\ x \in Nat /\ g.bbOf[x] \in Blocks(g) /\ g.bbOf[x] <= x
    /\ g.bbOf[x] \in DOMAIN g.bbOf /\ g.bbOf[g.bbOf[x]] = g.bbOf[x]

\* Branches are at the ends of blocks, and lead to blocks.
EdgesOk(g) ==
  /\ \A e \in g.edges : e.at \in DOMAIN g.bbOf /\ e.to \in Blocks(g) /\ LastIn(g, e.at)
  /\ \A e, d \in g.edges : e # d /\ e.at = d.at => {e.kind, d.kind} = {"true", "false"}

Structure(g) == HasParts(g) /\ ListsOk(g.fncs) /\ InsnsOk(g) /\ EdgesOk(g)

\* What every operation does: the module h keeps the blocks and instructions of
\* g, and its structure; blocks that are open stay so.
Keeps(g, h) ==
  /\ Structure(h)
  /\ DOMAIN h.bbOf = DOMAIN g.bbOf /\ Blocks(g) \subseteq Blocks(h)
  /\ \A a \in DOMAIN g.bbOf : Open(g, a) => Open(h, a)

\* Keeps is transitive: operations can be chained.
LEMMA KeepsTrans ==
  ASSUME NEW f, NEW g, NEW h, Keeps(f, g), Keeps(g, h)
  PROVE  Keeps(f, h)
BY DEF Keeps

\* Doing nothing keeps the structure.
LEMMA KeepsSame ==
  ASSUME NEW g, Structure(g)
  PROVE  Keeps(g, g)
BY DEF Keeps

\* So does a change of the lists of blocks, when no block is lost.
LEMMA ListsKeep ==
  ASSUME NEW g, Structure(g), NEW h, OnlyLists(g, h), ListsOk(h.fncs),
         Blocks(g) \subseteq Blocks(h)
  PROVE  Keeps(g, h)
<1>1. \A a \in DOMAIN g.bbOf : (LastIn(g, a) <=> LastIn(h, a)) /\ (Open(g, a) <=> Open(h, a))
  BY DEF OnlyLists, LastIn, Open
<1>2. InsnsOk(h)
  BY DEF Structure, InsnsOk, OnlyLists
<1>3. EdgesOk(h)
  BY <1>1 DEF Structure, EdgesOk, OnlyLists
<1> QED
  BY <1>1, <1>2, <1>3 DEF Keeps, Structure, OnlyLists

\* So does dropping branches.
LEMMA DroppingKeeps ==
  ASSUME NEW g, Structure(g), NEW out
  PROVE  Keeps(g, DropEdges(g, out))
<1> SUFFICES ASSUME NEW h, h = DropEdges(g, out) PROVE Keeps(g, h)
  OBVIOUS
<1>1. /\ HasParts(h) /\ h.fncs = g.fncs /\ h.bbOf = g.bbOf /\ h.edges \subseteq g.edges
  BY DEF DropEdges, Structure, HasParts
<1>2. \A a \in DOMAIN g.bbOf : (LastIn(g, a) <=> LastIn(h, a)) /\ (Open(g, a) => Open(h, a))
  BY <1>1 DEF LastIn, Open
<1>3. Blocks(h) = Blocks(g)
  BY <1>1 DEF Blocks
<1>4. InsnsOk(h)
  BY <1>1, <1>3 DEF Structure, InsnsOk
<1>5. EdgesOk(h)
  BY <1>1, <1>2, <1>3 DEF Structure, EdgesOk
<1> QED
  BY <1>1, <1>2, <1>3, <1>4, <1>5 DEF Keeps, Structure

\* The new block is put behind b, the branch to it comes from the instruction
\* prev, the last of b before it.
StartMade(g, a, h, prev, b) ==
  /\ HasParts(h) /\ h.fncs = CreateBasicBlock(g, a, b).fncs /\ h.end = g.end
  /\ DOMAIN h.bbOf = DOMAIN g.bbOf
  /\ \A x \in DOMAIN g.bbOf :
       h.bbOf[x] = IF g.bbOf[x] = b /\ x >= a THEN a ELSE g.bbOf[x]
  /\ h.edges = g.edges \cup {[at |-> prev, to |-> a, kind |-> "br"]}
  /\ prev \in DOMAIN g.bbOf /\ g.bbOf[prev] = b /\ prev < a
  /\ \A x \in DOMAIN g.bbOf : g.bbOf[x] = b /\ x < a => x <= prev

\* What makeStart does to the block b that holds the instruction at a.
LEMMA MakingStart ==
  ASSUME NEW g, Structure(g), NEW a \in DOMAIN g.bbOf, a \notin Blocks(g)
  PROVE  /\ a \in Nat /\ g.bbOf[a] \in Nat /\ g.bbOf[a] \in Blocks(g) /\ g.bbOf[a] < a
         /\ g.bbOf[a] \in DOMAIN g.bbOf /\ g.bbOf[g.bbOf[a]] = g.bbOf[a]
         /\ \E prev : StartMade(g, a, MakeStart(g, a), prev, g.bbOf[a])
<1>1. PICK b : b = g.bbOf[a]
  OBVIOUS
<1>2. /\ a \in Nat /\ b \in Nat /\ b \in Blocks(g) /\ b < a
      /\ b \in DOMAIN g.bbOf /\ g.bbOf[b] = b
  <2>1. a \in Nat /\ b \in Blocks(g) /\ b <= a /\ b \in DOMAIN g.bbOf /\ g.bbOf[b] = b
    BY <1>1 DEF Structure, InsnsOk
  <2>2. b \in Nat
    BY <2>1, BlocksOfLists DEF Structure
  <2> QED
    BY <2>1, <2>2
<1>3. PICK c : c = CreateBasicBlock(g, a, b)
  OBVIOUS
<1>4. OnlyLists(g, c)
  BY <1>2, <1>3, CreatingBlock DEF Structure
<1>5. PICK prev : prev = Max({x \in InsnsOf(g, b) : x < a})
  OBVIOUS
<1>6. /\ prev \in DOMAIN g.bbOf /\ g.bbOf[prev] = b /\ prev < a
      /\ \A x \in DOMAIN g.bbOf : g.bbOf[x] = b /\ x < a => x <= prev
  <2> DEFINE S == {x \in InsnsOf(g, b) : x < a}
  <2>1. S \in SUBSET Nat /\ \A x \in S : x <= a
    BY <1>2 DEF InsnsOf, Structure, InsnsOk
  <2>2. b \in S
    BY <1>2 DEF InsnsOf
  <2>3. \A x : x \in S <=> x \in DOMAIN g.bbOf /\ g.bbOf[x] = b /\ x < a
    BY DEF InsnsOf
  <2> HIDE DEF S
  <2>4. Max(S) \in S /\ \A x \in S : x <= Max(S)
    BY <1>2, <2>1, <2>2, MaxOfNats
  <2>5. prev = Max(S)
    BY <1>5 DEF S
  <2> QED
    BY <2>3, <2>4, <2>5
<1>7. PICK h : h = MakeStart(g, a)
  OBVIOUS
<1>8. /\ HasParts(h) /\ h.fncs = c.fncs /\ h.end = g.end
      /\ DOMAIN h.bbOf = DOMAIN g.bbOf
      /\ \A x \in DOMAIN g.bbOf :
           h.bbOf[x] = IF g.bbOf[x] = b /\ x >= a THEN a ELSE g.bbOf[x]
      /\ h.edges = g.edges \cup {[at |-> prev, to |-> a, kind |-> "br"]}
  BY <1>1, <1>3, <1>4, <1>5, <1>7 DEF MakeStart, InsnsOf, OnlyLists, HasParts
<1>9. StartMade(g, a, h, prev, b)
  BY <1>3, <1>6, <1>8 DEF StartMade
<1> QED
  BY <1>1, <1>2, <1>7, <1>9

\* So does cutting a block in two: the branch to the new block is the only one
\* of the old block, those that the old block had are the new one's.
LEMMA MakeStartKeeps ==
  ASSUME NEW g, Structure(g), NEW a \in DOMAIN g.bbOf, a \notin Blocks(g)
  PROVE  Keeps(g, MakeStart(g, a)) /\ a \in Blocks(MakeStart(g, a))
<1>1. PICK b : b = g.bbOf[a]
  OBVIOUS
<1>2. PICK c : c = CreateBasicBlock(g, a, b)
  OBVIOUS
<1>3. PICK h : h = MakeStart(g, a)
  OBVIOUS
<1>4. /\ a \in Nat /\ b \in Nat /\ b \in Blocks(g) /\ b < a
      /\ b \in DOMAIN g.bbOf /\ g.bbOf[b] = b
      /\ \E prev : StartMade(g, a, h, prev, b)
  BY <1>1, <1>3, MakingStart
<1>5. /\ OnlyLists(g, c) /\ ListsOk(c.fncs)
      /\ \A x : x \in Blocks(c) <=> x \in Blocks(g) \/ x = a
  BY <1>2, <1>4, CreatingBlock DEF Structure
<1>6. PICK prev : StartMade(g, a, h, prev, b)
  BY <1>4
<1>7. /\ prev \in DOMAIN g.bbOf /\ g.bbOf[prev] = b /\ prev < a
      /\ \A x \in DOMAIN g.bbOf : g.bbOf[x] = b /\ x < a => x <= prev
  BY <1>6 DEF StartMade
<1>8. /\ HasParts(h) /\ h.fncs = c.fncs
      /\ DOMAIN h.bbOf = DOMAIN g.bbOf
      /\ \A x \in DOMAIN g.bbOf :
           h.bbOf[x] = IF g.bbOf[x] = b /\ x >= a THEN a ELSE g.bbOf[x]
      /\ h.edges = g.edges \cup {[at |-> prev, to |-> a, kind |-> "br"]}
  BY <1>2, <1>6 DEF StartMade
<1>9. \A x : x \in Blocks(h) <=> x \in Blocks(g) \/ x = a
  BY <1>5, <1>8 DEF Blocks
<1>10. \A x \in DOMAIN g.bbOf : x \in Nat /\ g.bbOf[x] # a
  BY DEF Structure, InsnsOk
<1>11. InsnsOk(h)
  <2> SUFFICES ASSUME NEW x \in DOMAIN h.bbOf
               PROVE  /\ x \in Nat /\ h.bbOf[x] \in Blocks(h) /\ h.bbOf[x] <= x
                      /\ h.bbOf[x] \in DOMAIN h.bbOf /\ h.bbOf[h.bbOf[x]] = h.bbOf[x]
    BY DEF InsnsOk
  <2>1. /\ x \in Nat /\ g.bbOf[x] \in Blocks(g) /\ g.bbOf[x] <= x
        /\ g.bbOf[x] \in DOMAIN g.bbOf /\ g.bbOf[g.bbOf[x]] = g.bbOf[x]
    BY <1>8 DEF Structure, InsnsOk
  <2>2. CASE g.bbOf[x] = b /\ x >= a
    BY <1>1, <1>4, <1>8, <1>9, <2>1, <2>2
  <2>3. CASE ~(g.bbOf[x] = b /\ x >= a)
    <3>1. h.bbOf[x] = g.bbOf[x]
      BY <1>8, <2>3
    <3>2. h.bbOf[g.bbOf[x]] = g.bbOf[x]
      <4>1. ~(g.bbOf[x] = b /\ g.bbOf[x] >= a)
        BY <1>4
      <4> QED
        BY <1>8, <2>1, <4>1
    <3> QED
      BY <1>8, <1>9, <2>1, <3>1, <3>2
  <2> QED
    BY <2>2, <2>3
<1>12. \A x \in DOMAIN g.bbOf : LastIn(g, x) => LastIn(h, x) /\ (g.bbOf[x] = b => h.bbOf[x] = a)
  BY <1>1, <1>4, <1>8, <1>10 DEF LastIn
<1>13. LastIn(h, prev) /\ h.bbOf[prev] = b
  BY <1>4, <1>7, <1>8, <1>10 DEF LastIn
<1>14. \A e \in g.edges : e.at \in DOMAIN g.bbOf /\ LastIn(g, e.at) /\ e.to \in Blocks(g)
  BY DEF Structure, EdgesOk
<1>15. \A e \in g.edges : e.at # prev
  <2>1. ~LastIn(g, prev)
    BY <1>1, <1>4, <1>7, <1>10 DEF LastIn
  <2> QED
    BY <1>14, <2>1
<1>16. EdgesOk(h)
  <2>1. ASSUME NEW e \in h.edges
        PROVE  e.at \in DOMAIN h.bbOf /\ e.to \in Blocks(h) /\ LastIn(h, e.at)
    BY <1>7, <1>8, <1>9, <1>12, <1>13, <1>14, <2>1
  <2>2. ASSUME NEW e \in h.edges, NEW d \in h.edges, e # d, e.at = d.at
        PROVE  {e.kind, d.kind} = {"true", "false"}
    <3>1. e \in g.edges /\ d \in g.edges
      BY <1>8, <1>15, <2>2
    <3> QED
      BY <2>2, <3>1 DEF Structure, EdgesOk
  <2> QED
    BY <2>1, <2>2 DEF EdgesOk
<1>17. ASSUME NEW x \in DOMAIN g.bbOf, Open(g, x) PROVE Open(h, x)
  <2>1. LastIn(g, x) /\ LastIn(h, x) /\ \A e \in g.edges : g.bbOf[e.at] # g.bbOf[x]
    BY <1>12, <1>17 DEF Open
  <2>2. \A e \in g.edges : h.bbOf[e.at] # h.bbOf[x]
    BY <1>8, <1>10, <1>12, <1>14, <2>1
  <2>3. h.bbOf[prev] # h.bbOf[x]
    <3>1. CASE g.bbOf[x] = b
      BY <1>4, <1>12, <1>13, <2>1, <3>1
    <3>2. CASE g.bbOf[x] # b
      BY <1>8, <1>13, <3>2
    <3> QED
      BY <3>1, <3>2
  <2> QED
    BY <1>8, <2>1, <2>2, <2>3 DEF Open
<1> QED
  BY <1>5, <1>3, <1>8, <1>9, <1>11, <1>16, <1>17 DEF Keeps, Structure

-----------------------------------------------------------------------------
(* Splitting functions *)

\* The place of an element of a list.
LEMMA IndexOfElement ==
  ASSUME NEW s \in Seq(Nat), NEW x \in ToSet(s)
  PROVE  IndexIn(s, x) \in 1..Len(s) /\ s[IndexIn(s, x)] = x
<1>1. \E i \in 1..Len(s) : s[i] = x
  BY ElementsOfList
<1> QED
  BY <1>1 DEF IndexIn

\* A part of a list.
LEMMA PartOfList ==
  ASSUME NEW s \in Seq(Nat), NEW p \in 1..Len(s), NEW q \in p..Len(s)
  PROVE  /\ SubSeq(s, p, q) \in Seq(Nat) /\ Len(SubSeq(s, p, q)) = q - p + 1
         /\ \A i \in 1..(q - p + 1) : SubSeq(s, p, q)[i] = s[p + i - 1]
OBVIOUS

\* The blocks of a segment are those from its start up to the next one.
LEMMA SegmentOfList ==
  ASSUME NEW f, NEW s, BlockList(f, s), NEW starts, NEW p \in 1..Len(s)
  PROVE  /\ BlockList(s[p], Segment(s, starts, p))
         /\ \A x : x \in ToSet(Segment(s, starts, p)) <=>
              \E i \in p..Len(s) : s[i] = x /\ \A j \in (p + 1)..i : s[j] \notin starts
         /\ \A i \in 1..Len(Segment(s, starts, p)) :
              p + i - 1 \in 1..Len(s) /\ Segment(s, starts, p)[i] = s[p + i - 1]
<1>1. /\ s \in Seq(Nat) /\ Len(s) \in Nat /\ p \in Nat
      /\ \A i, j \in 1..Len(s) : s[i] = s[j] => i = j
  BY DEF BlockList
<1> DEFINE next == {j \in (p + 1)..Len(s) : s[j] \in starts}
<1>2. PICK q : q = Min(next \cup {Len(s) + 1})
  OBVIOUS
<1>3. next \cup {Len(s) + 1} \in SUBSET Nat
  BY <1>1
<1>4. q \in next \cup {Len(s) + 1} /\ \A j \in next : q <= j
  BY <1>2, <1>3, MinOfNats
<1>5. q \in (p + 1)..(Len(s) + 1) /\ (q # Len(s) + 1 => s[q] \in starts)
  BY <1>1, <1>4
<1>6. \A j \in (p + 1)..(q - 1) : s[j] \notin starts
  BY <1>1, <1>4, <1>5
<1>7. PICK t : t = Segment(s, starts, p)
  OBVIOUS
<1>8. t = SubSeq(s, p, q - 1)
  BY <1>2, <1>7 DEF Segment
<1> HIDE DEF next
<1>9. /\ t \in Seq(Nat) /\ Len(t) = q - p
      /\ \A i \in 1..(q - p) : t[i] = s[p + i - 1]
  <2>1. q - 1 \in p..Len(s) /\ (q - 1) - p + 1 = q - p
    BY <1>1, <1>5
  <2>2. \A u \in p..Len(s) :
          /\ SubSeq(s, p, u) \in Seq(Nat) /\ Len(SubSeq(s, p, u)) = u - p + 1
          /\ \A i \in 1..(u - p + 1) : SubSeq(s, p, u)[i] = s[p + i - 1]
    BY <1>1, PartOfList
  <2>3. /\ SubSeq(s, p, q - 1) \in Seq(Nat)
        /\ Len(SubSeq(s, p, q - 1)) = (q - 1) - p + 1
        /\ \A i \in 1..((q - 1) - p + 1) : SubSeq(s, p, q - 1)[i] = s[p + i - 1]
    BY <2>1, <2>2, Zenon
  <2> QED
    BY <1>8, <2>1, <2>3
<1>10. BlockList(s[p], t)
  <2>1. ASSUME NEW i \in 1..Len(t), NEW j \in 1..Len(t), t[i] = t[j] PROVE i = j
    <3>1. /\ p + i - 1 \in 1..Len(s) /\ p + j - 1 \in 1..Len(s)
          /\ t[i] = s[p + i - 1] /\ t[j] = s[p + j - 1]
      <4>1. i \in 1..(q - p) /\ j \in 1..(q - p) /\ i \in Int /\ j \in Int
        BY <1>9
      <4>2. p + i - 1 \in 1..Len(s) /\ p + j - 1 \in 1..Len(s)
        BY <1>1, <1>5, <4>1
      <4>3. t[i] = s[p + i - 1] /\ t[j] = s[p + j - 1]
        BY <1>9, <4>1, Zenon
      <4> QED
        BY <4>2, <4>3
    <3>2. p + i - 1 = p + j - 1
      BY <1>1, <2>1, <3>1
    <3> QED
      BY <1>1, <1>9, <3>2
  <2>2. t[1] = s[p]
    <3>1. 1 \in 1..(q - p) /\ p + 1 - 1 = p
      BY <1>1, <1>5
    <3> QED
      BY <1>9, <3>1
  <2> QED
    BY <1>9, <2>1, <2>2 DEF BlockList
<1>11. ASSUME NEW x
       PROVE  x \in ToSet(t) <=>
                \E i \in p..Len(s) : s[i] = x /\ \A j \in (p + 1)..i : s[j] \notin starts
  <2>1. x \in ToSet(t) <=> \E i \in 1..(q - p) : s[p + i - 1] = x
    <3>1. x \in ToSet(t) <=> \E i \in 1..(q - p) : t[i] = x
      BY <1>9, ElementsOfList
    <3> QED
      BY <1>9, <3>1
  <2>2. ASSUME NEW i \in 1..(q - p), s[p + i - 1] = x
        PROVE  \E k \in p..Len(s) : s[k] = x /\ \A j \in (p + 1)..k : s[j] \notin starts
    <3>1. p + i - 1 \in p..Len(s) /\ \A j \in (p + 1)..(p + i - 1) : j \in (p + 1)..(q - 1)
      BY <1>1, <1>5
    <3> QED
      BY <1>6, <2>2, <3>1
  <2>3. ASSUME NEW k \in p..Len(s), s[k] = x, \A j \in (p + 1)..k : s[j] \notin starts
        PROVE  \E i \in 1..(q - p) : s[p + i - 1] = x
    <3>1. k < q
      BY <1>1, <1>5, <2>3
    <3>2. k - p + 1 \in 1..(q - p) /\ p + (k - p + 1) - 1 = k
      BY <1>1, <1>5, <3>1
    <3> QED
      BY <2>3, <3>2
  <2> QED
    BY <2>1, <2>2, <2>3
<1>12. ASSUME NEW i \in 1..Len(t) PROVE p + i - 1 \in 1..Len(s) /\ t[i] = s[p + i - 1]
  <2>1. i \in 1..(q - p)
    BY <1>9
  <2>2. p + i - 1 \in 1..Len(s)
    BY <1>1, <1>5, <2>1
  <2> QED
    BY <1>9, <2>1, <2>2
<1> QED
  BY <1>7, <1>10, <1>11, <1>12

\* Moving blocks to the functions that a split creates loses none: each block is
\* in the segment of the last start up to it.
LEMMA SpliceKeeps ==
  ASSUME NEW g, Structure(g), NEW f \in DOMAIN g.fncs, g.fncs[f] # <<>>, NEW starts,
         f \in starts, \A x \in starts : x \in ToSet(g.fncs[f])
  PROVE  /\ Keeps(g, Splice(g, g.fncs[f], f, starts))
         /\ starts \subseteq DOMAIN Splice(g, g.fncs[f], f, starts).fncs
<1>1. PICK s : s = g.fncs[f]
  OBVIOUS
<1>2. PICK h : h = Splice(g, s, f, starts)
  OBVIOUS
<1>3. BlockList(f, s) /\ s \in Seq(Nat) /\ s[1] = f /\ Len(s) \in Nat
  <2>1. BlockList(f, s) /\ s # <<>>
    BY <1>1 DEF Structure, ListsOk
  <2> QED
    BY <2>1 DEF BlockList
<1>4. \A i, j \in 1..Len(s) : s[i] = s[j] => i = j
  BY <1>3 DEF BlockList
<1>5. 1 \in 1..Len(s)
  BY <1>1, <1>3
<1> DEFINE at(x) == IndexIn(s, x)
           seg(x) == Segment(s, starts, at(x))
<1>6. \A x \in starts : at(x) \in 1..Len(s) /\ s[at(x)] = x
  BY <1>1, <1>3, IndexOfElement
<1>7. at(f) = 1
  BY <1>3, <1>4, <1>5, <1>6
<1>8. /\ OnlyLists(g, h)
      /\ DOMAIN h.fncs = DOMAIN g.fncs \cup starts
      /\ \A x \in starts : h.fncs[x] = seg(x)
      /\ \A k \in DOMAIN g.fncs \ starts : h.fncs[k] = g.fncs[k]
  BY <1>2, <1>7 DEF Splice, OnlyLists, Structure, HasParts
<1> HIDE DEF at
<1>9. ASSUME NEW x \in starts
      PROVE  /\ BlockList(x, seg(x))
             /\ \A y : y \in ToSet(seg(x)) <=>
                  \E i \in at(x)..Len(s) : s[i] = y /\ \A j \in (at(x) + 1)..i : s[j] \notin starts
  <2>1. at(x) \in 1..Len(s) /\ s[at(x)] = x
    BY <1>6
  <2>2. \A p \in 1..Len(s) :
          /\ BlockList(s[p], Segment(s, starts, p))
          /\ \A y : y \in ToSet(Segment(s, starts, p)) <=>
               \E i \in p..Len(s) : s[i] = y /\ \A j \in (p + 1)..i : s[j] \notin starts
    BY <1>3, SegmentOfList
  <2> QED
    BY <2>1, <2>2, Zenon
<1> HIDE DEF seg
<1>10. ASSUME NEW x \in starts, NEW y \in ToSet(seg(x)) PROVE y \in ToSet(s)
  <2>1. PICK i \in at(x)..Len(s) : s[i] = y
    BY <1>9
  <2>2. i \in 1..Len(s)
    BY <1>3, <1>6
  <2> QED
    BY <1>3, <2>1, <2>2, ElementsOfList
<1>11. ASSUME NEW x \in starts, NEW z \in starts, NEW y,
              y \in ToSet(seg(x)), y \in ToSet(seg(z))
       PROVE  x = z
  <2>1. PICK i \in at(x)..Len(s) : s[i] = y /\ \A j \in (at(x) + 1)..i : s[j] \notin starts
    BY <1>9, <1>11
  <2>2. PICK k \in at(z)..Len(s) : s[k] = y /\ \A j \in (at(z) + 1)..k : s[j] \notin starts
    BY <1>9, <1>11
  <2>3. at(x) \in 1..Len(s) /\ at(z) \in 1..Len(s) /\ s[at(x)] \in starts /\ s[at(z)] \in starts
    BY <1>6
  <2>4. i = k
    <3>1. i \in 1..Len(s) /\ k \in 1..Len(s)
      BY <1>3, <2>3
    <3> QED
      BY <1>4, <2>1, <2>2, <3>1
  <2>5. ~(at(x) < at(z))
    <3> SUFFICES ASSUME at(x) < at(z) PROVE FALSE
      OBVIOUS
    <3>1. at(z) \in (at(x) + 1)..i
      BY <1>3, <2>2, <2>3, <2>4
    <3> QED
      BY <2>1, <2>3, <3>1
  <2>6. ~(at(z) < at(x))
    <3> SUFFICES ASSUME at(z) < at(x) PROVE FALSE
      OBVIOUS
    <3>1. at(x) \in (at(z) + 1)..k
      BY <1>3, <2>1, <2>3, <2>4
    <3> QED
      BY <2>2, <2>3, <3>1
  <2>7. at(x) = at(z)
    BY <2>3, <2>5, <2>6
  <2> QED
    BY <1>6, <2>7
<1>12. ASSUME NEW y \in ToSet(s) PROVE \E x \in starts : y \in ToSet(seg(x))
  <2>1. PICK i \in 1..Len(s) : s[i] = y
    BY <1>3, ElementsOfList
  <2> DEFINE S == {p \in 1..i : s[p] \in starts}
  <2>2. S \in SUBSET Nat /\ 1 \in S /\ i \in Nat /\ \A p \in S : p <= i
    BY <1>3, <1>5
  <2>3. PICK p \in S : \A j \in S : j <= p
    BY <2>2, MaxOfNats
  <2>4. p \in 1..Len(s) /\ i \in p..Len(s) /\ \A j \in (p + 1)..i : s[j] \notin starts
    BY <1>3, <2>2, <2>3
  <2>5. at(s[p]) = p
    BY <1>4, <1>6, <2>3, <2>4
  <2> QED
    BY <1>9, <2>1, <2>3, <2>4, <2>5
<1>13. \A k \in DOMAIN g.fncs : k # f => ToSet(g.fncs[k]) \cap ToSet(s) = {}
  BY <1>1 DEF Structure, ListsOk
<1>14. ListsOk(h.fncs)
  <2>1. ASSUME NEW k \in DOMAIN h.fncs PROVE k \in Nat /\ BlockList(k, h.fncs[k])
    <3>1. CASE k \in starts
      BY <1>3, <1>6, <1>8, <1>9, <3>1
    <3>2. CASE k \notin starts
      BY <1>8, <3>2 DEF Structure, ListsOk
    <3> QED
      BY <3>1, <3>2
  <2>2. ASSUME NEW k \in DOMAIN h.fncs, NEW l \in DOMAIN h.fncs, NEW y,
               y \in ToSet(h.fncs[k]), y \in ToSet(h.fncs[l])
        PROVE  k = l
    <3>1. CASE k \in starts /\ l \in starts
      BY <1>8, <1>11, <2>2, <3>1
    <3>2. CASE k \in starts /\ l \notin starts
      BY <1>8, <1>10, <1>13, <2>2, <3>2
    <3>3. CASE k \notin starts /\ l \in starts
      BY <1>8, <1>10, <1>13, <2>2, <3>3
    <3>4. CASE k \notin starts /\ l \notin starts
      BY <1>8, <2>2, <3>4 DEF Structure, ListsOk
    <3> QED
      BY <3>1, <3>2, <3>3, <3>4
  <2> QED
    BY <2>1, <2>2 DEF ListsOk
<1>15. Blocks(g) \subseteq Blocks(h)
  <2> SUFFICES ASSUME NEW b \in Blocks(g) PROVE b \in Blocks(h)
    OBVIOUS
  <2>1. PICK k \in DOMAIN g.fncs : b \in ToSet(g.fncs[k])
    BY DEF Blocks
  <2>2. CASE k = f
    <3>1. PICK x \in starts : b \in ToSet(seg(x))
      BY <1>1, <1>12, <2>1, <2>2
    <3> QED
      BY <1>8, <3>1 DEF Blocks
  <2>3. CASE k # f /\ k \notin starts
    BY <1>8, <2>1, <2>3 DEF Blocks
  <2>4. CASE k # f /\ k \in starts
    <3>1. g.fncs[k] = <<>>
      <4>1. k \in ToSet(s)
        BY <1>1, <2>4
      <4>2. BlockList(k, g.fncs[k])
        BY DEF Structure, ListsOk
      <4>3. g.fncs[k] # <<>> => k \in ToSet(g.fncs[k])
        BY <4>2, ElementsOfList DEF BlockList
      <4> QED
        BY <1>13, <2>4, <4>1, <4>3
    <3> QED
      BY <2>1, <3>1 DEF ToSet
  <2> QED
    BY <2>2, <2>3, <2>4
<1> QED
  BY <1>1, <1>2, <1>8, <1>14, <1>15, ListsKeep

\* Moving blocks to the functions that a split creates: each block is in the
\* function of the last start up to it, and behind the blocks it was behind.
LEMMA OrderAfterSplice ==
  ASSUME NEW g, Structure(g), NEW f \in DOMAIN g.fncs, g.fncs[f] # <<>>, NEW starts,
         f \in starts, \A x \in starts : x \in ToSet(g.fncs[f]),
         NEW h, h = Splice(g, g.fncs[f], f, starts)
  PROVE  /\ OnlyLists(g, h) /\ KeepsFunctions(g, h)
         /\ \A x \in starts : h.fncs[x] # <<>>
         /\ \A b, c : Before(h, b, c) => Before(g, b, c)
         /\ \A b \in Blocks(g) : FncOf(g, b) # f => FncOf(h, b) = FncOf(g, b)
         /\ \A b \in Blocks(g) : FncOf(g, b) = f =>
              /\ FncOf(h, b) \in starts
              /\ FncOf(h, b) = b \/ Before(g, FncOf(h, b), b)
              /\ \A x \in starts : x = b \/ Before(g, x, b) =>
                   x = FncOf(h, b) \/ Before(g, x, FncOf(h, b))
<1>1. PICK s : s = g.fncs[f]
  OBVIOUS
<1>2. h = Splice(g, s, f, starts) /\ Keeps(g, h) /\ ListsOk(h.fncs) /\ ListsOk(g.fncs)
  BY <1>1, SpliceKeeps DEF Keeps, Structure
<1>3. BlockList(f, s) /\ s \in Seq(Nat) /\ s[1] = f /\ Len(s) \in Nat
  <2>1. BlockList(f, s) /\ s # <<>>
    BY <1>1, <1>2 DEF ListsOk
  <2> QED
    BY <2>1 DEF BlockList
<1>4. \A i, j \in 1..Len(s) : s[i] = s[j] => i = j
  BY <1>3 DEF BlockList
<1>5. 1 \in 1..Len(s)
  BY <1>1, <1>3
<1> DEFINE at(x) == IndexIn(s, x)
           seg(x) == Segment(s, starts, at(x))
<1>6. \A x \in starts : at(x) \in 1..Len(s) /\ s[at(x)] = x
  BY <1>1, <1>3, IndexOfElement
<1>7. at(f) = 1
  BY <1>3, <1>4, <1>5, <1>6
<1>8. /\ OnlyLists(g, h)
      /\ DOMAIN h.fncs = DOMAIN g.fncs \cup starts
      /\ \A x \in starts : h.fncs[x] = seg(x)
      /\ \A k \in DOMAIN g.fncs \ starts : h.fncs[k] = g.fncs[k]
  BY <1>2, <1>7 DEF Splice, OnlyLists, Structure, HasParts
<1> HIDE DEF at
<1>9. ASSUME NEW x \in starts
      PROVE  /\ BlockList(x, seg(x))
             /\ \A y : y \in ToSet(seg(x)) <=>
                  \E i \in at(x)..Len(s) : s[i] = y /\ \A j \in (at(x) + 1)..i : s[j] \notin starts
             /\ \A i \in 1..Len(seg(x)) :
                  at(x) + i - 1 \in 1..Len(s) /\ seg(x)[i] = s[at(x) + i - 1]
  <2>1. at(x) \in 1..Len(s) /\ s[at(x)] = x
    BY <1>6
  <2>2. \A p \in 1..Len(s) :
          /\ BlockList(s[p], Segment(s, starts, p))
          /\ \A y : y \in ToSet(Segment(s, starts, p)) <=>
               \E i \in p..Len(s) : s[i] = y /\ \A j \in (p + 1)..i : s[j] \notin starts
          /\ \A i \in 1..Len(Segment(s, starts, p)) :
               p + i - 1 \in 1..Len(s) /\ Segment(s, starts, p)[i] = s[p + i - 1]
    BY <1>3, SegmentOfList
  <2> QED
    BY <2>1, <2>2, Zenon
<1> HIDE DEF seg
<1>10. \A i \in 1..Len(s) : s[i] \in Blocks(g) /\ FncOf(g, s[i]) = f /\ Pos(g, s[i]) = i
  BY <1>1, <1>2, PlaceInList
<1>11. \A x \in starts : x \in Blocks(g) /\ FncOf(g, x) = f /\ Pos(g, x) = at(x)
  BY <1>6, <1>10
<1>12. \A x \in starts : h.fncs[x] # <<>>
  <2> SUFFICES ASSUME NEW x \in starts PROVE h.fncs[x] # <<>>
    OBVIOUS
  <2>1. x \in ToSet(seg(x))
    <3>1. at(x) \in at(x)..Len(s) /\ s[at(x)] = x /\ \A j \in (at(x) + 1)..at(x) : FALSE
      BY <1>3, <1>6
    <3> QED
      BY <1>9, <3>1
  <2> QED
    BY <1>8, <2>1 DEF ToSet
<1>13. KeepsFunctions(g, h)
  BY <1>8, <1>12 DEF KeepsFunctions
<1>14. ASSUME NEW b \in Blocks(g), FncOf(g, b) # f PROVE FncOf(h, b) = FncOf(g, b)
  <2>1. PICK k : k = FncOf(g, b)
    OBVIOUS
  <2>2. k \in DOMAIN g.fncs /\ b \in ToSet(g.fncs[k])
    BY <1>2, <2>1, FunctionOfBlock
  <2>3. k \notin starts
    <3> SUFFICES ASSUME k \in starts PROVE FALSE
      OBVIOUS
    <3>1. FncOf(g, k) = f /\ FncOf(g, k) = k
      BY <1>2, <1>11, <2>1, OrderOfBlocks
    <3> QED
      BY <1>14, <2>1, <3>1
  <2>4. k \in DOMAIN h.fncs /\ b \in ToSet(h.fncs[k])
    BY <1>8, <2>2, <2>3
  <2>5. b \in Blocks(h)
    BY <2>4 DEF Blocks
  <2> QED
    BY <1>2, <2>1, <2>4, <2>5, FunctionOfBlock
<1>15. ASSUME NEW b \in Blocks(g), FncOf(g, b) = f
       PROVE  /\ FncOf(h, b) \in starts
              /\ FncOf(h, b) = b \/ Before(g, FncOf(h, b), b)
              /\ \A x \in starts : x = b \/ Before(g, x, b) =>
                   x = FncOf(h, b) \/ Before(g, x, FncOf(h, b))
  <2>1. PICK k : k = FncOf(h, b)
    OBVIOUS
  <2>2. b \in Blocks(h) /\ k \in DOMAIN h.fncs /\ b \in ToSet(h.fncs[k])
    BY <1>2, <2>1, FunctionOfBlock DEF Keeps
  <2>3. k \in starts
    <3> SUFFICES ASSUME k \notin starts PROVE FALSE
      OBVIOUS
    <3>1. k \in DOMAIN g.fncs /\ b \in ToSet(g.fncs[k])
      BY <1>8, <2>2
    <3>2. k = f
      BY <1>2, <1>15, <3>1, FunctionOfBlock
    <3> QED
      BY <3>2
  <2>4. PICK i \in at(k)..Len(s) : s[i] = b /\ \A j \in (at(k) + 1)..i : s[j] \notin starts
    BY <1>8, <1>9, <2>2, <2>3
  <2>5. at(k) \in 1..Len(s) /\ i \in 1..Len(s) /\ at(k) <= i
    BY <1>3, <1>6, <2>3
  <2>6. Pos(g, b) = i /\ Pos(g, k) = at(k) /\ FncOf(g, k) = f /\ k \in Blocks(g)
    BY <1>10, <1>11, <2>3, <2>4, <2>5
  <2>7. k = b \/ Before(g, k, b)
    <3>1. at(k) = i => k = b
      BY <1>6, <2>3, <2>4
    <3> QED
      BY <1>3, <1>15, <2>5, <2>6, <3>1 DEF Before
  <2>8. ASSUME NEW x \in starts, x = b \/ Before(g, x, b)
        PROVE  x = k \/ Before(g, x, k)
    <3>1. x \in Blocks(g) /\ FncOf(g, x) = f /\ Pos(g, x) = at(x) /\ at(x) \in 1..Len(s)
      BY <1>6, <1>11
    <3>2. at(x) <= i
      BY <2>6, <2>8, <3>1, <2>5 DEF Before
    <3>3. ~(at(x) > at(k))
      <4> SUFFICES ASSUME at(x) > at(k) PROVE FALSE
        OBVIOUS
      <4>1. at(x) \in (at(k) + 1)..i
        BY <1>3, <2>5, <3>1, <3>2
      <4> QED
        BY <1>6, <2>4, <4>1
    <3>4. at(x) = at(k) => x = k
      BY <1>6, <2>3
    <3> QED
      BY <2>5, <2>6, <3>1, <3>3, <3>4 DEF Before
  <2> QED
    BY <2>1, <2>3, <2>7, <2>8
<1>16. ASSUME NEW b, NEW c, Before(h, b, c) PROVE Before(g, b, c)
  <2>1. PICK k : k = FncOf(h, b)
    OBVIOUS
  <2>2. PICK i : i = Pos(h, b)
    OBVIOUS
  <2>3. PICK j : j = Pos(h, c)
    OBVIOUS
  <2>4. /\ k \in DOMAIN h.fncs /\ i \in 1..Len(h.fncs[k]) /\ j \in 1..Len(h.fncs[k])
        /\ h.fncs[k][i] = b /\ h.fncs[k][j] = c /\ i < j
    BY <1>2, <1>16, <2>1, <2>2, <2>3, FunctionOfBlock, PosOfBlock DEF Before
  <2>5. CASE k \in starts
    <3>1. h.fncs[k] = seg(k) /\ at(k) \in 1..Len(s)
      BY <1>6, <1>8, <2>5
    <3>2. /\ at(k) + i - 1 \in 1..Len(s) /\ b = s[at(k) + i - 1]
          /\ at(k) + j - 1 \in 1..Len(s) /\ c = s[at(k) + j - 1]
      BY <1>9, <2>4, <2>5, <3>1
    <3>3. at(k) + i - 1 < at(k) + j - 1
      BY <1>3, <2>4, <3>1
    <3> QED
      BY <1>10, <3>2, <3>3 DEF Before
  <2>6. CASE k \notin starts
    <3>1. k \in DOMAIN g.fncs /\ h.fncs[k] = g.fncs[k]
      BY <1>8, <2>4, <2>6
    <3>2. /\ b \in Blocks(g) /\ FncOf(g, b) = k /\ Pos(g, b) = i
          /\ c \in Blocks(g) /\ FncOf(g, c) = k /\ Pos(g, c) = j
      BY <1>2, <2>4, <3>1, PlaceInList
    <3> QED
      BY <2>4, <3>2 DEF Before
  <2> QED
    BY <2>5, <2>6
<1> QED
  BY <1>8, <1>12, <1>13, <1>14, <1>15, <1>16

-----------------------------------------------------------------------------
(* Look-ups by address *)

\* The look-up of a block by address finds one, when there is one.
LEMMA BlockBeforeAddress ==
  ASSUME NEW g, Structure(g), NEW a \in Nat,
         \/ GetBasicBlockBeforeAddress(g, a) # NoAddr
         \/ \E b \in Blocks(g) : b <= a
  PROVE  /\ GetBasicBlockBeforeAddress(g, a) \in Blocks(g)
         /\ GetBasicBlockBeforeAddress(g, a) <= a
         /\ \A b \in Blocks(g) : b <= a => b <= GetBasicBlockBeforeAddress(g, a)
<1> DEFINE S == {b \in Blocks(g) : b <= a}
<1>1. GetBasicBlockBeforeAddress(g, a) = IF S = {} THEN NoAddr ELSE Max(S)
  BY DEF GetBasicBlockBeforeAddress, MaxOrNone
<1>2. S # {}
  BY <1>1
<1>3. S \in SUBSET Nat /\ \A b \in S : b <= a
  BY BlocksOfLists DEF Structure
<1>4. \A b : b \in S <=> b \in Blocks(g) /\ b <= a
  OBVIOUS
<1> HIDE DEF S
<1>5. Max(S) \in S /\ \A b \in S : b <= Max(S)
  BY <1>2, <1>3, MaxOfNats
<1> QED
  BY <1>1, <1>2, <1>4, <1>5

\* A function that contains the address has a block at or before it.
LEMMA FunctionHasBlock ==
  ASSUME NEW g, Structure(g), NEW a \in Nat, InFunction(g, a)
  PROVE  \E b \in Blocks(g) : b <= a
<1> DEFINE S == {f \in DOMAIN g.fncs : f <= a}
<1>1. PICK f : /\ f = GetFunctionBeforeAddress(g, a) /\ f # NoAddr
               /\ a < GetFunctionEndAddress(g, f)
  BY DEF InFunction
<1>2. f = (IF S = {} THEN NoAddr ELSE Max(S))
  BY <1>1 DEF GetFunctionBeforeAddress, MaxOrNone
<1>3. S # {} /\ f = Max(S)
  BY <1>1, <1>2
<1>4. S \in SUBSET Nat /\ \A x \in S : x <= a /\ x \in DOMAIN g.fncs
  BY DEF Structure, ListsOk
<1> HIDE DEF S
<1>5. f \in DOMAIN g.fncs /\ f <= a /\ f \in Nat
  BY <1>3, <1>4, MaxOfNats
<1>6. g.fncs[f] # <<>>
  <2> SUFFICES ASSUME g.fncs[f] = <<>> PROVE FALSE
    OBVIOUS
  <2>1. WalkBack(g, g.fncs[f], Len(g.fncs[f])) = NoAddr
    <3>1. 1..Len(g.fncs[f]) = {}
      OBVIOUS
    <3> QED
      BY <3>1 DEF WalkBack
  <2>2. GetFunctionEndAddress(g, f) = f
    BY <2>1 DEF GetFunctionEndAddress, EndOr
  <2> QED
    BY <1>1, <1>5, <2>2
<1>7. f \in ToSet(g.fncs[f])
  <2>1. BlockList(f, g.fncs[f])
    BY <1>5 DEF Structure, ListsOk
  <2> QED
    BY <1>6, <2>1, ElementsOfList DEF BlockList
<1> QED
  BY <1>5, <1>7 DEF Blocks

\* The first block of a function is the one at its address.
LEMMA FrontOfFunction ==
  ASSUME NEW g, Structure(g), NEW f \in DOMAIN g.fncs
  PROVE  FrontOf(g, f) = NoAddr \/ (FrontOf(g, f) = f /\ f \in Blocks(g))
<1>1. BlockList(f, g.fncs[f])
  BY DEF Structure, ListsOk
<1>2. g.fncs[f] # <<>> => Head(g.fncs[f]) = f /\ f \in ToSet(g.fncs[f])
  BY <1>1, ElementsOfList DEF BlockList
<1> QED
  BY <1>2 DEF FrontOf, Blocks

-----------------------------------------------------------------------------
(* The layout of the code *)

\* The block b begins with an instruction.
Full(g, b) == b \in DOMAIN g.bbOf /\ g.bbOf[b] = b

\* The instructions have their bytes for themselves.
BytesOk(g) ==
  /\ DOMAIN g.end = DOMAIN g.bbOf
  /\ \A a \in DOMAIN g.end : g.end[a] \in Nat /\ a < g.end[a]
  /\ \A a, b \in DOMAIN g.end : a < b => g.end[a] <= b

\* A block is one piece of code: between its instructions there are none of
\* other blocks, and no other bytes.
Solid(g) ==
  \A z \in DOMAIN g.bbOf :
    /\ \A w \in DOMAIN g.bbOf : g.bbOf[z] <= w /\ w <= z => g.bbOf[w] = g.bbOf[z]
    /\ \A p \in Nat : g.bbOf[z] <= p /\ p <= z =>
         \E w \in DOMAIN g.bbOf : w <= p /\ p < g.end[w]

\* What splitFunctionOn does not look at leads to the next instruction.
Falls(g) ==
  \A e \in g.edges :
    e.kind \in {"br", "true"} \/ (e.to = g.end[e.at] /\ e.kind \in {"false", "condcall"})

Code(g) == BytesOk(g) /\ Solid(g) /\ Falls(g)

\* The blocks are in order, in the sense of BlocksInOrder.
Sorted(g) == \A b, c : Before(g, b, c) /\ c < b => Hidden(g, c, b)

\* Branches stay in their functions, and do not lead to the first block.
Inner(g) ==
  \A e \in g.edges :
    FncOf(g, g.bbOf[e.at]) = FncOf(g, e.to) /\ e.to # FncOf(g, e.to)

Layout(g) ==
  Structure(g) /\ Code(g) /\ (NoFunctionInside(g) => Sorted(g) /\ Inner(g))

\* The seam e leads over p.
Over(g, e, p) == g.bbOf[e.at] < p /\ p <= e.to

\* The code from the block s on up to the block of the instruction m is linked
\* by seams of one function.
Linked(g, s, m) ==
  /\ Full(g, s) /\ m \in DOMAIN g.bbOf /\ s <= g.bbOf[m]
  /\ FncOf(g, s) = FncOf(g, g.bbOf[m])
  /\ \A p \in Nat : s < p /\ p <= g.bbOf[m] =>
       \E e \in Seams(g) : Over(g, e, p) /\ FncOf(g, e.to) = FncOf(g, s)

\* What every operation does: the structure and the order are kept, and so are
\* links, as long as no function begins inside of code.
Lays(g, h) ==
  /\ Keeps(g, h) /\ Layout(h) /\ h.end = g.end
  /\ NoFunctionInside(h) =>
       NoFunctionInside(g) /\ \A s, m : Linked(g, s, m) => Linked(h, s, m)

\* Operations can be chained.
LEMMA LaysTrans ==
  ASSUME NEW f, NEW g, NEW h, Lays(f, g), Lays(g, h)
  PROVE  Lays(f, h)
<1>1. Keeps(f, h)
  BY KeepsTrans DEF Lays
<1> QED
  BY <1>1 DEF Lays

\* Doing nothing keeps the layout.
LEMMA LaysSame ==
  ASSUME NEW g, Layout(g)
  PROVE  Lays(g, g)
BY KeepsSame DEF Lays, Layout

\* The parts of a seam.
LEMMA SeamParts ==
  ASSUME NEW g, Structure(g), Code(g), NEW e \in Seams(g)
  PROVE  /\ e \in g.edges /\ e.kind = "br" /\ e.at \in DOMAIN g.bbOf /\ LastIn(g, e.at)
         /\ g.bbOf[e.at] \in Nat /\ e.at \in Nat /\ e.to \in Nat
         /\ g.bbOf[e.at] <= e.at /\ e.at < e.to /\ e.to = g.end[e.at]
         /\ Full(g, g.bbOf[e.at]) /\ Full(g, e.to)
         /\ g.bbOf[e.at] \in Blocks(g) /\ e.to \in Blocks(g)
<1>1. /\ e \in g.edges /\ e.kind = "br" /\ e.to = g.end[e.at]
      /\ e.to \in DOMAIN g.bbOf /\ g.bbOf[e.to] = e.to
  BY DEF Seams
<1>2. e.at \in DOMAIN g.bbOf /\ LastIn(g, e.at) /\ e.to \in Blocks(g)
  BY <1>1 DEF Structure, EdgesOk
<1>3. /\ e.at \in Nat /\ g.bbOf[e.at] \in Blocks(g) /\ g.bbOf[e.at] <= e.at
      /\ Full(g, g.bbOf[e.at])
  BY <1>2 DEF Structure, InsnsOk, Full
<1>4. g.bbOf[e.at] \in Nat /\ e.to \in Nat
  BY <1>1, <1>2, <1>3 DEF Structure, InsnsOk, Full
<1>5. e.at < e.to
  BY <1>1, <1>2 DEF Code, BytesOk
<1> QED
  BY <1>1, <1>2, <1>3, <1>4, <1>5 DEF Full

\* No seam leads over a block that has instructions, but to it.
LEMMA SeamOverFull ==
  ASSUME NEW g, Structure(g), Code(g), NEW e \in Seams(g), NEW p, Full(g, p)
  PROVE  p \in Nat /\ (p <= g.bbOf[e.at] \/ e.to <= p)
<1>1. /\ e.at \in DOMAIN g.bbOf /\ e.at \in Nat /\ e.to \in Nat /\ g.bbOf[e.at] \in Nat
      /\ e.to = g.end[e.at] /\ g.bbOf[e.at] <= e.at
  BY SeamParts
<1>2. p \in DOMAIN g.bbOf /\ g.bbOf[p] = p /\ p \in Nat
  BY DEF Full, Structure, InsnsOk
<1>3. SUFFICES ASSUME g.bbOf[e.at] < p, p < e.to PROVE FALSE
  BY <1>1, <1>2
<1>4. p <= e.at
  BY <1>1, <1>2, <1>3 DEF Code, BytesOk
<1>5. g.bbOf[p] = g.bbOf[e.at]
  BY <1>1, <1>2, <1>3, <1>4 DEF Code, Solid
<1> QED
  BY <1>1, <1>2, <1>3, <1>5

\* A block that a seam hides begins inside of code, without instructions.
LEMMA HiddenBlock ==
  ASSUME NEW g, Structure(g), Code(g), NEW b, NEW c, Hidden(g, c, b)
  PROVE  Inside(g, c) /\ ~Full(g, c)
<1>1. PICK e \in Seams(g) : g.bbOf[e.at] < c /\ c < e.to /\ e.to <= b
  BY DEF Hidden
<1>2. e.at \in DOMAIN g.bbOf /\ e.to = g.end[e.at] /\ e.to \in Nat /\ g.bbOf[e.at] \in Nat
  BY SeamParts
<1>3. Inside(g, c)
  BY <1>1, <1>2 DEF Inside
<1>4. ~Full(g, c)
  <2> SUFFICES ASSUME Full(g, c) PROVE FALSE
    OBVIOUS
  <2>1. c \in Nat /\ (c <= g.bbOf[e.at] \/ e.to <= c)
    BY SeamOverFull
  <2> QED
    BY <1>1, <1>2, <2>1
<1> QED
  BY <1>3, <1>4

\* A function begins at or before its blocks that have instructions.
LEMMA FullBehindFunction ==
  ASSUME NEW g, Structure(g), Code(g), Sorted(g), NEW b \in Blocks(g), Full(g, b)
  PROVE  FncOf(g, b) \in Nat /\ FncOf(g, b) <= b
<1>1. /\ FncOf(g, b) \in Blocks(g)
      /\ b = FncOf(g, b) \/ Before(g, FncOf(g, b), b)
  BY OrderOfBlocks DEF Structure
<1>2. b \in Nat /\ FncOf(g, b) \in Nat
  BY <1>1, BlocksOfLists DEF Structure
<1>3. ~(b < FncOf(g, b))
  <2> SUFFICES ASSUME b < FncOf(g, b) PROVE FALSE
    OBVIOUS
  <2>1. Hidden(g, b, FncOf(g, b))
    BY <1>1, <1>2 DEF Sorted
  <2> QED
    BY <2>1, HiddenBlock
<1> QED
  BY <1>2, <1>3

\* A change of the lists that keeps the functions of the blocks keeps the code
\* and its links.
LEMMA ListsLay ==
  ASSUME NEW g, Layout(g), NEW h, OnlyLists(g, h), ListsOk(h.fncs),
         Blocks(g) \subseteq Blocks(h), KeepsFunctions(g, h),
         \A b \in Blocks(g) : FncOf(h, b) = FncOf(g, b),
         Sorted(g) => Sorted(h)
  PROVE  Lays(g, h)
<1>1. Keeps(g, h)
  BY ListsKeep DEF Layout
<1>2. h.bbOf = g.bbOf /\ h.end = g.end /\ h.edges = g.edges
  BY DEF OnlyLists
<1>3. Code(h)
  BY <1>2 DEF Layout, Code, BytesOk, Solid, Falls
<1>4. NoFunctionInside(h) => NoFunctionInside(g)
  BY <1>2 DEF NoFunctionInside, Inside, KeepsFunctions
<1>5. \A x \in DOMAIN g.bbOf : FncOf(h, g.bbOf[x]) = FncOf(g, g.bbOf[x])
  BY DEF Layout, Structure, InsnsOk
<1>6. \A e \in g.edges : e.at \in DOMAIN g.bbOf /\ FncOf(h, e.to) = FncOf(g, e.to)
  BY DEF Layout, Structure, EdgesOk
<1>7. Inner(g) => Inner(h)
  BY <1>2, <1>5, <1>6 DEF Inner
<1>8. Seams(h) = Seams(g) /\ \A e \in Seams(g) : e \in g.edges
  BY <1>2 DEF Seams
<1>9. ASSUME NEW s, NEW m, Linked(g, s, m) PROVE Linked(h, s, m)
  <2>1. Full(h, s) /\ FncOf(h, s) = FncOf(g, s)
    BY <1>2, <1>5, <1>9 DEF Linked, Full
  <2> QED
    BY <1>2, <1>5, <1>6, <1>8, <1>9, <2>1 DEF Linked, Over
<1> QED
  BY <1>1, <1>2, <1>3, <1>4, <1>7, <1>9 DEF Lays, Layout, Keeps

\* A new function keeps the layout.
LEMMA CreateFunctionLays ==
  ASSUME NEW g, Layout(g), NEW a \in Nat, a \notin Blocks(g)
  PROVE  Lays(g, CreateFunction(g, a)) /\ a \in DOMAIN CreateFunction(g, a).fncs
<1>1. PICK h : h = CreateFunction(g, a)
  OBVIOUS
<1>2. Structure(g) /\ HasParts(g) /\ ListsOk(g.fncs)
  BY DEF Layout, Structure
<1>3. /\ OnlyLists(g, h) /\ ListsOk(h.fncs) /\ a \in DOMAIN h.fncs
      /\ Blocks(g) \subseteq Blocks(h)
  BY <1>1, <1>2, CreatingFunction
<1>4. /\ \A b \in Blocks(g) : FncOf(h, b) = FncOf(g, b)
      /\ \A b, c : Before(h, b, c) => Before(g, b, c)
      /\ KeepsFunctions(g, h)
  BY <1>1, <1>2, OrderWithFunction
<1>5. \A b, c : Hidden(g, c, b) => Hidden(h, c, b)
  BY <1>3 DEF OnlyLists, Hidden, Seams
<1>6. Sorted(g) => Sorted(h)
  BY <1>4, <1>5 DEF Sorted
<1> QED
  BY <1>1, <1>3, <1>4, <1>6, ListsLay

\* So does a new block, behind the greatest block before its address.
LEMMA CreateBlockLays ==
  ASSUME NEW g, Layout(g), NEW a \in Nat, a \notin Blocks(g),
         \/ GetBasicBlockBeforeAddress(g, a) # NoAddr
         \/ \E b \in Blocks(g) : b <= a
  PROVE  Lays(g, CreateBlockAt(g, a)) /\ a \in Blocks(CreateBlockAt(g, a))
<1>1. PICK h : h = CreateBlockAt(g, a)
  OBVIOUS
<1>2. PICK d : d = GetBasicBlockBeforeAddress(g, a)
  OBVIOUS
<1>3. Structure(g) /\ HasParts(g) /\ ListsOk(g.fncs)
  BY DEF Layout, Structure
<1>4. \A b \in Blocks(g) : b \in Nat
  BY <1>3, BlocksOfLists
<1>5. d \in Blocks(g) /\ d < a /\ \A b \in Blocks(g) : b <= a => b <= d
  BY <1>2, <1>3, <1>4, BlockBeforeAddress
<1>6. /\ OnlyLists(g, h) /\ ListsOk(h.fncs)
      /\ \A b : b \in Blocks(h) <=> b \in Blocks(g) \/ b = a
  BY <1>1, <1>2, <1>3, <1>5, CreatingBlock DEF CreateBlockAt
<1>7. /\ \A b \in Blocks(g) : FncOf(h, b) = FncOf(g, b)
      /\ \A b, c \in Blocks(g) : Before(h, b, c) => Before(g, b, c)
      /\ \A b \in Blocks(g) : Before(h, b, a) => b = d \/ Before(g, b, d)
      /\ \A c \in Blocks(g) : Before(h, a, c) => Before(g, d, c)
      /\ DOMAIN h.fncs = DOMAIN g.fncs
      /\ \A f \in DOMAIN g.fncs : g.fncs[f] # <<>> => h.fncs[f] # <<>>
  BY <1>1, <1>2, <1>3, <1>5, OrderWithBlock DEF CreateBlockAt
<1>8. \A b, c : Hidden(g, c, b) => Hidden(h, c, b)
  BY <1>6 DEF OnlyLists, Hidden, Seams
<1>9. ASSUME Sorted(g), NEW b, NEW c, Before(h, b, c), c < b PROVE Hidden(g, c, b)
  <2>1. b \in Blocks(h) /\ c \in Blocks(h)
    BY <1>9 DEF Before
  <2>2. CASE b \in Blocks(g) /\ c \in Blocks(g)
    BY <1>7, <1>9, <2>2 DEF Sorted
  <2>3. CASE b \in Blocks(g) /\ c = a
    <3>1. Before(g, b, d) /\ d < b
      BY <1>4, <1>5, <1>7, <1>9, <2>3
    <3>2. PICK e \in Seams(g) : g.bbOf[e.at] < d /\ d < e.to /\ e.to <= b
      BY <1>9, <3>1 DEF Sorted, Hidden
    <3>3. e.to \in Blocks(g) /\ e.to \in Nat /\ g.bbOf[e.at] \in Nat
      BY SeamParts DEF Layout
    <3>4. g.bbOf[e.at] < a /\ a < e.to
      BY <1>4, <1>5, <3>2, <3>3
    <3> QED
      BY <2>3, <3>2, <3>4 DEF Hidden
  <2>4. CASE b = a /\ c \in Blocks(g)
    <3>1. Before(g, d, c) /\ c <= d
      BY <1>4, <1>5, <1>7, <1>9, <2>4
    <3>2. c < d
      BY <1>3, <1>4, <1>5, <2>4, <3>1, OrderOfBlocks
    <3>3. PICK e \in Seams(g) : g.bbOf[e.at] < c /\ c < e.to /\ e.to <= d
      BY <1>9, <3>1, <3>2 DEF Sorted, Hidden
    <3>4. e.to \in Nat
      BY SeamParts DEF Layout
    <3>5. e.to <= a
      BY <1>4, <1>5, <3>3, <3>4
    <3> QED
      BY <2>4, <3>3, <3>5 DEF Hidden
  <2>5. CASE b = a /\ c = a
    BY <1>9, <2>5
  <2> QED
    BY <1>6, <2>1, <2>2, <2>3, <2>4, <2>5
<1>10. Sorted(g) => Sorted(h)
  BY <1>8, <1>9 DEF Sorted
<1>11. Blocks(g) \subseteq Blocks(h) /\ KeepsFunctions(g, h)
  BY <1>6, <1>7 DEF KeepsFunctions
<1> QED
  BY <1>1, <1>6, <1>7, <1>10, <1>11, ListsLay

\* Cutting a block in two keeps the layout: the branch between the parts is a
\* seam.
LEMMA MakeStartLays ==
  ASSUME NEW g, Layout(g), NEW a \in DOMAIN g.bbOf, a \notin Blocks(g)
  PROVE  Lays(g, MakeStart(g, a)) /\ a \in Blocks(MakeStart(g, a))
<1>1. Structure(g) /\ HasParts(g) /\ ListsOk(g.fncs) /\ BytesOk(g) /\ Solid(g) /\ Falls(g)
      /\ Code(g)
  BY DEF Layout, Structure, Code
<1>2. PICK b : b = g.bbOf[a]
  OBVIOUS
<1>3. PICK h : h = MakeStart(g, a)
  OBVIOUS
<1>4. /\ a \in Nat /\ b \in Nat /\ b \in Blocks(g) /\ b < a
      /\ b \in DOMAIN g.bbOf /\ g.bbOf[b] = b
      /\ \E prev : StartMade(g, a, h, prev, b)
  BY <1>1, <1>2, <1>3, MakingStart
<1>5. PICK prev : StartMade(g, a, h, prev, b)
  BY <1>4
<1>6. /\ HasParts(h) /\ h.fncs = CreateBasicBlock(g, a, b).fncs /\ h.end = g.end
      /\ DOMAIN h.bbOf = DOMAIN g.bbOf
      /\ h.edges = g.edges \cup {[at |-> prev, to |-> a, kind |-> "br"]}
      /\ prev \in DOMAIN g.bbOf /\ g.bbOf[prev] = b /\ prev < a
  BY <1>5 DEF StartMade
<1>7. \A x \in DOMAIN g.bbOf :
        h.bbOf[x] = IF g.bbOf[x] = b /\ x >= a THEN a ELSE g.bbOf[x]
  BY <1>5 DEF StartMade
<1>8. \A x \in DOMAIN g.bbOf : g.bbOf[x] = b /\ x < a => x <= prev
  BY <1>5 DEF StartMade
<1>9. Keeps(g, h) /\ a \in Blocks(h) /\ Structure(h)
  BY <1>1, <1>3, MakeStartKeeps DEF Keeps
<1>10. \A x \in DOMAIN g.bbOf :
         /\ x \in Nat /\ g.bbOf[x] \in Nat /\ g.bbOf[x] <= x /\ g.bbOf[x] # a
         /\ g.bbOf[x] \in Blocks(g)
  BY <1>1, BlocksOfLists DEF Structure, InsnsOk
<1>11. \A x \in DOMAIN g.bbOf : g.end[x] \in Nat /\ x < g.end[x]
  BY <1>1 DEF BytesOk
<1>12. \A x, y \in DOMAIN g.bbOf : x < y => g.end[x] <= y
  BY <1>1 DEF BytesOk
\* Every byte of b before a is one of an instruction of b before a.
<1>13. ASSUME NEW p \in Nat, b <= p, p < a
       PROVE  \E w \in DOMAIN g.bbOf : g.bbOf[w] = b /\ w < a /\ w <= p /\ p < g.end[w]
  <2>1. PICK w \in DOMAIN g.bbOf : w <= p /\ p < g.end[w]
    BY <1>1, <1>2, <1>4, <1>13 DEF Solid
  <2>2. b <= w
    BY <1>4, <1>10, <1>11, <1>12, <1>13, <2>1
  <2>3. w <= a /\ w < a
    BY <1>4, <1>10, <1>13, <2>1
  <2>4. g.bbOf[w] = b
    BY <1>1, <1>2, <1>4, <2>2, <2>3 DEF Solid
  <2> QED
    BY <2>1, <2>3, <2>4
<1>14. g.end[prev] = a
  <2>1. g.end[prev] \in Nat /\ g.end[prev] <= a /\ prev < g.end[prev] /\ prev \in Nat /\ b <= prev
    BY <1>4, <1>6, <1>10, <1>11, <1>12
  <2> SUFFICES ASSUME g.end[prev] < a PROVE FALSE
    BY <1>4, <2>1
  <2>2. PICK w \in DOMAIN g.bbOf :
          g.bbOf[w] = b /\ w < a /\ w <= g.end[prev] /\ g.end[prev] < g.end[w]
    BY <1>4, <1>13, <2>1
  <2>3. w \in Nat /\ w <= prev /\ g.end[w] \in Nat
    BY <1>8, <1>10, <1>11, <2>2
  <2>4. w < prev => g.end[w] <= prev
    BY <1>6, <1>12
  <2>5. w # prev
    BY <2>1, <2>2
  <2> QED
    BY <2>1, <2>2, <2>3, <2>4, <2>5
<1>15. \A x \in DOMAIN g.bbOf :
         \/ h.bbOf[x] = a /\ g.bbOf[x] = b /\ x >= a
         \/ h.bbOf[x] = g.bbOf[x] /\ (g.bbOf[x] = b => x < a)
  BY <1>4, <1>7, <1>10
<1>16. Code(h)
  <2>1. BytesOk(h)
    BY <1>1, <1>6 DEF BytesOk
  <2>2. ASSUME NEW z \in DOMAIN g.bbOf, NEW w \in DOMAIN g.bbOf, h.bbOf[z] <= w, w <= z
        PROVE  h.bbOf[w] = h.bbOf[z]
    <3>1. g.bbOf[z] <= w
      BY <1>4, <1>10, <1>15, <2>2
    <3>2. g.bbOf[w] = g.bbOf[z]
      BY <1>1, <2>2, <3>1 DEF Solid
    <3>3. CASE g.bbOf[z] = b /\ z >= a
      BY <1>4, <1>7, <1>10, <2>2, <3>2, <3>3
    <3>4. CASE ~(g.bbOf[z] = b /\ z >= a)
      BY <1>4, <1>7, <1>10, <2>2, <3>2, <3>4
    <3> QED
      BY <3>3, <3>4
  <2>3. ASSUME NEW z \in DOMAIN g.bbOf, NEW p \in Nat, h.bbOf[z] <= p, p <= z
        PROVE  \E w \in DOMAIN g.bbOf : w <= p /\ p < g.end[w]
    <3>1. g.bbOf[z] <= p
      BY <1>4, <1>10, <1>15, <2>3
    <3> QED
      BY <1>1, <2>3, <3>1 DEF Solid
  <2>4. Solid(h)
    BY <1>6, <2>2, <2>3 DEF Solid
  <2>5. Falls(h)
    BY <1>1, <1>6 DEF Falls
  <2> QED
    BY <2>1, <2>4, <2>5 DEF Code
<1>17. ASSUME NEW x \in Blocks(g), Inside(g, x) PROVE Inside(h, x)
  <2>1. x \in Nat /\ x # a
    BY <1>1, BlocksOfLists
  <2>2. PICK z \in DOMAIN g.bbOf : g.bbOf[z] < x /\ x < g.end[z]
    BY <1>17 DEF Inside
  <2>3. CASE h.bbOf[z] = g.bbOf[z]
    BY <1>6, <2>2, <2>3 DEF Inside
  <2>4. CASE h.bbOf[z] = a /\ g.bbOf[z] = b /\ a < x
    BY <1>6, <2>2, <2>4 DEF Inside
  <2>5. CASE h.bbOf[z] = a /\ g.bbOf[z] = b /\ x < a
    <3>1. PICK w \in DOMAIN g.bbOf : g.bbOf[w] = b /\ w < a /\ w <= x /\ x < g.end[w]
      BY <1>4, <1>13, <2>1, <2>2, <2>5
    <3>2. h.bbOf[w] = b
      BY <1>4, <1>10, <1>15, <3>1
    <3> QED
      BY <1>6, <2>2, <2>5, <3>1, <3>2 DEF Inside
  <2> QED
    BY <1>4, <1>15, <2>1, <2>3, <2>4, <2>5
<1>18. PICK c : c = CreateBasicBlock(g, a, b)
  OBVIOUS
<1>19. /\ \A x \in Blocks(g) : FncOf(c, x) = FncOf(g, x)
       /\ FncOf(c, a) = FncOf(g, b)
       /\ \A x, y \in Blocks(g) : Before(c, x, y) => Before(g, x, y)
       /\ \A x \in Blocks(g) : Before(c, x, a) => x = b \/ Before(g, x, b)
       /\ \A y \in Blocks(g) : Before(c, a, y) => Before(g, b, y)
       /\ DOMAIN c.fncs = DOMAIN g.fncs
       /\ \A f \in DOMAIN g.fncs : g.fncs[f] # <<>> => c.fncs[f] # <<>>
  BY <1>1, <1>4, <1>18, OrderWithBlock
<1>20. h.fncs = c.fncs /\ Blocks(h) = Blocks(c) /\ \A x : x \in Blocks(c) <=> x \in Blocks(g) \/ x = a
  BY <1>1, <1>4, <1>6, <1>18, CreatingBlock DEF Blocks
<1>21. \A x : FncOf(h, x) = FncOf(c, x) /\ Pos(h, x) = Pos(c, x)
  BY <1>20 DEF FncOf, Pos, ListOf
<1>22. \A x, y : Before(h, x, y) => Before(c, x, y)
  BY <1>20, <1>21 DEF Before
<1>23. NoFunctionInside(h) => NoFunctionInside(g)
  <2> SUFFICES ASSUME NoFunctionInside(h), NEW f \in DOMAIN g.fncs, g.fncs[f] # <<>>, Inside(g, f)
               PROVE  FALSE
    BY DEF NoFunctionInside
  <2>1. f \in Blocks(g)
    <3>1. BlockList(f, g.fncs[f])
      BY <1>1 DEF ListsOk
    <3>2. f \in ToSet(g.fncs[f])
      BY <3>1, ElementsOfList DEF BlockList
    <3> QED
      BY <3>2 DEF Blocks
  <2> QED
    BY <1>17, <1>19, <1>20, <2>1 DEF NoFunctionInside
\* The seams.
<1>24. PICK new : new = [at |-> prev, to |-> a, kind |-> "br"]
  OBVIOUS
<1>25. new \in Seams(h) /\ new.to = a /\ h.bbOf[new.at] = b
  <2>1. h.bbOf[a] = a /\ h.bbOf[prev] = b
    BY <1>2, <1>4, <1>6, <1>7, <1>10
  <2> QED
    BY <1>6, <1>14, <1>24, <2>1 DEF Seams
<1>26. \A x : Full(g, x) => Full(h, x)
  BY <1>4, <1>6, <1>15 DEF Full
<1>27. ASSUME NEW e \in Seams(g)
       PROVE  /\ e \in Seams(h)
              /\ \/ h.bbOf[e.at] = g.bbOf[e.at] /\ g.bbOf[e.at] # b
                 \/ h.bbOf[e.at] = a /\ g.bbOf[e.at] = b /\ a < e.to
  <2>1. /\ e \in g.edges /\ e.kind = "br" /\ e.at \in DOMAIN g.bbOf /\ LastIn(g, e.at)
        /\ e.at \in Nat /\ e.to \in Nat /\ e.at < e.to /\ e.to = g.end[e.at] /\ Full(g, e.to)
    BY <1>1, SeamParts
  <2>2. e \in Seams(h)
    BY <1>6, <1>26, <2>1 DEF Seams, Full
  <2>3. g.bbOf[e.at] = b => a <= e.at
    BY <1>2, <2>1 DEF LastIn
  <2>4. g.bbOf[e.at] = b => h.bbOf[e.at] = a /\ a < e.to
    BY <1>4, <1>7, <2>1, <2>3
  <2>5. g.bbOf[e.at] # b => h.bbOf[e.at] = g.bbOf[e.at]
    BY <1>7, <2>1
  <2> QED
    BY <2>2, <2>4, <2>5
\* A place that a seam leads over: a seam of h does.
<1>28. ASSUME Sorted(g), NEW x, NEW y, Before(h, x, y), y < x PROVE Hidden(h, y, x)
  <2>1. x \in Blocks(h) /\ y \in Blocks(h) /\ x \in Nat /\ y \in Nat /\ Before(c, x, y)
    BY <1>9, <1>22, <1>28, BlocksOfLists DEF Before, Structure
  <2>2. CASE x \in Blocks(g) /\ y \in Blocks(g)
    <3>1. PICK e \in Seams(g) : g.bbOf[e.at] < y /\ y < e.to /\ e.to <= x
      BY <1>19, <1>28, <2>1, <2>2 DEF Sorted, Hidden
    <3>2. e.to \in Nat /\ y # a
      BY <1>1, <2>2, SeamParts
    <3>3. CASE g.bbOf[e.at] # b
      BY <1>27, <3>1, <3>3 DEF Hidden
    <3>4. CASE g.bbOf[e.at] = b /\ a < y
      BY <1>27, <3>1, <3>4 DEF Hidden
    <3>5. CASE g.bbOf[e.at] = b /\ y < a
      <4>1. h.bbOf[new.at] < y /\ y < new.to /\ new.to <= x
        BY <1>4, <1>25, <1>27, <2>1, <3>1, <3>2, <3>5
      <4> QED
        BY <1>25, <4>1 DEF Hidden
    <3> QED
      BY <1>4, <2>1, <3>2, <3>3, <3>4, <3>5
  <2>3. CASE x \in Blocks(g) /\ y = a
    <3>1. Before(g, x, b) /\ b < x
      BY <1>4, <1>19, <1>28, <2>1, <2>3
    <3>2. Hidden(g, b, x)
      BY <1>28, <3>1 DEF Sorted
    <3>3. Full(g, b)
      BY <1>4 DEF Full
    <3> QED
      BY <1>1, <3>2, <3>3, HiddenBlock
  <2>4. CASE x = a /\ y \in Blocks(g)
    <3>1. Before(g, b, y) /\ y # b
      BY <1>1, <1>19, <2>1, <2>4, OrderOfBlocks
    <3>2. CASE y < b
      <4>1. PICK e \in Seams(g) : g.bbOf[e.at] < y /\ y < e.to /\ e.to <= b
        BY <1>28, <3>1, <3>2 DEF Sorted, Hidden
      <4>2. e.to \in Nat /\ g.bbOf[e.at] \in Nat
        BY <1>1, SeamParts
      <4>3. g.bbOf[e.at] # b /\ e.to <= a
        BY <1>4, <2>1, <3>2, <4>1, <4>2
      <4> QED
        BY <1>27, <2>4, <4>1, <4>3 DEF Hidden
    <3>3. CASE b < y
      <4>1. h.bbOf[new.at] < y /\ y < new.to /\ new.to <= x
        BY <1>4, <1>25, <1>28, <2>1, <2>4, <3>3
      <4> QED
        BY <1>25, <4>1 DEF Hidden
    <3> QED
      BY <1>4, <2>1, <3>1, <3>2, <3>3
  <2>5. CASE x = a /\ y = a
    BY <1>4, <1>28, <2>5
  <2> QED
    BY <1>20, <2>1, <2>2, <2>3, <2>4, <2>5
<1>29. Sorted(g) => Sorted(h)
  BY <1>28 DEF Sorted
<1>30. \A x \in DOMAIN g.bbOf : FncOf(h, h.bbOf[x]) = FncOf(g, g.bbOf[x])
  BY <1>10, <1>15, <1>19, <1>21
<1>31. \A x \in Blocks(g) : FncOf(h, x) = FncOf(g, x)
  BY <1>19, <1>21
<1>32. ASSUME Inner(g) PROVE Inner(h)
  <2>1. ASSUME NEW e \in g.edges
        PROVE  FncOf(h, h.bbOf[e.at]) = FncOf(h, e.to) /\ e.to # FncOf(h, e.to)
    <3>1. e.at \in DOMAIN g.bbOf /\ e.to \in Blocks(g)
      BY <1>1 DEF Structure, EdgesOk
    <3> QED
      BY <1>30, <1>31, <1>32, <3>1 DEF Inner
  <2>2. FncOf(h, h.bbOf[new.at]) = FncOf(h, new.to) /\ new.to # FncOf(h, new.to)
    <3>1. FncOf(h, b) = FncOf(g, b) /\ FncOf(h, a) = FncOf(g, b) /\ FncOf(g, b) \in Blocks(g)
      BY <1>1, <1>4, <1>19, <1>21, OrderOfBlocks
    <3> QED
      BY <1>25, <3>1
  <2> QED
    BY <1>6, <1>24, <2>1, <2>2 DEF Inner
<1>33. ASSUME Inner(g), NEW s, NEW m, Linked(g, s, m) PROVE Linked(h, s, m)
  <2>1. /\ Full(g, s) /\ m \in DOMAIN g.bbOf /\ s <= g.bbOf[m]
        /\ FncOf(g, s) = FncOf(g, g.bbOf[m])
    BY <1>33 DEF Linked
  <2>2. /\ Full(h, s) /\ s \in Nat /\ s \in Blocks(g) /\ FncOf(h, s) = FncOf(g, s)
    <3>1. s \in DOMAIN g.bbOf /\ g.bbOf[s] = s
      BY <2>1 DEF Full
    <3> QED
      BY <1>10, <1>26, <1>31, <2>1, <3>1
  <2>3. s <= h.bbOf[m] /\ FncOf(h, s) = FncOf(h, h.bbOf[m])
    BY <1>4, <1>10, <1>15, <1>30, <2>1, <2>2
  <2>4. ASSUME NEW p \in Nat, s < p, p <= h.bbOf[m]
        PROVE  \E e \in Seams(h) : Over(h, e, p) /\ FncOf(h, e.to) = FncOf(h, s)
    <3>1. CASE p <= g.bbOf[m]
      <4>1. PICK e \in Seams(g) : Over(g, e, p) /\ FncOf(g, e.to) = FncOf(g, s)
        BY <1>33, <2>4, <3>1 DEF Linked
      <4>2. /\ e.to \in Blocks(g) /\ e \in g.edges /\ e.to \in Nat /\ e.at \in DOMAIN g.bbOf
            /\ g.bbOf[e.at] \in Nat
        BY <1>1, SeamParts
      <4>3. FncOf(h, e.to) = FncOf(h, s)
        BY <1>31, <2>2, <4>1, <4>2
      <4>4. CASE g.bbOf[e.at] # b
        BY <1>27, <4>1, <4>3, <4>4 DEF Over
      <4>5. CASE g.bbOf[e.at] = b /\ a < p
        BY <1>27, <4>1, <4>3, <4>5 DEF Over
      <4>6. CASE g.bbOf[e.at] = b /\ p <= a
        <5>1. FncOf(g, b) = FncOf(g, e.to)
          BY <1>33, <4>2, <4>6 DEF Inner
        <5>2. FncOf(h, new.to) = FncOf(h, s)
          BY <1>19, <1>21, <1>25, <2>2, <4>1, <5>1
        <5>3. Over(h, new, p)
          BY <1>25, <4>1, <4>6 DEF Over
        <5> QED
          BY <1>25, <5>2, <5>3
      <4> QED
        BY <1>4, <4>4, <4>5, <4>6
    <3>2. CASE ~(p <= g.bbOf[m])
      <4>1. h.bbOf[m] = a /\ g.bbOf[m] = b /\ b < p /\ p <= a
        BY <1>4, <1>10, <1>15, <2>1, <2>4, <3>2
      <4>2. Over(h, new, p)
        BY <1>25, <4>1 DEF Over
      <4>3. FncOf(h, new.to) = FncOf(h, s)
        BY <1>19, <1>21, <1>25, <2>1, <2>2, <4>1
      <4> QED
        BY <1>25, <4>2, <4>3
    <3> QED
      BY <3>1, <3>2
  <2> QED
    BY <1>6, <2>1, <2>2, <2>3, <2>4 DEF Linked
<1>34. NoFunctionInside(h) => NoFunctionInside(g) /\ \A s, m : Linked(g, s, m) => Linked(h, s, m)
  BY <1>23, <1>33 DEF Layout
<1>35. Layout(h)
  BY <1>9, <1>16, <1>23, <1>29, <1>32 DEF Layout
<1> QED
  BY <1>3, <1>6, <1>9, <1>34, <1>35 DEF Lays

\* The instruction that a block with instructions begins with.
LEMMA AsmInsnOfFull ==
  ASSUME NEW g, Structure(g), NEW b, Full(g, b)
  PROVE  AsmInsnOf(g, b) = b
<1>1. PICK S : S = InsnsOf(g, b)
  OBVIOUS
<1>2. b \in S /\ S \in SUBSET Nat /\ \A x \in S : b <= x
  BY <1>1 DEF Full, InsnsOf, Structure, InsnsOk
<1>3. Min(S) \in S /\ \A x \in S : Min(S) <= x
  BY <1>2, MinOfNats
<1>4. Min(S) = b
  <2>1. Min(S) \in Nat /\ b \in Nat /\ Min(S) <= b /\ b <= Min(S)
    BY <1>2, <1>3
  <2> QED
    BY <2>1
<1> QED
  BY <1>1, <1>2, <1>4 DEF AsmInsnOf

\* The parts of addresses with a start in between differ.
LEMMA PartsDiffer ==
  ASSUME NEW starts \in SUBSET Nat, NEW x \in Nat, NEW y \in Nat, NEW z \in starts,
         x < z, z <= y
  PROVE  PartOf(starts, x) # PartOf(starts, y)
<1>1. PICK S : S = {s \in starts : s <= x}
  OBVIOUS
<1>2. PICK T : T = {s \in starts : s <= y}
  OBVIOUS
<1>3. T # {} /\ z \in T /\ T \in SUBSET Nat /\ \A s \in T : s <= y
  BY <1>2
<1>4. Max(T) \in T /\ \A s \in T : s <= Max(T)
  BY <1>3, MaxOfNats
<1>5. S \in SUBSET Nat /\ \A s \in S : s <= x
  BY <1>1
<1>6. S # {} => Max(S) \in S
  BY <1>5, MaxOfNats
<1>7. PartOf(starts, y) = Max(T) /\ PartOf(starts, x) = IF S = {} THEN 0 ELSE Max(S)
  BY <1>1, <1>2, <1>3 DEF PartOf, MaxOrNone, NoAddr
<1>8. Max(T) \in Nat /\ z \in Nat /\ z <= Max(T)
  BY <1>3, <1>4
<1>9. S # {} => Max(S) \in Nat /\ Max(S) <= x
  BY <1>5, <1>6
<1>10. PartOf(starts, x) \in Nat /\ PartOf(starts, x) <= x
  BY <1>7, <1>9
<1> QED
  BY <1>7, <1>8, <1>10

\* Where a function can be split, no start is between a seam's two blocks, nor
\* between a conditional branch and its fall-through.
LEMMA NothingCut ==
  ASSUME NEW g, Structure(g), Code(g), NEW f \in DOMAIN g.fncs, NEW a,
         NEW starts, \A x \in starts : x \in ToSet(g.fncs[f]),
         CanSplitFunctionOn(g, f, a, starts),
         NEW e \in g.edges, e.to \in ToSet(g.fncs[f]),
         e \in Seams(g) \/ e.kind # "br",
         NEW z \in starts
  PROVE  ~Over(g, e, z)
<1> SUFFICES ASSUME Over(g, e, z) PROVE FALSE
  OBVIOUS
<1>1. \A x \in ToSet(g.fncs[f]) : x \in Blocks(g) /\ x \in Nat
  BY BlocksOfLists DEF Structure
<1>2. e.at \in DOMAIN g.bbOf /\ g.bbOf[e.at] \in Nat /\ e.to \in Nat
  BY <1>1, BlocksOfLists DEF Structure, EdgesOk, InsnsOk
<1>3. starts \in SUBSET Nat
  BY <1>1
<1>4. PartOf(starts, g.bbOf[e.at]) # PartOf(starts, e.to)
  BY <1>2, <1>3, PartsDiffer DEF Over
<1>5. e.to \in Crossed(g, f, starts)
  BY <1>4 DEF Crossed
<1>6. CanSplitOnBlock(g, e.to)
  BY <1>5 DEF CanSplitFunctionOn
<1>7. e.kind = "br" /\ g.end[e.at] # AsmInsnOf(g, e.to)
  BY <1>6 DEF CanSplitOnBlock
<1>8. e \in Seams(g) /\ e.to = g.end[e.at] /\ Full(g, e.to)
  BY <1>7, SeamParts
<1> QED
  BY <1>7, <1>8, AsmInsnOfFull

\* The blocks x and y stay together when a function is split at the starts: x
\* has instructions, y does not begin inside of code, and there is no start in
\* between.
LEMMA StayInOrder ==
  ASSUME NEW g, Structure(g), Code(g), Sorted(g),
         NEW f \in DOMAIN g.fncs, g.fncs[f] # <<>>, NEW starts,
         f \in starts, \A x \in starts : x \in ToSet(g.fncs[f]),
         \A x \in starts : ~Inside(g, x),
         NEW h, h = Splice(g, g.fncs[f], f, starts),
         NEW x, NEW y, x \in Blocks(g), y \in Blocks(g), x < y, Full(g, x),
         FncOf(g, x) = f, FncOf(g, y) = f,
         ~Inside(g, y),
         \A z \in starts : ~(x < z /\ z <= y)
  PROVE  FncOf(h, x) = FncOf(h, y)
<1>1. ListsOk(g.fncs)
  BY DEF Structure
<1>2. /\ \A b \in Blocks(g) : b \in Nat
      /\ \A z \in starts : z \in Blocks(g) /\ FncOf(g, z) = f
  <2>1. \A z \in starts : z \in Blocks(g)
    BY DEF Blocks
  <2> QED
    BY <1>1, <2>1, BlocksOfLists, FunctionOfBlock
<1>3. Before(g, x, y)
  <2>1. x = y \/ Before(g, x, y) \/ Before(g, y, x)
    BY <1>1, OrderOfBlocks
  <2>2. ~Before(g, y, x)
    BY HiddenBlock DEF Sorted
  <2> QED
    BY <1>2, <2>1, <2>2
<1>5. ASSUME NEW z \in starts, Before(g, x, z), z = y \/ Before(g, z, y) PROVE FALSE
  <2>1. z \in Nat /\ x \in Nat /\ y \in Nat /\ z # x
    BY <1>1, <1>2, <1>5, OrderOfBlocks
  <2>2. CASE z < x
    <3>1. Hidden(g, z, x)
      BY <1>5, <2>2 DEF Sorted
    <3> QED
      BY <3>1, HiddenBlock
  <2>3. CASE z > y
    <3>1. Hidden(g, y, z)
      BY <1>5, <2>1, <2>3 DEF Sorted
    <3> QED
      BY <3>1, HiddenBlock
  <2> QED
    BY <2>1, <2>2, <2>3
<1>6. /\ FncOf(h, x) \in starts /\ (FncOf(h, x) = x \/ Before(g, FncOf(h, x), x))
      /\ \A z \in starts : z = x \/ Before(g, z, x) =>
           z = FncOf(h, x) \/ Before(g, z, FncOf(h, x))
  BY OrderAfterSplice
<1>7. /\ FncOf(h, y) \in starts /\ (FncOf(h, y) = y \/ Before(g, FncOf(h, y), y))
      /\ \A z \in starts : z = y \/ Before(g, z, y) =>
           z = FncOf(h, y) \/ Before(g, z, FncOf(h, y))
  BY OrderAfterSplice
<1>8. PICK p : p = FncOf(h, x)
  OBVIOUS
<1>9. PICK q : q = FncOf(h, y)
  OBVIOUS
<1>10. q = x \/ Before(g, q, x)
  <2>1. q \in Blocks(g) /\ FncOf(g, q) = f
    BY <1>2, <1>7, <1>9
  <2>2. q = x \/ Before(g, q, x) \/ Before(g, x, q)
    BY <1>1, <2>1, OrderOfBlocks
  <2> QED
    BY <1>5, <1>7, <1>9, <2>2
<1>11. q = p \/ Before(g, q, p)
  BY <1>6, <1>7, <1>8, <1>9, <1>10
<1>12. Before(g, p, y)
  <2>1. \A b, c, d : Before(g, b, c) /\ Before(g, c, d) => Before(g, b, d)
    BY <1>1, OrderOfBlocks
  <2> QED
    BY <1>3, <1>6, <1>8, <2>1
<1>13. p = q \/ Before(g, p, q)
  BY <1>6, <1>7, <1>8, <1>9, <1>12
<1>14. p = q
  BY <1>1, <1>11, <1>13, OrderOfBlocks
<1> QED
  BY <1>8, <1>9, <1>14

\* So they do when y has instructions or follows on those of x.
LEMMA StayTogether ==
  ASSUME NEW g, Structure(g), Code(g), Sorted(g),
         NEW f \in DOMAIN g.fncs, g.fncs[f] # <<>>, NEW starts,
         f \in starts, \A x \in starts : x \in ToSet(g.fncs[f]),
         \A x \in starts : ~Inside(g, x),
         NEW h, h = Splice(g, g.fncs[f], f, starts),
         NEW x, NEW y, x \in Blocks(g), y \in Blocks(g), x < y, Full(g, x),
         FncOf(g, x) = f, FncOf(g, y) = f,
         Full(g, y) \/ \E e \in g.edges : g.bbOf[e.at] = x /\ g.end[e.at] = y,
         \A z \in starts : ~(x < z /\ z <= y)
  PROVE  FncOf(h, x) = FncOf(h, y)
<1>1. ListsOk(g.fncs)
  BY DEF Structure
<1>2. /\ \A b \in Blocks(g) : b \in Nat
      /\ \A z \in starts : z \in Blocks(g) /\ FncOf(g, z) = f
  <2>1. \A z \in starts : z \in Blocks(g)
    BY DEF Blocks
  <2> QED
    BY <1>1, <2>1, BlocksOfLists, FunctionOfBlock
<1>3. ~Inside(g, y)
  <2> SUFFICES ASSUME NEW w \in DOMAIN g.bbOf, g.bbOf[w] < y, y < g.end[w] PROVE FALSE
    BY DEF Inside
  <2>1. w \in Nat /\ g.bbOf[w] \in Nat /\ y \in Nat /\ g.end[w] \in Nat
    BY <1>2 DEF Structure, InsnsOk, Code, BytesOk
  <2>2. CASE Full(g, y)
    <3>1. y \in DOMAIN g.bbOf /\ g.bbOf[y] = y
      BY <2>2 DEF Full
    <3>2. y <= w
      BY <2>1, <3>1 DEF Code, BytesOk
    <3>3. g.bbOf[y] = g.bbOf[w]
      BY <2>1, <3>1, <3>2 DEF Code, Solid
    <3> QED
      BY <2>1, <3>1, <3>3
  <2>3. CASE \E e \in g.edges : g.bbOf[e.at] = x /\ g.end[e.at] = y
    <3>1. PICK e \in g.edges : g.bbOf[e.at] = x /\ g.end[e.at] = y
      BY <2>3
    <3>2. e.at \in DOMAIN g.bbOf /\ LastIn(g, e.at) /\ e.at \in Nat /\ e.at < y
      BY <3>1 DEF Structure, EdgesOk, InsnsOk, Code, BytesOk
    <3>3. e.at < w
      <4>1. e.at # w
        BY <2>1, <3>1
      <4>2. ~(w < e.at)
        BY <2>1, <3>2 DEF Code, BytesOk
      <4> QED
        BY <2>1, <3>2, <4>1, <4>2
    <3>4. g.bbOf[w] <= e.at
      <4>1. g.bbOf[w] \in DOMAIN g.bbOf
        BY DEF Structure, InsnsOk
      <4> QED
        BY <2>1, <3>1, <3>2, <4>1 DEF Code, BytesOk
    <3>5. g.bbOf[e.at] = g.bbOf[w]
      BY <2>1, <3>2, <3>3, <3>4 DEF Code, Solid
    <3> QED
      BY <2>1, <3>2, <3>3, <3>5 DEF LastIn
  <2> QED
    BY <2>2, <2>3
<1> QED
  BY <1>3, StayInOrder

\* splitFunctionOn keeps the layout.
LEMMA SplitLays ==
  ASSUME NEW g, Layout(g), NEW f \in DOMAIN g.fncs, g.fncs[f] # <<>>, NEW a,
         NEW starts, f \in starts, \A x \in starts : x \in ToSet(g.fncs[f]),
         CanSplitFunctionOn(g, f, a, starts),
         NEW k, k = BranchesToCalls(Splice(g, g.fncs[f], f, starts), starts)
  PROVE  Lays(g, k) /\ starts \subseteq DOMAIN k.fncs
<1>1. Structure(g) /\ HasParts(g) /\ ListsOk(g.fncs) /\ Code(g)
  BY DEF Layout, Structure
<1>2. PICK h : h = Splice(g, g.fncs[f], f, starts)
  OBVIOUS
<1>3. Keeps(g, h) /\ Structure(h) /\ starts \subseteq DOMAIN h.fncs
  BY <1>1, <1>2, SpliceKeeps DEF Keeps
<1>4. PICK out : out = CallsOut(h, starts)
  OBVIOUS
<1>5. k = DropEdges(h, out) /\ Keeps(h, k) /\ Structure(k)
  BY <1>2, <1>3, <1>4, DroppingKeeps DEF BranchesToCalls, Keeps
<1>6. Keeps(g, k)
  BY <1>3, <1>5, KeepsTrans
<1>7. /\ OnlyLists(g, h) /\ KeepsFunctions(g, h)
      /\ \A x \in starts : h.fncs[x] # <<>>
      /\ \A b, c : Before(h, b, c) => Before(g, b, c)
      /\ \A b \in Blocks(g) : FncOf(g, b) # f => FncOf(h, b) = FncOf(g, b)
      /\ \A b \in Blocks(g) : FncOf(g, b) = f => FncOf(h, b) \in starts
  BY <1>1, <1>2, OrderAfterSplice
<1>8. /\ k.fncs = h.fncs /\ k.bbOf = g.bbOf /\ k.end = g.end
      /\ \A e : e \in k.edges <=>
           /\ e \in g.edges /\ e \notin out
           /\ e.kind = "false" => \A o \in out : o.kind = "true" => o.at # e.at
  <2>1. k.fncs = h.fncs /\ k.bbOf = h.bbOf /\ k.end = h.end
    BY <1>3, <1>5 DEF DropEdges, Structure, HasParts
  <2>2. k.edges = {e \in h.edges :
           /\ e \notin out
           /\ e.kind = "false" => \A o \in out : o.kind = "true" => o.at # e.at}
    BY <1>3, <1>5 DEF DropEdges, Structure, HasParts
  <2> QED
    BY <1>7, <2>1, <2>2 DEF OnlyLists
<1>9. Code(k)
  <2>1. BytesOk(k)
    BY <1>1, <1>8 DEF Code, BytesOk
  <2>2. Solid(k)
    BY <1>1, <1>8 DEF Code, Solid
  <2>3. Falls(k)
    BY <1>1, <1>8 DEF Code, Falls
  <2> QED
    BY <2>1, <2>2, <2>3 DEF Code
<1>10. \A x : FncOf(k, x) = FncOf(h, x) /\ Pos(k, x) = Pos(h, x)
  BY <1>8 DEF FncOf, Pos, ListOf
<1>11. Blocks(k) = Blocks(h)
  BY <1>8 DEF Blocks
<1>12. ASSUME NoFunctionInside(k)
       PROVE  /\ NoFunctionInside(g) /\ Sorted(k) /\ Inner(k)
              /\ \A s, m : Linked(g, s, m) => Linked(k, s, m)
  <2>1. \A x : Inside(k, x) <=> Inside(g, x)
    BY <1>8 DEF Inside
  <2>2. NoFunctionInside(g)
    BY <1>7, <1>8, <1>12, <2>1 DEF NoFunctionInside, KeepsFunctions
  <2>3. \A x \in starts : ~Inside(g, x)
    BY <1>3, <1>7, <1>8, <1>12, <2>1 DEF NoFunctionInside
  <2>4. Sorted(g) /\ Inner(g)
    BY <2>2 DEF Layout
  <2>5. \A x \in DOMAIN g.bbOf :
          /\ g.bbOf[x] \in Blocks(g) /\ Full(g, g.bbOf[x]) /\ g.bbOf[x] \in Nat
          /\ x \in Nat /\ g.bbOf[x] <= x /\ g.end[x] \in Nat /\ x < g.end[x]
    BY <1>1, BlocksOfLists DEF Structure, InsnsOk, Full, Code, BytesOk
  <2>6. \A e \in g.edges :
          /\ e.at \in DOMAIN g.bbOf /\ e.to \in Blocks(g) /\ e.to \in Nat
          /\ FncOf(g, g.bbOf[e.at]) = FncOf(g, e.to) /\ e.to # FncOf(g, e.to)
    BY <1>1, <2>4, BlocksOfLists DEF Structure, EdgesOk, Inner
  <2>7. ASSUME NEW b \in Blocks(g) PROVE FncOf(g, b) = f <=> b \in ToSet(g.fncs[f])
    BY <1>1, FunctionOfBlock
  \* No seam is cut, and no fall-through.
  <2>8. ASSUME NEW e \in g.edges, FncOf(g, e.to) = f, e \in Seams(g) \/ e.kind \notin {"br", "true"}
        PROVE  /\ FncOf(h, g.bbOf[e.at]) = FncOf(h, e.to) /\ e.to # FncOf(h, e.to)
               /\ \A z \in starts : ~Over(g, e, z)
    <3>1. e.to \in ToSet(g.fncs[f])
      BY <2>6, <2>7, <2>8
    <3>2. e \in Seams(g) \/ e.kind # "br"
      BY <2>8
    <3>3. \A z \in starts : ~Over(g, e, z)
      BY <1>1, <3>1, <3>2, NothingCut
    <3>4. \A z \in starts : ~(g.bbOf[e.at] < z /\ z <= e.to)
      BY <3>3 DEF Over
    <3>5. Full(g, e.to) \/ g.end[e.at] = e.to
      BY <1>1, <2>8, SeamParts DEF Code, Falls
    <3>6. g.bbOf[e.at] < e.to
      <4>1. g.end[e.at] = e.to
        BY <1>1, <2>8, SeamParts DEF Code, Falls
      <4> QED
        BY <2>5, <2>6, <4>1
    <3>7. FncOf(h, g.bbOf[e.at]) = FncOf(h, e.to)
      <4>1. Full(g, e.to) \/ \E d \in g.edges : g.bbOf[d.at] = g.bbOf[e.at] /\ g.end[d.at] = e.to
        BY <3>5
      <4>2. \A x, y \in Blocks(g) :
              /\ x < y /\ Full(g, x) /\ FncOf(g, x) = f /\ FncOf(g, y) = f
              /\ Full(g, y) \/ \E d \in g.edges : g.bbOf[d.at] = x /\ g.end[d.at] = y
              /\ \A z \in starts : ~(x < z /\ z <= y)
              => FncOf(h, x) = FncOf(h, y)
        BY <1>1, <1>2, <2>3, <2>4, StayTogether
      <4> QED
        BY <2>5, <2>6, <2>8, <3>4, <3>6, <4>1, <4>2
    <3>8. e.to \notin starts /\ FncOf(h, e.to) \in starts
      BY <1>7, <2>5, <2>6, <2>8, <3>4, <3>6
    <3> QED
      BY <3>3, <3>7, <3>8
  <2>9. \A e \in g.edges : FncOf(g, e.to) # f =>
          /\ FncOf(h, g.bbOf[e.at]) = FncOf(g, e.to) /\ FncOf(h, e.to) = FncOf(g, e.to)
          /\ FncOf(h, g.bbOf[e.at]) = FncOf(h, e.to) /\ e.to # FncOf(h, e.to)
    BY <1>7, <2>5, <2>6
  <2>10. \A b \in Blocks(g) : b \in Blocks(h) /\ (IsFirst(h, b) <=> b = FncOf(h, b))
    BY <1>3, OrderOfBlocks DEF Keeps, Structure
  <2>11. ASSUME NEW e \in Seams(g) PROVE e \in Seams(k) /\ e \notin out
    <3>1. e \in g.edges /\ e.kind = "br"
      BY <1>1, SeamParts
    <3>2. FncOf(h, g.bbOf[e.at]) = FncOf(h, e.to) /\ e.to # FncOf(h, e.to)
      BY <2>8, <2>9, <3>1
    <3>3. ~IsFirst(h, e.to)
      BY <2>6, <2>10, <3>1, <3>2
    <3>4. e \notin out
      BY <1>4, <1>7, <3>2, <3>3 DEF CallsOut, OnlyLists
    <3> QED
      BY <1>8, <3>1, <3>4 DEF Seams
  <2>12. Sorted(k)
    <3> SUFFICES ASSUME NEW b, NEW c, Before(k, b, c), c < b PROVE Hidden(k, c, b)
      BY DEF Sorted
    <3>1. Before(h, b, c)
      BY <1>10, <1>11 DEF Before
    <3>2. PICK e \in Seams(g) : g.bbOf[e.at] < c /\ c < e.to /\ e.to <= b
      BY <1>7, <2>4, <3>1 DEF Sorted, Hidden
    <3> QED
      BY <1>8, <2>11, <3>2 DEF Hidden
  <2>13. Inner(k)
    <3> SUFFICES ASSUME NEW e \in k.edges
                 PROVE  FncOf(h, g.bbOf[e.at]) = FncOf(h, e.to) /\ e.to # FncOf(h, e.to)
      BY <1>8, <1>10 DEF Inner
    <3>1. e \in g.edges /\ e \notin out
      BY <1>8
    <3>2. CASE FncOf(g, e.to) # f
      BY <2>9, <3>1, <3>2
    <3>3. CASE FncOf(g, e.to) = f /\ e.kind \notin {"br", "true"}
      BY <2>8, <3>1, <3>3
    <3>4. CASE FncOf(g, e.to) = f /\ e.kind \in {"br", "true"}
      <4>1. FncOf(h, g.bbOf[e.at]) \in starts
        BY <1>7, <2>5, <2>6, <3>1, <3>4
      <4>2. FncOf(h, e.to) = FncOf(h, g.bbOf[e.at]) /\ ~IsFirst(h, e.to)
        BY <1>4, <1>7, <3>1, <3>4, <4>1 DEF CallsOut, OnlyLists
      <4> QED
        BY <2>6, <2>10, <3>1, <4>2
    <3> QED
      BY <3>2, <3>3, <3>4
  <2>14. ASSUME NEW s, NEW m, Linked(g, s, m) PROVE Linked(k, s, m)
    <3>1. /\ Full(g, s) /\ m \in DOMAIN g.bbOf /\ s <= g.bbOf[m]
          /\ FncOf(g, s) = FncOf(g, g.bbOf[m])
      BY <2>14 DEF Linked
    <3>2. s \in Nat /\ s \in Blocks(g) /\ Full(k, s)
      BY <1>8, <2>5, <3>1 DEF Full
    <3>3. ASSUME NEW p \in Nat, s < p, p <= g.bbOf[m]
          PROVE  \E e \in Seams(g) : Over(g, e, p) /\ FncOf(g, e.to) = FncOf(g, s)
      BY <2>14, <3>3 DEF Linked
    <3>4. CASE FncOf(g, s) # f
      <4>1. FncOf(h, s) = FncOf(h, g.bbOf[m]) /\ FncOf(h, s) = FncOf(g, s)
        BY <1>7, <2>5, <3>1, <3>2, <3>4
      <4>2. ASSUME NEW p \in Nat, s < p, p <= g.bbOf[m]
            PROVE  \E e \in Seams(k) : Over(k, e, p) /\ FncOf(k, e.to) = FncOf(k, s)
        <5>1. PICK e \in Seams(g) : Over(g, e, p) /\ FncOf(g, e.to) = FncOf(g, s)
          BY <3>3, <4>2
        <5>2. e \in g.edges
          BY <1>1, SeamParts
        <5> QED
          BY <1>8, <1>10, <2>9, <2>11, <3>4, <4>1, <5>1, <5>2 DEF Over
      <4> QED
        BY <1>8, <1>10, <3>1, <3>2, <4>1, <4>2 DEF Linked
    <3>5. CASE FncOf(g, s) = f
      <4>1. ASSUME NEW z \in starts PROVE ~(s < z /\ z <= g.bbOf[m])
        <5> SUFFICES ASSUME s < z, z <= g.bbOf[m] PROVE FALSE
          OBVIOUS
        <5>1. z \in Nat
          BY <1>1, BlocksOfLists
        <5>2. PICK e \in Seams(g) : Over(g, e, z) /\ FncOf(g, e.to) = FncOf(g, s)
          BY <3>3, <5>1
        <5>3. e \in g.edges
          BY <1>1, SeamParts
        <5> QED
          BY <2>8, <3>5, <5>2, <5>3
      <4>2. ASSUME NEW y \in Blocks(g), Full(g, y), FncOf(g, y) = f, s <= y, y <= g.bbOf[m]
            PROVE  FncOf(h, s) = FncOf(h, y)
        <5>1. y \in Nat
          BY <1>1, BlocksOfLists
        <5>2. CASE s = y
          BY <5>2
        <5>3. CASE s < y
          <6>1. \A z \in starts : ~(s < z /\ z <= y)
            <7>1. \A z \in starts : z \in Nat
              BY <1>1, BlocksOfLists
            <7> QED
              BY <2>5, <3>1, <4>1, <4>2, <5>1, <7>1
          <6> QED
            BY <1>1, <1>2, <2>3, <2>4, <3>1, <3>2, <3>5, <4>2, <5>3, <6>1, StayTogether
        <5> QED
          BY <3>2, <4>2, <5>1, <5>2, <5>3
      <4>3. FncOf(h, s) = FncOf(h, g.bbOf[m])
        <5>1. /\ g.bbOf[m] \in Blocks(g) /\ Full(g, g.bbOf[m]) /\ FncOf(g, g.bbOf[m]) = f
              /\ s <= g.bbOf[m] /\ g.bbOf[m] <= g.bbOf[m]
          BY <2>5, <3>1, <3>5
        <5> QED
          BY <4>2, <5>1, Zenon
      <4>4. ASSUME NEW p \in Nat, s < p, p <= g.bbOf[m]
            PROVE  \E e \in Seams(k) : Over(k, e, p) /\ FncOf(k, e.to) = FncOf(k, s)
        <5>1. PICK e \in Seams(g) : Over(g, e, p) /\ FncOf(g, e.to) = FncOf(g, s)
          BY <3>3, <4>4
        <5>2. e \in g.edges /\ g.bbOf[e.at] \in Nat /\ e.at \in DOMAIN g.bbOf /\ e.to \in Nat
          BY <1>1, SeamParts
        <5>3. s <= g.bbOf[e.at] \/ e.to <= s
          BY <1>1, <3>1, SeamOverFull
        <5>4. s <= g.bbOf[e.at] /\ g.bbOf[e.at] <= g.bbOf[m]
          BY <2>5, <3>1, <3>2, <4>4, <5>1, <5>2, <5>3 DEF Over
        <5>5. FncOf(g, g.bbOf[e.at]) = f
          BY <2>6, <3>5, <5>1, <5>2
        <5>6. FncOf(h, s) = FncOf(h, g.bbOf[e.at])
          BY <2>5, <4>2, <5>2, <5>4, <5>5
        <5>7. FncOf(h, g.bbOf[e.at]) = FncOf(h, e.to)
          BY <2>8, <3>5, <5>1, <5>2
        <5> QED
          BY <1>8, <1>10, <2>11, <5>1, <5>6, <5>7 DEF Over
      <4> QED
        BY <1>8, <1>10, <3>1, <3>2, <4>3, <4>4 DEF Linked
    <3> QED
      BY <3>4, <3>5
  <2> QED
    BY <2>2, <2>12, <2>13, <2>14
<1> QED
  BY <1>3, <1>5, <1>6, <1>8, <1>9, <1>12 DEF Lays, Layout

-----------------------------------------------------------------------------
(* The operations keep the layout *)

\* The result of a look-up for the address a: the function and the block, where
\* there are any, are those at a.
ResultOk(g, r, a) ==
  /\ Lays(g, r.ir)
  /\ r.fnc # NoAddr => r.fnc = a /\ a \in DOMAIN r.ir.fncs
  /\ r.bb # NoAddr => r.bb = a /\ a \in Blocks(r.ir)

\* splitFunctionOn keeps the layout, and splits at no other address.
LEMMA SplitBlockLays ==
  ASSUME NEW g, Layout(g), NEW a \in Blocks(g)
  PROVE  ResultOk(g, SplitFunctionOnBlock(g, a), a)
<1>1. PICK f : f = FncOf(g, a)
  OBVIOUS
<1>2. PICK starts : starts = FncStarts(g, f, a)
  OBVIOUS
<1>3. PICK r : r = SplitBlock(g, a, f, starts)
  OBVIOUS
<1>4. r = SplitFunctionOnBlock(g, a)
  BY <1>1, <1>2, <1>3 DEF SplitFunctionOnBlock
<1>5. /\ f \in DOMAIN g.fncs /\ a \in ToSet(g.fncs[f]) /\ BlockList(f, g.fncs[f])
      /\ ListOf(g, a) = g.fncs[f]
  BY <1>1, FunctionOfBlock DEF Layout, Structure, ListsOk, ListOf
<1>6. g.fncs[f] # <<>> /\ Head(g.fncs[f]) = f /\ f \in ToSet(g.fncs[f])
  <2>1. g.fncs[f] # <<>>
    BY <1>5 DEF ToSet
  <2> QED
    BY <1>5, <2>1, ElementsOfList DEF BlockList
<1>7. CASE IsFirst(g, a)
  <2>1. f = a
    BY <1>5, <1>6, <1>7 DEF IsFirst
  <2> QED
    BY <1>3, <1>4, <1>5, <1>7, <2>1, LaysSame DEF SplitBlock, Result, ResultOk
<1>8. CASE ~IsFirst(g, a) /\ ~CanSplitFunctionOn(g, f, a, starts)
  BY <1>3, <1>4, <1>8, LaysSame DEF SplitBlock, Result, ResultOk
<1>9. CASE ~IsFirst(g, a) /\ CanSplitFunctionOn(g, f, a, starts)
  <2>1. /\ f \in starts /\ a \in starts
        /\ \A x \in starts : x \in ToSet(g.fncs[f])
    BY <1>2, <1>5, <1>6 DEF FncStarts
  <2>2. PICK k : k = BranchesToCalls(Splice(g, g.fncs[f], f, starts), starts)
    OBVIOUS
  <2>3. Lays(g, k) /\ starts \subseteq DOMAIN k.fncs
    BY <1>5, <1>6, <1>9, <2>1, <2>2, SplitLays
  <2>4. r.ir = k /\ r.fnc = a /\ r.bb = a
    BY <1>3, <1>9, <2>2 DEF SplitBlock, Result
  <2>5. a \in Blocks(k)
    BY <2>3 DEF Lays, Keeps
  <2> QED
    BY <1>4, <2>1, <2>3, <2>4, <2>5 DEF ResultOk
<1> QED
  BY <1>7, <1>8, <1>9

\* The same when the block has to be found or created first.
LEMMA SplitFunctionLays ==
  ASSUME NEW g, Layout(g), NEW a \in Nat
  PROVE  ResultOk(g, SplitFunctionOn(g, a), a)
<1>1. CASE a \in Blocks(g)
  BY <1>1, SplitBlockLays DEF SplitFunctionOn
<1>2. CASE a \notin Blocks(g) /\ a \notin DOMAIN g.bbOf /\ InFunction(g, a)
  <2>1. PICK h : h = CreateBlockAt(g, a)
    OBVIOUS
  <2>2. Lays(g, h) /\ a \in Blocks(h)
    BY <1>2, <2>1, FunctionHasBlock, CreateBlockLays DEF Layout
  <2>3. ResultOk(h, SplitFunctionOnBlock(h, a), a)
    BY <2>2, SplitBlockLays DEF Lays
  <2>4. SplitFunctionOn(g, a) = SplitFunctionOnBlock(h, a)
    BY <1>2, <2>1 DEF SplitFunctionOn
  <2> QED
    BY <2>2, <2>3, <2>4, LaysTrans DEF ResultOk
<1>3. CASE a \notin Blocks(g) /\ a \in DOMAIN g.bbOf
  BY <1>3, LaysSame DEF SplitFunctionOn, Result, ResultOk
<1>4. CASE a \notin Blocks(g) /\ a \notin DOMAIN g.bbOf /\ ~InFunction(g, a)
  BY <1>4, CreateFunctionLays DEF SplitFunctionOn, Result, ResultOk
<1> QED
  BY <1>1, <1>2, <1>3, <1>4

\* The result for a function that is there.
LEMMA FunctionResultOk ==
  ASSUME NEW g, NEW h, Lays(g, h), NEW a \in DOMAIN h.fncs
  PROVE  ResultOk(g, FunctionResult(h, a), a)
<1>1. FrontOf(h, a) = NoAddr \/ (FrontOf(h, a) = a /\ a \in Blocks(h))
  BY FrontOfFunction DEF Lays, Layout
<1> QED
  BY <1>1 DEF FunctionResult, Result, ResultOk

\* getOrCreateCallTarget keeps the layout.
LEMMA CallTargetLays ==
  ASSUME NEW g, Layout(g), NEW a \in Nat
  PROVE  ResultOk(g, GetOrCreateCallTarget(g, a), a)
<1>1. CASE a \in DOMAIN g.fncs
  BY <1>1, LaysSame, FunctionResultOk DEF GetOrCreateCallTarget
<1>2. CASE a \notin DOMAIN g.fncs
  <2>1. PICK split : split = SplitFunctionOn(g, a)
    OBVIOUS
  <2>2. PICK h : h = split.ir
    OBVIOUS
  <2>3. PICK r : r = CallTargetAfterSplit(split, h, a)
    OBVIOUS
  <2>4. GetOrCreateCallTarget(g, a) = r
    <3>1. r = CHOOSE y \in {CallTargetAfterSplit(x, x.ir, a) : x \in {split}} : TRUE
      BY <2>2, <2>3
    <3> QED
      BY <1>2, <2>1, <3>1 DEF GetOrCreateCallTarget
  <2>5. ResultOk(g, split, a) /\ Lays(g, h) /\ Layout(h)
    BY <2>1, <2>2, SplitFunctionLays DEF ResultOk, Lays
  <2>6. CASE split.fnc # NoAddr
    <3>1. split.fnc = a /\ a \in DOMAIN h.fncs
      BY <2>2, <2>5, <2>6 DEF ResultOk
    <3> QED
      BY <2>3, <2>4, <2>5, <2>6, <3>1, FunctionResultOk DEF CallTargetAfterSplit
  <2>7. CASE split.fnc = NoAddr /\ (a \in Blocks(h) \/ InBasicBlock(h, a))
    BY <2>3, <2>4, <2>5, <2>7 DEF CallTargetAfterSplit, Result, ResultOk
  <2>8. CASE /\ split.fnc = NoAddr /\ a \notin Blocks(h) /\ ~InBasicBlock(h, a)
             /\ InFunction(h, a)
    <3>1. Lays(h, CreateBlockAt(h, a)) /\ a \in Blocks(CreateBlockAt(h, a))
      BY <2>5, <2>8, FunctionHasBlock, CreateBlockLays DEF Layout
    <3>2. Lays(g, CreateBlockAt(h, a))
      BY <2>5, <3>1, LaysTrans
    <3> QED
      BY <2>3, <2>4, <2>8, <3>1, <3>2 DEF CallTargetAfterSplit, Result, ResultOk
  <2>9. CASE /\ split.fnc = NoAddr /\ a \notin Blocks(h) /\ ~InBasicBlock(h, a)
             /\ ~InFunction(h, a)
    <3>1. Lays(h, CreateFunction(h, a)) /\ a \in DOMAIN CreateFunction(h, a).fncs
      BY <2>5, <2>9, CreateFunctionLays
    <3>2. Lays(g, CreateFunction(h, a))
      BY <2>5, <3>1, LaysTrans
    <3>3. r = FunctionResult(CreateFunction(h, a), a)
      BY <2>3, <2>9 DEF CallTargetAfterSplit
    <3> QED
      BY <2>4, <3>1, <3>2, <3>3, FunctionResultOk
  <2> QED
    BY <2>6, <2>7, <2>8, <2>9
<1> QED
  BY <1>1, <1>2

\* The first half of getOrCreateBranchTarget keeps the layout.
LEMMA BranchBlockLays ==
  ASSUME NEW g, Layout(g), NEW a \in Nat, NEW f
  PROVE  ResultOk(g, BranchBlock(g, a, f), a)
<1>1. PICK r : r = BranchBlock(g, a, f)
  OBVIOUS
<1>2. CASE a \in Blocks(g)
  BY <1>2, LaysSame DEF BranchBlock, Result, ResultOk
<1>3. CASE a \notin Blocks(g) /\ InBasicBlock(g, a)
  <2>1. CASE a \in DOMAIN g.bbOf /\ FncOf(g, g.bbOf[a]) = f
    <3>1. Lays(g, MakeStart(g, a)) /\ a \in Blocks(MakeStart(g, a))
      BY <1>3, <2>1, MakeStartLays
    <3> QED
      BY <1>3, <2>1, <3>1 DEF BranchBlock, Result, ResultOk
  <2>2. CASE ~(a \in DOMAIN g.bbOf /\ FncOf(g, g.bbOf[a]) = f)
    BY <1>3, <2>2, LaysSame DEF BranchBlock, Result, ResultOk
  <2> QED
    BY <2>1, <2>2
<1>4. CASE a \notin Blocks(g) /\ ~InBasicBlock(g, a) /\ a \in DOMAIN g.fncs
  BY <1>4, LaysSame DEF BranchBlock, Result, ResultOk
<1>5. CASE /\ a \notin Blocks(g) /\ ~InBasicBlock(g, a) /\ a \notin DOMAIN g.fncs
           /\ GetBasicBlockBeforeAddress(g, a) # NoAddr
  <2>1. Lays(g, CreateBlockAt(g, a)) /\ a \in Blocks(CreateBlockAt(g, a))
    BY <1>5, CreateBlockLays
  <2> QED
    BY <1>5, <2>1 DEF BranchBlock, Result, ResultOk
<1>6. CASE /\ a \notin Blocks(g) /\ ~InBasicBlock(g, a) /\ a \notin DOMAIN g.fncs
           /\ GetBasicBlockBeforeAddress(g, a) = NoAddr
  <2>1. Lays(g, CreateFunction(g, a)) /\ a \in DOMAIN CreateFunction(g, a).fncs
    BY <1>6, CreateFunctionLays
  <2>2. BranchBlock(g, a, f) = FunctionResult(CreateFunction(g, a), a)
    BY <1>6 DEF BranchBlock
  <2> QED
    BY <2>1, <2>2, FunctionResultOk
<1> QED
  BY <1>2, <1>3, <1>4, <1>5, <1>6

\* getOrCreateBranchTarget keeps the layout.
LEMMA BranchTargetLays ==
  ASSUME NEW g, Layout(g), NEW a \in Nat, NEW f
  PROVE  ResultOk(g, GetOrCreateBranchTarget(g, a, f), a)
<1>1. PICK b : b = BranchBlock(g, a, f)
  OBVIOUS
<1>2. PICK r : r = WithFunction(b)
  OBVIOUS
<1>3. ResultOk(g, b, a) /\ Layout(b.ir)
  BY <1>1, BranchBlockLays DEF ResultOk, Lays
<1>4. ResultOk(g, r, a)
  <2>1. CASE b.bb # NoAddr /\ IsFirst(b.ir, b.bb)
    <3>1. b.bb = a /\ a \in Blocks(b.ir)
      BY <1>3, <2>1 DEF ResultOk
    <3>2. FncOf(b.ir, a) \in DOMAIN b.ir.fncs /\ a \in ToSet(b.ir.fncs[FncOf(b.ir, a)])
      BY <1>3, <3>1, FunctionOfBlock DEF Layout, Structure
    <3>3. BlockList(FncOf(b.ir, a), b.ir.fncs[FncOf(b.ir, a)])
      BY <1>3, <3>2 DEF Layout, Structure, ListsOk
    <3>4. Head(b.ir.fncs[FncOf(b.ir, a)]) = FncOf(b.ir, a)
      BY <3>2, <3>3 DEF BlockList, ToSet
    <3>5. FncOf(b.ir, a) = a
      BY <2>1, <3>1, <3>4 DEF IsFirst, ListOf
    <3> QED
      BY <1>2, <1>3, <2>1, <3>1, <3>2, <3>5 DEF WithFunction, Result, ResultOk
  <2>2. CASE ~(b.bb # NoAddr /\ IsFirst(b.ir, b.bb))
    BY <1>2, <1>3, <2>2 DEF WithFunction
  <2> QED
    BY <2>1, <2>2
<1>5. GetOrCreateBranchTarget(g, a, f) = BranchTargetOf(r, a, f)
  BY <1>1, <1>2 DEF GetOrCreateBranchTarget
<1>6. CASE r.fnc # NoAddr \/ r.bb = NoAddr \/ FncOf(r.ir, r.bb) = f
  BY <1>4, <1>5, <1>6 DEF BranchTargetOf
<1>7. CASE ~(r.fnc # NoAddr \/ r.bb = NoAddr \/ FncOf(r.ir, r.bb) = f)
  <2>1. PICK split : split = SplitFunctionOn(r.ir, a)
    OBVIOUS
  <2>2. ResultOk(r.ir, split, a)
    BY <1>4, <2>1, SplitFunctionLays DEF ResultOk, Lays
  <2>3. Lays(g, split.ir) /\ Layout(split.ir)
    BY <1>4, <2>2, LaysTrans DEF ResultOk, Lays
  <2>4. r.bb = a /\ a \in Blocks(split.ir)
    BY <1>4, <1>7, <2>2 DEF ResultOk, Lays, Keeps
  <2>5. GetOrCreateBranchTarget(g, a, f) = BranchSplit(r, split)
    BY <1>5, <1>7, <2>1 DEF BranchTargetOf
  <2>6. CASE split.fnc # NoAddr
    <3>1. split.fnc = a /\ a \in DOMAIN split.ir.fncs
      BY <2>2, <2>6 DEF ResultOk
    <3>2. FrontOf(split.ir, a) = NoAddr \/ (FrontOf(split.ir, a) = a /\ a \in Blocks(split.ir))
      BY <2>3, <3>1, FrontOfFunction DEF Layout
    <3> QED
      BY <2>3, <2>5, <2>6, <3>1, <3>2 DEF BranchSplit, Result, ResultOk
  <2>7. CASE split.fnc = NoAddr
    BY <2>3, <2>4, <2>5, <2>7 DEF BranchSplit, Result, ResultOk
  <2> QED
    BY <2>6, <2>7
<1> QED
  BY <1>6, <1>7

-----------------------------------------------------------------------------
(* Look-ups by address: modules in which they agree with the block lists *)

\* No block begins in the middle of an instruction.
Aligned(g) ==
  \A a \in DOMAIN g.end : \A b \in Blocks(g) : ~(a < b /\ b < g.end[a])

\* A block that begins at an instruction holds it.
Heads(g) == \A b \in Blocks(g) \cap DOMAIN g.bbOf : Full(g, b)

Agrees(g) == Aligned(g) => Heads(g)

\* What every operation does for the address t: there may be a block at t, and
\* branches to the instruction right behind.
Grows(g, h, t) ==
  /\ Blocks(g) \subseteq Blocks(h) /\ Blocks(h) \subseteq Blocks(g) \cup {t}
  /\ h.end = g.end
  /\ \A e \in h.edges \ g.edges : e.kind = "br" /\ e.to = g.end[e.at]
  /\ Agrees(g) => Agrees(h)

\* The addresses of the instructions have a bound, and none is at 0.
Bounded(g, top) == top \in Nat /\ \A x \in DOMAIN g.bbOf : x # NoAddr /\ x <= top

\* Operations can be chained.
LEMMA GrowsTrans ==
  ASSUME NEW f, NEW g, NEW h, NEW t, Grows(f, g, t), Grows(g, h, t)
  PROVE  Grows(f, h, t)
BY DEF Grows

\* No block begins between the start of a block and one of its instructions.
LEMMA NoBlockBetween ==
  ASSUME NEW g, Structure(g), Code(g), Aligned(g), Heads(g),
         NEW a \in DOMAIN g.bbOf, NEW b \in Blocks(g), b < g.end[a]
  PROVE  b <= g.bbOf[a]
<1>1. /\ a \in Nat /\ g.bbOf[a] \in Nat /\ b \in Nat /\ a \in DOMAIN g.end
      /\ g.end[a] \in Nat
  BY BlocksOfLists DEF Structure, InsnsOk, Code, BytesOk
<1>2. SUFFICES ASSUME g.bbOf[a] < b PROVE FALSE
  BY <1>1
<1>3. b <= a
  BY <1>1 DEF Aligned
<1>4. PICK w \in DOMAIN g.bbOf : w <= b /\ b < g.end[w]
  BY <1>1, <1>2, <1>3 DEF Code, Solid
<1>5. w \in Nat /\ w \in DOMAIN g.end
  BY DEF Structure, InsnsOk, Code, BytesOk
<1>6. w = b
  BY <1>1, <1>4, <1>5 DEF Aligned
<1>7. g.bbOf[b] = b
  BY <1>6 DEF Heads, Full
<1>8. g.bbOf[b] = g.bbOf[a]
  BY <1>1, <1>2, <1>3, <1>6 DEF Code, Solid
<1> QED
  BY <1>1, <1>2, <1>7, <1>8

\* The look-up by address finds the block of an instruction.
LEMMA LookUpFindsBlock ==
  ASSUME NEW g, Structure(g), Code(g), Aligned(g), Heads(g), NEW a \in DOMAIN g.bbOf
  PROVE  GetBasicBlockBeforeAddress(g, a) = g.bbOf[a]
<1>1. /\ a \in Nat /\ g.bbOf[a] \in Blocks(g) /\ g.bbOf[a] <= a /\ a < g.end[a]
      /\ g.end[a] \in Nat /\ \A b \in Blocks(g) : b \in Nat
  BY BlocksOfLists DEF Structure, InsnsOk, Code, BytesOk
<1>2. PICK d : d = GetBasicBlockBeforeAddress(g, a)
  OBVIOUS
<1>3. d \in Blocks(g) /\ d <= a /\ g.bbOf[a] <= d
  BY <1>1, <1>2, BlockBeforeAddress
<1>4. d <= g.bbOf[a]
  BY <1>1, <1>3, NoBlockBetween
<1> QED
  BY <1>1, <1>2, <1>3, <1>4

\* So the code finds that an instruction is in a block.
LEMMA InsnIsInBlock ==
  ASSUME NEW g, Structure(g), Code(g), Aligned(g), Heads(g), NEW a \in DOMAIN g.bbOf,
         NEW top, Bounded(g, top)
  PROVE  InBasicBlock(g, a)
<1>1. PICK b : b = g.bbOf[a]
  OBVIOUS
<1>2. b \in Blocks(g) /\ a \in Nat /\ b = GetBasicBlockBeforeAddress(g, a)
  BY <1>1, LookUpFindsBlock DEF Structure, InsnsOk
<1>3. PICK S : S = InsnsOf(g, b)
  OBVIOUS
<1>4. a \in S /\ S \in SUBSET Nat /\ (\A x \in S : x <= top) /\ S \subseteq DOMAIN g.bbOf
  BY <1>1, <1>3 DEF InsnsOf, Structure, InsnsOk, Bounded
<1>5. PICK m : m = Max(S)
  OBVIOUS
<1>6. m \in S /\ a <= m
  BY <1>4, <1>5, MaxOfNats DEF Bounded
<1>7. PICK s : s = ListOf(g, b)
  OBVIOUS
<1>8. PICK n : n = Pos(g, b)
  OBVIOUS
<1>9. n \in 1..Len(s) /\ s[n] = b /\ n \in Nat
  <2>1. n \in 1..Len(s) /\ s[n] = b
    BY <1>2, <1>7, <1>8, PosOfBlock DEF Structure
  <2> QED
    BY <2>1
<1>10. WalkBack(g, s, n) = m
  <2>1. PICK F : F = {i \in 1..n : InsnsOf(g, s[i]) # {}}
    OBVIOUS
  <2>2. n \in F /\ F \in SUBSET Nat /\ \A i \in F : i <= n
    BY <1>3, <1>4, <1>9, <2>1
  <2>3. Max(F) \in F /\ \A i \in F : i <= Max(F)
    BY <1>9, <2>2, MaxOfNats
  <2>4. Max(F) = n
    <3>1. Max(F) \in Nat /\ Max(F) <= n /\ n <= Max(F)
      BY <2>2, <2>3
    <3> QED
      BY <1>9, <3>1
  <2>5. F # {}
    BY <2>2
  <2>6. WalkBack(g, s, n) = IF F = {} THEN NoAddr ELSE Max(InsnsOf(g, s[Max(F)]))
    BY <2>1 DEF WalkBack
  <2> QED
    BY <1>3, <1>5, <1>9, <2>4, <2>5, <2>6
<1>11. b # NoAddr /\ m # NoAddr
  BY <1>1, <1>4, <1>6 DEF Bounded, Structure, InsnsOk
<1>12. GetBasicBlockEndAddress(g, b) = g.end[m]
  BY <1>7, <1>8, <1>10, <1>11 DEF GetBasicBlockEndAddress, EndOr, LastAsmInsn
<1>13. a < g.end[m]
  <2>1. m \in DOMAIN g.end /\ m \in Nat
    BY <1>4, <1>6 DEF Code, BytesOk
  <2>2. m < g.end[m] /\ g.end[m] \in Nat
    BY <2>1 DEF Code, BytesOk
  <2> QED
    BY <1>2, <1>6, <2>1, <2>2
<1> QED
  BY <1>2, <1>11, <1>12, <1>13 DEF InBasicBlock

\* Nothing changes.
LEMMA GrowsSame ==
  ASSUME NEW g, NEW t
  PROVE  Grows(g, g, t)
BY DEF Grows

\* A block may be put at t: there is no instruction, or nothing to keep.
Free(g, t) == t \in DOMAIN g.bbOf => ~(Aligned(g) /\ Heads(g))

\* Where the look-up finds no block there is no instruction.
LEMMA NotInBlockIsFree ==
  ASSUME NEW g, Layout(g), NEW t, ~InBasicBlock(g, t), NEW top, Bounded(g, top)
  PROVE  Free(g, t)
BY InsnIsInBlock DEF Layout, Free

\* Lists that change, but for a block where there is no instruction.
LEMMA ListsGrow ==
  ASSUME NEW g, Layout(g), NEW h, OnlyLists(g, h), NEW t, Free(g, t),
         Blocks(g) \subseteq Blocks(h), Blocks(h) \subseteq Blocks(g) \cup {t}
  PROVE  Grows(g, h, t)
<1>1. h.bbOf = g.bbOf /\ h.end = g.end /\ h.edges = g.edges
  BY DEF OnlyLists
<1>2. Aligned(h) => Aligned(g)
  BY <1>1 DEF Aligned
<1>3. Aligned(g) /\ Heads(g) => Heads(h)
  BY <1>1 DEF Heads, Full, Free
<1> QED
  BY <1>1, <1>2, <1>3 DEF Grows, Agrees

\* A new function.
LEMMA CreateFunctionGrows ==
  ASSUME NEW g, Layout(g), NEW t \in Nat, t \notin Blocks(g), Free(g, t)
  PROVE  Grows(g, CreateFunction(g, t), t)
<1>1. PICK h : h = CreateFunction(g, t)
  OBVIOUS
<1>2. HasParts(g) /\ ListsOk(g.fncs)
  BY DEF Layout, Structure
<1>3. OnlyLists(g, h) /\ Blocks(g) \subseteq Blocks(h)
  BY <1>1, <1>2, CreatingFunction
<1>4. Blocks(h) \subseteq Blocks(g) \cup {t}
  <2>1. CASE t \in DOMAIN g.fncs
    BY <1>1, <2>1 DEF CreateFunction
  <2>2. CASE t \notin DOMAIN g.fncs
    <3>1. h.fncs = With(g.fncs, t, IF t \in Image THEN <<t>> ELSE <<>>)
      BY <1>1, <1>2, <2>2 DEF CreateFunction, HasParts
    <3>2. /\ DOMAIN h.fncs = DOMAIN g.fncs \cup {t}
          /\ \A f \in DOMAIN g.fncs : h.fncs[f] = g.fncs[f]
          /\ h.fncs[t] = IF t \in Image THEN <<t>> ELSE <<>>
      BY <2>2, <3>1 DEF With
    <3>3. ToSet(h.fncs[t]) \subseteq {t}
      BY <3>2, NewList
    <3> QED
      BY <3>2, <3>3 DEF Blocks
  <2> QED
    BY <2>1, <2>2
<1> QED
  BY <1>1, <1>3, <1>4, ListsGrow

\* A new block.
LEMMA CreateBlockGrows ==
  ASSUME NEW g, Layout(g), NEW t \in Nat, t \notin Blocks(g), Free(g, t),
         \/ GetBasicBlockBeforeAddress(g, t) # NoAddr
         \/ \E b \in Blocks(g) : b <= t
  PROVE  Grows(g, CreateBlockAt(g, t), t)
<1>1. PICK h : h = CreateBlockAt(g, t)
  OBVIOUS
<1>2. Structure(g) /\ HasParts(g) /\ ListsOk(g.fncs)
  BY DEF Layout, Structure
<1>3. GetBasicBlockBeforeAddress(g, t) \in Blocks(g)
  BY <1>2, BlockBeforeAddress
<1>4. OnlyLists(g, h) /\ \A b : b \in Blocks(h) <=> b \in Blocks(g) \/ b = t
  BY <1>1, <1>2, <1>3, CreatingBlock DEF CreateBlockAt
<1> QED
  BY <1>1, <1>4, ListsGrow

\* A block that is cut in two where an instruction begins.
LEMMA MakeStartGrows ==
  ASSUME NEW g, Layout(g), NEW t \in DOMAIN g.bbOf, t \notin Blocks(g)
  PROVE  Grows(g, MakeStart(g, t), t)
<1>1. PICK h : h = MakeStart(g, t)
  OBVIOUS
<1>2. PICK b : b = g.bbOf[t]
  OBVIOUS
<1>3. Structure(g) /\ Code(g) /\ HasParts(g) /\ ListsOk(g.fncs)
  BY DEF Layout, Structure
<1>4. /\ t \in Nat /\ b \in Nat /\ b \in Blocks(g) /\ b < t
      /\ b \in DOMAIN g.bbOf /\ g.bbOf[b] = b
      /\ \E prev : StartMade(g, t, h, prev, b)
  BY <1>1, <1>2, <1>3, MakingStart
<1>5. PICK prev : StartMade(g, t, h, prev, b)
  BY <1>4
<1>6. \A x : x \in Blocks(h) <=> x \in Blocks(g) \/ x = t
  <2>1. PICK c : c = CreateBasicBlock(g, t, b)
    OBVIOUS
  <2>2. \A x : x \in Blocks(c) <=> x \in Blocks(g) \/ x = t
    BY <1>3, <1>4, <2>1, CreatingBlock
  <2> QED
    BY <1>5, <2>1, <2>2 DEF StartMade, Blocks
<1>7. /\ h.end = g.end /\ DOMAIN h.bbOf = DOMAIN g.bbOf
      /\ \A x \in DOMAIN g.bbOf :
           h.bbOf[x] = IF g.bbOf[x] = b /\ x >= t THEN t ELSE g.bbOf[x]
      /\ h.edges = g.edges \cup {[at |-> prev, to |-> t, kind |-> "br"]}
      /\ prev \in DOMAIN g.bbOf /\ g.bbOf[prev] = b /\ prev < t
      /\ \A x \in DOMAIN g.bbOf : g.bbOf[x] = b /\ x < t => x <= prev
  BY <1>5 DEF StartMade
<1>8. g.end[prev] = t
  <2>1. prev \in Nat /\ prev \in DOMAIN g.end /\ g.end[prev] \in Nat /\ g.end[prev] <= t
    BY <1>3, <1>4, <1>7 DEF Structure, InsnsOk, Code, BytesOk
  <2>2. SUFFICES ASSUME g.end[prev] < t PROVE FALSE
    BY <1>4, <2>1
  <2>3. b <= prev /\ prev < g.end[prev]
    BY <1>3, <1>7, <2>1 DEF Structure, InsnsOk, Code, BytesOk
  <2>4. PICK w \in DOMAIN g.bbOf : w <= g.end[prev] /\ g.end[prev] < g.end[w]
    BY <1>2, <1>3, <1>4, <2>1, <2>2, <2>3 DEF Code, Solid
  <2>5. w \in Nat /\ g.end[w] \in Nat /\ w \in DOMAIN g.end
    BY <1>3 DEF Structure, InsnsOk, Code, BytesOk
  <2>6. ~(w < prev) /\ w # prev
    BY <1>3, <2>1, <2>3, <2>4, <2>5 DEF Code, BytesOk
  <2>7. g.bbOf[w] = b
    BY <1>2, <1>3, <1>4, <2>1, <2>2, <2>3, <2>4, <2>5, <2>6 DEF Code, Solid
  <2> QED
    BY <1>4, <1>7, <2>1, <2>2, <2>4, <2>5, <2>6, <2>7
<1>9. Aligned(h) => Aligned(g)
  BY <1>6, <1>7 DEF Aligned
<1>10. ASSUME Heads(g), NEW x \in Blocks(h) \cap DOMAIN h.bbOf PROVE Full(h, x)
  <2>1. CASE x = t
    <3>1. t >= t
      BY <1>4
    <3> QED
      BY <1>2, <1>7, <2>1, <3>1 DEF Full
  <2>2. CASE x \in Blocks(g)
    <3>1. g.bbOf[x] = x /\ x \in DOMAIN g.bbOf /\ x \in Nat
      BY <1>3, <1>7, <1>10, <2>2 DEF Heads, Full, Structure, InsnsOk
    <3>2. ~(x = b /\ x >= t)
      BY <1>4
    <3> QED
      BY <1>7, <3>1, <3>2 DEF Full
  <2> QED
    BY <1>6, <2>1, <2>2
<1>11. \A e \in h.edges \ g.edges : e.kind = "br" /\ e.to = g.end[e.at]
  BY <1>7, <1>8
<1> QED
  BY <1>1, <1>6, <1>7, <1>9, <1>10, <1>11 DEF Grows, Agrees, Heads

\* The splices create no block.
LEMMA SpliceAddsNoBlock ==
  ASSUME NEW g, Structure(g), NEW f \in DOMAIN g.fncs, g.fncs[f] # <<>>, NEW starts,
         f \in starts, \A x \in starts : x \in ToSet(g.fncs[f])
  PROVE  Blocks(Splice(g, g.fncs[f], f, starts)) \subseteq Blocks(g)
<1>1. PICK s : s = g.fncs[f]
  OBVIOUS
<1>2. PICK h : h = Splice(g, s, f, starts)
  OBVIOUS
<1>3. s \in Seq(Nat) /\ BlockList(f, s) /\ s # <<>>
  BY <1>1 DEF BlockList, Structure, ListsOk
<1>4. /\ DOMAIN h.fncs = DOMAIN g.fncs \cup starts
      /\ \A m \in DOMAIN h.fncs :
           h.fncs[m] = IF m \in starts
                       THEN Segment(s, starts, IF m = f THEN 1 ELSE IndexIn(s, m))
                       ELSE g.fncs[m]
  BY <1>2 DEF Splice, Structure, HasParts
<1> SUFFICES ASSUME NEW x \in Blocks(h) PROVE x \in Blocks(g)
  BY <1>1, <1>2
<1>5. PICK m \in DOMAIN h.fncs : x \in ToSet(h.fncs[m])
  BY DEF Blocks
<1>6. CASE m \notin starts
  BY <1>4, <1>5, <1>6 DEF Blocks
<1>7. CASE m \in starts
  <2>1. PICK p : p = IF m = f THEN 1 ELSE IndexIn(s, m)
    OBVIOUS
  <2>2. p \in 1..Len(s)
    <3>1. IndexIn(s, m) \in 1..Len(s)
      BY <1>1, <1>3, <1>7, IndexOfElement
    <3> QED
      BY <1>3, <2>1, <3>1
  <2>3. x \in ToSet(Segment(s, starts, p))
    BY <1>4, <1>5, <1>7, <2>1
  <2>4. \E i \in p..Len(s) : s[i] = x
    BY <1>3, <2>2, <2>3, SegmentOfList
  <2>5. x \in ToSet(s)
    BY <1>3, <2>2, <2>4, ElementsOfList
  <2> QED
    BY <1>1, <2>5 DEF Blocks
<1> QED
  BY <1>6, <1>7

\* Splitting creates no block either.
LEMMA SplitBlockGrows ==
  ASSUME NEW g, Layout(g), NEW a \in Blocks(g), NEW t
  PROVE  Grows(g, SplitFunctionOnBlock(g, a).ir, t)
<1>1. PICK f : f = FncOf(g, a)
  OBVIOUS
<1>2. PICK starts : starts = FncStarts(g, f, a)
  OBVIOUS
<1>3. PICK k : k = SplitFunctionOnBlock(g, a).ir
  OBVIOUS
<1>4. k = SplitBlock(g, a, f, starts).ir
  BY <1>1, <1>2, <1>3 DEF SplitFunctionOnBlock
<1>5. Structure(g) /\ ListsOk(g.fncs)
  BY DEF Layout, Structure
<1>6. f \in DOMAIN g.fncs /\ a \in ToSet(g.fncs[f]) /\ BlockList(f, g.fncs[f])
  BY <1>1, <1>5, FunctionOfBlock DEF ListsOk
<1>7. g.fncs[f] # <<>> /\ f \in ToSet(g.fncs[f])
  <2>1. g.fncs[f] # <<>>
    BY <1>6 DEF ToSet
  <2> QED
    BY <1>6, <2>1, ElementsOfList DEF BlockList
<1>8. CASE IsFirst(g, a) \/ ~CanSplitFunctionOn(g, f, a, starts)
  <2>1. k = g
    BY <1>4, <1>8 DEF SplitBlock, Result
  <2> QED
    BY <1>3, <2>1, GrowsSame
<1>9. CASE ~IsFirst(g, a) /\ CanSplitFunctionOn(g, f, a, starts)
  <2>1. f \in starts /\ \A x \in starts : x \in ToSet(g.fncs[f])
    BY <1>2, <1>7 DEF FncStarts
  <2>2. PICK h : h = Splice(g, g.fncs[f], f, starts)
    OBVIOUS
  <2>3. k = BranchesToCalls(h, starts)
    BY <1>4, <1>9, <2>2 DEF SplitBlock, Result
  <2>4. Keeps(g, h) /\ Structure(h)
    BY <1>5, <1>6, <1>7, <2>1, <2>2, SpliceKeeps DEF Keeps
  <2>5. OnlyLists(g, h)
    BY <1>5, <1>6, <1>7, <2>1, <2>2, OrderAfterSplice
  <2>6. /\ k.fncs = h.fncs /\ k.bbOf = g.bbOf /\ k.end = g.end
        /\ k.edges \subseteq g.edges
    BY <2>3, <2>4, <2>5 DEF BranchesToCalls, DropEdges, Structure, HasParts, OnlyLists
  <2>7. Blocks(k) = Blocks(h)
    BY <2>6 DEF Blocks
  <2>8. Blocks(h) \subseteq Blocks(g)
    BY <1>5, <1>6, <1>7, <2>1, <2>2, SpliceAddsNoBlock
  <2>9. Blocks(k) = Blocks(g)
    BY <2>4, <2>7, <2>8 DEF Keeps
  <2>10. (Aligned(k) <=> Aligned(g)) /\ (Heads(k) <=> Heads(g))
    BY <2>6, <2>9 DEF Aligned, Heads, Full
  <2> QED
    BY <1>3, <2>6, <2>9, <2>10 DEF Grows, Agrees
<1> QED
  BY <1>8, <1>9

\* The same when the block has to be found or created first.
LEMMA SplitFunctionGrows ==
  ASSUME NEW g, Layout(g), NEW t \in Nat
  PROVE  Grows(g, SplitFunctionOn(g, t).ir, t)
<1>1. CASE t \in Blocks(g)
  BY <1>1, SplitBlockGrows DEF SplitFunctionOn
<1>2. CASE t \notin Blocks(g) /\ t \notin DOMAIN g.bbOf /\ InFunction(g, t)
  <2>1. PICK h : h = CreateBlockAt(g, t)
    OBVIOUS
  <2>2. \E b \in Blocks(g) : b <= t
    BY <1>2, FunctionHasBlock DEF Layout
  <2>3. Layout(h) /\ t \in Blocks(h) /\ Grows(g, h, t)
    BY <1>2, <2>1, <2>2, CreateBlockLays, CreateBlockGrows DEF Lays, Free
  <2>4. Grows(h, SplitFunctionOnBlock(h, t).ir, t)
    BY <2>3, SplitBlockGrows
  <2>5. SplitFunctionOn(g, t) = SplitFunctionOnBlock(h, t)
    BY <1>2, <2>1 DEF SplitFunctionOn
  <2> QED
    BY <2>3, <2>4, <2>5, GrowsTrans
<1>3. CASE t \notin Blocks(g) /\ t \in DOMAIN g.bbOf
  BY <1>3, GrowsSame DEF SplitFunctionOn, Result
<1>4. CASE t \notin Blocks(g) /\ t \notin DOMAIN g.bbOf /\ ~InFunction(g, t)
  BY <1>4, CreateFunctionGrows DEF SplitFunctionOn, Result, Free
<1> QED
  BY <1>1, <1>2, <1>3, <1>4

\* getOrCreateCallTarget creates a block at the target only.
LEMMA CallTargetGrows ==
  ASSUME NEW g, Layout(g), NEW t \in Nat, NEW top, Bounded(g, top)
  PROVE  Grows(g, GetOrCreateCallTarget(g, t).ir, t)
<1>1. CASE t \in DOMAIN g.fncs
  BY <1>1, GrowsSame DEF GetOrCreateCallTarget, FunctionResult, Result
<1>2. CASE t \notin DOMAIN g.fncs
  <2>1. PICK split : split = SplitFunctionOn(g, t)
    OBVIOUS
  <2>2. PICK h : h = split.ir
    OBVIOUS
  <2>3. PICK r : r = CallTargetAfterSplit(split, h, t)
    OBVIOUS
  <2>4. GetOrCreateCallTarget(g, t) = r
    <3>1. r = CHOOSE y \in {CallTargetAfterSplit(x, x.ir, t) : x \in {split}} : TRUE
      BY <2>2, <2>3
    <3> QED
      BY <1>2, <2>1, <3>1 DEF GetOrCreateCallTarget
  <2>5. Grows(g, h, t) /\ Layout(h) /\ Bounded(h, top)
    BY <2>1, <2>2, SplitFunctionGrows, SplitFunctionLays DEF ResultOk, Lays, Keeps, Bounded
  <2>6. CASE split.fnc # NoAddr \/ t \in Blocks(h) \/ InBasicBlock(h, t)
    BY <2>3, <2>4, <2>5, <2>6 DEF CallTargetAfterSplit, FunctionResult, Result
  <2>7. CASE split.fnc = NoAddr /\ t \notin Blocks(h) /\ ~InBasicBlock(h, t)
    <3>1. Free(h, t)
      BY <2>5, <2>7, NotInBlockIsFree
    <3>2. CASE InFunction(h, t)
      <4>1. \E b \in Blocks(h) : b <= t
        BY <2>5, <3>2, FunctionHasBlock DEF Layout
      <4>2. Grows(h, CreateBlockAt(h, t), t)
        BY <2>5, <2>7, <3>1, <4>1, CreateBlockGrows
      <4>3. r.ir = CreateBlockAt(h, t)
        BY <2>3, <2>7, <3>2 DEF CallTargetAfterSplit, Result
      <4> QED
        BY <2>4, <2>5, <4>2, <4>3, GrowsTrans
    <3>3. CASE ~InFunction(h, t)
      <4>1. Grows(h, CreateFunction(h, t), t)
        BY <2>5, <2>7, <3>1, CreateFunctionGrows
      <4>2. r.ir = CreateFunction(h, t)
        BY <2>3, <2>7, <3>3 DEF CallTargetAfterSplit, FunctionResult, Result
      <4> QED
        BY <2>4, <2>5, <4>1, <4>2, GrowsTrans
    <3> QED
      BY <3>2, <3>3
  <2> QED
    BY <2>6, <2>7
<1> QED
  BY <1>1, <1>2

\* So does getOrCreateBranchTarget, in its first half ...
LEMMA BranchBlockGrows ==
  ASSUME NEW g, Layout(g), NEW t \in Nat, NEW f, NEW top, Bounded(g, top)
  PROVE  Grows(g, BranchBlock(g, t, f).ir, t)
<1>1. PICK r : r = BranchBlock(g, t, f)
  OBVIOUS
<1>2. CASE \/ t \in Blocks(g)
           \/ InBasicBlock(g, t) /\ ~(t \in DOMAIN g.bbOf /\ FncOf(g, g.bbOf[t]) = f)
           \/ ~InBasicBlock(g, t) /\ t \in DOMAIN g.fncs
  <2>1. r.ir = g
    BY <1>1, <1>2 DEF BranchBlock, Result
  <2> QED
    BY <1>1, <2>1, GrowsSame
<1>3. CASE /\ t \notin Blocks(g) /\ InBasicBlock(g, t)
           /\ t \in DOMAIN g.bbOf /\ FncOf(g, g.bbOf[t]) = f
  BY <1>3, MakeStartGrows DEF BranchBlock, Result
<1>4. CASE t \notin Blocks(g) /\ ~InBasicBlock(g, t) /\ t \notin DOMAIN g.fncs
  <2>1. Free(g, t)
    BY <1>4, NotInBlockIsFree
  <2>2. CASE GetBasicBlockBeforeAddress(g, t) # NoAddr
    <3>1. Grows(g, CreateBlockAt(g, t), t)
      BY <1>4, <2>1, <2>2, CreateBlockGrows
    <3> QED
      BY <1>4, <2>2, <3>1 DEF BranchBlock, Result
  <2>3. CASE GetBasicBlockBeforeAddress(g, t) = NoAddr
    <3>1. Grows(g, CreateFunction(g, t), t)
      BY <1>4, <2>1, CreateFunctionGrows
    <3> QED
      BY <1>4, <2>3, <3>1 DEF BranchBlock, FunctionResult, Result
  <2> QED
    BY <2>2, <2>3
<1> QED
  BY <1>2, <1>3, <1>4

\* ... and as a whole.
LEMMA BranchTargetGrows ==
  ASSUME NEW g, Layout(g), NEW t \in Nat, NEW f, NEW top, Bounded(g, top)
  PROVE  Grows(g, GetOrCreateBranchTarget(g, t, f).ir, t)
<1>1. PICK b : b = BranchBlock(g, t, f)
  OBVIOUS
<1>2. PICK r : r = WithFunction(b)
  OBVIOUS
<1>3. r.ir = b.ir
  BY <1>2 DEF WithFunction, Result
<1>4. Grows(g, b.ir, t) /\ Layout(b.ir)
  BY <1>1, BranchBlockGrows, BranchBlockLays DEF ResultOk, Lays
<1>5. Grows(g, SplitFunctionOn(b.ir, t).ir, t)
  BY <1>4, SplitFunctionGrows, GrowsTrans
<1>6. GetOrCreateBranchTarget(g, t, f) = BranchTargetOf(r, t, f)
  BY <1>1, <1>2 DEF GetOrCreateBranchTarget
<1> QED
  BY <1>3, <1>4, <1>5, <1>6 DEF BranchTargetOf, BranchSplit, Result

-----------------------------------------------------------------------------
(* Targets in the bytes that are still to be decoded *)

\* A new block is in the function of the block before it, and not the first.
LEMMA NewBlockFollows ==
  ASSUME NEW g, Layout(g), NEW t \in Nat, t \notin Blocks(g),
         \/ GetBasicBlockBeforeAddress(g, t) # NoAddr
         \/ \E b \in Blocks(g) : b <= t,
         NEW h, h = CreateBlockAt(g, t)
  PROVE  /\ h.bbOf = g.bbOf /\ t \in Blocks(h) /\ ~IsFirst(h, t)
         /\ FncOf(h, t) = FncOf(g, GetBasicBlockBeforeAddress(g, t))
         /\ \A b \in Blocks(g) : FncOf(h, b) = FncOf(g, b)
<1>1. Structure(g) /\ HasParts(g) /\ ListsOk(g.fncs)
  BY DEF Layout, Structure
<1>2. PICK d : d = GetBasicBlockBeforeAddress(g, t)
  OBVIOUS
<1>3. d \in Blocks(g)
  BY <1>1, <1>2, BlockBeforeAddress
<1>4. OnlyLists(g, h) /\ ListsOk(h.fncs) /\ t \in Blocks(h)
  BY <1>1, <1>2, <1>3, CreatingBlock DEF CreateBlockAt
<1>5. /\ \A b \in Blocks(g) : FncOf(h, b) = FncOf(g, b)
      /\ FncOf(h, t) = FncOf(g, d)
  BY <1>1, <1>2, <1>3, OrderWithBlock DEF CreateBlockAt
<1>6. FncOf(h, t) # t
  BY <1>1, <1>3, <1>5, OrderOfBlocks
<1>7. ~IsFirst(h, t)
  BY <1>4, <1>6, OrderOfBlocks
<1> QED
  BY <1>2, <1>4, <1>5, <1>7 DEF OnlyLists

\* A call of an address where nothing is yet finds a function there, or else a
\* new block.
LEMMA NewCallTarget ==
  ASSUME NEW g, Layout(g), NEW t \in Nat \ {0}, t \notin Blocks(g), t \notin DOMAIN g.bbOf,
         NEW r, r = GetOrCreateCallTarget(g, t), r.fnc = NoAddr
  PROVE  /\ \E b \in Blocks(g) : b <= t
         /\ r.ir = CreateBlockAt(g, t) /\ r.bb = t
<1>1. t \notin DOMAIN g.fncs
  BY DEF GetOrCreateCallTarget, FunctionResult, Result, NoAddr
<1>2. PICK split : split = SplitFunctionOn(g, t)
  OBVIOUS
<1>3. PICK h : h = split.ir
  OBVIOUS
<1>4. r = CallTargetAfterSplit(split, h, t)
  <2>1. CallTargetAfterSplit(split, h, t)
          = CHOOSE y \in {CallTargetAfterSplit(x, x.ir, t) : x \in {split}} : TRUE
    BY <1>3
  <2> QED
    BY <1>1, <1>2, <2>1 DEF GetOrCreateCallTarget
<1>5. split.fnc = NoAddr
  BY <1>4 DEF CallTargetAfterSplit, FunctionResult, Result
<1>6. InFunction(g, t)
  BY <1>2, <1>5 DEF SplitFunctionOn, Result, NoAddr
<1>7. \E b \in Blocks(g) : b <= t
  BY <1>6, FunctionHasBlock DEF Layout
<1>8. PICK k : k = CreateBlockAt(g, t)
  OBVIOUS
<1>9. split = SplitFunctionOnBlock(k, t)
  BY <1>2, <1>6, <1>8 DEF SplitFunctionOn
<1>10. t \in Blocks(k) /\ ~IsFirst(k, t)
  BY <1>7, <1>8, NewBlockFollows
<1>11. split.ir = k
  BY <1>5, <1>9, <1>10 DEF SplitFunctionOnBlock, SplitBlock, Result, NoAddr
<1> QED
  BY <1>3, <1>4, <1>5, <1>7, <1>8, <1>10, <1>11 DEF CallTargetAfterSplit, Result

\* A branch from the function around finds no block there, or a new one in the
\* same function.
LEMMA NewBranchTarget ==
  ASSUME NEW g, Layout(g), NEW t \in Nat \ {0}, t \notin Blocks(g), t \notin DOMAIN g.bbOf,
         GetBasicBlockBeforeAddress(g, t) # NoAddr,
         NEW f, f = FncOf(g, GetBasicBlockBeforeAddress(g, t)),
         NEW r, r = GetOrCreateBranchTarget(g, t, f)
  PROVE  \/ r.ir = g
         \/ r.ir = CreateBlockAt(g, t) /\ r.bb = t /\ r.fnc = NoAddr
<1>1. PICK b : b = BranchBlock(g, t, f)
  OBVIOUS
<1>2. r = BranchTargetOf(WithFunction(b), t, f)
  BY <1>1 DEF GetOrCreateBranchTarget
<1>3. CASE InBasicBlock(g, t)
  <2>1. b = Result(g, NoAddr, NoAddr)
    BY <1>1, <1>3 DEF BranchBlock
  <2> QED
    BY <1>2, <2>1 DEF WithFunction, BranchTargetOf, Result
<1>4. CASE ~InBasicBlock(g, t) /\ t \in DOMAIN g.fncs
  <2>1. b = Result(g, t, NoAddr)
    BY <1>1, <1>4 DEF BranchBlock
  <2> QED
    BY <1>2, <2>1 DEF WithFunction, BranchTargetOf, Result, NoAddr
<1>5. CASE ~InBasicBlock(g, t) /\ t \notin DOMAIN g.fncs
  <2>1. b = Result(CreateBlockAt(g, t), NoAddr, t)
    BY <1>1, <1>5 DEF BranchBlock
  <2>2. ~IsFirst(CreateBlockAt(g, t), t) /\ FncOf(CreateBlockAt(g, t), t) = f
    BY NewBlockFollows
  <2>3. b.ir = CreateBlockAt(g, t) /\ b.bb = t /\ b.fnc = NoAddr
    BY <2>1 DEF Result
  <2>4. WithFunction(b) = b
    BY <2>2, <2>3 DEF WithFunction
  <2>5. r = b
    BY <1>2, <2>2, <2>3, <2>4 DEF BranchTargetOf
  <2> QED
    BY <2>3, <2>5
<1> QED
  BY <1>3, <1>4, <1>5

\* A branch to the instruction at a itself, from its function, finds the block
\* that begins there, or makes one.
LEMMA OwnBranchTarget ==
  ASSUME NEW g, Layout(g), Aligned(g), Heads(g), NEW a \in DOMAIN g.bbOf,
         NEW top, Bounded(g, top),
         NEW r, r = GetOrCreateBranchTarget(g, a, FncOf(g, g.bbOf[a]))
  PROVE  /\ r.bb = a /\ a \in Blocks(r.ir) /\ FncOf(r.ir, a) = FncOf(r.ir, r.ir.bbOf[a])
         /\ r.fnc # NoAddr \/ ~IsFirst(r.ir, a)
<1>1. /\ Structure(g) /\ Code(g) /\ ListsOk(g.fncs)
      /\ a \in Nat /\ a # NoAddr /\ g.bbOf[a] \in Blocks(g)
  BY DEF Layout, Structure, InsnsOk, Bounded
<1>2. PICK f : f = FncOf(g, g.bbOf[a])
  OBVIOUS
<1>3. PICK b : b = BranchBlock(g, a, f)
  OBVIOUS
<1>4. r = BranchTargetOf(WithFunction(b), a, f)
  BY <1>2, <1>3 DEF GetOrCreateBranchTarget
<1>5. InBasicBlock(g, a)
  BY <1>1, InsnIsInBlock
<1>6. PICK h : h = IF a \in Blocks(g) THEN g ELSE MakeStart(g, a)
  OBVIOUS
<1>7. b = Result(h, NoAddr, a)
  BY <1>2, <1>3, <1>5, <1>6 DEF BranchBlock
<1>8. b.ir = h /\ b.fnc = NoAddr /\ b.bb = a
  BY <1>7 DEF Result
<1>9. /\ Layout(h) /\ a \in Blocks(h) /\ a \in DOMAIN h.bbOf /\ h.bbOf[a] = a
      /\ FncOf(h, a) = f
  <2>1. CASE a \in Blocks(g)
    <3>1. h = g /\ g.bbOf[a] = a
      BY <1>6, <2>1 DEF Heads, Full
    <3> QED
      BY <1>2, <2>1, <3>1
  <2>2. CASE a \notin Blocks(g)
    <3>1. h = MakeStart(g, a)
      BY <1>6, <2>2
    <3>2. Lays(g, h) /\ a \in Blocks(h)
      BY <2>2, <3>1, MakeStartLays
    <3>3. PICK c : c = g.bbOf[a]
      OBVIOUS
    <3>4. PICK prev : StartMade(g, a, h, prev, c)
      BY <1>1, <2>2, <3>1, <3>3, MakingStart
    <3>5. h.bbOf[a] = a
      <4>1. a >= a
        BY <1>1
      <4> QED
        BY <3>3, <3>4, <4>1 DEF StartMade
    <3>6. PICK k : k = CreateBasicBlock(g, a, c)
      OBVIOUS
    <3>7. FncOf(k, a) = FncOf(g, c)
      BY <1>1, <2>2, <3>3, <3>6, OrderWithBlock DEF Structure
    <3>8. h.fncs = k.fncs
      BY <3>4, <3>6 DEF StartMade
    <3>9. FncOf(h, a) = FncOf(k, a)
      BY <3>8 DEF FncOf
    <3> QED
      BY <1>2, <3>2, <3>3, <3>5, <3>7, <3>9 DEF Lays, Keeps
  <2> QED
    BY <2>1, <2>2
<1>10. CASE IsFirst(h, a)
  <2>1. f = a
    BY <1>9, <1>10, OrderOfBlocks DEF Layout, Structure
  <2>2. WithFunction(b) = Result(h, a, a)
    BY <1>8, <1>1, <1>9, <1>10, <2>1 DEF WithFunction
  <2>3. r = Result(h, a, a)
    BY <1>1, <1>4, <2>2 DEF BranchTargetOf, Result
  <2>4. r.ir = h /\ r.fnc = a /\ r.bb = a
    BY <2>3 DEF Result
  <2> QED
    BY <1>1, <1>9, <2>4
<1>11. CASE ~IsFirst(h, a)
  <2>1. WithFunction(b) = b
    BY <1>8, <1>11 DEF WithFunction
  <2>2. r = b
    BY <1>4, <1>8, <1>9, <2>1 DEF BranchTargetOf
  <2> QED
    BY <1>8, <1>9, <1>11, <2>2
<1> QED
  BY <1>10, <1>11
-----------------------------------------------------------------------------
(* Fall-throughs of conditional branches *)

\* The fall-throughs of g that stay in h, as in FallThroughKept.
FallsStay(g, h) ==
  NoFunctionInside(h) =>
    \A e \in g.edges : e.kind = "false" /\ LeadsForward(g, e, h) => e \in h.edges

\* What every operation does: no fall-through is lost, no conditional branch is
\* added, and what begins in the middle of code goes on to do so.
KeepsFalls(g, h) ==
  /\ FallsStay(g, h)
  /\ \A e \in h.edges \ g.edges : e.kind = "br"
  /\ \A b \in Blocks(g) : Inside(g, b) => Inside(h, b)

\* Operations can be chained.
LEMMA KeepsFallsTrans ==
  ASSUME NEW f, NEW g, NEW h, Layout(f), Lays(f, g), Lays(g, h),
         KeepsFalls(f, g), KeepsFalls(g, h)
  PROVE  KeepsFalls(f, h)
<1>1. Blocks(f) \subseteq Blocks(g) /\ (NoFunctionInside(h) => NoFunctionInside(g))
  BY DEF Lays, Keeps
<1>2. \A e \in f.edges : e.to \in Blocks(f)
  BY DEF Layout, Structure, EdgesOk
<1>3. FallsStay(f, h)
  <2> SUFFICES ASSUME NoFunctionInside(h), NEW e \in f.edges, e.kind = "false",
                      LeadsForward(f, e, h)
               PROVE  e \in h.edges
    BY DEF FallsStay
  <2>1. LeadsForward(f, e, g)
    BY <1>1, <1>2 DEF LeadsForward, KeepsFalls
  <2>2. e \in g.edges
    BY <1>1, <2>1 DEF KeepsFalls, FallsStay
  <2>3. LeadsForward(g, e, h)
    <3> SUFFICES ASSUME NEW d \in g.edges, d.at = e.at, d.kind = "true"
                 PROVE  e.at < d.to /\ ~Inside(h, d.to)
      BY DEF LeadsForward
    <3>1. d \in f.edges
      BY DEF KeepsFalls
    <3> QED
      BY <3>1 DEF LeadsForward
  <2> QED
    BY <2>2, <2>3 DEF KeepsFalls, FallsStay
<1>4. \A e \in h.edges \ f.edges : e.kind = "br"
  BY DEF KeepsFalls
<1>5. \A b \in Blocks(f) : Inside(f, b) => Inside(h, b)
  BY <1>1 DEF KeepsFalls
<1> QED
  BY <1>3, <1>4, <1>5 DEF KeepsFalls

\* Where no branch and no instruction changes, nothing is lost.
LEMMA SameBranchesKeepFalls ==
  ASSUME NEW g, NEW h, h.edges = g.edges, h.bbOf = g.bbOf, h.end = g.end
  PROVE  KeepsFalls(g, h)
BY DEF KeepsFalls, FallsStay, Inside

\* Nothing changes.
LEMMA SameKeepsFalls ==
  ASSUME NEW g
  PROVE  KeepsFalls(g, g)
BY SameBranchesKeepFalls

\* A new function.
LEMMA CreateFunctionKeepsFalls ==
  ASSUME NEW g, Layout(g), NEW t \in Nat, t \notin Blocks(g)
  PROVE  KeepsFalls(g, CreateFunction(g, t))
<1>1. PICK h : h = CreateFunction(g, t)
  OBVIOUS
<1>2. OnlyLists(g, h)
  BY <1>1, CreatingFunction DEF Layout, Structure
<1> QED
  BY <1>1, <1>2, SameBranchesKeepFalls DEF OnlyLists

\* A new block.
LEMMA CreateBlockKeepsFalls ==
  ASSUME NEW g, Layout(g), NEW t \in Nat, t \notin Blocks(g),
         \/ GetBasicBlockBeforeAddress(g, t) # NoAddr
         \/ \E b \in Blocks(g) : b <= t
  PROVE  KeepsFalls(g, CreateBlockAt(g, t))
<1>1. PICK h : h = CreateBlockAt(g, t)
  OBVIOUS
<1>2. Structure(g) /\ HasParts(g) /\ ListsOk(g.fncs)
  BY DEF Layout, Structure
<1>3. GetBasicBlockBeforeAddress(g, t) \in Blocks(g)
  BY <1>2, BlockBeforeAddress
<1>4. OnlyLists(g, h)
  BY <1>1, <1>2, <1>3, CreatingBlock DEF CreateBlockAt
<1> QED
  BY <1>1, <1>4, SameBranchesKeepFalls DEF OnlyLists

\* A block that is cut in two: what was inside of it is inside of one of the two.
LEMMA MakeStartKeepsFalls ==
  ASSUME NEW g, Layout(g), NEW t \in DOMAIN g.bbOf, t \notin Blocks(g)
  PROVE  KeepsFalls(g, MakeStart(g, t))
<1>1. PICK h : h = MakeStart(g, t)
  OBVIOUS
<1>2. PICK b : b = g.bbOf[t]
  OBVIOUS
<1>3. Structure(g) /\ Code(g) /\ HasParts(g) /\ ListsOk(g.fncs)
  BY DEF Layout, Structure
<1>4. t \in Nat /\ b \in Nat /\ \E prev : StartMade(g, t, h, prev, b)
  BY <1>1, <1>2, <1>3, MakingStart
<1>5. PICK prev : StartMade(g, t, h, prev, b)
  BY <1>4
<1>6. /\ h.end = g.end /\ DOMAIN h.bbOf = DOMAIN g.bbOf
      /\ \A x \in DOMAIN g.bbOf :
           h.bbOf[x] = IF g.bbOf[x] = b /\ x >= t THEN t ELSE g.bbOf[x]
      /\ h.edges = g.edges \cup {[at |-> prev, to |-> t, kind |-> "br"]}
  BY <1>5 DEF StartMade
<1>7. ASSUME NEW c \in Blocks(g), Inside(g, c) PROVE Inside(h, c)
  <2>1. PICK z \in DOMAIN g.bbOf : g.bbOf[z] < c /\ c < g.end[z]
    BY <1>7 DEF Inside
  <2>2. c \in Nat /\ z \in Nat /\ c # t
    BY <1>3, <1>7, BlocksOfLists DEF Structure, InsnsOk
  <2>3. CASE h.bbOf[z] < c
    BY <1>6, <2>1, <2>3 DEF Inside
  <2>4. CASE ~(h.bbOf[z] < c)
    <3>1. g.bbOf[z] = b /\ z >= t /\ c < t
      BY <1>4, <1>6, <2>1, <2>2, <2>4
    <3>2. PICK w \in DOMAIN g.bbOf : w <= c /\ c < g.end[w]
      BY <1>2, <1>3, <1>4, <2>1, <2>2, <3>1 DEF Code, Solid
    <3>3. w \in Nat /\ g.end[w] \in Nat /\ w \in DOMAIN g.end
      BY <1>3 DEF Structure, InsnsOk, Code, BytesOk
    <3>4. b <= w
      <4>1. b \in DOMAIN g.bbOf
        BY <1>2, <1>3 DEF Structure, InsnsOk
      <4>2. b \in DOMAIN g.end
        BY <1>3, <4>1 DEF Code, BytesOk
      <4>3. ~(w < b)
        <5> SUFFICES ASSUME w < b PROVE FALSE
          OBVIOUS
        <5>1. g.end[w] <= b
          BY <1>3, <3>3, <4>2 DEF Code, BytesOk
        <5> QED
          BY <1>4, <2>1, <2>2, <3>1, <3>2, <3>3, <5>1
      <4> QED
        BY <1>4, <3>3, <4>3
    <3>5. g.bbOf[w] = b
      BY <1>2, <1>3, <1>4, <2>2, <3>1, <3>2, <3>3, <3>4 DEF Code, Solid
    <3>6. h.bbOf[w] = b
      BY <1>4, <1>6, <2>2, <3>1, <3>2, <3>3, <3>5
    <3> QED
      BY <1>6, <2>1, <3>1, <3>2, <3>6 DEF Inside
  <2> QED
    BY <2>3, <2>4
<1>8. g.edges \subseteq h.edges /\ \A e \in h.edges \ g.edges : e.kind = "br"
  BY <1>6
<1> QED
  BY <1>1, <1>7, <1>8 DEF KeepsFalls, FallsStay

\* A forward conditional branch is not cut: its target stays in its function, and
\* does not become the first block.
LEMMA SplitKeepsFalls ==
  ASSUME NEW g, Layout(g), NEW f \in DOMAIN g.fncs, g.fncs[f] # <<>>, NEW a,
         NEW starts, f \in starts, \A x \in starts : x \in ToSet(g.fncs[f]),
         CanSplitFunctionOn(g, f, a, starts),
         NEW k, k = BranchesToCalls(Splice(g, g.fncs[f], f, starts), starts)
  PROVE  KeepsFalls(g, k)
<1>1. Structure(g) /\ HasParts(g) /\ ListsOk(g.fncs) /\ Code(g)
  BY DEF Layout, Structure
<1>2. PICK h : h = Splice(g, g.fncs[f], f, starts)
  OBVIOUS
<1>3. Keeps(g, h) /\ Structure(h) /\ starts \subseteq DOMAIN h.fncs
  BY <1>1, <1>2, SpliceKeeps DEF Keeps
<1>4. PICK out : out = CallsOut(h, starts)
  OBVIOUS
<1>5. /\ OnlyLists(g, h) /\ KeepsFunctions(g, h)
      /\ \A x \in starts : h.fncs[x] # <<>>
      /\ \A b \in Blocks(g) : FncOf(g, b) # f => FncOf(h, b) = FncOf(g, b)
      /\ \A b \in Blocks(g) : FncOf(g, b) = f => FncOf(h, b) \in starts
  BY <1>1, <1>2, OrderAfterSplice
<1>6. k = DropEdges(h, out)
  BY <1>2, <1>4 DEF BranchesToCalls
<1>7. /\ k.fncs = h.fncs /\ k.bbOf = g.bbOf /\ k.end = g.end
      /\ \A e : e \in k.edges <=>
           /\ e \in g.edges /\ e \notin out
           /\ e.kind = "false" => \A o \in out : o.kind = "true" => o.at # e.at
  <2>1. k.fncs = h.fncs /\ k.bbOf = h.bbOf /\ k.end = h.end
    BY <1>3, <1>6 DEF DropEdges, Structure, HasParts
  <2>2. k.edges = {e \in h.edges :
           /\ e \notin out
           /\ e.kind = "false" => \A o \in out : o.kind = "true" => o.at # e.at}
    BY <1>3, <1>6 DEF DropEdges, Structure, HasParts
  <2> QED
    BY <1>5, <2>1, <2>2 DEF OnlyLists
<1>8. \A x : Inside(k, x) <=> Inside(g, x)
  BY <1>7 DEF Inside
<1>9. FallsStay(g, k)
  <2> SUFFICES ASSUME NoFunctionInside(k), NEW e \in g.edges, e.kind = "false",
                      LeadsForward(g, e, k), e \notin k.edges
               PROVE  FALSE
    BY DEF FallsStay
  <2>1. e \notin out
    BY <1>4 DEF CallsOut
  <2>2. PICK o \in out : o.kind = "true" /\ o.at = e.at
    BY <1>7, <2>1
  <2>3. /\ o \in g.edges
        /\ FncOf(h, o.to) # FncOf(h, g.bbOf[o.at]) \/ IsFirst(h, o.to)
    BY <1>4, <1>5, <2>2 DEF CallsOut, OnlyLists
  <2>4. o.at < o.to /\ ~Inside(g, o.to)
    BY <1>8, <2>2, <2>3 DEF LeadsForward
  <2>5. NoFunctionInside(g)
    BY <1>5, <1>7, <1>8 DEF NoFunctionInside, KeepsFunctions
  <2>6. \A x \in starts : ~Inside(g, x)
    BY <1>3, <1>5, <1>7, <1>8 DEF NoFunctionInside
  <2>7. Sorted(g) /\ Inner(g)
    BY <2>5 DEF Layout
  <2>8. PICK x : x = g.bbOf[o.at]
    OBVIOUS
  <2>9. PICK y : y = o.to
    OBVIOUS
  <2>10. /\ x \in Blocks(g) /\ y \in Blocks(g) /\ x \in Nat /\ y \in Nat /\ Full(g, x)
         /\ x < y
    <3>1. o.at \in DOMAIN g.bbOf /\ y \in Blocks(g)
      BY <1>1, <2>3, <2>9 DEF Structure, EdgesOk
    <3>2. x \in Blocks(g) /\ o.at \in Nat /\ x <= o.at /\ Full(g, x)
      BY <1>1, <2>8, <3>1 DEF Structure, InsnsOk, Full
    <3>3. x \in Nat /\ y \in Nat
      BY <1>1, <3>1, <3>2, BlocksOfLists
    <3> QED
      BY <2>4, <2>9, <3>1, <3>2, <3>3
  <2>11. FncOf(g, x) = FncOf(g, y) /\ y # FncOf(g, y)
    BY <2>3, <2>7, <2>8, <2>9 DEF Inner
  <2>12. IsFirst(h, y) <=> y = FncOf(h, y)
    BY <1>3, <2>10, OrderOfBlocks DEF Keeps, Structure
  <2>13. CASE FncOf(g, y) # f
    <3>1. FncOf(h, x) = FncOf(g, x) /\ FncOf(h, y) = FncOf(g, y)
      BY <1>5, <2>10, <2>11, <2>13
    <3> QED
      BY <2>3, <2>8, <2>9, <2>11, <2>12, <3>1
  <2>14. CASE FncOf(g, y) = f
    <3>1. y \in ToSet(g.fncs[f])
      BY <1>1, <2>10, <2>14, FunctionOfBlock
    <3>2. \A z \in starts : ~Over(g, o, z)
      <4>1. o.to \in ToSet(g.fncs[f]) /\ o.kind # "br"
        BY <2>2, <2>9, <3>1
      <4> QED
        BY <1>1, <2>3, <4>1, NothingCut
    <3>3. \A z \in starts : ~(x < z /\ z <= y)
      BY <2>8, <2>9, <3>2 DEF Over
    <3>4. FncOf(h, x) = FncOf(h, y)
      BY <1>1, <1>2, <2>4, <2>6, <2>7, <2>9, <2>10, <2>11, <2>14, <3>3, StayInOrder
    <3>5. y \in starts
      BY <1>5, <2>3, <2>8, <2>9, <2>10, <2>12, <2>14, <3>4
    <3> QED
      BY <2>10, <3>3, <3>5
  <2> QED
    BY <2>13, <2>14
<1> QED
  BY <1>7, <1>8, <1>9 DEF KeepsFalls

\* Splitting at a block.
LEMMA SplitBlockKeepsFalls ==
  ASSUME NEW g, Layout(g), NEW a \in Blocks(g)
  PROVE  KeepsFalls(g, SplitFunctionOnBlock(g, a).ir)
<1>1. PICK f : f = FncOf(g, a)
  OBVIOUS
<1>2. PICK starts : starts = FncStarts(g, f, a)
  OBVIOUS
<1>3. PICK k : k = SplitFunctionOnBlock(g, a).ir
  OBVIOUS
<1>4. k = SplitBlock(g, a, f, starts).ir
  BY <1>1, <1>2, <1>3 DEF SplitFunctionOnBlock
<1>5. f \in DOMAIN g.fncs /\ a \in ToSet(g.fncs[f]) /\ BlockList(f, g.fncs[f])
  BY <1>1, FunctionOfBlock DEF Layout, Structure, ListsOk
<1>6. g.fncs[f] # <<>> /\ f \in ToSet(g.fncs[f])
  <2>1. g.fncs[f] # <<>>
    BY <1>5 DEF ToSet
  <2> QED
    BY <1>5, <2>1, ElementsOfList DEF BlockList
<1>7. CASE IsFirst(g, a) \/ ~CanSplitFunctionOn(g, f, a, starts)
  BY <1>3, <1>4, <1>7, SameKeepsFalls DEF SplitBlock, Result
<1>8. CASE ~IsFirst(g, a) /\ CanSplitFunctionOn(g, f, a, starts)
  <2>1. f \in starts /\ \A x \in starts : x \in ToSet(g.fncs[f])
    BY <1>2, <1>6 DEF FncStarts
  <2>2. k = BranchesToCalls(Splice(g, g.fncs[f], f, starts), starts)
    BY <1>4, <1>8 DEF SplitBlock, Result
  <2> QED
    BY <1>3, <1>5, <1>6, <1>8, <2>1, <2>2, SplitKeepsFalls
<1> QED
  BY <1>7, <1>8

\* The same when the block has to be found or created first.
LEMMA SplitFunctionKeepsFalls ==
  ASSUME NEW g, Layout(g), NEW t \in Nat
  PROVE  KeepsFalls(g, SplitFunctionOn(g, t).ir)
<1>1. CASE t \in Blocks(g)
  BY <1>1, SplitBlockKeepsFalls DEF SplitFunctionOn
<1>2. CASE t \notin Blocks(g) /\ t \notin DOMAIN g.bbOf /\ InFunction(g, t)
  <2>1. PICK h : h = CreateBlockAt(g, t)
    OBVIOUS
  <2>2. \E b \in Blocks(g) : b <= t
    BY <1>2, FunctionHasBlock DEF Layout
  <2>3. Lays(g, h) /\ Layout(h) /\ t \in Blocks(h) /\ KeepsFalls(g, h)
    BY <1>2, <2>1, <2>2, CreateBlockLays, CreateBlockKeepsFalls DEF Lays
  <2>4. PICK r : r = SplitFunctionOnBlock(h, t)
    OBVIOUS
  <2>5. KeepsFalls(h, r.ir) /\ Lays(h, r.ir)
    BY <2>3, <2>4, SplitBlockKeepsFalls, SplitBlockLays DEF ResultOk
  <2>6. SplitFunctionOn(g, t) = r
    BY <1>2, <2>1, <2>4 DEF SplitFunctionOn
  <2> QED
    BY <2>3, <2>5, <2>6, KeepsFallsTrans
<1>3. CASE t \notin Blocks(g) /\ t \in DOMAIN g.bbOf
  BY <1>3, SameKeepsFalls DEF SplitFunctionOn, Result
<1>4. CASE t \notin Blocks(g) /\ t \notin DOMAIN g.bbOf /\ ~InFunction(g, t)
  BY <1>4, CreateFunctionKeepsFalls DEF SplitFunctionOn, Result
<1> QED
  BY <1>1, <1>2, <1>3, <1>4

\* getOrCreateCallTarget loses no fall-through.
LEMMA CallTargetKeepsFalls ==
  ASSUME NEW g, Layout(g), NEW t \in Nat
  PROVE  KeepsFalls(g, GetOrCreateCallTarget(g, t).ir)
<1>1. CASE t \in DOMAIN g.fncs
  BY <1>1, SameKeepsFalls DEF GetOrCreateCallTarget, FunctionResult, Result
<1>2. CASE t \notin DOMAIN g.fncs
  <2>1. PICK split : split = SplitFunctionOn(g, t)
    OBVIOUS
  <2>2. PICK h : h = split.ir
    OBVIOUS
  <2>3. PICK r : r = CallTargetAfterSplit(split, h, t)
    OBVIOUS
  <2>4. GetOrCreateCallTarget(g, t) = r
    <3>1. r = CHOOSE y \in {CallTargetAfterSplit(x, x.ir, t) : x \in {split}} : TRUE
      BY <2>2, <2>3
    <3> QED
      BY <1>2, <2>1, <3>1 DEF GetOrCreateCallTarget
  <2>5. KeepsFalls(g, h) /\ Lays(g, h) /\ Layout(h)
    BY <2>1, <2>2, SplitFunctionKeepsFalls, SplitFunctionLays DEF ResultOk, Lays
  <2>6. CASE split.fnc # NoAddr \/ t \in Blocks(h) \/ InBasicBlock(h, t)
    BY <2>3, <2>4, <2>5, <2>6 DEF CallTargetAfterSplit, FunctionResult, Result
  <2>7. CASE split.fnc = NoAddr /\ t \notin Blocks(h) /\ ~InBasicBlock(h, t)
    <3>1. CASE InFunction(h, t)
      <4>1. \E b \in Blocks(h) : b <= t
        BY <2>5, <3>1, FunctionHasBlock DEF Layout
      <4>2. KeepsFalls(h, CreateBlockAt(h, t)) /\ Lays(h, CreateBlockAt(h, t))
        BY <2>5, <2>7, <4>1, CreateBlockKeepsFalls, CreateBlockLays
      <4>3. r.ir = CreateBlockAt(h, t)
        BY <2>3, <2>7, <3>1 DEF CallTargetAfterSplit, Result
      <4> QED
        BY <2>4, <2>5, <4>2, <4>3, KeepsFallsTrans
    <3>2. CASE ~InFunction(h, t)
      <4>1. KeepsFalls(h, CreateFunction(h, t)) /\ Lays(h, CreateFunction(h, t))
        BY <2>5, <2>7, CreateFunctionKeepsFalls, CreateFunctionLays
      <4>2. r.ir = CreateFunction(h, t)
        BY <2>3, <2>7, <3>2 DEF CallTargetAfterSplit, FunctionResult, Result
      <4> QED
        BY <2>4, <2>5, <4>1, <4>2, KeepsFallsTrans
    <3> QED
      BY <3>1, <3>2
  <2> QED
    BY <2>6, <2>7
<1> QED
  BY <1>1, <1>2

\* Neither does getOrCreateBranchTarget, in its first half ...
LEMMA BranchBlockKeepsFalls ==
  ASSUME NEW g, Layout(g), NEW t \in Nat, NEW f
  PROVE  KeepsFalls(g, BranchBlock(g, t, f).ir)
<1>1. PICK r : r = BranchBlock(g, t, f)
  OBVIOUS
<1>2. CASE \/ t \in Blocks(g)
           \/ InBasicBlock(g, t) /\ ~(t \in DOMAIN g.bbOf /\ FncOf(g, g.bbOf[t]) = f)
           \/ ~InBasicBlock(g, t) /\ t \in DOMAIN g.fncs
  <2>1. r.ir = g
    BY <1>1, <1>2 DEF BranchBlock, Result
  <2> QED
    BY <1>1, <2>1, SameKeepsFalls
<1>3. CASE /\ t \notin Blocks(g) /\ InBasicBlock(g, t)
           /\ t \in DOMAIN g.bbOf /\ FncOf(g, g.bbOf[t]) = f
  BY <1>3, MakeStartKeepsFalls DEF BranchBlock, Result
<1>4. CASE t \notin Blocks(g) /\ ~InBasicBlock(g, t) /\ t \notin DOMAIN g.fncs
  <2>1. CASE GetBasicBlockBeforeAddress(g, t) # NoAddr
    <3>1. KeepsFalls(g, CreateBlockAt(g, t))
      BY <1>4, <2>1, CreateBlockKeepsFalls
    <3> QED
      BY <1>4, <2>1, <3>1 DEF BranchBlock, Result
  <2>2. CASE GetBasicBlockBeforeAddress(g, t) = NoAddr
    <3>1. KeepsFalls(g, CreateFunction(g, t))
      BY <1>4, CreateFunctionKeepsFalls
    <3> QED
      BY <1>4, <2>2, <3>1 DEF BranchBlock, FunctionResult, Result
  <2> QED
    BY <2>1, <2>2
<1> QED
  BY <1>2, <1>3, <1>4

\* ... and as a whole.
LEMMA BranchTargetKeepsFalls ==
  ASSUME NEW g, Layout(g), NEW t \in Nat, NEW f
  PROVE  KeepsFalls(g, GetOrCreateBranchTarget(g, t, f).ir)
<1>1. PICK b : b = BranchBlock(g, t, f)
  OBVIOUS
<1>2. PICK r : r = WithFunction(b)
  OBVIOUS
<1>3. r.ir = b.ir
  BY <1>2 DEF WithFunction, Result
<1>4. KeepsFalls(g, b.ir) /\ Lays(g, b.ir) /\ Layout(b.ir)
  BY <1>1, BranchBlockKeepsFalls, BranchBlockLays DEF ResultOk, Lays
<1>5. KeepsFalls(b.ir, SplitFunctionOn(b.ir, t).ir) /\ Lays(b.ir, SplitFunctionOn(b.ir, t).ir)
  BY <1>4, SplitFunctionKeepsFalls, SplitFunctionLays DEF ResultOk
<1>6. KeepsFalls(g, SplitFunctionOn(b.ir, t).ir)
  BY <1>4, <1>5, KeepsFallsTrans
<1>7. GetOrCreateBranchTarget(g, t, f) = BranchTargetOf(r, t, f)
  BY <1>1, <1>2 DEF GetOrCreateBranchTarget
<1> QED
  BY <1>3, <1>4, <1>6, <1>7 DEF BranchTargetOf, BranchSplit, Result
=============================================================================
