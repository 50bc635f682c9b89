---------------------- MODULE ReachingDefinitionsProofs ---------------------
(***************************************************************************)
(* The two reaching definitions analyses are right, and agree, for every   *)
(* function: whatever its blocks, their order and their definitions.       *)
(***************************************************************************)
EXTENDS ReachingDefinitions, TLAPS, NaturalsInduction, WellFoundedInduction

(***************************************************************************)
(* The inductive invariant                                                 *)
(***************************************************************************)

End(b) == [bb |-> b, pos |-> Len(prog.defs[b])]

\* What p has passed on is in its successor b, but for what b defines itself.
Passed(p, b) == \A d \in defsOut[p] : Src(d) \in KillDefs(b) \/ d \in defsOut[b]

\* b has not been visited since p was: in this round p was and b will be, or b
\* precedes p, and both were visited or both will be.
NotSince(p, b) == IF p \in next THEN b \in next /\ b < p ELSE b \in next \/ b < p

TypeOK ==
  /\ prog \in Programs
  /\ phase \in {"propagate", "link", "done"}
  /\ defsOut \in [Blocks -> SUBSET Definitions]
  /\ genDefs \in [Blocks -> SUBSET Definitions]
  /\ changed \in [Blocks -> BOOLEAN]
  /\ next \subseteq Reachable
  /\ again \in BOOLEAN

\* The worklist is gone through in ascending order.
InOrder == \A b \in next, c \in Reachable : b < c => c \in next

\* Nothing happens to the blocks the worklist leaves out.
DeadIsEmpty == \A b \in Blocks \ Reachable : defsOut[b] = {} /\ ~changed[b]

\* What is passed on by a block was defined by a block that is executed, and an
\* execution may reach the end of the block with it.
Sound == \A b \in Blocks : \A d \in defsOut[b] : d.bb \in Reachable /\ End(b) \in PlacesReached(d)

\* The definitions of a block are moved into what it passes on by its first visit.
OwnMoved ==
  \A b \in Reachable :
    IF defsOut[b] = {} THEN genDefs[b] = GenDefs(b) /\ (b \in next \/ GenDefs(b) = {})
                       ELSE GenDefs(b) \subseteq defsOut[b]

\* Only what has changed since may be missing from a successor, and then another
\* visit is to come: in this round, or in the next since this one has changed
\* something.
NoneMissed ==
  /\ \A p \in Reachable : \A b \in prog.succs[p] : Passed(p, b) \/ (changed[p] /\ NotSince(p, b))
  /\ \A p \in Reachable \ next : changed[p] => again

\* Nothing is left to be passed on.
Solved ==
  \A p \in Reachable : GenDefs(p) \subseteq defsOut[p] /\ \A b \in prog.succs[p] : Passed(p, b)

IInv ==
  /\ TypeOK
  /\ phase # "done" => DeadIsEmpty /\ Sound
  /\ phase = "propagate" => InOrder /\ OwnMoved /\ NoneMissed
  /\ phase = "link" => Solved
  /\ DefsAreThoseThatReach
  /\ OnDemandAgrees

-----------------------------------------------------------------------------
(* Closures, minima and maxima *)

\* A closure has where it starts, no step leaves it, and it is in every set of
\* which that is true.
LEMMA ClosureIsLeast ==
  ASSUME NEW D, NEW step \in [D -> SUBSET D], NEW start \in SUBSET D
  PROVE  /\ Closure(start, step) \subseteq D
         /\ start \subseteq Closure(start, step)
         /\ \A x \in Closure(start, step) : step[x] \subseteq Closure(start, step)
         /\ \A S \in SUBSET D :
              start \subseteq S /\ (\A x \in S : step[x] \subseteq S) => Closure(start, step) \subseteq S
<1>1. DOMAIN step = D
  OBVIOUS
<1>2. \A x : x \in Closure(start, step) <=>
              x \in D /\ \A S \in SUBSET D :
                start \subseteq S /\ (\A y \in S : step[y] \subseteq S) => x \in S
  BY <1>1 DEF Closure
<1>3. \A x \in D : step[x] \subseteq D
  OBVIOUS
<1> QED
  BY <1>2, <1>3

\* Min finds the least element of a non-empty set of naturals.
LEMMA MinOfNats ==
  ASSUME NEW S \in SUBSET Nat, S # {}
  PROVE  Min(S) \in S /\ \A x \in S : Min(S) <= x
<1>1. PICK m \in S : \A y \in S : ~(<<y, m>> \in OpToRel(<, Nat))
  BY NatLessThanWellFounded, WFMin
<1>2. \A y \in S : m <= y
  <2>1. SUFFICES ASSUME NEW y \in S, y < m PROVE FALSE
    OBVIOUS
  <2>2. <<y, m>> \in Nat \X Nat /\ <<y, m>>[1] = y /\ <<y, m>>[2] = m
    OBVIOUS
  <2>3. <<y, m>> \in OpToRel(<, Nat)
    BY <2>1, <2>2, Zenon DEF OpToRel
  <2> QED
    BY <1>1, <2>3
<1> QED
  BY <1>2 DEF Min

\* Max finds the greatest of some positions among the first n.
LEMMA MaxOfPositions ==
  ASSUME NEW n \in Nat, NEW S \in SUBSET (1..n), S # {}
  PROVE  Max(S) \in S /\ \A x \in S : x <= Max(S)
<1> DEFINE R == {r \in Nat : n - r \in S}
<1>1. ASSUME NEW x \in S PROVE x \in Nat /\ n - x \in R
  <2>1. x \in 1..n
    OBVIOUS
  <2>2. n - x \in Nat /\ n - (n - x) = x
    BY <2>1
  <2> QED
    BY <2>1, <2>2
<1>2. Min(R) \in R /\ \A r \in R : Min(R) <= r
  BY <1>1, MinOfNats
<1>3. PICK r : r = Min(R)
  OBVIOUS
<1>4. r \in Nat /\ n - r \in S
  BY <1>2, <1>3
<1>5. \A x \in S : x <= n - r
  <2> TAKE x \in S
  <2>1. r <= n - x /\ x \in Nat
    BY <1>1, <1>2, <1>3
  <2> QED
    BY <1>4, <2>1
<1> HIDE DEF R
<1>6. \A x \in S : x \in Nat
  BY <1>1
<1> QED
  BY <1>4, <1>5, <1>6 DEF Max

-----------------------------------------------------------------------------
(* The function that is analysed *)

\* Blocks are sequences of variables, and lead to blocks.
LEMMA ProgramTyped ==
  ASSUME prog \in Programs
  PROVE  /\ prog.defs \in [Blocks -> Seq(Variables)]
         /\ prog.succs \in [Blocks -> SUBSET Blocks]
         /\ \A b \in Blocks :
              /\ Len(prog.defs[b]) \in Nat
              /\ DOMAIN prog.defs[b] = 1..Len(prog.defs[b])
              /\ prog.succs[b] \subseteq Blocks
              /\ Preds(b) \subseteq Blocks
<1>1. /\ prog.defs \in [Blocks -> Seq(Variables)]
      /\ prog.succs \in [Blocks -> SUBSET Blocks]
  BY ProgramsAssumption
<1>2. \A b \in Blocks : prog.defs[b] \in Seq(Variables)
  BY <1>1
<1> QED
  BY <1>1, <1>2 DEF Preds

\* The elements of Places, Uses and Definitions.
LEMMA PlacesAre ==
  /\ \A b \in Blocks : \A i \in 0..Len(prog.defs[b]) : [bb |-> b, pos |-> i] \in Places
  /\ \A q \in Places : /\ q.bb \in Blocks /\ q.pos \in 0..Len(prog.defs[q.bb])
                        /\ q = [bb |-> q.bb, pos |-> q.pos]
<1>1. \A q : q \in Places <=> \E b \in Blocks : q \in [bb : {b}, pos : 0..Len(prog.defs[b])]
  BY DEF Places
<1> QED
  BY <1>1

LEMMA UsesAre ==
  /\ \A b \in Blocks : \A i \in 0..Len(prog.defs[b]) : \A v \in Variables :
       [bb |-> b, pos |-> i, src |-> v] \in Uses
  /\ \A u \in Uses : u.bb \in Blocks /\ u.pos \in 0..Len(prog.defs[u.bb]) /\ u.src \in Variables
<1>1. \A u : u \in Uses <=>
             \E b \in Blocks : u \in [bb : {b}, pos : 0..Len(prog.defs[b]), src : Variables]
  BY DEF Uses
<1> QED
  BY <1>1

LEMMA DefinitionsAre ==
  ASSUME prog \in Programs
  PROVE  /\ \A b \in Blocks : \A i \in 1..Len(prog.defs[b]) : [bb |-> b, pos |-> i] \in Definitions
         /\ \A d \in Definitions :
              /\ d.bb \in Blocks /\ d.pos \in 1..Len(prog.defs[d.bb])
              /\ d = [bb |-> d.bb, pos |-> d.pos] /\ d \in Places
              /\ Src(d) = prog.defs[d.bb][d.pos] /\ Src(d) \in Variables
              /\ Src(d) \in KillDefs(d.bb)
<1>1. \A b \in Blocks : DOMAIN prog.defs[b] = 1..Len(prog.defs[b]) /\ Len(prog.defs[b]) \in Nat
                        /\ prog.defs[b] \in Seq(Variables)
  BY ProgramTyped
<1>2. \A d : d \in Definitions <=>
             \E b \in Blocks : \E i \in DOMAIN prog.defs[b] : d = [bb |-> b, pos |-> i]
  BY DEF Definitions
<1>3. ASSUME NEW d \in Definitions
      PROVE  /\ d.bb \in Blocks /\ d.pos \in 1..Len(prog.defs[d.bb])
             /\ d = [bb |-> d.bb, pos |-> d.pos]
  BY <1>1, <1>2
<1>4. ASSUME NEW d \in Definitions
      PROVE  d \in Places
  BY <1>1, <1>3, PlacesAre
<1>5. ASSUME NEW d \in Definitions
      PROVE  /\ Src(d) = prog.defs[d.bb][d.pos] /\ Src(d) \in Variables
             /\ Src(d) \in KillDefs(d.bb)
  BY <1>1, <1>3 DEF Src, KillDefs, ToSet
<1>6. \A b \in Blocks : \A i \in 1..Len(prog.defs[b]) : [bb |-> b, pos |-> i] \in Definitions
  BY <1>1, <1>2
<1> QED
  BY <1>3, <1>4, <1>5, <1>6

\* A successor of a block that is executed is executed.
LEMMA ReachableIsClosed ==
  ASSUME prog \in Programs
  PROVE  /\ Reachable \subseteq Blocks
         /\ \A b \in Reachable : prog.succs[b] \subseteq Reachable
<1>1. {1} \in SUBSET Blocks
  BY BlocksAssumption
<1> QED
  BY <1>1, ProgramTyped, ClosureIsLeast DEF Reachable

\* The last definition of v among the first n, if there is one.
LEMMA LastDefIs ==
  ASSUME prog \in Programs, NEW v, NEW b \in Blocks, NEW n \in 0..Len(prog.defs[b])
  PROVE  /\ LastDef(v, b, n) = {} <=> \A i \in 1..n : prog.defs[b][i] # v
         /\ \A d : d \in LastDef(v, b, n) <=>
                   /\ d \in Definitions /\ d.bb = b /\ Src(d) = v /\ d.pos <= n
                   /\ \A i \in (d.pos + 1)..n : prog.defs[b][i] # v
         /\ \A d \in LastDef(v, b, n) : LastDef(v, b, n) = {d}
<1>1. n \in Nat /\ Len(prog.defs[b]) \in Nat /\ n <= Len(prog.defs[b])
  BY ProgramTyped
<1> DEFINE ds == {i \in 1..n : prog.defs[b][i] = v}
<1>2. CASE ds = {}
  <2>1. LastDef(v, b, n) = {}
    BY <1>2 DEF LastDef
  <2>2. \A i \in 1..n : prog.defs[b][i] # v
    BY <1>2
  <2>3. ASSUME NEW d \in Definitions, d.bb = b, Src(d) = v, d.pos <= n
        PROVE  FALSE
    <3>1. d.pos \in 1..Len(prog.defs[b]) /\ prog.defs[b][d.pos] = v
      BY <2>3, DefinitionsAre
    <3> QED
      BY <1>1, <2>2, <2>3, <3>1
  <2> QED
    BY <2>1, <2>2, <2>3
<1>3. CASE ds # {}
  <2>1. Max(ds) \in ds /\ \A x \in ds : x <= Max(ds)
    BY <1>1, <1>3, MaxOfPositions
  <2>2. PICK k : k = Max(ds)
    OBVIOUS
  <2>3. k \in 1..n /\ prog.defs[b][k] = v /\ k \in 1..Len(prog.defs[b])
    BY <1>1, <2>1, <2>2
  <2>4. PICK m : m = [bb |-> b, pos |-> k]
    OBVIOUS
  <2>5. LastDef(v, b, n) = {m}
    BY <1>3, <2>2, <2>4 DEF LastDef
  <2>6. m \in Definitions /\ m.bb = b /\ m.pos = k
    BY <2>3, <2>4, DefinitionsAre
  <2>7. Src(m) = v
    BY <2>3, <2>6, DefinitionsAre
  <2>8. m.pos <= n
    BY <1>1, <2>3, <2>6
  <2>9. \A i \in (m.pos + 1)..n : prog.defs[b][i] # v
    <3> SUFFICES ASSUME NEW i \in (k + 1)..n, prog.defs[b][i] = v PROVE FALSE
      BY <2>6
    <3>1. i \in 1..n /\ i > k
      BY <1>1, <2>3
    <3> QED
      BY <2>1, <2>2, <2>3, <3>1
  <2>10. ASSUME NEW d \in Definitions, d.bb = b, Src(d) = v, d.pos <= n,
                \A i \in (d.pos + 1)..n : prog.defs[b][i] # v
         PROVE  d = m
    <3>1. d.pos \in 1..Len(prog.defs[b]) /\ prog.defs[b][d.pos] = v /\ d = [bb |-> b, pos |-> d.pos]
      BY <2>10, DefinitionsAre
    <3>2. d.pos \in ds
      BY <1>1, <2>10, <3>1
    <3>3. d.pos <= k
      BY <2>1, <2>2, <3>2
    <3>4. k \notin (d.pos + 1)..n
      BY <2>3, <2>10
    <3>5. d.pos = k
      BY <1>1, <2>3, <3>1, <3>3, <3>4
    <3> QED
      BY <2>4, <3>1, <3>5
  <2> HIDE DEF ds
  <2>11. ~\A i \in 1..n : prog.defs[b][i] # v
    BY <2>3
  <2> QED
    BY <2>5, <2>6, <2>7, <2>8, <2>9, <2>10, <2>11
<1> QED
  BY <1>2, <1>3

\* A block kills the variables it has a last definition of, and these are what it
\* passes on at its first visit.
LEMMA KillIs ==
  ASSUME prog \in Programs, NEW b \in Blocks
  PROVE  /\ \A v : v \in KillDefs(b) <=> \E i \in 1..Len(prog.defs[b]) : prog.defs[b][i] = v
         /\ \A v : LastDefs(v, b) = {} <=> v \notin KillDefs(b)
         /\ \A v : KillsFrom(v, b, 0) <=> v \in KillDefs(b)
         /\ \A d : d \in GenDefs(b) <=> d \in LastDefs(Src(d), b)
<1>1. Len(prog.defs[b]) \in Nat /\ DOMAIN prog.defs[b] = 1..Len(prog.defs[b])
  BY ProgramTyped
<1>2. \A v : v \in KillDefs(b) <=> \E i \in 1..Len(prog.defs[b]) : prog.defs[b][i] = v
  BY <1>1 DEF KillDefs, ToSet
<1>3. \A v : /\ LastDefs(v, b) = {} <=> \A i \in 1..Len(prog.defs[b]) : prog.defs[b][i] # v
             /\ \A d \in LastDefs(v, b) : Src(d) = v
  <2> TAKE v
  <2>1. Len(prog.defs[b]) \in 0..Len(prog.defs[b])
    BY <1>1
  <2>2. /\ LastDef(v, b, Len(prog.defs[b])) = {} <=> \A i \in 1..Len(prog.defs[b]) : prog.defs[b][i] # v
        /\ \A d \in LastDef(v, b, Len(prog.defs[b])) : Src(d) = v
    BY <2>1, LastDefIs
  <2> QED
    BY <2>2 DEF LastDefs
<1>4. \A v : LastDefs(v, b) = {} <=> v \notin KillDefs(b)
  BY <1>2, <1>3
<1>5. \A v : KillsFrom(v, b, 0) <=> v \in KillDefs(b)
  BY <1>2 DEF KillsFrom
<1>6. \A d : d \in GenDefs(b) <=> \E v \in KillDefs(b) : d \in LastDefs(v, b)
  BY DEF GenDefs
<1> QED
  BY <1>2, <1>3, <1>4, <1>5, <1>6

-----------------------------------------------------------------------------
(* What an execution reaches *)

\* From a definition on, an execution goes from place to place of a block up to
\* the next definition of the variable, and from the end to the successors; that
\* is all that PlacesReached has.
LEMMA ReachedIs ==
  ASSUME prog \in Programs, NEW d \in Definitions
  PROVE  /\ PlacesReached(d) \subseteq Places /\ d \in PlacesReached(d)
         /\ \A b \in Blocks : \A i \in 1..Len(prog.defs[b]) :
              [bb |-> b, pos |-> i - 1] \in PlacesReached(d) /\ prog.defs[b][i] # Src(d)
                => [bb |-> b, pos |-> i] \in PlacesReached(d)
         /\ \A b \in Blocks : \A c \in prog.succs[b] :
              End(b) \in PlacesReached(d) => [bb |-> c, pos |-> 0] \in PlacesReached(d)
         /\ \A S \in SUBSET Places :
              /\ d \in S
              /\ \A b \in Blocks : \A i \in 1..Len(prog.defs[b]) :
                   [bb |-> b, pos |-> i - 1] \in S /\ prog.defs[b][i] # Src(d)
                     => [bb |-> b, pos |-> i] \in S
              /\ \A b \in Blocks : \A c \in prog.succs[b] : End(b) \in S => [bb |-> c, pos |-> 0] \in S
              => PlacesReached(d) \subseteq S
<1>1. PICK v : v = Src(d)
  OBVIOUS
<1>2. \A b \in Blocks : Len(prog.defs[b]) \in Nat /\ prog.succs[b] \subseteq Blocks
  BY ProgramTyped
<1>3. ASSUME NEW b \in Blocks
      PROVE  \A q : q \in StepOf(End(b), v) <=> \E c \in prog.succs[b] : q = [bb |-> c, pos |-> 0]
  <2>1. End(b).pos = Len(prog.defs[b]) /\ End(b).bb = b
    BY DEF End
  <2> QED
    BY <2>1 DEF StepOf
<1>4. ASSUME NEW b \in Blocks, NEW i \in 1..Len(prog.defs[b])
      PROVE  StepOf([bb |-> b, pos |-> i - 1], v)
               = IF prog.defs[b][i] = v THEN {} ELSE {[bb |-> b, pos |-> i]}
  <2>1. i \in Nat /\ i - 1 # Len(prog.defs[b]) /\ (i - 1) + 1 = i
    BY <1>2
  <2> QED
    BY <2>1 DEF StepOf
<1>5. ASSUME NEW q \in Places
      PROVE  \/ q = End(q.bb) /\ q.bb \in Blocks
             \/ \E i \in 1..Len(prog.defs[q.bb]) : q = [bb |-> q.bb, pos |-> i - 1] /\ q.bb \in Blocks
  <2>1. q.bb \in Blocks /\ q.pos \in 0..Len(prog.defs[q.bb]) /\ q = [bb |-> q.bb, pos |-> q.pos]
    BY PlacesAre
  <2>2. CASE q.pos = Len(prog.defs[q.bb])
    BY <2>1, <2>2 DEF End
  <2>3. CASE q.pos # Len(prog.defs[q.bb])
    <3>1. Len(prog.defs[q.bb]) \in Nat
      BY <1>2, <2>1
    <3>2. q.pos + 1 \in 1..Len(prog.defs[q.bb]) /\ (q.pos + 1) - 1 = q.pos
      BY <2>1, <2>3, <3>1
    <3> QED
      BY <2>1, <3>2
  <2> QED
    BY <2>2, <2>3
<1>6. PICK step : step = [q \in Places |-> StepOf(q, v)]
  OBVIOUS
<1>7. step \in [Places -> SUBSET Places]
  <2> SUFFICES ASSUME NEW q \in Places PROVE StepOf(q, v) \subseteq Places
    BY <1>6
  <2>1. CASE q = End(q.bb) /\ q.bb \in Blocks
    <3>1. ASSUME NEW c \in prog.succs[q.bb] PROVE [bb |-> c, pos |-> 0] \in Places
      <4>1. c \in Blocks /\ Len(prog.defs[c]) \in Nat
        BY <1>2, <2>1
      <4> QED
        BY <4>1, PlacesAre
    <3> QED
      BY <1>3, <2>1, <3>1
  <2>2. CASE \E i \in 1..Len(prog.defs[q.bb]) : q = [bb |-> q.bb, pos |-> i - 1] /\ q.bb \in Blocks
    <3>1. PICK i \in 1..Len(prog.defs[q.bb]) : q = [bb |-> q.bb, pos |-> i - 1] /\ q.bb \in Blocks
      BY <2>2
    <3>2. [bb |-> q.bb, pos |-> i] \in Places
      BY <3>1, <1>2, PlacesAre
    <3>3. StepOf(q, v) \subseteq {[bb |-> q.bb, pos |-> i]}
      BY <1>4, <3>1
    <3> QED
      BY <3>2, <3>3
  <2> QED
    BY <1>5, <2>1, <2>2
<1>8. {d} \in SUBSET Places
  BY DefinitionsAre
<1>9. PlacesReached(d) = Closure({d}, step)
  BY <1>1, <1>6 DEF PlacesReached
<1>10. PICK R : R = PlacesReached(d)
  OBVIOUS
<1>11. /\ R \subseteq Places /\ d \in R
       /\ \A x \in R : step[x] \subseteq R
       /\ \A S \in SUBSET Places : d \in S /\ (\A x \in S : step[x] \subseteq S) => R \subseteq S
  BY <1>7, <1>8, <1>9, <1>10, ClosureIsLeast
<1>12. \A x \in Places : step[x] = StepOf(x, v)
  BY <1>6
<1>13. ASSUME NEW b \in Blocks, NEW i \in 1..Len(prog.defs[b]),
              [bb |-> b, pos |-> i - 1] \in R, prog.defs[b][i] # v
       PROVE  [bb |-> b, pos |-> i] \in R
  <2>1. StepOf([bb |-> b, pos |-> i - 1], v) = {[bb |-> b, pos |-> i]}
    BY <1>4, <1>13
  <2>2. StepOf([bb |-> b, pos |-> i - 1], v) \subseteq R
    BY <1>11, <1>12, <1>13
  <2> QED
    BY <2>1, <2>2
<1>14. ASSUME NEW b \in Blocks, NEW c \in prog.succs[b], End(b) \in R
       PROVE  [bb |-> c, pos |-> 0] \in R
  <2>1. StepOf(End(b), v) \subseteq R
    BY <1>11, <1>12, <1>14
  <2> QED
    BY <1>3, <2>1
<1>15. ASSUME NEW S \in SUBSET Places, d \in S,
              \A b \in Blocks : \A i \in 1..Len(prog.defs[b]) :
                [bb |-> b, pos |-> i - 1] \in S /\ prog.defs[b][i] # v => [bb |-> b, pos |-> i] \in S,
              \A b \in Blocks : \A c \in prog.succs[b] : End(b) \in S => [bb |-> c, pos |-> 0] \in S
       PROVE  R \subseteq S
  <2>1. ASSUME NEW x \in S PROVE StepOf(x, v) \subseteq S
    <3>1. CASE x = End(x.bb) /\ x.bb \in Blocks
      BY <1>3, <1>15, <3>1
    <3>2. CASE \E i \in 1..Len(prog.defs[x.bb]) : x = [bb |-> x.bb, pos |-> i - 1] /\ x.bb \in Blocks
      <4>1. PICK i \in 1..Len(prog.defs[x.bb]) : x = [bb |-> x.bb, pos |-> i - 1] /\ x.bb \in Blocks
        BY <3>2
      <4>2. StepOf(x, v) = IF prog.defs[x.bb][i] = v THEN {} ELSE {[bb |-> x.bb, pos |-> i]}
        BY <1>4, <4>1
      <4>3. prog.defs[x.bb][i] # v => [bb |-> x.bb, pos |-> i] \in S
        BY <1>15, <4>1
      <4> QED
        BY <4>2, <4>3
    <3> QED
      BY <1>5, <3>1, <3>2
  <2> QED
    BY <1>11, <1>12, <1>15, <2>1
<1> QED
  BY <1>1, <1>10, <1>11, <1>13, <1>14, <1>15

\* Within a block an execution goes on from i to j past other variables.
LEMMA GoesOn ==
  ASSUME prog \in Programs, NEW d \in Definitions, NEW b \in Blocks,
         NEW i \in 0..Len(prog.defs[b]), NEW j \in 0..Len(prog.defs[b]), i <= j,
         [bb |-> b, pos |-> i] \in PlacesReached(d),
         \A k \in (i + 1)..j : prog.defs[b][k] # Src(d)
  PROVE  [bb |-> b, pos |-> j] \in PlacesReached(d)
<1>1. Len(prog.defs[b]) \in Nat
  BY ProgramTyped
<1> DEFINE bad == {k \in i..j : [bb |-> b, pos |-> k] \notin PlacesReached(d)}
<1>2. SUFFICES ASSUME bad # {} PROVE FALSE
  BY <1>1
<1>3. bad \in SUBSET Nat
  BY <1>1
<1>4. PICK m : m = Min(bad)
  OBVIOUS
<1>5. m \in bad /\ \A x \in bad : m <= x
  BY <1>2, <1>3, <1>4, MinOfNats
<1>6. m \in i..j /\ m # i
  BY <1>5
<1>7. m \in (i + 1)..j /\ m - 1 \in i..j /\ m \in 1..Len(prog.defs[b]) /\ ~(m <= m - 1)
  BY <1>1, <1>6
<1>8. [bb |-> b, pos |-> m - 1] \in PlacesReached(d)
  BY <1>5, <1>7
<1>9. [bb |-> b, pos |-> m] \in PlacesReached(d)
  BY <1>7, <1>8, ReachedIs
<1> QED
  BY <1>5, <1>9

-----------------------------------------------------------------------------
(* The full analysis, when propagate has ended *)

Solution == TypeOK /\ DeadIsEmpty /\ Sound /\ Solved

\* d is found for v behind the first n definitions of b.
Found(d, v, b, n) ==
  \/ d \in LastDef(v, b, n)
  \/ /\ \A i \in 1..n : prog.defs[b][i] # v
     /\ Src(d) = v /\ \E p \in Preds(b) : d \in defsOut[p]

LEMMA FoundIs ==
  ASSUME prog \in Programs, NEW u \in Uses, NEW d
  PROVE  d \in DefsOf(u) <=> Found(d, u.src, u.bb, u.pos)
<1>1. u.bb \in Blocks /\ u.pos \in 0..Len(prog.defs[u.bb])
  BY UsesAre
<1>2. LastDef(u.src, u.bb, u.pos) = {} <=> \A i \in 1..u.pos : prog.defs[u.bb][i] # u.src
  BY <1>1, LastDefIs
<1> QED
  BY <1>2 DEF DefsOf, Found

\* A definition that is found was made by a block that is executed, and an execution
\* may get from it to the use without another one.
LEMMA FoundReaches ==
  ASSUME Solution, NEW b \in Reachable, NEW n \in 0..Len(prog.defs[b]), NEW v, NEW d,
         Found(d, v, b, n)
  PROVE  /\ d \in Definitions /\ d.bb \in Reachable /\ Src(d) = v
         /\ [bb |-> b, pos |-> n] \in PlacesReached(d)
<1>1. prog \in Programs /\ b \in Blocks /\ Len(prog.defs[b]) \in Nat
  BY ReachableIsClosed, ProgramTyped DEF Solution, TypeOK
<1>2. CASE d \in LastDef(v, b, n)
  <2>1. /\ d \in Definitions /\ d.bb = b /\ Src(d) = v /\ d.pos <= n
        /\ \A i \in (d.pos + 1)..n : prog.defs[b][i] # v
    BY <1>1, <1>2, LastDefIs
  <2>2. d \in PlacesReached(d) /\ d = [bb |-> b, pos |-> d.pos] /\ d.pos \in 0..Len(prog.defs[b])
    BY <1>1, <2>1, DefinitionsAre, ReachedIs
  <2>3. [bb |-> b, pos |-> d.pos] \in PlacesReached(d)
    BY <2>2
  <2> QED
    BY <1>1, <2>1, <2>2, <2>3, GoesOn
<1>3. CASE /\ \A i \in 1..n : prog.defs[b][i] # v
           /\ Src(d) = v /\ \E p \in Preds(b) : d \in defsOut[p]
  <2>1. PICK p \in Preds(b) : d \in defsOut[p]
    BY <1>3
  <2>2. p \in Blocks /\ b \in prog.succs[p]
    BY DEF Preds
  <2>3. d \in Definitions
    BY <2>1, <2>2 DEF Solution, TypeOK
  <2>4. d.bb \in Reachable /\ End(p) \in PlacesReached(d)
    BY <2>1, <2>2 DEF Solution, Sound
  <2>5. [bb |-> b, pos |-> 0] \in PlacesReached(d)
    BY <1>1, <2>2, <2>3, <2>4, ReachedIs
  <2>6. 0 \in 0..Len(prog.defs[b]) /\ 0 <= n /\ 0 + 1 = 1
    BY <1>1
  <2>7. \A k \in (0 + 1)..n : prog.defs[b][k] # Src(d)
    BY <1>3, <2>6
  <2>8. [bb |-> b, pos |-> n] \in PlacesReached(d)
    BY <1>1, <2>3, <2>5, <2>6, <2>7, GoesOn
  <2> QED
    BY <1>3, <2>3, <2>4, <2>8
<1> QED
  BY <1>2, <1>3 DEF Found

\* A definition is found wherever an execution may get from it.
LEMMA ReachedIsFound ==
  ASSUME Solution, NEW d \in Definitions, d.bb \in Reachable,
         NEW q \in PlacesReached(d)
  PROVE  q.bb \in Reachable /\ Found(d, Src(d), q.bb, q.pos)
<1>1. prog \in Programs
  BY DEF Solution, TypeOK
<1>2. \A b \in Reachable : b \in Blocks /\ Len(prog.defs[b]) \in Nat
  BY <1>1, ReachableIsClosed, ProgramTyped
<1>3. PICK v : v = Src(d)
  OBVIOUS
<1>4. PICK S : S = {x \in Places : x.bb \in Reachable /\ Found(d, v, x.bb, x.pos)}
  OBVIOUS
<1>5. d \in S
  <2>1. /\ d.bb \in Blocks /\ d.pos \in 1..Len(prog.defs[d.bb]) /\ d \in Places
    BY <1>1, DefinitionsAre
  <2>2. d.pos \in 0..Len(prog.defs[d.bb]) /\ d.pos <= d.pos /\ (d.pos + 1)..d.pos = {}
    BY <1>2, <2>1
  <2>3. d \in LastDef(v, d.bb, d.pos)
    BY <1>1, <1>3, <2>1, <2>2, LastDefIs
  <2> QED
    BY <1>4, <2>1, <2>3 DEF Found
<1>6. ASSUME NEW b \in Blocks, NEW i \in 1..Len(prog.defs[b]),
             [bb |-> b, pos |-> i - 1] \in S, prog.defs[b][i] # v
      PROVE  [bb |-> b, pos |-> i] \in S
  <2>1. b \in Reachable /\ Found(d, v, b, i - 1)
    BY <1>4, <1>6
  <2>2. Len(prog.defs[b]) \in Nat
    BY <1>2, <2>1
  <2>3. i - 1 \in 0..Len(prog.defs[b]) /\ i \in 0..Len(prog.defs[b])
    BY <2>2
  <2>4. [bb |-> b, pos |-> i] \in Places
    BY <2>3, PlacesAre
  <2>5. CASE d \in LastDef(v, b, i - 1)
    <3>1. /\ d.bb = b /\ d.pos <= i - 1
          /\ \A k \in (d.pos + 1)..(i - 1) : prog.defs[b][k] # v
      <4>1. \A e \in LastDef(v, b, i - 1) :
              e.bb = b /\ e.pos <= i - 1 /\ \A k \in (e.pos + 1)..(i - 1) : prog.defs[b][k] # v
        BY <1>1, <2>3, LastDefIs
      <4> QED
        BY <2>5, <4>1
    <3>2. d.pos \in Nat
      BY <1>1, <2>2, <3>1, DefinitionsAre
    <3>3. d.pos <= i /\ \A k \in (d.pos + 1)..i : prog.defs[b][k] # v
      BY <1>6, <3>1, <3>2
    <3>4. \A e : e \in LastDef(v, b, i) <=>
                 /\ e \in Definitions /\ e.bb = b /\ Src(e) = v /\ e.pos <= i
                 /\ \A k \in (e.pos + 1)..i : prog.defs[b][k] # v
      BY <1>1, <2>3, LastDefIs
    <3>5. d \in LastDef(v, b, i)
      BY <1>3, <3>1, <3>3, <3>4
    <3> QED
      BY <1>4, <2>1, <2>4, <3>5 DEF Found
  <2>6. CASE /\ \A k \in 1..(i - 1) : prog.defs[b][k] # v
             /\ Src(d) = v /\ \E p \in Preds(b) : d \in defsOut[p]
    <3>1. \A k \in 1..i : prog.defs[b][k] # v
      BY <1>6, <2>6
    <3> QED
      BY <1>4, <2>1, <2>4, <2>6, <3>1 DEF Found
  <2> QED
    BY <2>1, <2>5, <2>6 DEF Found
<1>7. ASSUME NEW b \in Blocks, NEW c \in prog.succs[b], End(b) \in S
      PROVE  [bb |-> c, pos |-> 0] \in S
  <2>1. b \in Reachable /\ Found(d, v, b, Len(prog.defs[b]))
    BY <1>4, <1>7 DEF End
  <2>2. c \in Reachable /\ c \in Blocks /\ Len(prog.defs[c]) \in Nat
    BY <1>1, <1>2, <2>1, ReachableIsClosed
  <2>3. [bb |-> c, pos |-> 0] \in Places
    BY <2>2, PlacesAre
  <2>4. d \in defsOut[b]
    <3>1. CASE d \in LastDef(v, b, Len(prog.defs[b]))
      <4>1. d \in GenDefs(b)
        BY <1>1, <1>3, <3>1, KillIs DEF LastDefs
      <4> QED
        BY <2>1, <4>1 DEF Solution, Solved
    <3>2. CASE /\ \A k \in 1..Len(prog.defs[b]) : prog.defs[b][k] # v
               /\ Src(d) = v /\ \E p \in Preds(b) : d \in defsOut[p]
      <4>1. PICK p \in Preds(b) : d \in defsOut[p]
        BY <3>2
      <4>2. p \in Blocks /\ b \in prog.succs[p]
        BY DEF Preds
      <4>3. p \in Reachable
        BY <4>1, <4>2 DEF Solution, DeadIsEmpty
      <4>4. Passed(p, b)
        BY <4>2, <4>3 DEF Solution, Solved
      <4>5. v \notin KillDefs(b)
        BY <1>1, <3>2, KillIs
      <4> QED
        BY <1>3, <4>1, <4>4, <4>5 DEF Passed
    <3> QED
      BY <2>1, <3>1, <3>2 DEF Found
  <2>5. b \in Preds(c)
    BY DEF Preds
  <2>6. Found(d, v, c, 0)
    BY <1>3, <2>4, <2>5 DEF Found
  <2> QED
    BY <1>4, <2>2, <2>3, <2>6
<1>8. S \in SUBSET Places
  BY <1>4
<1>9. PlacesReached(d) \subseteq S
  BY <1>1, <1>3, <1>5, <1>6, <1>7, <1>8, ReachedIs
<1> QED
  BY <1>3, <1>4, <1>9

-----------------------------------------------------------------------------
(* The on-demand analysis *)

\* The searches go on from the blocks that do not define the variable.
LEMMA SearchIs ==
  ASSUME prog \in Programs, NEW v, NEW b \in Blocks
  PROVE  /\ SearchedFor(v, b) \subseteq Blocks /\ Preds(b) \subseteq SearchedFor(v, b)
         /\ \A x \in SearchedFor(v, b) : v \notin KillDefs(x) => Preds(x) \subseteq SearchedFor(v, b)
         /\ \A S \in SUBSET Blocks :
              Preds(b) \subseteq S /\ (\A x \in S : v \notin KillDefs(x) => Preds(x) \subseteq S)
                => SearchedFor(v, b) \subseteq S
<1>1. PICK step : step = [c \in Blocks |-> IF LastDefs(v, c) # {} THEN {} ELSE Preds(c)]
  OBVIOUS
<1>2. \A c \in Blocks : Preds(c) \subseteq Blocks
  BY ProgramTyped
<1>3. step \in [Blocks -> SUBSET Blocks]
  BY <1>1, <1>2
<1>4. \A c \in Blocks : step[c] = IF v \in KillDefs(c) THEN {} ELSE Preds(c)
  BY <1>1, KillIs
<1>5. SearchedFor(v, b) = Closure(Preds(b), step)
  BY <1>1 DEF SearchedFor
<1>6. PICK R : R = SearchedFor(v, b)
  OBVIOUS
<1>7. /\ R \subseteq Blocks /\ Preds(b) \subseteq R
      /\ \A x \in R : step[x] \subseteq R
      /\ \A S \in SUBSET Blocks :
           Preds(b) \subseteq S /\ (\A x \in S : step[x] \subseteq S) => R \subseteq S
  BY <1>2, <1>3, <1>5, <1>6, ClosureIsLeast
<1>8. \A x \in R : v \notin KillDefs(x) => Preds(x) \subseteq R
  BY <1>4, <1>7
<1>9. ASSUME NEW S \in SUBSET Blocks, Preds(b) \subseteq S,
             \A x \in S : v \notin KillDefs(x) => Preds(x) \subseteq S
      PROVE  R \subseteq S
  <2>1. \A x \in S : step[x] \subseteq S
    BY <1>4, <1>9
  <2> QED
    BY <1>7, <1>9, <2>1
<1> QED
  BY <1>6, <1>7, <1>8, <1>9

LEMMA FollowIs ==
  ASSUME prog \in Programs, NEW v, NEW b \in Blocks
  PROVE  /\ FollowedFrom(v, b) \subseteq Blocks /\ prog.succs[b] \subseteq FollowedFrom(v, b)
         /\ \A x \in FollowedFrom(v, b) :
              v \notin KillDefs(x) => prog.succs[x] \subseteq FollowedFrom(v, b)
         /\ \A S \in SUBSET Blocks :
              prog.succs[b] \subseteq S /\ (\A x \in S : v \notin KillDefs(x) => prog.succs[x] \subseteq S)
                => FollowedFrom(v, b) \subseteq S
<1>1. PICK step : step = [c \in Blocks |-> IF KillsFrom(v, c, 0) THEN {} ELSE prog.succs[c]]
  OBVIOUS
<1>2. \A c \in Blocks : prog.succs[c] \subseteq Blocks
  BY ProgramTyped
<1>3. step \in [Blocks -> SUBSET Blocks]
  BY <1>1, <1>2
<1>4. \A c \in Blocks : step[c] = IF v \in KillDefs(c) THEN {} ELSE prog.succs[c]
  BY <1>1, KillIs
<1>5. FollowedFrom(v, b) = Closure(prog.succs[b], step)
  BY <1>1 DEF FollowedFrom
<1>6. PICK R : R = FollowedFrom(v, b)
  OBVIOUS
<1>7. /\ R \subseteq Blocks /\ prog.succs[b] \subseteq R
      /\ \A x \in R : step[x] \subseteq R
      /\ \A S \in SUBSET Blocks :
           prog.succs[b] \subseteq S /\ (\A x \in S : step[x] \subseteq S) => R \subseteq S
  BY <1>2, <1>3, <1>5, <1>6, ClosureIsLeast
<1>8. \A x \in R : v \notin KillDefs(x) => prog.succs[x] \subseteq R
  BY <1>4, <1>7
<1>9. ASSUME NEW S \in SUBSET Blocks, prog.succs[b] \subseteq S,
             \A x \in S : v \notin KillDefs(x) => prog.succs[x] \subseteq S
      PROVE  R \subseteq S
  <2>1. \A x \in S : step[x] \subseteq S
    BY <1>4, <1>9
  <2> QED
    BY <1>7, <1>9, <2>1
<1> QED
  BY <1>6, <1>7, <1>8, <1>9

\* A search backwards from y meets x exactly when one forwards from x meets y.
LEMMA SearchesAreInverse ==
  ASSUME prog \in Programs, NEW v, NEW x \in Blocks, NEW y \in Blocks
  PROVE  x \in SearchedFor(v, y) <=> y \in FollowedFrom(v, x)
<1>1. \A b \in Blocks : prog.succs[b] \subseteq Blocks /\ Preds(b) \subseteq Blocks
  BY ProgramTyped
<1>2. \A p, b \in Blocks : p \in Preds(b) <=> b \in prog.succs[p]
  BY DEF Preds
<1>3. SearchedFor(v, y) \subseteq {b \in Blocks : y \in FollowedFrom(v, b)}
  <2> DEFINE S == {b \in Blocks : y \in FollowedFrom(v, b)}
  <2>1. Preds(y) \subseteq S
    BY <1>1, <1>2, FollowIs
  <2>2. ASSUME NEW b \in S, v \notin KillDefs(b), NEW p \in Preds(b) PROVE p \in S
    <3>1. p \in Blocks /\ b \in prog.succs[p]
      BY <1>1, <1>2
    <3>2. b \in FollowedFrom(v, p)
      BY <3>1, FollowIs
    <3>3. prog.succs[b] \subseteq FollowedFrom(v, p)
      BY <2>2, <3>1, <3>2, FollowIs
    <3>4. FollowedFrom(v, b) \subseteq FollowedFrom(v, p)
      BY <3>1, <3>3, FollowIs
    <3> QED
      BY <3>1, <3>4
  <2> HIDE DEF S
  <2>3. S \in SUBSET Blocks
    BY DEF S
  <2>4. SearchedFor(v, y) \subseteq S
    BY <2>1, <2>2, <2>3, SearchIs
  <2> QED
    BY <2>4 DEF S
<1>4. FollowedFrom(v, x) \subseteq {b \in Blocks : x \in SearchedFor(v, b)}
  <2> DEFINE S == {b \in Blocks : x \in SearchedFor(v, b)}
  <2>1. prog.succs[x] \subseteq S
    BY <1>1, <1>2, SearchIs
  <2>2. ASSUME NEW b \in S, v \notin KillDefs(b), NEW c \in prog.succs[b] PROVE c \in S
    <3>1. c \in Blocks /\ b \in Preds(c)
      BY <1>1, <1>2
    <3>2. b \in SearchedFor(v, c)
      BY <3>1, SearchIs
    <3>3. Preds(b) \subseteq SearchedFor(v, c)
      BY <2>2, <3>1, <3>2, SearchIs
    <3>4. SearchedFor(v, b) \subseteq SearchedFor(v, c)
      BY <3>1, <3>3, SearchIs
    <3> QED
      BY <3>1, <3>4
  <2> HIDE DEF S
  <2>3. S \in SUBSET Blocks
    BY DEF S
  <2>4. FollowedFrom(v, x) \subseteq S
    BY <2>1, <2>2, <2>3, FollowIs
  <2> QED
    BY <2>4 DEF S
<1> QED
  BY <1>3, <1>4

\* d is found on demand for v behind the first n definitions of b.
FoundOnDemand(d, v, b, n) ==
  \/ d \in LastDef(v, b, n)
  \/ /\ \A i \in 1..n : prog.defs[b][i] # v
     /\ \E x \in SearchedFor(v, b) : d \in LastDefs(v, x)

LEMMA FoundOnDemandIs ==
  ASSUME prog \in Programs, NEW u \in Uses, NEW d
  PROVE  d \in DefsFromUse_onDemand(u) <=> FoundOnDemand(d, u.src, u.bb, u.pos)
<1>1. u.bb \in Blocks /\ u.pos \in 0..Len(prog.defs[u.bb])
  BY UsesAre
<1>2. LastDef(u.src, u.bb, u.pos) = {} <=> \A i \in 1..u.pos : prog.defs[u.bb][i] # u.src
  BY <1>1, LastDefIs
<1> QED
  BY <1>2 DEF DefsFromUse_onDemand, FoundOnDemand

\* The last definition of v in a block, by its place.
LEMMA LastDefsIs ==
  ASSUME prog \in Programs, NEW v, NEW b \in Blocks, NEW d
  PROVE  d \in LastDefs(v, b) <=>
           /\ d \in Definitions /\ d.bb = b /\ Src(d) = v
           /\ \A i \in (d.pos + 1)..Len(prog.defs[b]) : prog.defs[b][i] # v
<1>1. Len(prog.defs[b]) \in 0..Len(prog.defs[b])
  BY ProgramTyped
<1>2. d \in LastDefs(v, b) <=>
        /\ d \in Definitions /\ d.bb = b /\ Src(d) = v /\ d.pos <= Len(prog.defs[b])
        /\ \A i \in (d.pos + 1)..Len(prog.defs[b]) : prog.defs[b][i] # v
  BY <1>1, LastDefIs DEF LastDefs
<1>3. d \in Definitions /\ d.bb = b => d.pos <= Len(prog.defs[b])
  BY <1>1, DefinitionsAre
<1> QED
  BY <1>2, <1>3

\* For a use that is executed, what the search finds in executed blocks is what the
\* full analysis has.
LEMMA SearchFindsTheSame ==
  ASSUME Solution, NEW b \in Reachable, NEW n \in 0..Len(prog.defs[b]), NEW v, NEW d
  PROVE  Found(d, v, b, n) <=> FoundOnDemand(d, v, b, n) /\ d.bb \in Reachable
<1>1. prog \in Programs
  BY DEF Solution, TypeOK
<1>2. b \in Blocks /\ \A x \in Blocks : Len(prog.defs[x]) \in Nat
  BY <1>1, ReachableIsClosed, ProgramTyped
<1>3. d \in LastDef(v, b, n) => d.bb \in Reachable
  BY <1>1, <1>2, LastDefIs
<1>4. ASSUME NEW x \in SearchedFor(v, b), d \in LastDefs(v, x), d.bb \in Reachable
      PROVE  Src(d) = v /\ \E p \in Preds(b) : d \in defsOut[p]
  <2>1. x \in Blocks
    BY <1>1, <1>2, SearchIs
  <2>2. d.bb = x /\ Src(d) = v
    BY <1>1, <1>4, <2>1, LastDefsIs
  <2>3. d \in defsOut[x]
    <3>1. d \in GenDefs(x)
      BY <1>1, <1>4, <2>1, <2>2, KillIs
    <3> QED
      BY <1>4, <2>2, <3>1 DEF Solution, Solved
  <2> DEFINE S == {y \in Blocks : d \in defsOut[y] => \E p \in Preds(b) : d \in defsOut[p]}
  <2>4. Preds(b) \subseteq S
    BY DEF Preds
  <2>5. ASSUME NEW y \in S, v \notin KillDefs(y), NEW p \in Preds(y) PROVE p \in S
    <3>1. p \in Blocks /\ y \in prog.succs[p]
      BY DEF Preds
    <3>2. ASSUME d \in defsOut[p] PROVE d \in defsOut[y]
      <4>1. p \in Reachable
        BY <3>1, <3>2 DEF Solution, DeadIsEmpty
      <4>2. Passed(p, y)
        BY <3>1, <4>1 DEF Solution, Solved
      <4> QED
        BY <2>2, <2>5, <3>2, <4>2 DEF Passed
    <3> QED
      BY <3>1, <3>2
  <2> HIDE DEF S
  <2>6. S \in SUBSET Blocks
    BY DEF S
  <2>7. SearchedFor(v, b) \subseteq S
    BY <1>1, <1>2, <2>4, <2>5, <2>6, SearchIs
  <2>8. x \in S
    BY <2>7
  <2> QED
    BY <2>2, <2>3, <2>8 DEF S
<1>5. ASSUME NEW p \in Preds(b), d \in defsOut[p], Src(d) = v
      PROVE  d.bb \in Reachable /\ \E x \in SearchedFor(v, b) : d \in LastDefs(v, x)
  <2>1. p \in Blocks
    BY DEF Preds
  <2>2. d \in Definitions
    BY <1>5, <2>1 DEF Solution, TypeOK
  <2>3. d.bb \in Reachable /\ End(p) \in PlacesReached(d)
    BY <1>5, <2>1 DEF Solution, Sound
  <2>4. PICK B : B = SearchedFor(v, b)
    OBVIOUS
  <2> DEFINE Later(x, j) == \E i \in (j + 1)..Len(prog.defs[x]) : prog.defs[x][i] = v
             T == {q \in Places : q.bb \notin B \/ Later(q.bb, q.pos)}
  <2>5. End(p) \notin T
    <3>1. p \in B /\ Len(prog.defs[p]) \in Nat
      BY <1>1, <1>2, <2>1, <2>4, SearchIs
    <3>2. ~Later(p, Len(prog.defs[p]))
      BY <3>1
    <3> QED
      BY <3>1, <3>2 DEF End
  <2>6. ASSUME NEW x \in Blocks, NEW i \in 1..Len(prog.defs[x]),
               [bb |-> x, pos |-> i - 1] \in T, prog.defs[x][i] # v
        PROVE  [bb |-> x, pos |-> i] \in T
    <3>1. i \in Nat /\ Len(prog.defs[x]) \in Nat /\ i \in 0..Len(prog.defs[x])
      BY <1>2
    <3>2. [bb |-> x, pos |-> i] \in Places
      BY <3>1, PlacesAre
    <3>3. x \notin B \/ Later(x, i - 1)
      BY <2>6
    <3>4. Later(x, i - 1) => Later(x, i)
      <4> SUFFICES ASSUME NEW k \in ((i - 1) + 1)..Len(prog.defs[x]), prog.defs[x][k] = v
                   PROVE  Later(x, i)
        OBVIOUS
      <4>1. k # i
        BY <2>6
      <4>2. k \in (i + 1)..Len(prog.defs[x])
        BY <3>1, <4>1
      <4> QED
        BY <4>2
    <3> QED
      BY <3>2, <3>3, <3>4
  <2>7. ASSUME NEW x \in Blocks, NEW c \in prog.succs[x], End(x) \in T
        PROVE  [bb |-> c, pos |-> 0] \in T
    <3>1. Len(prog.defs[x]) \in Nat /\ c \in Blocks /\ Len(prog.defs[c]) \in Nat
      BY <1>1, <1>2, ProgramTyped
    <3>2. [bb |-> c, pos |-> 0] \in Places
      BY <3>1, PlacesAre
    <3>3. ~Later(x, Len(prog.defs[x]))
      BY <3>1
    <3>4. x \notin B
      BY <2>7, <3>3 DEF End
    <3>5. x \in Preds(c)
      BY DEF Preds
    <3>6. c \in B => v \in KillDefs(c)
      BY <1>1, <1>2, <2>4, <3>4, <3>5, SearchIs
    <3>7. v \in KillDefs(c) => Later(c, 0)
      BY <1>1, <3>1, KillIs
    <3> QED
      BY <3>2, <3>6, <3>7
  <2>8. d \notin T
    <3> HIDE DEF T
    <3> SUFFICES ASSUME d \in T PROVE FALSE
      OBVIOUS
    <3>1. T \in SUBSET Places
      BY DEF T
    <3>2. PlacesReached(d) \subseteq T
      BY <1>1, <1>5, <2>2, <2>6, <2>7, <3>1, ReachedIs
    <3> QED
      BY <2>3, <2>5, <3>2
  <2>9. d.bb \in Blocks /\ d \in Places
    BY <1>1, <2>2, DefinitionsAre
  <2>10. d.bb \in B /\ ~Later(d.bb, d.pos)
    BY <2>8, <2>9
  <2>11. d \in LastDefs(v, d.bb)
    BY <1>1, <1>5, <2>2, <2>9, <2>10, LastDefsIs
  <2> QED
    BY <2>3, <2>4, <2>10, <2>11
<1> QED
  BY <1>3, <1>4, <1>5 DEF Found, FoundOnDemand

\* The uses found for a definition are those it is found for.
LEMMA UsesAreThoseFound ==
  ASSUME prog \in Programs, NEW d \in Definitions
  PROVE  UsesFromDef_onDemand(d) = {u \in Uses : d \in DefsFromUse_onDemand(u)}
<1>1. PICK v : v = Src(d)
  OBVIOUS
<1>2. d.bb \in Blocks /\ \A b \in Blocks : Len(prog.defs[b]) \in Nat
  BY DefinitionsAre, ProgramTyped
<1>3. d.pos \in 1..Len(prog.defs[d.bb])
  BY DefinitionsAre
<1>4. \A u : u \in UsesFromDef_onDemand(d) <=>
              \/ u \in UsesInBasicBlock(v, d.bb, d.pos)
              \/ /\ ~KillsFrom(v, d.bb, d.pos)
                 /\ \E b \in FollowedFrom(v, d.bb) : u \in UsesInBasicBlock(v, b, 0)
  BY <1>1 DEF UsesFromDef_onDemand
<1>5. ASSUME NEW u \in Uses
      PROVE  u \in UsesFromDef_onDemand(d) <=> FoundOnDemand(d, u.src, u.bb, u.pos)
  <2>1. u.bb \in Blocks /\ u.pos \in 0..Len(prog.defs[u.bb])
    BY UsesAre
  <2>2. u \in UsesInBasicBlock(v, d.bb, d.pos) <=> d \in LastDef(u.src, u.bb, u.pos)
    <3>1. d \in LastDef(u.src, u.bb, u.pos) <=>
            /\ d.bb = u.bb /\ Src(d) = u.src /\ d.pos <= u.pos
            /\ \A i \in (d.pos + 1)..u.pos : prog.defs[u.bb][i] # u.src
      <4>1. \A e : e \in LastDef(u.src, u.bb, u.pos) <=>
                   /\ e \in Definitions /\ e.bb = u.bb /\ Src(e) = u.src /\ e.pos <= u.pos
                   /\ \A i \in (e.pos + 1)..u.pos : prog.defs[u.bb][i] # u.src
        BY <2>1, LastDefIs
      <4> QED
        BY <4>1
    <3>2. d.pos <= u.pos <=> u.pos >= d.pos
      BY <1>2, <1>3, <2>1
    <3> QED
      BY <1>1, <3>1, <3>2 DEF UsesInBasicBlock
  <2>3. (\E b \in FollowedFrom(v, d.bb) : u \in UsesInBasicBlock(v, b, 0)) <=>
          /\ u.src = v /\ u.bb \in FollowedFrom(v, d.bb)
          /\ \A i \in 1..u.pos : prog.defs[u.bb][i] # v
    <3>1. u.pos >= 0 /\ 0 + 1 = 1
      BY <1>2, <2>1
    <3> QED
      BY <3>1 DEF UsesInBasicBlock
  <2>4. u.bb \in FollowedFrom(v, d.bb) <=> d.bb \in SearchedFor(v, u.bb)
    BY <1>2, <2>1, SearchesAreInverse
  <2>5. u.src = v /\ d.bb \in SearchedFor(v, u.bb) /\ ~KillsFrom(v, d.bb, d.pos) <=>
          \E x \in SearchedFor(u.src, u.bb) : d \in LastDefs(u.src, x)
    <3>1. \A x \in SearchedFor(u.src, u.bb) : x \in Blocks
      BY <2>1, SearchIs
    <3>2. \A x \in Blocks : d \in LastDefs(u.src, x) <=>
            /\ d.bb = x /\ v = u.src
            /\ \A i \in (d.pos + 1)..Len(prog.defs[x]) : prog.defs[x][i] # u.src
      BY <1>1, LastDefsIs
    <3> QED
      BY <1>2, <3>1, <3>2 DEF KillsFrom
  <2> QED
    BY <1>4, <2>2, <2>3, <2>4, <2>5 DEF FoundOnDemand
<1>6. \A u : u \in UsesFromDef_onDemand(d) => u \in Uses
  BY <1>4 DEF UsesInBasicBlock
<1> QED
  BY <1>5, <1>6, FoundOnDemandIs

-----------------------------------------------------------------------------
(* The steps of the analysis *)

\* What depends on nothing but the function stays as it is.
LEMMA SameFunction ==
  ASSUME prog' = prog
  PROVE  /\ Reachable' = Reachable /\ Definitions' = Definitions /\ Uses' = Uses
         /\ \A d : Src(d)' = Src(d) /\ PlacesReached(d)' = PlacesReached(d)
         /\ \A b : End(b)' = End(b) /\ GenDefs(b)' = GenDefs(b) /\ KillDefs(b)' = KillDefs(b)
         /\ \A d : UsesFromDef_onDemand(d)' = UsesFromDef_onDemand(d)
         /\ \A u : DefsFromUse_onDemand(u)' = DefsFromUse_onDemand(u)
<1>1. Reachable' = Reachable /\ Definitions' = Definitions /\ Uses' = Uses
  BY DEF Reachable, Definitions, Uses
<1>2. \A d : Src(d)' = Src(d)
  BY DEF Src
<1>3. Places' = Places /\ \A q, v : StepOf(q, v)' = StepOf(q, v)
  BY DEF Places, StepOf
<1>4. \A d : PlacesReached(d)' = PlacesReached(d)
  BY <1>2, <1>3 DEF PlacesReached
<1>5. \A v, b, n : LastDef(v, b, n)' = LastDef(v, b, n)
  BY DEF LastDef
<1>6. \A v, b : LastDefs(v, b)' = LastDefs(v, b)
  BY <1>5 DEF LastDefs
<1>7. \A b : End(b)' = End(b) /\ KillDefs(b)' = KillDefs(b) /\ Preds(b)' = Preds(b)
  BY DEF End, KillDefs, Preds
<1>8. \A b : GenDefs(b)' = GenDefs(b)
  BY <1>6, <1>7 DEF GenDefs
<1>9. \A v, b : SearchedFor(v, b)' = SearchedFor(v, b)
  BY <1>6, <1>7 DEF SearchedFor
<1>10. \A v, b, n : KillsFrom(v, b, n)' = KillsFrom(v, b, n)
  BY DEF KillsFrom
<1>11. \A v, b, n : UsesInBasicBlock(v, b, n)' = UsesInBasicBlock(v, b, n)
  BY <1>1 DEF UsesInBasicBlock
<1>12. \A v, b : FollowedFrom(v, b)' = FollowedFrom(v, b)
  BY <1>10 DEF FollowedFrom
<1>13. \A d : UsesFromDef_onDemand(d)' = UsesFromDef_onDemand(d)
  BY <1>2, <1>10, <1>11, <1>12 DEF UsesFromDef_onDemand
<1>14. \A u : DefsFromUse_onDemand(u)' = DefsFromUse_onDemand(u)
  BY <1>5, <1>6, <1>9 DEF DefsFromUse_onDemand
<1> QED
  BY <1>1, <1>2, <1>4, <1>7, <1>8, <1>13, <1>14

\* What a block passes on after a visit: it keeps what it had, has its own
\* definitions and all that any predecessor passes on, and nothing that no execution
\* brings to its end.
LEMMA VisitAdds ==
  ASSUME TypeOK, DeadIsEmpty, Sound, OwnMoved, NoneMissed, NEW m \in next,
         NEW own, own = Own(m), NEW out, out = own \cup Incoming(m, own)
  PROVE  /\ defsOut[m] \subseteq out /\ out \subseteq Definitions /\ GenDefs(m) \subseteq out
         /\ \A d \in out : d.bb \in Reachable /\ End(m) \in PlacesReached(d)
         /\ \A p \in Reachable : p # m /\ m \in prog.succs[p] =>
              \A d \in defsOut[p] : Src(d) \in KillDefs(m) \/ d \in out
<1>1. prog \in Programs /\ m \in Reachable
  BY DEF TypeOK
<1>2. m \in Blocks /\ Len(prog.defs[m]) \in Nat
  BY <1>1, ReachableIsClosed, ProgramTyped
<1>3. \A b \in Blocks : defsOut[b] \subseteq Definitions
  BY DEF TypeOK
<1>4. ASSUME NEW d \in GenDefs(m)
      PROVE  d \in Definitions /\ d.bb \in Reachable /\ End(m) \in PlacesReached(d)
  <2>1. d \in LastDefs(Src(d), m)
    BY <1>1, <1>2, KillIs
  <2>2. /\ d \in Definitions /\ d.bb = m
        /\ \A i \in (d.pos + 1)..Len(prog.defs[m]) : prog.defs[m][i] # Src(d)
    BY <1>1, <1>2, <2>1, LastDefsIs
  <2>3. d.pos \in 1..Len(prog.defs[m]) /\ d = [bb |-> m, pos |-> d.pos]
    BY <1>1, <2>2, DefinitionsAre
  <2>4. d \in PlacesReached(d)
    BY <1>1, <2>2, ReachedIs
  <2>5. [bb |-> m, pos |-> d.pos] \in PlacesReached(d)
    BY <2>3, <2>4
  <2>6. /\ d.pos \in 0..Len(prog.defs[m]) /\ d.pos <= Len(prog.defs[m])
        /\ Len(prog.defs[m]) \in 0..Len(prog.defs[m])
    BY <1>2, <2>3
  <2>7. [bb |-> m, pos |-> Len(prog.defs[m])] \in PlacesReached(d)
    BY <1>1, <1>2, <2>2, <2>5, <2>6, GoesOn
  <2> QED
    BY <1>1, <2>2, <2>7 DEF End
<1>5. own = IF defsOut[m] = {} THEN GenDefs(m) ELSE defsOut[m]
  BY <1>1 DEF Own, OwnMoved
<1>6. GenDefs(m) \subseteq own /\ defsOut[m] \subseteq own
  BY <1>1, <1>5 DEF OwnMoved
<1>7. ASSUME NEW d \in own
      PROVE  d \in Definitions /\ d.bb \in Reachable /\ End(m) \in PlacesReached(d)
  BY <1>2, <1>3, <1>4, <1>5 DEF Sound
<1>8. ASSUME NEW d
      PROVE  d \in Incoming(m, own) <=>
               /\ Src(d) \notin KillDefs(m)
               /\ \E p \in Preds(m) : changed[p] /\ d \in (IF p = m THEN own ELSE defsOut[p])
  BY DEF Incoming
<1>9. ASSUME NEW d \in Incoming(m, own)
      PROVE  d \in Definitions /\ d.bb \in Reachable /\ End(m) \in PlacesReached(d)
  <2>1. PICK p \in Preds(m) : d \in (IF p = m THEN own ELSE defsOut[p])
    BY <1>8
  <2>2. CASE p = m
    BY <1>7, <2>1, <2>2
  <2>3. CASE p # m
    <3>1. p \in Blocks /\ m \in prog.succs[p] /\ d \in defsOut[p]
      BY <2>1, <2>3 DEF Preds
    <3>2. d \in Definitions /\ d.bb \in Reachable /\ End(p) \in PlacesReached(d)
      BY <1>3, <3>1 DEF Sound
    <3>3. [bb |-> m, pos |-> 0] \in PlacesReached(d)
      BY <1>1, <3>1, <3>2, ReachedIs
    <3>4. \A k \in 1..Len(prog.defs[m]) : prog.defs[m][k] # Src(d)
      BY <1>1, <1>2, <1>8, KillIs
    <3>5. /\ 0 \in 0..Len(prog.defs[m]) /\ Len(prog.defs[m]) \in 0..Len(prog.defs[m])
          /\ 0 <= Len(prog.defs[m]) /\ 0 + 1 = 1
      BY <1>2
    <3>6. [bb |-> m, pos |-> Len(prog.defs[m])] \in PlacesReached(d)
      BY <1>1, <1>2, <3>2, <3>3, <3>4, <3>5, GoesOn
    <3> QED
      BY <3>2, <3>6 DEF End
  <2> QED
    BY <2>2, <2>3
<1>10. ASSUME NEW p \in Reachable, p # m, m \in prog.succs[p], NEW d \in defsOut[p]
       PROVE  Src(d) \in KillDefs(m) \/ d \in out
  <2>1. CASE Passed(p, m)
    BY <1>6, <2>1 DEF Passed
  <2>2. CASE changed[p]
    <3>1. p \in Preds(m)
      BY <1>1, <1>10, ReachableIsClosed DEF Preds
    <3> QED
      BY <1>8, <1>10, <2>2, <3>1
  <2> QED
    BY <1>10, <2>1, <2>2 DEF NoneMissed
<1> QED
  BY <1>6, <1>7, <1>9, <1>10

LEMMA VisitKeeps ==
  ASSUME IInv, Visit
  PROVE  IInv'
<1>1. /\ phase = "propagate" /\ next # {} /\ InitDefsOut(Min(next)) /\ next' = next \ {Min(next)}
      /\ prog' = prog /\ phase' = phase /\ defs' = defs
  BY DEF Visit
<1>2. TypeOK /\ DeadIsEmpty /\ Sound /\ InOrder /\ OwnMoved /\ NoneMissed
  BY <1>1 DEF IInv
<1>3. prog \in Programs /\ next \subseteq Reachable /\ Reachable \subseteq Blocks
  BY <1>2, ReachableIsClosed DEF TypeOK
<1>4. next \in SUBSET Nat
  BY <1>3, BlocksAssumption
<1>5. PICK m : m = Min(next)
  OBVIOUS
<1>6. m \in next /\ \A x \in next : m <= x
  BY <1>1, <1>4, <1>5, MinOfNats
<1>7. PICK own, out :
        /\ own = Own(m) /\ out = own \cup Incoming(m, own)
        /\ defsOut' = [defsOut EXCEPT ![m] = out]
        /\ genDefs' = [genDefs EXCEPT ![m] = IF defsOut[m] = {} THEN {} ELSE @]
        /\ changed' = [changed EXCEPT ![m] = out # defsOut[m]]
        /\ again' = (again \/ out # defsOut[m])
  BY <1>1, <1>5 DEF InitDefsOut
<1>8. /\ defsOut[m] \subseteq out /\ out \subseteq Definitions /\ GenDefs(m) \subseteq out
      /\ \A d \in out : d.bb \in Reachable /\ End(m) \in PlacesReached(d)
      /\ \A p \in Reachable : p # m /\ m \in prog.succs[p] =>
           \A d \in defsOut[p] : Src(d) \in KillDefs(m) \/ d \in out
  BY <1>2, <1>6, <1>7, VisitAdds
<1>9. /\ Reachable' = Reachable /\ Definitions' = Definitions
      /\ \A d : Src(d)' = Src(d) /\ PlacesReached(d)' = PlacesReached(d)
      /\ \A b : End(b)' = End(b) /\ GenDefs(b)' = GenDefs(b) /\ KillDefs(b)' = KillDefs(b)
  BY <1>1, SameFunction
<1>10. m \in Blocks /\ m \in Reachable
  BY <1>3, <1>6
<1>11. /\ defsOut \in [Blocks -> SUBSET Definitions] /\ genDefs \in [Blocks -> SUBSET Definitions]
       /\ changed \in [Blocks -> BOOLEAN] /\ again \in BOOLEAN
  BY <1>2 DEF TypeOK
<1>12. \A b \in Blocks :
         /\ defsOut'[b] = IF b = m THEN out ELSE defsOut[b]
         /\ changed'[b] = IF b = m THEN out # defsOut[m] ELSE changed[b]
         /\ b # m => genDefs'[b] = genDefs[b]
         /\ b = m /\ defsOut[m] = {} => genDefs'[b] = {}
  BY <1>7, <1>11
<1>13. next' = next \ {m}
  BY <1>1, <1>5
<1>14. TypeOK'
  <2>1. defsOut' \in [Blocks -> SUBSET Definitions]
    BY <1>7, <1>8, <1>11
  <2>2. genDefs' \in [Blocks -> SUBSET Definitions]
    BY <1>7, <1>11
  <2>3. changed' \in [Blocks -> BOOLEAN]
    BY <1>7, <1>11
  <2>4. again' \in BOOLEAN
    BY <1>7, <1>11
  <2> QED
    BY <1>1, <1>2, <1>9, <1>13, <2>1, <2>2, <2>3, <2>4 DEF TypeOK
<1>15. DeadIsEmpty'
  BY <1>2, <1>9, <1>10, <1>12 DEF DeadIsEmpty
<1>16. Sound'
  BY <1>2, <1>8, <1>9, <1>12 DEF Sound
<1>17. InOrder'
  <2> SUFFICES ASSUME NEW b \in next', NEW c \in Reachable, b < c PROVE c \in next'
    BY <1>9 DEF InOrder
  <2>1. b \in next /\ c \in next
    BY <1>2, <1>13 DEF InOrder
  <2>2. m <= b /\ b \in Nat /\ c \in Nat /\ m \in Nat
    BY <1>4, <1>6, <2>1
  <2> QED
    BY <1>13, <2>1, <2>2
<1>18. OwnMoved'
  <2> SUFFICES ASSUME NEW b \in Reachable
               PROVE  IF defsOut'[b] = {}
                      THEN genDefs'[b] = GenDefs(b) /\ (b \in next' \/ GenDefs(b) = {})
                      ELSE GenDefs(b) \subseteq defsOut'[b]
    BY <1>9 DEF OwnMoved
  <2>1. b \in Blocks
    BY <1>3
  <2>2. CASE b = m
    <3>1. out = {} => defsOut[m] = {} /\ GenDefs(m) = {}
      BY <1>8
    <3> QED
      BY <1>8, <1>12, <2>1, <2>2, <3>1
  <2>3. CASE b # m
    <3>1. defsOut'[b] = defsOut[b] /\ genDefs'[b] = genDefs[b] /\ (b \in next' <=> b \in next)
      BY <1>12, <1>13, <2>1, <2>3
    <3> QED
      BY <1>2, <3>1 DEF OwnMoved
  <2> QED
    BY <2>2, <2>3
<1>19. NoneMissed'
  <2>1. ASSUME NEW p \in Reachable, NEW b \in prog.succs[p]
        PROVE  Passed(p, b)' \/ (changed'[p] /\ NotSince(p, b)')
    <3>1. p \in Blocks /\ b \in Reachable /\ b \in Blocks
      BY <1>3, ReachableIsClosed
    <3>2. p \in Nat /\ b \in Nat /\ m \in Nat
      BY <1>10, <3>1, BlocksAssumption
    <3>3. Passed(p, b)' <=> \A d \in defsOut'[p] : Src(d) \in KillDefs(b) \/ d \in defsOut'[b]
      BY <1>9 DEF Passed
    <3>4. CASE b = m /\ p = m
      BY <1>12, <3>1, <3>3, <3>4
    <3>5. CASE b = m /\ p # m
      <4>1. defsOut'[p] = defsOut[p] /\ defsOut'[b] = out
        BY <1>12, <3>1, <3>5
      <4> QED
        BY <1>8, <3>3, <3>5, <4>1
    <3>6. CASE p = m /\ b # m
      <4>1. CASE out # defsOut[m]
        <5>1. changed'[p]
          BY <1>12, <3>1, <3>6, <4>1
        <5>2. m < b => b \in next'
          BY <1>2, <1>6, <1>13, <3>1, <3>6 DEF InOrder
        <5>3. p \notin next' /\ (b \in next' \/ b < p)
          BY <1>13, <3>2, <3>6, <5>2
        <5> QED
          BY <5>1, <5>3 DEF NotSince
      <4>2. CASE out = defsOut[m]
        <5>1. defsOut'[p] = defsOut[p] /\ defsOut'[b] = defsOut[b]
          BY <1>12, <3>1, <3>6, <4>2
        <5>2. ~NotSince(p, b)
          BY <1>6, <3>2, <3>6 DEF NotSince
        <5>3. Passed(p, b)
          BY <1>2, <5>2 DEF NoneMissed
        <5> QED
          BY <3>3, <5>1, <5>3 DEF Passed
      <4> QED
        BY <4>1, <4>2
    <3>7. CASE p # m /\ b # m
      <4>1. /\ defsOut'[p] = defsOut[p] /\ defsOut'[b] = defsOut[b] /\ changed'[p] = changed[p]
            /\ (p \in next' <=> p \in next) /\ (b \in next' <=> b \in next)
        BY <1>12, <1>13, <3>1, <3>7
      <4>2. Passed(p, b)' <=> Passed(p, b)
        BY <3>3, <4>1 DEF Passed
      <4>3. NotSince(p, b)' <=> NotSince(p, b)
        BY <4>1 DEF NotSince
      <4> QED
        BY <1>2, <4>1, <4>2, <4>3 DEF NoneMissed
    <3> QED
      BY <3>4, <3>5, <3>6, <3>7
  <2>2. ASSUME NEW p \in Reachable \ next', changed'[p] PROVE again'
    <3>1. p \in Blocks
      BY <1>3
    <3>2. CASE p = m
      BY <1>7, <1>12, <2>2, <3>1, <3>2
    <3>3. CASE p # m
      <4>1. p \notin next /\ changed[p]
        BY <1>12, <1>13, <2>2, <3>1, <3>3
      <4>2. again
        BY <1>2, <4>1 DEF NoneMissed
      <4> QED
        BY <1>7, <4>2
    <3> QED
      BY <3>2, <3>3
  <2> QED
    BY <1>1, <1>9, <2>1, <2>2 DEF NoneMissed
<1>20. (DefsAreThoseThatReach /\ OnDemandAgrees)'
  BY <1>1 DEF DefsAreThoseThatReach, OnDemandAgrees
<1> QED
  BY <1>1, <1>14, <1>15, <1>16, <1>17, <1>18, <1>19, <1>20 DEF IInv

LEMMA EndRoundKeeps ==
  ASSUME IInv, EndRound
  PROVE  IInv'
<1>1. /\ phase = "propagate" /\ next = {} /\ again' = FALSE
      /\ \/ again /\ next' = Worklist /\ phase' = phase
         \/ ~again /\ phase' = "link" /\ next' = next
      /\ prog' = prog /\ defsOut' = defsOut /\ genDefs' = genDefs /\ changed' = changed
      /\ defs' = defs
  BY DEF EndRound
<1>2. TypeOK /\ DeadIsEmpty /\ Sound /\ InOrder /\ OwnMoved /\ NoneMissed
  BY <1>1 DEF IInv
<1>3. /\ Reachable' = Reachable /\ Definitions' = Definitions
      /\ \A d : Src(d)' = Src(d) /\ PlacesReached(d)' = PlacesReached(d)
      /\ \A b : End(b)' = End(b) /\ GenDefs(b)' = GenDefs(b) /\ KillDefs(b)' = KillDefs(b)
  BY <1>1, SameFunction
<1>4. \A p, b : Passed(p, b)' <=> Passed(p, b)
  BY <1>1, <1>3 DEF Passed
<1>5. DeadIsEmpty' /\ Sound'
  BY <1>1, <1>2, <1>3 DEF DeadIsEmpty, Sound
<1>6. (DefsAreThoseThatReach /\ OnDemandAgrees)'
  BY <1>1 DEF DefsAreThoseThatReach, OnDemandAgrees
<1>7. \A b \in Reachable : GenDefs(b) \subseteq defsOut[b]
  BY <1>1, <1>2 DEF OwnMoved
<1>8. CASE again
  <2>1. next' = Reachable /\ phase' = "propagate"
    BY <1>1, <1>8 DEF Worklist
  <2>2. TypeOK'
    BY <1>1, <1>2, <1>3, <2>1 DEF TypeOK
  <2>3. InOrder'
    BY <1>3, <2>1 DEF InOrder
  <2>4. OwnMoved'
    BY <1>1, <1>2, <1>3, <1>7, <2>1 DEF OwnMoved
  <2>5. ASSUME NEW p \in Reachable, NEW b \in prog.succs[p], NotSince(p, b)
        PROVE  NotSince(p, b)'
    <3>1. b < p
      BY <1>1, <2>5 DEF NotSince
    <3>2. b \in Reachable
      BY <1>2, ReachableIsClosed DEF TypeOK
    <3> QED
      BY <2>1, <3>1, <3>2 DEF NotSince
  <2>6. NoneMissed'
    BY <1>1, <1>2, <1>3, <1>4, <2>1, <2>5 DEF NoneMissed
  <2> QED
    BY <1>5, <1>6, <2>1, <2>2, <2>3, <2>4, <2>6 DEF IInv
<1>9. CASE ~again
  <2>1. phase' = "link"
    BY <1>1, <1>9
  <2>2. TypeOK'
    BY <1>1, <1>2, <1>3, <1>9 DEF TypeOK
  <2>3. \A p \in Reachable : \A b \in prog.succs[p] : Passed(p, b)
    BY <1>1, <1>2, <1>9 DEF NoneMissed
  <2>4. Solved'
    BY <1>1, <1>3, <1>4, <1>7, <2>3 DEF Solved
  <2> QED
    BY <1>5, <1>6, <2>1, <2>2, <2>4 DEF IInv
<1> QED
  BY <1>8, <1>9

\* When nothing is left to be passed on, the definitions that are linked are right.
LEMMA LinkKeeps ==
  ASSUME IInv, InitializeDefsAndUses
  PROVE  IInv'
<1>1. /\ phase = "link" /\ defs' = [u \in Uses |-> DefsOf(u)] /\ phase' = "done"
      /\ defsOut' = [b \in Blocks |-> {}] /\ genDefs' = [b \in Blocks |-> {}]
      /\ prog' = prog /\ changed' = changed /\ next' = next /\ again' = again
  BY DEF InitializeDefsAndUses
<1>2. Solution
  BY <1>1 DEF IInv, Solution
<1>3. prog \in Programs
  BY <1>2 DEF Solution, TypeOK
<1>4. /\ Reachable' = Reachable /\ Definitions' = Definitions /\ Uses' = Uses
      /\ \A d : Src(d)' = Src(d) /\ PlacesReached(d)' = PlacesReached(d)
      /\ \A d : UsesFromDef_onDemand(d)' = UsesFromDef_onDemand(d)
      /\ \A u : DefsFromUse_onDemand(u)' = DefsFromUse_onDemand(u)
  BY <1>1, SameFunction
<1>5. TypeOK'
  <2>1. defsOut' \in [Blocks -> SUBSET Definitions] /\ genDefs' \in [Blocks -> SUBSET Definitions]
    BY <1>1
  <2> QED
    BY <1>1, <1>2, <1>4, <2>1 DEF Solution, TypeOK
<1>6. \A u \in Uses : \A d : d \in defs'[u] <=> Found(d, u.src, u.bb, u.pos)
  BY <1>1, <1>3, FoundIs
<1>7. \A u \in Uses : u.bb \in Blocks /\ u.pos \in 0..Len(prog.defs[u.bb])
  BY UsesAre
<1>8. ASSUME NEW u \in Uses, u.bb \in Reachable, NEW d \in defs'[u]
      PROVE  /\ d \in Definitions /\ d.bb \in Reachable /\ Src(d) = u.src
             /\ [bb |-> u.bb, pos |-> u.pos] \in PlacesReached(d)
  BY <1>2, <1>6, <1>7, <1>8, FoundReaches
<1>9. ASSUME NEW d \in Definitions, d.bb \in Reachable, NEW u \in Uses, u.src = Src(d),
             [bb |-> u.bb, pos |-> u.pos] \in PlacesReached(d)
      PROVE  d \in defs'[u]
  <2>1. PICK q : q = [bb |-> u.bb, pos |-> u.pos]
    OBVIOUS
  <2>2. q.bb = u.bb /\ q.pos = u.pos /\ q \in PlacesReached(d)
    BY <1>9, <2>1
  <2>3. Found(d, Src(d), q.bb, q.pos)
    BY <1>2, <1>9, <2>2, ReachedIsFound
  <2> QED
    BY <1>6, <1>9, <2>2, <2>3
<1>10. DefsAreThoseThatReach'
  <2>1. SUFFICES
          /\ \A u \in Uses : u.bb \in Reachable =>
               \A d \in defs'[u] : d.bb \in Reachable /\ Src(d) = u.src
          /\ \A d \in Definitions : d.bb \in Reachable =>
               \A u \in Uses : u.bb \in Reachable /\ u.src = Src(d) =>
                 (d \in defs'[u] <=> [bb |-> u.bb, pos |-> u.pos] \in PlacesReached(d))
    BY <1>4 DEF DefsAreThoseThatReach
  <2> QED
    BY <1>8, <1>9
<1>11. ASSUME NEW u \in Uses, u.bb \in Reachable
       PROVE  {d \in DefsFromUse_onDemand(u) : d.bb \in Reachable} = defs'[u]
  <2>1. \A d : Found(d, u.src, u.bb, u.pos) <=>
               FoundOnDemand(d, u.src, u.bb, u.pos) /\ d.bb \in Reachable
    BY <1>2, <1>7, <1>11, SearchFindsTheSame
  <2>2. \A d : d \in DefsFromUse_onDemand(u) <=> FoundOnDemand(d, u.src, u.bb, u.pos)
    BY <1>3, FoundOnDemandIs
  <2> QED
    BY <1>6, <2>1, <2>2
<1>12. \A d \in Definitions : UsesFromDef_onDemand(d) = {u \in Uses : d \in DefsFromUse_onDemand(u)}
  BY <1>3, UsesAreThoseFound
<1>13. OnDemandAgrees'
  <2>1. PICK found : found = [u \in Uses |-> DefsFromUse_onDemand(u)]
    OBVIOUS
  <2>2. \A u \in Uses : found[u] = DefsFromUse_onDemand(u)
    BY <2>1
  <2>3. \A u \in Uses : u.bb \in Reachable => {d \in found[u] : d.bb \in Reachable} = defs'[u]
    BY <1>11, <2>2
  <2>4. \A d \in Definitions : UsesFromDef_onDemand(d) = {u \in Uses : d \in found[u]}
    BY <1>12, <2>2
  <2>5. [u \in Uses' |-> DefsFromUse_onDemand(u)'] = found
    BY <1>4, <2>1
  <2> QED
    BY <1>4, <2>3, <2>4, <2>5 DEF OnDemandAgrees
<1> QED
  BY <1>1, <1>5, <1>10, <1>13 DEF IInv

-----------------------------------------------------------------------------
(* The theorems *)

\* The analysis starts and stays in states as IInv describes them.
THEOREM Invariance == Spec => []IInv
<1>1. Init => IInv
  <2> SUFFICES ASSUME Init PROVE IInv
    OBVIOUS
  <2>1. /\ prog \in Programs /\ phase = "propagate" /\ next = Reachable /\ again = FALSE
        /\ defsOut = [b \in Blocks |-> {}] /\ genDefs = [b \in Blocks |-> GenDefs(b)]
        /\ changed = [b \in Blocks |-> b \in Reachable]
    BY DEF Init, Worklist
  <2>2. Reachable \subseteq Blocks
    BY <2>1, ReachableIsClosed
  <2>3. \A b \in Blocks : GenDefs(b) \subseteq Definitions
    BY <2>1, KillIs, LastDefsIs
  <2>4. TypeOK
    <3>1. /\ defsOut \in [Blocks -> SUBSET Definitions] /\ genDefs \in [Blocks -> SUBSET Definitions]
          /\ changed \in [Blocks -> BOOLEAN]
      BY <2>1, <2>3
    <3> QED
      BY <2>1, <3>1 DEF TypeOK
  <2>5. DeadIsEmpty /\ Sound /\ InOrder
    BY <2>1 DEF DeadIsEmpty, Sound, InOrder
  <2>6. OwnMoved
    BY <2>1, <2>2 DEF OwnMoved
  <2>7. NoneMissed
    BY <2>1, <2>2 DEF NoneMissed, Passed
  <2>8. DefsAreThoseThatReach /\ OnDemandAgrees
    BY <2>1 DEF DefsAreThoseThatReach, OnDemandAgrees
  <2> QED
    BY <2>1, <2>4, <2>5, <2>6, <2>7, <2>8 DEF IInv
<1>2. IInv /\ [Next]_vars => IInv'
  <2> SUFFICES ASSUME IInv, [Next]_vars PROVE IInv'
    OBVIOUS
  <2>1. CASE Visit
    BY <2>1, VisitKeeps
  <2>2. CASE EndRound
    BY <2>2, EndRoundKeeps
  <2>3. CASE InitializeDefsAndUses
    BY <2>3, LinkKeeps
  <2>4. CASE UNCHANGED vars
    <3>1. /\ prog' = prog /\ defsOut' = defsOut /\ genDefs' = genDefs /\ changed' = changed
          /\ next' = next /\ again' = again /\ phase' = phase /\ defs' = defs
      BY <2>4 DEF vars
    <3>2. /\ Reachable' = Reachable /\ Definitions' = Definitions /\ Uses' = Uses
          /\ \A d : Src(d)' = Src(d) /\ PlacesReached(d)' = PlacesReached(d)
          /\ \A b : End(b)' = End(b) /\ GenDefs(b)' = GenDefs(b) /\ KillDefs(b)' = KillDefs(b)
          /\ \A d : UsesFromDef_onDemand(d)' = UsesFromDef_onDemand(d)
          /\ \A u : DefsFromUse_onDemand(u)' = DefsFromUse_onDemand(u)
      BY <3>1, SameFunction
    <3>3. \A p, b : (Passed(p, b)' <=> Passed(p, b)) /\ (NotSince(p, b)' <=> NotSince(p, b))
      BY <3>1, <3>2 DEF Passed, NotSince
    <3>4. TypeOK' = TypeOK
      BY <3>1, <3>2 DEF TypeOK
    <3>5. DeadIsEmpty' = DeadIsEmpty /\ Sound' = Sound /\ InOrder' = InOrder /\ OwnMoved' = OwnMoved
      BY <3>1, <3>2 DEF DeadIsEmpty, Sound, InOrder, OwnMoved
    <3>6. NoneMissed' = NoneMissed /\ Solved' = Solved
      BY <3>1, <3>2, <3>3 DEF NoneMissed, Solved
    <3>7. DefsAreThoseThatReach' = DefsAreThoseThatReach
      BY <3>1, <3>2 DEF DefsAreThoseThatReach
    <3>8. OnDemandAgrees' = OnDemandAgrees
      BY <3>1, <3>2 DEF OnDemandAgrees
    <3> QED
      BY <3>1, <3>4, <3>5, <3>6, <3>7, <3>8 DEF IInv
  <2> QED
    BY <2>1, <2>2, <2>3, <2>4 DEF Next, Done
<1> QED
  BY <1>1, <1>2, PTL DEF Spec

\* Whatever the order of the blocks, no change of a predecessor is missed: the
\* definitions linked to a use are those that an execution brings to it.
THEOREM LinksWhatReaches == Spec => []DefsAreThoseThatReach
<1>1. IInv => DefsAreThoseThatReach
  BY DEF IInv
<1> QED
  BY <1>1, Invariance, PTL

\* defsFromUse_onDemand and usesFromDef_onDemand answer as the full analysis does,
\* and are inverse to each other.
THEOREM AnswersTheSameOnDemand == Spec => []OnDemandAgrees
<1>1. IInv => OnDemandAgrees
  BY DEF IInv
<1> QED
  BY <1>1, Invariance, PTL
=============================================================================
