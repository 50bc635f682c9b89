----------------------- MODULE TerminatingCallsProofs -----------------------
(***************************************************************************)
(* The fixpoint of patternTerminatingCalls is sound, for every decoded     *)
(* module: whatever functions call each other and in whatever order they   *)
(* are examined, none that may return is found terminating.                *)
(* What is done then to the module keeps it in order: the flow ends behind *)
(* the calls to what was found and nowhere else.                           *)
(***************************************************************************)
EXTENDS TerminatingCalls, DecoderIrProofs

(***************************************************************************)
(* The inductive invariant                                                 *)
(***************************************************************************)

\* The module is as it was decoded: functions are being examined, or no call has
\* been visited since.
Intact == phase \in {"gather", "examine"} \/ (phase = "blocks" /\ todo = termCalls)

CallsToAny(gs) == UNION {CallsTo(g) : g \in gs}

\* A function found terminating has a body in which no return is reached, if every
\* call to a function found terminating by now ends the flow.  (The calls known
\* when it was examined were fewer.)
Justified ==
  \A cs \in {CallsToAny(terminating)} : \A f \in terminating \ prog.terminating :
    ir.fncs[f] # <<>> /\ ~ReachesReturn(f, cs)

IInv ==
  /\ prog \in Programs
  /\ phase \in {"gather", "examine", "blocks", "functions", "done"}
  /\ phase = "blocks" => todo \subseteq termCalls
  /\ Intact =>
       /\ ir = prog.ir
       /\ prog.terminating \subseteq terminating
       /\ terminating \subseteq DOMAIN ir.fncs
       /\ termCalls \subseteq CallsToAny(terminating)
       /\ \A f \in potential : f \in DOMAIN ir.fncs /\ ir.fncs[f] # <<>>
       /\ Justified

-----------------------------------------------------------------------------
(* The operators of the search *)

\* The more calls end the flow, the less of a function is met and the fewer returns
\* are reached.
LEMMA MoreCallsFewerReturns ==
  ASSUME NEW f, NEW cs, NEW ds, cs \subseteq ds, ReachesReturn(f, ds)
  PROVE  ReachesReturn(f, cs)
<1>1. \A b : Stops(cs, b) => Stops(ds, b)
  BY DEF Stops
<1>2. ASSUME NEW b \in Seen(f, ds) PROVE b \in Seen(f, cs)
  BY <1>1 DEF Seen
<1>3. PICK b \in Seen(f, ds) : ~Stops(ds, b) /\ InsnsOf(ir, b) \cap returns # {}
  BY DEF ReachesReturn
<1> QED
  BY <1>1, <1>2, <1>3 DEF ReachesReturn

\* The function of a call has a body.
LEMMA CallerHasBody ==
  ASSUME prog \in Programs, ir = prog.ir, NEW g, NEW a \in CallsTo(g)
  PROVE  FncAt(a) \in DOMAIN ir.fncs /\ ir.fncs[FncAt(a)] # <<>>
<1>1. PICK f \in DOMAIN ir.fncs : ir.bbOf[a] \in ToSet(ir.fncs[f])
  BY ProgramsAssumption DEF CallsTo
<1>2. FncAt(a) \in DOMAIN ir.fncs /\ ir.bbOf[a] \in ToSet(ir.fncs[FncAt(a)])
  BY <1>1 DEF FncAt, FncOf
<1>3. ToSet(<<>>) = {}
  BY DEF ToSet
<1> QED
  BY <1>2, <1>3

\* A step that leaves the module alone changes none of the answers.
LEMMA SameModule ==
  ASSUME prog' = prog, ir' = ir, returns' = returns
  PROVE  /\ \A g : CallsTo(g)' = CallsTo(g)
         /\ \A gs : CallsToAny(gs)' = CallsToAny(gs)
         /\ \A a : FncAt(a)' = FncAt(a)
         /\ \A f, cs : ReachesReturn(f, cs)' = ReachesReturn(f, cs)
<1>1. \A b : Succs(b)' = Succs(b)
  BY DEF Succs
<1>2. \A cs, b : Stops(cs, b)' = Stops(cs, b)
  BY DEF Stops
<1>3. \A f, cs : Seen(f, cs)' = Seen(f, cs)
  BY <1>1, <1>2 DEF Seen
<1>4. \A f, cs : ReachesReturn(f, cs)' = ReachesReturn(f, cs)
  BY <1>2, <1>3 DEF ReachesReturn
<1> QED
  BY <1>4 DEF CallsTo, CallsToAny, FncAt

-----------------------------------------------------------------------------
(* Steps *)

\* A round begins.
LEMMA GatherKeepsIt ==
  ASSUME IInv, Gather
  PROVE  IInv'
<1>1. /\ phase = "gather" /\ phase' = "examine" /\ prog' = prog /\ ir' = ir
      /\ returns' = returns /\ terminating' = terminating
      /\ termCalls' = termCalls \cup CallsToAny(terminating)
      /\ potential' = {FncAt(a) : a \in termCalls'} \ (terminating \cup nonTerm)
      /\ prog \in Programs /\ Intact
  BY DEF IInv, Gather, CallsToAny, Intact
<1>2. /\ ir = prog.ir /\ prog.terminating \subseteq terminating
      /\ terminating \subseteq DOMAIN ir.fncs
      /\ termCalls \subseteq CallsToAny(terminating) /\ Justified
  BY <1>1 DEF IInv
<1>3. termCalls' = CallsToAny(terminating)
  BY <1>1, <1>2
<1>4. ASSUME NEW f \in potential'
      PROVE  f \in DOMAIN ir.fncs /\ ir.fncs[f] # <<>>
  <2>1. PICK a \in CallsToAny(terminating) : f = FncAt(a)
    BY <1>1, <1>3
  <2>2. PICK g \in terminating : a \in CallsTo(g)
    BY <2>1 DEF CallsToAny
  <2> QED
    BY <1>1, <1>2, <2>1, <2>2, CallerHasBody
<1>5. Justified'
  BY <1>1, <1>2, SameModule DEF Justified
<1> QED
  BY <1>1, <1>2, <1>3, <1>4, <1>5, SameModule DEF IInv

\* One function is examined.
LEMMA ExamineKeepsIt ==
  ASSUME IInv, NEW f \in potential, Examine(f)
  PROVE  IInv'
<1>1. /\ phase = "examine" /\ phase' = phase /\ prog' = prog /\ ir' = ir
      /\ returns' = returns /\ termCalls' = termCalls
      /\ potential' = potential \ {f}
      /\ \/ terminating' = terminating
         \/ terminating' = terminating \cup {f} /\ ~ReachesReturn(f, termCalls)
      /\ prog \in Programs /\ Intact
  BY DEF IInv, Examine, Intact
<1>2. /\ ir = prog.ir /\ prog.terminating \subseteq terminating
      /\ terminating \subseteq DOMAIN ir.fncs
      /\ termCalls \subseteq CallsToAny(terminating) /\ Justified
      /\ \A h \in potential : h \in DOMAIN ir.fncs /\ ir.fncs[h] # <<>>
  BY <1>1 DEF IInv
<1> DEFINE calls == CallsToAny(terminating')
<1>3. CallsToAny(terminating) \subseteq calls /\ termCalls \subseteq calls
  BY <1>1, <1>2 DEF CallsToAny
<1>4. ASSUME NEW h \in terminating' \ prog.terminating
      PROVE  ir.fncs[h] # <<>> /\ ~ReachesReturn(h, calls)
  <2>1. CASE h \in terminating
    BY <1>2, <1>3, <1>4, <2>1, MoreCallsFewerReturns DEF Justified
  <2>2. CASE h \notin terminating
    <3>1. h = f /\ ~ReachesReturn(f, termCalls)
      BY <1>1, <1>4, <2>2
    <3> QED
      BY <1>2, <1>3, <3>1, MoreCallsFewerReturns
  <2> QED
    BY <2>1, <2>2
<1> HIDE DEF calls
<1>5. CallsToAny(terminating)' = calls
  BY <1>1, SameModule DEF CallsToAny, calls
<1>6. Justified'
  BY <1>1, <1>4, <1>5, SameModule DEF Justified
<1>7. (termCalls \subseteq CallsToAny(terminating))'
  BY <1>1, <1>3, <1>5
<1> QED
  BY <1>1, <1>2, <1>6, <1>7 DEF IInv

-----------------------------------------------------------------------------
(* The module while its flow is cut *)

\* Every block begins with an instruction.
AllFull(g) == \A b \in Blocks(g) : Full(g, b)

\* The blocks of a function are in the order of their addresses.
InOrder(g) == \A b, c : Before(g, b, c) => b < c

\* The layout of a module in which every jump could be expressed.
Tidy(g) == Structure(g) /\ Code(g) /\ AllFull(g) /\ InOrder(g) /\ Inner(g)

\* The function of an instruction.
Home(g, x) == FncOf(g, g.bbOf[x])

\* A block with an instruction does not begin inside of code.
LEMMA FullIsNotInside ==
  ASSUME NEW g, Structure(g), Code(g), NEW b, Full(g, b)
  PROVE  ~Inside(g, b)
<1> SUFFICES ASSUME NEW z \in DOMAIN g.bbOf, g.bbOf[z] < b, b < g.end[z] PROVE FALSE
  BY DEF Inside
<1>1. b \in DOMAIN g.bbOf /\ g.bbOf[b] = b
  BY DEF Full
<1>2. z \in Nat /\ b \in Nat /\ g.end[z] \in Nat
  BY <1>1 DEF Structure, InsnsOk, Code, BytesOk
<1>3. g.bbOf[z] \in Nat
  BY BlocksOfLists DEF Structure, InsnsOk
<1>4. b <= z
  BY <1>1, <1>2 DEF Code, BytesOk
<1>5. g.bbOf[b] = g.bbOf[z]
  BY <1>1, <1>2, <1>3, <1>4 DEF Code, Solid
<1> QED
  BY <1>1, <1>2, <1>3, <1>5

\* That layout is the decoder's one where every block has its instructions: nothing is
\* hidden and no function begins inside of code.
LEMMA TidyIsLayout ==
  ASSUME NEW g
  PROVE  Tidy(g) <=> Layout(g) /\ AllFull(g)
<1>1. ASSUME Tidy(g) PROVE Layout(g)
  <2>1. \A b, c : Before(g, b, c) => ~(c < b)
    <3> SUFFICES ASSUME NEW b, NEW c, Before(g, b, c) PROVE ~(c < b)
      OBVIOUS
    <3>1. b \in Nat /\ c \in Nat /\ b < c
      BY <1>1, BlocksOfLists DEF Tidy, InOrder, Before, Structure
    <3> QED
      BY <3>1
  <2> QED
    BY <1>1, <2>1 DEF Tidy, Layout, Sorted
<1>2. ASSUME Layout(g), AllFull(g) PROVE Tidy(g)
  <2>1. Structure(g) /\ Code(g) /\ ListsOk(g.fncs)
    BY <1>2 DEF Layout, Structure
  <2>2. NoFunctionInside(g)
    <3> SUFFICES ASSUME NEW f \in DOMAIN g.fncs, g.fncs[f] # <<>> PROVE ~Inside(g, f)
      BY DEF NoFunctionInside
    <3>1. BlockList(f, g.fncs[f])
      BY <2>1 DEF ListsOk
    <3>2. f \in ToSet(g.fncs[f])
      BY <3>1, ElementsOfList DEF BlockList
    <3>3. f \in Blocks(g)
      BY <3>2 DEF Blocks
    <3> QED
      BY <1>2, <2>1, <3>3, FullIsNotInside DEF AllFull
  <2>3. Sorted(g) /\ Inner(g)
    BY <1>2, <2>2 DEF Layout
  <2>4. InOrder(g)
    <3> SUFFICES ASSUME NEW b, NEW c, Before(g, b, c) PROVE b < c
      BY DEF InOrder
    <3>1. b \in Nat /\ c \in Nat /\ b # c /\ c \in Blocks(g)
      BY <2>1, BlocksOfLists, OrderOfBlocks DEF Before
    <3>2. ~(c < b)
      BY <1>2, <2>1, <2>3, <3>1, HiddenBlock DEF Sorted, AllFull
    <3> QED
      BY <3>1, <3>2
  <2> QED
    BY <1>2, <2>1, <2>3, <2>4 DEF Tidy
<1> QED
  BY <1>1, <1>2 DEF Tidy

\* Without some of its branches a module has the same layout.
LEMMA FewerBranches ==
  ASSUME NEW g, Tidy(g), NEW h, HasParts(h), h.fncs = g.fncs, h.bbOf = g.bbOf,
         h.end = g.end, h.edges \subseteq g.edges
  PROVE  Tidy(h)
<1>1. /\ Blocks(h) = Blocks(g) /\ \A x : FncOf(h, x) = FncOf(g, x) /\ Pos(h, x) = Pos(g, x)
  BY DEF Blocks, FncOf, Pos, ListOf
<1>2. \A x : LastIn(h, x) <=> LastIn(g, x)
  BY DEF LastIn
<1>3. Structure(h)
  <2>1. InsnsOk(h)
    BY <1>1 DEF Tidy, Structure, InsnsOk
  <2>2. EdgesOk(h)
    BY <1>1, <1>2 DEF Tidy, Structure, EdgesOk
  <2> QED
    BY <2>1, <2>2 DEF Tidy, Structure
<1>4. Code(h)
  BY DEF Tidy, Code, BytesOk, Solid, Falls
<1>5. AllFull(h) /\ InOrder(h) /\ Inner(h)
  BY <1>1 DEF Tidy, AllFull, Full, InOrder, Before, Inner
<1> QED
  BY <1>3, <1>4, <1>5 DEF Tidy

\* A block is cut in two before the instruction at a, and the branch between the
\* halves is taken away: no branch of the module is lost.
LEMMA CuttingBlocks ==
  ASSUME NEW g, Tidy(g), NEW a \in DOMAIN g.bbOf, a \notin Blocks(g),
         NEW h, h = CutFlow(MakeStart(g, a), g.bbOf[a])
  PROVE  /\ Tidy(h) /\ h.edges = g.edges /\ h.end = g.end
         /\ DOMAIN h.bbOf = DOMAIN g.bbOf /\ DOMAIN h.fncs = DOMAIN g.fncs
         /\ \A x \in DOMAIN g.bbOf :
              h.bbOf[x] = IF g.bbOf[x] = g.bbOf[a] /\ x >= a THEN a ELSE g.bbOf[x]
         /\ \A x \in DOMAIN g.bbOf : Home(h, x) = Home(g, x)
         /\ a \in Blocks(h) /\ a # FncOf(h, a)
         /\ \A e \in h.edges : e.to # a /\ h.bbOf[e.at] # g.bbOf[a]
<1>1. PICK b : b = g.bbOf[a]
  OBVIOUS
<1>2. PICK m : m = MakeStart(g, a)
  OBVIOUS
<1>3. Structure(g) /\ HasParts(g) /\ ListsOk(g.fncs) /\ Layout(g)
  BY TidyIsLayout DEF Tidy, Structure
<1>4. /\ a \in Nat /\ b \in Nat /\ b \in Blocks(g) /\ b < a
      /\ b \in DOMAIN g.bbOf /\ g.bbOf[b] = b
      /\ \E prev : StartMade(g, a, m, prev, b)
  BY <1>1, <1>2, <1>3, MakingStart
<1>5. PICK prev : StartMade(g, a, m, prev, b)
  BY <1>4
<1>6. PICK c : c = CreateBasicBlock(g, a, b)
  OBVIOUS
<1>7. /\ HasParts(m) /\ m.fncs = c.fncs /\ m.end = g.end
      /\ DOMAIN m.bbOf = DOMAIN g.bbOf
      /\ m.edges = g.edges \cup {[at |-> prev, to |-> a, kind |-> "br"]}
      /\ prev \in DOMAIN g.bbOf /\ g.bbOf[prev] = b /\ prev < a
  BY <1>5, <1>6 DEF StartMade
<1>8. \A x \in DOMAIN g.bbOf :
        m.bbOf[x] = IF g.bbOf[x] = b /\ x >= a THEN a ELSE g.bbOf[x]
  BY <1>5 DEF StartMade
<1>9. /\ OnlyLists(g, c) /\ ListsOk(c.fncs)
      /\ \A x : x \in Blocks(c) <=> x \in Blocks(g) \/ x = a
  BY <1>3, <1>4, <1>6, CreatingBlock
<1>10. /\ \A x \in Blocks(g) : FncOf(c, x) = FncOf(g, x)
       /\ FncOf(c, a) = FncOf(g, b)
       /\ DOMAIN c.fncs = DOMAIN g.fncs
  BY <1>3, <1>4, <1>6, OrderWithBlock
<1>11. /\ \A x : FncOf(m, x) = FncOf(c, x)
       /\ \A x : x \in Blocks(m) <=> x \in Blocks(g) \/ x = a
  BY <1>7, <1>9 DEF FncOf, Blocks
<1>12. \A x \in DOMAIN g.bbOf : x \in Nat /\ g.bbOf[x] \in Blocks(g) /\ g.bbOf[x] # a
  BY <1>3 DEF Structure, InsnsOk
<1>13. AllFull(m)
  <2> SUFFICES ASSUME NEW x \in Blocks(m) PROVE Full(m, x)
    BY DEF AllFull
  <2>1. CASE x = a
    BY <1>1, <1>4, <1>7, <1>8, <2>1 DEF Full
  <2>2. CASE x # a
    <3>1. x \in Blocks(g)
      BY <1>11, <2>2
    <3>2. x \in DOMAIN g.bbOf /\ g.bbOf[x] = x
      BY <3>1 DEF Tidy, AllFull, Full
    <3>3. m.bbOf[x] = x
      BY <1>4, <1>8, <3>2
    <3> QED
      BY <1>7, <3>2, <3>3 DEF Full
  <2> QED
    BY <2>1, <2>2
<1>14. Tidy(m)
  <2>1. Layout(m)
    BY <1>2, <1>3, MakeStartLays DEF Lays
  <2> QED
    BY <1>13, <2>1, TidyIsLayout
<1>15. /\ HasParts(h) /\ h.fncs = m.fncs /\ h.bbOf = m.bbOf /\ h.end = m.end
       /\ h.edges = {e \in m.edges : m.bbOf[e.at] # b}
  BY <1>1, <1>2, <1>7 DEF CutFlow, HasParts
<1>16. Tidy(h)
  BY <1>14, <1>15, FewerBranches
<1>17. ASSUME NEW e \in g.edges
       PROVE  m.bbOf[e.at] # b /\ e.to # a
  <2>1. e.at \in DOMAIN g.bbOf /\ LastIn(g, e.at) /\ e.to \in Blocks(g) /\ e.at \in Nat
    BY <1>3 DEF Structure, EdgesOk, InsnsOk
  <2>2. g.bbOf[e.at] = b => e.at >= a
    BY <1>1, <2>1 DEF LastIn
  <2> QED
    BY <1>4, <1>8, <2>1, <2>2
<1>18. m.bbOf[prev] = b
  BY <1>4, <1>7, <1>8, <1>12
<1>19. h.edges = g.edges
  BY <1>7, <1>15, <1>17, <1>18
<1>20. \A x \in DOMAIN g.bbOf : Home(h, x) = Home(g, x)
  <2> SUFFICES ASSUME NEW x \in DOMAIN g.bbOf PROVE FncOf(m, m.bbOf[x]) = FncOf(g, g.bbOf[x])
    BY <1>15 DEF Home, FncOf
  <2> QED
    BY <1>8, <1>10, <1>11, <1>12
<1>21. a \in Blocks(h) /\ a # FncOf(h, a)
  <2>1. FncOf(h, a) = FncOf(m, a) /\ Blocks(h) = Blocks(m)
    BY <1>15 DEF FncOf, Blocks
  <2>2. FncOf(g, b) \in Blocks(g)
    BY <1>3, <1>4, OrderOfBlocks
  <2> QED
    BY <1>10, <1>11, <2>1, <2>2
<1> QED
  BY <1>1, <1>7, <1>8, <1>10, <1>15, <1>16, <1>17, <1>19, <1>20, <1>21

\* A list without the element at a place that is not the first.
LEMMA RemovedPositions ==
  ASSUME NEW s \in Seq(Nat), NEW n \in 2..Len(s)
  PROVE  LET t == RemoveAt(s, n)
         IN  /\ t \in Seq(Nat) /\ Len(t) = Len(s) - 1
             /\ \A i \in 1..(n - 1) : t[i] = s[i]
             /\ \A i \in n..(Len(s) - 1) : t[i] = s[i + 1]
<1> DEFINE t == RemoveAt(s, n)
           p == SubSeq(s, 1, n - 1)
           q == SubSeq(s, n + 1, Len(s))
<1>1. n \in Nat /\ Len(s) \in Nat /\ n <= Len(s) /\ 2 <= n
  OBVIOUS
<1>2. t = p \o q
  BY Zenon DEF RemoveAt
<1>3. p \in Seq(Nat) /\ Len(p) = n - 1 /\ \A i \in 1..(n - 1) : p[i] = s[i]
  BY <1>1
<1>4. /\ q \in Seq(Nat) /\ Len(q) = Len(s) - n
      /\ \A i \in 1..(Len(s) - n) : q[i] = s[n + i]
  BY <1>1
<1> HIDE DEF p, q, t
<1>5. /\ t \in Seq(Nat) /\ Len(t) = Len(p) + Len(q)
      /\ \A i \in 1..Len(p) : t[i] = p[i]
      /\ \A i \in (Len(p) + 1)..(Len(p) + Len(q)) : t[i] = q[i - Len(p)]
  <2>1. \A x, y \in Seq(Nat) :
          /\ x \o y \in Seq(Nat) /\ Len(x \o y) = Len(x) + Len(y)
          /\ \A i \in 1..Len(x) : (x \o y)[i] = x[i]
          /\ \A i \in (Len(x) + 1)..(Len(x) + Len(y)) : (x \o y)[i] = y[i - Len(x)]
    BY JoinedLists
  <2>2. p \in Seq(Nat) /\ q \in Seq(Nat)
    BY <1>3, <1>4
  <2> QED
    BY <1>2, <2>1, <2>2, Zenon
<1>6. Len(t) = Len(s) - 1
  BY <1>1, <1>3, <1>4, <1>5
<1>7. \A i \in 1..(n - 1) : t[i] = s[i]
  BY <1>3, <1>5
<1>8. ASSUME NEW i \in n..(Len(s) - 1) PROVE t[i] = s[i + 1]
  <2>1. /\ i \in (Len(p) + 1)..(Len(p) + Len(q)) /\ i - (n - 1) \in 1..(Len(s) - n)
        /\ n + (i - (n - 1)) = i + 1
    BY <1>1, <1>3, <1>4
  <2>2. t[i] = q[i - (n - 1)]
    BY <1>3, <1>5, <2>1
  <2> QED
    BY <1>4, <2>1, <2>2
<1> QED
  BY <1>5, <1>6, <1>7, <1>8 DEF t

\* The list has the other blocks, in their order.
LEMMA RemovedBlock ==
  ASSUME NEW f, NEW s, BlockList(f, s), NEW n \in 2..Len(s), NEW t, t = RemoveAt(s, n)
  PROVE  /\ BlockList(f, t)
         /\ \A x : x \in ToSet(t) <=> x \in ToSet(s) /\ x # s[n]
         /\ \A i \in 1..Len(t) :
              LET k == IF i < n THEN i ELSE i + 1 IN k \in 1..Len(s) /\ t[i] = s[k]
<1>1. /\ s \in Seq(Nat) /\ \A i, j \in 1..Len(s) : s[i] = s[j] => i = j
      /\ s # <<>> => s[1] = f
  BY DEF BlockList
<1>2. n \in Nat /\ Len(s) \in Nat /\ n <= Len(s) /\ 2 <= n
  BY <1>1
<1>3. /\ t \in Seq(Nat) /\ Len(t) = Len(s) - 1
      /\ \A i \in 1..(n - 1) : t[i] = s[i]
      /\ \A i \in n..(Len(s) - 1) : t[i] = s[i + 1]
  BY <1>1, RemovedPositions
<1> DEFINE from(i) == IF i < n THEN i ELSE i + 1
<1>4. ASSUME NEW i \in 1..Len(t)
      PROVE  from(i) \in 1..Len(s) /\ from(i) # n /\ t[i] = s[from(i)]
  <2>1. CASE i < n
    BY <1>2, <1>3, <2>1
  <2>2. CASE ~(i < n)
    BY <1>2, <1>3, <2>2
  <2> QED
    BY <2>1, <2>2
<1>5. ASSUME NEW i \in 1..Len(t), NEW j \in 1..Len(t), t[i] = t[j] PROVE i = j
  <2>1. PICK k : k = IF i < n THEN i ELSE i + 1
    OBVIOUS
  <2>2. PICK l : l = IF j < n THEN j ELSE j + 1
    OBVIOUS
  <2>3. k \in 1..Len(s) /\ t[i] = s[k] /\ l \in 1..Len(s) /\ t[j] = s[l]
    BY <1>4, <2>1, <2>2
  <2>4. k = l
    BY <1>1, <1>5, <2>3
  <2> QED
    BY <1>2, <1>3, <2>1, <2>2, <2>4
<1>6. ASSUME NEW x PROVE (\E i \in 1..Len(t) : t[i] = x) <=> (\E k \in 1..Len(s) : s[k] = x) /\ x # s[n]
  <2>1. ASSUME NEW i \in 1..Len(t), t[i] = x PROVE (\E k \in 1..Len(s) : s[k] = x) /\ x # s[n]
    BY <1>1, <1>2, <1>4, <2>1
  <2>2. ASSUME NEW k \in 1..Len(s), s[k] = x, x # s[n] PROVE \E i \in 1..Len(t) : t[i] = x
    <3>1. CASE k < n
      <4>1. k \in 1..(n - 1) /\ k \in 1..Len(t)
        BY <1>2, <1>3, <3>1
      <4> QED
        BY <1>3, <2>2, <4>1
    <3>2. CASE k > n
      <4>1. k - 1 \in n..(Len(s) - 1) /\ k - 1 \in 1..Len(t) /\ (k - 1) + 1 = k
        BY <1>2, <1>3, <3>2
      <4> QED
        BY <1>3, <2>2, <4>1
    <3>3. k # n
      BY <2>2
    <3> QED
      BY <1>2, <3>1, <3>2, <3>3
  <2> QED
    BY <2>1, <2>2
<1>7. \A x : x \in ToSet(t) <=> x \in ToSet(s) /\ x # s[n]
  <2>1. /\ \A x : x \in ToSet(t) <=> \E i \in 1..Len(t) : t[i] = x
        /\ \A x : x \in ToSet(s) <=> \E i \in 1..Len(s) : s[i] = x
    BY <1>1, <1>3, ElementsOfList
  <2> QED
    BY <1>6, <2>1, Zenon
<1>8. BlockList(f, t)
  <2>1. t[1] = s[1] /\ s # <<>>
    BY <1>2, <1>3
  <2> QED
    BY <1>1, <1>3, <1>5, <2>1 DEF BlockList
<1> QED
  BY <1>4, <1>7, <1>8

\* A block that nothing leads to is erased with its instructions.
LEMMA ErasingBlocks ==
  ASSUME NEW g, Tidy(g), NEW bb \in Blocks(g), bb # FncOf(g, bb),
         \A e \in g.edges : e.to # bb, NEW h, h = EraseBlock(g, bb)
  PROVE  /\ Tidy(h) /\ DOMAIN h.fncs = DOMAIN g.fncs
         /\ DOMAIN h.bbOf = DOMAIN g.bbOf \ InsnsOf(g, bb)
         /\ \A x \in DOMAIN h.bbOf :
              h.bbOf[x] = g.bbOf[x] /\ h.end[x] = g.end[x] /\ Home(h, x) = Home(g, x)
         /\ h.edges = {e \in g.edges : e.at \notin InsnsOf(g, bb)}
<1>1. /\ Structure(g) /\ HasParts(g) /\ ListsOk(g.fncs) /\ InsnsOk(g) /\ EdgesOk(g)
      /\ Code(g) /\ BytesOk(g) /\ Solid(g) /\ Falls(g) /\ AllFull(g) /\ InOrder(g) /\ Inner(g)
  BY DEF Tidy, Structure, Code
<1>2. PICK f : f = FncOf(g, bb)
  OBVIOUS
<1>3. PICK n : n = Pos(g, bb)
  OBVIOUS
<1>4. PICK s : s = g.fncs[f]
  OBVIOUS
<1>5. /\ f \in DOMAIN g.fncs /\ n \in 1..Len(s) /\ s[n] = bb /\ BlockList(f, s)
      /\ bb \in ToSet(s)
  <2>1. f \in DOMAIN g.fncs /\ bb \in ToSet(s)
    BY <1>1, <1>2, <1>4, FunctionOfBlock
  <2>2. ListOf(g, bb) = s
    BY <1>1, <1>2, <1>4, PosOfBlock
  <2>3. n \in 1..Len(s) /\ s[n] = bb
    BY <1>1, <1>3, <2>2, PosOfBlock
  <2>4. BlockList(f, s)
    BY <1>1, <1>4, <2>1 DEF ListsOk
  <2> QED
    BY <2>1, <2>3, <2>4
<1>6. n \in 2..Len(s)
  <2>1. s[1] = f
    BY <1>5 DEF BlockList
  <2> QED
    BY <1>2, <1>5, <2>1
<1>7. PICK t : t = RemoveAt(s, n)
  OBVIOUS
<1>8. /\ BlockList(f, t)
      /\ \A x : x \in ToSet(t) <=> x \in ToSet(s) /\ x # bb
      /\ \A i \in 1..Len(t) :
           LET k == IF i < n THEN i ELSE i + 1 IN k \in 1..Len(s) /\ t[i] = s[k]
  BY <1>5, <1>6, <1>7, RemovedBlock
<1>9. PICK gone : gone = InsnsOf(g, bb)
  OBVIOUS
<1>10. \A x : x \in gone <=> x \in DOMAIN g.bbOf /\ g.bbOf[x] = bb
  BY <1>9 DEF InsnsOf
<1>11. h = [g EXCEPT !.fncs[f] = t,
                     !.bbOf = [a \in DOMAIN g.bbOf \ gone |-> g.bbOf[a]],
                     !.end = [a \in DOMAIN g.bbOf \ gone |-> g.end[a]],
                     !.edges = {e \in g.edges : e.at \notin gone}]
  BY <1>1, <1>2, <1>3, <1>4, <1>7, <1>9 DEF EraseBlock, HasParts
<1>12. /\ HasParts(h) /\ h.fncs = [g.fncs EXCEPT ![f] = t]
       /\ h.bbOf = [a \in DOMAIN g.bbOf \ gone |-> g.bbOf[a]]
       /\ h.end = [a \in DOMAIN g.bbOf \ gone |-> g.end[a]]
       /\ h.edges = {e \in g.edges : e.at \notin gone}
  BY <1>1, <1>11 DEF HasParts
<1>13. /\ DOMAIN h.fncs = DOMAIN g.fncs /\ h.fncs[f] = t
       /\ \A k \in DOMAIN g.fncs \ {f} : h.fncs[k] = g.fncs[k]
  BY <1>5, <1>12
<1>14. /\ DOMAIN h.bbOf = DOMAIN g.bbOf \ gone /\ DOMAIN h.end = DOMAIN h.bbOf
       /\ \A x \in DOMAIN h.bbOf :
            x \in DOMAIN g.bbOf /\ h.bbOf[x] = g.bbOf[x] /\ h.end[x] = g.end[x] /\ g.bbOf[x] # bb
  BY <1>10, <1>12
<1>15. \A k \in DOMAIN g.fncs : \A x : x \in ToSet(h.fncs[k]) <=> x \in ToSet(g.fncs[k]) /\ x # bb
  <2>1. \A k \in DOMAIN g.fncs \ {f} : bb \notin ToSet(g.fncs[k])
    BY <1>1, <1>2, <1>5, FunctionOfBlock
  <2> QED
    BY <1>4, <1>8, <1>13, <2>1
<1>16. \A x : x \in Blocks(h) <=> x \in Blocks(g) /\ x # bb
  BY <1>13, <1>15 DEF Blocks
<1>17. ListsOk(h.fncs)
  <2>1. \A k \in DOMAIN h.fncs : k \in Nat /\ BlockList(k, h.fncs[k])
    BY <1>1, <1>8, <1>13 DEF ListsOk
  <2>2. ASSUME NEW k \in DOMAIN h.fncs, NEW l \in DOMAIN h.fncs, k # l
        PROVE  ToSet(h.fncs[k]) \cap ToSet(h.fncs[l]) = {}
    <3>1. ToSet(g.fncs[k]) \cap ToSet(g.fncs[l]) = {}
      BY <1>1, <1>13, <2>2 DEF ListsOk
    <3> QED
      BY <1>13, <1>15, <2>2, <3>1
  <2> QED
    BY <2>1, <2>2 DEF ListsOk
\* The other blocks keep their function and their order.
<1>18. ASSUME NEW x \in Blocks(h)
       PROVE  FncOf(h, x) = FncOf(g, x)
  <2>1. PICK k \in DOMAIN h.fncs : x \in ToSet(h.fncs[k])
    BY <1>16 DEF Blocks
  <2>2. k = FncOf(h, x)
    BY <1>17, <2>1, FunctionOfBlock
  <2>3. k = FncOf(g, x)
    BY <1>1, <1>13, <1>15, <1>16, <2>1, FunctionOfBlock
  <2> QED
    BY <2>2, <2>3
<1>19. ASSUME NEW x \in Blocks(h)
       PROVE  /\ Pos(h, x) \in Int /\ Pos(g, x) \in Int
              /\ Pos(g, x) = IF FncOf(g, x) = f /\ Pos(h, x) >= n THEN Pos(h, x) + 1 ELSE Pos(h, x)
  <2>1. PICK k : k = FncOf(h, x)
    OBVIOUS
  <2>2. PICK i : i = Pos(h, x)
    OBVIOUS
  <2>3. k \in DOMAIN h.fncs /\ i \in 1..Len(h.fncs[k]) /\ h.fncs[k][i] = x
    BY <1>17, <2>1, <2>2, FunctionOfBlock, PosOfBlock
  <2>4. k = FncOf(g, x) /\ k \in DOMAIN g.fncs
    BY <1>13, <1>18, <2>1, <2>3
  <2>5. CASE k # f
    <3>1. i \in 1..Len(g.fncs[k]) /\ g.fncs[k][i] = x
      BY <1>13, <2>3, <2>4, <2>5
    <3>2. Pos(g, x) = i
      BY <1>1, <2>4, <3>1, PlaceInList
    <3> QED
      BY <2>2, <2>3, <2>4, <2>5, <3>2
  <2>6. CASE k = f
    <3>1. i \in 1..Len(t) /\ t[i] = x
      BY <1>13, <2>3, <2>6
    <3>2. PICK j : j = IF i < n THEN i ELSE i + 1
      OBVIOUS
    <3>3. j \in 1..Len(s) /\ s[j] = x
      BY <1>8, <3>1, <3>2
    <3>4. Pos(g, x) = j
      BY <1>1, <1>4, <1>5, <3>3, PlaceInList
    <3> QED
      BY <1>5, <2>2, <2>4, <2>6, <3>1, <3>2, <3>4
  <2> QED
    BY <2>5, <2>6
<1>20. ASSUME NEW b, NEW c, Before(h, b, c) PROVE Before(g, b, c)
  <2>1. b \in Blocks(h) /\ c \in Blocks(h) /\ FncOf(h, b) = FncOf(h, c) /\ Pos(h, b) < Pos(h, c)
    BY <1>20 DEF Before
  <2>2. FncOf(g, b) = FncOf(g, c) /\ b \in Blocks(g) /\ c \in Blocks(g)
    BY <1>16, <1>18, <2>1
  <2>3. Pos(g, b) < Pos(g, c)
    BY <1>5, <1>19, <2>1, <2>2
  <2> QED
    BY <2>2, <2>3 DEF Before
<1>21. InsnsOk(h)
  <2> SUFFICES ASSUME NEW x \in DOMAIN h.bbOf
               PROVE  /\ x \in Nat /\ h.bbOf[x] \in Blocks(h) /\ h.bbOf[x] <= x
                      /\ h.bbOf[x] \in DOMAIN h.bbOf /\ h.bbOf[h.bbOf[x]] = h.bbOf[x]
    BY DEF InsnsOk
  <2>1. /\ x \in Nat /\ g.bbOf[x] \in Blocks(g) /\ g.bbOf[x] <= x
        /\ g.bbOf[x] \in DOMAIN g.bbOf /\ g.bbOf[g.bbOf[x]] = g.bbOf[x] /\ g.bbOf[x] # bb
    BY <1>1, <1>14 DEF InsnsOk
  <2>2. g.bbOf[x] \in DOMAIN h.bbOf
    BY <1>10, <1>14, <2>1
  <2> QED
    BY <1>14, <1>16, <2>1, <2>2
<1>22. \A e : e \in h.edges <=> e \in g.edges /\ e.at \notin gone
  BY <1>12
<1>23. EdgesOk(h)
  <2>1. ASSUME NEW e \in h.edges
        PROVE  e.at \in DOMAIN h.bbOf /\ e.to \in Blocks(h) /\ LastIn(h, e.at)
    <3>1. e \in g.edges /\ e.at \notin gone /\ e.at \in DOMAIN g.bbOf /\ e.to \in Blocks(g)
          /\ LastIn(g, e.at)
      BY <1>1, <1>22, <2>1 DEF EdgesOk
    <3>2. e.at \in DOMAIN h.bbOf /\ e.to \in Blocks(h)
      BY <1>14, <1>16, <3>1
    <3> QED
      BY <1>14, <3>1, <3>2 DEF LastIn
  <2>2. \A e, d \in h.edges : e # d /\ e.at = d.at => {e.kind, d.kind} = {"true", "false"}
    BY <1>1, <1>22 DEF EdgesOk
  <2> QED
    BY <2>1, <2>2 DEF EdgesOk
<1>24. BytesOk(h)
  BY <1>1, <1>14 DEF BytesOk
<1>25. Solid(h)
  <2> SUFFICES ASSUME NEW z \in DOMAIN h.bbOf
               PROVE  /\ \A w \in DOMAIN h.bbOf : h.bbOf[z] <= w /\ w <= z => h.bbOf[w] = h.bbOf[z]
                      /\ \A p \in Nat : h.bbOf[z] <= p /\ p <= z =>
                           \E w \in DOMAIN h.bbOf : w <= p /\ p < h.end[w]
    BY DEF Solid
  <2>1. z \in DOMAIN g.bbOf /\ h.bbOf[z] = g.bbOf[z] /\ g.bbOf[z] # bb
    BY <1>14
  <2>2. \A w \in DOMAIN h.bbOf : h.bbOf[z] <= w /\ w <= z => h.bbOf[w] = h.bbOf[z]
    BY <1>1, <1>14, <2>1 DEF Solid
  <2>3. ASSUME NEW p \in Nat, g.bbOf[z] <= p, p <= z
        PROVE  \E w \in DOMAIN h.bbOf : w <= p /\ p < h.end[w]
    <3>1. PICK w \in DOMAIN g.bbOf : w <= p /\ p < g.end[w]
      BY <1>1, <2>1, <2>3 DEF Solid
    <3>2. /\ z \in Nat /\ w \in Nat /\ g.bbOf[z] \in DOMAIN g.bbOf /\ g.bbOf[z] \in Nat
          /\ g.end[w] \in Nat
      BY <1>1, <2>1 DEF InsnsOk, BytesOk
    <3>3. g.bbOf[z] <= w
      BY <1>1, <2>3, <3>1, <3>2 DEF BytesOk
    <3>4. w <= z
      BY <2>3, <3>1, <3>2
    <3>5. g.bbOf[w] = g.bbOf[z]
      BY <1>1, <2>1, <3>3, <3>4 DEF Solid
    <3>6. w \in DOMAIN h.bbOf
      BY <1>10, <1>14, <2>1, <3>5
    <3> QED
      BY <1>14, <3>1, <3>6
  <2> QED
    BY <2>1, <2>2, <2>3
<1>26. Falls(h)
  <2> SUFFICES ASSUME NEW e \in h.edges
               PROVE  e.kind \in {"br", "true"} \/ (e.to = h.end[e.at] /\ e.kind \in {"false", "condcall"})
    BY DEF Falls
  <2>1. e \in g.edges /\ e.at \in DOMAIN h.bbOf
    BY <1>22, <1>23 DEF EdgesOk
  <2> QED
    BY <1>1, <1>14, <2>1 DEF Falls
<1>27. AllFull(h)
  <2> SUFFICES ASSUME NEW b \in Blocks(h) PROVE Full(h, b)
    BY DEF AllFull
  <2>1. b \in DOMAIN g.bbOf /\ g.bbOf[b] = b /\ b # bb
    BY <1>1, <1>16 DEF AllFull, Full
  <2> QED
    BY <1>10, <1>14, <2>1 DEF Full
<1>28. \A x \in DOMAIN h.bbOf : Home(h, x) = Home(g, x)
  BY <1>14, <1>18, <1>21 DEF Home, InsnsOk
<1>29. Inner(h)
  <2> SUFFICES ASSUME NEW e \in h.edges
               PROVE  FncOf(h, h.bbOf[e.at]) = FncOf(h, e.to) /\ e.to # FncOf(h, e.to)
    BY DEF Inner
  <2>1. e \in g.edges /\ e.at \in DOMAIN h.bbOf /\ e.to \in Blocks(h)
    BY <1>22, <1>23 DEF EdgesOk
  <2>2. FncOf(h, h.bbOf[e.at]) = FncOf(g, g.bbOf[e.at]) /\ FncOf(h, e.to) = FncOf(g, e.to)
    BY <1>18, <1>28, <2>1 DEF Home
  <2> QED
    BY <1>1, <2>1, <2>2 DEF Inner
<1>30. Tidy(h)
  <2>1. Structure(h) /\ Code(h)
    BY <1>12, <1>17, <1>21, <1>23, <1>24, <1>25, <1>26 DEF Structure, Code
  <2>2. InOrder(h)
    BY <1>1, <1>20 DEF InOrder
  <2> QED
    BY <1>27, <1>29, <2>1, <2>2 DEF Tidy
<1> QED
  BY <1>9, <1>12, <1>13, <1>14, <1>28, <1>30

\* The more starts a function has, the finer are its parts.
LEMMA FinerParts ==
  ASSUME NEW S \in SUBSET Nat, NEW T \in SUBSET S, NEW x \in Nat, NEW y \in Nat,
         PartOf(T, x) # PartOf(T, y)
  PROVE  PartOf(S, x) # PartOf(S, y)
<1>1. ASSUME NEW b \in Nat, NEW c \in Nat, b < c, PartOf(T, b) # PartOf(T, c)
      PROVE  \E z \in T : b < z /\ z <= c
  <2> SUFFICES ASSUME \A z \in T : ~(b < z /\ z <= c) PROVE FALSE
    OBVIOUS
  <2>1. \A z \in T : z <= b <=> z <= c
    BY <1>1
  <2>2. {s \in T : s <= b} = {s \in T : s <= c}
    BY <2>1
  <2> QED
    BY <1>1, <2>2 DEF PartOf
<1>2. CASE x < y
  BY <1>1, <1>2, PartsDiffer
<1>3. CASE y < x
  BY <1>1, <1>3, PartsDiffer
<1> QED
  BY <1>2, <1>3

\* The starts are closed: a block that is branched to from another part is one.
LEMMA StartsAreClosed ==
  ASSUME NEW g, Structure(g), NEW f \in DOMAIN g.fncs, NEW a,
         NEW starts, starts = FncStarts(g, f, a),
         NEW e \in g.edges, e.to \in ToSet(g.fncs[f]),
         PartOf(starts, e.to) # PartOf(starts, g.bbOf[e.at])
  PROVE  e.to \in starts
<1>1. f \in Nat /\ \A x \in ToSet(g.fncs[f]) : x \in Nat
  BY BlocksOfLists DEF Structure, ListsOk
<1>2. e.to \in Nat /\ g.bbOf[e.at] \in Nat
  BY <1>1, BlocksOfLists DEF Structure, EdgesOk, InsnsOk
<1>3. ASSUME NEW S \in SUBSET (ToSet(g.fncs[f]) \cup {f}), {f, a} \subseteq S,
             Crossed(g, f, S) \subseteq S
      PROVE  e.to \in S
  <2>1. starts \subseteq S
    BY <1>3 DEF FncStarts
  <2>2. S \in SUBSET Nat
    BY <1>1
  <2>3. PartOf(S, e.to) # PartOf(S, g.bbOf[e.at])
    BY <1>2, <2>1, <2>2, FinerParts
  <2>4. e.to \in Crossed(g, f, S)
    BY <2>3 DEF Crossed
  <2> QED
    BY <1>3, <2>4
<1> QED
  BY <1>3 DEF FncStarts

\* The function of a block is split in two or more.  Where no conditional branch leads
\* back, a branch that is lost leads to the entry of a function.
LEMMA SplittingFunctions ==
  ASSUME NEW g, Tidy(g), NEW a \in Blocks(g), NEW k, k = SplitFunctionOn(g, a).ir
  PROVE  /\ Tidy(k) /\ k.bbOf = g.bbOf /\ k.end = g.end /\ k.edges \subseteq g.edges
         /\ DOMAIN g.fncs \subseteq DOMAIN k.fncs
         /\ \A x, y \in DOMAIN g.bbOf : Home(k, x) = Home(k, y) => Home(g, x) = Home(g, y)
         /\ (\A e \in g.edges : e.kind = "true" => e.at < e.to) =>
              \A e \in g.edges \ k.edges : e.to \in DOMAIN k.fncs
<1>1. Structure(g) /\ Code(g) /\ Layout(g) /\ ListsOk(g.fncs) /\ AllFull(g) /\ InOrder(g)
      /\ Inner(g)
  BY TidyIsLayout DEF Tidy, Structure
<1>2. PICK f : f = FncOf(g, a)
  OBVIOUS
<1>3. PICK starts : starts = FncStarts(g, f, a)
  OBVIOUS
<1>4. PICK r : r = SplitBlock(g, a, f, starts)
  OBVIOUS
<1>5. r = SplitFunctionOnBlock(g, a) /\ k = r.ir
  BY <1>2, <1>3, <1>4 DEF SplitFunctionOnBlock, SplitFunctionOn
<1>6. f \in DOMAIN g.fncs /\ a \in ToSet(g.fncs[f]) /\ BlockList(f, g.fncs[f])
  BY <1>1, <1>2, FunctionOfBlock DEF ListsOk
<1>7. g.fncs[f] # <<>> /\ f \in ToSet(g.fncs[f])
  <2>1. g.fncs[f] # <<>>
    BY <1>6 DEF ToSet
  <2> QED
    BY <1>6, <2>1, ElementsOfList DEF BlockList
<1>8. CASE IsFirst(g, a) \/ ~CanSplitFunctionOn(g, f, a, starts)
  <2>1. k = g
    BY <1>4, <1>5, <1>8 DEF SplitBlock, Result
  <2> QED
    BY <2>1
<1>9. CASE ~IsFirst(g, a) /\ CanSplitFunctionOn(g, f, a, starts)
  <2>1. f \in starts /\ \A x \in starts : x \in ToSet(g.fncs[f])
    BY <1>3, <1>7 DEF FncStarts
  <2>2. PICK h : h = Splice(g, g.fncs[f], f, starts)
    OBVIOUS
  <2>3. k = BranchesToCalls(h, starts)
    BY <1>4, <1>5, <1>9, <2>2 DEF SplitBlock, Result
  <2>4. Lays(g, k) /\ Structure(k) /\ Layout(k)
    BY <1>1, <1>6, <1>7, <1>9, <2>1, <2>2, <2>3, SplitLays DEF Lays, Layout
  <2>5. Keeps(g, h) /\ Structure(h) /\ starts \subseteq DOMAIN h.fncs
    BY <1>1, <1>6, <1>7, <2>1, <2>2, SpliceKeeps DEF Keeps
  <2>6. PICK out : out = CallsOut(h, starts)
    OBVIOUS
  <2>7. k = DropEdges(h, out)
    BY <2>3, <2>6 DEF BranchesToCalls
  <2>8. /\ OnlyLists(g, h)
        /\ \A b \in Blocks(g) : FncOf(g, b) # f => FncOf(h, b) = FncOf(g, b)
        /\ \A b \in Blocks(g) : FncOf(g, b) = f => FncOf(h, b) \in starts
    BY <1>1, <1>6, <1>7, <2>1, <2>2, OrderAfterSplice
  <2>9. /\ k.fncs = h.fncs /\ k.bbOf = g.bbOf /\ k.end = g.end
        /\ \A e : e \in k.edges <=>
             /\ e \in g.edges /\ e \notin out
             /\ e.kind = "false" => \A o \in out : o.kind = "true" => o.at # e.at
    <3>1. k.fncs = h.fncs /\ k.bbOf = h.bbOf /\ k.end = h.end
      BY <2>5, <2>7 DEF DropEdges, Structure, HasParts
    <3>2. k.edges = {e \in h.edges :
             /\ e \notin out
             /\ e.kind = "false" => \A o \in out : o.kind = "true" => o.at # e.at}
      BY <2>5, <2>7 DEF DropEdges, Structure, HasParts
    <3> QED
      BY <2>8, <3>1, <3>2 DEF OnlyLists
  <2>10. DOMAIN h.fncs = DOMAIN g.fncs \cup starts
         /\ \A m \in DOMAIN h.fncs :
              h.fncs[m] = IF m \in starts
                          THEN Segment(g.fncs[f], starts, IF m = f THEN 1 ELSE IndexIn(g.fncs[f], m))
                          ELSE g.fncs[m]
    BY <1>1, <2>2 DEF Splice, Structure, HasParts
  <2>11. Blocks(k) \subseteq Blocks(g)
    <3>1. Blocks(h) \subseteq Blocks(g)
      BY <1>1, <1>6, <1>7, <2>1, <2>2, SpliceAddsNoBlock
    <3> QED
      BY <2>9, <3>1 DEF Blocks
  <2>12. Tidy(k)
    <3>1. AllFull(k)
      BY <1>1, <2>9, <2>11 DEF AllFull, Full
    <3> QED
      BY <2>4, <3>1, TidyIsLayout
  <2>13. \A x : FncOf(k, x) = FncOf(h, x)
    BY <2>9 DEF FncOf
  <2>14. \A z \in starts : z \in Blocks(g) /\ FncOf(g, z) = f
    <3>1. \A z \in starts : z \in Blocks(g)
      BY <1>6, <2>1 DEF Blocks
    <3> QED
      BY <1>1, <1>6, <2>1, <3>1, FunctionOfBlock
  <2>15. ASSUME NEW b \in Blocks(g), NEW c \in Blocks(g), FncOf(h, b) = FncOf(h, c)
         PROVE  FncOf(g, b) = FncOf(g, c)
    <3>1. \A d \in Blocks(g) : FncOf(g, d) # f => FncOf(h, d) \notin starts
      <4> SUFFICES ASSUME NEW d \in Blocks(g), FncOf(g, d) # f, FncOf(h, d) \in starts PROVE FALSE
        OBVIOUS
      <4>1. FncOf(h, d) = FncOf(g, d) /\ FncOf(g, FncOf(g, d)) = FncOf(g, d)
        BY <1>1, <2>8, OrderOfBlocks
      <4> QED
        BY <2>14, <4>1
    <3> QED
      BY <2>8, <2>15, <3>1
  <2>16. \A x, y \in DOMAIN g.bbOf : Home(k, x) = Home(k, y) => Home(g, x) = Home(g, y)
    BY <1>1, <2>9, <2>13, <2>15 DEF Home, Structure, InsnsOk
  <2>17. ASSUME \A e \in g.edges : e.kind = "true" => e.at < e.to,
                NEW e \in g.edges, e \notin k.edges
         PROVE  e.to \in DOMAIN k.fncs
    <3>1. \A d \in g.edges :
            /\ d.at \in DOMAIN g.bbOf /\ d.at \in Nat /\ g.bbOf[d.at] \in Blocks(g)
            /\ g.bbOf[d.at] \in Nat /\ g.bbOf[d.at] <= d.at
            /\ d.to \in Blocks(g) /\ d.to \in Nat
            /\ FncOf(g, g.bbOf[d.at]) = FncOf(g, d.to) /\ d.to # FncOf(g, d.to)
      BY <1>1, BlocksOfLists DEF Structure, EdgesOk, InsnsOk, Inner
    <3>2. \A b \in Blocks(g) : Full(g, b) /\ b \in Nat
      BY <1>1, BlocksOfLists DEF AllFull
    <3>3. starts \in SUBSET Nat
      BY <2>14, <3>2
    <3>4. \A z \in starts : ~Inside(g, z)
      BY <1>1, <2>14, <3>2, FullIsNotInside
    <3>5. Sorted(g)
      <4> SUFFICES ASSUME NEW b, NEW c, Before(g, b, c), c < b PROVE FALSE
        BY DEF Sorted
      <4>1. b < c /\ b \in Nat /\ c \in Nat
        BY <1>1, <3>2 DEF InOrder, Before
      <4> QED
        BY <4>1
    \* Two blocks of f between which there is no start stay together.
    <3>6. ASSUME NEW x \in Blocks(g), NEW y \in Blocks(g), x < y, FncOf(g, x) = f, FncOf(g, y) = f,
                 \A z \in starts : ~(x < z /\ z <= y)
          PROVE  FncOf(h, x) = FncOf(h, y)
      BY <1>1, <1>6, <1>7, <2>1, <2>2, <3>2, <3>4, <3>5, <3>6, StayTogether
    \* A branch that becomes a call is one of f and leads to a start.
    <3>7. ASSUME NEW d \in out
          PROVE  /\ d \in g.edges /\ d.kind \in {"br", "true"} /\ FncOf(g, d.to) = f
                 /\ FncOf(h, d.to) # FncOf(h, g.bbOf[d.at]) \/ d.to \in starts
      <4>1. /\ d \in h.edges /\ d.kind \in {"br", "true"}
            /\ FncOf(h, h.bbOf[d.at]) \in starts
            /\ FncOf(h, d.to) # FncOf(h, h.bbOf[d.at]) \/ IsFirst(h, d.to)
        BY <2>6 DEF CallsOut
      <4>2. d \in g.edges /\ h.bbOf = g.bbOf
        BY <2>8, <4>1 DEF OnlyLists
      <4>3. FncOf(g, g.bbOf[d.at]) = f
        <5>1. FncOf(g, g.bbOf[d.at]) # f => FncOf(h, g.bbOf[d.at]) = FncOf(g, g.bbOf[d.at])
          BY <2>8, <3>1, <4>2
        <5>2. FncOf(g, FncOf(g, g.bbOf[d.at])) = FncOf(g, g.bbOf[d.at])
          BY <1>1, <3>1, <4>2, OrderOfBlocks
        <5> QED
          BY <2>14, <4>1, <4>2, <5>1, <5>2
      <4>4. FncOf(g, d.to) = f /\ FncOf(h, d.to) \in starts
        BY <2>8, <3>1, <4>2, <4>3
      <4>5. IsFirst(h, d.to) => d.to = FncOf(h, d.to)
        <5>1. d.to \in Blocks(h) /\ ListsOk(h.fncs)
          BY <2>5, <3>1, <4>2 DEF Keeps, Structure
        <5> QED
          BY <5>1, OrderOfBlocks
      <4> QED
        BY <4>1, <4>2, <4>4, <4>5
    \* One that leads ahead and across no start stays.
    <3>8. ASSUME NEW d \in out, g.bbOf[d.at] < d.to, \A z \in starts : ~Over(g, d, z)
          PROVE  FALSE
      <4>1. FncOf(g, g.bbOf[d.at]) = f
        BY <3>1, <3>7
      <4>2. \A z \in starts : ~(g.bbOf[d.at] < z /\ z <= d.to)
        BY <3>8 DEF Over
      <4>3. FncOf(h, g.bbOf[d.at]) = FncOf(h, d.to)
        BY <3>1, <3>6, <3>7, <3>8, <4>1, <4>2
      <4>4. d.to \notin starts
        BY <3>1, <3>7, <3>8, <4>2
      <4> QED
        BY <3>7, <4>3, <4>4
    <3>9. ASSUME NEW d \in out PROVE d.kind = "br"
      <4> SUFFICES ASSUME d.kind = "true" PROVE FALSE
        BY <3>7
      <4>1. d.to \in ToSet(g.fncs[f])
        BY <1>1, <3>1, <3>7, FunctionOfBlock
      <4>2. \A z \in starts : ~Over(g, d, z)
        BY <1>1, <1>6, <1>9, <2>1, <3>7, <4>1, NothingCut
      <4>3. g.bbOf[d.at] < d.to
        BY <2>17, <3>1, <3>7
      <4> QED
        BY <3>8, <4>2, <4>3
    <3>10. e \in out
      BY <2>9, <2>17, <3>9
    <3>11. e.to \in starts
      <4> SUFFICES ASSUME e.to \notin starts PROVE FALSE
        OBVIOUS
      <4>1. FncOf(h, e.to) # FncOf(h, g.bbOf[e.at]) /\ FncOf(g, e.to) = f
            /\ FncOf(g, g.bbOf[e.at]) = f
        BY <3>1, <3>7, <3>10
      <4>2. e.to \in ToSet(g.fncs[f])
        BY <1>1, <3>1, <4>1, FunctionOfBlock
      <4>3. PartOf(starts, e.to) = PartOf(starts, g.bbOf[e.at])
        BY <1>1, <1>3, <1>6, <4>2, StartsAreClosed
      <4>4. CASE g.bbOf[e.at] < e.to
        <5>1. PICK z \in starts : g.bbOf[e.at] < z /\ z <= e.to
          BY <3>1, <3>6, <4>1, <4>4
        <5> QED
          BY <3>1, <3>3, <4>3, <5>1, PartsDiffer
      <4>5. CASE e.to < g.bbOf[e.at]
        <5>1. PICK z \in starts : e.to < z /\ z <= g.bbOf[e.at]
          BY <3>1, <3>6, <4>1, <4>5
        <5> QED
          BY <3>1, <3>3, <4>3, <5>1, PartsDiffer
      <4>6. g.bbOf[e.at] # e.to
        BY <4>1
      <4> QED
        BY <3>1, <4>4, <4>5, <4>6
    <3> QED
      BY <2>9, <2>10, <3>11
  <2>18. DOMAIN g.fncs \subseteq DOMAIN k.fncs
    BY <2>9, <2>10
  <2>19. k.edges \subseteq g.edges
    BY <2>9
  <2> QED
    BY <2>9, <2>12, <2>16, <2>17, <2>18, <2>19
<1> QED
  BY <1>8, <1>9

\* What the decoder hands over has that layout.
LEMMA DecodedIsTidy ==
  ASSUME NEW p, WellDecoded(p), NEW g, g = p.ir
  PROVE  Tidy(g)
<1>1. HasParts(g) /\ BlocksDecoded(g) /\ CodeDecoded(g) /\ BranchesDecoded(p, g)
  BY DEF WellDecoded, HasParts
<1>2. ListsOk(g.fncs)
  <2>1. ASSUME NEW f \in DOMAIN g.fncs PROVE f \in Nat /\ BlockList(f, g.fncs[f])
    <3>1. /\ f \in Nat /\ g.fncs[f] \in Seq(Nat) /\ (g.fncs[f] # <<>> => g.fncs[f][1] = f)
          /\ \A i, j \in 1..Len(g.fncs[f]) : i < j => g.fncs[f][i] < g.fncs[f][j]
      BY <1>1 DEF BlocksDecoded
    <3>2. ASSUME NEW i \in 1..Len(g.fncs[f]), NEW j \in 1..Len(g.fncs[f]),
                 g.fncs[f][i] = g.fncs[f][j]
          PROVE  i = j
      <4>1. g.fncs[f][i] \in Nat
        BY <3>1
      <4>2. ~(i < j) /\ ~(j < i)
        BY <3>1, <3>2, <4>1
      <4> QED
        BY <4>2
    <3> QED
      BY <3>1, <3>2 DEF BlockList
  <2>2. \A f, k \in DOMAIN g.fncs : f # k => ToSet(g.fncs[f]) \cap ToSet(g.fncs[k]) = {}
    BY <1>1 DEF BlocksDecoded
  <2> QED
    BY <2>1, <2>2 DEF ListsOk
<1>3. \A b \in Blocks(g) : b \in Nat /\ b \in DOMAIN g.bbOf /\ g.bbOf[b] = b
  BY <1>1, <1>2, BlocksOfLists DEF BlocksDecoded
<1>4. /\ DOMAIN g.end = DOMAIN g.bbOf
      /\ \A a \in DOMAIN g.bbOf :
           /\ a \in Nat /\ g.end[a] \in Nat /\ a < g.end[a]
           /\ \A x \in DOMAIN g.bbOf : a < x => g.end[a] <= x
           /\ g.bbOf[a] \in Blocks(g) /\ g.bbOf[a] <= a
  BY <1>1 DEF CodeDecoded
<1>5. \A a \in DOMAIN g.bbOf :
        a = g.bbOf[a] \/ \E x \in DOMAIN g.bbOf : g.bbOf[x] = g.bbOf[a] /\ g.end[x] = a
  BY <1>1 DEF CodeDecoded, InsnsOf
<1>6. InsnsOk(g)
  BY <1>3, <1>4 DEF InsnsOk
<1>7. \A e \in g.edges :
        /\ e.at \in DOMAIN g.bbOf /\ e.to \in Blocks(g)
        /\ \A x \in DOMAIN g.bbOf : g.bbOf[x] = g.bbOf[e.at] => x <= e.at
        /\ FncOf(g, g.bbOf[e.at]) = FncOf(g, e.to) /\ ~IsFirst(g, e.to)
        /\ e.kind \in {"br", "true", "false", "condcall"}
        /\ e.kind \in {"false", "condcall"} => e.to = g.end[e.at]
        /\ \A d \in g.edges : d # e /\ d.at = e.at => {e.kind, d.kind} = {"true", "false"}
  BY <1>1 DEF BranchesDecoded, InsnsOf
<1>8. EdgesOk(g) /\ Falls(g)
  BY <1>7 DEF EdgesOk, LastIn, Falls
<1>9. BytesOk(g)
  BY <1>4 DEF BytesOk
\* Every byte of a block belongs to one of its instructions.
<1>10. ASSUME NEW z \in DOMAIN g.bbOf, NEW q \in Nat, g.bbOf[z] <= q, q <= z
       PROVE  \E w \in DOMAIN g.bbOf : g.bbOf[w] = g.bbOf[z] /\ w <= q /\ q < g.end[w]
  <2>1. PICK b : b = g.bbOf[z]
    OBVIOUS
  <2>2. z \in Nat /\ b \in Nat /\ b <= z
    BY <1>3, <1>4, <2>1
  <2> DEFINE Covered(n) == \E w \in DOMAIN g.bbOf : g.bbOf[w] = b /\ w <= n /\ n < g.end[w]
             Gaps == {n \in Nat : n <= z - b /\ ~Covered(z - n)}
  <2>3. Gaps = {}
    <3> SUFFICES ASSUME Gaps # {} PROVE FALSE
      OBVIOUS
    <3>1. PICK n \in Gaps : \A m \in Gaps : n <= m
      BY MinOfNats
    <3>2. n \in Nat /\ n <= z - b /\ ~Covered(z - n)
      BY <3>1
    <3>3. n # 0
      <4>1. Covered(z)
        BY <1>4, <2>1, <2>2
      <4>2. z - 0 = z
        BY <2>2
      <4> QED
        BY <3>2, <4>1, <4>2
    <3>4. n - 1 \in Nat /\ n - 1 <= z - b
      BY <2>2, <3>2, <3>3
    <3>5. Covered(z - (n - 1))
      <4>1. n - 1 \notin Gaps
        BY <3>1, <3>2, <3>3
      <4> QED
        BY <3>4, <4>1
    <3>6. PICK m : m = z - n
      OBVIOUS
    <3>7. m \in Nat /\ b <= m /\ z - (n - 1) = m + 1
      BY <2>2, <3>2, <3>6
    <3>8. PICK w \in DOMAIN g.bbOf : g.bbOf[w] = b /\ w <= m + 1 /\ m + 1 < g.end[w]
      BY <3>5, <3>7
    <3>9. w \in Nat /\ g.end[w] \in Nat
      BY <1>4
    <3>10. CASE w <= m
      <4>1. Covered(m)
        BY <3>7, <3>8, <3>9, <3>10
      <4> QED
        BY <3>2, <3>6, <4>1
    <3>11. CASE w = m + 1
      <4>1. w # b
        BY <2>2, <3>7, <3>11
      <4>2. PICK x \in DOMAIN g.bbOf : g.bbOf[x] = b /\ g.end[x] = m + 1
        BY <1>5, <3>8, <3>11, <4>1
      <4>3. x \in Nat /\ x < m + 1
        BY <1>4, <4>2
      <4>4. x <= m /\ m < g.end[x]
        BY <3>7, <4>2, <4>3
      <4>5. Covered(m)
        BY <4>2, <4>4
      <4> QED
        BY <3>2, <3>6, <4>5
    <3> QED
      BY <3>7, <3>8, <3>9, <3>10, <3>11
  <2>4. PICK n : n = z - q
    OBVIOUS
  <2>5. n \in Nat /\ n <= z - b /\ z - n = q
    BY <1>10, <2>1, <2>2, <2>4
  <2>6. Covered(z - n)
    BY <2>3, <2>5
  <2>7. Covered(q)
    BY <2>5, <2>6
  <2> QED
    BY <2>1, <2>7
<1>11. Solid(g)
  <2> SUFFICES ASSUME NEW z \in DOMAIN g.bbOf
               PROVE  /\ \A w \in DOMAIN g.bbOf : g.bbOf[z] <= w /\ w <= z => g.bbOf[w] = g.bbOf[z]
                      /\ \A q \in Nat : g.bbOf[z] <= q /\ q <= z =>
                           \E w \in DOMAIN g.bbOf : w <= q /\ q < g.end[w]
    BY DEF Solid
  <2>1. ASSUME NEW w \in DOMAIN g.bbOf, g.bbOf[z] <= w, w <= z PROVE g.bbOf[w] = g.bbOf[z]
    <3>1. w \in Nat
      BY <1>4
    <3>2. PICK v \in DOMAIN g.bbOf : g.bbOf[v] = g.bbOf[z] /\ v <= w /\ w < g.end[v]
      BY <1>10, <2>1, <3>1
    <3>3. v \in Nat /\ g.end[v] \in Nat /\ ~(v < w)
      BY <1>4, <3>1, <3>2
    <3>4. v = w
      BY <3>1, <3>2, <3>3
    <3> QED
      BY <3>2, <3>4
  <2> QED
    BY <1>10, <2>1
<1>12. InOrder(g)
  <2> SUFFICES ASSUME NEW b, NEW c, Before(g, b, c) PROVE b < c
    BY DEF InOrder
  <2>1. PICK f : f = FncOf(g, b)
    OBVIOUS
  <2>2. b \in Blocks(g) /\ c \in Blocks(g) /\ f = FncOf(g, c) /\ Pos(g, b) < Pos(g, c)
    BY <2>1 DEF Before
  <2>3. f \in DOMAIN g.fncs /\ ListOf(g, b) = g.fncs[f] /\ ListOf(g, c) = g.fncs[f]
    BY <1>2, <2>1, <2>2, FunctionOfBlock DEF ListOf
  <2>4. /\ Pos(g, b) \in 1..Len(g.fncs[f]) /\ g.fncs[f][Pos(g, b)] = b
        /\ Pos(g, c) \in 1..Len(g.fncs[f]) /\ g.fncs[f][Pos(g, c)] = c
    BY <1>2, <2>2, <2>3, PosOfBlock
  <2>5. \A i, j \in 1..Len(g.fncs[f]) : i < j => g.fncs[f][i] < g.fncs[f][j]
    BY <1>1, <2>3 DEF BlocksDecoded
  <2> QED
    BY <2>2, <2>4, <2>5
<1>13. Inner(g)
  BY <1>2, <1>7, OrderOfBlocks DEF Inner
<1>14. AllFull(g)
  BY <1>3 DEF AllFull, Full
<1> QED
  BY <1>1, <1>2, <1>6, <1>8, <1>9, <1>11, <1>12, <1>13, <1>14 DEF Tidy, Structure, Code

\* AsmInstruction::getNext: there is none behind the last instruction of a function;
\* otherwise it is the next one of the block, where that goes on.
LEMMA NextInstruction ==
  ASSUME Tidy(ir), NEW c \in DOMAIN ir.bbOf
  PROVE  /\ NextAsmInsn(c) = NoAddr <=>
              \A x \in DOMAIN ir.bbOf : Home(ir, x) = Home(ir, c) => x <= c
         /\ NextAsmInsn(c) # NoAddr =>
              /\ NextAsmInsn(c) \in DOMAIN ir.bbOf /\ c < NextAsmInsn(c)
              /\ \A x \in DOMAIN ir.bbOf : ir.bbOf[x] = ir.bbOf[c] /\ c < x =>
                   ir.bbOf[NextAsmInsn(c)] = ir.bbOf[c] /\ NextAsmInsn(c) <= x
<1>1. /\ ListsOk(ir.fncs) /\ InsnsOk(ir) /\ Solid(ir) /\ AllFull(ir) /\ InOrder(ir)
  BY DEF Tidy, Structure, Code
<1>2. PICK b : b = ir.bbOf[c]
  OBVIOUS
<1>3. PICK s : s = ListOf(ir, b)
  OBVIOUS
<1>4. PICK n : n = Pos(ir, b)
  OBVIOUS
<1>5. PICK f : f = FncOf(ir, b)
  OBVIOUS
<1>6. PICK after : after = {x \in InsnsOf(ir, b) : x > c}
  OBVIOUS
<1>7. PICK later : later = {i \in (n + 1)..Len(s) : InsnsOf(ir, s[i]) # {}}
  OBVIOUS
<1>8. NextAsmInsn(c) = IF after # {} THEN Min(after)
                       ELSE IF later # {} THEN Min(InsnsOf(ir, s[Min(later)])) ELSE NoAddr
  BY <1>2, <1>3, <1>4, <1>6, <1>7 DEF NextAsmInsn
<1>9. /\ c \in Nat /\ b \in Blocks(ir) /\ b \in Nat /\ b <= c /\ f \in DOMAIN ir.fncs
      /\ b \in DOMAIN ir.bbOf /\ ir.bbOf[b] = b
  BY <1>1, <1>2, <1>5, FunctionOfBlock DEF InsnsOk
<1>10. /\ s = ir.fncs[f] /\ n \in 1..Len(s) /\ s[n] = b /\ Len(s) \in Nat
  <2>1. s = ir.fncs[f] /\ n \in 1..Len(s) /\ s[n] = b
    BY <1>1, <1>3, <1>4, <1>5, <1>9, PosOfBlock
  <2>2. s \in Seq(Nat)
    BY <1>1, <1>9, <2>1 DEF ListsOk, BlockList
  <2> QED
    BY <2>1, <2>2
\* The blocks behind that of c.
<1>11. ASSUME NEW i \in (n + 1)..Len(s)
       PROVE  s[i] \in DOMAIN ir.bbOf /\ ir.bbOf[s[i]] = s[i] /\ FncOf(ir, s[i]) = f /\ c < s[i]
              /\ s[i] # b /\ s[i] \in Nat /\ i \in Nat
  <2>1. i \in 1..Len(s)
    BY <1>10
  <2>2. s[i] \in Blocks(ir) /\ FncOf(ir, s[i]) = f /\ Pos(ir, s[i]) = i
    BY <1>1, <1>9, <1>10, <2>1, PlaceInList
  <2>3. s[i] \in DOMAIN ir.bbOf /\ ir.bbOf[s[i]] = s[i] /\ s[i] \in Nat
    BY <1>1, <2>2, BlocksOfLists DEF AllFull, Full
  <2>4. Before(ir, b, s[i])
    <3>1. n < i
      BY <1>10
    <3> QED
      BY <1>4, <1>5, <1>9, <2>2, <3>1 DEF Before
  <2>5. b < s[i]
    BY <1>1, <2>4 DEF InOrder
  <2>6. ~(s[i] <= c)
    <3> SUFFICES ASSUME s[i] <= c PROVE FALSE
      OBVIOUS
    <3>1. b <= s[i]
      BY <1>9, <2>3, <2>5
    <3>2. ir.bbOf[s[i]] = b
      BY <1>1, <1>2, <2>3, <3>1 DEF Solid
    <3> QED
      BY <1>9, <2>3, <2>5, <3>2
  <2> QED
    BY <1>9, <2>1, <2>2, <2>3, <2>5, <2>6
<1>12. later = (n + 1)..Len(s)
  BY <1>7, <1>11 DEF InsnsOf
\* An instruction behind c is in its block or in a block behind that.
<1>13. ASSUME NEW x \in DOMAIN ir.bbOf, c < x, Home(ir, x) = f, ir.bbOf[x] # b
       PROVE  later # {}
  <2>1. PICK d : d = ir.bbOf[x]
    OBVIOUS
  <2>2. x \in Nat /\ d \in Blocks(ir) /\ d \in Nat /\ d <= x /\ FncOf(ir, d) = f /\ d # b
    BY <1>1, <1>13, <2>1, BlocksOfLists DEF InsnsOk, Home
  <2>3. ~Before(ir, d, b)
    <3> SUFFICES ASSUME Before(ir, d, b) PROVE FALSE
      OBVIOUS
    <3>1. d <= b /\ b <= x
      BY <1>1, <1>9, <1>13, <2>2 DEF InOrder
    <3>2. ir.bbOf[b] = d
      BY <1>1, <1>9, <2>1, <3>1 DEF Solid
    <3> QED
      BY <1>9, <2>2, <3>2
  <2>4. Before(ir, b, d)
    BY <1>1, <1>5, <1>9, <2>2, <2>3, OrderOfBlocks
  <2>5. PICK i : i = Pos(ir, d)
    OBVIOUS
  <2>6. n < i /\ i \in 1..Len(s)
    <3>1. n < i
      BY <1>4, <2>4, <2>5 DEF Before
    <3>2. ListOf(ir, d) = s
      BY <1>1, <1>10, <2>2, PosOfBlock
    <3>3. i \in 1..Len(s)
      BY <1>1, <2>2, <2>5, <3>2, PosOfBlock
    <3> QED
      BY <3>1, <3>3
  <2> QED
    BY <1>10, <1>12, <2>6
<1>14. \A x : x \in after <=> x \in DOMAIN ir.bbOf /\ ir.bbOf[x] = b /\ x > c
  BY <1>6 DEF InsnsOf
<1>15. after # {} => Min(after) \in after /\ \A x \in after : Min(after) <= x
  <2>1. after \in SUBSET Nat
    BY <1>1, <1>14 DEF InsnsOk
  <2> QED
    BY <2>1, MinOfNats
<1>16. ASSUME later # {}
       PROVE  /\ Min(InsnsOf(ir, s[Min(later)])) \in DOMAIN ir.bbOf
              /\ c < Min(InsnsOf(ir, s[Min(later)]))
              /\ Home(ir, Min(InsnsOf(ir, s[Min(later)]))) = f
  <2>1. PICK i : i = Min(later)
    OBVIOUS
  <2>2. later \in SUBSET Nat
    BY <1>11, <1>12
  <2>3. i \in (n + 1)..Len(s)
    BY <1>12, <1>16, <2>1, <2>2, MinOfNats
  <2>4. PICK S : S = InsnsOf(ir, s[i])
    OBVIOUS
  <2>5. s[i] \in S /\ S \in SUBSET Nat
    BY <1>1, <1>11, <2>3, <2>4 DEF InsnsOf, InsnsOk
  <2>6. PICK y : y = Min(S)
    OBVIOUS
  <2>7. y \in S
    BY <2>5, <2>6, MinOfNats
  <2>8. y \in DOMAIN ir.bbOf /\ ir.bbOf[y] = s[i] /\ y \in Nat /\ ir.bbOf[y] <= y
    BY <1>1, <2>4, <2>7 DEF InsnsOf, InsnsOk
  <2>9. c < s[i] /\ s[i] \in Nat /\ FncOf(ir, s[i]) = f
    BY <1>11, <2>3
  <2>10. c < y /\ Home(ir, y) = f
    BY <1>9, <2>8, <2>9 DEF Home
  <2> QED
    BY <2>1, <2>4, <2>6, <2>8, <2>10
<1>17. Home(ir, c) = f /\ \A x \in DOMAIN ir.bbOf : ir.bbOf[x] = b => Home(ir, x) = f
  BY <1>2, <1>5 DEF Home
<1>18. \A x \in DOMAIN ir.bbOf : x \in Nat
  BY <1>1 DEF InsnsOk
<1>19. CASE after # {}
  <2>1. PICK y : y = Min(after)
    OBVIOUS
  <2>2. NextAsmInsn(c) = y /\ y \in DOMAIN ir.bbOf /\ ir.bbOf[y] = b /\ y > c /\ y \in Nat
    BY <1>8, <1>14, <1>15, <1>18, <1>19, <2>1
  <2>3. NextAsmInsn(c) # NoAddr /\ ~(y <= c)
    BY <1>9, <2>2 DEF NoAddr
  <2>4. \A x \in DOMAIN ir.bbOf : ir.bbOf[x] = b /\ c < x => y <= x
    BY <1>9, <1>14, <1>15, <1>18, <1>19, <2>1
  <2>5. Home(ir, y) = Home(ir, c)
    BY <1>17, <2>2
  <2> QED
    BY <1>2, <1>9, <2>2, <2>3, <2>4, <2>5
<1>20. CASE after = {} /\ later # {}
  <2>1. PICK y : y = NextAsmInsn(c)
    OBVIOUS
  <2>2. y \in DOMAIN ir.bbOf /\ c < y /\ Home(ir, y) = f /\ y \in Nat
    BY <1>8, <1>16, <1>18, <1>20, <2>1
  <2>3. y # NoAddr /\ ~(y <= c)
    BY <1>9, <2>2 DEF NoAddr
  <2>4. \A x \in DOMAIN ir.bbOf : ~(ir.bbOf[x] = b /\ c < x)
    BY <1>9, <1>14, <1>18, <1>20
  <2> QED
    BY <1>2, <1>17, <2>1, <2>2, <2>3, <2>4
<1>21. CASE after = {} /\ later = {}
  <2>1. NextAsmInsn(c) = NoAddr
    BY <1>8, <1>21
  <2>2. ASSUME NEW x \in DOMAIN ir.bbOf, Home(ir, x) = f PROVE x <= c
    <3> SUFFICES ASSUME c < x PROVE FALSE
      BY <1>9, <1>18
    <3>1. ir.bbOf[x] # b
      BY <1>9, <1>14, <1>18, <1>21
    <3> QED
      BY <1>13, <1>21, <2>2, <3>1
  <2> QED
    BY <1>17, <2>1, <2>2
<1> QED
  BY <1>19, <1>20, <1>21

\* The module h is g without some nops, and without the branches from them, whose
\* blocks may have been cut.
Trims(g, h) ==
  /\ DOMAIN h.fncs = DOMAIN g.fncs
  /\ DOMAIN h.bbOf \subseteq DOMAIN g.bbOf
  /\ \A x \in DOMAIN g.bbOf \ DOMAIN h.bbOf : prog.insn[x].op = "nop"
  /\ \A x \in DOMAIN h.bbOf : h.end[x] = g.end[x] /\ Home(h, x) = Home(g, x)
  /\ \A x, y \in DOMAIN h.bbOf : h.bbOf[x] = h.bbOf[y] => g.bbOf[x] = g.bbOf[y]
  /\ h.edges \subseteq g.edges
  /\ \A e \in g.edges \ h.edges : e.at \notin DOMAIN h.bbOf

LEMMA TrimsTrans ==
  ASSUME NEW f, NEW g, NEW h, Trims(f, g), Trims(g, h)
  PROVE  Trims(f, h)
<1>1. \A x \in DOMAIN f.bbOf \ DOMAIN h.bbOf : prog.insn[x].op = "nop"
  BY DEF Trims
<1>2. \A e \in f.edges \ h.edges : e.at \notin DOMAIN h.bbOf
  BY DEF Trims
<1>3. \A x \in DOMAIN h.bbOf : h.end[x] = f.end[x] /\ Home(h, x) = Home(f, x)
  BY DEF Trims
<1>4. \A x, y \in DOMAIN h.bbOf : h.bbOf[x] = h.bbOf[y] => f.bbOf[x] = f.bbOf[y]
  BY DEF Trims
<1> QED
  BY <1>1, <1>2, <1>3, <1>4 DEF Trims

\* Nothing follows the instruction c in its block, and no branch leaves it.
Ends(g, c) == LastIn(g, c) /\ \A e \in g.edges : g.bbOf[e.at] # g.bbOf[c]

\* That is still so in a module with fewer instructions and branches.
LEMMA TrimmedEnds ==
  ASSUME NEW g, NEW h, Trims(g, h), EdgesOk(h), NEW c \in DOMAIN h.bbOf, Ends(g, c)
  PROVE  Ends(h, c)
<1>1. ASSUME NEW x \in DOMAIN h.bbOf, h.bbOf[x] = h.bbOf[c] PROVE x <= c
  BY <1>1 DEF Trims, Ends, LastIn
<1>2. ASSUME NEW e \in h.edges PROVE h.bbOf[e.at] # h.bbOf[c]
  <2>1. e \in g.edges /\ e.at \in DOMAIN h.bbOf
    BY DEF Trims, EdgesOk
  <2> QED
    BY <2>1 DEF Trims, Ends
<1> QED
  BY <1>1, <1>2 DEF Ends, LastIn

\* A block is cut in two.
LEMMA CuttingTrims ==
  ASSUME NEW g, Tidy(g), NEW a \in DOMAIN g.bbOf, a \notin Blocks(g),
         NEW h, h = CutFlow(MakeStart(g, a), g.bbOf[a])
  PROVE  Trims(g, h)
<1>1. /\ h.edges = g.edges /\ h.end = g.end
      /\ DOMAIN h.bbOf = DOMAIN g.bbOf /\ DOMAIN h.fncs = DOMAIN g.fncs
      /\ \A x \in DOMAIN g.bbOf :
           h.bbOf[x] = IF g.bbOf[x] = g.bbOf[a] /\ x >= a THEN a ELSE g.bbOf[x]
      /\ \A x \in DOMAIN g.bbOf : Home(h, x) = Home(g, x)
  BY CuttingBlocks
<1>2. \A x \in DOMAIN g.bbOf : g.bbOf[x] # a
  BY DEF Tidy, Structure, InsnsOk
<1>3. ASSUME NEW x \in DOMAIN g.bbOf, NEW y \in DOMAIN g.bbOf, h.bbOf[x] = h.bbOf[y]
      PROVE  g.bbOf[x] = g.bbOf[y]
  BY <1>1, <1>2, <1>3
<1> QED
  BY <1>1, <1>3 DEF Trims

\* The nops that a block starts with go, where no branch leads to it.
LEMMA DroppingNops ==
  ASSUME NEW g, Tidy(g), NEW bb \in Blocks(g), bb # FncOf(g, bb),
         \A e \in g.edges : e.to # bb, NEW h, h = DropNops(g, bb)
  PROVE  Tidy(h) /\ Trims(g, h)
<1>1. PICK rest : rest = {a \in InsnsOf(g, bb) : prog.insn[a].op # "nop"}
  OBVIOUS
<1>2. h = IF rest = {} THEN EraseBlock(g, bb)
          ELSE IF Min(rest) = bb THEN g
          ELSE EraseBlock(CutFlow(MakeStart(g, Min(rest)), bb), bb)
  BY <1>1 DEF DropNops
<1>3. /\ \A x \in DOMAIN g.bbOf : x \in Nat /\ g.bbOf[x] \in Nat
      /\ bb \in DOMAIN g.bbOf /\ g.bbOf[bb] = bb /\ bb \in Nat
  BY BlocksOfLists DEF Tidy, Structure, InsnsOk, AllFull, Full
\* A block of nops is erased.
<1>4. ASSUME NEW m, Tidy(m), Trims(g, m), bb \in Blocks(m), bb # FncOf(m, bb),
             \A e \in m.edges : e.to # bb,
             \A x \in InsnsOf(m, bb) : prog.insn[x].op = "nop",
             h = EraseBlock(m, bb)
      PROVE  Tidy(h) /\ Trims(g, h)
  <2>1. /\ Tidy(h) /\ DOMAIN h.fncs = DOMAIN m.fncs
        /\ DOMAIN h.bbOf = DOMAIN m.bbOf \ InsnsOf(m, bb)
        /\ \A x \in DOMAIN h.bbOf :
             h.bbOf[x] = m.bbOf[x] /\ h.end[x] = m.end[x] /\ Home(h, x) = Home(m, x)
        /\ h.edges = {e \in m.edges : e.at \notin InsnsOf(m, bb)}
    BY <1>4, ErasingBlocks
  <2>2. Trims(m, h)
    <3>1. \A x \in DOMAIN m.bbOf \ DOMAIN h.bbOf : prog.insn[x].op = "nop"
      BY <1>4, <2>1
    <3>2. \A e \in m.edges \ h.edges : e.at \notin DOMAIN h.bbOf
      BY <2>1
    <3>3. h.edges \subseteq m.edges
      BY <2>1
    <3>4. \A x, y \in DOMAIN h.bbOf : h.bbOf[x] = h.bbOf[y] => m.bbOf[x] = m.bbOf[y]
      BY <2>1
    <3> QED
      BY <2>1, <3>1, <3>2, <3>3, <3>4 DEF Trims
  <2> QED
    BY <1>4, <2>1, <2>2, TrimsTrans
<1>5. Trims(g, g)
  BY DEF Trims
<1>6. CASE rest = {}
  <2>1. \A x \in InsnsOf(g, bb) : prog.insn[x].op = "nop"
    BY <1>1, <1>6
  <2> QED
    BY <1>2, <1>4, <1>5, <1>6, <2>1
<1>7. CASE rest # {} /\ Min(rest) = bb
  BY <1>2, <1>5, <1>7
<1>8. CASE rest # {} /\ Min(rest) # bb
  <2>1. PICK a : a = Min(rest)
    OBVIOUS
  <2>2. a \in rest /\ \A x \in rest : a <= x
    <3>1. rest \in SUBSET Nat
      BY <1>1, <1>3 DEF InsnsOf
    <3> QED
      BY <1>8, <2>1, <3>1, MinOfNats
  <2>3. a \in DOMAIN g.bbOf /\ g.bbOf[a] = bb /\ a # bb
    BY <1>1, <1>8, <2>1, <2>2 DEF InsnsOf
  <2>4. a \notin Blocks(g)
    BY <2>3 DEF Tidy, AllFull, Full
  <2>5. PICK m : m = CutFlow(MakeStart(g, a), bb)
    OBVIOUS
  <2>6. Tidy(m) /\ Trims(g, m)
    BY <2>3, <2>4, <2>5, CuttingBlocks, CuttingTrims
  <2>7. /\ m.edges = g.edges /\ DOMAIN m.bbOf = DOMAIN g.bbOf
        /\ \A x \in DOMAIN g.bbOf :
             m.bbOf[x] = IF g.bbOf[x] = bb /\ x >= a THEN a ELSE g.bbOf[x]
        /\ \A x \in DOMAIN g.bbOf : Home(m, x) = Home(g, x)
    BY <2>3, <2>4, <2>5, CuttingBlocks
  <2>8. m.bbOf[bb] = bb
    <3>1. bb <= a /\ a \in Nat
      BY <1>3, <2>3 DEF Tidy, Structure, InsnsOk
    <3>2. ~(bb >= a)
      BY <1>3, <2>3, <3>1
    <3> QED
      BY <1>3, <2>7, <3>2
  <2>9. bb \in Blocks(m) /\ bb # FncOf(m, bb)
    <3>1. bb \in Blocks(m)
      BY <1>3, <2>6, <2>7, <2>8 DEF Tidy, Structure, InsnsOk
    <3>2. FncOf(m, bb) = FncOf(g, bb)
      BY <1>3, <2>7, <2>8 DEF Home
    <3> QED
      BY <3>1, <3>2
  <2>10. ASSUME NEW x \in InsnsOf(m, bb) PROVE prog.insn[x].op = "nop"
    <3>1. x \in DOMAIN g.bbOf /\ m.bbOf[x] = bb
      BY <2>7 DEF InsnsOf
    <3>2. g.bbOf[x] = bb /\ ~(x >= a)
      BY <2>3, <2>7, <3>1
    <3>3. x \notin rest
      BY <1>3, <2>2, <2>3, <3>1, <3>2
    <3> QED
      BY <1>1, <3>1, <3>2, <3>3 DEF InsnsOf
  <2>11. h = EraseBlock(m, bb)
    BY <1>2, <1>8, <2>1, <2>5
  <2>12. \A e \in m.edges : e.to # bb
    BY <2>7
  <2> QED
    BY <1>4, <2>6, <2>9, <2>10, <2>11, <2>12
<1> QED
  BY <1>6, <1>7, <1>8

\* The flow is cut behind a call.
LEMMA CuttingTheFlow ==
  ASSUME Tidy(ir), NEW c \in DOMAIN ir.bbOf, NextAsmInsn(c) # NoAddr,
         NEW h, h = BlocksAfter(c, NextAsmInsn(c)), prog.insn[c].op # "nop"
  PROVE  /\ Tidy(h) /\ c \in DOMAIN h.bbOf /\ Ends(h, c)
         /\ \/ Trims(ir, h)
            \/ /\ h.fncs = ir.fncs /\ h.bbOf = ir.bbOf /\ h.end = ir.end
               /\ h.edges \subseteq ir.edges
               /\ \A e \in ir.edges \ h.edges : e.at = c
<1>1. PICK n : n = NextAsmInsn(c)
  OBVIOUS
<1>2. /\ n \in DOMAIN ir.bbOf /\ c < n
      /\ \A x \in DOMAIN ir.bbOf : ir.bbOf[x] = ir.bbOf[c] /\ c < x =>
           ir.bbOf[n] = ir.bbOf[c] /\ n <= x
  BY <1>1, NextInstruction
<1>3. /\ \A x \in DOMAIN ir.bbOf : x \in Nat /\ ir.bbOf[x] \in Blocks(ir) /\ ir.bbOf[x] \in Nat
         /\ ir.bbOf[x] <= x
      /\ HasParts(ir) /\ EdgesOk(ir)
  BY BlocksOfLists DEF Tidy, Structure, InsnsOk
<1>4. PICK b : b = ir.bbOf[c]
  OBVIOUS
<1>5. CASE ir.bbOf[n] # b
  <2>1. h = CutFlow(ir, b)
    BY <1>1, <1>4, <1>5 DEF BlocksAfter
  <2>2. /\ HasParts(h) /\ h.fncs = ir.fncs /\ h.bbOf = ir.bbOf /\ h.end = ir.end
        /\ h.edges = {e \in ir.edges : ir.bbOf[e.at] # b}
    BY <1>3, <2>1 DEF CutFlow, HasParts
  <2>3. Tidy(h)
    BY <2>2, FewerBranches
  <2>4. LastIn(ir, c)
    BY <1>2, <1>3, <1>4, <1>5 DEF LastIn
  <2>5. Ends(h, c)
    BY <1>4, <2>2, <2>4 DEF Ends, LastIn
  <2>6. ASSUME NEW e \in ir.edges \ h.edges PROVE e.at = c
    <3>1. ir.bbOf[e.at] = b /\ e.at \in DOMAIN ir.bbOf /\ LastIn(ir, e.at)
      BY <1>3, <2>2 DEF EdgesOk
    <3>2. e.at <= c /\ c <= e.at
      BY <1>4, <2>4, <3>1 DEF LastIn
    <3> QED
      BY <1>3, <3>1, <3>2
  <2> QED
    BY <2>2, <2>3, <2>5, <2>6
<1>6. CASE ir.bbOf[n] = b
  <2>1. PICK m : m = CutFlow(MakeStart(ir, n), b)
    OBVIOUS
  <2>2. h = DropNops(m, n)
    BY <1>1, <1>4, <1>6, <2>1 DEF BlocksAfter
  <2>3. n \notin Blocks(ir)
    <3>1. ir.bbOf[n] # n
      BY <1>2, <1>3, <1>4, <1>6
    <3> QED
      BY <3>1 DEF Tidy, AllFull, Full
  <2>4. /\ Tidy(m) /\ m.edges = ir.edges
        /\ DOMAIN m.bbOf = DOMAIN ir.bbOf
        /\ \A x \in DOMAIN ir.bbOf :
             m.bbOf[x] = IF ir.bbOf[x] = b /\ x >= n THEN n ELSE ir.bbOf[x]
        /\ n \in Blocks(m) /\ n # FncOf(m, n)
        /\ \A e \in m.edges : e.to # n /\ m.bbOf[e.at] # b
    BY <1>2, <1>6, <2>1, <2>3, CuttingBlocks
  <2>5. Trims(ir, m)
    BY <1>2, <1>6, <2>1, <2>3, CuttingTrims
  <2>6. Tidy(h) /\ Trims(m, h)
    BY <2>2, <2>4, DroppingNops
  <2>7. Trims(ir, h)
    BY <2>5, <2>6, TrimsTrans
  <2>8. c \in DOMAIN h.bbOf
    BY <2>7 DEF Trims
  <2>9. m.bbOf[c] = b
    BY <1>2, <1>3, <1>4, <2>4
  <2>10. Ends(m, c)
    <3>1. ASSUME NEW x \in DOMAIN m.bbOf, m.bbOf[x] = m.bbOf[c] PROVE x <= c
      <4>1. ir.bbOf[x] = b /\ ~(x >= n)
        BY <1>2, <1>3, <1>4, <2>4, <2>9, <3>1
      <4>2. ~(c < x)
        BY <1>2, <1>3, <1>4, <2>4, <4>1
      <4> QED
        BY <1>3, <2>4, <4>2
    <3> QED
      BY <2>4, <2>9, <3>1 DEF Ends, LastIn
  <2>11. Ends(h, c)
    BY <2>6, <2>8, <2>10, TrimmedEnds DEF Tidy, Structure
  <2> QED
    BY <2>6, <2>7, <2>8, <2>11
<1> QED
  BY <1>5, <1>6

-----------------------------------------------------------------------------
(* The flow is cut behind the calls *)

\* The code is the decoded one, without some nops and branches.
CodeKept ==
  /\ Tidy(ir)
  /\ DOMAIN ir.bbOf \subseteq DOMAIN prog.ir.bbOf
  /\ \A a \in DOMAIN ir.bbOf : ir.end[a] = prog.ir.end[a]
  /\ \A a \in DOMAIN prog.ir.bbOf \ DOMAIN ir.bbOf : prog.insn[a].op = "nop"
  /\ ir.edges \subseteq prog.ir.edges

\* The fixpoint ends with every call to a function found terminating: the round that
\* finds no new one has gathered them all.
CallsKnown ==
  /\ \A c \in termCalls : c \in DOMAIN prog.insn /\ prog.insn[c].op \in CallKinds
  /\ phase = "examine" =>
       \E T \in SUBSET terminating : oldSz = Cardinality(T) /\ CallsToAny(T) \subseteq termCalls
  /\ phase \in {"blocks", "functions", "done"} => CallsToAny(terminating) \subseteq termCalls
  /\ phase = "functions" => todo \subseteq termCalls

\* The calls that SplitBlocks has been through.
Visited ==
  {c \in termCalls : phase \in {"functions", "done"} \/ (phase = "blocks" /\ c \notin todo)}

\* Nothing follows the call c in its block or by a branch; a return does only where
\* nothing of its function lies behind.
Stopped(c) ==
  prog.insn[c].op # "ccall" =>
    /\ Ends(ir, c)
    /\ c \in returns => \A x \in DOMAIN ir.bbOf : Home(ir, x) = Home(ir, c) => x <= c

\* A branch stays or has become a call of the function its target is the entry of.
BranchesKept ==
  \A e \in prog.ir.edges :
    e.at \in DOMAIN ir.bbOf /\ (e.at \notin termCalls \/ e.kind = "condcall") =>
      e \in ir.edges \/ (e.to \in DOMAIN ir.fncs /\ e.at \in returns)

FlowInv ==
  /\ CodeKept /\ CallsKnown
  /\ \A c \in Visited : Stopped(c)
  /\ CondsLeadForward(prog) => BranchesKept

\* A call is still there, and the branch from it leads to the code right behind it.
LEMMA CallsAreKept ==
  ASSUME WellDecoded(prog), CodeKept, CallsKnown, NEW c \in termCalls
  PROVE  /\ c \in DOMAIN ir.bbOf /\ prog.insn[c].op # "nop"
         /\ \A e \in ir.edges : e.at = c => e.to = ir.end[c]
<1>1. c \in DOMAIN prog.insn /\ prog.insn[c].op \in CallKinds
  BY DEF CallsKnown
<1>2. prog.insn[c].op # "nop"
  BY <1>1 DEF CallKinds
<1>3. c \in DOMAIN ir.bbOf
  BY <1>1, <1>2 DEF WellDecoded, CodeKept
<1>4. \A e \in prog.ir.edges : prog.insn[e.at].op \in CallKinds => e.to = prog.ir.end[e.at]
  BY DEF WellDecoded, BranchesDecoded
<1> QED
  BY <1>1, <1>2, <1>3, <1>4 DEF CodeKept

\* Nothing follows on a call that has no instruction behind it.
LEMMA LastCallEnds ==
  ASSUME WellDecoded(prog), CodeKept, CallsKnown, NEW c \in termCalls,
         NextAsmInsn(c) = NoAddr
  PROVE  Stopped(c)
<1>1. c \in DOMAIN ir.bbOf /\ \A e \in ir.edges : e.at = c => e.to = ir.end[c]
  BY CallsAreKept
<1>2. \A x \in DOMAIN ir.bbOf : Home(ir, x) = Home(ir, c) => x <= c
  BY <1>1, NextInstruction DEF CodeKept
<1>3. InsnsOk(ir) /\ EdgesOk(ir) /\ AllFull(ir) /\ Inner(ir) /\ BytesOk(ir)
  BY DEF CodeKept, Tidy, Structure, Code
<1>4. LastIn(ir, c)
  BY <1>2 DEF LastIn, Home
<1>5. ASSUME NEW e \in ir.edges, ir.bbOf[e.at] = ir.bbOf[c] PROVE FALSE
  <2>1. e.at \in DOMAIN ir.bbOf /\ e.to \in Blocks(ir) /\ LastIn(ir, e.at)
    BY <1>3 DEF EdgesOk
  <2>2. e.at \in Nat /\ c \in Nat /\ e.at <= c /\ c <= e.at
    BY <1>1, <1>3, <1>4, <1>5, <2>1 DEF LastIn, InsnsOk
  <2>3. e.at = c
    BY <2>2
  <2>4. e.to = ir.end[c] /\ c < ir.end[c] /\ ir.end[c] \in Nat
    BY <1>1, <1>3, <2>3 DEF BytesOk
  <2>5. e.to \in DOMAIN ir.bbOf /\ ir.bbOf[e.to] = e.to
    BY <1>3, <2>1 DEF AllFull, Full
  <2>6. Home(ir, e.to) = Home(ir, c)
    BY <1>3, <1>5, <2>5 DEF Inner, Home
  <2>7. e.to <= c
    BY <1>2, <2>5, <2>6
  <2> QED
    BY <2>2, <2>4, <2>7
<1> QED
  BY <1>2, <1>4, <1>5 DEF Stopped, Ends

LEMMA SplitBlocksKeepsFlow ==
  ASSUME IInv, WellDecoded(prog), FlowInv, NEW c \in todo, SplitBlocks(c)
  PROVE  FlowInv'
<1>1. /\ phase = "blocks" /\ phase' = "blocks" /\ todo' = todo \ {c}
      /\ prog' = prog /\ termCalls' = termCalls /\ terminating' = terminating
      /\ CodeKept /\ CallsKnown
  BY DEF SplitBlocks, FlowInv
<1>2. c \in termCalls
  BY <1>1 DEF IInv
<1>3. c \in DOMAIN ir.bbOf /\ prog.insn[c].op # "nop"
  BY <1>1, <1>2, CallsAreKept
<1>4. CallsKnown'
  <2>1. CallsToAny(terminating)' = CallsToAny(terminating)
    BY <1>1 DEF CallsToAny, CallsTo
  <2> QED
    BY <1>1, <2>1 DEF CallsKnown
<1>5. \A d \in Visited' : d \in termCalls /\ (d \in Visited \/ d = c)
  BY <1>1 DEF Visited
<1>6. CASE NextAsmInsn(c) = NoAddr \/ prog.insn[c].op = "ccall"
  <2>1. ir' = ir /\ returns' = returns
    BY <1>6 DEF SplitBlocks
  <2>2. CodeKept' /\ (BranchesKept => BranchesKept')
    BY <1>1, <2>1 DEF CodeKept, BranchesKept
  <2>3. Stopped(c)
    BY <1>1, <1>2, <1>6, LastCallEnds DEF Stopped
  <2>4. \A d : Stopped(d)' <=> Stopped(d)
    BY <1>1, <2>1 DEF Stopped
  <2>5. \A d \in Visited' : Stopped(d)'
    BY <1>5, <2>3, <2>4 DEF FlowInv
  <2> QED
    BY <1>1, <1>4, <2>2, <2>5 DEF FlowInv
<1>7. CASE NextAsmInsn(c) # NoAddr /\ prog.insn[c].op # "ccall"
  <2>1. PICK h : h = BlocksAfter(c, NextAsmInsn(c))
    OBVIOUS
  <2>2. ir' = h /\ returns' = returns \cap (DOMAIN h.bbOf \ {c})
    BY <1>7, <2>1 DEF SplitBlocks
  <2>3. /\ Tidy(h) /\ c \in DOMAIN h.bbOf /\ Ends(h, c)
        /\ \/ Trims(ir, h)
           \/ /\ h.fncs = ir.fncs /\ h.bbOf = ir.bbOf /\ h.end = ir.end
              /\ h.edges \subseteq ir.edges
              /\ \A e \in ir.edges \ h.edges : e.at = c
    BY <1>1, <1>3, <1>7, <2>1, CuttingTheFlow DEF CodeKept
  <2>4. /\ DOMAIN h.fncs = DOMAIN ir.fncs /\ DOMAIN h.bbOf \subseteq DOMAIN ir.bbOf
        /\ \A x \in DOMAIN ir.bbOf \ DOMAIN h.bbOf : prog.insn[x].op = "nop"
        /\ \A x \in DOMAIN h.bbOf : h.end[x] = ir.end[x] /\ Home(h, x) = Home(ir, x)
        /\ h.edges \subseteq ir.edges
        /\ \A e \in ir.edges \ h.edges : e.at = c \/ e.at \notin DOMAIN h.bbOf
    <3>1. CASE Trims(ir, h)
      BY <3>1 DEF Trims
    <3>2. CASE /\ h.fncs = ir.fncs /\ h.bbOf = ir.bbOf /\ h.end = ir.end
               /\ h.edges \subseteq ir.edges
               /\ \A e \in ir.edges \ h.edges : e.at = c
      BY <3>2 DEF Home, FncOf
    <3> QED
      BY <2>3, <3>1, <3>2
  <2>5. ASSUME NEW d \in DOMAIN h.bbOf, Ends(ir, d) PROVE Ends(h, d)
    <3>1. CASE Trims(ir, h)
      BY <2>3, <2>5, <3>1, TrimmedEnds DEF Tidy, Structure
    <3>2. CASE h.bbOf = ir.bbOf /\ h.edges \subseteq ir.edges
      BY <2>5, <3>2 DEF Ends, LastIn
    <3> QED
      BY <2>3, <3>1, <3>2
  <2>6. CodeKept'
    <3>1. /\ DOMAIN h.bbOf \subseteq DOMAIN prog.ir.bbOf
          /\ \A a \in DOMAIN h.bbOf : h.end[a] = prog.ir.end[a]
          /\ \A a \in DOMAIN prog.ir.bbOf \ DOMAIN h.bbOf : prog.insn[a].op = "nop"
          /\ h.edges \subseteq prog.ir.edges
      BY <1>1, <2>4 DEF CodeKept
    <3> QED
      BY <1>1, <2>2, <2>3, <3>1 DEF CodeKept
  <2>7. ASSUME NEW d \in Visited' PROVE Stopped(d)'
    <3>1. SUFFICES ASSUME prog.insn[d].op # "ccall"
                   PROVE  /\ Ends(h, d)
                          /\ d \in returns' =>
                               \A x \in DOMAIN h.bbOf : Home(h, x) = Home(h, d) => x <= d
      BY <1>1, <2>2 DEF Stopped
    <3>2. d \in termCalls /\ (d \in Visited \/ d = c)
      BY <1>5
    <3>3. CASE d = c
      BY <2>2, <2>3, <3>3
    <3>4. CASE d \in Visited
      <4>1. d \in DOMAIN ir.bbOf /\ prog.insn[d].op # "nop"
        BY <1>1, <3>2, CallsAreKept
      <4>2. d \in DOMAIN h.bbOf
        BY <2>4, <4>1
      <4>3. Ends(ir, d) /\ (d \in returns =>
              \A x \in DOMAIN ir.bbOf : Home(ir, x) = Home(ir, d) => x <= d)
        BY <3>1, <3>4 DEF FlowInv, Stopped
      <4>4. d \in returns' => \A x \in DOMAIN h.bbOf : Home(h, x) = Home(h, d) => x <= d
        BY <2>2, <2>4, <4>2, <4>3
      <4> QED
        BY <2>5, <4>2, <4>3, <4>4
    <3> QED
      BY <3>2, <3>3, <3>4
  <2>8. ASSUME BranchesKept PROVE BranchesKept'
    <3> SUFFICES ASSUME NEW e \in prog.ir.edges, e.at \in DOMAIN h.bbOf,
                        e.at \notin termCalls \/ e.kind = "condcall"
                 PROVE  e \in h.edges \/ (e.to \in DOMAIN h.fncs /\ e.at \in returns')
      BY <1>1, <2>2 DEF BranchesKept
    <3>1. e.at # c
      <4>1. e.kind = "condcall" => prog.insn[e.at].op = "ccall"
        BY DEF WellDecoded, BranchesDecoded
      <4> QED
        BY <1>2, <1>7, <4>1
    <3>2. e \in ir.edges \/ (e.to \in DOMAIN ir.fncs /\ e.at \in returns)
      BY <2>4, <2>8 DEF BranchesKept
    <3> QED
      BY <2>2, <2>4, <3>1, <3>2
  <2> QED
    BY <1>1, <1>4, <2>6, <2>7, <2>8 DEF FlowInv
<1> QED
  BY <1>6, <1>7

LEMMA SplitFunctionsKeepsFlow ==
  ASSUME WellDecoded(prog), FlowInv, NEW c \in todo, SplitFunctions(c)
  PROVE  FlowInv'
<1>1. /\ phase = "functions" /\ phase' = "functions" /\ todo' = todo \ {c}
      /\ prog' = prog /\ termCalls' = termCalls /\ terminating' = terminating
      /\ CodeKept /\ CallsKnown
  BY DEF SplitFunctions, FlowInv
<1>2. c \in termCalls
  BY <1>1 DEF CallsKnown
<1>3. c \in DOMAIN ir.bbOf
  BY <1>1, <1>2, CallsAreKept
<1>4. CallsKnown'
  <2>1. CallsToAny(terminating)' = CallsToAny(terminating)
    BY <1>1 DEF CallsToAny, CallsTo
  <2> QED
    BY <1>1, <2>1 DEF CallsKnown
<1>5. \A d \in Visited' : d \in termCalls /\ d \in Visited
  BY <1>1 DEF Visited
<1>6. CASE ir' = ir /\ returns' = returns
  <2>1. CodeKept' /\ (BranchesKept => BranchesKept')
    BY <1>1, <1>6 DEF CodeKept, BranchesKept
  <2>2. \A d : Stopped(d)' <=> Stopped(d)
    BY <1>1, <1>6 DEF Stopped
  <2>3. \A d \in Visited' : Stopped(d)'
    BY <1>5, <2>2 DEF FlowInv
  <2> QED
    BY <1>1, <1>4, <2>1, <2>3 DEF FlowInv
<1>7. CASE ~(ir' = ir /\ returns' = returns)
  <2>1. PICK s : s = ListOf(ir, ir.bbOf[c])
    OBVIOUS
  <2>2. PICK i : i = Pos(ir, ir.bbOf[c])
    OBVIOUS
  <2>3. PICK a : a = s[i + 1]
    OBVIOUS
  <2>4. PICK k : k = SplitFunctionOn(ir, a).ir
    OBVIOUS
  <2>5. /\ {s[j] : j \in (i + 1)..Len(s)} # {}
        /\ ir' = k /\ returns' = returns \cup {e.at : e \in ir.edges \ k.edges}
    BY <1>7, <2>1, <2>2, <2>3, <2>4 DEF SplitFunctions
  <2>6. a \in Blocks(ir)
    <3>1. ListsOk(ir.fncs) /\ ir.bbOf[c] \in Blocks(ir)
      BY <1>1, <1>3 DEF CodeKept, Tidy, Structure, InsnsOk
    <3>2. PICK f : f = FncOf(ir, ir.bbOf[c])
      OBVIOUS
    <3>3. f \in DOMAIN ir.fncs /\ s = ir.fncs[f] /\ i \in 1..Len(s) /\ s \in Seq(Nat)
      <4>1. f \in DOMAIN ir.fncs
        BY <3>1, <3>2, FunctionOfBlock
      <4>2. s = ir.fncs[f] /\ i \in 1..Len(s)
        BY <2>1, <2>2, <3>1, <3>2, PosOfBlock
      <4> QED
        BY <3>1, <4>1, <4>2 DEF ListsOk, BlockList
    <3>4. i + 1 \in 1..Len(s)
      BY <2>5, <3>3
    <3> QED
      BY <2>3, <3>1, <3>3, <3>4, PlaceInList
  <2>7. /\ Tidy(k) /\ k.bbOf = ir.bbOf /\ k.end = ir.end /\ k.edges \subseteq ir.edges
        /\ DOMAIN ir.fncs \subseteq DOMAIN k.fncs
        /\ \A x, y \in DOMAIN ir.bbOf : Home(k, x) = Home(k, y) => Home(ir, x) = Home(ir, y)
        /\ (\A e \in ir.edges : e.kind = "true" => e.at < e.to) =>
             \A e \in ir.edges \ k.edges : e.to \in DOMAIN k.fncs
    BY <1>1, <2>4, <2>6, SplittingFunctions DEF CodeKept
  <2>8. CodeKept'
    <3>1. k.edges \subseteq prog.ir.edges
      BY <1>1, <2>7 DEF CodeKept
    <3> QED
      BY <1>1, <2>5, <2>7, <3>1 DEF CodeKept
  <2>9. ASSUME NEW d \in Visited' PROVE Stopped(d)'
    <3>1. SUFFICES ASSUME prog.insn[d].op # "ccall"
                   PROVE  /\ Ends(k, d)
                          /\ d \in returns' =>
                               \A x \in DOMAIN k.bbOf : Home(k, x) = Home(k, d) => x <= d
      BY <1>1, <2>5 DEF Stopped
    <3>2. d \in termCalls /\ d \in DOMAIN ir.bbOf
      BY <1>1, <1>5, CallsAreKept
    <3>3. Ends(ir, d) /\ (d \in returns =>
            \A x \in DOMAIN ir.bbOf : Home(ir, x) = Home(ir, d) => x <= d)
      BY <1>5, <3>1 DEF FlowInv, Stopped
    <3>4. Ends(k, d)
      BY <2>7, <3>3 DEF Ends, LastIn
    <3>5. d \in returns' => d \in returns
      <4>1. \A e \in ir.edges : e.at # d
        BY <3>3 DEF Ends
      <4> QED
        BY <2>5, <4>1
    <3> QED
      BY <2>7, <3>2, <3>3, <3>4, <3>5
  <2>10. ASSUME CondsLeadForward(prog), BranchesKept PROVE BranchesKept'
    <3> SUFFICES ASSUME NEW e \in prog.ir.edges, e.at \in DOMAIN k.bbOf,
                        e.at \notin termCalls \/ e.kind = "condcall"
                 PROVE  e \in k.edges \/ (e.to \in DOMAIN k.fncs /\ e.at \in returns')
      BY <1>1, <2>5 DEF BranchesKept
    <3>1. \A d \in ir.edges : d.kind = "true" => d.at < d.to
      BY <1>1, <2>10 DEF CondsLeadForward, CodeKept
    <3>2. e \in ir.edges \/ (e.to \in DOMAIN ir.fncs /\ e.at \in returns)
      BY <2>7, <2>10 DEF BranchesKept
    <3> QED
      BY <2>5, <2>7, <3>1, <3>2
  <2> QED
    BY <1>1, <1>4, <2>8, <2>9, <2>10 DEF FlowInv
<1> QED
  BY <1>6, <1>7

\* While functions are examined nothing has been cut.
LEMMA NothingCutYet ==
  ASSUME IInv, Intact
  PROVE  BranchesKept
<1> QED
  BY DEF IInv, BranchesKept

\* The steps of the fixpoint.
LEMMA FixpointKeepsFlow ==
  ASSUME IInv, IInv', WellDecoded(prog), FlowInv,
         Gather \/ (\E f \in potential : Examine(f)) \/ EndRound
  PROVE  FlowInv'
<1>1. /\ phase \in {"gather", "examine"} /\ phase' \in {"gather", "examine", "blocks"}
      /\ phase' = "blocks" => todo' = termCalls'
      /\ prog' = prog /\ ir' = ir /\ returns' = returns
  BY DEF Gather, Examine, EndRound
<1>2. Intact'
  BY <1>1 DEF Intact
<1>3. BranchesKept'
  BY <1>2, NothingCutYet, PTL
<1>4. CodeKept'
  BY <1>1 DEF FlowInv, CodeKept
<1>5. Visited' = {}
  BY <1>1 DEF Visited
<1>6. \A gs : CallsToAny(gs)' = CallsToAny(gs)
  BY <1>1, SameModule
<1>7. CallsKnown'
  <2>1. CASE Gather
    <3>1. /\ phase' = "examine" /\ oldSz' = Cardinality(terminating) /\ terminating' = terminating
          /\ termCalls' = termCalls \cup CallsToAny(terminating)
      BY <2>1 DEF Gather, CallsToAny
    <3>2. \A c \in termCalls' : c \in DOMAIN prog.insn /\ prog.insn[c].op \in CallKinds
      BY <3>1 DEF FlowInv, CallsKnown, CallsToAny, CallsTo
    <3>3. CallsToAny(terminating) \subseteq termCalls'
      BY <3>1
    <3> QED
      BY <1>1, <1>6, <3>1, <3>2, <3>3 DEF CallsKnown
  <2>2. CASE \E f \in potential : Examine(f)
    <3>1. /\ phase = "examine" /\ phase' = "examine" /\ oldSz' = oldSz /\ termCalls' = termCalls
          /\ terminating \subseteq terminating'
      BY <2>2 DEF Examine
    <3>2. PICK T \in SUBSET terminating : oldSz = Cardinality(T) /\ CallsToAny(T) \subseteq termCalls
      BY <3>1 DEF FlowInv, CallsKnown
    <3> QED
      BY <1>1, <1>6, <3>1, <3>2 DEF FlowInv, CallsKnown
  <2>3. CASE EndRound
    <3>1. /\ phase = "examine" /\ termCalls' = termCalls /\ terminating' = terminating
          /\ \/ phase' = "gather"
             \/ phase' = "blocks" /\ oldSz = Cardinality(terminating)
      BY <2>3 DEF EndRound
    <3>2. PICK T \in SUBSET terminating : oldSz = Cardinality(T) /\ CallsToAny(T) \subseteq termCalls
      BY <3>1 DEF FlowInv, CallsKnown
    <3>3. IsFiniteSet(terminating)
      <4>1. terminating \subseteq DOMAIN prog.ir.fncs
        BY <1>1 DEF IInv, Intact
      <4>2. IsFiniteSet(DOMAIN prog.ir.fncs)
        BY DEF WellDecoded
      <4> QED
        BY <4>1, <4>2, FS_Subset
    <3>4. phase' = "blocks" => CallsToAny(terminating) \subseteq termCalls
      <4>1. oldSz = Cardinality(terminating) => terminating = T
        BY <3>2, <3>3, FS_Subset
      <4> QED
        BY <3>1, <3>2, <4>1
    <3>5. \A c \in termCalls' : c \in DOMAIN prog.insn /\ prog.insn[c].op \in CallKinds
      BY <3>1 DEF FlowInv, CallsKnown
    <3> QED
      BY <1>1, <1>6, <3>1, <3>4, <3>5 DEF CallsKnown
  <2> QED
    BY <2>1, <2>2, <2>3
<1> QED
  BY <1>3, <1>4, <1>5, <1>7 DEF FlowInv

(***************************************************************************)
(* The theorems                                                            *)
(***************************************************************************)

\* The inductive invariant holds throughout.
THEOREM Invariance == Spec => []IInv
<1>1. Init => IInv
  <2> SUFFICES ASSUME Init PROVE IInv
    OBVIOUS
  <2>1. /\ prog \in Programs /\ ir = prog.ir /\ terminating = prog.terminating
        /\ termCalls = {} /\ potential = {} /\ phase = "gather"
    BY DEF Init
  <2>2. terminating \subseteq DOMAIN ir.fncs
    BY <2>1, ProgramsAssumption
  <2> QED
    BY <2>1, <2>2 DEF IInv, Justified
<1>2. IInv /\ [Next]_vars => IInv'
  <2> SUFFICES ASSUME IInv, [Next]_vars PROVE IInv'
    OBVIOUS
  <2>1. CASE Gather
    BY <2>1, GatherKeepsIt
  <2>2. CASE \E f \in potential : Examine(f)
    BY <2>2, ExamineKeepsIt
  <2>3. CASE EndRound
    <3>1. /\ phase = "examine" /\ prog' = prog /\ ir' = ir /\ returns' = returns
          /\ terminating' = terminating /\ termCalls' = termCalls
          /\ potential' = potential
          /\ phase' = "gather" \/ (phase' = "blocks" /\ todo' = termCalls)
      BY <2>3 DEF EndRound
    <3>2. CallsToAny(terminating)' = CallsToAny(terminating)
      BY <3>1, SameModule
    <3>3. Justified => Justified'
      BY <3>1, <3>2, SameModule DEF Justified
    <3>4. Intact
      BY <3>1 DEF Intact
    <3> QED
      BY <3>1, <3>2, <3>3, <3>4 DEF IInv
  <2>4. ASSUME NEW c \in todo, SplitBlocks(c) PROVE IInv'
    <3>1. /\ phase = "blocks" /\ phase' = "blocks" /\ prog' = prog
          /\ todo' = todo \ {c} /\ termCalls' = termCalls
      BY <2>4 DEF SplitBlocks
    <3>2. c \in termCalls /\ todo' \subseteq termCalls
      BY <3>1 DEF IInv
    <3>3. ~Intact'
      BY <3>1, <3>2 DEF Intact
    <3> QED
      BY <3>1, <3>2, <3>3 DEF IInv
  <2>5. CASE EndBlocks \/ EndFunctions \/ \E c \in todo : SplitFunctions(c)
    <3>1. prog' = prog /\ phase' \in {"functions", "done"}
      BY <2>5 DEF EndBlocks, EndFunctions, SplitFunctions
    <3> QED
      BY <3>1 DEF IInv, Intact
  <2>6. CASE UNCHANGED vars
    <3>1. /\ phase' = phase /\ prog' = prog /\ ir' = ir /\ returns' = returns
          /\ terminating' = terminating /\ termCalls' = termCalls
          /\ potential' = potential /\ todo' = todo
      BY <2>6 DEF vars
    <3>2. CallsToAny(terminating)' = CallsToAny(terminating)
      BY <3>1, SameModule
    <3>3. Justified => Justified'
      BY <3>1, <3>2, SameModule DEF Justified
    <3> QED
      BY <3>1, <3>2, <3>3 DEF IInv, Intact
  <2> QED
    BY <2>1, <2>2, <2>3, <2>4, <2>5, <2>6 DEF Next, Done
<1> QED
  BY <1>1, <1>2, PTL DEF Spec

\* What the fixpoint finds lies outside of the least set of functions that may
\* return: the functions that were not found are closed under what makes one return.
THEOREM FoundDoNotReturn == Spec => []FoundNeverReturn
<1>1. IInv => FoundNeverReturn
  <2> SUFFICES ASSUME IInv, phase = "blocks", todo = termCalls
               PROVE  terminating \cap MayReturn = {}
    BY DEF FoundNeverReturn
  <2> DEFINE Known == prog.terminating
             Ext == {f \in DOMAIN ir.fncs : ir.fncs[f] = <<>>} \ Known
             Bodies == {f \in DOMAIN ir.fncs : ir.fncs[f] # <<>>} \ Known
             CallsOutside(R) == UNION {CallsTo(g) : g \in DOMAIN ir.fncs \ R}
             Rest == (Ext \cup Bodies) \ terminating
  <2>1. /\ terminating \subseteq DOMAIN ir.fncs
        /\ \A f \in terminating \ prog.terminating :
             ir.fncs[f] # <<>> /\ ~ReachesReturn(f, CallsToAny(terminating))
    BY DEF IInv, Intact, Justified
  <2>2. Ext \subseteq Rest
    BY <2>1
  <2>3. ASSUME NEW f \in Bodies, ReachesReturn(f, CallsOutside(Rest))
        PROVE  f \in Rest
    <3>1. CallsToAny(terminating) \subseteq CallsOutside(Rest)
      BY <2>1 DEF CallsToAny
    <3>2. ReachesReturn(f, CallsToAny(terminating))
      BY <2>3, <3>1, MoreCallsFewerReturns
    <3> QED
      BY <2>1, <3>2
  <2>4. MayReturn \subseteq Rest
    BY <2>2, <2>3 DEF MayReturn
  <2> QED
    BY <2>4
<1> QED
  BY <1>1, Invariance, PTL

\* The invariant of the cuts holds throughout for a module in which every jump could
\* be expressed: the code stays in order, and each call the loop has been through ends
\* its block.
THEOREM FlowInvariance == Spec => [](WellDecoded(prog) => FlowInv)
<1>1. Init => (WellDecoded(prog) => FlowInv)
  <2> SUFFICES ASSUME Init, WellDecoded(prog) PROVE FlowInv
    OBVIOUS
  <2>1. ir = prog.ir /\ termCalls = {} /\ todo = {} /\ phase = "gather"
    BY DEF Init
  <2>2. CodeKept
    BY <2>1, DecodedIsTidy DEF CodeKept
  <2>3. CallsKnown /\ Visited = {} /\ BranchesKept
    BY <2>1 DEF CallsKnown, Visited, BranchesKept
  <2> QED
    BY <2>2, <2>3 DEF FlowInv
<1>2. IInv /\ IInv' /\ (WellDecoded(prog) => FlowInv) /\ [Next]_vars
        => (WellDecoded(prog) => FlowInv)'
  <2> SUFFICES ASSUME IInv, IInv', WellDecoded(prog) => FlowInv, [Next]_vars, WellDecoded(prog)'
               PROVE  FlowInv'
    OBVIOUS
  <2>1. prog' = prog
    BY DEF Next, vars, Gather, Examine, EndRound, SplitBlocks, EndBlocks, SplitFunctions,
           EndFunctions, Done
  <2>2. WellDecoded(prog) /\ FlowInv
    BY <2>1
  <2>3. CASE Gather \/ (\E f \in potential : Examine(f)) \/ EndRound
    BY <2>2, <2>3, FixpointKeepsFlow
  <2>4. ASSUME NEW c \in todo, SplitBlocks(c) PROVE FlowInv'
    BY <2>2, <2>4, SplitBlocksKeepsFlow
  <2>5. ASSUME NEW c \in todo, SplitFunctions(c) PROVE FlowInv'
    BY <2>2, <2>5, SplitFunctionsKeepsFlow
  <2>6. CASE EndBlocks \/ EndFunctions \/ UNCHANGED vars
    <3>1. /\ ir' = ir /\ returns' = returns /\ terminating' = terminating
          /\ termCalls' = termCalls /\ oldSz' = oldSz
      BY <2>6 DEF EndBlocks, EndFunctions, vars
    <3>2. CallsToAny(terminating)' = CallsToAny(terminating)
      BY <2>1, <3>1, SameModule
    <3>3. CodeKept' /\ (BranchesKept => BranchesKept')
      BY <2>1, <3>1 DEF FlowInv, CodeKept, BranchesKept
    <3>4. \A d : Stopped(d)' <=> Stopped(d)
      BY <2>1, <3>1 DEF Stopped
    <3>5. Visited' = Visited
      BY <2>6 DEF EndBlocks, EndFunctions, vars, Visited
    <3>6. CallsKnown'
      <4>1. CASE UNCHANGED vars
        <5>1. phase' = phase /\ todo' = todo
          BY <4>1 DEF vars
        <5>2. \A T : CallsToAny(T)' = CallsToAny(T)
          BY <2>1, <3>1, SameModule
        <5> QED
          BY <2>1, <2>2, <3>1, <3>2, <5>1, <5>2 DEF FlowInv, CallsKnown
      <4>2. CASE EndBlocks \/ EndFunctions
        <5>1. /\ phase \in {"blocks", "functions"} /\ phase' \in {"functions", "done"}
              /\ phase' = "functions" => todo' = termCalls
          BY <4>2 DEF EndBlocks, EndFunctions
        <5> QED
          BY <2>1, <2>2, <3>1, <3>2, <5>1 DEF FlowInv, CallsKnown
      <4> QED
        BY <2>6, <4>1, <4>2
    <3>7. \A d \in Visited' : Stopped(d)'
      BY <2>2, <3>4, <3>5 DEF FlowInv
    <3> QED
      BY <2>1, <2>2, <3>3, <3>6, <3>7 DEF FlowInv
  <2> QED
    BY <2>3, <2>4, <2>5, <2>6 DEF Next, Done
<1> QED
  BY <1>1, <1>2, Invariance, PTL DEF Spec

\* No branch leads out of its function, to its entry or to a block that is gone, at
\* any time: a block is only erased when nothing leads to it, and no function is cut
\* across a branch that stays.
THEOREM BranchesStayInside == Spec => [](WellDecoded(prog) => BranchesInFunction)
<1>1. WellDecoded(prog) /\ FlowInv => BranchesInFunction
  <2> SUFFICES ASSUME Tidy(ir), NEW e \in ir.edges
               PROVE  e.to \in ToSet(ListOf(ir, ir.bbOf[e.at])) /\ ~IsFirst(ir, e.to)
    BY DEF FlowInv, CodeKept, BranchesInFunction
  <2>1. /\ ListsOk(ir.fncs) /\ e.to \in Blocks(ir)
        /\ FncOf(ir, ir.bbOf[e.at]) = FncOf(ir, e.to) /\ e.to # FncOf(ir, e.to)
    BY DEF Tidy, Structure, EdgesOk, Inner
  <2>2. e.to \in ToSet(ListOf(ir, ir.bbOf[e.at]))
    BY <2>1, FunctionOfBlock DEF ListOf
  <2> QED
    BY <2>1, <2>2, OrderOfBlocks
<1> QED
  BY <1>1, FlowInvariance, PTL

\* In the end nothing follows a call to a function that never returns, in whatever
\* order the calls were visited: what is cut behind one call does not join again when
\* another is visited, and no split makes a return of it.
THEOREM FlowStopsBehindCalls == Spec => [](WellDecoded(prog) => FlowStops)
<1>1. WellDecoded(prog) /\ FlowInv => FlowStops
  <2> SUFFICES ASSUME WellDecoded(prog), FlowInv, phase = "done",
                      NEW g \in terminating, NEW c \in CallsTo(g)
               PROVE  /\ c \in DOMAIN ir.bbOf
                      /\ prog.insn[c].op # "ccall" =>
                           /\ \A a \in InsnsOf(ir, ir.bbOf[c]) : a <= c
                           /\ Succs(ir.bbOf[c]) = {}
                           /\ c \in returns => NextAsmInsn(c) = NoAddr
    BY DEF FlowStops
  <2>1. CodeKept /\ CallsKnown
    BY DEF FlowInv
  <2>2. c \in termCalls
    BY <2>1 DEF CallsKnown, CallsToAny
  <2>3. c \in DOMAIN ir.bbOf
    BY <2>1, <2>2, CallsAreKept
  <2>4. Stopped(c)
    BY <2>2 DEF FlowInv, Visited
  <2>5. ASSUME prog.insn[c].op # "ccall"
        PROVE  /\ \A a \in InsnsOf(ir, ir.bbOf[c]) : a <= c
               /\ Succs(ir.bbOf[c]) = {}
               /\ c \in returns => NextAsmInsn(c) = NoAddr
    <3>1. Ends(ir, c) /\ (c \in returns =>
            \A x \in DOMAIN ir.bbOf : Home(ir, x) = Home(ir, c) => x <= c)
      BY <2>4, <2>5 DEF Stopped
    <3>2. \A a \in InsnsOf(ir, ir.bbOf[c]) : a <= c
      BY <3>1 DEF Ends, LastIn, InsnsOf
    <3>3. Succs(ir.bbOf[c]) = {}
      BY <3>1 DEF Ends, Succs
    <3>4. c \in returns => NextAsmInsn(c) = NoAddr
      BY <2>1, <2>3, <3>1, NextInstruction DEF CodeKept
    <3> QED
      BY <3>2, <3>3, <3>4
  <2> QED
    BY <2>3, <2>5
<1> QED
  BY <1>1, FlowInvariance, PTL

\* The rest of the flow is kept where no conditional branch leads back: only nops are
\* erased, and a branch that a split has taken away has become a call.
THEOREM RestOfFlowIsKept ==
  Spec => [](WellDecoded(prog) /\ CondsLeadForward(prog) => FlowIsKept)
<1>1. WellDecoded(prog) /\ CondsLeadForward(prog) /\ FlowInv => FlowIsKept
  BY DEF FlowInv, CodeKept, BranchesKept, FlowIsKept
<1> QED
  BY <1>1, FlowInvariance, PTL
=============================================================================
