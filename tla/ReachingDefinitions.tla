------------------------ MODULE ReachingDefinitions -------------------------
(***************************************************************************)
(* bin2llvmir::ReachingDefinitionsAnalysis (reaching_definitions.cpp) on   *)
(* one function: which stores may have written what a load reads.  The     *)
(* full analysis passes sets of definitions on from block to block until   *)
(* nothing changes, reading only predecessors that changed; the on-demand  *)
(* one searches the control-flow graph from a single load or store.        *)
(*                                                                         *)
(* A block is the sequence of the variables it defines.  A use may be at   *)
(* any place: at pos definitions from the start of its block.  Blocks are  *)
(* numbered as the worklist of propagate has them; every numbering is      *)
(* allowed, where the code has the reverse post-order.                     *)
(***************************************************************************)
EXTENDS Integers, SequencesExt

CONSTANTS
  Blocks,                   \* Their numbers; 1 is the entry block.
  Variables,                \* What loads read and stores write.
  Programs                  \* [defs : the variables, succs : the successors]

ASSUME BlocksAssumption == Blocks \subseteq Nat /\ 1 \in Blocks

ASSUME ProgramsAssumption ==
  \A p \in Programs : p.defs \in [Blocks -> Seq(Variables)] /\ p.succs \in [Blocks -> SUBSET Blocks]

VARIABLES
  prog,                     \* The function.
  defsOut,                  \* BasicBlockEntry::defsOut, of every block
  genDefs,                  \* BasicBlockEntry::genDefs, moved out at some time
  changed,                  \* BasicBlockEntry::changed
  next,                     \* What the worklist still has in this round.
  again,                    \* propagate: changed, another round is needed.
  phase,                    \* "propagate", "link", "done"
  defs                      \* Use::defs, of every use

vars == <<prog, defsOut, genDefs, changed, next, again, phase, defs>>

Preds(b) == {p \in Blocks : b \in prog.succs[p]}

\* What start leads to by any number of steps: the least set that has start and
\* that no step leaves.
Closure(start, step) ==
  LET closed == {S \in SUBSET DOMAIN step : start \subseteq S /\ \A x \in S : step[x] \subseteq S}
  IN  {x \in DOMAIN step : \A S \in closed : x \in S}

Reachable == Closure({1}, prog.succs)

Definitions == UNION {{[bb |-> b, pos |-> i] : i \in DOMAIN prog.defs[b]} : b \in Blocks}
Src(d) == prog.defs[d.bb][d.pos]

\* [bb, pos] is behind the first pos definitions of bb.
Places == UNION {[bb : {b}, pos : 0..Len(prog.defs[b])] : b \in Blocks}

Uses == UNION {[bb : {b}, pos : 0..Len(prog.defs[b]), src : Variables] : b \in Blocks}

\* The last definition of v among the first n definitions of a block.
LastDef(v, b, n) ==
  LET ds == {i \in 1..n : prog.defs[b][i] = v}
  IN  IF ds = {} THEN {} ELSE {[bb |-> b, pos |-> Max(ds)]}

LastDefs(v, b) == LastDef(v, b, Len(prog.defs[b]))

-----------------------------------------------------------------------------
(* The full analysis *)

KillDefs(b) == ToSet(prog.defs[b])

\* initializeKillDefSets
GenDefs(b) == UNION {LastDefs(v, b) : v \in KillDefs(b)}

\* ReversePostOrderTraversal meets what the entry block leads to.
Worklist == Reachable

\* runOnFunction up to the loop of propagate.
Init ==
  /\ prog \in Programs
  /\ defsOut = [b \in Blocks |-> {}]
  /\ genDefs = [b \in Blocks |-> GenDefs(b)]
  /\ changed = [b \in Blocks |-> b \in Worklist]
  /\ next = Worklist /\ again = FALSE
  /\ phase = "propagate"
  /\ defs = [u \in Uses |-> {}]

\* What a block passes on when it is visited: its own definitions, the first
\* time, and those of the predecessors that changed in their last visit.
Own(b) == IF defsOut[b] = {} THEN genDefs[b] ELSE defsOut[b]

Incoming(b, own) ==
  {d \in UNION {IF p = b THEN own ELSE defsOut[p] : p \in {p \in Preds(b) : changed[p]}} :
     Src(d) \notin KillDefs(b)}

\* Mutated form of InitDefsOut: the old size is taken after the block's own
\* definitions have been moved in.
InitDefsOutLateSize(b) ==
  \E own \in {Own(b)} : \E out \in {own \cup Incoming(b, own)} :
    /\ defsOut' = [defsOut EXCEPT ![b] = out]
    /\ genDefs' = [genDefs EXCEPT ![b] = IF defsOut[b] = {} THEN {} ELSE @]
    /\ changed' = [changed EXCEPT ![b] = out # own]
    /\ again' = (again \/ out # own)

\* Mutated form of InitDefsOut: a block with definitions is taken for changed.
InitDefsOutNonEmpty(b) ==
  \E own \in {Own(b)} : \E out \in {own \cup Incoming(b, own)} :
    /\ defsOut' = [defsOut EXCEPT ![b] = out]
    /\ genDefs' = [genDefs EXCEPT ![b] = IF defsOut[b] = {} THEN {} ELSE @]
    /\ changed' = [changed EXCEPT ![b] = out # {}]
    /\ again' = (again \/ out # {})

\* initDefsOut.  The sets only grow, so sizes are compared.
InitDefsOut(b) ==
  \E own \in {Own(b)} : \E out \in {own \cup Incoming(b, own)} :
    /\ defsOut' = [defsOut EXCEPT ![b] = out]
    /\ genDefs' = [genDefs EXCEPT ![b] = IF defsOut[b] = {} THEN {} ELSE @]
    /\ changed' = [changed EXCEPT ![b] = out # defsOut[b]]
    /\ again' = (again \/ out # defsOut[b])

\* One step of the for loop of propagate.
Visit ==
  /\ phase = "propagate" /\ next # {}
  /\ InitDefsOut(Min(next))
  /\ next' = next \ {Min(next)}
  /\ UNCHANGED <<prog, phase, defs>>

\* The while loop: another round in the same order, or the end of propagate.
EndRound ==
  /\ phase = "propagate" /\ next = {}
  /\ again' = FALSE
  /\ IF again THEN next' = Worklist /\ UNCHANGED phase
              ELSE phase' = "link" /\ UNCHANGED next
  /\ UNCHANGED <<prog, defsOut, genDefs, changed, defs>>

\* initializeDefsAndUses for a use: the last definition before it in its block,
\* or else what its predecessors pass on.
DefsOf(u) ==
  LET local == LastDef(u.src, u.bb, u.pos)
  IN  IF local # {} THEN local
      ELSE {d \in UNION {defsOut[p] : p \in Preds(u.bb)} : Src(d) = u.src}

\* initializeDefsAndUses and clearInternal.
InitializeDefsAndUses ==
  /\ phase = "link"
  /\ defs' = [u \in Uses |-> DefsOf(u)]
  /\ defsOut' = [b \in Blocks |-> {}]
  /\ genDefs' = [b \in Blocks |-> {}]
  /\ phase' = "done"
  /\ UNCHANGED <<prog, changed, next, again>>

Done == phase = "done" /\ UNCHANGED vars

Next == Visit \/ EndRound \/ InitializeDefsAndUses \/ Done

\* One thread that never waits.
Spec == Init /\ [][Next]_vars /\ WF_vars(Next)

-----------------------------------------------------------------------------
(* The on-demand analysis *)

\* The blocks searched for v backwards from b, until one has a definition.
SearchedFor(v, b) ==
  Closure(Preds(b), [c \in Blocks |-> IF LastDefs(v, c) # {} THEN {} ELSE Preds(c)])

\* Mutated form of DefsFromUse_onDemand: the block of the use is not searched
\* again when a loop leads back to it.
DefsFromUse_onDemandNoLoop(u) ==
  LET local == LastDef(u.src, u.bb, u.pos)
  IN  IF local # {} THEN local
      ELSE UNION {LastDefs(u.src, b) : b \in SearchedFor(u.src, u.bb) \ {u.bb}}

\* defsFromUse_onDemand
DefsFromUse_onDemand(u) ==
  LET local == LastDef(u.src, u.bb, u.pos)
  IN  IF local # {} THEN local
      ELSE UNION {LastDefs(u.src, b) : b \in SearchedFor(u.src, u.bb)}

\* usesInBasicBlock: the uses of v in b behind the first n definitions, up to
\* the next store to v.
UsesInBasicBlock(v, b, n) ==
  {u \in Uses : u.bb = b /\ u.src = v /\ u.pos >= n
                  /\ \A i \in (n + 1)..u.pos : prog.defs[b][i] # v}

KillsFrom(v, b, n) == \E i \in (n + 1)..Len(prog.defs[b]) : prog.defs[b][i] = v

\* The blocks searched for uses of v forwards from b, until one kills the value.
FollowedFrom(v, b) ==
  Closure(prog.succs[b], [c \in Blocks |-> IF KillsFrom(v, c, 0) THEN {} ELSE prog.succs[c]])

\* usesFromDef_onDemand
UsesFromDef_onDemand(d) ==
  LET v     == Src(d)
      local == UsesInBasicBlock(v, d.bb, d.pos)
  IN  IF KillsFrom(v, d.bb, d.pos) THEN local
      ELSE local \cup UNION {UsesInBasicBlock(v, b, 0) : b \in FollowedFrom(v, d.bb)}

-----------------------------------------------------------------------------
(* Properties *)

\* The places that an execution which has just passed definition d may be at
\* before it defines the same variable again.
StepOf(q, v) ==
  IF q.pos = Len(prog.defs[q.bb]) THEN [bb : prog.succs[q.bb], pos : {0}]
  ELSE IF prog.defs[q.bb][q.pos + 1] = v THEN {}
  ELSE {[bb |-> q.bb, pos |-> q.pos + 1]}

PlacesReached(d) == Closure({d}, [q \in Places |-> StepOf(q, Src(d))])

\* The definitions found for a use that can be executed are exactly those of
\* some execution from the entry that wrote the variable last, although a block
\* reads only the predecessors whose last visit changed them: a change is not
\* missed whatever the order of the blocks, since every round keeps to it.
DefsAreThoseThatReach ==
  phase = "done" => \A live \in {Reachable} :
    /\ \A u \in Uses : u.bb \in live =>
         \A d \in defs[u] : d.bb \in live /\ Src(d) = u.src
    /\ \A d \in Definitions : d.bb \in live =>
         \A places \in {PlacesReached(d)} : \A u \in Uses :
           u.bb \in live /\ u.src = Src(d) =>
             (d \in defs[u] <=> [bb |-> u.bb, pos |-> u.pos] \in places)

\* Passes may ask either analysis: what is found on demand for a use is what the
\* full analysis has, but for definitions in unreachable blocks, which only the
\* search meets; and the uses found for a definition are those it is found for.
OnDemandAgrees ==
  phase = "done" => \A found \in {[u \in Uses |-> DefsFromUse_onDemand(u)]} :
    /\ \A live \in {Reachable} : \A u \in Uses :
         u.bb \in live => {d \in found[u] : d.bb \in live} = defs[u]
    /\ \A d \in Definitions : UsesFromDef_onDemand(d) = {u \in Uses : d \in found[u]}

\* The rounds come to an end.
Termination == <>(phase = "done")
=============================================================================
