-------------------------- MODULE TerminatingCalls --------------------------
(***************************************************************************)
(* Decoder::patternTerminatingCalls (decoder/patterns.cpp), which runs on  *)
(* the decoded module: a fixpoint over the functions that never return,    *)
(* then the flow is cut behind every call to one of them, and functions    *)
(* are split where such a call was the only thing that held two parts      *)
(* together.                                                               *)
(*                                                                         *)
(* The sets of the code are ordered by pointers, so every loop over one    *)
(* takes its members in any order.                                         *)
(***************************************************************************)
EXTENDS DecoderIr

CONSTANT Programs           \* [ir, insn, returns, terminating]: decoded modules

VARIABLES
  prog,                     \* The module as it was decoded.
  ir,                       \* The module.
  returns,                  \* The instructions a ReturnInst was generated for.
  terminating,              \* _terminatingFncs
  nonTerm,                  \* nonTermFncs
  termCalls,                \* termCalls, by the addresses of the calls
  potential,                \* potentialTermFncs
  oldSz,                    \* oldSz
  todo,                     \* The calls a loop over termCalls has yet to visit.
  phase                     \* "gather", "examine", "blocks", "functions", "done"

vars == <<prog, ir, returns, terminating, nonTerm, termCalls, potential,
          oldSz, todo, phase>>

-----------------------------------------------------------------------------
(* The module *)

\* "call": a call; "tail": a call and a return, what a jump to a function
\* becomes; "ccall": a call in a block of its own with a branch around it.
CallKinds == {"call", "tail", "ccall"}

\* Every call is in a block of a function, and what is known not to return is a
\* function of the module.
ASSUME ProgramsAssumption ==
  \A p \in Programs :
    /\ p.terminating \subseteq DOMAIN p.ir.fncs
    /\ \A a \in DOMAIN p.insn :
         p.insn[a].op \in CallKinds =>
           \E f \in DOMAIN p.ir.fncs : p.ir.bbOf[a] \in ToSet(p.ir.fncs[f])

\* The CallInsts among the users of g.
CallsTo(g) ==
  {a \in DOMAIN prog.insn : prog.insn[a].op \in CallKinds /\ prog.insn[a].t = g}

FncAt(a) == FncOf(ir, ir.bbOf[a])

\* A block with one of the calls `cs' does not reach its end.  The body of a
\* conditional call is a block beside the flow.
Stops(cs, bb) == \E a \in cs \cap InsnsOf(ir, bb) : prog.insn[a].op # "ccall"

Succs(bb) == {e.to : e \in {e \in ir.edges : ir.bbOf[e.at] = bb}}

\* The blocks the worklist meets: bbSeen.
Seen(f, cs) ==
  LET bbs    == ToSet(ir.fncs[f])
      closed == {S \in SUBSET bbs :
                   /\ Head(ir.fncs[f]) \in S
                   /\ \A b \in S : Stops(cs, b) \/ Succs(b) \subseteq S}
  IN  {b \in bbs : \A S \in closed : b \in S}

\* There is a path that ends in a normal return.
ReachesReturn(f, cs) ==
  \E b \in Seen(f, cs) : ~Stops(cs, b) /\ InsnsOf(ir, b) \cap returns # {}

-----------------------------------------------------------------------------
(* The fixpoint *)

Init ==
  /\ prog \in Programs
  /\ ir = prog.ir /\ returns = prog.returns /\ terminating = prog.terminating
  /\ nonTerm = {} /\ termCalls = {} /\ potential = {} /\ todo = {}
  /\ oldSz = Cardinality(prog.terminating)
  /\ phase = "gather"

\* Mutated form of Gather: the size is taken once, before the loop.
GatherOldSize ==
  /\ phase = "gather"
  /\ termCalls' = termCalls \cup UNION {CallsTo(g) : g \in terminating}
  /\ potential' = {FncAt(a) : a \in termCalls'} \ (terminating \cup nonTerm)
  /\ phase' = "examine"
  /\ UNCHANGED <<prog, ir, returns, terminating, nonTerm, oldSz, todo>>

\* The first half of a round: the terminating calls and their functions.
Gather ==
  /\ phase = "gather"
  /\ oldSz' = Cardinality(terminating)
  /\ termCalls' = termCalls \cup UNION {CallsTo(g) : g \in terminating}
  /\ potential' = {FncAt(a) : a \in termCalls'} \ (terminating \cup nonTerm)
  /\ phase' = "examine"
  /\ UNCHANGED <<prog, ir, returns, terminating, nonTerm, todo>>

\* Mutated form of Examine: a terminating call makes its function terminating.
ExamineAnyPath(f) ==
  /\ phase = "examine" /\ f \in potential
  /\ potential' = potential \ {f}
  /\ terminating' = terminating \cup {f}
  /\ UNCHANGED <<prog, ir, returns, nonTerm, termCalls, oldSz, todo, phase>>

\* The second half of a round, for one potential function.
Examine(f) ==
  /\ phase = "examine" /\ f \in potential
  /\ potential' = potential \ {f}
  /\ IF ReachesReturn(f, termCalls)
     THEN nonTerm' = nonTerm \cup {f} /\ UNCHANGED terminating
     ELSE terminating' = terminating \cup {f} /\ UNCHANGED nonTerm
  /\ UNCHANGED <<prog, ir, returns, termCalls, oldSz, todo, phase>>

EndRound ==
  /\ phase = "examine" /\ potential = {}
  /\ IF oldSz # Cardinality(terminating)
     THEN phase' = "gather" /\ UNCHANGED todo
     ELSE phase' = "blocks" /\ todo' = termCalls
  /\ UNCHANGED <<prog, ir, returns, terminating, nonTerm, termCalls, potential, oldSz>>

-----------------------------------------------------------------------------
(* Splitting blocks after terminating calls *)

\* AsmInstruction::getNext
NextAsmInsn(a) ==
  LET s     == ListOf(ir, ir.bbOf[a])
      after == {x \in InsnsOf(ir, ir.bbOf[a]) : x > a}
      later == {i \in (Pos(ir, ir.bbOf[a]) + 1)..Len(s) : InsnsOf(ir, s[i]) # {}}
  IN  IF after # {} THEN Min(after)
      ELSE IF later # {} THEN Min(InsnsOf(ir, s[Min(later)])) ELSE NoAddr

\* BasicBlock::eraseFromParent
EraseBlock(m, bb) ==
  LET gone == InsnsOf(m, bb)
      kept == DOMAIN m.bbOf \ gone
  IN  [m EXCEPT !.fncs[FncOf(m, bb)] = RemoveAt(@, Pos(m, bb)),
                !.bbOf = [a \in kept |-> @[a]],
                !.end = [a \in kept |-> @[a]],
                !.edges = {e \in @ : e.at \notin gone}]

\* The terminator of bb is replaced by an UnreachableInst.
CutFlow(m, bb) == [m EXCEPT !.edges = {e \in @ : m.bbOf[e.at] # bb}]

\* The nops that the new block starts with go; the rest is the new block.
DropNops(m, bb) ==
  LET rest == {a \in InsnsOf(m, bb) : prog.insn[a].op # "nop"}
  IN  IF rest = {} THEN EraseBlock(m, bb)
      ELSE IF Min(rest) = bb THEN m
      ELSE EraseBlock(CutFlow(MakeStart(m, Min(rest)), bb), bb)

\* Mutated form of BlocksAfter: only a block that goes on is cut.
BlocksAfterSameBlock(c, next) ==
  IF ir.bbOf[next] # ir.bbOf[c] THEN ir
  ELSE DropNops(CutFlow(MakeStart(ir, next), ir.bbOf[c]), next)

\* Mutated form of BlocksAfter: the old terminator is replaced as well.
BlocksAfterCutFirst(c, next) ==
  IF ir.bbOf[next] # ir.bbOf[c]
  THEN CutFlow(ir, ir.bbOf[c])
  ELSE DropNops(CutFlow(MakeStart(CutFlow(ir, ir.bbOf[c]), next), ir.bbOf[c]), next)

\* The loop body for a call that has an instruction behind it.
BlocksAfter(c, next) ==
  IF ir.bbOf[next] # ir.bbOf[c]
  THEN CutFlow(ir, ir.bbOf[c])
  ELSE DropNops(CutFlow(MakeStart(ir, next), ir.bbOf[c]), next)

\* One call.  Without an instruction behind it nothing is done; for a
\* conditional call it is the body, a block beside the flow, that is cut.
SplitBlocks(c) ==
  /\ phase = "blocks" /\ c \in todo
  /\ todo' = todo \ {c}
  /\ IF NextAsmInsn(c) = NoAddr \/ prog.insn[c].op = "ccall"
     THEN UNCHANGED <<ir, returns>>
     ELSE /\ ir' = BlocksAfter(c, NextAsmInsn(c))
          /\ returns' = returns \cap (DOMAIN ir'.bbOf \ {c})
  /\ UNCHANGED <<prog, terminating, nonTerm, termCalls, potential, oldSz, phase>>

EndBlocks ==
  /\ phase = "blocks" /\ todo = {}
  /\ phase' = "functions" /\ todo' = termCalls
  /\ UNCHANGED <<prog, ir, returns, terminating, nonTerm, termCalls, potential, oldSz>>

-----------------------------------------------------------------------------
(* Splitting functions after terminating calls *)

\* No edge from the blocks before the call's to those after, and back only to
\* the first block of the function.
Separable(before, after) ==
  \A e \in ir.edges :
    /\ ir.bbOf[e.at] \in before => e.to \notin after
    /\ ir.bbOf[e.at] \in after /\ e.to \in before => IsFirst(ir, e.to)

\* One call: the function is split on the next block, where that is possible.
\* The branches that splitFunctionOn turns into calls become returns, too.
SplitFunctions(c) ==
  /\ phase = "functions" /\ c \in todo
  /\ todo' = todo \ {c}
  /\ LET s      == ListOf(ir, ir.bbOf[c])
         i      == Pos(ir, ir.bbOf[c])
         before == {s[j] : j \in 1..(IF prog.insn[c].op = "ccall" THEN i ELSE i - 1)}
         after  == {s[j] : j \in (i + 1)..Len(s)}
     IN  IF after # {} /\ Separable(before, after)
         THEN \E r \in {SplitFunctionOn(ir, s[i + 1])} :
                /\ ir' = r.ir
                /\ returns' = returns \cup {e.at : e \in ir.edges \ r.ir.edges}
         ELSE UNCHANGED <<ir, returns>>
  /\ UNCHANGED <<prog, terminating, nonTerm, termCalls, potential, oldSz, phase>>

EndFunctions ==
  /\ phase = "functions" /\ todo = {}
  /\ phase' = "done"
  /\ UNCHANGED <<prog, ir, returns, terminating, nonTerm, termCalls, potential,
                 oldSz, todo>>

Done == phase = "done" /\ UNCHANGED vars

Next ==
  \/ Gather \/ (\E f \in potential : Examine(f)) \/ EndRound
  \/ (\E c \in todo : SplitBlocks(c)) \/ EndBlocks
  \/ (\E c \in todo : SplitFunctions(c)) \/ EndFunctions
  \/ Done

\* One thread that never waits: it takes a step whenever one is possible.  This
\* is WF_vars(Next): some step is possible until phase is "done", and each
\* changes phase, potential or todo.
Fairness == []<>(phase = "done") \/ []<><<TRUE>>_vars

Spec == Init /\ [][Next]_vars /\ Fairness

-----------------------------------------------------------------------------
(* What the decoder hands over *)

\* The lists of blocks: none is in two functions, a function's own is the first,
\* and they are in the order of their addresses.  Each begins with an instruction:
\* no jump was given up.
BlocksDecoded(m) ==
  /\ \A f \in DOMAIN m.fncs :
       /\ f \in Nat /\ m.fncs[f] \in Seq(Nat)
       /\ m.fncs[f] # <<>> => m.fncs[f][1] = f
       /\ \A i, j \in 1..Len(m.fncs[f]) : i < j => m.fncs[f][i] < m.fncs[f][j]
       /\ \A g \in DOMAIN m.fncs \ {f} : ToSet(m.fncs[f]) \cap ToSet(m.fncs[g]) = {}
  /\ \A b \in Blocks(m) : b \in DOMAIN m.bbOf /\ m.bbOf[b] = b

\* Instructions do not overlap, and those of a block follow one on the other.
CodeDecoded(m) ==
  /\ DOMAIN m.end = DOMAIN m.bbOf
  /\ \A a \in DOMAIN m.bbOf :
       /\ a \in Nat /\ m.end[a] \in Nat /\ a < m.end[a]
       /\ \A x \in DOMAIN m.bbOf : a < x => m.end[a] <= x
       /\ m.bbOf[a] \in Blocks(m) /\ m.bbOf[a] <= a
       /\ a = m.bbOf[a] \/ \E x \in InsnsOf(m, m.bbOf[a]) : m.end[x] = a

\* Branches are at the ends of blocks and stay in their functions.  The code right
\* behind it follows on a call, and is the second successor of a branch.
BranchesDecoded(p, m) ==
  \A e \in m.edges :
    /\ e.at \in DOMAIN m.bbOf /\ e.to \in Blocks(m)
    /\ \A x \in InsnsOf(m, m.bbOf[e.at]) : x <= e.at
    /\ FncOf(m, m.bbOf[e.at]) = FncOf(m, e.to) /\ ~IsFirst(m, e.to)
    /\ e.kind \in {"br", "true", "false", "condcall"}
    /\ e.kind = "condcall" => p.insn[e.at].op = "ccall"
    /\ e.kind \in {"false", "condcall"} \/ p.insn[e.at].op \in CallKinds => e.to = m.end[e.at]
    /\ \A d \in m.edges : d # e /\ d.at = e.at => {e.kind, d.kind} = {"true", "false"}

\* A module in which every jump could be expressed.
WellDecoded(p) ==
  /\ {"fncs", "bbOf", "end", "edges", "fncSz"} \subseteq DOMAIN p.ir
  /\ IsFiniteSet(DOMAIN p.ir.fncs) /\ DOMAIN p.insn \subseteq DOMAIN p.ir.bbOf
  /\ BlocksDecoded(p.ir) /\ CodeDecoded(p.ir) /\ BranchesDecoded(p, p.ir)

\* No conditional branch leads back: one that leads back to the block behind a
\* terminating call is lost when the function is split there.
CondsLeadForward(p) == \A e \in p.ir.edges : e.kind = "true" => e.at < e.to

-----------------------------------------------------------------------------
(* Properties *)

\* The functions that may return, for a processor: the least set such that one
\* in it has a path to a return on which every call is to one in it.  What has
\* no body returns unless it was known not to.
MayReturn ==
  LET Known  == prog.terminating
      Ext    == {f \in DOMAIN ir.fncs : ir.fncs[f] = <<>>} \ Known
      Bodies == {f \in DOMAIN ir.fncs : ir.fncs[f] # <<>>} \ Known
      CallsOutside(R) == UNION {CallsTo(g) : g \in DOMAIN ir.fncs \ R}
      closed == {R \in SUBSET (Ext \cup Bodies) :
                   /\ Ext \subseteq R
                   /\ \A cs \in {CallsOutside(R)} :
                        \A f \in Bodies : ReachesReturn(f, cs) => f \in R}
  IN  {f \in Ext \cup Bodies : \A R \in closed : f \in R}

\* No function that may return is ever found terminating, although functions
\* are examined one after the other and the calls to those just found are not
\* yet known: cutting the flow behind such a call would lose reachable code.
FoundNeverReturn == phase = "blocks" /\ todo = termCalls => terminating \cap MayReturn = {}

\* Nothing follows a terminating call, in its block or by a branch or a return
\* from it, unless the call is the last instruction of its function; in
\* whatever order the calls were visited and the functions split.
FlowStops ==
  phase = "done" =>
    \A g \in terminating : \A c \in CallsTo(g) :
      /\ c \in DOMAIN ir.bbOf
      /\ prog.insn[c].op # "ccall" =>
           /\ \A a \in InsnsOf(ir, ir.bbOf[c]) : a <= c
           /\ Succs(ir.bbOf[c]) = {}
           /\ c \in returns => NextAsmInsn(c) = NoAddr

\* The flow that does not pass a terminating call is kept: an instruction that
\* is not a nop stays, and a branch stays or becomes a call of the function that
\* its target has become the entry of.
FlowIsKept ==
  phase = "done" =>
    /\ \A a \in DOMAIN prog.ir.bbOf \ DOMAIN ir.bbOf : prog.insn[a].op = "nop"
    /\ \A e \in prog.ir.edges :
         e.at \in DOMAIN ir.bbOf /\ (e.at \notin termCalls \/ e.kind = "condcall") =>
           e \in ir.edges \/ (e.to \in DOMAIN ir.fncs /\ e.at \in returns)

\* Every branch ends at a block of its own function, never the first one: no
\* block that is branched to was erased, and no cut through a function leaves a
\* branch across it.
BranchesInFunction ==
  \A e \in ir.edges :
    /\ e.to \in ToSet(ListOf(ir, ir.bbOf[e.at]))
    /\ ~IsFirst(ir, e.to)

\* The fixpoint and the splits come to an end.
Termination == <>(phase = "done")
=============================================================================
