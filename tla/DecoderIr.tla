----------------------------- MODULE DecoderIr ------------------------------
(***************************************************************************)
(* The control-flow skeleton of the LLVM module that the decoder builds,   *)
(* and the operations on it (decoder/bbs.cpp, functions.cpp,               *)
(* ir_modifications.cpp, providers/asm_instruction.cpp):                   *)
(*                                                                         *)
(*   ir.fncs[f]    the basic blocks of the function at address f, in the   *)
(*                 order of LLVM's block list; <<>> for a declaration      *)
(*   ir.bbOf[a]    the block that holds the ASM instruction at address a   *)
(*   ir.end[a]     the end address of that instruction                     *)
(*   ir.edges      the terminators: [at, to, kind], a branch generated for *)
(*                 the ASM instruction at `at' to the block `to'           *)
(*   ir.fncSz[f]   _fnc2sz, the sizes known of some functions              *)
(*                                                                         *)
(* Blocks and functions are named by their addresses, 0 is Undefined or    *)
(* nullptr.  A block without an address (the body of a conditional call)   *)
(* is part of the block with an address before it, as it is for every      *)
(* lookup in the code.                                                     *)
(***************************************************************************)
EXTENDS Integers, Sequences, SequencesExt, TLC

CONSTANT Image              \* The addresses that hold data.

NoAddr == 0

Result(ir, f, bb) == [ir |-> ir, fnc |-> f, bb |-> bb]

\* The map f with the value y for x.
With(f, x, y) == [z \in DOMAIN f \cup {x} |-> IF z = x THEN y ELSE f[z]]

-----------------------------------------------------------------------------
(* bbs.cpp, functions.cpp and asm_instruction.cpp: lookups *)

Blocks(ir) == UNION {ToSet(ir.fncs[f]) : f \in DOMAIN ir.fncs}

\* llvm::BasicBlock::getParent
FncOf(ir, bb) == CHOOSE f \in DOMAIN ir.fncs : bb \in ToSet(ir.fncs[f])

\* The block list bb is in, and its place there.
ListOf(ir, bb) == ir.fncs[FncOf(ir, bb)]

IndexIn(s, bb) == CHOOSE i \in 1..Len(s) : s[i] = bb

Pos(ir, bb) == IndexIn(ListOf(ir, bb), bb)

\* bb->getPrevNode() == nullptr
IsFirst(ir, bb) == Head(ListOf(ir, bb)) = bb

FrontOf(ir, f) == IF ir.fncs[f] = <<>> THEN NoAddr ELSE Head(ir.fncs[f])

InsnsOf(ir, bb) == {a \in DOMAIN ir.bbOf : ir.bbOf[a] = bb}

MaxOrNone(S) == IF S = {} THEN NoAddr ELSE Max(S)

GetBasicBlockBeforeAddress(ir, a) == MaxOrNone({b \in Blocks(ir) : b <= a})

GetFunctionBeforeAddress(ir, a) == MaxOrNone({f \in DOMAIN ir.fncs : f <= a})

\* AsmInstruction(inst) for an instruction after those of the first n blocks of
\* the list s: the walk back ends at the first block with an ASM instruction.
WalkBack(ir, s, n) ==
  LET filled == {i \in 1..n : InsnsOf(ir, s[i]) # {}}
  IN  IF filled = {} THEN NoAddr ELSE Max(InsnsOf(ir, s[Max(filled)]))

LastAsmInsn(ir, bb) == WalkBack(ir, ListOf(ir, bb), Pos(ir, bb))

\* AsmInstruction(bb): its first instruction, or else the walk back.
AsmInsnOf(ir, bb) ==
  IF InsnsOf(ir, bb) # {} THEN Min(InsnsOf(ir, bb)) ELSE LastAsmInsn(ir, bb)

\* AsmInstruction::getPrev
PrevAsmInsn(ir, a) ==
  LET before == {x \in InsnsOf(ir, ir.bbOf[a]) : x < a}
  IN  IF before # {} THEN Max(before)
      ELSE WalkBack(ir, ListOf(ir, ir.bbOf[a]), Pos(ir, ir.bbOf[a]) - 1)

\* The end of the instruction at l, or `default' when there is none.
EndOr(ir, l, default) == IF l = NoAddr THEN default ELSE ir.end[l]

GetBasicBlockEndAddress(ir, bb) == EndOr(ir, LastAsmInsn(ir, bb), bb)

GetFunctionEndAddress(ir, f) ==
  EndOr(ir, WalkBack(ir, ir.fncs[f], Len(ir.fncs[f])), f)

\* getBasicBlockContainingAddress, getFunctionContainingAddress: there is one.
InBasicBlock(ir, a) ==
  \E b \in {GetBasicBlockBeforeAddress(ir, a)} :
    b # NoAddr /\ a < GetBasicBlockEndAddress(ir, b)

InFunction(ir, a) ==
  \E f \in {GetFunctionBeforeAddress(ir, a)} :
    f # NoAddr /\ a < GetFunctionEndAddress(ir, f)

-----------------------------------------------------------------------------
(* Creating blocks and functions *)

\* Mutated form of CreateBasicBlock: the new block is put before `after'.
CreateBasicBlockBefore(ir, a, after) ==
  [ir EXCEPT !.fncs[FncOf(ir, after)] = InsertAt(@, Pos(ir, after), a)]

CreateBasicBlock(ir, a, after) ==
  [ir EXCEPT !.fncs[FncOf(ir, after)] = InsertAt(@, Pos(ir, after) + 1, a)]

\* The calls with the block before a as the one to insert after.
CreateBlockAt(ir, a) ==
  CreateBasicBlock(ir, a, GetBasicBlockBeforeAddress(ir, a))

\* A function at an address without data stays a declaration.
CreateFunction(ir, a) ==
  IF a \in DOMAIN ir.fncs THEN ir
  ELSE [ir EXCEPT !.fncs = With(@, a, IF a \in Image THEN <<a>> ELSE <<>>)]

\* AsmInstruction::makeStart and addBasicBlock: cut the block that holds the
\* instruction at a in two; splitBasicBlock links them by a branch.
MakeStart(ir, a) ==
  LET insns == InsnsOf(ir, ir.bbOf[a])
      prev  == Max({x \in insns : x < a})
  IN  [CreateBasicBlock(ir, a, ir.bbOf[a]) EXCEPT
         !.bbOf  = [x \in DOMAIN @ |-> IF x \in insns /\ x >= a THEN a ELSE @[x]],
         !.edges = @ \cup {[at |-> prev, to |-> a, kind |-> "br"]}]

-----------------------------------------------------------------------------
(* Splitting functions *)

\* Mutated form of CanSplitOnBlock: conditional branches are not excluded.
CanSplitOnBlockAnyBranch(ir, bb) ==
  \A e \in ir.edges : e.to = bb => ir.end[e.at] # AsmInsnOf(ir, bb)

\* canSplitFunctionOn(bb).  (When AsmInstruction(bb) is not valid the code stops
\* at the assertion of getAddress; the model goes on.)
CanSplitOnBlock(ir, bb) ==
  \A e \in ir.edges :
    e.to = bb => e.kind = "br" /\ ir.end[e.at] # AsmInsnOf(ir, bb)

\* The start of the part of the function that address a falls in.
PartOf(starts, a) == MaxOrNone({s \in starts : s <= a})

\* The blocks of f that an edge enters from another part.
Crossed(ir, f, starts) ==
  {b \in ToSet(ir.fncs[f]) : \E e \in ir.edges :
     e.to = b /\ PartOf(starts, b) # PartOf(starts, ir.bbOf[e.at])}

\* The loop of canSplitFunctionOn(addr, splitBb, newFncStarts): every crossed
\* block becomes a start in its turn, until none is left; the least set of
\* starts that is closed under that.
FncStarts(ir, f, a) ==
  LET closed == {S \in SUBSET (ToSet(ir.fncs[f]) \cup {f}) :
                   {f, a} \subseteq S /\ Crossed(ir, f, S) \subseteq S}
  IN  {b \in ToSet(ir.fncs[f]) \cup {f} : \A S \in closed : b \in S}

\* The known size of f covers a.
InSizedFunction(ir, f, a) ==
  f \in DOMAIN ir.fncSz /\ f <= a /\ a < f + ir.fncSz[f]

\* canSplitFunctionOn(addr, splitBb, newFncStarts)
CanSplitFunctionOn(ir, f, a, starts) ==
  /\ ~InSizedFunction(ir, f, a)
  /\ \A b \in ToSet(ir.fncs[f]) : PartOf({f, a}, b) # NoAddr
  /\ \A b \in Crossed(ir, f, starts) : CanSplitOnBlock(ir, b)

\* Mutated form of Segment: a start takes the blocks up to the end of the list.
SegmentToEnd(s, starts, i) == SubSeq(s, i, Len(s))

\* The blocks of the list s from position i up to the next start.
Segment(s, starts, i) ==
  SubSeq(s, i, Min({j \in (i + 1)..Len(s) : s[j] \in starts}
                     \cup {Len(s) + 1}) - 1)

\* The splices: each start takes the blocks up to the next one along.
Splice(ir, s, f, starts) ==
  [ir EXCEPT !.fncs =
     [g \in DOMAIN @ \cup starts |->
        IF g \in starts
        THEN Segment(s, starts, IF g = f THEN 1 ELSE IndexIn(s, g)) ELSE @[g]]]

\* A branch whose first successor is now in another function, or first in its
\* own, becomes a call and a return; a conditional one loses both successors.
CallsOut(ir, fs) ==
  {e \in ir.edges :
     /\ e.kind \in {"br", "true"}
     /\ FncOf(ir, ir.bbOf[e.at]) \in fs
     /\ FncOf(ir, e.to) # FncOf(ir, ir.bbOf[e.at]) \/ IsFirst(ir, e.to)}

DropEdges(ir, out) ==
  [ir EXCEPT !.edges = {e \in @ :
     /\ e \notin out
     /\ e.kind = "false" => \A o \in out : o.kind = "true" => o.at # e.at}]

\* Mutated form of BranchesToCalls: the function that was split is forgotten.
BranchesToCallsNew(ir, fs) == DropEdges(ir, CallsOut(ir, fs \ {Min(fs)}))

\* Mutated form of BranchesToCalls: only the function that was split is gone
\* through.
BranchesToCallsOld(ir, fs) == DropEdges(ir, CallsOut(ir, {Min(fs)}))

BranchesToCalls(ir, fs) == DropEdges(ir, CallsOut(ir, fs))

\* splitFunctionOn(addr, splitOnBb) for the block at a of the function f.
SplitBlock(ir, a, f, starts) ==
  IF IsFirst(ir, a) THEN Result(ir, f, a)
  ELSE IF ~CanSplitFunctionOn(ir, f, a, starts) THEN Result(ir, NoAddr, a)
  ELSE Result(BranchesToCalls(Splice(ir, ir.fncs[f], f, starts), starts), a, a)

SplitFunctionOnBlock(ir, a) ==
  SplitBlock(ir, a, FncOf(ir, a), FncStarts(ir, FncOf(ir, a), a))

\* splitFunctionOn(addr)
SplitFunctionOn(ir, a) ==
  IF a \in Blocks(ir) \/ (a \notin DOMAIN ir.bbOf /\ InFunction(ir, a))
  THEN SplitFunctionOnBlock(
         IF a \in Blocks(ir) THEN ir ELSE CreateBlockAt(ir, a), a)
  ELSE IF a \in DOMAIN ir.bbOf THEN Result(ir, NoAddr, NoAddr)
  ELSE Result(CreateFunction(ir, a), a, NoAddr)

-----------------------------------------------------------------------------
(* Targets of calls and branches *)

FunctionResult(ir, f) == Result(ir, f, FrontOf(ir, f))

\* getOrCreateCallTarget after splitFunctionOn: a function if possible,
\* otherwise a block.
CallTargetAfterSplit(split, ir, a) ==
  IF split.fnc # NoAddr THEN FunctionResult(ir, split.fnc)
  ELSE IF a \in Blocks(ir) THEN Result(ir, NoAddr, a)
  ELSE IF InBasicBlock(ir, a) THEN Result(ir, NoAddr, NoAddr)
  ELSE IF InFunction(ir, a) THEN Result(CreateBlockAt(ir, a), NoAddr, a)
  ELSE FunctionResult(CreateFunction(ir, a), a)

GetOrCreateCallTarget(ir, a) ==
  IF a \in DOMAIN ir.fncs THEN FunctionResult(ir, a)
  ELSE CHOOSE r \in {CallTargetAfterSplit(split, split.ir, a) :
                       split \in {SplitFunctionOn(ir, a)}} : TRUE

\* The first half of getOrCreateBranchTarget: find or create the block.
BranchBlock(ir, a, fromFnc) ==
  IF a \in Blocks(ir) THEN Result(ir, NoAddr, a)
  ELSE IF InBasicBlock(ir, a)
  THEN IF a \in DOMAIN ir.bbOf /\ FncOf(ir, ir.bbOf[a]) = fromFnc
       THEN Result(MakeStart(ir, a), NoAddr, a)
       ELSE Result(ir, NoAddr, NoAddr)
  ELSE IF a \in DOMAIN ir.fncs THEN Result(ir, a, NoAddr)
  ELSE IF GetBasicBlockBeforeAddress(ir, a) # NoAddr
  THEN Result(CreateBlockAt(ir, a), NoAddr, a)
  ELSE FunctionResult(CreateFunction(ir, a), a)

\* The function a block is the first of.
WithFunction(r) ==
  IF r.bb # NoAddr /\ IsFirst(r.ir, r.bb)
  THEN Result(r.ir, FncOf(r.ir, r.bb), r.bb) ELSE r

\* The second half: a block of another function is made a function of its own
\* where that function can be split.
BranchSplit(r, split) ==
  Result(split.ir, split.fnc,
         IF split.fnc # NoAddr THEN FrontOf(split.ir, split.fnc) ELSE r.bb)

BranchTargetOf(r, a, fromFnc) ==
  IF \/ r.fnc # NoAddr
     \/ r.bb = NoAddr
     \/ FncOf(r.ir, r.bb) = fromFnc
  THEN r ELSE BranchSplit(r, SplitFunctionOn(r.ir, a))

GetOrCreateBranchTarget(ir, a, fromFnc) ==
  BranchTargetOf(WithFunction(BranchBlock(ir, a, fromFnc)), a, fromFnc)

-----------------------------------------------------------------------------
(* What is said of a module *)

\* The address b is inside of the code of a block: behind the first byte of the
\* block, before its end.
Inside(g, b) == \E z \in DOMAIN g.bbOf : g.bbOf[z] < b /\ b < g.end[z]

\* No function begins inside of the code of a block.  (One that does is the
\* result of a call into the code behind a jump that was given up: the jump has
\* left a block there, and the code is in the block before it.)
NoFunctionInside(g) ==
  \A f \in DOMAIN g.fncs : g.fncs[f] # <<>> => ~Inside(g, f)

\* The seams of the code: the branches from an instruction to the block right
\* behind it, where that one holds an instruction.  canSplitFunctionOn never
\* cuts a seam.
Seams(g) ==
  {e \in g.edges : /\ e.kind = "br" /\ g.end[e.at] = e.to
                   /\ e.to \in DOMAIN g.bbOf /\ g.bbOf[e.to] = e.to}

\* The block c begins in the code before a seam at or before b.
Hidden(g, c, b) ==
  \E e \in Seams(g) : g.bbOf[e.at] < c /\ c < e.to /\ e.to <= b

\* No conditional branch for the same instruction as e leads back, nor to a block
\* that in the module h begins in the middle of code.
LeadsForward(g, e, h) ==
  \A d \in g.edges : d.at = e.at /\ d.kind = "true" => e.at < d.to /\ ~Inside(h, d.to)
=============================================================================
