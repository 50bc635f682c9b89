------------------------------ MODULE Decoder -------------------------------
(***************************************************************************)
(* The decoder of bin2llvmir for x86 (optimizations/decoder/decoder.cpp,   *)
(* decoder_ranges.cpp, jump_targets.cpp, x86.cpp): a worklist of jump      *)
(* targets over the ranges to decode.  Each target is decoded instruction  *)
(* by instruction up to the end of its basic block; the instructions give  *)
(* new targets, blocks, functions and edges.  When the worklist is empty   *)
(* what the primary ranges still hold is decoded as leftovers.             *)
(***************************************************************************)
EXTENDS DecoderIr

CONSTANTS
  Inputs,                   \* The binaries to decode, see Init.
  SyscallMin                \* Dry run: least size of code that ends in a syscall.

\* There is data, at addresses up to a largest one; 0 stands for no address.
ASSUME ImageAssumption ==
  /\ Image \subseteq Nat \ {0}
  /\ \E top \in Image : \A a \in Image : a <= top

\* What is to be decoded has data, and every instruction has a size.
ASSUME InputAssumption ==
  \A in \in Inputs :
    /\ in.conf.primary \cup in.conf.alternative \subseteq Image
    /\ {x.addr : x \in in.conf.targets} \cup in.conf.imports \subseteq Nat
    /\ \A a \in Image : in.insn[a].sz \in Nat \ {0} /\ in.insn[a].t \in Nat

VARIABLES
  input,                    \* The binary: an element of Inputs.
  primary, alternative,     \* RangesToDecode, as the sets of their addresses.
  jumpTargets,              \* JumpTargets::_data
  jt,                       \* The target that decode() has taken.
  ir,                       \* The LLVM module, see DecoderIr.
  cur,                      \* The locals of decodeJumpTarget.
  pc                        \* Where decode() is: see the actions.

vars == <<input, primary, alternative, jumpTargets, jt, ir, cur, pc>>

\* JumpTarget::eType in the order of its declaration: a smaller type is
\* decoded earlier.
BR_FALSE == 0
BR_TRUE == 1
CALL_TARGET == 3
RETURN_TARGET == 4
ENTRY_POINT == 6
IMPORT == 8
SYMBOL == 10
LEFTOVER == 14

JumpTarget(ty, a, from, sz) ==
  [type |-> ty, addr |-> a, from |-> from, sz |-> sz]

\* JumpTarget::operator<, an undefined `from' (the largest number) is last.
Precedes(x, y) ==
  \/ x.type < y.type
  \/ x.type = y.type /\ x.addr < y.addr
  \/ x.type = y.type /\ x.addr = y.addr /\ x.from # NoAddr
       /\ (y.from = NoAddr \/ x.from < y.from)

\* top(): the first of the ordered set.
Top == CHOOSE x \in jumpTargets : \A y \in jumpTargets \ {x} : Precedes(x, y)

\* push(): _data.emplace keeps the element that is there.
Push(js, y) ==
  IF \E x \in js : x.type = y.type /\ x.addr = y.addr /\ x.from = y.from
  THEN js ELSE js \cup {y}

-----------------------------------------------------------------------------
(* Ranges *)

\* The end of the range of S that contains a.
RangeEnd(S, a) == Min({x \in {y + 1 : y \in S} : x > a /\ x \notin S})

Bytes(a, e) == a..(e - 1)

-----------------------------------------------------------------------------
(* The instructions of the input *)

Op(a) == input.insn[a].op
EndOf(a) == a + input.insn[a].sz

\* cs_disasm_iter succeeds at a with the bytes up to e.
Disassembles(a, e) == a \in Image /\ a < e /\ Op(a) # "bad" /\ EndOf(a) <= e

\* The addresses a disassembly from a visits, the last is where it stops: the
\* least set that is closed under going on to the next instruction.
Sweep(a, e) ==
  LET closed == {S \in SUBSET (a..e) : a \in S /\ \A x \in S :
                   Disassembles(x, e) => EndOf(x) \in S}
  IN  {x \in a..e : \A S \in closed : x \in S}

\* The last syscall of the sweep is an exit, or ends a long piece of code.
EndsInSyscall(a, swept, stop) ==
  \/ \E x, y \in swept : x < y /\ Op(x) = "mov1" /\ Op(y) = "int80"
  \/ /\ swept # {} /\ Op(Max(swept)) \in {"int80", "syscall"}
     /\ stop - a >= SyscallMin

\* What the dry run makes of a sweep: how many bytes to skip, 0 to go on.
SkipOfSweep(a, swept, stop, nops) ==
  IF nops > 0 THEN nops
  ELSE IF \/ \E x \in swept : Op(x) \in {"ret", "br"}
          \/ EndsInSyscall(a, swept, stop)
          \/ stop \in Blocks(ir) /\ stop \notin DOMAIN ir.fncs
  THEN 0 ELSE 1

\* The length of the nops a leftover begins with.
LeadingNops(a, visited, stop) ==
  Min({x \in visited : x = stop \/ Op(x) # "nop"}) - a

DryRunOfSweep(a, visited, stop, leftover) ==
  SkipOfSweep(a, visited \ {stop}, stop,
              IF leftover THEN LeadingNops(a, visited, stop) ELSE 0)

\* decodeJumpTargetDryRun_x86
DryRun(a, e, leftover, strict) ==
  IF strict THEN 1
  ELSE CHOOSE n \in {DryRunOfSweep(a, visited, Max(visited), leftover) :
                       visited \in {Sweep(a, e)}} : TRUE

-----------------------------------------------------------------------------
(* decode(): initRanges and initJumpTargets have run *)

NoTarget == JumpTarget(LEFTOVER, NoAddr, NoAddr, 0)

NoCur == [start |-> NoAddr, addr |-> NoAddr, end |-> NoAddr, bb |-> NoAddr]

\* Every initial target has its function; an import is a declaration.
InitIr(in) ==
  [fncs  |-> [f \in {x.addr : x \in in.conf.targets} \cup in.conf.imports |->
                IF f \in Image THEN <<f>> ELSE <<>>],
   bbOf  |-> <<>>, end |-> <<>>, edges |-> {},
   fncSz |-> LET sized == {x \in in.conf.targets : x.sz > 0}
             IN  [f \in {x.addr : x \in sized} |-> (CHOOSE x \in sized : x.addr = f).sz]]

Init ==
  /\ input \in Inputs
  /\ primary = input.conf.primary
  /\ alternative = input.conf.alternative
  /\ jumpTargets = input.conf.targets
  /\ jt = NoTarget
  /\ ir = InitIr(input)
  /\ cur = NoCur
  /\ pc = "next"

\* getJumpTarget: the top of the worklist, else the front of the leftovers.
HasNext == jumpTargets # {} \/ primary # {}

NextTarget ==
  IF jumpTargets # {} THEN Top
  ELSE JumpTarget(LEFTOVER, Min(primary), NoAddr, 0)

\* Mutated form of RemoveRange: the alternative ranges are forgotten.
RemoveRangePrimary(S) ==
  /\ primary' = primary \ S
  /\ UNCHANGED alternative

\* Mutated form of RemoveRange: the last byte is left.
RemoveRangeShort(S) ==
  /\ primary' = primary \ {x \in S : x + 1 \in S}
  /\ alternative' = alternative \ {x \in S : x + 1 \in S}

RemoveRange(S) ==
  /\ primary' = primary \ S
  /\ alternative' = alternative \ S

\* The range decodeJumpTarget finds for jt, {} for none.
FoundRange ==
  IF jt.addr \in primary THEN primary
  ELSE IF jt.type < LEFTOVER /\ jt.addr \in alternative THEN alternative
  ELSE {}

\* The start of a block after the target, or of a function when there is none.
NextStarts ==
  IF \E b \in Blocks(ir) : b > jt.addr THEN Blocks(ir) ELSE DOMAIN ir.fncs

\* The decoding up to e ends at the size of the target or at the next start.
Limit(e) ==
  Min({e} \cup {x \in (jt.addr + 1)..e : x = jt.addr + jt.sz \/ x \in NextStarts})

\* The first address decodeJumpTarget will not decode.
DecodeEnd == Limit(RangeEnd(FoundRange, jt.addr))

\* The dry run is for leftovers and for weak targets in alternative ranges.
UseAlt ==
  /\ jt.addr \notin primary
  /\ jt.type > RETURN_TARGET
  /\ jt.type # ENTRY_POINT

SkipSize(end) ==
  IF jt.type = LEFTOVER \/ UseAlt
  THEN DryRun(jt.addr, end, jt.type = LEFTOVER, input.conf.strict /\ ~UseAlt)
  ELSE 0

\* The block to decode into: the one at the address; leftovers may create one.
StartBlock ==
  IF jt.addr \in Blocks(ir) THEN Result(ir, NoAddr, jt.addr)
  ELSE IF jt.type # LEFTOVER THEN Result(ir, NoAddr, NoAddr)
  ELSE GetOrCreateCallTarget(ir, jt.addr)

\* An import without a reference to it.
BareImport == jt.from = NoAddr /\ jt.type = IMPORT

\* getJumpTarget.
GetJumpTarget ==
  /\ pc = "next" /\ HasNext
  /\ jt' = NextTarget
  /\ jumpTargets' = jumpTargets \ {NextTarget}
  /\ pc' = "decode"
  /\ UNCHANGED <<input, primary, alternative, ir, cur>>

SkipImport ==
  /\ pc = "decode" /\ BareImport
  /\ pc' = "next"
  /\ UNCHANGED <<input, primary, alternative, jumpTargets, jt, ir, cur>>

\* The target is in no range.  (A range without data is treated the same.)
SkipNoRange ==
  /\ pc = "decode" /\ ~BareImport /\ FoundRange = {}
  /\ RemoveRange({jt.addr})
  /\ pc' = "next"
  /\ UNCHANGED <<input, jumpTargets, jt, ir, cur>>

\* The dry run finds n bytes that are not worth decoding.
SkipDryRun(n) ==
  /\ n > 0
  /\ RemoveRange(Bytes(jt.addr, jt.addr + n))
  /\ pc' = "next"
  /\ UNCHANGED <<ir, cur>>

\* The loop is entered with the block of r; without a block the target is
\* dropped and the ranges stay.
Begin(end, r) ==
  /\ ir' = r.ir
  /\ cur' = IF r.bb = NoAddr THEN cur
            ELSE [start |-> jt.addr, addr |-> jt.addr, end |-> end, bb |-> r.bb]
  /\ pc' = IF r.bb = NoAddr THEN "next" ELSE "translate"
  /\ UNCHANGED <<primary, alternative>>

\* decodeJumpTarget up to its loop.
DecodeJumpTarget ==
  /\ pc = "decode" /\ ~BareImport /\ FoundRange # {}
  /\ \E end \in {DecodeEnd} : \E n \in {SkipSize(end)} :
       \/ SkipDryRun(n)
       \/ n = 0 /\ \E r \in {StartBlock} : Begin(end, r)
  /\ UNCHANGED <<input, jumpTargets, jt>>

\* No target is left.  decode() throws when no instruction was decoded.
Finish ==
  /\ pc = "next" /\ ~HasNext
  /\ pc' = IF DOMAIN ir.bbOf = {} THEN "failed" ELSE "done"
  /\ UNCHANGED <<input, primary, alternative, jumpTargets, jt, ir, cur>>

-----------------------------------------------------------------------------
(* One turn of the loop of decodeJumpTarget *)

\* The block that holds the builder's insertion point: the one of the last
\* instruction of this decoding.  (The builder itself remembers cur.bb.)
DecodedHere == {a \in DOMAIN ir.bbOf : cur.start <= a /\ a < cur.addr}

InsertBlock ==
  IF DecodedHere = {} THEN cur.bb ELSE ir.bbOf[Max(DecodedHere)]

\* Mutated form of Translated: no entry in _llvm2capstone.
TranslatedUnmapped(a) == [ir EXCEPT !.bbOf = With(@, a, InsertBlock)]

\* translateOne: the instruction is in the block and in _llvm2capstone.
Translated(a) ==
  [ir EXCEPT !.bbOf = With(@, a, InsertBlock), !.end = With(@, a, EndOf(a))]

AddEdges(g, S) == [g EXCEPT !.edges = @ \cup S]

Edge(a, t, k) == [at |-> a, to |-> t, kind |-> k]

\* pCall->getFunction(): the function that holds the instruction at a.
FncAt(g, a) == FncOf(g, g.bbOf[a])

\* Mutated form of Branchable: the first block of the function, too.
BranchableFirst(r, f) == r.bb # NoAddr /\ FncOf(r.ir, r.bb) = f

\* The block can be branched to from function f.
Branchable(r, f) == r.bb # NoAddr /\ FncOf(r.ir, r.bb) = f /\ ~IsFirst(r.ir, r.bb)

\* The effect of an instruction: the module, the new targets, the bytes that
\* are known to be data, the new end of the decoding, and whether the block ends.
Effect(g, js, e, stop) ==
  [ir |-> g, targets |-> js, data |-> {}, end |-> e, stop |-> stop]

\* The target is in the bytes that are being decoded: they end there.
Trim(next, e, t) == IF next <= t /\ t < e THEN t ELSE e

\* Mutated form of BothTargets: the fall-through is not pushed.
TrueTarget(a, t) == Push(jumpTargets, JumpTarget(BR_TRUE, t, a, 0))

\* The targets of a conditional jump: what follows is decoded first.
BothTargets(a, t) ==
  Push(Push(jumpTargets, JumpTarget(BR_TRUE, t, a, 0)),
       JumpTarget(BR_FALSE, EndOf(a), a, 0))

\* A call: to a function; or, when the function around the target cannot be
\* split, a branch to a block of the same function; otherwise it is given up.
CallTo(r, a, t) ==
  IF r.fnc # NoAddr
  THEN Effect(r.ir, Push(jumpTargets, JumpTarget(CALL_TARGET, t, a, 0)),
              Trim(EndOf(a), cur.end, t), r.fnc \in input.conf.terminating)
  ELSE IF Branchable(r, FncAt(r.ir, a))
  THEN Effect(AddEdges(r.ir, {Edge(a, r.bb, "br")}),
              Push(jumpTargets, JumpTarget(BR_TRUE, t, a, 0)), cur.end, TRUE)
  ELSE Effect(r.ir, jumpTargets, cur.end, FALSE)

CallEffect(g, a, t) ==
  IF t = NoAddr \/ (a < t /\ t <= EndOf(a))
  THEN Effect(g, jumpTargets, cur.end, FALSE)
  ELSE CallTo(GetOrCreateCallTarget(g, t), a, t)

\* A jump: a branch, or else a call of the function at the target.
BranchTo(r, a, t) ==
  Effect(IF Branchable(r, FncAt(r.ir, a))
         THEN AddEdges(r.ir, {Edge(a, r.bb, "br")}) ELSE r.ir,
         IF t \in input.conf.imports THEN jumpTargets
         ELSE Push(jumpTargets, JumpTarget(BR_TRUE, t, a, 0)),
         Trim(EndOf(a), cur.end, t), TRUE)

BranchEffect(g, a, t) ==
  IF t = NoAddr THEN Effect(g, jumpTargets, cur.end, TRUE)
  ELSE IF a < t /\ t < EndOf(a) THEN Effect(g, jumpTargets, cur.end, FALSE)
  ELSE BranchTo(GetOrCreateBranchTarget(g, t, FncAt(g, a)), a, t)

\* Mutated form of CondBranchTo: the block goes on after the branch.
CondBranchToGoesOn(r, n, a, t, f) ==
  IF \/ n.bb = NoAddr \/ FncOf(n.ir, n.bb) # f
     \/ ~Branchable(Result(n.ir, NoAddr, r.bb), f)
  THEN Effect(n.ir, jumpTargets, cur.end, FALSE)
  ELSE Effect(AddEdges(n.ir, {Edge(a, r.bb, "true"), Edge(a, n.bb, "false")}),
              BothTargets(a, t), cur.end, FALSE)

\* A conditional jump with the results r for its target and n for the next
\* instruction: a branch to two blocks, or a conditional call, or given up.
CondBranchTo(r, n, a, t, f) ==
  IF n.bb = NoAddr \/ FncOf(n.ir, n.bb) # f
  THEN Effect(n.ir, jumpTargets, cur.end, FALSE)
  ELSE IF Branchable(Result(n.ir, NoAddr, r.bb), f)
  THEN Effect(AddEdges(n.ir, {Edge(a, r.bb, "true"), Edge(a, n.bb, "false")}),
              BothTargets(a, t), cur.end, TRUE)
  ELSE IF r.fnc # NoAddr
  THEN Effect(AddEdges(n.ir, {Edge(a, n.bb, "condcall")}),
              BothTargets(a, t), cur.end, TRUE)
  ELSE Effect(n.ir, jumpTargets, cur.end, FALSE)

\* The fall-through is looked up after the target: the first look-up may have
\* split the block or the function of the jump.
CondBranchNext(r, a, t) ==
  CHOOSE x \in {CondBranchTo(r, n, a, t, FncAt(n.ir, a)) :
           n \in {GetOrCreateBranchTarget(r.ir, EndOf(a), FncAt(r.ir, a))}} : TRUE

CondBranchEffect(g, a, t) ==
  IF t = NoAddr \/ (a < t /\ t < EndOf(a))
  THEN Effect(g, jumpTargets, cur.end, FALSE)
  ELSE CondBranchNext(GetOrCreateBranchTarget(g, t, FncAt(g, a)), a, t)

\* Mutated form of LoadEffect: the range that is being decoded stays as it is.
LoadEffectNoTrim(g, a, t) ==
  [Effect(g, jumpTargets, cur.end, FALSE) EXCEPT !.data = {t}]

\* A load from a constant address: what is there is data.
LoadEffect(g, a, t) ==
  [Effect(g, jumpTargets,
          IF EndOf(a) < t THEN Trim(EndOf(a), cur.end, t) ELSE cur.end, FALSE)
     EXCEPT !.data = {t}]

\* instructionBreaksBasicBlock
HaltEffect(g, a) ==
  Effect(g, jumpTargets, cur.end, FncAt(g, a) = input.conf.entry)

\* The instruction before a is the one that sets up exit().
IsExit(prev) == prev # NoAddr /\ Op(prev) = "mov1"

SyscallEffect(g, a) ==
  Effect(g, jumpTargets, cur.end, IsExit(PrevAsmInsn(g, a)))

InsnEffect(g, a, t) ==
  CASE Op(a) = "call"  -> CallEffect(g, a, t)
    [] Op(a) = "ret"   -> Effect(g, jumpTargets, cur.end, TRUE)
    [] Op(a) = "br"    -> BranchEffect(g, a, t)
    [] Op(a) = "cond"  -> CondBranchEffect(g, a, t)
    [] Op(a) = "load"  -> LoadEffect(g, a, t)
    [] Op(a) = "hlt"   -> HaltEffect(g, a)
    [] Op(a) = "int80" -> SyscallEffect(g, a)
    [] OTHER           -> Effect(g, jumpTargets, cur.end, FALSE)

\* translateOne succeeds: a block that goes on keeps its ranges for the end.
Translate ==
  /\ pc = "translate" /\ Disassembles(cur.addr, cur.end)
  /\ \E x \in {InsnEffect(Translated(cur.addr), cur.addr, input.insn[cur.addr].t)} :
       /\ ir' = x.ir
       /\ jumpTargets' = x.targets
       /\ cur' = [start |-> cur.start, addr |-> EndOf(cur.addr), end |-> x.end,
                  bb |-> cur.bb]
       /\ pc' = IF x.stop THEN "next" ELSE "translate"
       /\ RemoveRange(x.data \cup
            (IF x.stop THEN Bytes(cur.start, EndOf(cur.addr)) ELSE {}))
  /\ UNCHANGED <<input, jt>>

\* Mutated form of TranslateFails: a target at which nothing is translated
\* leaves its byte in the ranges.
TranslateFailsKeep ==
  /\ pc = "translate" /\ ~Disassembles(cur.addr, cur.end)
  /\ RemoveRange(Bytes(cur.start, cur.addr))
  /\ pc' = "next"
  /\ UNCHANGED <<input, jumpTargets, jt, ir, cur>>

\* translateOne fails: the decoding ends, with a branch to the block that was
\* reached when it is another block of the same function.
TranslateFails ==
  /\ pc = "translate" /\ ~Disassembles(cur.addr, cur.end)
  /\ ir' = IF /\ cur.addr \in Blocks(ir) /\ cur.addr # cur.bb
              /\ FncOf(ir, cur.addr) = FncOf(ir, cur.bb)
           THEN AddEdges(ir, {Edge(Max(DecodedHere), cur.addr, "br")}) ELSE ir
  /\ RemoveRange(Bytes(cur.start,
                       IF cur.addr > cur.start THEN cur.addr ELSE cur.start + 1))
  /\ pc' = "next"
  /\ UNCHANGED <<input, jumpTargets, jt, cur>>

\* decode() has returned or thrown.
Stopped == pc \in {"done", "failed"} /\ UNCHANGED vars

Next ==
  \/ GetJumpTarget
  \/ SkipImport
  \/ SkipNoRange
  \/ DecodeJumpTarget
  \/ Translate
  \/ TranslateFails
  \/ Finish
  \/ Stopped

\* The decoder is one thread that never waits: it takes a step whenever one is
\* possible.  This is WF_vars(Next): every step but Stopped changes pc or cur.
Running == pc \in {"next", "decode", "translate"}

Fairness == []<>(~Running) \/ []<><<TRUE>>_vars

Spec == Init /\ [][Next]_vars /\ Fairness

-----------------------------------------------------------------------------
(* Ranges and instructions *)

BytesOf(a) == Bytes(a, ir.end[a])

\* Instructions are where there is data, and each has its block and its entry
\* in _llvm2capstone.
TypeOK ==
  /\ primary \subseteq Image /\ alternative \subseteq Image
  /\ pc \in {"next", "decode", "translate", "done", "failed"}
  /\ DOMAIN ir.bbOf = DOMAIN ir.end
  /\ DOMAIN ir.end \subseteq Image
  /\ \A a \in DOMAIN ir.end : ir.end[a] \in Nat /\ a < ir.end[a]

\* No byte is part of two instructions, nor about to be, whatever the targets
\* into the middle of instructions and the sizes of symbols: the decoding of a
\* target is limited by its range, and what was decoded is in no range any more.
NoByteDecodedTwice ==
  /\ \A a, b \in DOMAIN ir.end : a < b => ir.end[a] <= b
  /\ pc = "translate" => \A a \in DOMAIN ir.end :
       BytesOf(a) \cap Bytes(cur.addr, cur.end) = {}

\* Between two targets, no byte of an instruction is left in the primary or the
\* alternative ranges, so no leftover starts inside of decoded code.
DecodedLeavesRanges ==
  pc = "next" => \A a \in DOMAIN ir.end :
     BytesOf(a) \cap (primary \cup alternative) = {}

\* A load from a constant address marks what it loads as data.
LoadedBytes ==
  {input.insn[a].t : a \in {x \in DOMAIN ir.end : Op(x) = "load"}}

\* "Skip ranges from which there are loads": what a decoded instruction loads
\* stays data, whether it is in the range that is being decoded, in another one,
\* or a target that is still in the worklist; except for data right behind the
\* load, up to which the range is not trimmed.
LoadedDataStaysData ==
  [][\A x \in DOMAIN ir.end :
       Op(x) = "load" /\ input.insn[x].t # ir.end[x] =>
         \A a \in DOMAIN ir'.end \ DOMAIN ir.end :
           input.insn[x].t \notin Bytes(a, ir'.end[a])]_vars

\* decode() ends: every target takes something from the worklist or from the
\* ranges, also one that cannot be translated at all and one without a block.
Termination == <>(pc \in {"done", "failed"})

-----------------------------------------------------------------------------
(* Functions, blocks and branches *)

\* However often functions are split, they share no block, list none twice, and
\* each begins with the block at its own address (_addr2fnc and _addr2bb agree);
\* instructions and branches are in blocks of the module.
FunctionsOwnBlocks ==
  /\ \A f \in DOMAIN ir.fncs :
       /\ Cardinality(ToSet(ir.fncs[f])) = Len(ir.fncs[f])
       /\ ir.fncs[f] # <<>> => Head(ir.fncs[f]) = f
       /\ \A g \in DOMAIN ir.fncs \ {f} :
            ToSet(ir.fncs[f]) \cap ToSet(ir.fncs[g]) = {}
  /\ \A a \in DOMAIN ir.bbOf : ir.bbOf[a] \in Blocks(ir)
  /\ \A e \in ir.edges : e.at \in DOMAIN ir.bbOf /\ e.to \in Blocks(ir)

\* The assertion at the end of splitFunctionOn: no branch leaves its function.
SuccessorsInFunction ==
  \A e \in ir.edges : FncAt(ir, e.at) = FncOf(ir, e.to)

\* No branch leaves its function, as long as no function begins inside of code:
\* splitFunctionOn replaces by a call only the branches whose first successor
\* moved, so canSplitFunctionOn has to see to the others.
EdgesInFunction == NoFunctionInside(ir) => SuccessorsInFunction

\* As long, no branch leads to the entry block of a function (LLVM forbids it):
\* not when it is generated, nor after its target became the first block by a
\* split.
EntryHasNoPredecessor ==
  NoFunctionInside(ir) => \A e \in ir.edges : ~IsFirst(ir, e.to)

\* A block ends in one branch: no second branch is added to a block when its
\* decoding ends at another block or when it is split later.
OneTerminator ==
  \A e, d \in ir.edges : e # d /\ ir.bbOf[e.at] = ir.bbOf[d.at] =>
     e.at = d.at /\ {e.kind, d.kind} = {"true", "false"}

\* canSplitFunctionOn compares addresses, splitFunctionOn moves what comes
\* behind in the block list: the blocks of a function are in the order of their
\* addresses, but for those that begin inside of the code of others (a jump into
\* an instruction, or one that was given up), as long as no split has started at
\* one of those.
BlocksInOrder ==
  NoFunctionInside(ir) =>
    \A f \in DOMAIN ir.fncs : \A i, j \in 1..Len(ir.fncs[f]) :
      i < j /\ ir.fncs[f][j] < ir.fncs[f][i] =>
        Hidden(ir, ir.fncs[f][j], ir.fncs[f][i])

\* As long as no function begins inside of code, a conditional branch keeps its
\* fall-through, whatever is split before or behind it: splitFunctionOn turns a
\* branch to a function into a call and a return, which would lose the other
\* successor of a conditional one; canSplitFunctionOn has to see to it that none is
\* met.  That holds of the forward branches, but for those to a block in the middle
\* of code, which a split moves with what comes before it in the block list.
FallThroughKept ==
  [][NoFunctionInside(ir') =>
       \A e \in ir.edges : e.kind = "false" /\ LeadsForward(ir, e, ir') =>
         e \in ir'.edges]_vars

-----------------------------------------------------------------------------
(* What does not survive a branch that was given up *)

\* The decoder has gone on after the call or conditional jump at a as if it had
\* no target t, though it had created blocks for it.
GivenUp(a, t) ==
  /\ Op(a) \in {"call", "cond"} /\ t \notin a..EndOf(a) \cup {NoAddr}
  /\ \A e \in ir.edges : e.at = a => e.to # t /\ e.kind # "condcall"
  /\ Op(a) = "call" => t \notin DOMAIN ir.fncs

NoneGivenUp == \A a \in DOMAIN ir.end : ~GivenUp(a, input.insn[a].t)

\* getBasicBlockContainingAddress, as its comment has it: the block that
\* contains the address.  The code looks for the last block that starts at or
\* before the address, and finds a block without instructions when a jump that
\* was given up has left one where the decoding went on in the block before.
ContainingBlockHolds ==
  \A a \in DOMAIN ir.bbOf :
    InBasicBlock(ir, a) => GetBasicBlockBeforeAddress(ir, a) = ir.bbOf[a]

\* No block begins in the middle of an instruction.
NoneInside ==
  \A a \in DOMAIN ir.end : Blocks(ir) \cap Bytes(a + 1, ir.end[a]) = {}

\* As long as no jump was given up nor led into an instruction, the look-up by
\* address and the block lists agree: every instruction is in the block that the
\* look-up finds for it, and the blocks of a function are in the order of their
\* addresses.
LookupsAgree ==
  NoneGivenUp /\ NoneInside =>
    /\ ContainingBlockHolds
    /\ \A f \in DOMAIN ir.fncs : \A i \in 1..(Len(ir.fncs[f]) - 1) :
         ir.fncs[f][i] < ir.fncs[f][i + 1]

\* An instruction at a could still be decoded: its bytes are code, part of no
\* other instruction, not known to be data, and no block starts inside of it.
Decodable(a) ==
  /\ a \in Image /\ Op(a) # "bad"
  /\ Bytes(a, EndOf(a)) \subseteq
       input.conf.primary \ (LoadedBytes \cup UNION {BytesOf(x) : x \in DOMAIN ir.end})
  /\ Blocks(ir) \cap Bytes(a + 1, EndOf(a)) = {}

\* As long as no jump was given up, no target of a branch is lost between the
\* worklist, the dry runs and the ranges: what leaves the ranges with a branch to
\* it has been decoded, unless there is no instruction to decode.  (A branch to
\* bytes that a dry run skipped before comes too late.)
TargetsDecoded ==
  [][NoneGivenUp => \A e \in ir.edges :
       e.to \in primary \ primary' => ~Decodable(e.to)']_vars
=============================================================================
