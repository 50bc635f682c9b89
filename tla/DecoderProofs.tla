--------------------------- MODULE DecoderProofs ----------------------------
(***************************************************************************)
(* What the decoder does to the ranges and to the bytes of the image, and  *)
(* to the functions, blocks and branches of the module, for every image    *)
(* and every set of inputs.                                                *)
(***************************************************************************)
EXTENDS Decoder, DecoderIrProofs

-----------------------------------------------------------------------------
(* Ends of ranges *)

\* From an address in S up to its RangeEnd there is no gap: what the decoder
\* takes for a range is one.
LEMMA RangeEndBoundsRun ==
  ASSUME NEW S \in SUBSET Image, NEW a \in S
  PROVE  /\ RangeEnd(S, a) \in Nat
         /\ a < RangeEnd(S, a)
         /\ \A x \in a..(RangeEnd(S, a) - 1) : x \in S
<1> DEFINE Gaps == {x \in Nat : x > a /\ x \notin S}
           Ends == {x \in {y + 1 : y \in S} : x > a /\ x \notin S}
<1>1. S \in SUBSET Nat
  BY ImageAssumption
<1>2. Gaps # {}
  <2>1. PICK top \in Image : \A x \in Image : x <= top
    BY ImageAssumption
  <2>2. top + 1 \in Gaps
    BY <1>1, <2>1, ImageAssumption
  <2> QED
    BY <2>2
<1>3. PICK g \in Gaps : \A x \in Gaps : g <= x
  BY <1>2, MinOfNats
<1>4. \A x \in a..(g - 1) : x \in S
  BY <1>1, <1>3
<1>5. g \in Ends
  <2>1. g - 1 \in S /\ g = (g - 1) + 1
    BY <1>1, <1>3, <1>4
  <2> QED
    BY <2>1, <1>3
<1>6. Ends \in SUBSET Nat
  BY <1>1
<1>7. RangeEnd(S, a) = Min(Ends)
  BY DEF RangeEnd
<1>8. Min(Ends) \in Ends /\ Min(Ends) <= g
  BY <1>5, <1>6, MinOfNats
<1> HIDE DEF Ends
<1>9. Min(Ends) \in Nat /\ a < Min(Ends)
  BY <1>6, <1>8 DEF Ends
<1> QED
  BY <1>1, <1>4, <1>7, <1>8, <1>9

-----------------------------------------------------------------------------
(* The operations on the module leave the instructions alone *)

\* The module h has the instructions of the module g.
SameInsns(g, h) ==
  /\ {"end", "bbOf"} \subseteq DOMAIN g
  /\ {"end", "bbOf"} \subseteq DOMAIN h
  /\ h.end = g.end
  /\ DOMAIN h.bbOf = DOMAIN g.bbOf

\* SameInsns is transitive: operations can be chained.
LEMMA SameInsnsTrans ==
  ASSUME NEW f, NEW g, NEW h, SameInsns(f, g), SameInsns(g, h)
  PROVE  SameInsns(f, h)
BY DEF SameInsns

\* Creating a block, a function or a branch touches no instruction.
LEMMA CreatingKeepsInsns ==
  ASSUME NEW g, SameInsns(g, g), NEW a, NEW b, NEW S
  PROVE  /\ SameInsns(g, CreateBasicBlock(g, a, b))
         /\ SameInsns(g, CreateBlockAt(g, a))
         /\ SameInsns(g, CreateFunction(g, a))
         /\ SameInsns(g, AddEdges(g, S))
<1>1. \A x, y : SameInsns(g, CreateBasicBlock(g, x, y))
  BY DEF SameInsns, CreateBasicBlock
<1>2. SameInsns(g, CreateBlockAt(g, a))
  BY <1>1 DEF CreateBlockAt
<1>3. SameInsns(g, CreateFunction(g, a))
  BY DEF SameInsns, CreateFunction
<1>4. SameInsns(g, AddEdges(g, S))
  BY DEF SameInsns, AddEdges
<1> QED
  BY <1>1, <1>2, <1>3, <1>4

\* makeStart moves instructions to another block and loses none.
LEMMA MakeStartKeepsInsns ==
  ASSUME NEW g, SameInsns(g, g), NEW a
  PROVE  SameInsns(g, MakeStart(g, a))
<1>1. SameInsns(g, CreateBasicBlock(g, a, g.bbOf[a]))
  BY CreatingKeepsInsns
<1> QED
  BY <1>1 DEF MakeStart, SameInsns

\* Splitting a function moves blocks and drops branches.
LEMMA SplittingKeepsInsns ==
  ASSUME NEW g, SameInsns(g, g), NEW a
  PROVE  SameInsns(g, SplitFunctionOn(g, a).ir)
<1>1. ASSUME NEW h, SameInsns(h, h), NEW s, NEW f, NEW starts
      PROVE  SameInsns(h, BranchesToCalls(Splice(h, s, f, starts), starts))
  <2>1. SameInsns(h, Splice(h, s, f, starts))
    BY <1>1 DEF Splice, SameInsns
  <2> QED
    BY <2>1 DEF BranchesToCalls, DropEdges, SameInsns
<1>2. ASSUME NEW h, SameInsns(h, h), NEW f, NEW starts
      PROVE  SameInsns(h, SplitBlock(h, a, f, starts).ir)
  BY <1>1, <1>2 DEF SplitBlock, Result
<1>3. ASSUME NEW h, SameInsns(h, h)
      PROVE  SameInsns(h, SplitFunctionOnBlock(h, a).ir)
  BY <1>2, <1>3 DEF SplitFunctionOnBlock
<1>4. SameInsns(g, CreateBlockAt(g, a)) /\ SameInsns(g, CreateFunction(g, a))
  BY CreatingKeepsInsns
<1>5. SameInsns(CreateBlockAt(g, a), SplitFunctionOnBlock(CreateBlockAt(g, a), a).ir)
  BY <1>3, <1>4 DEF SameInsns
<1>6. SameInsns(g, SplitFunctionOnBlock(CreateBlockAt(g, a), a).ir)
  BY <1>4, <1>5, SameInsnsTrans
<1> QED
  BY <1>3, <1>4, <1>6 DEF SplitFunctionOn, Result

\* Finding or creating the target of a call touches no instruction.
LEMMA CallTargetKeepsInsns ==
  ASSUME NEW g, SameInsns(g, g), NEW a
  PROVE  SameInsns(g, GetOrCreateCallTarget(g, a).ir)
<1> DEFINE split == SplitFunctionOn(g, a)
<1>1. SameInsns(g, split.ir)
  BY SplittingKeepsInsns
<1>2. SameInsns(split.ir, split.ir)
  BY <1>1 DEF SameInsns
<1>3. /\ SameInsns(g, CreateBlockAt(split.ir, a))
      /\ SameInsns(g, CreateFunction(split.ir, a))
  BY <1>1, <1>2, CreatingKeepsInsns, SameInsnsTrans
<1>4. SameInsns(g, CallTargetAfterSplit(split, split.ir, a).ir)
  BY <1>1, <1>3 DEF CallTargetAfterSplit, FunctionResult, Result
<1>5. (CHOOSE r \in {CallTargetAfterSplit(x, x.ir, a) : x \in {split}} : TRUE)
        = CallTargetAfterSplit(split, split.ir, a)
  OBVIOUS
<1> QED
  BY <1>4, <1>5 DEF GetOrCreateCallTarget, FunctionResult, Result

\* Finding or creating the target of a branch touches no instruction.
LEMMA BranchTargetKeepsInsns ==
  ASSUME NEW g, SameInsns(g, g), NEW a, NEW f
  PROVE  SameInsns(g, GetOrCreateBranchTarget(g, a, f).ir)
<1> DEFINE block == BranchBlock(g, a, f)
           r     == WithFunction(block)
<1>1. SameInsns(g, block.ir)
  BY CreatingKeepsInsns, MakeStartKeepsInsns
  DEF BranchBlock, FunctionResult, Result
<1>2. r.ir = block.ir
  BY DEF WithFunction, Result
<1>3. SameInsns(g, SplitFunctionOn(r.ir, a).ir)
  <2>1. SameInsns(r.ir, r.ir)
    BY <1>1, <1>2 DEF SameInsns
  <2>2. SameInsns(r.ir, SplitFunctionOn(r.ir, a).ir)
    BY <2>1, SplittingKeepsInsns
  <2> QED
    BY <1>1, <1>2, <2>2, SameInsnsTrans
<1>4. SameInsns(g, BranchTargetOf(r, a, f).ir)
  BY <1>1, <1>2, <1>3 DEF BranchTargetOf, BranchSplit, Result
<1> QED
  BY <1>4 DEF GetOrCreateBranchTarget

\* The effect x of an instruction with the end address `next', on the module g:
\* no other instruction appears, and the decoding may only end earlier.
Confined(x, g, next) ==
  /\ SameInsns(g, x.ir)
  /\ x.end \in Nat /\ next <= x.end /\ x.end <= cur.end

\* Every instruction has a confined effect, whatever it does to the blocks, the
\* functions and the worklist.
LEMMA EffectsAreConfined ==
  ASSUME NEW g, SameInsns(g, g), NEW a, NEW t \in Nat,
         EndOf(a) \in Nat, cur.end \in Nat, EndOf(a) <= cur.end
  PROVE  Confined(InsnEffect(g, a, t), g, EndOf(a))
<1>1. ASSUME NEW h, SameInsns(g, h), NEW js, NEW stop
      PROVE  /\ Confined(Effect(h, js, cur.end, stop), g, EndOf(a))
             /\ Confined(Effect(h, js, Trim(EndOf(a), cur.end, t), stop), g, EndOf(a))
  BY <1>1 DEF Effect, Trim, Confined
<1>2. ASSUME NEW h, SameInsns(g, h), NEW S
      PROVE  SameInsns(g, AddEdges(h, S))
  <2>1. SameInsns(h, h)
    BY <1>2 DEF SameInsns
  <2> QED
    BY <1>2, <2>1, CreatingKeepsInsns, SameInsnsTrans
<1>3. Confined(CallEffect(g, a, t), g, EndOf(a))
  <2> DEFINE r == GetOrCreateCallTarget(g, t)
  <2>1. SameInsns(g, r.ir)
    BY CallTargetKeepsInsns
  <2> HIDE DEF r
  <2>2. Confined(CallTo(r, a, t), g, EndOf(a))
    BY <1>1, <1>2, <2>1 DEF CallTo
  <2> QED
    BY <1>1, <2>2 DEF CallEffect, r
<1>4. Confined(BranchEffect(g, a, t), g, EndOf(a))
  <2> DEFINE r == GetOrCreateBranchTarget(g, t, FncAt(g, a))
  <2>1. SameInsns(g, r.ir)
    BY BranchTargetKeepsInsns
  <2> HIDE DEF r
  <2>2. Confined(BranchTo(r, a, t), g, EndOf(a))
    BY <1>1, <1>2, <2>1 DEF BranchTo
  <2> QED
    BY <1>1, <2>2 DEF BranchEffect, r
<1>5. Confined(CondBranchEffect(g, a, t), g, EndOf(a))
  <2> DEFINE r == GetOrCreateBranchTarget(g, t, FncAt(g, a))
             n == GetOrCreateBranchTarget(r.ir, EndOf(a), FncAt(r.ir, a))
  <2>1. SameInsns(g, r.ir)
    BY BranchTargetKeepsInsns
  <2> HIDE DEF r
  <2>2. SameInsns(g, n.ir)
    <3>1. SameInsns(r.ir, r.ir)
      BY <2>1 DEF SameInsns
    <3> QED
      BY <2>1, <3>1, BranchTargetKeepsInsns, SameInsnsTrans
  <2>3. CondBranchNext(r, a, t) = CondBranchTo(r, n, a, t, FncAt(n.ir, a))
    BY DEF CondBranchNext
  <2> HIDE DEF n
  <2>4. Confined(CondBranchTo(r, n, a, t, FncAt(n.ir, a)), g, EndOf(a))
    BY <1>1, <1>2, <2>2 DEF CondBranchTo
  <2> QED
    BY <1>1, <2>3, <2>4 DEF CondBranchEffect, r
<1>6. Confined(LoadEffect(g, a, t), g, EndOf(a))
  BY DEF LoadEffect, Effect, Trim, Confined
<1>7. /\ Confined(HaltEffect(g, a), g, EndOf(a))
      /\ Confined(SyscallEffect(g, a), g, EndOf(a))
  BY <1>1 DEF HaltEffect, SyscallEffect
<1> QED
  BY <1>1, <1>3, <1>4, <1>5, <1>6, <1>7 DEF InsnEffect

-----------------------------------------------------------------------------
(* The inductive invariant *)

Ranges == primary \cup alternative

\* The bounds of the decoding that is under way.
CurOK ==
  /\ cur.start \in Nat /\ cur.addr \in Nat /\ cur.end \in Nat
  /\ cur.start <= cur.addr /\ cur.addr <= cur.end

\* The instruction at a was decoded for the target that is being decoded ...
Own(a) == cur.start <= a /\ ir.end[a] <= cur.addr

\* ... or before, and then the target keeps clear of it.
Apart(a) ==
  /\ BytesOf(a) \cap Ranges = {}
  /\ BytesOf(a) \cap Bytes(cur.start, cur.end) = {}

\* NoByteDecodedTwice and DecodedLeavesRanges are not inductive: while a target
\* is decoded its instructions are still in the ranges, and only the bounds of
\* the decoding keep it off the others.
IInv ==
  /\ input \in Inputs
  /\ TypeOK
  /\ SameInsns(ir, ir)
  /\ \A a, b \in DOMAIN ir.end : a < b => ir.end[a] <= b
  /\ pc = "translate" => CurOK /\ \A a \in DOMAIN ir.end : Own(a) \/ Apart(a)
  /\ pc # "translate" => \A a \in DOMAIN ir.end : BytesOf(a) \cap Ranges = {}

\* The decoding of a target stays in the range that was found for it.
LEMMA DecodeEndInRange ==
  ASSUME TypeOK, FoundRange # {}
  PROVE  /\ jt.addr \in Nat /\ DecodeEnd \in Nat /\ jt.addr < DecodeEnd
         /\ Bytes(jt.addr, DecodeEnd) \subseteq Ranges
<1> DEFINE e == RangeEnd(FoundRange, jt.addr)
           bounds == {x \in (jt.addr + 1)..e : x = jt.addr + jt.sz \/ x \in NextStarts}
<1>1. /\ FoundRange \in SUBSET Image /\ jt.addr \in FoundRange
      /\ FoundRange \subseteq Ranges
  BY DEF FoundRange, TypeOK, Ranges
<1>2. jt.addr \in Nat
  BY <1>1, ImageAssumption
<1>3. e \in Nat /\ jt.addr < e /\ \A x \in jt.addr..(e - 1) : x \in FoundRange
  BY <1>1, RangeEndBoundsRun
<1> HIDE DEF e
<1>4. {e} \cup bounds \in SUBSET Nat /\ \A x \in {e} \cup bounds : jt.addr < x
  BY <1>2, <1>3
<1>5. DecodeEnd = Min({e} \cup bounds)
  BY DEF DecodeEnd, Limit, e
<1> HIDE DEF bounds
<1>6. /\ DecodeEnd \in {e} \cup bounds
      /\ \A x \in {e} \cup bounds : DecodeEnd <= x
  BY <1>4, <1>5, MinOfNats
<1> QED
  BY <1>1, <1>2, <1>3, <1>4, <1>6 DEF Bytes

\* The invariant holds before anything is decoded.
LEMMA InitInvariant == Init => IInv
<1> SUFFICES ASSUME Init PROVE IInv
  OBVIOUS
<1>1. /\ SameInsns(ir, ir)
      /\ DOMAIN ir.end = {} /\ DOMAIN ir.bbOf = {}
  BY DEF Init, InitIr, SameInsns
<1> QED
  BY <1>1, InputAssumption DEF Init, IInv, TypeOK

\* Any step that keeps the instructions and takes bytes from the ranges, while
\* no target is decoded, preserves the invariant.
LEMMA SkippingInvariant ==
  ASSUME IInv, pc # "translate", pc' # "translate", input' = input,
         SameInsns(ir, ir'), primary' \subseteq primary,
         alternative' \subseteq alternative,
         pc' \in {"next", "decode", "done", "failed"}
  PROVE  IInv'
<1>1. /\ ir'.end = ir.end /\ DOMAIN ir'.bbOf = DOMAIN ir.bbOf
      /\ SameInsns(ir', ir')
  BY DEF SameInsns
<1>2. TypeOK'
  BY <1>1 DEF IInv, TypeOK
<1>3. \A a \in DOMAIN ir'.end : (BytesOf(a) \cap Ranges)' = {}
  BY <1>1 DEF IInv, BytesOf, Ranges
<1> QED
  BY <1>1, <1>2, <1>3 DEF IInv

\* Entering the loop of decodeJumpTarget: the target is free of instructions.
LEMMA BeginInvariant ==
  ASSUME IInv, pc = "decode", FoundRange # {}, input' = input,
         Begin(DecodeEnd, StartBlock)
  PROVE  IInv'
<1>1. SameInsns(ir, StartBlock.ir)
  BY CallTargetKeepsInsns DEF IInv, StartBlock, Result
<1>2. /\ SameInsns(ir, ir') /\ SameInsns(ir', ir')
      /\ ir'.end = ir.end /\ DOMAIN ir'.bbOf = DOMAIN ir.bbOf
      /\ primary' = primary /\ alternative' = alternative
      /\ pc' \in {"next", "translate"}
  BY <1>1 DEF Begin, SameInsns
<1>3. CASE pc' = "next"
  BY <1>2, <1>3, SkippingInvariant
<1>4. CASE pc' = "translate"
  <2>1. /\ cur'.start = jt.addr /\ cur'.addr = jt.addr /\ cur'.end = DecodeEnd
    BY <1>4 DEF Begin
  <2>2. /\ jt.addr \in Nat /\ DecodeEnd \in Nat /\ jt.addr < DecodeEnd
        /\ Bytes(jt.addr, DecodeEnd) \subseteq Ranges
    BY DecodeEndInRange DEF IInv
  <2>3. CurOK'
    BY <2>1, <2>2 DEF CurOK
  <2>4. \A a \in DOMAIN ir'.end : Apart(a)'
    BY <1>2, <2>1, <2>2 DEF IInv, Apart, BytesOf, Ranges
  <2>5. TypeOK'
    BY <1>2, <1>4 DEF IInv, TypeOK
  <2> QED
    BY <1>2, <1>4, <2>3, <2>4, <2>5 DEF IInv
<1> QED
  BY <1>2, <1>3, <1>4

\* The bytes of the instruction that is translated are in the decoding and part
\* of no other instruction.
LEMMA TranslatesFreeBytes ==
  ASSUME IInv, Translate, NEW a, a = cur.addr, NEW next, next = EndOf(a)
  PROVE  /\ a \in Image /\ a < cur.end /\ next \in Nat /\ a < next /\ next <= cur.end
         /\ input.insn[a].t \in Nat /\ CurOK /\ a \in Nat
         /\ \A b \in DOMAIN ir.end :
              /\ b \in Nat /\ ir.end[b] \in Nat /\ b < ir.end[b]
              /\ ir.end[b] <= a \/ next <= b
<1>1. /\ a \in Image /\ a < cur.end /\ next \in Nat /\ a < next /\ next <= cur.end
      /\ input.insn[a].t \in Nat /\ CurOK /\ a \in Nat
  <2>1. Disassembles(a, cur.end) /\ CurOK /\ input \in Inputs
    BY DEF IInv, Translate
  <2>2. a \in Image /\ a < cur.end /\ next <= cur.end
    BY <2>1 DEF Disassembles
  <2>3. a \in Nat /\ input.insn[a].sz \in Nat \ {0} /\ input.insn[a].t \in Nat
    BY <2>1, <2>2, InputAssumption, ImageAssumption
  <2>4. next \in Nat /\ a < next
    BY <2>3 DEF EndOf
  <2> QED
    BY <2>1, <2>2, <2>3, <2>4
<1>2. \A b \in DOMAIN ir.end : Own(b) \/ Apart(b)
  BY DEF IInv, Translate
<1>3. \A b \in DOMAIN ir.end :
        /\ b \in Nat /\ ir.end[b] \in Nat /\ b < ir.end[b]
        /\ ir.end[b] <= a \/ next <= b
  <2> SUFFICES ASSUME NEW b \in DOMAIN ir.end
               PROVE  /\ b \in Nat /\ ir.end[b] \in Nat /\ b < ir.end[b]
                      /\ ir.end[b] <= a \/ next <= b
    OBVIOUS
  <2>1. b \in Nat /\ ir.end[b] \in Nat /\ b < ir.end[b]
    BY ImageAssumption DEF IInv, TypeOK
  <2>2. CASE Own(b)
    BY <2>1, <2>2 DEF Own
  <2>3. CASE Apart(b)
    <3>1. \A y \in b..(ir.end[b] - 1) : y \notin cur.start..(cur.end - 1)
      BY <2>3 DEF Apart, BytesOf, Bytes
    <3>2. a \notin b..(ir.end[b] - 1) /\ b \notin cur.start..(cur.end - 1)
      BY <1>1, <2>1, <3>1 DEF CurOK
    <3> QED
      BY <1>1, <2>1, <3>2 DEF CurOK
  <2> QED
    BY <1>2, <2>1, <2>2, <2>3
<1> QED
  BY <1>1, <1>3

\* The step adds the instruction at a, that ends at next, to the module.
AddsInsn(a, next) ==
  /\ SameInsns(ir', ir') /\ DOMAIN ir'.bbOf = DOMAIN ir.bbOf \cup {a}
  /\ DOMAIN ir'.end = DOMAIN ir.end \cup {a} /\ ir'.end[a] = next
  /\ \A b \in DOMAIN ir.end \ {a} : ir'.end[b] = ir.end[b]

\* The step has the effect x of an instruction that ends at next.
TakesEffect(x, next) ==
  /\ ir' = x.ir /\ input' = input
  /\ cur' = [start |-> cur.start, addr |-> next, end |-> x.end, bb |-> cur.bb]
  /\ pc' = IF x.stop THEN "next" ELSE "translate"
  /\ RemoveRange(x.data \cup (IF x.stop THEN Bytes(cur.start, next) ELSE {}))
  /\ x.end \in Nat /\ next <= x.end /\ x.end <= cur.end

\* What a turn of the loop does, with the effect x of the instruction at a.
LEMMA TranslateStep ==
  ASSUME IInv, Translate, NEW a, a = cur.addr, NEW next, next = EndOf(a),
         NEW x, x = InsnEffect(Translated(a), a, input.insn[a].t)
  PROVE  TakesEffect(x, next) /\ AddsInsn(a, next)
<1>1. /\ a \in Image /\ a < cur.end /\ next \in Nat /\ a < next /\ next <= cur.end
      /\ input.insn[a].t \in Nat /\ CurOK /\ a \in Nat
  BY TranslatesFreeBytes
<1>2. PICK g : g = Translated(a)
  OBVIOUS
<1>3. /\ SameInsns(g, g) /\ g.end = With(ir.end, a, next)
      /\ DOMAIN g.bbOf = DOMAIN ir.bbOf \cup {a}
  BY <1>2 DEF IInv, SameInsns, Translated, With
<1>4. Confined(x, g, next)
  BY <1>1, <1>2, <1>3, EffectsAreConfined DEF CurOK
<1>5. /\ ir' = x.ir /\ input' = input
      /\ cur' = [start |-> cur.start, addr |-> next, end |-> x.end, bb |-> cur.bb]
      /\ pc' = IF x.stop THEN "next" ELSE "translate"
      /\ RemoveRange(x.data \cup (IF x.stop THEN Bytes(cur.start, next) ELSE {}))
  <2> DEFINE y == InsnEffect(Translated(cur.addr), cur.addr, input.insn[cur.addr].t)
  <2>1. x = y
    OBVIOUS
  <2> HIDE DEF y
  <2>2. /\ ir' = y.ir /\ input' = input
        /\ cur' = [start |-> cur.start, addr |-> EndOf(cur.addr), end |-> y.end, bb |-> cur.bb]
        /\ pc' = IF y.stop THEN "next" ELSE "translate"
        /\ RemoveRange(y.data \cup
             (IF y.stop THEN Bytes(cur.start, EndOf(cur.addr)) ELSE {}))
    BY DEF Translate, y
  <2>3. EndOf(cur.addr) = next
    OBVIOUS
  <2> QED
    BY <2>1, <2>2, <2>3, Zenon
<1>6. /\ SameInsns(ir', ir') /\ ir'.end = With(ir.end, a, next)
      /\ DOMAIN ir'.bbOf = DOMAIN ir.bbOf \cup {a}
  BY <1>3, <1>4, <1>5 DEF Confined, SameInsns
<1>7. /\ DOMAIN ir'.end = DOMAIN ir.end \cup {a} /\ ir'.end[a] = next
      /\ \A b \in DOMAIN ir.end \ {a} : ir'.end[b] = ir.end[b]
  BY <1>6 DEF With
<1> QED
  BY <1>4, <1>5, <1>6, <1>7 DEF Confined, TakesEffect, AddsInsn

\* One turn of the loop: the new instruction is clear of all others, and when
\* the block ends all that was decoded for the target leaves the ranges.
LEMMA TranslateInvariant == IInv /\ Translate => IInv'
<1> SUFFICES ASSUME IInv, Translate PROVE IInv'
  OBVIOUS
<1>a. PICK a : a = cur.addr
  OBVIOUS
<1>n. PICK next : next = EndOf(a)
  OBVIOUS
<1>x. PICK x : x = InsnEffect(Translated(a), a, input.insn[a].t)
  OBVIOUS
<1>1. /\ a \in Image /\ a < cur.end /\ next \in Nat /\ a < next /\ next <= cur.end
      /\ input.insn[a].t \in Nat /\ CurOK /\ a \in Nat
  BY <1>a, <1>n, TranslatesFreeBytes
<1>2. TakesEffect(x, next) /\ AddsInsn(a, next)
  BY <1>a, <1>n, <1>x, TranslateStep
<1>3. x.end \in Nat /\ next <= x.end /\ x.end <= cur.end
  BY <1>2 DEF TakesEffect
<1>4. /\ ir' = x.ir /\ input' = input
      /\ cur'.start = cur.start /\ cur'.addr = next /\ cur'.end = x.end
      /\ pc' = IF x.stop THEN "next" ELSE "translate"
      /\ RemoveRange(x.data \cup (IF x.stop THEN Bytes(cur.start, next) ELSE {}))
  BY <1>2 DEF TakesEffect
<1>5. SameInsns(ir', ir') /\ DOMAIN ir'.bbOf = DOMAIN ir.bbOf \cup {a}
  BY <1>2 DEF AddsInsn
<1>6. /\ DOMAIN ir'.end = DOMAIN ir.end \cup {a} /\ ir'.end[a] = next
      /\ \A b \in DOMAIN ir.end \ {a} : ir'.end[b] = ir.end[b]
  BY <1>2 DEF AddsInsn
<1>7. \A b \in DOMAIN ir.end : Own(b) \/ Apart(b)
  BY DEF IInv, Translate
<1>8. \A b \in DOMAIN ir.end :
        /\ b \in Nat /\ ir.end[b] \in Nat /\ b < ir.end[b]
        /\ ir.end[b] <= a \/ next <= b
  BY <1>a, <1>n, TranslatesFreeBytes
<1>9. a \notin DOMAIN ir.end
  BY <1>1, <1>8
<1>10. TypeOK'
  BY <1>1, <1>4, <1>5, <1>6 DEF IInv, TypeOK, RemoveRange
<1>11. \A b, c \in DOMAIN ir'.end : b < c => ir'.end[b] <= c
  BY <1>1, <1>6, <1>8, <1>9 DEF IInv
<1>12. primary' \subseteq primary /\ alternative' \subseteq alternative
  BY <1>4 DEF RemoveRange
<1>13. CASE ~x.stop
  <2>1. CurOK'
    BY <1>a, <1>1, <1>3, <1>4 DEF CurOK, Confined
  <2>2. Own(a)'
    BY <1>a, <1>1, <1>4, <1>6 DEF Own, CurOK
  <2>3. ASSUME NEW b \in DOMAIN ir.end PROVE Own(b)' \/ Apart(b)'
    <3>1. ir'.end[b] = ir.end[b]
      BY <1>6, <1>9
    <3>2. CASE Own(b)
      BY <1>a, <1>1, <1>4, <1>8, <3>1, <3>2 DEF Own, CurOK
    <3>3. CASE Apart(b)
      <4>1. BytesOf(b)' = BytesOf(b)
        BY <3>1 DEF BytesOf, Bytes
      <4>2. Bytes(cur.start, x.end) \subseteq Bytes(cur.start, cur.end)
        BY <1>1, <1>3 DEF Bytes, Confined, CurOK
      <4> QED
        BY <1>4, <1>12, <3>3, <4>1, <4>2 DEF Apart, Ranges
    <3> QED
      BY <1>7, <3>2, <3>3
  <2>4. \A b \in DOMAIN ir'.end : Own(b)' \/ Apart(b)'
    BY <1>6, <2>2, <2>3
  <2>5. pc' = "translate"
    BY <1>4, <1>13
  <2> QED
    BY <1>4, <1>5, <1>10, <1>11, <2>1, <2>4, <2>5 DEF IInv
<1>14. CASE x.stop
  <2>1. Bytes(cur.start, next) \cap Ranges' = {}
    BY <1>4, <1>14 DEF RemoveRange, Ranges
  <2>2. (BytesOf(a) \cap Ranges)' = {}
    <3>1. BytesOf(a)' \subseteq Bytes(cur.start, next)
      BY <1>a, <1>1, <1>6 DEF BytesOf, Bytes, CurOK
    <3> QED
      BY <2>1, <3>1
  <2>3. ASSUME NEW b \in DOMAIN ir.end PROVE (BytesOf(b) \cap Ranges)' = {}
    <3>1. BytesOf(b)' = BytesOf(b)
      BY <1>6, <1>9 DEF BytesOf, Bytes
    <3>2. CASE Own(b)
      <4>1. BytesOf(b) \subseteq Bytes(cur.start, next)
        BY <1>a, <1>1, <1>8, <3>2 DEF Own, BytesOf, Bytes, CurOK
      <4> QED
        BY <2>1, <3>1, <4>1
    <3>3. CASE Apart(b)
      BY <1>12, <3>1, <3>3 DEF Apart, Ranges
    <3> QED
      BY <1>7, <3>2, <3>3
  <2>4. \A b \in DOMAIN ir'.end : (BytesOf(b) \cap Ranges)' = {}
    BY <1>6, <2>2, <2>3
  <2>5. pc' = "next"
    BY <1>4, <1>14
  <2> QED
    BY <1>4, <1>5, <1>10, <1>11, <2>4, <2>5 DEF IInv
<1> QED
  BY <1>13, <1>14

\* A translation that fails ends the decoding of the target: at least one byte
\* leaves the ranges, and all that was decoded for it.
LEMMA TranslateFailsInvariant == IInv /\ TranslateFails => IInv'
<1> SUFFICES ASSUME IInv, TranslateFails PROVE IInv'
  OBVIOUS
<1>1. /\ pc' = "next" /\ input' = input /\ CurOK
      /\ \A b \in DOMAIN ir.end : Own(b) \/ Apart(b)
  BY DEF IInv, TranslateFails
<1>2. /\ SameInsns(ir', ir') /\ ir'.end = ir.end
      /\ DOMAIN ir'.bbOf = DOMAIN ir.bbOf
  <2>1. SameInsns(ir, ir')
    BY CreatingKeepsInsns DEF IInv, TranslateFails
  <2> QED
    BY <2>1 DEF SameInsns
<1>3. Bytes(cur.start, cur.addr) \cap Ranges' = {}
  BY <1>1 DEF TranslateFails, RemoveRange, Ranges, CurOK, Bytes
<1>4. primary' \subseteq primary /\ alternative' \subseteq alternative
  BY DEF TranslateFails, RemoveRange
<1>5. ASSUME NEW b \in DOMAIN ir.end PROVE (BytesOf(b) \cap Ranges)' = {}
  <2>1. BytesOf(b)' = BytesOf(b)
    BY <1>2 DEF BytesOf
  <2>2. CASE Own(b)
    <3>1. b \in Nat /\ ir.end[b] \in Nat
      BY ImageAssumption DEF IInv, TypeOK
    <3>2. BytesOf(b) \subseteq Bytes(cur.start, cur.addr)
      BY <1>1, <2>2, <3>1 DEF Own, BytesOf, Bytes, CurOK
    <3> QED
      BY <1>3, <2>1, <3>2
  <2>3. CASE Apart(b)
    BY <1>4, <2>1, <2>3 DEF Apart, Ranges
  <2> QED
    BY <1>1, <2>2, <2>3
<1>6. TypeOK'
  BY <1>1, <1>2, <1>4 DEF IInv, TypeOK
<1> QED
  BY <1>1, <1>2, <1>5, <1>6 DEF IInv

\* Every step preserves the invariant.
LEMMA NextInvariant == IInv /\ [Next]_vars => IInv'
<1> SUFFICES ASSUME IInv, [Next]_vars PROVE IInv'
  OBVIOUS
<1>0. SameInsns(ir, ir)
  BY DEF IInv
<1>1. CASE GetJumpTarget
  <2>1. /\ pc # "translate" /\ pc' = "decode" /\ input' = input /\ ir' = ir
        /\ primary' = primary /\ alternative' = alternative
    BY <1>1 DEF GetJumpTarget
  <2> QED
    BY <1>0, <2>1, SkippingInvariant
<1>2. CASE SkipImport
  <2>1. /\ pc # "translate" /\ pc' = "next" /\ input' = input /\ ir' = ir
        /\ primary' = primary /\ alternative' = alternative
    BY <1>2 DEF SkipImport
  <2> QED
    BY <1>0, <2>1, SkippingInvariant
<1>3. CASE SkipNoRange
  <2>1. /\ pc # "translate" /\ pc' = "next" /\ input' = input /\ ir' = ir
        /\ primary' \subseteq primary /\ alternative' \subseteq alternative
    BY <1>3 DEF SkipNoRange, RemoveRange
  <2> QED
    BY <1>0, <2>1, SkippingInvariant
<1>4. CASE DecodeJumpTarget
  <2>1. pc = "decode" /\ FoundRange # {} /\ input' = input
    BY <1>4 DEF DecodeJumpTarget
  <2>2. ASSUME NEW n, SkipDryRun(n) PROVE IInv'
    <3>1. /\ pc' = "next" /\ ir' = ir
          /\ primary' \subseteq primary /\ alternative' \subseteq alternative
      BY <2>2 DEF SkipDryRun, RemoveRange
    <3> QED
      BY <1>0, <2>1, <3>1, SkippingInvariant
  <2>3. CASE Begin(DecodeEnd, StartBlock)
    BY <2>1, <2>3, BeginInvariant
  <2> QED
    BY <1>4, <2>2, <2>3 DEF DecodeJumpTarget
<1>5. CASE Finish
  <2>1. /\ pc # "translate" /\ pc' \in {"done", "failed"} /\ input' = input
        /\ ir' = ir /\ primary' = primary /\ alternative' = alternative
    BY <1>5 DEF Finish
  <2> QED
    BY <1>0, <2>1, SkippingInvariant
<1>6. CASE Translate
  BY <1>6, TranslateInvariant
<1>7. CASE TranslateFails
  BY <1>7, TranslateFailsInvariant
<1>8. CASE UNCHANGED vars
  BY <1>8 DEF vars, IInv, TypeOK, SameInsns, CurOK, Own, Apart, Ranges, BytesOf
<1> QED
  BY <1>1, <1>2, <1>3, <1>4, <1>5, <1>6, <1>7, <1>8 DEF Next, Stopped

\* The invariant holds in every state the decoder reaches.
THEOREM Invariance == Spec => []IInv
<1>1. Init => IInv
  BY InitInvariant
<1>2. IInv /\ [Next]_vars => IInv'
  BY NextInvariant
<1> QED
  BY <1>1, <1>2, PTL DEF Spec

-----------------------------------------------------------------------------
(* What follows *)

\* Instructions are where there is data, each with its block and its entry in
\* _llvm2capstone, in every state of the decoder.
THEOREM TypeCorrect == Spec => []TypeOK
<1>1. IInv => TypeOK
  BY DEF IInv
<1> QED
  BY <1>1, Invariance, PTL

\* No byte of the image is ever decoded as part of two instructions, nor about
\* to be, for every image, every instruction at every address and all targets.
THEOREM NeverDecodedTwice == Spec => []NoByteDecodedTwice
<1>1. IInv => NoByteDecodedTwice
  <2> SUFFICES ASSUME IInv PROVE NoByteDecodedTwice
    OBVIOUS
  <2>1. ASSUME pc = "translate", NEW a \in DOMAIN ir.end
        PROVE  BytesOf(a) \cap Bytes(cur.addr, cur.end) = {}
    <3>1. CurOK /\ (Own(a) \/ Apart(a))
      BY <2>1 DEF IInv
    <3>2. a \in Nat /\ ir.end[a] \in Nat
      BY ImageAssumption DEF IInv, TypeOK
    <3>3. CASE Own(a)
      BY <3>1, <3>2, <3>3 DEF Own, BytesOf, Bytes, CurOK
    <3>4. CASE Apart(a)
      <4>1. Bytes(cur.addr, cur.end) \subseteq Bytes(cur.start, cur.end)
        BY <3>1 DEF Bytes, CurOK
      <4> QED
        BY <3>4, <4>1 DEF Apart
    <3> QED
      BY <3>1, <3>3, <3>4
  <2> QED
    BY <2>1 DEF IInv, NoByteDecodedTwice
<1> QED
  BY <1>1, Invariance, PTL

\* Whenever the decoder looks for its next target, nothing that was decoded is
\* left in the ranges.
THEOREM DecodedIsRemoved == Spec => []DecodedLeavesRanges
<1>1. IInv => DecodedLeavesRanges
  BY DEF IInv, DecodedLeavesRanges, Ranges
<1> QED
  BY <1>1, Invariance, PTL

-----------------------------------------------------------------------------
(* Loaded data *)

\* What a decoded instruction loads, unless it is right behind it, is in no
\* range and not in what is still to be decoded for the target.
LoadInv ==
  \A x \in DOMAIN ir.end :
    Op(x) = "load" /\ input.insn[x].t # ir.end[x] =>
      /\ input.insn[x].t \notin Ranges
      /\ pc = "translate" => input.insn[x].t \notin Bytes(cur.addr, cur.end)

\* Any step that keeps the instructions and takes bytes from the ranges, and
\* does not begin to decode.
LEMMA SkippingKeepsLoads ==
  ASSUME LoadInv, input' = input, ir'.end = ir.end, Ranges' \subseteq Ranges,
         pc' # "translate"
  PROVE  LoadInv'
BY DEF LoadInv, Op

\* A load takes its data from the ranges, and ends the decoding before it.
LEMMA LoadTakesData ==
  ASSUME NEW g, NEW a, NEW t \in Nat, Op(a) = "load", NEW x, x = InsnEffect(g, a, t),
         EndOf(a) \in Nat, t # EndOf(a), cur.end \in Nat
  PROVE  t \in x.data /\ t \notin EndOf(a)..(x.end - 1)
BY DEF InsnEffect, LoadEffect, Effect, Trim

\* One turn of the loop: what is trimmed stays trimmed.
LEMMA TranslateKeepsLoads == IInv /\ LoadInv /\ Translate => LoadInv'
<1> SUFFICES ASSUME IInv, LoadInv, Translate PROVE LoadInv'
  OBVIOUS
<1>1. PICK a : a = cur.addr
  OBVIOUS
<1>2. PICK next : next = EndOf(a)
  OBVIOUS
<1>4. PICK x : x = InsnEffect(Translated(a), a, input.insn[a].t)
  OBVIOUS
<1>5. /\ a \in Nat /\ next \in Nat /\ a < next /\ next <= cur.end /\ input.insn[a].t \in Nat
      /\ CurOK
      /\ \A b \in DOMAIN ir.end :
           /\ b \in Nat /\ ir.end[b] \in Nat /\ b < ir.end[b]
           /\ ir.end[b] <= a \/ next <= b
  BY <1>1, <1>2, TranslatesFreeBytes
<1>6. TakesEffect(x, next) /\ AddsInsn(a, next)
  BY <1>1, <1>2, <1>4, TranslateStep
<1>8. /\ ir' = x.ir /\ input' = input
      /\ RemoveRange(x.data \cup (IF x.stop THEN Bytes(cur.start, next) ELSE {}))
  BY <1>6 DEF TakesEffect
<1>9. Ranges' \subseteq Ranges /\ x.data \cap Ranges' = {}
  BY <1>8 DEF RemoveRange, Ranges
<1>10. /\ cur'.addr = next /\ cur'.end = x.end /\ x.end \in Nat /\ x.end <= cur.end
  BY <1>6 DEF TakesEffect
<1>11. /\ DOMAIN ir'.end = DOMAIN ir.end \cup {a} /\ ir'.end[a] = next
       /\ \A b \in DOMAIN ir.end \ {a} : ir'.end[b] = ir.end[b]
  BY <1>6 DEF AddsInsn
<1>12. a \notin DOMAIN ir.end
  BY <1>5
<1>13. Bytes(cur.addr, cur.end)' \subseteq Bytes(cur.addr, cur.end)
  BY <1>1, <1>5, <1>10 DEF Bytes, CurOK
<1>14. pc = "translate"
  BY DEF Translate
<1>15. ASSUME NEW b \in DOMAIN ir.end, Op(b)' = "load", input'.insn[b].t # ir'.end[b]
       PROVE  /\ input'.insn[b].t \notin Ranges'
              /\ input'.insn[b].t \notin Bytes(cur.addr, cur.end)'
  <2>1. Op(b) = "load" /\ input.insn[b].t # ir.end[b] /\ input'.insn[b].t = input.insn[b].t
    BY <1>8, <1>11, <1>12, <1>15 DEF Op
  <2>2. /\ input.insn[b].t \notin Ranges
        /\ input.insn[b].t \notin Bytes(cur.addr, cur.end)
    BY <1>14, <2>1 DEF LoadInv
  <2> QED
    BY <1>9, <1>13, <2>1, <2>2
<1>16. ASSUME Op(a)' = "load", input'.insn[a].t # ir'.end[a]
       PROVE  /\ input'.insn[a].t \notin Ranges'
              /\ input'.insn[a].t \notin Bytes(cur.addr, cur.end)'
  <2>1. Op(a) = "load" /\ input.insn[a].t # next /\ input'.insn[a].t = input.insn[a].t
    BY <1>8, <1>11, <1>16 DEF Op
  <2>2. input.insn[a].t \in x.data /\ input.insn[a].t \notin next..(x.end - 1)
    BY <1>2, <1>4, <1>5, <2>1, LoadTakesData DEF CurOK
  <2> QED
    BY <1>9, <1>10, <2>1, <2>2 DEF Bytes
<1> QED
  BY <1>11, <1>15, <1>16 DEF LoadInv

\* Every step preserves the invariant.
LEMMA NextKeepsLoads == IInv /\ LoadInv /\ [Next]_vars => LoadInv'
<1> SUFFICES ASSUME IInv, LoadInv, [Next]_vars PROVE LoadInv'
  OBVIOUS
<1>1. CASE GetJumpTarget
  BY <1>1, SkippingKeepsLoads DEF GetJumpTarget, Ranges
<1>2. CASE SkipImport
  BY <1>2, SkippingKeepsLoads DEF SkipImport, Ranges
<1>3. CASE SkipNoRange
  BY <1>3, SkippingKeepsLoads DEF SkipNoRange, RemoveRange, Ranges
<1>4. CASE DecodeJumpTarget
  <2>1. CASE \E n \in {SkipSize(DecodeEnd)} : SkipDryRun(n)
    BY <1>4, <2>1, SkippingKeepsLoads DEF DecodeJumpTarget, SkipDryRun, RemoveRange, Ranges
  <2>2. CASE Begin(DecodeEnd, StartBlock)
    <3>1. SameInsns(ir, StartBlock.ir)
      BY CallTargetKeepsInsns DEF IInv, StartBlock, Result
    <3>2. /\ ir'.end = ir.end /\ input' = input /\ Ranges' = Ranges
      BY <1>4, <2>2, <3>1 DEF DecodeJumpTarget, Begin, SameInsns, Ranges
    <3>3. CASE pc' # "translate"
      BY <3>2, <3>3, SkippingKeepsLoads
    <3>4. CASE pc' = "translate"
      <4>1. cur'.addr = jt.addr /\ cur'.end = DecodeEnd
        BY <2>2, <3>4 DEF Begin
      <4>2. Bytes(jt.addr, DecodeEnd) \subseteq Ranges
        BY <1>4, DecodeEndInRange DEF IInv, DecodeJumpTarget
      <4>3. Bytes(cur.addr, cur.end)' = Bytes(jt.addr, DecodeEnd)
        BY <4>1 DEF Bytes
      <4> QED
        BY <3>2, <4>2, <4>3 DEF LoadInv, Op
    <3> QED
      BY <3>3, <3>4
  <2> QED
    BY <1>4, <2>1, <2>2 DEF DecodeJumpTarget
<1>5. CASE Translate
  BY <1>5, TranslateKeepsLoads
<1>6. CASE TranslateFails
  <2>1. SameInsns(ir, ir')
    BY <1>6, CreatingKeepsInsns DEF IInv, TranslateFails
  <2> QED
    BY <1>6, <2>1, SkippingKeepsLoads DEF TranslateFails, RemoveRange, Ranges, SameInsns
<1>7. CASE Finish
  BY <1>7, SkippingKeepsLoads DEF Finish, Ranges
<1>8. CASE UNCHANGED vars
  BY <1>8 DEF vars, LoadInv, Op, Ranges, Bytes
<1> QED
  BY <1>1, <1>2, <1>3, <1>4, <1>5, <1>6, <1>7, <1>8 DEF Next, Stopped

\* Only a turn of the loop decodes an instruction, in the bytes it has left.
LEMMA NewInstruction ==
  ASSUME IInv, [Next]_vars, NEW y \in DOMAIN ir'.end \ DOMAIN ir.end
  PROVE  /\ pc = "translate" /\ y = cur.addr
         /\ cur.end \in Nat /\ ir'.end[y] \in Nat /\ ir'.end[y] <= cur.end
<1>1. ASSUME SameInsns(ir, ir') PROVE FALSE
  BY <1>1 DEF SameInsns
<1>2. SameInsns(ir, ir)
  BY DEF IInv
<1>3. CASE Translate
  <2>1. PICK a : a = cur.addr
    OBVIOUS
  <2>2. PICK next : next = EndOf(a)
    OBVIOUS
  <2>3. PICK x : x = InsnEffect(Translated(a), a, input.insn[a].t)
    OBVIOUS
  <2>4. DOMAIN ir'.end = DOMAIN ir.end \cup {a} /\ ir'.end[a] = next
    BY <1>3, <2>1, <2>2, <2>3, TranslateStep DEF AddsInsn
  <2>5. next \in Nat /\ next <= cur.end /\ CurOK
    BY <1>3, <2>1, <2>2, TranslatesFreeBytes
  <2> QED
    BY <1>3, <2>1, <2>4, <2>5 DEF Translate, CurOK
<1>4. CASE DecodeJumpTarget
  <2>1. CASE \E n \in {SkipSize(DecodeEnd)} : SkipDryRun(n)
    BY <1>1, <1>2, <2>1 DEF SkipDryRun
  <2>2. CASE Begin(DecodeEnd, StartBlock)
    <3>1. SameInsns(ir, StartBlock.ir)
      BY CallTargetKeepsInsns DEF IInv, StartBlock, Result
    <3> QED
      BY <1>1, <2>2, <3>1 DEF Begin
  <2> QED
    BY <1>4, <2>1, <2>2 DEF DecodeJumpTarget
<1>5. CASE TranslateFails
  BY <1>1, <1>5, CreatingKeepsInsns DEF IInv, TranslateFails
<1>6. CASE GetJumpTarget \/ SkipImport \/ SkipNoRange \/ Finish \/ UNCHANGED vars
  BY <1>1, <1>2, <1>6 DEF GetJumpTarget, SkipImport, SkipNoRange, Finish, vars
<1> QED
  BY <1>3, <1>4, <1>5, <1>6 DEF Next, Stopped

\* What a decoded instruction loads stays data, for every binary: it is never
\* decoded as part of an instruction afterwards, except right behind the load.
THEOREM LoadedStaysData == Spec => LoadedDataStaysData
<1> DEFINE Stays ==
      \A x \in DOMAIN ir.end :
        Op(x) = "load" /\ input.insn[x].t # ir.end[x] =>
          \A a \in DOMAIN ir'.end \ DOMAIN ir.end :
            input.insn[x].t \notin Bytes(a, ir'.end[a])
<1>1. Init => LoadInv
  BY DEF Init, InitIr, LoadInv
<1>2. IInv /\ LoadInv /\ [Next]_vars => LoadInv'
  BY NextKeepsLoads
<1>3. IInv /\ LoadInv /\ [Next]_vars => [Stays]_vars
  <2> SUFFICES ASSUME IInv, LoadInv, [Next]_vars PROVE Stays \/ UNCHANGED vars
    OBVIOUS
  <2>1. \A y \in DOMAIN ir'.end \ DOMAIN ir.end :
          /\ pc = "translate" /\ y = cur.addr
          /\ cur.end \in Nat /\ ir'.end[y] \in Nat /\ ir'.end[y] <= cur.end
    BY NewInstruction
  <2>2. ASSUME NEW x \in DOMAIN ir.end, Op(x) = "load", input.insn[x].t # ir.end[x],
               NEW y \in DOMAIN ir'.end \ DOMAIN ir.end
        PROVE  input.insn[x].t \notin Bytes(y, ir'.end[y])
    <3>1. pc = "translate" /\ CurOK
      BY <2>1 DEF IInv
    <3>2. input.insn[x].t \notin Bytes(cur.addr, cur.end)
      BY <2>2, <3>1 DEF LoadInv
    <3>3. Bytes(y, ir'.end[y]) \subseteq Bytes(cur.addr, cur.end)
      BY <2>1, <3>1 DEF Bytes, CurOK
    <3> QED
      BY <3>2, <3>3
  <2> QED
    BY <2>2
<1> QED
  BY <1>1, <1>2, <1>3, Invariance, PTL DEF Spec, LoadedDataStaysData

-----------------------------------------------------------------------------
(* The effects of the instructions keep the layout *)

\* The effect x of an instruction on the module g: the layout is kept, and when
\* the block goes on so is all else.
EffectOk(g, x) == Layout(x.ir) /\ (x.stop \/ Lays(g, x.ir))

\* The branches S of the instruction at a are one, or the two of a conditional
\* jump, and lead to blocks.
BranchesOf(h, S, a) ==
  /\ \A e \in S : e.at = a /\ e.to \in Blocks(h)
  /\ \A e, d \in S : e # d => {e.kind, d.kind} = {"true", "false"}

\* Ending an open block with branches.
LEMMA AddingBranches ==
  ASSUME NEW h, Structure(h), NEW a \in DOMAIN h.bbOf, Open(h, a), NEW S,
         BranchesOf(h, S, a)
  PROVE  /\ Structure(AddEdges(h, S)) /\ AddEdges(h, S).bbOf = h.bbOf
         /\ Blocks(AddEdges(h, S)) = Blocks(h)
<1>1. PICK k : k = AddEdges(h, S)
  OBVIOUS
<1>2. /\ HasParts(k) /\ k.fncs = h.fncs /\ k.bbOf = h.bbOf /\ k.edges = h.edges \cup S
  BY <1>1 DEF AddEdges, Structure, HasParts
<1>3. Blocks(k) = Blocks(h)
  BY <1>2 DEF Blocks
<1>4. InsnsOk(k)
  BY <1>2, <1>3 DEF Structure, InsnsOk
<1>5. \A x : LastIn(k, x) <=> LastIn(h, x)
  BY <1>2 DEF LastIn
<1>6. EdgesOk(k)
  <2>1. \A e \in k.edges : e.at \in DOMAIN k.bbOf /\ e.to \in Blocks(k) /\ LastIn(k, e.at)
    BY <1>2, <1>3, <1>5 DEF Structure, EdgesOk, BranchesOf, Open
  <2>2. \A e \in h.edges : e.at # a
    BY DEF Open
  <2>3. ASSUME NEW e \in k.edges, NEW d \in k.edges, e # d, e.at = d.at
        PROVE  {e.kind, d.kind} = {"true", "false"}
    <3>1. CASE e.at = a
      <4>1. e \in S /\ d \in S
        BY <1>2, <2>2, <2>3, <3>1
      <4> QED
        BY <2>3, <4>1 DEF BranchesOf
    <3>2. CASE e.at # a
      <4>1. e \in h.edges /\ d \in h.edges
        BY <1>2, <2>3, <3>2 DEF BranchesOf
      <4> QED
        BY <2>3, <4>1 DEF Structure, EdgesOk
    <3> QED
      BY <3>1, <3>2
  <2> QED
    BY <2>1, <2>3 DEF EdgesOk
<1> QED
  BY <1>1, <1>2, <1>3, <1>4, <1>6 DEF Structure

\* The branch e of the instruction at a is of a kind that is generated, and leads
\* to a block of its function that is not the first.
BranchInner(h, e, a) ==
  /\ \/ e.kind \in {"br", "true"}
     \/ e.to = h.end[a] /\ e.kind \in {"false", "condcall"}
  /\ NoFunctionInside(h) =>
       FncOf(h, e.to) = FncOf(h, h.bbOf[a]) /\ e.to # FncOf(h, e.to)

\* Such branches keep the layout: there can only be more seams.
LEMMA BranchesLay ==
  ASSUME NEW h, Layout(h), NEW a \in DOMAIN h.bbOf, Open(h, a), NEW S,
         BranchesOf(h, S, a), \A e \in S : BranchInner(h, e, a)
  PROVE  Layout(AddEdges(h, S))
<1>1. PICK k : k = AddEdges(h, S)
  OBVIOUS
<1>2. /\ k.fncs = h.fncs /\ k.bbOf = h.bbOf /\ k.end = h.end /\ k.edges = h.edges \cup S
  BY <1>1 DEF AddEdges, Layout, Structure, HasParts
<1>3. Structure(k)
  BY <1>1, AddingBranches DEF Layout
<1>4. Code(k)
  BY <1>2 DEF Layout, Code, BytesOk, Solid, Falls, BranchesOf, BranchInner
<1>5. \A b : FncOf(k, b) = FncOf(h, b)
  BY <1>2 DEF FncOf
<1>6. NoFunctionInside(k) => NoFunctionInside(h)
  BY <1>2 DEF NoFunctionInside, Inside
<1>7. Sorted(h) => Sorted(k)
  <2>1. \A b, c : Before(k, b, c) => Before(h, b, c)
    BY <1>2 DEF Before, Blocks, FncOf, Pos, ListOf
  <2>2. \A b, c : Hidden(h, c, b) => Hidden(k, c, b)
    BY <1>2 DEF Hidden, Seams
  <2> QED
    BY <2>1, <2>2 DEF Sorted
<1>8. NoFunctionInside(h) /\ Inner(h) => Inner(k)
  BY <1>2, <1>5 DEF Inner, BranchesOf, BranchInner
<1> QED
  BY <1>1, <1>3, <1>4, <1>6, <1>7, <1>8 DEF Layout

\* Every instruction keeps the layout, given an open block to end.
LEMMA EffectsLay ==
  ASSUME NEW g, Layout(g), NEW a \in DOMAIN g.bbOf, Open(g, a), NEW t \in Nat,
         EndOf(a) \in Nat, g.end[a] = EndOf(a)
  PROVE  EffectOk(g, InsnEffect(g, a, t))
<1>1. ASSUME NEW h, Lays(g, h), NEW js, NEW e, NEW stop
      PROVE  EffectOk(g, Effect(h, js, e, stop))
  BY <1>1 DEF Effect, EffectOk, Lays
<1>2. ASSUME NEW h, Lays(g, h), NEW S, BranchesOf(h, S, a),
             \A d \in S : BranchInner(h, d, a), NEW js, NEW e
      PROVE  EffectOk(g, Effect(AddEdges(h, S), js, e, TRUE))
  <2>1. Layout(h) /\ a \in DOMAIN h.bbOf /\ Open(h, a)
    BY <1>2 DEF Lays, Keeps
  <2>2. Layout(AddEdges(h, S))
    BY <1>2, <2>1, BranchesLay
  <2> QED
    BY <2>2 DEF Effect, EffectOk
<1>3. ASSUME NEW h, Lays(g, h), NEW b, b \in Blocks(h), FncOf(h, b) = FncAt(h, a),
             NEW kind, \/ kind \in {"br", "true"} /\ ~IsFirst(h, b)
                       \/ kind \in {"false", "condcall"} /\ b = EndOf(a)
      PROVE  BranchesOf(h, {Edge(a, b, kind)}, a) /\ BranchInner(h, Edge(a, b, kind), a)
  <2>1. Layout(h) /\ h.end = g.end /\ a \in DOMAIN h.bbOf
    BY <1>3 DEF Lays, Keeps
  <2>2. NoFunctionInside(h) => b # FncOf(h, b)
    <3>1. CASE ~IsFirst(h, b)
      BY <1>3, <2>1, <3>1, OrderOfBlocks DEF Layout, Structure
    <3>2. CASE b = EndOf(a)
      <4> SUFFICES ASSUME NoFunctionInside(h) PROVE b # FncOf(h, b)
        OBVIOUS
      <4>1. Structure(h) /\ Code(h) /\ Sorted(h)
        BY <2>1 DEF Layout
      <4>2. /\ h.bbOf[a] \in Blocks(h) /\ Full(h, h.bbOf[a]) /\ h.bbOf[a] <= a
            /\ a \in Nat /\ h.bbOf[a] \in Nat
        BY <2>1, <4>1 DEF Structure, InsnsOk, Full
      <4>3. FncAt(h, a) \in Nat /\ FncAt(h, a) <= h.bbOf[a]
        BY <4>1, <4>2, FullBehindFunction DEF FncAt
      <4>4. a < EndOf(a)
        BY <2>1, <4>1 DEF Code, BytesOk
      <4> QED
        BY <1>3, <3>2, <4>2, <4>3, <4>4
    <3> QED
      BY <1>3, <3>1, <3>2
  <2>3. FncOf(h, b) = FncOf(h, h.bbOf[a])
    BY <1>3 DEF FncAt
  <2>4. PICK e : e = Edge(a, b, kind)
    OBVIOUS
  <2>5. e.at = a /\ e.to = b /\ e.kind = kind
    BY <2>4 DEF Edge
  <2>6. BranchesOf(h, {e}, a)
    BY <1>3, <2>5 DEF BranchesOf
  <2>7. \/ kind \in {"br", "true"}
        \/ b = h.end[a] /\ kind \in {"false", "condcall"}
    BY <1>3, <2>1
  <2>8. BranchInner(h, e, a)
    BY <2>2, <2>3, <2>5, <2>7 DEF BranchInner
  <2> QED
    BY <2>4, <2>6, <2>8
<1>4. ASSUME NEW h, NEW b \in Blocks(h), NEW c \in Blocks(h)
      PROVE  BranchesOf(h, {Edge(a, b, "true"), Edge(a, c, "false")}, a)
  BY DEF BranchesOf, Edge
<1>5. Lays(g, g)
  BY LaysSame
<1>6. EffectOk(g, CallEffect(g, a, t))
  <2>1. PICK r : r = GetOrCreateCallTarget(g, t)
    OBVIOUS
  <2>2. ResultOk(g, r, t)
    BY <2>1, CallTargetLays
  <2>3. EffectOk(g, CallTo(r, a, t))
    <3>1. Lays(g, r.ir) /\ (r.bb # NoAddr => r.bb \in Blocks(r.ir))
      BY <2>2 DEF ResultOk
    <3>2. CASE r.fnc # NoAddr
      BY <1>1, <3>1, <3>2 DEF CallTo
    <3>3. CASE r.fnc = NoAddr /\ Branchable(r, FncAt(r.ir, a))
      <4>1. /\ BranchesOf(r.ir, {Edge(a, r.bb, "br")}, a)
            /\ BranchInner(r.ir, Edge(a, r.bb, "br"), a)
        BY <1>3, <3>1, <3>3 DEF Branchable
      <4> QED
        BY <1>2, <3>1, <3>3, <4>1 DEF CallTo
    <3>4. CASE r.fnc = NoAddr /\ ~Branchable(r, FncAt(r.ir, a))
      BY <1>1, <3>1, <3>4 DEF CallTo
    <3> QED
      BY <3>2, <3>3, <3>4
  <2> QED
    BY <1>1, <1>5, <2>1, <2>3 DEF CallEffect
<1>7. EffectOk(g, BranchEffect(g, a, t))
  <2>1. PICK r : r = GetOrCreateBranchTarget(g, t, FncAt(g, a))
    OBVIOUS
  <2>2. ResultOk(g, r, t)
    BY <2>1, BranchTargetLays
  <2>3. EffectOk(g, BranchTo(r, a, t))
    <3>1. Lays(g, r.ir) /\ (r.bb # NoAddr => r.bb \in Blocks(r.ir))
      BY <2>2 DEF ResultOk
    <3>2. CASE Branchable(r, FncAt(r.ir, a))
      <4>1. /\ BranchesOf(r.ir, {Edge(a, r.bb, "br")}, a)
            /\ BranchInner(r.ir, Edge(a, r.bb, "br"), a)
        BY <1>3, <3>1, <3>2 DEF Branchable
      <4> QED
        BY <1>2, <3>1, <3>2, <4>1 DEF BranchTo
    <3>3. CASE ~Branchable(r, FncAt(r.ir, a))
      BY <1>1, <3>1, <3>3 DEF BranchTo
    <3> QED
      BY <3>2, <3>3
  <2> QED
    BY <1>1, <1>5, <2>1, <2>3 DEF BranchEffect
<1>8. EffectOk(g, CondBranchEffect(g, a, t))
  <2>1. PICK r : r = GetOrCreateBranchTarget(g, t, FncAt(g, a))
    OBVIOUS
  <2>2. PICK n : n = GetOrCreateBranchTarget(r.ir, EndOf(a), FncAt(r.ir, a))
    OBVIOUS
  <2>3. PICK f : f = FncAt(n.ir, a)
    OBVIOUS
  <2>4. ResultOk(g, r, t)
    BY <2>1, BranchTargetLays
  <2>5. ResultOk(r.ir, n, EndOf(a))
    BY <2>2, <2>4, BranchTargetLays DEF ResultOk, Lays
  <2>6. Lays(g, n.ir)
    BY <2>4, <2>5, LaysTrans DEF ResultOk
  <2>7. /\ n.bb # NoAddr => n.bb = EndOf(a) /\ n.bb \in Blocks(n.ir)
        /\ r.bb # NoAddr => r.bb \in Blocks(n.ir)
    BY <2>4, <2>5 DEF ResultOk, Lays, Keeps
  <2>8. EffectOk(g, CondBranchTo(r, n, a, t, f))
    <3>1. CASE n.bb = NoAddr \/ FncOf(n.ir, n.bb) # f
      BY <1>1, <2>6, <3>1 DEF CondBranchTo
    <3>2. CASE /\ ~(n.bb = NoAddr \/ FncOf(n.ir, n.bb) # f)
               /\ Branchable(Result(n.ir, NoAddr, r.bb), f)
      <4>1. r.bb \in Blocks(n.ir) /\ FncOf(n.ir, r.bb) = f /\ ~IsFirst(n.ir, r.bb)
        BY <2>7, <3>2 DEF Branchable, Result
      <4>2. BranchInner(n.ir, Edge(a, r.bb, "true"), a)
        BY <1>3, <2>3, <2>6, <4>1
      <4>3. BranchInner(n.ir, Edge(a, n.bb, "false"), a)
        BY <1>3, <2>3, <2>6, <2>7, <3>2
      <4>4. BranchesOf(n.ir, {Edge(a, r.bb, "true"), Edge(a, n.bb, "false")}, a)
        BY <1>4, <2>7, <3>2, <4>1
      <4> QED
        BY <1>2, <2>6, <3>2, <4>2, <4>3, <4>4 DEF CondBranchTo
    <3>3. CASE /\ ~(n.bb = NoAddr \/ FncOf(n.ir, n.bb) # f)
               /\ ~Branchable(Result(n.ir, NoAddr, r.bb), f) /\ r.fnc # NoAddr
      <4>1. /\ BranchesOf(n.ir, {Edge(a, n.bb, "condcall")}, a)
            /\ BranchInner(n.ir, Edge(a, n.bb, "condcall"), a)
        BY <1>3, <2>3, <2>6, <2>7, <3>3
      <4> QED
        BY <1>2, <2>6, <3>3, <4>1 DEF CondBranchTo
    <3>4. CASE /\ ~(n.bb = NoAddr \/ FncOf(n.ir, n.bb) # f)
               /\ ~Branchable(Result(n.ir, NoAddr, r.bb), f) /\ r.fnc = NoAddr
      BY <1>1, <2>6, <3>4 DEF CondBranchTo
    <3> QED
      BY <3>1, <3>2, <3>3, <3>4
  <2>9. CondBranchNext(r, a, t) = CondBranchTo(r, n, a, t, f)
    BY <2>2, <2>3 DEF CondBranchNext
  <2> QED
    BY <1>1, <1>5, <2>1, <2>8, <2>9 DEF CondBranchEffect
<1>9. EffectOk(g, LoadEffect(g, a, t))
  BY <1>5 DEF LoadEffect, Effect, EffectOk
<1>10. EffectOk(g, HaltEffect(g, a)) /\ EffectOk(g, SyscallEffect(g, a))
  BY <1>1, <1>5 DEF HaltEffect, SyscallEffect
<1> QED
  BY <1>1, <1>5, <1>6, <1>7, <1>8, <1>9, <1>10 DEF InsnEffect

-----------------------------------------------------------------------------
(* The invariant of the blocks *)

\* None of the properties of blocks and branches is inductive.  A branch is added
\* to the block of the instruction that was decoded last, wherever splits have put
\* it: that block has to be open until then.  It leads to the block that was
\* reached when that is in the function the decoding began in: the code decoded in
\* between has to be linked, so that no split moves the one without the other.
FlowInv ==
  /\ Layout(ir)
  /\ pc = "translate" =>
       /\ cur.bb = cur.start /\ cur.bb \in Blocks(ir)
       /\ cur.addr # cur.start => cur.start \in DOMAIN ir.bbOf
       /\ DecodedHere # {} =>
            /\ Open(ir, Max(DecodedHere)) /\ ir.end[Max(DecodedHere)] = cur.addr
            /\ NoFunctionInside(ir) => Linked(ir, cur.start, Max(DecodedHere))

\* The module that decode() starts with.
LEMMA InitFlow == Init => FlowInv
<1> SUFFICES ASSUME Init PROVE FlowInv
  OBVIOUS
<1> DEFINE F == {x.addr : x \in input.conf.targets} \cup input.conf.imports
<1>1. F \subseteq Nat
  BY InputAssumption DEF Init
<1>2. /\ HasParts(ir) /\ DOMAIN ir.bbOf = {} /\ DOMAIN ir.end = {} /\ ir.edges = {}
      /\ ir.fncs = [f \in F |-> IF f \in Image THEN <<f>> ELSE <<>>]
  BY DEF Init, InitIr, HasParts
<1> HIDE DEF F
<1>3. ListsOk(ir.fncs)
  <2>1. \A f \in DOMAIN ir.fncs :
          f \in Nat /\ BlockList(f, ir.fncs[f]) /\ ToSet(ir.fncs[f]) \subseteq {f}
    BY <1>1, <1>2, NewList
  <2> QED
    BY <2>1 DEF ListsOk
<1>4. InsnsOk(ir) /\ EdgesOk(ir)
  BY <1>2 DEF InsnsOk, EdgesOk
<1>5. Code(ir)
  BY <1>2 DEF Code, BytesOk, Solid, Falls
<1>6. Inner(ir)
  BY <1>2 DEF Inner
<1>7. Sorted(ir)
  <2> SUFFICES ASSUME NEW b, NEW c, Before(ir, b, c) PROVE FALSE
    BY DEF Sorted
  <2>1. b \in Blocks(ir) /\ c \in Blocks(ir) /\ FncOf(ir, b) = FncOf(ir, c)
    BY DEF Before
  <2>2. \A d \in Blocks(ir) :
          FncOf(ir, d) \in DOMAIN ir.fncs /\ d \in ToSet(ir.fncs[FncOf(ir, d)])
    BY <1>3, FunctionOfBlock
  <2>3. \A f \in DOMAIN ir.fncs : ToSet(ir.fncs[f]) \subseteq {f}
    BY <1>1, <1>2, NewList
  <2>4. b = c
    BY <2>1, <2>2, <2>3
  <2> QED
    BY <1>3, <2>4, OrderOfBlocks
<1> QED
  BY <1>2, <1>3, <1>4, <1>5, <1>6, <1>7 DEF Init, FlowInv, Layout, Structure

\* The block to decode into is the one at the target.
LEMMA BeginFlow ==
  ASSUME IInv, FlowInv, FoundRange # {}, Begin(DecodeEnd, StartBlock)
  PROVE  FlowInv'
<1>1. jt.addr \in Nat
  BY DecodeEndInRange DEF IInv
<1>2. PICK r : r = StartBlock
  OBVIOUS
<1>3. ResultOk(ir, r, jt.addr)
  <2>1. Layout(ir) /\ Lays(ir, ir)
    BY LaysSame DEF FlowInv
  <2>2. CASE jt.addr \in Blocks(ir)
    BY <1>2, <2>1, <2>2 DEF StartBlock, Result, ResultOk
  <2>3. CASE jt.addr \notin Blocks(ir) /\ jt.type # LEFTOVER
    BY <1>2, <2>1, <2>3 DEF StartBlock, Result, ResultOk
  <2>4. CASE jt.addr \notin Blocks(ir) /\ jt.type = LEFTOVER
    BY <1>1, <1>2, <2>1, <2>4, CallTargetLays DEF StartBlock
  <2> QED
    BY <2>2, <2>3, <2>4
<1>4. ir' = r.ir /\ Layout(ir')
  BY <1>2, <1>3 DEF Begin, ResultOk, Lays
<1>5. CASE r.bb = NoAddr
  BY <1>2, <1>4, <1>5 DEF Begin, FlowInv
<1>6. CASE r.bb # NoAddr
  <2>1. /\ cur'.start = jt.addr /\ cur'.addr = jt.addr /\ cur'.bb = jt.addr
        /\ jt.addr \in Blocks(ir')
    BY <1>2, <1>3, <1>4, <1>6 DEF Begin, ResultOk
  <2>2. DecodedHere' = {}
    <3>1. \A x \in DOMAIN ir'.bbOf : x \in Nat
      BY <1>4 DEF Layout, Structure, InsnsOk
    <3> QED
      BY <1>1, <2>1, <3>1 DEF DecodedHere
  <2> QED
    BY <1>4, <2>1, <2>2 DEF FlowInv
<1> QED
  BY <1>5, <1>6

\* The instructions decoded so far for the target: the last one is before the
\* next address, and there is one as soon as the decoding has moved on.
LEMMA LastDecoded ==
  ASSUME Structure(ir), CurOK, cur.addr # cur.start => cur.start \in DOMAIN ir.bbOf
  PROVE  /\ DecodedHere = {} => cur.addr = cur.start
         /\ DecodedHere # {} => Max(DecodedHere) \in DOMAIN ir.bbOf /\ Max(DecodedHere) < cur.addr
<1>1. \A x \in DOMAIN ir.bbOf : x \in Nat
  BY DEF Structure, InsnsOk
<1>2. DecodedHere \in SUBSET Nat /\ \A x \in DecodedHere : x <= cur.addr
  BY <1>1 DEF DecodedHere, CurOK
<1>3. DecodedHere # {} => Max(DecodedHere) \in DecodedHere
  BY <1>2, MaxOfNats DEF CurOK
<1>4. DecodedHere = {} => cur.addr = cur.start
  BY DEF DecodedHere, CurOK
<1> QED
  BY <1>3, <1>4 DEF DecodedHere

\* The new instruction is put behind the others of an open block, or is the
\* first of its own.
LEMMA TranslatedFlow ==
  ASSUME IInv, FlowInv, Translate, NEW a, a = cur.addr
  PROVE  LET g == Translated(a)
         IN  /\ Layout(g) /\ Open(g, a) /\ g.end[a] = EndOf(a)
             /\ DOMAIN g.bbOf = DOMAIN ir.bbOf \cup {a} /\ Blocks(g) = Blocks(ir)
             /\ NoFunctionInside(g) => Linked(g, cur.start, a)
<1>1. PICK next : next = EndOf(a)
  OBVIOUS
<1>2. /\ a \in Nat /\ next \in Nat /\ a < next /\ CurOK /\ pc = "translate"
      /\ \A b \in DOMAIN ir.end :
           /\ b \in Nat /\ ir.end[b] \in Nat /\ b < ir.end[b]
           /\ ir.end[b] <= a \/ next <= b
  BY <1>1, TranslatesFreeBytes DEF Translate
<1>3. a \notin DOMAIN ir.bbOf
  <2>1. a \notin DOMAIN ir.end
    BY <1>1, TranslatesFreeBytes
  <2> QED
    BY <2>1 DEF IInv, TypeOK
<1>4. /\ Structure(ir) /\ Code(ir) /\ Layout(ir)
      /\ cur.bb = cur.start /\ cur.bb \in Blocks(ir)
      /\ cur.addr # cur.start => cur.start \in DOMAIN ir.bbOf
      /\ DecodedHere # {} =>
           /\ Open(ir, Max(DecodedHere)) /\ ir.end[Max(DecodedHere)] = cur.addr
           /\ NoFunctionInside(ir) => Linked(ir, cur.start, Max(DecodedHere))
  BY <1>2 DEF FlowInv, Layout
<1>5. \A x \in DOMAIN ir.bbOf :
        /\ x \in Nat /\ ir.bbOf[x] \in Blocks(ir) /\ ir.bbOf[x] <= x
        /\ ir.bbOf[x] \in DOMAIN ir.bbOf /\ ir.bbOf[ir.bbOf[x]] = ir.bbOf[x]
  BY <1>4 DEF Structure, InsnsOk
<1>6. PICK bb : bb = InsertBlock
  OBVIOUS
<1>7. /\ bb \in Blocks(ir) /\ bb <= a /\ (bb # a => bb \in DOMAIN ir.bbOf /\ ir.bbOf[bb] = bb)
      /\ \A x \in DOMAIN ir.bbOf : ir.bbOf[x] = bb => x <= a
      /\ \A e \in ir.edges : ir.bbOf[e.at] # bb
  <2>1. CASE DecodedHere = {}
    <3>1. bb = a /\ bb \in Blocks(ir)
      BY <1>2, <1>4, <1>6, <2>1, LastDecoded DEF InsertBlock
    <3>2. \A x \in DOMAIN ir.bbOf : ir.bbOf[x] # a
      BY <1>3, <1>5
    <3>3. \A e \in ir.edges : e.at \in DOMAIN ir.bbOf
      BY <1>4 DEF Structure, EdgesOk
    <3> QED
      BY <1>2, <3>1, <3>2, <3>3
  <2>2. CASE DecodedHere # {}
    <3>1. PICK m : m = Max(DecodedHere)
      OBVIOUS
    <3>2. m \in DOMAIN ir.bbOf /\ m < a /\ bb = ir.bbOf[m] /\ Open(ir, m)
      BY <1>2, <1>4, <1>6, <2>2, <3>1, LastDecoded DEF InsertBlock
    <3>3. bb \in Nat
      BY <1>4, <1>5, <3>2, BlocksOfLists DEF Structure
    <3> QED
      BY <1>2, <1>5, <3>2, <3>3 DEF Open, LastIn
  <2> QED
    BY <2>1, <2>2
<1>8. PICK g : g = Translated(a)
  OBVIOUS
<1>9. /\ HasParts(g) /\ g.fncs = ir.fncs /\ g.edges = ir.edges
      /\ g.end = With(ir.end, a, next)
      /\ DOMAIN g.bbOf = DOMAIN ir.bbOf \cup {a} /\ g.bbOf[a] = bb
      /\ \A x \in DOMAIN ir.bbOf : g.bbOf[x] = ir.bbOf[x]
  BY <1>1, <1>3, <1>4, <1>6, <1>8 DEF Translated, With, Structure, HasParts
<1>10. Blocks(g) = Blocks(ir)
  BY <1>9 DEF Blocks
<1>11. InsnsOk(g)
  BY <1>2, <1>5, <1>7, <1>9, <1>10 DEF InsnsOk
<1>12. Open(g, a)
  <2>1. LastIn(g, a)
    BY <1>2, <1>7, <1>9 DEF LastIn
  <2>2. \A e \in g.edges : g.bbOf[e.at] # g.bbOf[a]
    BY <1>4, <1>7, <1>9 DEF Structure, EdgesOk
  <2> QED
    BY <2>1, <2>2 DEF Open
<1>13. EdgesOk(g)
  <2>1. ASSUME NEW e \in g.edges
        PROVE  e.at \in DOMAIN g.bbOf /\ e.to \in Blocks(g) /\ LastIn(g, e.at)
    <3>1. e.at \in DOMAIN ir.bbOf /\ e.to \in Blocks(ir) /\ LastIn(ir, e.at)
      BY <1>4, <1>9 DEF Structure, EdgesOk
    <3>2. ir.bbOf[e.at] # bb
      BY <1>7, <1>9
    <3>3. LastIn(g, e.at)
      BY <1>9, <3>1, <3>2 DEF LastIn
    <3> QED
      BY <1>9, <1>10, <3>1, <3>3
  <2>2. \A e, d \in g.edges : e # d /\ e.at = d.at => {e.kind, d.kind} = {"true", "false"}
    BY <1>4, <1>9 DEF Structure, EdgesOk
  <2> QED
    BY <2>1, <2>2 DEF EdgesOk
<1>14. Structure(g)
  BY <1>4, <1>9, <1>11, <1>13 DEF Structure
<1>15. /\ DOMAIN ir.end = DOMAIN ir.bbOf /\ DOMAIN g.end = DOMAIN g.bbOf /\ g.end[a] = next
       /\ \A x \in DOMAIN ir.bbOf : g.end[x] = ir.end[x]
  BY <1>3, <1>4, <1>9 DEF With, Code, BytesOk
<1>16. Code(g)
  <2>1. BytesOk(g)
    <3>1. \A x \in DOMAIN g.end : g.end[x] \in Nat /\ x < g.end[x]
      BY <1>2, <1>9, <1>15
    <3>2. \A x, y \in DOMAIN ir.bbOf : x < y => g.end[x] <= y
      BY <1>4, <1>15 DEF Code, BytesOk
    <3>3. \A x \in DOMAIN ir.bbOf : (x < a => g.end[x] <= a) /\ (a < x => g.end[a] <= x)
      BY <1>2, <1>15
    <3> QED
      BY <1>2, <1>9, <1>15, <3>1, <3>2, <3>3 DEF BytesOk
  <2>2. ASSUME NEW z \in DOMAIN ir.bbOf, ir.bbOf[z] <= a, a <= z PROVE FALSE
    <3>1. PICK w \in DOMAIN ir.bbOf : w <= a /\ a < ir.end[w]
      BY <1>2, <1>4, <2>2 DEF Code, Solid
    <3> QED
      BY <1>2, <1>15, <3>1
  <2>3. /\ \A w \in DOMAIN ir.bbOf : bb <= w /\ w < a => ir.bbOf[w] = bb
        /\ \A p \in Nat : bb <= p /\ p < a =>
             \E w \in DOMAIN ir.bbOf : w <= p /\ p < ir.end[w]
    <3>1. CASE DecodedHere = {}
      <4>1. bb = a
        BY <1>2, <1>4, <1>6, <3>1, LastDecoded DEF InsertBlock
      <4> QED
        BY <1>2, <1>5, <4>1
    <3>2. CASE DecodedHere # {}
      <4>1. PICK m : m = Max(DecodedHere)
        OBVIOUS
      <4>2. m \in DOMAIN ir.bbOf /\ m < a /\ bb = ir.bbOf[m] /\ ir.end[m] = a /\ m \in Nat
        BY <1>2, <1>4, <1>5, <1>6, <3>2, <4>1, LastDecoded DEF InsertBlock
      <4>3. \A w \in DOMAIN ir.bbOf : w < a => w <= m
        BY <1>2, <1>4, <1>5, <1>15, <4>2 DEF Code, BytesOk
      <4>4. \A w \in DOMAIN ir.bbOf : bb <= w /\ w < a => ir.bbOf[w] = bb
        BY <1>4, <4>2, <4>3 DEF Code, Solid
      <4>5. ASSUME NEW p \in Nat, bb <= p, p < a
            PROVE  \E w \in DOMAIN ir.bbOf : w <= p /\ p < ir.end[w]
        <5>1. CASE p <= m
          BY <1>4, <4>2, <4>5, <5>1 DEF Code, Solid
        <5>2. CASE m < p
          BY <4>2, <4>5, <5>2
        <5> QED
          BY <4>2, <4>5, <5>1, <5>2
      <4> QED
        BY <4>4, <4>5
    <3> QED
      BY <3>1, <3>2
  <2>4. ASSUME NEW z \in DOMAIN g.bbOf
        PROVE  /\ \A w \in DOMAIN g.bbOf :
                    g.bbOf[z] <= w /\ w <= z => g.bbOf[w] = g.bbOf[z]
               /\ \A p \in Nat : g.bbOf[z] <= p /\ p <= z =>
                    \E w \in DOMAIN g.bbOf : w <= p /\ p < g.end[w]
    <3>1. CASE z = a
      <4>1. \A w \in DOMAIN g.bbOf : w \in Nat /\ (w # a => w \in DOMAIN ir.bbOf)
        BY <1>2, <1>5, <1>9
      <4>2. \A w \in DOMAIN g.bbOf : bb <= w /\ w <= a => g.bbOf[w] = bb
        BY <1>2, <1>9, <2>3, <4>1
      <4>3. ASSUME NEW p \in Nat, bb <= p, p <= a
            PROVE  \E w \in DOMAIN g.bbOf : w <= p /\ p < g.end[w]
        <5>1. CASE p = a
          BY <1>2, <1>9, <1>15, <5>1
        <5>2. CASE p < a
          BY <1>9, <1>15, <2>3, <4>3, <5>2
        <5> QED
          BY <1>2, <4>3, <5>1, <5>2
      <4> QED
        BY <1>9, <3>1, <4>2, <4>3
    <3>2. CASE z \in DOMAIN ir.bbOf
      <4>1. \A w \in DOMAIN ir.bbOf :
              ir.bbOf[z] <= w /\ w <= z => ir.bbOf[w] = ir.bbOf[z]
        BY <1>4, <3>2 DEF Code, Solid
      <4>2. \A w \in DOMAIN g.bbOf : g.bbOf[z] <= w /\ w <= z => g.bbOf[w] = g.bbOf[z]
        BY <1>9, <2>2, <3>2, <4>1
      <4>3. \A p \in Nat : ir.bbOf[z] <= p /\ p <= z =>
              \E w \in DOMAIN ir.bbOf : w <= p /\ p < ir.end[w]
        BY <1>4, <3>2 DEF Code, Solid
      <4>4. \A p \in Nat : g.bbOf[z] <= p /\ p <= z =>
              \E w \in DOMAIN g.bbOf : w <= p /\ p < g.end[w]
        BY <1>9, <1>15, <3>2, <4>3
      <4> QED
        BY <4>2, <4>4
    <3> QED
      BY <1>9, <3>1, <3>2
  <2>5. Falls(g)
    <3>1. \A e \in ir.edges : e.at \in DOMAIN ir.bbOf
      BY <1>4 DEF Structure, EdgesOk
    <3> QED
      BY <1>4, <1>9, <1>15, <3>1 DEF Code, Falls
  <2> QED
    BY <2>1, <2>4, <2>5 DEF Code, Solid
<1>17. /\ \A b : FncOf(g, b) = FncOf(ir, b)
       /\ NoFunctionInside(g) => NoFunctionInside(ir)
  <2>1. \A b : Inside(ir, b) => Inside(g, b)
    BY <1>9, <1>15 DEF Inside
  <2> QED
    BY <1>9, <2>1 DEF FncOf, NoFunctionInside
<1>18. \A e \in Seams(ir) : e \in Seams(g) /\ e.at \in DOMAIN ir.bbOf /\ g.bbOf[e.at] = ir.bbOf[e.at]
  <2>1. \A e \in ir.edges : e.at \in DOMAIN ir.bbOf
    BY <1>4 DEF Structure, EdgesOk
  <2> QED
    BY <1>9, <1>15, <2>1 DEF Seams
<1>19. Sorted(ir) => Sorted(g)
  <2>1. \A b, c : Before(g, b, c) => Before(ir, b, c)
    BY <1>9 DEF Before, Blocks, FncOf, Pos, ListOf
  <2>2. \A b, c : Hidden(ir, c, b) => Hidden(g, c, b)
    BY <1>18 DEF Hidden
  <2> QED
    BY <2>1, <2>2 DEF Sorted
<1>20. Inner(ir) => Inner(g)
  <2>1. \A e \in ir.edges : e.at \in DOMAIN ir.bbOf
    BY <1>4 DEF Structure, EdgesOk
  <2> QED
    BY <1>9, <1>17, <2>1 DEF Inner
<1>21. Layout(g)
  BY <1>4, <1>14, <1>16, <1>17, <1>19, <1>20 DEF Layout
<1>22. ASSUME NoFunctionInside(g) PROVE Linked(g, cur.start, a)
  <2>1. CASE DecodedHere = {}
    <3>1. cur.start = a /\ bb = a
      BY <1>2, <1>4, <1>6, <2>1, LastDecoded DEF InsertBlock
    <3> QED
      BY <1>2, <1>9, <3>1 DEF Linked, Full
  <2>2. CASE DecodedHere # {}
    <3>1. PICK m : m = Max(DecodedHere)
      OBVIOUS
    <3>2. m \in DOMAIN ir.bbOf /\ g.bbOf[a] = ir.bbOf[m]
      BY <1>2, <1>4, <1>6, <1>9, <2>2, <3>1, LastDecoded DEF InsertBlock
    <3>3. Linked(ir, cur.start, m)
      BY <1>4, <1>17, <1>22, <2>2, <3>1
    <3>4. Full(g, cur.start)
      BY <1>9, <3>3 DEF Linked, Full
    <3>5. /\ a \in DOMAIN g.bbOf /\ cur.start <= g.bbOf[a]
          /\ FncOf(g, cur.start) = FncOf(g, g.bbOf[a])
      BY <1>9, <1>17, <3>2, <3>3 DEF Linked
    <3>6. \A p \in Nat : cur.start < p /\ p <= g.bbOf[a] =>
            \E e \in Seams(g) : Over(g, e, p) /\ FncOf(g, e.to) = FncOf(g, cur.start)
      BY <1>17, <1>18, <3>2, <3>3 DEF Linked, Over
    <3> QED
      BY <3>4, <3>5, <3>6 DEF Linked
  <2> QED
    BY <2>1, <2>2
<1> QED
  BY <1>1, <1>8, <1>9, <1>10, <1>12, <1>15, <1>21, <1>22

\* One turn of the loop: the block of the instruction is open afterwards, or the
\* decoding of the target ends.
LEMMA TranslateFlow == IInv /\ FlowInv /\ Translate => FlowInv'
<1> SUFFICES ASSUME IInv, FlowInv, Translate PROVE FlowInv'
  OBVIOUS
<1>1. PICK a : a = cur.addr
  OBVIOUS
<1>2. PICK next : next = EndOf(a)
  OBVIOUS
<1>3. PICK g : g = Translated(a)
  OBVIOUS
<1>4. PICK x : x = InsnEffect(g, a, input.insn[a].t)
  OBVIOUS
<1>5. /\ a \in Nat /\ next \in Nat /\ a < next /\ input.insn[a].t \in Nat /\ CurOK
      /\ \A b \in DOMAIN ir.end :
           /\ b \in Nat /\ ir.end[b] \in Nat /\ b < ir.end[b]
           /\ ir.end[b] <= a \/ next <= b
  BY <1>1, <1>2, TranslatesFreeBytes
<1>6. /\ Layout(g) /\ Open(g, a) /\ g.end[a] = next
      /\ DOMAIN g.bbOf = DOMAIN ir.bbOf \cup {a} /\ Blocks(g) = Blocks(ir)
      /\ NoFunctionInside(g) => Linked(g, cur.start, a)
  BY <1>1, <1>2, <1>3, TranslatedFlow
<1>7. EffectOk(g, x)
  BY <1>2, <1>4, <1>5, <1>6, EffectsLay
<1>8. /\ ir' = x.ir
      /\ cur' = [start |-> cur.start, addr |-> next, end |-> x.end, bb |-> cur.bb]
      /\ pc' = IF x.stop THEN "next" ELSE "translate"
  <2>1. TakesEffect(x, next)
    BY <1>1, <1>2, <1>3, <1>4, TranslateStep
  <2> QED
    BY <2>1 DEF TakesEffect
<1>9. Layout(ir') /\ (x.stop \/ Lays(g, ir'))
  BY <1>7, <1>8 DEF EffectOk
<1>10. CASE x.stop
  BY <1>8, <1>9, <1>10 DEF FlowInv
<1>11. CASE ~x.stop
  <2>a. /\ DOMAIN ir'.bbOf = DOMAIN ir.bbOf \cup {a} /\ Blocks(ir) \subseteq Blocks(ir')
        /\ Open(ir', a) /\ ir'.end[a] = next
        /\ NoFunctionInside(ir') => Linked(ir', cur.start, a)
    BY <1>6, <1>9, <1>11 DEF Lays, Keeps
  <2>1. /\ cur.bb = cur.start /\ cur.bb \in Blocks(ir) /\ cur.start \in Nat
        /\ cur.start <= a
        /\ cur.addr # cur.start => cur.start \in DOMAIN ir.bbOf
    BY <1>1, <1>5 DEF FlowInv, Translate, CurOK
  <2>2. /\ cur'.start = cur.start /\ cur'.bb = cur.bb /\ cur'.addr = next
    BY <1>8
  <2>3. cur.start \in DOMAIN ir'.bbOf
    BY <1>1, <2>a, <2>1
  <2>4. /\ a \in DecodedHere' /\ DecodedHere' \in SUBSET Nat
        /\ \A b \in DecodedHere' : b <= a
    <3>1. DecodedHere' = {b \in DOMAIN ir'.bbOf : cur.start <= b /\ b < next}
      BY <2>2 DEF DecodedHere
    <3>2. DOMAIN ir.bbOf = DOMAIN ir.end
      BY DEF IInv, TypeOK
    <3>3. \A b \in DOMAIN ir.bbOf : b \in Nat /\ (b < next => b <= a)
      BY <1>5, <3>2
    <3> QED
      BY <1>5, <2>a, <2>1, <3>1, <3>3
  <2>5. Max(DecodedHere') = a
    <3> SUFFICES ASSUME NEW S, S = DecodedHere' PROVE Max(S) = a
      OBVIOUS
    <3>1. S \in SUBSET Nat /\ S # {} /\ a \in S /\ \A b \in S : b <= a
      BY <2>4
    <3>2. Max(S) \in S /\ \A b \in S : b <= Max(S)
      BY <1>5, <3>1, MaxOfNats
    <3>3. Max(S) \in Nat /\ Max(S) <= a /\ a <= Max(S)
      BY <3>1, <3>2
    <3> QED
      BY <1>5, <3>3
  <2>6. /\ Open(ir', Max(DecodedHere')) /\ ir'.end[Max(DecodedHere')] = cur'.addr
        /\ NoFunctionInside(ir') => Linked(ir', cur'.start, Max(DecodedHere'))
    BY <2>a, <2>2, <2>5
  <2> QED
    BY <1>9, <2>a, <2>1, <2>2, <2>3, <2>6 DEF FlowInv
<1> QED
  BY <1>10, <1>11

\* A branch to the block that was reached ends the open block.
LEMMA TranslateFailsFlow == IInv /\ FlowInv /\ TranslateFails => FlowInv'
<1> SUFFICES ASSUME IInv, FlowInv, TranslateFails PROVE FlowInv'
  OBVIOUS
<1>1. /\ pc = "translate" /\ pc' = "next" /\ CurOK /\ Layout(ir) /\ Structure(ir)
      /\ cur.bb = cur.start /\ cur.bb \in Blocks(ir)
      /\ cur.addr # cur.start => cur.start \in DOMAIN ir.bbOf
      /\ DecodedHere # {} =>
           /\ Open(ir, Max(DecodedHere))
           /\ NoFunctionInside(ir) => Linked(ir, cur.start, Max(DecodedHere))
  BY DEF TranslateFails, IInv, FlowInv, Layout
<1>2. PICK m : m = Max(DecodedHere)
  OBVIOUS
<1>3. CASE /\ cur.addr \in Blocks(ir) /\ cur.addr # cur.bb
           /\ FncOf(ir, cur.addr) = FncOf(ir, cur.bb)
  <2>1. /\ m \in DOMAIN ir.bbOf /\ Open(ir, m)
        /\ NoFunctionInside(ir) => Linked(ir, cur.start, m)
    BY <1>1, <1>2, <1>3, LastDecoded
  <2>2. PICK e : e = Edge(m, cur.addr, "br")
    OBVIOUS
  <2>3. e.at = m /\ e.to = cur.addr /\ e.kind = "br"
    BY <2>2 DEF Edge
  <2>4. BranchesOf(ir, {e}, m)
    BY <1>3, <2>3 DEF BranchesOf
  <2>5. BranchInner(ir, e, m)
    <3> SUFFICES ASSUME NoFunctionInside(ir)
                 PROVE  /\ FncOf(ir, cur.addr) = FncOf(ir, ir.bbOf[m])
                        /\ cur.addr # FncOf(ir, cur.addr)
      BY <2>3 DEF BranchInner
    <3>1. Full(ir, cur.start) /\ FncOf(ir, cur.start) = FncOf(ir, ir.bbOf[m])
      BY <2>1 DEF Linked
    <3>2. FncOf(ir, cur.start) \in Nat /\ FncOf(ir, cur.start) <= cur.start
      BY <1>1, <3>1, FullBehindFunction DEF Layout
    <3> QED
      BY <1>1, <1>3, <3>1, <3>2 DEF CurOK
  <2>6. Layout(AddEdges(ir, {e}))
    BY <1>1, <2>1, <2>4, <2>5, BranchesLay
  <2>7. ir' = AddEdges(ir, {e})
    BY <1>2, <1>3, <2>2 DEF TranslateFails
  <2> QED
    BY <1>1, <2>6, <2>7 DEF FlowInv
<1>4. CASE ~(/\ cur.addr \in Blocks(ir) /\ cur.addr # cur.bb
             /\ FncOf(ir, cur.addr) = FncOf(ir, cur.bb))
  <2>1. ir' = ir
    BY <1>4 DEF TranslateFails
  <2> QED
    BY <1>1, <2>1 DEF FlowInv
<1> QED
  BY <1>3, <1>4

\* Every step preserves the invariant.
LEMMA NextFlow == IInv /\ FlowInv /\ [Next]_vars => FlowInv'
<1> SUFFICES ASSUME IInv, FlowInv, [Next]_vars PROVE FlowInv'
  OBVIOUS
<1>1. ASSUME ir' = ir, pc' # "translate" PROVE FlowInv'
  BY <1>1 DEF FlowInv
<1>2. CASE GetJumpTarget
  BY <1>1, <1>2 DEF GetJumpTarget
<1>3. CASE SkipImport
  BY <1>1, <1>3 DEF SkipImport
<1>4. CASE SkipNoRange
  BY <1>1, <1>4 DEF SkipNoRange
<1>5. CASE DecodeJumpTarget
  <2>1. CASE \E n \in {SkipSize(DecodeEnd)} : SkipDryRun(n)
    BY <1>1, <2>1 DEF SkipDryRun
  <2>2. CASE Begin(DecodeEnd, StartBlock)
    BY <1>5, <2>2, BeginFlow DEF DecodeJumpTarget
  <2> QED
    BY <1>5, <2>1, <2>2 DEF DecodeJumpTarget
<1>6. CASE Translate
  BY <1>6, TranslateFlow
<1>7. CASE TranslateFails
  BY <1>7, TranslateFailsFlow
<1>8. CASE Finish
  BY <1>1, <1>8 DEF Finish
<1>9. CASE UNCHANGED vars
  BY <1>9 DEF vars, FlowInv, DecodedHere
<1> QED
  BY <1>2, <1>3, <1>4, <1>5, <1>6, <1>7, <1>8, <1>9 DEF Next, Stopped

\* The structure and the layout are kept in every state the decoder reaches.
THEOREM FlowInvariance == Spec => []FlowInv
<1>1. Init => FlowInv
  BY InitFlow
<1>2. IInv /\ FlowInv /\ [Next]_vars => FlowInv'
  BY NextFlow
<1> QED
  BY <1>1, <1>2, Invariance, PTL DEF Spec

\* A list without repetitions has as many elements as places.
LEMMA ListCardinality ==
  ASSUME NEW f, NEW s, BlockList(f, s)
  PROVE  Cardinality(ToSet(s)) = Len(s)
<1>1. s \in Seq(Nat) /\ Len(s) \in Nat /\ DOMAIN s = 1..Len(s)
  BY DEF BlockList
<1>2. s \in Bijection(1..Len(s), ToSet(s))
  <2>1. s \in [1..Len(s) -> ToSet(s)]
    BY <1>1 DEF ToSet
  <2>2. IsInjective(s)
    BY <1>1 DEF IsInjective, BlockList
  <2>3. \A x \in ToSet(s) : \E i \in 1..Len(s) : s[i] = x
    BY <1>1, ElementsOfList
  <2> QED
    BY <2>1, <2>2, <2>3 DEF Bijection, Injection, Surjection
<1>3. ExistsBijection(1..Len(s), ToSet(s))
  BY <1>2, Zenon DEF ExistsBijection
<1>4. IsFiniteSet(1..Len(s)) /\ Cardinality(1..Len(s)) = Len(s)
  <2>1. \A n \in Int : /\ IsFiniteSet(1..n)
                      /\ Cardinality(1..n) = IF 1 > n THEN 0 ELSE n - 1 + 1
    BY FS_Interval
  <2> QED
    BY <1>1, <2>1
<1> QED
  BY <1>3, <1>4, FS_Bijection

\* However often functions are split, for every binary: they share no block and
\* list none twice, each begins with the block at its own address, and the
\* instructions and branches are in blocks of the module.
THEOREM BlocksAreOwned == Spec => []FunctionsOwnBlocks
<1>1. FlowInv => FunctionsOwnBlocks
  <2> SUFFICES ASSUME FlowInv PROVE FunctionsOwnBlocks
    OBVIOUS
  <2>1. ListsOk(ir.fncs) /\ InsnsOk(ir) /\ EdgesOk(ir)
    BY DEF FlowInv, Layout, Structure
  <2>2. ASSUME NEW f \in DOMAIN ir.fncs
        PROVE  /\ Cardinality(ToSet(ir.fncs[f])) = Len(ir.fncs[f])
               /\ ir.fncs[f] # <<>> => Head(ir.fncs[f]) = f
               /\ \A g \in DOMAIN ir.fncs \ {f} :
                    ToSet(ir.fncs[f]) \cap ToSet(ir.fncs[g]) = {}
    <3>1. BlockList(f, ir.fncs[f])
      BY <2>1 DEF ListsOk
    <3>2. Cardinality(ToSet(ir.fncs[f])) = Len(ir.fncs[f])
      BY <3>1, ListCardinality
    <3>3. ir.fncs[f] # <<>> => Head(ir.fncs[f]) = f
      BY <3>1 DEF BlockList
    <3> QED
      BY <2>1, <3>2, <3>3 DEF ListsOk
  <2> QED
    BY <2>1, <2>2 DEF FunctionsOwnBlocks, InsnsOk, EdgesOk
<1> QED
  BY <1>1, FlowInvariance, PTL

\* No block ever gets a second terminator, wherever splits have moved the block
\* that is decoded into: two branches of a block are those of one conditional
\* jump.
THEOREM BlocksEndOnce == Spec => []OneTerminator
<1>1. FlowInv => OneTerminator
  <2> SUFFICES ASSUME FlowInv, NEW e \in ir.edges, NEW d \in ir.edges,
                      e # d, ir.bbOf[e.at] = ir.bbOf[d.at]
               PROVE  e.at = d.at /\ {e.kind, d.kind} = {"true", "false"}
    BY DEF OneTerminator
  <2>1. InsnsOk(ir) /\ EdgesOk(ir)
    BY DEF FlowInv, Layout, Structure
  <2>2. /\ e.at \in DOMAIN ir.bbOf /\ d.at \in DOMAIN ir.bbOf
        /\ LastIn(ir, e.at) /\ LastIn(ir, d.at)
    BY <2>1 DEF EdgesOk
  <2>3. e.at \in Nat /\ d.at \in Nat /\ e.at <= d.at /\ d.at <= e.at
    BY <2>1, <2>2 DEF InsnsOk, LastIn
  <2>4. e.at = d.at
    BY <2>3
  <2> QED
    BY <2>1, <2>4 DEF EdgesOk
<1> QED
  BY <1>1, FlowInvariance, PTL

\* The block lists stay in the order of the addresses that canSplitFunctionOn
\* relies on, for every binary, but for blocks that begin inside of the code of
\* others, as long as no function begins at one of those.
THEOREM BlocksStayInOrder == Spec => []BlocksInOrder
<1>1. FlowInv => BlocksInOrder
  <2> SUFFICES ASSUME FlowInv, NoFunctionInside(ir), NEW f \in DOMAIN ir.fncs,
                      NEW i \in 1..Len(ir.fncs[f]), NEW j \in 1..Len(ir.fncs[f]),
                      i < j, ir.fncs[f][j] < ir.fncs[f][i]
               PROVE  Hidden(ir, ir.fncs[f][j], ir.fncs[f][i])
    BY DEF BlocksInOrder
  <2>1. ListsOk(ir.fncs) /\ Sorted(ir)
    BY DEF FlowInv, Layout, Structure
  <2>2. Before(ir, ir.fncs[f][i], ir.fncs[f][j])
    BY <2>1, PlaceInList DEF Before
  <2> QED
    BY <2>1, <2>2 DEF Sorted
<1> QED
  BY <1>1, FlowInvariance, PTL

\* As long, no branch ever leaves its function, whatever splits have moved: the
\* branches that splitFunctionOn does not replace stay inside of one part.
THEOREM BranchesStayInside == Spec => []EdgesInFunction
<1>1. FlowInv => EdgesInFunction
  BY DEF FlowInv, Layout, Inner, EdgesInFunction, SuccessorsInFunction, FncAt
<1> QED
  BY <1>1, FlowInvariance, PTL

\* As long, no branch ever leads to the entry block of a function, also when its
\* target became the first block by a split.
THEOREM EntriesHaveNoPredecessor == Spec => []EntryHasNoPredecessor
<1>1. FlowInv => EntryHasNoPredecessor
  <2> SUFFICES ASSUME FlowInv, NoFunctionInside(ir), NEW e \in ir.edges
               PROVE  ~IsFirst(ir, e.to)
    BY DEF EntryHasNoPredecessor
  <2>1. ListsOk(ir.fncs) /\ e.to \in Blocks(ir) /\ e.to # FncOf(ir, e.to)
    BY DEF FlowInv, Layout, Structure, EdgesOk, Inner
  <2> QED
    BY <2>1, OrderOfBlocks
<1> QED
  BY <1>1, FlowInvariance, PTL

-----------------------------------------------------------------------------
(* Where the effects of the instructions create blocks *)

\* What the instruction at a with the target t does: blocks begin at its target
\* and behind it, and its own branches are added.
Spreads(g, h, a, t) ==
  /\ Blocks(g) \subseteq Blocks(h) /\ Blocks(h) \subseteq Blocks(g) \cup {t, EndOf(a)}
  /\ h.end = g.end
  /\ \A e \in h.edges \ g.edges : e.at = a \/ (e.kind = "br" /\ e.to = g.end[e.at])
  /\ Agrees(g) => Agrees(h)

\* Growing for the target, and adding branches.
LEMMA BranchesSpread ==
  ASSUME NEW g, NEW h, Layout(h), NEW a, NEW t, Spreads(g, h, a, t), NEW S,
         \A e \in S : e.at = a
  PROVE  Spreads(g, AddEdges(h, S), a, t)
<1>1. PICK k : k = AddEdges(h, S)
  OBVIOUS
<1>2. /\ k.fncs = h.fncs /\ k.bbOf = h.bbOf /\ k.end = h.end /\ k.edges = h.edges \cup S
  BY <1>1 DEF AddEdges, Layout, Structure, HasParts
<1>3. Blocks(k) = Blocks(h)
  BY <1>2 DEF Blocks
<1>4. Agrees(k) <=> Agrees(h)
  BY <1>2, <1>3 DEF Agrees, Aligned, Heads, Full
<1> QED
  BY <1>1, <1>2, <1>3, <1>4 DEF Spreads

EffectSpreads(g, x, a, t) == Spreads(g, x.ir, a, t)

\* Every instruction creates blocks and branches at these places only, and keeps
\* the agreement.
LEMMA EffectsSpread ==
  ASSUME NEW g, Layout(g), NEW a \in DOMAIN g.bbOf, NEW t \in Nat, EndOf(a) \in Nat,
         NEW top, Bounded(g, top)
  PROVE  EffectSpreads(g, InsnEffect(g, a, t), a, t)
<1>1. Spreads(g, g, a, t)
  BY DEF Spreads
<1>2. ASSUME NEW h, Spreads(g, h, a, t), NEW js, NEW e, NEW stop
      PROVE  EffectSpreads(g, Effect(h, js, e, stop), a, t)
  BY <1>2 DEF Effect, EffectSpreads
<1>3. EffectSpreads(g, CallEffect(g, a, t), a, t)
  <2>1. PICK r : r = GetOrCreateCallTarget(g, t)
    OBVIOUS
  <2>2. Grows(g, r.ir, t) /\ Layout(r.ir)
    BY <2>1, CallTargetGrows, CallTargetLays DEF ResultOk, Lays
  <2>3. Spreads(g, r.ir, a, t)
    BY <2>2 DEF Grows, Spreads
  <2>4. \A e \in {Edge(a, r.bb, "br")} : e.at = a
    BY DEF Edge
  <2>5. Spreads(g, AddEdges(r.ir, {Edge(a, r.bb, "br")}), a, t)
    BY <2>2, <2>3, <2>4, BranchesSpread
  <2>6. EffectSpreads(g, CallTo(r, a, t), a, t)
    BY <1>2, <2>3, <2>5 DEF CallTo
  <2> QED
    BY <1>1, <1>2, <2>1, <2>6 DEF CallEffect
<1>4. EffectSpreads(g, BranchEffect(g, a, t), a, t)
  <2>1. PICK r : r = GetOrCreateBranchTarget(g, t, FncAt(g, a))
    OBVIOUS
  <2>2. Grows(g, r.ir, t) /\ Layout(r.ir)
    BY <2>1, BranchTargetGrows, BranchTargetLays DEF ResultOk, Lays
  <2>3. Spreads(g, r.ir, a, t)
    BY <2>2 DEF Grows, Spreads
  <2>4. \A e \in {Edge(a, r.bb, "br")} : e.at = a
    BY DEF Edge
  <2>5. Spreads(g, AddEdges(r.ir, {Edge(a, r.bb, "br")}), a, t)
    BY <2>2, <2>3, <2>4, BranchesSpread
  <2>6. EffectSpreads(g, BranchTo(r, a, t), a, t)
    BY <1>2, <2>3, <2>5 DEF BranchTo
  <2> QED
    BY <1>1, <1>2, <2>1, <2>6 DEF BranchEffect
<1>5. EffectSpreads(g, CondBranchEffect(g, a, t), a, t)
  <2>1. PICK r : r = GetOrCreateBranchTarget(g, t, FncAt(g, a))
    OBVIOUS
  <2>2. PICK n : n = GetOrCreateBranchTarget(r.ir, EndOf(a), FncAt(r.ir, a))
    OBVIOUS
  <2>3. PICK f : f = FncAt(n.ir, a)
    OBVIOUS
  <2>4. Grows(g, r.ir, t) /\ Layout(r.ir) /\ Bounded(r.ir, top)
    <3>1. Lays(g, r.ir)
      BY <2>1, BranchTargetLays DEF ResultOk
    <3>2. Bounded(r.ir, top)
      BY <3>1 DEF Lays, Keeps, Bounded
    <3> QED
      BY <2>1, <3>1, <3>2, BranchTargetGrows DEF Lays
  <2>5. Grows(r.ir, n.ir, EndOf(a)) /\ Layout(n.ir)
    BY <2>2, <2>4, BranchTargetGrows, BranchTargetLays DEF ResultOk, Lays
  <2>6. Spreads(g, n.ir, a, t)
    BY <2>4, <2>5 DEF Grows, Spreads
  <2>7. ASSUME NEW S, \A e \in S : e.at = a PROVE Spreads(g, AddEdges(n.ir, S), a, t)
    BY <2>5, <2>6, <2>7, BranchesSpread
  <2>8. /\ Spreads(g, AddEdges(n.ir, {Edge(a, r.bb, "true"), Edge(a, n.bb, "false")}), a, t)
        /\ Spreads(g, AddEdges(n.ir, {Edge(a, n.bb, "condcall")}), a, t)
    BY <2>7 DEF Edge
  <2>9. EffectSpreads(g, CondBranchTo(r, n, a, t, f), a, t)
    BY <1>2, <2>6, <2>8 DEF CondBranchTo
  <2>10. CondBranchNext(r, a, t) = CondBranchTo(r, n, a, t, f)
    BY <2>2, <2>3 DEF CondBranchNext
  <2> QED
    BY <1>1, <1>2, <2>1, <2>9, <2>10 DEF CondBranchEffect
<1>6. EffectSpreads(g, LoadEffect(g, a, t), a, t)
  BY <1>1 DEF LoadEffect, Effect, EffectSpreads
<1>7. EffectSpreads(g, HaltEffect(g, a), a, t) /\ EffectSpreads(g, SyscallEffect(g, a), a, t)
  BY <1>1, <1>2 DEF HaltEffect, SyscallEffect
<1> QED
  BY <1>1, <1>2, <1>3, <1>4, <1>5, <1>6, <1>7 DEF InsnEffect

\* No block begins from p on up to e.
Clear(g, p, e) == \A b \in Blocks(g) : p <= b => e <= b

\* The module while the instruction at a is translated: nothing is there yet in
\* the bytes that are still to be decoded, and the look-ups agree.
AtInsn(g, a, next, t) ==
  /\ Layout(g) /\ Aligned(g) /\ Heads(g) /\ a \in DOMAIN g.bbOf /\ t \in Nat
  /\ next \in Nat /\ g.end[a] = next /\ next = EndOf(a) /\ cur.end \in Nat
  /\ Clear(g, next, cur.end)
  /\ \A z \in DOMAIN g.bbOf : next <= z => cur.end <= z
  /\ \E top : Bounded(g, top)

\* The block before what is still to be decoded is the one of the instruction.
LEMMA BlockBehindInsn ==
  ASSUME NEW g, Layout(g), Aligned(g), Heads(g), NEW a \in DOMAIN g.bbOf,
         NEW next \in Nat, g.end[a] = next, NEW e \in Nat, Clear(g, next, e),
         NEW s \in Nat, next <= s, s < e
  PROVE  GetBasicBlockBeforeAddress(g, s) = g.bbOf[a]
<1>1. /\ Structure(g) /\ Code(g)
      /\ a \in Nat /\ g.bbOf[a] \in Blocks(g) /\ g.bbOf[a] <= a /\ a < next
      /\ \A b \in Blocks(g) : b \in Nat
  BY BlocksOfLists DEF Layout, Structure, InsnsOk, Code, BytesOk
<1>2. PICK d : d = GetBasicBlockBeforeAddress(g, s)
  OBVIOUS
<1>3. d \in Blocks(g) /\ d <= s /\ g.bbOf[a] <= d
  BY <1>1, <1>2, BlockBeforeAddress
<1>4. d < next
  BY <1>1, <1>3 DEF Clear
<1>5. d <= g.bbOf[a]
  BY <1>1, <1>3, <1>4, NoBlockBetween
<1> QED
  BY <1>1, <1>2, <1>3, <1>5

\* A call clears the bytes ahead up to its target, or else its block ends: what is
\* given up has created no block there.
LEMMA CallAhead ==
  ASSUME NEW g, NEW a, NEW next, NEW t, AtInsn(g, a, next, t),
         NEW x, x = CallEffect(g, a, t), ~x.stop
  PROVE  Clear(x.ir, next, x.end)
<1>1. /\ Layout(g) /\ t \in Nat /\ next \in Nat /\ next = EndOf(a) /\ cur.end \in Nat
      /\ a \in DOMAIN g.bbOf /\ Clear(g, next, cur.end)
      /\ \A b \in Blocks(g) : b \in Nat
  BY BlocksOfLists DEF AtInsn, Layout, Structure
<1>2. CASE t = NoAddr \/ (a < t /\ t <= EndOf(a))
  <2>1. x = Effect(g, jumpTargets, cur.end, FALSE)
    BY <1>2 DEF CallEffect
  <2>2. x.ir = g /\ x.end = cur.end
    BY <2>1 DEF Effect
  <2> QED
    BY <1>1, <2>2
<1>3. CASE ~(t = NoAddr \/ (a < t /\ t <= EndOf(a)))
  <2>1. PICK r : r = GetOrCreateCallTarget(g, t)
    OBVIOUS
  <2>2. x = CallTo(r, a, t)
    BY <1>3, <2>1 DEF CallEffect
  <2>3. Blocks(r.ir) \subseteq Blocks(g) \cup {t}
    BY <1>1, <2>1, CallTargetGrows DEF AtInsn, Grows
  <2>4. CASE r.fnc # NoAddr
    <3>1. x.ir = r.ir /\ x.end = Trim(next, cur.end, t)
      BY <1>1, <2>2, <2>4 DEF CallTo, Effect
    <3>2. ASSUME NEW b \in Blocks(r.ir), next <= b PROVE x.end <= b
      BY <1>1, <2>3, <3>1, <3>2 DEF Trim, Clear
    <3> QED
      BY <3>1, <3>2 DEF Clear
  <2>5. CASE r.fnc = NoAddr
    <3>1. ~Branchable(r, FncAt(r.ir, a))
      BY <2>2, <2>5 DEF CallTo, Effect
    <3>2. x.ir = r.ir /\ x.end = cur.end
      BY <2>2, <2>5, <3>1 DEF CallTo, Effect
    <3>3. ASSUME next <= t, t < cur.end PROVE FALSE
      <4>1. t \notin Blocks(g) /\ t \notin DOMAIN g.bbOf /\ t \in Nat \ {0}
        BY <1>1, <1>3, <3>3 DEF AtInsn, Clear, NoAddr
      <4>2. /\ \E b \in Blocks(g) : b <= t
            /\ r.ir = CreateBlockAt(g, t) /\ r.bb = t
        BY <1>1, <2>1, <2>5, <4>1, NewCallTarget
      <4>3. PICK h : h = r.ir
        OBVIOUS
      <4>4. /\ h.bbOf = g.bbOf /\ ~IsFirst(h, t)
            /\ FncOf(h, t) = FncOf(g, GetBasicBlockBeforeAddress(g, t))
            /\ \A b \in Blocks(g) : FncOf(h, b) = FncOf(g, b)
        BY <1>1, <4>1, <4>2, <4>3, NewBlockFollows
      <4>5. GetBasicBlockBeforeAddress(g, t) = g.bbOf[a]
        BY <1>1, <3>3, BlockBehindInsn DEF AtInsn
      <4>6. g.bbOf[a] \in Blocks(g)
        BY <1>1 DEF Layout, Structure, InsnsOk
      <4>7. FncOf(h, t) = FncAt(h, a)
        BY <4>4, <4>5, <4>6 DEF FncAt
      <4>8. t # NoAddr
        BY <1>3
      <4> QED
        BY <3>1, <4>2, <4>3, <4>4, <4>7, <4>8 DEF Branchable
    <3>4. ASSUME NEW b \in Blocks(r.ir), next <= b PROVE cur.end <= b
      BY <1>1, <2>3, <3>3, <3>4 DEF Clear
    <3> QED
      BY <3>2, <3>4 DEF Clear
  <2> QED
    BY <2>4, <2>5
<1> QED
  BY <1>2, <1>3

\* The look-up for a branch to what is still to be decoded finds a block already
\* in the module, or makes one in the function of the instruction before.
LEMMA LookUpAhead ==
  ASSUME NEW g, NEW a, NEW next, NEW t, AtInsn(g, a, next, t), next < cur.end,
         NEW r, r = GetOrCreateBranchTarget(g, next, FncAt(g, a))
  PROVE  \/ r.ir = g
         \/ /\ r.bb = next /\ r.fnc = NoAddr /\ next \in Blocks(r.ir) /\ next # NoAddr
            /\ r.ir.bbOf = g.bbOf /\ ~IsFirst(r.ir, next)
            /\ FncOf(r.ir, next) = FncAt(r.ir, a)
            /\ \A b \in Blocks(g) : FncOf(r.ir, b) = FncOf(g, b)
<1>1. /\ Layout(g) /\ next \in Nat /\ a \in DOMAIN g.bbOf /\ Clear(g, next, cur.end)
      /\ cur.end \in Nat /\ a \in Nat /\ a < next
      /\ g.bbOf[a] \in Blocks(g) /\ g.bbOf[a] # NoAddr
  <2>1. /\ Layout(g) /\ next \in Nat /\ a \in DOMAIN g.bbOf /\ Clear(g, next, cur.end)
        /\ cur.end \in Nat /\ g.end[a] = next
    BY DEF AtInsn
  <2>2. a \in Nat /\ g.bbOf[a] \in Blocks(g) /\ g.bbOf[a] \in DOMAIN g.bbOf /\ a < next
    BY <2>1 DEF Layout, Structure, InsnsOk, Code, BytesOk
  <2>3. \A z \in DOMAIN g.bbOf : z # NoAddr
    BY DEF AtInsn, Bounded
  <2> QED
    BY <2>1, <2>2, <2>3
<1>2. next \notin Blocks(g) /\ next \notin DOMAIN g.bbOf /\ next \in Nat \ {0}
  BY <1>1 DEF AtInsn, Clear
<1>3. GetBasicBlockBeforeAddress(g, next) = g.bbOf[a]
  BY <1>1, BlockBehindInsn DEF AtInsn
<1>4. CASE r.ir = g
  BY <1>4
<1>5. CASE r.ir = CreateBlockAt(g, next) /\ r.bb = next /\ r.fnc = NoAddr
  <2>1. PICK h : h = r.ir
    OBVIOUS
  <2>2. /\ h.bbOf = g.bbOf /\ next \in Blocks(h) /\ ~IsFirst(h, next)
        /\ FncOf(h, next) = FncOf(g, GetBasicBlockBeforeAddress(g, next))
        /\ \A b \in Blocks(g) : FncOf(h, b) = FncOf(g, b)
    BY <1>1, <1>2, <1>3, <1>5, <2>1, NewBlockFollows
  <2>3. FncOf(h, next) = FncAt(h, a)
    BY <1>1, <1>3, <2>2 DEF FncAt
  <2> QED
    BY <1>2, <1>5, <2>1, <2>2, <2>3 DEF NoAddr
<1>6. FncAt(g, a) = FncOf(g, GetBasicBlockBeforeAddress(g, next))
  BY <1>3 DEF FncAt
<1> QED
  BY <1>1, <1>2, <1>3, <1>4, <1>5, <1>6, NewBranchTarget

\* The same look-up again finds the same.
LEMMA LookUpAgain ==
  ASSUME NEW h, NEW b, b \in Blocks(h), ~IsFirst(h, b), NEW f, f = FncOf(h, b), b # NoAddr,
         NEW n, n = GetOrCreateBranchTarget(h, b, f)
  PROVE  n.ir = h /\ n.bb = b
<1>1. PICK r : r = BranchBlock(h, b, f)
  OBVIOUS
<1>2. r.ir = h /\ r.bb = b /\ r.fnc = NoAddr
  BY <1>1 DEF BranchBlock, Result
<1>3. WithFunction(r) = r
  BY <1>2 DEF WithFunction
<1>4. n = r
  BY <1>1, <1>2, <1>3 DEF GetOrCreateBranchTarget, BranchTargetOf
<1> QED
  BY <1>2, <1>4

\* So does a conditional jump, but for one that was given up: a jump to itself or
\* to the next instruction finds both its blocks, and ends the block.
LEMMA CondAhead ==
  ASSUME NEW g, NEW a, NEW next, NEW t, AtInsn(g, a, next, t), Op(a) = "cond",
         NEW x, x = CondBranchEffect(g, a, t), ~x.stop, Aligned(x.ir)
  PROVE  \/ Clear(x.ir, next, x.end)
         \/ t \notin a..next \cup {NoAddr}
<1>1. /\ Layout(g) /\ t \in Nat /\ next \in Nat /\ next = EndOf(a) /\ cur.end \in Nat
      /\ a \in DOMAIN g.bbOf /\ Clear(g, next, cur.end) /\ Aligned(g) /\ Heads(g)
      /\ a \in Nat /\ a < next /\ g.end[a] = next
  BY DEF AtInsn, Layout, Structure, InsnsOk, Code, BytesOk
<1>2. PICK top : Bounded(g, top)
  BY DEF AtInsn
<1>3. CASE t = NoAddr \/ (a < t /\ t < EndOf(a))
  <2>1. x = Effect(g, jumpTargets, cur.end, FALSE)
    BY <1>3 DEF CondBranchEffect
  <2>2. x.ir = g /\ x.end = cur.end
    BY <2>1 DEF Effect
  <2> QED
    BY <1>1, <2>2
<1>4. CASE ~(t = NoAddr \/ (a < t /\ t < EndOf(a))) /\ t \in {a, next}
  <2>1. PICK r : r = GetOrCreateBranchTarget(g, t, FncAt(g, a))
    OBVIOUS
  <2>2. PICK k : k = r.ir
    OBVIOUS
  <2>3. PICK n : n = GetOrCreateBranchTarget(k, next, FncAt(k, a))
    OBVIOUS
  <2>4. PICK f : f = FncAt(n.ir, a)
    OBVIOUS
  <2>5. x = CondBranchTo(r, n, a, t, f)
    <3>1. CondBranchNext(r, a, t) = CondBranchTo(r, n, a, t, f)
      BY <1>1, <2>2, <2>3, <2>4 DEF CondBranchNext
    <3> QED
      BY <1>4, <2>1, <3>1 DEF CondBranchEffect
  <2>6. /\ x.ir = n.ir /\ x.end = cur.end
        /\ ~(/\ n.bb # NoAddr /\ FncOf(n.ir, n.bb) = f
             /\ Branchable(Result(n.ir, NoAddr, r.bb), f) \/ r.fnc # NoAddr)
    BY <2>5 DEF CondBranchTo, Effect
  <2>7. Grows(g, k, t) /\ Lays(g, k) /\ Layout(k) /\ Bounded(k, top)
    <3>1. Grows(g, k, t) /\ Lays(g, k)
      BY <1>1, <1>2, <2>1, <2>2, BranchTargetGrows, BranchTargetLays DEF ResultOk
    <3>2. DOMAIN k.bbOf = DOMAIN g.bbOf
      BY <3>1 DEF Lays, Keeps
    <3> QED
      BY <1>2, <3>1, <3>2 DEF Lays, Bounded
  <2>8. Grows(k, n.ir, next)
    BY <1>1, <2>3, <2>7, BranchTargetGrows
  <2>9. /\ k.end = g.end /\ DOMAIN k.bbOf = DOMAIN g.bbOf
        /\ Blocks(g) \subseteq Blocks(k) /\ Blocks(k) \subseteq Blocks(g) \cup {t}
        /\ Blocks(k) \subseteq Blocks(n.ir) /\ Blocks(n.ir) \subseteq Blocks(k) \cup {next}
        /\ n.ir.end = k.end /\ Agrees(k)
    BY <1>1, <2>7, <2>8 DEF Grows, Lays, Keeps, Agrees
  <2>10. Aligned(k) /\ Heads(k)
    <3>1. Aligned(k)
      BY <2>6, <2>9 DEF Aligned
    <3> QED
      BY <2>9, <3>1 DEF Agrees
  <2>11. \A b \in Blocks(k) \cup Blocks(g) : b \in Nat
    BY <2>7, <1>1, BlocksOfLists DEF Layout, Structure
  <2>12. CASE cur.end <= next
    <3>1. ASSUME NEW b \in Blocks(n.ir), next <= b PROVE cur.end <= b
      BY <1>1, <2>9, <2>11, <2>12, <3>1
    <3> QED
      BY <2>6, <3>1 DEF Clear
  <2>13. CASE next < cur.end /\ t = a
    <3>1. ASSUME NEW b \in Blocks(k), next <= b PROVE cur.end <= b
      BY <1>1, <2>9, <2>11, <2>13, <3>1 DEF Clear
    <3>2. AtInsn(k, a, next, t)
      <4>1. Clear(k, next, cur.end)
        BY <3>1 DEF Clear
      <4> QED
        BY <1>1, <2>7, <2>9, <2>10, <4>1 DEF AtInsn
    <3>3. CASE n.ir = k
      BY <2>6, <3>1, <3>3 DEF Clear
    <3>4. CASE /\ n.bb = next /\ n.fnc = NoAddr /\ next \in Blocks(n.ir) /\ next # NoAddr
               /\ n.ir.bbOf = k.bbOf /\ ~IsFirst(n.ir, next)
               /\ FncOf(n.ir, next) = FncAt(n.ir, a)
               /\ \A b \in Blocks(k) : FncOf(n.ir, b) = FncOf(k, b)
      <4>1. /\ r.bb = a /\ a \in Blocks(k) /\ FncOf(k, a) = FncOf(k, k.bbOf[a])
            /\ r.fnc # NoAddr \/ ~IsFirst(k, a)
        BY <1>1, <1>2, <2>1, <2>2, <2>13, OwnBranchTarget DEF FncAt
      <4>2. k.bbOf[a] \in Blocks(k)
        BY <1>1, <2>7, <2>9 DEF Layout, Structure, InsnsOk
      <4>3. FncOf(n.ir, a) = f
        BY <2>4, <3>4, <4>1, <4>2 DEF FncAt
      <4>4. ~IsFirst(k, a) => ~IsFirst(n.ir, a)
        <5>1. ListsOk(k.fncs) /\ ListsOk(n.ir.fncs)
          BY <1>1, <2>3, <2>7, BranchTargetLays DEF ResultOk, Lays, Layout, Structure
        <5>2. a \in Blocks(n.ir)
          BY <2>9, <4>1
        <5> QED
          BY <3>4, <4>1, <5>1, <5>2, OrderOfBlocks
      <4>5. a # NoAddr
        BY <1>1, <1>2 DEF Bounded
      <4>6. Branchable(Result(n.ir, NoAddr, r.bb), f) \/ r.fnc # NoAddr
        BY <4>1, <4>3, <4>4, <4>5 DEF Branchable, Result
      <4> QED
        BY <2>4, <2>6, <3>4, <4>6
    <3> QED
      BY <2>3, <2>13, <3>2, <3>3, <3>4, LookUpAhead
  <2>14. CASE next < cur.end /\ t = next
    <3>1. CASE k = g
      <4>1. n = r
        BY <2>1, <2>3, <2>14, <3>1
      <4> QED
        BY <1>1, <2>2, <2>6, <3>1, <4>1
    <3>2. CASE /\ r.bb = next /\ r.fnc = NoAddr /\ next \in Blocks(k) /\ next # NoAddr
               /\ k.bbOf = g.bbOf /\ ~IsFirst(k, next)
               /\ FncOf(k, next) = FncAt(k, a)
      <4>1. n.ir = k /\ n.bb = next
        BY <2>3, <3>2, LookUpAgain
      <4>2. Branchable(Result(n.ir, NoAddr, r.bb), f)
        BY <2>4, <3>2, <4>1 DEF Branchable, Result
      <4> QED
        BY <2>4, <2>6, <3>2, <4>1, <4>2
    <3> QED
      BY <2>1, <2>2, <2>14, <3>1, <3>2, LookUpAhead
  <2> QED
    BY <1>1, <1>4, <2>12, <2>13, <2>14
<1>5. CASE ~(t = NoAddr \/ (a < t /\ t < EndOf(a))) /\ t \notin {a, next}
  BY <1>1, <1>5
<1> QED
  BY <1>3, <1>4, <1>5

\* All in all: no block begins in the bytes ahead, unless a conditional jump was
\* given up.
LEMMA EffectsAhead ==
  ASSUME NEW g, NEW a, NEW next, NEW t, AtInsn(g, a, next, t),
         NEW x, x = InsnEffect(g, a, t), ~x.stop, Aligned(x.ir), next <= cur.end
  PROVE  \/ Clear(x.ir, next, x.end)
         \/ Op(a) = "cond" /\ t \notin a..next \cup {NoAddr}
<1>1. /\ Clear(g, next, cur.end) /\ cur.end \in Nat /\ next \in Nat /\ next = EndOf(a)
      /\ t \in Nat /\ \A b \in Blocks(g) : b \in Nat
  BY BlocksOfLists DEF AtInsn, Layout, Structure
<1>2. ASSUME x.ir = g, x.end \in Nat, x.end <= cur.end PROVE Clear(x.ir, next, x.end)
  BY <1>1, <1>2 DEF Clear
<1>3. CASE Op(a) = "call"
  <2>1. x = CallEffect(g, a, t)
    BY <1>3 DEF InsnEffect
  <2> QED
    BY <2>1, CallAhead
<1>4. CASE Op(a) = "cond"
  <2>1. x = CondBranchEffect(g, a, t)
    BY <1>4 DEF InsnEffect
  <2> QED
    BY <1>4, <2>1, CondAhead
<1>5. CASE Op(a) = "br"
  <2>1. x = BranchEffect(g, a, t)
    BY <1>5 DEF InsnEffect
  <2>2. x = Effect(g, jumpTargets, cur.end, FALSE)
    BY <2>1 DEF BranchEffect, BranchTo, Effect
  <2> QED
    BY <1>1, <1>2, <2>2 DEF Effect
<1>6. CASE Op(a) = "load"
  <2>1. x = LoadEffect(g, a, t)
    BY <1>6 DEF InsnEffect
  <2>2. x.ir = g /\ x.end = IF EndOf(a) < t THEN Trim(EndOf(a), cur.end, t) ELSE cur.end
    BY <2>1 DEF LoadEffect, Effect
  <2>3. x.end \in Nat /\ x.end <= cur.end
    BY <1>1, <2>2 DEF Trim
  <2> QED
    BY <1>2, <2>2, <2>3
<1>7. CASE Op(a) \notin {"call", "cond", "br", "load"}
  <2>1. x.ir = g /\ x.end = cur.end
    BY <1>7 DEF InsnEffect, HaltEffect, SyscallEffect, Effect
  <2> QED
    BY <1>1, <1>2, <2>1
<1> QED
  BY <1>3, <1>4, <1>5, <1>6, <1>7

-----------------------------------------------------------------------------
(* The look-ups by address agree with the block lists *)

\* No conditional jump was given up.
NoCondGivenUp ==
  \A a \in DOMAIN ir.end : Op(a) = "cond" => ~GivenUp(a, input.insn[a].t)

\* LookupsAgree is not inductive: an instruction is in the block at its address
\* only when no block begins in the bytes that are still to be decoded, but for
\* the target itself.  A conditional jump that is given up leaves such a block.
LookInv ==
  /\ \A a \in DOMAIN ir.end : ir.end[a] = EndOf(a)
  /\ NoCondGivenUp /\ Aligned(ir) =>
       /\ Heads(ir)
       /\ pc = "translate" =>
            \A b \in Blocks(ir) : cur.addr <= b /\ b < cur.end => b = cur.start

\* There is a bound of the addresses of instructions.
LEMMA InsnsAreBounded ==
  ASSUME NEW g, DOMAIN g.bbOf \subseteq Image
  PROVE  \E top : Bounded(g, top)
BY ImageAssumption DEF Bounded, NoAddr

\* A jump that was given up stays so: old instructions get branches to what is
\* right behind them only.
LEMMA GivenUpStays ==
  ASSUME IInv, \A a \in DOMAIN ir.end : ir.end[a] = EndOf(a),
         input' = input, DOMAIN ir.end \subseteq DOMAIN ir'.end,
         \A e \in ir'.edges \ ir.edges :
           e.at \in DOMAIN ir.end => e.kind = "br" /\ e.to = ir.end[e.at],
         NoCondGivenUp'
  PROVE  NoCondGivenUp
<1> SUFFICES ASSUME NEW a \in DOMAIN ir.end, Op(a) = "cond",
                    NEW t, t = input.insn[a].t, GivenUp(a, t)
             PROVE  FALSE
  BY DEF NoCondGivenUp
<1>1. /\ a \in Nat /\ EndOf(a) \in Nat /\ a < EndOf(a) /\ EndOf(a) = ir.end[a]
  <2>1. ir.end[a] \in Nat /\ a < ir.end[a] /\ a \in Nat
    BY ImageAssumption DEF IInv, TypeOK
  <2> QED
    BY <2>1
<1>2. t \notin a..EndOf(a) \cup {NoAddr}
  BY DEF GivenUp
<1>3. t # EndOf(a)
  BY <1>1, <1>2
<1>4. \A e \in ir'.edges : e.at = a => e.to # t /\ e.kind # "condcall"
  BY <1>1, <1>3 DEF GivenUp
<1>5. Op(a)' = Op(a) /\ EndOf(a)' = EndOf(a) /\ input'.insn[a].t = t
  BY DEF Op, EndOf
<1>6. GivenUp(a, t)'
  BY <1>2, <1>4, <1>5 DEF GivenUp
<1> QED
  BY <1>5, <1>6 DEF NoCondGivenUp

\* Before anything is decoded.
LEMMA InitLook == Init => LookInv
<1> SUFFICES ASSUME Init PROVE LookInv
  OBVIOUS
<1>1. DOMAIN ir.bbOf = {} /\ DOMAIN ir.end = {} /\ pc # "translate"
  BY DEF Init, InitIr
<1> QED
  BY <1>1 DEF LookInv, Heads

\* No block begins behind the target up to the end of its decoding.
LEMMA EndBeforeBlocks ==
  ASSUME IInv, FlowInv, FoundRange # {}, NEW b \in Blocks(ir), jt.addr < b
  PROVE  DecodeEnd <= b
<1> DEFINE e == RangeEnd(FoundRange, jt.addr)
           bounds == {x \in (jt.addr + 1)..e : x = jt.addr + jt.sz \/ x \in NextStarts}
<1>1. /\ FoundRange \in SUBSET Image /\ jt.addr \in FoundRange
  BY DEF FoundRange, IInv, TypeOK
<1>2. jt.addr \in Nat /\ b \in Nat
  BY <1>1, ImageAssumption, BlocksOfLists DEF FlowInv, Layout, Structure
<1>3. e \in Nat /\ jt.addr < e
  BY <1>1, RangeEndBoundsRun
<1>4. b \in NextStarts
  BY DEF NextStarts
<1>5. DecodeEnd = Min({e} \cup bounds)
  BY DEF DecodeEnd, Limit
<1> HIDE DEF e
<1>6. /\ {e} \cup bounds \in SUBSET Nat
      /\ b <= e => b \in bounds
  BY <1>2, <1>3, <1>4
<1> HIDE DEF bounds
<1>7. DecodeEnd \in Nat /\ \A x \in {e} \cup bounds : DecodeEnd <= x
  BY <1>5, <1>6, MinOfNats
<1> QED
  BY <1>2, <1>3, <1>6, <1>7

\* The decoding of a target ends before the next block.
LEMMA BeginLook ==
  ASSUME IInv, FlowInv, LookInv, FoundRange # {}, input' = input,
         Begin(DecodeEnd, StartBlock)
  PROVE  LookInv'
<1>1. jt.addr \in Nat /\ Layout(ir)
  BY DecodeEndInRange DEF IInv, FlowInv
<1>2. PICK r : r = StartBlock
  OBVIOUS
<1>3. Grows(ir, r.ir, jt.addr)
  <2>1. PICK top : Bounded(ir, top)
    BY InsnsAreBounded DEF IInv, TypeOK
  <2>2. CASE jt.addr \in Blocks(ir) \/ jt.type # LEFTOVER
    BY <1>2, <2>2, GrowsSame DEF StartBlock, Result
  <2>3. CASE ~(jt.addr \in Blocks(ir) \/ jt.type # LEFTOVER)
    BY <1>1, <1>2, <2>1, <2>3, CallTargetGrows DEF StartBlock
  <2> QED
    BY <2>2, <2>3
<1>4. ir' = r.ir /\ (pc' = "translate" => /\ cur'.start = jt.addr /\ cur'.addr = jt.addr
                                           /\ cur'.end = DecodeEnd)
  BY <1>2 DEF Begin
<1>5. /\ ir'.end = ir.end /\ Blocks(ir) \subseteq Blocks(ir')
      /\ Blocks(ir') \subseteq Blocks(ir) \cup {jt.addr}
      /\ Agrees(ir) => Agrees(ir')
      /\ \A e \in ir'.edges \ ir.edges : e.kind = "br" /\ e.to = ir.end[e.at]
  BY <1>3, <1>4 DEF Grows
<1>6. \A a \in DOMAIN ir'.end : ir'.end[a] = EndOf(a)'
  BY <1>5 DEF LookInv, EndOf
<1>7. ASSUME NoCondGivenUp', Aligned(ir')
      PROVE  /\ Heads(ir')
             /\ pc' = "translate" =>
                  \A b \in Blocks(ir') : cur'.addr <= b /\ b < cur'.end => b = cur'.start
  <2>1. NoCondGivenUp
    BY <1>5, <1>7, GivenUpStays DEF LookInv
  <2>2. Aligned(ir)
    BY <1>5, <1>7 DEF Aligned
  <2>3. Heads(ir')
    BY <1>5, <1>7, <2>1, <2>2 DEF LookInv, Agrees
  <2>4. ASSUME pc' = "translate", NEW b \in Blocks(ir'), cur'.addr <= b, b < cur'.end,
               b # cur'.start
        PROVE  FALSE
    <3>1. b \in Blocks(ir) /\ b \in Nat /\ jt.addr < b
      BY <1>1, <1>4, <1>5, <2>4, BlocksOfLists DEF Layout, Structure
    <3>2. DecodeEnd <= b /\ DecodeEnd \in Nat
      BY <3>1, EndBeforeBlocks, DecodeEndInRange DEF IInv
    <3> QED
      BY <1>4, <2>4, <3>1, <3>2
  <2> QED
    BY <2>3, <2>4
<1> QED
  BY <1>6, <1>7 DEF LookInv

\* One turn of the loop: what is ahead stays clear, or else a conditional jump
\* has been given up.
LEMMA TranslateLook == IInv /\ FlowInv /\ LookInv /\ Translate => LookInv'
<1> SUFFICES ASSUME IInv, FlowInv, LookInv, Translate PROVE LookInv'
  OBVIOUS
<1>1. PICK a : a = cur.addr
  OBVIOUS
<1>2. PICK next : next = EndOf(a)
  OBVIOUS
<1>3. PICK g : g = Translated(a)
  OBVIOUS
<1>4. PICK t : t = input.insn[a].t
  OBVIOUS
<1>5. PICK x : x = InsnEffect(g, a, t)
  OBVIOUS
<1>6. /\ a \in Image /\ a \in Nat /\ next \in Nat /\ a < next /\ a < cur.end /\ next <= cur.end
      /\ t \in Nat /\ CurOK
      /\ \A z \in DOMAIN ir.end :
           /\ z \in Nat /\ ir.end[z] \in Nat /\ z < ir.end[z]
           /\ ir.end[z] <= a \/ next <= z
  BY <1>1, <1>2, <1>4, TranslatesFreeBytes
<1>7. /\ Layout(g) /\ Open(g, a) /\ g.end[a] = next
      /\ DOMAIN g.bbOf = DOMAIN ir.bbOf \cup {a} /\ Blocks(g) = Blocks(ir)
  BY <1>1, <1>2, <1>3, TranslatedFlow
<1>8. /\ g.edges = ir.edges /\ DOMAIN g.end = DOMAIN ir.end \cup {a}
      /\ \A z \in DOMAIN ir.end \ {a} : g.end[z] = ir.end[z]
      /\ \A z \in DOMAIN ir.bbOf \ {a} : g.bbOf[z] = ir.bbOf[z]
      /\ g.bbOf[a] = InsertBlock
  <2>1. HasParts(ir)
    BY DEF FlowInv, Layout, Structure
  <2> QED
    BY <1>3, <2>1 DEF Translated, With, HasParts
<1>9. /\ DOMAIN ir.bbOf = DOMAIN ir.end /\ DOMAIN ir.end \subseteq Image
      /\ a \notin DOMAIN ir.end /\ \A b \in Blocks(ir) : b \in Nat
  BY <1>6, BlocksOfLists DEF IInv, TypeOK, FlowInv, Layout, Structure
<1>10. \E top : Bounded(g, top)
  BY <1>6, <1>7, <1>9, InsnsAreBounded
<1>11. /\ ir' = x.ir /\ input' = input
       /\ cur' = [start |-> cur.start, addr |-> next, end |-> x.end, bb |-> cur.bb]
       /\ pc' = IF x.stop THEN "next" ELSE "translate"
       /\ x.end \in Nat /\ x.end <= cur.end
  <2>1. TakesEffect(x, next)
    BY <1>1, <1>2, <1>3, <1>4, <1>5, TranslateStep
  <2> QED
    BY <2>1 DEF TakesEffect
<1>12. Spreads(g, ir', a, t)
  BY <1>2, <1>5, <1>6, <1>7, <1>10, <1>11, EffectsSpread DEF EffectSpreads
<1>13. /\ ir'.end = g.end /\ Blocks(g) \subseteq Blocks(ir')
       /\ Agrees(g) => Agrees(ir')
       /\ \A e \in ir'.edges \ ir.edges :
            e.at = a \/ (e.kind = "br" /\ e.to = g.end[e.at])
  BY <1>8, <1>12 DEF Spreads
<1>14. \A z \in DOMAIN ir'.end : ir'.end[z] = EndOf(z)'
  BY <1>2, <1>7, <1>8, <1>9, <1>11, <1>13 DEF LookInv, EndOf
<1>15. ASSUME NoCondGivenUp', Aligned(ir')
       PROVE  /\ Heads(ir')
              /\ pc' = "translate" =>
                   \A b \in Blocks(ir') : cur'.addr <= b /\ b < cur'.end => b = cur'.start
  <2>1. NoCondGivenUp
    <3>1. \A e \in ir'.edges \ ir.edges :
            e.at \in DOMAIN ir.end => e.kind = "br" /\ e.to = ir.end[e.at]
      BY <1>8, <1>9, <1>13
    <3> QED
      BY <1>8, <1>11, <1>13, <1>15, <3>1, GivenUpStays DEF LookInv
  <2>2. Aligned(g)
    BY <1>13, <1>15 DEF Aligned
  <2>3. Aligned(ir)
    BY <1>7, <1>8, <1>9, <2>2 DEF Aligned
  <2>4. /\ Heads(ir)
        /\ \A b \in Blocks(ir) : a <= b /\ b < cur.end => b = cur.start
    BY <1>1, <2>1, <2>3 DEF LookInv, Translate
  <2>5. Heads(g)
    <3>1. a \in Blocks(ir) => g.bbOf[a] = a
      <4> SUFFICES ASSUME a \in Blocks(ir) PROVE InsertBlock = a
        BY <1>8
      <4>1. a = cur.start
        BY <1>6, <2>4
      <4>2. DecodedHere = {}
        BY <1>1, <1>6, <1>9, <4>1 DEF DecodedHere
      <4>3. cur.bb = cur.start
        BY DEF FlowInv, Translate
      <4> QED
        BY <4>1, <4>2, <4>3 DEF InsertBlock
    <3> QED
      BY <1>7, <1>8, <1>9, <2>4, <3>1 DEF Heads, Full
  <2>6. Heads(ir')
    BY <1>13, <1>15, <2>5 DEF Agrees
  <2>7. ASSUME ~x.stop PROVE Clear(ir', next, x.end)
    <3>1. Clear(g, next, cur.end)
      <4> SUFFICES ASSUME NEW b \in Blocks(g), next <= b, b < cur.end PROVE FALSE
        BY <1>6, <1>7, <1>9 DEF Clear, CurOK
      <4>1. b \in Nat /\ b \in Blocks(ir)
        BY <1>7, <1>9
      <4>2. b = cur.start
        BY <1>6, <2>4, <4>1
      <4> QED
        BY <1>1, <1>6, <4>1, <4>2 DEF CurOK
    <3>2. \A z \in DOMAIN g.bbOf : next <= z => cur.end <= z
      <4> SUFFICES ASSUME NEW z \in DOMAIN ir.end, next <= z PROVE cur.end <= z
        BY <1>6, <1>7, <1>9
      <4>1. Own(z) \/ Apart(z)
        BY DEF IInv, Translate
      <4>2. ~Own(z)
        BY <1>1, <1>6 DEF Own, CurOK
      <4>3. z \notin Bytes(cur.start, cur.end)
        <5>1. z \in BytesOf(z)
          BY <1>6 DEF BytesOf, Bytes
        <5> QED
          BY <4>1, <4>2, <5>1 DEF Apart
      <4> QED
        BY <1>1, <1>6, <4>3 DEF Bytes, CurOK
    <3>3. AtInsn(g, a, next, t)
      BY <1>2, <1>6, <1>7, <1>10, <2>2, <2>5, <3>1, <3>2 DEF AtInsn, CurOK
    <3>4. CASE Op(a) = "cond" /\ t \notin a..next \cup {NoAddr}
      <4>1. Lays(g, ir')
        BY <1>2, <1>5, <1>6, <1>7, <1>11, <2>7, EffectsLay DEF EffectOk
      <4>2. Open(ir', a)
        BY <1>7, <4>1 DEF Lays, Keeps
      <4>3. \A e \in ir'.edges : e.at # a
        BY <4>2 DEF Open
      <4>4. Op(a)' = Op(a) /\ EndOf(a)' = next /\ input'.insn[a].t = t
        BY <1>2, <1>4, <1>11 DEF Op, EndOf
      <4>5. GivenUp(a, t)'
        BY <3>4, <4>3, <4>4 DEF GivenUp
      <4>6. a \in DOMAIN ir'.end
        BY <1>8, <1>13
      <4> QED
        BY <1>15, <3>4, <4>4, <4>5, <4>6 DEF NoCondGivenUp
    <3> QED
      BY <1>5, <1>6, <1>11, <1>15, <2>7, <3>3, <3>4, EffectsAhead
  <2>8. ASSUME pc' = "translate", NEW b \in Blocks(ir'), cur'.addr <= b, b < cur'.end
        PROVE  FALSE
    <3>1. ~x.stop /\ cur'.addr = next /\ cur'.end = x.end
      BY <1>11, <2>8
    <3>2. x.end <= b
      BY <2>7, <2>8, <3>1 DEF Clear
    <3>3. b \in Nat
      <4>1. Layout(ir')
        BY <1>2, <1>5, <1>6, <1>7, <1>11, EffectsLay DEF EffectOk
      <4> QED
        BY <4>1, BlocksOfLists DEF Layout, Structure
    <3> QED
      BY <1>11, <2>8, <3>1, <3>2, <3>3
  <2> QED
    BY <2>6, <2>8
<1> QED
  BY <1>14, <1>15 DEF LookInv

\* The branch to the block that was reached is one to the next instruction.
LEMMA TranslateFailsLook == IInv /\ FlowInv /\ LookInv /\ TranslateFails => LookInv'
<1> SUFFICES ASSUME IInv, FlowInv, LookInv, TranslateFails PROVE LookInv'
  OBVIOUS
<1>1. /\ pc = "translate" /\ pc' = "next" /\ input' = input /\ HasParts(ir)
      /\ Structure(ir) /\ CurOK
      /\ cur.bb = cur.start
      /\ cur.addr # cur.start => cur.start \in DOMAIN ir.bbOf
      /\ DecodedHere # {} => ir.end[Max(DecodedHere)] = cur.addr
  BY DEF TranslateFails, FlowInv, Layout, Structure, IInv
<1>2. /\ ir'.end = ir.end /\ ir'.bbOf = ir.bbOf /\ ir'.fncs = ir.fncs
      /\ \A e \in ir'.edges \ ir.edges : e.kind = "br" /\ e.to = ir.end[e.at]
  <2>1. CASE ir' = ir
    BY <2>1
  <2>2. CASE ir' # ir
    <3>1. PICK m : m = Max(DecodedHere)
      OBVIOUS
    <3>2. /\ cur.addr # cur.bb
          /\ ir' = AddEdges(ir, {Edge(m, cur.addr, "br")})
      BY <2>2, <3>1 DEF TranslateFails
    <3>3. ir.end[m] = cur.addr
      BY <1>1, <3>1, <3>2, LastDecoded
    <3> QED
      BY <1>1, <3>2, <3>3 DEF AddEdges, Edge, HasParts
  <2> QED
    BY <2>1, <2>2
<1>3. Blocks(ir') = Blocks(ir)
  BY <1>2 DEF Blocks
<1>4. NoCondGivenUp' => NoCondGivenUp
  BY <1>1, <1>2, GivenUpStays DEF LookInv
<1>5. (Aligned(ir') <=> Aligned(ir)) /\ (Heads(ir') <=> Heads(ir))
  BY <1>2, <1>3 DEF Aligned, Heads, Full
<1>6. \A a \in DOMAIN ir'.end : ir'.end[a] = EndOf(a)'
  BY <1>1, <1>2 DEF LookInv, EndOf
<1> QED
  BY <1>1, <1>4, <1>5, <1>6 DEF LookInv

\* Every step preserves the invariant.
LEMMA NextLook == IInv /\ FlowInv /\ LookInv /\ [Next]_vars => LookInv'
<1> SUFFICES ASSUME IInv, FlowInv, LookInv, [Next]_vars PROVE LookInv'
  OBVIOUS
<1>1. ASSUME ir' = ir, input' = input, pc' # "translate" PROVE LookInv'
  <2>1. NoCondGivenUp' <=> NoCondGivenUp
    BY <1>1 DEF NoCondGivenUp, GivenUp, Op, EndOf
  <2>2. \A a \in DOMAIN ir'.end : ir'.end[a] = EndOf(a)'
    BY <1>1 DEF LookInv, EndOf
  <2> QED
    BY <1>1, <2>1, <2>2 DEF LookInv
<1>2. CASE GetJumpTarget
  BY <1>1, <1>2 DEF GetJumpTarget
<1>3. CASE SkipImport
  BY <1>1, <1>3 DEF SkipImport
<1>4. CASE SkipNoRange
  BY <1>1, <1>4 DEF SkipNoRange
<1>5. CASE DecodeJumpTarget
  <2>1. CASE \E n \in {SkipSize(DecodeEnd)} : SkipDryRun(n)
    BY <1>1, <1>5, <2>1 DEF SkipDryRun, DecodeJumpTarget
  <2>2. CASE Begin(DecodeEnd, StartBlock)
    BY <1>5, <2>2, BeginLook DEF DecodeJumpTarget
  <2> QED
    BY <1>5, <2>1, <2>2 DEF DecodeJumpTarget
<1>6. CASE Translate
  BY <1>6, TranslateLook
<1>7. CASE TranslateFails
  BY <1>7, TranslateFailsLook
<1>8. CASE Finish
  BY <1>1, <1>8 DEF Finish
<1>9. CASE UNCHANGED vars
  <2>1. ir' = ir /\ input' = input /\ pc' = pc /\ cur' = cur
    BY <1>9 DEF vars
  <2>2. NoCondGivenUp' <=> NoCondGivenUp
    BY <2>1 DEF NoCondGivenUp, GivenUp, Op, EndOf
  <2>3. \A a \in DOMAIN ir'.end : ir'.end[a] = EndOf(a)'
    BY <2>1 DEF LookInv, EndOf
  <2> QED
    BY <2>1, <2>2, <2>3 DEF LookInv
<1> QED
  BY <1>2, <1>3, <1>4, <1>5, <1>6, <1>7, <1>8, <1>9 DEF Next, Stopped

\* In every state the decoder reaches: without a conditional jump that was given
\* up and without a jump into an instruction, a block that begins at an
\* instruction holds it.
THEOREM LookInvariance == Spec => []LookInv
<1>1. Init => LookInv
  BY InitLook
<1>2. IInv /\ FlowInv /\ LookInv /\ [Next]_vars => LookInv'
  BY NextLook
<1> QED
  BY <1>1, <1>2, Invariance, FlowInvariance, PTL DEF Spec

\* Without branches that were given up and jumps into instructions, the look-up
\* by address and the block lists agree, for every binary, however often blocks
\* and functions are split: getBasicBlockContainingAddress finds for every
\* instruction the block that holds it, and the blocks of a function are in the
\* order of their addresses.
THEOREM LookUpsStayTrue == Spec => []LookupsAgree
<1>1. FlowInv /\ IInv /\ LookInv => LookupsAgree
  <2> SUFFICES ASSUME FlowInv, IInv, LookInv, NoneGivenUp, NoneInside
               PROVE  /\ ContainingBlockHolds
                      /\ \A f \in DOMAIN ir.fncs : \A i \in 1..(Len(ir.fncs[f]) - 1) :
                           ir.fncs[f][i] < ir.fncs[f][i + 1]
    BY DEF LookupsAgree
  <2>1. /\ Layout(ir) /\ Structure(ir) /\ Code(ir) /\ ListsOk(ir.fncs) /\ InsnsOk(ir)
        /\ BytesOk(ir)
    BY DEF FlowInv, Layout, Structure, Code
  <2>2. \A b \in Blocks(ir) : b \in Nat
    BY <2>1, BlocksOfLists
  <2>3. Aligned(ir)
    <3> SUFFICES ASSUME NEW a \in DOMAIN ir.end, NEW b \in Blocks(ir), a < b, b < ir.end[a]
                 PROVE  FALSE
      BY DEF Aligned
    <3>1. a \in Nat /\ ir.end[a] \in Nat /\ b \in Nat
      BY <2>1, <2>2 DEF InsnsOk, BytesOk
    <3>2. b \in Bytes(a + 1, ir.end[a])
      BY <3>1 DEF Bytes
    <3> QED
      BY <3>2 DEF NoneInside
  <2>4. Heads(ir)
    BY <2>3 DEF LookInv, NoneGivenUp, NoCondGivenUp
  <2>5. ContainingBlockHolds
    BY <2>1, <2>3, <2>4, LookUpFindsBlock DEF ContainingBlockHolds
  <2>6. ASSUME NEW b \in Blocks(ir) PROVE ~Inside(ir, b)
    <3> SUFFICES ASSUME NEW z \in DOMAIN ir.bbOf, ir.bbOf[z] < b, b < ir.end[z] PROVE FALSE
      BY DEF Inside
    <3>1. b <= ir.bbOf[z]
      BY <2>1, <2>3, <2>4, NoBlockBetween
    <3>2. ir.bbOf[z] \in Nat /\ b \in Nat
      BY <2>1, <2>2 DEF InsnsOk
    <3> QED
      BY <3>1, <3>2
  <2>7. NoFunctionInside(ir)
    <3> SUFFICES ASSUME NEW f \in DOMAIN ir.fncs, ir.fncs[f] # <<>> PROVE ~Inside(ir, f)
      BY DEF NoFunctionInside
    <3>1. BlockList(f, ir.fncs[f])
      BY <2>1 DEF ListsOk
    <3>2. 1 \in 1..Len(ir.fncs[f]) /\ ir.fncs[f][1] = f
      BY <3>1 DEF BlockList
    <3>3. f \in Blocks(ir)
      BY <2>1, <3>2, PlaceInList
    <3> QED
      BY <2>6, <3>3
  <2>8. Sorted(ir)
    BY <2>1, <2>7 DEF Layout
  <2>9. ASSUME NEW f \in DOMAIN ir.fncs, NEW i \in 1..(Len(ir.fncs[f]) - 1)
        PROVE  ir.fncs[f][i] < ir.fncs[f][i + 1]
    <3>1. ir.fncs[f] \in Seq(Nat) /\ BlockList(f, ir.fncs[f]) /\ Len(ir.fncs[f]) \in Nat
      BY <2>1 DEF ListsOk, BlockList
    <3>2. i \in 1..Len(ir.fncs[f]) /\ i + 1 \in 1..Len(ir.fncs[f]) /\ i < i + 1
      BY <3>1
    <3>3. PICK b : b = ir.fncs[f][i]
      OBVIOUS
    <3>4. PICK c : c = ir.fncs[f][i + 1]
      OBVIOUS
    <3>5. Before(ir, b, c)
      BY <2>1, <3>2, <3>3, <3>4, PlaceInList DEF Before
    <3>6. b # c
      BY <2>1, <3>5, OrderOfBlocks
    <3>7. b \in Blocks(ir) /\ c \in Blocks(ir) /\ b \in Nat /\ c \in Nat
      BY <2>2, <3>5 DEF Before
    <3>8. ~(c < b)
      BY <2>1, <2>6, <2>8, <3>5, <3>7, HiddenBlock DEF Sorted
    <3> QED
      BY <3>3, <3>4, <3>6, <3>7, <3>8
  <2> QED
    BY <2>5, <2>9
<1> QED
  BY <1>1, Invariance, FlowInvariance, LookInvariance, PTL

-----------------------------------------------------------------------------
(* Conditional branches keep their fall-throughs *)

\* The instruction with the effect x loses no fall-through of the module g.
EffectKeepsFalls(g, x) == FallsStay(g, x.ir)

\* The branches that are added change nothing in that.
LEMMA BranchesKeepFalls ==
  ASSUME NEW g, NEW h, Layout(h), KeepsFalls(g, h), NEW S
  PROVE  FallsStay(g, AddEdges(h, S))
<1>1. PICK k : k = AddEdges(h, S)
  OBVIOUS
<1>2. /\ k.fncs = h.fncs /\ k.bbOf = h.bbOf /\ k.end = h.end /\ k.edges = h.edges \cup S
  BY <1>1 DEF AddEdges, Layout, Structure, HasParts
<1>3. \A x : Inside(k, x) <=> Inside(h, x)
  BY <1>2 DEF Inside
<1>4. NoFunctionInside(k) => NoFunctionInside(h)
  BY <1>2, <1>3 DEF NoFunctionInside
<1>5. \A e : LeadsForward(g, e, k) => LeadsForward(g, e, h)
  BY <1>3 DEF LeadsForward
<1> QED
  BY <1>1, <1>2, <1>4, <1>5 DEF KeepsFalls, FallsStay

\* No instruction loses a fall-through: neither the look-up of its target nor, for
\* a conditional jump, the one of the next instruction, which may both split.
LEMMA EffectsKeepFalls ==
  ASSUME NEW g, Layout(g), NEW a \in DOMAIN g.bbOf, NEW t \in Nat, EndOf(a) \in Nat
  PROVE  EffectKeepsFalls(g, InsnEffect(g, a, t))
<1>1. ASSUME NEW h, KeepsFalls(g, h), NEW js, NEW e, NEW stop
      PROVE  EffectKeepsFalls(g, Effect(h, js, e, stop))
  BY <1>1 DEF Effect, EffectKeepsFalls, KeepsFalls
<1>2. ASSUME NEW h, Layout(h), KeepsFalls(g, h), NEW S, NEW js, NEW e, NEW stop
      PROVE  EffectKeepsFalls(g, Effect(AddEdges(h, S), js, e, stop))
  <2>1. FallsStay(g, AddEdges(h, S))
    BY <1>2, BranchesKeepFalls
  <2> QED
    BY <2>1 DEF Effect, EffectKeepsFalls
<1>3. KeepsFalls(g, g)
  BY SameKeepsFalls
<1>4. EffectKeepsFalls(g, CallEffect(g, a, t))
  <2>1. PICK r : r = GetOrCreateCallTarget(g, t)
    OBVIOUS
  <2>2. KeepsFalls(g, r.ir) /\ Layout(r.ir)
    BY <2>1, CallTargetKeepsFalls, CallTargetLays DEF ResultOk, Lays
  <2>3. EffectKeepsFalls(g, CallTo(r, a, t))
    BY <1>1, <1>2, <2>2 DEF CallTo
  <2> QED
    BY <1>1, <1>3, <2>1, <2>3 DEF CallEffect
<1>5. EffectKeepsFalls(g, BranchEffect(g, a, t))
  <2>1. PICK r : r = GetOrCreateBranchTarget(g, t, FncAt(g, a))
    OBVIOUS
  <2>2. KeepsFalls(g, r.ir) /\ Layout(r.ir)
    BY <2>1, BranchTargetKeepsFalls, BranchTargetLays DEF ResultOk, Lays
  <2>3. EffectKeepsFalls(g, BranchTo(r, a, t))
    BY <1>1, <1>2, <2>2 DEF BranchTo
  <2> QED
    BY <1>1, <1>3, <2>1, <2>3 DEF BranchEffect
<1>6. EffectKeepsFalls(g, CondBranchEffect(g, a, t))
  <2>1. PICK r : r = GetOrCreateBranchTarget(g, t, FncAt(g, a))
    OBVIOUS
  <2>2. PICK n : n = GetOrCreateBranchTarget(r.ir, EndOf(a), FncAt(r.ir, a))
    OBVIOUS
  <2>3. PICK f : f = FncAt(n.ir, a)
    OBVIOUS
  <2>4. KeepsFalls(g, r.ir) /\ Lays(g, r.ir) /\ Layout(r.ir)
    BY <2>1, BranchTargetKeepsFalls, BranchTargetLays DEF ResultOk, Lays
  <2>5. KeepsFalls(r.ir, n.ir) /\ Lays(r.ir, n.ir) /\ Layout(n.ir)
    BY <2>2, <2>4, BranchTargetKeepsFalls, BranchTargetLays DEF ResultOk, Lays
  <2>6. KeepsFalls(g, n.ir)
    BY <2>4, <2>5, KeepsFallsTrans
  <2>7. EffectKeepsFalls(g, CondBranchTo(r, n, a, t, f))
    BY <1>1, <1>2, <2>5, <2>6 DEF CondBranchTo
  <2>8. CondBranchNext(r, a, t) = CondBranchTo(r, n, a, t, f)
    BY <2>2, <2>3 DEF CondBranchNext
  <2> QED
    BY <1>1, <1>3, <2>1, <2>7, <2>8 DEF CondBranchEffect
<1>7. EffectKeepsFalls(g, LoadEffect(g, a, t))
  BY <1>3 DEF LoadEffect, Effect, EffectKeepsFalls, KeepsFalls
<1>8. EffectKeepsFalls(g, HaltEffect(g, a)) /\ EffectKeepsFalls(g, SyscallEffect(g, a))
  BY <1>1, <1>3 DEF HaltEffect, SyscallEffect
<1> QED
  BY <1>1, <1>3, <1>4, <1>5, <1>6, <1>7, <1>8 DEF InsnEffect

\* One turn of the loop loses none.
LEMMA TranslateKeepsFalls == IInv /\ FlowInv /\ Translate => FallsStay(ir, ir')
<1> SUFFICES ASSUME IInv, FlowInv, Translate PROVE FallsStay(ir, ir')
  OBVIOUS
<1>1. PICK a : a = cur.addr
  OBVIOUS
<1>2. PICK next : next = EndOf(a)
  OBVIOUS
<1>3. PICK g : g = Translated(a)
  OBVIOUS
<1>4. PICK x : x = InsnEffect(g, a, input.insn[a].t)
  OBVIOUS
<1>5. next \in Nat /\ input.insn[a].t \in Nat
  BY <1>1, <1>2, TranslatesFreeBytes
<1>6. Layout(g) /\ DOMAIN g.bbOf = DOMAIN ir.bbOf \cup {a}
  BY <1>1, <1>3, TranslatedFlow
<1>7. g.edges = ir.edges
  BY <1>3 DEF Translated, FlowInv, Layout, Structure, HasParts
<1>8. FallsStay(g, x.ir)
  BY <1>2, <1>4, <1>5, <1>6, EffectsKeepFalls DEF EffectKeepsFalls
<1>9. ir' = x.ir
  <2>1. TakesEffect(x, next)
    BY <1>1, <1>2, <1>3, <1>4, TranslateStep
  <2> QED
    BY <2>1 DEF TakesEffect
<1> QED
  BY <1>7, <1>8, <1>9 DEF FallsStay, LeadsForward

\* Neither does the look-up of the block of a leftover.
LEMMA BeginKeepsFalls ==
  ASSUME IInv, FlowInv, FoundRange # {}, Begin(DecodeEnd, StartBlock)
  PROVE  FallsStay(ir, ir')
<1>1. jt.addr \in Nat
  BY DecodeEndInRange DEF IInv
<1>2. PICK r : r = StartBlock
  OBVIOUS
<1>3. KeepsFalls(ir, r.ir)
  <2>1. Layout(ir) /\ KeepsFalls(ir, ir)
    BY SameKeepsFalls DEF FlowInv
  <2>2. CASE jt.addr \in Blocks(ir) \/ jt.type # LEFTOVER
    BY <1>2, <2>1, <2>2 DEF StartBlock, Result
  <2>3. CASE jt.addr \notin Blocks(ir) /\ jt.type = LEFTOVER
    BY <1>1, <1>2, <2>1, <2>3, CallTargetKeepsFalls DEF StartBlock
  <2> QED
    BY <2>2, <2>3
<1>4. ir' = r.ir
  BY <1>2 DEF Begin
<1> QED
  BY <1>3, <1>4 DEF KeepsFalls

\* A forward conditional branch keeps its fall-through, for every binary, whatever
\* is split: where a function can be split, canSplitFunctionOn has left no start of
\* a new function between the branch and its target, so that splitFunctionOn moves
\* both into the same function and makes no call of the branch; as long as no
\* function begins inside of code, and the target does not.
THEOREM FallThroughsAreKept == Spec => FallThroughKept
<1>1. IInv /\ FlowInv /\ [Next]_vars =>
        [NoFunctionInside(ir') =>
           \A e \in ir.edges : e.kind = "false" /\ LeadsForward(ir, e, ir') =>
             e \in ir'.edges]_vars
  <2> SUFFICES ASSUME IInv, FlowInv, [Next]_vars PROVE FallsStay(ir, ir')
    BY DEF FallsStay
  <2>1. ASSUME ir' = ir PROVE FallsStay(ir, ir')
    BY <2>1 DEF FallsStay
  <2>2. CASE GetJumpTarget \/ SkipImport \/ SkipNoRange \/ Finish \/ UNCHANGED vars
    BY <2>1, <2>2 DEF GetJumpTarget, SkipImport, SkipNoRange, Finish, vars
  <2>3. CASE DecodeJumpTarget
    <3>1. CASE \E n \in {SkipSize(DecodeEnd)} : SkipDryRun(n)
      BY <2>1, <3>1 DEF SkipDryRun
    <3>2. CASE Begin(DecodeEnd, StartBlock)
      BY <2>3, <3>2, BeginKeepsFalls DEF DecodeJumpTarget
    <3> QED
      BY <2>3, <3>1, <3>2 DEF DecodeJumpTarget
  <2>4. CASE Translate
    BY <2>4, TranslateKeepsFalls
  <2>5. CASE TranslateFails
    <3>1. Layout(ir) /\ KeepsFalls(ir, ir)
      BY SameKeepsFalls DEF FlowInv
    <3>2. CASE ir' = ir
      BY <2>1, <3>2
    <3>3. CASE \E e : ir' = AddEdges(ir, {e})
      BY <3>1, <3>3, BranchesKeepFalls
    <3> QED
      BY <2>5, <3>2, <3>3 DEF TranslateFails
  <2> QED
    BY <2>2, <2>3, <2>4, <2>5 DEF Next, Stopped
<1> QED
  BY <1>1, Invariance, FlowInvariance, PTL DEF Spec, FallThroughKept
=============================================================================
