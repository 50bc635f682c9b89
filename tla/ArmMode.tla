------------------------------ MODULE ArmMode -------------------------------
(***************************************************************************)
(* The mode of the disassembler for 32-bit ARM binaries, ARM or THUMB: the *)
(* dry runs that find out which one the code at an address is in (in       *)
(* arm.cpp), the mode and the address of pushed targets (jump_targets.cpp, *)
(* determineMode_arm), and decodeJumpTarget with its loop, which           *)
(* translates in the mode of the target (decoder.cpp).                     *)
(*                                                                         *)
(* What lies at an address is given per mode: the way the dry run sees it, *)
(* and the instruction it is translated to.  Which targets get a block or  *)
(* a function is Decoder's matter: here they may get it or not.            *)
(***************************************************************************)
EXTENDS Integers, FiniteSets, FiniteSetsExt

CONSTANTS
  Inputs                    \* [primary, alternative, strict, symbol, size, imports, dry, code]

Modes == {"ARM", "THUMB"}

\* The instructions that change the mode, by the lowest bit of their targets.
Exchanges(op) == op \in {"bx", "blx"}

\* What is translated.  "ret" stands for a return and for a branch whose target is
\* not known (in a condition when `cond'), "ldrpc" for a load to PC, "bad" for what
\* cannot be disassembled, "plain" for all that is not followed.  The operand is a
\* target, or for "ldr" the address of a literal.
Insns ==
  {i \in [op : {"plain", "bad", "ret", "ldr", "ldrpc", "b", "bl", "bx", "blx"},
          cond : BOOLEAN, t : Nat, size : {2, 4}] :
      i.op \in {"b", "bl", "ldr"} => i.t % 2 = 0}

ASSUME InputsAssumption ==
  \A inp \in Inputs :
    /\ inp.strict \in BOOLEAN /\ inp.size \in Nat
    /\ inp.symbol.addr \in Nat /\ inp.symbol.mode \in Modes
    /\ \A a \in inp.primary \cup inp.alternative : a \in Nat /\ a % 2 = 0
    /\ \A m \in Modes, a \in inp.primary \cup inp.alternative :
         /\ inp.code[m][a] \in Insns
         /\ m = "ARM" => inp.code[m][a].size = 4
         /\ inp.dry[m][a] \in {"push", "code", "bad", "nops", "none"}

VARIABLES
  in,                       \* The binary.
  mode,                     \* _c2l->getBasicMode()
  primary, alternative,     \* The halfwords to decode, by their addresses.
  targets,                  \* _jumpTargets: [type, addr, mode]
  jt,                       \* The target that is decoded, type "none" for none.
  cur,                      \* decodeJumpTarget: the address in the loop, the
                            \* halfwords of `bytes', and useAlt.
  blocks,                   \* The addresses of basic blocks.
  insns,                    \* The instructions that were translated: [addr, size, mode]
  pushed,                   \* [op, t, mode]: what the last push was for.
  pc                        \* "next", "decode", "switch", "translate", "done"

vars == <<in, mode, primary, alternative, targets, jt, cur, blocks, insns, pushed, pc>>

NoTarget == [type |-> "none", addr |-> 0, mode |-> "ARM"]
NotPushed == [op |-> "none", t |-> 0, mode |-> "ARM"]
NotDecoding == [addr |-> 0, left |-> {}, useAlt |-> FALSE]

\* The addresses of n bytes at a.
Halfwords(a, n) == {a + 2 * k : k \in 0..((n + 1) \div 2 - 1)}

-----------------------------------------------------------------------------
(* Targets *)

Even(a) == a - (a % 2)

\* JumpTargets::push with the JumpTarget constructor: an odd address is THUMB;
\* what is not aligned for its mode is dropped.
Push(jts, a, type, m) ==
  LET m1 == IF a % 2 = 1 THEN "THUMB" ELSE m
  IN  IF m1 = "ARM" /\ Even(a) % 4 # 0 THEN jts
      ELSE jts \cup {[type |-> type, addr |-> Even(a), mode |-> m1]}

\* determineMode_arm: the mode, and the target without the bit for it.
DetermineMode(op, t, m) ==
  IF ~Exchanges(op) THEN [mode |-> m, t |-> t]
  ELSE [mode |-> IF t % 2 = 1 THEN "THUMB" ELSE "ARM", t |-> Even(t)]

Init ==
  /\ in \in Inputs
  /\ mode = "ARM"
  /\ primary = in.primary /\ alternative = in.alternative
  /\ targets = IF in.symbol = NoTarget THEN {}
               ELSE Push({}, in.symbol.addr, "SYMBOL", in.symbol.mode)
  /\ blocks = {x.addr : x \in targets}
  /\ jt = NoTarget /\ cur = NotDecoding /\ insns = {} /\ pushed = NotPushed /\ pc = "next"

\* getJumpTarget.  Control flow is of higher priority than symbols.
GetJumpTarget ==
  /\ pc = "next"
  /\ \/ \E x \in targets :
          /\ x.type = "SYMBOL" => \A y \in targets : y.type = "SYMBOL"
          /\ jt' = x /\ targets' = targets \ {x}
     \/ /\ targets = {} /\ primary # {}
        /\ jt' = [type |-> "LEFTOVER", addr |-> Min(primary), mode |-> mode]
        /\ UNCHANGED targets
  /\ pc' = "decode"
  /\ UNCHANGED <<in, mode, primary, alternative, cur, blocks, insns, pushed>>

-----------------------------------------------------------------------------
(* Dry runs *)

\* The number of bytes to skip and the mode left behind.  What is seen: "push"
\* (the start of a function, up to control flow), "code" (up to control flow),
\* "bad" (no control flow), "nops" (4 bytes of nops first), "none" (nothing can
\* be disassembled).
DryRun(m, before, strict, seen) ==
  IF strict /\ seen \notin {"push", "none"} THEN [skip |-> 1, mode |-> m]
  ELSE [skip |-> CASE seen = "nops" -> IF jt.type = "LEFTOVER" THEN 4 ELSE 0
                   [] seen \in {"push", "code"} -> 0
                   [] seen \in {"bad", "none"} -> 1,
        mode |-> before]

\* decodeJumpTargetDryRun_arm: ARM first, then THUMB from the mode ARM has left.
BothDryRuns(strict) ==
  LET arm   == DryRun("ARM", mode, strict, in.dry["ARM"][jt.addr])
      thumb == DryRun("THUMB", arm.mode, strict, in.dry["THUMB"][jt.addr])
  IN  [arm |-> arm.skip, thumb |-> thumb.skip, mode |-> thumb.mode]

\* Mutated form of Without: the end is aligned down.
WithoutAlignedDown(S, a, n) == S \ {a + 2 * k : k \in 0..(n \div 2 - 1)}

\* RangesToDecode::remove, the end aligned to halfwords.
Without(S, a, n) == S \ Halfwords(a, n)

\* Mutated form of Remove: from the primary ranges only.
RemovePrimary(a, n) ==
  primary' = Without(primary, a, n) /\ alternative' = alternative

\* From both kinds of ranges.
Remove(a, n) ==
  primary' = Without(primary, a, n) /\ alternative' = Without(alternative, a, n)

UseAlt == jt.addr \notin primary /\ jt.type = "SYMBOL"

HasRange ==
  jt.addr \in primary \/ (jt.type # "LEFTOVER" /\ jt.addr \in alternative)

\* Up to the end of the range, of the symbol, and to the next block.
BytesToDecode ==
  LET S == IF jt.addr \in primary THEN primary ELSE alternative
  IN  {x \in S :
         /\ x >= jt.addr /\ Halfwords(jt.addr, x - jt.addr) \subseteq S
         /\ jt.type = "SYMBOL" /\ in.size # 0 => x + 2 <= jt.addr + in.size
         /\ \A b \in blocks : b > jt.addr => x + 2 <= b}

\* No range; what remove() takes away was not there.
SkipNoRange ==
  /\ pc = "decode" /\ ~HasRange
  /\ pc' = "next"
  /\ UNCHANGED <<in, mode, primary, alternative, targets, jt, cur, blocks, insns, pushed>>

\* Only THUMB, or ARM.
DryRunMode(r) == IF r.arm # 0 /\ r.thumb = 0 THEN "THUMB" ELSE "ARM"

\* decodeJumpTarget up to its block.  For a leftover, which has no block, one is
\* created.
DecodeJumpTarget ==
  /\ pc = "decode" /\ HasRange
  /\ \E r \in {IF jt.type = "LEFTOVER" \/ UseAlt
               THEN BothDryRuns(in.strict /\ ~UseAlt)
               ELSE [arm |-> 0, thumb |-> 0, mode |-> mode]} :
       /\ mode' = r.mode
       /\ IF r.arm # 0 /\ r.thumb # 0
          THEN /\ Remove(jt.addr, Min({r.arm, r.thumb}))
               /\ pc' = "next"
               /\ UNCHANGED <<jt, cur, blocks>>
          ELSE /\ jt' = IF jt.type = "LEFTOVER" \/ UseAlt
                        THEN [jt EXCEPT !.mode = DryRunMode(r)] ELSE jt
               /\ cur' = [addr |-> jt.addr, left |-> BytesToDecode, useAlt |-> UseAlt]
               /\ IF jt.addr \notin blocks /\ jt.type # "LEFTOVER"
                  THEN pc' = "next" /\ UNCHANGED blocks
                  ELSE pc' = "switch" /\ blocks' = blocks \cup {jt.addr}
               /\ UNCHANGED <<primary, alternative>>
  /\ UNCHANGED <<in, targets, insns, pushed>>

\* Mutated form of SwitchMode: the mode is taken to be right.
SwitchModeNot ==
  /\ pc = "switch" /\ pc' = "translate"
  /\ UNCHANGED <<in, mode, primary, alternative, targets, jt, cur, blocks, insns, pushed>>

\* modifyBasicMode before the loop.
SwitchMode ==
  /\ pc = "switch"
  /\ mode' = jt.mode /\ pc' = "translate"
  /\ UNCHANGED <<in, primary, alternative, targets, jt, cur, blocks, insns, pushed>>

-----------------------------------------------------------------------------
(* The loop *)

Insn == in.code[mode][cur.addr]
NextAddr == cur.addr + Insn.size

\* translate() succeeds: the whole instruction lies in what is left.
CanTranslate ==
  /\ cur.addr \in cur.left
  /\ Insn.op # "bad" /\ Halfwords(cur.addr, Insn.size) \subseteq cur.left

\* rangeSize = t - nextAddr
LeftBefore(t) == {x \in cur.left : x + 2 <= t}

\* Behind the instruction, the loop goes on in what is left, or what was
\* translated leaves the ranges.
GoOn(left) ==
  /\ cur' = [cur EXCEPT !.addr = NextAddr, !.left = left]
  /\ UNCHANGED <<pc, primary, alternative>>

End(addr) ==
  /\ Remove(jt.addr, IF addr > jt.addr THEN addr - jt.addr ELSE 1)
  /\ pc' = "next"
  /\ UNCHANGED cur

TranslationFails ==
  /\ pc = "translate" /\ ~CanTranslate
  /\ End(cur.addr)
  /\ UNCHANGED <<in, mode, targets, jt, blocks, insns, pushed>>

\* An instruction is translated, one of those that `kind' says.
Translated(kind) ==
  /\ pc = "translate" /\ CanTranslate /\ kind
  /\ insns' = insns \cup {[addr |-> cur.addr, size |-> Insn.size, mode |-> mode]}
  /\ UNCHANGED <<in, mode, jt>>

TranslateOrdinary ==
  /\ Translated(Insn.op = "plain")
  /\ GoOn(cur.left)
  /\ UNCHANGED <<targets, blocks, pushed>>

\* A word that is loaded is no code.
TranslateLoad ==
  /\ Translated(Insn.op = "ldr")
  /\ Remove(Insn.t, 4)
  /\ cur' = [cur EXCEPT !.addr = NextAddr,
                        !.left = IF NextAddr < Insn.t THEN LeftBefore(Insn.t) ELSE cur.left]
  /\ UNCHANGED <<targets, blocks, pushed, pc>>

\* The flow ends, or goes on in a block that is named for its address.
TranslateReturn ==
  /\ Translated(Insn.op = "ret")
  /\ IF Insn.cond THEN GoOn(cur.left) /\ blocks' = blocks \cup {NextAddr}
                  ELSE End(NextAddr) /\ UNCHANGED blocks
  /\ UNCHANGED <<targets, pushed>>

\* Calls, branches, and what is conditional of both.  A conditional "ldrpc" is a
\* branch in a condition.
IsCall == Insn.op \in {"bl", "blx"} /\ ~Insn.cond
IsBranch == Insn.op = "ldrpc" \/ (Insn.op \in {"b", "bx"} /\ ~Insn.cond)
IsCondBranch == Insn.op \in {"b", "bl", "bx", "blx"} /\ Insn.cond

\* The targets that are not taken for any: inside of the instruction, and
\* for a call the next one.
Refused ==
  \/ cur.addr < Insn.t /\ Insn.t < NextAddr
  \/ IsCall /\ Insn.t = NextAddr

TranslateRefused ==
  /\ Translated((IsCall \/ IsBranch \/ IsCondBranch) /\ Refused)
  /\ GoOn(cur.left)
  /\ UNCHANGED <<targets, blocks, pushed>>

\* The mode of the target, and the target.
Determined == DetermineMode(Insn.op, Insn.t, mode)

PushTarget(m) ==
  /\ targets' = Push(targets, Determined.t, "FLOW", m)
  /\ pushed' = [op |-> Insn.op, t |-> Insn.t, mode |-> m]

\* A call of a function, which may have no block, or one that never returns.  The
\* mode is determined once more, from the target that has lost its bit.
TranslateCall ==
  /\ Translated(IsCall /\ ~Refused)
  /\ PushTarget(DetermineMode(Insn.op, Determined.t, mode).mode)
  /\ \/ GoOn(IF NextAddr <= Determined.t THEN LeftBefore(Determined.t) ELSE cur.left)
     \/ End(NextAddr)
  /\ \E bs \in SUBSET {Determined.t} : blocks' = blocks \cup bs

\* There is a block in this function instead.
TranslateCallOfBlock ==
  /\ Translated(IsCall /\ ~Refused)
  /\ PushTarget(Determined.mode)
  /\ End(NextAddr)
  /\ blocks' = blocks \cup {Determined.t}

\* There is neither; the block there is may be another function's.
TranslateCallOfNothing ==
  /\ Translated(IsCall /\ ~Refused)
  /\ GoOn(cur.left)
  /\ \E bs \in SUBSET {Determined.t} : blocks' = blocks \cup bs
  /\ UNCHANGED <<targets, pushed>>

\* The target is pushed whether there is a block for it or not.
TranslateBranch ==
  /\ Translated(IsBranch /\ ~Refused)
  /\ IF Determined.t \in in.imports THEN UNCHANGED <<targets, pushed>>
                                   ELSE PushTarget(Determined.mode)
  /\ IF Insn.cond
     THEN GoOn(IF NextAddr <= Insn.t THEN LeftBefore(Insn.t) ELSE cur.left)
     ELSE End(NextAddr)
  /\ \E bs \in SUBSET {Determined.t} :
       blocks' = blocks \cup bs \cup (IF Insn.cond THEN {NextAddr} ELSE {})

\* There is a block behind, and one at the target or a function.
TranslateCondBranch ==
  /\ Translated(IsCondBranch /\ ~Refused)
  /\ targets' = Push(Push(targets, Determined.t, "FLOW", Determined.mode),
                     NextAddr, "FLOW", mode)
  /\ pushed' = [op |-> Insn.op, t |-> Insn.t, mode |-> Determined.mode]
  /\ End(NextAddr)
  /\ \E bs \in SUBSET {Determined.t} : blocks' = blocks \cup bs \cup {NextAddr}

\* One of both is missing, or is another function's.
TranslateCondGivenUp ==
  /\ Translated(IsCondBranch /\ ~Refused)
  /\ GoOn(cur.left)
  /\ \E bs \in SUBSET {Determined.t, NextAddr} : blocks' = blocks \cup bs
  /\ UNCHANGED <<targets, pushed>>

Finish ==
  /\ pc = "next" /\ targets = {} /\ primary = {}
  /\ pc' = "done"
  /\ UNCHANGED <<in, mode, primary, alternative, targets, jt, cur, blocks, insns, pushed>>

Done == pc = "done" /\ UNCHANGED vars

Translate ==
  \/ TranslationFails \/ TranslateOrdinary \/ TranslateLoad \/ TranslateReturn
  \/ TranslateRefused
  \/ TranslateCall \/ TranslateCallOfBlock \/ TranslateCallOfNothing
  \/ TranslateBranch \/ TranslateCondBranch \/ TranslateCondGivenUp

Next ==
  \/ GetJumpTarget \/ SkipNoRange \/ DecodeJumpTarget \/ SwitchMode
  \/ Translate \/ Finish \/ Done

\* One thread that never waits.
Spec == Init /\ [][Next]_vars /\ WF_vars(Next)

-----------------------------------------------------------------------------
(* Properties *)

\* What a dry run has to see; the code of a symbol may begin with nops.
Proof(type, strict) ==
  IF strict THEN {"push"}
  ELSE {"push", "code"} \cup (IF type = "LEFTOVER" THEN {} ELSE {"nops"})

\* A strict dry run that fails at its first instruction leaves the disassembler
\* in its mode.  Code is all the same translated in the mode its target has, and
\* a leftover or a symbol in an alternative range, which need a dry run, in a
\* mode whose dry run passed.
TranslatesInProvenMode ==
  pc = "translate" =>
    /\ mode = jt.mode
    /\ jt.type = "LEFTOVER" \/ cur.useAlt =>
         in.dry[mode][jt.addr] \in Proof(jt.type, in.strict /\ ~cur.useAlt)

\* No halfword is decoded twice, be it in both modes, or in one mode as part of
\* two instructions, whatever the sizes of instructions and the order of targets.
InOneMode ==
  \A i, j \in insns :
    i # j => Halfwords(i.addr, i.size) \cap Halfwords(j.addr, j.size) = {}

\* A target is decoded only if there is a block at its address, which has no bit for
\* the mode.  No block is made at an odd address, where it would never be filled,
\* unless another instruction than BX or BLX writes such an address to PC.
BlocksCanBeTargets ==
  (\A m \in Modes, a \in in.primary \cup in.alternative :
      in.code[m][a].op = "ldrpc" => in.code[m][a].t % 2 = 0)
  => \A b \in blocks : b % 2 = 0

\* ARM_INS_BLX is an "exchange instruction": a call to an odd address makes a
\* THUMB target, as a jump does.
ExchangeIsSeen ==
  Exchanges(pushed.op) /\ pushed.t % 2 = 1 => pushed.mode = "THUMB"

\* All that may be code is decoded or skipped: a dry run that fails, in whichever
\* mode, takes something away.
Termination == <>(pc = "done")
=============================================================================
