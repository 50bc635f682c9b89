--------------------------- MODULE ArmModeProofs ----------------------------
(***************************************************************************)
(* The disassembler is in the right mode, nothing is decoded twice, and    *)
(* blocks are made where targets can be, for every ARM binary.             *)
(***************************************************************************)
EXTENDS ArmMode, TLAPS

(***************************************************************************)
(* The inductive invariant                                                 *)
(***************************************************************************)

Types == {"none", "SYMBOL", "FLOW", "LEFTOVER"}

\* All that was to be decoded in the first place.
Code == in.primary \cup in.alternative

\* What is still to be decoded.
Rest == primary \cup alternative

TypeOK ==
  /\ in \in Inputs
  /\ mode \in Modes
  /\ jt \in [type : Types, addr : {jt.addr}, mode : Modes]
  /\ pc \in {"next", "decode", "switch", "translate", "done"}
  /\ primary \subseteq in.primary /\ alternative \subseteq in.alternative
  /\ \A x \in targets : x \in [type : {"SYMBOL", "FLOW"}, addr : Nat, mode : Modes]
  /\ cur \in [addr : Nat, left : SUBSET Code, useAlt : BOOLEAN]

\* From the dry runs on, the target has a mode that a dry run has passed; the
\* disassembler is switched to it before the translation.
Proven ==
  /\ pc \in {"switch", "translate"} =>
       /\ jt.addr \in Code
       /\ jt.type = "LEFTOVER" \/ cur.useAlt =>
            in.dry[jt.mode][jt.addr] \in Proof(jt.type, in.strict /\ ~cur.useAlt)
  /\ pc = "translate" => mode = jt.mode

\* The halfwords of the instructions.
Decoded == UNION {Halfwords(i.addr, i.size) : i \in insns}

\* What is decoded has left the ranges, except for what the loop has just been
\* through; what it is still to go through is not decoded.
DecodedIsGone ==
  /\ pc \notin {"switch", "translate"} => Decoded \cap Rest = {}
  /\ pc \in {"switch", "translate"} =>
       /\ cur.addr % 2 = 0 /\ jt.addr <= cur.addr
       /\ \A h \in Decoded \cap Rest : jt.addr <= h /\ h < cur.addr
       /\ \A h \in Decoded \cap cur.left : h < cur.addr

IInv == TypeOK /\ Proven /\ DecodedIsGone /\ InOneMode /\ BlocksCanBeTargets

-----------------------------------------------------------------------------
(* Halfwords, targets and dry runs *)

\* The halfwords of n bytes, when n is even or not.
LEMMA HalfwordsBetween ==
  ASSUME NEW a \in Nat, a % 2 = 0, NEW n \in Nat \ {0}, NEW x \in Nat, x % 2 = 0
  PROVE  x \in Halfwords(a, n) <=> a <= x /\ x < a + n
<1>1. ASSUME a <= x, x < a + n PROVE x \in Halfwords(a, n)
  <2> DEFINE k == (x - a) \div 2
  <2>1. k \in 0..((n + 1) \div 2 - 1) /\ x = a + 2 * k
    BY <1>1
  <2> QED
    BY <2>1 DEF Halfwords
<1>2. ASSUME x \in Halfwords(a, n) PROVE a <= x /\ x < a + n
  <2>1. PICK k \in 0..((n + 1) \div 2 - 1) : x = a + 2 * k
    BY <1>2 DEF Halfwords
  <2> QED
    BY <2>1
<1> QED
  BY <1>1, <1>2

\* The address of a pushed target has lost its bit.
LEMMA EvenIsEven ==
  ASSUME NEW a \in Nat
  PROVE  /\ Even(a) \in Nat
         /\ Even(a) % 2 = 0
<1>1. a % 2 \in {0, 1} /\ a % 2 <= a
  OBVIOUS
<1>2. (a - (a % 2)) % 2 = 0
  OBVIOUS
<1> QED
  BY <1>1, <1>2 DEF Even

\* What push adds, if it adds anything.
LEMMA PushAdds ==
  ASSUME NEW jts, NEW a \in Nat, NEW type, NEW m \in Modes, NEW x \in Push(jts, a, type, m)
  PROVE  x \in jts \/ (x \in [type : {type}, addr : Nat, mode : Modes] /\ x.addr % 2 = 0)
<1>1. Even(a) \in Nat /\ Even(a) % 2 = 0
  BY EvenIsEven
<1> QED
  BY <1>1 DEF Push, Modes

\* Whatever the instruction and the mode, a target has no bit for the mode, unless
\* a load to PC has it.
LEMMA DeterminedIsEven ==
  ASSUME NEW i \in Insns, NEW m \in Modes
  PROVE  /\ DetermineMode(i.op, i.t, m).t \in Nat
         /\ DetermineMode(i.op, i.t, m).mode \in Modes
         /\ i.op \in {"b", "bl", "bx", "blx"} \/ i.t % 2 = 0 => DetermineMode(i.op, i.t, m).t % 2 = 0
<1>1. i.t \in Nat /\ (i.op \in {"b", "bl"} => i.t % 2 = 0)
  BY DEF Insns
<1> QED
  BY <1>1, EvenIsEven DEF DetermineMode, Modes, Exchanges

\* A dry run that skips nothing has seen what proves the mode.
LEMMA DryRunProves ==
  ASSUME NEW m \in Modes, NEW before \in Modes, NEW strict \in BOOLEAN,
         NEW seen \in {"push", "code", "bad", "nops", "none"}
  PROVE  /\ DryRun(m, before, strict, seen).mode \in Modes
         /\ DryRun(m, before, strict, seen).skip = 0 => seen \in Proof(jt.type, strict)
         /\ DryRun(m, before, strict, seen).skip \in Nat
BY DEF DryRun, Proof

\* The code of a binary.
LEMMA CodeIs ==
  ASSUME TypeOK
  PROVE  /\ \A a \in Code : a \in Nat /\ a % 2 = 0
         /\ \A m \in Modes, a \in Code :
              /\ in.code[m][a] \in Insns
              /\ in.dry[m][a] \in {"push", "code", "bad", "nops", "none"}
         /\ in.strict \in BOOLEAN
         /\ Rest \subseteq Code
BY InputsAssumption DEF TypeOK, Code, Rest

-----------------------------------------------------------------------------
(* Steps up to the loop *)

\* The bytes to decode lie in the ranges, from the target on.
LEMMA BytesAreToDecode ==
  BytesToDecode \subseteq Rest
BY DEF BytesToDecode, Rest

\* The dry runs and the mode they find.
LEMMA DecodeJumpTargetKeepsIt ==
  ASSUME IInv, DecodeJumpTarget
  PROVE  IInv'
<1> DEFINE dry == jt.type = "LEFTOVER" \/ UseAlt
           strict == in.strict /\ ~UseAlt
           r == IF dry THEN BothDryRuns(strict) ELSE [arm |-> 0, thumb |-> 0, mode |-> mode]
<1>1. /\ mode' = r.mode /\ in' = in /\ targets' = targets /\ insns' = insns
      /\ \/ /\ pc' = "next" /\ jt' = jt /\ blocks' = blocks /\ cur' = cur
            /\ primary' \subseteq primary /\ alternative' \subseteq alternative
         \/ /\ ~(r.arm # 0 /\ r.thumb # 0) /\ pc' \in {"next", "switch"}
            /\ jt' = IF dry THEN [jt EXCEPT !.mode = DryRunMode(r)] ELSE jt
            /\ cur' = [addr |-> jt.addr, left |-> BytesToDecode, useAlt |-> UseAlt]
            /\ blocks' \in {blocks, blocks \cup {jt.addr}}
            /\ primary' = primary /\ alternative' = alternative
      /\ pc = "decode" /\ jt.addr \in Rest
  BY DEF DecodeJumpTarget, Remove, Without, HasRange, Rest
<1>2. /\ jt.addr \in Code /\ jt.addr \in Nat /\ jt.addr % 2 = 0
      /\ in.dry["ARM"][jt.addr] \in {"push", "code", "bad", "nops", "none"}
      /\ in.dry["THUMB"][jt.addr] \in {"push", "code", "bad", "nops", "none"}
      /\ in.strict \in BOOLEAN /\ mode \in Modes
  BY <1>1, CodeIs DEF IInv, TypeOK, Modes
<1>3. strict \in BOOLEAN
  BY <1>2
<1>4. /\ r.mode \in Modes
      /\ dry /\ r.arm = 0 => in.dry["ARM"][jt.addr] \in Proof(jt.type, strict)
      /\ dry /\ r.thumb = 0 => in.dry["THUMB"][jt.addr] \in Proof(jt.type, strict)
  <2>1. CASE dry
    <3> DEFINE arm == DryRun("ARM", mode, strict, in.dry["ARM"][jt.addr])
               thumb == DryRun("THUMB", arm.mode, strict, in.dry["THUMB"][jt.addr])
    <3>1. r.arm = arm.skip /\ r.thumb = thumb.skip /\ r.mode = thumb.mode
      BY <2>1 DEF BothDryRuns
    <3> HIDE DEF strict, r
    <3>2. /\ arm.mode \in Modes
          /\ arm.skip = 0 => in.dry["ARM"][jt.addr] \in Proof(jt.type, strict)
      BY <1>2, <1>3, DryRunProves DEF Modes
    <3>3. /\ thumb.mode \in Modes
          /\ thumb.skip = 0 => in.dry["THUMB"][jt.addr] \in Proof(jt.type, strict)
      BY <1>2, <1>3, <3>2, DryRunProves DEF Modes
    <3> QED
      BY <3>1, <3>2, <3>3
  <2>2. CASE ~dry
    BY <1>2, <2>2
  <2> QED
    BY <2>1, <2>2
<1>5. DryRunMode(r) \in Modes
      /\ (~(r.arm # 0 /\ r.thumb # 0) =>
            (DryRunMode(r) = "ARM" /\ r.arm = 0) \/ (DryRunMode(r) = "THUMB" /\ r.thumb = 0))
  BY DEF DryRunMode, Modes
<1>6. BytesToDecode \subseteq Rest /\ Rest \subseteq Code /\ UseAlt \in BOOLEAN
  BY BytesAreToDecode, CodeIs DEF IInv, UseAlt
<1>7. jt \in [type : Types, addr : {jt.addr}, mode : Modes]
  BY DEF IInv, TypeOK
<1> HIDE DEF dry, r
<1>8. /\ jt' \in [type : Types, addr : {jt'.addr}, mode : Modes]
      /\ jt'.type = jt.type /\ jt'.addr = jt.addr
      /\ pc' = "switch" /\ dry => jt'.mode = DryRunMode(r)
  BY <1>1, <1>5, <1>7
<1>9. TypeOK'
  <2>1. Code' = Code
    BY <1>1 DEF Code
  <2>2. cur' \in [addr : Nat, left : SUBSET Code, useAlt : BOOLEAN]
    BY <1>1, <1>2, <1>6 DEF IInv, TypeOK
  <2>3. mode' \in Modes /\ pc' \in {"next", "switch"} /\ in' = in /\ targets' = targets
        /\ primary' \subseteq primary /\ alternative' \subseteq alternative
    BY <1>1, <1>4
  <2> QED
    BY <1>8, <2>1, <2>2, <2>3 DEF IInv, TypeOK
<1>10. Proven'
  <2>1. CASE pc' = "next"
    BY <2>1 DEF Proven
  <2>2. CASE pc' # "next"
    <3>1. /\ pc' = "switch" /\ ~(r.arm # 0 /\ r.thumb # 0) /\ cur'.useAlt = UseAlt
          /\ in' = in
      BY <1>1, <2>2
    <3>2. dry => in.dry[jt'.mode][jt.addr] \in Proof(jt.type, strict)
      BY <1>4, <1>5, <1>8, <3>1
    <3>3. jt'.type = "LEFTOVER" \/ cur'.useAlt => dry
      BY <1>8, <3>1 DEF dry
    <3>4. Code' = Code /\ (in'.strict /\ ~cur'.useAlt) = strict
      BY <3>1 DEF Code
    <3>5. /\ jt'.addr \in Code'
          /\ jt'.type = "LEFTOVER" \/ cur'.useAlt =>
               in'.dry[jt'.mode][jt'.addr] \in Proof(jt'.type, in'.strict /\ ~cur'.useAlt)
      BY <1>2, <1>8, <3>1, <3>2, <3>3, <3>4
    <3> QED
      BY <3>1, <3>5 DEF Proven
  <2> QED
    BY <2>1, <2>2
<1>11. DecodedIsGone'
  <2>1. Decoded' = Decoded /\ Rest' \subseteq Rest /\ Decoded \cap Rest = {}
    BY <1>1 DEF Decoded, Rest, IInv, DecodedIsGone
  <2>2. CASE pc' = "next"
    BY <2>1, <2>2 DEF DecodedIsGone
  <2>3. CASE pc' # "next"
    <3>1. pc' = "switch" /\ cur'.addr = jt.addr /\ cur'.left = BytesToDecode
      BY <1>1, <2>3
    <3>2. Decoded' \cap Rest' = {} /\ Decoded' \cap cur'.left = {}
      BY <1>6, <2>1, <3>1
    <3> QED
      BY <1>2, <1>8, <3>1, <3>2 DEF DecodedIsGone
  <2> QED
    BY <2>2, <2>3
<1>12. InOneMode'
  BY <1>1 DEF IInv, InOneMode
<1>13. BlocksCanBeTargets'
  BY <1>1, <1>2 DEF IInv, BlocksCanBeTargets
<1> QED
  BY <1>9, <1>10, <1>11, <1>12, <1>13 DEF IInv

-----------------------------------------------------------------------------
(* The loop *)

\* The loop goes on behind the instruction, with no more left than before.
Onward ==
  /\ pc' = "translate" /\ primary' \subseteq primary /\ alternative' \subseteq alternative
  /\ \E left \in SUBSET cur.left : cur' = [cur EXCEPT !.addr = NextAddr, !.left = left]

\* It ends there.
Ended ==
  pc' = "next" /\ cur' = cur /\ Remove(jt.addr, NextAddr - jt.addr)

\* The address of a block that an instruction makes, if any.
MayBeBlock(b) ==
  \/ b = NextAddr
  \/ b = Determined.t /\ Insn.op \in {"b", "bl", "bx", "blx", "ldrpc"}

\* The instruction, and its place.
LEMMA InsnIs ==
  ASSUME IInv, pc = "translate", CanTranslate
  PROVE  /\ Insn \in Insns /\ Insn.t \in Nat /\ Insn.size \in {2, 4}
         /\ cur.addr \in Nat /\ cur.addr % 2 = 0 /\ jt.addr \in Nat /\ jt.addr % 2 = 0
         /\ jt.addr <= cur.addr
         /\ NextAddr \in Nat /\ NextAddr % 2 = 0 /\ cur.addr < NextAddr
         /\ Halfwords(cur.addr, Insn.size) \subseteq cur.left /\ cur.left \subseteq Code
<1>1. /\ cur.addr \in cur.left /\ cur.left \subseteq Code /\ mode \in Modes
      /\ jt.addr \in Code /\ jt.addr <= cur.addr
      /\ Halfwords(cur.addr, Insn.size) \subseteq cur.left
  BY DEF IInv, TypeOK, Proven, DecodedIsGone, CanTranslate
<1>2. /\ Insn \in Insns
      /\ cur.addr \in Nat /\ cur.addr % 2 = 0 /\ jt.addr \in Nat /\ jt.addr % 2 = 0
  BY <1>1, CodeIs DEF IInv, Insn
<1>3. Insn.t \in Nat /\ Insn.size \in {2, 4}
  BY <1>2 DEF Insns
<1> HIDE DEF Insn
<1>4. NextAddr \in Nat /\ NextAddr % 2 = 0 /\ cur.addr < NextAddr
  BY <1>2, <1>3 DEF NextAddr
<1> QED
  BY <1>1, <1>2, <1>3, <1>4

\* The ends of the loop.
LEMMA GoOnOrEnd ==
  ASSUME IInv, pc = "translate", CanTranslate
  PROVE  /\ \A left \in SUBSET cur.left : GoOn(left) => Onward
         /\ End(NextAddr) => Ended
<1>1. NextAddr > jt.addr
  BY InsnIs
<1>2. End(NextAddr) => Ended
  BY <1>1 DEF End, Ended
<1>3. \A left \in SUBSET cur.left : GoOn(left) => Onward
  BY DEF GoOn, Onward
<1> QED
  BY <1>2, <1>3

\* What every kind of instruction does to the loop and to the blocks.
LEMMA TranslatedDoes ==
  ASSUME IInv, Translate, ~TranslationFails
  PROVE  /\ pc = "translate" /\ CanTranslate /\ in' = in /\ mode' = mode /\ jt' = jt
         /\ insns' = insns \cup {[addr |-> cur.addr, size |-> Insn.size, mode |-> mode]}
         /\ Onward \/ Ended
         /\ \A b \in blocks' : b \in blocks \/ MayBeBlock(b)
<1>1. pc = "translate" /\ CanTranslate
  BY DEF Translate, Translated, TranslateOrdinary, TranslateLoad, TranslateReturn,
     TranslateRefused, TranslateCall, TranslateCallOfBlock, TranslateCallOfNothing,
     TranslateBranch, TranslateCondBranch, TranslateCondGivenUp
<1>2. /\ in' = in /\ mode' = mode /\ jt' = jt
      /\ insns' = insns \cup {[addr |-> cur.addr, size |-> Insn.size, mode |-> mode]}
  BY DEF Translate, Translated, TranslateOrdinary, TranslateLoad, TranslateReturn,
     TranslateRefused, TranslateCall, TranslateCallOfBlock, TranslateCallOfNothing,
     TranslateBranch, TranslateCondBranch, TranslateCondGivenUp
<1>3. /\ GoOn(cur.left) => Onward
      /\ \A t : GoOn(LeftBefore(t)) => Onward
      /\ End(NextAddr) => Ended
  <2>1. \A t : LeftBefore(t) \in SUBSET cur.left
    BY DEF LeftBefore
  <2> QED
    BY <1>1, <2>1, GoOnOrEnd
<1>4. CASE TranslateOrdinary \/ TranslateRefused
  BY <1>1, <1>2, <1>3, <1>4 DEF TranslateOrdinary, TranslateRefused
<1>5. CASE TranslateLoad
  <2>1. /\ primary' \subseteq primary /\ alternative' \subseteq alternative
        /\ pc' = pc /\ blocks' = blocks
    BY <1>5 DEF TranslateLoad, Remove, Without
  <2>2. \E left \in SUBSET cur.left : cur' = [cur EXCEPT !.addr = NextAddr, !.left = left]
    <3> DEFINE l == IF NextAddr < Insn.t THEN LeftBefore(Insn.t) ELSE cur.left
    <3>1. cur' = [cur EXCEPT !.addr = NextAddr, !.left = l]
      BY <1>5 DEF TranslateLoad
    <3>2. l \in SUBSET cur.left
      BY DEF LeftBefore
    <3> HIDE DEF l
    <3> QED
      BY <3>1, <3>2
  <2> QED
    BY <1>1, <1>2, <2>1, <2>2 DEF Onward
<1>6. CASE TranslateReturn
  <2>1. \A b \in blocks' : b \in blocks \/ MayBeBlock(b)
    BY <1>6 DEF TranslateReturn, MayBeBlock
  <2>2. Onward \/ Ended
    BY <1>3, <1>6 DEF TranslateReturn
  <2> QED
    BY <1>1, <1>2, <2>1, <2>2
<1>7. CASE TranslateCall \/ TranslateCallOfBlock \/ TranslateCallOfNothing
  <2>1. Insn.op \in {"bl", "blx"}
    BY <1>7 DEF TranslateCall, TranslateCallOfBlock, TranslateCallOfNothing, Translated, IsCall
  <2>2. \A b \in blocks' : b \in blocks \/ b = Determined.t
    BY <1>7 DEF TranslateCall, TranslateCallOfBlock, TranslateCallOfNothing
  <2>3. Onward \/ Ended
    BY <1>3, <1>7 DEF TranslateCall, TranslateCallOfBlock, TranslateCallOfNothing
  <2> QED
    BY <1>1, <1>2, <2>1, <2>2, <2>3 DEF MayBeBlock
<1>8. CASE TranslateBranch
  <2>1. Insn.op \in {"b", "bx", "ldrpc"}
    BY <1>8 DEF TranslateBranch, Translated, IsBranch
  <2>2. \A b \in blocks' : b \in blocks \/ b = Determined.t \/ b = NextAddr
    BY <1>8 DEF TranslateBranch
  <2>3. Onward \/ Ended
    BY <1>3, <1>8 DEF TranslateBranch
  <2> QED
    BY <1>1, <1>2, <2>1, <2>2, <2>3 DEF MayBeBlock
<1>9. CASE TranslateCondBranch \/ TranslateCondGivenUp
  <2>1. Insn.op \in {"b", "bl", "bx", "blx"}
    BY <1>9 DEF TranslateCondBranch, TranslateCondGivenUp, Translated, IsCondBranch
  <2>2. \A b \in blocks' : b \in blocks \/ b = Determined.t \/ b = NextAddr
    BY <1>9 DEF TranslateCondBranch, TranslateCondGivenUp
  <2>3. Onward \/ Ended
    BY <1>3, <1>9 DEF TranslateCondBranch, TranslateCondGivenUp
  <2> QED
    BY <1>1, <1>2, <2>1, <2>2, <2>3 DEF MayBeBlock
<1> QED
  BY <1>4, <1>5, <1>6, <1>7, <1>8, <1>9 DEF Translate

\* What it pushes.
LEMMA TranslatePushesTargets ==
  ASSUME IInv, Translate
  PROVE  \A x \in targets' : x \in [type : {"SYMBOL", "FLOW"}, addr : Nat, mode : Modes]
<1> DEFINE OK(jts) == \A x \in jts : x \in [type : {"SYMBOL", "FLOW"}, addr : Nat, mode : Modes]
<1>1. OK(targets) /\ mode \in Modes
  BY DEF IInv, TypeOK
<1>2. ASSUME NEW jts, OK(jts), NEW a \in Nat, NEW m \in Modes
      PROVE  OK(Push(jts, a, "FLOW", m))
  BY <1>2, PushAdds
<1>3. CASE targets' = targets
  BY <1>1, <1>3
<1>4. CASE targets' # targets
  <2>1. /\ pc = "translate" /\ CanTranslate
        /\ \/ \E m \in {Determined.mode, DetermineMode(Insn.op, Determined.t, mode).mode} :
                targets' = Push(targets, Determined.t, "FLOW", m)
           \/ targets' = Push(Push(targets, Determined.t, "FLOW", Determined.mode),
                              NextAddr, "FLOW", mode)
    BY <1>4 DEF Translate, Translated, TranslateOrdinary, TranslateLoad, TranslateReturn,
       TranslateRefused, TranslateCall, TranslateCallOfBlock, TranslateCallOfNothing,
       TranslateBranch, TranslateCondBranch, TranslateCondGivenUp, TranslationFails,
       PushTarget
  <2>2. /\ Determined.t \in Nat /\ Determined.mode \in Modes /\ NextAddr \in Nat
        /\ DetermineMode(Insn.op, Determined.t, mode).mode \in Modes
    <3>1. Insn \in Insns /\ NextAddr \in Nat
      BY <2>1, InsnIs
    <3>2. Determined.t \in Nat /\ Determined.mode \in Modes
      BY <1>1, <3>1, DeterminedIsEven DEF Determined
    <3>3. DetermineMode(Insn.op, Determined.t, mode).mode \in Modes
      BY <1>1 DEF DetermineMode, Modes
    <3> QED
      BY <3>1, <3>2, <3>3
  <2> HIDE DEF OK
  <2>3. OK(Push(targets, Determined.t, "FLOW", Determined.mode))
    BY <1>1, <1>2, <2>2
  <2> QED
    <3>1. CASE \E m \in {Determined.mode, DetermineMode(Insn.op, Determined.t, mode).mode} :
                 targets' = Push(targets, Determined.t, "FLOW", m)
      BY <1>1, <1>2, <2>2, <3>1 DEF OK
    <3>2. CASE targets' = Push(Push(targets, Determined.t, "FLOW", Determined.mode),
                               NextAddr, "FLOW", mode)
      BY <1>1, <1>2, <2>2, <2>3, <3>2 DEF OK
    <3> QED
      BY <2>1, <3>1, <3>2
<1> QED
  BY <1>3, <1>4

\* Blocks are made behind instructions and at targets that have lost their bit.
LEMMA TranslateKeepsBlocks ==
  ASSUME IInv, Translate, ~TranslationFails
  PROVE  BlocksCanBeTargets'
<1> DEFINE Unbitten == \A m \in Modes, a \in in.primary \cup in.alternative :
                         in.code[m][a].op = "ldrpc" => in.code[m][a].t % 2 = 0
<1>1. Unbitten' <=> Unbitten
  BY TranslatedDoes
<1>2. ASSUME Unbitten, NEW b \in blocks' PROVE b % 2 = 0
  <2>1. /\ Insn \in Insns /\ NextAddr % 2 = 0
        /\ Insn.op = "ldrpc" => Insn.t % 2 = 0
    <3>1. cur.addr \in Code /\ mode \in Modes
      BY TranslatedDoes DEF CanTranslate, IInv, TypeOK
    <3> QED
      BY <1>2, <3>1, TranslatedDoes, InsnIs DEF Insn, Code
  <2>2. CASE b \in blocks
    BY <1>2, <2>2 DEF IInv, BlocksCanBeTargets
  <2>3. CASE MayBeBlock(b)
    <3> HIDE DEF Unbitten
    <3>1. mode \in Modes
      BY DEF IInv, TypeOK
    <3>2. Insn.op \in {"b", "bl", "bx", "blx", "ldrpc"} => Determined.t % 2 = 0
      BY <2>1, <3>1, DeterminedIsEven DEF Determined
    <3> QED
      BY <2>1, <2>3, <3>2 DEF MayBeBlock
  <2> QED
    BY <1>2, <2>2, <2>3, TranslatedDoes
<1> QED
  BY <1>1, <1>2 DEF BlocksCanBeTargets

\* The new instruction lies in what was left, which no other one has touched, and
\* is behind the others of this loop.
LEMMA TranslateKeepsApart ==
  ASSUME IInv, Translate, ~TranslationFails
  PROVE  DecodedIsGone' /\ InOneMode'
<1> DEFINE new == [addr |-> cur.addr, size |-> Insn.size, mode |-> mode]
           H == Halfwords(cur.addr, Insn.size)
<1>1. /\ pc = "translate" /\ CanTranslate /\ jt' = jt /\ insns' = insns \cup {new}
      /\ Onward \/ Ended
  BY TranslatedDoes
<1>2. /\ cur.addr \in Nat /\ cur.addr % 2 = 0 /\ jt.addr \in Nat /\ jt.addr % 2 = 0
      /\ jt.addr <= cur.addr /\ Insn.size \in {2, 4} /\ NextAddr = cur.addr + Insn.size
      /\ NextAddr \in Nat /\ NextAddr % 2 = 0 /\ cur.addr < NextAddr
      /\ H \subseteq cur.left /\ cur.left \subseteq Code
  BY <1>1, InsnIs DEF NextAddr
<1>3. /\ \A h \in Code : h \in Nat /\ h % 2 = 0
      /\ Rest \subseteq Code
  BY CodeIs DEF IInv
<1>4. \A h \in H : cur.addr <= h /\ h < NextAddr
  <2> SUFFICES ASSUME NEW h \in H PROVE cur.addr <= h /\ h < NextAddr
    OBVIOUS
  <2>1. h \in Nat /\ h % 2 = 0 /\ Insn.size \in Nat \ {0}
    BY <1>2, <1>3
  <2> QED
    BY <1>2, <2>1, HalfwordsBetween
<1>5. /\ \A h \in Decoded \cap Rest : jt.addr <= h /\ h < cur.addr
      /\ \A h \in Decoded \cap cur.left : h < cur.addr
  BY <1>1 DEF IInv, DecodedIsGone
<1>6. Decoded' = Decoded \cup H
  <2>1. Decoded' = Decoded \cup Halfwords(new.addr, new.size)
    BY <1>1 DEF Decoded
  <2> QED
    BY <2>1
<1>7. InOneMode'
  <2>1. \A i \in insns : Halfwords(i.addr, i.size) \cap H = {}
    <3> SUFFICES ASSUME NEW i \in insns, NEW h \in Halfwords(i.addr, i.size) \cap H
                 PROVE  FALSE
      OBVIOUS
    <3>1. h \in Decoded \cap cur.left
      BY <1>2 DEF Decoded
    <3> QED
      BY <1>2, <1>3, <1>4, <1>5, <3>1
  <2>2. \A i \in insns' : i \in insns \/ i = new
    BY <1>1
  <2>3. Halfwords(new.addr, new.size) = H
    OBVIOUS
  <2> HIDE DEF new, H
  <2> QED
    BY <2>1, <2>2, <2>3 DEF IInv, InOneMode
<1>8. DecodedIsGone'
  <2>1. CASE Onward
    <3>1. PICK left \in SUBSET cur.left : cur' = [cur EXCEPT !.addr = NextAddr, !.left = left]
      BY <2>1 DEF Onward
    <3>2. cur'.addr = NextAddr /\ cur'.left \subseteq cur.left
      BY <3>1 DEF IInv, TypeOK
    <3>3. pc' = "translate" /\ Rest' \subseteq Rest
      BY <2>1 DEF Onward, Rest
    <3>4. \A h \in Decoded' \cap Rest' : jt.addr <= h /\ h < NextAddr
      <4> SUFFICES ASSUME NEW h \in Decoded' \cap Rest' PROVE jt.addr <= h /\ h < NextAddr
        OBVIOUS
      <4>1. h \in Rest /\ h \in Nat
        BY <1>3, <3>3
      <4>2. CASE h \in Decoded
        BY <1>2, <1>5, <4>1, <4>2
      <4>3. CASE h \in H
        BY <1>2, <1>4, <4>1, <4>3
      <4> QED
        BY <1>6, <4>2, <4>3
    <3>5. \A h \in Decoded' \cap cur'.left : h < NextAddr
      <4> SUFFICES ASSUME NEW h \in Decoded' \cap cur'.left PROVE h < NextAddr
        OBVIOUS
      <4>1. h \in cur.left /\ h \in Nat
        BY <1>2, <1>3, <3>2
      <4>2. CASE h \in Decoded
        BY <1>2, <1>5, <4>1, <4>2
      <4>3. CASE h \in H
        BY <1>4, <4>3
      <4> QED
        BY <1>6, <4>2, <4>3
    <3> QED
      BY <1>1, <1>2, <3>2, <3>3, <3>4, <3>5 DEF DecodedIsGone
  <2>2. CASE Ended
    <3> DEFINE n == NextAddr - jt.addr
    <3>1. pc' = "next" /\ Rest' = Rest \ Halfwords(jt.addr, n)
      BY <2>2 DEF Ended, Remove, Without, Rest
    <3>2. n \in Nat \ {0} /\ jt.addr + n = NextAddr
      BY <1>2
    <3>3. ASSUME NEW h \in Decoded' \cap Rest PROVE h \in Halfwords(jt.addr, n)
      <4>1. h \in Nat /\ h % 2 = 0
        BY <1>3, <3>3
      <4>2. jt.addr <= h /\ h < NextAddr
        <5>1. CASE h \in Decoded
          BY <1>2, <1>5, <3>3, <4>1, <5>1
        <5>2. CASE h \in H
          BY <1>2, <1>4, <4>1, <5>2
        <5> QED
          BY <1>6, <3>3, <5>1, <5>2
      <4> HIDE DEF n
      <4> QED
        BY <1>2, <3>2, <4>1, <4>2, HalfwordsBetween
    <3>4. Decoded' \cap Rest' = {}
      BY <3>1, <3>3
    <3> QED
      BY <3>1, <3>4 DEF DecodedIsGone
  <2> QED
    BY <1>1, <2>1, <2>2
<1> QED
  BY <1>7, <1>8

\* The instructions of the loop.
LEMMA TranslateKeepsIt ==
  ASSUME IInv, Translate, ~TranslationFails
  PROVE  IInv'
<1>1. /\ pc = "translate" /\ in' = in /\ mode' = mode /\ jt' = jt
      /\ Onward \/ Ended
  BY TranslatedDoes
<1>2. NextAddr \in Nat
  BY TranslatedDoes, InsnIs
<1>3. /\ pc' \in {"next", "translate"} /\ cur'.useAlt = cur.useAlt
      /\ primary' \subseteq primary /\ alternative' \subseteq alternative
      /\ cur' \in [addr : Nat, left : SUBSET Code, useAlt : BOOLEAN]
  BY <1>1, <1>2 DEF Onward, Ended, Remove, Without, IInv, TypeOK
<1>4. TypeOK'
  <2>1. Code' = Code
    BY <1>1 DEF Code
  <2> QED
    BY <1>1, <1>3, <2>1, TranslatePushesTargets DEF IInv, TypeOK
<1>5. Proven'
  BY <1>1, <1>3 DEF IInv, Proven, Code
<1> QED
  BY <1>4, <1>5, TranslateKeepsBlocks, TranslateKeepsApart DEF IInv

\* When it cannot go on, all that was decoded leaves the ranges.
LEMMA TranslationFailsKeepsIt ==
  ASSUME IInv, TranslationFails
  PROVE  IInv'
<1> DEFINE n == IF cur.addr > jt.addr THEN cur.addr - jt.addr ELSE 1
<1>1. /\ pc = "translate" /\ pc' = "next" /\ in' = in /\ mode' = mode /\ jt' = jt /\ cur' = cur
      /\ targets' = targets /\ blocks' = blocks /\ insns' = insns
      /\ primary' = Without(primary, jt.addr, n) /\ alternative' = Without(alternative, jt.addr, n)
  BY DEF TranslationFails, End, Remove
<1>2. primary' \subseteq primary /\ alternative' \subseteq alternative
  BY <1>1 DEF Without
<1>3. TypeOK'
  BY <1>1, <1>2 DEF IInv, TypeOK, Code
<1>4. Proven'
  BY <1>1 DEF Proven
<1>5. DecodedIsGone'
  <2>1. /\ jt.addr \in Nat /\ jt.addr % 2 = 0 /\ cur.addr \in Nat
        /\ \A h \in Rest : h \in Nat /\ h % 2 = 0
        /\ \A h \in Decoded \cap Rest : jt.addr <= h /\ h < cur.addr
    BY <1>1, CodeIs DEF IInv, TypeOK, Proven, DecodedIsGone
  <2>2. n \in Nat \ {0}
    BY <2>1
  <2>3. Rest' = Rest \ Halfwords(jt.addr, n) /\ Decoded' = Decoded
    BY <1>1 DEF Rest, Without, Decoded
  <2>4. ASSUME NEW h \in Decoded \cap Rest PROVE h \in Halfwords(jt.addr, n)
    <3>1. h \in Nat /\ h % 2 = 0 /\ jt.addr <= h /\ h < jt.addr + n
      BY <2>1, <2>4
    <3> HIDE DEF n
    <3> QED
      BY <2>1, <2>2, <3>1, HalfwordsBetween
  <2>5. Decoded' \cap Rest' = {}
    BY <2>3, <2>4
  <2> QED
    BY <1>1, <2>5 DEF DecodedIsGone
<1>6. InOneMode' /\ BlocksCanBeTargets'
  BY <1>1 DEF IInv, InOneMode, BlocksCanBeTargets
<1> QED
  BY <1>3, <1>4, <1>5, <1>6 DEF IInv

(***************************************************************************)
(* The theorems                                                            *)
(***************************************************************************)

\* The inductive invariant holds throughout.
THEOREM Invariance == Spec => []IInv
<1>1. Init => IInv
  <2> SUFFICES ASSUME Init PROVE IInv
    OBVIOUS
  <2>1. /\ in \in Inputs /\ mode = "ARM" /\ jt = NoTarget /\ pc = "next" /\ cur = NotDecoding
        /\ primary = in.primary /\ alternative = in.alternative /\ insns = {}
        /\ blocks = {x.addr : x \in targets}
        /\ targets = {} \/ targets = Push({}, in.symbol.addr, "SYMBOL", in.symbol.mode)
    BY DEF Init
  <2>2. in.symbol.addr \in Nat /\ in.symbol.mode \in Modes
    BY <2>1, InputsAssumption
  <2>3. \A x \in targets :
          x \in [type : {"SYMBOL", "FLOW"}, addr : Nat, mode : Modes] /\ x.addr % 2 = 0
    BY <2>1, <2>2, PushAdds
  <2>4. TypeOK
    BY <2>1, <2>3 DEF TypeOK, NoTarget, NotDecoding, Modes, Types
  <2>5. DecodedIsGone /\ InOneMode /\ BlocksCanBeTargets
    BY <2>1, <2>3 DEF DecodedIsGone, Decoded, InOneMode, BlocksCanBeTargets
  <2> QED
    BY <2>1, <2>4, <2>5 DEF IInv, Proven
<1>2. IInv /\ [Next]_vars => IInv'
  <2> SUFFICES ASSUME IInv, [Next]_vars PROVE IInv'
    OBVIOUS
  <2>1. CASE GetJumpTarget
    <3>1. /\ pc = "next" /\ pc' = "decode" /\ in' = in /\ mode' = mode /\ primary' = primary
          /\ alternative' = alternative /\ blocks' = blocks /\ targets' \subseteq targets
          /\ cur' = cur /\ insns' = insns
          /\ \/ jt' \in targets
             \/ jt' = [type |-> "LEFTOVER", addr |-> Min(primary), mode |-> mode]
      BY <2>1 DEF GetJumpTarget
    <3>2. jt' \in [type : Types, addr : {jt'.addr}, mode : Modes]
      BY <3>1 DEF IInv, TypeOK, Types
    <3> QED
      BY <3>1, <3>2 DEF IInv, TypeOK, Proven, DecodedIsGone, InOneMode, BlocksCanBeTargets,
         Code, Rest, Decoded
  <2>2. CASE SkipNoRange \/ Finish
    <3>1. /\ pc \in {"next", "decode"} /\ pc' \in {"next", "done"} /\ in' = in /\ mode' = mode
          /\ primary' = primary /\ alternative' = alternative /\ blocks' = blocks
          /\ targets' = targets /\ jt' = jt /\ cur' = cur /\ insns' = insns
      BY <2>2 DEF SkipNoRange, Finish
    <3> QED
      BY <3>1 DEF IInv, TypeOK, Proven, DecodedIsGone, InOneMode, BlocksCanBeTargets,
         Code, Rest, Decoded
  <2>3. CASE DecodeJumpTarget
    BY <2>3, DecodeJumpTargetKeepsIt
  <2>4. CASE SwitchMode
    <3>1. /\ pc = "switch" /\ pc' = "translate" /\ in' = in /\ mode' = jt.mode
          /\ primary' = primary /\ alternative' = alternative /\ blocks' = blocks
          /\ targets' = targets /\ jt' = jt /\ cur' = cur /\ insns' = insns
      BY <2>4 DEF SwitchMode
    <3> QED
      BY <3>1 DEF IInv, TypeOK, Proven, DecodedIsGone, InOneMode, BlocksCanBeTargets,
         Code, Rest, Decoded
  <2>5. CASE Translate
    BY <2>5, TranslateKeepsIt, TranslationFailsKeepsIt
  <2>6. CASE UNCHANGED vars
    BY <2>6 DEF vars, IInv, TypeOK, Proven, DecodedIsGone, InOneMode, BlocksCanBeTargets,
       Code, Rest, Decoded
  <2> QED
    BY <2>1, <2>2, <2>3, <2>4, <2>5, <2>6 DEF Next, Done
<1> QED
  BY <1>1, <1>2, PTL DEF Spec

\* Code is translated in the mode of its target, and what needs a dry run in a mode
\* whose dry run has seen what proves it, in whatever mode failing dry runs have
\* left the disassembler.
THEOREM ModeIsProven == Spec => []TranslatesInProvenMode
<1>1. IInv => TranslatesInProvenMode
  BY DEF IInv, Proven, TranslatesInProvenMode
<1> QED
  BY <1>1, Invariance, PTL

\* No halfword belongs to two instructions, whether of one mode or of both.
THEOREM HalfwordsAreInOneMode == Spec => []InOneMode
<1>1. IInv => InOneMode
  BY DEF IInv
<1> QED
  BY <1>1, Invariance, PTL

\* No block is made at an address that has the bit for the mode, unless a load to
\* PC has it.
THEOREM BlocksAreReached == Spec => []BlocksCanBeTargets
<1>1. IInv => BlocksCanBeTargets
  BY DEF IInv
<1> QED
  BY <1>1, Invariance, PTL
=============================================================================
