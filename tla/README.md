# RetDec: TLA+ models, checks and proofs

RetDec turns a binary into a high-level program. This project models the parts
of it that decide *what is code*: the loader that puts the bytes of a file at
their addresses, the initialisation of the ranges to decode, the **decoder** of
`bin2llvmir` with its fixpoint over terminating calls and its ARM modes, and the
first analysis that the passes behind it rest on; and around them the driver
with its thread, its timeout and its temporary files. Most of this has no
unit tests of its own. TLC checks the models on small instances; TLAPS proves
what the decoder does to the bytes of any binary, what its ranges hold and which
of the driver's promises its thread cannot break.

## 1. The system

| Part | State | Operations | Hard behaviour |
|---|---|---|---|
| `common::RangeContainer` (`include/retdec/common/range.h`) | a sorted vector of ranges `<start, end)` | `insert`, `remove`, `getRange`, `clear` | merging and splitting at the ends, empty ranges |
| `RangesToDecode` (`decoder_ranges.cpp`) | primary and alternative ranges, strictness | add, remove, look up, promote | alignment; bytes leave late, when a block is finished |
| `JumpTargets` (`jump_targets.cpp`) | ordered set of targets (priority, address, origin) | `push`, `top`, `pop` | a target is seen once; priority decides what is known when |
| `Decoder` (`decoder.cpp`) | the two above, maps address <-> block <-> function, the builder | `decode`, `decodeJumpTarget`, `getJumpTargetsFromInstruction`, dry runs | overlapping code, data in code, targets that cannot be expressed, termination |
| block and function maps (`bbs.cpp`, `functions.cpp`) | `_addr2bb`, `_addr2fnc` and their inverses | look-ups at, before, containing an address; creation | look-ups by address against order in LLVM's lists |
| `ir_modifications.cpp`, `AsmInstruction` | the LLVM module | splitting blocks and functions, branches to calls | a split of what is being decoded; edges over the cut |
| `Decoder` initialisation (`decoder_init.cpp`) | segments, structures, selected ranges | `initRanges`, `removeZeroSequences` | alignment against removal; the entry point inside of what is removed |
| patterns (`patterns.cpp`) | terminating and non-terminating functions, the calls to them | the fixpoint, splits behind the calls | order of pointers in sets; blocks erased while others are visited |
| ARM (`arm.cpp`) | the disassembler's mode, the mode of targets | dry runs in both modes, mode of a target, switches | a mode left changed; the THUMB bit of an address |
| ARM64, MIPS, PowerPC | the same | delay slots, alignment | translation behind a branch |
| `loader` (`image.cpp`, `segment.cpp`, `elf_image.cpp`, `pe_image.cpp`, `overlap_resolver.cpp`) | segments with a window into the file each | load, cut, split, grow, sort | half-open ranges that touch; windows that must follow their addresses |
| reaching definitions (`analyses/reaching_definitions.cpp`) | sets of definitions of each block, changed flags | rounds until nothing changes; searches on demand | a change that a later visit hides; two implementations of one answer |
| optimizations after the decoder, `llvmir2hll` | LLVM IR, BIR | rewrites | values of programs |
| `fileformat`, `pelib`, debug and type readers | file data | parsing | malformed input |
| `retdec-decompiler`, `unpackertool`, `unpacker::Plugin` | options, temporary files, files to clean, cached exit codes | extract, unpack, decompile, clean up | a thread that goes on after a timeout; plugins that fail half-way |

How they interact: the driver extracts and unpacks the input and calls the
library; the loader makes an image of it; `initRanges` asks the image for segments
and structures; the decoder takes ranges and targets, asks the dry runs of its
architecture, and fills the module; when the worklist is empty, the patterns
revise the functions; the passes behind it ask the reaching definitions.

The decoder is one thread. What makes it hard is that every instruction may
change what earlier instructions meant: a call into the middle of a function
cuts it in two, a jump into a block cuts the block that is being filled, and the
branches that crossed the cut must become calls. The order in which targets are
processed is fixed by their priority, so each binary has one run; the models
range over binaries.

`PROJECT.json` lists every part with its status, the hazards at their lines and
the properties aimed at them.

## 2. The modules

**`RangeVector`** has the operations of `RangeContainer<T>` on its vector, with binary
searches and iterators as positions (`Len + 1` is the end iterator);
`RangeContainer` and `RangesToDecode` use them. **`RangeContainer`** is the container
as a state machine: `call` and `inserted` keep the last call and the flag that
`insert` returned. **`AddressSet`** is what it
promises: a set of addresses. `RangeContainer` implements it under
`elems <- Elems(ranges)`, and for that reason `Decoder` keeps ranges as sets of
addresses, with `RangeEnd` for the end of the range `getRange` finds;
`GetRangeFindsTheRun` is the fact that makes this sound. **`RangeProofs`** has the
theorems, and before them the lemmas on vectors; in its second part are the theorems about
`RangesToDecode`, which uses the same vectors.

**`DecoderIr`** is the control-flow skeleton of the LLVM module as one record: the
block list of each function (`fncs`), the block (`bbOf`) and end (`end`) of each ASM
instruction, the branches between blocks (`edges`) and known function sizes
(`fncSz`). Blocks and functions are named by their addresses, so `_addr2bb` and
`_addr2fnc` need no variables of their own. Each look-up and modification of
`bbs.cpp`, `functions.cpp` and `ir_modifications.cpp` is an operator from a record to
a record. What instructions compute is left out; an edge is a terminator with
a target: `br`, `true`/`false` of a conditional branch, `condcall` (the branch around the
body of a conditional call; the body has no address and belongs to the block
before it). A call has no edge. The loop of `canSplitFunctionOn` that
collects new function starts is the least set closed under its step (parts only
get finer, so a block that is crossed once stays crossed: `FinerParts`). **`DecoderIrProofs`** has the lemmas
about these operators, which the proofs of `Decoder` and of `TerminatingCalls` share.

**`Decoder`** is the worklist. Variables: `primary`, `alternative` (ranges),
`jumpTargets`, `jt` (the target taken), `ir`, `cur` (locals of `decodeJumpTarget`: start,
next address, limit, block of the builder) and `pc`. `input` is the binary.

| Action | Code |
|---|---|
| `GetJumpTarget` | `getJumpTarget`: top of the worklist, else the front of the primary ranges as a leftover |
| `SkipImport`, `SkipNoRange` | early returns of `decodeJumpTarget` |
| `DecodeJumpTarget` | range, size limits, dry run (`SkipDryRun`), block to fill (`Begin`) |
| `Translate` | one turn of the loop: translation, `getJumpTargetsFromInstruction` and `instructionBreaksBasicBlock`; at the end of the block the removal of the decoded range |
| `TranslateFails` | the failing turn: branch to the block that was reached, removal |
| `Finish` | `decode` returns, or throws when nothing was decoded |

A binary is a function from addresses to instructions. An instruction has a
size, a kind and a constant target: `op`, `nop`, `ret`, `br`, `cond`, `call`, `load`,
`hlt`, `mov1` (`mov eax, 1`), `int80`, `syscall`, `bad` (does not disassemble). Disassembly and
translation are external (capstone, `capstone2llvmir`); they succeed when the
whole instruction lies before the limit. Address 0 is `Undefined` and `nullptr`.
A `load` marks one byte as data. Control flow targets that are not constant are `t = 0`.

**`MCDecoder`** enumerates binaries and layouts of ranges, symbols and imports.
**`DecoderProofs`** holds the theorems.

**`RangesToDecode`** is the class of that name and `initRanges` as a whole:
`AddSegment`/`AddSelected` (segments or the ranges the user selected),
`RemoveNonDecodable` (structures), `RemoveZeroSequences`, `Promote`, and then removals
as decoding makes them (`Decoding`). A byte is `code`, `zero` or `none` (cannot be read).
The alignment, the least length of a sequence of zeroes and its margin are
constants. Structures may be empty, as directories of size 0 are. `StartsOnInstruction` and
`ZeroRemovalKeepsCode` are about images that are `Gapless`: what is wanted of them does
not reach over unreadable bytes. An image without selected ranges always is
(`SegmentsHaveNoGap`, proved). **`RangeProofs`** has the theorems.

**`LoaderImage`** has what the images share: the file and the segments, `OverlapResolver::resolve` with its
five outcomes, a segment as address, size and a window into the file (`SegShrink`,
`SegResize`, `DataShrink`), and the look-up of a byte. A byte is the offset it is at, so
a window that was not moved shows. **`ElfImage`** loads an executable:
the table of sections for each header, `addSegment`, which cuts, splits or removes what
it covers, sorting and the growing of BSS. **`PeImage`** loads sections in
the order of the table, the header-only file as one segment, and marks structures
as not decodable in every segment they touch. **`LoaderProofs`** has the theorems about both.

**`TerminatingCalls`** is `patternTerminatingCalls`: `Gather`, `Examine` of one function
after the other in any order (the sets are ordered by pointers), `EndRound`, and then
`SplitBlocks` and `SplitFunctions` for the calls in any order. It works on `DecoderIr`'s
record. A path is the set of blocks that the worklist meets (`Seen`). `WellDecoded` is what the decoder hands over when
every jump could be expressed. **`TerminatingCallsProofs`** has the theorems.

**`ArmMode`** is what ARM adds to the worklist: a leftover and a symbol in an alternative range are tried in both modes
(`BothDryRuns`), a target has a mode (`DetermineMode`), `SwitchMode` changes the mode of
the disassembler. A strict dry run that fails leaves the mode as it
set it. The loop of `decodeJumpTarget` takes one action per instruction: `TranslationFails`, or one of the actions
for ordinary instructions, loads, returns, calls, branches and conditional branches. A target inside of the instruction, or for a call the
next one, is refused and neither pushed nor given a block (`TranslateRefused`). `cur` is the address in the loop and
the halfwords that `bytes` still has, which calls, branches and loads trim (`LeftBefore`). What lies at an address is given per mode: what a dry run
sees there, and an instruction of 2 or 4 bytes. Whether the target of a call or a branch gets a block, a function without one, or
nothing is `Decoder`'s matter, and so is whether a function can be split; here each may happen, with the consequences it has for what is pushed
and whether the loop goes on. **`ArmModeProofs`** has the theorems.

**`DecompilerDriver`** is `main`, `decompile` and `cleanup`. Each file that is made, registered or
removed is a step, the thread's steps interleave with those of `main`, the thread may
hang at any of them, a plugin may fail with its output half written, and a pass may
end the process (`ExitInPass`). After a race on `toClean` the loop of `cleanup` may miss
files or crash. **`DriverProofs`** has the theorems.

**`ReachingDefinitions`** is the analysis on one function. A block is the sequence of the
variables that it defines; uses are considered at every place of every
block, so the model answers for any load. `Visit` is one call of `initDefsOut`, `EndRound` the
`while` of `propagate`. The worklist is the set of the blocks that the entry reaches, which a
round takes in the order of their numbers; since every graph is enumerated, that is every
order. The searches on demand are operators: what a walk over predecessors or successors finds
is the least set that is closed under its step. **`ReachingDefinitionsProofs`** has the theorems.

## 3. What is checked

| Run | Instance | Shows |
|---|---|---|
| `ranges` | all bounds 0..7, non-empty ranges, any sequence of calls | `Canonical`, `GetRangeFindsTheRun`, `ImplementsAddressSet` |
| `decoder` | three families of binaries: 5 one-byte instructions, three of them jumps with targets 1..4, and a symbol with or without a size; 4 bytes with jumps of 1 or 2 bytes; 4 bytes with every kind of instruction, over data ranges with an import that does not return, strict ranges, or without an entry point | `TypeOK`; functions and blocks: `FunctionsOwnBlocks`, `EdgesInFunction`, `EntryHasNoPredecessor`, `OneTerminator`, `BlocksInOrder`, `LookupsAgree`, `FallThroughKept`; bytes: `NoByteDecodedTwice`, `DecodedLeavesRanges`, `LoadedDataStaysData`, `TargetsDecoded`; `Termination` |
| `init` | two segments of every kind, up to two structures, empty ones too, and three entry points; or one or two selected ranges, an unreadable end or a gap, two removals; 12 addresses, code at up to two places or everywhere, alignment 2 | `EntryPointIsDecodable`, `StartsOnInstruction`, `RemovesTheSlotsAsked`, `ZeroRemovalKeepsCode` |
| `elf` | three headers anywhere in 5 addresses, all their bytes in the file; or two headers next to each other and two sections anywhere in 7 addresses, with and without bytes, congruent with a header or not | `Disjoint`, `BytesAreTheLastLoaded`, `AgreesWithKernel` |
| `pe` | up to three sections in any order, two structures, 6 addresses | `SectionsAreWhole`, `StructuresAreMarked` |
| `term` | three functions of two instructions that call each other, or one of five and one of one with forward jumps | `FoundNeverReturn`, `FlowStops`, `FlowIsKept`, `BranchesInFunction`, `Termination` |
| `driver` | every kind of input (fat or not, archive or not, up to two packers of three), with and without timeout and cleanup | `ExitCodeIsTruthful`, `InputIsComplete`, `FinishedFilesRemoved`, `TimeoutEnds` |
| `arm_mode` | five halfwords; in one mode an instruction of interest (BL, BX, BLX, a load, a load to PC, a return or none at all; conditional or not; target inside of it, behind it, odd, an import) at the first or third, ordinary ones up to a return otherwise; a first halfword of four kinds for the dry run in either mode; a symbol or none, strict or not, code in primary or alternative ranges | `TranslatesInProvenMode`, `InOneMode`, `Termination` |
| `rda` | four blocks, up to five edges, two definitions of one or two variables | `DefsAreThoseThatReach`, `OnDemandAgrees`, `Termination` |
| `elf_partial`, `arm_exchange` | larger input sets than the passing runs of their modules | violations, see Findings |
| `split_inside` | one binary of 30 bytes | a violation, see Findings |

Why these bounds are enough to be interesting. Eight bounds allow four separate
ranges and an insert or remove that spans several of them. Five instructions with
three jumps are the least in which a function is split twice, or split on a
block that itself becomes a new start because of an edge over the first cut; the
sized symbol makes splitting impossible, so every jump form has its given-up
case. Twelve addresses hold two sequences of zeroes of the least length with
code between them. Three headers are the least in which a piece that is left of
a split is cut again. Three functions allow mutual recursion and a function found
terminating two rounds after another. Four blocks are the least with a loop whose
head is visited before and after its latch and with a block outside of it. Five halfwords hold an ARM
instruction, one more that is a target, and a halfword that only THUMB can take. Every
action and disjunct fires.

`LookupsAgree` and `TargetsDecoded` are conditional on `NoneGivenUp`: where a call or a
conditional jump could not be expressed, the code leaves a block nobody branches to,
and they fail. `LookupsAgree` is conditional on `NoneInside` as well (no block begins inside an
instruction), and `TargetsDecoded` speaks of the branches that exist when bytes leave the ranges. `BlocksInOrder` does not
say that lists are sorted by address, which is false: a block may come after a later one, but only
where a branch within the function leads over it. It and `EdgesInFunction` and `EntryHasNoPredecessor` are conditional on
`NoFunctionInside`; what happens without is the finding of `split_inside`. `FallThroughKept` is conditional on it as well, and speaks
of forward branches that do not lead into the middle of the code of a block: both conditions are needed, see the known deviations. `LoadedDataStaysData` leaves out data right behind the load, up to which the
code does not trim (`decoder.cpp:804`). The `elf` run leaves out headers with more memory than
bytes that overlap, the `term` run loops (see Known deviations), the `arm_mode` run says nothing of the
mode a BLX should have: violation runs are about the first and the last.

**Fairness.** `Decoder`, `TerminatingCalls`, `ArmMode` and `ReachingDefinitions` are one thread that never waits:
weak fairness of `Next`. In `Decoder` and `TerminatingCalls` it is written out (a step is taken
again and again unless the end is reached), because `ENABLED Next` is costly to evaluate. In
`DecompilerDriver` only `main` is fair: it waits for the future and the timer and for nothing
else, while the thread may hang in any step. `TimeoutEnds` is to hold even then.

### Findings

* `elf_partial` (`segment_data_source.cpp:51`): `SegmentDataSource::shrink` refuses a size greater than the
  data it holds and leaves its window alone; `Segment::shrink` has changed the address by
  then and does not look at the result. A segment with more memory than bytes that is
  cut at its start shows its first bytes at the new address.
* `split_inside` (`ir_modifications.cpp:607`): the assertion at the end of `splitFunctionOn` that no branch leaves its
  function. `canSplitFunctionOn` assigns blocks to the parts by their addresses, `splitFunctionOn` moves what comes behind in
  the list. The two differ for a function that has a block of lower address than its own (see Known deviations): split
  on that block, blocks of higher addresses go with it, and a conditional call keeps its fall-through branch to one of
  them. It was found in an attempt to prove `EdgesInFunction` without its condition.
* `arm_exchange` (`decoder.cpp:520`, `:556`): for a call, `determineMode` is asked twice about the same
  target and clears its lowest bit the first time. The second answer, ARM for an
  address that was odd, is pushed. In the trace, a BLX of 4 bytes at 4 leads to 13, which is neither
  the next instruction nor inside of this one, so no guard stops it (`decoder.cpp:509`, `:515`).

### Known deviations

These are disagreements between code and comments that the models show as
well; they are described here and are not among the runs. Each can be seen by
weakening the input set or strengthening the property that is named.

* `range.h:424`: `remove` of an empty range from inside a stored range cuts it into two adjacent
  ones, though the class comment promises that continuous ranges are merged. PE
  directories of size 0 reach it through `initAllowedRangesWithSegments`. `RangeContainer` leaves
  empty ranges out: allow them in `RangeContainer!Ranges` and `Canonical` fails.
  `RangesToDecode` has them, and its properties do not rest on merged ranges.
* `bbs.cpp:106`: `getBasicBlockContainingAddress` returns the last block that starts at or before the
  address, which is not the one that contains it when a given-up jump has left an empty
  block. `LookupsAgree` without `NoneGivenUp`. The same happens after a call into the middle of an
  instruction where the function cannot be split: a block is created there and branched to.
  `LookupsAgree` without `NoneInside`.
* `ir_modifications.cpp:336`: `canSplitFunctionOn` asks for the address of the ASM instruction of a block, and the
  block may have none at or before it: `getAddress` then stops at its assertion (`asm_instruction.cpp:372`). One
  sequence: 1: `br 6`, 2: `br 7` (a symbol), 3: `call 9` (a symbol), a symbol of size 4 at 4, nothing that
  disassembles at 5, 6: `br 5`, 7: `br 9`, 9: `br 6`. The split on 9 makes 6 and then 5 a start, and 5 has no instruction. The model
  goes on as a build without assertions would with a block that no branch falls into.
* `ir_modifications.cpp:383`: `canSplitFunctionOn(addr, ...)` takes the block at the address of the split for a start without asking
  `canSplitFunctionOn(bb)`, although the comment there (`:321`) says "All users must be unconditional branch instructions". A conditional branch
  back to that block is in the same part and is never met; `splitFunctionOn` replaces it by a call and a return, and its fall-through is lost. In
  1: `br 5`, 2: `ret`, 3: `cond 3`, 4: `ret`, 5: `br 2`, 6: `call 5`, 7: `call 3`, 8: `ret`, a symbol of size 4 at 1, the block 3 is a leftover; the call
  of 5 makes a function of 2, and 3 goes with it, out of reach of the symbol; then the call of 3 loses the branch to 4. No jump is given up: an attempt to
  prove `FallThroughKept` with `NoneGivenUp` as its condition showed that. `FallThroughKept` without `e.at < d.to` in `LeadsForward`.
  The split behind a terminating call (`patterns.cpp:290`) does the same: `FlowIsKept` with `Two(TRUE)` among the programs.
* `decoder.cpp:252`: bytes that a dry run has skipped leave the ranges. A jump that is decoded later and
  leads there has a block that stays empty. `TargetsDecoded` for branches of any time.
* `ir_modifications.cpp:559`: a split may put a block of lower address than the function's into it. In 1: `cond 11`,
  4: `cond 3`, 5: `br 8`, 9: `call 8`, a symbol of size 3 at 10 and other instructions between, function 8 has the blocks 8 and 2.
  `canSplitFunctionOn` refuses to split such a function anywhere else than on its lowest block, because the walk over its blocks
  finds no start at or before 2. `NoFunctionInside` excludes the split on that block.
* `ir_modifications.cpp:559`: likewise a split takes along a block that a forward conditional branch leads to, and the branch loses its fall-through. In
  1: `br 6` (2 bytes), 3: `cond 7`, 4: `cond 8`, 5: `br 11`, 6: `cond 2`, 9: `br 3`, 11: `call 11` and other instructions between, the jump at 6 is given up
  and leaves the block 7 in the middle of code, the one at 4 cuts that code at 8, in front of 7 in the list, and 11 comes between the two: the call of
  11 moves 7 to the function at 11, and the jump at 3 becomes a call. `FallThroughKept` without `Inside` in `LeadsForward`.
* `decoder_ranges.cpp:125`: an unreadable byte ends the scan for zeroes, but the sequence is measured
  to the end of the range, and code behind the gap is removed, although the
  comment at `:109` says that only what is surely no instruction is. It takes a selected
  range that spans a gap between two segments. `ZeroRemovalKeepsCode` without `Gapless`.
* `overlap_resolver.cpp:76`: a section that ends where a header starts is taken for one of that
  header's, and the header itself, which has no section, is not loaded, although the comment at
  `elf_image.cpp:170` says "just map segment itself".
* `patterns.cpp:129`: a function that was examined before its callee was found terminating stays
  non-terminating for ever, and which comes first is the order of pointers. `FoundNeverReturn` is
  the safe direction and holds; the converse does not.
* `retdec-decompiler.cpp:1046`: after a timeout the detached thread writes and registers files
  that `cleanup` has not seen. `FinishedFilesRemoved` without `ret # "timeout"`.
* `retdec-decompiler.cpp:951`: a plugin that fails half-way leaves its output, which is
  registered only after a success. `FinishedFilesRemoved` for partial files.
* `unpacker.cpp:127`: arguments that cannot be parsed (an input name that begins with a dash) are
  reported as success. `InputIsComplete` without `~opt.dash`.

## 4. What is proved

Each theorem below is `Spec => []...` (or an action property `Spec => [][...]_vars`, or a refinement) for **every** value of the constants: any input of any
size. TLC has seen the same properties on the small instances of section 3, and
evaluates every assumption on them.

| Module | Theorems | Property of a run |
|---|---|---|
| `RangeProofs` | `AlwaysCanonical`, `SearchFindsTheRun`, `Refinement` | `Canonical`, `GetRangeFindsTheRun`, `ImplementsAddressSet` |
| `DecoderProofs` | `TypeCorrect`, `NeverDecodedTwice`, `DecodedIsRemoved`, `LoadedStaysData`, `BlocksAreOwned`, `BlocksEndOnce`, `BlocksStayInOrder`, `BranchesStayInside`, `EntriesHaveNoPredecessor`, `LookUpsStayTrue`, `FallThroughsAreKept` | `TypeOK`, `NoByteDecodedTwice`, `DecodedLeavesRanges`, `LoadedDataStaysData`, `FunctionsOwnBlocks`, `OneTerminator`, `BlocksInOrder`, `EdgesInFunction`, `EntryHasNoPredecessor`, `LookupsAgree`, `FallThroughKept` |
| `RangeProofs` | `StartsOnInstructions`, `SlotsAskedAreRemoved`, `CodeSurvivesZeroRemoval`, `EntryPointStaysDecodable` | `StartsOnInstruction`, `RemovesTheSlotsAsked`, `ZeroRemovalKeepsCode`, `EntryPointIsDecodable` |
| `LoaderProofs` | `ElfSegmentsAreDisjoint`, `ElfReadsTheLastLoaded`, `ElfAgreesWithKernel`, `PeSectionsAreWhole`, `PeStructuresAreMarked` | `Disjoint`, `BytesAreTheLastLoaded`, `AgreesWithKernel` (these two under `PartialsKeepTheirStart`), `SectionsAreWhole`, `StructuresAreMarked` |
| `TerminatingCallsProofs` | `FoundDoNotReturn`, `BranchesStayInside`, `FlowStopsBehindCalls`, `RestOfFlowIsKept` | `FoundNeverReturn`, `BranchesInFunction`, `FlowStops` (these two under `WellDecoded`), `FlowIsKept` (under `CondsLeadForward` as well) |
| `ArmModeProofs` | `ModeIsProven`, `HalfwordsAreInOneMode`, `BlocksAreReached` | `TranslatesInProvenMode`, `InOneMode`; the last one, of `BlocksCanBeTargets`, has no run |
| `DriverProofs` | `ExitCodeTruthful`, `InputComplete`, `FinishedFilesAreRemoved` | `ExitCodeIsTruthful`, `InputIsComplete`, `FinishedFilesRemoved` |
| `ReachingDefinitionsProofs` | `LinksWhatReaches`, `AnswersTheSameOnDemand` | `DefsAreThoseThatReach`, `OnDemandAgrees` |

`DecoderIrProofs` has lemmas only. Each of the other modules has a theorem `Invariance` (`RangeProofs` also `RangeInvariance` for the
container; `LoaderProofs` one for each format and `BytesInvariance`; `DecoderProofs` and `TerminatingCallsProofs` also
`FlowInvariance` for the blocks, and `DecoderProofs` `LookInvariance` for the look-ups) with the inductive invariant that the others follow from. None of the properties is
inductive as it stands; what is missing differs.

**Ranges.** The lemmas on vectors are stated for any ranges of integers: binary
searches find the place they promise, `insert` and `remove` give a vector with
exactly the right elements, and keep it sorted. The order of neighbours is not enough to
reason about a splice that spans many ranges, so `Canon` states the order for any two of
them. The container needs no more than `Canon`: `Refinement` shows that each call
on the vector is the call on the set of addresses (and sets the flag of `insert`
as the change of the set requires). Assumption: `RangeAssumption`.

**Decoder.** `NoByteDecodedTwice` and `DecodedLeavesRanges` are not inductive: while a target is being
decoded, its own instructions are still in the ranges, because the code removes
them only at the end of the block. `IInv` therefore splits the instructions, while
`pc = "translate"`, into those of the current target (`Own`: from its start up to the next
address) and the others (`Apart`: neither in the ranges nor in what is still to be
decoded); when no target is being decoded all of them are out of the ranges.
`RangeEndBoundsRun`: from an address up to its `RangeEnd` there is no gap, so the limit of a
decoding (`DecodeEndInRange`) stays in bytes no instruction owns. `EffectsAreConfined`: whatever calls,
branches and splits do to the module, they neither add nor move an instruction's
bytes (`SameInsns`, for every operation of `DecoderIr` that an instruction can reach),
and they never extend the limit. `LoadedDataStaysData` needs that too: `LoadInv` says that a loaded byte is
neither in the ranges nor before the limit. Assumptions: `ImageAssumption` (addresses are positive
naturals with a largest one) and `InputAssumption` (ranges to decode lie where there is data;
the first targets and the imports are natural addresses; instructions have a positive size and
natural targets).

**Decoder: functions and blocks.** `FunctionsOwnBlocks` and `OneTerminator` are not inductive. `getBasicBlockContainingAddress`
and the splits move the instructions that were just decoded to other blocks, while the branch of the
next instruction is added to the block that the last one is in by then, not the one that the
builder was set to. `Structure` is about the module alone: the functions' lists
are disjoint lists of distinct blocks, each of which begins at its function's address (`ListsOk`);
an instruction lies in a block that begins at or before it with an instruction (`InsnsOk`); a
branch is in the last instruction of its block (`EdgesOk`). While a target is decoded, `FlowInv` adds that the
block of the last instruction decoded for it is `Open`: it ends there and has
no branch yet. `Keeps` is what every operation of `DecoderIr` does to a module: it keeps the
`Structure`, the instructions and blocks, and leaves open what was open. `CreatingBlock`, `CreatingFunction` and
`MakeStartKeeps` are about creation, `SpliceKeeps` (through `SegmentOfList`: what a splice moves is a segment
of a list) about splits, and `DroppingKeeps` about the branches a split replaces.

**Decoder: order and branches.** `canSplitFunctionOn` assigns blocks to the parts of a function by their
addresses, while `splitFunctionOn` moves what comes behind in the list of blocks, and looks afterwards at first
successors only. That no branch is torn apart by this (`EdgesInFunction`, `EntryHasNoPredecessor`) needs
that the two views agree, which is `BlocksInOrder`, and each of the three needs the others: a list is in
order after a split because the seams, the branches from code to the code right behind it, are never cut.
`Layout` is `Structure` with

* `Code`: instructions have their bytes for themselves; a block is one piece of code without gaps and without
  instructions of other blocks (`Solid`); the successors that `splitFunctionOn` does not look at are those right behind the
  branch (`Falls`);
* as long as no function begins inside of code, `Sorted` (the order, for any two blocks of a function) and
  `Inner` (branches stay in their function and do not lead to its first block).

A decoding that runs into a block ends with a branch to it when that block is in the function *the decoding began
in*, while the branch is put into the block of the *last* instruction. That these are in one function is not a fact about a
single state: between the two there may have been any number of cuts and splits. `Linked` says that the code
in between is covered by seams of one function, and is the part of `FlowInv` that every operation has to keep:
`Lays` is `Keeps` with `Layout` and the links. `CreateBlockLays` and `CreateFunctionLays` are about creation: the new
block is put behind the greatest one before its address, and is hidden where that one is. `MakeStartLays`: the branch between
the two halves of a block is a seam, so what was hidden stays hidden. `SplitLays` rests on three lemmas: addresses with a start in between
are in different parts (`PartsDiffer`), so no seam and no fall-through is cut (`NothingCut`), and code that is not cut
stays together in the list, too (`StayInOrder`, `StayTogether`). `EffectsLay` puts them together for an instruction that
calls, branches and splits. The condition that no function begins inside of code is needed: the run
`split_inside` shows a branch that leaves its function without it.

**Decoder: fall-throughs.** `FallThroughKept` follows from the same invariant and needs no other, but one fact about every operation: `KeepsFalls`.
Only a split loses branches (`SplitKeepsFalls`). The true branch of a conditional one is dropped when its target is in another function
afterwards or is the first block of its own. It was in the same function before (`Inner`); no start is between the branch and a target that lies ahead
(`NothingCut`), so both go to the same part by address, and by `StayInOrder` to the same one in the list; and the target is not a start itself. A
conditional jump looks up two addresses and may split twice: `KeepsFallsTrans` chains them, for which no branch but those of
`MakeStart` may be added and what is in the middle of code has to stay there.

**Decoder: look-ups.** `LookupsAgree` has a condition that is about what every earlier instruction led to: a conditional jump that was given up once is given up
for ever (`GivenUpStays`), so the condition holds of all earlier states, too. What has to be kept is that a block which begins at an instruction holds
it (`Heads`), where no block begins inside an instruction (`Aligned`); order and look-up follow, because what is out of order is hidden
in the middle of code (`HiddenBlock`, `LookUpFindsBlock`). It is lost when decoding runs over a block. `LookInv` therefore says while a target is
decoded that no block begins in the bytes up to the limit: an instruction may put one there, by `Grows` only at its target and behind itself
(`EffectsSpread`). Then it either ends the decoding or moves the limit (`Trim`), unless it is given up; `CallAhead` and `CondAhead` show that a jump ahead into bytes that are
still to be decoded is not (`LookUpAhead`: the block before them is the one of the jump, so the new block is in its function).

**Initialisation.** Structures may be empty, and then `remove` leaves adjacent ranges: the vectors are
sorted and disjoint (`Spaced` with gap 0), not canonical, and the lemmas on vectors are
stated for both. `StartsOK` says that a range starts on a slot or in a byte that is not code:
aligned starts and ends give the first, the margins of the zeroes the second. `AskedAreGone`
relates the containers to all removals so far: an address is gone if and only if it
lies in one of them up to its aligned end. `EntryPointHeld` follows the entry point from its
segment on: no structure that contains it is removed, the aligned end of another one does not
pass it, and no zero sequence comes close to code. Assumptions:
`RangesAssumption` (the margin is at least 1 and twice the margin less than the least
sequence, as 0x10 and 0x50 are: otherwise the range that is removed would be
turned around) and `InputsAssumption` (ranges are what the constructor of `Range` admits,
`range.h:63`).

**Loader.** For ELF, `Disjoint` needs the types as well (sizes are what later cuts compute with),
and that cut pieces lie within the segments they are cut from: `LeftIsApart` goes through
the five outcomes of `resolve` and shows that at most one piece stays, at most one is
copied, and both are apart from the new segment and from each other, also for
segments of size 0 that a new one touches, which `shrink` refuses to cut.
`GrowingKeepsApart` needs the sorted order: a BSS segment grows up to the next address. 

What a byte of an ELF image reads as (`BytesInv`) is inductive only for all segments at once: a segment
reads, wherever it has bytes, as the last section or header that was added over the address
(`ImageReads`), and what was covered stays covered. `ShrinkKeepsBytes` and `PiecesKeepBytes` carry that over every cut,
for which the window must move with the address; `AddingReads` and `LastByteOfMore` over the new segment, which is now the last;
`SortingReads` over the sort. `GrowingReads` needs the order of the segments: a grown BSS segment reads as zero
only where nothing could be read before. `ElfAgreesWithKernel` follows, as everything that is added is a header or
a section that `MappedTo` one, and the congruence that is asked of such a section makes the offset of each
of its bytes the header's. Both theorems are about images in which `PartialsKeepTheirStart`: nothing that is added later ends within
a segment of which only the first bytes are in the file. Without that condition they are false, which is what the
finding of `elf_partial` shows; it holds of every file of the `elf` run, and the invariant
has been checked with it on the files of `elf_partial`, too.

For PE,
the invariant follows each section from the table into the vector; `SortSorts` (a stable sort is a
permutation; also of a part of a sequence, as for the sections of a header)
carries it over the sort, and `LookupFindsTheSegment` makes `get1Byte`, which takes the first hit,
answer with that section. `AllStructuresAreMarked` is about the loop that marks structures. Assumptions:
`ElfAssumption`, `PeAssumption` (addresses, sizes and offsets are naturals; that they do not wrap
at 2^64 is an abstraction of the models).

**Terminating calls.** A function is found when some calls are known not to return, and more are found
later. `Justified` therefore says that each found function reaches no return *if the calls to all
found so far end the flow*; the step from one to the other is `MoreCallsFewerReturns`. With
everything found at the end, the found functions lie outside the least set
of functions that return. Assumption: `ProgramsAssumption` (every call lies in a
block of a function; the functions known from the start are functions).

**Terminating calls: the cuts.** `FlowStops`, `FlowIsKept` and `BranchesInFunction` are about what any sequence of cuts, erased
blocks and splits leaves, one call after the other, each in a module that the calls before it have changed. They are
proved for modules that are `WellDecoded`: every block begins with an instruction, the blocks of a function are in the
order of their addresses, branches stay in their function, and what follows on a call is the code right behind it. That is `Layout` (which
`DecoderProofs` shows of what the decoder builds) where no jump was given up: `TidyIsLayout`. `DecodedIsTidy` derives
`Tidy` from it, the form that every step keeps. The condition is satisfied by every program of the `term` run: `MCTerminatingCalls`
states that as an assumption, which TLC evaluates. `FlowInv` has four parts:

* `CodeKept`: the module is `Tidy`, and is the decoded one without some nops and some branches. `CuttingBlocks`,
  `ErasingBlocks` and `SplittingFunctions` are the three operations; `DroppingNops` puts the first two together. A block is erased only when
  nothing leads to it, because it has just been cut off;
* `CallsKnown`: when the rounds end, the calls gathered are all those to functions found terminating. The code compares the *size* of the
  set with that before the round, so the invariant keeps the smaller set and that its calls are known; sets of equal size, one
  within the other, are equal;
* `Stopped`, for the calls that the first loop has been through: nothing follows in the block or by a branch, and a
  return only where nothing of the function lies behind. Later cuts and splits keep it (`TrimmedEnds`; a split makes returns
  of branches only, and a stopped call has none). A call without a next instruction is left alone by the code, which
  is right because the branch of a call leads to the next block of its function, and there is none (`LastCallEnds`);
* `BranchesKept`: a branch that a split took away leads to the entry of a function. The starts are closed
  (`StartsAreClosed`), so a branch across two parts leads to a start; one within a part is lost only when it
  leads to the start of that part. For a conditional branch this is excluded by `CondsLeadForward`: no conditional branch leads back. Without that
  condition the property is false (`patterns.cpp:290` in the known deviations).

**ARM.** `Proven` follows a target's mode from the dry runs to the translation: a strict dry run that fails
leaves the disassembler in the mode it tried, so the mode of the disassembler tells
nothing before `SwitchMode`. `InOneMode` is not inductive: `DecodedIsGone` says that what was decoded is in no range any more,
and inside of the loop, which takes its code out of the ranges only at the end, that it lies between the target and the address in the loop or is not
in `bytes`. An instruction is translated only when all of its halfwords are in `bytes`, so none of them was decoded before, in either
mode. It needs that the ranges lose whole halfwords (`Remove`) and that both kinds of ranges lose them. `BlocksCanBeTargets` follows from
what `DetermineMode` leaves of an odd target (`DeterminedIsEven`). Assumption: `InputsAssumption` (the addresses of code are even, in ARM
mode an instruction has 4 bytes, and targets of branches and calls that do not exchange are even, as are the literals that are loaded).

**Driver.** Five parts: what is known while `main` waits (`Waiting`), where the exit code comes from (`Answered`),
that a finished file is registered except for the one step between writing and
registering (`Registered`), that the input of the next step is complete (`Inputs`), and that `cleanup` has
removed what it visited, and everything at its end, unless the thread may still run
(`Cleaned`). They lean on each other: `FinishedFilesRemoved` needs `Answered` to know that the thread is over.

**Reaching definitions.** That a definition in a set does reach the end of the block (`Sound`) is inductive. That none is
missing at the end is not, because a visit sets the flag of its block anew, whether or not what the last one brought
has been passed on: the invariant says that what a block has not passed on to a successor came with the block's own last visit,
so its flag is set, and that the successor has not been visited since, so it will be, in this round or in the
next (`NoneMissed`, `NotSince`). When the rounds end nothing is left to be passed on (`Solved`). Completeness follows:
the places at which a definition is found contain the one behind it, and go on along every path that does not define the variable
again; the least such set is what an execution reaches. The
searches on demand are least closed sets too, and `SearchesAreInverse` turns the one that walks back from a use into the one that walks
on from a definition. Assumptions: `BlocksAssumption` (blocks are numbered and the first one is the entry) and `ProgramsAssumption` (branches
lead to blocks of the function).

Only model-checked, and why:

* every `Termination` and `TimeoutEnds`: liveness is out of the prover's reach;
* `TargetsDecoded` of `Decoder`: it relates the worklist, the ranges and the branches over the whole decoding; the invariant would have to record for
  every byte why it left the ranges.

## 5. What is not modelled

* In the decoder: how targets are computed from symbolic values; switch tables; delay slots; conditional
  execution, except for what it does to flow in `ArmMode`; `initJumpTargets` beyond the state it leaves for entry point,
  symbols and imports; loads of more than one byte at a time; code at address 0 (the
  special case at `decoder.cpp:503`); an entry point without data (`decoder_init.cpp:608-614`).
* In ARM mode: that an immediate BLX always switches (the model takes an even target for ARM, as `arm.cpp:223-231` does); pseudo calls (`mov lr, pc`);
  functions without blocks as the end of what is decoded (`decoder.cpp:233`); segments that end within an instruction.
  `ldr pc` with an odd constant is modelled: `arm.cpp:218` tests for BX and BLX only, so its block is made at the odd address
  and its target, pushed at the even one, finds no block. `BlocksCanBeTargets` says so in its condition.
* In the patterns: `patternStaticallyLinked`, which compares names.
* In the loader: relocatable ELF files, relocations, the segment for external
  symbols, COFF, Mach-O, Intel HEX and raw images; integer widths (addresses are naturals).
* In the driver: the parsing of options; what plugins do to unpack; the passes
  (a pass ends, throws, exits or hangs). A pass that calls `exit(1)` leaves the temporary
  files; the properties speak of a `main` that returns.
* In the reaching definitions: flag registers that are not tracked, the several uses
  of one call of which `getUse` finds the first, and stores of a pointer as a value, which only the
  search on demand takes for a use.
* Everything else: `PROJECT.json` gives the reason for each part. Most of the source is
  translators (one function per machine instruction), parsers of file formats and rewrites of
  IR: sequential code over large data in which a state machine of a few variables has
  nothing to say, and whose correctness is about the values they compute.

## 6. Plan

Done: all modules of section 2; the theorems of section 4.

Next, in this order:

1. `TargetsDecoded`, with an invariant about the targets of branches that are still in the ranges: each is in the worklist.
2. Further models: switch tables and delay slots in `Decoder`; the selection among overlapping
   detections in `stacofin`.
