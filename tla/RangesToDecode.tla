--------------------------- MODULE RangesToDecode ---------------------------
(***************************************************************************)
(* bin2llvmir::RangesToDecode (decoder_ranges.cpp) and how                 *)
(* Decoder::initRanges fills it (decoder_init.cpp): primary ranges hold    *)
(* what is code for sure, alternative ones what may be code.  Starts of    *)
(* added ranges and ends of removed ones are aligned to the size of an     *)
(* instruction, long sequences of zeroes are left out.                     *)
(***************************************************************************)
EXTENDS RangeVector

CONSTANTS
  InsnAlign,                \* archInsnAlign: 0 (x86), 2 (ARM), 4 (the others)
  MinSequence,              \* minSequence, 0x50 in the code
  Margin,                   \* The zeroes kept on either side, 8 in the code
  Inputs                    \* [segments, nonDecodable, selected, ep, bytes], and
                            \* removes: bound on the removals while decoding

ASSUME RangesAssumption ==
  /\ InsnAlign \in Nat /\ Margin \in Nat \ {0}
  /\ MinSequence \in Nat /\ 2 * Margin < MinSequence

AddrsIn(r) == r.start..(r.end - 1)

\* Range's constructor lets no range end before it starts; it may be empty.
AddressRange == {r \in [start : Nat, end : Nat] : r.start <= r.end}

SegmentOf(range) ==
  [range : range, discardable : BOOLEAN,
   kind : {"code", "plt", "data", "skip", "const", "nosec"}]

\* The bytes of a segment can be read, those that the file does not have are
\* zero (Segment::getBytes); elsewhere a byte may be missing.
ASSUME InputsAssumption ==
  \A in \in Inputs :
    /\ in.segments \in Seq(SegmentOf(AddressRange))
    /\ in.nonDecodable \in Seq(AddressRange)
    /\ in.selected \in Seq(AddressRange)
    /\ in.ep \in Nat
    /\ \A i \in 1..Len(in.segments) :
         \A a \in AddrsIn(in.segments[i].range) : in.bytes[a] # "none"

VARIABLES
  input,                    \* The image and the configuration.
  pos,                      \* Position in the list that is gone through.
  phase,                    \* "add", "nonDecodable", "zeroes", "promote", "decode"
  primary, alternative,     \* _primaryRanges, _alternativeRanges
  strict,                   \* _strict
  before,                   \* The addresses held before the last removal of
                            \* zeroes, then when decoding began, and
  asked                     \* the ranges that decoding has asked to remove.

rtdVars == <<input, pos, phase, primary, alternative, strict, before, asked>>

Held == Elems(primary) \cup Elems(alternative)

-----------------------------------------------------------------------------
\* align(s, a): up to the next multiple of a; 0 is no alignment.
AlignUp(s) ==
  IF InsnAlign # 0 /\ s % InsnAlign # 0 THEN s + InsnAlign - (s % InsnAlign) ELSE s

\* addPrimary, addAlternative
AddTo(rs, s, e) ==
  IF e > AlignUp(s) THEN InsertRange(rs, MkRange(AlignUp(s), e)).ranges ELSE rs

\* Mutated form of RemoveFrom: the end is not aligned.
RemoveFromExact(rs, s, e) == RemoveRange(rs, MkRange(s, e))

\* Mutated form of RemoveFrom: an instruction more than asked for.
RemoveFromOneMore(rs, s, e) == RemoveRange(rs, MkRange(s, AlignUp(e + 1)))

\* remove, on either container.
RemoveFrom(rs, s, e) == RemoveRange(rs, MkRange(s, AlignUp(e)))

\* Where the scan of a range stops: its end or the first unreadable byte.
ScanEnd(r) == Min({a \in AddrsIn(r) : input.bytes[a] = "none"} \cup {r.end})

\* The zeroes that the scan of r meets in a row: from z up to stop, where stop
\* is a byte that is not zero, or the end of the scan.
ZeroRuns(r) ==
  {run \in [z : AddrsIn(r), stop : r.start..r.end] :
     /\ run.z < run.stop /\ run.stop <= ScanEnd(r)
     /\ \A a \in run.z..(run.stop - 1) : input.bytes[a] = "zero"
     /\ run.z > r.start => input.bytes[run.z - 1] # "zero"
     /\ run.stop < ScanEnd(r) => input.bytes[run.stop] # "zero"}

\* Mutated form of MeasuredEnd: the margin is not taken off at the end.
MeasuredEndPast(r, run) == run.stop + Margin

\* The end the code measures a run to: the last address, not the one behind it,
\* when the range ends in zeroes, and the end of the range when the scan hit an
\* unreadable byte.
MeasuredEnd(r, run) ==
  IF run.stop < ScanEnd(r) THEN run.stop
  ELSE IF ScanEnd(r) = r.end THEN r.end - 1 ELSE r.end

\* What removeZeroSequences collects from one range.
ZeroSequences(r) ==
  {MkRange(run.z + Margin, MeasuredEnd(r, run) - Margin) :
     run \in {run \in ZeroRuns(r) :
                /\ run.z + 2 * Margin < MeasuredEnd(r, run)
                /\ MeasuredEnd(r, run) - run.z >= MinSequence}}

\* removeZeroSequences on one container: the collected ranges are removed with
\* the container's remove, which aligns nothing.
WithoutZeroes(rs) ==
  RemoveAll(rs, SetToSeq(UNION {ZeroSequences(rs[i]) : i \in 1..Len(rs)}))

-----------------------------------------------------------------------------
\* getEpSegment
IsEpSegment(seg) == input.ep \in AddrsIn(seg.range)

\* initAllowedRangesWithSegments: where the range of a segment goes.  "plt" is a
\* code section named .plt, .got or .got.plt, "data" stands for data, code/data
\* and undefined sections, "skip" for BSS, debug and info sections, "const" for
\* constant data and "nosec" for a segment without a section.
Container(seg) ==
  LET kept == IsEpSegment(seg) \/ ~seg.discardable
  IN  CASE kept /\ seg.kind = "code"                           -> "primary"
        [] kept /\ seg.kind \in {"plt", "data"}                -> "alternative"
        [] seg.kind \in {"const", "nosec"} /\ IsEpSegment(seg) -> "alternative"
        [] OTHER                                               -> "none"

Init ==
  /\ input \in Inputs
  /\ pos = 1 /\ phase = "add"
  /\ primary = <<>> /\ alternative = <<>> /\ strict = FALSE
  /\ before = {} /\ asked = {}

\* One segment of the image; only when no ranges were selected.
AddSegment ==
  /\ phase = "add" /\ input.selected = <<>> /\ pos <= Len(input.segments)
  /\ \E seg \in {input.segments[pos]} :
       /\ primary' = IF Container(seg) = "primary"
                     THEN AddTo(primary, seg.range.start, seg.range.end) ELSE primary
       /\ alternative' = IF Container(seg) = "alternative"
                         THEN AddTo(alternative, seg.range.start, seg.range.end)
                         ELSE alternative
  /\ pos' = pos + 1
  /\ UNCHANGED <<input, phase, strict, before, asked>>

\* One range of initAllowedRangesWithConfig.
AddSelected ==
  /\ phase = "add" /\ pos <= Len(input.selected)
  /\ primary' = AddTo(primary, input.selected[pos].start, input.selected[pos].end)
  /\ pos' = pos + 1
  /\ UNCHANGED <<input, phase, alternative, strict, before, asked>>

\* The loop over the segments or over the selected ranges is done.
EndAdd ==
  /\ phase = "add"
  /\ IF input.selected = <<>>
     THEN pos > Len(input.segments) /\ phase' = "nonDecodable"
     ELSE pos > Len(input.selected) /\ phase' = "zeroes"
  /\ pos' = 1
  /\ UNCHANGED <<input, primary, alternative, strict, before, asked>>

\* Mutated form of RemoveNonDecodable: the entry point is not looked at.
RemoveNonDecodableAll ==
  /\ phase = "nonDecodable" /\ pos <= Len(input.nonDecodable)
  /\ \E r \in {input.nonDecodable[pos]} :
       /\ primary' = RemoveFrom(primary, r.start, r.end)
       /\ alternative' = RemoveFrom(alternative, r.start, r.end)
  /\ pos' = pos + 1
  /\ UNCHANGED <<input, phase, strict, before, asked>>

\* A range of the image that is not to be decoded, unless it holds the entry
\* point.
RemoveNonDecodable ==
  /\ phase = "nonDecodable" /\ pos <= Len(input.nonDecodable)
  /\ \E r \in {input.nonDecodable[pos]} :
       IF ContainsElem(r, input.ep) THEN UNCHANGED <<primary, alternative>>
       ELSE /\ primary' = RemoveFrom(primary, r.start, r.end)
            /\ alternative' = RemoveFrom(alternative, r.start, r.end)
  /\ pos' = pos + 1
  /\ UNCHANGED <<input, phase, strict, before, asked>>

EndNonDecodable ==
  /\ phase = "nonDecodable" /\ pos > Len(input.nonDecodable)
  /\ phase' = "zeroes"
  /\ UNCHANGED <<input, pos, primary, alternative, strict, before, asked>>

RemoveZeroSequences ==
  /\ phase = "zeroes"
  /\ primary' = WithoutZeroes(primary)
  /\ alternative' = WithoutZeroes(alternative)
  /\ phase' = "promote"
  /\ before' = Held
  /\ UNCHANGED <<input, pos, strict, asked>>

\* The end of initRanges: promoteAlternativeToPrimary when nothing is code for
\* sure; the moved-from container is empty.
Promote ==
  /\ phase = "promote"
  /\ IF primary = <<>>
     THEN primary' = alternative /\ alternative' = <<>> /\ strict' = TRUE
     ELSE UNCHANGED <<primary, alternative, strict>>
  /\ before' = Held
  /\ phase' = "decode"
  /\ UNCHANGED <<input, pos, asked>>

\* Decoding removes what it has decoded or skipped, from an address in a range.
Remove_(s, e) ==
  /\ phase = "decode" /\ Cardinality(asked) < input.removes
  /\ primary' = RemoveFrom(primary, s, e)
  /\ alternative' = RemoveFrom(alternative, s, e)
  /\ asked' = asked \cup {MkRange(s, e)}
  /\ UNCHANGED <<input, pos, phase, strict, before>>

Decoding ==
  \E s \in Held, n \in 1..5 :
    /\ \A a \in s..(s + n - 1) : a \in Held
    /\ Remove_(s, s + n)

\* Nothing is left to decode, or the bound is reached.
Done ==
  /\ phase = "decode"
  /\ Held = {} \/ Cardinality(asked) = input.removes
  /\ UNCHANGED rtdVars

Next ==
  \/ AddSegment \/ AddSelected \/ EndAdd
  \/ RemoveNonDecodable \/ EndNonDecodable
  \/ RemoveZeroSequences \/ Promote
  \/ Decoding \/ Done

Spec == Init /\ [][Next]_rtdVars

-----------------------------------------------------------------------------
\* The addresses where an instruction may start.
IsSlot(a) == InsnAlign = 0 \/ a % InsnAlign = 0

\* What is asked to be decoded.
Wanted ==
  IF input.selected = <<>>
  THEN UNION {AddrsIn(input.segments[i].range) : i \in 1..Len(input.segments)}
  ELSE UNION {AddrsIn(input.selected[i]) : i \in 1..Len(input.selected)}

\* No readable byte lies behind an unreadable one without an address in between
\* that is not wanted.  Always so for segments; a selected range may reach over
\* the gap between two, and then the code measures zeroes past the gap.
Gapless ==
  \A a, b \in Wanted :
    a < b /\ a..b \subseteq Wanted /\ input.bytes[a] = "none" => input.bytes[b] = "none"

\* A range that starts between two instructions, and so a leftover that is
\* decoded from there, starts in zeroes that removeZeroSequences has left: the
\* alignment of added starts and of removed ends never leaves one in code.
StartsOnInstruction ==
  Gapless =>
    \A rs \in {primary, alternative} : \A i \in 1..Len(rs) :
      IsSlot(rs[i].start) \/ input.bytes[rs[i].start] # "code"

\* Removing what was decoded takes exactly its instruction slots away: aligning
\* the end up takes no slot that was not asked for, and leaves none that was.
RemovesTheSlotsAsked ==
  phase = "decode" =>
    \A a \in before :
      IsSlot(a) => (a \in Held <=> \A r \in asked : a \notin AddrsIn(r))

\* removeZeroSequences makes no instruction undecodable: it removes no byte that
\* is not zero, and no zero within the margin of such a byte.
ZeroRemovalKeepsCode ==
  phase = "promote" /\ Gapless =>
    \A a \in before :
      input.bytes[a] = "code" =>
        \A b \in (a - Margin)..(a + Margin) : b \in before => b \in Held

\* The entry point of a program can be decoded, whatever section it lies in and
\* whatever structures surround it, if it is not in zeroes or in a section
\* without bytes.
EntryPointIsDecodable ==
  phase = "decode" /\ asked = {} /\ input.selected = <<>>
    /\ IsSlot(input.ep) /\ input.bytes[input.ep] = "code"
    /\ (\E i \in 1..Len(input.segments) :
          IsEpSegment(input.segments[i]) /\ input.segments[i].kind # "skip")
  => input.ep \in Held
=============================================================================
