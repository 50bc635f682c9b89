------------------------------ MODULE PeImage -------------------------------
(***************************************************************************)
(* loader::PeImage (src/loader/loader/pe/pe_image.cpp): sections are added *)
(* in the order of the section table and never cut; an overlap makes the   *)
(* whole load fail.  Then the segments are sorted and the ranges that hold *)
(* PE structures are marked as not decodable.                              *)
(*                                                                         *)
(* A section is [addr, mem, off, len, bss]; a segment also has the         *)
(* addresses that are not decodable.  A file is its sections, its image    *)
(* base, its length and the ranges of its structures, which are relative   *)
(* to the base.  Addresses stay far below 2^64.                            *)
(***************************************************************************)
EXTENDS LoaderImage

CONSTANTS
  PeFiles                   \* The files to load: [sections, base, length, structures].

SectionHeader == [addr : Nat, mem : Nat, off : Nat, len : Nat, bss : BOOLEAN]

ASSUME PeAssumption ==
  \A f \in PeFiles :
    /\ f.sections \in Seq(SectionHeader)
    /\ f.base \in Nat /\ f.length \in Nat
    /\ f.structures \in Seq([start : Nat, end : Nat])

VARIABLES
  nextSection,              \* The next section of the table.
  result                    \* "loading", "true" or "false": what load returns

peVars == <<file, nextSection, segments, result>>

\* The size a section takes: its virtual size, or its raw size if that is 0.
VirtualSize(sec) == IF sec.mem = 0 THEN sec.len ELSE sec.mem

\* Mutated form of CanAddSegment: only the segment added last is looked at.
CanAddSegmentLast(segs, new) ==
  segs = <<>> \/ Resolve(SegRange(segs[Len(segs)]), new)[1] = "None"

\* canAddSegment: no segment overlaps the new one.
CanAddSegment(segs, new) ==
  \A i \in 1..Len(segs) : Resolve(SegRange(segs[i]), new)[1] = "None"

PeSegment(sec) ==
  [addr |-> sec.addr, size |-> VirtualSize(sec), off |-> sec.off,
   len |-> IF sec.bss THEN 0 ELSE sec.len, nonDecodable |-> {}]

\* Mutated form of AddNonDecodable: the range is not cut to the segment.
AddNonDecodableWhole(seg, r) ==
  IF Shares(PhysicalRange(seg), r)
  THEN [seg EXCEPT !.nonDecodable = @ \cup r.start..(r.end - 1)]
  ELSE seg

\* Segment::addNonDecodableRange: the part of r in the physical range.  The
\* RangeContainer it is inserted into is a set of addresses.
AddNonDecodable(seg, r) ==
  IF Shares(PhysicalRange(seg), r)
  THEN [seg EXCEPT !.nonDecodable =
          @ \cup Max({r.start, PhysicalRange(seg).start})
                   ..(Min({r.end, PhysicalRange(seg).end}) - 1)]
  ELSE seg

-----------------------------------------------------------------------------
PeInit ==
  /\ file \in PeFiles
  /\ nextSection = 1 /\ segments = <<>> /\ result = "loading"

\* addSegment of one section.
AddSection ==
  /\ result = "loading" /\ nextSection <= Len(file.sections)
  /\ \E seg \in {PeSegment(file.sections[nextSection])} :
       IF CanAddSegment(segments, SegRange(seg))
       THEN segments' = Append(segments, seg) /\ UNCHANGED result
       ELSE result' = "false" /\ UNCHANGED segments
  /\ nextSection' = nextSection + 1
  /\ UNCHANGED file

\* No sections: the whole file becomes one segment at the image base.
AddSingleSegment ==
  /\ result = "loading" /\ file.sections = <<>> /\ segments = <<>>
  /\ segments' = <<[addr |-> file.base, size |-> file.length, off |-> 0,
                    len |-> file.length, nonDecodable |-> {}]>>
  /\ UNCHANGED <<file, nextSection, result>>

\* One segment after loadNonDecodableAddressRanges has gone over all ranges.
Marked(seg) ==
  LET marked[n \in 0..Len(file.structures)] ==
        IF n = 0 THEN seg
        ELSE AddNonDecodable(marked[n - 1], Rng(file.base + file.structures[n].start,
                                                file.base + file.structures[n].end))
  IN  marked[Len(file.structures)]

SortAndMark ==
  /\ result = "loading" /\ nextSection > Len(file.sections) /\ segments # <<>>
  /\ \E sorted \in {SortSegments(segments)} :
       segments' = [i \in 1..Len(sorted) |-> Marked(sorted[i])]
  /\ result' = "true"
  /\ UNCHANGED <<file, nextSection>>

Returned == result # "loading" /\ UNCHANGED peVars

PeNext == AddSection \/ AddSingleSegment \/ SortAndMark \/ Returned

PeSpec == PeInit /\ [][PeNext]_peVars

-----------------------------------------------------------------------------
SectionRange(sec) == Rng(sec.addr, EndOf(sec.addr, VirtualSize(sec)))

\* A file that loads is in memory as its section table says: every address of a
\* section reads as that section's byte, or as zero behind its bytes, in spite
\* of the sorting and of the other sections.
SectionsAreWhole ==
  result = "true" =>
    \A k \in 1..Len(file.sections) :
      \A a \in SectionRange(file.sections[k]).start..(SectionRange(file.sections[k]).end - 1) :
        ByteAt(segments, a) = ByteOf(PeSegment(file.sections[k]), a)

\* Exactly the bytes of structures that are in the file are kept from the
\* decoder, however many segments a structure spans.
StructuresAreMarked ==
  result = "true" =>
    \A i \in 1..Len(segments) :
      segments[i].nonDecodable =
        {a \in PhysicalRange(segments[i]).start..(PhysicalRange(segments[i]).end - 1) :
           \E k \in 1..Len(file.structures) :
             InRng(file.structures[k], a - file.base)}
=============================================================================
