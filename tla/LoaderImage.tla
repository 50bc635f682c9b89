---------------------------- MODULE LoaderImage -----------------------------
(***************************************************************************)
(* What the loaders of every file format share: loader::Image, a vector of *)
(* Segments, each with a SegmentDataSource that is a window into the bytes *)
(* of the file, and OverlapResolver, which decides what a new segment      *)
(* leaves of an old one.                                                   *)
(*                                                                         *)
(* A segment has addr, size, off and len: its address and size in memory,  *)
(* and the window, len bytes from the offset off of the file.  A segment   *)
(* without a data source (BSS) has an empty window: no operation tells the *)
(* two apart.  A byte of the image is the file offset it is read from, so  *)
(* two bytes are the same only if they come from the same place.           *)
(***************************************************************************)
EXTENDS Integers, Sequences, SequencesExt

VARIABLES
  file,                     \* Image::_fileFormat: what is read of the file
  segments                  \* Image::_segments

Zero == -1                  \* A byte the segment fills up with.
Unreadable == -2            \* get1Byte returns false.

\* Range(start, end), half open.
Rng(s, e) == [start |-> s, end |-> e]

InRng(r, x) == r.start <= x /\ x < r.end

Shares(r1, r2) == r1.start < r2.end /\ r2.start < r1.end

\* A size of 0 still takes one address, in Segment::getEndAddress and in every
\* addSegment.
EndOf(addr, size) == addr + (IF size = 0 THEN 1 ELSE size)

-----------------------------------------------------------------------------
\* OverlapResolver::resolve(first, second): the kind of overlap and what is left
\* of the first range.  The second is always kept whole.
Resolve(first, second) ==
  LET full    == second.start <= first.start /\ first.end <= second.end
      startIn == InRng(first, second.start)
      endIn   == InRng(first, second.end)
      atStart == first.start = second.start
      left    == Rng(first.start, second.start)
      right   == Rng(second.end, first.end)
  IN  CASE full                                         -> <<"Full">>
        [] ~full /\ startIn /\ ~endIn                   -> <<"OverEnd", left>>
        [] ~full /\ endIn /\ (~startIn \/ atStart)      -> <<"OverStart", right>>
        [] ~full /\ endIn /\ startIn /\ ~atStart        -> <<"InMiddle", left, right>>
        [] OTHER                                        -> <<"None">>

-----------------------------------------------------------------------------
SegRange(seg) == Rng(seg.addr, EndOf(seg.addr, seg.size))

PhysicalSize(seg) == Min({seg.len, seg.size})

PhysicalRange(seg) == Rng(seg.addr, EndOf(seg.addr, PhysicalSize(seg)))

\* Mutated form of DataShrink: the window keeps its start.
DataShrinkKeepStart(seg, newOff, newSize) ==
  IF newSize > seg.len THEN seg
  ELSE [seg EXCEPT !.len = Min({seg.len, newSize})]

\* SegmentDataSource::shrink: refused when the window holds fewer than newSize
\* bytes, otherwise the window is advanced, emptied or cut.
DataShrink(seg, newOff, newSize) ==
  IF newSize > seg.len THEN seg
  ELSE [seg EXCEPT !.off = @ + newOff,
                   !.len = IF newOff >= seg.len THEN 0
                           ELSE Min({newSize, seg.len - newOff})]

\* Segment::shrink and its three early returns.
SegShrink(seg, newAddr, newSize) ==
  IF /\ InRng(SegRange(seg), newAddr)
     /\ newSize <= seg.size
     /\ newAddr + newSize <= seg.addr + seg.size
  THEN [DataShrink(seg, newAddr - seg.addr, newSize) EXCEPT
          !.addr = newAddr, !.size = newSize]
  ELSE seg

\* Segment::resize
SegResize(seg, newSize) ==
  [seg EXCEPT !.size = newSize, !.len = Min({seg.len, newSize})]

-----------------------------------------------------------------------------
\* Segment::getBytes of one byte: beyond the window the segment reads as zeroes.
ByteOf(seg, a) ==
  IF a - seg.addr >= seg.size THEN Unreadable
  ELSE IF a - seg.addr < seg.len THEN seg.off + (a - seg.addr) ELSE Zero

\* Image::get1Byte: the first segment of the vector that contains the address.
ByteAt(segs, a) ==
  LET hits == {i \in 1..Len(segs) : InRng(SegRange(segs[i]), a)}
  IN  IF hits = {} THEN Unreadable ELSE ByteOf(segs[Min(hits)], a)

\* The members of segs at the places in part, in a stable sort by address.
SortedPart(segs, part) ==
  LET Before(i, j) == \/ segs[i].addr < segs[j].addr
                      \/ segs[i].addr = segs[j].addr /\ i < j
      Rank(i) == 1 + Cardinality({j \in part : Before(j, i)})
  IN  [k \in 1..Cardinality(part) |-> segs[CHOOSE i \in part : Rank(i) = k]]

\* Image::sortSegments
SortSegments(segs) == SortedPart(segs, 1..Len(segs))
=============================================================================
