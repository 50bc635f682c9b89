--------------------------- MODULE RangeContainer ---------------------------
(***************************************************************************)
(* common::Range and common::RangeContainer (include/retdec/common/        *)
(* range.h): a vector of half-open ranges <start, end) that insert keeps   *)
(* disjoint, merged and in ascending order.  The decoder keeps what is     *)
(* left to decode in two of them.                                          *)
(***************************************************************************)
EXTENDS RangeVector

CONSTANT MaxElem            \* The largest bound of a range in the model.

ASSUME RangeAssumption == MaxElem \in Nat

VARIABLES
  call,                     \* The last call, see AddressSet.
  ranges,                   \* RangeContainer::_ranges
  inserted                  \* The bool of the pair the last insert returned.

rangeVars == <<call, ranges, inserted>>

Bounds == 0..MaxElem

\* Range's constructor throws InvalidRangeException when end < start, so no
\* caller holds such a range.  Empty ranges are left out: remove would split a
\* stored range at one.
Ranges == {r \in [start : Bounds, end : Bounds] : r.start < r.end}

-----------------------------------------------------------------------------
RangeInit == call = <<"clear", 0, 0>> /\ ranges = <<>> /\ inserted = FALSE

Insert(r) ==
  LET res == InsertRange(ranges, r)
  IN  /\ call' = <<"insert", r.start, r.end>>
      /\ ranges' = res.ranges
      /\ inserted' = res.flag

RemoveElems(r) ==
  /\ call' = <<"remove", r.start, r.end>>
  /\ ranges' = RemoveRange(ranges, r)
  /\ UNCHANGED inserted

Clear == call' = <<"clear", 0, 0>> /\ ranges' = <<>> /\ UNCHANGED inserted

RangeNext ==
  \/ \E r \in Ranges : Insert(r)
  \/ \E r \in Ranges : RemoveElems(r)
  \/ Clear

RangeSpec == RangeInit /\ [][RangeNext]_rangeVars

-----------------------------------------------------------------------------
\* The class comment of RangeContainer: ranges are disjoint, continuous ranges
\* are merged into one, and all are kept in ascending order.  Together, however
\* the inserts and removes overlap: a gap follows every range, and none is
\* empty, so that the next range to decode, the front one, has an element.
Canonical ==
  /\ \A i \in 1..(Len(ranges) - 1) : ranges[i].end < ranges[i + 1].start
  /\ \A i \in 1..Len(ranges) : ranges[i].start < ranges[i].end

\* getRange, a binary search with a step back, finds an element exactly when
\* some range holds it, and returns the longest run of stored elements around
\* it: the decoder takes the end of that run as the limit of a decoding.
GetRangeFindsTheRun ==
  \A e \in Bounds :
    IF e \in Elems(ranges)
    THEN \E r \in GetRange(ranges, e) :
           /\ e \in r.start..(r.end - 1)
           /\ r.start..(r.end - 1) \subseteq Elems(ranges)
           /\ {r.start - 1, r.end} \cap Elems(ranges) = {}
    ELSE GetRange(ranges, e) = {}

\* The vector of ranges implements a set of elements: insert adds exactly the
\* elements of its range, merging or not, remove takes exactly those of its
\* range away, splitting or not, and the flag of insert tells whether the set
\* grew.
Abs == INSTANCE AddressSet WITH elems <- Elems(ranges)

ImplementsAddressSet == Abs!Spec
=============================================================================
