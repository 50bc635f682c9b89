---------------------------- MODULE RangeVector -----------------------------
(***************************************************************************)
(* The algorithms of common::RangeContainer (include/retdec/common/        *)
(* range.h) on the vector of ranges it holds, as functions from the old    *)
(* vector to the new one.                                                  *)
(***************************************************************************)
EXTENDS Integers, Sequences, SequencesExt

MkRange(s, e) == [start |-> s, end |-> e]

Elems(rs) == UNION {rs[i].start..(rs[i].end - 1) : i \in 1..Len(rs)}

-----------------------------------------------------------------------------
\* std::lower_bound / std::upper_bound: the first position whose range does
\* not lie before the value, Len + 1 (the end iterator) when all do.
FirstNotEndingBefore(rs, x) ==
  Min({i \in 1..Len(rs) : ~(rs[i].end < x)} \cup {Len(rs) + 1})

FirstStartingAfter(rs, x) ==
  Min({i \in 1..Len(rs) : x < rs[i].start} \cup {Len(rs) + 1})

FirstNotLess(rs, x) ==
  Min({i \in 1..Len(rs) : ~(rs[i].start < x)} \cup {Len(rs) + 1})

\* Mutated form of InsertRange: <= where the code has <, a range that ends where
\* r starts is not merged.
InsertRangeNoMergeLeft(rs, r) ==
  LET startItr == Min({i \in 1..Len(rs) : ~(rs[i].end <= r.start)}
                        \cup {Len(rs) + 1})
      endItr   == FirstStartingAfter(rs, r.end)
      merged   == MkRange(Min({r.start, rs[startItr].start}),
                          Max({r.end, rs[endItr - 1].end}))
  IN  IF startItr >= endItr
      THEN [ranges |-> InsertAt(rs, startItr, r), flag |-> TRUE]
      ELSE [ranges |-> SubSeq(rs, 1, startItr - 1) \o <<merged>>
                         \o SubSeq(rs, endItr, Len(rs)),
            flag |-> rs[startItr] # merged]

\* insert(range): the new vector and the flag.
InsertRange(rs, r) ==
  LET startItr == FirstNotEndingBefore(rs, r.start)
      endItr   == FirstStartingAfter(rs, r.end)
      merged   == MkRange(Min({r.start, rs[startItr].start}),
                          Max({r.end, rs[endItr - 1].end}))
  IN  IF startItr = endItr
      THEN [ranges |-> InsertAt(rs, startItr, r), flag |-> TRUE]
      ELSE [ranges |-> SubSeq(rs, 1, startItr - 1) \o <<merged>>
                         \o SubSeq(rs, endItr, Len(rs)),
            flag |-> rs[startItr] # merged]

\* Mutated form of CutRange: the part to the right of r is lost.
CutRangeDropRight(old, r) ==
  IF r.start < old.end
  THEN (IF old.start < r.start THEN <<MkRange(old.start, r.start)>> ELSE <<>>)
  ELSE <<old>>

\* What remove leaves of one stored range.
CutRange(old, r) ==
  IF r.start < old.end
  THEN (IF old.start < r.start THEN <<MkRange(old.start, r.start)>> ELSE <<>>)
         \o (IF old.end > r.end THEN <<MkRange(r.end, old.end)>> ELSE <<>>)
  ELSE <<old>>

\* remove(r): step back one from the lower bound "no matter what", then visit
\* ranges until one starts at or after the end of r.
RemoveRange(rs, r) ==
  LET lb    == FirstNotLess(rs, r.start)
      first == IF lb > 1 THEN lb - 1 ELSE lb
      last  == Min({i \in first..Len(rs) : rs[i].start >= r.end}
                     \cup {Len(rs) + 1})
  IN  SubSeq(rs, 1, first - 1)
        \o FlattenSeq([i \in 1..(last - first) |-> CutRange(rs[first + i - 1], r)])
        \o SubSeq(rs, last, Len(rs))

\* A loop that removes one range after the other.
RemoveAll(rs, seq) ==
  LET removed[n \in 0..Len(seq)] ==
        IF n = 0 THEN rs ELSE RemoveRange(removed[n - 1], seq[n])
  IN  removed[Len(seq)]

ContainsElem(r, e) == r.start <= e /\ e < r.end

\* Mutated form of GetRange: no step back from the lower bound.
GetRangeNoStepBack(rs, e) ==
  LET pos == Min({FirstNotLess(rs, e), Len(rs)})
  IN  IF rs # <<>> /\ ContainsElem(rs[pos], e) THEN {rs[pos]} ELSE {}

\* getRange(e): the stored range that contains e as a one-element set, or {}
\* for nullptr.
GetRange(rs, e) ==
  LET lb  == FirstNotLess(rs, e)
      pos == IF lb = Len(rs) + 1 \/ (lb > 1 /\ rs[lb].start # e)
             THEN lb - 1 ELSE lb
  IN  IF rs # <<>> /\ ContainsElem(rs[pos], e) THEN {rs[pos]} ELSE {}
=============================================================================
