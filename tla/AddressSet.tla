----------------------------- MODULE AddressSet -----------------------------
(***************************************************************************)
(* What common::RangeContainer (include/retdec/common/range.h) promises:   *)
(* it is a set of elements, insert adds the elements of one range and      *)
(* remove takes the elements of one range away.                            *)
(***************************************************************************)
EXTENDS Integers

CONSTANT MaxElem            \* The largest bound of a range.

Bounds == 0..MaxElem

VARIABLES
  call,                     \* The last call: its name and its range.
  elems,                    \* The elements that are in some stored range.
  inserted                  \* The flag the last insert returned.

setVars == <<call, elems, inserted>>

Init == call = <<"clear", 0, 0>> /\ elems = {} /\ inserted = FALSE

\* The flag tells whether the insert added anything.
Insert(s, e) ==
  /\ call' = <<"insert", s, e>>
  /\ elems' = elems \cup (s..(e - 1))
  /\ inserted' = (elems' # elems)

Remove(s, e) ==
  /\ call' = <<"remove", s, e>>
  /\ elems' = elems \ (s..(e - 1))
  /\ UNCHANGED inserted

Clear == call' = <<"clear", 0, 0>> /\ elems' = {} /\ UNCHANGED inserted

Next ==
  \/ \E s, e \in Bounds : s < e /\ (Insert(s, e) \/ Remove(s, e))
  \/ Clear

Spec == Init /\ [][Next]_setVars
=============================================================================
