-------------------------- MODULE MCRangesToDecode --------------------------
(***************************************************************************)
(* Images for RangesToDecode: two segments, code at one or two places.     *)
(***************************************************************************)
EXTENDS RangesToDecode

MaxAddr == 11

Image(code, none) ==
  [a \in 0..MaxAddr |-> IF a \in none THEN "none"
                        ELSE IF a \in code THEN "code" ELSE "zero"]

SegmentAt(s, e) == SegmentOf({MkRange(s, e)})

Layouts ==
  {<<s, t>> : s \in SegmentAt(0, 6) \cup SegmentAt(1, 7),
              t \in {x \in SegmentAt(7, 12) : ~x.discardable /\ x.kind \in {"code", "data", "const"}}}

Structures == {<<>>, <<MkRange(2, 5)>>, <<MkRange(1, 4), MkRange(7, 9)>>,
               <<MkRange(2, 2), MkRange(5, 5)>>}

CodeAt == {c \in SUBSET (0..MaxAddr) : Cardinality(c) <= 2} \cup {0..MaxAddr}

\* What initAllowedRangesWithSegments may meet.
SegmentInputs ==
  [segments : Layouts, nonDecodable : Structures, selected : {<<>>}, ep : {0, 4, 8},
   bytes : {Image({a, b}, {}) : a \in 0..MaxAddr, b \in {0, 4, 8}}, removes : {0}]

\* Selected ranges over an image without a gap, over one whose end cannot be read
\* and over one with a gap.
Selections == {<<MkRange(0, 12)>>, <<MkRange(1, 6), MkRange(6, 12)>>, <<MkRange(1, 3), MkRange(3, 11)>>}

SelectedInputs ==
  [segments : {<<>>}, nonDecodable : {<<>>}, selected : Selections, ep : {0},
   bytes : {Image(c, none) : c \in CodeAt, none \in {{}, {10, 11}, {5}}}, removes : {2}]

MCInputs == SegmentInputs \cup SelectedInputs
=============================================================================
