----------------------------- MODULE MCPeImage ------------------------------
(***************************************************************************)
(* Files for PeImage: up to three sections in any order over a few         *)
(* addresses and up to two structures.                                     *)
(***************************************************************************)
EXTENDS PeImage

CONSTANT MaxAddr            \* Sections end at MaxAddr + 1 at the latest.

Base == 1

\* Raw sizes below, at and above the virtual size; 0 in either.
Shapes == {<<0, 0>>, <<0, 2>>, <<1, 2>>, <<2, 2>>, <<3, 1>>}

SectionAt(o) ==
  {[addr |-> a, mem |-> m[1], off |-> o, len |-> m[2], bss |-> b] :
     a \in Base..MaxAddr, m \in Shapes, b \in BOOLEAN}

Sections1 == SectionAt(100)
Sections2 == SectionAt(200)
Sections3 == {s \in SectionAt(300) : ~s.bss /\ s.mem \in {1, 2}}

Tables ==
  {<<>>} \cup {<<s>> : s \in Sections1} \cup {<<s, t>> : s \in Sections1, t \in Sections2}
    \cup {<<s, t, u>> : s \in {x \in Sections1 : ~x.bss}, t \in {x \in Sections2 : ~x.bss}, u \in Sections3}

Structures == {<<>>, <<Rng(0, 3)>>, <<Rng(1, 2), Rng(2, 5)>>}

MCFiles == [sections : Tables, base : {Base}, length : {4}, structures : Structures]
=============================================================================
