----------------------------- MODULE MCElfImage -----------------------------
(***************************************************************************)
(* Files for ElfImage: one or two PT_LOAD headers and up to two sections   *)
(* over a few addresses.  The bytes of the first header are at offset 100, *)
(* those of the second at 200.                                             *)
(***************************************************************************)
EXTENDS ElfImage

Headers(o) ==
  {h \in [kind : {"phdr"}, addr : 0..4, mem : 0..4, off : {o}, len : 0..4] :
     h.len <= h.mem /\ h.addr + h.mem <= 5}

Headers1 == {h \in Headers(100) : h.mem # 0}
Headers2 == Headers(200)

\* The bytes of all of a header's memory are in the file.
FullHeaders1 == {h \in Headers1 : h.len = h.mem}
FullHeaders2 == {h \in Headers2 : h.len = h.mem}
FullHeaders3 == {h \in Headers(300) : h.len = h.mem}

\* Sections with their bytes behind those of the first or the second header,
\* congruent with it when the header's address is base.
SectionsAt(offset, bases) ==
  {[kind |-> k, addr |-> a, mem |-> l, off |-> offset + a - base, len |-> l] :
     k \in {"bits", "nobits"}, a \in 0..6, l \in 0..2, base \in bases}

Sections1 == SectionsAt(100, {0, 1})
Sections2 == SectionsAt(100, {0}) \cup SectionsAt(200, {4})

File(phdrs, sections) == [phdrs |-> phdrs, sections |-> sections]

\* Headers that overlap.
OverlapFiles ==
  {File(<<h1, h2, h3>>, <<>>) :
     h1 \in FullHeaders1, h2 \in FullHeaders2, h3 \in FullHeaders3}

\* Two headers apart from each other, with sections that may overlap.
LeftHeaders == {h \in Headers1 : h.addr = 0 /\ h.mem = 4 /\ h.len > 1}
RightHeaders ==
  [kind : {"phdr"}, addr : {4}, mem : {0}, off : {200}, len : {0}]
    \cup [kind : {"phdr"}, addr : {4}, mem : {2}, off : {200}, len : {2}]

SectionFiles ==
  {File(<<h1, h2>>, <<s1, s2>>) :
     h1 \in LeftHeaders, h2 \in RightHeaders, s1 \in Sections1, s2 \in Sections2}

MCFiles == OverlapFiles \cup SectionFiles

\* Headers with more memory than bytes, that overlap.
PartialFiles ==
  {File(<<h1, h2>>, <<>>) : h1 \in Headers1, h2 \in Headers2}
=============================================================================
