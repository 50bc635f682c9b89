------------------------------ MODULE ElfImage ------------------------------
(***************************************************************************)
(* loader::ElfImage for an executable (loader/loader/elf/elf_image.cpp):   *)
(* the sections of each PT_LOAD segment, or the segment itself when it has *)
(* none, are added one by one; what is added later covers what is there.   *)
(* At the end the segments are sorted and empty BSS segments are grown.    *)
(*                                                                         *)
(* A program header or a section is [kind, addr, mem, off, len]: kind      *)
(* "phdr", "bits" or "nobits"; mem is the size in memory of a header and   *)
(* getSizeInFile of a section; off and len are where its bytes were loaded *)
(* from, len = getLoadedSize.  All sections have SHF_ALLOC.                *)
(***************************************************************************)
EXTENDS LoaderImage

CONSTANTS
  ElfFiles                  \* The [phdrs, sections] to load, both sequences.

Header == [kind : {"phdr", "bits", "nobits"}, addr : Nat, mem : Nat, off : Nat, len : Nat]

ASSUME ElfAssumption ==
  \A f \in ElfFiles : f.phdrs \in Seq(Header) /\ f.sections \in Seq(Header)

VARIABLES
  table,                    \* segToSecsTable: a sequence of sections per header
  pos,                      \* The loops' position: <<header, section>>
  added,                    \* What addSegment was called with, in order
  phase                     \* "table", "load", "fix", "done"

elfVars == <<file, table, pos, added, segments, phase>>

-----------------------------------------------------------------------------
\* Mutated form of MappedTo: no check that offsets and addresses are congruent.
MappedToIncongruent(sec, ph) ==
  /\ \/ sec.kind = "nobits"
     \/ /\ sec.off >= ph.off
        /\ sec.off + sec.len <= ph.off + ph.len
  /\ Resolve(Rng(ph.addr, EndOf(ph.addr, ph.mem)),
             Rng(sec.addr, EndOf(sec.addr, sec.len)))[1] # "None"

\* createSegmentToSectionsTable: which sections a PT_LOAD header is replaced by.
\* Sections that take no bytes of the file are not held to its offsets.
MappedTo(sec, ph) ==
  /\ \/ sec.kind = "nobits"
     \/ /\ sec.off >= ph.off
        /\ sec.off + sec.len <= ph.off + ph.len
        /\ ph.addr - sec.addr = ph.off - sec.off
  /\ Resolve(Rng(ph.addr, EndOf(ph.addr, ph.mem)),
             Rng(sec.addr, EndOf(sec.addr, sec.len)))[1] # "None"

\* The sections of a header, sorted by address with a stable sort.
SectionsOf(f, ph) ==
  SortedPart(f.sections, {k \in 1..Len(f.sections) : MappedTo(f.sections[k], ph)})

\* What one segment of the image becomes when the range new is added: itself or
\* a part of it, in its place, and the copy made of its right part.
LeftOf(seg, new) ==
  LET res == Resolve(SegRange(seg), new)
      Shrunk(r) == SegShrink(seg, r.start, r.end - r.start)
  IN  CASE res[1] = "None"     -> [kept |-> <<seg>>, copy |-> <<>>]
        [] res[1] = "Full"     -> [kept |-> <<>>, copy |-> <<>>]
        [] res[1] = "InMiddle" -> [kept |-> <<Shrunk(res[2])>>, copy |-> <<Shrunk(res[3])>>]
        [] OTHER               -> [kept |-> <<Shrunk(res[2])>>, copy |-> <<>>]

\* addSegment: the new segment is put behind what is left of the old ones, the
\* right parts of split ones behind it.
AddSegment(segs, seg) ==
  FlattenSeq([i \in 1..Len(segs) |-> LeftOf(segs[i], SegRange(seg)).kept])
    \o <<seg>>
    \o FlattenSeq([i \in 1..Len(segs) |-> LeftOf(segs[i], SegRange(seg)).copy])

\* The segment of a header or a section: a BSS section has no data source and
\* takes its size in the file, another section its loaded size.
SegmentOf(s) ==
  [addr |-> s.addr,
   size |-> IF s.kind = "bits" THEN s.len ELSE s.mem,
   off  |-> s.off,
   len  |-> IF s.kind = "nobits" THEN 0 ELSE s.len,
   bss  |-> s.kind = "nobits"]

\* Mutated form of FixedBss: up to the end of the next segment.
FixedBssTooFar(f, segs, i) ==
  IF ~segs[i].bss \/ segs[i].size # 0 \/ i = Len(segs) THEN segs[i]
  ELSE SegResize(segs[i], EndOf(segs[i + 1].addr, segs[i + 1].size) - segs[i].addr)

\* fixBssSegments: an empty BSS segment reaches up to the next segment, the last
\* one to the end of the last PT_LOAD header that holds it, if there is one.
FixedBss(f, segs, i) ==
  LET seg   == segs[i]
      holds == {k \in 1..Len(f.phdrs) :
                  InRng(Rng(f.phdrs[k].addr,
                            EndOf(f.phdrs[k].addr,
                                  Max({f.phdrs[k].mem, f.phdrs[k].len}))),
                        seg.addr)}
      ph    == f.phdrs[Max(holds)]
  IN  IF ~seg.bss \/ seg.size # 0 \/ (i = Len(segs) /\ holds = {}) THEN seg
      ELSE SegResize(seg, (IF i < Len(segs) THEN segs[i + 1].addr
                           ELSE ph.addr + ph.mem) - seg.addr)

-----------------------------------------------------------------------------
ElfInit ==
  /\ file \in ElfFiles
  /\ table = <<>> /\ pos = <<1, 1>> /\ added = <<>> /\ segments = <<>>
  /\ phase = "table"

CreateTable ==
  /\ phase = "table"
  /\ table' = [k \in 1..Len(file.phdrs) |-> SectionsOf(file, file.phdrs[k])]
  /\ phase' = "load"
  /\ UNCHANGED <<file, pos, added, segments>>

Add(s) ==
  /\ segments' = AddSegment(segments, SegmentOf(s))
  /\ added' = Append(added, s)

\* A header without memory and without bytes is skipped.
SkipHeader ==
  /\ phase = "load" /\ pos[1] <= Len(file.phdrs)
  /\ file.phdrs[pos[1]].mem = 0 /\ file.phdrs[pos[1]].len = 0
  /\ pos' = <<pos[1] + 1, 1>>
  /\ UNCHANGED <<file, table, added, segments, phase>>

\* No sections mapped to this segment, just map the segment itself.
LoadHeader ==
  /\ phase = "load" /\ pos[1] <= Len(file.phdrs)
  /\ file.phdrs[pos[1]].mem # 0 \/ file.phdrs[pos[1]].len # 0
  /\ table[pos[1]] = <<>>
  /\ Add(file.phdrs[pos[1]])
  /\ pos' = <<pos[1] + 1, 1>>
  /\ UNCHANGED <<file, table, phase>>

\* Load sections instead of the segment, one per step.
LoadSection ==
  /\ phase = "load" /\ pos[1] <= Len(file.phdrs)
  /\ file.phdrs[pos[1]].mem # 0 \/ file.phdrs[pos[1]].len # 0
  /\ table[pos[1]] # <<>>
  /\ Add(table[pos[1]][pos[2]])
  /\ pos' = IF pos[2] = Len(table[pos[1]]) THEN <<pos[1] + 1, 1>>
            ELSE <<pos[1], pos[2] + 1>>
  /\ UNCHANGED <<file, table, phase>>

\* load: the segments are sorted, then grown; growing one never changes an
\* address, so all can be computed from the sorted vector.
SortAndFix ==
  /\ phase = "load" /\ pos[1] > Len(file.phdrs) /\ segments # <<>>
  /\ \E sorted \in {SortSegments(segments)} :
       segments' = [i \in 1..Len(sorted) |-> FixedBss(file, sorted, i)]
  /\ phase' = "done"
  /\ UNCHANGED <<file, table, pos, added>>

\* load has returned.
Loaded == phase = "done" /\ UNCHANGED elfVars

ElfNext ==
  \/ CreateTable \/ SkipHeader \/ LoadHeader \/ LoadSection \/ SortAndFix
  \/ Loaded

ElfSpec == ElfInit /\ [][ElfNext]_elfVars

-----------------------------------------------------------------------------
\* Two segments never hold the same address, whatever sections and headers
\* overlap, and growing BSS segments at the end keeps it so: an address has one
\* segment, and a lookup need not care for the order of the vector.
Disjoint ==
  \A i, j \in 1..Len(segments) :
    i # j => ~Shares(SegRange(segments[i]), SegRange(segments[j]))

\* Where an address is read from if what is added later covers what was there.
LastAdded(a) == {k \in 1..Len(added) : InRng(SegRange(SegmentOf(added[k])), a)}

Expected(a) ==
  IF LastAdded(a) = {} THEN Unreadable
  ELSE ByteOf(SegmentOf(added[Max(LastAdded(a))]), a)

Addresses ==
  UNION {{SegRange(SegmentOf(added[k])).start - 1, SegRange(SegmentOf(added[k])).end}
           \cup SegRange(SegmentOf(added[k])).start
                  ..SegRange(SegmentOf(added[k])).end : k \in 1..Len(added)}

\* After any series of cuts and splits a byte of the image is read from the
\* place in the file where the last section or header that covers it has it: a
\* segment that is cut at its start must move its window along.  A grown BSS
\* segment may turn what was unreadable into zeroes.
BytesAreTheLastLoaded ==
  \A a \in Addresses :
    \/ ByteAt(segments, a) = Expected(a)
    \/ phase = "done" /\ Expected(a) = Unreadable /\ ByteAt(segments, a) = Zero

\* The place in the file the kernel would map at an address.
KernelBytes(a) ==
  {file.phdrs[k].off + (a - file.phdrs[k].addr) :
     k \in {k \in 1..Len(file.phdrs) :
              InRng(Rng(file.phdrs[k].addr, file.phdrs[k].addr + file.phdrs[k].len), a)}}

\* Loading sections instead of headers never shows other bytes than the headers
\* do: a byte of the finished image that comes from the file is the one that the
\* kernel would map there.
AgreesWithKernel ==
  phase = "done" =>
    \A a \in Addresses :
      ByteAt(segments, a) >= 0 => ByteAt(segments, a) \in KernelBytes(a)
=============================================================================
