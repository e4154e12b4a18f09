-------------------------------- MODULE Ld65 --------------------------------
(***************************************************************************)
(* The rest of ld65: the sections of the modules taken in make up segments *)
(* (segments.c), the configuration puts the segments into memory areas     *)
(* (CfgProcess), and the areas are written one after the other into the    *)
(* output file (bin.c).  The addresses are found in one pass and the file  *)
(* is written in another, each with its own account of alignment, fill and *)
(* size.  A job's configuration has                                        *)
(*   areas  start, size, fill, out (the area goes to the output file and   *)
(*          not to a file without a name), names (of the symbols it        *)
(*          defines)                                                       *)
(*   segs   seg, load and run (areas), bss, overwrite, align and alignLoad *)
(*          (0 when not given), at ("start", "offset" or "none") with      *)
(*          addr, runNames and loadNames (of the symbols it defines)       *)
(* and a module has sections with their segment, size and alignment.       *)
(***************************************************************************)
EXTENDS Ld65Link, Integers

CONSTANTS Segs,           \* names of segments
          MAX_ALIGNMENT,  \* of a segment, 0x10000
          LAST_PRIME      \* an alignment is divided by, 251

(* A segment has one description, with one type and an alignment or an     *)
(* address but not both, a section belongs to a segment and has an         *)
(* alignment, and the symbols segments and areas define are names.         *)
ASSUME PlaceAssumption ==
  /\ MAX_ALIGNMENT \in Nat
  /\ \A j \in Jobs :
       /\ Len(j.areas) \in Nat /\ Len(j.segs) \in Nat
       /\ DOMAIN j.areas = 1 .. Len(j.areas)
       /\ DOMAIN j.segs = 1 .. Len(j.segs)
       /\ \A m \in 1 .. Len(j.areas) :
            /\ j.areas[m].start \in Nat /\ j.areas[m].size \in Nat
            /\ j.areas[m].out \in BOOLEAN
            /\ j.areas[m].names \subseteq Names
       /\ \A k, l \in 1 .. Len(j.segs) :
            j.segs[k].seg = j.segs[l].seg => k = l
       /\ \A k \in 1 .. Len(j.segs) :
            /\ j.segs[k].seg \in Segs /\ j.segs[k].addr \in Nat
            /\ j.segs[k].align \in Nat /\ j.segs[k].alignLoad \in Nat
            /\ j.segs[k].at # "none" => j.segs[k].align = 0
            /\ ~(j.segs[k].bss /\ j.segs[k].overwrite)
            /\ j.segs[k].runNames \union j.segs[k].loadNames \subseteq Names
       /\ j.condes.seg \in Segs
       /\ \A i \in 1 .. Len(j.items) :
            \A k \in 1 .. Len(j.items[i].modules) :
              j.items[i].modules[k].sections
                \in Seq([seg : Segs, size : Nat, align : Nat \ {0}])

VARIABLES sections,    \* of all segments in the order they were read
          segSize,     \* Seg->Size
          segAlign,    \* Seg->Alignment
          walk,        \* the area and the segment in work, its address
          pc,          \* Seg->PC
          loadAddr,    \* address of the segment in its load area
          misaligned,  \* segments warned about
          fileOffs,    \* M->FileOffs
          fillLevel,   \* M->FillLevel
          overflown,   \* areas with MF_OVERFLOW
          overflows,   \* Overflows
          fileSize,    \* F->Size as CfgProcess counts it, of the output
                       \* file and of the file without a name
          file,        \* what is in the output file
          pos,         \* ftell of it
          dumped       \* segments with Dumped

placed    == <<pc, loadAddr, misaligned, fileOffs, overflown, overflows,
               fileSize>>
written   == <<file, pos, dumped>>
segments  == <<sections, segSize, segAlign>>
placeVars == <<segments, walk, placed, fillLevel, written>>
vars      == <<linkVars, placeVars>>

-----------------------------------------------------------------------------
AlignAddr(a, alignment) == ((a + alignment - 1) \div alignment) * alignment

Area(m) == job.areas[m]

(* What is left when an alignment was divided by all primes of the table.  *)
Remainder(n) == {p \in LAST_PRIME + 1 .. n :
                    n % p = 0 /\ \A q \in 2 .. LAST_PRIME : p % q # 0}

(* The segment that takes in a section is aligned for that one as well.    *)
(* LeastCommonMultiple multiplies the remainders: a prime above LAST_PRIME *)
(* that is in both counts twice, and its square exceeds MAX_ALIGNMENT.     *)
CommonMultiples(a, b) == {n \in 1 .. MAX_ALIGNMENT :
                             /\ n % a = 0 /\ n % b = 0
                             /\ Remainder(a) \cap Remainder(b) = {}}

(* The constructor table is a section of its own, an address for each of   *)
(* its entries.                                                            *)
ConDesMade == LET label == job.condes.label
              IN  /\ label # NoName /\ owner[label] = Linker
                  /\ label \notin job.defined /\ impCount[label] > 0

TableSections ==
  IF ConDesMade
  THEN <<[seg |-> job.condes.seg, size |-> 2 * Cardinality(conDes),
          align |-> 1]>>
  ELSE <<>>

SectionsOf(k) == IF k <= Len(objData) THEN Module(objData[k]).sections
                 ELSE TableSections

(* Segments no module has are dropped; the others are in the list of their *)
(* run area, and of their load area where that is another one.  Lists are  *)
(* walked through by the numbers of the segments in the configuration.     *)
Exists(s)  == \E k \in DOMAIN sections : sections[k].seg = s
SegList(m) == {k \in DOMAIN job.segs : /\ Exists(job.segs[k].seg)
                                      /\ m \in {job.segs[k].run,
                                                job.segs[k].load}}

InNoList      == Len(job.segs) + 1
After(m, k)   == Min({l \in SegList(m) : l > k} \union {InNoList})

NotPlaced == -1

WalkAt(list, item) ==
  [list |-> list, item |-> item, addr |-> 0, overwrites |-> 0]

PlaceInit ==
  /\ sections = <<>>
  /\ segSize = [s \in Segs |-> 0] /\ segAlign = [s \in Segs |-> 1]
  /\ walk = WalkAt(1, 1)
  /\ pc = [s \in Segs |-> NotPlaced]
  /\ loadAddr = [s \in Segs |-> NotPlaced]
  /\ misaligned = {}
  /\ fileOffs = [m \in DOMAIN job.areas |-> 0]
  /\ fillLevel = [m \in DOMAIN job.areas |-> 0]
  /\ overflown = {} /\ overflows = 0
  /\ fileSize = [out \in BOOLEAN |-> 0]
  /\ file = <<>> /\ pos = 0 /\ dumped = {}

(* ReadSection and NewSection.  A module's sections are read when it is    *)
(* loaded; nothing looks at a segment before all of them are there.        *)
ReadSection ==
  LET sec    == SectionsOf(walk.list)[walk.item]
      offs   == AlignAddr(segSize[sec.seg], sec.align)
      aligns == CommonMultiples(segAlign[sec.seg], sec.align)
  IN  /\ stage = "segments" /\ walk.list <= Len(objData) + 1
      /\ walk.item <= Len(SectionsOf(walk.list))
      /\ IF aligns = {}
         THEN Fail("combined alignment") /\ UNCHANGED <<segments, walk>>
         ELSE /\ sections' = Append(sections,
                   [seg |-> sec.seg, size |-> sec.size, align |-> sec.align,
                    offs |-> offs])
              /\ segSize' = [segSize EXCEPT ![sec.seg] = offs + sec.size]
              /\ segAlign' = [segAlign EXCEPT ![sec.seg] = Min(aligns)]
              /\ walk' = WalkAt(walk.list, walk.item + 1)
              /\ UNCHANGED <<stage, message>>
      /\ UNCHANGED <<job, table, files, placed, fillLevel, written>>

NextModule ==
  /\ stage = "segments" /\ walk.list <= Len(objData) + 1
  /\ walk.item > Len(SectionsOf(walk.list))
  /\ walk' = WalkAt(walk.list + 1, 1)
  /\ UNCHANGED <<linkVars, segments, placed, fillLevel, written>>

ProcessSegments ==
  /\ stage = "segments" /\ walk.list > Len(objData) + 1
  /\ stage' = "place" /\ walk' = WalkAt(1, 0)
  /\ UNCHANGED <<job, message, table, files, segments, placed, fillLevel,
                 written>>

-----------------------------------------------------------------------------
(* CfgProcess, an area and then its segments at a time                     *)
Begins(what) == stage = what /\ walk.list <= Len(job.areas) /\ walk.item = 0
InList(what) == /\ stage = what /\ walk.list <= Len(job.areas)
                /\ walk.item \in SegList(walk.list)
Ends(what)   == /\ stage = what /\ walk.list <= Len(job.areas)
                /\ walk.item = InNoList
Past(what)   == stage = what /\ walk.list > Len(job.areas)

FirstItem(addr) ==
  [list |-> walk.list, item |-> After(walk.list, 0), addr |-> addr,
   overwrites |-> 0]

NextItem(addr, overwrites) ==
  [list |-> walk.list, item |-> After(walk.list, walk.item), addr |-> addr,
   overwrites |-> walk.overwrites + overwrites]

StartArea ==
  /\ Begins("place")
  /\ fileOffs' = [fileOffs EXCEPT ![walk.list] = fileSize[Area(walk.list).out]]
  /\ walk' = FirstItem(Area(walk.list).start)
  /\ UNCHANGED <<linkVars, segments, pc, loadAddr, misaligned, overflown,
                 overflows, fileSize, fillLevel, written>>

RunAlignment(S) == IF S.align = 0 THEN 1 ELSE S.align
Fixed(S)        == S.align = 0 /\ S.at # "none"
FixedAddr(S)    == S.addr + IF S.at = "offset" THEN Area(S.run).start ELSE 0
(* Slip: a segment without an alignment is not looked at. *)
ByAlignment(S)  == S.align

AlignedBy(S)    == IF S.at = "none" THEN RunAlignment(S) ELSE FixedAddr(S)

(* Where segment S goes in area m when the segments before it end at a.  A *)
(* fixed address is not heeded any more in an area that has overflown, nor *)
(* where it is too low.                                                    *)
(* Slip: a fixed address is taken as it is. *)
NeverTooLow(S, m, a) == FALSE

TooLow(S, m, a) == /\ S.run = m /\ Fixed(S) /\ m \notin overflown
                   /\ ~S.overwrite /\ FixedAddr(S) < a

AddrOf(S, m, a) ==
  IF S.run = m
  THEN IF Fixed(S) /\ m \notin overflown /\ ~TooLow(S, m, a)
       THEN FixedAddr(S) ELSE AlignAddr(a, RunAlignment(S))
  ELSE IF S.alignLoad > 0 THEN AlignAddr(a, S.alignLoad) ELSE a

Illegal(S, m) ==
  IF S.overwrite
  THEN \/ S.at = "none"
       \/ S.run = m /\ Fixed(S) /\ m \notin overflown
            /\ FixedAddr(S) < Area(m).start
  ELSE walk.overwrites > 0

SymbolsOf(S, m) == (IF S.run = m THEN S.runNames ELSE {})
                     \union (IF S.load = m THEN S.loadNames ELSE {})

Twice(names) == ~job.multdef /\ Duplicates(names) # {}

InFile(S, m) == S.load = m /\ (~S.bss \/ Area(m).fill)

PlaceSegment ==
  LET m     == walk.list
      S     == job.segs[walk.item]
      addr  == AddrOf(S, m, walk.addr)
      end   == addr + segSize[S.seg]
      level == end - Area(m).start
      over  == level > Area(m).size /\ m \notin overflown
      grown == IF level > fillLevel[m] THEN level - fillLevel[m] ELSE 0
  IN
  /\ InList("place")
  /\ IF Illegal(S, m) \/ Twice(SymbolsOf(S, m))
     THEN Fail("configuration") /\ UNCHANGED <<job, table, files, placeVars>>
     ELSE
     /\ InsertExports(SymbolsOf(S, m), Linker)
     /\ misaligned' = IF S.run = m /\ AlignedBy(S) % segAlign[S.seg] # 0
                      THEN misaligned \union {S.seg} ELSE misaligned
     /\ pc' = IF S.run = m THEN [pc EXCEPT ![S.seg] = addr] ELSE pc
     /\ loadAddr' = IF S.load = m THEN [loadAddr EXCEPT ![S.seg] = addr]
                    ELSE loadAddr
     /\ overflows' = overflows + (IF TooLow(S, m, walk.addr) THEN 1 ELSE 0)
                                + (IF over THEN 1 ELSE 0)
     /\ overflown' = IF over THEN overflown \union {m} ELSE overflown
     /\ fillLevel' = [fillLevel EXCEPT ![m] = @ + grown]
     /\ fileSize' = [fileSize EXCEPT ![Area(m).out] =
                       IF ~InFile(S, m) THEN @
                       ELSE IF S.overwrite THEN @ + grown
                       ELSE @ + (end - walk.addr)]
     /\ walk' = NextItem(end, IF S.overwrite THEN 1 ELSE 0)
     /\ UNCHANGED <<job, stage, message, conDes, files, segments, fileOffs,
                    written>>

EndArea ==
  LET m == walk.list
  IN  /\ Ends("place")
      /\ IF Twice(Area(m).names)
         THEN DuplicateIdentifier /\ UNCHANGED placeVars
         ELSE /\ InsertExports(Area(m).names, Linker)
              /\ fileSize' = [fileSize EXCEPT ![Area(m).out] =
                   IF m \notin overflown /\ Area(m).fill
                   THEN @ + (Area(m).size - fillLevel[m]) ELSE @]
              /\ walk' = WalkAt(walk.list + 1, 0)
              /\ UNCHANGED <<job, stage, message, conDes, files, segments, pc,
                             loadAddr, misaligned, fileOffs, fillLevel,
                             overflown, overflows, written>>

(* Slip: the unresolved imports are not looked for. *)
OpenAnyway ==
  /\ Past("place")
  /\ IF overflows > 0
     THEN Fail("memory area overflow") /\ UNCHANGED walk
     ELSE stage' = "write" /\ walk' = WalkAt(1, 0) /\ UNCHANGED message
  /\ UNCHANGED <<job, table, files, segments, placed, fillLevel, written>>

(* With an overflow nothing is written.  Otherwise the output file is, if  *)
(* an area goes there, once no import is open.                             *)
OpenTarget ==
  /\ Past("place")
  /\ IF overflows > 0
     THEN Fail("memory area overflow") /\ UNCHANGED walk
     ELSE IF impOpen # 0 /\ \E m \in DOMAIN job.areas : Area(m).out
     THEN Fail("unresolved externals") /\ UNCHANGED walk
     ELSE stage' = "write" /\ walk' = WalkAt(1, 0) /\ UNCHANGED message
  /\ UNCHANGED <<job, table, files, segments, placed, fillLevel, written>>

-----------------------------------------------------------------------------
(* BinWriteMem.  The file is a sequence of marks: the section a byte       *)
(* belongs to, and Fill where it belongs to none.                          *)
Fill == 0

Put(f, at, marks) ==
  [k \in 1 .. Max({Len(f), at + Len(marks)}) |->
     IF k > at /\ k <= at + Len(marks) THEN marks[k - at]
     ELSE IF k <= Len(f) THEN f[k] ELSE Fill]

Filling(n) == [k \in 1 .. n |-> Fill]

(* SegWrite: the sections with what aligns them                            *)
Contents(s) ==
  [k \in 1 .. segSize[s] |->
     LET here == {i \in DOMAIN sections :
                    /\ sections[i].seg = s /\ k > sections[i].offs
                    /\ k <= sections[i].offs + sections[i].size}
     IN  IF here = {} THEN Fill ELSE CHOOSE i \in here : TRUE]

InvalidFileOffset == Area(walk.list).out /\ pos # fileOffs[walk.list]

StartWriting ==
  /\ Begins("write")
  /\ IF InvalidFileOffset
     THEN Fail("invalid file offset") /\ UNCHANGED walk
     ELSE /\ walk' = FirstItem(Area(walk.list).start)
          /\ UNCHANGED <<stage, message>>
  /\ UNCHANGED <<job, table, files, segments, placed, fillLevel, written>>

(* Slip: the alignment in the load area is forgotten. *)
NoLoadAlignment(S, m) ==
  IF S.run = m THEN IF Fixed(S) THEN FixedAddr(S)
                    ELSE AlignAddr(walk.addr, RunAlignment(S))
  ELSE walk.addr

(* Before a segment: up to its alignment, or to its fixed address, or to   *)
(* where it overwrites what the area has so far.                           *)
NewAddr(S, m) ==
  IF S.run = m THEN IF Fixed(S) THEN FixedAddr(S)
                    ELSE AlignAddr(walk.addr, RunAlignment(S))
  ELSE IF S.alignLoad > 0 THEN AlignAddr(walk.addr, S.alignLoad)
  ELSE walk.addr

WriteSegment ==
  LET m       == walk.list
      S       == job.segs[walk.item]
      addr    == NewAddr(S, m)
      doWrite == ~S.bss /\ S.load = m /\ S.seg \notin dumped
      acts    == Area(m).out /\ (doWrite \/ Area(m).fill)
      seeks   == S.overwrite /\ S.run = m /\ Fixed(S)
      target  == addr - Area(m).start + fileOffs[m]
      start   == IF seeks THEN target ELSE pos + (addr - walk.addr)
      before  == IF seeks
                 THEN Put(file, Len(file), Filling(IF target > Len(file)
                                         THEN target - Len(file) ELSE 0))
                 ELSE Put(file, pos, Filling(addr - walk.addr))
      after   == Put(before, start, IF doWrite THEN Contents(S.seg)
                                    ELSE Filling(segSize[S.seg]))
  IN
  /\ InList("write")
  /\ IF acts
     THEN /\ file' = after
          /\ pos' = IF doWrite /\ S.overwrite THEN Len(after)
                    ELSE start + segSize[S.seg]
     ELSE UNCHANGED <<file, pos>>
  /\ dumped' = IF S.load = m THEN dumped \union {S.seg} ELSE dumped
  /\ walk' = NextItem(addr + segSize[S.seg], 0)
  /\ UNCHANGED <<linkVars, segments, placed, fillLevel>>

EndWriting ==
  LET m    == walk.list
      fill == Area(m).out /\ Area(m).fill /\ fillLevel[m] < Area(m).size
      rest == Area(m).size - fillLevel[m]
  IN  /\ Ends("write")
      /\ IF fill THEN /\ file' = Put(file, pos, Filling(rest))
                      /\ pos' = pos + rest
                      /\ fillLevel' = [fillLevel EXCEPT ![m] = Area(m).size]
         ELSE UNCHANGED <<file, pos, fillLevel>>
      /\ walk' = WalkAt(walk.list + 1, 0)
      /\ UNCHANGED <<linkVars, segments, placed, dumped>>

(* A segment that is in no area is noticed when the file is there.         *)
CheckSegments ==
  /\ Past("write")
  /\ IF \E s \in Segs : segSize[s] > 0 /\ s \notin dumped
     THEN Fail("missing memory area assignment")
     ELSE stage' = "done" /\ UNCHANGED message
  /\ UNCHANGED <<job, table, files, placeVars>>

(* The linker ends, with or without an error.                              *)
Ended == stage \in {"done", "failed"} /\ UNCHANGED vars

Next ==
  \/ LinkNext /\ UNCHANGED placeVars
  \/ ReadSection \/ NextModule \/ ProcessSegments
  \/ StartArea \/ PlaceSegment \/ EndArea \/ OpenTarget
  \/ StartWriting \/ WriteSegment \/ EndWriting \/ CheckSegments
  \/ Ended

Init == LinkInit /\ PlaceInit

Spec == Init /\ [][Next]_vars /\ WF_vars(Next)

-----------------------------------------------------------------------------
TypeOK ==
  /\ LinkTypeOK
  /\ stage \in {"files", "search", "load", "condes", "symbols", "segments",
                "place", "write", "done", "failed"}
  /\ walk \in [list : Nat, item : Nat, addr : Nat,
               overwrites : Nat]
  /\ \A s \in Segs : pc[s] >= NotPlaced /\ loadAddr[s] >= NotPlaced
  /\ overflown \subseteq DOMAIN job.areas /\ overflows \in Nat
  /\ misaligned \subseteq Segs /\ dumped \subseteq Segs
  /\ pos \in 0 .. Len(file)

(* main, BinWriteTarget: when an output file was written, every import of  *)
(* every module in the link has its definition.                            *)
CompleteLink ==
  (stage = "done" /\ \E m \in DOMAIN job.areas : Area(m).out) =>
    \A n \in Names :
      (n \in job.forced \/ \E id \in referenced : ImportsOf(Module(id), n) > 0)
      => IsDefined(n)

IsPlaced == stage \in {"write", "done"}

AddrIn(S, m) == IF S.run = m THEN pc[S.seg] ELSE loadAddr[S.seg]
EndIn(S, m)  == AddrIn(S, m) + segSize[S.seg]

(* CfgProcess: without an overflow all segments of an area are inside it,  *)
(* and no two of them share an address unless one is there to overwrite.   *)
InsideAndApart ==
  IsPlaced =>
    \A m \in DOMAIN job.areas : \A k \in SegList(m) :
      LET S == job.segs[k]
      IN  /\ AddrIn(S, m) >= Area(m).start
          /\ EndIn(S, m) <= Area(m).start + Area(m).size
          /\ \A l \in SegList(m) :
               (l < k /\ ~S.overwrite) =>
                 EndIn(job.segs[l], m) <= AddrIn(S, m)

(* Every section runs at a multiple of the alignment its module asked for, *)
(* except in a segment the warning of CfgProcess named.                    *)
AlignedUnlessWarned ==
  IsPlaced =>
    \A k \in DOMAIN sections :
      LET sec == sections[k]
      IN  (pc[sec.seg] # NotPlaced /\ sec.seg \notin misaligned)
          => (pc[sec.seg] + sec.offs) % sec.align = 0

(* An area comes out as its image when all its segments are loaded there,  *)
(* those that overwrite run there too, and those without data are only     *)
(* where it is filled.                                                     *)
IsImage(m) ==
  \A k \in SegList(m) :
    LET S == job.segs[k]
    IN  /\ S.load = m
        /\ S.overwrite => S.run = m
        /\ S.bss => Area(m).fill

(* In the others both passes still agree on the size in the file, but for  *)
(* a segment that only runs in a filled area, or that overwrites one where *)
(* addresses and file have come apart.                                     *)
Accounted(m) ==
  \/ IsImage(m)
  \/ ~Area(m).fill /\ \A k \in SegList(m) : ~job.segs[k].overwrite

Covered(m, k, a) ==
  \E l \in SegList(m) :
    LET T == job.segs[l]
    IN  l > k /\ T.overwrite /\ a >= AddrIn(T, m) /\ a < EndIn(T, m)

InImage(m, k) ==
  LET S == job.segs[k]
  IN  (S.load = m /\ ~S.bss) =>
        \A i \in DOMAIN sections : sections[i].seg = S.seg =>
          \A b \in 1 .. sections[i].size :
            LET a == loadAddr[S.seg] + sections[i].offs + b - 1
            IN  \/ Covered(m, k, a)
                \/ file[fileOffs[m] + a - Area(m).start + 1] = i

(* BinWriteMem against CfgProcess: each area begins in the file where it   *)
(* was to begin, and in the image of an area each byte of a section is     *)
(* where its load address says, unless a segment that overwrites has been  *)
(* put over it.                                                            *)
WrittenWherePlaced ==
  (\A m \in DOMAIN job.areas : Area(m).out => Accounted(m)) =>
    /\ message # "invalid file offset"
    /\ stage = "done" =>
         \A m \in DOMAIN job.areas : (Area(m).out /\ IsImage(m)) =>
           \A k \in SegList(m) : InImage(m, k)

(* BinWriteMem: "Debugging: Check that the file offset is correct"         *)
(* (bin.c:142).                                                            *)
FileOffsetCorrect == message # "invalid file offset"

(* Whatever the files and the configuration, the linker comes to an end.   *)
Terminates == <>(stage \in {"done", "failed"})
=============================================================================
