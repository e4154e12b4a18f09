------------------------------- MODULE MCLd65 -------------------------------
(***************************************************************************)
(* Command lines and configurations for ld65.                              *)
(*   LinkJobs   up to two libraries of one or two modules each, an object  *)
(*              file and maybe a group, with a plain configuration         *)
(*   PlaceJobs  one object file with three segments, and two memory areas  *)
(*   RomJobs    src/link.cfg, its banks shrunk to a few bytes              *)
(***************************************************************************)
EXTENDS Ld65

Mod(defs, uses) == [exports |-> [n \in defs |-> 0], imports |-> uses,
                    sections |-> <<[seg |-> "a", size |-> 1, align |-> 1]>>]
Constructor     == [Mod({2}, {}) EXCEPT !.exports = [n \in {2} |-> 1]]

Unassigned      == [Mod({}, {}) EXCEPT !.sections[1].seg = "b"]

LibModules == {Mod({1}, {2}), Mod({2}, {3}), Mod({1, 3}, {}), Constructor}

Obj(m)    == [kind |-> "obj", modules |-> <<m>>]
Lib(ms)   == [kind |-> "lib", modules |-> ms]
GroupOpen == [kind |-> "start", modules |-> <<>>]
GroupEnd  == [kind |-> "end", modules |-> <<>>]

(* Two modules of a library may need each other in either order.          *)
Pairs == {<<m, n>> \in LibModules \X LibModules :
            m # n /\ Constructor \notin {m, n}}

Libs == {Lib(<<m>>) : m \in LibModules} \union {Lib(p) : p \in Pairs}

Lines ==
  UNION {LET o == Obj(m)
         IN  {<<o, k, l>>, <<k, o, l>>,
              <<o, GroupOpen, k, l, GroupEnd>>,
              <<GroupOpen, k, o, GroupEnd, l>>} :
         k \in Libs, l \in Libs, m \in {Mod({}, {1}), Mod({3}, {1, 4})}}
  \union {<<l>> : l \in Libs}
  \union {<<GroupOpen, GroupOpen>>, <<GroupEnd>>,
          <<Obj(Mod({}, {})), GroupOpen>>, <<Obj(Unassigned)>>}

Segment(s, load, run) ==
  [seg |-> s, load |-> load, run |-> run, bss |-> FALSE, overwrite |-> FALSE,
   align |-> 0, alignLoad |-> 0, at |-> "none", addr |-> 0,
   runNames |-> {}, loadNames |-> {}]

Memory(start, size, fill, out) ==
  [start |-> start, size |-> size, fill |-> fill, out |-> out, names |-> {}]

NoTable == [label |-> NoName, count |-> NoName, import |-> NoName,
            seg |-> "a"]
Table   == [label |-> 4, count |-> 5, import |-> 3, seg |-> "a"]

Job(items, areas, segs) ==
  [items |-> items, forced |-> {}, defined |-> {}, weak |-> {},
   multdef |-> FALSE, condes |-> NoTable, areas |-> areas, segs |-> segs]

Plain(items) == Job(items, <<Memory(0, 12, FALSE, TRUE)>>,
                    <<Segment("a", 1, 1)>>)

LinkJobs ==
  UNION {LET j == Plain(items)
         IN  {[j EXCEPT !.multdef = TRUE, !.weak = {2, 3}],
              [j EXCEPT !.forced = {2}, !.weak = {4}],
              [j EXCEPT !.condes = Table],
              [j EXCEPT !.defined = {1}, !.weak = {2, 3, 4}]} :
         items \in Lines}

-----------------------------------------------------------------------------
(* Segment "a" is loaded into the first area and may run in the second, or *)
(* the other way round, "b" goes into the first and "c" into the second.   *)
Placings(S) ==
  {S, [S EXCEPT !.bss = TRUE], [S EXCEPT !.align = 4],
   [S EXCEPT !.at = "offset", !.addr = 4],
   [S EXCEPT !.at = "offset", !.addr = 1, !.overwrite = TRUE]}

Elsewhere(S) ==
  {[S EXCEPT !.alignLoad = 4],
   [S EXCEPT !.align = 4, !.runNames = {1}, !.loadNames = {2}],
   [S EXCEPT !.at = "start", !.addr = 18],
   [S EXCEPT !.at = "offset", !.addr = 1, !.overwrite = TRUE]}

SectionLists ==
  LET Sec(s, n, al) == [seg |-> s, size |-> n, align |-> al]
  IN  {<<Sec("a", 1, 1), Sec("b", 1, 2), Sec("a", 2, 2), Sec("c", 3, 1)>>,
       <<Sec("c", 5, 4), Sec("b", 4, 1), Sec("b", 1, 4)>>,
       <<Sec("a", 1, 2), Sec("a", 1, 3), Sec("b", 1, 1)>>,
       <<Sec("a", 1, 2), Sec("a", 1, 5)>>,
       <<Sec("a", 1, 5), Sec("a", 1, 5)>>}

Linked(list, uses) == <<Obj([exports |-> [n \in {} |-> 0], imports |-> uses,
                             sections |-> list])>>

PlaceJobs ==
  {Job(Linked(list, a.runNames), <<first, second>>, <<a, b, c>>) :
     list \in SectionLists,
     first \in {[Memory(2, 8, fill, TRUE) EXCEPT !.names = {3}] :
                  fill \in BOOLEAN},
     second \in {Memory(16, 8, FALSE, FALSE), Memory(16, 8, FALSE, TRUE),
                 Memory(16, 8, TRUE, TRUE)},
     a \in Placings(Segment("a", 1, 1)) \union Elsewhere(Segment("a", 1, 2))
             \union {Segment("a", 2, 1)},
     b \in Placings(Segment("b", 1, 1)), c \in Placings(Segment("c", 2, 2))}

(* Without a segment that overwrites *)
FillJobs == {j \in PlaceJobs : \A k \in DOMAIN j.segs : ~j.segs[k].overwrite}

-----------------------------------------------------------------------------
(* src/link.cfg: CODE runs in a mirror of the area it is loaded into,      *)
(* HEADER and VECTOR share an area at fixed addresses, RODATA1 is aligned, *)
(* and the areas for variables are not filled, but are in the file.        *)
RomAreas ==
  <<Memory(2, 4, FALSE, TRUE), Memory(16, 4, TRUE, TRUE),
    Memory(20, 2, TRUE, TRUE), Memory(22, 4, TRUE, TRUE),
    Memory(32, 8, TRUE, TRUE), Memory(8, 4, FALSE, TRUE)>>

At(S, addr) == [S EXCEPT !.at = "start", !.addr = addr]

RomSegs ==
  <<At(Segment("CODE", 3, 6), 8), At(Segment("HEADER", 4, 4), 22),
    At(Segment("VECTOR", 4, 4), 24), At(Segment("RODATA", 2, 2), 16),
    Segment("CODE1", 5, 5), [Segment("RODATA1", 5, 5) EXCEPT !.align = 4],
    [Segment("BSS", 1, 1) EXCEPT !.bss = TRUE]>>

RomSections ==
  {[k \in 1 .. 7 |->
      [seg |-> RomSegs[k].seg, size |-> n[k],
       align |-> IF RomSegs[k].seg = "RODATA1" THEN 2 ELSE 1]] :
     n \in {f \in [1 .. 7 -> 0 .. 5] :
              /\ f[1] \in 1 .. 3 /\ f[2] \in 1 .. 3 /\ f[3] \in {2}
              /\ f[4] \in 3 .. 5 /\ f[5] < 3 /\ f[6] \in 2 .. 4
              /\ f[7] \in {0, 4, 5}}}

RomJobs == {Job(Linked(list, {}), RomAreas, RomSegs) : list \in RomSections}

MCJobs == LinkJobs \union PlaceJobs \union RomJobs

MCNames == 1 .. 5
MCSegs  == {"a", "b", "c"} \union {RomSegs[k].seg : k \in DOMAIN RomSegs}
=============================================================================
