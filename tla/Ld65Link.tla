------------------------------ MODULE Ld65Link ------------------------------
(***************************************************************************)
(* How ld65 takes in object files and libraries: the table of exports and  *)
(* imports (exports.c), the modules a library gives (library.c, objfile.c, *)
(* objdata.c), and the input files of the command line one after the other *)
(* (main.c).  A job is a command line with the configuration it names:     *)
(*   items    files in order: an object file has one module, a library     *)
(*            any number; "start" and "end" are the group options          *)
(*   forced   names of -u and of the configuration's imports               *)
(*   defined  names of -D and of the configuration's exports               *)
(*   weak     the configuration's weak symbols                             *)
(*   multdef  --allow-multiple-definition                                  *)
(*   condes   of the one constructor table: its label, the symbol for its  *)
(*            length and the import it forces, NoName for those not given  *)
(* A module has exports, each with its priority in the constructor table,  *)
(* zero for none, and imports.  A name is a number, in alphabetic order.   *)
(***************************************************************************)
EXTENDS Naturals, FiniteSets, Sequences, SequencesExt, FiniteSetsExt

CONSTANTS Names,    \* of symbols
          NoName,   \* not one of them
          Jobs      \* command lines with their configurations

(* The symbols of the command line, of the configuration and of the        *)
(* modules are names, and an object file has one module.                   *)
ASSUME LinkAssumption ==
  /\ IsFiniteSet(Names) /\ NoName \notin Names
  /\ \A j \in Jobs :
       /\ j.forced \union j.defined \union j.weak \subseteq Names
       /\ {j.condes.label, j.condes.count} \subseteq Names \union {NoName}
       /\ Len(j.items) \in Nat
       /\ \A i \in 1 .. Len(j.items) :
            /\ Len(j.items[i].modules) \in Nat
            /\ j.items[i].kind = "obj" => Len(j.items[i].modules) = 1
            /\ \A k \in 1 .. Len(j.items[i].modules) :
                 DOMAIN j.items[i].modules[k].exports \subseteq Names

VARIABLES job,          \* what the linker was called with
          stage,        \* where it is
          message,      \* of the error it stopped with
          next,         \* the input file next in line
          owner,        \* HashTab: of every name its entry's module
          impCount,     \* ImpCount of the entries
          impOpen,      \* ImpOpen, imports of names not defined yet
          expCount,     \* ExpCount, entries of the table
          referenced,   \* the modules with OBJ_REF
          objData,      \* ObjDataList
          grouping,     \* Grouping
          openLibs,     \* OpenLibs
          libraryList,  \* LibraryList
          conDes,       \* ExpList of the constructor table
          cursor        \* where LibResolve is

table    == <<owner, impCount, impOpen, expCount, conDes>>
files    == <<next, referenced, objData, grouping, openLibs, libraryList,
              cursor>>
linkVars == <<job, stage, message, table, files>>

-----------------------------------------------------------------------------
(* An entry of the table is a dummy until some module, or the linker       *)
(* itself, defines the name.                                               *)
NoEntry == <<0, 0>>
Dummy   == <<0, 1>>
Linker  == <<0, 2>>

Item(i)    == job.items[i]
Module(id) == Item(id[1]).modules[id[2]]
Modules(i) == {<<i, j>> : j \in 1 .. Len(Item(i).modules)}
Exports(m) == DOMAIN m.exports

ConDesOf(m)  == {n \in Exports(m) : m.exports[n] > 0}

(* Imports of n in a module as it is read: every export for the table adds *)
(* the import the table forces.                                            *)
ImportsOf(m, n) ==
  (IF n \in m.imports THEN 1 ELSE 0)
    + (IF n = job.condes.import THEN Cardinality(ConDesOf(m)) ELSE 0)

(* Slip: a name nobody imports is taken for a missing one. *)
NotDefined(n) == n # NoName /\ owner[n] \in {NoEntry, Dummy}

IsUnresolved(n) == n # NoName /\ owner[n] = Dummy
IsDefined(n)    == owner[n] \notin {NoEntry, Dummy}

OpenIn(own, count) ==
  MapThenSumSet(LAMBDA n : count[n], {n \in Names : own[n] = Dummy})

Fail(what) == stage' = "failed" /\ message' = what

-----------------------------------------------------------------------------
(* The table: exports first, each in the place of the dummy of its name,   *)
(* then imports, with a dummy for each name the table does not have yet.   *)
Duplicates(defs) == {n \in defs : IsDefined(n)}

(* Slip: the last definition stands. *)
Overridden(defs, id) == [n \in Names |-> IF n \in defs THEN id ELSE owner[n]]

Claimed(defs, id) ==
  [n \in Names |-> IF n \in defs /\ ~IsDefined(n) THEN id ELSE owner[n]]

(* Slip: a name that is resolved is one import less. *)
NamesResolved(defs) == Cardinality({n \in defs : owner[n] = Dummy})

(* Slip: a second definition resolves the imports once more. *)
ResolvedAgain(defs) == MapThenSumSet(LAMBDA n : impCount[n], defs)

ResolvedBy(defs) ==
  MapThenSumSet(LAMBDA n : impCount[n], {n \in defs : owner[n] = Dummy})

InsertExports(defs, id) ==
  /\ job.multdef \/ Duplicates(defs) = {}
  /\ owner'    = Claimed(defs, id)
  /\ impOpen'  = impOpen - ResolvedBy(defs)
  /\ expCount' = expCount + Cardinality({n \in defs : owner[n] = NoEntry})
  /\ UNCHANGED impCount

Counted(own, uses) ==
  [n \in Names |-> IF own[n] = NoEntry /\ uses[n] > 0 THEN Dummy ELSE own[n]]

InsertObjGlobals(id) ==
  LET m    == Module(id)
      defs == Exports(m)
      own  == Claimed(defs, id)
      uses == [n \in Names |-> ImportsOf(m, n)]
  IN  /\ owner'    = Counted(own, uses)
      /\ impCount' = [n \in Names |-> impCount[n] + uses[n]]
      /\ impOpen'  = impOpen - ResolvedBy(defs)
                       + OpenIn(Counted(own, uses), uses)
      /\ expCount' = expCount + Cardinality({n \in Names :
                       /\ owner[n] = NoEntry
                       /\ n \in defs \/ uses[n] > 0})
      /\ conDes'   = conDes \union {<<id, n>> : n \in ConDesOf(m)}

Clash(id) == ~job.multdef /\ Duplicates(Exports(Module(id))) # {}

DuplicateIdentifier ==
  Fail("duplicate external identifier") /\ UNCHANGED <<job, table, files>>

-----------------------------------------------------------------------------
(* The options and the configuration come before the files; of its symbols *)
(* the weak ones are left for later.                                       *)

(* Slip: the weak ones too are defined at once. *)
WithWeak == job.defined \union job.weak

DefinedFirst == job.defined

LinkInit ==
  /\ job \in Jobs
  /\ stage = "files" /\ message = "" /\ next = 1
  /\ owner = [n \in Names |-> IF n \in DefinedFirst THEN Linker
                              ELSE IF n \in job.forced THEN Dummy
                              ELSE NoEntry]
  /\ impCount = [n \in Names |-> IF n \in job.forced THEN 1 ELSE 0]
  /\ impOpen = Cardinality(job.forced \ DefinedFirst)
  /\ expCount = Cardinality(job.forced \union DefinedFirst)
  /\ referenced = {} /\ objData = <<>> /\ conDes = {}
  /\ grouping = FALSE /\ openLibs = <<>> /\ libraryList = <<>>
  /\ cursor = [lib |-> 1, mod |-> 1, added |-> FALSE]

NextFile(kind) ==
  /\ stage = "files" /\ next <= Len(job.items) /\ Item(next).kind = kind

(* An object file is linked whether anything asks for it or not.           *)
ObjAdd ==
  /\ NextFile("obj")
  /\ IF Clash(<<next, 1>>)
     THEN DuplicateIdentifier
     ELSE /\ InsertObjGlobals(<<next, 1>>)
          /\ referenced' = referenced \union {<<next, 1>>}
          /\ objData' = Append(objData, <<next, 1>>)
          /\ next' = next + 1
          /\ UNCHANGED <<job, stage, message, grouping, openLibs,
                         libraryList, cursor>>

(* LibResolve, before its first look at the libraries *)
StartSearch ==
  /\ stage' = "search"
  /\ cursor' = [lib |-> 1, mod |-> 1, added |-> FALSE]

(* A library is searched at once, in a group when the group ends.          *)
LibAdd ==
  /\ NextFile("lib")
  /\ openLibs' = Append(openLibs, next)
  /\ next' = next + 1
  /\ IF grouping THEN UNCHANGED <<stage, cursor>> ELSE StartSearch
  /\ UNCHANGED <<job, message, table, referenced, objData, grouping,
                 libraryList>>

LibStartGroup ==
  /\ NextFile("start")
  /\ IF grouping
     THEN Fail("already a group open") /\ UNCHANGED <<grouping, next>>
     ELSE grouping' = TRUE /\ next' = next + 1
          /\ UNCHANGED <<stage, message>>
  /\ UNCHANGED <<job, table, referenced, objData, openLibs, libraryList,
                 cursor>>

LibEndGroup ==
  /\ NextFile("end")
  /\ IF grouping
     THEN StartSearch /\ next' = next + 1 /\ UNCHANGED message
     ELSE Fail("no group open") /\ UNCHANGED <<next, cursor>>
  /\ UNCHANGED <<job, table, referenced, objData, grouping, openLibs,
                 libraryList>>

-----------------------------------------------------------------------------
(* LibResolve looks at the modules of the open libraries, round after      *)
(* round until one adds nothing.                                           *)
AtModule(what) ==
  /\ stage = what /\ cursor.lib <= Len(openLibs)
  /\ cursor.mod <= Len(Item(openLibs[cursor.lib]).modules)

NextIndex(added) == [lib |-> cursor.lib, mod |-> cursor.mod + 1,
                     added |-> cursor.added \/ added]

PastModules(what) ==
  /\ stage = what /\ cursor.lib <= Len(openLibs)
  /\ cursor.mod > Len(Item(openLibs[cursor.lib]).modules)

LibCheckExports ==
  LET id     == <<openLibs[cursor.lib], cursor.mod>>
      needed == /\ id \notin referenced
                /\ \E n \in Exports(Module(id)) : IsUnresolved(n)
  IN  /\ AtModule("search")
      /\ IF needed /\ Clash(id)
         THEN DuplicateIdentifier
         ELSE /\ IF needed
                 THEN /\ referenced' = referenced \union {id}
                      /\ InsertObjGlobals(id)
                 ELSE UNCHANGED <<referenced, table>>
              /\ cursor' = NextIndex(needed)
              /\ UNCHANGED <<job, stage, message, next, objData, grouping,
                             openLibs, libraryList>>

NextLibrary ==
  /\ PastModules("search")
  /\ cursor' = [lib |-> cursor.lib + 1, mod |-> 1, added |-> cursor.added]
  /\ UNCHANGED <<job, stage, message, table, next, referenced, objData,
                 grouping, openLibs, libraryList>>

(* Slip: one round is enough. *)
OneRound ==
  /\ stage = "search" /\ cursor.lib > Len(openLibs)
  /\ stage' = "load"
  /\ cursor' = [lib |-> 1, mod |-> 1, added |-> FALSE]
  /\ UNCHANGED <<job, message, table, next, referenced, objData, grouping,
                 openLibs, libraryList>>

(* Slip: Additions is not cleared for the next round. *)
AdditionsKept ==
  /\ stage = "search" /\ cursor.lib > Len(openLibs)
  /\ stage' = IF cursor.added THEN "search" ELSE "load"
  /\ cursor' = [lib |-> 1, mod |-> 1, added |-> cursor.added]
  /\ UNCHANGED <<job, message, table, next, referenced, objData, grouping,
                 openLibs, libraryList>>

EndOfRound ==
  /\ stage = "search" /\ cursor.lib > Len(openLibs)
  /\ stage' = IF cursor.added THEN "search" ELSE "load"
  /\ cursor' = [lib |-> 1, mod |-> 1, added |-> FALSE]
  /\ UNCHANGED <<job, message, table, next, referenced, objData, grouping,
                 openLibs, libraryList>>

(* Then it reads what the referenced modules hold.  A library that gave    *)
(* none is removed from the list the loop walks through.                   *)
(* Slip: every module of an open library is loaded. *)
AnyModule(id) == TRUE

Used(id) == id \in referenced

LoadModule ==
  LET id == <<openLibs[cursor.lib], cursor.mod>>
  IN  /\ AtModule("load")
      /\ objData' = IF Used(id) THEN Append(objData, id) ELSE objData
      /\ cursor' = NextIndex(Used(id))
      /\ UNCHANGED <<job, stage, message, table, next, referenced, grouping,
                     openLibs, libraryList>>

CloseLibrary ==
  /\ PastModules("load")
  /\ IF cursor.added
     THEN libraryList' = Append(libraryList, openLibs[cursor.lib])
          /\ UNCHANGED openLibs
     ELSE openLibs' = RemoveAt(openLibs, cursor.lib)
          /\ UNCHANGED libraryList
  /\ cursor' = [lib |-> cursor.lib + 1, mod |-> 1, added |-> FALSE]
  /\ UNCHANGED <<job, stage, message, table, next, referenced, objData,
                 grouping>>

(* The end of LibResolve, and of LibEndGroup where that called it *)
Resolved ==
  /\ stage = "load" /\ cursor.lib > Len(openLibs)
  /\ openLibs' = <<>>
  /\ stage' = "files" /\ grouping' = FALSE
  /\ UNCHANGED <<job, message, table, next, referenced, objData,
                 libraryList, cursor>>

-----------------------------------------------------------------------------
(* Once every file is in, main sees whether there is anything to link and  *)
(* no group is left open.                                                  *)
ObjFiles == {i \in 1 .. Len(job.items) : Item(i).kind = "obj"}

CheckFiles ==
  /\ stage = "files" /\ next > Len(job.items)
  /\ IF ObjFiles = {} THEN Fail("no object files to link")
     ELSE IF grouping THEN Fail("group never closed")
     ELSE stage' = "condes" /\ UNCHANGED message
  /\ UNCHANGED <<job, table, files>>

(* The constructor table is made only for a label somebody imports; its    *)
(* length goes to the other symbol.                                        *)
ConDesSymbols ==
  IF IsUnresolved(job.condes.label)
  THEN {job.condes.label, job.condes.count} \ {NoName}
  ELSE {}

ConDesCreate ==
  /\ stage = "condes"
  /\ IF ~job.multdef /\ Duplicates(ConDesSymbols) # {}
     THEN DuplicateIdentifier
     ELSE /\ InsertExports(ConDesSymbols, Linker)
          /\ stage' = "symbols"
          /\ UNCHANGED <<job, message, conDes, files>>

(* A weak symbol is defined where nothing else has defined it.             *)
ProcessSymbols ==
  /\ stage = "symbols"
  /\ InsertExports({n \in job.weak : ~IsDefined(n)}, Linker)
  /\ stage' = "segments"
  /\ UNCHANGED <<job, message, conDes, files>>

LinkNext ==
  \/ ObjAdd \/ LibAdd \/ LibStartGroup \/ LibEndGroup
  \/ LibCheckExports \/ NextLibrary \/ EndOfRound
  \/ LoadModule \/ CloseLibrary \/ Resolved
  \/ CheckFiles \/ ConDesCreate \/ ProcessSymbols

-----------------------------------------------------------------------------
LinkTypeOK ==
  /\ next \in 1 .. Len(job.items) + 1
  /\ owner \in [Names -> {NoEntry, Dummy, Linker} \union referenced]
  /\ impCount \in [Names -> Nat] /\ impOpen \in Nat /\ expCount \in Nat
  /\ \A id \in referenced : id \in Modules(id[1])
  /\ grouping \in BOOLEAN
  /\ ToSet(openLibs) \subseteq 1 .. next - 1
  /\ conDes \subseteq referenced \X Names
  /\ cursor \in [lib : Nat, mod : Nat, added : BOOLEAN]

FilesAreIn == stage \notin {"files", "search", "load", "failed"}

(* InsertImport and InsertExport (exports.c) keep two counters beside the  *)
(* table: ImpOpen, which alone decides whether the unresolved names are    *)
(* looked for, is the number of imports of undefined names, and ExpCount,  *)
(* which CreateExportPool allocates for, the number of entries.            *)
CountersExact ==
  /\ impOpen = OpenIn(owner, impCount)
  /\ expCount = Cardinality({n \in Names : owner[n] # NoEntry})

(* LibCheckExports takes a module out of a library only for a name that    *)
(* was missing: the module's definition stands in the table and somebody   *)
(* imports it.                                                             *)
NeededOnly ==
  \A id \in referenced : Item(id[1]).kind = "lib" =>
    \E n \in Exports(Module(id)) : owner[n] = id /\ impCount[n] > 0

(* The last search of a library is when it is given, or at the end of its  *)
(* group.                                                                  *)
GroupEnds(i)   == {e \in 1 .. Len(job.items) : e > i /\ Item(e).kind = "end"}
InGroup(i)     == \E s \in 1 .. i : /\ Item(s).kind = "start"
                                   /\ \A e \in GroupEnds(s) : e > i
LastSearch(i)  == IF InGroup(i) THEN Min(GroupEnds(i)) ELSE i

(* LibResolve: a name is left undefined though a library on the command    *)
(* line defines it only when all who import it came after that library's   *)
(* last search.                                                            *)
SearchComplete ==
  FilesAreIn =>
    \A n \in Names, i \in 1 .. Len(job.items) :
      (/\ owner[n] = Dummy
       /\ Item(i).kind = "lib"
       /\ \E id \in Modules(i) : n \in Exports(Module(id)))
      => /\ n \notin job.forced
         /\ \A id \in referenced :
              ImportsOf(Module(id), n) > 0 => id[1] > LastSearch(i)

(* A module is in ObjDataList once at most and only if it is referenced    *)
(* (InsertObjData).  One that is referenced and not there belongs to a     *)
(* library that follows, in its group, one that gave nothing.              *)
LoadedOnce ==
  /\ IsInjective(objData)
  /\ ToSet(objData) \subseteq referenced
  /\ FilesAreIn =>
       \A id \in referenced \ ToSet(objData) :
         /\ InGroup(id[1])
         /\ \E p \in 1 .. id[1] - 1 :
              /\ Item(p).kind = "lib" /\ Modules(p) \cap referenced = {}
              /\ \A i \in p + 1 .. id[1] - 1 : Item(i).kind = "obj"

(* LibResolve: "We do know now which modules must be added, so we can load *)
(* the data for these modues into memory" (library.c:373-374).             *)
ReferencedIsLoaded == FilesAreIn => referenced \subseteq ToSet(objData)

(* An import is bound to the first definition of its name (InsertExport),  *)
(* and whatever comes later does not bind it anew.                         *)
OwnerKept ==
  [][\A n \in Names : IsDefined(n) => owner'[n] = owner[n]]_linkVars

(* The value of a weak symbol is used only when no module that is linked   *)
(* defines the name (ProcessSymbols): a library searched later still       *)
(* comes before it.                                                        *)
WeakGivesWay ==
  \A n \in job.weak \ job.defined :
    owner[n] = Linker => \A id \in referenced : n \notin Exports(Module(id))
=============================================================================
