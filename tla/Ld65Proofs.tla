----------------------------- MODULE Ld65Proofs -----------------------------
(***************************************************************************)
(* What holds of the linker whatever the object files, the libraries and   *)
(* the order in which they are given: for every command line and           *)
(* configuration with LinkAssumption.  A name stays with the module it was *)
(* bound to, weak symbols give way to every module that is linked, and a   *)
(* module of a library is linked only for a name that was missing.  The    *)
(* counters kept beside the table are exact, so no output file is written  *)
(* with an import open.  The search of the libraries leaves no name        *)
(* missing that one of them had, and each module is loaded once.           *)
(* Then the addresses, with PlaceAssumption: the two properties are about  *)
(* the linker when it is done with all areas; their invariant says what    *)
(* CfgProcess has reached half way through one, and how the sections lie   *)
(* in their segments before it begins.  Last the output file: what         *)
(* CfgProcess counts and BinWriteMem writes is the same, for areas the two *)
(* passes count alike, and every section is found in the file.  The types  *)
(* are at the end, as they rest on all of it.                              *)
(***************************************************************************)
EXTENDS Ld65, FiniteSetTheorems, SequenceTheorems, WellFoundedInduction,
        TLAPS

-----------------------------------------------------------------------------
(* A set of subsets of S that holds every set whose smaller subsets it     *)
(* holds, holds them all.                                                  *)
LEMMA AllSubsets ==
  ASSUME NEW S, IsFiniteSet(S), NEW P,
         \A s \in SUBSET S :
           (\A t \in SUBSET s : t # s => t \in P) => s \in P
  PROVE  SUBSET S \subseteq P
<1> DEFINE Q == (SUBSET S) \ P
<1>1. SUFFICES ASSUME Q # {}  PROVE FALSE
  OBVIOUS
<1>2. Q \subseteq FiniteSubsetsOf(S)
  BY FS_Subset DEF FiniteSubsetsOf
<1> HIDE DEF Q
<1>3. PICK s \in Q : \A t \in Q : <<t, s>> \notin StrictSubsetOrdering(S)
  BY <1>1, <1>2, FS_StrictSubsetOrderingWellFounded, WFMin
<1> USE DEF Q
<1>4. ASSUME NEW t \in SUBSET s, t # s  PROVE t \in P
  <2>1. <<t, s>> \in StrictSubsetOrdering(S)
    BY <1>4 DEF StrictSubsetOrdering
  <2> QED  BY <1>3, <2>1
<1>5. s \in P
  BY <1>3, <1>4
<1> QED
  BY <1>3, <1>5

(* A set of numbers with an element has a least one.                       *)
LEMMA MinIsLeast ==
  ASSUME NEW S \in SUBSET Nat, S # {}
  PROVE  Min(S) \in S /\ \A x \in S : Min(S) <= x
<1> DEFINE T == {0 .. x : x \in S}
<1>1. T \subseteq FiniteSubsetsOf(Nat)
  <2>1. \A x \in S : 0 .. x \subseteq Nat /\ IsFiniteSet(0 .. x)
    BY FS_Interval
  <2> QED  BY <2>1 DEF FiniteSubsetsOf
<1>2. T # {}
  OBVIOUS
<1>3. PICK t \in T : \A u \in T : <<u, t>> \notin StrictSubsetOrdering(Nat)
  BY <1>1, <1>2, FS_StrictSubsetOrderingWellFounded, WFMin
<1>4. PICK m \in S : t = 0 .. m
  BY <1>3
<1>5. ASSUME NEW x \in S  PROVE m <= x
  <2>1. SUFFICES ASSUME x < m  PROVE FALSE
    OBVIOUS
  <2>2. 0 .. x \subseteq 0 .. m /\ 0 .. x # 0 .. m
    BY <2>1
  <2>3. 0 .. x \in SUBSET Nat /\ 0 .. m \in SUBSET Nat
    OBVIOUS
  <2>4. <<0 .. x, 0 .. m>> \in StrictSubsetOrdering(Nat)
    BY <2>2, <2>3 DEF StrictSubsetOrdering
  <2> QED  BY <1>3, <1>4, <2>4
<1> QED
  BY <1>5 DEF Min

-----------------------------------------------------------------------------
(* The sums of the counters                                                *)
Picked(s) == CHOOSE x \in s : TRUE

Adds(f, S, sum) ==
  sum = [s \in SUBSET S |->
           IF s = {} THEN 0 ELSE f[Picked(s)] + sum[s \ {Picked(s)}]]

SumOf(f, S) == (CHOOSE sum : Adds(f, S, sum))[S]

LEMMA SumsAreSumOf ==
  /\ \A own, count :
       OpenIn(own, count) = SumOf(count, {n \in Names : own[n] = Dummy})
  /\ \A defs :
       ResolvedBy(defs) = SumOf(impCount, {n \in defs : owner[n] = Dummy})
BY DEF OpenIn, ResolvedBy, MapThenSumSet, MapThenFoldSet, SumOf, Adds, Picked

LEMMA SumExists ==
  ASSUME NEW f, NEW S, IsFiniteSet(S)
  PROVE  \E sum : Adds(f, S, sum)
<1> DEFINE Agrees(sum, s) ==
             sum[s] = IF s = {} THEN 0
                      ELSE f[Picked(s)] + sum[s \ {Picked(s)}]
           Upto(sum, n) == \A s \in SUBSET S : Cardinality(s) <= n =>
             Agrees(sum, s)
           Sizes == {n \in Nat : \E sum : Upto(sum, n)}
           Numbers == {T \in SUBSET S : Cardinality(T) \in Sizes}
<1>0. \A s \in SUBSET S : IsFiniteSet(s) /\ Cardinality(s) \in Nat
  BY FS_Subset, FS_CardinalityType
<1>1. \A s \in SUBSET S : s # {} =>
        /\ Picked(s) \in s
        /\ s \ {Picked(s)} \in SUBSET S
        /\ Cardinality(s \ {Picked(s)}) = Cardinality(s) - 1
  BY <1>0, FS_RemoveElement DEF Picked
<1>2. 0 \in Sizes
  <2> DEFINE zero == [s \in SUBSET S |-> 0]
  <2>1. \A s \in SUBSET S : Cardinality(s) <= 0 => s = {}
    BY <1>0, FS_EmptySet
  <2>2. Upto(zero, 0)
    BY <2>1
  <2> QED  BY <2>2
<1>3. ASSUME NEW n \in Sizes  PROVE n + 1 \in Sizes
  <2>1. PICK sum : Upto(sum, n)
    OBVIOUS
  <2> DEFINE more == [s \in SUBSET S |->
               IF Cardinality(s) <= n THEN sum[s]
               ELSE f[Picked(s)] + sum[s \ {Picked(s)}]]
  <2>2. ASSUME NEW s \in SUBSET S, Cardinality(s) <= n + 1
        PROVE  Agrees(more, s)
    <3>1. CASE s = {}
      <4>1. Cardinality(s) <= n
        BY <3>1, FS_EmptySet
      <4> QED  BY <2>1, <3>1, <4>1
    <3>2. CASE s # {}
      <4>1. /\ s \ {Picked(s)} \in SUBSET S
            /\ Cardinality(s \ {Picked(s)}) <= n
        BY <1>0, <1>1, <2>2, <3>2
      <4>2. more[s \ {Picked(s)}] = sum[s \ {Picked(s)}]
        BY <4>1
      <4>3. more[s] = f[Picked(s)] + sum[s \ {Picked(s)}]
        BY <2>1, <3>2
      <4> QED  BY <3>2, <4>2, <4>3
    <3> QED  BY <3>1, <3>2
  <2>3. Upto(more, n + 1)
    BY <2>2
  <2> HIDE DEF more, Upto
  <2> QED  BY <2>3
<1>4. S \in Numbers
  <2> HIDE DEF Sizes
  <2>1. ASSUME NEW s \in SUBSET S,
               \A t \in SUBSET s : t # s => t \in Numbers
        PROVE  s \in Numbers
    <3>1. CASE s = {}
      BY <1>2, <3>1, FS_EmptySet
    <3>2. CASE s # {}
      <4>1. Cardinality(s \ {Picked(s)}) \in Sizes
        BY <1>1, <2>1, <3>2
      <4>2. Cardinality(s) = Cardinality(s \ {Picked(s)}) + 1
        BY <1>0, <1>1, <3>2
      <4> QED  BY <1>3, <4>1, <4>2
    <3> QED  BY <3>1, <3>2
  <2> HIDE DEF Numbers
  <2>2. SUBSET S \subseteq Numbers
    BY <2>1, AllSubsets
  <2> QED  BY <2>2
<1>5. PICK sum : Upto(sum, Cardinality(S))
  BY <1>4
<1>6. \A s \in SUBSET S : Agrees(sum, s)
  BY <1>0, <1>5, FS_Subset
<1> DEFINE g == [s \in SUBSET S |-> sum[s]]
<1>7. Adds(f, S, g)
  BY <1>1, <1>6 DEF Adds
<1> HIDE DEF g
<1> QED
  BY <1>7

(* It does not matter which element is added last.                         *)
LEMMA AnyIsPicked ==
  ASSUME NEW S, IsFiniteSet(S), NEW f, \A x \in S : f[x] \in Nat,
         NEW sum, Adds(f, S, sum)
  PROVE  \A s \in SUBSET S :
           /\ sum[s] \in Nat
           /\ s = {} => sum[s] = 0
           /\ \A x \in s : sum[s] = f[x] + sum[s \ {x}]
<1> DEFINE Good(s) == /\ sum[s] \in Nat
                      /\ s = {} => sum[s] = 0
                      /\ \A x \in s : sum[s] = f[x] + sum[s \ {x}]
           Goods == {s \in SUBSET S : Good(s)}
<1>1. ASSUME NEW s \in SUBSET S, \A t \in SUBSET s : t # s => t \in Goods
      PROVE  s \in Goods
  <2>0. sum[s] = IF s = {} THEN 0 ELSE f[Picked(s)] + sum[s \ {Picked(s)}]
    BY DEF Adds
  <2>1. CASE s = {}
    BY <2>0, <2>1
  <2>2. CASE s # {}
    <3> DEFINE c == Picked(s)
    <3>1. c \in s
      BY <2>2 DEF Picked
    <3> HIDE DEF c
    <3>2. sum[s] = f[c] + sum[s \ {c}]
      BY <2>0, <2>2 DEF c
    <3>3. s \ {c} \in Goods
      BY <1>1, <3>1
    <3>4. sum[s] \in Nat
      BY <3>1, <3>2, <3>3
    <3>5. ASSUME NEW x \in s, x # c  PROVE sum[s] = f[x] + sum[s \ {x}]
      <4>1. s \ {x} \in Goods
        BY <1>1
      <4>2. sum[s \ {x}] = f[c] + sum[(s \ {x}) \ {c}]
        BY <3>1, <3>5, <4>1
      <4>3. sum[s \ {c}] = f[x] + sum[(s \ {c}) \ {x}]
        BY <3>3, <3>5
      <4>4. (s \ {x}) \ {c} = (s \ {c}) \ {x}
        OBVIOUS
      <4>5. sum[(s \ {c}) \ {x}] \in Nat
        <5>1. (s \ {c}) \ {x} \in Goods
          BY <1>1, <3>1
        <5> QED  BY <5>1
      <4> DEFINE rest == sum[(s \ {c}) \ {x}]
      <4>6. f[x] \in Nat /\ f[c] \in Nat /\ rest \in Nat
        BY <3>1, <4>5
      <4>7. sum[s] = f[c] + (f[x] + rest)
        BY <3>2, <4>3
      <4>8. sum[s \ {x}] = f[c] + rest
        BY <4>2, <4>4
      <4> HIDE DEF rest
      <4> QED
        BY <4>6, <4>7, <4>8
    <3> QED
      BY <2>2, <3>2, <3>4, <3>5
  <2> QED  BY <2>1, <2>2
<1> HIDE DEF Goods
<1>2. SUBSET S \subseteq Goods
  BY <1>1, AllSubsets
<1> QED
  BY <1>2 DEF Goods

(* A sum is that of its terms, whatever else its function has.             *)
LEMMA OneSum ==
  ASSUME NEW S, IsFiniteSet(S), NEW T \in SUBSET S,
         NEW f, \A x \in S : f[x] \in Nat,
         NEW g, \A x \in T : g[x] = f[x],
         NEW sum, Adds(f, S, sum), NEW part, Adds(g, T, part)
  PROVE  sum[T] = part[T]
<1> DEFINE Same == {s \in SUBSET T : sum[s] = part[s]}
<1>0. IsFiniteSet(T)
  BY FS_Subset
<1>1. ASSUME NEW s \in SUBSET T, \A t \in SUBSET s : t # s => t \in Same
      PROVE  s \in Same
  <2>1. CASE s = {}
    BY <2>1 DEF Adds
  <2>2. CASE s # {}
    <3>1. PICK x \in s : TRUE
      BY <2>2
    <3>2. s \ {x} \in Same
      BY <1>1
    <3>3. sum[s] = f[x] + sum[s \ {x}]
      BY AnyIsPicked
    <3>4. part[s] = g[x] + part[s \ {x}]
      BY <1>0, AnyIsPicked
    <3> QED  BY <3>2, <3>3, <3>4
  <2> QED  BY <2>1, <2>2
<1> HIDE DEF Same
<1>2. SUBSET T \subseteq Same
  BY <1>0, <1>1, AllSubsets
<1> QED
  BY <1>2 DEF Same

LEMMA SumChosen ==
  ASSUME NEW f, NEW S, IsFiniteSet(S)
  PROVE  \E sum : Adds(f, S, sum) /\ SumOf(f, S) = sum[S]
BY SumExists DEF SumOf

LEMMA SumSame ==
  ASSUME NEW S, IsFiniteSet(S), NEW f, \A x \in S : f[x] \in Nat,
         NEW g, \A x \in S : g[x] = f[x]
  PROVE  SumOf(g, S) = SumOf(f, S)
<1>1. PICK sum : Adds(f, S, sum) /\ SumOf(f, S) = sum[S]
  BY SumChosen
<1>2. PICK part : Adds(g, S, part) /\ SumOf(g, S) = part[S]
  BY SumChosen
<1>3. sum[S] = part[S]
  BY <1>1, <1>2, OneSum
<1> QED
  BY <1>1, <1>2, <1>3

LEMMA SumIsNat ==
  ASSUME NEW S, IsFiniteSet(S), NEW f, \A x \in S : f[x] \in Nat
  PROVE  SumOf(f, S) \in Nat
BY SumChosen, AnyIsPicked

LEMMA SumEmpty ==
  ASSUME NEW f
  PROVE  SumOf(f, {}) = 0
<1>1. PICK sum : Adds(f, {}, sum) /\ SumOf(f, {}) = sum[{}]
  BY SumChosen, FS_EmptySet
<1>2. {} \in SUBSET {}
  OBVIOUS
<1> QED
  BY <1>1, <1>2 DEF Adds

LEMMA SumWithout ==
  ASSUME NEW S, IsFiniteSet(S), NEW f, \A x \in S : f[x] \in Nat, NEW x \in S
  PROVE  SumOf(f, S) = f[x] + SumOf(f, S \ {x})
<1>1. PICK sum : Adds(f, S, sum) /\ SumOf(f, S) = sum[S]
  BY SumChosen
<1>2. IsFiniteSet(S \ {x})
  BY FS_Subset
<1>3. PICK part : /\ Adds(f, S \ {x}, part)
                  /\ SumOf(f, S \ {x}) = part[S \ {x}]
  BY <1>2, SumChosen
<1>4. sum[S \ {x}] = part[S \ {x}]
  BY <1>1, <1>3, OneSum
<1> QED
  BY <1>1, <1>3, <1>4, AnyIsPicked

(* Sums of two sets, and of two functions                                  *)
LEMMA SumUnion ==
  ASSUME NEW S, IsFiniteSet(S), NEW T, S \cap T = {}, IsFiniteSet(T),
         NEW f, \A x \in S \union T : f[x] \in Nat
  PROVE  SumOf(f, S \union T) = SumOf(f, S) + SumOf(f, T)
<1> DEFINE Sums == {s \in SUBSET S :
                      SumOf(f, s \union T) = SumOf(f, s) + SumOf(f, T)}
<1>0. SumOf(f, T) \in Nat
  BY SumIsNat
<1>1. ASSUME NEW s \in SUBSET S, \A t \in SUBSET s : t # s => t \in Sums
      PROVE  s \in Sums
  <2>0. IsFiniteSet(s) /\ IsFiniteSet(s \union T)
    BY FS_Subset, FS_Union
  <2>1. CASE s = {}
    <3>1. s \union T = T
      BY <2>1
    <3>2. SumOf(f, s) = 0
      BY <2>1, SumEmpty
    <3> QED  BY <1>0, <3>1, <3>2
  <2>2. CASE s # {}
    <3>1. PICK x \in s : TRUE
      BY <2>2
    <3>2. s \ {x} \in Sums
      BY <1>1
    <3>3. SumOf(f, s) = f[x] + SumOf(f, s \ {x})
      BY <2>0, SumWithout
    <3>4. SumOf(f, s \union T) = f[x] + SumOf(f, (s \union T) \ {x})
      BY <2>0, SumWithout
    <3>5. (s \union T) \ {x} = (s \ {x}) \union T
      OBVIOUS
    <3>6. SumOf(f, s \ {x}) \in Nat
      BY <2>0, FS_Subset, SumIsNat
    <3>7. /\ SumOf(f, (s \ {x}) \union T) = SumOf(f, s \ {x}) + SumOf(f, T)
          /\ f[x] \in Nat
      BY <3>2
    <3>8. SumOf(f, s \union T) = f[x] + (SumOf(f, s \ {x}) + SumOf(f, T))
      BY <3>4, <3>5, <3>7
    <3>9. SumOf(f, s \union T) = SumOf(f, s) + SumOf(f, T)
      BY <1>0, <3>3, <3>6, <3>7, <3>8
    <3> QED  BY <3>9
  <2> QED  BY <2>1, <2>2
<1> HIDE DEF Sums
<1>2. SUBSET S \subseteq Sums
  BY <1>1, AllSubsets
<1> QED
  BY <1>2 DEF Sums

LEMMA SumOfBoth ==
  ASSUME NEW S, IsFiniteSet(S),
         NEW f, NEW g, NEW h,
         \A x \in S : f[x] \in Nat /\ g[x] \in Nat /\ h[x] = f[x] + g[x]
  PROVE  SumOf(h, S) = SumOf(f, S) + SumOf(g, S)
<1> DEFINE Sums == {s \in SUBSET S : SumOf(h, s) = SumOf(f, s) + SumOf(g, s)}
<1>1. ASSUME NEW s \in SUBSET S, \A t \in SUBSET s : t # s => t \in Sums
      PROVE  s \in Sums
  <2>0. IsFiniteSet(s)
    BY FS_Subset
  <2>1. CASE s = {}
    BY <2>1, SumEmpty
  <2>2. CASE s # {}
    <3>1. PICK x \in s : TRUE
      BY <2>2
    <3>2. s \ {x} \in Sums
      BY <1>1
    <3>3. SumOf(f, s) = f[x] + SumOf(f, s \ {x})
      BY <2>0, SumWithout
    <3>4. SumOf(g, s) = g[x] + SumOf(g, s \ {x})
      BY <2>0, SumWithout
    <3>5. SumOf(h, s) = h[x] + SumOf(h, s \ {x})
      BY <2>0, SumWithout
    <3>6. SumOf(f, s \ {x}) \in Nat /\ SumOf(g, s \ {x}) \in Nat
      BY <2>0, FS_Subset, SumIsNat
    <3> QED  BY <3>2, <3>3, <3>4, <3>5, <3>6
  <2> QED  BY <2>1, <2>2
<1> HIDE DEF Sums
<1>2. SUBSET S \subseteq Sums
  BY <1>1, AllSubsets
<1> QED
  BY <1>2 DEF Sums

LEMMA SumOfOnes ==
  ASSUME NEW S, IsFiniteSet(S), NEW f, \A x \in S : f[x] = 1
  PROVE  SumOf(f, S) = Cardinality(S)
<1> DEFINE Sums == {s \in SUBSET S : SumOf(f, s) = Cardinality(s)}
<1>1. ASSUME NEW s \in SUBSET S, \A t \in SUBSET s : t # s => t \in Sums
      PROVE  s \in Sums
  <2>0. IsFiniteSet(s) /\ Cardinality(s) \in Nat
    BY FS_Subset, FS_CardinalityType
  <2>1. CASE s = {}
    BY <2>1, SumEmpty, FS_EmptySet
  <2>2. CASE s # {}
    <3>1. PICK x \in s : TRUE
      BY <2>2
    <3>2. s \ {x} \in Sums
      BY <1>1
    <3>3. SumOf(f, s) = f[x] + SumOf(f, s \ {x})
      BY <2>0, SumWithout
    <3>4. Cardinality(s \ {x}) = Cardinality(s) - 1
      BY <2>0, FS_RemoveElement
    <3> QED  BY <2>0, <3>2, <3>3, <3>4
  <2> QED  BY <2>1, <2>2
<1> HIDE DEF Sums
<1>2. SUBSET S \subseteq Sums
  BY <1>1, AllSubsets
<1> QED
  BY <1>2 DEF Sums

LEMMA SumOfZeros ==
  ASSUME NEW S, IsFiniteSet(S), NEW f, \A x \in S : f[x] = 0
  PROVE  SumOf(f, S) = 0
<1> DEFINE Sums == {s \in SUBSET S : SumOf(f, s) = 0}
<1>1. ASSUME NEW s \in SUBSET S, \A t \in SUBSET s : t # s => t \in Sums
      PROVE  s \in Sums
  <2>1. CASE s = {}
    BY <2>1, SumEmpty
  <2>2. CASE s # {}
    <3>1. PICK x \in s : TRUE
      BY <2>2
    <3>2. s \ {x} \in Sums
      BY <1>1
    <3>3. SumOf(f, s) = f[x] + SumOf(f, s \ {x})
      BY FS_Subset, SumWithout
    <3> QED  BY <3>2, <3>3
  <2> QED  BY <2>1, <2>2
<1> HIDE DEF Sums
<1>2. SUBSET S \subseteq Sums
  BY <1>1, AllSubsets
<1> QED
  BY <1>2 DEF Sums

LEMMA CardinalityOfBoth ==
  ASSUME NEW S, IsFiniteSet(S), NEW T, IsFiniteSet(T), S \cap T = {}
  PROVE  Cardinality(S \union T) = Cardinality(S) + Cardinality(T)
<1>1. /\ Cardinality(S) \in Nat /\ Cardinality(T) \in Nat
      /\ Cardinality(S \cap T) = 0
  BY FS_CardinalityType, FS_EmptySet
<1>2. Cardinality(S \union T)
        = Cardinality(S) + Cardinality(T) - Cardinality(S \cap T)
  BY FS_Union
<1> QED
  BY <1>1, <1>2

-----------------------------------------------------------------------------
(* The places in the files are those of modules, and the lists that are    *)
(* walked through begin with the first.                                    *)
PlacesOK ==
  /\ job \in Jobs
  /\ next \in Nat \ {0}
  /\ openLibs \in Seq(1 .. Len(job.items))
  /\ cursor.lib \in Nat \ {0} /\ cursor.mod \in Nat \ {0}
  /\ walk.list \in Nat \ {0}

LEMMA PlacesInit == LinkInit /\ PlaceInit => PlacesOK
<1> SUFFICES ASSUME LinkInit, PlaceInit  PROVE PlacesOK
  OBVIOUS
<1>1. job \in Jobs /\ next = 1 /\ openLibs = <<>>
  BY DEF LinkInit
<1>2. cursor.lib = 1 /\ cursor.mod = 1
  BY DEF LinkInit
<1>3. <<>> \in Seq(1 .. Len(job.items))
  BY EmptySeq
<1>4. walk.list = 1
  BY DEF PlaceInit, WalkAt
<1> QED
  BY <1>1, <1>2, <1>3, <1>4 DEF PlacesOK

LEMMA RemovedStaysSeq ==
  ASSUME NEW S, NEW s \in Seq(S), NEW i \in 1 .. Len(s)
  PROVE  RemoveAt(s, i) \in Seq(S)
<1>1. Len(s) \in Nat /\ \A k \in 1 .. Len(s) : s[k] \in S
  BY ElementOfSeq, LenProperties
<1>2. SubSeq(s, 1, i - 1) \in Seq(S)
  <2>1. \A k \in 1 .. i - 1 : s[k] \in S
    BY <1>1
  <2> QED  BY <1>1, <2>1, SubSeqProperties
<1>3. SubSeq(s, i + 1, Len(s)) \in Seq(S)
  <2>1. \A k \in i + 1 .. Len(s) : s[k] \in S
    BY <1>1
  <2> QED  BY <1>1, <2>1, SubSeqProperties
<1> QED
  BY <1>2, <1>3, ConcatProperties DEF RemoveAt

LEMMA PlacesStep ==
  ASSUME PlacesOK, [Next]_vars
  PROVE  PlacesOK'
<1> USE DEF table, files, linkVars, placeVars
<1>a. ASSUME UNCHANGED <<job, openLibs, cursor>>, next' \in {next, next + 1},
             walk'.list \in {walk.list, walk.list + 1, 1}
      PROVE  PlacesOK'
  BY <1>a DEF PlacesOK
<1>b. ASSUME UNCHANGED <<job, next, walk>>, openLibs' \in {openLibs, <<>>},
             cursor'.lib \in {cursor.lib, cursor.lib + 1, 1},
             cursor'.mod \in {cursor.mod, cursor.mod + 1, 1}
      PROVE  PlacesOK'
  <2>1. openLibs' \in Seq(1 .. Len(job.items))
    BY <1>b, EmptySeq DEF PlacesOK
  <2> QED
    BY <1>b, <2>1 DEF PlacesOK
<1>0. CASE LinkNext /\ UNCHANGED placeVars
  <2>0. walk' = walk
    BY <1>0
  <2>1. CASE ObjAdd
    <3>1. UNCHANGED <<job, openLibs, cursor>> /\ next' \in {next, next + 1}
      BY <2>1 DEF ObjAdd, DuplicateIdentifier
    <3> QED  BY <2>0, <3>1, <1>a
  <2>2. CASE LibAdd
    <3>0. Len(job.items) \in Nat
      BY LinkAssumption DEF PlacesOK
    <3>1. next \in 1 .. Len(job.items)
      BY <2>2, <3>0 DEF LibAdd, NextFile, PlacesOK
    <3>2. openLibs' \in Seq(1 .. Len(job.items))
      BY <2>2, <3>1, AppendProperties DEF LibAdd, PlacesOK
    <3> QED
      BY <2>0, <2>2, <3>2 DEF LibAdd, StartSearch, PlacesOK
  <2>3. CASE LibStartGroup \/ LibEndGroup
    <3>1. CASE cursor' = cursor
      <4>1. UNCHANGED <<job, openLibs>> /\ next' \in {next, next + 1}
        BY <2>3 DEF LibStartGroup, LibEndGroup
      <4> QED  BY <2>0, <3>1, <4>1, <1>a
    <3>2. CASE StartSearch
      <4>1. UNCHANGED <<job, openLibs>> /\ next' = next + 1
        BY <2>3, <3>2 DEF LibStartGroup, LibEndGroup, StartSearch, Fail
      <4> QED  BY <2>0, <3>2, <4>1 DEF PlacesOK, StartSearch
    <3> QED
      BY <2>3, <3>1, <3>2 DEF LibStartGroup, LibEndGroup
  <2>4. CASE LibCheckExports
    <3>1. UNCHANGED <<job, next, openLibs>>
      BY <2>4 DEF LibCheckExports, DuplicateIdentifier
    <3>2. \/ cursor' = cursor
          \/ \E added : cursor' = NextIndex(added)
      BY <2>4 DEF LibCheckExports, DuplicateIdentifier
    <3> QED  BY <2>0, <3>1, <3>2, <1>b DEF NextIndex
  <2>5. CASE NextLibrary \/ EndOfRound \/ LoadModule \/ Resolved
    <3>1. UNCHANGED <<job, next>> /\ openLibs' \in {openLibs, <<>>}
      BY <2>5 DEF NextLibrary, EndOfRound, LoadModule, Resolved
    <3>2. \/ cursor' = cursor
          \/ \E added : cursor' = NextIndex(added)
          \/ \E added : \E l \in {cursor.lib + 1, 1} :
                cursor' = [lib |-> l, mod |-> 1, added |-> added]
      BY <2>5 DEF NextLibrary, EndOfRound, LoadModule, Resolved
    <3> QED  BY <2>0, <3>1, <3>2, <1>b DEF NextIndex
  <2>6. CASE CloseLibrary
    <3>0. Len(openLibs) \in Nat
      BY LenProperties DEF PlacesOK
    <3>1. cursor.lib \in 1 .. Len(openLibs)
      BY <2>6, <3>0 DEF CloseLibrary, PastModules, PlacesOK
    <3>2. openLibs' \in Seq(1 .. Len(job.items))
      BY <2>6, <3>1, RemovedStaysSeq DEF CloseLibrary, PlacesOK
    <3>3. /\ UNCHANGED <<job, next>>
          /\ cursor' = [lib |-> cursor.lib + 1, mod |-> 1, added |-> FALSE]
      BY <2>6 DEF CloseLibrary
    <3> QED  BY <2>0, <3>2, <3>3 DEF PlacesOK
  <2>7. CASE CheckFiles \/ ConDesCreate \/ ProcessSymbols
    <3>1. UNCHANGED <<job, next, openLibs, cursor>>
      BY <2>7 DEF CheckFiles, ConDesCreate, ProcessSymbols,
                  DuplicateIdentifier
    <3> QED  BY <2>0, <3>1, <1>a
  <2> QED
    BY <1>0, <2>1, <2>2, <2>3, <2>4, <2>5, <2>6, <2>7 DEF LinkNext
<1>1. CASE ReadSection \/ NextModule \/ ProcessSegments \/ StartArea
             \/ PlaceSegment \/ EndArea \/ OpenTarget
  <2>1. UNCHANGED <<job, next, openLibs, cursor>>
    <3>1. CASE ReadSection \/ NextModule \/ ProcessSegments \/ OpenTarget
      BY <3>1, Zenon DEF ReadSection, NextModule, ProcessSegments, OpenTarget
    <3>2. CASE StartArea \/ PlaceSegment \/ EndArea
      BY <3>2, Zenon DEF StartArea, PlaceSegment, EndArea, DuplicateIdentifier
    <3> QED  BY <1>1, <3>1, <3>2
  <2>2. \/ walk' = walk
        \/ \E l \in {walk.list, walk.list + 1, 1} : \E i : walk' = WalkAt(l, i)
        \/ \E a : walk' = FirstItem(a)
        \/ \E a, o : walk' = NextItem(a, o)
    BY <1>1, Zenon
    DEF ReadSection, NextModule, ProcessSegments, StartArea, PlaceSegment,
        EndArea, OpenTarget
  <2> QED  BY <2>1, <2>2, <1>a DEF WalkAt, FirstItem, NextItem
<1>2. CASE StartWriting \/ WriteSegment \/ EndWriting \/ CheckSegments
             \/ Ended \/ UNCHANGED vars
  <2>1. UNCHANGED <<job, next, openLibs, cursor>>
    BY <1>2 DEF StartWriting, WriteSegment, EndWriting, CheckSegments, Ended,
                vars
  <2>2. \/ walk' = walk
        \/ \E l \in {walk.list, walk.list + 1, 1} : \E i : walk' = WalkAt(l, i)
        \/ \E a : walk' = FirstItem(a)
        \/ \E a, o : walk' = NextItem(a, o)
    BY <1>2 DEF StartWriting, WriteSegment, EndWriting, CheckSegments, Ended,
                vars
  <2> QED  BY <2>1, <2>2, <1>a DEF WalkAt, FirstItem, NextItem
<1> QED
  BY <1>0, <1>1, <1>2 DEF Next

-----------------------------------------------------------------------------
(* A definition that is in the table stays, whatever is defined or         *)
(* imported after it (InsertExport, InsertImport).                         *)
LEMMA ClaimKeeps ==
  ASSUME NEW defs, NEW id, NEW n \in Names, IsDefined(n)
  PROVE  Claimed(defs, id)[n] = owner[n]
BY DEF Claimed

LEMMA CountKeeps ==
  ASSUME NEW own, NEW uses, NEW n \in Names, own[n] # NoEntry
  PROVE  Counted(own, uses)[n] = own[n]
BY DEF Counted

-----------------------------------------------------------------------------
(* What a step does to the table and to the modules that are referenced:   *)
(* nothing, or it takes in a module, or the linker defines names of its    *)
(* own, which it does when all modules are in.                             *)
Early == {"files", "search", "load", "condes"}

Stays ==
  /\ UNCHANGED <<table, referenced, job>>
  /\ stage' \in Early => stage \in Early

TakesIn(id) ==
  /\ stage \in Early
  /\ InsertObjGlobals(id)
  /\ referenced' = referenced \union {id}
  /\ UNCHANGED job
  /\ \/ id = <<next, 1>> /\ NextFile("obj")
     \/ /\ AtModule("search") /\ id = <<openLibs[cursor.lib], cursor.mod>>
        /\ \E n \in Exports(Module(id)) : IsUnresolved(n)

Defines(names) ==
  /\ stage' \notin Early
  /\ names \subseteq Names
  /\ InsertExports(names, Linker)
  /\ UNCHANGED <<conDes, referenced, job>>

LEMMA TableSteps ==
  ASSUME PlacesOK, [Next]_vars
  PROVE  Stays \/ (\E id : TakesIn(id)) \/ (\E names : Defines(names))
<1> USE DEF Early, table, files, linkVars
<1>1. CASE ObjAdd
  <2>1. CASE Clash(<<next, 1>>)
    BY <1>1, <2>1 DEF ObjAdd, DuplicateIdentifier, Fail, Stays
  <2>2. CASE ~Clash(<<next, 1>>)
    <3>1. TakesIn(<<next, 1>>)
      BY <1>1, <2>2 DEF ObjAdd, NextFile, TakesIn
    <3> QED  BY <3>1
  <2> QED  BY <2>1, <2>2
<1>2. CASE LibAdd \/ LibStartGroup \/ LibEndGroup
  BY <1>2 DEF LibAdd, LibStartGroup, LibEndGroup, NextFile, Fail, StartSearch,
              Stays
<1>3. CASE LibCheckExports
  <2> DEFINE id == <<openLibs[cursor.lib], cursor.mod>>
             needed == /\ id \notin referenced
                       /\ \E n \in Exports(Module(id)) : IsUnresolved(n)
  <2>1. CASE needed /\ ~Clash(id)
    <3>1. TakesIn(id)
      BY <1>3, <2>1 DEF LibCheckExports, AtModule, TakesIn
    <3> QED  BY <3>1
  <2>2. CASE ~(needed /\ ~Clash(id))
    BY <1>3, <2>2 DEF LibCheckExports, DuplicateIdentifier, Fail, Stays
  <2> QED  BY <2>1, <2>2
<1>4. CASE NextLibrary \/ EndOfRound \/ LoadModule \/ CloseLibrary \/ Resolved
  BY <1>4 DEF NextLibrary, EndOfRound, LoadModule, CloseLibrary, Resolved,
              AtModule, PastModules, Stays
<1>5. CASE CheckFiles
  BY <1>5 DEF CheckFiles, Fail, Stays
<1>6. CASE ConDesCreate
  <2>1. ConDesSymbols \subseteq Names
    BY LinkAssumption DEF PlacesOK, ConDesSymbols
  <2>2. Stays \/ Defines(ConDesSymbols)
    BY <1>6, <2>1 DEF ConDesCreate, DuplicateIdentifier, Fail, Stays, Defines
  <2> QED  BY <2>2
<1>7. CASE ProcessSymbols
  <2> DEFINE names == {n \in job.weak : ~IsDefined(n)}
  <2>1. names \subseteq Names
    BY LinkAssumption DEF PlacesOK
  <2> HIDE DEF names
  <2>2. Defines(names)
    BY <1>7, <2>1 DEF ProcessSymbols, Defines, names
  <2> QED  BY <2>2
<1>8. CASE ReadSection \/ NextModule \/ ProcessSegments \/ StartArea
             \/ OpenTarget
  BY <1>8 DEF ReadSection, NextModule, ProcessSegments, StartArea, OpenTarget,
              Begins, Past, Fail, Stays
<1>9. CASE PlaceSegment
  <2> DEFINE names == SymbolsOf(job.segs[walk.item], walk.list)
  <2>1. walk.item \in 1 .. Len(job.segs)
    BY <1>9, PlaceAssumption DEF PlaceSegment, InList, SegList, PlacesOK
  <2>2. names \subseteq Names
    BY <2>1, PlaceAssumption DEF PlacesOK, SymbolsOf
  <2> HIDE DEF names
  <2>3. Stays \/ Defines(names)
    BY <1>9, <2>2 DEF PlaceSegment, InList, Fail, Stays, Defines, names
  <2> QED  BY <2>3
<1>10. CASE EndArea
  <2>1. walk.list \in 1 .. Len(job.areas)
    BY <1>10, PlaceAssumption DEF EndArea, Ends, PlacesOK
  <2>2. Area(walk.list).names \subseteq Names
    BY <2>1, PlaceAssumption DEF PlacesOK, Area
  <2>3. Stays \/ Defines(Area(walk.list).names)
    BY <1>10, <2>2 DEF EndArea, Ends, DuplicateIdentifier, Fail, Stays,
                       Defines
  <2> QED  BY <2>3
<1>11. CASE StartWriting \/ WriteSegment \/ EndWriting \/ CheckSegments
  BY <1>11 DEF StartWriting, WriteSegment, EndWriting, CheckSegments, Begins,
               InList, Ends, Past, Fail, Stays
<1>12. CASE Ended \/ UNCHANGED vars
  BY <1>12 DEF Ended, vars, Stays
<1> QED
  BY <1>1, <1>2, <1>3, <1>4, <1>5, <1>6, <1>7, <1>8, <1>9, <1>10, <1>11,
     <1>12 DEF Next, LinkNext

-----------------------------------------------------------------------------
(* OwnerKept, for every set of jobs: a step that leaves a defined name     *)
(* with another owner is none of the linker's.                             *)
LEMMA TakesInKeeps ==
  ASSUME NEW id, InsertObjGlobals(id), NEW n \in Names, IsDefined(n)
  PROVE  owner'[n] = owner[n]
<1> DEFINE own  == Claimed(Exports(Module(id)), id)
           uses == [k \in Names |-> ImportsOf(Module(id), k)]
<1>1. owner' = Counted(own, uses)
  BY DEF InsertObjGlobals
<1>2. own[n] = owner[n]
  BY ClaimKeeps
<1>3. own[n] # NoEntry
  BY <1>2 DEF IsDefined
<1> HIDE DEF own, uses
<1> QED
  BY <1>1, <1>2, <1>3, CountKeeps

LEMMA OwnerStep ==
  ASSUME PlacesOK, [Next]_vars, NEW n \in Names, IsDefined(n)
  PROVE  owner'[n] = owner[n]
<1>1. CASE Stays
  BY <1>1 DEF Stays, table
<1>2. ASSUME NEW id, TakesIn(id)  PROVE owner'[n] = owner[n]
  BY <1>2, TakesInKeeps DEF TakesIn
<1>3. ASSUME NEW names, Defines(names)  PROVE owner'[n] = owner[n]
  BY <1>3, ClaimKeeps DEF Defines, InsertExports
<1> QED
  BY <1>1, <1>2, <1>3, TableSteps

(* An import stays bound to the first definition of its name: no file that *)
(* comes later, no search of a library and no symbol of the linker's own   *)
(* binds it anew (InsertExport).                                           *)
THEOREM OwnerKeptAlways == Spec => OwnerKept
<1>1. LinkInit /\ PlaceInit => PlacesOK
  BY PlacesInit
<1>2. PlacesOK /\ [Next]_vars => PlacesOK'
  BY PlacesStep
<1>3. PlacesOK /\ [Next]_vars =>
        [\A n \in Names : IsDefined(n) => owner'[n] = owner[n]]_linkVars
  BY OwnerStep
<1> QED
  BY <1>1, <1>2, <1>3, PTL DEF Spec, Init, OwnerKept

-----------------------------------------------------------------------------
(* NeededOnly and WeakGivesWay are not inductive.  What they need besides: *)
(* a dummy is there because of an import; what a module in the link        *)
(* exports is defined; and until all modules are in, the linker itself has *)
(* defined nothing but what the configuration says.                        *)
DummiesImported ==
  \A n \in Names : /\ impCount[n] \in Nat
                   /\ owner[n] = Dummy => impCount[n] > 0

ExportsDefined ==
  \A id \in referenced : /\ id[1] # 0
                         /\ Exports(Module(id)) \subseteq Names
                         /\ \A n \in Exports(Module(id)) : IsDefined(n)

LinkerWaits ==
  stage \in Early => \A n \in Names : owner[n] = Linker => n \in job.defined

TableInv ==
  /\ PlacesOK
  /\ DummiesImported /\ ExportsDefined /\ LinkerWaits
  /\ NeededOnly /\ WeakGivesWay

LEMMA TableInit == LinkInit /\ PlaceInit => TableInv
<1> SUFFICES ASSUME LinkInit, PlaceInit  PROVE TableInv
  OBVIOUS
<1>1. /\ owner = [n \in Names |-> IF n \in DefinedFirst THEN Linker
                                  ELSE IF n \in job.forced THEN Dummy
                                  ELSE NoEntry]
      /\ impCount = [n \in Names |-> IF n \in job.forced THEN 1 ELSE 0]
      /\ referenced = {}
  BY DEF LinkInit
<1>2. DummiesImported
  BY <1>1 DEF DummiesImported, Dummy, Linker, NoEntry
<1>3. LinkerWaits
  BY <1>1 DEF LinkerWaits, Dummy, Linker, NoEntry, DefinedFirst
<1>4. ExportsDefined /\ NeededOnly /\ WeakGivesWay
  BY <1>1 DEF ExportsDefined, NeededOnly, WeakGivesWay
<1> QED
  BY <1>2, <1>3, <1>4, PlacesInit DEF TableInv

LEMMA ImportsAreNat ==
  ASSUME NEW mod, DOMAIN mod.exports \subseteq Names, NEW n
  PROVE  ImportsOf(mod, n) \in Nat
<1>1. IsFiniteSet(ConDesOf(mod))
  <2>1. ConDesOf(mod) \subseteq Names
    BY DEF ConDesOf, Exports
  <2> QED  BY <2>1, LinkAssumption, FS_Subset
<1> QED
  BY <1>1, FS_CardinalityType DEF ImportsOf

(* The module a step takes in is one of the files, and one of a library    *)
(* only if it defines a name that was missing.                             *)
LEMMA TakenInModule ==
  ASSUME PlacesOK, NEW id, TakesIn(id)
  PROVE  /\ id[1] # 0
         /\ Exports(Module(id)) \subseteq Names
         /\ Item(id[1]).kind = "lib" =>
              \E n \in Exports(Module(id)) : IsUnresolved(n)
<1>0. Len(job.items) \in Nat /\ job \in Jobs
  BY LinkAssumption DEF PlacesOK
<1>1. ASSUME NEW i \in 1 .. Len(job.items),
             NEW k \in 1 .. Len(Item(i).modules)
      PROVE  Exports(Module(<<i, k>>)) \subseteq Names
  BY <1>0, <1>1, LinkAssumption DEF Exports, Module, Item
<1>2. CASE id = <<next, 1>> /\ NextFile("obj")
  <2>1. next \in 1 .. Len(job.items) /\ Item(next).kind = "obj"
    BY <1>0, <1>2 DEF NextFile, PlacesOK
  <2>2. 1 \in 1 .. Len(Item(next).modules)
    <3>1. Len(Item(next).modules) = 1
      BY <1>0, <2>1, LinkAssumption DEF Item
    <3> QED  BY <3>1
  <2> QED
    BY <1>1, <1>2, <2>1, <2>2
<1>3. CASE /\ AtModule("search") /\ id = <<openLibs[cursor.lib], cursor.mod>>
           /\ \E n \in Exports(Module(id)) : IsUnresolved(n)
  <2>0. Len(openLibs) \in Nat
    BY LenProperties DEF PlacesOK
  <2>1. cursor.lib \in 1 .. Len(openLibs)
    BY <1>3, <2>0 DEF AtModule, PlacesOK
  <2>2. openLibs[cursor.lib] \in 1 .. Len(job.items)
    BY <2>1, ElementOfSeq DEF PlacesOK
  <2>3. Len(Item(openLibs[cursor.lib]).modules) \in Nat
    BY <1>0, <2>2, LinkAssumption DEF Item
  <2>4. cursor.mod \in 1 .. Len(Item(openLibs[cursor.lib]).modules)
    BY <1>3, <2>3 DEF AtModule, PlacesOK
  <2> QED
    BY <1>1, <1>3, <2>2, <2>4
<1> QED
  BY <1>2, <1>3 DEF TakesIn

(* What is in the table after a module is taken in: its own definitions of *)
(* what nobody has defined, and dummies for what else it imports.          *)
LEMMA TakenInTable ==
  ASSUME TableInv, NEW id, TakesIn(id)
  PROVE  /\ id \notin {NoEntry, Dummy, Linker}
         /\ Exports(Module(id)) \subseteq Names
         /\ \A n \in Names :
              /\ ImportsOf(Module(id), n) \in Nat
              /\ impCount'[n] = impCount[n] + ImportsOf(Module(id), n)
              /\ owner'[n] =
                   IF IsDefined(n) THEN owner[n]
                   ELSE IF n \in Exports(Module(id)) THEN id
                   ELSE IF owner[n] = NoEntry /\ ImportsOf(Module(id), n) = 0
                   THEN NoEntry ELSE Dummy
<1> DEFINE defs == Exports(Module(id))
           uses == [k \in Names |-> ImportsOf(Module(id), k)]
           own  == Claimed(defs, id)
<1>1. /\ owner' = Counted(own, uses)
      /\ impCount' = [n \in Names |-> impCount[n] + uses[n]]
  BY DEF TakesIn, InsertObjGlobals
<1>2. id[1] # 0 /\ defs \subseteq Names
  BY TakenInModule DEF TableInv
<1>3. id \notin {NoEntry, Dummy, Linker}
  BY <1>2 DEF NoEntry, Dummy, Linker
<1>4. \A n \in Names : uses[n] \in Nat
  BY <1>2, ImportsAreNat DEF Exports
<1>5. ASSUME NEW n \in Names
      PROVE  owner'[n] = IF IsDefined(n) THEN owner[n]
                         ELSE IF n \in defs THEN id
                         ELSE IF owner[n] = NoEntry /\ uses[n] = 0 THEN NoEntry
                         ELSE Dummy
  BY <1>1, <1>3, <1>4 DEF Counted, Claimed, IsDefined, NoEntry, Dummy
<1> QED
  BY <1>1, <1>2, <1>3, <1>4, <1>5

LEMMA TableStays ==
  ASSUME TableInv, PlacesOK', Stays
  PROVE  TableInv'
<1>1. /\ UNCHANGED <<owner, impCount, referenced, job>>
      /\ stage' \in Early => stage \in Early
  BY DEF Stays, table
<1>2. DummiesImported'
  BY <1>1 DEF TableInv, DummiesImported
<1>3. ExportsDefined'
  BY <1>1 DEF TableInv, ExportsDefined, Module, Item, Exports, IsDefined
<1>4. LinkerWaits'
  BY <1>1 DEF TableInv, LinkerWaits
<1>5. NeededOnly'
  BY <1>1 DEF TableInv, NeededOnly, Module, Item, Exports
<1>6. WeakGivesWay'
  BY <1>1 DEF TableInv, WeakGivesWay, Module, Item, Exports
<1> QED
  BY <1>2, <1>3, <1>4, <1>5, <1>6 DEF TableInv

(* What the linker defines itself it defines after the modules are in, and *)
(* only names nobody has defined.                                          *)
LEMMA TableDefines ==
  ASSUME TableInv, PlacesOK', NEW names, Defines(names)
  PROVE  TableInv'
<1>1. /\ stage' \notin Early
      /\ owner' = Claimed(names, Linker)
      /\ UNCHANGED <<impCount, referenced, job>>
  BY DEF Defines, InsertExports
<1>2. ASSUME NEW n \in Names
      PROVE  \/ owner'[n] = owner[n]
             \/ ~IsDefined(n) /\ owner'[n] = Linker
  BY <1>1 DEF Claimed
<1>3. DummiesImported'
  BY <1>1, <1>2 DEF TableInv, DummiesImported, Linker, Dummy
<1>4. ExportsDefined'
  <2>1. ASSUME NEW n \in Names, IsDefined(n)  PROVE IsDefined(n)'
    BY <1>2, <2>1 DEF IsDefined
  <2> QED
    BY <1>1, <2>1 DEF TableInv, ExportsDefined, Module, Item, Exports
<1>5. LinkerWaits'
  BY <1>1 DEF LinkerWaits
<1>6. NeededOnly'
  <2> SUFFICES ASSUME NEW id \in referenced, Item(id[1]).kind = "lib"
               PROVE  \E n \in Exports(Module(id)) :
                        owner'[n] = id /\ impCount[n] > 0
    BY <1>1 DEF NeededOnly, Module, Item, Exports
  <2>1. PICK n \in Exports(Module(id)) : owner[n] = id /\ impCount[n] > 0
    BY DEF TableInv, NeededOnly
  <2>2. n \in Names /\ IsDefined(n)
    BY DEF TableInv, ExportsDefined
  <2> QED
    BY <1>2, <2>1, <2>2
<1>7. WeakGivesWay'
  <2> SUFFICES ASSUME NEW n \in job.weak \ job.defined, owner'[n] = Linker,
                      NEW id \in referenced, n \in Exports(Module(id))
               PROVE  FALSE
    BY <1>1 DEF WeakGivesWay, Module, Item, Exports
  <2>1. n \in Names /\ IsDefined(n)
    BY DEF TableInv, ExportsDefined
  <2>2. owner[n] = Linker
    BY <1>2, <2>1
  <2> QED
    BY <2>2 DEF TableInv, WeakGivesWay
<1> QED
  BY <1>3, <1>4, <1>5, <1>6, <1>7 DEF TableInv

(* A module that is taken in defines what nobody has defined of its        *)
(* exports, and leaves dummies for what it imports.                        *)
LEMMA TableTakesIn ==
  ASSUME TableInv, PlacesOK', NEW id, TakesIn(id)
  PROVE  TableInv'
<1> DEFINE defs == Exports(Module(id))
           uses == [k \in Names |-> ImportsOf(Module(id), k)]
<1>1. /\ impCount' = [n \in Names |-> impCount[n] + uses[n]]
      /\ referenced' = referenced \union {id}
      /\ UNCHANGED job
      /\ stage \in Early
  BY DEF TakesIn, InsertObjGlobals
<1>2. /\ id[1] # 0 /\ defs \subseteq Names
      /\ Item(id[1]).kind = "lib" => \E n \in defs : IsUnresolved(n)
  BY TakenInModule DEF TableInv
<1>3. id \notin {NoEntry, Dummy, Linker}
  BY TakenInTable
<1>4. \A n \in Names : uses[n] \in Nat
  BY TakenInTable
<1>5. ASSUME NEW n \in Names
      PROVE  owner'[n] = IF IsDefined(n) THEN owner[n]
                         ELSE IF n \in defs THEN id
                         ELSE IF owner[n] = NoEntry /\ uses[n] = 0 THEN NoEntry
                         ELSE Dummy
  BY TakenInTable
<1>6. \A n \in Names : /\ impCount[n] \in Nat /\ impCount'[n] \in Nat
                       /\ impCount'[n] = impCount[n] + uses[n]
                       /\ impCount'[n] >= impCount[n]
  BY <1>1, <1>4 DEF TableInv, DummiesImported
<1> HIDE DEF defs, uses
<1>7. DummiesImported'
  <2> SUFFICES ASSUME NEW n \in Names, owner'[n] = Dummy
               PROVE  impCount'[n] > 0
    BY <1>6 DEF DummiesImported
  <2>1. ~IsDefined(n) /\ ~(owner[n] = NoEntry /\ uses[n] = 0)
    BY <1>3, <1>5 DEF IsDefined, NoEntry, Dummy
  <2>2. CASE owner[n] = Dummy
    BY <1>6, <2>2 DEF TableInv, DummiesImported
  <2>3. CASE owner[n] = NoEntry /\ uses[n] # 0
    BY <1>4, <1>6, <2>3
  <2> QED
    BY <2>1, <2>2, <2>3 DEF IsDefined
<1>8. ASSUME NEW n \in Names, IsDefined(n)  PROVE IsDefined(n)'
  BY <1>5, <1>8 DEF IsDefined
<1>9. ExportsDefined'
  <2>1. \A n \in defs : IsDefined(n)'
    BY <1>2, <1>3, <1>5, <1>8 DEF IsDefined
  <2> QED
    BY <1>1, <1>2, <1>8, <2>1
    DEF TableInv, ExportsDefined, Module, Item, Exports, defs
<1>10. ASSUME NEW n \in Names, owner'[n] = Linker
       PROVE  n \in job.defined
  <2>1. owner[n] = Linker
    BY <1>3, <1>5, <1>10 DEF IsDefined, NoEntry, Dummy, Linker
  <2> QED
    BY <1>1, <2>1 DEF TableInv, LinkerWaits
<1>11. NeededOnly'
  <2> SUFFICES ASSUME NEW i \in referenced \union {id},
                      Item(i[1]).kind = "lib"
               PROVE  \E n \in Exports(Module(i)) :
                        owner'[n] = i /\ impCount'[n] > 0
    BY <1>1 DEF NeededOnly, Module, Item, Exports
  <2>1. CASE i \in referenced
    <3>1. PICK n \in Exports(Module(i)) : owner[n] = i /\ impCount[n] > 0
      BY <2>1 DEF TableInv, NeededOnly
    <3>2. n \in Names /\ IsDefined(n)
      BY <2>1 DEF TableInv, ExportsDefined
    <3> QED
      BY <1>5, <1>6, <3>1, <3>2
  <2>2. CASE i = id
    <3>1. PICK n \in defs : IsUnresolved(n)
      BY <1>2, <2>2
    <3>2. n \in Names /\ ~IsDefined(n) /\ owner[n] = Dummy
      BY <1>2, <3>1 DEF IsUnresolved, IsDefined
    <3>3. owner'[n] = id /\ impCount'[n] > 0
      BY <1>5, <1>6, <3>1, <3>2 DEF TableInv, DummiesImported
    <3> QED
      BY <2>2, <3>1, <3>3 DEF defs
  <2> QED
    BY <2>1, <2>2
<1>12. WeakGivesWay'
  <2> SUFFICES ASSUME NEW n \in job.weak \ job.defined, owner'[n] = Linker
               PROVE  FALSE
    BY <1>1 DEF WeakGivesWay
  <2>1. n \in Names
    BY LinkAssumption DEF TableInv, PlacesOK
  <2> QED
    BY <1>10, <2>1
<1>13. LinkerWaits'
  BY <1>1, <1>10 DEF LinkerWaits
<1> QED
  BY <1>7, <1>9, <1>11, <1>12, <1>13 DEF TableInv

LEMMA TableStep ==
  ASSUME TableInv, [Next]_vars
  PROVE  TableInv'
BY TableSteps, PlacesStep, TableStays, TableTakesIn, TableDefines DEF TableInv

(* TableInv, for every job: it holds at the start and every step keeps it. *)
THEOREM TableInvariant == Spec => []TableInv
<1>1. LinkInit /\ PlaceInit => TableInv
  BY TableInit
<1>2. TableInv /\ [Next]_vars => TableInv'
  BY TableStep
<1> QED
  BY <1>1, <1>2, PTL DEF Spec, Init

(* A library gives a module only for a name that was missing: in any link, *)
(* the module's definition of some name it exports is the one in the table *)
(* and somebody imports it (LibCheckExports).                              *)
THEOREM NeededOnlyAlways == Spec => []NeededOnly
BY TableInvariant, PTL DEF TableInv

(* The value of a weak symbol is used only when no module in the link,     *)
(* whatever library it came from and when, defines the name                *)
(* (ProcessSymbols).                                                       *)
THEOREM WeakGivesWayAlways == Spec => []WeakGivesWay
BY TableInvariant, PTL DEF TableInv

-----------------------------------------------------------------------------
(* CountersExact needs besides that a name nobody imports is not counted,  *)
(* and CompleteLink that whatever is imported has an entry.  Nothing is    *)
(* written to an output file while an import is open.                      *)
OnlyEntriesCounted ==
  \A n \in Names : owner[n] = NoEntry => impCount[n] = 0

ImportsEntered ==
  \A n \in Names :
    (n \in job.forced \/ \E id \in referenced : ImportsOf(Module(id), n) > 0)
    => owner[n] # NoEntry

NoneOpen ==
  (stage \in {"write", "done"} /\ \E m \in DOMAIN job.areas : Area(m).out)
  => impOpen = 0

CounterInv ==
  /\ TableInv
  /\ OnlyEntriesCounted /\ ImportsEntered /\ CountersExact
  /\ NoneOpen

LEMMA CounterInit == LinkInit /\ PlaceInit => CounterInv
<1> SUFFICES ASSUME LinkInit, PlaceInit  PROVE CounterInv
  OBVIOUS
<1>1. /\ owner = [n \in Names |-> IF n \in DefinedFirst THEN Linker
                                  ELSE IF n \in job.forced THEN Dummy
                                  ELSE NoEntry]
      /\ impCount = [n \in Names |-> IF n \in job.forced THEN 1 ELSE 0]
      /\ impOpen = Cardinality(job.forced \ DefinedFirst)
      /\ expCount = Cardinality(job.forced \union DefinedFirst)
      /\ referenced = {} /\ stage = "files"
      /\ job.forced \union DefinedFirst \subseteq Names
  BY LinkAssumption DEF LinkInit, DefinedFirst
<1>2. OnlyEntriesCounted /\ ImportsEntered
  BY <1>1 DEF OnlyEntriesCounted, ImportsEntered, NoEntry, Dummy, Linker
<1>3. {n \in Names : owner[n] # NoEntry} = job.forced \union DefinedFirst
  BY <1>1 DEF NoEntry, Dummy, Linker
<1>4. {n \in Names : owner[n] = Dummy} = job.forced \ DefinedFirst
  BY <1>1 DEF NoEntry, Dummy, Linker
<1>5. SumOf(impCount, job.forced \ DefinedFirst)
        = Cardinality(job.forced \ DefinedFirst)
  <2>1. IsFiniteSet(job.forced \ DefinedFirst)
    BY <1>1, LinkAssumption, FS_Subset
  <2>2. \A n \in job.forced \ DefinedFirst : impCount[n] = 1
    BY <1>1
  <2> QED  BY <2>1, <2>2, SumOfOnes
<1>6. CountersExact
  BY <1>1, <1>3, <1>4, <1>5, SumsAreSumOf DEF CountersExact
<1>7. NoneOpen
  BY <1>1 DEF NoneOpen
<1> QED
  BY <1>2, <1>6, <1>7, TableInit DEF CounterInv

(* How the counters stand after some names are defined (InsertExport)      *)
LEMMA DefinesCounts ==
  ASSUME CounterInv, NEW names, names \subseteq Names,
         InsertExports(names, Linker)
  PROVE  CountersExact'
<1> DEFINE open  == {n \in Names : owner[n] = Dummy}
           here  == {n \in names : owner[n] = Dummy}
           after == {n \in Names : owner'[n] = Dummy}
           fresh == {n \in names : owner[n] = NoEntry}
           all   == {n \in Names : owner[n] # NoEntry}
<1>1. /\ owner' = Claimed(names, Linker)
      /\ impOpen' = impOpen - SumOf(impCount, here)
      /\ expCount' = expCount + Cardinality(fresh)
      /\ impCount' = impCount
  BY SumsAreSumOf DEF InsertExports
<1>2. /\ IsFiniteSet(here) /\ IsFiniteSet(after) /\ IsFiniteSet(open)
      /\ IsFiniteSet(fresh) /\ IsFiniteSet(all)
  BY LinkAssumption, FS_Subset
<1>3. \A n \in Names : impCount[n] \in Nat
  BY DEF CounterInv, TableInv, DummiesImported
<1>4. \A n \in Names : owner'[n] = IF n \in names /\ ~IsDefined(n) THEN Linker
                                   ELSE owner[n]
  BY <1>1 DEF Claimed
<1>5. open = here \union after /\ here \cap after = {}
  BY <1>4 DEF IsDefined, NoEntry, Dummy, Linker
<1>6. SumOf(impCount, open) = SumOf(impCount, here) + SumOf(impCount, after)
  <2> HIDE DEF open, here, after
  <2>1. \A n \in here \union after : impCount[n] \in Nat
    BY <1>3 DEF here, after
  <2> QED  BY <1>2, <1>5, <2>1, SumUnion
<1>7. impOpen = SumOf(impCount, open) /\ expCount = Cardinality(all)
  BY SumsAreSumOf DEF CounterInv, CountersExact
<1>8. /\ SumOf(impCount, here) \in Nat /\ SumOf(impCount, after) \in Nat
  <2> HIDE DEF here, after
  <2>1. /\ \A n \in here : impCount[n] \in Nat
        /\ \A n \in after : impCount[n] \in Nat
    BY <1>3 DEF here, after
  <2> QED  BY <1>2, <2>1, SumIsNat
<1>9. {n \in Names : owner'[n] # NoEntry} = all \union fresh
      /\ all \cap fresh = {}
  BY <1>4 DEF IsDefined, NoEntry, Dummy, Linker
<1>10. Cardinality(all \union fresh) = Cardinality(all) + Cardinality(fresh)
  <2> HIDE DEF all, fresh
  <2> QED  BY <1>2, <1>9, CardinalityOfBoth
<1>11. impOpen' = SumOf(impCount, after)
  BY <1>1, <1>6, <1>7, <1>8
<1>12. expCount' = Cardinality({n \in Names : owner'[n] # NoEntry})
  BY <1>1, <1>7, <1>9, <1>10
<1>13. OpenIn(owner', impCount') = SumOf(impCount, after)
  BY <1>1, SumsAreSumOf
<1> QED
  BY <1>11, <1>12, <1>13 DEF CountersExact

LEMMA TakesInCounts ==
  ASSUME CounterInv, NEW id, TakesIn(id)
  PROVE  CountersExact'
<1> DEFINE defs  == Exports(Module(id))
           uses  == [k \in Names |-> ImportsOf(Module(id), k)]
           here  == {n \in defs : owner[n] = Dummy}
           rest  == {n \in Names : owner[n] = Dummy /\ n \notin defs}
           fresh == {n \in Names : /\ owner[n] = NoEntry /\ n \notin defs
                                   /\ uses[n] > 0}
           after == {n \in Names : owner'[n] = Dummy}
           all   == {n \in Names : owner[n] # NoEntry}
           added == {n \in Names : /\ owner[n] = NoEntry
                                   /\ n \in defs \/ uses[n] > 0}
<1>1. /\ id \notin {NoEntry, Dummy, Linker} /\ defs \subseteq Names
      /\ \A n \in Names :
           /\ uses[n] \in Nat /\ impCount[n] \in Nat
           /\ impCount'[n] = impCount[n] + uses[n]
           /\ owner'[n] = IF IsDefined(n) THEN owner[n]
                          ELSE IF n \in defs THEN id
                          ELSE IF owner[n] = NoEntry /\ uses[n] = 0 THEN NoEntry
                          ELSE Dummy
  BY TakenInTable DEF CounterInv, TableInv, DummiesImported
<1>2. /\ impOpen' = impOpen - SumOf(impCount, here) + SumOf(uses, after)
      /\ expCount' = expCount + Cardinality(added)
  BY SumsAreSumOf DEF TakesIn, InsertObjGlobals
<1>3. /\ IsFiniteSet(here) /\ IsFiniteSet(rest) /\ IsFiniteSet(fresh)
      /\ IsFiniteSet(after) /\ IsFiniteSet(all) /\ IsFiniteSet(added)
  BY <1>1, LinkAssumption, FS_Subset
<1>4. /\ {n \in Names : owner[n] = Dummy} = here \union rest
      /\ here \cap rest = {}
  BY <1>1
<1>5. after = rest \union fresh /\ rest \cap fresh = {}
  BY <1>1 DEF IsDefined, NoEntry, Dummy
<1>6. /\ {n \in Names : owner'[n] # NoEntry} = all \union added
      /\ all \cap added = {}
  BY <1>1 DEF IsDefined, NoEntry, Dummy
<1>7. /\ \A n \in fresh : impCount[n] = 0
      /\ \A n \in here \union rest : impCount[n] \in Nat
      /\ \A n \in rest \union fresh : impCount[n] \in Nat
      /\ \A n \in after : /\ impCount[n] \in Nat /\ uses[n] \in Nat
                           /\ impCount'[n] = impCount[n] + uses[n]
  BY <1>1 DEF CounterInv, OnlyEntriesCounted
<1>8. impOpen = SumOf(impCount, here \union rest)
        /\ expCount = Cardinality(all)
  BY <1>4, SumsAreSumOf DEF CounterInv, CountersExact
<1> HIDE DEF defs, uses, here, rest, fresh, after, all, added
<1>9. SumOf(impCount, here \union rest)
        = SumOf(impCount, here) + SumOf(impCount, rest)
  BY <1>3, <1>4, <1>7, SumUnion
<1>10. SumOf(impCount, after) = SumOf(impCount, rest) + SumOf(impCount, fresh)
  BY <1>3, <1>5, <1>7, SumUnion
<1>11. SumOf(impCount, fresh) = 0
  BY <1>3, <1>7, SumOfZeros
<1>12. SumOf(impCount', after) = SumOf(impCount, after) + SumOf(uses, after)
  BY <1>3, <1>7, SumOfBoth
<1>13. /\ SumOf(impCount, here) \in Nat /\ SumOf(impCount, rest) \in Nat
       /\ SumOf(uses, after) \in Nat
  BY <1>3, <1>7, SumIsNat
<1>14. impOpen' = SumOf(impCount', after)
  BY <1>2, <1>8, <1>9, <1>10, <1>11, <1>12, <1>13
<1>15. expCount' = Cardinality({n \in Names : owner'[n] # NoEntry})
  BY <1>2, <1>3, <1>6, <1>8, CardinalityOfBoth
<1>16. OpenIn(owner', impCount') = SumOf(impCount', after)
  BY SumsAreSumOf DEF after
<1> QED
  BY <1>14, <1>15, <1>16 DEF CountersExact

(* The job does not change, and with it what the modules import.           *)
LEMMA SameImports ==
  ASSUME job' = job
  PROVE  \A i, n : ImportsOf(Module(i), n)' = ImportsOf(Module(i), n)
BY DEF ImportsOf, ConDesOf, Module, Item, Exports

LEMMA CounterStep ==
  ASSUME CounterInv, [Next]_vars
  PROVE  CounterInv'
<1>0. PlacesOK /\ TableInv' /\ job' = job
  BY TableStep, TableSteps DEF CounterInv, TableInv, Stays, TakesIn, Defines
<1>1. CountersExact' /\ OnlyEntriesCounted' /\ ImportsEntered'
  <2>1. CASE Stays
    BY <2>1 DEF Stays, table, CounterInv, CountersExact, OnlyEntriesCounted,
                ImportsEntered, ImportsOf, ConDesOf, Module, Item, Exports
  <2>2. ASSUME NEW id, TakesIn(id)
        PROVE  CountersExact' /\ OnlyEntriesCounted' /\ ImportsEntered'
    <3>1. /\ id \notin {NoEntry, Dummy, Linker}
          /\ \A n \in Names :
              /\ ImportsOf(Module(id), n) \in Nat
              /\ impCount'[n] = impCount[n] + ImportsOf(Module(id), n)
              /\ owner'[n] =
                   IF IsDefined(n) THEN owner[n]
                   ELSE IF n \in Exports(Module(id)) THEN id
                   ELSE IF owner[n] = NoEntry /\ ImportsOf(Module(id), n) = 0
                   THEN NoEntry ELSE Dummy
      BY <2>2, TakenInTable DEF CounterInv
    <3>2. OnlyEntriesCounted'
      BY <3>1 DEF CounterInv, OnlyEntriesCounted, TableInv, DummiesImported,
                  IsDefined, Dummy, NoEntry
    <3>3. ImportsEntered'
      <4>0. referenced' = referenced \union {id}
        BY <2>2 DEF TakesIn
      <4> SUFFICES ASSUME NEW n \in Names,
                          \/ n \in job.forced
                          \/ \E i \in referenced \union {id} :
                               ImportsOf(Module(i), n) > 0
                   PROVE  owner'[n] # NoEntry
        BY <1>0, <4>0, SameImports DEF ImportsEntered
      <4>1. owner[n] # NoEntry \/ ImportsOf(Module(id), n) > 0
        BY DEF CounterInv, ImportsEntered
      <4> QED
        BY <3>1, <4>1 DEF IsDefined, Dummy, NoEntry
    <3> QED  BY <2>2, <3>2, <3>3, TakesInCounts
  <2>3. ASSUME NEW names, Defines(names)
        PROVE  CountersExact' /\ OnlyEntriesCounted' /\ ImportsEntered'
    <3>1. /\ \A n \in Names : owner'[n] \in {owner[n], Linker}
          /\ UNCHANGED <<impCount, referenced>>
      BY <2>3 DEF Defines, InsertExports, Claimed
    <3>2. OnlyEntriesCounted'
      BY <3>1 DEF CounterInv, OnlyEntriesCounted, Linker, NoEntry
    <3>3. ImportsEntered'
      <4> SUFFICES ASSUME NEW n \in Names,
                          \/ n \in job.forced
                          \/ \E i \in referenced : ImportsOf(Module(i), n) > 0
                   PROVE  owner'[n] # NoEntry
        BY <1>0, <3>1, SameImports DEF ImportsEntered
      <4> QED
        BY <3>1 DEF CounterInv, ImportsEntered, Linker, NoEntry
    <3> QED  BY <2>3, <3>2, <3>3, DefinesCounts DEF Defines
  <2> QED  BY SMTT(30), <1>0, <2>1, <2>2, <2>3, TableSteps
<1>2. NoneOpen'
  <2> SUFFICES ASSUME stage' \in {"write", "done"},
                      \E m \in DOMAIN job.areas : Area(m).out
               PROVE  impOpen' = 0
    BY <1>0 DEF NoneOpen, Area
  <2>1. CASE OpenTarget
    BY <2>1 DEF OpenTarget, Fail, table
  <2>2. CASE StartWriting \/ WriteSegment \/ EndWriting \/ CheckSegments
               \/ Ended \/ UNCHANGED vars
    <3>1. stage \in {"write", "done"} /\ impOpen' = impOpen
      BY <2>2 DEF StartWriting, WriteSegment, EndWriting, CheckSegments, Ended,
                  vars, linkVars, table, Begins, InList, Ends, Past, Fail
    <3> QED  BY <3>1 DEF CounterInv, NoneOpen
  <2>3. CASE LinkNext
    BY <2>3 DEF LinkNext, ObjAdd, LibAdd, LibStartGroup, LibEndGroup,
                LibCheckExports, NextLibrary, EndOfRound, LoadModule,
                CloseLibrary, Resolved, CheckFiles, ConDesCreate,
                ProcessSymbols, NextFile, AtModule, PastModules, StartSearch,
                DuplicateIdentifier, Fail
  <2>4. CASE ReadSection \/ NextModule \/ ProcessSegments \/ StartArea
               \/ PlaceSegment \/ EndArea
    BY <2>4, Zenon
    DEF ReadSection, NextModule, ProcessSegments, StartArea, PlaceSegment,
        EndArea, Begins, InList, Ends, DuplicateIdentifier, Fail, linkVars
  <2> QED
    BY <2>1, <2>2, <2>3, <2>4 DEF Next
<1> QED
  BY <1>0, <1>1, <1>2 DEF CounterInv

(* CounterInv, for every job *)
THEOREM CounterInvariant == Spec => []CounterInv
<1>1. LinkInit /\ PlaceInit => CounterInv
  BY CounterInit
<1>2. CounterInv /\ [Next]_vars => CounterInv'
  BY CounterStep
<1> QED
  BY <1>1, <1>2, PTL DEF Spec, Init

(* ImpOpen and ExpCount are what a walk over the table would count, after  *)
(* every import, export and definition of the linker's own, for any number *)
(* of modules that import and define a name (InsertImport, InsertExport).  *)
THEOREM CountersExactAlways == Spec => []CountersExact
BY CounterInvariant, PTL DEF CounterInv

(* When an output file has been written every import of every module in    *)
(* it, and every forced one, has its definition (BinWriteTarget).          *)
THEOREM CompleteLinkAlways == Spec => []CompleteLink
<1>1. CounterInv => CompleteLink
  <2> SUFFICES ASSUME CounterInv, stage = "done",
                      \E m \in DOMAIN job.areas : Area(m).out,
                      NEW n \in Names,
                      \/ n \in job.forced
                      \/ \E id \in referenced : ImportsOf(Module(id), n) > 0
               PROVE  IsDefined(n)
    BY DEF CompleteLink
  <2> DEFINE open == {k \in Names : owner[k] = Dummy}
  <2>1. owner[n] # NoEntry
    BY DEF CounterInv, ImportsEntered
  <2>2. SumOf(impCount, open) = 0
    BY SumsAreSumOf DEF CounterInv, NoneOpen, CountersExact
  <2>3. /\ IsFiniteSet(open)
        /\ \A k \in open : impCount[k] \in Nat /\ impCount[k] > 0
    BY LinkAssumption, FS_Subset DEF CounterInv, TableInv, DummiesImported
  <2>4. owner[n] # Dummy
    <3> SUFFICES ASSUME n \in open  PROVE FALSE
      OBVIOUS
    <3> HIDE DEF open
    <3>1. SumOf(impCount, open) = impCount[n] + SumOf(impCount, open \ {n})
      BY <2>3, SumWithout
    <3>2. SumOf(impCount, open \ {n}) \in Nat
      BY <2>3, FS_Subset, SumIsNat
    <3> QED  BY <2>2, <2>3, <3>1, <3>2
  <2> QED  BY <2>1, <2>4 DEF IsDefined
<1> QED
  BY <1>1, CounterInvariant, PTL

-----------------------------------------------------------------------------
(* SearchComplete and LoadedOnce speak of the state when all files are in; *)
(* what makes them true is kept file by file, round by round and module by *)
(* module.  While the files are taken in, the open libraries stand in the  *)
(* order of the command line before the next file.                         *)
Reading == {"files", "search", "load"}

IsOpen(i) == \E k \in 1 .. Len(openLibs) : openLibs[k] = i

FilesOK ==
  /\ next \in 1 .. Len(job.items) + 1
  /\ grouping \in BOOLEAN
  /\ \A k \in 1 .. Len(openLibs) :
       openLibs[k] \in 1 .. next - 1 /\ Item(openLibs[k]).kind = "lib"
  /\ \A k, l \in 1 .. Len(openLibs) : k < l => openLibs[k] < openLibs[l]
  /\ FilesAreIn => openLibs = <<>> /\ next = Len(job.items) + 1

(* In a group there is its start, before all open libraries, and its end   *)
(* only once it is being searched; outside a group all groups have ended   *)
(* and the one open library is the last file.                              *)
GroupOK ==
  IF grouping
  THEN /\ \E s \in 1 .. next - 1 :
            /\ Item(s).kind = "start"
            /\ \A k \in 1 .. Len(openLibs) : s < openLibs[k]
            /\ \A e \in s .. next - 1 :
                 Item(e).kind = "end" => stage # "files" /\ e = next - 1
       /\ stage # "files" => next > 1 /\ Item(next - 1).kind = "end"
  ELSE /\ \A s \in 1 .. next - 1 : Item(s).kind = "start" =>
            \E e \in s + 1 .. next - 1 : Item(e).kind = "end"
       /\ stage = "files" => openLibs = <<>>
       /\ stage # "files" => /\ next > 1
                             /\ \A k \in 1 .. Len(openLibs) : k = 1
                                  /\ openLibs[k] = next - 1

GroupsOK == stage \in Reading => GroupOK

(* Between two libraries that follow each other in the list there are only *)
(* object files.                                                           *)
OnlyObjects(i, l) == \A k \in i + 1 .. l - 1 : Item(k).kind = "obj"

NextToEachOther ==
  stage \in Reading =>
    /\ \A k \in 1 .. Len(openLibs) - 1 :
         (stage = "load" => k >= cursor.lib) =>
           OnlyObjects(openLibs[k], openLibs[k + 1])
    /\ stage = "files" /\ openLibs # <<>> =>
         OnlyObjects(openLibs[Len(openLibs)], next)

(* A module is loaded from an open library only before the cursor.         *)
LoadsOK ==
  /\ objData \in Seq(referenced)
  /\ IsInjective(objData)
  /\ \A id \in referenced : id[1] \in 1 .. next - 1 /\ id \in Modules(id[1])
  /\ \A id \in ToSet(objData), k \in 1 .. Len(openLibs) :
       openLibs[k] = id[1] /\ stage \in Reading =>
         /\ stage = "load" /\ k <= cursor.lib
         /\ k = cursor.lib => id[2] < cursor.mod

(* A module that is referenced and not loaded is still to come, or it is   *)
(* of a library the loop went past when it removed the one before.         *)
ToLoad(id) ==
  \E k \in 1 .. Len(openLibs) :
     /\ openLibs[k] = id[1]
     /\ stage = "load" => \/ k > cursor.lib
                          \/ k = cursor.lib /\ id[2] >= cursor.mod

PassedOver(id) ==
  /\ InGroup(id[1])
  /\ \E p \in 1 .. id[1] - 1 :
       /\ Item(p).kind = "lib" /\ Modules(p) \cap referenced = {}
       /\ ~IsOpen(p) /\ OnlyObjects(p, id[1])

RestOK ==
  /\ \A id \in referenced \ ToSet(objData) : ToLoad(id) \/ PassedOver(id)
  /\ (stage = "load" /\ ~cursor.added /\ cursor.lib <= Len(openLibs)) =>
       \A j \in 1 .. cursor.mod - 1 :
         <<openLibs[cursor.lib], j>> \notin referenced

(* What the round so far has left: no module before the cursor exports a   *)
(* name that is missing, unless the round has added one.                   *)
Offers(i, n) == \E id \in Modules(i) : n \in Exports(Module(id))

RoundOK ==
  (stage = "search" /\ ~cursor.added) =>
    \A k \in 1 .. Len(openLibs) :
      \A j \in 1 .. Len(Item(openLibs[k]).modules) :
        (k < cursor.lib \/ (k = cursor.lib /\ j < cursor.mod)) =>
          \A n \in Exports(Module(<<openLibs[k], j>>)) : owner[n] # Dummy

(* A name that is missing after the last search of a library that has it   *)
(* is imported only by files after that search.                            *)
Searched(i) == /\ i \in 1 .. next - 1 /\ Item(i).kind = "lib"
               /\ stage \in {"files", "search"} => ~IsOpen(i)

SearchedOK ==
  stage # "failed" =>
    \A i \in 1 .. Len(job.items) : Searched(i) =>
      /\ LastSearch(i) \in 1 .. next - 1
      /\ stage \in {"files", "search"} =>
           \A k \in 1 .. Len(openLibs) : LastSearch(i) < openLibs[k]
      /\ \A n \in Names : (owner[n] = Dummy /\ Offers(i, n)) =>
           /\ n \notin job.forced
           /\ \A id \in referenced :
                ImportsOf(Module(id), n) > 0 => id[1] > LastSearch(i)

FilesInv ==
  /\ CounterInv
  /\ FilesOK /\ GroupsOK /\ NextToEachOther
  /\ LoadsOK /\ RestOK
  /\ RoundOK /\ SearchedOK

(* Sequences without an element, and with one more                         *)
LEMMA RemovedElements ==
  ASSUME NEW S, NEW s \in Seq(S), NEW i \in 1 .. Len(s)
  PROVE  /\ Len(s) \in Nat /\ Len(RemoveAt(s, i)) = Len(s) - 1
         /\ \A k \in 1 .. Len(s) - 1 :
              RemoveAt(s, i)[k] = IF k < i THEN s[k] ELSE s[k + 1]
<1> DEFINE a == SubSeq(s, 1, i - 1)
           b == SubSeq(s, i + 1, Len(s))
<1>1. Len(s) \in Nat /\ \A k \in 1 .. Len(s) : s[k] \in S
  BY ElementOfSeq, LenProperties
<1>2. /\ a \in Seq(S) /\ Len(a) = i - 1
      /\ \A k \in 1 .. i - 1 : a[k] = s[k]
  <2>1. \A k \in 1 .. i - 1 : s[k] \in S
    BY <1>1
  <2> QED  BY <1>1, <2>1, SubSeqProperties
<1>3. /\ b \in Seq(S) /\ Len(b) = Len(s) - i
      /\ \A k \in 1 .. Len(s) - i : b[k] = s[i + k]
  <2>1. \A k \in i + 1 .. Len(s) : s[k] \in S
    BY <1>1
  <2>2. /\ b \in Seq(S)
        /\ Len(b) = IF i + 1 <= Len(s) THEN Len(s) - (i + 1) + 1 ELSE 0
        /\ \A k \in 1 .. Len(s) - (i + 1) + 1 : b[k] = s[i + 1 + k - 1]
    BY <1>1, <2>1, SubSeqProperties
  <2> QED  BY <1>1, <2>2
<1>4. RemoveAt(s, i) = a \o b
  BY DEF RemoveAt
<1> HIDE DEF a, b
<1>5. /\ Len(a \o b) = Len(s) - 1
      /\ \A k \in 1 .. Len(a) + Len(b) :
           (a \o b)[k] = IF k <= Len(a) THEN a[k] ELSE b[k - Len(a)]
  BY <1>1, <1>2, <1>3, ConcatProperties
<1>6. ASSUME NEW k \in 1 .. Len(s) - 1
      PROVE  (a \o b)[k] = IF k < i THEN s[k] ELSE s[k + 1]
  <2>0. k \in 1 .. Len(a) + Len(b)
    BY <1>1, <1>2, <1>3
  <2>1. CASE k < i
    BY <1>2, <1>5, <2>0, <2>1
  <2>2. CASE ~(k < i)
    <3>1. k - Len(a) \in 1 .. Len(s) - i /\ i + (k - Len(a)) = k + 1
      BY <1>1, <1>2, <2>2
    <3>2. (a \o b)[k] = b[k - Len(a)]
      BY <1>1, <1>2, <1>5, <2>0, <2>2
    <3> QED  BY <1>3, <2>2, <3>1, <3>2
  <2> QED  BY <2>1, <2>2
<1> QED
  BY <1>1, <1>4, <1>5, <1>6

LEMMA AppendsOnce ==
  ASSUME NEW S, NEW s \in Seq(S), IsInjective(s),
         NEW x \in S, x \notin ToSet(s)
  PROVE  /\ Append(s, x) \in Seq(S) /\ IsInjective(Append(s, x))
         /\ \A y \in ToSet(Append(s, x)) : y \in ToSet(s) \/ y = x
         /\ \A y \in ToSet(s) \union {x} : y \in ToSet(Append(s, x))
<1> DEFINE t == Append(s, x)
<1>1. /\ t \in Seq(S) /\ Len(t) = Len(s) + 1
      /\ \A k \in 1 .. Len(s) : t[k] = s[k]
      /\ t[Len(s) + 1] = x
  BY AppendProperties
<1>2. /\ Len(s) \in Nat /\ DOMAIN s = 1 .. Len(s)
      /\ DOMAIN t = 1 .. Len(s) + 1
  BY <1>1, LenProperties
<1> HIDE DEF t
<1>3. \A k \in 1 .. Len(s) : t[k] # x
  BY <1>1, <1>2 DEF ToSet
<1>4. \A k \in 1 .. Len(s) + 1 : k \in 1 .. Len(s) \/ k = Len(s) + 1
  BY <1>2
<1>5. IsInjective(t)
  <2> SUFFICES ASSUME NEW a \in 1 .. Len(s) + 1, NEW b \in 1 .. Len(s) + 1,
                      t[a] = t[b]
               PROVE  a = b
    BY <1>2 DEF IsInjective
  <2>1. CASE a \in 1 .. Len(s) /\ b \in 1 .. Len(s)
    BY <1>1, <1>2, <2>1 DEF IsInjective
  <2>2. CASE ~(a \in 1 .. Len(s) /\ b \in 1 .. Len(s))
    BY <1>1, <1>3, <1>4, <2>2
  <2> QED  BY <2>1, <2>2
<1>6. \A y \in ToSet(t) : y \in ToSet(s) \/ y = x
  BY <1>1, <1>2, <1>4 DEF ToSet
<1>7. \A y \in ToSet(s) \union {x} : y \in ToSet(t)
  <2>1. \A k \in 1 .. Len(s) : k \in 1 .. Len(s) + 1
    BY <1>2
  <2>2. Len(s) + 1 \in 1 .. Len(s) + 1
    BY <1>2
  <2> QED  BY <1>1, <1>2, <2>1, <2>2 DEF ToSet
<1> QED
  BY <1>1, <1>5, <1>6, <1>7 DEF t

(* What the command line says stays as it is.                              *)
LEMMA SameJob ==
  ASSUME job' = job
  PROVE  /\ \A i : Item(i)' = Item(i) /\ Modules(i)' = Modules(i)
         /\ \A i : InGroup(i)' = InGroup(i) /\ LastSearch(i)' = LastSearch(i)
         /\ \A id : /\ Module(id)' = Module(id)
                    /\ Exports(Module(id))' = Exports(Module(id))
         /\ \A m, n : ImportsOf(m, n)' = ImportsOf(m, n)
         /\ \A i, n : Offers(i, n)' = Offers(i, n)
BY DEF Item, Modules, InGroup, LastSearch, GroupEnds, Module, ImportsOf,
       ConDesOf, Exports, Offers

LEMMA FilesInit == LinkInit /\ PlaceInit => FilesInv
<1> SUFFICES ASSUME LinkInit, PlaceInit  PROVE FilesInv
  OBVIOUS
<1>1. /\ job \in Jobs /\ stage = "files" /\ next = 1 /\ grouping = FALSE
      /\ openLibs = <<>> /\ objData = <<>> /\ referenced = {}
  BY DEF LinkInit
<1>2. Len(job.items) \in Nat /\ Len(openLibs) = 0 /\ ToSet(objData) = {}
  BY <1>1, LinkAssumption DEF ToSet
<1>3. FilesOK /\ GroupsOK /\ NextToEachOther
  <2>1. FilesOK
    <3>1. next \in 1 .. Len(job.items) + 1
      BY <1>1, <1>2
    <3>2. ~FilesAreIn /\ grouping \in BOOLEAN
      BY <1>1 DEF FilesAreIn
    <3>3. 1 .. Len(openLibs) = {}
      BY <1>2
    <3> QED  BY <3>1, <3>2, <3>3 DEF FilesOK
  <2>2. GroupsOK
    BY <1>1, <1>2 DEF GroupsOK, GroupOK
  <2>3. NextToEachOther
    BY <1>1, <1>2 DEF NextToEachOther
  <2> QED  BY <2>1, <2>2, <2>3
<1>4. LoadsOK
  <2>1. objData \in Seq(referenced)
    BY <1>1, EmptySeq
  <2> QED  BY <1>1, <1>2, <2>1 DEF LoadsOK, IsInjective
<1>5. RestOK /\ RoundOK /\ SearchedOK
  BY <1>1, <1>2 DEF RestOK, RoundOK, SearchedOK, Searched
<1> QED
  BY <1>3, <1>4, <1>5, CounterInit DEF FilesInv

LEMMA FilesTypes ==
  ASSUME FilesInv
  PROVE  /\ job \in Jobs /\ Len(job.items) \in Nat /\ next \in Nat \ {0}
         /\ Len(openLibs) \in Nat /\ DOMAIN openLibs = 1 .. Len(openLibs)
         /\ \A k \in 1 .. Len(openLibs) :
              openLibs[k] \in Nat \ {0} /\ openLibs[k] < next
         /\ openLibs \in Seq(1 .. Len(job.items))
         /\ Len(objData) \in Nat /\ DOMAIN objData = 1 .. Len(objData)
         /\ \A k \in 1 .. Len(objData) : objData[k] \in referenced
         /\ cursor.lib \in Nat \ {0} /\ cursor.mod \in Nat \ {0}
<1>1. PlacesOK
  BY DEF FilesInv, CounterInv, TableInv
<1>2. job \in Jobs /\ Len(job.items) \in Nat
  BY <1>1, LinkAssumption DEF PlacesOK
<1>3. next \in 1 .. Len(job.items) + 1
      /\ \A k \in 1 .. Len(openLibs) : openLibs[k] \in 1 .. next - 1
  BY DEF FilesInv, FilesOK
<1>4. /\ openLibs \in Seq(1 .. Len(job.items))
      /\ Len(openLibs) \in Nat /\ DOMAIN openLibs = 1 .. Len(openLibs)
  BY <1>1, LenProperties DEF PlacesOK
<1>5. objData \in Seq(referenced)
  BY DEF FilesInv, LoadsOK
<1>6. Len(objData) \in Nat /\ DOMAIN objData = 1 .. Len(objData)
      /\ \A k \in 1 .. Len(objData) : objData[k] \in referenced
  BY <1>5, LenProperties, ElementOfSeq
<1> QED
  BY <1>1, <1>2, <1>3, <1>4, <1>6 DEF PlacesOK

(* Steps that leave the files alone: the linker stops, or all files are in *)
(* and it goes on.                                                         *)
LEMMA FilesKept ==
  ASSUME FilesInv, CounterInv', UNCHANGED <<job, files>>,
         \A n \in Names : owner'[n] = Dummy => owner[n] = Dummy,
         stage' = "failed" \/ (FilesAreIn /\ FilesAreIn')
  PROVE  FilesInv'
<1> USE DEF files
<1>1. /\ UNCHANGED <<job, next, referenced, objData, grouping, openLibs,
                     cursor>>
      /\ stage' \notin Reading
  BY DEF FilesAreIn, Reading
<1>2. FilesOK'
  BY <1>1, SameJob DEF FilesInv, FilesOK, FilesAreIn, Item
<1>3. GroupsOK' /\ NextToEachOther' /\ RoundOK'
  BY <1>1 DEF GroupsOK, NextToEachOther, RoundOK, Reading
<1>4. LoadsOK'
  BY <1>1, SameJob DEF FilesInv, LoadsOK, Modules, Item
<1>5. RestOK'
  <2>1. ASSUME NEW id \in referenced, ToLoad(id)  PROVE ToLoad(id)'
    BY <1>1, <2>1 DEF ToLoad, Reading
  <2>2. ASSUME NEW id \in referenced, PassedOver(id)  PROVE PassedOver(id)'
    BY <1>1, <2>2, SameJob
    DEF PassedOver, OnlyObjects, IsOpen, Item, Modules, InGroup, GroupEnds
  <2> QED
    BY <1>1, <2>1, <2>2 DEF FilesInv, RestOK, Reading
<1>6. SearchedOK'
  <2> SUFFICES ASSUME stage' # "failed", NEW i \in 1 .. Len(job.items),
                      Searched(i)'
               PROVE  /\ LastSearch(i) \in 1 .. next - 1
                      /\ \A n \in Names :
                           (owner'[n] = Dummy /\ Offers(i, n)) =>
                           /\ n \notin job.forced
                           /\ \A id \in referenced :
                                ImportsOf(Module(id), n) > 0
                                  => id[1] > LastSearch(i)
    BY <1>1, SameJob DEF SearchedOK, Reading
  <2>1. stage # "failed" /\ Searched(i)
    BY <1>1, SameJob DEF Searched, Reading, FilesAreIn
  <2> QED
    BY <2>1 DEF FilesInv, SearchedOK
<1> QED
  BY <1>2, <1>3, <1>4, <1>5, <1>6 DEF FilesInv

(* Names that are missing after a module has been taken in                 *)
LEMMA TakesInSearched ==
  ASSUME FilesInv, NEW id, TakesIn(id), stage # "failed",
         NEW i \in 1 .. Len(job.items), Searched(i), id[1] > LastSearch(i),
         NEW n \in Names, owner'[n] = Dummy, Offers(i, n)
  PROVE  /\ n \notin job.forced
         /\ \A x \in referenced \union {id} :
              ImportsOf(Module(x), n) > 0 => x[1] > LastSearch(i)
<1>1. owner[n] \in {Dummy, NoEntry}
  BY TakenInTable DEF FilesInv, CounterInv, IsDefined, NoEntry, Dummy
<1>2. CASE owner[n] = Dummy
  BY <1>2 DEF FilesInv, SearchedOK
<1>3. CASE owner[n] = NoEntry
  <2>1. /\ n \notin job.forced
        /\ \A x \in referenced : ~(ImportsOf(Module(x), n) > 0)
    BY <1>3 DEF FilesInv, CounterInv, ImportsEntered
  <2> QED  BY <2>1
<1> QED
  BY <1>1, <1>2, <1>3

(* An object file is not in a library: it comes after all searches so far. *)
LEMMA FilesObjAdd ==
  ASSUME FilesInv, CounterInv', ObjAdd, ~Clash(<<next, 1>>)
  PROVE  FilesInv'
<1> DEFINE id == <<next, 1>>
<1>1. /\ stage = "files" /\ stage' = "files"
      /\ next <= Len(job.items) /\ Item(next).kind = "obj"
      /\ referenced' = referenced \union {id}
      /\ objData' = Append(objData, id)
      /\ next' = next + 1
      /\ UNCHANGED <<job, grouping, openLibs, cursor>>
  BY DEF ObjAdd, NextFile
<1>2. TakesIn(id)
  BY DEF ObjAdd, NextFile, TakesIn, Early
<1>3. id[1] = next /\ id[2] = 1
  OBVIOUS
<1>0. next' - 1 = next /\ next \in 1 .. Len(job.items)
  <2>1. next \in Nat \ {0} /\ Len(job.items) \in Nat
    BY FilesTypes
  <2> QED  BY <1>1, <2>1
<1> HIDE DEF id
<1>4. FilesOK'
  BY <1>1, FilesTypes DEF FilesInv, FilesOK, FilesAreIn, Item
<1>5. GroupsOK'
  <2>1. GroupOK
    BY <1>1 DEF FilesInv, GroupsOK, Reading
  <2>2. GroupOK'
    <3>1. CASE grouping
      <4>1. PICK s \in 1 .. next - 1 :
              /\ Item(s).kind = "start"
              /\ \A k \in 1 .. Len(openLibs) : s < openLibs[k]
              /\ \A e \in s .. next - 1 : Item(e).kind # "end"
        BY <1>1, <2>1, <3>1 DEF GroupOK
      <4>2. /\ s \in 1 .. next /\ Item(next).kind # "end"
            /\ \A e \in s .. next : e = next \/ e \in s .. next - 1
        BY <1>1, FilesTypes
      <4>3. \E t \in 1 .. next :
              /\ Item(t).kind = "start"
              /\ \A k \in 1 .. Len(openLibs) : t < openLibs[k]
              /\ \A e \in t .. next : Item(e).kind # "end"
        BY <4>1, <4>2
      <4> QED
        BY <1>0, <1>1, <3>1, <4>3 DEF GroupOK, Item
    <3>2. CASE ~grouping
      <4>1. \A s \in 1 .. next : Item(s).kind = "start" => s \in 1 .. next - 1
        BY <1>1, FilesTypes
      <4>2. \A s \in 1 .. next - 1 : Item(s).kind = "start" =>
              \E e \in s + 1 .. next : Item(e).kind = "end"
        BY <2>1, <3>2, FilesTypes DEF GroupOK
      <4> QED
        BY <1>1, <2>1, <3>2, <4>1, <4>2, FilesTypes DEF GroupOK, Item
    <3> QED  BY <3>1, <3>2
  <2> QED  BY <2>2 DEF GroupsOK
<1>6. NextToEachOther'
  BY SMTT(30), <1>1, FilesTypes
  DEF FilesInv, NextToEachOther, OnlyObjects, Reading, Item
<1>7. LoadsOK'
  <2>0. id \notin ToSet(objData)
    <3>1. \A i \in ToSet(objData) : i[1] \in 1 .. next - 1
      BY FilesTypes DEF FilesInv, LoadsOK, ToSet
    <3> QED  BY <1>0, <1>3, <3>1
  <2>1. objData \in Seq(referenced') /\ IsInjective(objData)
    BY <1>1, SeqMonotonic DEF FilesInv, LoadsOK
  <2>2. id \in referenced'
    BY <1>1
  <2>3. /\ objData' \in Seq(referenced') /\ IsInjective(objData')
        /\ \A i \in ToSet(objData') : i \in ToSet(objData) \/ i = id
        /\ \A i \in ToSet(objData) \union {id} : i \in ToSet(objData')
    BY <1>1, <2>0, <2>1, <2>2, AppendsOnce
  <2>4. \A i \in referenced' : i[1] \in 1 .. next /\ i \in Modules(i[1])
    <3>1. \A i \in referenced : i[1] \in 1 .. next /\ i \in Modules(i[1])
      BY FilesTypes DEF FilesInv, LoadsOK
    <3>2. Len(Item(next).modules) = 1
      BY <1>0, <1>1, FilesTypes, LinkAssumption DEF Item
    <3>3. id \in Modules(id[1])
      BY SMTT(30), <1>3, <3>2 DEF Modules, id
    <3> QED  BY <1>1, <1>3, <3>1, <3>3, FilesTypes
  <2>5. \A i \in ToSet(objData'), k \in 1 .. Len(openLibs) : openLibs[k] # i[1]
    <3>1. \A i \in ToSet(objData') : i \in ToSet(objData) \/ i = id
      BY <2>3
    <3>2. \A i \in ToSet(objData), k \in 1 .. Len(openLibs) :
            openLibs[k] # i[1]
      BY <1>1 DEF FilesInv, LoadsOK, Reading
    <3> QED  BY <1>3, <3>1, <3>2, FilesTypes
  <2> QED
    BY <1>0, <1>1, <2>3, <2>4, <2>5, SameJob DEF LoadsOK
<1>8. RestOK'
  <2> SUFFICES ASSUME NEW i \in referenced' \ ToSet(objData')
               PROVE  ToLoad(i)' \/ PassedOver(i)'
    BY <1>1 DEF RestOK
  <2>1. i \in referenced \ ToSet(objData)
    <3>1. \A x \in ToSet(objData) \union {id} : x \in ToSet(objData')
      BY SMTT(30), <1>1, FilesTypes, AppendProperties DEF ToSet
    <3> QED  BY <1>1, <3>1
  <2>2. CASE ToLoad(i)
    BY <1>1, <2>2 DEF ToLoad
  <2>3. CASE PassedOver(i)
    <3>1. PICK p \in 1 .. i[1] - 1 :
            /\ Item(p).kind = "lib" /\ Modules(p) \cap referenced = {}
            /\ ~IsOpen(p) /\ OnlyObjects(p, i[1])
      BY <2>3 DEF PassedOver
    <3>2. p # next
      BY <1>1, <3>1
    <3>3. \A x \in Modules(p) : x[1] = p
      BY DEF Modules
    <3>4. Modules(p) \cap referenced' = {}
      BY <1>1, <1>3, <3>1, <3>2, <3>3
    <3>5. ~IsOpen(p)' /\ OnlyObjects(p, i[1])'
      BY <1>1, <3>1 DEF IsOpen, OnlyObjects, Item
    <3> QED
      BY <1>1, <2>3, <3>1, <3>4, <3>5, SameJob DEF PassedOver
  <2> QED
    BY <2>1, <2>2, <2>3 DEF FilesInv, RestOK
<1>9. RoundOK'
  BY <1>1 DEF RoundOK
<1>10. SearchedOK'
  <2> SUFFICES ASSUME NEW i \in 1 .. Len(job.items), Searched(i)'
               PROVE  /\ LastSearch(i) \in 1 .. next
                      /\ \A k \in 1 .. Len(openLibs) :
                           LastSearch(i) < openLibs[k]
                      /\ \A n \in Names :
                           (owner'[n] = Dummy /\ Offers(i, n)) =>
                           /\ n \notin job.forced
                           /\ \A x \in referenced \union {id} :
                                ImportsOf(Module(x), n) > 0
                                  => x[1] > LastSearch(i)
    BY <1>0, <1>1, SameJob DEF SearchedOK
  <2>1. Searched(i)
    BY <1>0, <1>1, SameJob, FilesTypes DEF Searched, IsOpen
  <2>2. /\ LastSearch(i) \in 1 .. next - 1
        /\ \A k \in 1 .. Len(openLibs) : LastSearch(i) < openLibs[k]
    BY <1>1, <2>1 DEF FilesInv, SearchedOK
  <2>3. id[1] > LastSearch(i) /\ LastSearch(i) \in 1 .. next
    BY <1>3, <2>2, FilesTypes
  <2>4. ASSUME NEW n \in Names, owner'[n] = Dummy, Offers(i, n)
        PROVE  /\ n \notin job.forced
               /\ \A x \in referenced \union {id} :
                    ImportsOf(Module(x), n) > 0 => x[1] > LastSearch(i)
    BY <1>1, <1>2, <2>1, <2>3, <2>4, TakesInSearched
  <2> QED
    BY <2>2, <2>3, <2>4
<1> QED
  BY <1>4, <1>5, <1>6, <1>7, <1>8, <1>9, <1>10 DEF FilesInv

(* What an option or a library that is only noted leaves as it is          *)
LEMMA NothingTaken ==
  ASSUME FilesInv, stage = "files", stage' \in {"files", "search"},
         UNCHANGED <<job, owner, referenced, objData>>,
         next \in 1 .. Len(job.items), next' = next + 1,
         \/ openLibs' = openLibs /\ Item(next).kind # "lib"
         \/ openLibs' = Append(openLibs, next),
         stage' = "search" =>
           cursor' = [lib |-> 1, mod |-> 1, added |-> FALSE]
  PROVE  LoadsOK' /\ RestOK' /\ RoundOK' /\ SearchedOK'
<1> DEFINE len == Len(openLibs)
<1>0. /\ next' - 1 = next /\ next \in Nat \ {0}
      /\ \A k \in 1 .. len : openLibs[k] \in 1 .. next - 1
      /\ len \in Nat
  BY FilesTypes
<1>1. /\ len <= Len(openLibs')
      /\ \A k \in 1 .. len : openLibs'[k] = openLibs[k]
      /\ \A k \in 1 .. Len(openLibs') :
           k \in 1 .. len \/ openLibs'[k] = next
      /\ Item(next).kind = "lib" => \E k \in 1 .. Len(openLibs') :
           openLibs'[k] = next
  <2>1. CASE openLibs' = openLibs /\ Item(next).kind # "lib"
    BY <1>0, <2>1
  <2>2. CASE openLibs' = Append(openLibs, next)
    <3>1. /\ Len(openLibs') = len + 1
          /\ \A k \in 1 .. len : openLibs'[k] = openLibs[k]
          /\ openLibs'[len + 1] = next
      BY <2>2, FilesTypes, AppendProperties
    <3> QED  BY <1>0, <3>1
  <2> QED  BY <2>1, <2>2
<1> HIDE DEF len
<1>2. LoadsOK'
  <2>1. \A i \in referenced : i[1] \in 1 .. next - 1 /\ i \in Modules(i[1])
    BY DEF FilesInv, LoadsOK
  <2>2. \A i \in ToSet(objData) : i \in referenced
    BY FilesTypes DEF ToSet
  <2>3. ASSUME NEW i \in ToSet(objData), NEW k \in 1 .. Len(openLibs'),
               openLibs'[k] = i[1]
        PROVE  FALSE
    <3>1. i[1] # next
      BY <1>0, <2>1, <2>2
    <3>2. k \in 1 .. len /\ openLibs[k] = i[1]
      BY <1>1, <2>3, <3>1
    <3> QED
      BY <3>2 DEF FilesInv, LoadsOK, Reading, len
  <2>4. /\ objData' \in Seq(referenced') /\ IsInjective(objData')
        /\ \A i \in referenced' : i[1] \in 1 .. next' - 1
    BY <1>0, <2>1 DEF FilesInv, LoadsOK
  <2> QED
    BY <2>1, <2>3, <2>4, SameJob DEF LoadsOK
<1>3. RestOK'
  <2> SUFFICES ASSUME NEW i \in referenced \ ToSet(objData)
               PROVE  ToLoad(i)' \/ PassedOver(i)'
    BY DEF RestOK
  <2>1. CASE ToLoad(i)
    BY <1>0, <1>1, <2>1 DEF ToLoad, len
  <2>2. CASE PassedOver(i)
    <3>1. PICK p \in 1 .. i[1] - 1 :
            /\ Item(p).kind = "lib" /\ Modules(p) \cap referenced = {}
            /\ ~IsOpen(p) /\ OnlyObjects(p, i[1])
      BY <2>2 DEF PassedOver
    <3>2. p # next
      BY <1>0, <3>1 DEF FilesInv, LoadsOK
    <3>3. ~IsOpen(p)' /\ OnlyObjects(p, i[1])'
      BY <1>1, <3>1, <3>2 DEF IsOpen, OnlyObjects, Item, len
    <3> QED
      BY <2>2, <3>1, <3>3, SameJob DEF PassedOver
  <2> QED
    BY <2>1, <2>2 DEF FilesInv, RestOK
<1>4. RoundOK'
  <2> SUFFICES ASSUME stage' = "search", NEW k \in 1 .. Len(openLibs'),
                      NEW j \in 1 .. Len(Item(openLibs'[k]).modules)
               PROVE  ~(k < 1 \/ (k = 1 /\ j < 1))
    BY SameJob DEF RoundOK
  <2> QED  OBVIOUS
<1>5. SearchedOK'
  <2> SUFFICES ASSUME NEW i \in 1 .. Len(job.items), Searched(i)'
               PROVE  /\ LastSearch(i) \in 1 .. next
                      /\ \A k \in 1 .. Len(openLibs') :
                           LastSearch(i) < openLibs'[k]
                      /\ \A n \in Names : (owner[n] = Dummy /\ Offers(i, n)) =>
                           /\ n \notin job.forced
                           /\ \A x \in referenced :
                                ImportsOf(Module(x), n) > 0
                                  => x[1] > LastSearch(i)
    BY <1>0, SameJob DEF SearchedOK
  <2>1. Searched(i)
    <3>1. i \in 1 .. next /\ Item(i).kind = "lib" /\ ~IsOpen(i)'
      BY <1>0, SameJob DEF Searched
    <3>2. i # next
      BY <1>1, <3>1 DEF IsOpen
    <3>3. ~IsOpen(i)
      BY <1>0, <1>1, <3>1 DEF IsOpen, len
    <3> QED  BY <1>0, <3>1, <3>2, <3>3 DEF Searched
  <2>2. /\ LastSearch(i) \in 1 .. next - 1
        /\ \A k \in 1 .. len : LastSearch(i) < openLibs[k]
        /\ \A n \in Names : (owner[n] = Dummy /\ Offers(i, n)) =>
             /\ n \notin job.forced
             /\ \A x \in referenced :
                  ImportsOf(Module(x), n) > 0 => x[1] > LastSearch(i)
    BY <2>1 DEF FilesInv, SearchedOK, len
  <2>3. \A k \in 1 .. Len(openLibs') : LastSearch(i) < openLibs'[k]
    BY <1>0, <1>1, <2>2
  <2> QED
    BY <1>0, <2>2, <2>3
<1> QED
  BY <1>2, <1>3, <1>4, <1>5

LEMMA FilesLibAdd ==
  ASSUME FilesInv, CounterInv', LibAdd
  PROVE  FilesInv'
<1> DEFINE len == Len(openLibs)
<1>1. /\ stage = "files" /\ stage' = IF grouping THEN "files" ELSE "search"
      /\ next <= Len(job.items) /\ Item(next).kind = "lib"
      /\ openLibs' = Append(openLibs, next)
      /\ next' = next + 1
      /\ UNCHANGED <<job, owner, referenced, objData, grouping>>
      /\ ~grouping => cursor' = [lib |-> 1, mod |-> 1, added |-> FALSE]
  BY DEF LibAdd, NextFile, StartSearch, table
<1>0. /\ next' - 1 = next /\ next \in 1 .. Len(job.items)
      /\ len \in Nat
      /\ \A k \in 1 .. len : openLibs[k] \in 1 .. next - 1
  <2>1. next \in Nat \ {0} /\ Len(job.items) \in Nat
    BY FilesTypes
  <2> QED  BY <1>1, <2>1, FilesTypes
<1>2. /\ Len(openLibs') = len + 1
      /\ \A k \in 1 .. len : openLibs'[k] = openLibs[k]
      /\ openLibs'[len + 1] = next
      /\ \A k \in 1 .. len + 1 : k \in 1 .. len \/ k = len + 1
  BY <1>0, <1>1, FilesTypes, AppendProperties
<1>3. LoadsOK' /\ RestOK' /\ RoundOK' /\ SearchedOK'
  BY <1>0, <1>1, NothingTaken
<1>4. FilesOK'
  <2>1. ASSUME NEW k \in 1 .. len + 1
        PROVE  openLibs'[k] \in 1 .. next /\ Item(openLibs'[k]).kind = "lib"
    BY <1>0, <1>1, <1>2 DEF FilesInv, FilesOK, len
  <2>2. ASSUME NEW k \in 1 .. len + 1, NEW l \in 1 .. len + 1, k < l
        PROVE  openLibs'[k] < openLibs'[l]
    <3>1. k \in 1 .. len
      BY <1>0, <2>2
    <3>2. CASE l \in 1 .. len
      BY <1>2, <2>2, <3>1, <3>2 DEF FilesInv, FilesOK, len
    <3>3. CASE l = len + 1
      BY <1>0, <1>2, <3>1, <3>3
    <3> QED  BY <1>2, <3>2, <3>3
  <2>3. ~FilesAreIn' /\ grouping' \in BOOLEAN
    BY <1>1 DEF FilesAreIn, FilesInv, FilesOK
  <2>4. next' \in 1 .. Len(job.items) + 1
    BY <1>0, <1>1, FilesTypes
  <2> HIDE DEF len
  <2> QED
    BY <1>0, <1>1, <1>2, <2>1, <2>2, <2>3, <2>4, SameJob DEF FilesOK
<1>5. GroupsOK'
  <2>1. GroupOK
    BY <1>1 DEF FilesInv, GroupsOK, Reading
  <2>2. CASE grouping
    <3>1. PICK s \in 1 .. next - 1 :
            /\ Item(s).kind = "start"
            /\ \A k \in 1 .. len : s < openLibs[k]
            /\ \A e \in s .. next - 1 : Item(e).kind # "end"
      BY <1>1, <2>1, <2>2 DEF GroupOK
    <3>2. /\ s \in 1 .. next
          /\ \A k \in 1 .. len + 1 : s < openLibs'[k]
          /\ \A e \in s .. next : Item(e).kind # "end"
      <4>1. \A e \in s .. next : e = next \/ e \in s .. next - 1
        BY <1>0
      <4> QED  BY <1>0, <1>1, <1>2, <3>1, <4>1
    <3>3. \E t \in 1 .. next :
            /\ Item(t).kind = "start"
            /\ \A k \in 1 .. len + 1 : t < openLibs'[k]
            /\ \A e \in t .. next : Item(e).kind # "end"
      BY <3>1, <3>2
    <3> QED
      BY <1>0, <1>1, <1>2, <2>2, <3>3, SameJob DEF GroupsOK, GroupOK
  <2>3. CASE ~grouping
    <3>1. len = 0
      BY <1>1, <2>1, <2>3 DEF GroupOK
    <3>2. \A k \in 1 .. Len(openLibs') : k = 1 /\ openLibs'[k] = next
      BY <1>2, <3>1
    <3>3. \A s \in 1 .. next : Item(s).kind = "start" =>
            \E e \in s + 1 .. next : Item(e).kind = "end"
      <4>1. \A s \in 1 .. next : Item(s).kind = "start" => s \in 1 .. next - 1
        BY <1>0, <1>1
      <4>2. \A s \in 1 .. next - 1 : Item(s).kind = "start" =>
              \E e \in s + 1 .. next - 1 : Item(e).kind = "end"
        BY <2>1, <2>3 DEF GroupOK
      <4>3. \A s \in 1 .. next - 1 :
              \A e \in s + 1 .. next - 1 : e \in s + 1 .. next
        BY <1>0
      <4> QED  BY <4>1, <4>2, <4>3
    <3>4. next' > 1
      BY <1>0, <1>1
    <3> QED
      BY <1>0, <1>1, <2>3, <3>2, <3>3, <3>4, SameJob DEF GroupsOK, GroupOK
  <2> QED  BY <2>2, <2>3 DEF FilesInv, FilesOK
<1>6. NextToEachOther'
  <2>1. ASSUME NEW k \in 1 .. len
        PROVE  OnlyObjects(openLibs'[k], openLibs'[k + 1])
    <3>1. CASE k + 1 \in 1 .. len
      BY <1>0, <1>1, <1>2, <3>1 DEF FilesInv, NextToEachOther, Reading, len
    <3>2. CASE k = len
      <4>1. openLibs # <<>>
        BY <1>0, <3>2, EmptySeq
      <4> QED
        BY <1>1, <1>2, <3>2, <4>1 DEF FilesInv, NextToEachOther, Reading
    <3> QED  BY <1>0, <3>1, <3>2
  <2>2. OnlyObjects(next, next + 1)
    BY <1>0 DEF OnlyObjects
  <2>3. Len(openLibs') - 1 = len /\ openLibs'[Len(openLibs')] = next
    BY <1>0, <1>2
  <2> HIDE DEF len
  <2> QED
    BY <1>0, <1>1, <2>1, <2>2, <2>3
    DEF NextToEachOther, OnlyObjects, Item
<1> QED
  BY <1>3, <1>4, <1>5, <1>6 DEF FilesInv

LEMMA FilesStartGroup ==
  ASSUME FilesInv, CounterInv', LibStartGroup, ~grouping
  PROVE  FilesInv'
<1>1. /\ stage = "files" /\ stage' = "files"
      /\ next <= Len(job.items) /\ Item(next).kind = "start"
      /\ next' = next + 1 /\ grouping' = TRUE
      /\ UNCHANGED <<job, owner, referenced, objData, openLibs>>
  BY DEF LibStartGroup, NextFile, table
<1>0. next' - 1 = next /\ next \in 1 .. Len(job.items)
  <2>1. next \in Nat \ {0} /\ Len(job.items) \in Nat
    BY FilesTypes
  <2> QED  BY <1>1, <2>1
<1>2. openLibs = <<>> /\ Len(openLibs) = 0
  BY <1>1 DEF FilesInv, GroupsOK, GroupOK, Reading
<1>3. LoadsOK' /\ RestOK' /\ RoundOK' /\ SearchedOK'
  BY <1>0, <1>1, NothingTaken
<1>4. FilesOK'
  <2>1. next' \in 1 .. Len(job.items) + 1
    BY <1>0, <1>1, FilesTypes
  <2> QED
    BY <1>1, <1>2, <2>1 DEF FilesOK, FilesAreIn
<1>5. GroupsOK'
  <2>1. \A e \in next .. next : Item(e).kind # "end"
    BY <1>0, <1>1
  <2>2. \E s \in 1 .. next :
          /\ Item(s).kind = "start"
          /\ \A k \in 1 .. Len(openLibs) : s < openLibs[k]
          /\ \A e \in s .. next : Item(e).kind # "end"
    BY <1>0, <1>1, <1>2, <2>1
  <2> QED
    BY <1>0, <1>1, <2>2, SameJob DEF GroupsOK, GroupOK
<1>6. NextToEachOther'
  BY <1>1, <1>2 DEF NextToEachOther
<1> QED
  BY <1>3, <1>4, <1>5, <1>6 DEF FilesInv

LEMMA FilesEndGroup ==
  ASSUME FilesInv, CounterInv', LibEndGroup, grouping
  PROVE  FilesInv'
<1>1. /\ stage = "files" /\ stage' = "search"
      /\ next <= Len(job.items) /\ Item(next).kind = "end"
      /\ next' = next + 1
      /\ cursor' = [lib |-> 1, mod |-> 1, added |-> FALSE]
      /\ UNCHANGED <<job, owner, referenced, objData, grouping, openLibs>>
  BY DEF LibEndGroup, NextFile, StartSearch, table
<1>0. next' - 1 = next /\ next \in 1 .. Len(job.items)
  <2>1. next \in Nat \ {0} /\ Len(job.items) \in Nat
    BY FilesTypes
  <2> QED  BY <1>1, <2>1
<1>2. LoadsOK' /\ RestOK' /\ RoundOK' /\ SearchedOK'
  BY <1>0, <1>1, NothingTaken
<1>3. FilesOK'
  <2>1. /\ next' \in 1 .. Len(job.items) + 1
        /\ \A k \in 1 .. Len(openLibs) : openLibs[k] \in 1 .. next
    BY <1>0, <1>1, FilesTypes
  <2> QED
    BY <1>0, <1>1, <2>1, SameJob DEF FilesInv, FilesOK, FilesAreIn
<1>4. GroupsOK'
  <2>1. PICK s \in 1 .. next - 1 :
          /\ Item(s).kind = "start"
          /\ \A k \in 1 .. Len(openLibs) : s < openLibs[k]
          /\ \A e \in s .. next - 1 : Item(e).kind # "end"
    BY <1>1 DEF FilesInv, GroupsOK, GroupOK, Reading
  <2>2. s \in 1 .. next /\ \A e \in s .. next : e = next \/ e \in s .. next - 1
    BY <1>0
  <2>3. \E t \in 1 .. next :
          /\ Item(t).kind = "start"
          /\ \A k \in 1 .. Len(openLibs) : t < openLibs[k]
          /\ \A e \in t .. next : Item(e).kind = "end" => e = next
    BY <2>1, <2>2
  <2>4. next' > 1
    BY <1>0, <1>1
  <2> QED
    BY <1>0, <1>1, <2>3, <2>4, SameJob DEF GroupsOK, GroupOK
<1>5. NextToEachOther'
  BY <1>1, SameJob DEF FilesInv, NextToEachOther, OnlyObjects, Reading, Item
<1> QED
  BY <1>2, <1>3, <1>4, <1>5 DEF FilesInv

(* A look at a module of which nothing comes, or a new round               *)
LEMMA SearchMoves ==
  ASSUME FilesInv, CounterInv', RoundOK', stage = "search",
         UNCHANGED <<job, stage, owner, next, referenced, objData, grouping,
                     openLibs>>
  PROVE  FilesInv'
<1>1. FilesOK' /\ GroupsOK' /\ NextToEachOther'
  <2>1. FilesOK'
    BY SameJob DEF FilesInv, FilesOK, FilesAreIn
  <2>2. GroupsOK'
    BY SameJob DEF FilesInv, GroupsOK, GroupOK
  <2>3. NextToEachOther'
    BY SameJob DEF FilesInv, NextToEachOther, OnlyObjects
  <2> QED  BY <2>1, <2>2, <2>3
<1>2. LoadsOK'
  BY SameJob DEF FilesInv, LoadsOK, Reading
<1>3. RestOK'
  <2>1. ASSUME NEW id \in referenced, ToLoad(id)  PROVE ToLoad(id)'
    BY <2>1 DEF ToLoad
  <2>2. ASSUME NEW id \in referenced, PassedOver(id)  PROVE PassedOver(id)'
    BY <2>2, SameJob
    DEF PassedOver, OnlyObjects, IsOpen, Item, Modules, InGroup, GroupEnds
  <2> QED
    BY <2>1, <2>2 DEF FilesInv, RestOK
<1>4. SearchedOK'
  BY SameJob DEF FilesInv, SearchedOK, Searched, IsOpen, Item
<1> QED
  BY <1>1, <1>2, <1>3, <1>4 DEF FilesInv

(* The module the linker looks at                                          *)
LEMMA AtCursor ==
  ASSUME FilesInv, NEW what, AtModule(what)
  PROVE  /\ cursor.lib \in 1 .. Len(openLibs)
         /\ cursor.mod \in 1 .. Len(Item(openLibs[cursor.lib]).modules)
         /\ openLibs[cursor.lib] \in 1 .. next - 1
         /\ openLibs[cursor.lib] \in 1 .. Len(job.items)
         /\ Exports(Module(<<openLibs[cursor.lib], cursor.mod>>))
              \subseteq Names
         /\ <<openLibs[cursor.lib], cursor.mod>>
              \in Modules(openLibs[cursor.lib])
<1>1. cursor.lib \in 1 .. Len(openLibs)
  BY FilesTypes DEF AtModule
<1>2. openLibs[cursor.lib] \in 1 .. next - 1
  BY <1>1 DEF FilesInv, FilesOK
<1>3. openLibs[cursor.lib] \in 1 .. Len(job.items)
  BY <1>1, FilesTypes, ElementOfSeq
<1>4. Len(Item(openLibs[cursor.lib]).modules) \in Nat
  BY <1>3, FilesTypes, LinkAssumption DEF Item
<1>5. cursor.mod \in 1 .. Len(Item(openLibs[cursor.lib]).modules)
  BY <1>4, FilesTypes DEF AtModule
<1>6. Exports(Module(<<openLibs[cursor.lib], cursor.mod>>)) \subseteq Names
  BY <1>3, <1>5, FilesTypes, LinkAssumption DEF Exports, Module, Item
<1> QED
  BY <1>1, <1>2, <1>3, <1>5, <1>6 DEF Modules

(* A round goes on when nothing before its new place is missing.           *)
LEMMA RoundMoves ==
  ASSUME UNCHANGED <<job, owner, openLibs>>,
         \A k \in 1 .. Len(openLibs) :
           \A j \in 1 .. Len(Item(openLibs[k]).modules) :
             (k < cursor'.lib \/ (k = cursor'.lib /\ j < cursor'.mod)) =>
               \A n \in Exports(Module(<<openLibs[k], j>>)) : owner[n] # Dummy
  PROVE  RoundOK'
BY DEF RoundOK, Item, Module, Exports

(* A module that is taken in comes from an open library, which no search   *)
(* that is over has reached; one that is not exports nothing missing.      *)
LEMMA FilesCheckExports ==
  ASSUME FilesInv, CounterInv', LibCheckExports, stage' # "failed"
  PROVE  FilesInv'
<1> DEFINE id     == <<openLibs[cursor.lib], cursor.mod>>
           needed == /\ id \notin referenced
                     /\ \E n \in Exports(Module(id)) : IsUnresolved(n)
<1>1. /\ stage = "search" /\ stage' = stage
      /\ UNCHANGED <<job, next, objData, grouping, openLibs>>
      /\ cursor' = NextIndex(needed)
      /\ AtModule("search")
      /\ needed => InsertObjGlobals(id) /\ referenced' = referenced \union {id}
      /\ ~needed => UNCHANGED <<referenced, owner>>
  BY DEF LibCheckExports, DuplicateIdentifier, Fail, AtModule, table
<1>2. /\ cursor.lib \in 1 .. Len(openLibs)
      /\ cursor.mod \in Nat /\ Len(openLibs) \in Nat
      /\ id[1] = openLibs[cursor.lib] /\ id[1] \in 1 .. next - 1
      /\ Exports(Module(id)) \subseteq Names
      /\ id \in Modules(id[1])
  BY <1>1, AtCursor, FilesTypes
<1>3. CASE ~needed
  <2>1. ASSUME NEW n \in Exports(Module(id))  PROVE owner[n] # Dummy
    <3>1. CASE id \in referenced
      BY <2>1, <3>1 DEF FilesInv, CounterInv, TableInv, ExportsDefined,
                        IsDefined
    <3>2. CASE ~IsUnresolved(n)
      BY <1>2, <3>2, LinkAssumption DEF IsUnresolved
    <3> QED  BY <1>3, <3>1, <3>2
  <2>0. cursor.added => cursor'.added
    BY <1>1 DEF NextIndex
  <2>2. /\ cursor'.lib = cursor.lib /\ cursor'.mod = cursor.mod + 1
        /\ openLibs' = openLibs /\ owner' = owner /\ job' = job
    BY <1>1, <1>3 DEF NextIndex
  <2> HIDE DEF id, needed
  <2>3. RoundOK'
    <3>1. CASE cursor.added
      BY <2>0, <3>1 DEF RoundOK
    <3>2. CASE ~cursor.added
      <4>1. ASSUME NEW k \in 1 .. Len(openLibs),
                   NEW j \in 1 .. Len(Item(openLibs[k]).modules),
                   NEW n \in Exports(Module(<<openLibs[k], j>>)),
                   k < cursor'.lib \/ (k = cursor'.lib /\ j < cursor'.mod)
            PROVE  owner[n] # Dummy
        <5>1. CASE k = cursor.lib /\ j = cursor.mod
          BY <2>1, <5>1 DEF id
        <5>2. CASE k < cursor.lib \/ (k = cursor.lib /\ j < cursor.mod)
          BY <1>1, <3>2, <5>2 DEF FilesInv, RoundOK
        <5> QED  BY <1>2, <2>2, <4>1, <5>1, <5>2
      <4> QED
        BY <2>2, <4>1, RoundMoves
    <3> QED  BY <3>1, <3>2
  <2> QED
    BY <1>1, <1>3, <2>3, SearchMoves
<1>4. CASE needed
  <2>1. /\ TakesIn(id) /\ referenced' = referenced \union {id}
        /\ cursor'.added
    BY <1>1, <1>4 DEF TakesIn, Early, NextIndex
  <2> HIDE DEF id, needed
  <2>2. FilesOK' /\ GroupsOK' /\ NextToEachOther'
    <3>1. FilesOK'
      BY <1>1, SameJob DEF FilesInv, FilesOK, FilesAreIn
    <3>2. GroupsOK'
      BY <1>1, SameJob DEF FilesInv, GroupsOK, GroupOK
    <3>3. NextToEachOther'
      BY <1>1, SameJob DEF FilesInv, NextToEachOther, OnlyObjects
    <3> QED  BY <3>1, <3>2, <3>3
  <2>3. LoadsOK'
    <3>1. objData' \in Seq(referenced')
      BY <1>1, <2>1, SeqMonotonic DEF FilesInv, LoadsOK
    <3>2. \A i \in referenced' : i[1] \in 1 .. next - 1 /\ i \in Modules(i[1])
      BY <1>2, <2>1 DEF FilesInv, LoadsOK
    <3> QED
      BY <1>1, <3>1, <3>2, SameJob DEF FilesInv, LoadsOK, Reading
  <2>4. RestOK'
    <3> SUFFICES ASSUME NEW i \in referenced' \ ToSet(objData)
                 PROVE  ToLoad(i)' \/ PassedOver(i)'
      BY <1>1 DEF RestOK
    <3>1. CASE i = id \/ ToLoad(i)
      BY <1>1, <1>2, <3>1 DEF ToLoad
    <3>2. CASE i # id /\ PassedOver(i)
      <4>1. PICK p \in 1 .. i[1] - 1 :
              /\ Item(p).kind = "lib" /\ Modules(p) \cap referenced = {}
              /\ ~IsOpen(p) /\ OnlyObjects(p, i[1])
        BY <3>2 DEF PassedOver
      <4>2. p # id[1]
        BY <1>2, <4>1 DEF IsOpen
      <4>3. \A x \in Modules(p) : x[1] = p
        BY DEF Modules
      <4>4. Modules(p) \cap referenced' = {}
        BY <2>1, <4>1, <4>2, <4>3
      <4>5. ~IsOpen(p)' /\ OnlyObjects(p, i[1])'
        BY <1>1, <4>1 DEF IsOpen, OnlyObjects, Item
      <4> QED
        BY <1>1, <3>2, <4>1, <4>4, <4>5, SameJob DEF PassedOver
    <3> QED
      BY <2>1, <3>1, <3>2 DEF FilesInv, RestOK
  <2>5. RoundOK'
    BY <2>1 DEF RoundOK
  <2>6. SearchedOK'
    <3> SUFFICES ASSUME NEW i \in 1 .. Len(job.items), Searched(i)
                 PROVE  /\ LastSearch(i) \in 1 .. next - 1
                        /\ \A k \in 1 .. Len(openLibs) :
                             LastSearch(i) < openLibs[k]
                        /\ \A n \in Names :
                             (owner'[n] = Dummy /\ Offers(i, n)) =>
                             /\ n \notin job.forced
                             /\ \A x \in referenced \union {id} :
                                  ImportsOf(Module(x), n) > 0
                                    => x[1] > LastSearch(i)
      BY <1>1, <2>1, SameJob DEF SearchedOK, Searched, IsOpen
    <3>1. /\ LastSearch(i) \in 1 .. next - 1
          /\ \A k \in 1 .. Len(openLibs) : LastSearch(i) < openLibs[k]
      BY <1>1 DEF FilesInv, SearchedOK
    <3>2. id[1] > LastSearch(i)
      BY <1>2, <3>1
    <3> QED
      BY <1>1, <2>1, <3>1, <3>2, TakesInSearched
  <2> QED
    BY <2>2, <2>3, <2>4, <2>5, <2>6 DEF FilesInv
<1> QED
  BY <1>3, <1>4

LEMMA FilesNextLibrary ==
  ASSUME FilesInv, CounterInv',
         NextLibrary \/ (EndOfRound /\ cursor.added)
  PROVE  FilesInv'
<1>1. /\ stage = "search" /\ stage' = stage
      /\ UNCHANGED <<job, owner, next, referenced, objData, grouping,
                     openLibs>>
  BY DEF NextLibrary, PastModules, EndOfRound, table
<1>2. CASE NextLibrary
  <2>1. /\ cursor' = [lib |-> cursor.lib + 1, mod |-> 1, added |-> cursor.added]
        /\ cursor.lib <= Len(openLibs)
        /\ cursor.mod > Len(Item(openLibs[cursor.lib]).modules)
    BY <1>2 DEF NextLibrary, PastModules
  <2>2. /\ cursor.lib \in 1 .. Len(openLibs) /\ cursor.mod \in Nat
        /\ Len(Item(openLibs[cursor.lib]).modules) \in Nat
    <3>1. cursor.lib \in 1 .. Len(openLibs)
      BY <2>1, FilesTypes
    <3>2. openLibs[cursor.lib] \in 1 .. Len(job.items)
      BY <3>1, FilesTypes, ElementOfSeq
    <3> QED
      BY <3>1, <3>2, FilesTypes, LinkAssumption DEF Item
  <2>3. RoundOK'
    <3> SUFFICES ASSUME ~cursor.added, NEW k \in 1 .. Len(openLibs),
                        NEW j \in 1 .. Len(Item(openLibs[k]).modules),
                        k < cursor.lib + 1 \/ (k = cursor.lib + 1 /\ j < 1),
                        NEW n \in Exports(Module(<<openLibs[k], j>>))
                 PROVE  owner[n] # Dummy
      BY <1>1, <2>1, SameJob DEF RoundOK
    <3>1. k < cursor.lib \/ (k = cursor.lib /\ j < cursor.mod)
      <4>1. CASE k = cursor.lib
        BY <2>1, <2>2, <4>1
      <4> QED  BY <2>2, <4>1
    <3> QED
      BY <1>1, <3>1 DEF FilesInv, RoundOK
  <2> QED
    BY <1>1, <2>3, SearchMoves
<1>3. CASE EndOfRound /\ cursor.added
  <2>1. cursor' = [lib |-> 1, mod |-> 1, added |-> FALSE]
    BY <1>3 DEF EndOfRound
  <2>2. RoundOK'
    <3> SUFFICES ASSUME NEW k \in 1 .. Len(openLibs),
                        NEW j \in 1 .. Len(Item(openLibs[k]).modules)
                 PROVE  ~(k < 1 \/ (k = 1 /\ j < 1))
      BY <1>1, <2>1, SameJob DEF RoundOK
    <3> QED  OBVIOUS
  <2> QED
    BY <1>1, <2>2, SearchMoves
<1> QED
  BY <1>2, <1>3

(* A library that is looked for at the end of a group                      *)
LEMMA OpenInGroup ==
  ASSUME FilesInv, stage \in {"search", "load"}, NEW k \in 1 .. Len(openLibs)
  PROVE  /\ grouping => /\ InGroup(openLibs[k])
                        /\ next - 1 \in GroupEnds(openLibs[k])
         /\ ~grouping => /\ k = 1 /\ openLibs[k] = next - 1
                         /\ ~InGroup(openLibs[k])
<1>0. /\ openLibs[k] \in 1 .. next - 1 /\ Item(openLibs[k]).kind = "lib"
      /\ next \in 1 .. Len(job.items) + 1 /\ Len(job.items) \in Nat
      /\ next > 1
      /\ GroupOK /\ stage # "files"
  BY FilesTypes DEF FilesInv, FilesOK, GroupsOK, GroupOK, Reading
<1>1. CASE grouping
  <2>1. PICK s \in 1 .. next - 1 :
          /\ Item(s).kind = "start" /\ s < openLibs[k]
          /\ \A e \in s .. next - 1 : Item(e).kind = "end" => e = next - 1
    BY <1>0, <1>1 DEF GroupOK
  <2>2. Item(next - 1).kind = "end" /\ openLibs[k] < next - 1
    <3>1. Item(next - 1).kind = "end"
      BY <1>0, <1>1 DEF GroupOK
    <3>2. openLibs[k] # next - 1
      BY <1>0, <3>1
    <3> QED  BY <1>0, <3>1, <3>2
  <2>3. next - 1 \in GroupEnds(openLibs[k])
    BY <1>0, <2>2 DEF GroupEnds
  <2>4. ASSUME NEW e \in GroupEnds(s)  PROVE e > openLibs[k]
    <3>1. e \in 1 .. Len(job.items) /\ e > s /\ Item(e).kind = "end"
      BY DEF GroupEnds
    <3>2. CASE e < next - 1
      <4>1. e \in s .. next - 1
        BY <1>0, <3>1, <3>2
      <4> QED  BY <1>0, <2>1, <3>1, <3>2, <4>1
    <3> QED  BY <1>0, <2>2, <3>1, <3>2
  <2>5. s \in 1 .. openLibs[k]
    BY <1>0, <2>1
  <2> QED
    BY <1>1, <2>1, <2>3, <2>4, <2>5 DEF InGroup
<1>2. CASE ~grouping
  <2>1. k = 1 /\ openLibs[k] = next - 1
    BY <1>0, <1>2 DEF GroupOK
  <2>2. ASSUME InGroup(openLibs[k])  PROVE FALSE
    <3>1. PICK s \in 1 .. next - 1 :
            /\ Item(s).kind = "start"
            /\ \A e \in GroupEnds(s) : e > next - 1
      BY <2>1, <2>2 DEF InGroup
    <3>2. PICK e \in s + 1 .. next - 1 : Item(e).kind = "end"
      BY <1>0, <1>2, <3>1 DEF GroupOK
    <3>3. e \in GroupEnds(s)
      BY <1>0, <3>2 DEF GroupEnds
    <3> QED  BY <1>0, <3>1, <3>2, <3>3
  <2> QED  BY <1>2, <2>1, <2>2
<1> QED
  BY <1>1, <1>2

(* The last search of a library that is open is the one that goes on.      *)
LEMMA SearchedNow ==
  ASSUME FilesInv, stage \in {"search", "load"}, NEW k \in 1 .. Len(openLibs)
  PROVE  LastSearch(openLibs[k]) \in 1 .. next - 1
<1> DEFINE ends == GroupEnds(openLibs[k])
<1>1. openLibs[k] \in 1 .. next - 1 /\ next \in Nat \ {0}
  BY FilesTypes DEF FilesInv, FilesOK
<1>2. CASE grouping
  <2>1. InGroup(openLibs[k]) /\ next - 1 \in ends
    BY <1>2, OpenInGroup
  <2>2. ends \in SUBSET (Nat \ {0})
    BY FilesTypes DEF GroupEnds
  <2> HIDE DEF ends
  <2>3. Min(ends) \in ends /\ Min(ends) <= next - 1
    BY <2>1, <2>2, MinIsLeast
  <2>4. Min(ends) \in 1 .. next - 1
    <3>1. Min(ends) \in Nat \ {0}
      BY <2>2, <2>3
    <3> QED  BY <1>1, <2>3, <3>1
  <2> QED
    BY <2>1, <2>4 DEF LastSearch, ends
<1>3. CASE ~grouping
  BY <1>1, <1>3, OpenInGroup DEF LastSearch
<1> QED
  BY <1>2, <1>3 DEF FilesInv, FilesOK

(* What is passed over stays so while no library is opened and no module   *)
(* referenced.                                                             *)
LEMMA PassedOverStays ==
  ASSUME UNCHANGED <<job, referenced>>, NEW id, PassedOver(id),
         \A i : IsOpen(i)' => IsOpen(i)
  PROVE  PassedOver(id)'
<1>1. PICK p \in 1 .. id[1] - 1 :
        /\ Item(p).kind = "lib" /\ Modules(p) \cap referenced = {}
        /\ ~IsOpen(p) /\ OnlyObjects(p, id[1])
  BY DEF PassedOver
<1>2. ~IsOpen(p)' /\ OnlyObjects(p, id[1])'
  BY <1>1 DEF OnlyObjects, Item
<1> QED
  BY <1>1, <1>2, SameJob DEF PassedOver

(* The round that adds nothing has seen every module of the open           *)
(* libraries: what they export is not missing.                             *)
LEMMA FilesEndOfSearch ==
  ASSUME FilesInv, CounterInv', EndOfRound, ~cursor.added
  PROVE  FilesInv'
<1>1. /\ stage = "search" /\ stage' = "load"
      /\ cursor.lib > Len(openLibs)
      /\ cursor' = [lib |-> 1, mod |-> 1, added |-> FALSE]
      /\ UNCHANGED <<job, owner, next, referenced, objData, grouping,
                     openLibs>>
  BY DEF EndOfRound, table
<1>2. FilesOK'
  BY <1>1, SameJob DEF FilesInv, FilesOK, FilesAreIn
<1>3. GroupsOK'
  BY <1>1, SameJob DEF FilesInv, GroupsOK, GroupOK, Reading
<1>4. NextToEachOther'
  BY <1>1, SameJob DEF FilesInv, NextToEachOther, OnlyObjects, Reading
<1>5. LoadsOK'
  <2>1. \A id \in ToSet(objData), k \in 1 .. Len(openLibs) :
          openLibs[k] # id[1]
    BY <1>1 DEF FilesInv, LoadsOK, Reading
  <2> QED
    BY <1>1, <2>1, SameJob DEF FilesInv, LoadsOK
<1>6. RestOK'
  <2> SUFFICES ASSUME NEW id \in referenced \ ToSet(objData)
               PROVE  ToLoad(id)' \/ PassedOver(id)'
    BY <1>1 DEF RestOK
  <2>1. CASE ToLoad(id)
    <3>1. id[2] >= 1
      <4>1. id \in Modules(id[1])
        BY DEF FilesInv, LoadsOK
      <4>2. \A j \in 1 .. Len(Item(id[1]).modules) : j >= 1
        OBVIOUS
      <4> QED  BY <4>1, <4>2 DEF Modules
    <3>2. PICK k \in 1 .. Len(openLibs) : openLibs[k] = id[1]
      BY <2>1 DEF ToLoad
    <3>3. k > 1 \/ k = 1
      BY FilesTypes
    <3> QED
      BY <1>1, <3>1, <3>2, <3>3 DEF ToLoad
  <2>2. CASE PassedOver(id)
    BY <1>1, <2>2, PassedOverStays DEF IsOpen
  <2> QED
    BY <2>1, <2>2 DEF FilesInv, RestOK
<1>7. RoundOK'
  BY <1>1 DEF RoundOK
<1>8. SearchedOK'
  <2> SUFFICES ASSUME NEW i \in 1 .. next - 1, Item(i).kind = "lib"
               PROVE  /\ LastSearch(i) \in 1 .. next - 1
                      /\ \A n \in Names : (owner[n] = Dummy /\ Offers(i, n)) =>
                           /\ n \notin job.forced
                           /\ \A id \in referenced :
                                ImportsOf(Module(id), n) > 0
                                  => id[1] > LastSearch(i)
    BY <1>1, SameJob DEF SearchedOK, Searched
  <2>0. i \in 1 .. Len(job.items)
    BY FilesTypes DEF FilesInv, FilesOK
  <2>1. CASE IsOpen(i)
    <3>1. PICK k \in 1 .. Len(openLibs) : openLibs[k] = i
      BY <2>1 DEF IsOpen
    <3>2. k < cursor.lib
      BY <1>1, FilesTypes
    <3>3. ASSUME NEW n, Offers(i, n)  PROVE owner[n] # Dummy
      <4>1. PICK j \in 1 .. Len(Item(i).modules) :
                   n \in Exports(Module(<<i, j>>))
        BY <3>3 DEF Offers, Modules
      <4> QED
        BY <1>1, <3>1, <3>2, <4>1 DEF FilesInv, RoundOK
    <3> QED
      BY <1>1, <3>1, <3>3, SearchedNow
  <2>2. CASE ~IsOpen(i)
    <3>1. Searched(i)
      BY <2>2 DEF Searched
    <3> QED
      BY <1>1, <2>0, <3>1 DEF FilesInv, SearchedOK
  <2> QED
    BY <2>1, <2>2
<1> QED
  BY <1>2, <1>3, <1>4, <1>5, <1>6, <1>7, <1>8 DEF FilesInv

(* The module at the cursor has not been loaded before.                    *)
LEMMA FilesLoadModule ==
  ASSUME FilesInv, CounterInv', LoadModule
  PROVE  FilesInv'
<1> DEFINE id == <<openLibs[cursor.lib], cursor.mod>>
<1>1. /\ stage = "load" /\ stage' = stage /\ AtModule("load")
      /\ cursor' = NextIndex(id \in referenced)
      /\ objData' = IF id \in referenced THEN Append(objData, id) ELSE objData
      /\ UNCHANGED <<job, owner, next, referenced, grouping, openLibs>>
  BY DEF LoadModule, AtModule, Used, table
<1>2. /\ cursor.lib \in 1 .. Len(openLibs) /\ Len(openLibs) \in Nat
      /\ cursor.mod \in Nat /\ cursor.lib \in Nat
      /\ id[1] = openLibs[cursor.lib] /\ id[2] = cursor.mod
      /\ id \in Modules(id[1])
  BY <1>1, AtCursor, FilesTypes
<1>3. cursor'.lib = cursor.lib /\ cursor'.mod = cursor.mod + 1
  BY <1>1 DEF NextIndex
<1>4. cursor.added \/ id \in referenced => cursor'.added
  BY <1>1 DEF NextIndex
<1> HIDE DEF id
<1>5. \A i \in referenced : i[1] = id[1] /\ i[2] = id[2] => i = id
  <2>1. \A i \in referenced : i \in Modules(i[1])
    BY DEF FilesInv, LoadsOK
  <2> QED  BY <1>2, <2>1 DEF Modules
<1>6. FilesOK'
  BY <1>1, SameJob DEF FilesInv, FilesOK, FilesAreIn
<1>7. GroupsOK'
  BY <1>1, SameJob DEF FilesInv, GroupsOK, GroupOK
<1>8. NextToEachOther'
  BY <1>1, <1>3, SameJob DEF FilesInv, NextToEachOther, OnlyObjects
<1>9. /\ objData' \in Seq(referenced) /\ IsInjective(objData')
      /\ \A i \in ToSet(objData') : i \in ToSet(objData) \/ i = id
      /\ \A i \in ToSet(objData) : i \in ToSet(objData')
      /\ id \in referenced => id \in ToSet(objData')
  <2>1. CASE id \in referenced
    <3>1. id \notin ToSet(objData)
      BY <1>1, <1>2 DEF FilesInv, LoadsOK, Reading
    <3>2. objData \in Seq(referenced) /\ IsInjective(objData)
      BY DEF FilesInv, LoadsOK
    <3> QED
      BY <1>1, <2>1, <3>1, <3>2, AppendsOnce
  <2>2. CASE id \notin referenced
    BY <1>1, <2>2 DEF FilesInv, LoadsOK
  <2> QED  BY <2>1, <2>2
<1>10. LoadsOK'
  <2>1. ASSUME NEW i \in ToSet(objData'), NEW k \in 1 .. Len(openLibs),
               openLibs[k] = i[1]
        PROVE  k <= cursor.lib /\ (k = cursor.lib => i[2] < cursor.mod + 1)
    <3>1. CASE i \in ToSet(objData)
      <4>1. /\ k <= cursor.lib
            /\ k = cursor.lib => i[2] < cursor.mod
            /\ i \in referenced
        BY <1>1, <2>1, <3>1, FilesTypes DEF FilesInv, LoadsOK, Reading, ToSet
      <4>2. i[2] \in Nat
        <5>1. i \in Modules(i[1])
          BY <4>1 DEF FilesInv, LoadsOK
        <5>2. \A j \in 1 .. Len(Item(i[1]).modules) : j \in Nat
          OBVIOUS
        <5> QED  BY <5>1, <5>2 DEF Modules
      <4>3. i[2] < cursor.mod => i[2] < cursor.mod + 1
        BY <1>2, <4>2
      <4> QED  BY <4>1, <4>3
    <3>2. CASE i = id
      <4>1. k = cursor.lib
        BY <1>2, <2>1, <3>2 DEF FilesInv, FilesOK
      <4> QED  BY <1>2, <3>2, <4>1
    <3> QED  BY <1>9, <3>1, <3>2
  <2>2. \A i \in referenced : i[1] \in 1 .. next - 1 /\ i \in Modules(i[1])
    BY DEF FilesInv, LoadsOK
  <2> QED
    BY <1>1, <1>3, <1>9, <2>1, <2>2, SameJob DEF LoadsOK
<1>11. RestOK'
  <2>1. ASSUME NEW i \in referenced \ ToSet(objData')
        PROVE  ToLoad(i)' \/ PassedOver(i)'
    <3>1. i \in referenced \ ToSet(objData) /\ i # id
      BY <1>9
    <3>2. CASE ToLoad(i)
      <4>1. PICK k \in 1 .. Len(openLibs) :
              /\ openLibs[k] = i[1]
              /\ k > cursor.lib \/ (k = cursor.lib /\ i[2] >= cursor.mod)
        BY <1>1, <3>2 DEF ToLoad
      <4>2. i[2] \in Nat
        <5>1. i \in Modules(i[1])
          BY DEF FilesInv, LoadsOK
        <5>2. \A j \in 1 .. Len(Item(i[1]).modules) : j \in Nat
          OBVIOUS
        <5> QED  BY <5>1, <5>2 DEF Modules
      <4>3. k > cursor.lib \/ (k = cursor.lib /\ i[2] >= cursor.mod + 1)
        <5>1. ~(k = cursor.lib /\ i[2] = cursor.mod)
          BY <1>2, <1>5, <3>1, <4>1
        <5> QED  BY <1>2, <4>1, <4>2, <5>1
      <4> QED
        BY <1>1, <1>3, <4>1, <4>3 DEF ToLoad
    <3>3. CASE PassedOver(i)
      BY <1>1, <3>3, PassedOverStays DEF IsOpen
    <3> QED
      BY <3>1, <3>2, <3>3 DEF FilesInv, RestOK
  <2>2. ASSUME ~cursor'.added, NEW j \in 1 .. cursor.mod
        PROVE  <<openLibs[cursor.lib], j>> \notin referenced
    <3>1. ~cursor.added /\ id \notin referenced
      BY <1>4, <2>2
    <3>2. CASE j = cursor.mod
      BY <3>1, <3>2 DEF id
    <3>3. CASE j \in 1 .. cursor.mod - 1
      BY <1>1, <1>2, <3>1, <3>3 DEF FilesInv, RestOK
    <3> QED  BY <1>2, <3>2, <3>3
  <2>3. cursor'.mod - 1 = cursor.mod
    BY <1>2, <1>3
  <2> QED
    BY <1>1, <1>3, <2>1, <2>2, <2>3 DEF RestOK
<1>12. RoundOK'
  BY <1>1 DEF RoundOK
<1>13. SearchedOK'
  BY <1>1, SameJob DEF FilesInv, SearchedOK, Searched
<1> QED
  BY <1>6, <1>7, <1>8, <1>10, <1>11, <1>12, <1>13 DEF FilesInv

(* When a library that gave nothing is removed the loop goes past the next *)
(* one: that is in the same group, with only object files between them.    *)
LEMMA FilesCloseLibrary ==
  ASSUME FilesInv, CounterInv', CloseLibrary
  PROVE  FilesInv'
<1>0. PICK c, len, lib :
        c = cursor.lib /\ len = Len(openLibs) /\ lib = openLibs[c]
  OBVIOUS
<1>1. /\ stage = "load" /\ stage' = stage
      /\ c <= len /\ cursor.mod > Len(Item(lib).modules)
      /\ openLibs' = IF cursor.added THEN openLibs ELSE RemoveAt(openLibs, c)
      /\ cursor'.lib = c + 1 /\ cursor'.mod = 1
      /\ UNCHANGED <<job, owner, next, referenced, objData, grouping>>
  BY <1>0 DEF CloseLibrary, PastModules, table
<1>2. /\ c \in 1 .. len /\ c \in Nat /\ len \in Nat
      /\ cursor.mod \in Nat
      /\ lib \in 1 .. next - 1 /\ Item(lib).kind = "lib"
      /\ Len(Item(lib).modules) \in Nat
  <2>1. c \in 1 .. len /\ len \in Nat /\ c \in Nat /\ cursor.mod \in Nat
    BY <1>0, <1>1, FilesTypes
  <2>2. lib \in 1 .. Len(job.items)
    BY <1>0, <2>1, FilesTypes, ElementOfSeq
  <2>3. Len(Item(lib).modules) \in Nat
    BY <2>2, FilesTypes, LinkAssumption DEF Item
  <2> QED
    BY <1>0, <2>1, <2>3 DEF FilesInv, FilesOK
<1>3. /\ Len(openLibs') \in Nat /\ Len(openLibs') <= len
      /\ \A k \in 1 .. Len(openLibs') :
           openLibs'[k] = IF cursor.added \/ k < c THEN openLibs[k]
                          ELSE openLibs[k + 1]
      /\ ~cursor.added => Len(openLibs') = len - 1
  <2>1. CASE cursor.added
    BY <1>0, <1>1, <1>2, <2>1
  <2>2. CASE ~cursor.added
    <3>1. /\ Len(RemoveAt(openLibs, c)) = len - 1
          /\ \A k \in 1 .. len - 1 :
               RemoveAt(openLibs, c)[k] = IF k < c THEN openLibs[k]
                                          ELSE openLibs[k + 1]
      <4>1. /\ openLibs \in Seq(1 .. Len(job.items))
            /\ c \in 1 .. Len(openLibs)
        BY <1>0, <1>2, FilesTypes
      <4>2. /\ Len(RemoveAt(openLibs, c)) = Len(openLibs) - 1
            /\ \A k \in 1 .. Len(openLibs) - 1 :
                 RemoveAt(openLibs, c)[k] = IF k < c THEN openLibs[k]
                                            ELSE openLibs[k + 1]
        BY <4>1, RemovedElements
      <4> QED  BY <1>0, <4>2
    <3>2. openLibs' = RemoveAt(openLibs, c)
      BY <1>1, <2>2
    <3> QED  BY <1>2, <2>2, <3>1, <3>2
  <2> QED  BY <2>1, <2>2
<1> DEFINE was(k) == IF cursor.added \/ k < c THEN k ELSE k + 1
<1>4. \A k \in 1 .. Len(openLibs') :
        /\ was(k) \in 1 .. len /\ openLibs'[k] = openLibs[was(k)]
        /\ ~cursor.added => was(k) # c
        /\ was(k) >= k /\ was(k) <= k + 1
        /\ \A l \in 1 .. Len(openLibs') : k < l => was(k) < was(l)
  BY <1>0, <1>2, <1>3
<1>5. ASSUME NEW k \in 1 .. len, k # c \/ cursor.added
      PROVE  \E l \in 1 .. Len(openLibs') : was(l) = k
  <2>1. CASE cursor.added
    BY <1>0, <1>1, <2>1
  <2>2. CASE ~cursor.added /\ k < c
    <3>1. k \in 1 .. Len(openLibs')
      BY <1>0, <1>2, <1>3, <2>2
    <3> QED  BY <1>0, <2>2, <3>1
  <2>3. CASE ~cursor.added /\ k > c
    <3>1. k - 1 \in 1 .. Len(openLibs') /\ was(k - 1) = k
      BY <1>0, <1>2, <1>3, <2>3
    <3> QED  BY <1>0, <3>1
  <2> QED  BY <1>0, <1>2, <1>5, <2>1, <2>2, <2>3
<1>6. \A i \in referenced : /\ i[2] \in Nat \ {0}
                            /\ i[1] = lib => i[2] <= Len(Item(lib).modules)
                            /\ i = <<i[1], i[2]>>
  <2>1. \A i \in referenced : i \in Modules(i[1])
    BY DEF FilesInv, LoadsOK
  <2>2. \A k : \A j \in 1 .. Len(Item(k).modules) : j \in Nat \ {0}
    OBVIOUS
  <2> QED  BY <1>0, <1>2, <2>1, <2>2 DEF Modules
<1> HIDE DEF was
<1>7. \A i : IsOpen(i)' => IsOpen(i)
  BY <1>0, <1>4 DEF IsOpen
<1>8. FilesOK'
  <2>1. FilesOK
    BY DEF FilesInv
  <2>2. ASSUME NEW k \in 1 .. Len(openLibs')
        PROVE  /\ openLibs'[k] \in 1 .. next - 1
               /\ Item(openLibs'[k]).kind = "lib"
    BY <1>0, <1>4, <2>1 DEF FilesOK
  <2>3. ASSUME NEW k \in 1 .. Len(openLibs'), NEW l \in 1 .. Len(openLibs'),
               k < l
        PROVE  openLibs'[k] < openLibs'[l]
    <3>1. was(k) < was(l) /\ was(k) \in 1 .. len /\ was(l) \in 1 .. len
      BY <1>4, <2>3
    <3> QED  BY <1>0, <1>4, <2>1, <3>1 DEF FilesOK
  <2>4. ~FilesAreIn'
    BY <1>1 DEF FilesAreIn
  <2> QED
    BY <1>1, <2>1, <2>2, <2>3, <2>4, SameJob DEF FilesOK
<1>9. GroupsOK'
  <2>1. GroupOK
    BY <1>0, <1>1 DEF FilesInv, GroupsOK, Reading
  <2>2. CASE grouping
    <3>1. PICK s \in 1 .. next - 1 :
            /\ Item(s).kind = "start"
            /\ \A k \in 1 .. len : s < openLibs[k]
            /\ \A e \in s .. next - 1 :
                 Item(e).kind = "end" => e = next - 1
      BY <1>0, <1>1, <2>1, <2>2 DEF GroupOK
    <3>2. \A k \in 1 .. Len(openLibs') : s < openLibs'[k]
      BY <1>4, <3>1
    <3>3. \E t \in 1 .. next - 1 :
            /\ Item(t).kind = "start"
            /\ \A k \in 1 .. Len(openLibs') : t < openLibs'[k]
            /\ \A e \in t .. next - 1 :
                 Item(e).kind = "end" => e = next - 1
      BY <3>1, <3>2
    <3> QED
      BY <1>1, <2>1, <2>2, <3>3, SameJob DEF GroupsOK, GroupOK
  <2>3. CASE ~grouping
    <3>1. \A k \in 1 .. Len(openLibs') : k = 1 /\ openLibs'[k] = next - 1
      <4>1. \A k \in 1 .. len : k = 1 /\ openLibs[k] = next - 1
        BY <1>0, <1>1, <2>1, <2>3 DEF GroupOK
      <4> QED  BY <1>0, <1>3, <1>4, <4>1
    <3> QED
      BY <1>0, <1>1, <2>1, <2>3, <3>1, SameJob DEF GroupsOK, GroupOK
  <2> QED  BY <1>0, <2>2, <2>3 DEF FilesInv, FilesOK
<1>10. NextToEachOther'
  <2> SUFFICES ASSUME NEW k \in 1 .. Len(openLibs') - 1, k >= c + 1
               PROVE  OnlyObjects(openLibs'[k], openLibs'[k + 1])
    BY <1>0, <1>1, SameJob DEF NextToEachOther, OnlyObjects
  <2>1. /\ was(k) \in 1 .. len - 1 /\ was(k) >= c
        /\ openLibs'[k] = openLibs[was(k)]
        /\ openLibs'[k + 1] = openLibs[was(k) + 1]
    BY SMTT(30), <1>0, <1>2, <1>3 DEF was
  <2> QED
    BY <1>0, <1>1, <2>1 DEF FilesInv, NextToEachOther, Reading
<1>11. LoadsOK'
  <2>1. ASSUME NEW i \in ToSet(objData), NEW k \in 1 .. Len(openLibs'),
               openLibs'[k] = i[1]
        PROVE  k <= c + 1 /\ k # c + 1
    <3>1. openLibs[was(k)] = i[1] /\ was(k) \in 1 .. len
      BY <1>0, <1>4, <2>1
    <3>2. was(k) <= c
      BY <1>0, <1>1, <3>1 DEF FilesInv, LoadsOK, Reading
    <3> QED  BY <1>0, <1>2, <1>3, <3>1, <3>2, <1>4
  <2> QED
    BY <1>0, <1>1, <2>1, SameJob DEF FilesInv, LoadsOK
<1>12. RestOK'
  <2>1. ASSUME NEW i \in referenced \ ToSet(objData)
        PROVE  ToLoad(i)' \/ PassedOver(i)'
    <3>1. CASE PassedOver(i)
      BY <1>0, <1>1, <1>7, <3>1, PassedOverStays
    <3>2. CASE ToLoad(i)
      <4>1. PICK k \in 1 .. len :
              /\ openLibs[k] = i[1]
              /\ k > c \/ (k = c /\ i[2] >= cursor.mod)
        BY <1>0, <1>1, <3>2 DEF ToLoad
      <4>2. k > c
        BY <1>0, <1>1, <1>2, <1>6, <4>1
      <4>3. PICK l \in 1 .. Len(openLibs') : was(l) = k
        BY <1>0, <1>2, <1>5, <4>2
      <4>4. openLibs'[l] = i[1]
        BY <1>0, <1>4, <4>1, <4>3
      <4>5. CASE cursor.added \/ k > c + 1
        <5>1. l >= c + 1
          BY <1>0, <1>2, <4>2, <4>3, <4>5 DEF was
        <5>2. l \in Nat /\ c \in Nat /\ i[2] \in Nat \ {0}
          BY <1>2, <1>6
        <5>3. l > c + 1 \/ (l = c + 1 /\ i[2] >= 1)
          BY <5>1, <5>2
        <5> QED
          BY <1>0, <1>1, <4>4, <5>3 DEF ToLoad
      <4>6. CASE ~cursor.added /\ k = c + 1
        <5>1. OnlyObjects(lib, i[1])
          BY <1>0, <1>1, <1>2, <4>1, <4>6
          DEF FilesInv, NextToEachOther, Reading
        <5>2. Modules(lib) \cap referenced = {}
          <6>1. \A j \in 1 .. cursor.mod - 1 : <<lib, j>> \notin referenced
            BY <1>0, <1>1, <4>6 DEF FilesInv, RestOK
          <6>2. \A j \in 1 .. Len(Item(lib).modules) :
                  j \in 1 .. cursor.mod - 1
            BY <1>0, <1>1, <1>2
          <6> QED  BY <1>0, <6>1, <6>2 DEF Modules
        <5>3. ~IsOpen(lib)'
          <6> SUFFICES ASSUME NEW m \in 1 .. Len(openLibs'), openLibs'[m] = lib
                       PROVE  FALSE
            BY DEF IsOpen
          <6>1. was(m) \in 1 .. len /\ was(m) # c
                  /\ openLibs[was(m)] = openLibs[c]
            BY <1>0, <1>4, <4>6
          <6>2. openLibs[was(m)] < openLibs[c] \/ openLibs[c] < openLibs[was(m)]
            BY <1>0, <1>2, <6>1 DEF FilesInv, FilesOK
          <6> QED
            BY <1>0, <1>2, <6>1, <6>2
        <5>4. InGroup(i[1])
          <6>1. grouping
            BY <1>0, <1>1, <1>2, <4>2, OpenInGroup DEF FilesInv, FilesOK
          <6> QED  BY <1>0, <1>1, <4>1, <6>1, OpenInGroup
        <5>5. lib \in 1 .. i[1] - 1
          <6>1. lib < i[1] /\ i[1] \in Nat
            BY <1>0, <1>2, <4>1, <4>2, FilesTypes DEF FilesInv, FilesOK
          <6> QED  BY <1>0, <1>2, <6>1
        <5>6. OnlyObjects(lib, i[1])'
          BY <1>0, <1>1, <5>1 DEF OnlyObjects, Item
        <5> QED
          BY <1>0, <1>1, <1>2, <5>2, <5>3, <5>4, <5>5, <5>6,
               SameJob DEF PassedOver
      <4> QED  BY <1>0, <1>2, <4>2, <4>5, <4>6
    <3> QED  BY <1>0, <3>1, <3>2 DEF FilesInv, RestOK
  <2> QED
    BY <1>0, <1>1, <2>1 DEF RestOK
<1>13. RoundOK'
  BY <1>0, <1>1 DEF RoundOK
<1>14. SearchedOK'
  BY <1>0, <1>1, SameJob DEF FilesInv, SearchedOK, Searched
<1> QED
  BY <1>0, <1>8, <1>9, <1>10, <1>11, <1>12, <1>13, <1>14 DEF FilesInv

(* At the end of LibResolve no module is left to be loaded.                *)
LEMMA FilesResolved ==
  ASSUME FilesInv, CounterInv', Resolved
  PROVE  FilesInv'
<1>1. /\ stage = "load" /\ stage' = "files"
      /\ cursor.lib > Len(openLibs)
      /\ openLibs' = <<>> /\ grouping' = FALSE
      /\ UNCHANGED <<job, owner, next, referenced, objData>>
  BY DEF Resolved, table
<1>2. Len(openLibs') = 0
  BY <1>1
<1>3. FilesOK'
  <2>1. next \in 1 .. Len(job.items) + 1 /\ ~FilesAreIn'
    BY <1>1 DEF FilesInv, FilesOK, FilesAreIn
  <2>2. \A k \in 1 .. Len(openLibs') : FALSE
    BY <1>2
  <2> QED
    BY <1>1, <2>1, <2>2 DEF FilesOK
<1>4. GroupsOK'
  <2>1. GroupOK /\ next > 1 /\ next \in Nat
    BY <1>1, FilesTypes DEF FilesInv, GroupsOK, GroupOK, Reading
  <2>2. ASSUME NEW s \in 1 .. next - 1, Item(s).kind = "start"
        PROVE  \E e \in s + 1 .. next - 1 : Item(e).kind = "end"
    <3>1. CASE grouping
      <4>1. Item(next - 1).kind = "end"
        BY <1>1, <2>1, <3>1 DEF GroupOK
      <4>2. s # next - 1
        BY <2>2, <4>1
      <4>3. next - 1 \in s + 1 .. next - 1
        BY <2>1, <4>2
      <4> QED  BY <4>1, <4>3
    <3>2. CASE ~grouping
      BY <2>1, <2>2, <3>2 DEF GroupOK
    <3> QED  BY <3>1, <3>2
  <2> QED
    BY <1>1, <2>2, SameJob DEF GroupsOK, GroupOK
<1>5. NextToEachOther'
  BY <1>1, <1>2 DEF NextToEachOther
<1>6. LoadsOK'
  BY <1>1, <1>2, SameJob DEF FilesInv, LoadsOK
<1>7. RestOK'
  <2>1. ASSUME NEW i \in referenced \ ToSet(objData)  PROVE PassedOver(i)'
    <3>1. ~ToLoad(i)
      BY <1>1, FilesTypes DEF ToLoad
    <3>2. PassedOver(i)
      BY <3>1 DEF FilesInv, RestOK
    <3> QED
      BY <1>1, <1>2, <3>2, PassedOverStays DEF IsOpen
  <2> QED
    BY <1>1, <2>1 DEF RestOK
<1>8. RoundOK'
  BY <1>1 DEF RoundOK
<1>9. SearchedOK'
  <2>1. \A i : Searched(i)' => Searched(i)
    BY <1>1, SameJob DEF Searched
  <2> QED
    BY <1>1, <1>2, <2>1, SameJob DEF FilesInv, SearchedOK
<1> QED
  BY <1>3, <1>4, <1>5, <1>6, <1>7, <1>8, <1>9 DEF FilesInv

LEMMA FilesChecked ==
  ASSUME FilesInv, CounterInv', CheckFiles, stage' # "failed"
  PROVE  FilesInv'
<1>1. /\ stage = "files" /\ stage' = "condes" /\ ~grouping
      /\ next > Len(job.items)
      /\ UNCHANGED <<job, owner, next, referenced, objData, grouping,
                     openLibs>>
  BY DEF CheckFiles, Fail, table, files
<1>2. /\ openLibs = <<>> /\ Len(openLibs) = 0 /\ ~(stage' \in Reading)
      /\ next = Len(job.items) + 1
  <2>1. openLibs = <<>>
    BY <1>1 DEF FilesInv, GroupsOK, GroupOK, Reading
  <2>2. next = Len(job.items) + 1
    BY <1>1, FilesTypes DEF FilesInv, FilesOK
  <2> QED  BY <1>1, <2>1, <2>2 DEF Reading
<1>3. FilesOK'
  BY <1>1, <1>2, SameJob DEF FilesInv, FilesOK
<1>4. GroupsOK' /\ NextToEachOther' /\ RoundOK'
  BY <1>1, <1>2 DEF GroupsOK, NextToEachOther, RoundOK
<1>5. LoadsOK'
  BY <1>1, <1>2, SameJob DEF FilesInv, LoadsOK
<1>6. RestOK'
  <2>1. ASSUME NEW i \in referenced \ ToSet(objData)  PROVE PassedOver(i)'
    <3>1. PassedOver(i)
      BY <1>2 DEF FilesInv, RestOK, ToLoad
    <3> QED
      BY <1>1, <3>1, PassedOverStays DEF IsOpen
  <2> QED
    BY <1>1, <2>1 DEF RestOK
<1>7. SearchedOK'
  <2>1. \A i : Searched(i)' => Searched(i)
    BY <1>1, <1>2, SameJob DEF Searched, IsOpen
  <2> QED
    BY <1>1, <1>2, <2>1, SameJob DEF FilesInv, SearchedOK
<1> QED
  BY <1>3, <1>4, <1>5, <1>6, <1>7 DEF FilesInv

LEMMA FilesUnchanged ==
  ASSUME FilesInv, UNCHANGED vars
  PROVE  FilesInv'
<1>1. UNCHANGED <<job, stage, owner, next, referenced, objData, grouping,
                  openLibs, cursor>>
  BY DEF vars, linkVars, table, files
<1>2. CounterInv'
  BY CounterStep DEF FilesInv
<1>3. FilesOK' /\ GroupsOK' /\ NextToEachOther' /\ LoadsOK'
  <2>1. FilesOK'
    BY <1>1, SameJob DEF FilesInv, FilesOK, FilesAreIn
  <2>2. GroupsOK'
    BY <1>1, SameJob DEF FilesInv, GroupsOK, GroupOK
  <2>3. NextToEachOther'
    BY <1>1, SameJob DEF FilesInv, NextToEachOther, OnlyObjects
  <2>4. LoadsOK'
    BY <1>1, SameJob DEF FilesInv, LoadsOK
  <2> QED  BY <2>1, <2>2, <2>3, <2>4
<1>4. RestOK'
  <2>1. ASSUME NEW id \in referenced, ToLoad(id)  PROVE ToLoad(id)'
    BY <1>1, <2>1 DEF ToLoad
  <2>2. ASSUME NEW id \in referenced, PassedOver(id)  PROVE PassedOver(id)'
    BY <1>1, <2>2, PassedOverStays DEF IsOpen
  <2> QED
    BY <1>1, <2>1, <2>2 DEF FilesInv, RestOK
<1>5. RoundOK'
  BY <1>1, SameJob DEF FilesInv, RoundOK
<1>6. SearchedOK'
  BY <1>1, SameJob DEF FilesInv, SearchedOK, Searched, IsOpen
<1> QED
  BY <1>2, <1>3, <1>4, <1>5, <1>6 DEF FilesInv

LEMMA FilesStep ==
  ASSUME FilesInv, [Next]_vars
  PROVE  FilesInv'
<1>0. CounterInv' /\ PlacesOK /\ job' = job
  BY CounterStep, TableSteps
  DEF FilesInv, CounterInv, TableInv, Stays, TakesIn, Defines
<1>1. CASE UNCHANGED vars
  BY <1>1, FilesUnchanged
<1>2. ASSUME UNCHANGED <<job, files>>,
             \/ stage' = "failed" /\ owner' = owner
             \/ FilesAreIn /\ FilesAreIn'
      PROVE  FilesInv'
  <2>1. ASSUME FilesAreIn, NEW n \in Names, owner'[n] = Dummy
        PROVE  owner[n] = Dummy
    <3>1. CASE Stays
      BY <2>1, <3>1 DEF Stays, table
    <3>2. ASSUME NEW id, TakesIn(id)  PROVE FALSE
      BY <2>1, <3>2 DEF TakesIn, NextFile, AtModule, FilesAreIn
    <3>3. ASSUME NEW names, Defines(names)  PROVE owner[n] = Dummy
      BY <2>1, <3>3 DEF Defines, InsertExports, Claimed, Linker, Dummy
    <3> QED
      BY <1>0, <3>1, <3>2, <3>3, TableSteps
  <2> QED
    BY <1>0, <1>2, <2>1, FilesKept
<1>3. CASE LinkNext
  <2>1. CASE ObjAdd
    <3>1. CASE Clash(<<next, 1>>)
      BY <1>2, <2>1, <3>1 DEF ObjAdd, DuplicateIdentifier, Fail, table
    <3> QED  BY <1>0, <2>1, <3>1, FilesObjAdd
  <2>2. CASE LibStartGroup \/ LibEndGroup
    <3>1. CASE stage' = "failed"
      BY <1>2, <2>2, <3>1
      DEF LibStartGroup, LibEndGroup, NextFile, StartSearch, Fail, files, table
    <3>2. CASE stage' # "failed"
      BY <1>0, <2>2, <3>2, FilesStartGroup, FilesEndGroup
      DEF LibStartGroup, LibEndGroup, Fail
    <3> QED  BY <3>1, <3>2
  <2>3. CASE LibCheckExports
    <3>1. CASE stage' = "failed"
      BY <1>2, <2>3, <3>1
      DEF LibCheckExports, AtModule, DuplicateIdentifier, Fail, table
    <3> QED  BY <1>0, <2>3, <3>1, FilesCheckExports
  <2>4. CASE CheckFiles
    <3>1. CASE stage' = "failed"
      BY <1>2, <2>4, <3>1 DEF CheckFiles, Fail, table
    <3> QED  BY <1>0, <2>4, <3>1, FilesChecked
  <2>5. CASE LibAdd \/ NextLibrary \/ EndOfRound
    BY <1>0, <2>5, FilesLibAdd, FilesNextLibrary, FilesEndOfSearch
  <2>6. CASE LoadModule \/ CloseLibrary \/ Resolved
    BY <1>0, <2>6, FilesLoadModule, FilesCloseLibrary, FilesResolved
  <2>7. CASE ConDesCreate \/ ProcessSymbols
    BY <1>2, <2>7 DEF ConDesCreate, ProcessSymbols, DuplicateIdentifier, Fail,
                      FilesAreIn, table
  <2> QED
    BY <1>3, <2>1, <2>2, <2>3, <2>4, <2>5, <2>6, <2>7 DEF LinkNext
<1>4. CASE ReadSection \/ NextModule \/ ProcessSegments \/ StartArea
             \/ PlaceSegment \/ EndArea \/ OpenTarget
  <2>1. /\ UNCHANGED <<job, files>> /\ FilesAreIn
        /\ stage' = "failed" \/ FilesAreIn'
    <3>1. CASE ReadSection \/ NextModule \/ ProcessSegments \/ OpenTarget
      BY <3>1, Zenon DEF ReadSection, NextModule, ProcessSegments, OpenTarget,
                         Past, Fail, FilesAreIn, linkVars
    <3>2. CASE StartArea \/ PlaceSegment \/ EndArea
      BY <3>2, Zenon DEF StartArea, PlaceSegment, EndArea, Begins, InList,
                         Ends, DuplicateIdentifier, Fail, FilesAreIn, linkVars
    <3> QED  BY <1>4, <3>1, <3>2
  <2>2. stage' = "failed" => owner' = owner
    BY <1>4, Zenon
    DEF ReadSection, NextModule, ProcessSegments, StartArea, PlaceSegment,
        EndArea, OpenTarget, Begins, InList, Ends, Past, DuplicateIdentifier,
        Fail, linkVars, table
  <2> QED  BY <1>2, <2>1, <2>2
<1>5. CASE StartWriting \/ WriteSegment \/ EndWriting \/ CheckSegments
  <2>1. /\ UNCHANGED <<job, files, owner>> /\ FilesAreIn
        /\ stage' = "failed" \/ FilesAreIn'
    BY <1>5 DEF StartWriting, WriteSegment, EndWriting, CheckSegments, Begins,
                InList, Ends, Past, Fail, FilesAreIn, linkVars, table
  <2> QED  BY <1>2, <2>1
<1> QED
  BY <1>1, <1>3, <1>4, <1>5 DEF Next, Ended

(* FilesInv, for every job *)
THEOREM FilesInvariant == Spec => []FilesInv
<1>1. LinkInit /\ PlaceInit => FilesInv
  BY FilesInit
<1>2. FilesInv /\ [Next]_vars => FilesInv'
  BY FilesStep
<1> QED
  BY <1>1, <1>2, PTL DEF Spec, Init

(* No module is loaded twice or without being referenced, however often a  *)
(* library is on the command line and searched; and a module that is       *)
(* referenced is missing from ObjDataList only where LibResolve has taken  *)
(* the library before it out of the list it walks through (InsertObjData). *)
THEOREM LoadedOnceAlways == Spec => []LoadedOnce
<1>1. FilesInv => LoadedOnce
  <2> SUFFICES ASSUME FilesInv  PROVE LoadedOnce
    OBVIOUS
  <2>1. IsInjective(objData) /\ ToSet(objData) \subseteq referenced
    BY FilesTypes DEF FilesInv, LoadsOK, ToSet
  <2>2. ASSUME FilesAreIn, NEW id \in referenced \ ToSet(objData)
        PROVE  PassedOver(id)
    <3>1. Len(openLibs) = 0
      BY <2>2 DEF FilesInv, FilesOK
    <3> QED
      BY <3>1 DEF FilesInv, RestOK, ToLoad
  <2> QED
    BY <2>1, <2>2 DEF LoadedOnce, PassedOver, OnlyObjects
<1> QED
  BY <1>1, FilesInvariant, PTL

(* For any order of files, libraries and groups, and modules that need one *)
(* another round in a circle: a name is left undefined though a library    *)
(* has it only when all who import it came after the last search of that   *)
(* library (LibResolve).                                                   *)
THEOREM SearchCompleteAlways == Spec => []SearchComplete
<1>1. FilesInv => SearchComplete
  <2> SUFFICES ASSUME FilesInv, FilesAreIn, NEW n \in Names,
                      NEW i \in 1 .. Len(job.items), owner[n] = Dummy,
                      Item(i).kind = "lib", Offers(i, n)
               PROVE  /\ n \notin job.forced
                      /\ \A id \in referenced :
                           ImportsOf(Module(id), n) > 0
                             => id[1] > LastSearch(i)
    BY DEF SearchComplete, Offers
  <2>1. Searched(i) /\ stage # "failed"
    BY FilesTypes DEF FilesInv, FilesOK, FilesAreIn, Searched
  <2> QED
    BY <2>1 DEF FilesInv, SearchedOK
<1> QED
  BY <1>1, FilesInvariant, PTL

-----------------------------------------------------------------------------
(* Division and multiples, for AlignAddr and the alignments of segments    *)
LEMMA Quotient ==
  ASSUME NEW a \in Nat, NEW n \in Nat \ {0}
  PROVE  /\ a \div n \in Nat
         /\ a % n \in 0 .. n - 1
         /\ a = (a \div n) * n + (a % n)
<1>1. a \in Nat /\ n \in Nat /\ n > 0
  OBVIOUS
<1>2. a = (a \div n) * n + (a % n)
  BY <1>1, Z3
<1>3. a % n \in 0 .. n - 1
  OBVIOUS
<1>4. a \div n \in Nat
  BY Z3
<1> QED
  BY <1>2, <1>3, <1>4

LEMMA MultipleRemainder ==
  ASSUME NEW q \in Nat, NEW n \in Nat \ {0}
  PROVE  (q * n) % n = 0
OBVIOUS

LEMMA IsMultiple ==
  ASSUME NEW a \in Nat, NEW n \in Nat \ {0}, a % n = 0
  PROVE  \E q \in Nat : a = q * n
<1> DEFINE q == a \div n
           r == a % n
<1>1. q \in Nat /\ r = 0 /\ a = q * n + r
  BY Quotient
<1> HIDE DEF q, r
<1>2. a = q * n
  BY <1>1
<1> QED
  BY <1>1, <1>2

LEMMA SumOfMultiples ==
  ASSUME NEW a \in Nat, NEW b \in Nat, NEW n \in Nat \ {0},
         a % n = 0, b % n = 0
  PROVE  (a + b) % n = 0
<1>1. PICK p \in Nat : a = p * n
  BY IsMultiple
<1>2. PICK q \in Nat : b = q * n
  BY IsMultiple
<1>3. a + b = (p + q) * n
  BY <1>1, <1>2
<1>4. p + q \in Nat
  OBVIOUS
<1>5. ((p + q) * n) % n = 0
  BY <1>4, MultipleRemainder
<1> QED
  BY <1>3, <1>5

LEMMA MultipleOfMultiple ==
  ASSUME NEW a \in Nat, NEW b \in Nat \ {0}, NEW n \in Nat \ {0},
         a % b = 0, b % n = 0
  PROVE  a % n = 0
<1>1. PICK p \in Nat : a = p * b
  BY IsMultiple
<1>2. PICK q \in Nat : b = q * n
  BY IsMultiple
<1>3. a = (p * q) * n
  BY <1>1, <1>2
<1>4. p * q \in Nat
  OBVIOUS
<1>5. ((p * q) * n) % n = 0
  BY <1>4, MultipleRemainder
<1> QED
  BY <1>3, <1>5

(* The next multiple of n from a on                                        *)
LEMMA Aligned ==
  ASSUME NEW a \in Nat, NEW n \in Nat \ {0}
  PROVE  /\ AlignAddr(a, n) \in Nat
         /\ AlignAddr(a, n) >= a
         /\ AlignAddr(a, n) % n = 0
<1> DEFINE b == a + n - 1
           q == b \div n
<1>1. b \in Nat /\ b - a = n - 1
  OBVIOUS
<1>2. q \in Nat /\ b % n \in 0 .. n - 1 /\ b = q * n + (b % n)
  BY <1>1, Quotient
<1>3. AlignAddr(a, n) = q * n
  BY DEF AlignAddr
<1> HIDE DEF q, b
<1>4. q * n \in Nat
  BY <1>2
<1>5. q * n >= a
  BY <1>1, <1>2, <1>4
<1> QED
  BY <1>2, <1>3, <1>4, <1>5, MultipleRemainder

-----------------------------------------------------------------------------
(* The modules whose sections are read are those of the files, and the     *)
(* constructor table is finite.                                            *)
ModuleIds ==
  UNION {{<<i, k>> : k \in 1 .. Len(Item(i).modules)} :
         i \in 1 .. Len(job.items)}

ModulesOK ==
  /\ PlacesOK
  /\ objData \in Seq(ModuleIds)
  /\ IsFiniteSet(conDes)

LEMMA CurrentModule ==
  ASSUME PlacesOK,
         \E what : AtModule(what)
  PROVE  <<openLibs[cursor.lib], cursor.mod>> \in ModuleIds
<1>0. Len(job.items) \in Nat /\ job \in Jobs
  BY LinkAssumption DEF PlacesOK
<1>1. Len(openLibs) \in Nat
  BY LenProperties DEF PlacesOK
<1>2. cursor.lib \in 1 .. Len(openLibs)
  BY <1>1 DEF AtModule, PlacesOK
<1>3. openLibs[cursor.lib] \in 1 .. Len(job.items)
  BY <1>2, ElementOfSeq DEF PlacesOK
<1>4. Len(Item(openLibs[cursor.lib]).modules) \in Nat
  BY <1>0, <1>3, LinkAssumption DEF Item
<1>5. cursor.mod \in 1 .. Len(Item(openLibs[cursor.lib]).modules)
  BY <1>4 DEF AtModule, PlacesOK
<1> QED
  BY <1>3, <1>5 DEF ModuleIds

LEMMA NextObject ==
  ASSUME PlacesOK, NextFile("obj")
  PROVE  <<next, 1>> \in ModuleIds
<1>0. Len(job.items) \in Nat /\ job \in Jobs
  BY LinkAssumption DEF PlacesOK
<1>1. next \in 1 .. Len(job.items) /\ Item(next).kind = "obj"
  BY <1>0 DEF NextFile, PlacesOK
<1>2. Len(Item(next).modules) = 1
  BY <1>0, <1>1, LinkAssumption DEF Item
<1>3. 1 \in 1 .. Len(Item(next).modules)
  BY <1>2
<1> QED
  BY <1>1, <1>3 DEF ModuleIds

Entries(id) == {<<id, n>> : n \in ConDesOf(Module(id))}

LEMMA EntriesFinite ==
  ASSUME PlacesOK, NEW id \in ModuleIds
  PROVE  IsFiniteSet(Entries(id))
<1>1. PICK i \in 1 .. Len(job.items) :
        \E k \in 1 .. Len(Item(i).modules) : id = <<i, k>>
  BY DEF ModuleIds
<1>2. PICK k \in 1 .. Len(Item(i).modules) : id = <<i, k>>
  BY <1>1
<1>3. Module(id) = job.items[i].modules[k]
  BY <1>2 DEF Module, Item
<1>4. ConDesOf(Module(id)) \subseteq Names
  BY <1>2, <1>3, LinkAssumption DEF ConDesOf, Exports, Item, PlacesOK
<1>5. IsFiniteSet(ConDesOf(Module(id)))
  BY <1>4, LinkAssumption, FS_Subset
<1>6. Entries(id) = {id} \X ConDesOf(Module(id))
  BY DEF Entries
<1>7. IsFiniteSet({id})
  BY FS_Singleton
<1> DEFINE C == ConDesOf(Module(id))
<1> HIDE DEF C
<1>8. IsFiniteSet({id} \X C)
  BY <1>5, <1>7, FS_Product DEF C
<1> QED
  BY <1>6, <1>8 DEF C

LEMMA ModuleSteps ==
  ASSUME PlacesOK, [Next]_vars
  PROVE  \/ UNCHANGED <<objData, conDes>>
         \/ \E id \in ModuleIds :
              /\ objData' \in {objData, Append(objData, id)}
              /\ conDes' \in {conDes, conDes \union Entries(id)}
<1> USE DEF table, files, linkVars
<1>1. CASE ObjAdd
  <2>1. <<next, 1>> \in ModuleIds
    BY <1>1, NextObject DEF ObjAdd
  <2> QED
    BY <1>1, <2>1 DEF ObjAdd, DuplicateIdentifier, InsertObjGlobals, Entries
<1>2. CASE LibAdd \/ LibStartGroup \/ LibEndGroup
  BY <1>2 DEF LibAdd, LibStartGroup, LibEndGroup
<1>3. CASE LibCheckExports
  <2>1. <<openLibs[cursor.lib], cursor.mod>> \in ModuleIds
    BY <1>3, CurrentModule DEF LibCheckExports
  <2> QED
    BY <1>3, <2>1 DEF LibCheckExports, DuplicateIdentifier, InsertObjGlobals,
                      Entries
<1>4. CASE LoadModule
  <2>1. <<openLibs[cursor.lib], cursor.mod>> \in ModuleIds
    BY <1>4, CurrentModule DEF LoadModule
  <2> QED
    BY <1>4, <2>1 DEF LoadModule
<1>5. CASE NextLibrary \/ EndOfRound \/ CloseLibrary \/ Resolved
             \/ CheckFiles \/ ConDesCreate \/ ProcessSymbols
  <2>1. CASE NextLibrary \/ EndOfRound \/ CloseLibrary \/ Resolved
    BY <2>1, Zenon DEF NextLibrary, EndOfRound, CloseLibrary, Resolved
  <2>2. CASE CheckFiles \/ ConDesCreate \/ ProcessSymbols
    BY <2>2, Zenon DEF CheckFiles, ConDesCreate, ProcessSymbols,
                       DuplicateIdentifier
  <2> QED  BY <1>5, <2>1, <2>2
<1>6. CASE ReadSection \/ NextModule \/ ProcessSegments \/ StartArea
             \/ PlaceSegment \/ EndArea \/ OpenTarget
  BY <1>6, Zenon
  DEF ReadSection, NextModule, ProcessSegments, StartArea, PlaceSegment,
      EndArea, OpenTarget, DuplicateIdentifier
<1>7. CASE StartWriting \/ WriteSegment \/ EndWriting \/ CheckSegments
             \/ Ended \/ UNCHANGED vars
  BY <1>7 DEF StartWriting, WriteSegment, EndWriting, CheckSegments, Ended,
              vars
<1> QED
  BY <1>1, <1>2, <1>3, <1>4, <1>5, <1>6, <1>7 DEF Next, LinkNext

LEMMA JobStays ==
  ASSUME PlacesOK, [Next]_vars
  PROVE  job' = job
BY TableSteps DEF Stays, TakesIn, Defines

LEMMA ModulesInit == LinkInit /\ PlaceInit => ModulesOK
<1>1. LinkInit => objData = <<>> /\ conDes = {}
  BY DEF LinkInit
<1> QED
  BY <1>1, PlacesInit, EmptySeq, FS_EmptySet DEF ModulesOK

LEMMA ModulesStep ==
  ASSUME ModulesOK, [Next]_vars
  PROVE  ModulesOK'
<1>1. PlacesOK'
  BY PlacesStep DEF ModulesOK
<1>2. ModuleIds' = ModuleIds
  BY JobStays DEF ModulesOK, ModuleIds, Item
<1>3. CASE UNCHANGED <<objData, conDes>>
  BY <1>1, <1>2, <1>3 DEF ModulesOK
<1>4. ASSUME NEW id \in ModuleIds,
             objData' \in {objData, Append(objData, id)},
             conDes' \in {conDes, conDes \union Entries(id)}
      PROVE  ModulesOK'
  <2>1. objData' \in Seq(ModuleIds)
    BY <1>4, AppendProperties DEF ModulesOK
  <2>2. IsFiniteSet(conDes')
    BY <1>4, EntriesFinite, FS_Union DEF ModulesOK
  <2> QED  BY <1>1, <1>2, <2>1, <2>2 DEF ModulesOK
<1> QED
  BY <1>3, <1>4, ModuleSteps DEF ModulesOK

-----------------------------------------------------------------------------
(* Every section is at a multiple of its alignment in its segment, and the *)
(* alignment of the segment is a multiple of it too.                       *)
Section == [seg : Segs, size : Nat, align : Nat \ {0}]

SectionsOK ==
  /\ segSize \in [Segs -> Nat] /\ segAlign \in [Segs -> Nat \ {0}]
  /\ Len(sections) \in Nat /\ DOMAIN sections = 1 .. Len(sections)
  /\ \A k \in 1 .. Len(sections) :
       /\ sections[k].seg \in Segs
       /\ sections[k].offs \in Nat /\ sections[k].align \in Nat \ {0}
       /\ sections[k].offs % sections[k].align = 0
       /\ segAlign[sections[k].seg] % sections[k].align = 0

LEMMA SectionsOfModules ==
  ASSUME ModulesOK, NEW k \in Nat \ {0}
  PROVE  SectionsOf(k) \in Seq(Section)
<1>1. job \in Jobs
  BY DEF ModulesOK, PlacesOK
<1>2. CASE k <= Len(objData)
  <2>1. Len(objData) \in Nat
    BY LenProperties DEF ModulesOK
  <2>2. k \in 1 .. Len(objData)
    BY <1>2, <2>1
  <2>3. objData[k] \in ModuleIds
    BY <2>2, ElementOfSeq DEF ModulesOK
  <2>4. PICK i \in 1 .. Len(Item(objData[k][1]).modules) :
          /\ objData[k][1] \in 1 .. Len(job.items)
          /\ objData[k][2] = i
    BY <2>3 DEF ModuleIds
  <2>5. Module(objData[k]).sections \in Seq(Section)
    BY <1>1, <2>4, PlaceAssumption DEF Module, Item, Section
  <2> QED  BY <1>2, <2>5 DEF SectionsOf
<1>3. CASE ~(k <= Len(objData))
  <2>1. Cardinality(conDes) \in Nat
    BY FS_CardinalityType DEF ModulesOK
  <2>2. job.condes.seg \in Segs
    BY <1>1, PlaceAssumption
  <2>3. [seg |-> job.condes.seg, size |-> 2 * Cardinality(conDes), align |-> 1]
          \in Section
    BY <2>1, <2>2 DEF Section
  <2> QED  BY <1>3, <2>3 DEF SectionsOf, TableSections
<1> QED
  BY <1>2, <1>3

(* Of two alignments the segment has a multiple, if there is one.          *)
LEMMA AlignmentOfBoth ==
  ASSUME NEW a, NEW b, CommonMultiples(a, b) # {}
  PROVE  LET n == Min(CommonMultiples(a, b))
         IN  n \in Nat \ {0} /\ n % a = 0 /\ n % b = 0
<1>1. CommonMultiples(a, b) \in SUBSET Nat
  BY PlaceAssumption DEF CommonMultiples
<1>2. Min(CommonMultiples(a, b)) \in CommonMultiples(a, b)
  BY <1>1, MinIsLeast
<1>3. \A n \in CommonMultiples(a, b) :
        n \in Nat \ {0} /\ n % a = 0 /\ n % b = 0
  BY PlaceAssumption DEF CommonMultiples
<1> QED
  BY <1>2, <1>3

LEMMA SectionsRead ==
  ASSUME ModulesOK, SectionsOK, ReadSection,
         walk.list \in Nat \ {0}, walk.item \in Nat \ {0}
  PROVE  SectionsOK'
<1> DEFINE sec    == SectionsOf(walk.list)[walk.item]
           offs   == AlignAddr(segSize[sec.seg], sec.align)
           aligns == CommonMultiples(segAlign[sec.seg], sec.align)
           n      == Min(aligns)
<1>1. sec \in Section
  <2>1. SectionsOf(walk.list) \in Seq(Section)
    BY SectionsOfModules
  <2>2. walk.item \in 1 .. Len(SectionsOf(walk.list))
    <3>1. Len(SectionsOf(walk.list)) \in Nat
      BY <2>1, LenProperties
    <3>2. walk.item <= Len(SectionsOf(walk.list))
      BY DEF ReadSection
    <3> QED  BY <3>1, <3>2
  <2> QED  BY <2>1, <2>2, ElementOfSeq
<1>2. sec.seg \in Segs /\ sec.size \in Nat /\ sec.align \in Nat \ {0}
  BY <1>1 DEF Section
<1>3. CASE aligns = {}
  <2>1. UNCHANGED segments
    BY <1>3 DEF ReadSection
  <2> QED  BY <2>1 DEF SectionsOK, segments
<1>4. CASE aligns # {}
  <2>1. /\ sections' = Append(sections, [seg |-> sec.seg, size |-> sec.size,
                                       align |-> sec.align, offs |-> offs])
        /\ segSize' = [segSize EXCEPT ![sec.seg] = offs + sec.size]
        /\ segAlign' = [segAlign EXCEPT ![sec.seg] = n]
    BY <1>4 DEF ReadSection
  <2>2. /\ n \in Nat \ {0} /\ n % segAlign[sec.seg] = 0
        /\ n % sec.align = 0
    BY <1>4, AlignmentOfBoth
  <2>3. offs \in Nat /\ offs % sec.align = 0
    BY <1>2, Aligned DEF SectionsOK
  <2> HIDE DEF sec, offs, aligns, n
  <2>4. /\ segSize' \in [Segs -> Nat] /\ segAlign' \in [Segs -> Nat \ {0}]
    BY <1>2, <2>1, <2>2, <2>3 DEF SectionsOK
  <2>5. /\ Len(sections') = Len(sections) + 1
        /\ DOMAIN sections' = 1 .. Len(sections')
        /\ \A k \in 1 .. Len(sections) : sections'[k] = sections[k]
        /\ sections'[Len(sections) + 1] =
             [seg |-> sec.seg, size |-> sec.size, align |-> sec.align,
              offs |-> offs]
    BY <2>1 DEF SectionsOK
  <2>6. ASSUME NEW k \in 1 .. Len(sections)
        PROVE  segAlign'[sections[k].seg] % sections[k].align = 0
    <3>1. /\ sections[k].seg \in Segs /\ sections[k].align \in Nat \ {0}
          /\ segAlign[sections[k].seg] % sections[k].align = 0
      BY DEF SectionsOK
    <3>2. CASE sections[k].seg = sec.seg
      <4>1. segAlign[sec.seg] \in Nat \ {0} /\ segAlign'[sec.seg] = n
        BY <1>2, <2>1 DEF SectionsOK
      <4> QED  BY <2>2, <3>1, <3>2, <4>1, MultipleOfMultiple
    <3>3. CASE sections[k].seg # sec.seg
      BY <2>1, <3>1, <3>3 DEF SectionsOK
    <3> QED  BY <3>2, <3>3
  <2>7. segAlign'[sec.seg] = n
    BY <1>2, <2>1 DEF SectionsOK
  <2> DEFINE l == Len(sections)
  <2>8. l \in Nat /\ Len(sections') = l + 1
    BY <2>5 DEF SectionsOK
  <2>9. ASSUME NEW k \in 1 .. l + 1
        PROVE  /\ sections'[k].seg \in Segs
               /\ sections'[k].offs \in Nat
               /\ sections'[k].align \in Nat \ {0}
               /\ sections'[k].offs % sections'[k].align = 0
               /\ segAlign'[sections'[k].seg] % sections'[k].align = 0
    <3>1. CASE k = l + 1
      <4>1. sections'[k] = [seg |-> sec.seg, size |-> sec.size,
                            align |-> sec.align, offs |-> offs]
        BY <2>5, <3>1
      <4> QED  BY <1>2, <2>2, <2>3, <2>7, <4>1
    <3>2. CASE k \in 1 .. l
      BY <2>5, <2>6, <3>2 DEF SectionsOK
    <3> QED  BY <2>8, <3>1, <3>2
  <2> HIDE DEF l
  <2> QED
    BY <2>4, <2>5, <2>8, <2>9 DEF SectionsOK
<1> QED
  BY <1>3, <1>4

-----------------------------------------------------------------------------
(* What the configuration says of one segment and one area                 *)
LEMMA Configured ==
  ASSUME job \in Jobs
  PROVE  /\ Len(job.areas) \in Nat /\ Len(job.segs) \in Nat
         /\ DOMAIN job.areas = 1 .. Len(job.areas)
         /\ DOMAIN job.segs = 1 .. Len(job.segs)
         /\ \A m \in 1 .. Len(job.areas) :
              Area(m).start \in Nat /\ Area(m).size \in Nat
         /\ \A k, l \in 1 .. Len(job.segs) :
              job.segs[k].seg = job.segs[l].seg => k = l
         /\ \A k \in 1 .. Len(job.segs) :
              /\ job.segs[k].seg \in Segs /\ job.segs[k].addr \in Nat
              /\ job.segs[k].align \in Nat /\ job.segs[k].alignLoad \in Nat
              /\ job.segs[k].at # "none" => job.segs[k].align = 0
BY PlaceAssumption DEF Area

LEMMA FixedIsNat ==
  ASSUME job \in Jobs, NEW k \in 1 .. Len(job.segs),
         job.segs[k].run \in 1 .. Len(job.areas)
  PROVE  FixedAddr(job.segs[k]) \in Nat
<1>1. Area(job.segs[k].run).start \in Nat /\ job.segs[k].addr \in Nat
  BY Configured
<1> QED
  BY SMTT(30), <1>1 DEF FixedAddr

(* The address of a segment when those before it end at a                  *)
LEMMA AddressFound ==
  ASSUME job \in Jobs, NEW k \in 1 .. Len(job.segs),
         NEW m \in 1 .. Len(job.areas), NEW a \in Nat
  PROVE  LET S    == job.segs[k]
             addr == AddrOf(S, m, a)
         IN  /\ addr \in Nat
             /\ ~TooLow(S, m, a) =>
                  /\ ~S.overwrite => addr >= a
                  /\ (~Illegal(S, m) /\ overflown = {} /\ a >= Area(m).start)
                     => addr >= Area(m).start
<1> DEFINE S     == job.segs[k]
           addr  == AddrOf(S, m, a)
           start == Area(m).start
<1>1. /\ S.align \in Nat /\ S.alignLoad \in Nat /\ start \in Nat
      /\ S.at # "none" => S.align = 0
  BY Configured
<1>2. RunAlignment(S) \in Nat \ {0}
  BY <1>1 DEF RunAlignment
<1>3. CASE S.run = m /\ Fixed(S) /\ m \notin overflown /\ ~TooLow(S, m, a)
  <2>1. addr = FixedAddr(S) /\ FixedAddr(S) \in Nat
    BY <1>3, FixedIsNat DEF AddrOf
  <2>2. ~S.overwrite => addr >= a
    BY <1>3, <2>1 DEF TooLow
  <2>3. CASE S.overwrite
    BY <1>1, <1>3, <2>1, <2>3 DEF Illegal
  <2> QED  BY <1>1, <2>1, <2>2, <2>3
<1>4. CASE S.run = m /\ ~(Fixed(S) /\ m \notin overflown /\ ~TooLow(S, m, a))
  <2>1. addr = AlignAddr(a, RunAlignment(S))
    BY <1>4 DEF AddrOf
  <2> HIDE DEF addr, S, start
  <2>2. addr \in Nat /\ addr >= a
    BY <1>2, <2>1, Aligned
  <2> QED  BY <1>1, <2>2 DEF addr, S, start
<1>5. CASE S.run # m /\ S.alignLoad > 0
  <2>1. addr = AlignAddr(a, S.alignLoad)
    BY <1>5 DEF AddrOf
  <2>2. S.alignLoad \in Nat \ {0}
    BY <1>1, <1>5
  <2> HIDE DEF addr, S, start
  <2>3. addr \in Nat /\ addr >= a
    BY <2>1, <2>2, Aligned
  <2> QED  BY <1>1, <2>3 DEF addr, S, start
<1>6. CASE S.run # m /\ ~(S.alignLoad > 0)
  <2>1. addr = a
    BY <1>6 DEF AddrOf
  <2> HIDE DEF addr, S, start
  <2> QED  BY <1>1, <2>1 DEF addr, S, start
<1> QED
  BY <1>3, <1>4, <1>5, <1>6

(* A segment that is not warned about begins at a multiple of whatever its *)
(* alignment, or its fixed address, is a multiple of.                      *)
LEMMA AddressAligned ==
  ASSUME job \in Jobs, NEW k \in 1 .. Len(job.segs),
         NEW m \in 1 .. Len(job.areas), NEW a \in Nat, NEW n \in Nat \ {0},
         job.segs[k].run = m, ~TooLow(job.segs[k], m, a), m \notin overflown,
         AlignedBy(job.segs[k]) % n = 0
  PROVE  AddrOf(job.segs[k], m, a) % n = 0
<1> DEFINE S == job.segs[k]
<1>1. S.align \in Nat /\ (S.at # "none" => S.align = 0)
  BY Configured
<1>2. RunAlignment(S) \in Nat \ {0}
  BY <1>1 DEF RunAlignment
<1>3. CASE S.at = "none"
  <2>1. AddrOf(S, m, a) = AlignAddr(a, RunAlignment(S))
    BY <1>3 DEF AddrOf, Fixed
  <2>2. RunAlignment(S) % n = 0
    BY <1>3 DEF AlignedBy
  <2> HIDE DEF S
  <2>3. /\ AlignAddr(a, RunAlignment(S)) \in Nat
        /\ AlignAddr(a, RunAlignment(S)) % RunAlignment(S) = 0
    BY <1>2, Aligned
  <2>4. AlignAddr(a, RunAlignment(S)) % n = 0
    BY <1>2, <2>2, <2>3, MultipleOfMultiple
  <2> QED  BY <2>1, <2>4 DEF S
<1>4. CASE S.at # "none"
  BY <1>1, <1>4 DEF AddrOf, Fixed, AlignedBy
<1> QED
  BY <1>3, <1>4

(* Between a segment of a list and the next there is no other.             *)
LEMMA NextInList ==
  ASSUME job \in Jobs, NEW m, NEW k \in Nat
  PROVE  /\ After(m, k) \in Nat
         /\ SegList(m) \subseteq 1 .. Len(job.segs)
         /\ \A l \in SegList(m) : l < After(m, k) => l <= k
<1> DEFINE T == {l \in SegList(m) : l > k} \union {InNoList}
<1>1. Len(job.segs) \in Nat /\ DOMAIN job.segs = 1 .. Len(job.segs)
  BY Configured
<1>2. SegList(m) \subseteq 1 .. Len(job.segs)
  BY <1>1 DEF SegList
<1>3. T \in SUBSET Nat /\ T # {}
  BY <1>1, <1>2 DEF InNoList
<1>4. Min(T) \in Nat /\ \A l \in T : Min(T) <= l
  BY <1>3, MinIsLeast
<1>5. After(m, k) = Min(T)
  BY DEF After
<1>6. ASSUME NEW l \in SegList(m), l < After(m, k)  PROVE l <= k
  <2>1. l \in Nat
    BY <1>1, <1>2
  <2>2. l \notin T
    BY <1>4, <1>5, <1>6, <2>1
  <2> QED  BY <2>1, <2>2
<1> QED
  BY <1>2, <1>4, <1>5, <1>6

-----------------------------------------------------------------------------
(* What CfgProcess has reached as long as nothing has overflown: the       *)
(* segments it has been at in this area and in those before fit, and the   *)
(* next one comes after all of them, unless one of them overwrites.        *)
Done(m, k) == m < walk.list \/ (m = walk.list /\ k < walk.item)

Fits(m, k) ==
  LET S == job.segs[k]
  IN  /\ AddrIn(S, m) >= Area(m).start
      /\ EndIn(S, m) <= Area(m).start + Area(m).size
      /\ \A l \in SegList(m) :
           (l < k /\ ~S.overwrite) => EndIn(job.segs[l], m) <= AddrIn(S, m)

PCsAligned ==
  \A s \in Segs : (pc[s] # NotPlaced /\ s \notin misaligned) =>
                   pc[s] \in Nat /\ pc[s] % segAlign[s] = 0

BehindAll ==
  walk.item # 0 =>
    /\ walk.addr >= Area(walk.list).start
    /\ walk.overwrites = 0 =>
         \A k \in SegList(walk.list) :
           k < walk.item => EndIn(job.segs[k], walk.list) <= walk.addr

AddressesOK == pc \in [Segs -> Int] /\ loadAddr \in [Segs -> Int]

OverflowsOK == overflows \in Nat /\ (overflown # {} => overflows > 0)

WalkOK ==
  /\ walk.list \in Nat \ {0} /\ walk.item \in Nat /\ walk.addr \in Nat
  /\ walk.overwrites \in Nat
  /\ walk.item # 0 => walk.list <= Len(job.areas)

AllFit ==
  \A m \in DOMAIN job.areas : \A k \in SegList(m) : Done(m, k) => Fits(m, k)

PlacingOK ==
  /\ AddressesOK /\ OverflowsOK /\ WalkOK
  /\ overflows = 0 => AllFit /\ PCsAligned /\ BehindAll

(* A step that moves no segment *)
LEMMA NothingMoves ==
  ASSUME UNCHANGED <<job, segments, pc, loadAddr>>, NEW m, NEW k
  PROVE  /\ SegList(m)' = SegList(m) /\ Fits(m, k)' = Fits(m, k)
         /\ EndIn(job.segs[k], m)' = EndIn(job.segs[k], m)
BY DEF SegList, Exists, Fits, AddrIn, EndIn, Area, segments

LEMMA AreaStarted ==
  ASSUME job \in Jobs, PlacingOK, StartArea
  PROVE  PlacingOK'
<1>1. /\ UNCHANGED <<job, segments, pc, loadAddr, misaligned, overflown,
                     overflows>>
      /\ walk.item = 0 /\ walk.list <= Len(job.areas)
      /\ walk' = [list |-> walk.list, item |-> After(walk.list, 0),
                  addr |-> Area(walk.list).start, overwrites |-> 0]
  BY DEF StartArea, Begins, FirstItem, linkVars
<1>2. /\ walk'.list = walk.list /\ walk'.item = After(walk.list, 0)
      /\ walk'.addr = Area(walk.list).start /\ walk'.overwrites = 0
  BY <1>1
<1>3. walk.list \in 1 .. Len(job.areas) /\ Len(job.areas) \in Nat
  BY <1>1, Configured DEF PlacingOK, WalkOK
<1>4. Area(walk.list).start \in Nat /\ Area(walk.list)' = Area(walk.list)
  BY <1>1, <1>3, Configured DEF Area
<1>5. /\ After(walk.list, 0) \in Nat
      /\ SegList(walk.list) \subseteq 1 .. Len(job.segs)
      /\ \A l \in SegList(walk.list) : l < After(walk.list, 0) => l <= 0
  BY NextInList
<1>6. \A l \in SegList(walk.list) : ~(l < walk'.item)
  BY <1>2, <1>5, Configured
<1>7. AddressesOK' /\ OverflowsOK' /\ WalkOK'
  <2>1. AddressesOK' /\ OverflowsOK'
    BY <1>1 DEF PlacingOK, AddressesOK, OverflowsOK
  <2>2. WalkOK'
    BY <1>1, <1>2, <1>3, <1>4, <1>5 DEF PlacingOK, WalkOK
  <2> QED  BY <2>1, <2>2
<1>8. ASSUME overflows = 0  PROVE AllFit'
  <2>1. AllFit
    BY <1>8 DEF PlacingOK
  <2>2. ASSUME NEW m \in DOMAIN job.areas, NEW k \in SegList(m), Done(m, k)'
        PROVE  Fits(m, k)'
    <3>1. Done(m, k)
      BY <1>2, <1>6, <2>2 DEF Done
    <3> QED  BY <1>1, <2>1, <3>1, NothingMoves DEF AllFit
  <2> QED  BY <1>1, <2>2, NothingMoves DEF AllFit
<1>9. ASSUME overflows = 0  PROVE PCsAligned'
  BY <1>1, <1>9 DEF PlacingOK, PCsAligned, segments
<1>10. BehindAll'
  <2>1. (walk.addr >= Area(walk.list).start)'
    BY <1>1, <1>2, <1>4 DEF Area
  <2>2. SegList(walk.list)' = SegList(walk.list)
    BY <1>1, <1>2 DEF SegList, Exists, segments
  <2>3. \A k \in SegList(walk.list)' : ~(k < walk'.item)
    BY <1>6, <2>2
  <2> QED  BY <2>1, <2>3 DEF BehindAll
<1> QED
  BY <1>1, <1>7, <1>8, <1>9, <1>10 DEF PlacingOK

LEMMA AreaEnded ==
  ASSUME job \in Jobs, PlacingOK, EndArea, stage' = "place"
  PROVE  PlacingOK'
<1>1. /\ UNCHANGED <<job, segments, pc, loadAddr, misaligned, overflown,
                     overflows>>
      /\ walk.item = Len(job.segs) + 1
      /\ walk'.list = walk.list + 1 /\ walk'.item = 0
      /\ walk'.addr = 0 /\ walk'.overwrites = 0
  BY DEF EndArea, Ends, InNoList, DuplicateIdentifier, Fail, WalkAt
<1>2. AddressesOK' /\ OverflowsOK' /\ WalkOK'
  <2>1. AddressesOK' /\ OverflowsOK'
    BY <1>1 DEF PlacingOK, AddressesOK, OverflowsOK
  <2>2. WalkOK'
    BY <1>1 DEF PlacingOK, WalkOK
  <2> QED  BY <2>1, <2>2
<1>3. ASSUME overflows = 0  PROVE AllFit'
  <2>1. AllFit
    BY <1>3 DEF PlacingOK
  <2>2. ASSUME NEW m \in DOMAIN job.areas, NEW k \in SegList(m), Done(m, k)'
        PROVE  Fits(m, k)'
    <3>1. m \in Nat /\ walk.list \in Nat
      BY Configured DEF PlacingOK, WalkOK
    <3>2. k \in 1 .. Len(job.segs)
      BY NextInList
    <3>3. Done(m, k)
      BY <1>1, <2>2, <3>1, <3>2, Configured DEF Done
    <3> QED  BY <1>1, <2>1, <3>3, NothingMoves DEF AllFit
  <2> QED  BY <1>1, <2>2, NothingMoves DEF AllFit
<1>4. ASSUME overflows = 0  PROVE PCsAligned'
  BY <1>1, <1>4 DEF PlacingOK, PCsAligned, segments
<1>5. BehindAll'
  BY <1>1 DEF BehindAll
<1> QED
  BY <1>1, <1>2, <1>3, <1>4, <1>5 DEF PlacingOK

(* PlaceSegment, when it goes on: what it leaves in the variables          *)
Place(m, k, addr) ==
  LET S   == job.segs[k]
      end == addr + segSize[S.seg]
  IN  /\ UNCHANGED <<job, segments>>
      /\ ~Illegal(S, m)
      /\ misaligned' = IF S.run = m /\ AlignedBy(S) % segAlign[S.seg] # 0
                       THEN misaligned \union {S.seg} ELSE misaligned
      /\ pc' = IF S.run = m THEN [pc EXCEPT ![S.seg] = addr] ELSE pc
      /\ loadAddr' = IF S.load = m THEN [loadAddr EXCEPT ![S.seg] = addr]
                     ELSE loadAddr
      /\ \/ overflows' = overflows + 1 \/ overflows' = overflows + 2
         \/ /\ overflows' = overflows /\ overflown' = overflown
            /\ ~TooLow(S, m, walk.addr)
            /\ end - Area(m).start > Area(m).size => m \in overflown
      /\ walk'.list = m /\ walk'.item = After(m, k) /\ walk'.addr = end
      /\ walk'.overwrites = walk.overwrites + (IF S.overwrite THEN 1 ELSE 0)

LEMMA SegmentPlaced ==
  ASSUME OverflowsOK, PlaceSegment, stage' = "place"
  PROVE  /\ walk.list <= Len(job.areas) /\ walk.item \in SegList(walk.list)
         /\ Place(walk.list, walk.item,
                  AddrOf(job.segs[walk.item], walk.list, walk.addr))
<1> DEFINE m    == walk.list
           S    == job.segs[walk.item]
           addr == AddrOf(S, m, walk.addr)
           end  == addr + segSize[S.seg]
           over == end - Area(m).start > Area(m).size /\ m \notin overflown
           low  == TooLow(S, m, walk.addr)
<1>1. ~(Illegal(S, m) \/ Twice(SymbolsOf(S, m)))
  BY DEF PlaceSegment, InList, Fail
<1>2. InList("place")
  BY DEF PlaceSegment
<1>3. /\ misaligned' = IF S.run = m /\ AlignedBy(S) % segAlign[S.seg] # 0
                       THEN misaligned \union {S.seg} ELSE misaligned
      /\ pc' = IF S.run = m THEN [pc EXCEPT ![S.seg] = addr] ELSE pc
      /\ loadAddr' = IF S.load = m THEN [loadAddr EXCEPT ![S.seg] = addr]
                     ELSE loadAddr
      /\ UNCHANGED <<job, segments>>
  BY <1>1, Zenon DEF PlaceSegment
<1>4. /\ overflows' = overflows + (IF low THEN 1 ELSE 0)
                                 + (IF over THEN 1 ELSE 0)
      /\ overflown' = IF over THEN overflown \union {m} ELSE overflown
      /\ walk' = NextItem(end, IF S.overwrite THEN 1 ELSE 0)
  BY <1>1, Zenon DEF PlaceSegment
<1> HIDE DEF m, S, addr, end, over, low
<1>5. \/ overflows' = overflows + 1 \/ overflows' = overflows + 2
      \/ overflows' = overflows /\ overflown' = overflown /\ ~low /\ ~over
  BY <1>4 DEF OverflowsOK
<1>6. /\ walk'.list = m /\ walk'.item = After(m, walk.item)
      /\ walk'.addr = end
      /\ walk'.overwrites = walk.overwrites + (IF S.overwrite THEN 1 ELSE 0)
  BY <1>4 DEF NextItem, m
<1>7. Place(m, walk.item, addr)
  <2>1. ~over => (end - Area(m).start > Area(m).size => m \in overflown)
    BY DEF over
  <2> QED
    BY <1>1, <1>3, <1>5, <1>6, <2>1 DEF Place, S, end, low
<1> QED
  BY <1>2, <1>7 DEF InList, m, addr, S

(* The addresses of other segments stay, and of the same segment in        *)
(* another area.                                                           *)
LEMMA OthersStay ==
  ASSUME job \in Jobs, AddressesOK, NEW m, NEW k \in SegList(m), NEW addr,
         Place(m, k, addr), NEW n, NEW l \in SegList(n), n # m \/ l # k
  PROVE  /\ AddrIn(job.segs[l], n)' = AddrIn(job.segs[l], n)
         /\ EndIn(job.segs[l], n)' = EndIn(job.segs[l], n)
<1> DEFINE S == job.segs[k]
           T == job.segs[l]
<1>1. k \in 1 .. Len(job.segs) /\ l \in 1 .. Len(job.segs)
  BY NextInList
<1>2. S.seg \in Segs /\ T.seg \in Segs /\ (l # k => T.seg # S.seg)
  BY <1>1, Configured
<1>3. /\ UNCHANGED <<job, segments>>
      /\ pc' = IF S.run = m THEN [pc EXCEPT ![S.seg] = addr] ELSE pc
      /\ loadAddr' = IF S.load = m THEN [loadAddr EXCEPT ![S.seg] = addr]
                     ELSE loadAddr
  BY DEF Place
<1>4. n \in {T.run, T.load}
  BY DEF SegList
<1>5. CASE l # k
  <2>1. pc'[T.seg] = pc[T.seg] /\ loadAddr'[T.seg] = loadAddr[T.seg]
    BY <1>2, <1>3, <1>5 DEF AddressesOK
  <2> QED  BY <1>3, <2>1 DEF AddrIn, EndIn, segments
<1>6. CASE l = k /\ n # m
  BY <1>3, <1>4, <1>6 DEF AddrIn, EndIn, segments
<1> QED
  BY <1>5, <1>6

LEMMA ListsOfNumbers ==
  ASSUME job \in Jobs, SectionsOK, AddressesOK, NEW m, NEW k \in SegList(m)
  PROVE  k \in Nat /\ EndIn(job.segs[k], m) \in Int
<1>1. Len(job.segs) \in Nat /\ DOMAIN job.segs = 1 .. Len(job.segs)
  BY Configured
<1>2. k \in 1 .. Len(job.segs)
  BY <1>1 DEF SegList
<1>3. job.segs[k].seg \in Segs
  BY <1>2, Configured
<1> QED
  BY <1>1, <1>2, <1>3 DEF EndIn, AddrIn, AddressesOK, SectionsOK

LEMMA SegmentKeeps ==
  ASSUME job \in Jobs, SectionsOK, PlacingOK,
         NEW m, NEW k, NEW addr, m = walk.list, k = walk.item,
         m <= Len(job.areas), k \in SegList(m),
         addr = AddrOf(job.segs[k], m, walk.addr), Place(m, k, addr)
  PROVE  PlacingOK'
<1> DEFINE S    == job.segs[k]
           end  == addr + segSize[S.seg]
<1>0. m \in 1 .. Len(job.areas) /\ m \in DOMAIN job.areas
  BY Configured DEF PlacingOK, WalkOK
<1>1. k \in 1 .. Len(job.segs) /\ k # 0 /\ k \in Nat
  <2>1. k \in Nat
    BY DEF PlacingOK, WalkOK
  <2>2. k \in 1 .. Len(job.segs)
    BY <2>1, NextInList
  <2> QED  BY <2>1, <2>2, Configured
<1>2. S.seg \in Segs /\ segSize[S.seg] \in Nat
  BY <1>1, Configured DEF SectionsOK
<1>3. addr \in Nat /\ end \in Nat /\ end >= addr
  <2>1. walk.addr \in Nat
    BY DEF PlacingOK, WalkOK
  <2>2. addr \in Nat
    BY <1>0, <1>1, <2>1, AddressFound
  <2> QED  BY <1>2, <2>2
<1>4. /\ UNCHANGED <<job, segments>> /\ ~Illegal(S, m)
      /\ misaligned' = IF S.run = m /\ AlignedBy(S) % segAlign[S.seg] # 0
                       THEN misaligned \union {S.seg} ELSE misaligned
      /\ pc' = IF S.run = m THEN [pc EXCEPT ![S.seg] = addr] ELSE pc
      /\ loadAddr' = IF S.load = m THEN [loadAddr EXCEPT ![S.seg] = addr]
                     ELSE loadAddr
  BY DEF Place
<1>5. \/ overflows' = overflows + 1 \/ overflows' = overflows + 2
      \/ /\ overflows' = overflows /\ overflown' = overflown
         /\ ~TooLow(S, m, walk.addr)
         /\ end - Area(m).start > Area(m).size => m \in overflown
  BY DEF Place
<1>6. /\ walk'.list = m /\ walk'.item = After(m, k) /\ walk'.addr = end
      /\ walk'.overwrites = walk.overwrites + (IF S.overwrite THEN 1 ELSE 0)
  BY DEF Place
<1>7. /\ After(m, k) \in Nat
      /\ \A l \in SegList(m) : l < After(m, k) => l <= k
  BY <1>1, NextInList
<1>8. AddressesOK'
  BY <1>2, <1>3, <1>4 DEF PlacingOK, AddressesOK
<1>9. OverflowsOK'
  BY <1>5 DEF PlacingOK, OverflowsOK
<1>10. WalkOK'
  BY <1>0, <1>3, <1>4, <1>6, <1>7 DEF PlacingOK, WalkOK
<1>11. AddrIn(S, m)' = addr /\ EndIn(S, m)' = end
  <2>1. m \in {S.run, S.load}
    BY DEF SegList
  <2> QED
    BY <1>2, <1>4, <2>1 DEF AddrIn, EndIn, PlacingOK, AddressesOK, segments
<1>12. ASSUME NEW n, NEW l \in SegList(n), n # m \/ l # k
       PROVE  /\ AddrIn(job.segs[l], n)' = AddrIn(job.segs[l], n)
              /\ EndIn(job.segs[l], n)' = EndIn(job.segs[l], n)
  BY <1>12, OthersStay DEF PlacingOK
<1>13. \A n : SegList(n)' = SegList(n) /\ Area(n)' = Area(n)
  BY <1>4 DEF SegList, Exists, Area, segments
<1> SUFFICES ASSUME overflows' = 0  PROVE AllFit' /\ PCsAligned' /\ BehindAll'
  BY <1>8, <1>9, <1>10 DEF PlacingOK
<1>14. /\ overflows = 0 /\ overflown = {} /\ ~TooLow(S, m, walk.addr)
       /\ AllFit /\ PCsAligned /\ BehindAll
       /\ ~(end - Area(m).start > Area(m).size)
  BY <1>5 DEF PlacingOK, OverflowsOK
<1>15. /\ Area(m).start \in Nat /\ Area(m).size \in Nat /\ walk.addr \in Nat
       /\ addr >= Area(m).start /\ end <= Area(m).start + Area(m).size
  <2>1. Area(m).start \in Nat /\ Area(m).size \in Nat /\ walk.addr \in Nat
    BY <1>0, Configured DEF PlacingOK, WalkOK
  <2>2. walk.addr >= Area(m).start
    BY <1>1, <1>14 DEF BehindAll
  <2>3. addr >= Area(m).start
    BY <1>0, <1>1, <1>4, <1>14, <2>1, <2>2, AddressFound
  <2>4. end <= Area(m).start + Area(m).size
    BY <1>3, <1>14, <2>1
  <2> QED  BY <2>1, <2>3, <2>4
<1>16. ASSUME ~S.overwrite, NEW l \in SegList(m), l < k, walk.overwrites = 0
       PROVE  EndIn(job.segs[l], m) <= addr
  <2>1. EndIn(job.segs[l], m) <= walk.addr
    BY <1>1, <1>14, <1>16 DEF BehindAll
  <2>2. walk.addr <= addr
    BY <1>0, <1>1, <1>14, <1>15, <1>16, AddressFound
  <2>3. EndIn(job.segs[l], m) \in Int
    BY ListsOfNumbers DEF PlacingOK
  <2> QED  BY <1>3, <1>15, <2>1, <2>2, <2>3
<1>17. ~S.overwrite => walk.overwrites = 0
  BY <1>4 DEF Illegal, PlacingOK, WalkOK
<1>18. AllFit'
  <2> SUFFICES ASSUME NEW n \in DOMAIN job.areas, NEW l \in SegList(n),
                      Done(n, l)'
               PROVE  Fits(n, l)'
    BY <1>4, <1>13 DEF AllFit
  <2>0. l \in Nat /\ n \in Nat /\ SegList(n) \subseteq Nat
    <3>1. n \in Nat
      BY Configured
    <3>2. \A j \in SegList(n) : j \in Nat
      BY ListsOfNumbers DEF PlacingOK
    <3> QED  BY <3>1, <3>2
  <2>1. CASE n = m /\ l = k
    <3>1. \A j \in SegList(m) :
            (j < k /\ ~S.overwrite) => EndIn(job.segs[j], m)' <= addr
      <4> SUFFICES ASSUME NEW j \in SegList(m), j < k, ~S.overwrite
                   PROVE  EndIn(job.segs[j], m)' <= addr
        OBVIOUS
      <4>1. j # k
        BY <1>1
      <4> QED  BY <1>12, <1>16, <1>17, <4>1
    <3> QED
      BY <1>4, <1>11, <1>13, <1>15, <2>1, <3>1 DEF Fits
  <2>2. CASE n # m \/ l # k
    <3>1. Done(n, l)
      BY <1>1, <1>6, <1>7, <2>0, <2>2 DEF Done
    <3>2. Fits(n, l)
      BY <1>14, <3>1 DEF AllFit
    <3>3. /\ AddrIn(job.segs[l], n)' = AddrIn(job.segs[l], n)
          /\ EndIn(job.segs[l], n)' = EndIn(job.segs[l], n)
      BY <1>12, <2>2
    <3>4. ASSUME NEW j \in SegList(n), j < l
          PROVE  EndIn(job.segs[j], n)' = EndIn(job.segs[j], n)
      <4>1. n # m \/ j # k
        BY <1>1, <2>0, <2>2, <3>1, <3>4 DEF Done
      <4> QED  BY <1>12, <4>1
    <3> QED
      BY <1>4, <1>13, <3>2, <3>3, <3>4 DEF Fits
  <2> QED  BY <2>1, <2>2
<1>19. PCsAligned'
  <2> SUFFICES ASSUME NEW s \in Segs, pc'[s] # NotPlaced, s \notin misaligned'
               PROVE  pc'[s] \in Nat /\ pc'[s] % segAlign[s] = 0
    BY <1>4 DEF PCsAligned, segments, NotPlaced
  <2>1. CASE s = S.seg /\ S.run = m
    <3>1. pc'[s] = addr /\ AlignedBy(S) % segAlign[s] = 0
      BY <1>2, <1>4, <2>1 DEF PlacingOK, AddressesOK
    <3>2. segAlign[s] \in Nat \ {0}
      BY DEF SectionsOK
    <3>3. addr % segAlign[s] = 0
      <4>1. /\ job.segs[k].run = m /\ ~TooLow(job.segs[k], m, walk.addr)
            /\ m \notin overflown /\ walk.addr \in Nat
            /\ AlignedBy(job.segs[k]) % segAlign[s] = 0
        BY <1>14, <1>15, <2>1, <3>1
      <4>2. AddrOf(job.segs[k], m, walk.addr) % segAlign[s] = 0
        BY SMTT(30), <1>0, <1>1, <3>2, <4>1, AddressAligned
      <4> QED  BY <4>2
    <3> QED  BY <1>3, <3>1, <3>3
  <2>2. CASE ~(s = S.seg /\ S.run = m)
    BY <1>4, <1>14, <2>2 DEF PlacingOK, AddressesOK, PCsAligned
  <2> QED  BY <2>1, <2>2
<1>20. BehindAll'
  <2>1. (walk.addr >= Area(walk.list).start)'
    BY <1>3, <1>4, <1>6, <1>15 DEF Area
  <2>2. SegList(walk.list)' = SegList(m)
    BY <1>4, <1>6 DEF SegList, Exists, segments
  <2>3. ASSUME NEW l \in SegList(m), l < After(m, k), walk'.overwrites = 0
        PROVE  (EndIn(job.segs[l], walk.list) <= walk.addr)'
    <3>1. ~S.overwrite /\ walk.overwrites = 0
      BY <1>6, <2>3 DEF PlacingOK, WalkOK
    <3>2. l <= k /\ l \in Nat
      <4>1. l \in Nat
        BY ListsOfNumbers DEF PlacingOK
      <4> QED  BY <1>7, <2>3, <4>1
    <3>3. EndIn(job.segs[l], m)' <= end
      <4>1. CASE l = k
        BY <1>3, <1>11, <4>1
      <4>2. CASE l # k
        <5>1. EndIn(job.segs[l], m) <= addr
          BY <1>1, <1>16, <3>1, <3>2, <4>2
        <5>2. EndIn(job.segs[l], m) \in Int
          BY ListsOfNumbers DEF PlacingOK
        <5>3. EndIn(job.segs[l], m)' = EndIn(job.segs[l], m)
          BY <1>12, <4>2
        <5> QED  BY <1>3, <5>1, <5>2, <5>3
      <4> QED  BY <4>1, <4>2
    <3> QED
      BY <1>4, <1>6, <3>3 DEF EndIn, AddrIn
  <2> QED  BY <1>6, <2>1, <2>2, <2>3 DEF BehindAll
<1> QED
  BY <1>18, <1>19, <1>20

-----------------------------------------------------------------------------
(* The invariant, by the stage the linker is in                            *)
BeforePlacing == Early \union {"symbols", "segments"}

NothingPlaced ==
  /\ walk.list \in Nat \ {0} /\ walk.item \in Nat \ {0}
  /\ pc = [s \in Segs |-> NotPlaced] /\ loadAddr = [s \in Segs |-> NotPlaced]
  /\ overflown = {} /\ overflows = 0

Placed ==
  PCsAligned /\ \A m \in DOMAIN job.areas : \A k \in SegList(m) : Fits(m, k)

PlaceInv ==
  /\ ModulesOK /\ SectionsOK
  /\ stage \in BeforePlacing => NothingPlaced
  /\ stage = "place" => PlacingOK
  /\ IsPlaced => Placed

LEMMA PlaceInvInit == LinkInit /\ PlaceInit => PlaceInv
<1> SUFFICES ASSUME LinkInit, PlaceInit  PROVE PlaceInv
  OBVIOUS
<1>1. ModulesOK
  BY ModulesInit
<1>2. SectionsOK
  <2>1. /\ sections = <<>>
        /\ segSize = [s \in Segs |-> 0] /\ segAlign = [s \in Segs |-> 1]
    BY DEF PlaceInit
  <2> QED  BY <2>1 DEF SectionsOK
<1>3. NothingPlaced /\ stage = "files"
  <2>1. /\ walk = WalkAt(1, 1) /\ overflown = {} /\ overflows = 0
        /\ pc = [s \in Segs |-> NotPlaced]
        /\ loadAddr = [s \in Segs |-> NotPlaced]
    BY DEF PlaceInit
  <2>2. stage = "files"
    BY DEF LinkInit
  <2> QED  BY <2>1, <2>2 DEF NothingPlaced, WalkAt
<1> QED
  BY <1>1, <1>2, <1>3 DEF PlaceInv, IsPlaced

(* The sections change only as they are read.                              *)
LEMMA SectionsOnlyRead ==
  ASSUME [Next]_vars
  PROVE  ReadSection \/ UNCHANGED segments
<1>1. CASE LinkNext /\ UNCHANGED placeVars
  BY <1>1 DEF placeVars, segments
<1>2. CASE NextModule \/ ProcessSegments \/ StartArea \/ OpenTarget
  BY <1>2, Zenon
  DEF NextModule, ProcessSegments, StartArea, OpenTarget, segments
<1>3. CASE PlaceSegment \/ EndArea
  BY <1>3 DEF PlaceSegment, EndArea, DuplicateIdentifier, placeVars, segments
<1>4. CASE StartWriting \/ WriteSegment \/ EndWriting \/ CheckSegments
  BY <1>4 DEF StartWriting, WriteSegment, EndWriting, CheckSegments,
              placeVars, segments
<1>5. CASE Ended \/ UNCHANGED vars
  BY <1>5 DEF Ended, vars, placeVars, segments
<1> QED
  BY <1>1, <1>2, <1>3, <1>4, <1>5 DEF Next

LEMMA SectionsStep ==
  ASSUME PlaceInv, [Next]_vars
  PROVE  SectionsOK'
<1>1. CASE ReadSection
  <2>1. NothingPlaced
    BY <1>1 DEF ReadSection, PlaceInv, BeforePlacing
  <2> QED  BY <1>1, <2>1, SectionsRead DEF PlaceInv, NothingPlaced
<1>2. CASE UNCHANGED segments
  BY <1>2 DEF PlaceInv, SectionsOK, segments
<1>3. ReadSection \/ UNCHANGED segments
  BY SectionsOnlyRead
<1> QED
  BY <1>1, <1>2, <1>3

LEMMA LinkStage ==
  ASSUME LinkNext
  PROVE  stage \in BeforePlacing /\ stage' \in BeforePlacing \union {"failed"}
<1> USE DEF BeforePlacing, Early
<1>1. CASE ObjAdd \/ LibAdd \/ LibStartGroup \/ LibEndGroup
  BY <1>1 DEF ObjAdd, LibAdd, LibStartGroup, LibEndGroup, NextFile, Fail,
              DuplicateIdentifier, StartSearch
<1>2. CASE LibCheckExports \/ NextLibrary \/ EndOfRound
  BY <1>2 DEF LibCheckExports, NextLibrary, EndOfRound, AtModule, PastModules,
              DuplicateIdentifier, Fail
<1>3. CASE LoadModule \/ CloseLibrary \/ Resolved
  BY <1>3 DEF LoadModule, CloseLibrary, Resolved, AtModule, PastModules
<1>4. CASE CheckFiles \/ ConDesCreate \/ ProcessSymbols
  BY <1>4 DEF CheckFiles, ConDesCreate, ProcessSymbols, DuplicateIdentifier,
              Fail
<1> QED
  BY <1>1, <1>2, <1>3, <1>4 DEF LinkNext

(* Until all sections are read no segment has an address.                  *)
LEMMA ReadingStep ==
  ASSUME NothingPlaced, stage \in BeforePlacing, [Next]_vars
  PROVE  /\ stage' \in BeforePlacing => NothingPlaced'
         /\ stage' = "place" => NothingPlaced /\ ProcessSegments
         /\ stage' \notin {"write", "done"}
<1>1. CASE LinkNext /\ UNCHANGED placeVars
  BY <1>1, LinkStage DEF NothingPlaced, placeVars, placed, BeforePlacing, Early
<1>2. CASE ReadSection
  <2>1. /\ UNCHANGED placed /\ stage' \in {"segments", "failed"}
        /\ walk' \in {walk, WalkAt(walk.list, walk.item + 1)}
    BY <1>2 DEF ReadSection, Fail
  <2> QED  BY <2>1 DEF NothingPlaced, placed, WalkAt, BeforePlacing, Early
<1>3. CASE NextModule
  <2>1. /\ UNCHANGED placed /\ stage' = "segments"
        /\ walk' = WalkAt(walk.list + 1, 1)
    BY <1>3 DEF NextModule, linkVars
  <2> QED  BY <2>1 DEF NothingPlaced, placed, WalkAt, BeforePlacing, Early
<1>4. CASE ProcessSegments
  BY <1>4 DEF ProcessSegments, BeforePlacing, Early
<1>5. CASE UNCHANGED vars
  BY <1>5 DEF NothingPlaced, vars, linkVars, placeVars, placed,
              BeforePlacing, Early
<1>6. ~(\/ StartArea \/ PlaceSegment \/ EndArea \/ OpenTarget
       \/ StartWriting \/ WriteSegment \/ EndWriting \/ CheckSegments
       \/ Ended)
  BY DEF StartArea, PlaceSegment, EndArea, OpenTarget, StartWriting,
         WriteSegment, EndWriting, CheckSegments, Ended, Begins, InList, Ends,
         Past, BeforePlacing, Early
<1> QED
  BY <1>1, <1>2, <1>3, <1>4, <1>5, <1>6 DEF Next

LEMMA PlacingBegins ==
  ASSUME job \in Jobs, NothingPlaced, ProcessSegments
  PROVE  PlacingOK'
<1>1. /\ UNCHANGED <<job, segments, pc, loadAddr, misaligned, overflown,
                     overflows>>
      /\ walk'.list = 1 /\ walk'.item = 0 /\ walk'.addr = 0
      /\ walk'.overwrites = 0
  BY DEF ProcessSegments, WalkAt, placed
<1>2. AddressesOK' /\ OverflowsOK'
  BY <1>1 DEF NothingPlaced, AddressesOK, OverflowsOK, NotPlaced
<1>3. WalkOK' /\ BehindAll'
  BY <1>1 DEF WalkOK, BehindAll
<1>4. PCsAligned'
  BY <1>1 DEF NothingPlaced, PCsAligned
<1>5. AllFit'
  <2>1. \A m \in DOMAIN job.areas : \A k \in SegList(m) : ~Done(m, k)'
    <3> SUFFICES ASSUME NEW m \in DOMAIN job.areas, NEW k \in SegList(m)
                 PROVE  ~Done(m, k)'
      OBVIOUS
    <3>1. Len(job.segs) \in Nat /\ DOMAIN job.segs = 1 .. Len(job.segs)
      BY Configured
    <3>2. k \in Nat
      BY <3>1 DEF SegList
    <3>3. m \in Nat \ {0}
      BY Configured
    <3> QED  BY <1>1, <3>2, <3>3 DEF Done
  <2>2. \A m : SegList(m)' = SegList(m)
    BY <1>1, NothingMoves
  <2> QED  BY <1>1, <2>1, <2>2 DEF AllFit
<1> QED
  BY <1>2, <1>3, <1>4, <1>5 DEF PlacingOK

(* While segments are placed, up to the writing or an error                *)
LEMMA PlacingStep ==
  ASSUME job \in Jobs, SectionsOK, PlacingOK, stage = "place", [Next]_vars
  PROVE  /\ stage' \in {"place", "write", "failed"}
         /\ stage' = "place" => PlacingOK'
         /\ stage' = "write" => OpenTarget /\ overflows = 0
<1>1. CASE StartArea
  BY <1>1, AreaStarted DEF StartArea, linkVars
<1>2. CASE PlaceSegment
  <2>1. stage' \in {"place", "failed"}
    BY <1>2 DEF PlaceSegment, Fail
  <2>2. ASSUME stage' = "place"  PROVE PlacingOK'
    BY <1>2, <2>2, SegmentPlaced, SegmentKeeps DEF PlacingOK
  <2> QED  BY <2>1, <2>2
<1>3. CASE EndArea
  <2>1. stage' \in {"place", "failed"}
    BY <1>3 DEF EndArea, DuplicateIdentifier, Fail
  <2> QED  BY <1>3, <2>1, AreaEnded
<1>4. CASE OpenTarget
  <2>1. overflows \in Nat
    BY DEF PlacingOK, OverflowsOK
  <2>2. \/ stage' = "failed"
        \/ stage' = "write" /\ ~(overflows > 0)
    BY <1>4 DEF OpenTarget, Fail
  <2> QED  BY <1>4, <2>1, <2>2
<1>5. CASE UNCHANGED vars
  <2>1. UNCHANGED <<job, segments, pc, loadAddr, misaligned, overflown,
                    overflows, walk, stage>>
    BY <1>5 DEF vars, linkVars, placeVars, placed
  <2>2. AddressesOK' /\ OverflowsOK' /\ WalkOK'
    BY <2>1 DEF PlacingOK, AddressesOK, OverflowsOK, WalkOK
  <2>3. (overflows = 0 => AllFit /\ PCsAligned /\ BehindAll)'
    BY <2>1 DEF PlacingOK, AllFit, PCsAligned, BehindAll, Done, Fits, SegList,
                Exists, AddrIn, EndIn, Area, segments
  <2> QED  BY <2>1, <2>2, <2>3 DEF PlacingOK
<1>6. ~LinkNext
  BY LinkStage DEF BeforePlacing, Early
<1>7. ~(\/ ReadSection \/ NextModule \/ ProcessSegments
       \/ StartWriting \/ WriteSegment \/ EndWriting \/ CheckSegments
       \/ Ended)
  BY DEF ReadSection, NextModule, ProcessSegments, StartWriting, WriteSegment,
         EndWriting, CheckSegments, Ended, Begins, InList, Ends, Past
<1> QED
  BY <1>1, <1>2, <1>3, <1>4, <1>5, <1>6, <1>7 DEF Next

LEMMA PlacingEnds ==
  ASSUME job \in Jobs, PlacingOK, overflows = 0, OpenTarget
  PROVE  Placed'
<1>1. /\ UNCHANGED <<job, segments, pc, loadAddr, misaligned>>
      /\ walk.list > Len(job.areas)
  BY DEF OpenTarget, Past, placed
<1>2. ASSUME NEW m \in DOMAIN job.areas, NEW k \in SegList(m)
      PROVE  Fits(m, k)
  <2>1. m \in 1 .. Len(job.areas) /\ Len(job.areas) \in Nat
    BY Configured
  <2>2. Done(m, k)
    BY <1>1, <2>1 DEF Done, PlacingOK, WalkOK
  <2> QED  BY <2>2 DEF PlacingOK, AllFit
<1>3. \A m : \A k : SegList(m)' = SegList(m) /\ Fits(m, k)' = Fits(m, k)
  BY <1>1, NothingMoves
<1>4. PCsAligned'
  BY <1>1 DEF PlacingOK, PCsAligned, segments
<1> QED
  BY <1>1, <1>2, <1>3, <1>4 DEF Placed

(* The writing moves no segment.                                           *)
LEMMA WritingStep ==
  ASSUME IsPlaced, Placed, [Next]_vars
  PROVE  /\ stage' \in {"write", "done", "failed"}
         /\ Placed'
<1>1. /\ UNCHANGED <<job, segments, pc, loadAddr, misaligned>>
      /\ stage' \in {"write", "done", "failed"}
  <2>1. CASE StartWriting \/ WriteSegment \/ EndWriting \/ CheckSegments
    BY <2>1 DEF StartWriting, WriteSegment, EndWriting, CheckSegments, Begins,
                InList, Ends, Past, Fail, placed, placeVars, linkVars
  <2>2. CASE Ended \/ UNCHANGED vars
    BY <2>2 DEF Ended, vars, linkVars, placeVars, placed, IsPlaced
  <2>3. ~LinkNext
    BY SMTT(30), LinkStage DEF IsPlaced, BeforePlacing, Early
  <2>4. ~(\/ ReadSection \/ NextModule \/ ProcessSegments
         \/ StartArea \/ PlaceSegment \/ EndArea \/ OpenTarget)
    BY DEF ReadSection, NextModule, ProcessSegments, StartArea, PlaceSegment,
           EndArea, OpenTarget, Begins, InList, Ends, Past, IsPlaced
  <2> QED  BY <2>1, <2>2, <2>3, <2>4 DEF Next
<1>2. \A m : \A k : SegList(m)' = SegList(m) /\ Fits(m, k)' = Fits(m, k)
  BY <1>1, NothingMoves
<1>3. PCsAligned'
  BY <1>1 DEF Placed, PCsAligned, segments
<1> QED
  BY <1>1, <1>2, <1>3 DEF Placed

(* Once the file is written, or nothing can be.                            *)
LEMMA StageStays ==
  ASSUME [Next]_vars, stage \notin BeforePlacing \union {"place", "write"}
  PROVE  stage' = stage
<1>1. ~LinkNext
  BY LinkStage
<1>2. ~(\/ ReadSection \/ NextModule \/ ProcessSegments
        \/ StartArea \/ PlaceSegment \/ EndArea \/ OpenTarget
        \/ StartWriting \/ WriteSegment \/ EndWriting \/ CheckSegments)
  BY Zenon
  DEF ReadSection, NextModule, ProcessSegments, StartArea, PlaceSegment,
      EndArea, OpenTarget, StartWriting, WriteSegment, EndWriting,
      CheckSegments, Begins, InList, Ends, Past, BeforePlacing
<1> QED
  BY <1>1, <1>2 DEF Next, Ended, vars, linkVars

LEMMA PlaceInvStep ==
  ASSUME PlaceInv, [Next]_vars
  PROVE  PlaceInv'
<1>1. ModulesOK' /\ SectionsOK' /\ job \in Jobs
  BY ModulesStep, SectionsStep DEF PlaceInv, ModulesOK, PlacesOK
<1>2. CASE stage \in BeforePlacing
  BY <1>1, <1>2, ReadingStep, PlacingBegins
  DEF PlaceInv, IsPlaced
<1>3. CASE stage = "place"
  BY <1>1, <1>3, PlacingStep, PlacingEnds
  DEF PlaceInv, IsPlaced, BeforePlacing, Early
<1>4. CASE IsPlaced
  BY <1>1, <1>4, WritingStep DEF PlaceInv, IsPlaced, BeforePlacing, Early
<1>5. CASE stage \notin BeforePlacing \union {"place", "write", "done"}
  <2>1. stage' = stage
    BY <1>5, StageStays
  <2> QED  BY <1>1, <1>5, <2>1 DEF PlaceInv, IsPlaced
<1> QED
  BY <1>2, <1>3, <1>4, <1>5 DEF IsPlaced

(* PlaceInv, for every job: it holds at the start and every step keeps it. *)
THEOREM PlaceInvariant == Spec => []PlaceInv
<1>1. LinkInit /\ PlaceInit => PlaceInv
  BY PlaceInvInit
<1>2. PlaceInv /\ [Next]_vars => PlaceInv'
  BY PlaceInvStep
<1> QED
  BY <1>1, <1>2, PTL DEF Spec, Init

(* Whatever the memory areas and the segments in them: when the linker has *)
(* not stopped with an overflow, all segments of an area are inside it and *)
(* no two of them share an address unless one is there to overwrite        *)
(* (CfgProcess).                                                           *)
THEOREM InsideAndApartAlways == Spec => []InsideAndApart
<1>1. PlaceInv => InsideAndApart
  BY DEF PlaceInv, Placed, Fits, InsideAndApart
<1> QED
  BY <1>1, PlaceInvariant, PTL

(* And every section runs at a multiple of the alignment its module asked  *)
(* for, except in a segment the linker has warned of (CfgProcess,          *)
(* NewSection).                                                            *)
THEOREM AlignedUnlessWarnedAlways == Spec => []AlignedUnlessWarned
<1>1. PlaceInv => AlignedUnlessWarned
  <2> SUFFICES ASSUME PlaceInv, IsPlaced, NEW k \in DOMAIN sections,
                      pc[sections[k].seg] # NotPlaced,
                      sections[k].seg \notin misaligned
               PROVE  (pc[sections[k].seg] + sections[k].offs)
                        % sections[k].align = 0
    BY DEF AlignedUnlessWarned
  <2> DEFINE s     == sections[k].seg
             offs  == sections[k].offs
             align == sections[k].align
             base  == pc[s]
             both  == segAlign[s]
  <2>1. /\ s \in Segs /\ offs \in Nat /\ align \in Nat \ {0}
        /\ offs % align = 0 /\ both % align = 0 /\ both \in Nat \ {0}
    BY DEF PlaceInv, SectionsOK
  <2>2. base \in Nat /\ base % both = 0
    BY <2>1 DEF PlaceInv, Placed, PCsAligned
  <2> HIDE DEF s, offs, align, base, both
  <2>3. base % align = 0
    BY <2>1, <2>2, MultipleOfMultiple
  <2>4. (base + offs) % align = 0
    BY <2>1, <2>2, <2>3, SumOfMultiples
  <2> QED  BY <2>4 DEF s, offs, align, base
<1> QED
  BY <1>1, PlaceInvariant, PTL

-----------------------------------------------------------------------------
(* What lies before item i in the list of an area, and how far CfgProcess  *)
(* and BinWriteMem have come there: both go through the same list.         *)
Prior(m, i) == {l \in SegList(m) : l < i}

Reached(m, i) ==
  IF Prior(m, i) = {} THEN Area(m).start
  ELSE EndIn(job.segs[Max(Prior(m, i))], m)

(* The address of a segment in an area where nothing has overflown, as     *)
(* CfgProcess finds it and BinWriteMem once more: the two run over the     *)
(* segments on their own, and the output file is right because they agree. *)
Laid(S, m, a) ==
  IF S.run = m
  THEN IF Fixed(S) THEN FixedAddr(S) ELSE AlignAddr(a, RunAlignment(S))
  ELSE IF S.alignLoad > 0 THEN AlignAddr(a, S.alignLoad) ELSE a

LaidOut(m, k) ==
  LET S == job.segs[k]
  IN  /\ AddrIn(S, m) = Laid(S, m, Reached(m, k))
      /\ S.load = m => loadAddr[S.seg] = AddrIn(S, m)
      /\ S.overwrite => S.at # "none"
      /\ ~S.overwrite => \A l \in Prior(m, k) : ~job.segs[l].overwrite

(* Between two segments, the address both have come to                     *)
AtNext ==
  walk.item # 0 =>
    /\ walk.item \in SegList(walk.list) \union {InNoList}
    /\ walk.addr = Reached(walk.list, walk.item)

NoneOverwrites ==
  (walk.item # 0 /\ walk.overwrites = 0) =>
    \A l \in Prior(walk.list, walk.item) : ~job.segs[l].overwrite

(* The fill level of an area: the end of the highest segment so far        *)
Tops(m, i) == {EndIn(job.segs[l], m) - Area(m).start : l \in Prior(m, i)}

IsTop(T, v) == v \in Nat /\ (\A t \in T : t <= v) /\ (v = 0 \/ v \in T)

IsLevel(m, i, v) == IsTop(Tops(m, i), v)

(* What an area has taken in the file so far: up to its fill level where   *)
(* it comes out as its image, otherwise the segments that are loaded       *)
(* there, each with the gap before it.                                     *)
Stored(m, i) ==
  {k \in Prior(m, i) : job.segs[k].load = m /\ ~job.segs[k].bss}

Room(m) == [k \in 1 .. Len(job.segs) |->
              EndIn(job.segs[k], m) - Reached(m, k)]

Taken(m, i, v) ==
  IF IsImage(m) THEN IsLevel(m, i, v)
  ELSE v = SumOf(Room(m), Stored(m, i))

Extent(m, v) ==
  IF Area(m).fill THEN v = Area(m).size ELSE Taken(m, InNoList, v)

(* Where an area begins in the file: behind the area before it that goes   *)
(* there                                                                   *)
Outs(m) == {n \in DOMAIN job.areas : Area(n).out /\ n < m}

FileBefore(m, v) ==
  IF Outs(m) = {} THEN v = 0
  ELSE Extent(Max(Outs(m)), v - fileOffs[Max(Outs(m))])

-----------------------------------------------------------------------------
(* The greatest of some numbers                                            *)
LEMMA MaxIsGreatest ==
  ASSUME NEW n \in Nat, NEW S \in SUBSET (0 .. n), S # {}
  PROVE  Max(S) \in S /\ \A x \in S : x <= Max(S)
<1> DEFINE T == {n - x : x \in S}
<1>1. T \in SUBSET Nat /\ T # {}
  <2>1. \A x \in S : n - x \in Nat
    OBVIOUS
  <2> QED  BY <2>1
<1>2. Min(T) \in T /\ \A y \in T : Min(T) <= y
  BY <1>1, MinIsLeast
<1>3. PICK m \in S : Min(T) = n - m
  BY <1>2
<1>4. \A x \in S : m >= x
  <2> SUFFICES ASSUME NEW x \in S  PROVE m >= x
    OBVIOUS
  <2>1. n - m <= n - x
    BY <1>2, <1>3
  <2> QED  BY <2>1
<1>5. \E x \in S : \A y \in S : x >= y
  BY <1>4
<1>6. Max(S) \in S /\ \A y \in S : Max(S) >= y
  BY <1>5 DEF Max
<1> QED
  BY <1>6

LEMMA MaxIs ==
  ASSUME NEW S \in SUBSET Nat, NEW m \in S, \A x \in S : x <= m
  PROVE  Max(S) = m
<1>1. \A x \in S : m >= x
  OBVIOUS
<1>2. Max(S) \in S /\ \A y \in S : Max(S) >= y
  BY <1>1 DEF Max
<1>3. Max(S) \in Nat /\ m \in Nat /\ Max(S) <= m /\ Max(S) >= m
  BY <1>2
<1> HIDE DEF Max
<1> QED
  BY <1>3

(* The segment after k in a list, and what comes before it                 *)
LEMMA NextIs ==
  ASSUME job \in Jobs, NEW m, NEW k \in Nat
  PROVE  LET i == After(m, k)
         IN  /\ i \in SegList(m) \union {InNoList} /\ i \in Nat
             /\ k \in SegList(m) \union {0} => i > k
             /\ k = 0 => Prior(m, i) = {}
             /\ k \in SegList(m) => /\ Prior(m, i) = Prior(m, k) \union {k}
                                   /\ Max(Prior(m, i)) = k
<1> DEFINE T == {l \in SegList(m) : l > k} \union {InNoList}
           i == After(m, k)
<1>1. /\ Len(job.segs) \in Nat
      /\ SegList(m) \subseteq 1 .. Len(job.segs)
      /\ i \in Nat /\ \A l \in SegList(m) : l < i => l <= k
  BY Configured, NextInList
<1>2. T \in SUBSET Nat /\ T # {}
  BY <1>1 DEF InNoList
<1>3. i \in T
  BY <1>2, MinIsLeast DEF After
<1> HIDE DEF i
<1>4. i \in SegList(m) \union {InNoList}
  BY <1>3
<1>5. k \in SegList(m) \union {0} => i > k
  BY <1>1, <1>3 DEF InNoList
<1>6. k = 0 => Prior(m, i) = {}
  BY <1>1 DEF Prior
<1>7. ASSUME k \in SegList(m)  PROVE  /\ Prior(m, i) = Prior(m, k) \union {k}
                                      /\ Max(Prior(m, i)) = k
  <2>1. i > k
    BY <1>5, <1>7
  <2>2. \A l \in SegList(m) : l \in Nat /\ (l < i <=> l < k \/ l = k)
    BY <1>1, <2>1
  <2>3. Prior(m, i) = Prior(m, k) \union {k}
    BY <1>7, <2>2 DEF Prior
  <2>4. Prior(m, i) \in SUBSET Nat /\ k \in Prior(m, i)
        /\ \A l \in Prior(m, i) : l <= k
    BY <1>1, <1>7, <2>1, <2>2, <2>3 DEF Prior
  <2> QED  BY <2>3, <2>4, MaxIs
<1> QED
  BY <1>1, <1>4, <1>5, <1>6, <1>7 DEF i

(* The list has an end, and there it has been walked through.              *)
LEMMA PriorIsFinite ==
  ASSUME job \in Jobs, NEW m, NEW i
  PROVE  /\ Prior(m, i) \subseteq 1 .. Len(job.segs)
         /\ Prior(m, i) \subseteq SegList(m)
         /\ IsFiniteSet(Prior(m, i)) /\ Prior(m, InNoList) = SegList(m)
<1>1. Len(job.segs) \in Nat /\ SegList(m) \subseteq 1 .. Len(job.segs)
  BY Configured, NextInList
<1>2. Prior(m, i) \subseteq 1 .. Len(job.segs) /\ Prior(m, i) \subseteq
        SegList(m)
  BY <1>1 DEF Prior
<1>3. IsFiniteSet(1 .. Len(job.segs))
  BY <1>1, FS_Interval
<1>4. Prior(m, InNoList) = SegList(m)
  BY <1>1 DEF Prior, InNoList
<1> QED
  BY <1>2, <1>3, <1>4, FS_Subset

(* The segments of an area as numbers                                      *)
LEMMA ListOfNumbers ==
  ASSUME job \in Jobs, NEW m
  PROVE  /\ SegList(m) \subseteq 1 .. Len(job.segs) /\ Len(job.segs) \in Nat
         /\ SegList(m) \subseteq Nat \ {0}
         /\ \A k \in SegList(m) : job.segs[k].seg \in Segs
<1>1. SegList(m) \subseteq 1 .. Len(job.segs) /\ Len(job.segs) \in Nat
  BY Configured, NextInList
<1> QED
  BY <1>1, Configured

(* The list goes on where the segment ends.                                *)
LEMMA ReachedNext ==
  ASSUME job \in Jobs, NEW m
  PROVE  /\ Reached(m, After(m, 0)) = Area(m).start
         /\ \A k \in SegList(m) :
              Reached(m, After(m, k)) = EndIn(job.segs[k], m)
<1>1. Prior(m, After(m, 0)) = {}
  BY NextIs
<1>2. ASSUME NEW k \in SegList(m)
      PROVE  Reached(m, After(m, k)) = EndIn(job.segs[k], m)
  <2>1. k \in Nat /\ Prior(m, k) \subseteq Nat
    BY PriorIsFinite, NextInList, Configured
  <2>2. k \in Prior(m, After(m, k)) /\ Max(Prior(m, After(m, k))) = k
    BY <2>1, NextIs
  <2> QED  BY <2>2 DEF Reached
<1> QED
  BY <1>1, <1>2 DEF Reached

(* Prior segments that fit                                                 *)
PriorFit(m, i) == \A l \in Prior(m, i) : Fits(m, l)

LEMMA LastBefore ==
  ASSUME job \in Jobs, NEW m, NEW i, Prior(m, i) # {}
  PROVE  \E l \in Prior(m, i) : /\ Reached(m, i) = EndIn(job.segs[l], m)
                                /\ \A j \in Prior(m, i) : j <= l
<1>1. /\ Prior(m, i) \subseteq 1 .. Len(job.segs) /\ Len(job.segs) \in Nat
  BY PriorIsFinite, Configured
<1>2. Prior(m, i) \in SUBSET (0 .. Len(job.segs))
  BY <1>1
<1> QED
  BY <1>1, <1>2, MaxIsGreatest DEF Reached

(* Behind segments that fit, the address is in the area.                   *)
LEMMA ReachedInArea ==
  ASSUME job \in Jobs, SectionsOK, AddressesOK,
         NEW m \in DOMAIN job.areas, NEW i, PriorFit(m, i)
  PROVE  /\ Reached(m, i) \in Nat
         /\ Reached(m, i) >= Area(m).start
         /\ Reached(m, i) <= Area(m).start + Area(m).size
         /\ Area(m).start \in Nat /\ Area(m).size \in Nat
         /\ \A l \in Prior(m, i) :
              /\ EndIn(job.segs[l], m) \in Nat
                   /\ AddrIn(job.segs[l], m) \in Nat
              /\ EndIn(job.segs[l], m) >= AddrIn(job.segs[l], m)
              /\ AddrIn(job.segs[l], m) >= Area(m).start
              /\ EndIn(job.segs[l], m) <= Area(m).start + Area(m).size
<1>1. Area(m).start \in Nat /\ Area(m).size \in Nat
  BY Configured
<1>2. ASSUME NEW l \in Prior(m, i)
      PROVE  /\ EndIn(job.segs[l], m) \in Nat /\ AddrIn(job.segs[l], m) \in Nat
             /\ EndIn(job.segs[l], m) >= AddrIn(job.segs[l], m)
             /\ AddrIn(job.segs[l], m) >= Area(m).start
             /\ EndIn(job.segs[l], m) <= Area(m).start + Area(m).size
  <2>1. l \in 1 .. Len(job.segs) /\ Fits(m, l)
    BY PriorIsFinite DEF PriorFit
  <2>2. job.segs[l].seg \in Segs
    BY <2>1, Configured
  <2>3. AddrIn(job.segs[l], m) \in Int /\ segSize[job.segs[l].seg] \in Nat
    BY <2>2 DEF AddrIn, AddressesOK, SectionsOK
  <2>4. /\ AddrIn(job.segs[l], m) >= Area(m).start
        /\ EndIn(job.segs[l], m) <= Area(m).start + Area(m).size
    BY <2>1 DEF Fits
  <2> QED  BY <1>1, <2>3, <2>4 DEF EndIn
<1>3. CASE Prior(m, i) = {}
  BY <1>1, <1>3 DEF Reached
<1>4. CASE Prior(m, i) # {}
  <2>1. PICK l \in Prior(m, i) : Reached(m, i) = EndIn(job.segs[l], m)
    BY <1>4, LastBefore
  <2> QED  BY <1>1, <1>2, <2>1
<1> QED
  BY <1>1, <1>2, <1>3, <1>4

-----------------------------------------------------------------------------
LEMMA TopGrows ==
  ASSUME NEW T \in SUBSET Int, NEW v, IsTop(T, v), NEW t \in Nat
  PROVE  IsTop(T \union {t}, IF t > v THEN t ELSE v)
BY DEF IsTop

LEMMA TopIsOne ==
  ASSUME NEW T \in SUBSET Int, NEW v, IsTop(T, v), NEW w, IsTop(T, w),
         \A t \in T : t >= 0
  PROVE  v = w
BY DEF IsTop

(* As long as no segment overwrites, the level is where the last ended.    *)
LEMMA LevelIsReached ==
  ASSUME job \in Jobs, SectionsOK, AddressesOK,
         NEW m \in DOMAIN job.areas, NEW i, PriorFit(m, i),
         \A l \in Prior(m, i) : ~job.segs[l].overwrite,
         NEW v, IsLevel(m, i, v)
  PROVE  Reached(m, i) = Area(m).start + v
<1>1. /\ Area(m).start \in Nat
      /\ \A l \in Prior(m, i) :
           /\ EndIn(job.segs[l], m) \in Nat /\ AddrIn(job.segs[l], m) \in Nat
           /\ EndIn(job.segs[l], m) >= AddrIn(job.segs[l], m)
           /\ AddrIn(job.segs[l], m) >= Area(m).start
  BY ReachedInArea
<1>2. CASE Prior(m, i) = {}
  BY <1>1, <1>2 DEF IsLevel, IsTop, Tops, Reached
<1>3. CASE Prior(m, i) # {}
  <2>1. PICK j \in Prior(m, i) : /\ Reached(m, i) = EndIn(job.segs[j], m)
                                 /\ \A l \in Prior(m, i) : l <= j
    BY <1>3, LastBefore
  <2>2. ASSUME NEW l \in Prior(m, i)
        PROVE  EndIn(job.segs[l], m) <= EndIn(job.segs[j], m)
    <3>1. l \in Nat /\ j \in Nat /\ l \in SegList(m)
      BY PriorIsFinite, Configured
    <3>2. CASE l < j
      <4>1. EndIn(job.segs[l], m) <= AddrIn(job.segs[j], m)
        BY <3>1, <3>2 DEF PriorFit, Fits
      <4> QED  BY <1>1, <4>1
    <3>3. CASE l = j
      BY <1>1, <3>3
    <3> QED  BY <2>1, <3>1, <3>2, <3>3
  <2>3. /\ v \in Nat
        /\ \A l \in Prior(m, i) : EndIn(job.segs[l], m) - Area(m).start <= v
        /\ \/ v = 0
           \/ \E l \in Prior(m, i) : v = EndIn(job.segs[l], m) - Area(m).start
    BY DEF IsLevel, IsTop, Tops
  <2>4. EndIn(job.segs[j], m) - Area(m).start = v
    <3>1. EndIn(job.segs[j], m) - Area(m).start <= v
      BY <2>3
    <3>2. EndIn(job.segs[j], m) - Area(m).start >= 0
      BY <1>1
    <3>3. ASSUME NEW l \in Prior(m, i),
                 v = EndIn(job.segs[l], m) - Area(m).start
          PROVE  v <= EndIn(job.segs[j], m) - Area(m).start
      BY <1>1, <2>2, <3>3
    <3> QED  BY <1>1, <2>3, <3>1, <3>2, <3>3
  <2> QED  BY <1>1, <2>1, <2>3, <2>4
<1> QED
  BY <1>2, <1>3

(* There is one such level.                                                *)
LEMMA LevelIsOne ==
  ASSUME job \in Jobs, SectionsOK, AddressesOK,
         NEW m \in DOMAIN job.areas, NEW i, PriorFit(m, i),
         NEW v, IsLevel(m, i, v), NEW w, IsLevel(m, i, w)
  PROVE  v = w
<1>1. /\ Area(m).start \in Nat
      /\ \A l \in Prior(m, i) :
           /\ EndIn(job.segs[l], m) \in Nat /\ AddrIn(job.segs[l], m) \in Nat
           /\ EndIn(job.segs[l], m) >= AddrIn(job.segs[l], m)
           /\ AddrIn(job.segs[l], m) >= Area(m).start
  BY ReachedInArea
<1>2. Tops(m, i) \in SUBSET Int /\ \A t \in Tops(m, i) : t >= 0
  BY <1>1 DEF Tops
<1> QED
  BY <1>2, TopIsOne DEF IsLevel

(* No segment reaches beyond its area.                                     *)
LEMMA LevelInArea ==
  ASSUME job \in Jobs, SectionsOK, AddressesOK,
         NEW m \in DOMAIN job.areas, NEW i, PriorFit(m, i),
         NEW v, IsLevel(m, i, v)
  PROVE  v \in 0 .. Area(m).size
<1>1. /\ Area(m).start \in Nat /\ Area(m).size \in Nat
      /\ \A l \in Prior(m, i) :
           /\ EndIn(job.segs[l], m) \in Nat
           /\ EndIn(job.segs[l], m) <= Area(m).start + Area(m).size
  BY ReachedInArea
<1> QED
  BY <1>1 DEF IsLevel, IsTop, Tops

LEMMA NewAddrIsLaid ==
  ASSUME NEW S, NEW m
  PROVE  /\ NewAddr(S, m) = Laid(S, m, walk.addr)
         /\ (overflown = {} /\ ~TooLow(S, m, walk.addr)) =>
              AddrOf(S, m, walk.addr) = Laid(S, m, walk.addr)
BY DEF NewAddr, AddrOf, Laid

(* What the next segment adds to the ones before it                        *)
LEMMA NextStored ==
  ASSUME job \in Jobs, NEW m, NEW k \in SegList(m)
  PROVE  /\ k \notin Stored(m, k)
         /\ Stored(m, After(m, k)) =
              Stored(m, k) \union
                (IF job.segs[k].load = m /\ ~job.segs[k].bss THEN {k} ELSE {})
         /\ IsFiniteSet(Stored(m, k)) /\ Stored(m, k) \subseteq Prior(m, k)
         /\ IsFiniteSet(Stored(m, After(m, k)))
<1>1. k \in Nat
  BY ListOfNumbers
<1>2. Prior(m, After(m, k)) = Prior(m, k) \union {k}
  BY <1>1, NextIs
<1>3. k \notin Prior(m, k)
  BY <1>1 DEF Prior
<1> QED
  BY <1>2, <1>3, PriorIsFinite, FS_Subset DEF Stored

-----------------------------------------------------------------------------
(* The placing: the addresses, the fill levels, and the sizes of the       *)
(* files, which are what the areas have taken if the two passes count      *)
(* every one of them alike                                                 *)
UpTo(m) == IF m < walk.list THEN InNoList
           ELSE IF m = walk.list THEN walk.item ELSE 0

LevelsOK ==
  /\ fillLevel \in [DOMAIN job.areas -> Nat]
  /\ \A m \in DOMAIN job.areas : IsLevel(m, UpTo(m), fillLevel[m])

AllAccounted == \A m \in DOMAIN job.areas : Area(m).out => Accounted(m)

InOut == walk.item # 0 /\ Area(walk.list).out

OffsetsOK ==
  \A m \in DOMAIN job.areas :
    (Area(m).out /\ (m < walk.list \/ (m = walk.list /\ walk.item # 0)))
    => FileBefore(m, fileOffs[m])

SizeAt(v) ==
  IF InOut THEN Taken(walk.list, walk.item, v - fileOffs[walk.list])
  ELSE FileBefore(walk.list, v)

SizesOK ==
  /\ fileSize \in [BOOLEAN -> Nat] /\ fileOffs \in [DOMAIN job.areas -> Nat]
  /\ AllAccounted => OffsetsOK /\ SizeAt(fileSize[TRUE])

PlacingMore ==
  overflows = 0 =>
    /\ \A m \in DOMAIN job.areas : \A k \in SegList(m) :
         Done(m, k) => LaidOut(m, k)
    /\ AtNext /\ NoneOverwrites /\ LevelsOK /\ SizesOK

(* A segment that does not overwrite begins behind the one before it.      *)
LEMMA RoomIsNat ==
  ASSUME job \in Jobs, SectionsOK, AddressesOK,
         NEW m \in DOMAIN job.areas, NEW k \in SegList(m),
         PriorFit(m, k), Fits(m, k), ~job.segs[k].overwrite
  PROVE  /\ Reached(m, k) <= AddrIn(job.segs[k], m)
         /\ EndIn(job.segs[k], m) - Reached(m, k) \in Nat
         /\ Room(m)[k] = EndIn(job.segs[k], m) - Reached(m, k)
<1>1. /\ Reached(m, k) \in Nat /\ Area(m).start \in Nat
  BY ReachedInArea
<1>2. k \in 1 .. Len(job.segs) /\ job.segs[k].seg \in Segs
  BY ListOfNumbers
<1>3. AddrIn(job.segs[k], m) \in Int /\ segSize[job.segs[k].seg] \in Nat
  BY <1>2 DEF AddrIn, AddressesOK, SectionsOK
<1>4. Reached(m, k) <= AddrIn(job.segs[k], m)
  <2>1. CASE Prior(m, k) = {}
    BY <1>1, <1>3, <2>1 DEF Fits, Reached
  <2>2. CASE Prior(m, k) # {}
    <3>1. PICK l \in Prior(m, k) : Reached(m, k) = EndIn(job.segs[l], m)
      BY <2>2, LastBefore
    <3>2. l \in SegList(m) /\ l < k
      BY DEF Prior
    <3> QED  BY <3>1, <3>2 DEF Fits
  <2> QED  BY <2>1, <2>2
<1>5. EndIn(job.segs[k], m) - Reached(m, k) \in Nat
  BY <1>1, <1>3, <1>4 DEF EndIn
<1> QED
  BY <1>2, <1>4, <1>5 DEF Room

(* What the segments of an area take is counted with natural numbers.      *)
LEMMA RoomsAreNat ==
  ASSUME job \in Jobs, SectionsOK, AddressesOK,
         NEW m \in DOMAIN job.areas, NEW i \in Nat, PriorFit(m, i),
         Accounted(m), ~IsImage(m)
  PROVE  \A l \in Prior(m, i) :
           /\ Room(m)[l] \in Nat
           /\ Room(m)[l] = EndIn(job.segs[l], m) - Reached(m, l)
<1> SUFFICES ASSUME NEW l \in Prior(m, i)
             PROVE  /\ Room(m)[l] \in Nat
                    /\ Room(m)[l] = EndIn(job.segs[l], m) - Reached(m, l)
  OBVIOUS
<1>1. l \in SegList(m) /\ l < i /\ ~job.segs[l].overwrite /\ Fits(m, l)
  BY DEF Prior, Accounted, PriorFit
<1>2. l \in Nat /\ SegList(m) \subseteq Nat
  BY <1>1, ListOfNumbers
<1>3. PriorFit(m, l)
  BY <1>1, <1>2 DEF Prior, PriorFit
<1> QED
  BY <1>1, <1>3, RoomIsNat

-----------------------------------------------------------------------------
LEMMA EndsStay ==
  ASSUME job \in Jobs, UNCHANGED <<job, segments>>, NEW m, NEW i,
         \A l \in Prior(m, i) :
           EndIn(job.segs[l], m)' = EndIn(job.segs[l], m)
  PROVE  /\ SegList(m)' = SegList(m) /\ Area(m)' = Area(m)
         /\ Prior(m, i)' = Prior(m, i)
         /\ Reached(m, i)' = Reached(m, i) /\ Tops(m, i)' = Tops(m, i)
         /\ Stored(m, i)' = Stored(m, i)
         /\ \A v : IsLevel(m, i, v)' = IsLevel(m, i, v)
<1>1. SegList(m)' = SegList(m) /\ Area(m)' = Area(m)
  BY DEF SegList, Exists, segments, Area
<1>2. Prior(m, i)' = Prior(m, i)
  BY <1>1 DEF Prior
<1>3. Tops(m, i)' = Tops(m, i)
  BY <1>1, <1>2 DEF Tops
<1>4. Reached(m, i)' = Reached(m, i)
  <2>1. CASE Prior(m, i) = {}
    BY <1>1, <1>2, <2>1 DEF Reached
  <2>2. CASE Prior(m, i) # {}
    <3>1. Prior(m, i) \in SUBSET (0 .. Len(job.segs)) /\ Len(job.segs) \in Nat
      BY PriorIsFinite, Configured
    <3>2. Max(Prior(m, i)) \in Prior(m, i)
      BY <2>2, <3>1, MaxIsGreatest
    <3> QED  BY <1>2, <2>2, <3>2 DEF Reached
  <2> QED  BY <2>1, <2>2
<1> QED
  BY <1>1, <1>2, <1>3, <1>4 DEF IsLevel, IsTop, Stored

(* What an area has taken stays when its segments do.                      *)
LEMMA TakenStays ==
  ASSUME job \in Jobs, SectionsOK, AddressesOK, UNCHANGED <<job, segments>>,
         NEW m \in DOMAIN job.areas, NEW i \in Nat, PriorFit(m, i),
         Accounted(m),
         \A l \in Prior(m, i) :
           EndIn(job.segs[l], m)' = EndIn(job.segs[l], m)
  PROVE  /\ IsImage(m)' = IsImage(m)
         /\ ~IsImage(m) => SumOf(Room(m), Stored(m, i))'
                             = SumOf(Room(m), Stored(m, i))
         /\ \A v : Taken(m, i, v)' = Taken(m, i, v)
<1>1. /\ SegList(m)' = SegList(m) /\ Area(m)' = Area(m)
      /\ Stored(m, i)' = Stored(m, i)
      /\ \A v : IsLevel(m, i, v)' = IsLevel(m, i, v)
  BY EndsStay
<1>2. IsImage(m)' = IsImage(m)
  BY <1>1 DEF IsImage
<1>3. ASSUME ~IsImage(m)
      PROVE  SumOf(Room(m), Stored(m, i))' = SumOf(Room(m), Stored(m, i))
  <2>1. IsFiniteSet(Stored(m, i)) /\ Stored(m, i) \subseteq Prior(m, i)
    BY PriorIsFinite, FS_Subset DEF Stored
  <2>2. \A l \in Stored(m, i) : Room(m)[l] \in Nat
    BY <1>3, <2>1, RoomsAreNat
  <2>3. ASSUME NEW l \in Stored(m, i)  PROVE Room(m)'[l] = Room(m)[l]
    <3>1. l \in 1 .. Len(job.segs) /\ l \in Prior(m, i)
      BY <2>1, PriorIsFinite
    <3>2. \A j \in Prior(m, l) : j \in Prior(m, i)
      <4>1. l \in SegList(m) /\ l < i /\ SegList(m) \subseteq Nat
        BY <3>1, ListOfNumbers DEF Prior
      <4> QED  BY <4>1 DEF Prior
    <3>3. Reached(m, l)' = Reached(m, l)
      BY <3>2, EndsStay
    <3>4. EndIn(job.segs[l], m)' = EndIn(job.segs[l], m)
      BY <3>1
    <3> QED  BY <3>1, <3>3, <3>4 DEF Room
  <2>4. SumOf(Room(m)', Stored(m, i)) = SumOf(Room(m), Stored(m, i))
    BY <2>1, <2>2, <2>3, SumSame
  <2>5. SumOf(Room(m), Stored(m, i))' = SumOf(Room(m)', Stored(m, i)')
    BY DEF SumOf, Adds, Picked
  <2> QED  BY <1>1, <2>4, <2>5
<1> QED
  BY <1>1, <1>2, <1>3 DEF Taken

LEMMA TakenIsNat ==
  ASSUME job \in Jobs, SectionsOK, AddressesOK,
         NEW m \in DOMAIN job.areas, NEW i \in Nat, PriorFit(m, i),
         Accounted(m), NEW v, Taken(m, i, v)
  PROVE  v \in Nat
<1>1. CASE IsImage(m)
  BY <1>1 DEF Taken, IsLevel, IsTop
<1>2. CASE ~IsImage(m)
  <2>1. IsFiniteSet(Stored(m, i)) /\ Stored(m, i) \subseteq Prior(m, i)
    BY PriorIsFinite, FS_Subset DEF Stored
  <2>2. \A l \in Stored(m, i) : Room(m)[l] \in Nat
    BY <1>2, <2>1, RoomsAreNat
  <2> QED  BY <1>2, <2>1, <2>2, SumIsNat DEF Taken
<1> QED
  BY <1>1, <1>2

-----------------------------------------------------------------------------
(* The areas before one, and where it begins in the file                   *)
LEMMA LastOut ==
  ASSUME job \in Jobs, NEW m, Outs(m) # {}
  PROVE  /\ Max(Outs(m)) \in Outs(m) /\ Max(Outs(m)) \in DOMAIN job.areas
         /\ \A n \in Outs(m) : n <= Max(Outs(m))
<1>1. Outs(m) \in SUBSET (0 .. Len(job.areas)) /\ Len(job.areas) \in Nat
  BY Configured DEF Outs
<1> QED
  BY <1>1, MaxIsGreatest DEF Outs

LEMMA OutsOfNext ==
  ASSUME job \in Jobs, NEW m \in DOMAIN job.areas
  PROVE  /\ Area(m).out => /\ Outs(m + 1) # {} /\ Max(Outs(m + 1)) = m
         /\ ~Area(m).out => Outs(m + 1) = Outs(m)
<1>1. /\ DOMAIN job.areas \subseteq Nat /\ m \in Nat
  BY Configured
<1>2. Outs(m + 1) = Outs(m) \union (IF Area(m).out THEN {m} ELSE {})
  BY <1>1 DEF Outs
<1>3. ASSUME Area(m).out  PROVE Max(Outs(m + 1)) = m
  <2>1. /\ Outs(m + 1) \in SUBSET Nat /\ m \in Outs(m + 1)
        /\ \A n \in Outs(m + 1) : n <= m
    BY <1>1, <1>2, <1>3 DEF Outs
  <2> QED  BY <2>1, MaxIs
<1> QED
  BY <1>2, <1>3

(* So does where one begins in the file.                                   *)
LEMMA FileBeforeStays ==
  ASSUME job \in Jobs, SectionsOK, AddressesOK, UNCHANGED <<job, segments>>,
         NEW m,
         \A n \in Outs(m) :
           /\ PriorFit(n, InNoList) /\ Accounted(n)
           /\ fileOffs'[n] = fileOffs[n]
           /\ \A l \in SegList(n) :
                EndIn(job.segs[l], n)' = EndIn(job.segs[l], n)
  PROVE  /\ Outs(m)' = Outs(m)
         /\ \A v : FileBefore(m, v)' = FileBefore(m, v)
<1>1. Outs(m)' = Outs(m)
  BY DEF Outs, Area
<1>2. CASE Outs(m) = {}
  BY <1>1, <1>2 DEF FileBefore
<1>3. CASE Outs(m) # {}
  <2>1. PICK n \in Outs(m) : n = Max(Outs(m)) /\ n \in DOMAIN job.areas
    BY <1>3, LastOut
  <2>2. PICK i \in Nat : i = InNoList /\ InNoList' = i
    BY Configured DEF InNoList
  <2>3. \A v : Taken(n, i, v)' = Taken(n, i, v)
    <3>1. Prior(n, i) \subseteq SegList(n)
      BY PriorIsFinite
    <3>2. PriorFit(n, i) /\ Accounted(n)
      BY <2>2
    <3> QED  BY <2>1, <3>1, <3>2, TakenStays
  <2>4. Area(n)' = Area(n)
    BY <1>1 DEF Area
  <2>5. \A v : Extent(n, v)' = Extent(n, v)
    BY <2>2, <2>3, <2>4 DEF Extent
  <2>6. fileOffs'[n] = fileOffs[n]
    BY <2>1
  <2> QED  BY <1>1, <1>3, <2>1, <2>5, <2>6 DEF FileBefore
<1> QED
  BY <1>1, <1>2, <1>3

LEMMA FileBeforeIsOne ==
  ASSUME job \in Jobs, SectionsOK, AddressesOK,
           fileOffs \in [DOMAIN job.areas -> Nat],
         NEW m, \A n \in Outs(m) : PriorFit(n, InNoList),
         NEW v \in Int, FileBefore(m, v), NEW w \in Int, FileBefore(m, w)
  PROVE  v = w
<1>1. CASE Outs(m) = {}
  BY <1>1 DEF FileBefore
<1>2. CASE Outs(m) # {}
  <2>1. PICK n \in Outs(m) : n = Max(Outs(m)) /\ n \in DOMAIN job.areas
    BY <1>2, LastOut
  <2>2. Extent(n, v - fileOffs[n]) /\ Extent(n, w - fileOffs[n])
    BY <1>2, <2>1 DEF FileBefore
  <2>3. fileOffs[n] \in Nat
    BY <2>1
  <2>4. v - fileOffs[n] = w - fileOffs[n]
    <3>1. CASE Area(n).fill \/ ~IsImage(n)
      BY <2>2, <3>1 DEF Extent, Taken
    <3>2. CASE ~Area(n).fill /\ IsImage(n)
      <4>1. /\ IsLevel(n, InNoList, v - fileOffs[n])
            /\ IsLevel(n, InNoList, w - fileOffs[n])
        BY <2>2, <3>2 DEF Extent, Taken
      <4> QED  BY <2>1, <4>1, LevelIsOne
    <3> QED  BY <3>1, <3>2
  <2> QED  BY <2>3, <2>4
<1> QED
  BY <1>1, <1>2

-----------------------------------------------------------------------------
(* Segment k is placed in area m, at addr, and nothing has overflown.      *)
PlacedAt(m, k, addr) ==
  /\ m = walk.list /\ k = walk.item
  /\ m \in DOMAIN job.areas /\ k \in SegList(m)
  /\ addr = AddrOf(job.segs[k], m, walk.addr)
  /\ Place(m, k, addr) /\ overflows' = 0

(* What fits as far as the placing has come                                *)
LEMMA AsFarAsDone ==
  ASSUME job \in Jobs, AllFit, WalkOK, NEW m \in DOMAIN job.areas,
         m <= walk.list
  PROVE  PriorFit(m, UpTo(m))
<1>1. m \in Nat /\ walk.list \in Nat
  BY Configured DEF WalkOK
<1> QED
  BY <1>1 DEF AllFit, PriorFit, Prior, UpTo, Done

(* What is known when a segment has been placed                            *)
LEMMA SegmentFacts ==
  ASSUME job \in Jobs, SectionsOK, PlacingOK, PlacingMore,
         NEW m, NEW k, NEW addr, PlacedAt(m, k, addr)
  PROVE  LET S   == job.segs[k]
             end == addr + segSize[S.seg]
         IN  /\ overflows = 0 /\ PriorFit(m, k) /\ k \in Nat /\ m \in Nat
             /\ walk.addr = Reached(m, k) /\ Reached(m, k) \in Nat
             /\ addr = Laid(S, m, Reached(m, k))
             /\ addr \in Nat /\ end \in Nat /\ end >= addr
             /\ Area(m).start \in Nat /\ addr >= Area(m).start
             /\ AddrIn(S, m)' = addr /\ EndIn(S, m)' = end
             /\ S.overwrite => S.at # "none"
             /\ ~S.overwrite =>
                  /\ addr >= Reached(m, k) /\ walk.overwrites = 0
                  /\ \A l \in Prior(m, k) : ~job.segs[l].overwrite
<1> DEFINE S   == job.segs[k]
           end == addr + segSize[S.seg]
<1>1. /\ m = walk.list /\ k = walk.item
      /\ m \in DOMAIN job.areas /\ k \in SegList(m)
      /\ addr = AddrOf(S, m, walk.addr)
      /\ Place(m, k, addr) /\ overflows' = 0
  BY DEF PlacedAt
<1>2. k \in 1 .. Len(job.segs) /\ m \in 1 .. Len(job.areas) /\ m \in Nat
      /\ k \in Nat \ {0} /\ S.seg \in Segs
  BY <1>1, ListOfNumbers, Configured
<1>3. /\ pc' = IF S.run = m THEN [pc EXCEPT ![S.seg] = addr] ELSE pc
      /\ loadAddr' = IF S.load = m THEN [loadAddr EXCEPT ![S.seg] = addr]
                     ELSE loadAddr
      /\ UNCHANGED <<job, segments>> /\ ~Illegal(S, m)
  BY <1>1 DEF Place
<1>4. overflows = 0 /\ overflown = {} /\ ~TooLow(S, m, walk.addr)
  BY <1>1 DEF Place, PlacingOK, OverflowsOK
<1>5. /\ AllFit /\ AtNext /\ NoneOverwrites /\ BehindAll /\ WalkOK
      /\ AddressesOK
  BY <1>4 DEF PlacingOK, PlacingMore
<1>6. PriorFit(m, k)
  <2>1. m <= walk.list /\ UpTo(m) = k
    BY <1>1, <1>2 DEF UpTo
  <2> QED  BY <1>1, <1>5, <2>1, AsFarAsDone
<1>7. walk.addr = Reached(m, k) /\ walk.addr \in Nat
  BY <1>1, <1>2, <1>5 DEF AtNext, WalkOK
<1>8. addr = Laid(S, m, Reached(m, k))
  BY <1>1, <1>4, <1>7, NewAddrIsLaid
<1>9. addr \in Nat /\ (~S.overwrite => addr >= walk.addr)
      /\ addr >= Area(m).start /\ Area(m).start \in Nat
  <2>1. walk.addr >= Area(m).start
    BY <1>1, <1>2, <1>5 DEF BehindAll
  <2> QED  BY <1>1, <1>2, <1>3, <1>4, <1>7, <2>1, AddressFound, Configured
<1>10. segSize[S.seg] \in Nat
  BY <1>2 DEF SectionsOK
<1>11. AddrIn(S, m)' = addr /\ EndIn(S, m)' = end
  <2>1. m \in {S.run, S.load}
    BY <1>1 DEF SegList
  <2> QED
    BY <1>2, <1>3, <1>5, <2>1 DEF AddrIn, EndIn, AddressesOK, segments
<1>12. S.overwrite => S.at # "none"
  BY <1>3 DEF Illegal
<1>13. ~S.overwrite => /\ walk.overwrites = 0
                       /\ \A l \in Prior(m, k) : ~job.segs[l].overwrite
  <2> SUFFICES ASSUME ~S.overwrite
               PROVE  /\ walk.overwrites = 0
                      /\ \A l \in Prior(m, k) : ~job.segs[l].overwrite
    OBVIOUS
  <2>1. walk.overwrites = 0
    BY <1>3, <1>5 DEF Illegal, WalkOK
  <2> QED  BY <1>1, <1>2, <1>5, <2>1 DEF NoneOverwrites
<1> QED
  BY <1>2, <1>4, <1>6, <1>7, <1>8, <1>9, <1>10, <1>11, <1>12, <1>13

(* What is before a segment that has been placed stays as it is.           *)
LEMMA PriorStays ==
  ASSUME job \in Jobs, SectionsOK, PlacingOK, PlacingMore,
         NEW m, NEW k, NEW addr, PlacedAt(m, k, addr), NEW n
  PROVE  /\ n # m => \A l \in SegList(n) : /\ AddrIn(job.segs[l], n)' = AddrIn(job.segs[l], n)
                                           /\ EndIn(job.segs[l], n)' = EndIn(job.segs[l], n)
         /\ \A i \in Nat : i <= k =>
              \A l \in Prior(n, i) :
                /\ AddrIn(job.segs[l], n)' = AddrIn(job.segs[l], n)
                /\ EndIn(job.segs[l], n)' = EndIn(job.segs[l], n)
         /\ SegList(n)' = SegList(n) /\ Area(n)' = Area(n)
         /\ UNCHANGED <<job, segments>>
<1>1. Place(m, k, addr) /\ k \in SegList(m) /\ AddressesOK
  BY DEF PlacedAt, PlacingOK
<1>2. UNCHANGED <<job, segments>>
  BY <1>1 DEF Place
<1>3. ASSUME NEW l \in SegList(n), n # m \/ l # k
      PROVE  /\ AddrIn(job.segs[l], n)' = AddrIn(job.segs[l], n)
             /\ EndIn(job.segs[l], n)' = EndIn(job.segs[l], n)
  BY <1>1, <1>3, OthersStay
<1>4. k \in Nat /\ SegList(n) \subseteq Nat
  BY <1>1, ListOfNumbers
<1>5. \A i \in Nat : i <= k => \A l \in Prior(n, i) : l \in SegList(n) /\ l # k
  BY <1>4 DEF Prior
<1>6. SegList(n)' = SegList(n) /\ Area(n)' = Area(n)
  BY <1>2 DEF SegList, Exists, segments, Area
<1> QED
  BY <1>2, <1>3, <1>5, <1>6

(* The segments are still where Laid puts them, and this one is.           *)
LEMMA LaidOutKept ==
  ASSUME job \in Jobs, SectionsOK, PlacingOK, PlacingMore,
         NEW m, NEW k, NEW addr, PlacedAt(m, k, addr),
         NEW n \in DOMAIN job.areas, NEW l \in SegList(n), Done(n, l)'
  PROVE  LaidOut(n, l)'
<1> DEFINE S == job.segs[k]
           T == job.segs[l]
<1>1. /\ m = walk.list /\ k = walk.item /\ k \in SegList(m)
           /\ m \in DOMAIN job.areas
      /\ Place(m, k, addr)
  BY DEF PlacedAt
<1>2. /\ k \in Nat /\ m \in Nat /\ l \in Nat /\ n \in Nat /\ overflows = 0
      /\ l \in 1 .. Len(job.segs) /\ k \in 1 .. Len(job.segs)
      /\ SegList(n) \subseteq Nat
  BY <1>1, SegmentFacts, ListOfNumbers, Configured
<1>3. /\ walk'.list = m /\ walk'.item = After(m, k)
      /\ loadAddr' = IF S.load = m THEN [loadAddr EXCEPT ![S.seg] = addr]
                     ELSE loadAddr
  BY <1>1 DEF Place
<1>4. /\ UNCHANGED <<job, segments>>
      /\ SegList(n)' = SegList(n) /\ Area(n)' = Area(n)
      /\ n # m => \A j \in SegList(n) :
           EndIn(job.segs[j], n)' = EndIn(job.segs[j], n)
      /\ \A i \in Nat : i <= k => \A j \in Prior(n, i) :
                           EndIn(job.segs[j], n)' = EndIn(job.segs[j], n)
  BY PriorStays
<1>5. n < m \/ (n = m /\ l <= k)
  <2>1. \A j \in SegList(m) : j < After(m, k) => j <= k
    BY <1>2, NextInList
  <2> QED  BY <1>2, <1>3, <2>1 DEF Done
<1>6. Prior(n, l)' = Prior(n, l) /\ Reached(n, l)' = Reached(n, l)
  <2>1. \A j \in Prior(n, l) : EndIn(job.segs[j], n)' = EndIn(job.segs[j], n)
    BY <1>2, <1>4, <1>5 DEF Prior
  <2> QED  BY <1>4, <2>1, EndsStay
<1>7. \A a : Laid(T, n, a)' = Laid(T, n, a)
  BY <1>4 DEF Laid, Fixed, FixedAddr, RunAlignment, AlignAddr, Area
<1>8. CASE n = m /\ l = k
  <2>1. /\ addr = Laid(S, m, Reached(m, k)) /\ AddrIn(S, m)' = addr
        /\ S.overwrite => S.at # "none"
        /\ ~S.overwrite => \A j \in Prior(m, k) : ~job.segs[j].overwrite
    BY SegmentFacts
  <2>2. S.load = m => loadAddr'[S.seg] = addr
    BY <1>2, <1>3, Configured DEF PlacingOK, AddressesOK
  <2> QED  BY <1>4, <1>6, <1>7, <1>8, <2>1, <2>2 DEF LaidOut
<1>9. CASE n # m \/ l # k
  <2>1. Done(n, l)
    BY <1>1, <1>2, <1>5, <1>9 DEF Done
  <2>2. LaidOut(n, l)
    BY <1>2, <2>1 DEF PlacingMore
  <2>3. AddrIn(T, n)' = AddrIn(T, n)
    BY <1>1, <1>9, OthersStay DEF PlacingOK
  <2>4. T.load = n => loadAddr'[T.seg] = loadAddr[T.seg]
    <3>1. l # k => T.seg # S.seg
      BY <1>2, Configured
    <3>2. T.seg \in Segs /\ S.seg \in Segs
      BY <1>2, Configured
    <3> QED  BY <1>3, <1>9, <3>1, <3>2 DEF PlacingOK, AddressesOK
  <2> QED  BY <1>4, <1>6, <1>7, <2>2, <2>3, <2>4 DEF LaidOut
<1> QED
  BY <1>8, <1>9

(* What PlaceSegment counts                                                *)
Grown(m, level) == IF level > fillLevel[m] THEN level - fillLevel[m] ELSE 0

LEMMA SegmentCounts ==
  ASSUME PlaceSegment, stage' = "place",
         NEW m, NEW k, NEW addr, m = walk.list, k = walk.item,
         addr = AddrOf(job.segs[k], m, walk.addr)
  PROVE  LET S     == job.segs[k]
             end   == addr + segSize[S.seg]
             grown == Grown(m, end - Area(m).start)
         IN  /\ fillLevel' = [fillLevel EXCEPT ![m] = @ + grown]
             /\ fileSize' = [fileSize EXCEPT ![Area(m).out] =
                               IF ~InFile(S, m) THEN @
                               ELSE IF S.overwrite THEN @ + grown
                               ELSE @ + (end - walk.addr)]
             /\ fileOffs' = fileOffs
<1> DEFINE S == job.segs[k]
<1>1. ~(Illegal(S, m) \/ Twice(SymbolsOf(S, m)))
  BY DEF PlaceSegment, InList, Fail
<1> QED
  BY <1>1, Zenon DEF PlaceSegment, Grown

(* The list of the area with the segment                                   *)
LEMMA WithNext ==
  ASSUME job \in Jobs, SectionsOK, PlacingOK, PlacingMore,
         NEW m, NEW k, NEW addr, PlacedAt(m, k, addr),
         NEW i \in Nat, i = After(m, k)
  PROVE  LET S   == job.segs[k]
             end == addr + segSize[S.seg]
         IN  /\ i \in SegList(m) \union {InNoList} /\ i # 0 /\ i > k
             /\ Prior(m, i) = Prior(m, k) \union {k}
             /\ Prior(m, i)' = Prior(m, k) \union {k}
             /\ Tops(m, i)' = Tops(m, k) \union {end - Area(m).start}
             /\ Reached(m, i)' = end
             /\ Stored(m, i)' = Stored(m, k) \union
                   (IF S.load = m /\ ~S.bss THEN {k} ELSE {})
<1> DEFINE S   == job.segs[k]
           end == addr + segSize[S.seg]
<1>1. k \in SegList(m) /\ k \in Nat /\ EndIn(S, m)' = end
  BY SegmentFacts DEF PlacedAt
<1>2. /\ SegList(m)' = SegList(m) /\ Area(m)' = Area(m)
      /\ UNCHANGED <<job, segments>>
      /\ \A l \in Prior(m, k) : EndIn(job.segs[l], m)' = EndIn(job.segs[l], m)
  <2>1. k <= k
    BY <1>1
  <2> QED  BY <1>1, <2>1, PriorStays
<1>3. /\ i \in SegList(m) \union {InNoList} /\ i > k
      /\ Prior(m, i) = Prior(m, k) \union {k} /\ Max(Prior(m, i)) = k
  BY <1>1, NextIs
<1>4. Prior(m, i)' = Prior(m, i) /\ i # 0
  BY <1>1, <1>2, <1>3 DEF Prior
<1>5. Tops(m, i)' = Tops(m, k) \union {end - Area(m).start}
  BY <1>1, <1>2, <1>3, <1>4 DEF Tops
<1>6. Reached(m, i)' = end
  BY <1>1, <1>2, <1>3, <1>4 DEF Reached
<1>7. Stored(m, i)' = Stored(m, k) \union
                   (IF S.load = m /\ ~S.bss THEN {k} ELSE {})
  BY <1>2, <1>3, <1>4 DEF Stored
<1> QED
  BY <1>3, <1>4, <1>5, <1>6, <1>7

(* CfgProcess keeps the levels ...                                         *)
LEMMA LevelsKept ==
  ASSUME job \in Jobs, SectionsOK, PlacingOK, PlacingMore,
         NEW m, NEW k, NEW addr, PlacedAt(m, k, addr),
         fillLevel' = [fillLevel EXCEPT ![m] =
           @ + Grown(m, (addr + segSize[job.segs[k].seg]) - Area(m).start)]
  PROVE  /\ LevelsOK'
         /\ LET level == (addr + segSize[job.segs[k].seg]) - Area(m).start
            IN  fillLevel'[m] = IF level > fillLevel[m] THEN level
                                ELSE fillLevel[m]
<1> DEFINE end   == addr + segSize[job.segs[k].seg]
           level == end - Area(m).start
<1>1. /\ m = walk.list /\ k = walk.item
      /\ walk'.list = m /\ walk'.item = After(m, k) /\ m \in DOMAIN job.areas
  BY DEF PlacedAt, Place
<1>2. /\ overflows = 0 /\ k \in Nat /\ m \in Nat /\ level \in Nat
      /\ PriorFit(m, k) /\ AddressesOK
  <2>1. /\ overflows = 0 /\ k \in Nat /\ m \in Nat /\ PriorFit(m, k)
        /\ end \in Nat /\ Area(m).start \in Nat
        /\ end >= addr /\ addr >= Area(m).start
        /\ addr \in Nat
    BY SegmentFacts
  <2> HIDE DEF end
  <2> QED  BY <2>1 DEF PlacingOK
<1>8. fillLevel' = [fillLevel EXCEPT ![m] = @ + Grown(m, level)]
  OBVIOUS
<1>9. \A i \in Nat : i = After(m, k) =>
        Tops(m, i)' = Tops(m, k) \union {level}
  BY WithNext
<1> HIDE DEF level
<1>3. LevelsOK /\ fillLevel \in [DOMAIN job.areas -> Nat]
  BY <1>2 DEF PlacingMore, LevelsOK
<1>4. fillLevel'[m] = IF level > fillLevel[m] THEN level ELSE fillLevel[m]
  BY <1>1, <1>2, <1>3, <1>8 DEF Grown
<1>5. fillLevel' \in [DOMAIN job.areas -> Nat]
      /\ \A n \in DOMAIN job.areas : n # m => fillLevel'[n] = fillLevel[n]
  BY <1>1, <1>2, <1>3, <1>8 DEF Grown
<1>6. ASSUME NEW n \in DOMAIN job.areas
      PROVE  IsLevel(n, UpTo(n), fillLevel[n])'
  <2>1. /\ SegList(n)' = SegList(n) /\ Area(n)' = Area(n)
        /\ UNCHANGED <<job, segments>> /\ n \in Nat
        /\ n # m => \A l \in SegList(n) :
             EndIn(job.segs[l], n)' = EndIn(job.segs[l], n)
    BY PriorStays, Configured
  <2>2. CASE n = m
    <3>1. PICK i \in Nat : i = After(m, k)
      BY <1>2, NextIs
    <3>2. UpTo(n)' = i /\ UpTo(n) = k
      BY <1>1, <1>2, <2>2, <3>1 DEF UpTo
    <3>3. IsTop(Tops(m, k), fillLevel[m])
      BY <1>1, <1>3, <2>2, <3>2 DEF LevelsOK, IsLevel
    <3>4. Tops(m, k) \in SUBSET Int
      <4>1. \A l \in Prior(m, k) : EndIn(job.segs[l], m) \in Nat
        BY <1>1, <1>2, ReachedInArea
      <4>2. Area(m).start \in Nat
        BY <1>1, Configured
      <4> QED  BY <4>1, <4>2 DEF Tops
    <3>5. IsTop(Tops(m, k) \union {level}, fillLevel'[m])
      BY <1>2, <1>4, <3>3, <3>4, TopGrows
    <3>6. Tops(m, i)' = Tops(m, k) \union {level}
      BY <3>1, <1>9
    <3> QED  BY <2>2, <3>2, <3>5, <3>6 DEF IsLevel, IsTop
  <2>3. CASE n # m
    <3>1. PICK i : i = UpTo(n)
      OBVIOUS
    <3>2. UpTo(n)' = i
      BY <1>1, <2>1, <2>3, <3>1 DEF UpTo, InNoList
    <3>3. IsLevel(n, i, fillLevel[n])
      BY <1>3, <3>1 DEF LevelsOK
    <3>4. \A v : IsLevel(n, i, v)' = IsLevel(n, i, v)
      <4>1. Prior(n, i) \subseteq SegList(n)
        BY PriorIsFinite
      <4> QED  BY <2>1, <2>3, <4>1, EndsStay
    <3>5. fillLevel'[n] = fillLevel[n]
      BY <1>5, <2>3
    <3> QED  BY <3>2, <3>3, <3>4, <3>5 DEF IsLevel
  <2> QED  BY <2>2, <2>3
<1>7. job' = job
  BY PriorStays
<1> QED
  BY <1>4, <1>5, <1>6, <1>7 DEF LevelsOK, level

(* The size CfgProcess counts is what the area takes in the file.          *)
LEMMA TakenWithNext ==
  ASSUME job \in Jobs, SectionsOK, PlacingOK, PlacingMore,
         NEW m, NEW k, NEW addr, PlacedAt(m, k, addr),
         NEW i \in Nat, i = After(m, k), Accounted(m), NEW end,
         end = addr + segSize[job.segs[k].seg],
         NEW v \in Int, Taken(m, k, v), NEW w,
         w = IF ~InFile(job.segs[k], m) THEN v
             ELSE IF job.segs[k].overwrite
             THEN v + Grown(m, end - Area(m).start)
             ELSE v + (end - walk.addr)
  PROVE  Taken(m, i, w)'
<1> DEFINE S     == job.segs[k]
           start == Area(m).start
           level == end - start
<1>1. /\ m = walk.list /\ k = walk.item /\ m \in DOMAIN job.areas
           /\ k \in SegList(m)
  BY DEF PlacedAt
<1>2. /\ overflows = 0 /\ k \in Nat /\ m \in Nat /\ PriorFit(m, k)
      /\ walk.addr = Reached(m, k) /\ walk.addr \in Nat
      /\ end \in Nat /\ addr \in Nat /\ start \in Nat
      /\ end >= addr /\ addr >= start /\ EndIn(S, m)' = end
  BY SegmentFacts
<1>3. ~S.overwrite => /\ addr >= walk.addr
                      /\ \A l \in Prior(m, k) : ~job.segs[l].overwrite
  BY SegmentFacts
<1>4. /\ UNCHANGED <<job, segments>> /\ SegList(m)' = SegList(m)
      /\ Area(m)' = Area(m)
      /\ \A l \in Prior(m, k) : EndIn(job.segs[l], m)' = EndIn(job.segs[l], m)
  BY <1>2, PriorStays
<1>5. /\ IsImage(m)' = IsImage(m)
      /\ ~IsImage(m) => SumOf(Room(m), Stored(m, k))' = SumOf(Room(m), Stored(m, k))
  BY <1>1, <1>2, <1>4, TakenStays DEF PlacingOK
<1>6. /\ i \in SegList(m) \union {InNoList} /\ i > k
      /\ Tops(m, i)' = Tops(m, k) \union {level}
      /\ Stored(m, i)' = Stored(m, k) \union
             (IF S.load = m /\ ~S.bss THEN {k} ELSE {})
  BY WithNext
<1>7. level \in Nat
  BY <1>2
<1>8. CASE IsImage(m)
  <2>1. IsLevel(m, k, v)
    BY <1>8 DEF Taken
  <2>2. IsLevel(m, k, fillLevel[m]) /\ fillLevel[m] \in Nat
    <3>1. UpTo(m) = k
      BY <1>1, <1>2 DEF UpTo
    <3> QED  BY <1>1, <1>2, <3>1 DEF PlacingMore, LevelsOK
  <2>3. v = fillLevel[m]
    BY <1>1, <1>2, <2>1, <2>2, LevelIsOne DEF PlacingOK
  <2>4. InFile(S, m)
    BY <1>1, <1>8 DEF IsImage, InFile
  <2>5. w = IF level > v THEN level ELSE v
    <3>1. CASE S.overwrite
      BY <1>7, <2>2, <2>3, <2>4, <3>1 DEF Grown
    <3>2. CASE ~S.overwrite
      <4>1. walk.addr = start + v
        BY <1>1, <1>2, <1>3, <2>1, <3>2, LevelIsReached DEF PlacingOK
      <4>2. w = v + (end - walk.addr)
        BY <2>4, <3>2
      <4>3. addr >= walk.addr
        BY <1>3, <3>2
      <4> HIDE DEF start
      <4>4. w = level /\ level >= v
        BY <1>2, <2>2, <2>3, <4>1, <4>2, <4>3
      <4> QED  BY <1>7, <2>2, <2>3, <4>4
    <3> QED  BY <3>1, <3>2
  <2>6. Tops(m, k) \in SUBSET Int
    <3>1. \A l \in Prior(m, k) : EndIn(job.segs[l], m) \in Nat
      BY <1>1, <1>2, ReachedInArea DEF PlacingOK
    <3> QED  BY <1>2, <3>1 DEF Tops
  <2> HIDE DEF level
  <2>7. IsTop(Tops(m, k) \union {level}, w)
    BY <1>7, <2>1, <2>5, <2>6, TopGrows DEF IsLevel
  <2>8. IsLevel(m, i, w)'
    BY <1>6, <2>7 DEF IsLevel, IsTop
  <2> QED  BY <1>5, <1>8, <2>8 DEF Taken
<1>9. CASE ~IsImage(m)
  <2>1. v = SumOf(Room(m), Stored(m, k))
    BY <1>9 DEF Taken
  <2>2. ~Area(m).fill /\ ~S.overwrite
    BY <1>1, <1>9 DEF Accounted
  <2>3. v = SumOf(Room(m), Stored(m, k))'
    BY <1>5, <1>9, <2>1
  <2>4. CASE ~(S.load = m /\ ~S.bss)
    <3>1. Stored(m, i)' = Stored(m, k)
      BY <1>6, <2>4
    <3>2. Stored(m, k)' = Stored(m, k)
      BY <1>4, EndsStay
    <3>3. SumOf(Room(m), Stored(m, i))' = SumOf(Room(m), Stored(m, k))'
      BY <3>1, <3>2 DEF SumOf, Adds
    <3>4. w = v
      BY <2>2, <2>4 DEF InFile
    <3> QED  BY <1>5, <1>9, <2>3, <3>3, <3>4 DEF Taken
  <2>5. CASE S.load = m /\ ~S.bss
    <3>1. w = v + (end - walk.addr)
      BY <2>2, <2>5 DEF InFile
    <3>2. /\ k \notin Stored(m, k) /\ IsFiniteSet(Stored(m, k))
          /\ Stored(m, k) \subseteq Prior(m, k)
      BY <1>1, NextStored
    <3>3. Stored(m, i)' = Stored(m, k) \union {k}
            /\ Stored(m, k)' = Stored(m, k)
      BY <1>4, <1>6, <2>5, EndsStay
    <3>4. Reached(m, k)' = Reached(m, k)
      BY <1>4, EndsStay
    <3>5. k \in 1 .. Len(job.segs)
      BY <1>1, ListOfNumbers
    <3>6. (Room(m)[k])' = end - walk.addr
      BY <1>2, <1>4, <3>4, <3>5 DEF Room
    <3>7. \A l \in Stored(m, k) : (Room(m)[l])' \in Nat
      <4>1. ASSUME NEW l \in Stored(m, k)
            PROVE  (Room(m)[l])' = Room(m)[l] /\ Room(m)[l] \in Nat
        <5>1. l \in Prior(m, k) /\ l \in 1 .. Len(job.segs)
          BY <3>2, PriorIsFinite
        <5>2. Room(m)[l] \in Nat
          BY <1>1, <1>2, <1>9, <5>1, RoomsAreNat DEF PlacingOK
        <5>3. Prior(m, l) \subseteq Prior(m, k)
          <6>1. l < k /\ SegList(m) \subseteq Nat
            BY <1>1, <5>1, ListOfNumbers DEF Prior
          <6> QED  BY <1>2, <5>1, <6>1 DEF Prior
        <5>4. Reached(m, l)' = Reached(m, l)
          BY <1>4, <5>3, EndsStay
        <5>5. EndIn(job.segs[l], m)' = EndIn(job.segs[l], m)
          BY <1>4, <5>1
        <5>6. (Room(m)[l])' = Room(m)[l]
          BY <1>4, <5>1, <5>4, <5>5 DEF Room
        <5> QED  BY <5>2, <5>6
      <4> QED  BY <4>1
    <3>8. end - walk.addr \in Nat
      <4>1. addr >= walk.addr
        BY <1>3, <2>2
      <4> QED  BY <1>2, <4>1
    <3> DEFINE R == Room(m)'
    <3>9. \A l \in Stored(m, k) \union {k} : R[l] \in Nat
      BY <3>6, <3>7, <3>8
    <3> HIDE DEF R
    <3>10. IsFiniteSet(Stored(m, k) \union {k})
      BY <3>2, FS_AddElement
    <3>11. SumOf(R, Stored(m, k) \union {k}) = R[k] + SumOf(R, Stored(m, k))
      <4>1. (Stored(m, k) \union {k}) \ {k} = Stored(m, k)
        BY <3>2
      <4>2. k \in Stored(m, k) \union {k}
        OBVIOUS
      <4> QED  BY <3>9, <3>10, <4>1, <4>2, SumWithout
    <3>12. SumOf(R, Stored(m, k) \union {k}) = SumOf(Room(m), Stored(m, i))'
      BY <3>3 DEF R, SumOf, Adds
    <3>13. SumOf(R, Stored(m, k)) = SumOf(Room(m), Stored(m, k))'
      BY <3>3 DEF R, SumOf, Adds
    <3>14. w = SumOf(Room(m), Stored(m, i))'
      <4>1. R[k] = end - walk.addr
        BY <3>6 DEF R
      <4> QED  BY <2>3, <3>1, <3>8, <3>11, <3>12, <3>13, <4>1
    <3> QED  BY <1>5, <1>9, <3>14 DEF Taken
  <2> QED  BY <2>4, <2>5
<1> QED
  BY <1>8, <1>9

-----------------------------------------------------------------------------
LEMMA SameAreas ==
  ASSUME UNCHANGED <<job, segments>>
  PROVE  /\ \A m : SegList(m)' = SegList(m) /\ Area(m)' = Area(m)
         /\ \A m : IsImage(m)' = IsImage(m) /\ Accounted(m)' = Accounted(m)
         /\ AllAccounted' = AllAccounted /\ InNoList' = InNoList
<1>1. \A m : SegList(m)' = SegList(m) /\ Area(m)' = Area(m)
  BY DEF SegList, Exists, segments, Area
<1>2. \A m : IsImage(m)' = IsImage(m)
  BY <1>1 DEF IsImage
<1>3. \A m : Accounted(m)' = Accounted(m)
  BY <1>1, <1>2 DEF Accounted
<1> QED
  BY <1>1, <1>2, <1>3 DEF AllAccounted, InNoList

(* The areas that are done keep their places in the file.                  *)
LEMMA OffsetsStay ==
  ASSUME job \in Jobs, SectionsOK, AddressesOK, AllFit, WalkOK, AllAccounted,
         UNCHANGED <<job, segments>>, NEW n \in Nat, n <= walk.list,
         \A q \in DOMAIN job.areas : q < walk.list =>
           /\ fileOffs'[q] = fileOffs[q]
           /\ \A l \in SegList(q) :
                EndIn(job.segs[l], q)' = EndIn(job.segs[l], q)
  PROVE  /\ Outs(n)' = Outs(n)
         /\ \A v : FileBefore(n, v)' = FileBefore(n, v)
<1>1. ASSUME NEW q \in Outs(n)
      PROVE  /\ PriorFit(q, InNoList) /\ Accounted(q)
             /\ fileOffs'[q] = fileOffs[q]
             /\ \A l \in SegList(q) :
                  EndIn(job.segs[l], q)' = EndIn(job.segs[l], q)
  <2>1. /\ q \in DOMAIN job.areas /\ q \in Nat /\ q < n /\ Area(q).out
        /\ walk.list \in Nat
    BY Configured DEF Outs, WalkOK
  <2>2. q < walk.list /\ UpTo(q) = InNoList
    BY <2>1 DEF UpTo
  <2>3. PriorFit(q, UpTo(q))
    BY <2>1, <2>2, AsFarAsDone
  <2> QED  BY <2>1, <2>2, <2>3 DEF AllAccounted
<1> QED
  BY <1>1, FileBeforeStays

(* ... and the size of the file.                                           *)
LEMMA SizesKept ==
  ASSUME job \in Jobs, SectionsOK, PlacingOK, PlacingMore,
         NEW m, NEW k, NEW addr, PlacedAt(m, k, addr),
         NEW end, end = addr + segSize[job.segs[k].seg],
         fileSize' = [fileSize EXCEPT ![Area(m).out] =
                        IF ~InFile(job.segs[k], m) THEN @
                        ELSE IF job.segs[k].overwrite
                        THEN @ + Grown(m, end - Area(m).start)
                        ELSE @ + (end - walk.addr)],
         fileOffs' = fileOffs
  PROVE  SizesOK'
<1> DEFINE S == job.segs[k]
           more == IF ~InFile(S, m) THEN 0
                   ELSE IF S.overwrite THEN Grown(m, end - Area(m).start)
                   ELSE end - walk.addr
<1>1. /\ m = walk.list /\ k = walk.item /\ m \in DOMAIN job.areas
           /\ k \in SegList(m)
      /\ walk'.list = m /\ walk'.item = After(m, k)
  BY DEF PlacedAt, Place
<1>2. /\ overflows = 0 /\ k \in Nat \ {0} /\ m \in Nat
      /\ walk.addr \in Nat /\ end \in Nat /\ addr \in Nat /\ end >= addr
      /\ Area(m).start \in Nat /\ addr >= Area(m).start
  BY <1>1, SegmentFacts, ListOfNumbers
<1>3. ~S.overwrite => addr >= walk.addr
  BY SegmentFacts
<1>4. /\ UNCHANGED <<job, segments>>
      /\ \A n : n # m => \A l \in SegList(n) :
                           EndIn(job.segs[l], n)' = EndIn(job.segs[l], n)
  BY PriorStays
<1>5. /\ SizesOK /\ AllFit /\ WalkOK /\ AddressesOK
      /\ fileSize \in [BOOLEAN -> Nat]
           /\ fillLevel \in [DOMAIN job.areas -> Nat]
  BY <1>2 DEF PlacingOK, PlacingMore, SizesOK, LevelsOK
<1>6. Area(m).out \in BOOLEAN
  BY <1>1, PlaceAssumption DEF Area
<1>7. more \in Nat
  <2>1. Grown(m, end - Area(m).start) \in Nat
    BY <1>1, <1>2, <1>5 DEF Grown
  <2>2. ~S.overwrite => end - walk.addr \in Nat
    BY <1>2, <1>3
  <2> QED  BY <2>1, <2>2
<1>8. fileSize' = [fileSize EXCEPT ![Area(m).out] = @ + more]
  <2>1. fileSize[Area(m).out] \in Nat
    BY <1>5, <1>6
  <2>2. fileSize[Area(m).out] + 0 = fileSize[Area(m).out]
    BY <2>1
  <2> QED  BY <2>2, Zenon
<1> HIDE DEF more
<1>9. fileSize' \in [BOOLEAN -> Nat] /\ fileOffs' \in [DOMAIN job.areas -> Nat]
  <2>1. fileOffs \in [DOMAIN job.areas -> Nat]
    BY <1>5 DEF SizesOK
  <2> QED  BY <1>5, <1>6, <1>7, <1>8, <2>1
<1>10. ASSUME AllAccounted
       PROVE  OffsetsOK' /\ SizeAt(fileSize[TRUE])'
  <2>0. OffsetsOK /\ SizeAt(fileSize[TRUE])
    BY <1>5, <1>10 DEF SizesOK
  <2>1. ASSUME NEW n \in Nat, n <= m
        PROVE  \A v : FileBefore(n, v)' = FileBefore(n, v)
    <3>1. \A q \in DOMAIN job.areas : q < walk.list => q # m
      BY <1>1, <1>2, Configured
    <3> QED  BY <1>1, <1>4, <1>5, <1>10, <2>1, <3>1, OffsetsStay
  <2>2. walk'.item # 0
    <3>1. PICK i \in Nat : i = After(m, k)
      BY <1>2, NextIs
    <3> QED  BY <1>1, <3>1, WithNext
  <2>3. OffsetsOK'
    <3> SUFFICES ASSUME NEW n \in DOMAIN job.areas, Area(n).out,
                        n < m \/ n = m
                 PROVE  FileBefore(n, fileOffs[n])'
      BY <1>1, <1>4 DEF OffsetsOK, Area
    <3>1. n \in Nat /\ n <= m
      BY <1>2, Configured
    <3>2. FileBefore(n, fileOffs[n])
      BY <1>1, <1>2, <2>0, <3>1 DEF OffsetsOK
    <3> QED  BY <2>1, <3>1, <3>2 DEF FileBefore
  <2>4. CASE Area(m).out
    <3>1. PICK i \in Nat : i = After(m, k)
      BY <1>2, NextIs
    <3>0. PICK size \in Nat : size = fileSize[TRUE]
      BY <1>5, Zenon
    <3>2. PICK v \in Int : v = size - fileOffs[m]
      <4>1. fileOffs[m] \in Nat
        BY <1>1, <1>5 DEF SizesOK
      <4> QED  BY <4>1
    <3>3. Taken(m, k, v)
      BY <1>1, <1>2, <2>0, <2>4, <3>0, <3>2 DEF SizeAt, InOut
    <3>4. PICK w : w = IF ~InFile(S, m) THEN v
                       ELSE IF S.overwrite
                       THEN v + Grown(m, end - Area(m).start)
                       ELSE v + (end - walk.addr)
      OBVIOUS
    <3>5. Taken(m, i, w)'
      BY <1>1, <1>10, <2>4, <3>1, <3>3, <3>4, TakenWithNext DEF AllAccounted
    <3>6. w = v + more
      BY <3>4 DEF more
    <3>7. fileSize'[TRUE] - fileOffs'[m] = w
      <4>1. Area(m).out = TRUE
        BY <1>6, <2>4
      <4>2. fileOffs'[m] = fileOffs[m] /\ fileOffs[m] \in Nat
        BY <1>1, <1>5 DEF SizesOK
      <4>3. fileSize'[TRUE] = size + more
        BY <1>5, <1>8, <3>0, <4>1, Zenon
      <4>4. (size + more) - fileOffs[m] = w
        BY <1>7, <3>2, <3>6, <4>2
      <4> QED  BY <4>2, <4>3, <4>4, Zenon
    <3>8. InOut'
      BY <1>1, <1>4, <2>2, <2>4 DEF InOut, Area
    <3>9. Taken(walk.list, walk.item, fileSize[TRUE] - fileOffs[walk.list])'
      BY <1>1, <3>1, <3>5, <3>7
    <3> QED  BY <2>3, <3>8, <3>9 DEF SizeAt
  <2>5. CASE ~Area(m).out
    <3>1. ~InOut /\ ~InOut'
      BY <1>1, <1>4, <2>5 DEF InOut, Area
    <3>2. FileBefore(m, fileSize[TRUE])
      BY <1>1, <2>0, <3>1 DEF SizeAt
    <3>3. fileSize'[TRUE] = fileSize[TRUE]
      BY <1>5, <1>6, <1>8, <2>5
    <3>4. FileBefore(m, fileSize[TRUE])'
      <4>1. PICK size : size = fileSize[TRUE]
        OBVIOUS
      <4>2. FileBefore(m, size)
        BY <3>2, <4>1, Zenon
      <4>3. FileBefore(m, size)'
        BY <1>2, <2>1, <4>2
      <4> QED  BY <3>3, <4>1, <4>3 DEF FileBefore
    <3> QED  BY <1>1, <2>3, <3>1, <3>4 DEF SizeAt
  <2> QED  BY <2>4, <2>5
<1>11. AllAccounted' = AllAccounted
  BY <1>4, SameAreas
<1> QED
  BY <1>4, <1>9, <1>10, <1>11 DEF SizesOK

(* So PlaceSegment keeps what the placing has reached ...                  *)
LEMMA SegmentKeepsMore ==
  ASSUME job \in Jobs, SectionsOK, PlacingOK, PlacingMore, PlaceSegment,
         stage' = "place"
  PROVE  PlacingMore'
<1> SUFFICES ASSUME overflows' = 0  PROVE PlacingMore'
  BY DEF PlacingMore
<1>1. PICK m, k, addr : /\ m = walk.list /\ k = walk.item
                        /\ addr = AddrOf(job.segs[k], m, walk.addr)
  OBVIOUS
<1> DEFINE S == job.segs[k]
<1>2. PICK end : end = addr + segSize[S.seg]
  OBVIOUS
<1>3. PlacedAt(m, k, addr)
  <2>1. /\ m <= Len(job.areas) /\ k \in SegList(m) /\ Place(m, k, addr)
    BY <1>1, SegmentPlaced DEF PlacingOK
  <2>2. m \in DOMAIN job.areas
    BY <1>1, <2>1, Configured DEF PlacingOK, WalkOK
  <2> QED  BY <1>1, <2>1, <2>2 DEF PlacedAt
<1>4. /\ walk'.list = m /\ walk'.item = After(m, k) /\ walk'.addr = end
      /\ walk'.overwrites = walk.overwrites + (IF S.overwrite THEN 1 ELSE 0)
      /\ UNCHANGED <<job, segments>>
  BY <1>2, <1>3 DEF PlacedAt, Place
<1>5. /\ overflows = 0 /\ k \in Nat /\ WalkOK /\ NoneOverwrites
      /\ ~S.overwrite => \A l \in Prior(m, k) : ~job.segs[l].overwrite
  BY <1>3, SegmentFacts DEF PlacingOK, PlacingMore
<1>6. PICK i \in Nat : i = After(m, k)
  BY <1>5, NextIs
<1>7. /\ i \in SegList(m) \union {InNoList} /\ i # 0
      /\ Prior(m, i)' = Prior(m, k) \union {k} /\ Reached(m, i)' = end
  BY <1>2, <1>3, <1>6, WithNext
<1>8. AtNext'
  BY <1>4, <1>6, <1>7, SameAreas DEF AtNext
<1>9. NoneOverwrites'
  BY <1>4, <1>5, <1>6, <1>7 DEF NoneOverwrites, WalkOK
<1>10. /\ fillLevel' = [fillLevel EXCEPT ![m] =
                          @ + Grown(m, end - Area(m).start)]
       /\ fileSize' = [fileSize EXCEPT ![Area(m).out] =
                         IF ~InFile(S, m) THEN @
                         ELSE IF S.overwrite
                         THEN @ + Grown(m, end - Area(m).start)
                         ELSE @ + (end - walk.addr)]
       /\ fileOffs' = fileOffs
  BY <1>1, <1>2, SegmentCounts
<1>11. LevelsOK'
  BY <1>2, <1>3, <1>10, LevelsKept
<1>12. SizesOK'
  BY <1>2, <1>3, <1>10, SizesKept
<1>13. (\A n \in DOMAIN job.areas : \A l \in SegList(n) :
          Done(n, l) => LaidOut(n, l))'
  <2>1. \A n \in DOMAIN job.areas : \A l \in SegList(n) :
          Done(n, l)' => LaidOut(n, l)'
    BY <1>3, LaidOutKept
  <2> QED  BY <1>4, <2>1, SameAreas
<1> QED
  BY <1>8, <1>9, <1>11, <1>12, <1>13 DEF PlacingMore

(* A step that moves no segment, and what it keeps as it is                *)
LEMMA NothingMovesMore ==
  ASSUME job \in Jobs, UNCHANGED <<job, segments, pc, loadAddr>>, NEW m
  PROVE  /\ \A l : /\ AddrIn(job.segs[l], m)' = AddrIn(job.segs[l], m)
                   /\ EndIn(job.segs[l], m)' = EndIn(job.segs[l], m)
         /\ \A i : /\ Prior(m, i)' = Prior(m, i)
                   /\ Reached(m, i)' = Reached(m, i)
                   /\ \A v : IsLevel(m, i, v)' = IsLevel(m, i, v)
                   /\ LaidOut(m, i)' = LaidOut(m, i)
<1>1. \A l : /\ AddrIn(job.segs[l], m)' = AddrIn(job.segs[l], m)
             /\ EndIn(job.segs[l], m)' = EndIn(job.segs[l], m)
  BY DEF AddrIn, EndIn, segments
<1>2. \A i : /\ Prior(m, i)' = Prior(m, i) /\ Reached(m, i)' = Reached(m, i)
             /\ \A v : IsLevel(m, i, v)' = IsLevel(m, i, v)
  BY <1>1, EndsStay
<1>3. \A S, a : Laid(S, m, a)' = Laid(S, m, a)
  BY DEF Laid, Fixed, FixedAddr, RunAlignment, AlignAddr, Area
<1>4. \A i : LaidOut(m, i)' = LaidOut(m, i)
  BY <1>1, <1>2, <1>3 DEF LaidOut
<1> QED
  BY <1>1, <1>2, <1>4

LEMMA NothingTakenYet ==
  ASSUME NEW m, NEW i, Prior(m, i)' = {}
  PROVE  Taken(m, i, 0)'
<1>1. IsLevel(m, i, 0)'
  BY DEF IsLevel, IsTop, Tops
<1>2. SumOf(Room(m), Stored(m, i))' = 0
  <2>1. Stored(m, i)' = {}
    BY DEF Stored
  <2> DEFINE R == Room(m)'
  <2>2. SumOf(Room(m), Stored(m, i))' = SumOf(R, {})
    BY <2>1 DEF SumOf, Adds
  <2> HIDE DEF R
  <2> QED  BY <2>2, SumEmpty
<1> QED
  BY <1>1, <1>2 DEF Taken

(* ... and so does StartArea ...                                           *)
LEMMA AreaStartedMore ==
  ASSUME job \in Jobs, SectionsOK, PlacingOK, PlacingMore, StartArea
  PROVE  PlacingMore'
<1> SUFFICES ASSUME overflows' = 0  PROVE PlacingMore'
  BY DEF PlacingMore
<1>1. PICK m : m = walk.list
  OBVIOUS
<1>2. /\ UNCHANGED <<job, segments, pc, loadAddr, overflows, fillLevel,
                     fileSize>>
      /\ fileOffs' = [fileOffs EXCEPT ![m] = fileSize[Area(m).out]]
      /\ walk.item = 0 /\ m <= Len(job.areas)
      /\ walk'.list = m /\ walk'.item = After(m, 0)
      /\ walk'.addr = Area(m).start /\ walk'.overwrites = 0
  BY <1>1 DEF StartArea, Begins, FirstItem, linkVars
<1>3. /\ overflows = 0 /\ AllFit /\ WalkOK /\ AddressesOK
      /\ LevelsOK /\ SizesOK
      /\ fileSize \in [BOOLEAN -> Nat]
           /\ fileOffs \in [DOMAIN job.areas -> Nat]
  BY <1>2 DEF PlacingOK, PlacingMore, SizesOK
<1>4. m \in DOMAIN job.areas /\ m \in Nat
      /\ Area(m).out \in BOOLEAN
  <2>1. m \in DOMAIN job.areas /\ m \in Nat
    BY <1>1, <1>2, <1>3, Configured DEF WalkOK
  <2> QED  BY <2>1, PlaceAssumption DEF Area
<1>5. PICK i \in Nat : i = After(m, 0)
  BY NextIs
<1>6. /\ i \in SegList(m) \union {InNoList} /\ i > 0 /\ Prior(m, i) = {}
      /\ Prior(m, 0) = {}
  <2>1. i \in SegList(m) \union {InNoList} /\ i > 0 /\ Prior(m, i) = {}
    BY <1>5, NextIs
  <2>2. Prior(m, 0) = {}
    BY ListOfNumbers DEF Prior
  <2> QED  BY <2>1, <2>2
<1>7. \A n : SegList(n)' = SegList(n) /\ Area(n)' = Area(n)
  BY <1>2, SameAreas
<1>8. /\ Prior(m, i)' = {} /\ Reached(m, i)' = Area(m).start
  <2>1. Prior(m, i)' = {}
    BY <1>2, <1>6, NothingMovesMore
  <2> QED  BY <1>7, <2>1 DEF Reached
<1>9. AtNext' /\ NoneOverwrites'
  <2>1. AtNext'
    BY <1>2, <1>5, <1>6, <1>8, SameAreas DEF AtNext
  <2>2. NoneOverwrites'
    BY <1>2, <1>5, <1>8 DEF NoneOverwrites
  <2> QED  BY <2>1, <2>2
<1>10. (\A n \in DOMAIN job.areas : \A l \in SegList(n) :
          Done(n, l) => LaidOut(n, l))'
  <2>1. ASSUME NEW n \in DOMAIN job.areas, NEW l \in SegList(n), Done(n, l)'
        PROVE  LaidOut(n, l)'
    <3>1. l \in Nat /\ n \in Nat
      BY ListOfNumbers, Configured
    <3>2. Done(n, l)
      <4>1. n = m => ~(l < i)
        BY <1>6, <3>1 DEF Prior
      <4> QED  BY <1>1, <1>2, <1>5, <2>1, <4>1 DEF Done
    <3> QED  BY <1>2, <1>3, <3>2, NothingMovesMore DEF PlacingMore
  <2> QED  BY <1>2, <1>7, <2>1
<1>11. LevelsOK'
  <2> SUFFICES ASSUME NEW n \in DOMAIN job.areas
               PROVE  IsLevel(n, UpTo(n), fillLevel[n])'
    BY <1>2, <1>3 DEF LevelsOK
  <2>1. IsLevel(n, UpTo(n), fillLevel[n])
    BY <1>3 DEF LevelsOK
  <2>2. CASE n = m
    <3>1. UpTo(n) = 0 /\ UpTo(n)' = i
      BY <1>1, <1>2, <1>4, <1>5, <2>2 DEF UpTo
    <3>2. Tops(m, 0) = {} /\ Tops(m, i)' = {}
      BY <1>6, <1>8 DEF Tops
    <3> QED  BY <1>2, <2>1, <2>2, <3>1, <3>2 DEF IsLevel
  <2>3. CASE n # m
    <3>1. PICK j : j = UpTo(n)
      OBVIOUS
    <3>2. UpTo(n)' = j
      BY <1>1, <1>2, <2>3, <3>1, SameAreas DEF UpTo
    <3>3. IsLevel(n, j, fillLevel[n])'
      <4>1. PICK v : v = fillLevel[n] /\ v = fillLevel'[n]
        BY <1>2
      <4>2. IsLevel(n, j, v)
        BY <2>1, <3>1, <4>1
      <4>3. IsLevel(n, j, v)'
        BY <1>2, <4>2, NothingMovesMore
      <4> QED  BY <4>1, <4>3
    <3> QED  BY <3>2, <3>3
  <2> QED  BY <2>2, <2>3
<1>12. SizesOK'
  <2>1. fileOffs' \in [DOMAIN job.areas -> Nat]
    <3>1. fileSize[Area(m).out] \in Nat
      BY <1>3, <1>4, Zenon
    <3> QED  BY <1>2, <1>3, <3>1
  <2>2. ASSUME AllAccounted
        PROVE  OffsetsOK' /\ SizeAt(fileSize[TRUE])'
    <3>0. /\ OffsetsOK /\ SizeAt(fileSize[TRUE])
          /\ FileBefore(m, fileSize[TRUE])
      BY <1>1, <1>2, <1>3, <2>2 DEF SizesOK, SizeAt, InOut
    <3>1. PICK size \in Nat : size = fileSize[TRUE]
      BY <1>3, Zenon
    <3>2. ASSUME NEW n \in Nat, n <= m
          PROVE  \A v : FileBefore(n, v)' = FileBefore(n, v)
      <4>1. \A q \in DOMAIN job.areas : q < walk.list =>
              /\ fileOffs'[q] = fileOffs[q]
              /\ \A l \in SegList(q) :
                   EndIn(job.segs[l], q)' = EndIn(job.segs[l], q)
        <5>1. ASSUME NEW q \in DOMAIN job.areas, q < walk.list
              PROVE  fileOffs'[q] = fileOffs[q]
          <6>1. q # m
            BY <1>1, <1>4, <5>1, Configured
          <6> QED  BY <1>2, <1>3, <6>1
        <5> QED  BY <1>2, <5>1, NothingMovesMore
      <4> QED  BY <1>1, <1>2, <1>3, <2>2, <3>2, <4>1, OffsetsStay
    <3>3. OffsetsOK'
      <4> SUFFICES ASSUME NEW n \in DOMAIN job.areas, Area(n).out,
                          n < m \/ n = m
                   PROVE  FileBefore(n, fileOffs[n])'
        BY <1>2, <1>7 DEF OffsetsOK
      <4>1. n \in Nat /\ n <= m
        BY <1>4, Configured
      <4>2. CASE n = m
        <5>1. fileOffs'[n] = size
          <6>1. Area(m).out = TRUE
            BY <1>4, <4>2
          <6> QED  BY <1>2, <1>3, <1>4, <3>1, <4>2, <6>1, Zenon
        <5>2. FileBefore(n, size)
          BY <3>0, <3>1, <4>2, Zenon
        <5>3. FileBefore(n, size)'
          BY <3>2, <4>1, <5>2
        <5> QED  BY <5>1, <5>3
      <4>3. CASE n < m
        <5>1. PICK v : v = fileOffs[n] /\ v = fileOffs'[n]
          BY <1>2, <1>3, <4>1, <4>3
        <5>2. FileBefore(n, v)
          BY <1>1, <3>0, <4>3, <5>1 DEF OffsetsOK
        <5>3. FileBefore(n, v)'
          BY <3>2, <4>1, <5>2
        <5> QED  BY <5>1, <5>3
      <4> QED  BY <4>2, <4>3
    <3>4. SizeAt(fileSize[TRUE])'
      <4>1. CASE Area(m).out
        <5>1. InOut'
          BY <1>2, <1>5, <1>6, <1>7, <4>1 DEF InOut
        <5>2. fileSize'[TRUE] - fileOffs'[m] = 0
          <6>1. Area(m).out = TRUE
            BY <1>4, <4>1
          <6>2. fileOffs'[m] = size /\ fileSize'[TRUE] = size
            BY <1>2, <1>3, <1>4, <3>1, <6>1, Zenon
          <6>3. size - size = 0
            OBVIOUS
          <6> QED  BY <6>2, <6>3, Zenon
        <5>3. Taken(m, i, 0)'
          BY <1>8, NothingTakenYet
        <5>4. Taken(walk.list, walk.item, fileSize[TRUE] - fileOffs[walk.list])'
          BY <1>2, <1>5, <5>2, <5>3
        <5> QED  BY <5>1, <5>4 DEF SizeAt
      <4>2. CASE ~Area(m).out
        <5>1. ~InOut'
          BY <1>2, <1>7, <4>2 DEF InOut
        <5>2. FileBefore(m, size)
          BY <3>0, <3>1, Zenon
        <5>3. FileBefore(m, size)'
          BY <1>4, <3>2, <5>2
        <5>4. FileBefore(walk.list, fileSize[TRUE])'
          BY <1>2, <3>1, <5>3
        <5> QED  BY <5>1, <5>4 DEF SizeAt
      <4> QED  BY <4>1, <4>2
    <3> QED  BY <3>3, <3>4
  <2>3. AllAccounted' = AllAccounted
    BY <1>2, SameAreas
  <2> QED  BY <1>2, <1>3, <2>1, <2>2, <2>3 DEF SizesOK
<1> QED
  BY <1>9, <1>10, <1>11, <1>12 DEF PlacingMore

(* ... and EndArea, which fills the area up.                               *)
LEMMA AreaEndedMore ==
  ASSUME job \in Jobs, SectionsOK, PlacingOK, PlacingMore, EndArea,
         stage' = "place"
  PROVE  PlacingMore'
<1> SUFFICES ASSUME overflows' = 0  PROVE PlacingMore'
  BY DEF PlacingMore
<1>1. PICK m, i : m = walk.list /\ i = InNoList
  OBVIOUS
<1>2. /\ UNCHANGED <<job, segments, pc, loadAddr, overflows, overflown,
                     fillLevel, fileOffs>>
      /\ fileSize' = [fileSize EXCEPT ![Area(m).out] =
                        IF m \notin overflown /\ Area(m).fill
                        THEN @ + (Area(m).size - fillLevel[m]) ELSE @]
      /\ walk.item = i /\ m <= Len(job.areas)
      /\ walk'.list = m + 1 /\ walk'.item = 0
  BY <1>1 DEF EndArea, Ends, DuplicateIdentifier, Fail, WalkAt
<1>3. /\ overflows = 0 /\ AllFit /\ WalkOK /\ AddressesOK /\ overflown = {}
      /\ LevelsOK /\ SizesOK /\ fillLevel \in [DOMAIN job.areas -> Nat]
      /\ fileSize \in [BOOLEAN -> Nat]
           /\ fileOffs \in [DOMAIN job.areas -> Nat]
  <2>1. overflows = 0
    BY <1>2
  <2>2. overflown = {}
    BY <2>1 DEF PlacingOK, OverflowsOK
  <2> QED  BY <2>1, <2>2 DEF PlacingOK, PlacingMore, SizesOK, LevelsOK
<1>4. /\ m \in DOMAIN job.areas /\ m \in Nat /\ i \in Nat \ {0}
      /\ Area(m).out \in BOOLEAN /\ Area(m).size \in Nat
      /\ Len(job.segs) \in Nat /\ i = Len(job.segs) + 1
  <2>1. m \in DOMAIN job.areas /\ m \in Nat
    BY <1>1, <1>2, <1>3, Configured DEF WalkOK
  <2>2. i \in Nat \ {0} /\ Len(job.segs) \in Nat /\ i = Len(job.segs) + 1
    BY <1>1, Configured DEF InNoList
  <2> QED  BY <2>1, <2>2, PlaceAssumption DEF Area
<1>5. /\ \A n : SegList(n)' = SegList(n) /\ Area(n)' = Area(n)
      /\ AllAccounted' = AllAccounted
      /\ \A n : Accounted(n)' = Accounted(n) /\ IsImage(n)' = IsImage(n)
      /\ InNoList' = i
  BY <1>1, <1>2, SameAreas
<1>6. AtNext' /\ NoneOverwrites'
  BY <1>2 DEF AtNext, NoneOverwrites
<1>7. (\A n \in DOMAIN job.areas : \A l \in SegList(n) :
          Done(n, l) => LaidOut(n, l))'
  <2>1. ASSUME NEW n \in DOMAIN job.areas, NEW l \in SegList(n), Done(n, l)'
        PROVE  LaidOut(n, l)'
    <3>1. l \in 1 .. Len(job.segs) /\ n \in Nat
      BY ListOfNumbers, Configured
    <3>2. Done(n, l)
      BY <1>1, <1>2, <1>4, <2>1, <3>1 DEF Done
    <3> QED  BY <1>2, <1>3, <3>2, NothingMovesMore DEF PlacingMore
  <2> QED  BY <1>2, <1>5, <2>1
<1>8. PriorFit(m, i) /\ IsLevel(m, i, fillLevel[m])
  <2>1. UpTo(m) = i /\ m <= walk.list
    BY <1>1, <1>2, <1>4 DEF UpTo
  <2> QED  BY <1>3, <1>4, <2>1, AsFarAsDone DEF LevelsOK
<1>9. fillLevel[m] \in 0 .. Area(m).size
  BY <1>3, <1>4, <1>8, LevelInArea
<1>10. LevelsOK'
  <2> SUFFICES ASSUME NEW n \in DOMAIN job.areas
               PROVE  IsLevel(n, UpTo(n), fillLevel[n])'
    BY <1>2, <1>3 DEF LevelsOK
  <2>1. PICK j, v : /\ j = UpTo(n) /\ j = UpTo(n)'
                    /\ v = fillLevel[n] /\ v = fillLevel'[n]
    <3>1. n \in Nat
      BY Configured
    <3>2. UpTo(n)' = UpTo(n)
      BY <1>1, <1>2, <1>4, <1>5, <3>1 DEF UpTo
    <3> QED  BY <1>2, <3>2
  <2>2. IsLevel(n, j, v)
    BY <1>3, <2>1 DEF LevelsOK
  <2>3. IsLevel(n, j, v)'
    BY <1>2, <2>2, NothingMovesMore
  <2> QED  BY <2>1, <2>3
<1>11. SizesOK'
  <2>0. PICK more : more = IF Area(m).fill THEN Area(m).size - fillLevel[m] ELSE 0
    OBVIOUS
  <2>1. more \in Nat
    BY <1>4, <1>9, <2>0
  <2>2. fileSize' = [fileSize EXCEPT ![Area(m).out] = @ + more]
    <3>1. fileSize[Area(m).out] + 0 = fileSize[Area(m).out]
      <4>1. fileSize[Area(m).out] \in Nat
        BY <1>3, <1>4, Zenon
      <4> QED  BY <4>1
    <3> QED  BY <1>2, <1>3, <2>0, <3>1, Zenon
  <2>3. fileSize' \in [BOOLEAN -> Nat]
    BY <1>3, <1>4, <2>1, <2>2
  <2>4. ASSUME AllAccounted
        PROVE  OffsetsOK' /\ SizeAt(fileSize[TRUE])'
    <3>0. OffsetsOK /\ SizeAt(fileSize[TRUE])
      BY <1>3, <2>4 DEF SizesOK
    <3>1. PICK size \in Nat : size = fileSize[TRUE]
      BY <1>3, Zenon
    <3>2. ASSUME NEW n \in Nat, n <= m
          PROVE  Outs(n)' = Outs(n) /\ \A v :
                   FileBefore(n, v)' = FileBefore(n, v)
      <4>1. \A q \in DOMAIN job.areas : q < walk.list =>
              /\ fileOffs'[q] = fileOffs[q]
              /\ \A l \in SegList(q) :
                   EndIn(job.segs[l], q)' = EndIn(job.segs[l], q)
        BY <1>2, NothingMovesMore
      <4> QED  BY <1>1, <1>2, <1>3, <2>4, <3>2, <4>1, OffsetsStay
    <3>3. OffsetsOK'
      <4> SUFFICES ASSUME NEW n \in DOMAIN job.areas, Area(n).out, n < m + 1
                   PROVE  FileBefore(n, fileOffs[n])'
        BY <1>2, <1>5 DEF OffsetsOK
      <4>1. n \in Nat /\ n <= m
        BY <1>4, Configured
      <4>2. PICK v : v = fileOffs[n] /\ v = fileOffs'[n]
        BY <1>2
      <4>3. FileBefore(n, v)
        BY <1>1, <1>2, <1>4, <3>0, <4>1, <4>2 DEF OffsetsOK
      <4>4. FileBefore(n, v)'
        BY <3>2, <4>1, <4>3
      <4> QED  BY <4>2, <4>4
    <3>4. ~InOut'
      BY <1>2 DEF InOut
    <3>5. CASE Area(m).out
      <4>1. PICK v \in Int : v = size - fileOffs[m]
        <5>1. fileOffs[m] \in Nat
          BY <1>3, <1>4
        <5> QED  BY <5>1
      <4>2. Taken(m, i, v)
        BY <1>1, <1>2, <1>4, <3>0, <3>1, <3>5, <4>1 DEF SizeAt, InOut
      <4>3. PICK w \in Int : w = v + more
        BY <2>1
      <4>4. fileSize'[TRUE] - fileOffs'[m] = w
        <5>1. Area(m).out = TRUE
          BY <1>4, <3>5
        <5>2. fileOffs'[m] = fileOffs[m] /\ fileOffs[m] \in Nat
          BY <1>2, <1>3, <1>4
        <5>3. fileSize'[TRUE] = size + more
          BY <1>3, <2>2, <3>1, <5>1, Zenon
        <5>4. (size + more) - fileOffs[m] = w
          BY <2>1, <4>1, <4>3, <5>2
        <5> QED  BY <5>2, <5>3, <5>4, Zenon
      <4>5. Extent(m, w)'
        <5>1. CASE Area(m).fill
          <6>1. IsImage(m)
            BY <1>4, <2>4, <3>5, <5>1 DEF AllAccounted, Accounted
          <6>2. IsLevel(m, i, v)
            BY <4>2, <6>1 DEF Taken
          <6>3. v = fillLevel[m]
            BY <1>3, <1>4, <1>8, <6>2, LevelIsOne
          <6>4. w = Area(m).size
            BY <1>4, <1>9, <2>0, <4>3, <5>1, <6>3
          <6> QED  BY <1>5, <5>1, <6>4 DEF Extent
        <5>2. CASE ~Area(m).fill
          <6>1. w = v
            BY <2>0, <4>3, <5>2
          <6>2. Accounted(m) /\ Prior(m, i) \subseteq SegList(m)
            BY <1>4, <2>4, <3>5, PriorIsFinite DEF AllAccounted
          <6>3. \A l : EndIn(job.segs[l], m)' = EndIn(job.segs[l], m)
            BY <1>2, NothingMovesMore
          <6>4. Taken(m, i, w)' = Taken(m, i, w)
            BY <1>2, <1>3, <1>4, <1>8, <6>2, <6>3, TakenStays
          <6> QED  BY <1>5, <4>2, <5>2, <6>1, <6>4 DEF Extent
        <5> QED  BY <5>1, <5>2
      <4>6. Outs(m + 1)' # {} /\ Max(Outs(m + 1)') = m
        <5>1. Outs(m + 1)' = Outs(m + 1)
          BY <1>2, <1>5 DEF Outs
        <5> QED  BY <1>4, <3>5, <5>1, OutsOfNext
      <4>7. FileBefore(m + 1, fileSize[TRUE])'
        BY <4>4, <4>5, <4>6 DEF FileBefore
      <4> QED  BY <1>2, <3>3, <3>4, <4>7 DEF SizeAt
    <3>6. CASE ~Area(m).out
      <4>1. ~InOut
        BY <1>1, <3>6 DEF InOut
      <4>2. FileBefore(m, size)
        BY <1>1, <3>0, <3>1, <4>1 DEF SizeAt
      <4>3. FileBefore(m, size)'
        BY <1>4, <3>2, <4>2
      <4>4. Outs(m + 1)' = Outs(m)'
        <5>1. Outs(m + 1)' = Outs(m + 1) /\ Outs(m)' = Outs(m)
          BY <1>2, <1>5 DEF Outs
        <5> QED  BY <1>4, <3>6, <5>1, OutsOfNext
      <4>5. FileBefore(m + 1, size)'
        BY <4>3, <4>4 DEF FileBefore
      <4>6. fileSize'[TRUE] = size
        BY <1>3, <1>4, <2>2, <3>1, <3>6, Zenon
      <4> QED  BY <1>2, <3>3, <3>4, <4>5, <4>6 DEF SizeAt
    <3> QED  BY <3>5, <3>6
  <2> QED  BY <1>2, <1>3, <1>5, <2>3, <2>4 DEF SizesOK
<1> QED
  BY <1>6, <1>7, <1>10, <1>11 DEF PlacingMore

-----------------------------------------------------------------------------
(* Before the first area, and behind the last                              *)
NothingCounted ==
  /\ fillLevel = [m \in DOMAIN job.areas |-> 0]
  /\ fileOffs = [m \in DOMAIN job.areas |-> 0]
  /\ fileSize = [out \in BOOLEAN |-> 0]

LEMMA NothingBefore ==
  ASSUME job \in Jobs
  PROVE  Outs(1) = {} /\ \A m \in DOMAIN job.areas : m \in Nat /\ m >= 1
<1>1. \A m \in DOMAIN job.areas : m \in Nat /\ m >= 1
  BY Configured
<1> QED
  BY <1>1 DEF Outs

(* The placing begins with nothing counted.                                *)
LEMMA PlacingBeginsMore ==
  ASSUME job \in Jobs, NothingCounted, ProcessSegments
  PROVE  PlacingMore'
<1>1. /\ UNCHANGED <<job, segments, pc, loadAddr, fillLevel, fileOffs,
                     fileSize>>
      /\ walk'.list = 1 /\ walk'.item = 0
  BY DEF ProcessSegments, WalkAt, placed
<1>2. /\ \A n : SegList(n)' = SegList(n) /\ Area(n)' = Area(n)
  BY <1>1, SameAreas
<1>3. AtNext' /\ NoneOverwrites'
  BY <1>1 DEF AtNext, NoneOverwrites
<1>4. (\A n \in DOMAIN job.areas : \A l \in SegList(n) :
          Done(n, l) => LaidOut(n, l))'
  <2>1. ASSUME NEW n \in DOMAIN job.areas, NEW l \in SegList(n)
        PROVE  ~Done(n, l)'
    <3>1. l \in Nat \ {0} /\ n \in Nat /\ n >= 1
      BY ListOfNumbers, NothingBefore
    <3> QED  BY <1>1, <3>1 DEF Done
  <2> QED  BY <1>1, <1>2, <2>1
<1>5. LevelsOK'
  <2>1. fillLevel' \in [DOMAIN job'.areas -> Nat]
    BY <1>1 DEF NothingCounted
  <2>2. ASSUME NEW n \in DOMAIN job.areas
        PROVE  IsLevel(n, UpTo(n), fillLevel[n])'
    <3>1. UpTo(n)' = 0
      BY <1>1, NothingBefore DEF UpTo
    <3>2. Prior(n, 0)' = {}
      <4>1. SegList(n)' \subseteq Nat
        BY <1>2, ListOfNumbers
      <4> QED  BY <4>1 DEF Prior
    <3>3. fillLevel'[n] = 0
      BY <1>1 DEF NothingCounted
    <3> QED  BY <3>1, <3>2, <3>3 DEF IsLevel, IsTop, Tops
  <2> QED  BY <1>1, <2>1, <2>2 DEF LevelsOK
<1>6. SizesOK'
  <2>1. fileSize' \in [BOOLEAN -> Nat] /\ fileSize'[TRUE] = 0
    BY <1>1, Zenon DEF NothingCounted
  <2>2. fileOffs' \in [DOMAIN job'.areas -> Nat]
    BY <1>1 DEF NothingCounted
  <2>3. OffsetsOK'
    BY <1>1, NothingBefore DEF OffsetsOK
  <2>4. SizeAt(fileSize[TRUE])'
    <3>1. ~InOut' /\ Outs(1)' = {}
      BY <1>1, <1>2, NothingBefore DEF InOut, Outs
    <3> QED  BY <1>1, <2>1, <3>1 DEF SizeAt, FileBefore
  <2> QED  BY <2>1, <2>2, <2>3, <2>4 DEF SizesOK
<1> QED
  BY <1>3, <1>4, <1>5, <1>6 DEF PlacingMore

-----------------------------------------------------------------------------
(* The writing: what is left of the placing ...                            *)
AllLaidOut ==
  /\ AddressesOK
  /\ \A m \in DOMAIN job.areas : \A k \in SegList(m) : LaidOut(m, k)
  /\ fillLevel \in [DOMAIN job.areas -> Nat]
  /\ fileOffs \in [DOMAIN job.areas -> Nat]
  /\ \A m \in DOMAIN job.areas :
       (m >= walk.list \/ ~Area(m).fill) => IsLevel(m, InNoList, fillLevel[m])
  /\ AllAccounted => \A m \in DOMAIN job.areas :
                       Area(m).out => FileBefore(m, fileOffs[m])

(* ... the segments that have been written ...                             *)
DumpedOK ==
  \A s \in dumped : \E m \in DOMAIN job.areas : \E k \in SegList(m) :
    Done(m, k) /\ job.segs[k].load = m /\ job.segs[k].seg = s

(* ... and how far the file is there to stay, with the sections in it.     *)
Kept(m) == IF InOut /\ m # walk.list THEN fileOffs[walk.list] ELSE pos

CoveredUpTo(m, k, i, a) ==
  \E l \in Prior(m, i) :
    LET T == job.segs[l]
    IN  l > k /\ T.overwrite /\ a >= AddrIn(T, m) /\ a < EndIn(T, m)

InFileAt(m, k, i) ==
  LET S == job.segs[k]
  IN  ~S.bss =>
        \A j \in DOMAIN sections : sections[j].seg = S.seg =>
          \A b \in 1 .. sections[j].size :
            LET a == AddrIn(S, m) + sections[j].offs + b - 1
                p == fileOffs[m] + a - Area(m).start + 1
            IN  /\ p \in 1 .. Kept(m)
                /\ CoveredUpTo(m, k, i, a) \/ file[p] = j

ImagesOK ==
  \A m \in DOMAIN job.areas : (Area(m).out /\ IsImage(m)) =>
    \A k \in SegList(m) : Done(m, k) => InFileAt(m, k, UpTo(m))

FileOK == file \in Seq(Nat) /\ pos \in 0 .. Len(file)

Writing ==
  /\ WalkOK /\ AtNext /\ DumpedOK /\ FileOK
  /\ AllAccounted => pos = Len(file) /\ SizeAt(pos) /\ ImagesOK

NothingWritten == file = <<>> /\ pos = 0 /\ dumped = {}

(* When it is over every segment is laid out, and the writing begins.      *)
LEMMA WritingBegins ==
  ASSUME job \in Jobs, SectionsOK, PlacingOK, PlacingMore, NothingWritten,
         overflows = 0, OpenTarget, stage' = "write"
  PROVE  AllLaidOut' /\ Writing'
<1>1. /\ UNCHANGED <<job, segments, pc, loadAddr, fillLevel, fileOffs,
                     written>>
      /\ walk.list > Len(job.areas)
      /\ walk'.list = 1 /\ walk'.item = 0
      /\ walk'.addr = 0 /\ walk'.overwrites = 0
  BY DEF OpenTarget, Past, placed, Fail, WalkAt
<1>2. /\ AllFit /\ WalkOK /\ AddressesOK /\ LevelsOK /\ SizesOK
  BY DEF PlacingOK, PlacingMore
<1>3. /\ \A n : SegList(n)' = SegList(n) /\ Area(n)' = Area(n)
      /\ AllAccounted' = AllAccounted /\ InNoList' = InNoList
  BY <1>1, SameAreas
<1>4. ASSUME NEW n \in DOMAIN job.areas
      PROVE  n \in Nat /\ n >= 1 /\ n < walk.list
  BY <1>1, <1>2, NothingBefore, Configured DEF WalkOK
<1>5. AllLaidOut'
  <2>1. ASSUME NEW n \in DOMAIN job.areas, NEW l \in SegList(n)
        PROVE  LaidOut(n, l)'
    <3>1. Done(n, l)
      BY <1>4 DEF Done
    <3> QED  BY <1>1, <3>1, NothingMovesMore DEF PlacingMore
  <2>2. ASSUME NEW n \in DOMAIN job.areas
        PROVE  IsLevel(n, InNoList, fillLevel[n])'
    <3>1. PICK i, v : i = InNoList /\ v = fillLevel[n]
      OBVIOUS
    <3>2. IsLevel(n, i, v)
      BY <1>2, <1>4, <3>1 DEF LevelsOK, UpTo
    <3>3. IsLevel(n, i, v)'
      BY <1>1, <3>2, NothingMovesMore
    <3>4. i = InNoList' /\ v = fillLevel'[n]
      BY <1>1, <1>3, <3>1
    <3> QED  BY <3>3, <3>4
  <2>3. ASSUME AllAccounted, NEW n \in DOMAIN job.areas, Area(n).out
        PROVE  FileBefore(n, fileOffs[n])'
    <3>1. PICK v : v = fileOffs[n] /\ v = fileOffs'[n]
      BY <1>1
    <3>2. FileBefore(n, v)
      BY <1>2, <1>4, <2>3, <3>1 DEF SizesOK, OffsetsOK
    <3>3. FileBefore(n, v)'
      <4>1. n \in Nat /\ n <= walk.list
        BY <1>2, <1>4 DEF WalkOK
      <4>2. \A q \in DOMAIN job.areas : q < walk.list =>
              /\ fileOffs'[q] = fileOffs[q]
              /\ \A l \in SegList(q) :
                   EndIn(job.segs[l], q)' = EndIn(job.segs[l], q)
        BY <1>1, NothingMovesMore
      <4> QED  BY <1>1, <1>2, <2>3, <3>2, <4>1, <4>2, OffsetsStay
    <3> QED  BY <3>1, <3>3
  <2>4. fillLevel \in [DOMAIN job.areas -> Nat]
          /\ fileOffs \in [DOMAIN job.areas -> Nat]
    BY <1>2 DEF LevelsOK, SizesOK
  <2>5. AddressesOK'
    BY <1>1, <1>2 DEF AddressesOK
  <2> QED  BY <1>1, <1>3, <2>1, <2>2, <2>3, <2>4, <2>5 DEF AllLaidOut
<1>6. Writing'
  <2>1. WalkOK' /\ AtNext' /\ ~InOut'
    BY <1>1 DEF WalkOK, AtNext, InOut
  <2>2. DumpedOK' /\ FileOK' /\ pos' = 0 /\ Len(file') = 0
    <3>1. file' = <<>> /\ pos' = 0 /\ dumped' = {}
      BY <1>1 DEF NothingWritten, written
    <3> QED  BY <3>1 DEF DumpedOK, FileOK
  <2>3. SizeAt(pos)'
    <3>1. Outs(1)' = {}
      BY <1>1, <1>3, NothingBefore DEF Outs
    <3> QED  BY <1>1, <2>1, <2>2, <3>1 DEF SizeAt, FileBefore
  <2>4. ImagesOK'
    <3>1. ASSUME NEW n \in DOMAIN job.areas, NEW l \in SegList(n)
          PROVE  ~Done(n, l)'
      <4>1. l \in Nat \ {0} /\ n \in Nat /\ n >= 1
        BY ListOfNumbers, NothingBefore
      <4> QED  BY <1>1, <4>1 DEF Done
    <3> QED  BY <1>1, <1>3, <3>1 DEF ImagesOK
  <2> QED  BY <2>1, <2>2, <2>3, <2>4 DEF Writing
<1> QED
  BY <1>5, <1>6

-----------------------------------------------------------------------------
(* Writing into the file                                                   *)
LEMMA MarksAreSeq ==
  ASSUME NEW n \in Nat, NEW f, f = [k \in 1 .. n |-> f[k]],
         \A k \in 1 .. n : f[k] \in Nat
  PROVE  f \in Seq(Nat) /\ Len(f) = n /\ DOMAIN f = 1 .. n
<1>1. f \in [1 .. n -> Nat]
  OBVIOUS
<1>2. f \in Seq(Nat)
  BY <1>1, SeqDef
<1>3. DOMAIN f = 1 .. n
  OBVIOUS
<1> QED
  BY <1>2, <1>3, LenProperties

(* Fill bytes                                                              *)
LEMMA FillingIs ==
  ASSUME NEW n \in Nat
  PROVE  Filling(n) \in Seq(Nat) /\ Len(Filling(n)) = n
<1>1. /\ Filling(n) = [k \in 1 .. n |-> Filling(n)[k]]
      /\ \A k \in 1 .. n : Filling(n)[k] \in Nat
  BY DEF Filling, Fill
<1> QED
  BY <1>1, MarksAreSeq

(* fwrite at a position: what it changes and what it leaves alone          *)
LEMMA PutIs ==
  ASSUME NEW f \in Seq(Nat), NEW at \in Nat, NEW marks \in Seq(Nat)
  PROVE  /\ Put(f, at, marks) \in Seq(Nat)
         /\ Len(f) \in Nat /\ Len(marks) \in Nat
         /\ Len(Put(f, at, marks)) =
              IF Len(f) >= at + Len(marks) THEN Len(f) ELSE at + Len(marks)
         /\ \A q \in 1 .. Len(f) : (q <= at \/ q > at + Len(marks)) =>
              Put(f, at, marks)[q] = f[q]
         /\ \A b \in 1 .. Len(marks) :
              Put(f, at, marks)[at + b] = marks[b]
<1> DEFINE l == Len(f)
           e == at + Len(marks)
           n == IF l >= e THEN l ELSE e
           g == Put(f, at, marks)
<1>1. /\ l \in Nat /\ Len(marks) \in Nat /\ e \in Nat /\ n \in Nat
      /\ n >= l /\ n >= e
      /\ \A k \in 1 .. l : f[k] \in Nat
      /\ \A k \in 1 .. Len(marks) : marks[k] \in Nat
  BY LenProperties, ElementOfSeq
<1>2. Max({l, e}) = n
  <2>1. {l, e} \in SUBSET Nat /\ n \in {l, e} /\ \A x \in {l, e} : x <= n
    BY <1>1
  <2> HIDE DEF l, e, n
  <2> QED  BY <2>1, MaxIs
<1>3. g = [k \in 1 .. n |-> IF k > at /\ k <= e THEN marks[k - at]
                            ELSE IF k <= l THEN f[k] ELSE Fill]
  BY <1>2 DEF Put
<1>4. \A k \in 1 .. n :
        g[k] = IF k > at /\ k <= e THEN marks[k - at]
               ELSE IF k <= l THEN f[k] ELSE Fill
  BY <1>3
<1>5. \A k \in 1 .. n : g[k] \in Nat
  <2> SUFFICES ASSUME NEW k \in 1 .. n  PROVE g[k] \in Nat
    OBVIOUS
  <2>1. (k > at /\ k <= e) => k - at \in 1 .. Len(marks)
    BY <1>1
  <2>2. k <= l => k \in 1 .. l
    BY <1>1
  <2> HIDE DEF g, n, e, l
  <2> QED  BY <1>1, <1>4, <2>1, <2>2 DEF Fill
<1>6. g = [k \in 1 .. n |-> g[k]]
  BY <1>3
<1> HIDE DEF g
<1>7. g \in Seq(Nat) /\ Len(g) = n
  BY <1>1, <1>5, <1>6, MarksAreSeq
<1>8. \A q \in 1 .. l : (q <= at \/ q > e) => g[q] = f[q]
  BY <1>1, <1>4
<1>9. \A b \in 1 .. Len(marks) : g[at + b] = marks[b]
  <2> SUFFICES ASSUME NEW b \in 1 .. Len(marks)  PROVE g[at + b] = marks[b]
    OBVIOUS
  <2>1. /\ at + b \in 1 .. n /\ at + b > at /\ at + b <= e
        /\ (at + b) - at = b
    BY <1>1
  <2> QED  BY <1>4, <2>1
<1> QED
  BY <1>1, <1>7, <1>8, <1>9 DEF g

(* The sections of a segment lie in it one behind the other.               *)
SectionsApart ==
  /\ \A j \in DOMAIN sections :
       /\ sections[j].size \in Nat
       /\ sections[j].offs + sections[j].size <= segSize[sections[j].seg]
  /\ \A i, j \in DOMAIN sections :
       (i < j /\ sections[i].seg = sections[j].seg) =>
         sections[i].offs + sections[i].size <= sections[j].offs

(* SegWrite: each byte of a section is at its offset in the segment.       *)
LEMMA ContentsAre ==
  ASSUME SectionsOK, SectionsApart, NEW s \in Segs
  PROVE  /\ Contents(s) \in Seq(Nat) /\ Len(Contents(s)) = segSize[s]
         /\ segSize[s] \in Nat
         /\ \A j \in DOMAIN sections : sections[j].seg = s =>
              \A b \in 1 .. sections[j].size :
                /\ sections[j].offs + b \in 1 .. segSize[s]
                /\ Contents(s)[sections[j].offs + b] = j
<1> DEFINE n       == segSize[s]
           here(k) == {i \in DOMAIN sections :
                         /\ sections[i].seg = s /\ k > sections[i].offs
                         /\ k <= sections[i].offs + sections[i].size}
<1>1. /\ n \in Nat
      /\ DOMAIN sections \subseteq Nat
      /\ \A j \in DOMAIN sections : sections[j].offs \in Nat
                                   /\ sections[j].size \in Nat
  BY DEF SectionsOK, SectionsApart
<1>2. Contents(s) = [k \in 1 .. n |-> IF here(k) = {} THEN Fill
                                      ELSE CHOOSE i \in here(k) : TRUE]
  BY DEF Contents
<1>3. \A k \in 1 .. n : Contents(s)[k] = IF here(k) = {} THEN Fill
                                      ELSE CHOOSE i \in here(k) : TRUE
  BY <1>2
<1>4. Contents(s) = [k \in 1 .. n |-> Contents(s)[k]]
  BY <1>2
<1>5. ASSUME NEW k \in 1 .. n  PROVE Contents(s)[k] \in Nat
  <2>1. CASE here(k) = {}
    BY <1>3, <2>1 DEF Fill
  <2>2. CASE here(k) # {}
    <3>1. (CHOOSE i \in here(k) : TRUE) \in here(k)
      BY <2>2
    <3> QED  BY <1>1, <1>3, <2>2, <3>1
  <2> QED  BY <2>1, <2>2
<1>6. Contents(s) \in Seq(Nat) /\ Len(Contents(s)) = n
  BY <1>1, <1>4, <1>5, MarksAreSeq
<1>7. ASSUME NEW j \in DOMAIN sections, sections[j].seg = s,
             NEW b \in 1 .. sections[j].size
      PROVE  /\ sections[j].offs + b \in 1 .. n
             /\ Contents(s)[sections[j].offs + b] = j
  <2> DEFINE k == sections[j].offs + b
  <2>1. sections[j].offs + sections[j].size <= n
    BY <1>7 DEF SectionsApart
  <2>2. k \in 1 .. n /\ k > sections[j].offs
          /\ k <= sections[j].offs + sections[j].size
    BY <1>1, <2>1
  <2>3. here(k) = {j}
    <3>1. j \in here(k)
      BY <1>7, <2>2
    <3>2. ASSUME NEW i \in here(k)  PROVE i = j
      <4>1. /\ i \in DOMAIN sections /\ sections[i].seg = s
            /\ k > sections[i].offs /\ k <= sections[i].offs + sections[i].size
        OBVIOUS
      <4> HIDE DEF k, here
      <4>2. k \in Nat /\ i \in Nat /\ j \in Nat
        BY <1>1, <2>2, <4>1
      <4>3. ~(i < j)
        <5>1. SUFFICES ASSUME i < j  PROVE FALSE
          OBVIOUS
        <5>2. sections[i].offs + sections[i].size <= sections[j].offs
          BY <1>7, <4>1, <5>1 DEF SectionsApart
        <5> QED  BY <1>1, <2>2, <4>1, <4>2, <5>2
      <4>4. ~(j < i)
        <5>1. SUFFICES ASSUME j < i  PROVE FALSE
          OBVIOUS
        <5>2. sections[j].offs + sections[j].size <= sections[i].offs
          BY <1>7, <4>1, <5>1 DEF SectionsApart
        <5> QED  BY <1>1, <2>2, <4>1, <4>2, <5>2
      <4> QED  BY <4>2, <4>3, <4>4
    <3> QED  BY <3>1, <3>2
  <2>4. Contents(s)[k] = CHOOSE i \in here(k) : TRUE
    BY <1>3, <2>2, <2>3
  <2> HIDE DEF here, k
  <2>5. Contents(s)[k] = j
    BY <2>3, <2>4
  <2> QED  BY <2>2, <2>5 DEF k
<1> QED
  BY <1>1, <1>6, <1>7

-----------------------------------------------------------------------------
(* What no step of the writing changes                                     *)
LEMMA NothingWrittenMoves ==
  ASSUME job \in Jobs, SectionsOK, AddressesOK, Placed,
         UNCHANGED <<job, segments, pc, loadAddr, fileOffs>>
  PROVE  /\ \A n \in DOMAIN job.areas : \A i : PriorFit(n, i)
         /\ \A n : SegList(n)' = SegList(n) /\ Area(n)' = Area(n)
                   /\ IsImage(n)' = IsImage(n)
         /\ AllAccounted' = AllAccounted /\ InNoList' = InNoList
         /\ AllAccounted => \A n : /\ Outs(n)' = Outs(n)
                                   /\ \A v :
                                        FileBefore(n, v)' = FileBefore(n, v)
         /\ \A n \in DOMAIN job.areas : \A i \in Nat : Accounted(n) =>
              \A v : Taken(n, i, v)' = Taken(n, i, v)
<1>1. ASSUME NEW n \in DOMAIN job.areas, NEW i  PROVE PriorFit(n, i)
  BY PriorIsFinite DEF PriorFit, Placed
<1>2. \A n, l : EndIn(job.segs[l], n)' = EndIn(job.segs[l], n)
  BY NothingMovesMore
<1>3. ASSUME AllAccounted, NEW n
      PROVE  Outs(n)' = Outs(n) /\ \A v : FileBefore(n, v)' = FileBefore(n, v)
  <2>1. \A q \in Outs(n) :
          /\ PriorFit(q, InNoList) /\ Accounted(q)
          /\ fileOffs'[q] = fileOffs[q]
          /\ \A l \in SegList(q) :
               EndIn(job.segs[l], q)' = EndIn(job.segs[l], q)
    BY <1>1, <1>2, <1>3 DEF Outs, AllAccounted
  <2> QED  BY <2>1, FileBeforeStays
<1>4. ASSUME NEW n \in DOMAIN job.areas, NEW i \in Nat, Accounted(n)
      PROVE  \A v : Taken(n, i, v)' = Taken(n, i, v)
  BY <1>1, <1>2, <1>4, TakenStays
<1> QED
  BY <1>1, <1>3, <1>4, SameAreas

(* The layout stays, as BinWriteMem changes only the fill levels.          *)
LEMMA StillLaidOut ==
  ASSUME job \in Jobs, SectionsOK, Placed, AllLaidOut,
         UNCHANGED <<job, segments, pc, loadAddr, fileOffs>>,
         fillLevel' \in [DOMAIN job.areas -> Nat],
         \A n \in DOMAIN job.areas :
           (n >= walk'.list \/ ~Area(n).fill) =>
             /\ n >= walk.list \/ ~Area(n).fill
             /\ fillLevel'[n] = fillLevel[n]
  PROVE  AllLaidOut'
<1>1. /\ \A n : SegList(n)' = SegList(n) /\ Area(n)' = Area(n)
      /\ AllAccounted' = AllAccounted /\ InNoList' = InNoList
      /\ AllAccounted => \A n : \A v : FileBefore(n, v)' = FileBefore(n, v)
  BY NothingWrittenMoves DEF AllLaidOut
<1>2. \A n, l : LaidOut(n, l)' = LaidOut(n, l)
  BY NothingMovesMore
<1>3. ASSUME NEW n \in DOMAIN job.areas, n >= walk'.list \/ ~Area(n).fill
      PROVE  IsLevel(n, InNoList, fillLevel[n])'
  <2>1. PICK i, v : i = InNoList /\ v = fillLevel[n] /\ v = fillLevel'[n]
    BY <1>3
  <2>2. IsLevel(n, i, v)
    BY <1>3, <2>1 DEF AllLaidOut
  <2>3. IsLevel(n, i, v)'
    BY <2>2, NothingMovesMore
  <2> QED  BY <1>1, <2>1, <2>3
<1>4. ASSUME AllAccounted, NEW n \in DOMAIN job.areas, Area(n).out
      PROVE  FileBefore(n, fileOffs[n])'
  <2>1. PICK v : v = fileOffs[n] /\ v = fileOffs'[n]
    OBVIOUS
  <2>2. FileBefore(n, v)
    BY <1>4, <2>1 DEF AllLaidOut
  <2>3. FileBefore(n, v)'
    BY <1>1, <1>4, <2>2
  <2> QED  BY <2>1, <2>3
<1>5. AddressesOK'
  BY DEF AllLaidOut, AddressesOK
<1> QED
  BY <1>1, <1>2, <1>3, <1>4, <1>5 DEF AllLaidOut

(* Sections stay where they are in a file that keeps what it has.          *)
LEMMA CoveredStays ==
  ASSUME job \in Jobs, UNCHANGED <<job, segments, pc, loadAddr>>, NEW n, NEW l,
                                   NEW i
  PROVE  \A a : CoveredUpTo(n, l, i, a)' = CoveredUpTo(n, l, i, a)
<1>1. /\ Prior(n, i)' = Prior(n, i)
      /\ \A j : /\ AddrIn(job.segs[j], n)' = AddrIn(job.segs[j], n)
                /\ EndIn(job.segs[j], n)' = EndIn(job.segs[j], n)
  BY NothingMovesMore
<1> QED
  BY <1>1 DEF CoveredUpTo

(* A section stays in the file when the file is not changed up to there.   *)
LEMMA InFileStays ==
  ASSUME job \in Jobs, UNCHANGED <<job, segments, pc, loadAddr, fileOffs>>,
         NEW n, NEW l, NEW i, InFileAt(n, l, i),
         NEW q \in Nat, Kept(n) = q, NEW r \in Nat, Kept(n)' = r, q <= r,
         \A p \in 1 .. q : file'[p] = file[p]
  PROVE  InFileAt(n, l, i)'
<1> DEFINE S == job.segs[l]
<1>1. \A a : CoveredUpTo(n, l, i, a)' = CoveredUpTo(n, l, i, a)
  BY CoveredStays
<1>2. AddrIn(S, n)' = AddrIn(S, n) /\ sections' = sections
      /\ fileOffs' = fileOffs /\ job' = job /\ Area(n)' = Area(n)
  BY NothingMovesMore DEF segments, Area
<1> SUFFICES ASSUME ~S.bss, NEW j \in DOMAIN sections, sections[j].seg = S.seg,
                    NEW b \in 1 .. sections[j].size
             PROVE  LET a == AddrIn(S, n) + sections[j].offs + b - 1
                        p == fileOffs[n] + a - Area(n).start + 1
                    IN  /\ p \in 1 .. r
                        /\ CoveredUpTo(n, l, i, a) \/ file'[p] = j
  BY <1>1, <1>2 DEF InFileAt
<1>3. PICK a, p : /\ a = AddrIn(S, n) + sections[j].offs + b - 1
                  /\ p = fileOffs[n] + a - Area(n).start + 1
  OBVIOUS
<1>4. /\ p \in 1 .. q
      /\ CoveredUpTo(n, l, i, a) \/ file[p] = j
  BY <1>3 DEF InFileAt
<1>5. p \in 1 .. r
  BY <1>4
<1> QED
  BY <1>3, <1>4, <1>5

(* What BinWriteMem fills up with and then writes                          *)
LEMMA FilledAndPut ==
  ASSUME NEW f \in Seq(Nat), NEW at \in Nat, NEW x \in Nat,
         NEW begin \in Nat, NEW marks \in Seq(Nat)
  PROVE  LET after == Put(Put(f, at, Filling(x)), begin, marks)
         IN  /\ after \in Seq(Nat)
             /\ Len(f) \in Nat /\ Len(marks) \in Nat /\ Len(after) \in Nat
             /\ Len(after) >= Len(f) /\ Len(after) >= begin + Len(marks)
             /\ \A b \in 1 .. Len(marks) : after[begin + b] = marks[b]
             /\ (at = Len(f) /\ (x = 0 \/ begin = Len(f) + x)) =>
                  /\ Len(after) = IF Len(f) >= begin + Len(marks) THEN Len(f)
                                  ELSE begin + Len(marks)
                  /\ \A q \in 1 .. Len(f) :
                       (q <= begin \/ q > begin + Len(marks)) =>
                         after[q] = f[q]
<1> DEFINE after == Put(Put(f, at, Filling(x)), begin, marks)
<1>0. PICK fill : fill = Filling(x) /\ fill \in Seq(Nat) /\ Len(fill) = x
  BY FillingIs
<1>1. PICK g : g = Put(f, at, fill)
  OBVIOUS
<1>2. /\ g \in Seq(Nat) /\ Len(f) \in Nat
      /\ Len(g) = IF Len(f) >= at + x THEN Len(f) ELSE at + x
      /\ \A q \in 1 .. Len(f) : (q <= at \/ q > at + x) => g[q] = f[q]
  <2>0. fill \in Seq(Nat)
    BY <1>0
  <2>1. /\ g \in Seq(Nat) /\ Len(f) \in Nat
        /\ Len(g) = IF Len(f) >= at + Len(fill) THEN Len(f)
                    ELSE at + Len(fill)
        /\ \A q \in 1 .. Len(f) :
             (q <= at \/ q > at + Len(fill)) => g[q] = f[q]
    <3>1. /\ Put(f, at, fill) \in Seq(Nat)
          /\ Len(f) \in Nat /\ Len(fill) \in Nat
          /\ Len(Put(f, at, fill)) =
               IF Len(f) >= at + Len(fill) THEN Len(f) ELSE at + Len(fill)
          /\ \A q \in 1 .. Len(f) : (q <= at \/ q > at + Len(fill)) =>
               Put(f, at, fill)[q] = f[q]
      BY <2>0, PutIs
    <3> QED  BY <1>1, <3>1
  <2> QED  BY <1>0, <2>1
<1>3. /\ after \in Seq(Nat) /\ Len(g) \in Nat /\ Len(marks) \in Nat
      /\ Len(after) = IF Len(g) >= begin + Len(marks) THEN Len(g)
                      ELSE begin + Len(marks)
      /\ \A q \in 1 .. Len(g) : (q <= begin \/ q > begin + Len(marks)) =>
           after[q] = g[q]
      /\ \A b \in 1 .. Len(marks) : after[begin + b] = marks[b]
  <2>1. after = Put(g, begin, marks)
    BY <1>0, <1>1
  <2> HIDE DEF after
  <2>2. g \in Seq(Nat)
    BY <1>2
  <2>3. /\ Put(g, begin, marks) \in Seq(Nat)
        /\ Len(g) \in Nat /\ Len(marks) \in Nat
        /\ Len(Put(g, begin, marks)) =
             IF Len(g) >= begin + Len(marks) THEN Len(g)
             ELSE begin + Len(marks)
        /\ \A q \in 1 .. Len(g) : (q <= begin \/ q > begin + Len(marks)) =>
             Put(g, begin, marks)[q] = g[q]
        /\ \A b \in 1 .. Len(marks) :
             Put(g, begin, marks)[begin + b] = marks[b]
    BY <2>2, PutIs
  <2> QED  BY <2>1, <2>3
<1> HIDE DEF after
<1>4. Len(after) \in Nat /\ Len(after) >= Len(f)
      /\ Len(after) >= begin + Len(marks)
  BY <1>2, <1>3
<1>5. ASSUME at = Len(f), x = 0 \/ begin = Len(f) + x
      PROVE  /\ Len(after) = IF Len(f) >= begin + Len(marks) THEN Len(f)
                             ELSE begin + Len(marks)
             /\ \A q \in 1 .. Len(f) :
                  (q <= begin \/ q > begin + Len(marks)) => after[q] = f[q]
  <2>1. Len(g) = Len(f) + x
    BY <1>2, <1>5
  <2>2. Len(after) = IF Len(f) >= begin + Len(marks) THEN Len(f)
                     ELSE begin + Len(marks)
    <3>1. CASE x = 0
      BY <1>3, <2>1, <3>1, <1>2
    <3>2. CASE begin = Len(f) + x
      BY <1>2, <1>3, <2>1, <3>2
    <3> QED  BY <1>5, <3>1, <3>2
  <2>3. ASSUME NEW q \in 1 .. Len(f), q <= begin \/ q > begin + Len(marks)
        PROVE  after[q] = f[q]
    <3>1. q \in 1 .. Len(g) /\ q <= at
      BY <1>2, <1>5, <2>1
    <3> QED  BY <1>2, <1>3, <2>3, <3>1
  <2> QED  BY <2>2, <2>3
<1> QED
  BY <1>2, <1>3, <1>4, <1>5 DEF after

-----------------------------------------------------------------------------
(* BinWriteMem begins with an area ...                                     *)
LEMMA WritingStarts ==
  ASSUME job \in Jobs, SectionsOK, Placed, AllLaidOut, Writing,
         StartWriting, stage' = "write"
  PROVE  AllLaidOut' /\ Writing'
<1>1. PICK m : m = walk.list
  OBVIOUS
<1>2. /\ UNCHANGED <<job, segments, pc, loadAddr, fillLevel, fileOffs,
                     written>>
      /\ walk.item = 0 /\ m <= Len(job.areas)
      /\ walk'.list = m /\ walk'.item = After(m, 0)
      /\ walk'.addr = Area(m).start /\ walk'.overwrites = 0
      /\ Area(m).out => pos = fileOffs[m]
  BY <1>1 DEF StartWriting, Begins, FirstItem, Fail, placed, InvalidFileOffset
<1>3. UNCHANGED <<file, pos, dumped>>
  BY <1>2 DEF written
<1>4. /\ AddressesOK /\ WalkOK /\ DumpedOK /\ FileOK
      /\ fillLevel \in [DOMAIN job.areas -> Nat]
  BY DEF AllLaidOut, Writing
<1>5. m \in DOMAIN job.areas /\ m \in Nat \ {0} /\ Area(m).start \in Nat
  BY <1>1, <1>2, <1>4, Configured DEF WalkOK
<1>6. PICK i \in Nat : i = After(m, 0)
  BY NextIs
<1>7. i \in SegList(m) \union {InNoList} /\ i > 0 /\ Prior(m, i) = {}
  BY <1>6, NextIs
<1>8. /\ \A n : SegList(n)' = SegList(n) /\ Area(n)' = Area(n)
                /\ IsImage(n)' = IsImage(n)
      /\ AllAccounted' = AllAccounted /\ InNoList' = InNoList
      /\ AllAccounted => \A n : \A v : FileBefore(n, v)' = FileBefore(n, v)
  BY <1>2, <1>4, NothingWrittenMoves
<1>9. AllLaidOut'
  BY <1>1, <1>2, <1>4, StillLaidOut
<1>10. Prior(m, i)' = {} /\ Reached(m, i)' = Area(m).start
  <2>1. Prior(m, i)' = {}
    BY <1>2, <1>7, NothingMovesMore
  <2> QED  BY <1>8, <2>1 DEF Reached
<1>11. WalkOK' /\ AtNext' /\ FileOK'
  <2>1. WalkOK'
    BY <1>2, <1>5, <1>6 DEF WalkOK
  <2>2. AtNext'
    BY <1>2, <1>6, <1>7, <1>8, <1>10 DEF AtNext
  <2> QED  BY <1>3, <1>4, <2>1, <2>2 DEF FileOK
<1>12. ASSUME NEW n \in DOMAIN job.areas, NEW l \in SegList(n)
       PROVE  Done(n, l)' = Done(n, l)
  <2>1. l \in Nat /\ n \in Nat
    BY ListOfNumbers, Configured
  <2>2. n = m => ~(l < i) /\ ~(l < 0)
    BY <1>7, <2>1 DEF Prior
  <2> QED  BY <1>1, <1>2, <1>6, <2>2 DEF Done
<1>13. DumpedOK'
  BY <1>2, <1>3, <1>4, <1>8, <1>12 DEF DumpedOK
<1>14. ASSUME AllAccounted
       PROVE  pos' = Len(file') /\ SizeAt(pos)' /\ ImagesOK'
  <2>1. pos = Len(file) /\ SizeAt(pos) /\ ImagesOK /\ pos \in Nat
    BY <1>4, <1>14 DEF Writing, FileOK
  <2>2. (InOut' <=> Area(m).out) /\ ~InOut
    <3>1. i # 0 /\ Area(m)' = Area(m)
      BY <1>6, <1>7, <1>8
    <3>2. ~InOut
      BY <1>2 DEF InOut
    <3>3. InOut' <=> Area(m)'.out
      BY <1>2, <1>6, <3>1 DEF InOut
    <3> QED  BY <3>1, <3>2, <3>3
  <2>3. SizeAt(pos)'
    <3>1. CASE Area(m).out
      <4>1. pos' - fileOffs'[m] = 0
        BY <1>2, <1>3, <2>1, <3>1
      <4>2. Taken(m, i, 0)'
        BY <1>10, NothingTakenYet
      <4> QED  BY <1>2, <1>6, <2>2, <3>1, <4>1, <4>2 DEF SizeAt
    <3>2. CASE ~Area(m).out
      <4>1. PICK v : v = pos /\ v = pos'
        BY <1>3
      <4>2. FileBefore(m, v)
        BY <1>1, <2>1, <2>2, <4>1 DEF SizeAt
      <4>3. FileBefore(m, v)'
        BY <1>8, <1>14, <4>2
      <4> QED  BY <1>2, <2>2, <3>2, <4>1, <4>3 DEF SizeAt
    <3> QED  BY <3>1, <3>2
  <2>4. ImagesOK'
    <3> SUFFICES ASSUME NEW n \in DOMAIN job.areas, Area(n).out, IsImage(n),
                        NEW l \in SegList(n), Done(n, l)'
                 PROVE  InFileAt(n, l, UpTo(n))'
      BY <1>2, <1>8 DEF ImagesOK
    <3>1. Done(n, l) /\ n \in Nat /\ l \in Nat
      BY <1>12, ListOfNumbers, Configured
    <3>2. n < m
      BY <1>1, <1>2, <3>1 DEF Done
    <3>3. PICK j : j = UpTo(n)
      OBVIOUS
    <3>4. UpTo(n)' = j
      BY <1>1, <1>2, <1>8, <3>2, <3>3 DEF UpTo
    <3>5. InFileAt(n, l, j)
      BY <2>1, <3>1, <3>3 DEF ImagesOK
    <3>6. Kept(n) = pos /\ Kept(n)' = pos
      BY <1>2, <1>3, <2>2, <3>1, <3>2 DEF Kept
    <3>7. InFileAt(n, l, j)'
      <4>1. PICK q \in Nat : q = pos
        BY <2>1
      <4> QED  BY <1>2, <1>3, <3>5, <3>6, <4>1, InFileStays
    <3> QED  BY <3>4, <3>7
  <2> QED  BY <1>3, <2>1, <2>3, <2>4
<1>15. Writing'
  BY <1>8, <1>11, <1>13, <1>14 DEF Writing
<1> QED
  BY <1>9, <1>15

(* An area that is to begin elsewhere is one of those that are not         *)
(* accounted for.                                                          *)
LEMMA OffsetsAgree ==
  ASSUME job \in Jobs, SectionsOK, Placed, AllLaidOut, Writing,
         Begins("write"), AllAccounted
  PROVE  ~InvalidFileOffset
<1>1. PICK m : m = walk.list
  OBVIOUS
<1>2. /\ AddressesOK /\ WalkOK /\ FileOK /\ SizeAt(pos)
      /\ fileOffs \in [DOMAIN job.areas -> Nat]
  BY DEF AllLaidOut, Writing
<1>3. m \in DOMAIN job.areas
  BY <1>1, <1>2, Configured DEF WalkOK, Begins
<1>4. ~InOut
  BY DEF InOut, Begins
<1>5. PICK v \in Int, w \in Int : v = pos /\ w = fileOffs[m]
  BY <1>2, <1>3 DEF FileOK
<1>6. ASSUME Area(m).out  PROVE v = w
  <2>1. FileBefore(m, v)
    BY <1>1, <1>2, <1>4, <1>5 DEF SizeAt
  <2>2. FileBefore(m, w)
    BY <1>3, <1>5, <1>6 DEF AllLaidOut
  <2>3. \A n \in Outs(m) : PriorFit(n, InNoList)
    BY PriorIsFinite DEF PriorFit, Placed, Outs
  <2> QED  BY <1>2, <2>1, <2>2, <2>3, FileBeforeIsOne
<1> QED
  BY <1>1, <1>5, <1>6 DEF InvalidFileOffset

(* ... and ends with it.                                                   *)
LEMMA WritingEnds ==
  ASSUME job \in Jobs, SectionsOK, Placed, AllLaidOut, Writing, EndWriting
  PROVE  AllLaidOut' /\ Writing'
<1>1. PICK m, i : m = walk.list /\ i = InNoList
  OBVIOUS
<1>2. /\ UNCHANGED <<job, segments, pc, loadAddr, fileOffs, dumped>>
      /\ walk.item = i /\ m <= Len(job.areas)
      /\ walk'.list = m + 1 /\ walk'.item = 0
      /\ walk'.addr = 0 /\ walk'.overwrites = 0
  BY <1>1 DEF EndWriting, Ends, WalkAt, placed, linkVars
<1>3. /\ AddressesOK /\ WalkOK /\ DumpedOK /\ FileOK
      /\ fillLevel \in [DOMAIN job.areas -> Nat]
      /\ fileOffs \in [DOMAIN job.areas -> Nat]
  BY DEF AllLaidOut, Writing
<1>4. /\ m \in DOMAIN job.areas /\ m \in Nat \ {0} /\ Area(m).size \in Nat
      /\ Len(job.segs) \in Nat /\ i = Len(job.segs) + 1
  BY <1>1, <1>2, <1>3, Configured DEF WalkOK, InNoList
<1>5. PriorFit(m, i) /\ IsLevel(m, i, fillLevel[m])
      /\ fillLevel[m] \in 0 .. Area(m).size
  <2>1. PriorFit(m, i)
    BY <1>3, <1>4, NothingWrittenMoves, PriorIsFinite DEF PriorFit, Placed
  <2>2. IsLevel(m, i, fillLevel[m])
    BY <1>1, <1>4 DEF AllLaidOut
  <2> QED  BY <1>3, <1>4, <2>1, <2>2, LevelInArea
<1>6. PICK rest \in Nat :
         rest = IF Area(m).out /\ Area(m).fill
                THEN Area(m).size - fillLevel[m] ELSE 0
  <2>1. Area(m).size - fillLevel[m] \in Nat
    BY <1>4, <1>5
  <2> QED  BY <2>1
<1>7. /\ file' \in Seq(Nat) /\ Len(file) \in Nat /\ Len(file') \in Nat
      /\ pos \in Nat /\ pos' = pos + rest /\ pos' <= Len(file')
      /\ pos = Len(file) =>
           /\ Len(file') = pos'
           /\ \A p \in 1 .. pos : file'[p] = file[p]
  <2>1. /\ file \in Seq(Nat) /\ Len(file) \in Nat /\ pos \in Nat
        /\ pos <= Len(file)
    BY <1>3, LenProperties DEF FileOK
  <2>2. CASE Area(m).out /\ Area(m).fill /\ fillLevel[m] < Area(m).size
    <3>1. PICK fill : fill = Filling(rest) /\ fill \in Seq(Nat)
                      /\ Len(fill) = rest
      BY FillingIs
    <3>2. file' = Put(file, pos, fill) /\ pos' = pos + rest
      BY <1>1, <1>6, <2>2, <3>1 DEF EndWriting
    <3>3. fill \in Seq(Nat)
      BY <3>1
    <3>4. /\ Put(file, pos, fill) \in Seq(Nat)
          /\ Len(Put(file, pos, fill)) =
               IF Len(file) >= pos + Len(fill) THEN Len(file)
               ELSE pos + Len(fill)
          /\ \A q \in 1 .. Len(file) : (q <= pos \/ q > pos + Len(fill)) =>
               Put(file, pos, fill)[q] = file[q]
      BY <2>1, <3>3, PutIs
    <3>5. /\ Len(file') = IF Len(file) >= pos + rest THEN Len(file)
                          ELSE pos + rest
          /\ file' \in Seq(Nat)
          /\ \A q \in 1 .. Len(file) : q <= pos => file'[q] = file[q]
      BY <3>1, <3>2, <3>4
    <3> QED  BY <2>1, <3>2, <3>5
  <2>3. CASE ~(Area(m).out /\ Area(m).fill /\ fillLevel[m] < Area(m).size)
    <3>1. UNCHANGED <<file, pos>>
      BY <1>1, <2>3 DEF EndWriting
    <3>2. rest = 0
      BY <1>4, <1>5, <1>6, <2>3
    <3> QED  BY <2>1, <3>1, <3>2
  <2> QED  BY <2>2, <2>3
<1>8. /\ fillLevel' \in [DOMAIN job.areas -> Nat]
      /\ \A n \in DOMAIN job.areas :
           (n # m \/ ~Area(n).fill) => fillLevel'[n] = fillLevel[n]
  BY <1>1, <1>3, <1>4 DEF EndWriting
<1>9. /\ \A n : SegList(n)' = SegList(n) /\ Area(n)' = Area(n)
                /\ IsImage(n)' = IsImage(n)
      /\ AllAccounted' = AllAccounted /\ InNoList' = InNoList
      /\ AllAccounted => \A n : /\ Outs(n)' = Outs(n)
                                /\ \A v : FileBefore(n, v)' = FileBefore(n, v)
      /\ Accounted(m) => \A v : Taken(m, i, v)' = Taken(m, i, v)
  BY <1>2, <1>3, <1>4, NothingWrittenMoves
<1>10. AllLaidOut'
  <2>1. \A n \in DOMAIN job.areas :
          (n >= walk'.list \/ ~Area(n).fill) =>
            /\ n >= walk.list \/ ~Area(n).fill
            /\ fillLevel'[n] = fillLevel[n]
    <3> SUFFICES ASSUME NEW n \in DOMAIN job.areas,
                        n >= walk'.list \/ ~Area(n).fill
                 PROVE  /\ n >= walk.list \/ ~Area(n).fill
                        /\ fillLevel'[n] = fillLevel[n]
      OBVIOUS
    <3>1. n \in Nat
      BY Configured
    <3> QED  BY <1>1, <1>2, <1>4, <1>8, <3>1
  <2> QED  BY <1>2, <1>8, <2>1, StillLaidOut
<1>11. WalkOK' /\ AtNext' /\ FileOK' /\ ~InOut'
  BY <1>2, <1>4, <1>7 DEF WalkOK, AtNext, FileOK, InOut
<1>12. ASSUME NEW n \in DOMAIN job.areas, NEW l \in SegList(n)
       PROVE  Done(n, l)' = Done(n, l)
  <2>1. l \in 1 .. Len(job.segs) /\ n \in Nat
    BY ListOfNumbers, Configured
  <2> QED  BY <1>1, <1>2, <1>4, <2>1 DEF Done
<1>13. DumpedOK'
  BY <1>2, <1>3, <1>9, <1>12 DEF DumpedOK
<1>14. ASSUME AllAccounted
       PROVE  pos' = Len(file') /\ SizeAt(pos)' /\ ImagesOK'
  <2>1. pos = Len(file) /\ SizeAt(pos) /\ ImagesOK
    BY <1>14 DEF Writing
  <2>2. Area(m).out => InOut
    BY <1>1, <1>2, <1>4 DEF InOut
  <2>3. Area(m).out => fileOffs[m] \in Nat /\ fileOffs[m] <= pos
    <3> SUFFICES ASSUME Area(m).out
                 PROVE  fileOffs[m] \in Nat /\ fileOffs[m] <= pos
      OBVIOUS
    <3>1. PICK v \in Int : v = pos - fileOffs[m]
      BY <1>3, <1>4, <1>7
    <3>2. Taken(m, i, v) /\ Accounted(m)
      BY <1>1, <1>2, <1>4, <1>14, <2>1, <2>2, <3>1 DEF SizeAt, AllAccounted
    <3>3. v \in Nat
      BY <1>3, <1>4, <1>5, <3>2, TakenIsNat
    <3> QED  BY <1>3, <1>4, <1>7, <3>1, <3>3
  <2>4. SizeAt(pos)'
    <3>1. CASE Area(m).out
      <4>1. PICK v \in Int : v = pos - fileOffs[m]
        BY <1>3, <1>4, <1>7
      <4>2. Taken(m, i, v) /\ Accounted(m)
        BY <1>1, <1>2, <1>4, <1>14, <2>1, <2>2, <3>1, <4>1
        DEF SizeAt, AllAccounted
      <4>3. PICK w \in Int : w = v + rest /\ w = pos' - fileOffs'[m]
        <5>1. fileOffs[m] \in Nat /\ fileOffs'[m] = fileOffs[m]
          BY <1>2, <1>3, <1>4
        <5>2. (pos + rest) - fileOffs[m] = v + rest /\ v + rest \in Int
          BY <1>6, <1>7, <4>1, <5>1
        <5>3. pos' - fileOffs'[m] = v + rest
          BY <1>7, <5>1, <5>2
        <5> QED  BY <5>2, <5>3
      <4>4. Extent(m, w)'
        <5>1. CASE Area(m).fill
          <6>1. IsLevel(m, i, v)
            BY <4>2, <5>1 DEF Accounted, Taken
          <6>2. v = fillLevel[m]
            BY <1>3, <1>4, <1>5, <6>1, LevelIsOne
          <6>3. w = Area(m).size
            BY <1>4, <1>5, <1>6, <3>1, <4>3, <5>1, <6>2
          <6> QED  BY <1>9, <5>1, <6>3 DEF Extent
        <5>2. CASE ~Area(m).fill
          <6>1. w = v
            BY <1>6, <4>3, <5>2
          <6>2. Taken(m, i, w)'
            BY <1>9, <4>2, <6>1
          <6> QED  BY <1>1, <1>9, <5>2, <6>2 DEF Extent
        <5> QED  BY <5>1, <5>2
      <4>5. Outs(m + 1)' # {} /\ Max(Outs(m + 1)') = m
        <5>1. Outs(m + 1)' = Outs(m + 1)
          BY <1>9, <1>14
        <5> QED  BY <1>4, <3>1, <5>1, OutsOfNext
      <4>6. FileBefore(m + 1, pos)'
        BY <4>3, <4>4, <4>5 DEF FileBefore
      <4> QED  BY <1>2, <1>11, <4>6 DEF SizeAt
    <3>2. CASE ~Area(m).out
      <4>1. PICK v : v = pos /\ v = pos'
        BY <1>6, <1>7, <3>2
      <4>2. FileBefore(m, v)
        BY <1>1, <2>1, <3>2, <4>1 DEF SizeAt, InOut
      <4>3. FileBefore(m, v)'
        BY <1>9, <1>14, <4>2
      <4>4. Outs(m + 1)' = Outs(m)'
        BY <1>4, <1>9, <1>14, <3>2, OutsOfNext
      <4>5. FileBefore(m + 1, v)'
        BY <4>3, <4>4 DEF FileBefore
      <4> QED  BY <1>2, <1>11, <4>1, <4>5 DEF SizeAt
    <3> QED  BY <3>1, <3>2
  <2>5. ImagesOK'
    <3> SUFFICES ASSUME NEW n \in DOMAIN job.areas, Area(n).out, IsImage(n),
                        NEW l \in SegList(n), Done(n, l)'
                 PROVE  InFileAt(n, l, UpTo(n))'
      BY <1>2, <1>9 DEF ImagesOK
    <3>1. Done(n, l) /\ n \in Nat /\ l \in Nat
      BY <1>12, ListOfNumbers, Configured
    <3>2. n < m \/ n = m
      BY <1>1, <3>1 DEF Done
    <3>3. PICK j : j = UpTo(n)
      OBVIOUS
    <3>4. UpTo(n)' = j
      BY <1>1, <1>2, <1>4, <1>9, <3>1, <3>2, <3>3 DEF UpTo
    <3>5. InFileAt(n, l, j)
      BY <2>1, <3>1, <3>3 DEF ImagesOK
    <3>6. PICK q \in Nat : Kept(n) = q /\ q <= pos
      BY <1>1, <1>7, <2>3 DEF Kept, InOut
    <3>7. Kept(n)' = pos' /\ pos' \in Nat /\ q <= pos'
      BY <1>7, <1>11, <3>6 DEF Kept
    <3>8. \A p \in 1 .. q : file'[p] = file[p]
      BY <1>7, <2>1, <3>6
    <3>9. InFileAt(n, l, j)'
      BY <1>2, <3>5, <3>6, <3>7, <3>8, InFileStays
    <3> QED  BY <3>4, <3>9
  <2> QED  BY <1>7, <2>1, <2>4, <2>5
<1>15. Writing'
  BY <1>9, <1>11, <1>13, <1>14 DEF Writing
<1> QED
  BY <1>10, <1>15

-----------------------------------------------------------------------------
(* A segment is written                                                    *)
Dumps(S, m) == ~S.bss /\ S.load = m /\ S.seg \notin dumped
Seeks(S, m) == S.overwrite /\ S.run = m /\ Fixed(S)

BeginOf(S, m, addr) ==
  IF Seeks(S, m) THEN addr - Area(m).start + fileOffs[m]
  ELSE pos + (addr - walk.addr)

WrittenAt(m, k, addr) ==
  /\ m = walk.list /\ k = walk.item /\ addr = NewAddr(job.segs[k], m)
  /\ WriteSegment

(* Both passes find the same address.                                      *)
LEMMA SegmentThere ==
  ASSUME job \in Jobs, SectionsOK, Placed, AllLaidOut, Writing,
         NEW m, NEW k, NEW addr, WrittenAt(m, k, addr)
  PROVE  LET S == job.segs[k]
         IN  /\ m \in DOMAIN job.areas /\ m \in Nat \ {0}
             /\ k \in SegList(m) /\ k \in Nat \ {0} /\ k \in 1 .. Len(job.segs)
             /\ S.seg \in Segs /\ segSize[S.seg] \in Nat
             /\ PriorFit(m, k) /\ Fits(m, k)
             /\ walk.addr = Reached(m, k) /\ walk.addr \in Nat
             /\ addr = AddrIn(S, m) /\ addr \in Nat
             /\ addr + segSize[S.seg] = EndIn(S, m)
             /\ Area(m).start \in Nat /\ addr >= Area(m).start
             /\ S.overwrite /\ S.run = m => Seeks(S, m)
             /\ ~Seeks(S, m) => addr >= walk.addr
             /\ ~S.overwrite =>
                  \A l \in Prior(m, k) : ~job.segs[l].overwrite
<1> DEFINE S == job.segs[k]
<1>1. /\ m = walk.list /\ k = walk.item /\ addr = NewAddr(S, m)
      /\ m <= Len(job.areas) /\ k \in SegList(m)
  BY DEF WrittenAt, WriteSegment, InList
<1>2. WalkOK /\ AtNext /\ AddressesOK /\ LaidOut(m, k)
      /\ m \in DOMAIN job.areas /\ m \in Nat \ {0}
  <2>1. WalkOK /\ AtNext /\ AddressesOK
    BY DEF Writing, AllLaidOut
  <2>2. m \in DOMAIN job.areas /\ m \in Nat \ {0}
    BY <1>1, <2>1, Configured DEF WalkOK
  <2> QED  BY <1>1, <2>1, <2>2 DEF AllLaidOut
<1>3. k \in Nat \ {0} /\ k \in 1 .. Len(job.segs) /\ S.seg \in Segs
      /\ segSize[S.seg] \in Nat
  BY <1>1, ListOfNumbers DEF SectionsOK
<1>4. PriorFit(m, k) /\ Fits(m, k)
  BY <1>1, <1>2, PriorIsFinite DEF PriorFit, Placed
<1>5. walk.addr = Reached(m, k) /\ walk.addr \in Nat
      /\ Area(m).start \in Nat
  BY <1>1, <1>2, <1>3, <1>4, ReachedInArea DEF AtNext
<1>6. addr = AddrIn(S, m)
  BY <1>1, <1>2, <1>5, NewAddrIsLaid DEF LaidOut
<1>7. addr \in Int /\ addr >= Area(m).start /\ addr \in Nat
      /\ addr + segSize[S.seg] = EndIn(S, m)
  <2>1. AddrIn(S, m) \in Int /\ AddrIn(S, m) >= Area(m).start
    BY <1>2, <1>3, <1>4 DEF AddrIn, AddressesOK, Fits
  <2> QED  BY <1>5, <1>6, <2>1 DEF EndIn
<1>8. S.overwrite /\ S.run = m => Seeks(S, m)
  BY <1>2, <1>3, Configured DEF LaidOut, Seeks, Fixed
<1>9. ~S.overwrite => \A l \in Prior(m, k) : ~job.segs[l].overwrite
  BY <1>2 DEF LaidOut
<1>10. ~Seeks(S, m) => addr >= walk.addr
  <2>1. CASE ~S.overwrite
    BY <1>1, <1>2, <1>4, <1>5, <1>6, <2>1, RoomIsNat
  <2>2. CASE S.overwrite /\ S.run # m
    <3>1. addr = IF S.alignLoad > 0 THEN AlignAddr(walk.addr, S.alignLoad)
                 ELSE walk.addr
      BY <1>1, <2>2 DEF NewAddr
    <3>2. S.alignLoad \in Nat
      BY <1>3, Configured
    <3>3. S.alignLoad > 0 => AlignAddr(walk.addr, S.alignLoad) >= walk.addr
      BY <1>5, <3>2, Aligned
    <3> QED  BY <1>5, <3>1, <3>2, <3>3
  <2> QED  BY <1>8, <2>1, <2>2
<1> QED
  BY <1>1, <1>2, <1>3, <1>4, <1>5, <1>6, <1>7, <1>8, <1>9, <1>10

(* What is in the file then                                                *)
LEMMA MarksWritten ==
  ASSUME job \in Jobs, SectionsOK, SectionsApart, Placed, AllLaidOut, Writing,
         NEW m, NEW k, NEW addr, WrittenAt(m, k, addr),
         NEW begin, begin = BeginOf(job.segs[k], m, addr),
         NEW size, size = segSize[job.segs[k].seg]
  PROVE  LET S    == job.segs[k]
             acts == Area(m).out /\ (Dumps(S, m) \/ Area(m).fill)
         IN  /\ file' \in Seq(Nat) /\ pos' \in 0 .. Len(file')
             /\ pos \in Nat /\ begin \in Nat /\ size \in Nat
             /\ ~acts => UNCHANGED <<file, pos>>
             /\ acts /\ pos = Len(file) =>
                  /\ Len(file') = IF pos >= begin + size THEN pos
                                  ELSE begin + size
                  /\ \A q \in 1 .. pos : (q <= begin \/ q > begin + size) =>
                       file'[q] = file[q]
                  /\ Dumps(S, m) => \A b \in 1 .. size :
                       file'[begin + b] = Contents(S.seg)[b]
                  /\ pos' = IF Dumps(S, m) /\ S.overwrite THEN Len(file')
                            ELSE begin + size
<1> DEFINE S      == job.segs[k]
           acts   == Area(m).out /\ (Dumps(S, m) \/ Area(m).fill)
           target == addr - Area(m).start + fileOffs[m]
<1>1. /\ m \in DOMAIN job.areas /\ S.seg \in Segs /\ size \in Nat
      /\ addr \in Nat /\ walk.addr \in Nat /\ Area(m).start \in Nat
      /\ addr >= Area(m).start /\ (~Seeks(S, m) => addr >= walk.addr)
  BY SegmentThere
<1>2. /\ file \in Seq(Nat) /\ Len(file) \in Nat /\ pos \in Nat
      /\ pos <= Len(file) /\ fileOffs[m] \in Nat
  BY <1>1, LenProperties DEF Writing, FileOK, AllLaidOut
<1>3. begin \in Nat /\ target \in Nat
  BY SMTT(30), <1>1, <1>2 DEF BeginOf
<1>4. CASE ~acts
  <2>1. UNCHANGED <<file, pos>>
    BY <1>4 DEF WrittenAt, WriteSegment, Dumps
  <2> QED  BY <1>1, <1>2, <1>3, <1>4, <2>1
<1>5. CASE acts
  <2>1. PICK marks : /\ marks = IF Dumps(S, m) THEN Contents(S.seg)
                                ELSE Filling(size)
                     /\ marks \in Seq(Nat) /\ Len(marks) = size
    <3>1. Contents(S.seg) \in Seq(Nat) /\ Len(Contents(S.seg)) = size
      BY <1>1, ContentsAre
    <3>2. Filling(size) \in Seq(Nat) /\ Len(Filling(size)) = size
      BY <1>1, FillingIs
    <3> QED  BY <3>1, <3>2
  <2>2. PICK x \in Nat, at \in Nat :
          /\ at = Len(file) \/ at = pos
          /\ x = 0 \/ begin = at + x
          /\ at = IF Seeks(S, m) THEN Len(file) ELSE pos
          /\ x = IF Seeks(S, m)
                 THEN IF target > Len(file) THEN target - Len(file) ELSE 0
                 ELSE addr - walk.addr
    <3>1. CASE Seeks(S, m)
      <4>1. begin = target
        BY <3>1 DEF BeginOf
      <4> HIDE DEF target
      <4>2. CASE target > Len(file)
        <5>1. target - Len(file) \in Nat
              /\ begin = Len(file) + (target - Len(file))
          BY <1>2, <1>3, <4>1, <4>2
        <5> QED  BY <1>2, <3>1, <4>2, <5>1
      <4>3. CASE ~(target > Len(file))
        BY <1>2, <3>1, <4>3
      <4> QED  BY <4>2, <4>3
    <3>2. CASE ~Seeks(S, m)
      <4>1. begin = pos + (addr - walk.addr) /\ addr - walk.addr \in Nat
        BY <1>1, <3>2 DEF BeginOf
      <4> QED  BY <1>2, <3>2, <4>1
    <3> QED  BY <3>1, <3>2
  <2>3. file' = Put(Put(file, at, Filling(x)), begin, marks)
    <3>1. m = walk.list /\ k = walk.item /\ addr = NewAddr(S, m)
          /\ WriteSegment
      BY DEF WrittenAt
    <3>2. CASE Seeks(S, m)
      BY <1>5, <2>1, <2>2, <3>1, <3>2, Zenon
      DEF WriteSegment, Dumps, Seeks, BeginOf
    <3>3. CASE ~Seeks(S, m)
      BY <1>5, <2>1, <2>2, <3>1, <3>3, Zenon
      DEF WriteSegment, Dumps, Seeks, BeginOf
    <3> QED  BY <3>2, <3>3
  <2>4. pos' = IF Dumps(S, m) /\ S.overwrite THEN Len(file') ELSE begin + size
    <3>1. m = walk.list /\ k = walk.item /\ addr = NewAddr(S, m)
          /\ WriteSegment
      BY DEF WrittenAt
    <3> QED  BY <1>5, <3>1 DEF WriteSegment, Dumps, Seeks, BeginOf
  <2>5. marks \in Seq(Nat)
    BY <2>1
  <2> HIDE DEF acts, target
  <2>6. /\ file' \in Seq(Nat) /\ Len(file') \in Nat
        /\ Len(file') >= begin + Len(marks)
        /\ \A b \in 1 .. Len(marks) : file'[begin + b] = marks[b]
        /\ (at = Len(file) /\ (x = 0 \/ begin = Len(file) + x)) =>
             /\ Len(file') = IF Len(file) >= begin + Len(marks) THEN Len(file)
                             ELSE begin + Len(marks)
             /\ \A q \in 1 .. Len(file) :
                  (q <= begin \/ q > begin + Len(marks)) => file'[q] = file[q]
    <3>0. PICK f \in Seq(Nat), c \in Nat, mk \in Seq(Nat) :
             f = file /\ c = begin /\ mk = marks
      BY <1>2, <1>3, <2>5
    <3> DEFINE g == Put(Put(f, at, Filling(x)), c, mk)
    <3>1. /\ g \in Seq(Nat) /\ Len(g) \in Nat
          /\ Len(g) >= Len(f) /\ Len(g) >= c + Len(mk)
      BY FilledAndPut
    <3>3. \A b \in 1 .. Len(mk) : g[c + b] = mk[b]
      BY FilledAndPut
    <3>4. (at = Len(f) /\ (x = 0 \/ c = Len(f) + x)) =>
             Len(g) = IF Len(f) >= c + Len(mk) THEN Len(f)
                      ELSE c + Len(mk)
      BY FilledAndPut
    <3>5. (at = Len(f) /\ (x = 0 \/ c = Len(f) + x)) =>
             \A q \in 1 .. Len(f) :
               (q <= c \/ q > c + Len(mk)) => g[q] = f[q]
      BY FilledAndPut
    <3>2. g = file'
      BY <2>3, <3>0
    <3> HIDE DEF g
    <3> QED  BY <3>0, <3>1, <3>2, <3>3, <3>4, <3>5
  <2>7. file' \in Seq(Nat) /\ pos' \in 0 .. Len(file')
    BY <1>1, <1>3, <2>1, <2>4, <2>6
  <2>8. ASSUME pos = Len(file)
        PROVE  /\ Len(file') = IF pos >= begin + size THEN pos
                               ELSE begin + size
               /\ \A q \in 1 .. pos : (q <= begin \/ q > begin + size) =>
                    file'[q] = file[q]
    <3>1. at = Len(file) /\ (x = 0 \/ begin = Len(file) + x)
      BY <2>2, <2>8
    <3> QED  BY <2>1, <2>6, <2>8, <3>1
  <2>9. Dumps(S, m) => \A b \in 1 .. size :
                         file'[begin + b] = Contents(S.seg)[b]
    BY <2>1, <2>6
  <2> QED  BY <1>1, <1>2, <1>3, <1>5, <2>4, <2>7, <2>8, <2>9 DEF acts
<1> QED
  BY <1>4, <1>5

(* What the area takes in the file with the next segment                   *)
LEMMA TakenNext ==
  ASSUME job \in Jobs, SectionsOK, AddressesOK,
         NEW m \in DOMAIN job.areas, NEW k \in SegList(m),
         NEW i \in Nat, i = After(m, k), PriorFit(m, i), Accounted(m),
         NEW end, end = EndIn(job.segs[k], m),
         NEW v \in Int, Taken(m, k, v), NEW w,
         IsImage(m) =>
           w = IF end - Area(m).start > v THEN end - Area(m).start ELSE v,
         ~IsImage(m) =>
           w = IF job.segs[k].load = m /\ ~job.segs[k].bss
               THEN v + (end - Reached(m, k)) ELSE v
  PROVE  Taken(m, i, w)
<1>1. k \in Nat /\ k \in 1 .. Len(job.segs)
  BY ListOfNumbers
<1>2. Prior(m, i) = Prior(m, k) \union {k}
  BY <1>1, NextIs
<1>3. PriorFit(m, k) /\ Area(m).start \in Nat
      /\ end \in Nat /\ end >= Area(m).start
  <2>1. PriorFit(m, k) /\ k \in Prior(m, i)
    BY <1>2 DEF PriorFit
  <2> QED  BY <2>1, ReachedInArea
<1>4. CASE IsImage(m)
  <2>1. IsTop(Tops(m, k), v)
    BY <1>4 DEF Taken, IsLevel
  <2>2. Tops(m, k) \in SUBSET Int
    <3>1. \A l \in Prior(m, k) : EndIn(job.segs[l], m) \in Nat
      BY <1>3, ReachedInArea
    <3> QED  BY <1>3, <3>1 DEF Tops
  <2>3. Tops(m, i) = Tops(m, k) \union {end - Area(m).start}
    BY <1>2 DEF Tops
  <2>4. end - Area(m).start \in Nat
    BY <1>3
  <2>5. IsTop(Tops(m, i), w)
    BY <1>4, <2>1, <2>2, <2>3, <2>4, TopGrows
  <2> QED  BY <1>4, <2>5 DEF Taken, IsLevel
<1>5. CASE ~IsImage(m)
  <2>1. v = SumOf(Room(m), Stored(m, k))
    BY <1>5 DEF Taken
  <2>2. /\ k \notin Stored(m, k) /\ IsFiniteSet(Stored(m, i))
        /\ Stored(m, i) = Stored(m, k) \union
             (IF job.segs[k].load = m /\ ~job.segs[k].bss THEN {k} ELSE {})
    BY NextStored
  <2>3. CASE ~(job.segs[k].load = m /\ ~job.segs[k].bss)
    <3>1. Stored(m, i) = Stored(m, k) /\ w = v
      BY <1>5, <2>2, <2>3
    <3> QED  BY <1>5, <2>1, <3>1 DEF Taken
  <2>4. CASE job.segs[k].load = m /\ ~job.segs[k].bss
    <3>1. \A l \in Stored(m, i) :
            Room(m)[l] \in Nat
            /\ Room(m)[l] = EndIn(job.segs[l], m) - Reached(m, l)
      BY <1>5, RoomsAreNat DEF Stored
    <3>2. k \in Stored(m, i) /\ Stored(m, i) \ {k} = Stored(m, k)
      BY <2>2, <2>4
    <3>3. SumOf(Room(m), Stored(m, i)) =
            Room(m)[k] + SumOf(Room(m), Stored(m, i) \ {k})
      BY <2>2, <3>1, <3>2, SumWithout
    <3>4. Room(m)[k] \in Nat /\ Room(m)[k] = end - Reached(m, k)
      BY <3>1, <3>2
    <3>5. w = v + Room(m)[k]
      BY <1>5, <2>4, <3>4
    <3>6. w = SumOf(Room(m), Stored(m, i))
      <4>1. SumOf(Room(m), Stored(m, i)) = Room(m)[k] + v
        BY <2>1, <3>2, <3>3
      <4>2. PICK r \in Nat : r = Room(m)[k]
        BY <3>4
      <4> QED  BY <3>5, <4>1, <4>2
    <3> QED  BY <1>5, <3>6 DEF Taken
  <2> QED  BY <2>3, <2>4
<1> QED
  BY <1>4, <1>5

(* No segment is written twice.                                            *)
LEMMA DumpedOnce ==
  ASSUME job \in Jobs, DumpedOK, walk.item \in SegList(walk.list),
         job.segs[walk.item].load = walk.list
  PROVE  job.segs[walk.item].seg \notin dumped
<1> SUFFICES ASSUME job.segs[walk.item].seg \in dumped  PROVE FALSE
  OBVIOUS
<1>1. PICK n \in DOMAIN job.areas : \E l \in SegList(n) :
         /\ Done(n, l) /\ job.segs[l].load = n
         /\ job.segs[l].seg = job.segs[walk.item].seg
  BY DEF DumpedOK
<1>2. PICK l \in SegList(n) :
         /\ Done(n, l) /\ job.segs[l].load = n
         /\ job.segs[l].seg = job.segs[walk.item].seg
  BY <1>1
<1>3. l \in 1 .. Len(job.segs) /\ walk.item \in 1 .. Len(job.segs)
      /\ Len(job.segs) \in Nat /\ n \in Nat
  BY ListOfNumbers, Configured
<1>4. l = walk.item /\ n = walk.list
  BY <1>2, <1>3, Configured
<1> QED
  BY <1>2, <1>3, <1>4 DEF Done

(* In an area that comes out as its image a segment goes where its address *)
(* says.                                                                   *)
LEMMA BeginsAtAddress ==
  ASSUME job \in Jobs, SectionsOK, Placed, AllLaidOut, Writing,
         NEW m, NEW k, NEW addr, WrittenAt(m, k, addr),
         NEW begin, begin = BeginOf(job.segs[k], m, addr),
         NEW v \in Int, v = pos - fileOffs[m], Taken(m, k, v), IsImage(m)
  PROVE  /\ begin = fileOffs[m] + (addr - Area(m).start)
         /\ ~job.segs[k].overwrite => begin >= pos
<1> DEFINE S == job.segs[k]
<1>1. /\ m \in DOMAIN job.areas /\ k \in SegList(m) /\ PriorFit(m, k)
      /\ walk.addr = Reached(m, k) /\ walk.addr \in Nat
      /\ addr \in Nat /\ Area(m).start \in Nat /\ AddressesOK
      /\ pos \in Nat /\ fileOffs[m] \in Nat
  <2>1. /\ m \in DOMAIN job.areas /\ k \in SegList(m) /\ PriorFit(m, k)
        /\ walk.addr = Reached(m, k) /\ walk.addr \in Nat
        /\ addr \in Nat /\ Area(m).start \in Nat
    BY SegmentThere
  <2> QED  BY <2>1, LenProperties DEF AllLaidOut, Writing, FileOK
<1>2. CASE Seeks(S, m)
  <2>1. begin = addr - Area(m).start + fileOffs[m]
    BY <1>2 DEF BeginOf
  <2>2. S.overwrite
    BY <1>2 DEF Seeks
  <2> QED  BY <1>1, <2>1, <2>2
<1>3. CASE ~Seeks(S, m)
  <2>1. ~S.overwrite
    <3>1. S.overwrite => S.run = m
      BY <1>1 DEF IsImage
    <3> QED  BY <1>3, <3>1, SegmentThere
  <2>2. \A l \in Prior(m, k) : ~job.segs[l].overwrite
    BY <2>1, SegmentThere
  <2>3. addr >= walk.addr
    BY <1>3, SegmentThere
  <2>4. IsLevel(m, k, v)
    BY DEF Taken
  <2>5. walk.addr = Area(m).start + v
    BY <1>1, <2>2, <2>4, LevelIsReached
  <2>6. begin = pos + (addr - walk.addr)
    BY <1>3 DEF BeginOf
  <2> QED  BY <1>1, <2>3, <2>5, <2>6
<1> QED
  BY <1>2, <1>3

(* The file goes on behind what is there to stay, and is as long as what   *)
(* the area takes.                                                         *)
LEMMA SegmentGrows ==
  ASSUME job \in Jobs, SectionsOK, SectionsApart, Placed, AllLaidOut, Writing,
         NEW m, NEW k, NEW addr, WrittenAt(m, k, addr),
         NEW begin, begin = BeginOf(job.segs[k], m, addr),
         NEW i \in Nat, i = After(m, k), AllAccounted, Area(m).out
  PROVE  /\ pos' = Len(file') /\ pos' \in Nat /\ fileOffs[m] <= pos
         /\ begin >= fileOffs[m] /\ pos' >= pos
         /\ Taken(m, i, pos' - fileOffs[m])
         /\ \A q \in 1 .. pos :
              (q <= begin \/ q > begin + segSize[job.segs[k].seg]) =>
                file'[q] = file[q]
<1> DEFINE S     == job.segs[k]
           start == Area(m).start
<1>1. PICK size : size = segSize[S.seg]
  OBVIOUS
<1>2. /\ m \in DOMAIN job.areas /\ m \in Nat \ {0}
      /\ k \in SegList(m) /\ k \in Nat \ {0} /\ PriorFit(m, k)
      /\ walk.addr = Reached(m, k) /\ walk.addr \in Nat /\ size \in Nat
      /\ addr \in Nat /\ addr + size = EndIn(S, m)
      /\ start \in Nat /\ addr >= start
      /\ m = walk.list /\ k = walk.item
  BY <1>1, SegmentThere DEF WrittenAt
<1>3. /\ AddressesOK /\ pos = Len(file) /\ pos \in Nat
      /\ fileOffs[m] \in Nat /\ Accounted(m) /\ InOut
  BY <1>2, LenProperties
  DEF AllLaidOut, Writing, FileOK, AllAccounted, InOut
<1>4. PICK v \in Int : v = pos - fileOffs[m] /\ Taken(m, k, v)
  <2>1. SizeAt(pos) /\ pos - fileOffs[m] \in Int
    BY <1>3 DEF Writing
  <2> QED  BY <1>2, <1>3, <2>1 DEF SizeAt
<1>5. v \in Nat
  BY <1>2, <1>3, <1>4, TakenIsNat
<1>6. /\ begin \in Nat /\ file' \in Seq(Nat) /\ pos' \in 0 .. Len(file')
      /\ ~(Dumps(S, m) \/ Area(m).fill) => UNCHANGED <<file, pos>>
      /\ Dumps(S, m) \/ Area(m).fill =>
           /\ Len(file') = IF pos >= begin + size THEN pos
                           ELSE begin + size
           /\ \A q \in 1 .. pos : (q <= begin \/ q > begin + size) =>
                file'[q] = file[q]
           /\ pos' = IF Dumps(S, m) /\ S.overwrite THEN Len(file')
                     ELSE begin + size
  BY <1>1, <1>3, MarksWritten
<1>7. S.load = m => S.seg \notin dumped
  BY <1>2, DumpedOnce DEF Writing
<1>0. PICK e \in Nat : e = EndIn(S, m) /\ e = addr + size
  BY <1>2
<1>8. PriorFit(m, i)
  BY <1>2, PriorIsFinite DEF PriorFit, Placed
<1>11. /\ m \in DOMAIN job.areas /\ k \in SegList(m) /\ AddressesOK
       /\ PriorFit(m, i) /\ Accounted(m) /\ Taken(m, k, v)
  BY <1>2, <1>3, <1>4, <1>8
<1>12. e = EndIn(job.segs[k], m)
  BY SMTT(30), <1>0
<1>9. CASE IsImage(m)
  <2>1. /\ begin = fileOffs[m] + (addr - start)
        /\ ~S.overwrite => begin >= pos
    BY <1>4, <1>9, BeginsAtAddress
  <2>2. (Dumps(S, m) \/ Area(m).fill) /\ (S.overwrite => Dumps(S, m))
    <3>1. S.load = m /\ (S.bss => Area(m).fill)
      BY <1>2, <1>9 DEF IsImage
    <3>2. ~(S.bss /\ S.overwrite)
      <4>1. k \in 1 .. Len(job.segs)
        BY <1>2, ListOfNumbers
      <4> QED  BY <4>1, PlaceAssumption
    <3> QED  BY <1>7, <3>1, <3>2 DEF Dumps
  <2>3. /\ Len(file') = IF pos >= begin + size THEN pos ELSE begin + size
        /\ \A q \in 1 .. pos : (q <= begin \/ q > begin + size) =>
             file'[q] = file[q]
        /\ pos' = IF S.overwrite THEN Len(file') ELSE begin + size
    BY <1>6, <2>2
  <2>4. pos' = Len(file') /\ pos' \in Nat /\ pos' >= pos
    <3>1. PICK p, q : p = pos' /\ q = Len(file')
      OBVIOUS
    <3>2. /\ q = IF pos >= begin + size THEN pos ELSE begin + size
          /\ p = IF S.overwrite THEN q ELSE begin + size
          /\ begin \in Nat /\ pos \in Nat /\ size \in Nat
          /\ ~S.overwrite => begin >= pos
      BY <1>2, <1>3, <1>6, <2>1, <2>3, <3>1
    <3>3. p = q /\ p \in Nat /\ p >= pos
      BY <3>2
    <3> QED  BY <3>1, <3>3
  <2>5. begin >= fileOffs[m] /\ fileOffs[m] <= pos
    <3> HIDE DEF start
    <3> QED  BY <1>2, <1>3, <1>4, <1>5, <2>1
  <2>6. PICK w \in Int : w = pos' - fileOffs[m]
    BY <1>3, <2>4
  <2>7. w = IF e - start > v THEN e - start ELSE v
    <3> HIDE DEF start
    <3>2. begin + size = fileOffs[m] + (e - start)
      BY <1>0, <1>2, <1>3, <2>1
    <3>3. pos = fileOffs[m] + v
      BY <1>3, <1>4
    <3>4. pos' = IF pos >= begin + size THEN pos ELSE begin + size
      BY <2>3, <2>4
    <3> QED  BY <1>2, <1>3, <2>6, <3>2, <3>3, <3>4
  <2>8. Taken(m, i, w)
    <3>1. w = IF e - Area(m).start > v THEN e - Area(m).start ELSE v
      BY <2>7
    <3> QED  BY <1>9, <1>11, <1>12, <3>1, TakenNext
  <2> QED  BY <1>1, <2>3, <2>4, <2>5, <2>6, <2>8
<1>10. CASE ~IsImage(m)
  <2>1. ~Area(m).fill /\ ~S.overwrite
    BY <1>2, <1>3, <1>10 DEF Accounted
  <2>2. begin = pos + (addr - walk.addr) /\ addr >= walk.addr
    <3>1. ~Seeks(S, m)
      BY <2>1 DEF Seeks
    <3> QED  BY <3>1, SegmentThere DEF BeginOf
  <2>3. begin >= pos /\ begin >= fileOffs[m] /\ fileOffs[m] <= pos
    <3>1. fileOffs[m] <= pos
      BY <1>3, <1>4, <1>5
    <3>2. begin >= pos /\ begin \in Nat
      BY <1>2, <1>3, <1>6, <2>2
    <3> QED  BY <1>3, <3>1, <3>2
  <2>4. CASE Dumps(S, m)
    <3>1. /\ Len(file') = IF pos >= begin + size THEN pos ELSE begin + size
          /\ \A q \in 1 .. pos : (q <= begin \/ q > begin + size) =>
               file'[q] = file[q]
          /\ pos' = begin + size
      BY <1>6, <2>1, <2>4
    <3>2. pos' = Len(file') /\ pos' \in Nat /\ pos' >= pos
      <4>1. PICK p, q : p = pos' /\ q = Len(file')
        OBVIOUS
      <4>2. /\ q = IF pos >= begin + size THEN pos ELSE begin + size
            /\ p = begin + size /\ begin >= pos
            /\ begin \in Nat /\ pos \in Nat /\ size \in Nat
        BY <1>2, <1>3, <1>6, <2>3, <3>1, <4>1
      <4>3. p = q /\ p \in Nat /\ p >= pos
        BY <4>2
      <4> QED  BY <4>1, <4>3
    <3>3. PICK w \in Int : w = pos' - fileOffs[m]
      BY <1>3, <3>2
    <3>4. w = v + (e - Reached(m, k))
      <4>1. PICK a \in Nat : a = walk.addr /\ a = Reached(m, k)
        BY <1>2
      <4>2. begin + size = pos + (e - a)
        BY <1>0, <1>2, <1>3, <2>2, <4>1
      <4>3. w = v + (e - a)
        <5>1. w = (pos + (e - a)) - fileOffs[m]
          BY <3>1, <3>3, <4>2
        <5>2. PICK f \in Nat : f = fileOffs[m]
          BY <1>3
        <5>3. w = (pos + (e - a)) - f /\ v = pos - f
          BY <1>4, <5>1, <5>2
        <5> QED  BY <1>3, <5>3
      <4> QED  BY <4>1, <4>3
    <3>5. S.load = m /\ ~S.bss
      BY <2>4 DEF Dumps
    <3>6. Taken(m, i, w)
      <4>1. w = IF job.segs[k].load = m /\ ~job.segs[k].bss
                THEN v + (e - Reached(m, k)) ELSE v
        BY <3>4, <3>5
      <4> QED  BY <1>10, <1>11, <1>12, <4>1, TakenNext
    <3> QED  BY <1>1, <2>3, <3>1, <3>2, <3>3, <3>6
  <2>5. CASE ~Dumps(S, m)
    <3>1. UNCHANGED <<file, pos>>
      BY <1>6, <2>1, <2>5
    <3>2. ~(S.load = m /\ ~S.bss)
      BY <1>7, <2>5 DEF Dumps
    <3>3. Taken(m, i, v)
      <4>1. v = IF job.segs[k].load = m /\ ~job.segs[k].bss
                THEN v + (e - Reached(m, k)) ELSE v
        BY <3>2
      <4> QED  BY <1>10, <1>11, <1>12, <4>1, TakenNext
    <3> QED  BY <1>3, <1>4, <2>3, <3>1, <3>3
  <2> QED  BY <2>4, <2>5
<1> QED
  BY <1>9, <1>10

LEMMA ContentsWritten ==
  ASSUME job \in Jobs, SectionsOK, SectionsApart, Placed, AllLaidOut, Writing,
         NEW m, NEW k, NEW addr, WrittenAt(m, k, addr),
         NEW begin, begin = BeginOf(job.segs[k], m, addr),
         NEW size, size = segSize[job.segs[k].seg],
         Area(m).out, Dumps(job.segs[k], m), pos = Len(file)
  PROVE  /\ Len(file') = IF pos >= begin + size THEN pos ELSE begin + size
         /\ \A c \in 1 .. size :
              file'[begin + c] = Contents(job.segs[k].seg)[c]
BY MarksWritten

(* Its sections are then in the file, and what was there before still is,  *)
(* or has been overwritten.                                                *)
LEMMA ImageGrows ==
  ASSUME job \in Jobs, SectionsOK, SectionsApart, Placed, AllLaidOut, Writing,
         NEW m, NEW k, NEW addr, WrittenAt(m, k, addr),
         NEW i \in Nat, i = After(m, k), AllAccounted, Area(m).out,
         IsImage(m), UNCHANGED <<job, segments, pc, loadAddr, fileOffs>>,
         walk'.list = m, NEW l \in SegList(m), l < i, ~job.segs[l].bss
  PROVE  InFileAt(m, l, i)'
<1> DEFINE S == job.segs[k]
           T == job.segs[l]
<1>1. PICK size, begin : size = segSize[S.seg] /\ begin = BeginOf(S, m, addr)
  OBVIOUS
<1>2. /\ m \in DOMAIN job.areas /\ k \in SegList(m) /\ k \in Nat \ {0}
      /\ S.seg \in Segs /\ size \in Nat
      /\ addr \in Nat /\ addr = AddrIn(S, m) /\ addr + size = EndIn(S, m)
      /\ Area(m).start \in Nat /\ addr >= Area(m).start
      /\ m = walk.list /\ k = walk.item
  BY <1>1, SegmentThere DEF WrittenAt
<1>3. /\ pos = Len(file) /\ pos \in Nat /\ fileOffs[m] \in Nat
      /\ InOut /\ ImagesOK
  BY <1>2, LenProperties
  DEF AllLaidOut, Writing, FileOK, AllAccounted, InOut
<1>4. /\ pos' = Len(file') /\ pos' \in Nat /\ pos' >= pos
      /\ \A q \in 1 .. pos : (q <= begin \/ q > begin + size) =>
           file'[q] = file[q]
  BY <1>1, SegmentGrows
<1>5. /\ begin \in Nat /\ begin = fileOffs[m] + (addr - Area(m).start)
      /\ ~S.overwrite => begin >= pos
  <2>1. PICK v \in Int : v = pos - fileOffs[m] /\ Taken(m, k, v)
    <3>1. SizeAt(pos) /\ pos - fileOffs[m] \in Int
      BY <1>3 DEF Writing
    <3> QED  BY <1>2, <1>3, <3>1 DEF SizeAt
  <2>2. /\ begin = fileOffs[m] + (addr - Area(m).start)
        /\ ~S.overwrite => begin >= pos
    BY <1>1, <2>1, BeginsAtAddress
  <2>3. PICK f \in Nat, s \in Nat : f = fileOffs[m] /\ s = Area(m).start
    BY <1>2, <1>3
  <2>4. f \in Nat /\ addr - s \in Nat /\ begin = f + (addr - s)
    <3>1. begin = f + (addr - s)
      BY <2>2, <2>3
    <3>2. addr >= s /\ addr \in Nat
      BY <1>2, <2>3
    <3>3. addr - s \in Nat
      BY <3>2
    <3> QED  BY <3>1, <3>3
  <2>5. begin \in Nat
    BY <2>4
  <2> QED  BY <2>2, <2>5
<1>6. Kept(m)' = pos'
  BY <1>2 DEF Kept
<1>7. /\ AddrIn(T, m)' = AddrIn(T, m) /\ sections' = sections
      /\ fileOffs' = fileOffs /\ job' = job /\ Area(m)' = Area(m)
      /\ Prior(m, i)' = Prior(m, i)
      /\ \A a : CoveredUpTo(m, l, i, a)' = CoveredUpTo(m, l, i, a)
  BY NothingMovesMore, CoveredStays DEF segments, Area
<1>8. Prior(m, i) = Prior(m, k) \union {k} /\ l \in Prior(m, i) /\ l \in Nat
  <2>1. l \in Nat
    BY ListOfNumbers
  <2>2. Prior(m, i) = Prior(m, k) \union {k}
    BY <1>2, NextIs
  <2>3. l \in Prior(m, i)
    BY DEF Prior
  <2> QED  BY <2>1, <2>2, <2>3
<1> SUFFICES ASSUME NEW j \in DOMAIN sections, sections[j].seg = T.seg,
                    NEW b \in 1 .. sections[j].size
             PROVE  LET a == AddrIn(T, m) + sections[j].offs + b - 1
                        p == fileOffs[m] + a - Area(m).start + 1
                    IN  /\ p \in 1 .. pos'
                        /\ CoveredUpTo(m, l, i, a) \/ file'[p] = j
  BY <1>6, <1>7 DEF InFileAt
<1>9. PICK a, p : /\ a = AddrIn(T, m) + sections[j].offs + b - 1
                  /\ p = fileOffs[m] + a - Area(m).start + 1
  OBVIOUS
<1>10. CASE l = k
  <2>1. /\ sections[j].offs + b \in 1 .. size
        /\ Contents(S.seg)[sections[j].offs + b] = j
    <3>1. S.seg \in Segs /\ sections[j].seg = S.seg
      BY <1>2, <1>10
    <3>2. \A c \in 1 .. sections[j].size :
            /\ sections[j].offs + c \in 1 .. segSize[S.seg]
            /\ Contents(S.seg)[sections[j].offs + c] = j
      BY <3>1, ContentsAre
    <3> QED  BY <1>1, <3>2
  <2>2. Dumps(S, m)
    <3>1. S.load = m
      BY <1>2 DEF IsImage
    <3> QED  BY <1>2, <1>10, <3>1, DumpedOnce DEF Dumps, Writing
  <2>3. /\ \A c \in 1 .. size : file'[begin + c] = Contents(S.seg)[c]
        /\ Len(file') = IF pos >= begin + size THEN pos ELSE begin + size
    <3>1. Len(file') = IF pos >= begin + size THEN pos ELSE begin + size
      BY <1>1, <1>3, <2>2, ContentsWritten
    <3>2. \A c \in 1 .. size : file'[begin + c] = Contents(S.seg)[c]
      BY <1>1, <1>3, <2>2, ContentsWritten
    <3> QED  BY <3>1, <3>2
  <2>4. PICK o \in Nat : o = sections[j].offs
    BY DEF SectionsOK
  <2>5. b \in Nat
    BY DEF SectionsApart
  <2>6. p = begin + (o + b) /\ o + b \in 1 .. size
    <3>1. a = ((addr + o) + b) - 1
      BY <1>2, <1>9, <1>10, <2>4
    <3>2. PICK f \in Nat, s \in Nat : f = fileOffs[m] /\ s = Area(m).start
      BY <1>2, <1>3
    <3>3. p = (f + (a - s)) + 1
      BY <1>9, <3>2
    <3>4. begin = f + (addr - s)
      BY <1>5, <3>2
    <3> QED  BY <1>2, <2>1, <2>4, <2>5, <3>1, <3>3, <3>4
  <2>7. file'[p] = j
    BY <2>1, <2>3, <2>4, <2>6
  <2>8. p \in 1 .. pos'
    <3>1. p <= begin + size /\ p >= 1 /\ p \in Nat
      BY <1>2, <1>5, <2>6
    <3>2. pos' >= begin + size
      BY <1>2, <1>3, <1>4, <1>5, <2>3
    <3> QED  BY <1>2, <1>4, <1>5, <3>1, <3>2
  <2> QED  BY <1>9, <2>7, <2>8
<1>11. CASE l # k
  <2>1. l \in Prior(m, k)
    BY <1>8, <1>11
  <2>2. InFileAt(m, l, k)
    <3>1. Done(m, l) /\ UpTo(m) = k
      <4>1. m \in Nat
        BY <1>2, Configured
      <4> QED  BY <1>2, <2>1, <4>1 DEF Done, UpTo, Prior
    <3> QED  BY <1>2, <1>3, <3>1 DEF ImagesOK
  <2>3. Kept(m) = pos
    BY <1>2 DEF Kept
  <2>4. p \in 1 .. pos /\ (CoveredUpTo(m, l, k, a) \/ file[p] = j)
    BY <1>9, <2>2, <2>3 DEF InFileAt
  <2>5. p \in 1 .. pos'
    BY <1>3, <1>4, <2>4
  <2>6. CASE CoveredUpTo(m, l, k, a)
    <3>1. CoveredUpTo(m, l, i, a)
      BY <1>8, <2>6 DEF CoveredUpTo
    <3> QED  BY <1>9, <2>5, <3>1
  <2>7. CASE file[p] = j /\ (p <= begin \/ p > begin + size)
    BY <1>4, <1>9, <2>4, <2>5, <2>7
  <2>8. CASE ~(p <= begin \/ p > begin + size)
    <3>1. p > begin /\ p <= begin + size /\ begin < pos /\ p \in Nat
      <4>1. p \in Nat /\ p <= pos
        BY <1>3, <2>4
      <4>2. begin \in Nat /\ size \in Nat /\ pos \in Nat
        BY <1>2, <1>3, <1>5
      <4> QED  BY <2>8, <4>1, <4>2
    <3>2. S.overwrite
      BY <1>3, <1>5, <3>1
    <3>3. a \in Int
      <4>1. AddrIn(T, m) \in Int /\ sections[j].offs \in Nat
        <5>1. T.seg \in Segs
          BY ListOfNumbers
        <5> QED  BY <5>1 DEF AllLaidOut, AddressesOK, AddrIn, SectionsOK
      <4>2. b \in Nat
        BY DEF SectionsApart
      <4> QED  BY <1>9, <4>1, <4>2
    <3>4. a >= addr /\ a < addr + size
      <4>1. PICK f \in Nat, s \in Nat : f = fileOffs[m] /\ s = Area(m).start
        BY <1>2, <1>3
      <4>2. p = ((f + a) - s) + 1 /\ begin = f + (addr - s)
        <5>1. p = ((f + a) - s) + 1
          BY <1>9, <4>1
        <5>2. begin = f + (addr - s)
          BY <1>5, <4>1, Zenon
        <5> QED  BY <5>1, <5>2
      <4>3. PICK z \in Nat, c \in Nat, d \in Nat :
              z = size /\ c = begin /\ d = addr
        BY <1>2, <1>5
      <4>4. p > c /\ p <= c + z
        BY <3>1, <4>3
      <4>5. p = ((f + a) - s) + 1 /\ c = f + (d - s)
        BY <4>2, <4>3
      <4>6. a >= d /\ a < d + z
        BY <3>1, <3>3, <4>4, <4>5
      <4> QED  BY <4>3, <4>6
    <3>5. l < k
      BY <2>1 DEF Prior
    <3>6. CoveredUpTo(m, l, i, a)
      BY <1>2, <1>8, <3>2, <3>4, <3>5 DEF CoveredUpTo
    <3> QED  BY <1>9, <2>5, <3>6
  <2> QED  BY <2>4, <2>6, <2>7, <2>8
<1> QED
  BY <1>10, <1>11

(* So WriteSegment keeps what the writing has reached.                     *)
LEMMA SegmentWritten ==
  ASSUME job \in Jobs, SectionsOK, SectionsApart, Placed, AllLaidOut, Writing,
         WriteSegment
  PROVE  AllLaidOut' /\ Writing'
<1>1. PICK m, k, addr : /\ m = walk.list /\ k = walk.item
                        /\ addr = NewAddr(job.segs[k], m)
  OBVIOUS
<1> DEFINE S == job.segs[k]
<1>2. WrittenAt(m, k, addr)
  BY <1>1 DEF WrittenAt
<1>3. /\ m \in DOMAIN job.areas /\ m \in Nat \ {0} /\ k \in SegList(m)
      /\ k \in Nat \ {0} /\ S.seg \in Segs /\ segSize[S.seg] \in Nat
      /\ addr \in Nat /\ addr + segSize[S.seg] = EndIn(S, m)
  BY <1>2, SegmentThere
<1>4. PICK i \in Nat : i = After(m, k)
  BY <1>3, NextIs
<1>5. PICK end \in Nat : end = addr + segSize[S.seg] /\ end = EndIn(S, m)
  BY <1>3
<1>6. /\ UNCHANGED <<job, segments, pc, loadAddr, fillLevel, fileOffs>>
      /\ walk'.list = m /\ walk'.item = i /\ walk'.addr = end
      /\ walk'.overwrites = walk.overwrites + 0
      /\ m <= Len(job.areas)
      /\ dumped' = IF S.load = m THEN dumped \union {S.seg} ELSE dumped
  <2>1. UNCHANGED <<job, segments, pc, loadAddr, fillLevel, fileOffs>>
    BY DEF WriteSegment, placed, linkVars
  <2>2. walk' = NextItem(end, 0) /\ m <= Len(job.areas)
    BY <1>1, <1>5, Zenon DEF WriteSegment, InList
  <2>3. dumped' = IF S.load = m THEN dumped \union {S.seg} ELSE dumped
    BY <1>1 DEF WriteSegment
  <2> QED  BY <1>1, <1>4, <2>1, <2>2, <2>3 DEF NextItem
<1>7. i \in SegList(m) \union {InNoList} /\ i > k
      /\ \A l \in SegList(m) : l < i => l <= k
  BY <1>3, <1>4, NextIs, NextInList
<1>8. /\ AddressesOK /\ WalkOK /\ DumpedOK /\ FileOK
      /\ fillLevel \in [DOMAIN job.areas -> Nat]
  BY DEF AllLaidOut, Writing
<1>9. /\ \A n : SegList(n)' = SegList(n) /\ Area(n)' = Area(n)
                /\ IsImage(n)' = IsImage(n)
      /\ AllAccounted' = AllAccounted /\ InNoList' = InNoList
      /\ AllAccounted => \A n : \A v : FileBefore(n, v)' = FileBefore(n, v)
      /\ Accounted(m) => \A v : Taken(m, i, v)' = Taken(m, i, v)
  BY <1>3, <1>6, <1>8, NothingWrittenMoves
<1>10. AllLaidOut'
  BY <1>1, <1>6, <1>8, StillLaidOut
<1>11. WalkOK' /\ AtNext' /\ FileOK'
  <2>1. WalkOK'
    BY <1>3, <1>6, <1>8 DEF WalkOK
  <2>2. AtNext'
    <3>1. Reached(m, i) = end
      BY <1>3, <1>4, <1>5, ReachedNext
    <3>2. Reached(m, i)' = Reached(m, i)
      BY <1>6, NothingMovesMore
    <3> QED  BY <1>6, <1>7, <1>9, <3>1, <3>2 DEF AtNext
  <2>3. file' \in Seq(Nat) /\ pos' \in 0 .. Len(file')
    BY <1>2, MarksWritten
  <2> QED  BY <2>1, <2>2, <2>3 DEF FileOK
<1>12. ASSUME NEW n \in DOMAIN job.areas, NEW l \in SegList(n)
       PROVE  Done(n, l)' <=> Done(n, l) \/ (n = m /\ l = k)
  <2>1. l \in Nat /\ n \in Nat
    BY ListOfNumbers, Configured
  <2> QED  BY <1>1, <1>3, <1>6, <1>7, <2>1 DEF Done
<1>13. DumpedOK'
  <2> SUFFICES ASSUME NEW s \in dumped'
               PROVE  \E n \in DOMAIN job.areas : \E l \in SegList(n) :
                        Done(n, l)' /\ job.segs[l].load = n
                        /\ job.segs[l].seg = s
    BY <1>6, <1>9 DEF DumpedOK
  <2>1. CASE s \in dumped
    BY <1>8, <1>12, <2>1 DEF DumpedOK
  <2>2. CASE s \notin dumped
    BY <1>3, <1>6, <1>12, <2>2
  <2> QED  BY <2>1, <2>2
<1>14. ASSUME AllAccounted
       PROVE  pos' = Len(file') /\ SizeAt(pos)' /\ ImagesOK'
  <2>1. pos = Len(file) /\ SizeAt(pos) /\ ImagesOK /\ pos \in Nat
    BY <1>8, <1>14 DEF Writing, FileOK
  <2>2. (InOut <=> Area(m).out) /\ (InOut' <=> Area(m).out)
    <3>1. InOut <=> Area(m).out
      BY <1>1, <1>3 DEF InOut
    <3>2. InOut' <=> Area(m)'.out
      BY <1>3, <1>6, <1>7 DEF InOut
    <3> QED  BY <1>9, <3>1, <3>2
  <2>3. CASE ~Area(m).out
    <3>1. UNCHANGED <<file, pos>>
      BY <1>1, <2>3 DEF WriteSegment
    <3>2. SizeAt(pos)'
      <4>1. PICK v : v = pos /\ v = pos'
        BY <3>1
      <4>2. FileBefore(m, v)
        BY <1>1, <2>1, <2>2, <2>3, <4>1 DEF SizeAt
      <4>3. FileBefore(m, v)'
        BY <1>9, <1>14, <4>2
      <4> QED  BY <1>6, <2>2, <2>3, <4>1, <4>3 DEF SizeAt
    <3>3. ImagesOK'
      <4> SUFFICES ASSUME NEW n \in DOMAIN job.areas, Area(n).out, IsImage(n),
                          NEW l \in SegList(n), Done(n, l)'
                   PROVE  InFileAt(n, l, UpTo(n))'
        BY <1>6, <1>9 DEF ImagesOK
      <4>1. n # m /\ Done(n, l)
        BY <1>12, <2>3
      <4>2. PICK j : j = UpTo(n)
        OBVIOUS
      <4>3. UpTo(n)' = j
        BY <1>1, <1>6, <1>9, <4>1, <4>2 DEF UpTo
      <4>4. InFileAt(n, l, j)
        BY <2>1, <4>1, <4>2 DEF ImagesOK
      <4>5. Kept(n) = pos /\ Kept(n)' = pos
        BY <2>2, <2>3, <3>1 DEF Kept
      <4>6. InFileAt(n, l, j)'
        <5>1. PICK q \in Nat : q = pos
          BY <2>1
        <5> QED  BY <1>6, <3>1, <4>4, <4>5, <5>1, InFileStays
      <4> QED  BY <4>3, <4>6
    <3> QED  BY <2>1, <3>1, <3>2, <3>3
  <2>4. CASE Area(m).out
    <3>1. PICK begin : begin = BeginOf(S, m, addr)
      OBVIOUS
    <3>2. /\ pos' = Len(file') /\ pos' \in Nat /\ fileOffs[m] <= pos
          /\ begin >= fileOffs[m] /\ pos' >= pos
          /\ Taken(m, i, pos' - fileOffs[m])
          /\ \A q \in 1 .. pos :
               (q <= begin \/ q > begin + segSize[S.seg]) =>
                 file'[q] = file[q]
      BY <1>2, <1>4, <1>14, <2>4, <3>1, SegmentGrows
    <3>3. SizeAt(pos)'
      <4>1. PICK v : v = pos' - fileOffs[m]
        OBVIOUS
      <4>2. Taken(m, i, v)'
        BY <1>3, <1>9, <1>14, <2>4, <3>2, <4>1 DEF AllAccounted
      <4>3. (pos - fileOffs[m])' = v
        BY <1>6, <4>1
      <4> QED  BY <1>6, <2>2, <2>4, <4>2, <4>3 DEF SizeAt
    <3>4. ImagesOK'
      <4> SUFFICES ASSUME NEW n \in DOMAIN job.areas, Area(n).out, IsImage(n),
                          NEW l \in SegList(n), Done(n, l)'
                   PROVE  InFileAt(n, l, UpTo(n))'
        BY <1>6, <1>9 DEF ImagesOK
      <4>1. CASE n = m
        <5>1. UpTo(n)' = i
          BY <1>3, <1>6, <4>1 DEF UpTo
        <5>2. l < i
          <6>1. l \in Nat
            BY ListOfNumbers
          <6> QED  BY <1>6, <1>3, <4>1, <6>1 DEF Done
        <5>3. CASE job.segs[l].bss
          BY <1>6, <5>3 DEF InFileAt
        <5>4. CASE ~job.segs[l].bss
          <6>1. InFileAt(m, l, i)'
            BY <1>2, <1>4, <1>6, <1>14, <2>4, <4>1, <5>2, <5>4, ImageGrows
          <6> QED  BY <4>1, <5>1, <6>1
        <5> QED  BY <5>3, <5>4
      <4>2. CASE n # m
        <5>1. Done(n, l)
          BY <1>12, <4>2
        <5>2. PICK j : j = UpTo(n)
          OBVIOUS
        <5>3. UpTo(n)' = j
          BY <1>1, <1>6, <1>9, <4>2, <5>2 DEF UpTo
        <5>4. InFileAt(n, l, j)
          BY <2>1, <5>1, <5>2 DEF ImagesOK
        <5>5. PICK q \in Nat : q = fileOffs[m]
          BY <1>3 DEF AllLaidOut
        <5>6. Kept(n) = q /\ Kept(n)' = q
          BY <1>1, <1>6, <2>2, <2>4, <4>2, <5>5 DEF Kept
        <5>7. \A p \in 1 .. q : file'[p] = file[p]
          <6>1. begin \in Nat
            BY <1>2, <3>1, MarksWritten
          <6>2. \A p \in 1 .. q : p \in 1 .. pos /\ p <= begin
            BY <2>1, <3>2, <5>5, <6>1
          <6> QED  BY <3>2, <6>2
        <5>8. InFileAt(n, l, j)'
          BY <1>6, <5>4, <5>6, <5>7, InFileStays
        <5> QED  BY <5>3, <5>8
      <4> QED  BY <4>1, <4>2
    <3> QED  BY <3>2, <3>3, <3>4
  <2> QED  BY <2>3, <2>4
<1>15. Writing'
  BY <1>9, <1>11, <1>13, <1>14 DEF Writing
<1> QED
  BY <1>10, <1>15

-----------------------------------------------------------------------------
(* What does not move, and the steps before and after                      *)
LEMMA SectionAdded ==
  ASSUME ModulesOK, SectionsOK, SectionsApart, ReadSection,
         walk.list \in Nat \ {0}, walk.item \in Nat \ {0}
  PROVE  SectionsApart'
<1> DEFINE sec    == SectionsOf(walk.list)[walk.item]
           offs   == AlignAddr(segSize[sec.seg], sec.align)
           aligns == CommonMultiples(segAlign[sec.seg], sec.align)
<1>1. sec.seg \in Segs /\ sec.size \in Nat /\ sec.align \in Nat \ {0}
  <2>1. SectionsOf(walk.list) \in Seq(Section)
    BY SectionsOfModules
  <2>2. walk.item \in 1 .. Len(SectionsOf(walk.list))
    <3>1. Len(SectionsOf(walk.list)) \in Nat
      BY <2>1, LenProperties
    <3>2. walk.item <= Len(SectionsOf(walk.list))
      BY DEF ReadSection
    <3> QED  BY <3>1, <3>2
  <2>3. sec \in Section
    BY <2>1, <2>2, ElementOfSeq
  <2> QED  BY <2>3 DEF Section
<1>2. CASE aligns = {}
  <2>1. UNCHANGED segments
    BY <1>2 DEF ReadSection
  <2> QED  BY <2>1 DEF SectionsApart, segments
<1>3. CASE aligns # {}
  <2>1. /\ sections' = Append(sections, [seg |-> sec.seg, size |-> sec.size,
                                         align |-> sec.align, offs |-> offs])
        /\ segSize' = [segSize EXCEPT ![sec.seg] = offs + sec.size]
    BY <1>3 DEF ReadSection
  <2>2. offs \in Nat /\ offs >= segSize[sec.seg] /\ segSize[sec.seg] \in Nat
    BY <1>1, Aligned DEF SectionsOK
  <2> HIDE DEF sec, offs, aligns
  <2>3. PICK n \in Nat : n = Len(sections)
    BY DEF SectionsOK
  <2>4. /\ DOMAIN sections = 1 .. n /\ DOMAIN sections' = 1 .. n + 1
        /\ \A j \in 1 .. n : sections'[j] = sections[j]
        /\ sections'[n + 1] = [seg |-> sec.seg, size |-> sec.size,
                               align |-> sec.align, offs |-> offs]
    BY <2>1, <2>3 DEF SectionsOK
  <2>5. /\ segSize'[sec.seg] = offs + sec.size
        /\ \A s \in Segs : s # sec.seg => segSize'[s] = segSize[s]
    BY <1>1, <2>1 DEF SectionsOK
  <2>6. \A j \in 1 .. n :
          /\ sections[j].seg \in Segs /\ sections[j].offs \in Nat
          /\ sections[j].size \in Nat
          /\ sections[j].offs + sections[j].size <= segSize[sections[j].seg]
    BY <2>3, <2>4 DEF SectionsOK, SectionsApart
  <2>7. \A j \in 1 .. n : sections[j].seg = sec.seg =>
          sections[j].offs + sections[j].size <= offs
    <3> SUFFICES ASSUME NEW j \in 1 .. n, sections[j].seg = sec.seg
                 PROVE  sections[j].offs + sections[j].size <= offs
      OBVIOUS
    <3>1. PICK a \in Nat, b \in Nat :
            a = sections[j].offs + sections[j].size /\ b = segSize[sec.seg]
      BY <2>2, <2>6
    <3>2. a <= b
      BY <2>6, <3>1
    <3> QED  BY <2>2, <3>1, <3>2
  <2>8. ASSUME NEW j \in 1 .. n + 1
        PROVE  /\ sections'[j].size \in Nat
               /\ sections'[j].offs + sections'[j].size
                    <= segSize'[sections'[j].seg]
    <3>1. CASE j = n + 1
      BY <1>1, <2>2, <2>4, <2>5, <3>1
    <3>2. CASE j # n + 1
      <4>1. j \in 1 .. n /\ sections'[j] = sections[j]
        BY <2>4, <3>2
      <4>2. CASE sections[j].seg = sec.seg
        <5>1. PICK a \in Nat : a = sections[j].offs + sections[j].size
          BY <2>6, <4>1
        <5>2. a <= offs
          BY <2>7, <4>1, <4>2, <5>1
        <5>3. a <= offs + sec.size
          BY <1>1, <2>2, <5>2
        <5> QED  BY <2>5, <2>6, <4>1, <4>2, <5>1, <5>3
      <4>3. CASE sections[j].seg # sec.seg
        BY <2>5, <2>6, <4>1, <4>3
      <4> QED  BY <4>2, <4>3
    <3> QED  BY <3>1, <3>2
  <2>9. ASSUME NEW i \in 1 .. n + 1, NEW j \in 1 .. n + 1, i < j,
               sections'[i].seg = sections'[j].seg
        PROVE  sections'[i].offs + sections'[i].size <= sections'[j].offs
    <3>1. i \in 1 .. n /\ sections'[i] = sections[i]
      BY <2>4, <2>9
    <3>2. CASE j = n + 1
      BY <2>4, <2>7, <2>9, <3>1, <3>2
    <3>3. CASE j # n + 1
      <4>1. j \in 1 .. n /\ sections'[j] = sections[j]
        BY <2>4, <3>3
      <4> QED  BY <2>4, <2>9, <3>1, <4>1 DEF SectionsApart
    <3> QED  BY <3>2, <3>3
  <2> QED  BY <2>4, <2>8, <2>9 DEF SectionsApart
<1> QED
  BY <1>2, <1>3

(* A step that touches none of this                                        *)
LEMMA Unmoved ==
  ASSUME UNCHANGED <<job, segments, walk, pc, loadAddr, fillLevel, fileOffs>>
  PROVE  /\ UNCHANGED <<fileSize, overflows>> => PlacingMore' = PlacingMore
         /\ AllLaidOut' = AllLaidOut
         /\ UNCHANGED written => Writing' = Writing
<1>1. /\ \A n : SegList(n)' = SegList(n) /\ Area(n)' = Area(n)
                /\ IsImage(n)' = IsImage(n)
      /\ AllAccounted' = AllAccounted /\ InNoList' = InNoList
  BY SameAreas
<1>2. \A S, n : AddrIn(S, n)' = AddrIn(S, n) /\ EndIn(S, n)' = EndIn(S, n)
  BY DEF AddrIn, EndIn, segments
<1>3. \A n, i : Prior(n, i)' = Prior(n, i)
  BY <1>1 DEF Prior
<1>4. \A n, i : /\ Reached(n, i)' = Reached(n, i) /\ Tops(n, i)' = Tops(n, i)
                /\ Stored(n, i)' = Stored(n, i)
  BY <1>1, <1>2, <1>3 DEF Reached, Tops, Stored
<1>5. \A n : Room(n)' = Room(n)
  BY <1>2, <1>4 DEF Room
<1>6. \A n, i, v : IsLevel(n, i, v)' = IsLevel(n, i, v)
  BY <1>4 DEF IsLevel, IsTop
<1>7. \A n, i, v : Taken(n, i, v)' = Taken(n, i, v)
  <2> SUFFICES ASSUME NEW n, NEW i, NEW v
               PROVE  Taken(n, i, v)' = Taken(n, i, v)
    OBVIOUS
  <2>1. SumOf(Room(n), Stored(n, i))' = SumOf(Room(n)', Stored(n, i)')
    BY DEF SumOf, Adds, Picked
  <2>2. SumOf(Room(n), Stored(n, i))' = SumOf(Room(n), Stored(n, i))
    BY <1>4, <1>5, <2>1
  <2> QED  BY <1>1, <1>6, <2>2 DEF Taken
<1>8. \A n, l : LaidOut(n, l)' = LaidOut(n, l)
  BY <1>1, <1>2, <1>3, <1>4 DEF LaidOut, Laid, FixedAddr
<1>9. \A n : Outs(n)' = Outs(n)
  BY <1>1 DEF Outs
<1>10. \A n, v : FileBefore(n, v)' = FileBefore(n, v)
  BY <1>1, <1>7, <1>9 DEF FileBefore, Extent
<1>11. /\ \A n, l : Done(n, l)' = Done(n, l)
       /\ \A n : UpTo(n)' = UpTo(n)
       /\ InOut' = InOut
  BY <1>1 DEF Done, UpTo, InOut
<1>12. AtNext' = AtNext /\ WalkOK' = WalkOK
  BY <1>1, <1>4 DEF AtNext, WalkOK
<1>13. \A v : SizeAt(v)' = SizeAt(v)
  BY <1>7, <1>10, <1>11 DEF SizeAt
<1>14. AllLaidOut' = AllLaidOut
  BY <1>1, <1>6, <1>8, <1>10 DEF AllLaidOut, AddressesOK
<1>15. ASSUME UNCHANGED <<fileSize, overflows>>
       PROVE  PlacingMore' = PlacingMore
  <2>1. NoneOverwrites' = NoneOverwrites
    BY <1>3 DEF NoneOverwrites
  <2>2. LevelsOK' = LevelsOK
    BY <1>6, <1>11 DEF LevelsOK
  <2>3. OffsetsOK' = OffsetsOK
    BY <1>1, <1>10 DEF OffsetsOK
  <2>4. SizeAt(fileSize[TRUE])' = SizeAt(fileSize[TRUE])
    <3>1. PICK v : v = fileSize[TRUE] /\ v = fileSize'[TRUE]
      BY <1>15
    <3> QED  BY <1>13, <3>1
  <2>5. SizesOK' = SizesOK
    BY <1>1, <1>15, <2>3, <2>4 DEF SizesOK
  <2> QED  BY <1>1, <1>8, <1>11, <1>12, <1>15, <2>1, <2>2, <2>5
           DEF PlacingMore
<1>16. ASSUME UNCHANGED written  PROVE Writing' = Writing
  <2>1. DumpedOK' = DumpedOK /\ FileOK' = FileOK
    BY <1>1, <1>11, <1>16 DEF DumpedOK, FileOK, written
  <2>2. SizeAt(pos)' = SizeAt(pos)
    <3>1. PICK v : v = pos /\ v = pos'
      BY <1>16 DEF written
    <3> QED  BY <1>13, <3>1
  <2>3. \A n : Kept(n)' = Kept(n)
    BY <1>11, <1>16 DEF Kept, written
  <2>4. \A n, l, i, a : CoveredUpTo(n, l, i, a)' = CoveredUpTo(n, l, i, a)
    BY <1>2, <1>3 DEF CoveredUpTo
  <2>5. \A n, l, i : InFileAt(n, l, i)' = InFileAt(n, l, i)
    BY <1>1, <1>2, <1>16, <2>3, <2>4 DEF InFileAt, segments, written
  <2>6. ImagesOK' = ImagesOK
    BY <1>1, <1>11, <2>5 DEF ImagesOK
  <2> QED  BY <1>1, <1>12, <1>16, <2>1, <2>2, <2>6 DEF Writing, written
<1> QED
  BY <1>14, <1>15, <1>16

-----------------------------------------------------------------------------
(* The invariant behind the output file                                    *)
Offset == "invalid file offset"

WriteInv ==
  /\ SectionsApart
  /\ stage \in BeforePlacing => NothingCounted
  /\ stage \in BeforePlacing \union {"place"} => NothingWritten
  /\ stage = "place" => PlacingMore
  /\ IsPlaced => AllLaidOut /\ Writing
  /\ stage = "done" => walk.list > Len(job.areas)
  /\ message = Offset => stage = "failed" /\ ~AllAccounted

LEMMA WriteInvInit == LinkInit /\ PlaceInit => WriteInv
<1> SUFFICES ASSUME LinkInit, PlaceInit  PROVE WriteInv
  OBVIOUS
<1>1. stage = "files" /\ message = ""
  BY DEF LinkInit
<1>2. SectionsApart
  <2>1. sections = <<>>
    BY DEF PlaceInit
  <2> QED  BY <2>1 DEF SectionsApart
<1>3. NothingCounted /\ NothingWritten
  BY DEF PlaceInit, NothingCounted, NothingWritten
<1> QED
  BY <1>1, <1>2, <1>3 DEF WriteInv, IsPlaced, Offset

(* Only BinWriteMem finds an offset that is not the one planned.           *)
LEMMA LinkMessages ==
  ASSUME LinkNext
  PROVE  message' = message \/ message' # Offset
<1> USE DEF Offset
<1>1. CASE ObjAdd \/ LibAdd \/ LibStartGroup \/ LibEndGroup
  BY <1>1 DEF ObjAdd, LibAdd, LibStartGroup, LibEndGroup, NextFile, Fail,
              DuplicateIdentifier, StartSearch
<1>2. CASE LibCheckExports \/ NextLibrary \/ EndOfRound
  BY <1>2 DEF LibCheckExports, NextLibrary, EndOfRound, AtModule, PastModules,
              DuplicateIdentifier, Fail
<1>3. CASE LoadModule \/ CloseLibrary \/ Resolved
  BY <1>3 DEF LoadModule, CloseLibrary, Resolved, AtModule, PastModules
<1>4. CASE CheckFiles \/ ConDesCreate \/ ProcessSymbols
  BY <1>4 DEF CheckFiles, ConDesCreate, ProcessSymbols, DuplicateIdentifier,
              Fail
<1> QED
  BY <1>1, <1>2, <1>3, <1>4 DEF LinkNext

LEMMA OffsetMessage ==
  ASSUME [Next]_vars, message' = Offset
  PROVE  \/ message' = message
         \/ StartWriting /\ InvalidFileOffset /\ stage' = "failed"
<1>1. CASE LinkNext
  BY <1>1, LinkMessages
<1>2. CASE ReadSection \/ NextModule \/ ProcessSegments
  <2>1. CASE ReadSection
    BY <2>1, Zenon DEF ReadSection, Fail, Offset
  <2>2. CASE NextModule \/ ProcessSegments
    BY <2>2, Zenon DEF NextModule, ProcessSegments, linkVars
  <2> QED  BY <1>2, <2>1, <2>2
<1>3. CASE StartArea \/ PlaceSegment
  BY <1>3 DEF StartArea, PlaceSegment, Fail, Offset, linkVars
<1>4. CASE EndArea \/ OpenTarget
  BY <1>4 DEF EndArea, OpenTarget, DuplicateIdentifier, Fail, Offset
<1>5. CASE StartWriting
  BY <1>5 DEF StartWriting, Fail
<1>6. CASE WriteSegment \/ EndWriting \/ CheckSegments
  BY <1>6 DEF WriteSegment, EndWriting, CheckSegments, Fail, Offset, linkVars
<1>7. CASE Ended \/ UNCHANGED vars
  BY <1>7 DEF Ended, vars, linkVars
<1> QED
  BY <1>1, <1>2, <1>3, <1>4, <1>5, <1>6, <1>7 DEF Next

(* An error is the end.                                                    *)
LEMMA EndedStays ==
  ASSUME [Next]_vars, stage \in {"done", "failed"}
  PROVE  UNCHANGED vars
<1>1. ~LinkNext
  BY SMTT(30), LinkStage DEF BeforePlacing, Early
<1>2. ~(\/ ReadSection \/ NextModule \/ ProcessSegments
        \/ StartArea \/ PlaceSegment \/ EndArea \/ OpenTarget
        \/ StartWriting \/ WriteSegment \/ EndWriting \/ CheckSegments)
  BY DEF ReadSection, NextModule, ProcessSegments, StartArea, PlaceSegment,
         EndArea, OpenTarget, StartWriting, WriteSegment, EndWriting,
         CheckSegments, Begins, InList, Ends, Past
<1> QED
  BY <1>1, <1>2 DEF Next, Ended

(* What reading and placing leave alone                                    *)
LEMMA ReadingKeeps ==
  ASSUME [Next]_vars, stage \in BeforePlacing
  PROVE  UNCHANGED <<fillLevel, fileOffs, fileSize, written>>
<1>1. CASE LinkNext /\ UNCHANGED placeVars
  BY <1>1 DEF placeVars, placed
<1>2. CASE ReadSection \/ NextModule \/ ProcessSegments
  BY <1>2 DEF ReadSection, NextModule, ProcessSegments, placed
<1>3. CASE UNCHANGED vars
  BY <1>3 DEF vars, placeVars, placed
<1>4. ~(\/ StartArea \/ PlaceSegment \/ EndArea \/ OpenTarget
        \/ StartWriting \/ WriteSegment \/ EndWriting \/ CheckSegments
        \/ Ended)
  BY DEF StartArea, PlaceSegment, EndArea, OpenTarget, StartWriting,
         WriteSegment, EndWriting, CheckSegments, Ended, Begins, InList, Ends,
         Past, BeforePlacing, Early
<1> QED
  BY <1>1, <1>2, <1>3, <1>4 DEF Next

LEMMA PlacingKeeps ==
  ASSUME [Next]_vars, stage = "place"
  PROVE  /\ UNCHANGED written
         /\ \/ StartArea \/ PlaceSegment \/ EndArea \/ OpenTarget
            \/ UNCHANGED vars
<1>1. ~LinkNext
  BY LinkStage DEF BeforePlacing, Early
<1>2. ~(\/ ReadSection \/ NextModule \/ ProcessSegments
        \/ StartWriting \/ WriteSegment \/ EndWriting \/ CheckSegments
        \/ Ended)
  BY DEF ReadSection, NextModule, ProcessSegments, StartWriting, WriteSegment,
         EndWriting, CheckSegments, Ended, Begins, InList, Ends, Past
<1>3. /\ StartArea => UNCHANGED written
      /\ PlaceSegment => UNCHANGED written
      /\ EndArea => UNCHANGED written
      /\ OpenTarget => UNCHANGED written
      /\ UNCHANGED vars => UNCHANGED written
  BY DEF StartArea, PlaceSegment, EndArea, OpenTarget, placeVars, vars
<1> QED
  BY <1>1, <1>2, <1>3 DEF Next

LEMMA ApartStep ==
  ASSUME PlaceInv, SectionsApart, [Next]_vars
  PROVE  SectionsApart'
<1>1. CASE ReadSection
  <2>1. NothingPlaced
    BY <1>1 DEF ReadSection, PlaceInv, BeforePlacing
  <2> QED  BY <1>1, <2>1, SectionAdded DEF PlaceInv, NothingPlaced
<1>2. CASE UNCHANGED segments
  BY <1>2 DEF SectionsApart, segments
<1>3. ReadSection \/ UNCHANGED segments
  BY SectionsOnlyRead
<1> QED
  BY <1>1, <1>2, <1>3

(* The placing, step by step                                               *)
LEMMA PlacingMoreStep ==
  ASSUME job \in Jobs, SectionsOK, PlacingOK, PlacingMore, NothingWritten,
         stage = "place", [Next]_vars
  PROVE  /\ stage' = "place" => PlacingMore'
         /\ stage' = "write" => AllLaidOut' /\ Writing'
         /\ NothingWritten'
<1>1. NothingWritten'
  BY PlacingKeeps DEF NothingWritten, written
<1>2. CASE StartArea
  <2>1. stage' = "place"
    BY <1>2 DEF StartArea, linkVars
  <2> QED  BY <1>1, <1>2, <2>1, AreaStartedMore
<1>3. CASE PlaceSegment
  <2>1. stage' # "write"
    BY <1>3 DEF PlaceSegment, Fail
  <2> QED  BY <1>1, <1>3, <2>1, SegmentKeepsMore
<1>4. CASE EndArea
  <2>1. stage' # "write"
    BY <1>4 DEF EndArea, DuplicateIdentifier, Fail
  <2> QED  BY <1>1, <1>4, <2>1, AreaEndedMore
<1>5. CASE OpenTarget
  <2>1. stage' # "place"
    BY <1>5 DEF OpenTarget, Fail
  <2>2. stage' = "write" => overflows = 0
    BY PlacingStep
  <2> QED  BY <1>1, <1>5, <2>1, <2>2, WritingBegins
<1>6. CASE UNCHANGED vars
  <2>1. /\ UNCHANGED <<job, segments, walk, pc, loadAddr, fillLevel, fileOffs,
                       fileSize, overflows>>
        /\ stage' = stage
    BY <1>6 DEF vars, linkVars, placeVars, placed
  <2>2. PlacingMore' = PlacingMore
    BY <2>1, Unmoved
  <2> QED  BY <1>1, <2>1, <2>2
<1> QED
  BY <1>2, <1>3, <1>4, <1>5, <1>6, PlacingKeeps

(* And the writing                                                         *)
LEMMA WritingMoreStep ==
  ASSUME job \in Jobs, SectionsOK, SectionsApart, Placed, AllLaidOut, Writing,
         stage = "write", [Next]_vars
  PROVE  /\ stage' \in {"write", "done"} => AllLaidOut' /\ Writing'
         /\ stage' = "done" => walk'.list > Len(job'.areas)
<1>1. IsPlaced
  BY DEF IsPlaced
<1>2. CASE StartWriting
  <2>1. stage' # "done"
    BY <1>2 DEF StartWriting, Begins, Fail
  <2> QED  BY <1>2, <2>1, WritingStarts
<1>3. CASE WriteSegment
  <2>1. stage' # "done"
    BY <1>3 DEF WriteSegment, InList, linkVars
  <2>2. AllLaidOut' /\ Writing'
    BY <1>3, SegmentWritten
  <2> QED  BY <2>1, <2>2
<1>4. CASE EndWriting
  <2>1. stage' # "done"
    BY <1>4 DEF EndWriting, Ends, linkVars
  <2>2. AllLaidOut' /\ Writing'
    BY <1>4, WritingEnds
  <2> QED  BY <2>1, <2>2
<1>5. CASE CheckSegments
  <2>1. UNCHANGED <<job, segments, walk, pc, loadAddr, fillLevel, fileOffs,
                    written>>
    BY <1>5 DEF CheckSegments, placeVars, placed
  <2>2. AllLaidOut' /\ Writing'
    BY <2>1, Unmoved
  <2>3. walk.list > Len(job.areas)
    BY <1>5 DEF CheckSegments, Past
  <2> QED  BY <2>1, <2>2, <2>3
<1>6. CASE UNCHANGED vars
  <2>1. /\ UNCHANGED <<job, segments, walk, pc, loadAddr, fillLevel, fileOffs,
                       written>>
        /\ stage' = stage
    BY <1>6 DEF vars, linkVars, placeVars, placed
  <2>2. AllLaidOut' /\ Writing'
    BY <2>1, Unmoved
  <2> QED  BY <2>1, <2>2
<1>7. ~(\/ LinkNext \/ ReadSection \/ NextModule \/ ProcessSegments
        \/ StartArea \/ PlaceSegment \/ EndArea \/ OpenTarget \/ Ended)
  <2>1. ~LinkNext
    BY LinkStage DEF BeforePlacing, Early
  <2> QED  BY <2>1 DEF ReadSection, NextModule, ProcessSegments, StartArea,
                       PlaceSegment, EndArea, OpenTarget, Begins, InList,
                       Ends, Past, Ended
<1> QED
  BY <1>2, <1>3, <1>4, <1>5, <1>6, <1>7 DEF Next

(* The message of an offset comes with areas the two passes do not agree   *)
(* on.                                                                     *)
LEMMA OffsetStep ==
  ASSUME PlaceInv, WriteInv, [Next]_vars, message' = Offset
  PROVE  stage' = "failed" /\ ~AllAccounted'
<1>1. CASE message = Offset
  <2>1. stage = "failed" /\ ~AllAccounted
    BY <1>1 DEF WriteInv
  <2>2. UNCHANGED <<job, segments>> /\ stage' = stage
    BY <2>1, EndedStays DEF vars, linkVars, placeVars
  <2> QED  BY <2>1, <2>2, SameAreas
<1>2. CASE StartWriting /\ InvalidFileOffset /\ stage' = "failed"
  <2>1. Begins("write") /\ IsPlaced /\ UNCHANGED <<job, segments>>
    BY <1>2 DEF StartWriting, Begins, IsPlaced
  <2>2. job \in Jobs /\ SectionsOK /\ Placed /\ AllLaidOut /\ Writing
    BY <2>1 DEF PlaceInv, WriteInv, ModulesOK, PlacesOK
  <2>3. ~AllAccounted
    BY <1>2, <2>1, <2>2, OffsetsAgree
  <2> QED  BY <1>2, <2>1, <2>3, SameAreas
<1> QED
  BY <1>1, <1>2, OffsetMessage

LEMMA WriteInvStep ==
  ASSUME PlaceInv, PlaceInv', WriteInv, [Next]_vars
  PROVE  WriteInv'
<1>1. job \in Jobs /\ SectionsOK /\ job' = job
  BY JobStays DEF PlaceInv, ModulesOK, PlacesOK
<1>2. SectionsApart /\ SectionsApart'
  BY ApartStep DEF WriteInv
<1>3. message' = Offset => stage' = "failed" /\ ~AllAccounted'
  BY OffsetStep
<1>4. CASE stage \in BeforePlacing
  <2>1. NothingPlaced /\ NothingCounted /\ NothingWritten
    BY <1>4 DEF PlaceInv, WriteInv
  <2>2. NothingCounted' /\ NothingWritten'
    BY <1>1, <1>4, <2>1, ReadingKeeps
    DEF NothingCounted, NothingWritten, written
  <2>3. stage' = "place" => PlacingMore'
    BY <1>1, <1>4, <2>1, ReadingStep, PlacingBeginsMore
  <2>4. stage' \notin {"write", "done"}
    BY <1>4, <2>1, ReadingStep
  <2> QED  BY <1>2, <1>3, <2>2, <2>3, <2>4 DEF WriteInv, IsPlaced
<1>5. CASE stage = "place"
  <2>1. PlacingOK /\ PlacingMore /\ NothingWritten
    BY <1>5 DEF PlaceInv, WriteInv
  <2>2. /\ stage' \in {"place", "write", "failed"}
        /\ stage' = "place" => PlacingMore'
        /\ stage' = "write" => AllLaidOut' /\ Writing'
        /\ NothingWritten'
    BY <1>1, <1>5, <2>1, PlacingStep, PlacingMoreStep
  <2> QED  BY <1>2, <1>3, <2>2 DEF WriteInv, IsPlaced, BeforePlacing, Early
<1>6. CASE stage = "write"
  <2>1. IsPlaced
    BY <1>6 DEF IsPlaced
  <2>2. Placed /\ AllLaidOut /\ Writing
    BY <2>1 DEF PlaceInv, WriteInv
  <2>3. stage' \in {"write", "done", "failed"}
    BY <2>1, <2>2, WritingStep
  <2>4. /\ stage' \in {"write", "done"} => AllLaidOut' /\ Writing'
        /\ stage' = "done" => walk'.list > Len(job'.areas)
    BY <1>1, <1>2, <1>6, <2>2, WritingMoreStep
  <2> QED  BY <1>2, <1>3, <2>3, <2>4
           DEF WriteInv, IsPlaced, BeforePlacing, Early
<1>7. CASE stage \in {"done", "failed"}
  <2>1. /\ UNCHANGED <<job, segments, walk, pc, loadAddr, fillLevel, fileOffs,
                       written>>
        /\ stage' = stage
    BY <1>7, EndedStays DEF vars, linkVars, placeVars, placed
  <2>2. AllLaidOut' = AllLaidOut /\ Writing' = Writing
    BY <2>1, Unmoved
  <2>3. stage' = "done" => AllLaidOut' /\ Writing'
    BY <2>1, <2>2 DEF WriteInv, IsPlaced
  <2>4. stage' = "done" => walk'.list > Len(job'.areas)
    BY <2>1 DEF WriteInv
  <2> QED  BY <1>2, <1>3, <1>7, <2>1, <2>3, <2>4
           DEF WriteInv, IsPlaced, BeforePlacing, Early
<1>8. CASE stage \notin BeforePlacing \union {"place", "write", "done",
                                              "failed"}
  <2>1. stage' = stage
    BY <1>8, StageStays
  <2> QED  BY <1>2, <1>3, <1>8, <2>1 DEF WriteInv, IsPlaced
<1> QED
  BY <1>4, <1>5, <1>6, <1>7, <1>8

(* WriteInv, for every job: it holds at the start and every step keeps it. *)
THEOREM WriteInvariant == Spec => []WriteInv
<1>1. LinkInit /\ PlaceInit => WriteInv
  BY WriteInvInit
<1>2. PlaceInv /\ PlaceInv' /\ WriteInv /\ [Next]_vars => WriteInv'
  BY WriteInvStep
<1> QED
  BY <1>1, <1>2, PlaceInvariant, PTL DEF Spec, Init

(* With the last area written, its image is in the file.                   *)
LEMMA AtTheEnd ==
  ASSUME job \in Jobs, AllLaidOut, Writing, AllAccounted,
         walk.list > Len(job.areas), NEW m \in DOMAIN job.areas,
         Area(m).out, IsImage(m), NEW k \in SegList(m)
  PROVE  InImage(m, k)
<1> DEFINE S == job.segs[k]
<1>1. m < walk.list
  BY Configured DEF Writing, WalkOK
<1>2. Done(m, k) /\ UpTo(m) = InNoList
  BY <1>1 DEF Done, UpTo
<1>3. InFileAt(m, k, InNoList)
  BY <1>2 DEF Writing, ImagesOK
<1>4. LaidOut(m, k)
  BY DEF AllLaidOut
<1>5. Prior(m, InNoList) = SegList(m)
  BY PriorIsFinite
<1>6. ASSUME NEW a, CoveredUpTo(m, k, InNoList, a)  PROVE Covered(m, k, a)
  BY <1>5, <1>6 DEF CoveredUpTo, Covered
<1>7. SUFFICES ASSUME S.load = m, ~S.bss, NEW i \in DOMAIN sections,
                      sections[i].seg = S.seg, NEW b \in 1 .. sections[i].size
               PROVE  LET a == loadAddr[S.seg] + sections[i].offs + b - 1
                      IN  \/ Covered(m, k, a)
                          \/ file[fileOffs[m] + a - Area(m).start + 1] = i
  BY DEF InImage
<1>8. loadAddr[S.seg] = AddrIn(S, m)
  BY <1>4, <1>7 DEF LaidOut
<1>9. LET a == AddrIn(S, m) + sections[i].offs + b - 1
      IN  \/ CoveredUpTo(m, k, InNoList, a)
          \/ file[fileOffs[m] + a - Area(m).start + 1] = i
  BY <1>3, <1>7 DEF InFileAt
<1> QED
  BY <1>6, <1>8, <1>9

(* Whatever the areas, the segments and the sections: unless an area of the*)
(* output file is one the two passes count differently, each area begins in*)
(* the file where it was to begin, and in the image of an area each byte of*)
(* a section is where its load address says or under a segment that        *)
(* overwrites (CfgProcess, BinWriteMem, SegWrite).                         *)
THEOREM WrittenWherePlacedAlways == Spec => []WrittenWherePlaced
<1>1. PlaceInv /\ WriteInv => WrittenWherePlaced
  <2> SUFFICES ASSUME PlaceInv, WriteInv, AllAccounted
               PROVE  /\ message # "invalid file offset"
                      /\ stage = "done" =>
                           \A m \in DOMAIN job.areas :
                             (Area(m).out /\ IsImage(m)) =>
                               \A k \in SegList(m) : InImage(m, k)
    BY DEF WrittenWherePlaced, AllAccounted
  <2>1. message # "invalid file offset"
    BY DEF WriteInv, Offset
  <2>2. ASSUME stage = "done", NEW m \in DOMAIN job.areas,
               Area(m).out, IsImage(m), NEW k \in SegList(m)
        PROVE  InImage(m, k)
    <3>1. /\ job \in Jobs /\ AllLaidOut /\ Writing
          /\ walk.list > Len(job.areas)
      BY <2>2 DEF PlaceInv, WriteInv, ModulesOK, PlacesOK, IsPlaced
    <3> QED  BY <2>2, <3>1, AtTheEnd
  <2> QED  BY <2>1, <2>2
<1> QED
  BY <1>1, PlaceInvariant, WriteInvariant, PTL

-----------------------------------------------------------------------------
(* The types.  Those of the files and of the counters are in FilesInv; the *)
(* others are kept step by step, the addresses and positions with the help *)
(* of what is known of each stage.                                         *)
Stages == BeforePlacing \union {"place", "write", "done", "failed"}

TableTypes ==
  /\ owner \in [Names -> {NoEntry, Dummy, Linker} \union referenced]
  /\ impCount \in [Names -> Nat]
  /\ conDes \subseteq referenced \X Names

CursorType == cursor \in [lib : Nat, mod : Nat, added : BOOLEAN]

WalkType == walk \in [list : Nat, item : Nat, addr : Nat, overwrites : Nat]

PlaceTypes ==
  /\ \A s \in Segs : pc[s] >= NotPlaced /\ loadAddr[s] >= NotPlaced
  /\ overflown \subseteq DOMAIN job.areas /\ overflows \in Nat
  /\ misaligned \subseteq Segs

FileTypes == dumped \subseteq Segs /\ pos \in 0 .. Len(file)

TypesInv ==
  /\ stage \in Stages
  /\ TableTypes /\ CursorType /\ WalkType /\ PlaceTypes /\ FileTypes

(* At the start they hold.                                                 *)
LEMMA TypesInit == LinkInit /\ PlaceInit => TypesInv
<1> SUFFICES ASSUME LinkInit, PlaceInit  PROVE TypesInv
  OBVIOUS
<1>1. /\ owner = [n \in Names |-> IF n \in DefinedFirst THEN Linker
                                  ELSE IF n \in job.forced THEN Dummy
                                  ELSE NoEntry]
      /\ impCount = [n \in Names |-> IF n \in job.forced THEN 1 ELSE 0]
      /\ referenced = {} /\ conDes = {} /\ stage = "files"
      /\ cursor = [lib |-> 1, mod |-> 1, added |-> FALSE]
  BY DEF LinkInit
<1>2. /\ walk = WalkAt(1, 1)
      /\ pc = [s \in Segs |-> NotPlaced]
      /\ loadAddr = [s \in Segs |-> NotPlaced]
      /\ misaligned = {} /\ overflown = {} /\ overflows = 0
      /\ file = <<>> /\ pos = 0 /\ dumped = {}
  BY DEF PlaceInit
<1>3. TableTypes /\ CursorType /\ stage \in Stages
  BY <1>1 DEF TableTypes, CursorType, Stages, BeforePlacing, Early
<1>4. WalkType
  BY <1>2 DEF WalkType, WalkAt
<1>5. PlaceTypes /\ FileTypes
  BY <1>2 DEF PlaceTypes, FileTypes, NotPlaced
<1> QED
  BY <1>3, <1>4, <1>5 DEF TypesInv

(* There are no other stages.                                              *)
LEMMA StagesStep ==
  ASSUME stage \in Stages, [Next]_vars
  PROVE  stage' \in Stages
<1>1. CASE LinkNext
  BY <1>1, LinkStage DEF Stages
<1>2. CASE ReadSection \/ NextModule \/ ProcessSegments \/ StartArea
             \/ OpenTarget
  BY ZenonT(40), <1>2
  DEF ReadSection, NextModule, ProcessSegments, StartArea, OpenTarget, Fail,
      linkVars, Stages, BeforePlacing
<1>3. CASE PlaceSegment \/ EndArea
  BY ZenonT(40), <1>3
  DEF PlaceSegment, EndArea, DuplicateIdentifier, Fail, Stages
<1>4. CASE StartWriting \/ WriteSegment \/ EndWriting \/ CheckSegments
  BY <1>4 DEF StartWriting, WriteSegment, EndWriting, CheckSegments, Fail,
              linkVars, Stages
<1>5. CASE Ended \/ UNCHANGED vars
  BY <1>5 DEF Ended, vars, linkVars
<1> QED
  BY <1>1, <1>2, <1>3, <1>4, <1>5 DEF Next

(* What a module or the linker brings into the table: an entry belongs to  *)
(* a module that is referenced, and imports are counted up.                *)
LEMMA TableTypesStep ==
  ASSUME PlacesOK, TableTypes, [Next]_vars
  PROVE  TableTypes'
<1>1. CASE Stays
  BY <1>1 DEF Stays, table, TableTypes
<1>2. ASSUME NEW id, TakesIn(id)  PROVE TableTypes'
  <2> DEFINE defs == Exports(Module(id))
             uses == [k \in Names |-> ImportsOf(Module(id), k)]
             own  == Claimed(defs, id)
  <2>1. /\ owner' = Counted(own, uses)
        /\ impCount' = [n \in Names |-> impCount[n] + uses[n]]
        /\ conDes' = conDes \union {<<id, n>> : n \in ConDesOf(Module(id))}
        /\ referenced' = referenced \union {id}
    BY <1>2 DEF TakesIn, InsertObjGlobals
  <2>2. defs \subseteq Names /\ ConDesOf(Module(id)) \subseteq Names
    BY <1>2, TakenInModule DEF ConDesOf
  <2>3. \A n \in Names : uses[n] \in Nat
    BY <2>2, ImportsAreNat DEF Exports
  <2>4. own \in [Names -> {NoEntry, Dummy, Linker}
                            \union (referenced \union {id})]
    BY DEF Claimed, TableTypes
  <2> HIDE DEF defs, uses, own
  <2>5. owner' \in [Names -> {NoEntry, Dummy, Linker} \union referenced']
    BY <2>1, <2>4 DEF Counted
  <2>6. impCount' \in [Names -> Nat]
    BY <2>1, <2>3 DEF TableTypes
  <2>7. conDes' \subseteq referenced' \X Names
    BY <2>1, <2>2 DEF TableTypes
  <2> QED  BY <2>5, <2>6, <2>7 DEF TableTypes
<1>3. ASSUME NEW names, Defines(names)  PROVE TableTypes'
  BY <1>3 DEF Defines, InsertExports, Claimed, TableTypes
<1> QED
  BY <1>1, <1>2, <1>3, TableSteps

(* LibResolve moves from module to module and from library to library.     *)
LEMMA CursorStep ==
  ASSUME CursorType, [Next]_vars
  PROVE  CursorType'
<1> DEFINE moves ==
             \/ cursor' = cursor
             \/ \E added \in BOOLEAN : cursor' = NextIndex(added)
             \/ \E added \in BOOLEAN : \E l \in {cursor.lib + 1, 1} :
                  cursor' = [lib |-> l, mod |-> 1, added |-> added]
<1>1. moves
  <2> USE DEF files, linkVars
  <2>1. CASE ObjAdd \/ LibAdd \/ LibStartGroup \/ LibEndGroup
    BY <2>1 DEF ObjAdd, LibAdd, LibStartGroup, LibEndGroup,
                DuplicateIdentifier, StartSearch
  <2>2. CASE LibCheckExports
    BY <2>2 DEF LibCheckExports, DuplicateIdentifier
  <2>3. CASE NextLibrary \/ EndOfRound \/ CloseLibrary \/ Resolved
    <3>1. cursor.added \in BOOLEAN
      BY DEF CursorType
    <3>2. CASE NextLibrary
      BY <3>1, <3>2, Zenon DEF NextLibrary
    <3>3. CASE EndOfRound
      BY <3>3, Zenon DEF EndOfRound
    <3>4. CASE CloseLibrary
      BY <3>4, Zenon DEF CloseLibrary
    <3>5. CASE Resolved
      BY <3>5, Zenon DEF Resolved
    <3> QED  BY <2>3, <3>2, <3>3, <3>4, <3>5
  <2>9. CASE LoadModule
    <3>1. cursor' = NextIndex(Used(<<openLibs[cursor.lib], cursor.mod>>))
      BY <2>9 DEF LoadModule
    <3>2. Used(<<openLibs[cursor.lib], cursor.mod>>) \in BOOLEAN
      BY DEF Used
    <3> QED  BY <3>1, <3>2, Zenon
  <2>4. CASE CheckFiles \/ ConDesCreate \/ ProcessSymbols
    <3>1. UNCHANGED files
      BY <2>4, Zenon
      DEF CheckFiles, ConDesCreate, ProcessSymbols, DuplicateIdentifier
    <3> QED  BY <3>1
  <2>5. CASE \/ ReadSection \/ NextModule \/ ProcessSegments \/ StartArea
             \/ OpenTarget
    BY <2>5, Zenon
    DEF ReadSection, NextModule, ProcessSegments, StartArea, OpenTarget
  <2>6. CASE PlaceSegment \/ EndArea
    BY <2>6, Zenon DEF PlaceSegment, EndArea, DuplicateIdentifier
  <2>7. CASE StartWriting \/ WriteSegment \/ EndWriting \/ CheckSegments
    BY <2>7, Zenon DEF StartWriting, WriteSegment, EndWriting, CheckSegments
  <2>8. CASE Ended \/ UNCHANGED vars
    BY <2>8 DEF Ended, vars
  <2> HIDE DEF moves
  <2> QED
    BY <2>1, <2>2, <2>3, <2>4, <2>5, <2>6, <2>7, <2>8, <2>9
    DEF Next, LinkNext
<1> QED
  BY <1>1 DEF CursorType, NextIndex

(* The walk is one record after another; its numbers are known of each     *)
(* stage.                                                                  *)
LEMMA WalkIsRecord ==
  ASSUME WalkType, [Next]_vars
  PROVE  \/ walk' = walk
         \/ \E l, i, a, o :
              walk' = [list |-> l, item |-> i, addr |-> a, overwrites |-> o]
<1> DEFINE moves ==
             \/ walk' = walk
             \/ \E l, i, a, o :
                 walk' = [list |-> l, item |-> i, addr |-> a, overwrites |-> o]
<1>1. /\ \A l, i : walk' = WalkAt(l, i) => moves
      /\ \A a : walk' = FirstItem(a) => moves
      /\ \A a, o : walk' = NextItem(a, o) => moves
  BY DEF WalkAt, FirstItem, NextItem
<1> HIDE DEF moves
<1>2. moves
  <2>1. CASE LinkNext /\ UNCHANGED placeVars
    BY <2>1 DEF placeVars, moves
  <2>2. CASE ReadSection \/ NextModule \/ ProcessSegments
    BY <1>1, <2>2, Zenon DEF ReadSection, NextModule, ProcessSegments, moves
  <2>3. CASE StartArea \/ EndArea \/ OpenTarget
    BY <1>1, <2>3, Zenon DEF StartArea, EndArea, OpenTarget, placeVars, moves
  <2>4. CASE PlaceSegment
    BY <1>1, <2>4, Zenon DEF PlaceSegment, placeVars, moves
  <2>5. CASE StartWriting \/ WriteSegment \/ EndWriting \/ CheckSegments
    BY <1>1, <2>5, Zenon
    DEF StartWriting, WriteSegment, EndWriting, CheckSegments, placeVars, moves
  <2>6. CASE Ended \/ UNCHANGED vars
    BY <2>6 DEF Ended, vars, placeVars, moves
  <2> QED
    BY <2>1, <2>2, <2>3, <2>4, <2>5, <2>6 DEF Next
<1> QED
  BY <1>2 DEF moves

(* Where nothing is placed or written the walk goes from one to the next.  *)
LEMMA WalkStays ==
  ASSUME [Next]_vars, stage' \in BeforePlacing \union {"failed"}
  PROVE  walk' \in {walk, WalkAt(walk.list, walk.item + 1),
                    WalkAt(walk.list + 1, 1)}
<1>1. CASE LinkNext /\ UNCHANGED placeVars
  BY <1>1 DEF placeVars
<1>2. CASE ReadSection \/ NextModule
  BY <1>2, Zenon DEF ReadSection, NextModule
<1>3. CASE StartWriting \/ OpenTarget
  BY ZenonT(40), <1>3
  DEF StartWriting, OpenTarget, Begins, BeforePlacing, Early
<1>4. CASE PlaceSegment \/ EndArea
  BY <1>4 DEF PlaceSegment, EndArea, InList, Ends, placeVars, BeforePlacing,
              Early
<1>5. ~(ProcessSegments \/ StartArea \/ WriteSegment \/ EndWriting)
  BY DEF ProcessSegments, StartArea, WriteSegment, EndWriting, Begins, InList,
         Ends, linkVars, BeforePlacing, Early
<1>6. CASE CheckSegments \/ Ended \/ UNCHANGED vars
  BY <1>6 DEF CheckSegments, Ended, vars, placeVars
<1> QED
  BY <1>1, <1>2, <1>3, <1>4, <1>5, <1>6 DEF Next

(* So its numbers are natural.                                             *)
LEMMA WalkStep ==
  ASSUME WalkType, stage' \in Stages, PlaceInv', WriteInv', [Next]_vars
  PROVE  WalkType'
<1>1. CASE stage' \in BeforePlacing \union {"failed"}
  BY <1>1, WalkStays DEF WalkType, WalkAt
<1>2. CASE stage' \in {"place", "write", "done"}
  <2>1. WalkOK'
    BY <1>2 DEF PlaceInv, PlacingOK, WriteInv, Writing, IsPlaced
  <2> QED  BY <2>1, WalkIsRecord DEF WalkOK, WalkType
<1> QED
  BY <1>1, <1>2 DEF Stages

(* No segment is given an address below 0.                                 *)
LEMMA SegmentTypes ==
  ASSUME job \in Jobs, PlaceTypes, SectionsOK, PlacingOK, PlaceSegment,
         stage' = "place"
  PROVE  \A s \in Segs : pc'[s] >= NotPlaced /\ loadAddr'[s] >= NotPlaced
<1> DEFINE m    == walk.list
           S    == job.segs[walk.item]
           addr == AddrOf(S, m, walk.addr)
<1>1. /\ m <= Len(job.areas) /\ walk.item \in SegList(m)
      /\ Place(m, walk.item, addr)
  BY SegmentPlaced DEF PlacingOK
<1>2. m \in 1 .. Len(job.areas) /\ walk.addr \in Nat
  BY <1>1, Configured DEF PlacingOK, WalkOK
<1>3. walk.item \in 1 .. Len(job.segs) /\ S.seg \in Segs
  BY ListOfNumbers, <1>1
<1>4. addr \in Nat
  BY <1>2, <1>3, AddressFound
<1>5. /\ pc' = IF S.run = m THEN [pc EXCEPT ![S.seg] = addr] ELSE pc
      /\ loadAddr' = IF S.load = m THEN [loadAddr EXCEPT ![S.seg] = addr]
                     ELSE loadAddr
  BY <1>1 DEF Place
<1> HIDE DEF m, S, addr
<1> QED
  BY <1>3, <1>4, <1>5 DEF PlacingOK, AddressesOK, PlaceTypes, NotPlaced

(* What CfgProcess leaves is kept by all that comes after it.              *)
LEMMA PlaceTypesStep ==
  ASSUME job \in Jobs, PlaceTypes, PlaceInv, PlaceInv', [Next]_vars
  PROVE  PlaceTypes'
<1>0. job' = job
  BY JobStays DEF PlaceInv, ModulesOK
<1>1. CASE UNCHANGED placed
  BY <1>0, <1>1 DEF placed, PlaceTypes
<1>2. CASE UNCHANGED <<pc, loadAddr, misaligned, overflown, overflows>>
  BY <1>0, <1>2 DEF PlaceTypes
<1>3. CASE PlaceSegment /\ stage' = "place"
  <2>0. stage = "place" /\ SectionsOK /\ PlacingOK /\ PlacingOK'
    BY <1>3 DEF PlaceSegment, InList, PlaceInv
  <2>1. \A s \in Segs : pc'[s] >= NotPlaced /\ loadAddr'[s] >= NotPlaced
    BY <1>3, <2>0, SegmentTypes
  <2>2. overflows' \in Nat
    BY <2>0 DEF PlacingOK, OverflowsOK
  <2>3. walk.list \in DOMAIN job.areas /\ job.segs[walk.item].seg \in Segs
    <3>1. walk.list <= Len(job.areas) /\ walk.item \in SegList(walk.list)
      BY <1>3 DEF PlaceSegment, InList
    <3> QED  BY <2>0, <3>1, Configured, ListOfNumbers DEF PlacingOK, WalkOK
  <2>4. overflown' \in {overflown, overflown \union {walk.list}}
    BY <1>3 DEF PlaceSegment, Fail
  <2>5. misaligned' \in {misaligned,
                         misaligned \union {job.segs[walk.item].seg}}
    BY <1>3 DEF PlaceSegment, Fail
  <2> QED  BY <1>0, <2>1, <2>2, <2>3, <2>4, <2>5 DEF PlaceTypes
<1>4. \/ UNCHANGED placed
      \/ UNCHANGED <<pc, loadAddr, misaligned, overflown, overflows>>
      \/ PlaceSegment /\ stage' = "place"
  <2> USE DEF placed, placeVars
  <2>1. CASE LinkNext /\ UNCHANGED placeVars
    BY <2>1, Zenon
  <2>2. CASE ReadSection \/ NextModule \/ ProcessSegments
    BY <2>2, Zenon DEF ReadSection, NextModule, ProcessSegments
  <2>3. CASE StartArea \/ EndArea \/ OpenTarget
    BY <2>3, Zenon DEF StartArea, EndArea, OpenTarget
  <2>4. CASE PlaceSegment
    BY <2>4, Zenon DEF PlaceSegment, InList, Fail
  <2>5. CASE StartWriting \/ WriteSegment \/ EndWriting \/ CheckSegments
    BY <2>5, Zenon DEF StartWriting, WriteSegment, EndWriting, CheckSegments
  <2>6. CASE Ended \/ UNCHANGED vars
    BY <2>6, Zenon DEF Ended, vars
  <2> QED
    BY <2>1, <2>2, <2>3, <2>4, <2>5, <2>6 DEF Next
<1> QED
  BY <1>1, <1>2, <1>3, <1>4

(* Nothing but the writing moves the position in the file.                 *)
LEMMA FileTypesStep ==
  ASSUME FileTypes, PlaceInv, WriteInv', WriteInv, [Next]_vars
  PROVE  FileTypes'
<1>1. CASE UNCHANGED written
  BY <1>1 DEF FileTypes, written
<1>2. CASE stage' \in {"write", "done"}
  <2>1. Writing'
    BY <1>2 DEF WriteInv, IsPlaced
  <2>2. DumpedOK' /\ FileOK'
    BY <2>1 DEF Writing
  <2>3. \A s \in dumped' : s \in Segs
    <3>1. job' = job /\ job \in Jobs
      BY JobStays DEF PlaceInv, ModulesOK, PlacesOK
    <3>2. \A k \in DOMAIN job.segs : job.segs[k].seg \in Segs
      BY <3>1, Configured
    <3>3. \A n : SegList(n)' \subseteq DOMAIN job.segs
      BY <3>1 DEF SegList
    <3> QED  BY <2>2, <3>1, <3>2, <3>3 DEF DumpedOK
  <2> QED  BY <2>2, <2>3 DEF FileOK, FileTypes
<1>3. UNCHANGED written \/ stage' \in {"write", "done"}
  <2> USE DEF written, placeVars
  <2>1. CASE LinkNext /\ UNCHANGED placeVars
    BY <2>1, Zenon
  <2>2. CASE ReadSection \/ NextModule \/ ProcessSegments
    BY <2>2, Zenon DEF ReadSection, NextModule, ProcessSegments
  <2>3. CASE StartArea \/ EndArea \/ OpenTarget
    BY <2>3, Zenon DEF StartArea, EndArea, OpenTarget
  <2>4. CASE PlaceSegment
    BY <2>4, Zenon DEF PlaceSegment
  <2>5. CASE StartWriting \/ CheckSegments
    BY <2>5, Zenon DEF StartWriting, CheckSegments
  <2>6. CASE WriteSegment \/ EndWriting
    BY <2>6 DEF WriteSegment, EndWriting, InList, Ends, linkVars
  <2>7. CASE Ended \/ UNCHANGED vars
    BY <2>7, Zenon DEF Ended, vars
  <2> QED
    BY <2>1, <2>2, <2>3, <2>4, <2>5, <2>6, <2>7 DEF Next
<1> QED
  BY <1>1, <1>2, <1>3

(* All of them together                                                    *)
LEMMA TypesStep ==
  ASSUME TypesInv, PlaceInv, PlaceInv', WriteInv, WriteInv', [Next]_vars
  PROVE  TypesInv'
<1>1. PlacesOK /\ job \in Jobs
  BY DEF PlaceInv, ModulesOK, PlacesOK
<1>2. stage' \in Stages
  BY StagesStep DEF TypesInv
<1>3. TableTypes' /\ CursorType'
  BY <1>1, TableTypesStep, CursorStep DEF TypesInv
<1>4. WalkType' /\ PlaceTypes' /\ FileTypes'
  BY <1>1, <1>2, WalkStep, PlaceTypesStep, FileTypesStep DEF TypesInv
<1> QED
  BY <1>2, <1>3, <1>4 DEF TypesInv

(* Whatever the files and the configuration, the variables of the linker   *)
(* keep their types: each entry of the table belongs to a module in the    *)
(* link, the counters never run below 0, every address is one, and the     *)
(* position in the output file is inside it (exports.c, library.c,         *)
(* config.c, bin.c).                                                       *)
THEOREM LinkerTypes == Spec => []TypeOK
<1>1. LinkInit /\ PlaceInit => TypesInv
  BY TypesInit
<1>2. TypesInv /\ PlaceInv /\ PlaceInv' /\ WriteInv /\ WriteInv' /\ [Next]_vars
      => TypesInv'
  BY TypesStep
<1>3. TypesInv /\ FilesInv => TypeOK
  <2> SUFFICES ASSUME TypesInv, FilesInv  PROVE TypeOK
    OBVIOUS
  <2> DEFINE open == {n \in Names : owner[n] = Dummy}
             all  == {n \in Names : owner[n] # NoEntry}
  <2>1. IsFiniteSet(open) /\ IsFiniteSet(all)
    BY LinkAssumption, FS_Subset
  <2>2. impOpen = SumOf(impCount, open) /\ expCount = Cardinality(all)
    BY SumsAreSumOf DEF FilesInv, CounterInv, CountersExact
  <2>3. \A n \in open : impCount[n] \in Nat
    BY DEF TypesInv, TableTypes
  <2> HIDE DEF open, all
  <2>4. impOpen \in Nat /\ expCount \in Nat
    BY <2>1, <2>2, <2>3, SumIsNat, FS_CardinalityType
  <2>5. /\ next \in 1 .. Len(job.items) + 1 /\ grouping \in BOOLEAN
        /\ \A id \in referenced : id \in Modules(id[1])
    BY DEF FilesInv, FilesOK, LoadsOK
  <2>6. ToSet(openLibs) \subseteq 1 .. next - 1
    <3>1. DOMAIN openLibs = 1 .. Len(openLibs)
      BY FilesTypes
    <3> QED  BY <3>1 DEF ToSet, FilesInv, FilesOK
  <2>7. LinkTypeOK
    BY <2>4, <2>5, <2>6 DEF TypesInv, TableTypes, CursorType, LinkTypeOK
  <2> QED  BY <2>7 DEF TypeOK, TypesInv, WalkType, PlaceTypes, FileTypes,
                       Stages, BeforePlacing, Early
<1> QED
  BY <1>1, <1>2, <1>3, PlaceInvariant, WriteInvariant, FilesInvariant, PTL
  DEF Spec, Init
=============================================================================
