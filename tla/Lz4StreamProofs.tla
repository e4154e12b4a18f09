--------------------------- MODULE Lz4StreamProofs --------------------------
(***************************************************************************)
(* What lz4ultra makes of data of any length with blocks of any size, and  *)
(* that it gets the data back, whichever bytes the compressor copies from  *)
(* its history and whichever blocks it leaves uncompressed.                *)
(***************************************************************************)
EXTENDS Lz4Stream, FiniteSetTheorems, SequenceTheorems, WellFoundedInduction,
        TLAPS

(* Files with legacy frames have no room for the size of a block that is   *)
(* not compressed, and their header does not say that every block begins   *)
(* with the dictionary.                                                    *)
Expressible ==
  \A f \in FlagSets :
    LEGACY \in f => ~SomeUncompressible /\ \A d \in Dictionaries : d = <<>>

Raw    == RAW \in asked
Legacy == LEGACY \in asked
Alone  == INDEP \in asked \/ Legacy    \* every block is

-----------------------------------------------------------------------------
(* The data in front of block j, and the units in front of it in the file  *)
Upto(j) == IF j * blockMax <= Len(data) THEN j * blockMax ELSE Len(data)
Size(j) == Upto(j + 1) - Upto(j)

HeaderSize == IF Legacy THEN 1 ELSE 2
At(j)      == HeaderSize + j + Upto(j)

(* Byte p of block j; those in front of it are its history.                *)
FromDictionary(j) == j = 0 \/ Alone

Reaches(j, p) ==
  IF FromDictionary(j) THEN p >= -Len(dictionary)
  ELSE p >= -HISTORY_SIZE /\ p >= -blockMax

ByteAt(j, p) == IF p < 0 /\ FromDictionary(j)
                THEN dictionary[Len(dictionary) + p + 1]
                ELSE data[Upto(j) + p + 1]

UnitOK(unit, j, p, plain) ==
  IF plain THEN unit = Plain(ByteAt(j, p))
  ELSE \/ unit = Literal(ByteAt(j, p))
       \/ \E o \in 1 .. MAX_OFFSET :
            /\ unit = Copy(o)
            /\ p - o < 0 => Reaches(j, p - o)
            /\ ByteAt(j, p - o) = ByteAt(j, p)

(* What there is of a block in file f, and of all n of them                *)
BlockOK(f, j) ==
  At(j) < Len(f) =>
    \E plain \in BOOLEAN :
      /\ f[At(j) + 1] = Frame([size |-> Size(j), uncompressed |-> plain])
      /\ \A p \in 0 .. Size(j) - 1 :
           At(j) + 2 + p <= Len(f) => UnitOK(f[At(j) + 2 + p], j, p, plain)

HeaderOK(f) ==
  /\ Len(f) > 0 => f[1] = Magic(Legacy)
  /\ ~Legacy /\ Len(f) > 1 =>
       f[2] = Options([indep |-> INDEP \in asked, code |-> code])

RawOK(f, n) ==
  /\ n <= 1
  /\ n = 1 => /\ Upto(1) <= RAW_MAX
              /\ \A p \in 0 .. Upto(1) - 1 :
                   p < Len(f) => UnitOK(f[p + 1], 0, p, FALSE)

UnitsOK(f, n) == IF Raw THEN RawOK(f, n)
                 ELSE HeaderOK(f) /\ \A j \in 0 .. n - 1 : BlockOK(f, j)

Values == Nat \union BOOLEAN \union [indep : BOOLEAN, code : Nat]
            \union [size : Nat, uncompressed : BOOLEAN]
Kinds  == {"magic", "options", "frame", "literal", "copy", "plain", "zero"}
Units  == [kind : Kinds, value : Values]

(* The length of a file with n blocks                                      *)
FileSize(n) == IF ~Raw THEN At(n) ELSE IF n = 0 THEN 0 ELSE Upto(1) + 2

-----------------------------------------------------------------------------
Types ==
  /\ data \in Datas /\ dictionary \in Dictionaries /\ asked \in FlagSets
  /\ file \in Seq(Units) /\ frameData \in Units
  /\ code \in MIN_CODE .. MAX_CODE
  /\ inPos \in 0 .. Len(data) /\ preloaded \in Nat /\ numBlocks \in Nat
  /\ prevSize \in 0 .. HISTORY_SIZE /\ dictSize \in {0, Len(dictionary)}
  /\ pc # "Open" =>
       blockMax = IF Legacy THEN LEGACY_BLOCK_SIZE ELSE BlockSize(code)
  /\ outPos \in 0 .. Len(file) /\ outBlocks \in Nat /\ output \in Seq(Nat)
  /\ outPrev \in 0 .. HISTORY_SIZE /\ outDict \in {0, Len(dictionary)}
  /\ outMax \in {0, blockMax, BlockSize(MAX_CODE)}
  /\ cut \in Nat
  /\ status \in {"OK", "ERROR_SRC", "ERROR_DST", "ERROR_FORMAT",
                 "ERROR_DECOMPRESSION", "ERROR_RAW_TOOLARGE",
                 "ERROR_RAW_UNCOMPRESSED"}

FlagsOK ==
  /\ pc = "Open" => flags = asked
  /\ pc \in {"Blocks", "Closing", "Closed"} =>
       flags = IF Legacy THEN asked \union {INDEP} ELSE asked
  /\ pc = "ReadHeader" => flags = asked \cap {RAW}
  /\ pc = "Expand" =>
       flags = IF Raw THEN {RAW} ELSE IF Legacy THEN {LEGACY}
               ELSE asked \cap {INDEP}

NotOpened ==
  pc = "Open" => /\ status = "OK" /\ inPos = 0 /\ preloaded = 0
                 /\ prevSize = 0 /\ dictSize = Len(dictionary)
                 /\ numBlocks = 0 /\ file = <<>> /\ blockMax = 0

(* The buffer when there is another block                                  *)
InBufferOK ==
  /\ \A p \in 0 .. preloaded - 1 : buffer[p] = data[p + 1]
  /\ IF FromDictionary(numBlocks)
     THEN prevSize = 0 /\ dictSize = Len(dictionary)
     ELSE /\ dictSize = 0 /\ inPos >= blockMax
          /\ prevSize = IF blockMax <= HISTORY_SIZE THEN blockMax
                        ELSE HISTORY_SIZE
          /\ \A p \in -blockMax .. -1 :
               buffer[blockMax + p] = data[inPos + p + 1]

Compressing ==
  pc = "Blocks" /\ status = "OK" =>
    /\ Len(file) = FileSize(numBlocks) /\ UnitsOK(file, numBlocks)
    /\ Upto(numBlocks) = inPos - preloaded
    /\ numBlocks > 0 => /\ preloaded = 0
                       /\ Upto(numBlocks - 1) < Len(data)
    /\ preloaded > 0 => /\ preloaded = Upto(1)
                        /\ ~inEof => preloaded = blockMax
    /\ inEof => inPos = Len(data)
    /\ -HISTORY_SIZE .. preloaded - 1 \subseteq DOMAIN buffer
    /\ ~inEof => -HISTORY_SIZE .. blockMax - 1 \subseteq DOMAIN buffer
    /\ More => InBufferOK

(* A file that was closed without an error, or what is left of it          *)
FooterSize == IF Raw \/ Legacy THEN 0 ELSE 1

Complete ==
  /\ Upto(numBlocks) = Len(data)
  /\ numBlocks > 0 => Upto(numBlocks - 1) < Len(data)
  /\ UnitsOK(file, numBlocks)
  /\ Len(file) = FileSize(numBlocks) + FooterSize - cut
  /\ FooterSize = 1 /\ At(numBlocks) < Len(file) =>
       file[At(numBlocks) + 1] = Frame([size |-> 0, uncompressed |-> FALSE])

Closed ==
  /\ pc \in {"Open", "Blocks", "Closing"} => cut = 0
  /\ pc = "Closed" => cut <= STDIO_BUFFER
  /\ pc \in {"Closing", "Closed"} /\ status = "OK" =>
       inPos = Len(data) /\ Complete
  /\ pc \in {"ReadHeader", "Expand"} => status = "OK" /\ Complete

NotExpanded ==
  pc \in {"Open", "Blocks", "Closing", "Closed", "ReadHeader"} =>
    /\ outPos = 0 /\ ~outEof /\ outPrev = 0 /\ outDict = Len(dictionary)
    /\ outBlocks = 0 /\ output = <<>>

OutputOK == /\ Len(output) <= Len(data)
            /\ \A i \in 1 .. Len(output) : output[i] = data[i]

OutBufferOK ==
  /\ outBlocks = 0 \/ (Alone /\ ~Legacy) =>
       outPrev = 0 /\ outDict = Len(dictionary)
  /\ ~FromDictionary(outBlocks) /\ Upto(outBlocks) < Len(data) =>
       /\ Upto(outBlocks) >= blockMax
       /\ outPrev = IF blockMax <= HISTORY_SIZE THEN blockMax
                    ELSE HISTORY_SIZE
       /\ \A p \in -blockMax .. -1 :
            outBuffer[blockMax + p] = data[Upto(outBlocks) + p + 1]

Expanding ==
  pc = "Expand" =>
    /\ DOMAIN outBuffer = -HISTORY_SIZE .. outMax - 1
    /\ outMax = IF Raw THEN BlockSize(MAX_CODE) ELSE blockMax
    /\ OutputOK
    /\ IF Raw
       THEN IF outBlocks = 0
            THEN /\ ~outEof /\ outPos = 0 /\ output = <<>>
                 /\ outPrev = 0 /\ outDict = Len(dictionary)
            ELSE cut = 0 => output = data
       ELSE /\ ~outEof /\ outBlocks <= numBlocks
            /\ outPos = At(outBlocks) /\ Len(output) = Upto(outBlocks)
            /\ OutBufferOK

Ended ==
  /\ pc \in {"Ended", "OutputClosed"} => OutputOK
  /\ pc = "Ended" /\ cut = 0 /\ status # "ERROR_DST" =>
       status = "OK" /\ output = data

StreamInv ==
  /\ Types /\ FlagsOK /\ NotOpened /\ Compressing /\ Closed
  /\ NotExpanded /\ Expanding /\ Ended
-----------------------------------------------------------------------------
(* A set of numbers with an element has a least one.                       *)
LEMMA MinIsLeast ==
  ASSUME NEW S \in SUBSET Nat, S # {}
  PROVE  Min(S) \in S /\ \A x \in S : Min(S) <= x
<1> DEFINE T == {0 .. x : x \in S}
<1>1. T \subseteq FiniteSubsetsOf(Nat)
  <2>1. \A x \in S : 0 .. x \subseteq Nat /\ IsFiniteSet(0 .. x)
    BY FS_Interval
  <2> QED  BY <2>1 DEF FiniteSubsetsOf
<1>2. T # {}
  OBVIOUS
<1>3. PICK t \in T : \A u \in T : <<u, t>> \notin StrictSubsetOrdering(Nat)
  BY <1>1, <1>2, FS_StrictSubsetOrderingWellFounded, WFMin
<1>4. PICK m \in S : t = 0 .. m
  BY <1>3
<1>5. ASSUME NEW x \in S  PROVE m <= x
  <2>1. SUFFICES ASSUME x < m  PROVE FALSE
    OBVIOUS
  <2>2. 0 .. x \subseteq 0 .. m /\ 0 .. x # 0 .. m
    BY <2>1
  <2>3. 0 .. x \in SUBSET Nat /\ 0 .. m \in SUBSET Nat
    OBVIOUS
  <2>4. <<0 .. x, 0 .. m>> \in StrictSubsetOrdering(Nat)
    BY <2>2, <2>3 DEF StrictSubsetOrdering
  <2> QED  BY <1>3, <1>4, <2>4
<1> QED
  BY <1>5 DEF Min

LEMMA LessOfTwo ==
  ASSUME NEW m \in Int, NEW n \in Int
  PROVE  Min({m, n}) = IF m <= n THEN m ELSE n
BY DEF Min

(* What holds of 0, and of each number after one it holds of               *)
LEMMA AllReached ==
  ASSUME NEW m \in Nat, NEW S, 0 \in S,
         \A k \in 0 .. m - 1 : k \in S => k + 1 \in S
  PROVE  0 .. m \subseteq S
<1> DEFINE Missing == (0 .. m) \ S
<1>1. SUFFICES ASSUME Missing # {}  PROVE FALSE
  OBVIOUS
<1>2. Min(Missing) \in Missing /\ \A x \in Missing : Min(Missing) <= x
  BY <1>1, MinIsLeast
<1>3. Min(Missing) - 1 \in 0 .. m - 1 /\ Min(Missing) - 1 \in S
  BY <1>2
<1> QED
  BY <1>2, <1>3

-----------------------------------------------------------------------------
(* Blocks follow each other through the data, and all but the last are of  *)
(* full size.                                                              *)
LEMMA Blocks ==
  ASSUME blockMax \in Nat \ {0}, Len(data) \in Nat
  PROVE  /\ Upto(0) = 0
         /\ \A j \in Nat :
              /\ Upto(j) \in 0 .. Len(data)
              /\ Upto(j + 1) = IF Upto(j) + blockMax <= Len(data)
                               THEN Upto(j) + blockMax ELSE Len(data)
<1>1. \A j \in Nat : /\ j * blockMax \in Nat
                     /\ (j + 1) * blockMax = j * blockMax + blockMax
  OBVIOUS
<1>2. 0 * blockMax = 0
  OBVIOUS
<1> QED
  BY <1>1, <1>2 DEF Upto

LEMMA LaterBlocks ==
  ASSUME blockMax \in Nat \ {0}, Len(data) \in Nat,
         NEW i \in Nat, NEW j \in Nat, i <= j
  PROVE  Upto(i) <= Upto(j)
<1>1. /\ i * blockMax \in Nat /\ (j - i) * blockMax \in Nat
      /\ j * blockMax = i * blockMax + (j - i) * blockMax
  OBVIOUS
<1> QED
  BY <1>1 DEF Upto

-----------------------------------------------------------------------------
(* A block as far as it has been expanded                                  *)
Filled(j, k) == [p \in DOMAIN outBuffer |->
                   IF p >= 0 /\ p < k THEN ByteAt(j, p)
                   ELSE WithOutHistory[p]]

HistoryRight(j) ==
  \A p \in -HISTORY_SIZE .. -1 :
    Reaches(j, p) => WithOutHistory[p] = ByteAt(j, p)

LEMMA UnitExpanded ==
  ASSUME NEW j, NEW k \in Nat, k < outMax, outMax \in Nat,
         DOMAIN outBuffer = -HISTORY_SIZE .. outMax - 1,
         Len(dictionary) <= HISTORY_SIZE, Len(dictionary) \in Nat,
         HistoryRight(j), NEW unit, UnitOK(unit, j, k, FALSE)
  PROVE  Step(Filled(j, k), k, unit) = Filled(j, k + 1)
<1>0. HISTORY_SIZE \in Nat /\ MAX_OFFSET \in Nat
  BY StreamAssumption
<1> DEFINE more == [Filled(j, k) EXCEPT ![k] = ByteAt(j, k)]
<1>a. more = Filled(j, k + 1)
  <2>1. DOMAIN more = DOMAIN outBuffer
    BY DEF Filled
  <2>2. ASSUME NEW p \in DOMAIN outBuffer
        PROVE  more[p] = Filled(j, k + 1)[p]
    <3>1. p \in Int
      BY <1>0
    <3>2. CASE p = k
      BY <3>2 DEF Filled
    <3>3. CASE p # k
      BY <3>1, <3>3 DEF Filled
    <3> QED  BY <3>2, <3>3
  <2>3. more = [p \in DOMAIN outBuffer |-> more[p]]
    BY <2>1 DEF Filled
  <2> HIDE DEF more
  <2>4. Filled(j, k + 1) = [p \in DOMAIN outBuffer |-> Filled(j, k + 1)[p]]
    BY DEF Filled
  <2> QED  BY <2>2, <2>3, <2>4
<1>1. ASSUME unit = Literal(ByteAt(j, k))
      PROVE  Step(Filled(j, k), k, unit) = Filled(j, k + 1)
  <2>1. unit.kind = "literal" /\ unit.value = ByteAt(j, k)
    BY <1>1 DEF Literal, Unit
  <2> QED  BY <1>a, <2>1 DEF Step
<1>2. ASSUME NEW o \in 1 .. MAX_OFFSET, unit = Copy(o),
             k - o < 0 => Reaches(j, k - o), ByteAt(j, k - o) = ByteAt(j, k)
      PROVE  Step(Filled(j, k), k, unit) = Filled(j, k + 1)
  <2>1. unit.kind = "copy" /\ unit.value = o
    BY <1>2 DEF Copy, Unit
  <2>2. k - o \in -HISTORY_SIZE .. k - 1
    BY <1>0, <1>2 DEF Reaches
  <2>3. Filled(j, k)[k - o] = ByteAt(j, k)
    <3>1. CASE k - o >= 0
      BY <1>0, <1>2, <2>2, <3>1 DEF Filled
    <3>2. CASE k - o < 0
      BY <1>0, <1>2, <2>2, <3>2 DEF Filled, HistoryRight
    <3> QED  BY <1>0, <2>2, <3>1, <3>2
  <2> QED  BY <1>2, <1>a, <2>1, <2>3 DEF Step
<1> QED
  BY <1>1, <1>2 DEF UnitOK

LEMMA BlockExpanded ==
  ASSUME NEW j, NEW m \in Nat, m <= outMax, outMax \in Nat,
         DOMAIN outBuffer = -HISTORY_SIZE .. outMax - 1,
         Len(dictionary) <= HISTORY_SIZE, Len(dictionary) \in Nat,
         HistoryRight(j), NEW payload, Len(payload) = m,
         \A p \in 0 .. m - 1 : UnitOK(payload[p + 1], j, p, FALSE)
  PROVE  Expanded(payload) = Filled(j, m)
<1> DEFINE Expands(f) ==
             f = [k \in 0 .. m |-> IF k = 0 THEN WithOutHistory
                                   ELSE Step(f[k - 1], k - 1, payload[k])]
           fills == [k \in 0 .. m |-> Filled(j, k)]
           after == CHOOSE f : Expands(f)
           Right == {k \in 0 .. m : after[k] = fills[k]}
<1>0. Expanded(payload) = after[m]
  BY DEF Expanded
<1>1. fills[0] = WithOutHistory
  BY DEF Filled, WithOutHistory
<1>2. \A k \in 1 .. m : fills[k] = Step(fills[k - 1], k - 1, payload[k])
  <2> TAKE k \in 1 .. m
  <2>1. UnitOK(payload[k], j, k - 1, FALSE)
    <3>1. k - 1 \in 0 .. m - 1 /\ (k - 1) + 1 = k
      OBVIOUS
    <3> QED  BY <3>1
  <2>2. Step(Filled(j, k - 1), k - 1, payload[k]) = Filled(j, (k - 1) + 1)
    <3>1. k - 1 \in Nat /\ k - 1 < outMax
      OBVIOUS
    <3> QED  BY <2>1, <3>1, UnitExpanded
  <2>3. (k - 1) + 1 = k /\ k - 1 \in 0 .. m /\ k \in 0 .. m
    OBVIOUS
  <2> QED  BY <2>2, <2>3
<1>3. Expands(fills)
  <2> DEFINE rhs == [k \in 0 .. m |-> IF k = 0 THEN WithOutHistory
                       ELSE Step(fills[k - 1], k - 1, payload[k])]
  <2>1. \A k \in 0 .. m : fills[k] = rhs[k]
    <3> TAKE k \in 0 .. m
    <3>1. CASE k = 0
      BY <1>1, <3>1
    <3>2. CASE k # 0
      <4>1. k \in 1 .. m
        BY <3>2
      <4> HIDE DEF fills
      <4> QED  BY <1>2, <3>2, <4>1
    <3> QED  BY <3>1, <3>2
  <2> QED  BY <2>1
<1> HIDE DEF fills
<1>4. Expands(after)
  BY <1>3
<1> HIDE DEF after
<1>5. 0 \in Right
  BY <1>1, <1>4
<1>6. ASSUME NEW k \in 0 .. m - 1, k \in Right  PROVE k + 1 \in Right
  <2>1. k + 1 \in 1 .. m /\ (k + 1) - 1 = k
    OBVIOUS
  <2>2. after[k + 1] = Step(after[k], k, payload[k + 1])
    BY <1>4, <2>1
  <2>3. fills[k + 1] = Step(fills[k], k, payload[k + 1])
    BY <1>2, <2>1
  <2> QED  BY <1>6, <2>1, <2>2, <2>3
<1>7. m \in Right
  <2> HIDE DEF Right
  <2>1. 0 .. m \subseteq Right
    BY <1>5, <1>6, AllReached
  <2> QED  BY <2>1
<1> QED
  BY <1>0, <1>7 DEF fills

-----------------------------------------------------------------------------
(* What is written, and that there is room for it                          *)
LEMMA UnitTypes ==
  /\ \A b \in Nat : /\ Literal(b) \in Units /\ Copy(b) \in Units
                    /\ Plain(b) \in Units
  /\ \A l \in BOOLEAN : Magic(l) \in Units
  /\ \A i \in BOOLEAN, c \in Nat :
       Options([indep |-> i, code |-> c]) \in Units
  /\ \A n \in Nat, u \in BOOLEAN :
       Frame([size |-> n, uncompressed |-> u]) \in Units
  /\ Zero \in Units
<1>1. ASSUME NEW k \in Kinds, NEW v \in Values  PROVE Unit(k, v) \in Units
  BY DEF Unit, Units
<1>2. /\ \A b \in Nat : b \in Values
      /\ \A l \in BOOLEAN : l \in Values
      /\ \A i \in BOOLEAN, c \in Nat : [indep |-> i, code |-> c] \in Values
      /\ \A n \in Nat, u \in BOOLEAN :
           [size |-> n, uncompressed |-> u] \in Values
  BY DEF Values
<1>0. /\ "literal" \in Kinds /\ "copy" \in Kinds /\ "plain" \in Kinds
      /\ "magic" \in Kinds /\ "options" \in Kinds /\ "frame" \in Kinds
      /\ "zero" \in Kinds
  BY DEF Kinds
<1>3. \A b \in Nat : /\ Literal(b) \in Units /\ Copy(b) \in Units
                     /\ Plain(b) \in Units
  BY <1>0, <1>1, <1>2, Zenon DEF Literal, Copy, Plain
<1>4. \A l \in BOOLEAN : Magic(l) \in Units
  BY <1>0, <1>1, <1>2, Zenon DEF Magic
<1>5. \A i \in BOOLEAN, c \in Nat :
        Options([indep |-> i, code |-> c]) \in Units
  BY <1>0, <1>1, <1>2, Zenon DEF Options
<1>6. \A n \in Nat, u \in BOOLEAN :
        Frame([size |-> n, uncompressed |-> u]) \in Units
  BY <1>0, <1>1, <1>2, Zenon DEF Frame
<1>7. Zero \in Units
  <2>1. 0 \in Values
    BY <1>2
  <2> QED  BY <1>0, <1>1, <2>1, Zenon DEF Zero
<1> QED
  BY <1>3, <1>4, <1>5, <1>6, <1>7

LEMMA Writes ==
  ASSUME file \in Seq(Units), NEW units \in Seq(Units), Write(units)
  PROVE  /\ file' \in Seq(Units) /\ Len(file') >= Len(file)
         /\ status' \in {status, "ERROR_DST"}
         /\ status' = "OK" => file' = file \o units
<1>0. Len(file) \in Nat /\ Len(units) \in Nat
  BY LenProperties
<1>1. CASE Written(units)
  BY <1>0, <1>1, ConcatProperties DEF Written
<1>2. CASE WriteFails(units)
  <2>1. PICK n \in 0 .. Len(units) - 1 : file' = file \o SubSeq(units, 1, n)
    BY <1>2 DEF WriteFails
  <2>2. \A i \in 1 .. n : units[i] \in Units
    BY <1>0, <2>1, ElementOfSeq
  <2>3. SubSeq(units, 1, n) \in Seq(Units)
    BY <2>1, <2>2, SubSeqProperties
  <2>4. Len(SubSeq(units, 1, n)) \in Nat
    BY <2>3, LenProperties
  <2> QED
    BY <1>0, <1>2, <2>1, <2>3, <2>4, ConcatProperties DEF WriteFails
<1> QED
  BY <1>1, <1>2 DEF Write

LEMMA Sizes ==
  ASSUME Types
  PROVE  /\ data \in Seq(Nat) /\ dictionary \in Seq(Nat)
         /\ Len(data) \in Nat /\ Len(dictionary) \in 0 .. HISTORY_SIZE
         /\ Len(file) \in Nat /\ HISTORY_SIZE \in Nat
         /\ BlockSize(code) \in Nat \ {0}
         /\ LEGACY_BLOCK_SIZE \in Nat \ {0}
         /\ pc # "Open" => blockMax \in Nat \ {0}
BY StreamAssumption, LenProperties DEF Types

LEMMA HeaderWritten ==
  ASSUME NEW c \in Nat
  PROVE  /\ Header(c) \in Seq(Units) /\ Last(Header(c)) \in Units
         /\ Len(Header(c)) = IF LEGACY \in flags THEN 1 ELSE 2
         /\ Header(c)[1] = Magic(LEGACY \in flags)
         /\ LEGACY \notin flags =>
              Header(c)[2] = Options([indep |-> INDEP \in flags, code |-> c])
<1>0. \A u, v \in Units :
        /\ <<u>> \in Seq(Units) /\ Len(<<u>>) = 1 /\ <<u>>[1] = u
        /\ <<u, v>> \in Seq(Units) /\ Len(<<u, v>>) = 2
        /\ <<u, v>>[1] = u /\ <<u, v>>[2] = v
  OBVIOUS
<1> DEFINE m == Magic(LEGACY \in flags)
           o == Options([indep |-> INDEP \in flags, code |-> c])
<1>1. m \in Units /\ o \in Units
  <2>1. (LEGACY \in flags) \in BOOLEAN /\ (INDEP \in flags) \in BOOLEAN
    OBVIOUS
  <2> QED  BY <2>1, UnitTypes, Zenon
<1>2. Header(c) = IF LEGACY \in flags THEN <<m>> ELSE <<m, o>>
  <2>1. CASE LEGACY \in flags
    <3>1. (LEGACY \in flags) = TRUE
      BY <2>1, Zenon
    <3>2. m = Magic(TRUE)
      BY <3>1, Zenon
    <3> QED  BY <2>1, <3>2, Zenon DEF Header
  <2>2. CASE LEGACY \notin flags
    <3>1. (LEGACY \in flags) = FALSE
      BY <2>2
    <3>2. m = Magic(FALSE)
      BY <3>1, Zenon
    <3> QED  BY <2>2, <3>2, Zenon DEF Header
  <2> QED  BY <2>1, <2>2
<1> HIDE DEF m, o
<1>3. /\ Header(c) \in Seq(Units) /\ Last(Header(c)) \in Units
      /\ Len(Header(c)) = IF LEGACY \in flags THEN 1 ELSE 2
      /\ Header(c)[1] = m
      /\ LEGACY \notin flags => Header(c)[2] = o
  BY <1>0, <1>1, <1>2 DEF Last
<1> QED
  BY <1>3, Zenon DEF m, o

(* The smaller block size still holds what was read.                       *)
LEMMA ReducedHolds ==
  ASSUME NEW c \in MIN_CODE .. MAX_CODE, NEW size \in Nat,
         size < BlockSize(c)
  PROVE  /\ Reduced(c, size) \in MIN_CODE .. MAX_CODE
         /\ size < BlockSize(Reduced(c, size))
<1> DEFINE S == {b \in MIN_CODE .. c :
                   \A d \in b .. c - 1 : BlockSize(d) > size}
<1>0. MIN_CODE \in Nat /\ MAX_CODE \in Nat
  BY StreamAssumption
<1>1. c \in S /\ S \in SUBSET Nat
  BY <1>0
<1>2. Min(S) \in S
  BY <1>1, MinIsLeast
<1>3. CASE Min(S) = c
  BY <1>2, <1>3 DEF Reduced
<1>4. CASE Min(S) # c
  <2>1. Min(S) \in Min(S) .. c - 1
    BY <1>0, <1>2, <1>4
  <2>2. BlockSize(Min(S)) \in Nat /\ BlockSize(Min(S)) > size
    <3>1. Min(S) \in MIN_CODE .. MAX_CODE
      BY <1>0, <1>2
    <3>2. BlockSize(Min(S)) > size
      BY <1>2, <2>1
    <3> QED  BY <3>1, <3>2, StreamAssumption
  <2> QED  BY <1>0, <1>2, <2>2 DEF Reduced
<1> QED
  BY <1>3, <1>4

-----------------------------------------------------------------------------
(* The invariant holds at the start, and the file is opened with it.       *)
LEMMA StreamInit == Init => StreamInv
<1> SUFFICES ASSUME Init  PROVE StreamInv
  OBVIOUS
<1> USE DEF Init, CompressInit, ExpandInit
<1>0. dictionary \in Seq(Nat) /\ Len(dictionary) <= HISTORY_SIZE
  BY StreamAssumption
<1>1. Types
  <2>1. <<>> \in Seq(Units) /\ <<>> \in Seq(Nat) /\ Len(<<>>) = 0
    BY EmptySeq
  <2>2. HISTORY_SIZE \in Nat /\ code \in MIN_CODE .. MAX_CODE
    BY StreamAssumption
  <2>3. data \in Seq(Nat) /\ Len(data) \in Nat
    BY StreamAssumption, LenProperties
  <2> QED  BY <1>0, <2>1, <2>2, <2>3, UnitTypes DEF Types
<1> QED
  BY <1>1 DEF StreamInv, FlagsOK, NotOpened, Compressing, Closed,
              NotExpanded, Expanding, Ended

(* What is true of the other parts while the file is compressed            *)
LEMMA OnlyCompressing ==
  ASSUME StreamInv, Types', FlagsOK', Compressing',
         pc \in {"Open", "Blocks"}, pc' = "Blocks",
         UNCHANGED <<expanding, asked, cut, task>>
  PROVE  StreamInv'
<1>1. /\ NotExpanded' /\ Closed'
  BY DEF StreamInv, NotExpanded, Closed, expanding, task
<1>2. Expanding' /\ Ended' /\ NotOpened'
  BY DEF Expanding, Ended, NotOpened
<1> QED
  BY <1>1, <1>2 DEF StreamInv

LEMMA Opened ==
  ASSUME StreamInv, Open, UNCHANGED <<expanding, asked, cut>>
  PROVE  StreamInv'
<1> DEFINE full  == IF LEGACY \in flags THEN LEGACY_BLOCK_SIZE
                    ELSE BlockSize(code)
           size  == ReadTo(full)
           small == IF size < full /\ LEGACY \notin flags
                    THEN Reduced(code, size) ELSE code
           blank == [p \in -HISTORY_SIZE .. full - 1 |-> Blank]
<1>0. Types /\ pc = "Open" /\ pc' = "Blocks"
  BY DEF StreamInv, Open
<1>1. /\ flags = asked /\ status = "OK" /\ inPos = 0 /\ preloaded = 0
      /\ prevSize = 0 /\ dictSize = Len(dictionary) /\ numBlocks = 0
      /\ file = <<>> /\ blockMax = 0
  BY <1>0 DEF StreamInv, NotOpened, FlagsOK
<1>2. /\ flags' = IF LEGACY \in flags THEN flags \union {INDEP} ELSE flags
      /\ buffer' = Loaded(blank, full)
      /\ preloaded' = size /\ inPos' = size /\ inEof' = IsShort(full)
      /\ code' = small
      /\ blockMax' = IF LEGACY \in flags THEN full ELSE BlockSize(small)
      /\ UNCHANGED <<task, prevSize, dictSize, numBlocks, expanding, asked,
                     cut>>
  BY DEF Open
<1>3. /\ full \in Nat \ {0} /\ Len(data) \in Nat /\ Len(dictionary) \in Nat
      /\ HISTORY_SIZE \in Nat
  BY <1>0, Sizes
<1>4. /\ size = IF full <= Len(data) THEN full ELSE Len(data)
      /\ IsShort(full) <=> full > Len(data)
  BY <1>1, <1>3, LessOfTwo DEF ReadTo, IsShort
<1>5. /\ small \in MIN_CODE .. MAX_CODE /\ blockMax' \in Nat \ {0}
      /\ size <= blockMax'
      /\ size = full => blockMax' = full
      /\ blockMax' = IF LEGACY \in flags THEN LEGACY_BLOCK_SIZE
                     ELSE BlockSize(small)
  <2>1. code \in MIN_CODE .. MAX_CODE
    BY <1>0 DEF Types
  <2>2. CASE size < full /\ LEGACY \notin flags
    <3>1. /\ small \in MIN_CODE .. MAX_CODE
          /\ size < BlockSize(small)
      BY <1>3, <1>4, <2>1, <2>2, ReducedHolds
    <3>2. BlockSize(small) \in Nat \ {0}
      BY <3>1, StreamAssumption
    <3> QED  BY <1>2, <1>3, <1>4, <2>2, <3>1, <3>2
  <2>3. CASE ~(size < full /\ LEGACY \notin flags)
    BY <1>2, <1>3, <1>4, <2>1, <2>3
  <2> QED  BY <2>2, <2>3
<1>6. Types'
  <2>1. /\ data' \in Datas /\ dictionary' \in Dictionaries
        /\ asked' \in FlagSets /\ Len(data') \in Nat
    BY <1>0, <1>2, <1>3 DEF Types, task
  <2>2. /\ file' \in Seq(Units) /\ frameData' \in Units
        /\ Len(file') \in Nat /\ status' \in {"OK", "ERROR_DST"}
    <3>1. file \in Seq(Units) /\ frameData \in Units
      BY <1>0 DEF Types
    <3>2. CASE RAW \in flags
      BY <1>1, <3>1, <3>2, LenProperties DEF Open
    <3>3. CASE RAW \notin flags
      <4>1. Write(Header(small)) /\ frameData' = Last(Header(small))
        BY <3>3 DEF Open
      <4>2. small \in Nat
        BY <1>5, StreamAssumption
      <4> QED
        BY <1>1, <3>1, <4>1, <4>2, HeaderWritten, Writes, LenProperties
    <3> QED  BY <3>2, <3>3
  <2>3. /\ inPos' \in 0 .. Len(data)' /\ preloaded' \in Nat
        /\ numBlocks' \in Nat /\ prevSize' \in 0 .. HISTORY_SIZE
        /\ dictSize' \in {0, Len(dictionary)'}
    BY <1>0, <1>2, <1>3, <1>4 DEF Types, task
  <2>4. /\ outPos' \in 0 .. Len(file)' /\ outBlocks' \in Nat
        /\ output' \in Seq(Nat) /\ outPrev' \in 0 .. HISTORY_SIZE
        /\ outDict' \in {0, Len(dictionary)'} /\ cut' \in Nat
        /\ outMax' \in {0, blockMax', BlockSize(MAX_CODE)}
    <3>1. outPos = 0
      BY <1>0 DEF StreamInv, NotExpanded
    <3> QED
      BY <1>0, <1>1, <1>2, <1>3, <2>2, <3>1 DEF Types, task, expanding
  <2>5. blockMax' = IF Legacy' THEN LEGACY_BLOCK_SIZE ELSE BlockSize(code')
    BY <1>1, <1>2, <1>5 DEF Legacy
  <2> HIDE DEF full, size, small, blank
  <2> QED
    BY <1>2, <1>5, <2>1, <2>2, <2>3, <2>4, <2>5 DEF Types
<1>7. FlagsOK'
  BY <1>0, <1>1, <1>2 DEF FlagsOK, Legacy
<1>8. Compressing'
  <2> SUFFICES ASSUME status' = "OK"
      PROVE /\ Len(file)' = FileSize(numBlocks)' /\ UnitsOK(file, numBlocks)'
            /\ Upto(numBlocks)' = inPos' - preloaded'
            /\ preloaded' > 0 => /\ preloaded' = Upto(1)'
                                 /\ ~inEof' => preloaded' = blockMax'
            /\ inEof' => inPos' = Len(data)'
            /\ -HISTORY_SIZE .. preloaded' - 1 \subseteq DOMAIN buffer'
            /\ ~inEof' =>
                 -HISTORY_SIZE .. blockMax' - 1 \subseteq DOMAIN buffer'
            /\ InBufferOK'
    <3>1. numBlocks' = 0
      BY <1>1, <1>2
    <3> HIDE DEF full, size, small, blank
    <3> QED  BY <3>1 DEF Compressing
  <2>1. /\ Upto(0)' = 0
        /\ Upto(1)' = IF blockMax' <= Len(data) THEN blockMax' ELSE Len(data)
    BY <1>2, <1>3, <1>5 DEF Upto, task
  <2>2. Len(file)' = FileSize(numBlocks)' /\ UnitsOK(file, numBlocks)'
    <3>1. CASE RAW \in flags
      BY <1>1, <1>2, <3>1 DEF Open, Raw, FileSize, UnitsOK, RawOK
    <3>2. CASE RAW \notin flags
      <4>1. Write(Header(small))
        BY <3>2 DEF Open
      <4>2. small \in Nat
        BY <1>5, StreamAssumption
      <4>3. Header(small) \in Seq(Units) /\ file \in Seq(Units)
        BY <1>0, <4>2, HeaderWritten DEF Types
      <4>4. file' = Header(small)
        BY <1>1, <4>1, <4>3, Writes, ConcatEmptySeq
      <4>5. /\ (LEGACY \in flags) = Legacy'
            /\ (INDEP \in flags) = (INDEP \in asked')
        BY <1>1, <1>2 DEF Legacy
      <4>6. /\ Len(file') = IF LEGACY \in flags THEN 1 ELSE 2
            /\ file'[1] = Magic(LEGACY \in flags)
            /\ LEGACY \notin flags =>
               file'[2] = Options([indep |-> INDEP \in flags, code |-> small])
        BY <4>2, <4>4, HeaderWritten
      <4>7. HeaderOK(file)'
        <5>1. file'[1] = Magic(Legacy')
          BY <4>5, <4>6, Zenon
        <5>2. ~Legacy' =>
                file'[2] = Options([indep |-> INDEP \in asked',
                                    code |-> code'])
          <6>1. ~Legacy' => LEGACY \notin flags
            BY <1>1, <1>2 DEF Legacy
          <6> QED  BY <1>2, <4>5, <4>6, <6>1, Zenon
        <5> QED  BY <5>1, <5>2, Zenon DEF HeaderOK
      <4>8. Len(file') = FileSize(numBlocks)'
        BY <1>1, <1>2, <2>1, <3>2, <4>6
           DEF FileSize, Raw, At, HeaderSize, Legacy
      <4>9. UnitsOK(file, numBlocks)'
        BY <1>1, <1>2, <3>2, <4>7 DEF UnitsOK, Raw
      <4> QED  BY <4>8, <4>9
    <3> QED  BY <3>1, <3>2
  <2>3. Upto(numBlocks)' = inPos' - preloaded'
    BY <1>1, <1>2, <1>3, <1>4, <2>1
  <2>4. /\ preloaded' > 0 => /\ preloaded' = Upto(1)'
                             /\ ~inEof' => preloaded' = blockMax'
        /\ inEof' => inPos' = Len(data)'
    BY <1>2, <1>3, <1>4, <1>5, <2>1 DEF task
  <2>5. DOMAIN buffer' = -HISTORY_SIZE .. full - 1
    BY <1>2 DEF Loaded
  <2>6. /\ -HISTORY_SIZE .. preloaded' - 1 \subseteq DOMAIN buffer'
        /\ ~inEof' => -HISTORY_SIZE .. blockMax' - 1 \subseteq DOMAIN buffer'
    BY <1>2, <1>3, <1>4, <1>5, <2>5
  <2>7. InBufferOK'
    <3>1. ASSUME NEW p \in 0 .. size - 1  PROVE buffer'[p] = data[p + 1]
      <4>1. p \in DOMAIN blank
        BY <1>3, <1>4
      <4> HIDE DEF blank, full
      <4>2. buffer'[p] = IF p >= 0 /\ p < ReadTo(full) - inPos
                         THEN data[inPos + p + 1] ELSE blank[p]
        BY <1>2, <4>1 DEF Loaded
      <4>3. ReadTo(full) - inPos = size /\ inPos + p + 1 = p + 1
        BY <1>1, <1>3, <1>4
      <4>4. p >= 0 /\ p < size
        BY <1>3, <1>4
      <4> QED
        BY <4>2, <4>3, <4>4
    <3> HIDE DEF full, size, small, blank
    <3> QED
      BY <1>1, <1>2, <3>1 DEF InBufferOK, FromDictionary, task
  <2> HIDE DEF full, size, small, blank
  <2> QED  BY <2>2, <2>3, <2>4, <2>6, <2>7
<1> QED
  BY <1>0, <1>2, <1>6, <1>7, <1>8, OnlyCompressing

-----------------------------------------------------------------------------
(* The steps that leave the file as it is, or only add its end             *)
LEMMA SamePlaces ==
  ASSUME UNCHANGED <<task, asked, blockMax>>
  PROVE  /\ Raw' = Raw /\ Legacy' = Legacy /\ Alone' = Alone
         /\ HeaderSize' = HeaderSize /\ FooterSize' = FooterSize
         /\ \A j : /\ Upto(j)' = Upto(j) /\ Size(j)' = Size(j)
                   /\ At(j)' = At(j) /\ FileSize(j)' = FileSize(j)
BY DEF Raw, Legacy, Alone, HeaderSize, FooterSize, Upto, Size, At, FileSize,
       task

LEMMA SameBytes ==
  ASSUME UNCHANGED <<task, asked, blockMax>>
  PROVE  /\ \A j : FromDictionary(j)' = FromDictionary(j)
         /\ \A j, p : /\ ByteAt(j, p)' = ByteAt(j, p)
                      /\ Reaches(j, p)' = Reaches(j, p)
BY SamePlaces DEF ByteAt, Reaches, FromDictionary, Alone, Legacy, task

LEMMA SameUnit ==
  ASSUME UNCHANGED <<task, asked, blockMax>>,
         NEW unit, NEW j, NEW p, NEW plain, UnitOK(unit, j, p, plain)
  PROVE  UnitOK(unit, j, p, plain)'
<1>1. \A q : /\ ByteAt(j, q)' = ByteAt(j, q)
             /\ Reaches(j, q)' = Reaches(j, q)
  BY SameBytes
<1> QED
  BY <1>1 DEF UnitOK

(* A file that grows, once it has all of a block, or that is cut           *)
LEMMA BlockKept ==
  ASSUME UNCHANGED <<task, asked, blockMax>>, blockMax \in Nat \ {0},
         Len(data) \in Nat, Len(file) \in Nat, Len(file') \in Nat,
         \A i \in 1 .. Len(file') : i <= Len(file) => file'[i] = file[i],
         NEW j \in Nat, BlockOK(file, j),
         Len(file') <= Len(file) \/ At(j + 1) <= Len(file)
  PROVE  BlockOK(file, j)'
<1>0. /\ At(j) \in Nat /\ Size(j) \in Nat
      /\ At(j + 1) = At(j) + 1 + Size(j)
      /\ At(j)' = At(j) /\ Size(j)' = Size(j)
  <2>1. j + 1 \in Nat /\ HeaderSize \in Nat
    BY DEF HeaderSize
  <2>2. Upto(j) \in 0 .. Len(data) /\ Upto(j + 1) \in 0 .. Len(data)
    BY <2>1, Blocks
  <2>3. Upto(j) <= Upto(j + 1)
    BY <2>1, LaterBlocks
  <2>4. /\ At(j) \in Nat /\ Size(j) \in Nat
        /\ At(j + 1) = At(j) + 1 + Size(j)
    BY <2>1, <2>2, <2>3 DEF At, Size
  <2> QED  BY <2>4, SamePlaces
<1> SUFFICES ASSUME At(j) < Len(file')
    PROVE  \E plain \in BOOLEAN :
             /\ file'[At(j) + 1] =
                  Frame([size |-> Size(j), uncompressed |-> plain])
             /\ \A p \in 0 .. Size(j) - 1 :
                  At(j) + 2 + p <= Len(file') =>
                    UnitOK(file[At(j) + 2 + p], j, p, plain)'
  BY <1>0, Zenon DEF BlockOK
<1>1. At(j) < Len(file)
  BY <1>0
<1>2. PICK plain \in BOOLEAN :
        /\ file[At(j) + 1] =
             Frame([size |-> Size(j), uncompressed |-> plain])
        /\ \A p \in 0 .. Size(j) - 1 :
             At(j) + 2 + p <= Len(file) =>
               UnitOK(file[At(j) + 2 + p], j, p, plain)
  BY <1>1 DEF BlockOK
<1>3. file'[At(j) + 1] = file[At(j) + 1]
  <2>1. At(j) + 1 \in 1 .. Len(file') /\ At(j) + 1 <= Len(file)
    BY <1>0, <1>1
  <2> QED  BY <2>1
<1>4. ASSUME NEW p \in 0 .. Size(j) - 1, At(j) + 2 + p <= Len(file')
      PROVE  UnitOK(file[At(j) + 2 + p], j, p, plain)'
  <2>1. At(j) + 2 + p <= Len(file)
    BY <1>0, <1>4
  <2>2. UnitOK(file[At(j) + 2 + p], j, p, plain)
    BY <1>2, <2>1
  <2>3. file'[At(j)' + 2 + p] = file[At(j) + 2 + p]
    BY <1>0, <1>4, <2>1
  <2> QED  BY <2>2, <2>3, SameBytes DEF UnitOK
<1> QED
  BY <1>2, <1>3, <1>4

LEMMA HeaderKept ==
  ASSUME UNCHANGED <<task, asked, code>>, HeaderOK(file),
         Len(file) \in Nat, Len(file') \in Nat,
         \A i \in 1 .. Len(file') : i <= Len(file) => file'[i] = file[i],
         Len(file') <= Len(file) \/ HeaderSize <= Len(file)
  PROVE  HeaderOK(file)'
<1>1. Legacy' = Legacy /\ (INDEP \in asked') = (INDEP \in asked)
  BY DEF Legacy
<1>2. Len(file') > 0 => /\ Len(file) > 0
                        /\ file'[1] = file[1]
  BY DEF HeaderSize
<1>3. ~Legacy /\ Len(file') > 1 => Len(file) > 1 /\ file'[2] = file[2]
  BY DEF HeaderSize
<1> QED
  BY <1>1, <1>2, <1>3, Zenon DEF HeaderOK

LEMMA RawKept ==
  ASSUME UNCHANGED <<task, asked, blockMax>>, blockMax \in Nat \ {0},
         Len(data) \in Nat, Len(file) \in Nat, Len(file') \in Nat,
         \A i \in 1 .. Len(file') : i <= Len(file) => file'[i] = file[i],
         NEW n \in Nat, RawOK(file, n),
         Len(file') <= Len(file) \/ (n = 1 => Upto(1) <= Len(file))
  PROVE  RawOK(file, n)'
<1>0. Upto(1) \in Nat /\ Upto(1)' = Upto(1)
  BY Blocks, SamePlaces
<1>1. ASSUME n = 1, NEW p \in 0 .. Upto(1) - 1, p < Len(file')
      PROVE  UnitOK(file[p + 1], 0, p, FALSE)'
  <2>0. p + 1 \in 1 .. Len(file') /\ p < Len(file) /\ p + 1 <= Len(file)
    BY <1>0, <1>1
  <2>1. p < Len(file) /\ file'[p + 1] = file[p + 1]
    BY <2>0
  <2>2. UnitOK(file[p + 1], 0, p, FALSE)
    BY <1>1, <2>1 DEF RawOK
  <2> QED  BY <2>1, <2>2, SameBytes DEF UnitOK
<1> QED
  BY <1>0, <1>1 DEF RawOK

LEMMA UnitsKept ==
  ASSUME UNCHANGED <<task, asked, blockMax, code>>, blockMax \in Nat \ {0},
         Len(data) \in Nat, Len(file) \in Nat, Len(file') \in Nat,
         \A i \in 1 .. Len(file') : i <= Len(file) => file'[i] = file[i],
         NEW n \in Nat, UnitsOK(file, n),
         Len(file') <= Len(file) \/ FileSize(n) <= Len(file)
  PROVE  UnitsOK(file, n)'
<1>0. Raw' = Raw
  BY SamePlaces
<1>1. CASE Raw
  <2>1. Len(file') <= Len(file) \/ (n = 1 => Upto(1) <= Len(file))
    <3>1. 1 \in Nat
      OBVIOUS
    <3>2. Upto(1) \in 0 .. Len(data)
      BY <3>1, Blocks
    <3> QED  BY <1>1, <3>2 DEF FileSize
  <2> QED  BY <1>0, <1>1, <2>1, RawKept DEF UnitsOK
<1>2. CASE ~Raw
  <2>0. Upto(n) \in Nat /\ HeaderSize \in Nat /\ At(n) = FileSize(n)
    BY <1>2, Blocks DEF HeaderSize, FileSize
  <2>1. HeaderOK(file)'
    <3>1. HeaderSize <= At(n)
      BY <2>0 DEF At
    <3>2. Len(file') <= Len(file) \/ HeaderSize <= Len(file)
      BY <2>0, <3>1 DEF At
    <3> QED  BY <1>2, <3>2, HeaderKept DEF UnitsOK
  <2>2. ASSUME NEW j \in 0 .. n - 1  PROVE BlockOK(file, j)'
    <3>0. j + 1 \in Nat /\ j + 1 <= n /\ j \in Nat
      OBVIOUS
    <3>1. Upto(j + 1) <= Upto(n) /\ Upto(j + 1) \in Nat
      <4>1. Upto(j + 1) <= Upto(n)
        BY <3>0, LaterBlocks
      <4> QED  BY <3>0, <4>1, Blocks
    <3>2. At(j + 1) <= At(n)
      BY <2>0, <3>1 DEF At
    <3>3. Len(file') <= Len(file) \/ At(j + 1) <= Len(file)
      BY <2>0, <3>1, <3>2 DEF At
    <3>4. BlockOK(file, j)
      BY <1>2 DEF UnitsOK
    <3> QED  BY <3>3, <3>4, BlockKept
  <2> QED  BY <1>0, <1>2, <2>1, <2>2 DEF UnitsOK
<1> QED
  BY <1>1, <1>2

LEMMA AtTheEnd ==
  ASSUME StreamInv, NothingRead, UNCHANGED <<expanding, asked, cut>>
  PROVE  StreamInv'
<1>0. /\ Types /\ pc = "Blocks" /\ pc' = "Blocks" /\ status = "OK" /\ More
      /\ preloaded = 0 /\ inPos = Len(data)
  BY DEF StreamInv, NothingRead, More
<1>1. /\ prevSize' = History /\ inEof' = TRUE
      /\ UNCHANGED <<task, flags, code, status, inPos, blockMax, preloaded,
                     dictSize, numBlocks, frameData, file, expanding, asked,
                     cut>>
      /\ DOMAIN buffer' = DOMAIN buffer
  BY <1>0 DEF NothingRead, WithHistory
<1>2. History \in 0 .. HISTORY_SIZE
  BY <1>0, Sizes DEF History, Types
<1>3. Types'
  <2>1. inEof' = TRUE /\ Legacy' = Legacy
    BY <1>1 DEF Legacy
  <2> QED  BY <1>0, <1>1, <1>2, <2>1 DEF Types, task, expanding
<1>4. FlagsOK'
  BY <1>0, <1>1 DEF StreamInv, FlagsOK, Legacy
<1>5. Compressing'
  <2>1. Compressing
    BY DEF StreamInv
  <2>2. ~More'
    BY <1>0, <1>1 DEF More
  <2>3. /\ Upto(numBlocks)' = Upto(numBlocks) /\ Upto(1)' = Upto(1)
        /\ Upto(numBlocks - 1)' = Upto(numBlocks - 1)
        /\ FileSize(numBlocks)' = FileSize(numBlocks)
    BY <1>1, SamePlaces
  <2>4. UnitsOK(file, numBlocks)'
    <3>1. UnitsOK(file, numBlocks) /\ numBlocks \in Nat
      BY <1>0, <2>1 DEF Compressing, Types
    <3> QED  BY <1>0, <1>1, <3>1, Sizes, UnitsKept
  <2> QED
    BY <1>0, <1>1, <2>1, <2>2, <2>3, <2>4 DEF Compressing, task
<1> QED
  BY <1>0, <1>1, <1>3, <1>4, <1>5, OnlyCompressing

LEMMA FileClosed ==
  ASSUME StreamInv, Close, UNCHANGED <<expanding, asked, cut>>
  PROVE  StreamInv'
<1>0. /\ Types /\ pc = "Blocks" /\ pc' = "Closing" /\ ~More
  BY DEF StreamInv, Close
<1>1. UNCHANGED <<task, compressor, expanding, asked, cut>>
  BY DEF Close
<1>2. /\ Footer \in Seq(Units) /\ Len(Footer) = FooterSize
      /\ FooterSize = 1 =>
           Footer[1] = Frame([size |-> 0, uncompressed |-> FALSE])
  <2> DEFINE f == Frame([size |-> 0, uncompressed |-> FALSE])
  <2>1. f \in Units
    BY UnitTypes
  <2>2. Footer = IF Raw \/ Legacy THEN <<>> ELSE <<f>>
    BY <1>0 DEF StreamInv, FlagsOK, Raw, Legacy, RAW, LEGACY, INDEP, Footer
  <2> HIDE DEF f
  <2>3. <<f>> \in Seq(Units) /\ Len(<<f>>) = 1 /\ <<f>>[1] = f
    BY <2>1
  <2>4. <<>> \in Seq(Units) /\ Len(<<>>) = 0
    OBVIOUS
  <2> QED  BY <2>2, <2>3, <2>4 DEF FooterSize, f
<1>3. /\ file' \in Seq(Units) /\ status' \in {status, "ERROR_DST"}
      /\ status' = "OK" => status = "OK" /\ file' = file \o Footer
  BY <1>0, <1>2, Writes DEF Close, Types
<1>4. outPos = 0 /\ cut = 0
  BY <1>0 DEF StreamInv, NotExpanded, Closed
<1>5. Types'
  <2>1. Len(file') \in Nat /\ Legacy' = Legacy
    BY <1>1, <1>3, LenProperties DEF Legacy
  <2>2. outPos' \in 0 .. Len(file')
    BY <1>1, <1>4, <2>1 DEF expanding
  <2> QED
    BY <1>0, <1>1, <1>3, <2>1, <2>2
       DEF Types, task, compressor, reading, sizes, expanding
<1>6. /\ FlagsOK' /\ NotOpened' /\ Compressing' /\ NotExpanded'
      /\ Expanding' /\ Ended'
  <2>1. FlagsOK' /\ NotExpanded'
    BY <1>0, <1>1 DEF StreamInv, FlagsOK, NotExpanded, compressor, expanding,
                      Legacy, task
  <2> QED
    BY <1>0, <2>1 DEF NotOpened, Compressing, Expanding, Ended
<1>7. Closed'
  <2> SUFFICES ASSUME status' = "OK"
               PROVE  inPos' = Len(data)' /\ Complete'
    BY <1>0, <1>1, <1>4 DEF Closed
  <2>0. status = "OK" /\ Compressing /\ file' = file \o Footer
    BY <1>3 DEF StreamInv
  <2>1. preloaded = 0 /\ inEof /\ inPos = Len(data)
    BY <1>0, <2>0 DEF More, Compressing, Types
  <2>2. Len(file) \in Nat /\ FooterSize \in {0, 1} /\ file \in Seq(Units)
    BY <1>0, Sizes DEF FooterSize, Types
  <2>3. /\ Len(file') = Len(file) + FooterSize
        /\ \A i \in 1 .. Len(file) + FooterSize :
             file'[i] = IF i <= Len(file) THEN file[i]
                        ELSE Footer[i - Len(file)]
    BY <1>2, <2>0, <2>2, ConcatProperties
  <2>4. /\ Len(file) = FileSize(numBlocks) /\ UnitsOK(file, numBlocks)
        /\ Upto(numBlocks) = Len(data)
        /\ numBlocks > 0 => Upto(numBlocks - 1) < Len(data)
    BY <1>0, <2>0, <2>1, Sizes DEF Compressing
  <2>5. /\ UNCHANGED <<task, asked, blockMax, code, numBlocks, inPos, cut>>
        /\ blockMax \in Nat \ {0} /\ Len(data) \in Nat /\ numBlocks \in Nat
    BY <1>0, <1>1, Sizes DEF compressor, reading, sizes, Types
  <2>6. UnitsOK(file, numBlocks)'
    <3>1. \A i \in 1 .. Len(file') : i <= Len(file) => file'[i] = file[i]
      BY <2>2, <2>3
    <3>2. Len(file') \in Nat
      BY <2>2, <2>3
    <3>3. FileSize(numBlocks) <= Len(file)
      BY <2>2, <2>4
    <3> QED  BY <2>2, <2>4, <2>5, <3>1, <3>2, <3>3, UnitsKept
  <2>7. /\ Upto(numBlocks)' = Upto(numBlocks)
        /\ Upto(numBlocks - 1)' = Upto(numBlocks - 1)
        /\ FileSize(numBlocks)' = FileSize(numBlocks)
        /\ At(numBlocks)' = At(numBlocks) /\ FooterSize' = FooterSize
    BY <2>5, SamePlaces
  <2>8. FooterSize = 1 /\ At(numBlocks) < Len(file') =>
          file'[At(numBlocks) + 1] =
            Frame([size |-> 0, uncompressed |-> FALSE])
    <3>1. FooterSize = 1 => At(numBlocks) = Len(file)
      BY <2>4 DEF FooterSize, FileSize
    <3>2. FooterSize = 1 => file'[Len(file) + 1] = Footer[1]
      BY <2>2, <2>3
    <3> QED  BY <1>2, <3>1, <3>2
  <2>9. Len(file)' = FileSize(numBlocks)' + FooterSize' - cut'
    BY <1>4, <2>2, <2>3, <2>4, <2>5, <2>7
  <2>10. inPos' = Len(data)' /\ data' = data
    BY <2>1, <2>5 DEF task
  <2> QED
    BY <2>4, <2>5, <2>6, <2>7, <2>8, <2>9, <2>10 DEF Complete
<1> QED
  BY <1>5, <1>6, <1>7 DEF StreamInv

-----------------------------------------------------------------------------
(* The block that is read, and the history it is compressed with           *)
ReadSize == IF preloaded > 0 THEN preloaded ELSE ReadTo(blockMax) - inPos

ReadBuffer == IF preloaded > 0 THEN WithHistory
              ELSE [p \in DOMAIN buffer |->
                      IF p < 0 THEN WithHistory[p]
                      ELSE Loaded(buffer, blockMax)[p]]

LEMMA SizeRead ==
  ASSUME StreamInv, pc = "Blocks", More, ReadSize > 0
  PROVE  /\ ReadSize = Size(numBlocks) /\ ReadSize \in 1 .. blockMax
         /\ Upto(numBlocks) \in Nat /\ Upto(numBlocks) < Len(data)
         /\ Upto(numBlocks + 1) =
              IF preloaded > 0 THEN inPos ELSE inPos + ReadSize
         /\ Upto(numBlocks + 1) = Upto(numBlocks) + ReadSize
         /\ preloaded = 0 => inPos = Upto(numBlocks)
         /\ preloaded > 0 => numBlocks = 0 /\ inPos = preloaded
<1>0. /\ Types /\ status = "OK" /\ numBlocks \in Nat /\ preloaded \in Nat
      /\ inPos \in 0 .. Len(data)
      /\ blockMax \in Nat \ {0} /\ Len(data) \in Nat
  BY Sizes DEF StreamInv, More, Types
<1>1. /\ Upto(numBlocks) = inPos - preloaded
      /\ numBlocks > 0 => preloaded = 0
      /\ preloaded > 0 => preloaded = Upto(1)
  BY <1>0 DEF StreamInv, Compressing
<1>2. /\ Upto(0) = 0 /\ Upto(numBlocks) \in 0 .. Len(data)
      /\ Upto(numBlocks + 1) = IF Upto(numBlocks) + blockMax <= Len(data)
                               THEN Upto(numBlocks) + blockMax
                               ELSE Len(data)
  BY <1>0, Blocks
<1>3. CASE preloaded > 0
  <2>1. numBlocks = 0 /\ inPos = preloaded /\ Upto(1) = preloaded
    BY <1>0, <1>1, <1>2, <1>3
  <2>2. ReadSize = preloaded
    BY <1>3 DEF ReadSize
  <2> QED
    BY <1>0, <1>2, <1>3, <2>1, <2>2 DEF Size
<1>4. CASE preloaded = 0
  <2>1. ReadTo(blockMax) = IF inPos + blockMax <= Len(data)
                           THEN inPos + blockMax ELSE Len(data)
    BY <1>0, LessOfTwo DEF ReadTo
  <2>2. ReadSize = ReadTo(blockMax) - inPos
    BY <1>4 DEF ReadSize
  <2> QED
    BY <1>0, <1>1, <1>2, <1>4, <2>1, <2>2 DEF Size
<1> QED
  BY <1>0, <1>3, <1>4

LEMMA BlockLoaded ==
  ASSUME StreamInv, pc = "Blocks", More, ReadSize > 0
  PROVE  /\ DOMAIN ReadBuffer = DOMAIN buffer
         /\ \A p \in 0 .. ReadSize - 1 :
              ReadBuffer[p] = data[Upto(numBlocks) + p + 1]
<1>0. /\ preloaded \in Nat /\ ReadSize \in 1 .. blockMax
      /\ inPos \in Nat /\ blockMax \in Nat /\ HISTORY_SIZE \in Nat
  BY SizeRead, Sizes DEF StreamInv, Types
<1>1. /\ -HISTORY_SIZE .. preloaded - 1 \subseteq DOMAIN buffer
      /\ ~inEof => -HISTORY_SIZE .. blockMax - 1 \subseteq DOMAIN buffer
      /\ \A p \in 0 .. preloaded - 1 : buffer[p] = data[p + 1]
  BY DEF StreamInv, More, Compressing, InBufferOK
<1>2. DOMAIN ReadBuffer = DOMAIN buffer
  BY DEF ReadBuffer, WithHistory
<1>3. History \in Nat
  BY Sizes DEF StreamInv, Types, History
<1>4. CASE preloaded > 0
  <2>1. ASSUME NEW p \in 0 .. ReadSize - 1
        PROVE  ReadBuffer[p] = data[Upto(numBlocks) + p + 1]
    <3>1. /\ p \in 0 .. preloaded - 1 /\ p \in DOMAIN buffer
          /\ p \notin -History .. -1
      BY <1>0, <1>1, <1>3, <1>4 DEF ReadSize
    <3>2. ReadBuffer[p] = buffer[p]
      BY <1>4, <3>1 DEF ReadBuffer, WithHistory
    <3>3. Upto(numBlocks) = 0
      BY <1>0, <1>4, SizeRead DEF StreamInv, More, Compressing
    <3> QED  BY <1>1, <3>1, <3>2, <3>3
  <2> QED  BY <1>2, <2>1
<1>5. CASE preloaded = 0
  <2>1. ~inEof /\ inPos = Upto(numBlocks)
    BY <1>5, SizeRead DEF More
  <2>2. ASSUME NEW p \in 0 .. ReadSize - 1
        PROVE  ReadBuffer[p] = data[Upto(numBlocks) + p + 1]
    <3>1. p >= 0 /\ ~(p < 0) /\ p \in DOMAIN buffer
      BY <1>0, <1>1, <2>1
    <3>2. p < ReadTo(blockMax) - inPos
      BY <1>0, <1>5 DEF ReadSize
    <3>3. ReadBuffer[p] = Loaded(buffer, blockMax)[p]
      BY <1>5, <3>1 DEF ReadBuffer
    <3>4. ReadBuffer[p] = data[inPos + p + 1]
      BY <3>1, <3>2, <3>3 DEF Loaded
    <3> QED  BY <2>1, <3>4
  <2> QED  BY <1>2, <2>2
<1> QED
  BY <1>0, <1>4, <1>5

LEMMA HistoryLoaded ==
  ASSUME StreamInv, pc = "Blocks", More, ReadSize > 0
  PROVE  /\ History \in Nat
         /\ \A p \in -History .. -1 :
              /\ Reaches(numBlocks, p)
              /\ ReadBuffer[p] = ByteAt(numBlocks, p)
<1>0. /\ blockMax \in Nat \ {0} /\ HISTORY_SIZE \in Nat
      /\ Len(dictionary) \in 0 .. HISTORY_SIZE /\ preloaded \in Nat
      /\ inPos \in Nat
  BY Sizes DEF StreamInv, Types
<1>1. /\ -HISTORY_SIZE .. preloaded - 1 \subseteq DOMAIN buffer
      /\ InBufferOK
  BY DEF StreamInv, More, Compressing
<1>2. \A p \in DOMAIN buffer : p < 0 => ReadBuffer[p] = WithHistory[p]
  BY DEF ReadBuffer
<1>3. CASE FromDictionary(numBlocks)
  <2>1. prevSize = 0 /\ dictSize = Len(dictionary)
    BY <1>1, <1>3 DEF InBufferOK
  <2>2. History = Len(dictionary)
    BY <2>1 DEF History
  <2>3. ASSUME NEW p \in -History .. -1
        PROVE  /\ Reaches(numBlocks, p)
               /\ ReadBuffer[p] = ByteAt(numBlocks, p)
    <3>1. p \in DOMAIN buffer /\ p < 0 /\ p >= -Len(dictionary)
      BY <1>0, <1>1, <2>2
    <3>2. WithHistory[p] = dictionary[Len(dictionary) + p + 1]
      BY <2>1, <2>3, <3>1 DEF WithHistory
    <3> QED
      BY <1>2, <1>3, <3>1, <3>2 DEF Reaches, ByteAt
  <2> QED  BY <1>0, <2>2, <2>3
<1>4. CASE ~FromDictionary(numBlocks)
  <2>1. /\ dictSize = 0 /\ prevSize \in 0 .. HISTORY_SIZE
        /\ prevSize = IF blockMax <= HISTORY_SIZE THEN blockMax
                      ELSE HISTORY_SIZE
        /\ \A p \in -blockMax .. -1 :
             buffer[blockMax + p] = data[inPos + p + 1]
    BY <1>0, <1>1, <1>4 DEF InBufferOK
  <2>2. History = prevSize
    BY <1>0, <2>1 DEF History
  <2>3. inPos = Upto(numBlocks)
    <3>1. numBlocks # 0
      BY <1>4 DEF FromDictionary
    <3> QED  BY <1>0, <3>1, SizeRead
  <2>4. ASSUME NEW p \in -History .. -1
        PROVE  /\ Reaches(numBlocks, p)
               /\ ReadBuffer[p] = ByteAt(numBlocks, p)
    <3>1. /\ p \in DOMAIN buffer /\ p < 0 /\ p >= -HISTORY_SIZE
          /\ p >= -blockMax /\ prevSize > 0
      <4>1. p \in -prevSize .. -1 /\ prevSize \in 0 .. HISTORY_SIZE
        BY <2>1, <2>2
      <4>2. p \in -HISTORY_SIZE .. preloaded - 1 /\ p >= -blockMax
        BY <1>0, <2>1, <4>1
      <4> QED  BY <1>0, <1>1, <4>1, <4>2
    <3>2. WithHistory[p] = buffer[blockMax + p]
      BY <2>4, <3>1 DEF WithHistory
    <3>3. WithHistory[p] = data[inPos + p + 1]
      <4>1. p \in -blockMax .. -1
        BY <1>0, <2>1, <2>2, <3>1
      <4> QED  BY <2>1, <3>2, <4>1
    <3> QED
      BY <1>2, <1>4, <2>3, <3>1, <3>3 DEF Reaches, ByteAt
  <2> QED  BY <2>1, <2>2, <2>4
<1> QED
  BY <1>3, <1>4

LEMMA DataTypes ==
  ASSUME Types, NEW k \in 1 .. Len(data)
  PROVE  data[k] \in Nat
BY Sizes, ElementOfSeq

(* Either way of writing a block down                                      *)
Holds(payload, plain) ==
  /\ payload \in Seq(Units) /\ Len(payload) = ReadSize
  /\ \A p \in 0 .. ReadSize - 1 :
       UnitOK(payload[p + 1], numBlocks, p, plain)

LEMMA BytesRead ==
  ASSUME StreamInv, pc = "Blocks", More, ReadSize > 0,
         NEW p \in 0 .. ReadSize - 1
  PROVE  ReadBuffer[p] = ByteAt(numBlocks, p) /\ ReadBuffer[p] \in Nat
<1>1. /\ ReadSize \in Nat /\ Upto(numBlocks) \in Nat /\ Len(data) \in Nat
      /\ Upto(numBlocks + 1) = Upto(numBlocks) + ReadSize
      /\ Upto(numBlocks + 1) \in 0 .. Len(data)
  <2>1. /\ Types /\ blockMax \in Nat \ {0} /\ numBlocks + 1 \in Nat
        /\ Len(data) \in Nat
    BY Sizes DEF StreamInv, Types
  <2>2. Upto(numBlocks + 1) \in 0 .. Len(data)
    BY <2>1, Blocks
  <2>3. /\ ReadSize \in Nat /\ Upto(numBlocks) \in Nat
        /\ Upto(numBlocks + 1) = Upto(numBlocks) + ReadSize
    BY <2>1, SizeRead
  <2> QED  BY <2>1, <2>2, <2>3
<1>2. Upto(numBlocks) + p + 1 \in 1 .. Len(data)
  BY <1>1
<1>3. ReadBuffer[p] = data[Upto(numBlocks) + p + 1]
  BY BlockLoaded
<1> QED
  BY <1>2, <1>3, DataTypes DEF ByteAt, StreamInv

LEMMA EncodedHolds ==
  ASSUME StreamInv, pc = "Blocks", More, ReadSize > 0,
         NEW e \in Encodings(ReadBuffer, ReadSize)
  PROVE  Holds(Encoded(ReadBuffer, e, ReadSize), FALSE)
<1> DEFINE payload == Encoded(ReadBuffer, e, ReadSize)
<1>0. ReadSize \in Nat /\ MAX_OFFSET \in Nat
  <2>1. ReadSize \in 1 .. blockMax /\ blockMax \in Nat
    BY SizeRead, Sizes DEF StreamInv
  <2> QED  BY <2>1, StreamAssumption
<1>1. ASSUME NEW p \in 0 .. ReadSize - 1
      PROVE  /\ p + 1 \in 1 .. ReadSize
             /\ payload[p + 1] = IF e[p] = 0 THEN Literal(ReadBuffer[p])
                                 ELSE Copy(e[p])
             /\ e[p] \in 0 .. MAX_OFFSET
             /\ e[p] > 0 => /\ p - e[p] >= -History
                            /\ ReadBuffer[p - e[p]] = ReadBuffer[p]
  <2>1. p + 1 \in 1 .. ReadSize /\ (p + 1) - 1 = p
    BY <1>0
  <2> QED  BY <2>1 DEF Encoded, Encodings
<1>2. ASSUME NEW p \in 0 .. ReadSize - 1
      PROVE  /\ payload[p + 1] \in Units
             /\ UnitOK(payload[p + 1], numBlocks, p, FALSE)
  <2> HIDE DEF payload
  <2>1. ReadBuffer[p] = ByteAt(numBlocks, p) /\ ReadBuffer[p] \in Nat
    BY BytesRead
  <2>2. CASE e[p] = 0
    <3>1. payload[p + 1] = Literal(ReadBuffer[p])
      BY <1>1, <2>2
    <3> QED  BY <2>1, <3>1, UnitTypes DEF UnitOK
  <2>3. CASE e[p] # 0
    <3>0. e[p] \in 1 .. MAX_OFFSET /\ p \in Int
      BY <1>0, <1>1, <2>3
    <3>1. payload[p + 1] = Copy(e[p])
      BY <1>1, <2>3
    <3>2. /\ p - e[p] >= -History /\ History \in Nat
          /\ ReadBuffer[p - e[p]] = ReadBuffer[p]
      BY <1>0, <1>1, <3>0, HistoryLoaded
    <3>3. CASE p - e[p] < 0
      <4>1. p - e[p] \in -History .. -1
        BY <3>0, <3>2, <3>3
      <4>2. /\ Reaches(numBlocks, p - e[p])
            /\ ReadBuffer[p - e[p]] = ByteAt(numBlocks, p - e[p])
        BY <4>1, HistoryLoaded
      <4> QED  BY <1>0, <2>1, <3>0, <3>1, <3>2, <4>2, UnitTypes DEF UnitOK
    <3>4. CASE p - e[p] >= 0
      <4>1. p - e[p] \in 0 .. ReadSize - 1
        BY <1>0, <3>0, <3>4
      <4>2. ReadBuffer[p - e[p]] = ByteAt(numBlocks, p - e[p])
        BY <4>1, BytesRead
      <4>3. ~(p - e[p] < 0)
        BY <3>0, <3>4
      <4> QED
        BY <1>0, <2>1, <3>0, <3>1, <3>2, <4>2, <4>3, UnitTypes DEF UnitOK
    <3>5. p - e[p] < 0 \/ p - e[p] >= 0
      BY <1>0, <3>0
    <3> QED  BY <3>3, <3>4, <3>5, Zenon
  <2> QED  BY <2>2, <2>3
<1>3. payload \in Seq(Units) /\ Len(payload) = ReadSize
  <2>1. \A k \in 1 .. ReadSize : payload[k] \in Units
    <3> TAKE k \in 1 .. ReadSize
    <3>1. k - 1 \in 0 .. ReadSize - 1 /\ (k - 1) + 1 = k
      BY <1>0
    <3> HIDE DEF payload
    <3> QED  BY <1>2, <3>1
  <2>2. payload = [k \in 1 .. ReadSize |-> payload[k]]
    BY DEF Encoded
  <2> HIDE DEF payload
  <2>3. payload \in [1 .. ReadSize -> Units]
    BY <2>1, <2>2
  <2> QED  BY <1>0, <2>3
<1> QED
  BY <1>2, <1>3 DEF Holds

LEMMA PlainHolds ==
  ASSUME StreamInv, pc = "Blocks", More, ReadSize > 0
  PROVE  Holds([k \in 1 .. ReadSize |-> Plain(ReadBuffer[k - 1])], TRUE)
<1> DEFINE payload == [k \in 1 .. ReadSize |-> Plain(ReadBuffer[k - 1])]
<1>0. ReadSize \in Nat
  BY SizeRead, Sizes DEF StreamInv
<1>1. ASSUME NEW p \in 0 .. ReadSize - 1
      PROVE  /\ payload[p + 1] \in Units
             /\ UnitOK(payload[p + 1], numBlocks, p, TRUE)
  <2>1. ReadBuffer[p] = ByteAt(numBlocks, p) /\ ReadBuffer[p] \in Nat
    BY BytesRead
  <2>2. p + 1 \in 1 .. ReadSize /\ (p + 1) - 1 = p
    BY <1>0
  <2>3. payload[p + 1] = Plain(ReadBuffer[p])
    BY <2>2
  <2> QED  BY <2>1, <2>3, UnitTypes DEF UnitOK
<1>2. payload \in Seq(Units) /\ Len(payload) = ReadSize
  <2>1. \A k \in 1 .. ReadSize : payload[k] \in Units
    <3> TAKE k \in 1 .. ReadSize
    <3>1. k - 1 \in 0 .. ReadSize - 1 /\ (k - 1) + 1 = k
      BY <1>0
    <3> HIDE DEF payload
    <3> QED  BY <1>1, <3>1
  <2>2. payload = [k \in 1 .. ReadSize |-> payload[k]]
    OBVIOUS
  <2> HIDE DEF payload
  <2>3. payload \in [1 .. ReadSize -> Units]
    BY <2>1, <2>2
  <2> QED  BY <1>0, <2>3
<1> QED
  BY <1>1, <1>2 DEF Holds

-----------------------------------------------------------------------------
(* The file with one block more                                            *)
LEMMA FramedBlock ==
  ASSUME UNCHANGED <<task, asked, blockMax, code>>, blockMax \in Nat \ {0},
         Len(data) \in Nat, file \in Seq(Units), ~Raw,
         NEW n \in Nat, UnitsOK(file, n), Len(file) = At(n),
         NEW plain \in BOOLEAN,
         NEW payload \in Seq(Units), Len(payload) = Size(n),
         \A p \in 0 .. Size(n) - 1 : UnitOK(payload[p + 1], n, p, plain),
         NEW frame \in Units,
         frame = Frame([size |-> Size(n), uncompressed |-> plain]),
         file' = file \o (<<frame>> \o payload)
  PROVE  UnitsOK(file, n + 1)' /\ Len(file') = At(n + 1)
<1>0. /\ n + 1 \in Nat /\ Upto(n) \in Nat /\ Upto(n + 1) \in Nat
      /\ Upto(n) <= Upto(n + 1) /\ HeaderSize \in Nat
  <2>1. n + 1 \in Nat /\ n <= n + 1
    OBVIOUS
  <2>2. Upto(n) \in 0 .. Len(data) /\ Upto(n + 1) \in 0 .. Len(data)
    BY <2>1, Blocks
  <2>3. Upto(n) <= Upto(n + 1)
    BY <2>1, LaterBlocks
  <2> QED  BY <2>1, <2>2, <2>3 DEF HeaderSize
<1>1. /\ Size(n) \in Nat /\ At(n) \in Nat /\ Len(file) \in Nat
      /\ At(n + 1) = At(n) + 1 + Size(n)
  <2>1. /\ Size(n) = Upto(n + 1) - Upto(n)
        /\ At(n) = HeaderSize + n + Upto(n)
        /\ At(n + 1) = HeaderSize + (n + 1) + Upto(n + 1)
    BY DEF Size, At
  <2>2. /\ Size(n) \in Nat /\ At(n) \in Nat
        /\ At(n + 1) = At(n) + 1 + Size(n)
    BY <1>0, <2>1
  <2> QED  BY <2>2
<1>2. /\ <<frame>> \o payload \in Seq(Units)
      /\ Len(<<frame>> \o payload) = 1 + Size(n)
      /\ (<<frame>> \o payload)[1] = frame
      /\ \A i \in 2 .. 1 + Size(n) :
           (<<frame>> \o payload)[i] = payload[i - 1]
  <2>1. <<frame>> \in Seq(Units) /\ Len(<<frame>>) = 1 /\ <<frame>>[1] = frame
    OBVIOUS
  <2> QED  BY <1>1, <2>1, ConcatProperties
<1>3. /\ Len(file') = At(n + 1)
      /\ \A i \in 1 .. At(n) : file'[i] = file[i]
      /\ \A i \in 1 .. 1 + Size(n) :
           file'[At(n) + i] = (<<frame>> \o payload)[i]
  <2> DEFINE units == <<frame>> \o payload
  <2> HIDE DEF units
  <2>1. /\ Len(file \o units) = Len(file) + Len(units)
        /\ \A i \in 1 .. Len(file) + Len(units) :
             (file \o units)[i] = IF i <= Len(file) THEN file[i]
                                  ELSE units[i - Len(file)]
    <3>1. units \in Seq(Units)
      BY <1>2 DEF units
    <3> QED  BY <3>1, ConcatProperties
  <2>2. file' = file \o units /\ Len(units) = 1 + Size(n)
    BY <1>2 DEF units
  <2>3. ASSUME NEW i \in 1 .. 1 + Size(n)
        PROVE  file'[At(n) + i] = units[i]
    <3>1. /\ At(n) + i \in 1 .. Len(file) + Len(units)
          /\ ~(At(n) + i <= Len(file)) /\ At(n) + i - Len(file) = i
      <4>1. At(n) \in Nat /\ Len(file) = At(n) /\ Len(units) = 1 + Size(n)
        BY <1>1, <2>2
      <4> QED  BY <1>1, <4>1
    <3> DEFINE k == At(n) + i
    <3> HIDE DEF k
    <3>a. k \in 1 .. Len(file) + Len(units) /\ ~(k <= Len(file))
      BY <3>1 DEF k
    <3>b. (file \o units)[k] = units[k - Len(file)]
      BY <2>1, <3>a
    <3>2. (file \o units)[At(n) + i] = units[At(n) + i - Len(file)]
      BY <3>b DEF k
    <3> QED  BY <2>2, <3>1, <3>2, Zenon
  <2>4. ASSUME NEW i \in 1 .. At(n)  PROVE file'[i] = file[i]
    BY <1>1, <2>1, <2>2
  <2>5. Len(file') = At(n + 1)
    <3>1. Len(file') = Len(file) + Len(units)
      BY <2>1, <2>2, Zenon
    <3> QED  BY <1>1, <2>2, <3>1
  <2> QED  BY <2>3, <2>4, <2>5 DEF units
<1>4. UnitsOK(file, n)'
  <2>1. \A i \in 1 .. Len(file') : i <= Len(file) => file'[i] = file[i]
    BY <1>1, <1>3
  <2>2. Len(file') \in Nat /\ FileSize(n) <= Len(file)
    BY <1>1, <1>3 DEF FileSize
  <2> QED  BY <1>1, <2>1, <2>2, UnitsKept
<1>5. BlockOK(file, n)'
  <2>1. /\ At(n)' = At(n) /\ Size(n)' = Size(n)
        /\ file'[At(n) + 1] =
             Frame([size |-> Size(n), uncompressed |-> plain])
    <3>1. file'[At(n) + 1] = frame
      <4>1. 1 \in 1 .. 1 + Size(n)
        BY <1>1
      <4> QED  BY <1>2, <1>3, <4>1
    <3> QED  BY <3>1, SamePlaces
  <2>2. ASSUME NEW p \in 0 .. Size(n) - 1
        PROVE  UnitOK(file[At(n) + 2 + p], n, p, plain)'
    <3>1. /\ p + 2 \in 1 .. 1 + Size(n) /\ p + 2 \in 2 .. 1 + Size(n)
          /\ p + 2 - 1 = p + 1 /\ At(n) + (p + 2) = At(n) + 2 + p
      BY <1>1
    <3>2. (<<frame>> \o payload)[p + 2] = payload[p + 1]
      BY <1>2, <3>1
    <3>3. file'[At(n) + (p + 2)] = (<<frame>> \o payload)[p + 2]
      BY <1>3, <3>1
    <3>4. file'[At(n)' + 2 + p] = payload[p + 1]
      BY <2>1, <3>1, <3>2, <3>3
    <3>5. UnitOK(payload[p + 1], n, p, plain)
      OBVIOUS
    <3>6. UnitOK(payload[p + 1], n, p, plain)'
      BY <3>5, SameUnit
    <3> QED  BY <3>4, <3>6
  <2> QED  BY <2>1, <2>2 DEF BlockOK
<1>6. UnitsOK(file, n + 1)'
  <2>1. HeaderOK(file)' /\ \A j \in 0 .. n - 1 : BlockOK(file, j)'
    <3>1. Raw' = Raw
      BY SamePlaces
    <3> QED  BY <1>4, <3>1 DEF UnitsOK
  <2>2. \A j \in 0 .. (n + 1) - 1 : j = n \/ j \in 0 .. n - 1
    OBVIOUS
  <2>3. \A j \in 0 .. (n + 1) - 1 : BlockOK(file, j)'
    BY <1>5, <2>1, <2>2
  <2> QED  BY <2>1, <2>3, SamePlaces DEF UnitsOK
<1> QED
  BY <1>3, <1>6

LEMMA RawBlock ==
  ASSUME UNCHANGED <<task, asked, blockMax, code>>, blockMax \in Nat \ {0},
         Len(data) \in Nat, Raw, Upto(1) <= RAW_MAX,
         NEW payload \in Seq(Units), Len(payload) = Upto(1),
         \A p \in 0 .. Upto(1) - 1 : UnitOK(payload[p + 1], 0, p, FALSE),
         file' = payload \o <<Zero, Zero>>
  PROVE  UnitsOK(file, 1)' /\ Len(file') = FileSize(1)
<1>1. /\ Len(file') = Upto(1) + 2 /\ Upto(1) \in Nat
      /\ \A i \in 1 .. Upto(1) : file'[i] = payload[i]
  <2>1. <<Zero, Zero>> \in Seq(Units) /\ Len(<<Zero, Zero>>) = 2
    BY UnitTypes
  <2>2. Len(payload) \in Nat
    BY LenProperties
  <2> DEFINE two == <<Zero, Zero>>
  <2> HIDE DEF two
  <2>3. two \in Seq(Units) /\ Len(two) = 2 /\ file' = payload \o two
    BY <2>1 DEF two
  <2> QED  BY <2>2, <2>3, ConcatProperties
<1>2. ASSUME NEW p \in 0 .. Upto(1) - 1
      PROVE  UnitOK(file[p + 1], 0, p, FALSE)'
  <2>1. p + 1 \in 1 .. Upto(1)
    BY <1>1
  <2>2. file'[p + 1] = payload[p + 1] /\ UnitOK(payload[p + 1], 0, p, FALSE)
    BY <1>1, <2>1
  <2>3. UnitOK(payload[p + 1], 0, p, FALSE)'
    BY <2>2, SameUnit
  <2> QED  BY <2>2, <2>3
<1>3. Raw' /\ Upto(1)' = Upto(1)
  BY SamePlaces
<1>4. UnitsOK(file, 1)'
  <2>1. \A p \in 0 .. Upto(1)' - 1 : UnitOK(file[p + 1], 0, p, FALSE)'
    BY <1>2, <1>3
  <2>2. Upto(1)' <= RAW_MAX /\ 1 <= 1
    BY <1>3
  <2>3. RawOK(file, 1)'
    BY <2>1, <2>2, Zenon DEF RawOK
  <2> QED  BY <1>3, <2>3 DEF UnitsOK
<1>5. Len(file') = FileSize(1)
  BY <1>1 DEF FileSize
<1> QED
  BY <1>4, <1>5

-----------------------------------------------------------------------------
(* A block that is written, or not, keeps the invariant.                   *)
FileHolds == /\ file' \in Seq(Units)
             /\ status' \in {"OK", "ERROR_DST"}
             /\ status' = "OK" => /\ UnitsOK(file, numBlocks)'
                                  /\ Len(file)' = FileSize(numBlocks)'

LEMMA FramedWritten ==
  ASSUME StreamInv, pc = "Blocks", More, ReadSize > 0, RAW \notin flags,
         UNCHANGED <<task, asked, blockMax, code>>,
         numBlocks' = numBlocks + 1,
         NEW plain \in BOOLEAN, NEW payload, Holds(payload, plain),
         NEW frame,
         frame = Frame([size |-> ReadSize, uncompressed |-> plain]),
         Write(<<frame>> \o payload)
  PROVE  FileHolds
<1>0. /\ Types /\ Compressing /\ status = "OK" /\ blockMax \in Nat \ {0}
      /\ Len(data) \in Nat /\ file \in Seq(Units) /\ numBlocks \in Nat
  BY Sizes DEF StreamInv, More, Types
<1>1. ~Raw
  BY DEF StreamInv, FlagsOK, Raw
<1>2. ReadSize = Size(numBlocks) /\ ReadSize \in Nat
  BY <1>0, SizeRead
<1>3. frame \in Units
  BY <1>2, UnitTypes
<1>4. <<frame>> \o payload \in Seq(Units)
  <2>1. <<frame>> \in Seq(Units) /\ payload \in Seq(Units)
    BY <1>3 DEF Holds
  <2> QED  BY <2>1, ConcatProperties
<1>5. /\ file' \in Seq(Units) /\ status' \in {"OK", "ERROR_DST"}
      /\ status' = "OK" => file' = file \o (<<frame>> \o payload)
  BY <1>0, <1>4, Writes
<1>6. ASSUME status' = "OK"
      PROVE  UnitsOK(file, numBlocks)' /\ Len(file)' = FileSize(numBlocks)'
  <2>1. PICK n \in Nat : n = numBlocks
    BY <1>0
  <2>2. UnitsOK(file, n) /\ Len(file) = At(n)
    BY <1>0, <1>1, <2>1 DEF Compressing, FileSize
  <2>3. /\ payload \in Seq(Units) /\ Len(payload) = Size(n)
        /\ \A p \in 0 .. Size(n) - 1 : UnitOK(payload[p + 1], n, p, plain)
        /\ frame = Frame([size |-> Size(n), uncompressed |-> plain])
    BY <1>2, <2>1 DEF Holds
  <2>4. UnitsOK(file, n + 1)' /\ Len(file') = At(n + 1)
    BY <1>0, <1>1, <1>3, <1>5, <1>6, <2>2, <2>3, FramedBlock
  <2>5. FileSize(n + 1)' = At(n + 1)
    BY <1>1, SamePlaces DEF FileSize
  <2>6. numBlocks' = n + 1
    BY <2>1
  <2> QED  BY <2>4, <2>5, <2>6
<1> QED
  BY <1>5, <1>6 DEF FileHolds

LEMMA RawWritten ==
  ASSUME StreamInv, pc = "Blocks", More, ReadSize > 0, RAW \in flags,
         numBlocks = 0, ReadSize <= RAW_MAX,
         UNCHANGED <<task, asked, blockMax, code>>,
         numBlocks' = numBlocks + 1,
         NEW payload, Holds(payload, FALSE),
         Write(payload \o <<Zero, Zero>>)
  PROVE  FileHolds
<1>0. /\ Types /\ Compressing /\ status = "OK" /\ blockMax \in Nat \ {0}
      /\ Len(data) \in Nat /\ file \in Seq(Units)
  BY Sizes DEF StreamInv, More, Types
<1>1. Raw
  BY DEF StreamInv, FlagsOK, Raw, RAW, INDEP
<1>2. ReadSize = Upto(1) /\ ReadSize \in Nat /\ Upto(0) = 0
  <2>1. /\ ReadSize = Size(0) /\ ReadSize \in Nat /\ Upto(0) = 0
        /\ Upto(1) \in 0 .. Len(data)
    BY <1>0, SizeRead, Blocks
  <2> QED  BY <2>1 DEF Size
<1>3. payload \o <<Zero, Zero>> \in Seq(Units)
  <2>1. <<Zero, Zero>> \in Seq(Units) /\ payload \in Seq(Units)
    BY UnitTypes DEF Holds
  <2> QED  BY <2>1, ConcatProperties
<1>4. /\ file' \in Seq(Units) /\ status' \in {"OK", "ERROR_DST"}
      /\ status' = "OK" => file' = file \o (payload \o <<Zero, Zero>>)
  BY <1>0, <1>3, Writes
<1>5. ASSUME status' = "OK"
      PROVE  UnitsOK(file, numBlocks)' /\ Len(file)' = FileSize(numBlocks)'
  <2>1. file = <<>>
    <3>1. Len(file) = 0
      BY <1>0, <1>1 DEF Compressing, FileSize
    <3> QED  BY <1>0, <3>1, EmptySeq
  <2>2. file' = payload \o <<Zero, Zero>>
    BY <1>3, <1>4, <1>5, <2>1, ConcatEmptySeq
  <2>3. /\ payload \in Seq(Units) /\ Len(payload) = Upto(1)
        /\ \A p \in 0 .. Upto(1) - 1 : UnitOK(payload[p + 1], 0, p, FALSE)
    BY <1>2 DEF Holds
  <2>4. UnitsOK(file, 1)' /\ Len(file') = FileSize(1)
    BY <1>0, <1>1, <1>2, <2>2, <2>3, RawBlock
  <2>5. FileSize(1)' = FileSize(1) /\ numBlocks' = 1
    BY SamePlaces
  <2> QED  BY <2>4, <2>5
<1> QED
  BY <1>4, <1>5 DEF FileHolds

LEMMA BlockWrites ==
  ASSUME Expressible, StreamInv, Block, UNCHANGED asked
  PROVE  /\ pc = "Blocks" /\ More /\ ReadSize > 0 /\ pc' = "Blocks"
         /\ UNCHANGED <<task, flags, blockMax, code>>
         /\ buffer' = ReadBuffer /\ preloaded' = 0
         /\ inPos' = IF preloaded > 0 THEN inPos ELSE inPos + ReadSize
         /\ inEof' = IF preloaded > 0 THEN inEof ELSE IsShort(blockMax)
         /\ file' \in Seq(Units) /\ frameData' \in Units
         /\ dictSize' \in {0, dictSize}
         /\ \/ /\ status' \in {"ERROR_RAW_TOOLARGE",
                               "ERROR_RAW_UNCOMPRESSED"}
               /\ UNCHANGED <<prevSize, numBlocks>>
            \/ /\ FileHolds
               /\ prevSize' = Kept(ReadSize)
               /\ numBlocks' = numBlocks + 1
               /\ dictSize' = IF INDEP \in flags THEN dictSize ELSE 0
<1>1. /\ pc = "Blocks" /\ More /\ ReadSize > 0 /\ pc' = "Blocks"
      /\ UNCHANGED <<task, flags, blockMax, code>>
      /\ buffer' = ReadBuffer /\ preloaded' = 0
      /\ inPos' = IF preloaded > 0 THEN inPos ELSE inPos + ReadSize
      /\ inEof' = IF preloaded > 0 THEN inEof ELSE IsShort(blockMax)
  BY DEF Block, ReadSize, ReadBuffer
<1>2. \/ NoRaw("ERROR_RAW_TOOLARGE") /\ UNCHANGED dictSize
      \/ /\ ~(RAW \in flags /\ (numBlocks > 0 \/ ReadSize > RAW_MAX))
         /\ dictSize' = IF INDEP \in flags THEN dictSize ELSE 0
         /\ \/ NoRaw("ERROR_RAW_UNCOMPRESSED")
            \/ /\ \/ WriteCompressed(ReadBuffer, ReadSize)
                  \/ /\ SomeUncompressible /\ RAW \notin flags
                     /\ WriteUncompressed(ReadBuffer, ReadSize)
               /\ prevSize' = Kept(ReadSize)
               /\ numBlocks' = numBlocks + 1
  BY DEF Block, ReadSize, ReadBuffer
<1>3. Types /\ file \in Seq(Units) /\ frameData \in Units
  BY DEF StreamInv, Types
<1>4. ASSUME NEW error \in {"ERROR_RAW_TOOLARGE", "ERROR_RAW_UNCOMPRESSED"},
             NoRaw(error)
      PROVE  /\ file' \in Seq(Units) /\ frameData' \in Units
             /\ status' = error
             /\ UNCHANGED <<prevSize, numBlocks>>
  BY <1>3, <1>4 DEF NoRaw
<1>5. ASSUME numBlocks' = numBlocks + 1,
             ~(RAW \in flags /\ (numBlocks > 0 \/ ReadSize > RAW_MAX)),
             WriteCompressed(ReadBuffer, ReadSize)
      PROVE  FileHolds /\ frameData' \in Units
  <2>1. PICK e \in Encodings(ReadBuffer, ReadSize) :
          LET payload == Encoded(ReadBuffer, e, ReadSize)
          IN  IF RAW \in flags
              THEN Write(payload \o <<Zero, Zero>>) /\ UNCHANGED frameData
              ELSE /\ Write(CompressedFrame(ReadSize) \o payload)
                   /\ frameData' = Last(CompressedFrame(ReadSize))
    BY <1>5 DEF WriteCompressed
  <2> DEFINE payload == Encoded(ReadBuffer, e, ReadSize)
             frame == Frame([size |-> ReadSize, uncompressed |-> FALSE])
  <2>2. Holds(payload, FALSE)
    BY <1>1, EncodedHolds
  <2>3. CompressedFrame(ReadSize) = <<frame>> /\ Last(<<frame>>) = frame
    BY DEF CompressedFrame, Last
  <2>4. ReadSize \in Nat /\ numBlocks \in Nat /\ RAW_MAX \in Nat
    <3>1. ReadSize \in 1 .. blockMax /\ blockMax \in Nat
      BY <1>1, <1>3, SizeRead, Sizes
    <3> QED  BY <1>3, <3>1, StreamAssumption DEF Types
  <2>5. frame \in Units
    BY <2>4, UnitTypes
  <2>6. CASE RAW \in flags
    <3>1. Write(payload \o <<Zero, Zero>>) /\ UNCHANGED frameData
      BY <2>1, <2>6
    <3>2. numBlocks = 0 /\ ReadSize <= RAW_MAX
      BY <1>5, <2>4, <2>6
    <3> HIDE DEF payload, frame
    <3> QED  BY <1>1, <1>3, <1>5, <2>2, <2>6, <3>1, <3>2, RawWritten
  <2>7. CASE RAW \notin flags
    <3>1. Write(<<frame>> \o payload) /\ frameData' = frame
      BY <2>1, <2>3, <2>7
    <3>2. FileHolds
      <4> HIDE DEF payload
      <4> QED  BY <1>1, <1>5, <2>2, <2>7, <3>1, FramedWritten
    <3> QED  BY <2>5, <3>1, <3>2
  <2> QED  BY <2>6, <2>7
<1>6. ASSUME numBlocks' = numBlocks + 1, SomeUncompressible,
             RAW \notin flags, WriteUncompressed(ReadBuffer, ReadSize)
      PROVE  FileHolds /\ frameData' \in Units
  <2> DEFINE payload == [k \in 1 .. ReadSize |-> Plain(ReadBuffer[k - 1])]
             frame == Frame([size |-> ReadSize, uncompressed |-> TRUE])
  <2>1. LEGACY \notin flags
    <3>1. asked \in FlagSets /\ flags = IF Legacy THEN asked \union {INDEP}
                                        ELSE asked
      BY <1>1, <1>3 DEF Types, StreamInv, FlagsOK
    <3> QED
      BY <1>6, <3>1 DEF Expressible, Legacy
  <2>2. Holds(payload, TRUE)
    BY <1>1, PlainHolds
  <2>3. Write(<<frame>> \o payload) /\ frameData' = frame
    BY <1>6, <2>1 DEF WriteUncompressed, UncompressedFrame
  <2>4. frame \in Units
    <3>1. ReadSize \in Nat
      BY <1>1, <1>3, SizeRead, Sizes
    <3> QED  BY <3>1, UnitTypes
  <2>5. FileHolds
    <3> HIDE DEF payload
    <3> QED  BY <1>1, <1>6, <2>2, <2>3, FramedWritten
  <2> QED  BY <2>3, <2>4, <2>5
<1>7. FileHolds => file' \in Seq(Units)
  BY DEF FileHolds
<1> QED
  BY <1>1, <1>2, <1>4, <1>5, <1>6, <1>7

LEMMA BlockTypes ==
  ASSUME Expressible, StreamInv, Block, UNCHANGED <<expanding, asked, cut>>
  PROVE  Types'
<1>0. /\ Types /\ blockMax \in Nat \ {0} /\ Len(data) \in Nat
      /\ HISTORY_SIZE \in Nat /\ numBlocks \in Nat
      /\ inPos \in 0 .. Len(data) /\ outPos = 0
      /\ pc = "Blocks" /\ More /\ ReadSize > 0
  BY BlockWrites, Sizes DEF StreamInv, Types, NotExpanded
<1>1. /\ data' \in Datas /\ dictionary' \in Dictionaries
      /\ asked' \in FlagSets /\ code' \in MIN_CODE .. MAX_CODE
      /\ blockMax' = IF Legacy' THEN LEGACY_BLOCK_SIZE ELSE BlockSize(code')
      /\ dictSize' \in {0, Len(dictionary)'} /\ preloaded' \in Nat
  BY <1>0, BlockWrites DEF Types, task, Legacy
<1>2. file' \in Seq(Units) /\ frameData' \in Units /\ Len(file') \in Nat
  BY BlockWrites, LenProperties
<1>3. inPos' \in 0 .. Len(data)'
  <2>1. inPos' = Upto(numBlocks + 1)
    BY <1>0, BlockWrites, SizeRead
  <2>2. numBlocks + 1 \in Nat
    BY <1>0
  <2>3. Upto(numBlocks + 1) \in 0 .. Len(data)
    BY <1>0, <2>2, Blocks
  <2> QED  BY <2>1, <2>3, BlockWrites DEF task
<1>4. Kept(ReadSize) \in 0 .. HISTORY_SIZE
  <2>1. ReadSize \in Nat
    BY <1>0, SizeRead
  <2> QED  BY <1>0, <2>1, LessOfTwo DEF Kept
<1>5. /\ prevSize' \in 0 .. HISTORY_SIZE /\ numBlocks' \in Nat
      /\ status' \in {"OK", "ERROR_DST", "ERROR_RAW_TOOLARGE",
                      "ERROR_RAW_UNCOMPRESSED"}
  <2>1. prevSize \in 0 .. HISTORY_SIZE
    BY <1>0 DEF Types
  <2>2. CASE FileHolds /\ prevSize' = Kept(ReadSize)
             /\ numBlocks' = numBlocks + 1
    BY <1>0, <1>4, <2>2 DEF FileHolds
  <2>3. CASE /\ status' \in {"ERROR_RAW_TOOLARGE",
                              "ERROR_RAW_UNCOMPRESSED"}
             /\ UNCHANGED <<prevSize, numBlocks>>
    BY <1>0, <2>1, <2>3
  <2> QED  BY <2>2, <2>3, BlockWrites
<1>6. /\ outPos' \in 0 .. Len(file)' /\ outBlocks' \in Nat
      /\ output' \in Seq(Nat) /\ outPrev' \in 0 .. HISTORY_SIZE
      /\ outDict' \in {0, Len(dictionary)'} /\ cut' \in Nat
      /\ outMax' \in {0, blockMax', BlockSize(MAX_CODE)}
  BY <1>0, <1>2, BlockWrites DEF Types, task, expanding
<1> QED
  BY <1>1, <1>2, <1>3, <1>5, <1>6 DEF Types

(* What is left in the buffer is history for the next block.               *)
LEMMA NextHistory ==
  ASSUME Expressible, StreamInv, Block, UNCHANGED <<expanding, asked, cut>>,
         status' = "OK", More'
  PROVE  InBufferOK'
<1>0. /\ Types /\ blockMax \in Nat \ {0} /\ Len(data) \in Nat
      /\ HISTORY_SIZE \in Nat /\ numBlocks \in Nat /\ preloaded \in Nat
      /\ inPos \in 0 .. Len(data) /\ status = "OK"
      /\ pc = "Blocks" /\ More /\ ReadSize > 0
  BY BlockWrites, Sizes DEF StreamInv, Types, More
<1>1. /\ UNCHANGED <<task, flags, blockMax, code, asked>>
      /\ buffer' = ReadBuffer /\ preloaded' = 0
      /\ inEof' = IF preloaded > 0 THEN inEof ELSE IsShort(blockMax)
      /\ prevSize' = Kept(ReadSize) /\ numBlocks' = numBlocks + 1
      /\ dictSize' = IF INDEP \in flags THEN dictSize ELSE 0
  BY BlockWrites
<1>2. /\ ReadSize \in 1 .. blockMax /\ Upto(numBlocks) \in Nat
      /\ inPos' = Upto(numBlocks) + ReadSize
      /\ preloaded = 0 => inPos = Upto(numBlocks)
  <2>1. /\ ReadSize \in 1 .. blockMax /\ Upto(numBlocks) \in Nat
        /\ Upto(numBlocks + 1) =
             IF preloaded > 0 THEN inPos ELSE inPos + ReadSize
        /\ Upto(numBlocks + 1) = Upto(numBlocks) + ReadSize
        /\ preloaded = 0 => inPos = Upto(numBlocks)
    BY <1>0, SizeRead
  <2>2. inPos' = IF preloaded > 0 THEN inPos ELSE inPos + ReadSize
    BY BlockWrites
  <2> QED  BY <2>1, <2>2
<1>3. ReadSize = blockMax
  <2>1. ~inEof'
    BY <1>1 DEF More
  <2>2. CASE preloaded > 0
    BY <1>0, <1>1, <2>1, <2>2 DEF ReadSize, StreamInv, Compressing
  <2>3. CASE preloaded = 0
    <3>0. ~IsShort(blockMax)
      BY <1>0, <1>1, <2>1, <2>3
    <3>1. inPos + blockMax <= Len(data)
      BY <1>0, <3>0 DEF IsShort
    <3>2. ReadTo(blockMax) = inPos + blockMax
      BY <1>0, <3>1, LessOfTwo DEF ReadTo
    <3> QED  BY <1>0, <2>3, <3>2 DEF ReadSize
  <2> QED  BY <1>0, <2>2, <2>3
<1>4. INDEP \in flags <=> Alone
  BY <1>0 DEF StreamInv, FlagsOK, Alone, Legacy, INDEP, LEGACY
<1>5. FromDictionary(numBlocks)' <=> Alone
  <2>1. Alone' = Alone /\ numBlocks' # 0
    BY <1>0, <1>1, SamePlaces
  <2> QED  BY <2>1 DEF FromDictionary
<1>6. CASE Alone
  <2>1. prevSize' = 0 /\ dictSize' = dictSize
    BY <1>1, <1>4, <1>6 DEF Kept
  <2>2. dictSize = Len(dictionary)
    BY <1>0, <1>6 DEF StreamInv, Compressing, InBufferOK, FromDictionary
  <2> QED
    BY <1>0, <1>1, <1>5, <1>6, <2>1, <2>2 DEF InBufferOK, task
<1>7. CASE ~Alone
  <2>1. dictSize' = 0 /\ inPos' >= blockMax'
    BY <1>0, <1>1, <1>2, <1>3, <1>4, <1>7
  <2>2. prevSize' = IF blockMax' <= HISTORY_SIZE THEN blockMax'
                    ELSE HISTORY_SIZE
    BY <1>0, <1>1, <1>3, <1>4, <1>7, LessOfTwo DEF Kept
  <2>3. ASSUME NEW p \in -blockMax .. -1
        PROVE  buffer'[blockMax + p] = data[inPos' + p + 1]
    <3>1. blockMax + p \in 0 .. ReadSize - 1
      BY <1>0, <1>3
    <3>2. ReadBuffer[blockMax + p] =
            data[Upto(numBlocks) + (blockMax + p) + 1]
      BY <1>0, <3>1, BlockLoaded
    <3>3. Upto(numBlocks) + (blockMax + p) + 1 = inPos' + p + 1
      BY <1>0, <1>2, <1>3
    <3> QED  BY <1>1, <3>2, <3>3
  <2> QED
    BY <1>1, <1>5, <1>7, <2>1, <2>2, <2>3 DEF InBufferOK, task
<1> QED
  BY <1>6, <1>7

LEMMA BlockCompressed ==
  ASSUME Expressible, StreamInv, Block, UNCHANGED <<expanding, asked, cut>>
  PROVE  StreamInv'
<1>0. /\ Types /\ blockMax \in Nat \ {0} /\ Len(data) \in Nat
      /\ HISTORY_SIZE \in Nat /\ numBlocks \in Nat /\ preloaded \in Nat
      /\ inPos \in 0 .. Len(data) /\ status = "OK"
      /\ pc = "Blocks" /\ More /\ ReadSize > 0
  BY BlockWrites, Sizes DEF StreamInv, Types, More
<1>1. FlagsOK'
  BY <1>0, BlockWrites DEF StreamInv, FlagsOK, Legacy
<1>2. Compressing'
  <2> SUFFICES ASSUME status' = "OK"
      PROVE /\ Len(file)' = FileSize(numBlocks)' /\ UnitsOK(file, numBlocks)'
            /\ Upto(numBlocks)' = inPos' - preloaded'
            /\ numBlocks' > 0 => /\ preloaded' = 0
                                 /\ Upto(numBlocks - 1)' < Len(data)'
            /\ ~(preloaded' > 0)
            /\ inEof' => inPos' = Len(data)'
            /\ -HISTORY_SIZE .. preloaded' - 1 \subseteq DOMAIN buffer'
            /\ ~inEof' =>
                 -HISTORY_SIZE .. blockMax' - 1 \subseteq DOMAIN buffer'
            /\ More' => InBufferOK'
    BY DEF Compressing
  <2>1. /\ UNCHANGED <<task, flags, blockMax, code, asked>>
        /\ buffer' = ReadBuffer /\ preloaded' = 0
        /\ inPos' = IF preloaded > 0 THEN inPos ELSE inPos + ReadSize
        /\ inEof' = IF preloaded > 0 THEN inEof ELSE IsShort(blockMax)
        /\ numBlocks' = numBlocks + 1 /\ FileHolds
    BY BlockWrites
  <2>2. /\ Upto(numBlocks + 1) = inPos' /\ Upto(numBlocks) < Len(data)
        /\ inPos' \in Nat
    <3>1. numBlocks + 1 \in Nat
      BY <1>0
    <3>2. Upto(numBlocks + 1) \in 0 .. Len(data)
      BY <1>0, <3>1, Blocks
    <3> QED  BY <1>0, <2>1, <3>2, SizeRead
  <2>3. /\ Upto(numBlocks)' = inPos' - preloaded'
        /\ Upto(numBlocks - 1)' < Len(data)'
    <3>2. numBlocks' - 1 = numBlocks
      BY <1>0, <2>1
    <3>3. /\ Upto(numBlocks)' = Upto(numBlocks + 1)
          /\ Upto(numBlocks - 1)' = Upto(numBlocks)
      BY <2>1, <3>2 DEF Upto, task
    <3> QED  BY <2>1, <2>2, <3>3 DEF task
  <2>4. inEof' => inPos' = Len(data)'
    <3>1. CASE preloaded > 0
      BY <1>0, <2>1, <3>1 DEF StreamInv, Compressing, task
    <3>2. CASE preloaded = 0
      <4>1. ReadTo(blockMax) = IF inPos + blockMax <= Len(data)
                               THEN inPos + blockMax ELSE Len(data)
        BY <1>0, LessOfTwo DEF ReadTo
      <4>2. inPos' = ReadTo(blockMax)
        BY <1>0, <2>1, <3>2, <4>1 DEF ReadSize
      <4>3. inEof' => IsShort(blockMax)
        BY <1>0, <2>1, <3>2
      <4>4. IsShort(blockMax) => ReadTo(blockMax) = Len(data)
        BY <1>0, <4>1 DEF IsShort
      <4> QED  BY <2>1, <4>2, <4>3, <4>4 DEF task
    <3> QED  BY <1>0, <3>1, <3>2
  <2>5. /\ -HISTORY_SIZE .. preloaded' - 1 \subseteq DOMAIN buffer'
        /\ ~inEof' =>
             -HISTORY_SIZE .. blockMax' - 1 \subseteq DOMAIN buffer'
    <3>1. DOMAIN buffer' = DOMAIN buffer
      BY <1>0, <2>1, BlockLoaded
    <3>2. -HISTORY_SIZE .. preloaded - 1 \subseteq DOMAIN buffer
      BY <1>0 DEF StreamInv, Compressing
    <3>3. ~inEof' => -HISTORY_SIZE .. blockMax - 1 \subseteq DOMAIN buffer
      BY <1>0, <2>1 DEF StreamInv, Compressing, More
    <3>4. -HISTORY_SIZE .. -1 \subseteq -HISTORY_SIZE .. preloaded - 1
      BY <1>0
    <3> QED  BY <2>1, <3>1, <3>2, <3>3, <3>4
  <2>6. More' => InBufferOK'
    BY NextHistory
  <2> QED
    BY <2>1, <2>3, <2>4, <2>5, <2>6 DEF FileHolds
<1>3. Types' /\ pc' = "Blocks" /\ UNCHANGED task
  BY BlockTypes, BlockWrites
<1> QED
  BY <1>0, <1>1, <1>2, <1>3, OnlyCompressing

-----------------------------------------------------------------------------
(* The file that has lost its end                                          *)
LEMMA StartKept ==
  ASSUME NEW U, NEW units \in Seq(U), NEW n \in 0 .. Len(units)
  PROVE  /\ Short(units, n) \in Seq(U)
         /\ Len(Short(units, n)) = Len(units) - n
         /\ \A i \in 1 .. Len(units) - n : Short(units, n)[i] = units[i]
<1>0. Len(units) \in Nat
  BY LenProperties
<1>1. \A i \in 1 .. Len(units) - n : units[i] \in U
  BY <1>0, ElementOfSeq
<1>2. Len(units) - n \in Nat
  BY <1>0
<1> QED
  BY <1>0, <1>1, <1>2, SubSeqProperties DEF Short

LEMMA EndLost ==
  ASSUME Types, pc # "Open", NEW most \in Nat, FileLoses(most),
         UNCHANGED <<task, asked, blockMax, code, numBlocks>>
  PROVE  /\ file' \in Seq(Units) /\ Len(file') \in Nat
         /\ cut' \in Nat /\ cut' <= cut + most
         /\ Complete => Complete'
<1>0. /\ file \in Seq(Units) /\ Len(file) \in Nat /\ Len(data) \in Nat
      /\ blockMax \in Nat \ {0} /\ numBlocks \in Nat /\ cut \in Nat
  BY Sizes DEF Types
<1>a. Min({most, Len(file)}) =
        IF most <= Len(file) THEN most ELSE Len(file)
  <2>1. most \in Int /\ Len(file) \in Int
    BY <1>0
  <2> QED  BY <2>1, LessOfTwo
<1>1. PICK n \in 0 .. Min({most, Len(file)}) :
        cut' = cut + n /\ file' = Short(file, n)
  BY DEF FileLoses
<1>2. n \in 0 .. Len(file) /\ n <= most
  BY <1>0, <1>a, <1>1
<1>3. /\ file' \in Seq(Units) /\ Len(file') = Len(file) - n
      /\ Len(file') \in Nat
      /\ \A i \in 1 .. Len(file') : file'[i] = file[i]
  <2>1. /\ Short(file, n) \in Seq(Units)
        /\ Len(Short(file, n)) = Len(file) - n
        /\ \A i \in 1 .. Len(file) - n : Short(file, n)[i] = file[i]
    BY <1>0, <1>2, StartKept
  <2>2. Len(file) - n \in Nat
    BY <1>0, <1>2
  <2> QED  BY <1>1, <2>1, <2>2
<1>4. cut' \in Nat /\ cut' <= cut + most
  BY <1>0, <1>1, <1>2
<1>5. ASSUME Complete  PROVE Complete'
  <2>1. PICK m \in Nat : m = numBlocks
    BY <1>0
  <2>2. /\ FileSize(m) \in Nat /\ At(m) \in Nat /\ FooterSize \in {0, 1}
    <3>1. Upto(m) \in Nat /\ Upto(1) \in Nat
      <4>1. 1 \in Nat
        OBVIOUS
      <4>2. Upto(m) \in 0 .. Len(data) /\ Upto(1) \in 0 .. Len(data)
        BY <1>0, <4>1, Blocks
      <4> QED  BY <4>2, <1>0
    <3> QED  BY <3>1 DEF FileSize, At, HeaderSize, FooterSize
  <2>3. UnitsOK(file, m)'
    <3>1. UnitsOK(file, m) /\ Len(file') <= Len(file)
      BY <1>0, <1>2, <1>3, <1>5, <2>1 DEF Complete
    <3> QED  BY <1>0, <1>3, <3>1, UnitsKept
  <2>4. UnitsOK(file, numBlocks)'
    BY <2>1, <2>3
  <2>5. /\ Upto(numBlocks)' = Upto(numBlocks)
        /\ Upto(numBlocks - 1)' = Upto(numBlocks - 1)
        /\ FileSize(numBlocks)' = FileSize(numBlocks)
        /\ At(numBlocks)' = At(numBlocks) /\ FooterSize' = FooterSize
    BY SamePlaces
  <2>6. Len(file)' = FileSize(numBlocks)' + FooterSize' - cut'
    <3>1. Len(file) = FileSize(m) + FooterSize - cut
      BY <1>5, <2>1 DEF Complete
    <3>2. Len(file') = FileSize(m) + FooterSize - (cut + n)
      BY <1>0, <1>2, <1>3, <2>2, <3>1
    <3> QED  BY <1>1, <2>1, <2>5, <3>2
  <2>7. At(numBlocks) < Len(file') =>
          file'[At(numBlocks) + 1] = file[At(numBlocks) + 1]
    <3>1. At(m) < Len(file') => At(m) + 1 \in 1 .. Len(file')
      BY <1>3, <2>2
    <3>2. At(m) < Len(file') => file'[At(m) + 1] = file[At(m) + 1]
      BY <1>3, <3>1
    <3> QED  BY <2>1, <3>2
  <2>8. At(numBlocks) < Len(file') => At(numBlocks) < Len(file)
    BY <1>0, <1>2, <1>3, <2>1, <2>2
  <2> QED
    BY <1>5, <2>4, <2>5, <2>6, <2>7, <2>8 DEF Complete, task
<1> QED
  BY <1>3, <1>4, <1>5

(* What could not be written is lost when the file is closed.              *)
LEMMA FileClosing ==
  ASSUME StreamInv, CloseFile
  PROVE  StreamInv'
<1>0. /\ Types /\ pc = "Closing" /\ pc' = "Closed" /\ cut = 0 /\ outPos = 0
      /\ UNCHANGED <<task, status, compressor, expanding, asked>>
  BY DEF StreamInv, CloseFile, Closed, NotExpanded
<1>1. UNCHANGED <<task, asked, blockMax, code, numBlocks, inPos, flags>>
  BY <1>0 DEF compressor, reading, sizes
<1>2. Unwritten \in Nat /\ Unwritten <= STDIO_BUFFER
  BY StreamAssumption DEF Unwritten
<1>3. FileLoses(Unwritten)
  BY DEF CloseFile
<1>4. /\ file' \in Seq(Units) /\ Len(file') \in Nat
      /\ cut' \in Nat /\ cut' <= cut + Unwritten
      /\ Complete => Complete'
  <2>1. pc # "Open"
    BY <1>0
  <2> QED  BY <1>0, <1>1, <1>2, <1>3, <2>1, EndLost
<1>5. Types'
  <2>1. Legacy' = Legacy /\ outPos' \in 0 .. Len(file')
    BY <1>0, <1>4 DEF Legacy, expanding
  <2> QED
    BY <1>0, <1>4, <2>1
       DEF Types, task, compressor, reading, sizes, expanding
<1>6. FlagsOK' /\ NotOpened' /\ Compressing' /\ Expanding' /\ Ended'
  <2>1. FlagsOK'
    BY <1>0, <1>1 DEF StreamInv, FlagsOK, Legacy
  <2> QED
    BY <1>0, <2>1 DEF NotOpened, Compressing, Expanding, Ended
<1>7. NotExpanded'
  BY <1>0 DEF StreamInv, NotExpanded, expanding, task
<1>8. Closed'
  <2>1. status = "OK" => inPos = Len(data) /\ Complete
    BY <1>0 DEF StreamInv, Closed
  <2>2. cut' <= STDIO_BUFFER
    BY <1>0, <1>2, <1>4, StreamAssumption
  <2> QED
    BY <1>0, <1>1, <1>4, <2>1, <2>2 DEF Closed, task
<1> QED
  BY <1>5, <1>6, <1>7, <1>8 DEF StreamInv

(* The file that is read back, which may have been cut                     *)
LEMMA Reopened ==
  ASSUME StreamInv, Reopen
  PROVE  StreamInv'
<1>0. /\ Types /\ pc = "Closed" /\ pc' = "ReadHeader" /\ status = "OK"
      /\ Complete /\ outPos = 0
      /\ UNCHANGED <<task, status, code, reading, sizes, frameData,
                     expanding, asked>>
      /\ flags' = flags \cap {RAW}
  BY DEF StreamInv, Reopen, Closed, NotExpanded
<1>1. UNCHANGED <<task, asked, blockMax, code, numBlocks>>
  BY <1>0 DEF sizes
<1>2. PICK most \in Nat : FileLoses(most)
  <2>1. (IF FilesCut THEN Len(file) ELSE 0) \in Nat
    BY <1>0, Sizes
  <2> QED  BY <2>1 DEF Reopen
<1>3. /\ file' \in Seq(Units) /\ Len(file') \in Nat /\ cut' \in Nat
      /\ Complete'
  <2>1. pc # "Open"
    BY <1>0
  <2> QED  BY <1>0, <1>1, <1>2, <2>1, EndLost
<1>5. Types'
  <2>1. Legacy' = Legacy /\ outPos' \in 0 .. Len(file')
    BY <1>0, <1>3 DEF Legacy, expanding
  <2> QED
    BY <1>0, <1>3, <2>1 DEF Types, task, reading, sizes, expanding
<1>6. FlagsOK' /\ NotOpened' /\ Compressing' /\ Expanding' /\ Ended'
  <2>1. flags' = asked' \cap {RAW}
    BY <1>0 DEF StreamInv, FlagsOK, RAW, INDEP
  <2> QED
    BY <1>0, <2>1 DEF FlagsOK, NotOpened, Compressing, Expanding, Ended
<1>7. NotExpanded'
  BY <1>0 DEF StreamInv, NotExpanded, expanding, task
<1> QED
  BY <1>0, <1>3, <1>5, <1>6, <1>7 DEF StreamInv, Closed

-----------------------------------------------------------------------------
(* What is true of the other parts while the file is decompressed          *)
compressed == <<task, code, reading, sizes, frameData, file, asked, cut>>

OutTypes ==
  /\ outPos \in 0 .. Len(file) /\ outBlocks \in Nat /\ output \in Seq(Nat)
  /\ outPrev \in 0 .. HISTORY_SIZE /\ outDict \in {0, Len(dictionary)}
  /\ outMax \in {0, blockMax, BlockSize(MAX_CODE)}

LEMMA StillComplete ==
  ASSUME UNCHANGED compressed, Complete
  PROVE  Complete'
<1>1. UNCHANGED <<task, asked, blockMax, code, numBlocks, file, cut>>
  BY DEF compressed, sizes
<1>2. /\ Upto(numBlocks)' = Upto(numBlocks)
      /\ Upto(numBlocks - 1)' = Upto(numBlocks - 1)
      /\ FileSize(numBlocks)' = FileSize(numBlocks)
      /\ At(numBlocks)' = At(numBlocks) /\ FooterSize' = FooterSize
  BY <1>1, SamePlaces
<1>3. UnitsOK(file, numBlocks)' = UnitsOK(file, numBlocks)
  BY <1>1 DEF UnitsOK, RawOK, HeaderOK, BlockOK, UnitOK, Reaches, ByteAt,
              FromDictionary, Alone, Legacy, Raw, Upto, Size, At, HeaderSize,
              task
<1> QED
  BY <1>1, <1>2, <1>3 DEF Complete, task

LEMMA OnlyExpanding ==
  ASSUME StreamInv, pc \in {"ReadHeader", "Expand"}, pc' = "Expand",
         UNCHANGED <<compressed, status>>, OutTypes', FlagsOK', Expanding'
  PROVE  StreamInv'
<1>1. Types'
  BY DEF StreamInv, Types, OutTypes, compressed, task, reading, sizes, Legacy
<1>2. Closed'
  BY StillComplete DEF StreamInv, Closed, compressed
<1>3. NotOpened' /\ Compressing' /\ NotExpanded' /\ Ended'
  BY DEF NotOpened, Compressing, NotExpanded, Ended
<1> QED
  BY <1>1, <1>2, <1>3 DEF StreamInv

LEMMA Ending ==
  ASSUME StreamInv, pc \in {"ReadHeader", "Expand"}, pc' = "Ended",
         UNCHANGED compressed, OutTypes', Ended',
         status' \in {"OK", "ERROR_SRC", "ERROR_DST", "ERROR_FORMAT",
                      "ERROR_DECOMPRESSION"}
  PROVE  StreamInv'
<1>1. Types'
  BY DEF StreamInv, Types, OutTypes, compressed, task, reading, sizes, Legacy
<1>2. Closed' /\ FlagsOK' /\ NotOpened' /\ Compressing' /\ NotExpanded'
  BY DEF Closed, FlagsOK, NotOpened, Compressing, NotExpanded
<1>3. Expanding'
  BY DEF Expanding
<1> QED
  BY <1>1, <1>2, <1>3 DEF StreamInv

LEMMA HeaderUnits ==
  /\ Magic(Legacy).value <=> Legacy
  /\ Options([indep |-> INDEP \in asked, code |-> code]).value.indep
       <=> INDEP \in asked
  /\ Options([indep |-> INDEP \in asked, code |-> code]).value.code = code
<1>1. Magic(TRUE).value /\ ~Magic(FALSE).value
  BY DEF Magic, Unit
<1>2. /\ Options([indep |-> TRUE, code |-> code]).value.indep
      /\ ~Options([indep |-> FALSE, code |-> code]).value.indep
      /\ Options([indep |-> INDEP \in asked, code |-> code]).value.code = code
  BY DEF Options, Unit
<1>3. Legacy \in BOOLEAN /\ (INDEP \in asked) \in BOOLEAN
  BY DEF Legacy
<1>4. Magic(Legacy).value <=> Legacy
  <2>1. CASE Legacy
    <3>1. Legacy = TRUE
      BY <1>3, <2>1
    <3> QED  BY <1>1, <3>1, Zenon
  <2>2. CASE ~Legacy
    <3>1. Legacy = FALSE
      BY <1>3, <2>2
    <3> QED  BY <1>1, <3>1, Zenon
  <2> QED  BY <2>1, <2>2, Zenon
<1>5. Options([indep |-> INDEP \in asked, code |-> code]).value.indep
        <=> INDEP \in asked
  <2>1. CASE INDEP \in asked
    <3>1. (INDEP \in asked) = TRUE
      BY <1>3, <2>1
    <3> QED  BY <1>2, <3>1, Zenon
  <2>2. CASE INDEP \notin asked
    <3>1. (INDEP \in asked) = FALSE
      BY <1>3, <2>2
    <3> QED  BY <1>2, <3>1, Zenon
  <2> QED  BY <2>1, <2>2, Zenon
<1> QED
  BY <1>2, <1>4, <1>5, Zenon

LEMMA HeaderRead ==
  ASSUME StreamInv, ReadHeader,
         UNCHANGED <<code, reading, sizes, frameData, asked, cut>>
  PROVE  StreamInv'
<1>0. /\ Types /\ pc = "ReadHeader" /\ status = "OK" /\ Complete
      /\ outPos = 0 /\ ~outEof /\ outPrev = 0 /\ outDict = Len(dictionary)
      /\ outBlocks = 0 /\ output = <<>>
      /\ flags = asked \cap {RAW}
  BY DEF StreamInv, ReadHeader, Closed, NotExpanded, FlagsOK
<1>1. UNCHANGED <<compressed, outEof, outPrev, outDict, outBlocks, output>>
  BY DEF ReadHeader, compressed, task
<1>2. /\ file \in Seq(Units) /\ Len(file) \in Nat /\ Len(data) \in Nat
      /\ data \in Seq(Nat) /\ blockMax \in Nat \ {0} /\ numBlocks \in Nat
      /\ HISTORY_SIZE \in Nat /\ BlockSize(MAX_CODE) \in Nat
      /\ output \in Seq(Nat) /\ cut \in Nat /\ Left = Len(file)
      /\ blockMax = IF Legacy THEN LEGACY_BLOCK_SIZE ELSE BlockSize(code)
  <2>1. BlockSize(MAX_CODE) \in Nat
    BY StreamAssumption
  <2> QED  BY <1>0, <2>1, Sizes DEF Types, Left
<1>3. RAW \in flags <=> Raw
  BY <1>0 DEF Raw
<1>4. ~Raw => /\ HeaderOK(file)
              /\ cut = 0 => Len(file) >= HeaderSize + FooterSize
  <2>1. Upto(numBlocks) \in 0 .. Len(data)
    BY <1>2, Blocks
  <2>2. HeaderSize \in Nat /\ FooterSize \in Nat
    BY DEF HeaderSize, FooterSize
  <2>3. ASSUME ~Raw  PROVE HeaderOK(file)
    BY <1>0, <2>3 DEF Complete, UnitsOK
  <2>4. ASSUME ~Raw, cut = 0  PROVE Len(file) >= HeaderSize + FooterSize
    <3>1. Len(file) = HeaderSize + numBlocks + Upto(numBlocks) + FooterSize
      BY <1>0, <1>2, <2>1, <2>2, <2>4 DEF Complete, FileSize, At
    <3> QED  BY <1>2, <2>1, <2>2, <3>1
  <2> QED  BY <2>3, <2>4
<1>5. Upto(0) = 0 /\ Upto(0)' = 0
  <2>1. Upto(0) = 0
    BY <1>2, Blocks
  <2> QED  BY <1>1, <2>1, SamePlaces DEF compressed, sizes
<1>6. OutputOK' /\ OutBufferOK'
  <2>1. Len(output') = 0
    BY <1>0, <1>1
  <2>2. OutputOK'
    BY <1>1, <1>2, <2>1 DEF OutputOK, compressed, task
  <2> QED
    BY <1>0, <1>1, <2>2 DEF OutBufferOK, FromDictionary, compressed, task
<1>7. /\ outBlocks' \in Nat /\ output' \in Seq(Nat)
      /\ outPrev' \in 0 .. HISTORY_SIZE
      /\ outDict' \in {0, Len(dictionary)'}
  BY <1>0, <1>1 DEF Types, compressed, task
<1>8. file # <<>> => Len(file) >= 1
  BY <1>2, EmptySeq
<1>9. ASSUME ~Raw, Len(file) >= 1
      PROVE  /\ file[1].value <=> Legacy
             /\ ~Legacy /\ Len(file) >= 2 =>
                  /\ file[2].value.indep <=> INDEP \in asked
                  /\ file[2].value.code = code
  <2>1. file[1] = Magic(Legacy)
    BY <1>2, <1>4, <1>9 DEF HeaderOK
  <2>2. file[1].value <=> Legacy
    BY <2>1, HeaderUnits
  <2>3. ASSUME ~Legacy, Len(file) >= 2
        PROVE  /\ file[2].value.indep <=> INDEP \in asked
               /\ file[2].value.code = code
    <3>1. file[2] = Options([indep |-> INDEP \in asked, code |-> code])
      BY <1>2, <1>4, <1>9, <2>3 DEF HeaderOK
    <3> QED  BY <3>1, HeaderUnits
  <2> QED  BY <2>2, <2>3
<1>10. CASE RAW \notin flags /\ HeaderLacking /\ EndWith("ERROR_SRC")
            /\ UNCHANGED <<flags, outPos, outMax, outBuffer>>
  <2>1. cut # 0
    <3>1. SUFFICES ASSUME cut = 0  PROVE FALSE
      OBVIOUS
    <3>2. Len(file) >= HeaderSize + FooterSize
      BY <1>3, <1>4, <1>10, <3>1
    <3>3. CASE Legacy
      <4>1. Len(file) >= 1 /\ file # <<>>
        BY <1>2, <3>2, <3>3 DEF HeaderSize, FooterSize
      <4>2. file[1].value
        BY <1>3, <1>9, <1>10, <3>3, <4>1
      <4> QED  BY <1>2, <1>10, <4>1, <4>2 DEF HeaderLacking
    <3>4. CASE ~Legacy
      <4>1. Len(file) >= 2
        BY <1>2, <3>2, <3>4 DEF HeaderSize, FooterSize
      <4> QED  BY <1>2, <1>10, <4>1 DEF HeaderLacking
    <3> QED  BY <3>3, <3>4
  <2>2. pc' = "Ended" /\ status' = "ERROR_SRC"
    BY <1>10 DEF EndWith
  <2>3. Ended'
    BY <1>1, <1>6, <2>1 DEF Ended, compressed
  <2>4. OutTypes'
    BY <1>0, <1>1, <1>7, <1>10 DEF OutTypes, Types, compressed, sizes
  <2> QED  BY <1>0, <1>1, <2>2, <2>3, <2>4, Ending
<1>11. CASE /\ RAW \in flags
            /\ outMax' = BlockSize(MAX_CODE)
            /\ pc' = "Expand"
            /\ outBuffer' = [p \in -HISTORY_SIZE .. outMax' - 1 |-> 0]
            /\ UNCHANGED <<flags, status, outPos>>
  <2>1. OutTypes'
    BY <1>0, <1>1, <1>2, <1>7, <1>11 DEF OutTypes, compressed
  <2>2. Raw /\ Raw'
    BY <1>1, <1>3, <1>11 DEF Raw, compressed
  <2>3. FlagsOK'
    BY <1>0, <1>11, <2>2 DEF FlagsOK
  <2>4. Expanding'
    BY <1>0, <1>1, <1>6, <1>11, <2>2 DEF Expanding, compressed, task
  <2> QED  BY <1>0, <1>1, <1>11, <2>1, <2>3, <2>4, OnlyExpanding
<1>12. CASE /\ RAW \notin flags /\ ~HeaderLacking
            /\ flags' = DecodedFlags(file[1], file[2])
            /\ outPos' = IF LEGACY \in flags' THEN 1 ELSE 2
            /\ outMax' = IF LEGACY \in flags' THEN LEGACY_BLOCK_SIZE
                         ELSE BlockSize(file[2].value.code)
            /\ outBuffer' = [p \in -HISTORY_SIZE .. outMax' - 1 |-> 0]
            /\ pc' = "Expand"
            /\ UNCHANGED status
  <2>1. ~Raw /\ ~Raw'
    BY <1>1, <1>3, <1>12 DEF Raw, compressed
  <2>2. /\ flags' = IF Legacy THEN {LEGACY} ELSE asked \cap {INDEP}
        /\ outPos' = HeaderSize /\ outMax' = blockMax
        /\ HeaderSize <= Len(file)
    <3>1. CASE Legacy
      <4>1. Len(file) >= 1
        BY <1>2, <1>8, <1>12 DEF HeaderLacking
      <4>2. file[1].value
        BY <1>9, <2>1, <3>1, <4>1
      <4>3. flags' = {LEGACY}
        BY <1>12, <4>2 DEF DecodedFlags
      <4> QED  BY <1>2, <1>12, <3>1, <4>1, <4>3 DEF HeaderSize
    <3>2. CASE ~Legacy
      <4>1. Len(file) >= 1
        BY <1>2, <1>8, <1>12 DEF HeaderLacking
      <4>2. ~file[1].value
        BY <1>9, <2>1, <3>2, <4>1
      <4>3. Len(file) >= 2
        BY <1>2, <1>12, <4>2 DEF HeaderLacking
      <4>4. /\ file[2].value.indep <=> INDEP \in asked
            /\ file[2].value.code = code
        BY <1>9, <2>1, <3>2, <4>1, <4>3
      <4>5. flags' = IF INDEP \in asked THEN {INDEP} ELSE {}
        BY <1>12, <4>2, <4>4 DEF DecodedFlags
      <4>6. LEGACY \notin flags' /\ flags' = asked \cap {INDEP}
        BY <4>5 DEF LEGACY, INDEP
      <4> QED  BY <1>2, <1>12, <3>2, <4>3, <4>4, <4>6 DEF HeaderSize
    <3> QED  BY <3>1, <3>2
  <2>3. OutTypes'
    BY <1>1, <1>2, <1>7, <2>2 DEF OutTypes, compressed, sizes, HeaderSize
  <2>4. FlagsOK'
    BY <1>1, <1>12, <2>1, <2>2 DEF FlagsOK, compressed, Legacy
  <2>5. Expanding'
    <3>1. At(0)' = HeaderSize
      BY <1>5, <1>1, SamePlaces DEF At, compressed, sizes, HeaderSize
    <3>2. /\ outBlocks' = 0 /\ outPos' = At(outBlocks)'
          /\ Len(output)' = Upto(outBlocks)'
      BY <1>0, <1>1, <1>5, <2>2, <3>1
    <3>3. outBlocks' <= numBlocks' /\ outMax' = blockMax' /\ ~outEof'
      BY <1>0, <1>1, <1>2, <2>2, <3>2 DEF compressed, sizes
    <3>4. DOMAIN outBuffer' = -HISTORY_SIZE .. outMax' - 1
      BY <1>12
    <3> QED
      BY <1>6, <2>1, <3>2, <3>3, <3>4 DEF Expanding
  <2> QED  BY <1>0, <1>1, <1>12, <2>3, <2>4, <2>5, OnlyExpanding
<1> QED
  BY <1>10, <1>11, <1>12 DEF ReadHeader

-----------------------------------------------------------------------------
(* A block that is expanded, after the history it needs                    *)
LEMMA DictionaryHistory ==
  ASSUME Types, NEW j, FromDictionary(j), outMax \in Nat,
         DOMAIN outBuffer = -HISTORY_SIZE .. outMax - 1,
         outPrev = 0, outDict = Len(dictionary)
  PROVE  HistoryRight(j)
<1>0. HISTORY_SIZE \in Nat /\ Len(dictionary) \in 0 .. HISTORY_SIZE
  BY Sizes
<1>1. ASSUME NEW p \in -HISTORY_SIZE .. -1, Reaches(j, p)
      PROVE  WithOutHistory[p] = ByteAt(j, p)
  <2>1. p >= -Len(dictionary) /\ p \in DOMAIN outBuffer /\ p < 0
    BY <1>0, <1>1 DEF Reaches
  <2>2. OutHistory = [q \in -Len(dictionary) .. -1 |->
                        dictionary[Len(dictionary) + q + 1]]
    BY DEF OutHistory
  <2>3. p \in -Len(dictionary) .. -1
    BY <1>0, <2>1
  <2>4. WithOutHistory[p] = OutHistory[p]
    BY <2>1, <2>2, <2>3 DEF WithOutHistory
  <2>5. OutHistory[p] = dictionary[Len(dictionary) + p + 1]
    BY <2>2, <2>3
  <2> QED  BY <2>1, <2>4, <2>5 DEF ByteAt
<1> QED
  BY <1>1 DEF HistoryRight

LEMMA BlockHistory ==
  ASSUME Types, NEW j \in Nat, ~FromDictionary(j), outMax = blockMax,
         blockMax \in Nat \ {0},
         DOMAIN outBuffer = -HISTORY_SIZE .. outMax - 1,
         outPrev = IF blockMax <= HISTORY_SIZE THEN blockMax
                   ELSE HISTORY_SIZE,
         \A p \in -blockMax .. -1 :
           outBuffer[blockMax + p] = data[Upto(j) + p + 1]
  PROVE  HistoryRight(j)
<1>0. HISTORY_SIZE \in Nat
  BY Sizes
<1>1. ASSUME NEW p \in -HISTORY_SIZE .. -1, Reaches(j, p)
      PROVE  WithOutHistory[p] = ByteAt(j, p)
  <2>1. /\ p >= -blockMax /\ p \in DOMAIN outBuffer /\ p < 0
        /\ p \in -blockMax .. -1
    BY <1>0, <1>1 DEF Reaches
  <2>2. outPrev > 0 /\ p \in -outPrev .. -1
    BY <1>0, <2>1
  <2>3. OutHistory = [q \in -outPrev .. -1 |-> outBuffer[blockMax + q]]
    BY <2>2 DEF OutHistory
  <2>4. WithOutHistory[p] = OutHistory[p]
    BY <2>1, <2>2, <2>3 DEF WithOutHistory
  <2>5. OutHistory[p] = data[Upto(j) + p + 1]
    BY <2>1, <2>2, <2>3
  <2> QED  BY <2>1, <2>4, <2>5 DEF ByteAt
<1> QED
  BY <1>1 DEF HistoryRight

LEMMA Filling ==
  ASSUME NEW j, NEW m \in Nat, m <= outMax, outMax \in Nat,
         DOMAIN outBuffer = -HISTORY_SIZE .. outMax - 1,
         Len(dictionary) <= HISTORY_SIZE, Len(dictionary) \in Nat,
         HistoryRight(j), NEW payload \in Seq(Units), Len(payload) = m,
         NEW plain \in BOOLEAN,
         \A p \in 0 .. m - 1 : UnitOK(payload[p + 1], j, p, plain)
  PROVE  /\ plain \/ Expandable(payload)
         /\ Contents(payload, plain) = Filled(j, m)
<1>0. HISTORY_SIZE \in Nat
  BY StreamAssumption
<1>1. ASSUME plain  PROVE Contents(payload, plain) = Filled(j, m)
  <2>1. ASSUME NEW p \in DOMAIN outBuffer, p >= 0, p < m
        PROVE  payload[p + 1].value = ByteAt(j, p)
    <3>1. p \in 0 .. m - 1
      BY <1>0, <2>1
    <3>2. payload[p + 1] = Plain(ByteAt(j, p))
      BY <1>1, <3>1 DEF UnitOK
    <3> QED  BY <3>2 DEF Plain, Unit
  <2>2. Contents(payload, plain) =
          [p \in DOMAIN outBuffer |->
             IF p >= 0 /\ p < m THEN payload[p + 1].value
             ELSE WithOutHistory[p]]
    BY <1>1 DEF Contents
  <2>3. Contents(payload, plain) = Filled(j, m)
    BY <2>1, <2>2 DEF Filled
  <2> QED  BY <2>3
<1>2. ASSUME ~plain  PROVE Contents(payload, plain) = Filled(j, m)
  <2>1. plain = FALSE
    BY <1>2
  <2>2. \A p \in 0 .. m - 1 : UnitOK(payload[p + 1], j, p, FALSE)
    BY <2>1
  <2>3. Expanded(payload) = Filled(j, m)
    BY <2>2, BlockExpanded
  <2>4. Contents(payload, plain) = Expanded(payload)
    BY <1>2 DEF Contents
  <2> QED  BY <2>3, <2>4
<1>3. ASSUME ~plain
      PROVE  \A k \in DOMAIN payload : payload[k].kind \in {"literal", "copy"}
  <2> TAKE k \in DOMAIN payload
  <2>1. k \in 1 .. m
    BY LenProperties
  <2>2. k - 1 \in 0 .. m - 1 /\ (k - 1) + 1 = k
    BY <2>1
  <2>3. UnitOK(payload[k], j, k - 1, plain)
    BY <2>2
  <2> QED  BY <1>3, <2>3 DEF UnitOK, Literal, Copy, Unit
<1>4. ~plain => Expandable(payload)
  BY <1>3 DEF Expandable
<1>5. Contents(payload, plain) = Filled(j, m)
  BY <1>1, <1>2
<1> QED
  BY <1>4, <1>5, Zenon

(* Bytes of a block, all or only some, that are written behind the others  *)
LEMMA OutputGrows ==
  ASSUME Types, OutputOK, UNCHANGED data, NEW j \in Nat, NEW m \in Nat,
         Len(output) = Upto(j), Upto(j) + m <= Len(data),
         NEW bytes \in Seq(Nat), Len(bytes) = m,
         \A k \in 1 .. m : bytes[k] = data[Upto(j) + k],
         output' = output \o bytes
  PROVE  output' \in Seq(Nat) /\ Len(output') = Upto(j) + m /\ OutputOK'
<1>0. output \in Seq(Nat) /\ Len(output) \in Nat /\ Upto(j) \in Nat
  BY LenProperties DEF Types
<1>1. /\ output' \in Seq(Nat) /\ Len(output') = Upto(j) + m
      /\ \A i \in 1 .. Upto(j) + m :
           output'[i] = IF i <= Upto(j) THEN output[i]
                        ELSE bytes[i - Upto(j)]
  <2>1. /\ output \o bytes \in Seq(Nat)
        /\ Len(output \o bytes) = Len(output) + Len(bytes)
        /\ \A i \in 1 .. Len(output) + Len(bytes) :
             (output \o bytes)[i] = IF i <= Len(output) THEN output[i]
                                    ELSE bytes[i - Len(output)]
    BY <1>0, ConcatProperties
  <2> QED  BY <2>1, Zenon
<1>2. ASSUME NEW i \in 1 .. Upto(j) + m  PROVE output'[i] = data[i]
  <2>1. CASE i <= Upto(j)
    <3>1. i \in 1 .. Len(output)
      BY <1>0, <2>1
    <3>2. output[i] = data[i]
      BY <3>1 DEF OutputOK
    <3> QED  BY <1>1, <2>1, <3>2
  <2>2. CASE ~(i <= Upto(j))
    <3>1. i - Upto(j) \in 1 .. m /\ Upto(j) + (i - Upto(j)) = i
      BY <1>0, <2>2
    <3>2. bytes[i - Upto(j)] = data[Upto(j) + (i - Upto(j))]
      BY <3>1
    <3> QED  BY <1>1, <2>2, <3>1, <3>2
  <2> QED  BY <2>1, <2>2
<1> QED
  BY <1>1, <1>2 DEF OutputOK

LEMMA BlockOutput ==
  ASSUME StreamInv, pc = "Expand", UNCHANGED compressed,
         NEW j \in Nat, NEW m \in Nat, m <= outMax, outMax \in Nat,
         HistoryRight(j), NEW payload \in Seq(Units), Len(payload) = m,
         NEW plain \in BOOLEAN,
         \A p \in 0 .. m - 1 : UnitOK(payload[p + 1], j, p, plain),
         Len(output) = Upto(j), Upto(j) + m <= Len(data),
         ExpandPayload(payload, plain)
  PROVE  /\ outBuffer' = Filled(j, m)
         /\ output' \in Seq(Nat) /\ OutputOK'
         /\ outPrev' = IF m = 0 THEN HistorySize ELSE OutKept(m)
         /\ outBlocks' = outBlocks + 1
         /\ \/ Len(output') = Upto(j) + m /\ UNCHANGED <<pc, status>>
            \/ pc' = "Ended" /\ status' = "ERROR_DST"
<1>0. /\ Types /\ output \in Seq(Nat) /\ Len(output) \in Nat
      /\ Len(data) \in Nat /\ data \in Seq(Nat) /\ HISTORY_SIZE \in Nat
      /\ Len(dictionary) \in 0 .. HISTORY_SIZE /\ OutputOK
      /\ DOMAIN outBuffer = -HISTORY_SIZE .. outMax - 1
      /\ UNCHANGED data
  <2>1. Types /\ output \in Seq(Nat)
    BY DEF StreamInv, Types
  <2>2. UNCHANGED data
    BY DEF compressed, task
  <2> QED  BY <2>1, <2>2, Sizes, LenProperties DEF StreamInv, Expanding
<1>1. /\ plain \/ Expandable(payload)
      /\ Contents(payload, plain) = Filled(j, m)
  <2>1. Len(dictionary) <= HISTORY_SIZE /\ Len(dictionary) \in Nat
    BY <1>0
  <2> QED  BY <1>0, <2>1, Filling, Zenon
<1> DEFINE more == [k \in 1 .. m |-> Filled(j, m)[k - 1]]
<1>2. /\ outBuffer' = Filled(j, m)
      /\ outPrev' = IF m = 0 THEN HistorySize ELSE OutKept(m)
      /\ outBlocks' = outBlocks + 1
      /\ Emitted(more) \/ EmitFails(more)
  <2>1. Emit(payload, plain)
    BY <1>1 DEF ExpandPayload
  <2> QED  BY <1>1, <2>1 DEF Emit
<1>3. ASSUME NEW k \in 1 .. m
      PROVE  /\ more[k] = data[Upto(j) + k]
             /\ Upto(j) + k \in 1 .. Len(data)
             /\ more[k] \in Nat
  <2>1. k - 1 \in DOMAIN outBuffer /\ k - 1 >= 0 /\ k - 1 < m
    BY <1>0
  <2>2. more[k] = ByteAt(j, k - 1)
    BY <2>1 DEF Filled
  <2>3. ByteAt(j, k - 1) = data[Upto(j) + (k - 1) + 1]
    BY <2>1 DEF ByteAt
  <2>4. Upto(j) + (k - 1) + 1 = Upto(j) + k /\ Upto(j) + k \in 1 .. Len(data)
    <3>1. Upto(j) \in Nat /\ Len(data) \in Nat
      BY <1>0
    <3> QED  BY <3>1
  <2> QED  BY <1>0, <2>2, <2>3, <2>4, DataTypes
<1>4. more \in Seq(Nat) /\ Len(more) = m
  <2>1. more \in [1 .. m -> Nat]
    BY <1>3
  <2> HIDE DEF more
  <2> QED  BY <2>1
<1> HIDE DEF more
<1>5. CASE Emitted(more)
  <2>1. output' = output \o more /\ UNCHANGED <<pc, status>>
    BY <1>5 DEF Emitted
  <2>2. output' \in Seq(Nat) /\ Len(output') = Upto(j) + m /\ OutputOK'
    BY <1>0, <1>3, <1>4, <2>1, OutputGrows
  <2> QED  BY <1>2, <2>1, <2>2
<1>6. CASE EmitFails(more)
  <2>1. PICK n \in 0 .. m - 1 : output' = output \o SubSeq(more, 1, n)
    BY <1>4, <1>6 DEF EmitFails
  <2>2. pc' = "Ended" /\ status' = "ERROR_DST"
    BY <1>6 DEF EmitFails, EndWith
  <2> DEFINE some == SubSeq(more, 1, n)
  <2>3. /\ some \in Seq(Nat) /\ Len(some) = n
        /\ \A k \in 1 .. n : some[k] = more[k]
    <3>1. \A k \in 1 .. n : more[k] \in Nat
      BY <1>3
    <3> QED  BY <1>4, <2>1, <3>1, SubSeqProperties
  <2> HIDE DEF some
  <2>4. \A k \in 1 .. n : some[k] = data[Upto(j) + k]
    <3>1. \A k \in 1 .. n : k \in 1 .. m
      BY <2>1
    <3> QED  BY <1>3, <2>3, <3>1
  <2>5. n \in Nat /\ Upto(j) + n <= Len(data) /\ output' = output \o some
    <3>1. Upto(j) \in Nat
      BY <1>0
    <3> QED  BY <1>0, <2>1, <3>1 DEF some
  <2>6. output' \in Seq(Nat) /\ OutputOK'
    BY <1>0, <2>3, <2>4, <2>5, OutputGrows
  <2> QED  BY <1>2, <2>2, <2>6
<1> QED
  BY <1>2, <1>5, <1>6

LEMMA OutputFails ==
  ASSUME StreamInv, pc = "Expand", UNCHANGED compressed,
         pc' = "Ended", status' = "ERROR_DST", OutputOK', OutTypes'
  PROVE  StreamInv'
<1>1. Ended'
  BY DEF Ended
<1> QED
  BY <1>1, Ending

-----------------------------------------------------------------------------
(* The next frame is that of the next block, or else the footer.           *)
LEMMA NextBlock ==
  ASSUME StreamInv, pc = "Expand", ~Raw
  PROVE  /\ outBlocks \in 0 .. numBlocks /\ numBlocks \in Nat
         /\ Upto(outBlocks) \in 0 .. Len(data) /\ Len(data) \in Nat
         /\ Len(file) \in Nat /\ At(outBlocks) \in Nat
         /\ outBlocks = numBlocks =>
              /\ Upto(outBlocks) = Len(data)
              /\ Len(file) <= At(outBlocks) + FooterSize
         /\ outBlocks < numBlocks =>
              /\ Size(outBlocks) \in 1 .. blockMax
              /\ Upto(outBlocks + 1) = Upto(outBlocks) + Size(outBlocks)
              /\ Upto(outBlocks + 1) \in 0 .. Len(data)
              /\ At(outBlocks + 1) = At(outBlocks) + 1 + Size(outBlocks)
              /\ BlockOK(file, outBlocks)
              /\ cut = 0 => Len(file) >= At(outBlocks + 1)
<1>0. /\ Types /\ Complete /\ blockMax \in Nat \ {0} /\ Len(data) \in Nat
      /\ Len(file) \in Nat /\ numBlocks \in Nat /\ outBlocks \in Nat
      /\ outBlocks <= numBlocks /\ cut \in Nat
      /\ Len(file) = At(numBlocks) + FooterSize - cut
  BY Sizes DEF StreamInv, Closed, Expanding, Types, Complete, FileSize
<1>1. HeaderSize \in Nat /\ FooterSize \in Nat
  BY DEF HeaderSize, FooterSize
<1>2. Upto(outBlocks) \in 0 .. Len(data) /\ Upto(numBlocks) \in 0 .. Len(data)
  BY <1>0, Blocks
<1>3. outBlocks = numBlocks => /\ Upto(outBlocks) = Len(data)
                              /\ Len(file) <= At(outBlocks) + FooterSize
  <2>1. At(numBlocks) \in Nat
    BY <1>0, <1>1, <1>2 DEF At
  <2> QED  BY <1>0, <1>1, <2>1 DEF Complete
<1>4. ASSUME outBlocks < numBlocks
      PROVE  /\ Size(outBlocks) \in 1 .. blockMax
             /\ Upto(outBlocks + 1) = Upto(outBlocks) + Size(outBlocks)
             /\ Upto(outBlocks + 1) \in 0 .. Len(data)
             /\ At(outBlocks + 1) = At(outBlocks) + 1 + Size(outBlocks)
             /\ BlockOK(file, outBlocks)
             /\ cut = 0 => Len(file) >= At(outBlocks + 1)
  <2>0. outBlocks + 1 \in Nat /\ numBlocks - 1 \in Nat
    BY <1>0, <1>4
  <2>1. /\ Upto(outBlocks + 1) \in 0 .. Len(data)
        /\ Upto(numBlocks - 1) \in 0 .. Len(data)
        /\ Upto(outBlocks + 1) = IF Upto(outBlocks) + blockMax <= Len(data)
                                 THEN Upto(outBlocks) + blockMax
                                 ELSE Len(data)
    BY <1>0, <2>0, Blocks
  <2>2. /\ Upto(outBlocks) <= Upto(numBlocks - 1)
        /\ Upto(outBlocks + 1) <= Upto(numBlocks)
    <3>1. outBlocks <= numBlocks - 1 /\ outBlocks + 1 <= numBlocks
      BY <1>0, <1>4
    <3>2. Upto(outBlocks) <= Upto(numBlocks - 1)
      BY <1>0, <2>0, <3>1, LaterBlocks
    <3>3. Upto(outBlocks + 1) <= Upto(numBlocks)
      BY <1>0, <2>0, <3>1, LaterBlocks
    <3> QED  BY <3>2, <3>3
  <2>3. Upto(numBlocks - 1) < Len(data)
    BY <1>0, <1>4 DEF Complete
  <2>4. /\ Size(outBlocks) \in 1 .. blockMax
        /\ Upto(outBlocks + 1) = Upto(outBlocks) + Size(outBlocks)
    <3>1. Upto(outBlocks) \in Nat /\ Upto(outBlocks) < Len(data)
      BY <1>0, <1>2, <2>1, <2>2, <2>3
    <3>2. /\ Upto(outBlocks + 1) - Upto(outBlocks) \in 1 .. blockMax
          /\ Upto(outBlocks + 1) \in Nat
      BY <1>0, <2>1, <3>1
    <3>3. Size(outBlocks) = Upto(outBlocks + 1) - Upto(outBlocks)
      BY DEF Size
    <3> QED  BY <3>1, <3>2, <3>3
  <2>5. At(outBlocks + 1) = At(outBlocks) + 1 + Size(outBlocks)
    <3>1. /\ At(outBlocks + 1) =
                HeaderSize + (outBlocks + 1) + Upto(outBlocks + 1)
          /\ At(outBlocks) = HeaderSize + outBlocks + Upto(outBlocks)
      BY DEF At
    <3>2. /\ Upto(outBlocks + 1) = Upto(outBlocks) + Size(outBlocks)
          /\ Upto(outBlocks) \in Nat /\ Size(outBlocks) \in Nat
      BY <1>2, <2>4
    <3> QED  BY <1>0, <1>1, <3>1, <3>2
  <2>6. At(outBlocks + 1) <= At(numBlocks) /\ At(numBlocks) \in Nat
    <3>1. /\ At(outBlocks + 1) =
                HeaderSize + (outBlocks + 1) + Upto(outBlocks + 1)
          /\ At(numBlocks) = HeaderSize + numBlocks + Upto(numBlocks)
      BY DEF At
    <3>2. /\ Upto(outBlocks + 1) \in Nat /\ Upto(numBlocks) \in Nat
          /\ outBlocks + 1 <= numBlocks
      BY <1>0, <1>2, <1>4, <2>1
    <3> QED  BY <1>0, <1>1, <2>0, <2>2, <3>1, <3>2
  <2>7. At(outBlocks + 1) \in Nat
    BY <1>0, <1>1, <2>1 DEF At
  <2>8. BlockOK(file, outBlocks)
    <3>1. outBlocks \in 0 .. numBlocks - 1
      BY <1>0, <1>4
    <3> QED  BY <1>0, <3>1 DEF Complete, UnitsOK
  <2> QED  BY <1>0, <1>1, <2>1, <2>4, <2>5, <2>6, <2>7, <2>8
<1>5. At(outBlocks) \in Nat
  BY <1>0, <1>1, <1>2 DEF At
<1> QED
  BY <1>0, <1>2, <1>3, <1>4, <1>5

LEMMA HistoryOfNext ==
  ASSUME Expressible, StreamInv, pc = "Expand", ~Raw, outBlocks < numBlocks
  PROVE  HistoryRight(outBlocks)
<1>0. /\ Types /\ outBlocks \in Nat /\ OutBufferOK /\ outMax = blockMax
      /\ DOMAIN outBuffer = -HISTORY_SIZE .. outMax - 1
      /\ blockMax \in Nat \ {0}
      /\ HISTORY_SIZE \in Nat
  BY Sizes DEF StreamInv, Types, Expanding
<1>1. CASE outBlocks = 0 \/ (Alone /\ ~Legacy)
  <2>1. outPrev = 0 /\ outDict = Len(dictionary) /\ FromDictionary(outBlocks)
    BY <1>0, <1>1 DEF OutBufferOK, FromDictionary
  <2> QED  BY <1>0, <2>1, DictionaryHistory
<1>2. CASE Legacy
  <2>1. Len(dictionary) = 0
    BY <1>0, <1>2, EmptySeq DEF Expressible, Legacy, Types
  <2>2. FromDictionary(outBlocks)
    BY <1>2 DEF FromDictionary, Alone
  <2> QED
    BY <1>0, <2>1, <2>2 DEF HistoryRight, Reaches
<1>3. CASE ~FromDictionary(outBlocks)
  <2>1. Upto(outBlocks) < Len(data)
    BY <1>0, NextBlock
  <2> QED
    BY <1>0, <1>3, <2>1, BlockHistory DEF OutBufferOK
<1> QED
  BY <1>1, <1>2, <1>3 DEF FromDictionary, Alone

(* What there is of the next block                                         *)
LEMMA NextFrame ==
  ASSUME StreamInv, pc = "Expand", ~Raw, Left # 0
  PROVE  \E plain \in BOOLEAN :
           /\ file[outPos + 1] =
                Frame([size |-> IF outBlocks = numBlocks THEN 0
                                ELSE Size(outBlocks),
                       uncompressed |-> plain])
           /\ outBlocks < numBlocks =>
                \A p \in 0 .. Size(outBlocks) - 1 :
                  At(outBlocks) + 2 + p <= Len(file) =>
                    UnitOK(file[At(outBlocks) + 2 + p], outBlocks, p, plain)
<1>0. /\ outPos = At(outBlocks) /\ outPos \in 0 .. Len(file)
      /\ At(outBlocks) < Len(file) /\ Complete
  BY NextBlock DEF StreamInv, Types, Expanding, Left, Closed
<1>1. CASE outBlocks = numBlocks
  <2>1. FooterSize = 1
    BY <1>0, <1>1, NextBlock DEF FooterSize
  <2>2. file[outPos + 1] = Frame([size |-> 0, uncompressed |-> FALSE])
    BY <1>0, <1>1, <2>1 DEF Complete
  <2>3. ~(outBlocks < numBlocks)
    BY <1>1, NextBlock
  <2> QED  BY <1>1, <2>2, <2>3
<1>2. CASE outBlocks # numBlocks
  <2>1. outBlocks < numBlocks /\ BlockOK(file, outBlocks)
    BY <1>2, NextBlock
  <2> QED  BY <1>0, <1>2, <2>1 DEF BlockOK
<1> QED
  BY <1>1, <1>2

-----------------------------------------------------------------------------
(* The step that ends the blocks, and the one that takes another           *)
LEMMA WholeOutput ==
  ASSUME Types, OutputOK, Len(output) = Len(data)
  PROVE  output = data
<1>1. /\ output \in [1 .. Len(output) -> Nat]
      /\ data \in [1 .. Len(data) -> Nat]
  BY Sizes, LenProperties DEF Types
<1>2. \A i \in 1 .. Len(data) : output[i] = data[i]
  BY DEF OutputOK
<1> QED
  BY <1>1, <1>2

LEMMA BlocksEnd ==
  ASSUME StreamInv, pc = "Expand", ~Raw, EndOfBlocks, UNCHANGED compressed,
         outPos' \in 0 .. Len(file), UNCHANGED outMax, outDict' = DictAfter,
         cut = 0 => outBlocks = numBlocks
  PROVE  StreamInv'
<1>1. /\ Types /\ OutputOK /\ Len(output) = Upto(outBlocks)
      /\ pc' = "Ended" /\ status' = "OK"
      /\ UNCHANGED <<outBuffer, output, outPrev, outBlocks>>
  BY DEF StreamInv, Expanding, EndOfBlocks, EndWith
<1>2. cut = 0 => output = data
  BY <1>1, NextBlock, WholeOutput
<1>3. Ended'
  BY <1>1, <1>2 DEF Ended, OutputOK, compressed, task
<1>4. OutTypes'
  BY <1>1 DEF OutTypes, Types, compressed, task, sizes, DictAfter
<1> QED
  BY <1>1, <1>3, <1>4, Ending

LEMMA BlockEmitted ==
  ASSUME Expressible, StreamInv, pc = "Expand", ~Raw,
         outBlocks < numBlocks, At(outBlocks + 1) <= Len(file),
         UNCHANGED <<compressed, flags, outMax>>, outDict' = DictAfter,
         outPos' = At(outBlocks + 1), ~outEof',
         NEW plain \in BOOLEAN,
         \A p \in 0 .. Size(outBlocks) - 1 :
           UnitOK(file[At(outBlocks) + 2 + p], outBlocks, p, plain),
         ExpandPayload(SubSeq(file, outPos + 2, At(outBlocks + 1)), plain)
  PROVE  StreamInv'
<1>0. /\ Types /\ outBlocks \in Nat /\ OutBufferOK /\ outMax = blockMax
      /\ DOMAIN outBuffer = -HISTORY_SIZE .. outMax - 1
      /\ blockMax \in Nat \ {0} /\ HISTORY_SIZE \in Nat
      /\ file \in Seq(Units) /\ Len(file) \in Nat /\ numBlocks \in Nat
      /\ outPos = At(outBlocks) /\ Len(output) = Upto(outBlocks)
      /\ outPrev \in 0 .. HISTORY_SIZE
      /\ outDict \in {0, Len(dictionary)}
      /\ Len(dictionary) \in 0 .. HISTORY_SIZE
  BY Sizes DEF StreamInv, Types, Expanding
<1>1. PICK j \in Nat : j = outBlocks
  BY <1>0
<1>a. /\ Size(j) \in 1 .. blockMax /\ Upto(j) \in 0 .. Len(data)
      /\ Upto(j + 1) = Upto(j) + Size(j) /\ Upto(j + 1) \in 0 .. Len(data)
      /\ At(j + 1) = At(j) + 1 + Size(j) /\ At(j) \in Nat
      /\ Len(data) \in Nat
  BY <1>1, NextBlock
<1>b. PICK m \in Nat : m = Size(j)
  BY <1>0, <1>a
<1>2. /\ m \in 1 .. blockMax /\ Upto(j) \in 0 .. Len(data)
      /\ Upto(j + 1) = Upto(j) + m /\ Upto(j + 1) \in 0 .. Len(data)
      /\ At(j + 1) = At(j) + 1 + m /\ At(j) \in Nat
      /\ Len(data) \in Nat
  BY <1>a, <1>b
<1> DEFINE payload == SubSeq(file, outPos + 2, At(outBlocks + 1))
<1>3. /\ payload \in Seq(Units) /\ Len(payload) = m
      /\ \A p \in 0 .. m - 1 : UnitOK(payload[p + 1], j, p, plain)
  <2>1. \A i \in At(j) + 2 .. At(j + 1) : file[i] \in Units
    <3> TAKE i \in At(j) + 2 .. At(j + 1)
    <3>1. i \in 1 .. Len(file)
      <4>1. /\ At(j) \in Nat /\ At(j + 1) <= Len(file)
            /\ At(j + 1) \in Nat
        BY <1>1, <1>2
      <4> QED  BY <1>0, <4>1
    <3> QED  BY <1>0, <3>1, ElementOfSeq
  <2>2. At(j) + 2 \in Int /\ At(j + 1) \in Int
    BY <1>2
  <2> DEFINE sub == SubSeq(file, At(j) + 2, At(j + 1))
  <2>3. /\ sub \in Seq(Units)
        /\ Len(sub) = IF At(j) + 2 <= At(j + 1)
                      THEN At(j + 1) - (At(j) + 2) + 1 ELSE 0
        /\ \A i \in 1 .. At(j + 1) - (At(j) + 2) + 1 :
             sub[i] = file[(At(j) + 2) + i - 1]
    BY <2>1, <2>2, SubSeqProperties
  <2> HIDE DEF sub
  <2>4. sub \in Seq(Units) /\ Len(sub) = m
    <3>1. /\ At(j) + 2 <= At(j + 1) <=> m # 0
          /\ At(j + 1) - (At(j) + 2) + 1 = m
      BY <1>2
    <3> QED  BY <1>2, <2>3, <3>1
  <2>5. ASSUME NEW p \in 0 .. m - 1
        PROVE  UnitOK(sub[p + 1], j, p, plain)
    <3>1. /\ p + 1 \in 1 .. At(j + 1) - (At(j) + 2) + 1
          /\ (At(j) + 2) + (p + 1) - 1 = At(j) + 2 + p
      <4>1. At(j) \in Nat /\ At(j + 1) - (At(j) + 2) + 1 = m
        BY <1>2
      <4> QED  BY <4>1
    <3>2. sub[p + 1] = file[At(j) + 2 + p]
      BY <2>3, <3>1
    <3>3. UnitOK(file[At(j) + 2 + p], j, p, plain)
      BY <1>1, <1>b
    <3> QED  BY <3>2, <3>3
  <2>6. payload = sub
    BY <1>0, <1>1 DEF sub
  <2> QED  BY <2>4, <2>5, <2>6
<1>4. HistoryRight(j)
  BY <1>1, HistoryOfNext
<1>5. /\ outBuffer' = Filled(j, m)
      /\ output' \in Seq(Nat) /\ OutputOK'
      /\ outPrev' = IF m = 0 THEN HistorySize ELSE OutKept(m)
      /\ outBlocks' = outBlocks + 1
      /\ \/ Len(output') = Upto(j) + m /\ UNCHANGED <<pc, status>>
         \/ pc' = "Ended" /\ status' = "ERROR_DST"
  <2>1. /\ m \in Nat /\ m <= outMax /\ outMax \in Nat
        /\ Upto(j) + m <= Len(data) /\ Len(output) = Upto(j)
    BY <1>0, <1>1, <1>2
  <2>2. ExpandPayload(payload, plain) /\ UNCHANGED compressed
    OBVIOUS
  <2> HIDE DEF payload
  <2> QED  BY <1>3, <1>4, <2>1, <2>2, BlockOutput
<1>6. UNCHANGED <<task, asked, blockMax, flags, numBlocks, file, cut, outMax>>
  BY DEF compressed, sizes
<1>7. OutKept(m) = IF INDEP \in flags THEN 0
                   ELSE IF m <= HISTORY_SIZE THEN m ELSE HISTORY_SIZE
  <2>1. Min({m, HISTORY_SIZE}) = IF m <= HISTORY_SIZE THEN m
                                 ELSE HISTORY_SIZE
    <3>1. m \in Int /\ HISTORY_SIZE \in Int
      BY <1>0
    <3> QED  BY <3>1, LessOfTwo
  <2> QED  BY <2>1 DEF OutKept
<1>8. outPrev' = OutKept(m) /\ outPrev' \in 0 .. HISTORY_SIZE
  <2>1. m # 0
    BY <1>2
  <2>2. OutKept(m) \in 0 .. HISTORY_SIZE
    BY <1>0, <1>2, <1>7
  <2> QED  BY <1>5, <2>1, <2>2
<1>c. Upto(j) \in Nat /\ Upto(j + 1) \in Nat
  BY <1>2
<1>9. OutTypes'
  <2>1. outPos' \in 0 .. Len(file)
    <3>1. outPos' = At(j + 1) /\ At(j + 1) <= Len(file)
      BY <1>1
    <3>2. At(j + 1) \in Nat
      BY <1>2
    <3> QED  BY <1>0, <3>1, <3>2
  <2>2. outDict' \in {0, Len(dictionary)'} /\ outBlocks' \in Nat
    BY <1>0, <1>5, <1>6 DEF DictAfter, task
  <2> QED
    BY <1>0, <1>5, <1>6, <1>8, <2>1, <2>2 DEF OutTypes
<1>d. SUFFICES ASSUME Len(output') = Upto(j) + m, UNCHANGED <<pc, status>>
               PROVE  StreamInv'
  BY <1>5, <1>9, OutputFails
<1>10. FlagsOK' /\ flags = IF Legacy THEN {LEGACY} ELSE asked \cap {INDEP}
  BY <1>d, <1>6 DEF StreamInv, FlagsOK, Legacy, Raw
<1>11. INDEP \in flags <=> Alone /\ ~Legacy
  BY <1>10 DEF Alone, INDEP, LEGACY
<1>12. OutBufferOK'
  <2>1. /\ Alone' = Alone /\ Legacy' = Legacy /\ outBlocks' # 0
        /\ Upto(outBlocks)' = Upto(j + 1)
        /\ FromDictionary(outBlocks)' <=> Alone
    <3>1. Alone' = Alone /\ Legacy' = Legacy /\ outBlocks' = j + 1
      BY <1>1, <1>5, <1>6, SamePlaces
    <3>2. outBlocks' # 0
      BY <3>1
    <3> QED  BY <1>6, <3>1, <3>2 DEF FromDictionary, Upto, task
  <2>2. ASSUME Alone, ~Legacy
        PROVE  outPrev' = 0 /\ outDict' = Len(dictionary)'
    <3>1. outDict' = outDict
      BY <1>11, <2>2 DEF DictAfter
    <3>2. outDict = Len(dictionary)
      BY <1>0, <2>2 DEF OutBufferOK
    <3> QED  BY <1>6, <1>7, <1>8, <1>11, <2>2, <3>1, <3>2 DEF task
  <2>3. ASSUME ~Alone, Upto(j + 1) < Len(data)
        PROVE  /\ Upto(j + 1) >= blockMax
               /\ outPrev' = IF blockMax <= HISTORY_SIZE THEN blockMax
                             ELSE HISTORY_SIZE
               /\ \A p \in -blockMax .. -1 :
                    outBuffer'[blockMax + p] = data[Upto(j + 1) + p + 1]
    <3>1. m = blockMax
      <4>1. Upto(j + 1) = IF Upto(j) + blockMax <= Len(data)
                          THEN Upto(j) + blockMax ELSE Len(data)
        BY <1>0, <1>2, Blocks
      <4>2. Upto(j + 1) = Upto(j) + blockMax
        BY <2>3, <4>1
      <4>3. Upto(j + 1) = Upto(j) + m /\ m \in Nat /\ blockMax \in Nat
        BY <1>0, <1>2
      <4> QED  BY <1>c, <4>2, <4>3
    <3>2. outPrev' = IF blockMax <= HISTORY_SIZE THEN blockMax
                     ELSE HISTORY_SIZE
      BY <1>7, <1>8, <1>11, <2>3, <3>1
    <3>3. ASSUME NEW p \in -blockMax .. -1
          PROVE  outBuffer'[blockMax + p] = data[Upto(j + 1) + p + 1]
      <4>1. /\ blockMax + p \in DOMAIN outBuffer /\ blockMax + p >= 0
            /\ blockMax + p < m
        BY <1>0, <3>1
      <4>2. PICK q \in Nat : q = blockMax + p
        BY <1>0
      <4>3. outBuffer'[q] = ByteAt(j, q)
        BY <1>5, <4>1, <4>2 DEF Filled
      <4>4. ByteAt(j, q) = data[Upto(j) + q + 1]
        BY DEF ByteAt
      <4>5. Upto(j) + q + 1 = Upto(j + 1) + p + 1
        <5>1. p \in Int /\ q = m + p /\ Upto(j + 1) = Upto(j) + m
          BY <1>0, <1>2, <3>1, <4>2
        <5> QED  BY <1>c, <5>1
      <4> QED  BY <4>2, <4>3, <4>4, <4>5
    <3>4. Upto(j + 1) >= blockMax
      <4>1. blockMax \in Nat /\ Upto(j + 1) = Upto(j) + blockMax
        BY <1>0, <1>2, <3>1
      <4> QED  BY <1>c, <4>1
    <3> QED  BY <3>2, <3>3, <3>4
  <2> QED
    BY <1>6, <2>1, <2>2, <2>3 DEF OutBufferOK, task
<1>13. Expanding'
  <2>1. ~Raw' /\ Upto(outBlocks)' = Upto(j + 1) /\ At(outBlocks)' = At(j + 1)
    <3>1. outBlocks' = j + 1
      BY <1>1, <1>5
    <3> QED
      BY <1>6, <3>1 DEF Raw, Upto, At, HeaderSize, Legacy, task
  <2>2. outBlocks' <= numBlocks'
    BY <1>0, <1>5, <1>6
  <2>3. DOMAIN outBuffer' = -HISTORY_SIZE .. outMax' - 1
    BY <1>0, <1>5, <1>6 DEF Filled
  <2>4. Len(output)' = Upto(outBlocks)' /\ outPos' = At(outBlocks)'
    BY <1>1, <1>2, <1>d, <2>1
  <2> QED
    BY <1>0, <1>5, <1>d, <1>6, <1>12, <2>1, <2>2, <2>3, <2>4 DEF Expanding
<1> QED
  BY <1>d, <1>9, <1>10, <1>13, OnlyExpanding

LEMMA FrameExpanded ==
  ASSUME Expressible, StreamInv, pc = "Expand", ~Raw, ExpandFrame,
         UNCHANGED <<compressed, flags, outMax>>, outDict' = DictAfter
  PROVE  StreamInv'
<1>0. /\ outPos = At(outBlocks) /\ outPos \in 0 .. Len(file)
      /\ outMax = blockMax /\ blockMax \in Nat \ {0} /\ Left \in Nat
      /\ Len(file) \in Nat /\ Left = Len(file) - outPos
  BY Sizes DEF StreamInv, Types, Expanding, Left
<1>1. CASE Left = 0
  <2>1. outPos' = outPos /\ EndOfBlocks
    BY <1>1 DEF ExpandFrame
  <2>2. cut = 0 => outBlocks = numBlocks
    <3>1. SUFFICES ASSUME cut = 0, outBlocks < numBlocks  PROVE FALSE
      BY NextBlock
    <3>2. /\ Len(file) >= At(outBlocks) + 1 + Size(outBlocks)
          /\ Size(outBlocks) \in 1 .. blockMax
      BY <3>1, NextBlock
    <3> QED  BY <1>0, <1>1, <3>2
  <2> QED  BY <1>0, <2>1, <2>2, BlocksEnd
<1>2. CASE Left # 0
  <2>1. PICK plain \in BOOLEAN :
          /\ file[outPos + 1] =
               Frame([size |-> IF outBlocks = numBlocks THEN 0
                               ELSE Size(outBlocks),
                      uncompressed |-> plain])
          /\ outBlocks < numBlocks =>
               \A p \in 0 .. Size(outBlocks) - 1 :
                 At(outBlocks) + 2 + p <= Len(file) =>
                   UnitOK(file[At(outBlocks) + 2 + p], outBlocks, p, plain)
    BY <1>2, NextFrame
  <2>2. PICK size \in 0 .. blockMax :
          /\ size = IF outBlocks = numBlocks THEN 0 ELSE Size(outBlocks)
          /\ outBlocks < numBlocks => size # 0
    <3>1. outBlocks # numBlocks => outBlocks < numBlocks
      BY NextBlock
    <3>2. CASE outBlocks = numBlocks
      <4>1. 0 \in 0 .. blockMax /\ ~(outBlocks < numBlocks)
        BY <1>0, <3>2, NextBlock
      <4> QED  BY <3>2, <4>1
    <3>3. CASE outBlocks # numBlocks
      <4>1. Size(outBlocks) \in 1 .. blockMax
        BY <3>1, <3>3, NextBlock
      <4>2. Size(outBlocks) \in 0 .. blockMax /\ Size(outBlocks) # 0
        BY <1>0, <4>1
      <4> QED  BY <3>3, <4>2
    <3> QED  BY <3>2, <3>3
  <2>3. /\ file[outPos + 1].kind = "frame"
        /\ file[outPos + 1].value.size = size
        /\ file[outPos + 1].value.uncompressed = plain
    <3>1. file[outPos + 1] = Frame([size |-> size, uncompressed |-> plain])
      BY <2>1, <2>2
    <3> QED  BY <3>1 DEF Frame, Unit
  <2>4. PICK got \in Nat : got = Min({size, Left - 1})
    <3>1. size \in Int /\ Left - 1 \in Int
      BY <1>0
    <3> QED  BY <1>0, <1>2, <3>1, LessOfTwo
  <2>5. got = IF size <= Left - 1 THEN size ELSE Left - 1
    <3>1. size \in Int /\ Left - 1 \in Int
      BY <1>0
    <3> QED  BY <2>4, <3>1, LessOfTwo
  <2>6. /\ outPos' = outPos + 1 + got
        /\ outEof' = (got < size)
        /\ IF size = 0 \/ got < size THEN EndOfBlocks
           ELSE ExpandPayload(SubSeq(file, outPos + 2, outPos + 1 + got),
                              plain)
    <3>1. ~(size > outMax)
      BY <1>0
    <3> QED  BY <1>2, <2>3, <2>4, <3>1 DEF ExpandFrame
  <2>7. CASE size = 0 \/ got < size
    <3>1. cut = 0 => outBlocks = numBlocks
      <4>1. SUFFICES ASSUME cut = 0, outBlocks < numBlocks  PROVE FALSE
        BY NextBlock
      <4>2. Len(file) >= At(outBlocks) + 1 + size /\ size # 0
        BY <2>2, <4>1, NextBlock
      <4> QED  BY <1>0, <2>5, <2>7, <4>2
    <3>2. outPos' \in 0 .. Len(file)
      <4>1. got <= Left - 1
        BY <1>0, <2>5
      <4>2. outPos' = outPos + 1 + got /\ outPos \in Nat
        BY <1>0, <2>6
      <4> QED  BY <1>0, <4>1, <4>2
    <3>3. EndOfBlocks
      BY <2>6, <2>7
    <3> QED  BY <3>1, <3>2, <3>3, BlocksEnd
  <2>8. CASE ~(size = 0 \/ got < size)
    <3>1. outBlocks # numBlocks
      BY <2>2, <2>8
    <3>2. outBlocks < numBlocks
      BY <3>1, NextBlock
    <3>3. size = Size(outBlocks) /\ got = size /\ size <= Left - 1
      BY <1>0, <2>2, <2>5, <2>8, <3>1
    <3>4. /\ At(outBlocks + 1) = outPos + 1 + got
          /\ At(outBlocks + 1) <= Len(file)
      <4>1. At(outBlocks + 1) = At(outBlocks) + 1 + Size(outBlocks)
        BY <3>2, NextBlock
      <4> QED  BY <1>0, <3>3, <4>1
    <3>5. ASSUME NEW p \in 0 .. Size(outBlocks) - 1
          PROVE  UnitOK(file[At(outBlocks) + 2 + p], outBlocks, p, plain)
      <4>1. At(outBlocks) + 2 + p <= Len(file)
        <5>1. p \in Int /\ p + 1 <= size /\ outPos \in Nat
          BY <1>0, <3>3
        <5>2. /\ outPos + 1 + size <= Len(file) /\ At(outBlocks) = outPos
              /\ size \in Int /\ Len(file) \in Int
          BY <1>0, <3>3, <3>4
        <5> QED  BY <5>1, <5>2
      <4> QED  BY <2>1, <3>2, <4>1
    <3>6. outPos' = At(outBlocks + 1) /\ ~outEof'
      BY <2>6, <2>8, <3>4
    <3>7. ExpandPayload(SubSeq(file, outPos + 2, At(outBlocks + 1)), plain)
      BY <2>6, <2>8, <3>4
    <3> QED  BY <3>2, <3>4, <3>5, <3>6, <3>7, BlockEmitted
  <2> QED  BY <2>7, <2>8
<1> QED
  BY <1>1, <1>2

(* A raw block is all of the data, or what is left of it.                  *)
LEMMA RawUnits ==
  ASSUME StreamInv, pc = "Expand", Raw, outBlocks = 0,
         NEW m \in Nat, Len(file) > 2 => m = Len(file) - 2,
         Len(file) <= 2 => m = 0
  PROVE  /\ Len(file) \in 0 .. outMax + 2 /\ m <= Len(data) /\ m <= outMax
         /\ cut = 0 => m = Len(data)
         /\ \A p \in 0 .. m - 1 : UnitOK(file[p + 1], 0, p, FALSE)
<1>0. /\ Types /\ Complete /\ blockMax \in Nat \ {0} /\ Len(data) \in Nat
      /\ Len(file) \in Nat /\ cut \in Nat /\ numBlocks \in Nat
      /\ outMax = BlockSize(MAX_CODE) /\ outMax \in Nat /\ RAW_MAX <= outMax
      /\ RAW_MAX \in Nat
  <2>1. BlockSize(MAX_CODE) \in Nat /\ RAW_MAX <= BlockSize(MAX_CODE)
        /\ RAW_MAX \in Nat
    BY StreamAssumption
  <2> QED  BY <2>1, Sizes DEF StreamInv, Closed, Expanding, Types
<1>1. /\ RawOK(file, numBlocks) /\ FooterSize = 0 /\ numBlocks <= 1
      /\ Len(file) = (IF numBlocks = 0 THEN 0 ELSE Upto(1) + 2) - cut
  <2>1. RawOK(file, numBlocks) /\ FooterSize = 0
    BY <1>0 DEF Complete, UnitsOK, FooterSize
  <2>2. FileSize(numBlocks) = IF numBlocks = 0 THEN 0 ELSE Upto(1) + 2
    BY DEF FileSize
  <2>3. FileSize(numBlocks) \in Nat
    <3>1. 1 \in Nat
      OBVIOUS
    <3>2. Upto(1) \in 0 .. Len(data)
      BY <1>0, <3>1, Blocks
    <3> QED  BY <1>0, <2>2, <3>2
  <2>4. Len(file) = FileSize(numBlocks) + FooterSize - cut
    BY <1>0 DEF Complete
  <2>5. Len(file) = FileSize(numBlocks) - cut
    BY <1>0, <2>1, <2>3, <2>4
  <2> QED  BY <2>1, <2>2, <2>5 DEF RawOK
<1>2. CASE numBlocks = 0
  <2>1. Len(file) = 0 /\ Upto(0) = 0 /\ Len(data) = 0
    BY <1>0, <1>1, <1>2, Blocks DEF Complete
  <2>2. m = 0 /\ Len(file) \in 0 .. outMax + 2
    BY <1>0, <2>1
  <2>3. \A p \in 0 .. m - 1 : UnitOK(file[p + 1], 0, p, FALSE)
    BY <2>2
  <2> QED  BY <1>0, <2>1, <2>2, <2>3
<1>3. CASE numBlocks = 1
  <2>1. Upto(1) = Len(data) /\ Upto(1) <= RAW_MAX
    BY <1>0, <1>1, <1>3 DEF Complete, RawOK
  <2>2. Len(file) = Len(data) + 2 - cut
    <3>1. Len(file) = (Upto(1) + 2) - cut
      BY <1>1, <1>3
    <3> QED  BY <1>0, <2>1, <3>1
  <2>3. /\ Len(file) \in 0 .. outMax + 2 /\ m <= Len(data) /\ m <= outMax
        /\ cut = 0 => m = Len(data)
    BY <1>0, <2>1, <2>2
  <2>4. ASSUME NEW p \in 0 .. m - 1  PROVE UnitOK(file[p + 1], 0, p, FALSE)
    <3>1. p \in 0 .. Upto(1) - 1 /\ p < Len(file)
      BY <1>0, <2>1, <2>3
    <3> QED  BY <1>1, <1>3, <3>1 DEF RawOK
  <2> QED  BY <2>3, <2>4
<1>4. numBlocks = 0 \/ numBlocks = 1
  BY <1>0, <1>1
<1> QED
  BY <1>2, <1>3, <1>4, Zenon

LEMMA RawExpanded ==
  ASSUME Expressible, StreamInv, pc = "Expand", Raw, ExpandRaw, ~outEof,
         UNCHANGED <<compressed, flags, outMax>>, outDict' = DictAfter
  PROVE  StreamInv'
<1>0. /\ Types /\ OutputOK /\ Len(file) \in Nat /\ Len(data) \in Nat
      /\ outMax = BlockSize(MAX_CODE) /\ outMax \in Nat
      /\ DOMAIN outBuffer = -HISTORY_SIZE .. outMax - 1
      /\ outPos \in 0 .. Len(file) /\ file \in Seq(Units)
      /\ Left = Len(file) - outPos /\ HISTORY_SIZE \in Nat
      /\ outPrev \in 0 .. HISTORY_SIZE /\ outDict \in {0, Len(dictionary)}
      /\ Len(dictionary) \in 0 .. HISTORY_SIZE /\ outBlocks \in Nat
  <2>1. BlockSize(MAX_CODE) \in Nat
    BY StreamAssumption
  <2> QED  BY <2>1, Sizes DEF StreamInv, Expanding, Types, Left
<1>1. UNCHANGED <<task, asked, blockMax, numBlocks, file, cut>>
  BY DEF compressed, sizes
<1>2. CASE outBlocks > 0
  <2>1. EndOfBlocks /\ UNCHANGED outPos
    BY <1>2 DEF ExpandRaw
  <2>2. /\ pc' = "Ended" /\ status' = "OK"
        /\ UNCHANGED <<outBuffer, output, outPrev, outBlocks>>
    BY <2>1 DEF EndOfBlocks, EndWith
  <2>3. cut = 0 => output = data
    BY <1>0, <1>2 DEF StreamInv, Expanding
  <2>4. Ended'
    BY <1>0, <1>1, <2>2, <2>3 DEF Ended, OutputOK, task
  <2>5. OutTypes'
    BY <1>0, <1>1, <2>1, <2>2 DEF OutTypes, Types, task, DictAfter
  <2> QED  BY <2>2, <2>4, <2>5, Ending
<1>3. CASE outBlocks = 0
  <2>0. outPos = 0 /\ output = <<>> /\ outPrev = 0 /\ outDict = Len(dictionary)
    BY <1>3 DEF StreamInv, Expanding
  <2>1. PICK m \in Nat : /\ Len(file) > 2 => m = Len(file) - 2
                         /\ Len(file) <= 2 => m = 0
    <3> DEFINE rest == IF Len(file) > 2 THEN Len(file) - 2 ELSE 0
    <3>1. /\ rest \in Nat /\ Len(file) > 2 => rest = Len(file) - 2
          /\ Len(file) <= 2 => rest = 0
      BY <1>0
    <3> QED  BY <3>1
  <2>2. /\ Len(file) \in 0 .. outMax + 2 /\ m <= Len(data) /\ m <= outMax
        /\ cut = 0 => m = Len(data)
        /\ \A p \in 0 .. m - 1 : UnitOK(file[p + 1], 0, p, FALSE)
    BY <1>3, <2>1, RawUnits
  <2>3. Min({outMax + 2, Left}) = Len(file) /\ Max({Len(file) - 2, 0}) = m
    <3>1. Min({outMax + 2, Left}) = Len(file)
      <4>1. /\ outMax + 2 \in Int /\ Left = Len(file) /\ Left \in Int
            /\ Left <= outMax + 2
        BY <1>0, <2>0, <2>2
      <4>2. outMax + 2 <= Left => outMax + 2 = Left
        BY <4>1
      <4> QED  BY <4>1, <4>2, LessOfTwo
    <3>2. Max({Len(file) - 2, 0}) = m
      BY <1>0, <2>1 DEF Max
    <3> QED  BY <3>1, <3>2
  <2>4. /\ outPos' = Len(file)
        /\ ExpandPayload(SubSeq(file, 1, m), FALSE)
    <3>1. PICK got \in Nat : got = Min({outMax + 2, Left})
      BY <1>0, <2>3
    <3>2. /\ outPos' = outPos + got
          /\ ExpandPayload(SubSeq(file, outPos + 1,
                                  outPos + Max({got - 2, 0})), FALSE)
      <4>1. ~(outBlocks > 0)
        BY <1>3
      <4> QED  BY <3>1, <4>1, Zenon DEF ExpandRaw
    <3>a. got = Len(file)
      BY <2>3, <3>1, Zenon
    <3>b. Max({got - 2, 0}) = m
      BY <2>3, <3>a, Zenon
    <3>3. /\ got = Len(file) /\ Max({got - 2, 0}) = m
          /\ outPos + got = got /\ outPos + m = m /\ outPos + 1 = 1
      BY <2>0, <3>a, <3>b
    <3> QED  BY <3>2, <3>3
  <2> DEFINE payload == SubSeq(file, 1, m)
  <2>5. /\ payload \in Seq(Units) /\ Len(payload) = m
        /\ \A p \in 0 .. m - 1 : UnitOK(payload[p + 1], 0, p, FALSE)
    <3>1. \A i \in 1 .. m : file[i] \in Units
      BY <1>0, <2>1, ElementOfSeq
    <3>2. /\ payload \in Seq(Units)
          /\ Len(payload) = IF 1 <= m THEN m - 1 + 1 ELSE 0
          /\ \A i \in 1 .. m - 1 + 1 : payload[i] = file[1 + i - 1]
      BY <3>1, SubSeqProperties
    <3> HIDE DEF payload
    <3>3. Len(payload) = m
      BY <3>2
    <3>4. ASSUME NEW p \in 0 .. m - 1
          PROVE  UnitOK(payload[p + 1], 0, p, FALSE)
      <4>1. p + 1 \in 1 .. m - 1 + 1 /\ 1 + (p + 1) - 1 = p + 1
        OBVIOUS
      <4>2. payload[p + 1] = file[p + 1]
        BY <3>2, <4>1
      <4> QED  BY <2>2, <4>2
    <3> QED  BY <3>2, <3>3, <3>4
  <2>6. HistoryRight(0)
    BY <1>0, <2>0, DictionaryHistory DEF FromDictionary
  <2>7. Upto(0) = 0
    BY <1>0, Sizes, Blocks
  <2>8. /\ outBuffer' = Filled(0, m)
        /\ output' \in Seq(Nat) /\ OutputOK'
        /\ outPrev' = IF m = 0 THEN HistorySize ELSE OutKept(m)
        /\ outBlocks' = outBlocks + 1
        /\ \/ Len(output') = Upto(0) + m /\ UNCHANGED <<pc, status>>
           \/ pc' = "Ended" /\ status' = "ERROR_DST"
    <3>1. Len(output) = Upto(0) /\ Upto(0) + m <= Len(data) /\ 0 \in Nat
      BY <2>0, <2>2, <2>7
    <3>2. ExpandPayload(payload, FALSE) /\ UNCHANGED compressed
      BY <2>4
    <3> HIDE DEF payload
    <3> QED  BY <1>0, <2>2, <2>5, <2>6, <3>1, <3>2, BlockOutput
  <2>9. outPrev' \in 0 .. HISTORY_SIZE
    <3>1. HistorySize \in 0 .. HISTORY_SIZE
      BY <1>0, <2>0 DEF HistorySize
    <3>2. Min({m, HISTORY_SIZE}) \in 0 .. HISTORY_SIZE
      BY <1>0, LessOfTwo
    <3>3. OutKept(m) \in 0 .. HISTORY_SIZE
      BY <1>0, <3>2 DEF OutKept
    <3> QED  BY <2>8, <3>1, <3>3
  <2>10. OutTypes'
    BY <1>0, <1>1, <2>4, <2>8, <2>9 DEF OutTypes, Types, task, DictAfter
  <2>a. SUFFICES ASSUME Len(output') = Upto(0) + m, UNCHANGED <<pc, status>>
                 PROVE  StreamInv'
    BY <2>8, <2>10, OutputFails
  <2>11. FlagsOK' /\ Raw'
    BY <1>1, <2>a DEF StreamInv, FlagsOK, Raw, Legacy
  <2>12. cut' = 0 => output' = data'
    <3>1. ASSUME cut = 0  PROVE output' = data
      <4>1. Len(output') = Len(data)
        BY <2>2, <2>7, <2>8, <2>a, <3>1
      <4>2. /\ output' \in [1 .. Len(data) -> Nat]
            /\ data \in [1 .. Len(data) -> Nat]
        BY <1>0, <2>8, <4>1, Sizes, LenProperties
      <4>3. \A i \in 1 .. Len(data) : output'[i] = data[i]
        BY <1>1, <2>8, <4>1 DEF OutputOK, task
      <4> QED  BY <4>2, <4>3
    <3> QED  BY <1>1, <3>1 DEF task
  <2>13. Expanding'
    <3>1. outBlocks' # 0 /\ DOMAIN outBuffer' = -HISTORY_SIZE .. outMax' - 1
      BY <1>0, <1>3, <2>8 DEF Filled
    <3> QED  BY <1>0, <2>8, <2>a, <2>11, <2>12, <3>1 DEF Expanding
  <2> QED  BY <2>a, <2>10, <2>11, <2>13, OnlyExpanding
<1> QED
  BY <1>0, <1>2, <1>3

LEMMA Finished ==
  ASSUME StreamInv, Finish, UNCHANGED <<code, reading, sizes, frameData,
                                        asked, cut>>
  PROVE  StreamInv'
<1>1. /\ pc = "Expand" /\ pc' = "Ended" /\ status' = "OK"
      /\ UNCHANGED compressed /\ UNCHANGED expander
  BY DEF Finish, EndWith, compressed, task
<1>2. OutputOK /\ (cut = 0 => output = data)
  BY <1>1 DEF StreamInv, Expanding, Finish
<1>3. Ended'
  BY <1>1, <1>2 DEF Ended, OutputOK, compressed, expander, task
<1>4. OutTypes'
  BY <1>1 DEF StreamInv, Types, OutTypes, compressed, expander, task, sizes
<1> QED
  BY <1>1, <1>3, <1>4, Ending

LEMMA OutputClosing ==
  ASSUME StreamInv, CloseOutput
  PROVE  StreamInv'
<1>0. /\ Types /\ OutputOK /\ pc = "Ended" /\ pc' = "OutputClosed"
      /\ UNCHANGED <<task, status, compressor, file, outPos, outEof,
                     outBuffer, outMax, outPrev, outDict, outBlocks, asked,
                     cut>>
      /\ output \in Seq(Nat) /\ Len(output) \in Nat /\ Len(data) \in Nat
  <2>1. Types /\ OutputOK
    BY DEF StreamInv, CloseOutput, Ended
  <2>2. output \in Seq(Nat) /\ Len(output) \in Nat /\ Len(data) \in Nat
    BY <2>1, Sizes, LenProperties DEF Types
  <2> QED  BY <2>1, <2>2 DEF CloseOutput
<1>1. PICK n \in 0 .. Min({Unwritten, Len(output)}) :
        output' = Short(output, n)
  BY DEF CloseOutput
<1>2. n \in 0 .. Len(output)
  <2>1. Unwritten \in Int /\ Len(output) \in Int
    BY <1>0, StreamAssumption DEF Unwritten
  <2>2. Min({Unwritten, Len(output)}) =
          IF Unwritten <= Len(output) THEN Unwritten ELSE Len(output)
    BY <2>1, LessOfTwo
  <2> QED  BY <1>0, <1>1, <2>1, <2>2
<1>3. /\ output' \in Seq(Nat) /\ Len(output') = Len(output) - n
      /\ \A i \in 1 .. Len(output) - n : output'[i] = output[i]
  BY <1>0, <1>1, <1>2, StartKept
<1>4. OutputOK'
  <2>1. UNCHANGED data
    BY <1>0 DEF task
  <2>2. Len(output') <= Len(data)
    BY <1>0, <1>2, <1>3 DEF OutputOK
  <2>3. \A i \in 1 .. Len(output') : output'[i] = data[i]
    BY <1>0, <1>2, <1>3 DEF OutputOK
  <2> QED  BY <2>1, <2>2, <2>3 DEF OutputOK
<1>5. Types'
  <2>1. Legacy' = Legacy
    BY <1>0 DEF Legacy
  <2> QED
    BY <1>0, <1>3, <2>1 DEF Types, task, compressor, reading, sizes
<1>6. /\ FlagsOK' /\ NotOpened' /\ Compressing' /\ Closed' /\ NotExpanded'
      /\ Expanding' /\ Ended'
  BY <1>0, <1>4 DEF FlagsOK, NotOpened, Compressing, Closed, NotExpanded,
                    Expanding, Ended
<1> QED
  BY <1>5, <1>6 DEF StreamInv

LEMMA StreamStep ==
  ASSUME Expressible, StreamInv, [Next]_vars
  PROVE  StreamInv'
<1>1. CASE CompressNext /\ UNCHANGED <<expanding, asked, cut>>
  <2>1. CASE Open
    BY <1>1, <2>1, Opened
  <2>2. CASE NothingRead
    BY <1>1, <2>2, AtTheEnd
  <2>3. CASE Block
    BY <1>1, <2>3, BlockCompressed
  <2>4. CASE Close
    BY <1>1, <2>4, FileClosed
  <2> QED  BY <1>1, <2>1, <2>2, <2>3, <2>4 DEF CompressNext
<1>2. CASE Reopen
  BY <1>2, Reopened
<1>5. CASE CloseFile
  BY <1>5, FileClosing
<1>6. CASE CloseOutput
  BY <1>6, OutputClosing
<1>3. CASE ExpandNext /\ UNCHANGED <<code, reading, sizes, frameData, asked,
                                     cut>>
  <2>1. CASE ReadHeader
    BY <1>3, <2>1, HeaderRead
  <2>2. CASE Expand
    <3>1. /\ pc = "Expand" /\ ~outEof /\ outDict' = DictAfter
          /\ UNCHANGED <<compressed, flags, outMax>>
          /\ ExpandFrame \/ ExpandRaw
      BY <1>3, <2>2 DEF Expand, compressed, task
    <3>2. CASE ExpandFrame
      <4>1. ~Raw
        BY <3>1, <3>2 DEF ExpandFrame, StreamInv, FlagsOK
      <4> QED  BY <3>1, <3>2, <4>1, FrameExpanded
    <3>3. CASE ExpandRaw
      <4>1. Raw
        BY <3>1, <3>3 DEF ExpandRaw, StreamInv, FlagsOK, RAW, LEGACY, INDEP
      <4> QED  BY <3>1, <3>3, <4>1, RawExpanded
    <3> QED  BY <3>1, <3>2, <3>3
  <2>3. CASE Finish
    BY <1>3, <2>3, Finished
  <2> QED  BY <1>3, <2>1, <2>2, <2>3 DEF ExpandNext
<1>4. CASE UNCHANGED vars
  <2>1. UNCHANGED <<pc, status, compressed, flags, expanding>>
    BY <1>4 DEF vars, compressor, expander, compressed, expanding
  <2>2. UNCHANGED <<data, dictionary, asked, blockMax, code, numBlocks,
                    inPos, inEof, buffer, preloaded, prevSize, dictSize,
                    frameData, file, cut, outPos, outEof, outBuffer, outMax,
                    outPrev, outDict, outBlocks, output>>
    BY <2>1 DEF compressed, expanding, task, reading, sizes
  <2> USE <2>2
  <2>3. UNCHANGED <<task, asked, blockMax>>
    BY DEF task
  <2>4. /\ Raw' = Raw /\ Legacy' = Legacy /\ Alone' = Alone
        /\ HeaderSize' = HeaderSize /\ FooterSize' = FooterSize
        /\ \A j : /\ Upto(j)' = Upto(j) /\ Size(j)' = Size(j)
                  /\ At(j)' = At(j) /\ FileSize(j)' = FileSize(j)
                  /\ FromDictionary(j)' = FromDictionary(j)
    BY <2>3, SamePlaces, SameBytes
  <2>5. Types'
    BY <2>1, <2>4 DEF StreamInv, Types
  <2>6. FlagsOK' /\ NotOpened' /\ NotExpanded'
    BY <2>1, <2>4 DEF StreamInv, FlagsOK, NotOpened, NotExpanded
  <2>7. Closed'
    BY <2>1, StillComplete DEF StreamInv, Closed
  <2>8. Compressing'
    <3>1. UnitsOK(file, numBlocks)' = UnitsOK(file, numBlocks)
      BY DEF UnitsOK, RawOK, HeaderOK, BlockOK, UnitOK, Reaches, ByteAt,
             FromDictionary, Alone, Legacy, Raw, Upto, Size, At, HeaderSize
    <3>2. /\ Upto(numBlocks)' = Upto(numBlocks) /\ Upto(1)' = Upto(1)
          /\ Upto(numBlocks - 1)' = Upto(numBlocks - 1)
          /\ FileSize(numBlocks)' = FileSize(numBlocks)
          /\ (More /\ InBufferOK => InBufferOK') /\ (More' => More)
      BY <2>1, <2>4 DEF InBufferOK, More, Upto, FileSize, At, FromDictionary
    <3> QED  BY <2>1, <3>1, <3>2 DEF StreamInv, Compressing
  <2>9. Expanding' /\ Ended'
    <3>1. OutputOK => OutputOK'
      BY DEF OutputOK
    <3>2. OutBufferOK => OutBufferOK'
      BY <2>4 DEF OutBufferOK, Upto, FromDictionary
    <3>3. At(outBlocks)' = At(outBlocks) /\ Upto(outBlocks)' = Upto(outBlocks)
      BY <2>4 DEF At, Upto
    <3>4. Ended'
      BY <2>1, <3>1 DEF StreamInv, Ended
    <3>5. Expanding'
      BY <2>1, <2>4, <3>1, <3>2, <3>3 DEF StreamInv, Expanding
    <3> QED  BY <3>4, <3>5
  <2> QED
    BY <2>5, <2>6, <2>7, <2>8, <2>9 DEF StreamInv
<1> QED
  BY <1>1, <1>2, <1>3, <1>4, <1>5, <1>6 DEF Next, Stop

-----------------------------------------------------------------------------
(* The invariant holds of every file that says all that is needed.         *)
THEOREM StreamInvariant ==
  ASSUME Expressible
  PROVE  Spec => []StreamInv
<1>1. StreamInv /\ [Next]_vars => StreamInv'
  BY StreamStep
<1> QED
  BY <1>1, StreamInit, PTL DEF Spec

(* lz4ultra gets back the data it compressed, whatever the encoder copied, *)
(* however the blocks fell, and whichever of them were left uncompressed:  *)
(* frames, dictionary and history of lz4ultra_compress_stream are those of *)
(* lz4ultra_decompress_stream.                                             *)
THEOREM RoundTripAlways ==
  ASSUME Expressible
  PROVE  Spec => []RoundTrip
<1>1. StreamInv => RoundTrip
  BY DEF StreamInv, Ended, RoundTrip
<1> QED
  BY <1>1, StreamInvariant, PTL

(* Wherever a file is cut, what lz4ultra_decompress_stream has written of  *)
(* it is the start of the data.                                            *)
THEOREM OutputIsPrefixAlways ==
  ASSUME Expressible
  PROVE  Spec => []OutputIsPrefix
<1>1. ASSUME StreamInv, pc \in {"Expand", "Ended", "OutputClosed"}
      PROVE  IsPrefix(output, data)
  <2>1. OutputOK /\ Types
    BY <1>1 DEF StreamInv, Expanding, Ended
  <2>2. /\ output \in Seq(Nat) /\ data \in Seq(Nat)
        /\ Len(output) \in Nat /\ Len(data) \in Nat
        /\ output \in [1 .. Len(output) -> Nat]
    BY <2>1, Sizes, LenProperties DEF Types
  <2>3. \A i \in 1 .. Len(output) : data[i] \in Nat
    BY <2>1, <2>2, ElementOfSeq DEF OutputOK
  <2> DEFINE start == SubSeq(data, 1, Len(output))
  <2>4. /\ start \in Seq(Nat)
        /\ Len(start) = IF 1 <= Len(output) THEN Len(output) - 1 + 1 ELSE 0
        /\ \A i \in 1 .. Len(output) - 1 + 1 : start[i] = data[1 + i - 1]
    <3>1. Len(output) \in Int /\ 1 \in Int
      BY <2>2
    <3> QED  BY <2>3, <3>1, SubSeqProperties
  <2> HIDE DEF start
  <2>5. Len(start) = Len(output)
    BY <2>2, <2>4
  <2>6. \A i \in 1 .. Len(output) : start[i] = output[i]
    <3> TAKE i \in 1 .. Len(output)
    <3>1. i \in 1 .. Len(output) - 1 + 1 /\ 1 + i - 1 = i
      BY <2>2
    <3> QED  BY <2>1, <2>4, <3>1 DEF OutputOK
  <2>7. start \in [1 .. Len(output) -> Nat]
    BY <2>4, <2>5, LenProperties
  <2>8. start = output
    BY <2>2, <2>6, <2>7
  <2> QED
    BY <2>1, <2>2, <2>8 DEF IsPrefix, OutputOK, start
<1>2. StreamInv => OutputIsPrefix
  BY <1>1 DEF OutputIsPrefix
<1> QED
  BY <1>2, StreamInvariant, PTL

(* When lz4ultra_compress_file ends without an error, all of the data was  *)
(* read, and the file lacks nothing of its blocks and the end mark but the *)
(* end that stdio had not written when it was closed.                      *)
THEOREM NothingMissingAlways ==
  ASSUME Expressible
  PROVE  Spec => []NothingMissing
<1>1. ASSUME StreamInv, pc = "Closed", status = "OK"
      PROVE  /\ inPos = Len(data)
             /\ Len(file) + cut = WholeSize
             /\ cut <= STDIO_BUFFER
             /\ cut = 0 /\ {RAW, LEGACY} \cap flags = {} =>
                  Last(file) = Footer[1]
  <2>1. /\ inPos = Len(data) /\ Complete /\ cut <= STDIO_BUFFER /\ Types
        /\ Len(data) \in Nat /\ Len(file) \in Nat /\ data \in Seq(Nat)
        /\ blockMax \in Nat \ {0} /\ numBlocks \in Nat /\ cut \in Nat
    BY <1>1, Sizes DEF StreamInv, Closed, Types
  <2>2. flags = IF Legacy THEN asked \union {INDEP} ELSE asked
    BY <1>1 DEF StreamInv, FlagsOK
  <2>3. (RAW \in flags <=> Raw) /\ (LEGACY \in flags <=> Legacy)
    BY <2>2 DEF Raw, Legacy, RAW, LEGACY, INDEP
  <2>4. At(numBlocks) \in Nat /\ Upto(numBlocks) = Len(data)
    <3>1. Upto(numBlocks) = Len(data)
      BY <2>1 DEF Complete
    <3> QED  BY <2>1, <3>1 DEF At, HeaderSize
  <2>5. /\ Len(Footer) = FooterSize
        /\ FooterSize = 1 =>
             Footer[1] = Frame([size |-> 0, uncompressed |-> FALSE])
    BY <2>3 DEF Footer, FooterSize
  <2>6. Len(file) + cut = WholeSize
    <3>1. Len(file) + cut = FileSize(numBlocks) + FooterSize
      <4>1. FileSize(numBlocks) \in Int /\ FooterSize \in Int
        <5>1. Upto(1) \in 0 .. Len(data)
          BY <2>1, Blocks
        <5> QED  BY <2>1, <2>4, <5>1 DEF FileSize, FooterSize
      <4>2. Len(file) = FileSize(numBlocks) + FooterSize - cut
        BY <2>1 DEF Complete
      <4> QED  BY <2>1, <4>1, <4>2
    <3>2. CASE Raw
      <4>1. numBlocks <= 1
        BY <2>1, <3>2 DEF Complete, UnitsOK, RawOK
      <4>2. numBlocks = 0 => Len(data) = 0
        BY <2>1, <2>4, Blocks
      <4>3. numBlocks = 1 => Upto(1) = Len(data)
        BY <2>4
      <4>4. FileSize(numBlocks) = Len(data) + 2 * numBlocks
        BY <2>1, <3>2, <4>1, <4>2, <4>3 DEF FileSize
      <4> QED
        BY <2>1, <2>3, <2>5, <3>1, <3>2, <4>4 DEF WholeSize, FooterSize
    <3>3. CASE ~Raw
      <4>1. Len(Header(code)) = HeaderSize
        <5>1. code \in Nat
          BY <2>1, StreamAssumption DEF Types
        <5> QED  BY <2>3, <5>1, HeaderWritten DEF HeaderSize
      <4>2. FileSize(numBlocks) = HeaderSize + numBlocks + Len(data)
        BY <2>4, <3>3 DEF FileSize, At
      <4>3. WholeSize = Len(data) + Len(Footer)
                          + (Len(Header(code)) + numBlocks)
        BY <2>3, <3>3 DEF WholeSize
      <4>4. WholeSize = Len(data) + FooterSize + (HeaderSize + numBlocks)
        BY <2>5, <4>1, <4>3
      <4>5. FooterSize \in Int /\ HeaderSize \in Int
        BY DEF FooterSize, HeaderSize
      <4> QED
        BY <2>1, <3>1, <4>2, <4>4, <4>5
    <3> QED  BY <3>2, <3>3
  <2>7. ASSUME cut = 0, {RAW, LEGACY} \cap flags = {}
        PROVE  Last(file) = Footer[1]
    <3>1. ~Raw /\ ~Legacy
      BY <2>3, <2>7
    <3>2. Len(file) = At(numBlocks) + 1 /\ FooterSize = 1
      BY <2>1, <2>4, <2>7, <3>1 DEF Complete, FileSize, FooterSize
    <3>3. file[Len(file)] = Frame([size |-> 0, uncompressed |-> FALSE])
      BY <2>1, <2>4, <3>2 DEF Complete
    <3> QED
      BY <2>5, <3>2, <3>3 DEF Last
  <2> QED  BY <2>1, <2>6, <2>7
<1>2. StreamInv => NothingMissing
  BY <1>1, Zenon DEF NothingMissing
<1> QED
  BY <1>2, StreamInvariant, PTL

(* The state keeps its types; sizes of blocks are those of a block size    *)
(* code, or the legacy one.                                                *)
THEOREM StreamTypes ==
  ASSUME Expressible
  PROVE  Spec => []TypeOK
<1>1. ASSUME StreamInv  PROVE TypeOK
  <2>1. Types
    BY <1>1 DEF StreamInv
  <2>2. HISTORY_SIZE \in Nat /\ Len(dictionary) \in 0 .. HISTORY_SIZE
    BY <2>1, Sizes
  <2>3. {prevSize, dictSize, outPrev, outDict} \subseteq 0 .. HISTORY_SIZE
    BY <2>1, <2>2 DEF Types
  <2>4. MAX_CODE \in MIN_CODE .. MAX_CODE
    BY StreamAssumption
  <2>5. pc = "Open" => blockMax = 0
    BY <1>1 DEF StreamInv, NotOpened
  <2>6. {blockMax, outMax}
          \subseteq {0, LEGACY_BLOCK_SIZE}
                      \union {BlockSize(c) : c \in MIN_CODE .. MAX_CODE}
    BY <2>1, <2>4, <2>5 DEF Types
  <2> QED
    BY <2>1, <2>3, <2>6 DEF TypeOK, Types
<1> QED
  BY <1>1, StreamInvariant, PTL

=============================================================================
