------------------------- MODULE Lzsa2DecoderProofs -------------------------
(***************************************************************************)
(* The first part is about LZSA2_Decompress on any bytes at all, well      *)
(* formed or not, with any LZSA2_OPT_INLINE and its tables in any bank:    *)
(* what it does to the registers, the banks and the stack cannot be        *)
(* disturbed by the data, the exit two calls deep in a length included     *)
(* (IInv).                                                                 *)
(*                                                                         *)
(* The second is about blocks that lzsa -f2 writes, without runs of        *)
(* literals the routine cannot take and where its tables can be read       *)
(* (WellFormed): where in the script it is at each label, nibble put aside *)
(* and repeated offset included, and what of the text has been made        *)
(* (Decoding). From it follows that the routine is a decompressor.         *)
(***************************************************************************)
EXTENDS Lzsa2Decoder, LzRoutineProofs

Steady8  == {"ReadToken", "DecodeLitLen", "LitLen", "DecodeMatchOffset",
             "OffsetLow"}
Steady16 == {"CopyLiteral", "CopyMatch", "Done"}
Moving   == {"BlockMove", "MatchCopied"}

InLength    == {"GetExtLen", "LenByte", "LenWord"}
AfterLength == {"LitLenRead", "MatchLenRead"}

(* The stack while a length is read: Y, which is put aside for it, and     *)
(* where GetExtLen returns to.                                             *)
ReadFrame(w)         == Push(Frame, Item("word", w))
LengthFrame(w, next) == Push(ReadFrame(w), Item("addr", next))

StackShape ==
    /\ pc = "Main" => stack = EmptyStack
    /\ pc = "Setup" => stack = Called
    /\ pc \in Steady8 \cup {"DecodeMatchLen"} \cup Steady16 => stack = Frame
    /\ pc \in Moving => /\ SavedX \in Word
                        /\ stack = MoveFrame(SavedX)
    /\ pc \in InLength => \E w \in Word, next \in AfterLength :
                              stack = LengthFrame(w, next)
    /\ pc \in AfterLength => \E w \in Word : stack = ReadFrame(w)
    /\ pc = "Idle" => stack = EmptyStack

(* DecodeMatchLen is reached in both widths, and sets its own. *)
Width ==
    /\ pc \in {"Main", "Setup", "Idle"} \cup Steady8 \cup InLength => m = 8
    /\ pc \in Steady16 \cup AfterLength \cup Moving => m = 16

Banks ==
    /\ pc \in {"Main", "Setup", "Idle"} => db = 128 /\ dp = 0
    /\ pc = "Setup" => /\ y = call.dst
                       /\ a = MakeWord(call.srcBank, call.dstBank)
    /\ pc \notin {"Main", "Setup", "MatchCopied", "Idle"} => db = call.srcBank
    /\ pc \notin {"Main", "Setup"} => /\ inBank = call.srcBank
                                      /\ outBank = call.dstBank

(* In a length, Y says of which kind it is, and the tables are read at it. *)
Chosen ==
    /\ pc \in InLength => y \in {0, 1}
    /\ pc = "LitLen" => LitField \in {1, 2}

IInv == TypeOK /\ StackShape /\ Width /\ Banks /\ Chosen

-----------------------------------------------------------------------------
LEMMA InitInv == Init => IInv
<1> SUFFICES ASSUME Init PROVE IInv
  OBVIOUS
<1>1. TypeOK
  BY SMT, RoutineInitType DEF Init, RoutineInit, TypeOK, Labels, Byte
<1> QED
  BY SMT, <1>1
  DEF Init, RoutineInit, IInv, StackShape, Width, Banks, Chosen, Steady8,
      Steady16, Moving, InLength, AfterLength

-----------------------------------------------------------------------------
(* ReadNibble gives a nibble and keeps the flag a flag. *)
LEMMA NibbleType ==
    ASSUME CommonTypeOK, nibble \in Byte
    PROVE  NextNibble \in 0 .. 15
<1>1. ReadByte \in Byte
  BY LoadType
<1>2. ReadByte \div 16 \in 0 .. 15
  <2> DEFINE b == ReadByte
  <2>1. b \in Nat /\ b < 256
    BY <1>1 DEF Byte
  <2> HIDE DEF b
  <2>2. b \div 16 \in 0 .. 15
    BY SMT, <2>1
  <2> QED BY <2>2 DEF b
<1>3. nibble % 16 \in 0 .. 15
  BY SMT DEF Byte
<1> QED BY <1>2, <1>3 DEF NextNibble

LEMMA TakeNibbleType ==
    ASSUME CommonTypeOK, nibble \in Byte, nibrdy \in {0, 1}, TakeNibble
    PROVE  x' \in Word /\ nibble' \in Byte /\ nibrdy' \in {0, 1}
<1>1. ReadByte \in Byte
  BY LoadType
<1>2. Wrap(x + 1) \in Word
  BY SMT, WrapType DEF CommonTypeOK, Word
<1>3. CASE NibbleReady
  <2>1. nibrdy = 1
    BY SMT, <1>3 DEF NibbleReady
  <2> QED BY SMT, <1>3, <2>1 DEF TakeNibble, CommonTypeOK
<1>4. CASE ~NibbleReady
  <2>1. nibrdy = 0
    BY SMT, <1>4 DEF NibbleReady
  <2> QED BY SMT, <1>1, <1>2, <1>4, <2>1 DEF TakeNibble
<1> QED BY <1>3, <1>4

(* A table entry is a byte, whichever bank it is read from. *)
LEMMA TableType ==
    ASSUME CommonTypeOK, y \in {0, 1}
    PROVE  NibbleLenAdd \in Byte /\ ByteLenAdd \in Byte
<1>1. TableAt + y \in Word /\ TableAt + 2 + y \in Word
  BY SMT DEF TableAt, Word
<1>2. /\ RomByte(call.block, call.srcBank, call.src, db, TableAt + y) \in Byte
      /\ RomByte(call.block, call.srcBank, call.src, db, TableAt + 2 + y)
             \in Byte
  BY <1>1, CallType, RomByteType DEF CommonTypeOK
<1>3. <<3, 9>>[y + 1] \in Byte /\ <<17, 23>>[y + 1] \in Byte
  BY SMT DEF Byte
<1> QED BY <1>2, <1>3 DEF NibbleLenAdd, ByteLenAdd, Table

-----------------------------------------------------------------------------
(* The way into GetExtLen, for literals and for matches. *)
LEMMA CallGetExtLenInv ==
    ASSUME IInv, NEW kind \in {0, 1}, NEW next \in AfterLength,
           pc \in {"DecodeLitLen", "DecodeMatchLen"},
           CallGetExtLen(kind, next), a' \in Word, match' \in Word,
           UNCHANGED <<fixed, output, x, db, state>>
    PROVE  IInv'
<1> USE DEF Steady8, Steady16, Moving, InLength, AfterLength, fixed, output,
            state
<1>1. TypeOK'
  BY SMT
  DEF CallGetExtLen, IInv, TypeOK, CommonTypeOK, Labels, Bit, Word
<1>2. Frame' = Frame
  BY FrameFixed
<1>3. PICK w \in Word : w = y
  BY DEF IInv, TypeOK, CommonTypeOK
<1>4. stack' = LengthFrame(w, next)'
  BY SMT, <1>2, <1>3
  DEF CallGetExtLen, IInv, StackShape, LengthFrame, ReadFrame
<1>5. StackShape'
  BY SMT, <1>4 DEF CallGetExtLen, StackShape
<1> QED
  BY SMT, <1>1, <1>5 DEF CallGetExtLen, IInv, Width, Banks, Chosen

(* The way back with a length. *)
LEMMA LengthInv ==
    ASSUME IInv, pc \in InLength,
           NEW len \in Word, NEW carry \in Bit, Length(len, carry),
           x' \in Word, nibble' \in Byte, nibrdy' \in {0, 1},
           UNCHANGED <<fixed, output, y, db, match, token>>
    PROVE  IInv'
<1> USE DEF Steady8, Steady16, Moving, InLength, AfterLength, fixed, output
<1>1. PICK w \in Word, next \in AfterLength : stack = LengthFrame(w, next)
  BY DEF IInv, StackShape
<1>2. ReturnTo(stack) = next /\ Pop(stack) = ReadFrame(w)
  BY SMT, <1>1 DEF LengthFrame, Top, Pop, Push, Item, ReturnTo
<1>3. TypeOK'
  BY SMT, <1>2 DEF Length, IInv, TypeOK, CommonTypeOK, Labels
<1>4. Frame' = Frame
  BY FrameFixed
<1>5. stack' = ReadFrame(w)'
  BY SMT, <1>2, <1>4 DEF Length, ReadFrame
<1>6. pc' = next
  BY <1>2 DEF Length
<1>7. StackShape'
  BY SMT, <1>5, <1>6 DEF StackShape
<1> QED
  BY SMT, <1>3, <1>6, <1>7 DEF Length, IInv, Width, Banks, Chosen

(* And what is below it: ply gives back Y, and the frame is left. *)
LEMMA PlyType ==
    ASSUME NEW w \in Word, stack = ReadFrame(w)
    PROVE  ItemValue(Top(stack)) = w /\ Pop(stack) = Frame
BY SMT DEF ReadFrame, Top, Pop, Push, Item, ItemValue

-----------------------------------------------------------------------------
(* Every action preserves the invariant. *)
LEMMA StepInv == IInv /\ [Next]_vars => IInv'
<1> SUFFICES ASSUME IInv, [Next]_vars PROVE IInv'
  OBVIOUS
<1> USE DEF Steady8, Steady16, Moving, InLength, AfterLength, fixed, output,
            state
<1>t. CommonTypeOK
  BY DEF IInv, TypeOK
<1>l. ReadByte \in Byte /\ ReadWord \in Word
  BY <1>t, LoadType
<1>w. Wrap(x + 1) \in Word /\ Wrap(x + 2) \in Word
  BY SMT, <1>t, WrapType DEF CommonTypeOK, Word
<1>1. CASE Main
  <2>1. TypeOK'
    <3>1. CommonTypeOK'
      BY <1>1, <1>t, CallRoutineType DEF Main
    <3>2. pc' \in Labels
      BY SMT, <1>1 DEF Main, CallRoutine, Labels
    <3> QED
      BY SMT, <1>1, <3>1, <3>2 DEF Main, CallRoutine, IInv, TypeOK
  <2> QED
    BY SMT, <1>1, <2>1
    DEF Main, CallRoutine, IInv, StackShape, Width, Banks, Chosen, Called
<1>2. CASE Setup
  <2>1. TypeOK'
    <3>1. PortAtSetup \in WramAddress
      BY <1>t, PortAtYType DEF PortAtSetup, CommonTypeOK
    <3>2. /\ db' \in Byte /\ dp' \in Word /\ a' \in Word
          /\ inBank' \in Byte /\ outBank' \in Byte /\ wmadd' \in WramAddress
      BY <1>2, <1>t, <3>1, SetupFrameType DEF Setup
    <3> QED
      BY SMT, <1>2, <3>2
      DEF Setup, ClearedNibrdy, IInv, TypeOK, CommonTypeOK, Labels
  <2>2. /\ stack = Called /\ db = 128 /\ dp = 0 /\ y = call.dst
        /\ a = MakeWord(call.srcBank, call.dstBank) /\ CallOK(call)
    BY SMT, <1>2, <1>t DEF Setup, IInv, StackShape, Banks, CommonTypeOK
  <2>3. /\ stack' = Frame' /\ db' = call.srcBank
        /\ inBank' = call.srcBank /\ outBank' = call.dstBank
    BY <1>2, <2>2, SetupBuildsFrame DEF Setup
  <2> QED
    BY SMT, <1>2, <2>1, <2>3 DEF Setup, IInv, StackShape, Width, Banks, Chosen
<1>3. CASE ReadToken
  <2>1. SetLo(a, ReadByte) \in Word
    BY <1>t, <1>l, SetLoType DEF CommonTypeOK
  <2>2. TypeOK'
    BY SMT, <1>3, <1>l, <1>w, <2>1
    DEF ReadToken, IInv, TypeOK, CommonTypeOK, Labels
  <2>3. Frame' = Frame
    BY <1>3, FrameFixed DEF ReadToken
  <2> QED
    BY SMT, <1>3, <2>2, <2>3
    DEF ReadToken, IInv, StackShape, Width, Banks, Chosen
<1>4. CASE DecodeLitLen
  <2>1. LitField \in 0 .. 3
    BY SMT DEF LitField, IInv, TypeOK, Byte
  <2>2. SetLo(a, 0) \in Word /\ SetLo(a, LitField * 8) \in Word
    BY SMT, <1>t, <2>1, SetLoType DEF CommonTypeOK, Byte
  <2>3. Frame' = Frame
    BY <1>4, FrameFixed DEF DecodeLitLen
  <2>4. CASE NoLiteral
    <3>1. TypeOK'
      BY SMT, <1>4, <2>2, <2>4
      DEF DecodeLitLen, NoLiteral, IInv, TypeOK, CommonTypeOK, Labels
    <3> QED
      BY SMT, <1>4, <2>3, <2>4, <3>1
      DEF DecodeLitLen, NoLiteral, IInv, StackShape, Width, Banks, Chosen
  <2>5. CASE FewLiterals
    <3>1. LitField \in {1, 2} /\ LitField \in Word
      BY SMT, <2>5 DEF FewLiterals, LITERALS_RUN_LEN, Word
    <3>2. TypeOK'
      BY SMT, <1>4, <2>2, <2>5, <3>1
      DEF DecodeLitLen, FewLiterals, IInv, TypeOK, CommonTypeOK, Labels, Bit
    <3>3. LitField' = LitField
      BY <1>4 DEF DecodeLitLen, LitField
    <3> QED
      BY SMT, <1>4, <2>3, <2>5, <3>1, <3>2, <3>3
      DEF DecodeLitLen, FewLiterals, IInv, StackShape, Width, Banks, Chosen
  <2>6. CASE ExtLitLen
    <3>1. a' \in Word /\ match' \in Word
      BY <1>4, <1>t, <2>2, <2>6 DEF DecodeLitLen, ExtLitLen, CommonTypeOK
    <3>2. CallGetExtLen(0, "LitLenRead")
      BY <2>6 DEF ExtLitLen
    <3> QED
      BY <1>4, <3>1, <3>2, CallGetExtLenInv DEF DecodeLitLen
  <2> QED BY <1>4, <2>4, <2>5, <2>6 DEF DecodeLitLen
<1>5. CASE LitLen
  <2>1. LitField \in {1, 2} /\ stack = Frame
    BY SMT, <1>5 DEF LitLen, IInv, Chosen, StackShape
  <2> DEFINE bytes == [i \in 0 .. LitField - 1 |->
                          RomByte(call.block, call.srcBank, call.src, db,
                                  Wrap(x + i))]
  <2>2. ASSUME NEW i \in 0 .. LitField - 1
        PROVE  RomByte(call.block, call.srcBank, call.src, db, Wrap(x + i))
                   \in Byte
    <3>1. Wrap(x + i) \in Word
      BY SMT, <1>t, <2>1, WrapType DEF CommonTypeOK, Word
    <3> QED BY <1>t, <3>1, CallType, RomByteType DEF CommonTypeOK
  <2>3. bytes \in [0 .. LitField - 1 -> Byte]
    BY <2>2
  <2>4. bytes[LitField - 1] \in Byte
    BY SMT, <2>1, <2>3
  <2>5. /\ wram' = DmaToWram(wram, wmadd, bytes, LitField)
        /\ wmadd' = PortOn(wmadd, LitField)
        /\ a' = SetLo(a, bytes[LitField - 1])
    BY <1>5 DEF LitLen
  <2> HIDE DEF bytes
  <2>6. WramOK(wram')
    <3>1. WramOK(wram) /\ wmadd \in WramAddress
      BY <1>t DEF CommonTypeOK, WramOK
    <3>2. LitField \in Nat /\ LitField <= 65536
      BY SMT, <2>1
    <3>3. WramOK(DmaToWram(wram, wmadd, bytes, LitField))
      BY SMT, <2>3, <3>1, <3>2, DmaToWramType
    <3> QED BY <2>5, <3>3
  <2>7. wmadd' \in WramAddress
    <3>1. LitField \in Nat
      BY SMT, <2>1
    <3> QED BY <1>t, <2>5, <3>1, PortType DEF CommonTypeOK
  <2>8. a' \in Word
    BY <1>t, <2>4, <2>5, SetLoType DEF CommonTypeOK
  <2>9. Wrap(x + LitField) \in Word /\ AfterFew \in Word
    BY SMT, <1>t, <2>1, WrapType DEF AfterFew, CommonTypeOK, Word
  <2>10. TypeOK'
    <3>1. /\ x' \in Word /\ y' \in Word /\ pc' = "DecodeMatchOffset"
          /\ UNCHANGED <<fixed, c, m, db, stack, match, state>>
      BY <1>5, <2>9 DEF LitLen
    <3> QED
      BY SMT, <1>5, <2>6, <2>7, <2>8, <3>1
      DEF LitLen, IInv, TypeOK, CommonTypeOK, WramOK, Labels
  <2>11. Frame' = Frame
    BY <1>5, FrameFixed DEF LitLen
  <2> QED
    BY SMT, <1>5, <2>1, <2>10, <2>11
    DEF LitLen, IInv, StackShape, Width, Banks, Chosen
<1>6. CASE LitLenRead
  <2>1. PICK w \in Word : stack = ReadFrame(w)
    BY <1>6 DEF LitLenRead, IInv, StackShape
  <2>2. y' = w /\ stack' = Frame
    BY <1>6, <2>1, PlyType DEF LitLenRead
  <2>3. TypeOK'
    BY SMT, <1>6, <2>2 DEF LitLenRead, IInv, TypeOK, CommonTypeOK, Labels
  <2>4. Frame' = Frame
    BY <1>6, FrameFixed DEF LitLenRead
  <2> QED
    BY SMT, <1>6, <2>2, <2>3, <2>4
    DEF LitLenRead, IInv, StackShape, Width, Banks, Chosen
<1>7. CASE CopyLiteral
  <2>1. (IF INLINE = 2 THEN wmadd ELSE PortAtY) \in WramAddress
    BY <1>t, PortAtYType DEF CommonTypeOK
  <2>2. WramOK(wram') /\ wmadd' \in WramAddress /\ x' \in Word
    BY <1>7, <1>t, <2>1, CopyRunType DEF CopyLiteral, CommonTypeOK
  <2>3. AfterLiteral \in Word /\ CarryOut(y, a, c) \in Bit
    BY AdcType, <1>t DEF AfterLiteral, CommonTypeOK
  <2>4. SetLo(AfterLiteral, 64) \in Word
    BY SMT, <2>3, SetLoType DEF Byte
  <2>5. TypeOK'
    BY SMT, <1>7, <2>2, <2>3, <2>4
    DEF CopyLiteral, IInv, TypeOK, CommonTypeOK, WramOK, Labels
  <2>6. Frame' = Frame
    BY <1>7, FrameFixed DEF CopyLiteral
  <2> QED
    BY SMT, <1>7, <2>5, <2>6
    DEF CopyLiteral, IInv, StackShape, Width, Banks, Chosen
<1>8. CASE DecodeMatchOffset
  <2>1. BitZ \in {0, 1}
    BY SMT DEF BitZ, IInv, TypeOK, Byte
  <2>2. NibbleAndZ \in 224 .. 255
    <3>1. NextNibble \in 0 .. 15
      BY <1>t, NibbleType DEF IInv, TypeOK
    <3> QED BY SMT, <2>1, <3>1 DEF NibbleAndZ
  <2>3. UNCHANGED <<fixed, output, y, db, stack, match, token>>
    BY <1>8 DEF DecodeMatchOffset
  <2>4. TakeNibble =>
          x' \in Word /\ nibble' \in Byte /\ nibrdy' \in {0, 1}
    BY SMT, <1>8, <1>t, TakeNibbleType DEF DecodeMatchOffset, IInv, TypeOK
  <2>5. nibble \in Byte /\ nibrdy \in {0, 1} /\ x \in Word
    BY SMT, <1>8 DEF DecodeMatchOffset, IInv, TypeOK, CommonTypeOK
  <2>6. /\ x' \in Word /\ a' \in Word /\ c' \in Bit /\ m' \in {8, 16}
        /\ nibble' \in Byte /\ nibrdy' \in {0, 1}
        /\ pc' \in {"DecodeMatchLen", "OffsetLow"}
        /\ pc' = "OffsetLow" => m' = m
    <3>1. m \in {8, 16} /\ a \in Word /\ match \in Word
      BY <1>t DEF CommonTypeOK
    <3>2. CASE Offset00Z
      <4>1. MakeWord(NibbleAndZ, 255) \in Word
        BY SMT, <2>2, MakeWordType DEF Byte
      <4> QED BY SMT, <2>4, <3>1, <3>2, <4>1 DEF Offset00Z, Bit
    <3>3. CASE Offset01Z
      <4>1. 255 - BitZ \in Byte
        BY SMT, <2>1 DEF Byte
      <4>2. MakeWord(ReadByte, 255 - BitZ) \in Word
        BY <1>l, <4>1, MakeWordType
      <4> QED BY SMT, <1>w, <2>5, <3>1, <3>3, <4>2 DEF Offset01Z, Bit
    <3>4. CASE Offset10Z
      <4>1. Lo(a) \in Byte /\ NibbleAndZ - 2 \in Byte
        BY SMT, <2>2, <3>1, HalfType DEF Byte
      <4>2. MakeWord(Lo(a), NibbleAndZ - 2) \in Word
        BY <4>1, MakeWordType
      <4> QED BY SMT, <2>4, <3>1, <3>4, <4>2 DEF Offset10Z, Bit
    <3>5. CASE Offset110
      <4>1. MakeWord(Hi(ReadWord), Lo(ReadWord)) \in Word
        BY <1>l, HalfType, MakeWordType
      <4> QED BY SMT, <1>w, <2>5, <3>5, <4>1 DEF Offset110, Bit
    <3>6. CASE Offset111
      BY SMT, <2>5, <3>1, <3>6 DEF Offset111, Bit
    <3> QED
      BY <1>8, <3>2, <3>3, <3>4, <3>5, <3>6 DEF DecodeMatchOffset
  <2>7. TypeOK'
    BY SMT, <2>3, <2>6 DEF IInv, TypeOK, CommonTypeOK, WramOK, Labels
  <2>8. Frame' = Frame
    BY <2>3, FrameFixed
  <2>9. pc = "DecodeMatchOffset"
    BY <1>8 DEF DecodeMatchOffset
  <2> QED
    BY SMT, <2>3, <2>6, <2>7, <2>8, <2>9
    DEF IInv, StackShape, Width, Banks, Chosen
<1>9. CASE OffsetLow
  <2>1. SetLo(a, ReadByte) \in Word
    BY <1>t, <1>l, SetLoType DEF CommonTypeOK
  <2>2. TypeOK'
    BY SMT, <1>9, <1>w, <2>1 DEF OffsetLow, IInv, TypeOK, CommonTypeOK, Labels
  <2>3. Frame' = Frame
    BY <1>9, FrameFixed DEF OffsetLow
  <2> QED
    BY SMT, <1>9, <2>2, <2>3
    DEF OffsetLow, IInv, StackShape, Width, Banks, Chosen
<1>10. CASE DecodeMatchLen
  <2>1. LenField \in 0 .. 7
    BY SMT DEF LenField, IInv, TypeOK, Byte
  <2>2. match' \in Word
    BY <1>10, <1>t DEF DecodeMatchLen, CommonTypeOK
  <2>3. CASE TokenMatchLen
    <3>1. LenField + 1 \in Word
      BY SMT, <2>1 DEF Word
    <3>2. TypeOK'
      BY SMT, <1>10, <2>2, <2>3, <3>1
      DEF DecodeMatchLen, TokenMatchLen, IInv, TypeOK, CommonTypeOK, Labels,
          Bit
    <3>3. Frame' = Frame
      BY <1>10, FrameFixed DEF DecodeMatchLen
    <3> QED
      BY SMT, <1>10, <2>3, <3>2, <3>3
      DEF DecodeMatchLen, TokenMatchLen, IInv, StackShape, Width, Banks,
          Chosen
  <2>4. CASE ExtMatchLen
    <3>1. a' \in Word
      <4>1. LenField \in Byte
        BY SMT, <2>1 DEF Byte
      <4> QED
        BY <1>t, <2>4, <4>1, SetLoType DEF ExtMatchLen, CommonTypeOK
    <3>2. CallGetExtLen(1, "MatchLenRead")
      BY <2>4 DEF ExtMatchLen
    <3> QED
      BY <1>10, <2>2, <3>1, <3>2, CallGetExtLenInv DEF DecodeMatchLen
  <2> QED BY <1>10, <2>3, <2>4 DEF DecodeMatchLen
<1>11. CASE MatchLenRead
  <2>1. PICK w \in Word : stack = ReadFrame(w)
    BY <1>11 DEF MatchLenRead, IInv, StackShape
  <2>2. y' = w /\ stack' = Frame
    BY <1>11, <2>1, PlyType DEF MatchLenRead
  <2>3. Wrap(a - 1) \in Word
    BY SMT, <1>t, WrapType DEF CommonTypeOK, Word
  <2>4. TypeOK'
    BY SMT, <1>11, <2>2, <2>3
    DEF MatchLenRead, IInv, TypeOK, CommonTypeOK, Labels
  <2>5. Frame' = Frame
    BY <1>11, FrameFixed DEF MatchLenRead
  <2> QED
    BY SMT, <1>11, <2>2, <2>4, <2>5
    DEF MatchLenRead, IInv, StackShape, Width, Banks, Chosen
<1>12. CASE CopyMatch
  <2>1. MatchSource \in Word /\ CarryOut(y, match, 0) \in Bit
    BY SMT, AdcType, <1>t DEF MatchSource, CommonTypeOK, Bit
  <2>2. stack = Frame /\ db = call.srcBank /\ a \in Word
    BY SMT, <1>12, <1>t DEF CopyMatch, IInv, StackShape, Banks, CommonTypeOK
  <2>3. /\ stack' = MoveFrame(x) /\ SavedX' = x
        /\ x' = MatchSource /\ a' = a
    BY <1>12, <2>1, <2>2, EnterMoveFrame DEF CopyMatch
  <2>4. TypeOK'
    BY SMT, <1>12, <2>1, <2>3
    DEF CopyMatch, EnterMove, IInv, TypeOK, CommonTypeOK, Labels
  <2>5. Frame' = Frame
    BY <1>12, FrameFixed DEF CopyMatch
  <2>6. stack' = Push(Push(Frame', Item("word", SavedX')),
                      Item("db", call.srcBank'))
    BY SMT, <1>12, <2>3, <2>5 DEF CopyMatch, MoveFrame
  <2>7. x \in Word
    BY <1>t DEF CommonTypeOK
  <2> QED
    BY SMT, <1>12, <2>3, <2>4, <2>6, <2>7
    DEF CopyMatch, EnterMove, IInv, StackShape, Width, Banks, Chosen, MoveFrame
<1>13. CASE Move
  <2>1. TypeOK'
    <3>1. CommonTypeOK'
      BY <1>13, <1>t, MoveBlockType DEF Move
    <3> QED BY SMT, <1>13, <3>1 DEF Move, MoveBlock, IInv, TypeOK, Labels
  <2>2. Frame' = Frame
    BY <1>13, FrameFixed DEF Move, MoveBlock
  <2>3. SavedX' = SavedX
    BY SMT, <1>13 DEF Move, MoveBlock, SavedX
  <2> QED
    BY SMT, <1>13, <2>1, <2>2, <2>3
    DEF Move, MoveBlock, IInv, StackShape, Width, Banks, Chosen, MoveFrame
<1>14. CASE MatchCopied
  <2>1. stack = MoveFrame(SavedX) /\ SavedX \in Word
    BY SMT, <1>14 DEF MatchCopied, IInv, StackShape
  <2>2. /\ db' = call.srcBank /\ db' \in Byte
        /\ x' = SavedX /\ stack' = Frame /\ m' = 8
    BY <1>14, <1>t, <2>1, LeaveMoveFrame DEF MatchCopied
  <2>3. PortAfterMatch \in WramAddress
    BY <1>t, PortAtYType DEF PortAfterMatch, CommonTypeOK
  <2>4. TypeOK'
    BY SMT, <1>14, <2>1, <2>2, <2>3
    DEF MatchCopied, IInv, TypeOK, CommonTypeOK, Labels
  <2>5. Frame' = Frame
    BY <1>14, FrameFixed DEF MatchCopied
  <2> QED
    BY SMT, <1>14, <2>2, <2>4, <2>5
    DEF MatchCopied, IInv, StackShape, Width, Banks, Chosen
<1>15. CASE GetExtLen
  <2>1. /\ x' \in Word /\ nibble' \in Byte /\ nibrdy' \in {0, 1}
        /\ NextNibble \in 0 .. 15
    BY SMT, <1>15, <1>t, NibbleType, TakeNibbleType
    DEF GetExtLen, IInv, TypeOK
  <2>2. UNCHANGED <<fixed, output, y, db, match, token>>
    BY <1>15 DEF GetExtLen
  <2>3. CASE LenNibble
    <3> DEFINE sum == NextNibble + NibbleLenAdd
    <3>1. NibbleLenAdd \in Byte
      BY SMT, <1>15, <1>t, TableType DEF GetExtLen, IInv, Chosen
    <3>2. sum \in 0 .. 270
      BY SMT, <2>1, <3>1 DEF Byte
    <3>3. Length(Lo(sum), NibbleCarry(sum))
      BY <2>3 DEF LenNibble
    <3> HIDE DEF sum
    <3>4. Lo(sum) \in Word /\ NibbleCarry(sum) \in Bit
      BY SMT, <3>2 DEF Lo, NibbleCarry, Word, Bit
    <3>5. pc \in InLength
      BY <1>15 DEF GetExtLen
    <3> QED BY <2>1, <2>2, <3>3, <3>4, <3>5, LengthInv
  <2>4. CASE LenFollows
    <3>1. SetLo(a, 15) \in Word
      BY SMT, <1>t, SetLoType DEF CommonTypeOK, Byte
    <3>2. TypeOK'
      BY SMT, <1>15, <2>1, <2>2, <2>4, <3>1
      DEF LenFollows, IInv, TypeOK, CommonTypeOK, WramOK, Labels, Bit
    <3>3. Frame' = Frame
      BY <2>2, FrameFixed
    <3>4. PICK w \in Word, next \in AfterLength : stack = LengthFrame(w, next)
      BY <1>15 DEF GetExtLen, IInv, StackShape
    <3>5. stack' = LengthFrame(w, next)'
      BY SMT, <2>4, <3>3, <3>4 DEF LenFollows, LengthFrame, ReadFrame
    <3>6. StackShape'
      BY SMT, <2>4, <3>5 DEF LenFollows, StackShape
    <3> QED
      BY SMT, <1>15, <2>2, <2>4, <3>2, <3>6
      DEF GetExtLen, LenFollows, IInv, Width, Banks, Chosen
  <2> QED BY <1>15, <2>3, <2>4 DEF GetExtLen
<1>16. CASE LenByte
  <2>1. UNCHANGED <<fixed, output, y, db, match, state>> /\ x' \in Word
    BY <1>16, <1>w DEF LenByte
  <2>2. ByteSum \in 1 .. 511
    <3>1. ByteLenAdd \in Byte
      BY SMT, <1>16, <1>t, TableType DEF LenByte, IInv, Chosen
    <3> QED BY SMT, <1>l, <3>1 DEF ByteSum, Byte
  <2>3. nibble' \in Byte /\ nibrdy' \in {0, 1} /\ pc \in InLength
    BY SMT, <1>16, <2>1 DEF LenByte, IInv, TypeOK
  <2>4. PICK w \in Word, next \in AfterLength : stack = LengthFrame(w, next)
    BY <1>16 DEF LenByte, IInv, StackShape
  <2>5. Frame' = Frame
    BY <2>1, FrameFixed
  <2>6. CASE ByteReady
    <3>1. ByteSum \in Word /\ 0 \in Bit
      BY SMT, <2>2 DEF Word, Bit
    <3>2. Length(ByteSum, 0)
      BY <2>6 DEF ByteReady
    <3>3. UNCHANGED token
      BY <2>1
    <3> QED BY <2>1, <2>3, <3>1, <3>2, <3>3, LengthInv
  <2>7. CASE EndOfData
    <3>1. ItemValue(Top(Pop(stack))) = w /\ UnwoundTwice = Frame
      BY SMT, <2>4
      DEF UnwoundTwice, LengthFrame, ReadFrame, Top, Pop, Push, Item, ItemValue
    <3>2. TypeOK'
      BY SMT, <1>16, <2>1, <2>3, <2>7, <3>1
      DEF EndOfData, IInv, TypeOK, CommonTypeOK, WramOK, Labels, Bit
    <3> QED
      BY SMT, <1>16, <2>1, <2>5, <2>7, <3>1, <3>2
      DEF LenByte, EndOfData, IInv, StackShape, Width, Banks, Chosen
  <2>8. CASE LongLen
    <3>1. SetLo(a, Lo(ByteSum)) \in Word
      <4>1. Lo(ByteSum) \in Byte
        BY SMT, <2>2 DEF Lo, Byte
      <4> QED BY <1>t, <4>1, SetLoType DEF CommonTypeOK
    <3>2. TypeOK'
      BY SMT, <1>16, <2>1, <2>3, <2>8, <3>1
      DEF LongLen, IInv, TypeOK, CommonTypeOK, WramOK, Labels, Bit
    <3>3. stack' = LengthFrame(w, next)'
      BY SMT, <2>4, <2>5, <2>8 DEF LongLen, LengthFrame, ReadFrame
    <3>4. StackShape'
      BY SMT, <2>8, <3>3 DEF LongLen, StackShape
    <3> QED
      BY SMT, <1>16, <2>1, <2>8, <3>2, <3>4
      DEF LenByte, LongLen, IInv, Width, Banks, Chosen
  <2> QED BY <1>16, <2>6, <2>7, <2>8 DEF LenByte
<1>17. CASE LenWord
  <2>1. UNCHANGED <<fixed, output, y, db, match, token>> /\ x' \in Word
    BY <1>17, <1>w DEF LenWord
  <2>2. nibble' \in Byte /\ nibrdy' \in {0, 1} /\ pc \in InLength /\ c \in Bit
    BY SMT, <1>17, <1>t DEF LenWord, IInv, TypeOK, CommonTypeOK
  <2>3. Length(ReadWord, c)
    BY <1>17 DEF LenWord
  <2> QED BY <1>l, <2>1, <2>2, <2>3, LengthInv
<1>18. CASE Done
  <2>1. stack = Frame /\ a \in Word
    BY SMT, <1>18, <1>t DEF Done, IInv, StackShape, CommonTypeOK
  <2>2. /\ stack' = EmptyStack /\ pc' = "Idle"
        /\ db' = 128 /\ dp' = 0
        /\ x' \in Word /\ a' \in Word /\ c' \in Bit
    BY <1>18, <1>t, <2>1, LeaveFrame DEF Done
  <2>3. 128 \in Byte /\ 0 \in Word
    BY SMT DEF Byte, Word
  <2>4. TypeOK'
    BY SMT, <1>18, <2>2, <2>3
    DEF Done, WidthAtReturn, IInv, TypeOK, CommonTypeOK, Labels
  <2> QED
    BY SMT, <1>18, <2>2, <2>4
    DEF Done, WidthAtReturn, IInv, StackShape, Width, Banks, Chosen
<1>19. CASE UNCHANGED vars
  <2>1. Frame' = Frame
    BY <1>19, FrameFixed DEF vars, common
  <2>2. TypeOK' /\ Width' /\ Banks'
    BY SMT, <1>19
    DEF vars, common, IInv, TypeOK, CommonTypeOK, WramOK, Width, Banks
  <2>3. Chosen'
    BY SMT, <1>19 DEF vars, common, IInv, Chosen, LitField
  <2>4. StackShape'
    BY SMT, <1>19, <2>1
    DEF vars, common, IInv, StackShape, MoveFrame, LengthFrame, ReadFrame,
        SavedX, Called
  <2> QED BY <2>2, <2>3, <2>4 DEF IInv
<1>20. CASE Wai
  BY <1>19, <1>20 DEF Wai, Idle, vars
<1> QED
  BY <1>1, <1>2, <1>3, <1>4, <1>5, <1>6, <1>7, <1>8, <1>9, <1>10, <1>11, <1>12,
     <1>13, <1>14, <1>15, <1>16, <1>17, <1>18, <1>19, <1>20 DEF Next

(* The call being served stays what it is. *)
LEMMA CallKept == [Next]_vars => call' = call
BY SMT DEF Next, Main, Setup, ReadToken, DecodeLitLen, LitLen, LitLenRead,
           CopyLiteral, DecodeMatchOffset, OffsetLow, DecodeMatchLen,
           MatchLenRead, CopyMatch, Move, MatchCopied, GetExtLen, LenByte,
           LenWord, Done, Wai, CallRoutine, MoveBlock, Idle, common, fixed,
           vars

-----------------------------------------------------------------------------
(* The stack, the widths, the banks and the command's fields are what IInv *)
(* says at every label of LZSA2_Decompress, whatever is in the block.      *)
THEOREM Invariance == Spec => []IInv
BY InitInv, StepInv, PTL DEF Spec

(* The registers keep their widths and the CPU its labels, on every block: *)
(* of the three things a length has on the stack, RTS only ever finds the  *)
(* address, and the flag for the nibble put aside is never anything else.  *)
THEOREM TypeCorrect == Spec => []TypeOK
<1>1. IInv => TypeOK
  BY DEF IInv
<1> QED BY Invariance, <1>1, PTL

(* Whatever the block says, when the routine returns the caller's stack,   *)
(* DB and DP are what they were: the end marker is found with the return   *)
(* address of GetExtLen and Y on the stack, and both are taken off.        *)
THEOREM CallerRestoredAlways == Spec => []CallerRestored
<1>1. IInv => CallerRestored
  BY DEF IInv, StackShape, Banks, CallerRestored
<1> QED BY Invariance, <1>1, PTL

(* With or without the length, the accumulator is 8 bits wide again. *)
THEOREM ReturnsIn8BitAlways == Spec => []ReturnsIn8Bit
<1>1. IInv => ReturnsIn8Bit
  BY DEF IInv, Width, ReturnsIn8Bit
<1> QED BY Invariance, <1>1, PTL

(* Loads and DMA stay in the bank of the block. *)
THEOREM LoadsFromBlockBankAlways == Spec => []LoadsFromBlockBank
<1>1. IInv => LoadsFromBlockBank
  BY SMT DEF IInv, Banks, LoadsFromBlockBank
<1> QED BY Invariance, <1>1, PTL

-----------------------------------------------------------------------------
(* A well-formed block: the text is spelled by a script, in one bank, the  *)
(* block is what the compressor writes for it, no run of literals is longer*)
(* than LZSA2_Decompress can take (LenWord), and the tables can be read in *)
(* the bank of the block.                                                  *)
Format == INSTANCE Lzsa2Format

WellFormed(r) == /\ Spelled(r)
                 /\ Format!Encodes(r)
                 /\ Format!ShortLiterals(r)
                 /\ r.srcBank \in CodeBanks

(* What command i says; a length past its field has a nibble, and after a  *)
(* nibble of 15 bytes.                                                     *)
Lit(i) == Script[i].lit
Off(i) == Script[i].off
Rep(i) == Format!RepOffset(Script, i)

Mode(i)     == IF Script[i].len = 0 THEN 224
               ELSE Format!OffsetMode(Off(i), Rep(i))
Field(n, max) == IF n >= max THEN max ELSE n
MatchField(i) == IF Script[i].len = 0 THEN 7 ELSE Field(Script[i].len - 2, 7)
Tok(i)        == Mode(i) + Field(Lit(i), 3) * 8 + MatchField(i)

OffPart(i)   == IF Script[i].len = 0 THEN Format!Bytes(<<>>)
                ELSE Format!Offset(Off(i), Rep(i))
MatchPart(i) == IF Script[i].len = 0 THEN Format!Part(15, <<232>>)
                ELSE Format!Varlen(Script[i].len, 9)

(* Where its parts are in the block, and where the next command is. *)
TokenAt(i)    == call.cursor[i][1]
LitLenAt(i)   == call.cursor[i][2]
LitAt(i)      == call.cursor[i][3]
OffAt(i)      == call.cursor[i][4]
MatchLenAt(i) == call.cursor[i][5]
NextAt(i)     == call.cursor[i][6]

-----------------------------------------------------------------------------
(* X and the nibble put aside are where a cursor is. *)
AtCursor(cur) ==
    /\ x = Position(cur.at)
    /\ nibrdy = IF cur.half = 0 THEN 0 ELSE 1
    /\ cur.half # 0 => nibble = call.block[cur.half]

(* With INLINE = 2 the port is kept at the end of the text, as long as     *)
(* there is more of it to come.                                            *)
PortThere(n) == INLINE = 2 /\ n < Size => wmadd = Start + n

Holding(n) == Made(n) /\ PortThere(n)
Ready(n)   == Holding(n) /\ y = After(n)

(* The offset of the match before command i. *)
Recent(i) == i # 1 => match = Wrap(-Rep(i))

AtToken(i) == /\ pc = "ReadToken"
              /\ AtCursor(TokenAt(i))
              /\ Ready(call.out[i]) /\ Recent(i)

AtLitLen(i) == /\ pc = "DecodeLitLen" /\ token = Tok(i)
               /\ AtCursor(LitLenAt(i))
               /\ Ready(call.out[i]) /\ Recent(i)

(* One or two literals go through the port. *)
AtFew(i) == /\ pc = "LitLen" /\ token = Tok(i) /\ INLINE = 2
            /\ Lit(i) \in {1, 2}
            /\ AtCursor(LitAt(i))
            /\ Ready(call.out[i]) /\ Recent(i)

(* A length is being read, from its nibble, its byte or its word on: Y     *)
(* tells which, and the end of the text so far is on the stack.            *)
Reading(kind, next, n) == /\ y = kind
                          /\ stack = LengthFrame(After(n), next)
                          /\ Holding(n)

PastFifteen(cur) == Format!PastNibble(cur, 15)
PastByte(cur) == Format!Cursor(PastFifteen(cur).at + 1, PastFifteen(cur).half)

ReadingLit(i) == /\ token = Tok(i) /\ Recent(i)
                 /\ Reading(0, "LitLenRead", call.out[i])
LitInNibble(i) == /\ pc = "GetExtLen" /\ Lit(i) >= 3
                  /\ AtCursor(LitLenAt(i)) /\ ReadingLit(i)
LitInByte(i) == /\ pc = "LenByte" /\ Lit(i) >= 18
                /\ AtCursor(PastFifteen(LitLenAt(i))) /\ ReadingLit(i)

(* The end of the text so far comes back from the stack. *)
HavingLit(i) == /\ pc = "LitLenRead" /\ token = Tok(i)
                /\ a = Lit(i) /\ c = 0 /\ Lit(i) >= 3
                /\ stack = ReadFrame(After(call.out[i]))
                /\ AtCursor(LitAt(i))
                /\ Holding(call.out[i]) /\ Recent(i)

AtLiteral(i) == /\ pc = "CopyLiteral" /\ token = Tok(i)
                /\ a = Lit(i) /\ a > 0 /\ c = 0
                /\ AtCursor(LitAt(i))
                /\ Ready(call.out[i]) /\ Recent(i)

AtOffset(i) == /\ pc = "DecodeMatchOffset" /\ token = Tok(i)
               /\ AtCursor(OffAt(i))
               /\ Ready(From(i)) /\ Recent(i)

(* An offset of 13 bits has its high bits in a nibble. *)
AtOffsetLow(i) == /\ pc = "OffsetLow" /\ token = Tok(i) /\ i # Len(Script)
                  /\ Mode(i) \in {128, 160}
                  /\ AtCursor(PastFifteen(OffAt(i)))
                  /\ Hi(a) = Hi(Wrap(-Off(i)))
                  /\ Ready(From(i))

(* The offset of a match; what the last command leaves there is not used.  *)
Negated(i, w) == i # Len(Script) => w = Wrap(-Off(i))

AtMatchLen(i) == /\ pc = "DecodeMatchLen" /\ token = Tok(i)
                 /\ AtCursor(MatchLenAt(i))
                 /\ Negated(i, a) /\ Ready(From(i))

ReadingMatch(i) == /\ Negated(i, match)
                   /\ Reading(1, "MatchLenRead", From(i))
MatchInNibble(i) == /\ pc = "GetExtLen"
                    /\ i # Len(Script) => Script[i].len >= 9
                    /\ AtCursor(MatchLenAt(i)) /\ ReadingMatch(i)
MatchInByte(i) == /\ pc = "LenByte"
                  /\ i # Len(Script) => Script[i].len >= 24
                  /\ AtCursor(PastFifteen(MatchLenAt(i))) /\ ReadingMatch(i)
MatchInWord(i) == /\ pc = "LenWord" /\ i # Len(Script)
                  /\ Script[i].len >= 256
                  /\ AtCursor(PastByte(MatchLenAt(i))) /\ ReadingMatch(i)

HavingMatch(i) == /\ pc = "MatchLenRead" /\ i # Len(Script)
                  /\ a = Script[i].len
                  /\ stack = ReadFrame(After(From(i)))
                  /\ AtCursor(NextAt(i))
                  /\ Negated(i, match) /\ Holding(From(i))

AtMatch(i) == /\ pc = "CopyMatch" /\ i # Len(Script)
              /\ a + 1 = Script[i].len
              /\ AtCursor(NextAt(i))
              /\ Negated(i, match) /\ Ready(From(i))

(* While a match is moved X is on the stack; nothing else has changed. *)
NibbleAt(cur) == /\ nibrdy = IF cur.half = 0 THEN 0 ELSE 1
                 /\ cur.half # 0 => nibble = call.block[cur.half]

Moves(i) == /\ i # Len(Script)
            /\ stack = MoveFrame(Position(NextAt(i).at))
            /\ NibbleAt(NextAt(i))
            /\ Negated(i, match)

AtMove(i) == /\ pc = "BlockMove" /\ Moves(i)
             /\ x = call.dst + From(i) - Off(i)
             /\ a + 1 = Script[i].len
             /\ MadeTo(From(i))

Moved(i) == /\ pc = "MatchCopied" /\ Moves(i)
            /\ MadeTo(call.out[i + 1])

InCommand(i) ==
    \/ AtToken(i) \/ AtLitLen(i) \/ AtFew(i) \/ LitInNibble(i) \/ LitInByte(i)
    \/ HavingLit(i) \/ AtLiteral(i) \/ AtOffset(i) \/ AtOffsetLow(i)
    \/ AtMatchLen(i) \/ MatchInNibble(i) \/ MatchInByte(i) \/ MatchInWord(i)
    \/ HavingMatch(i) \/ AtMatch(i) \/ AtMove(i) \/ Moved(i)

Finished == /\ Made(Size)
            /\ pc = "Done" => a = After(Size)
            /\ pc = "Idle" /\ RETLEN => x = Size

Decoding ==
    /\ WellFormed(call)
    /\ \/ pc = "Main" /\ NothingWritten
       \/ pc = "Setup" /\ NothingWritten /\ x = call.src
       \/ \E i \in 1 .. Len(Script) : InCommand(i)
       \/ pc \in {"Done", "Idle"} /\ Finished

-----------------------------------------------------------------------------
(* The parts of a command are what it says. *)
LEMMA PartsAre ==
    ASSUME NEW literals, NEW i
    PROVE  Format!WriteCommand(literals, Script, i)
               = <<Format!Bytes(<<Tok(i)>>), Format!Varlen(Lit(i), 3),
                   Format!Bytes(literals), OffPart(i), MatchPart(i)>>
<1>1. /\ Format!LiteralsVarlen(Script[i].lit) = Format!Varlen(Lit(i), 3)
      /\ Format!MatchVarlen(Script[i].len) = Format!Varlen(Script[i].len, 9)
  <2>1. 7 + 2 = 9
    BY SMT
  <2> QED BY <2>1 DEF Format!LiteralsVarlen, Format!MatchVarlen, Lit,
     Format!LITERALS_RUN_LEN_V2, Format!MATCH_RUN_LEN_V2,
     Format!MIN_MATCH_SIZE_V2
<1>2. CASE Script[i].len = 0
  <2>1. Format!Offset(Rep(i), Rep(i)) = OffPart(i)
    BY <1>2 DEF Format!Offset, OffPart
  <2>2. Format!EOD = MatchPart(i)
    BY <1>2 DEF Format!EOD, MatchPart
  <2>3. Format!Token(224, Script[i].lit, Format!MATCH_RUN_LEN_V2)
            = Format!Bytes(<<Tok(i)>>)
    <3>1. Format!AtMost(7, 7) = 7
      BY DEF Format!AtMost
    <3> QED BY <1>2, <3>1 DEF Format!Token, Format!AtMost, Tok, Mode, Field,
       MatchField, Lit, Format!LITERALS_RUN_LEN_V2, Format!MATCH_RUN_LEN_V2
  <2> QED BY <1>1, <1>2, <2>1, <2>2, <2>3
          DEF Format!WriteCommand, Format!WriteLastCommand, Rep
<1>3. CASE Script[i].len # 0
  <2>1. /\ Format!Offset(Off(i), Rep(i)) = OffPart(i)
        /\ Format!Varlen(Script[i].len, 9) = MatchPart(i)
    BY <1>3 DEF OffPart, MatchPart
  <2>2. Format!Token(Format!OffsetMode(Off(i), Rep(i)), Script[i].lit,
                     Script[i].len - Format!MIN_MATCH_SIZE_V2)
            = Format!Bytes(<<Tok(i)>>)
    BY <1>3 DEF Format!Token, Format!AtMost, Tok, Mode, Field, MatchField, Lit,
       Format!LITERALS_RUN_LEN_V2, Format!MATCH_RUN_LEN_V2,
       Format!MIN_MATCH_SIZE_V2
  <2> QED BY <1>1, <1>3, <2>1, <2>2
          DEF Format!WriteCommand, Format!WriteMatchCommand, Rep, Off
<1> QED BY <1>2, <1>3

Cursors == [at : 0 .. Len(call.block), half : 0 .. Len(call.block)]

(* A part of a command is at a cursor, and the next is behind it. *)
Reads(cur, part, next) == /\ Format!SaysPart(call.block, cur, part)
                          /\ next = Format!PastPart(cur, part)

Parsed(i) ==
    /\ Reads(TokenAt(i), Format!Bytes(<<Tok(i)>>), LitLenAt(i))
    /\ Reads(LitLenAt(i), Format!Varlen(Lit(i), 3), LitAt(i))
    /\ Reads(LitAt(i), Format!Bytes(Text!LiteralsOf(call, i)), OffAt(i))
    /\ Reads(OffAt(i), OffPart(i), MatchLenAt(i))
    /\ Reads(MatchLenAt(i), MatchPart(i), NextAt(i))

LEMMA CommandParsed ==
    ASSUME CallOK(call), WellFormed(call), NEW i \in 1 .. Len(Script)
    PROVE  /\ Parsed(i)
           /\ TokenAt(i) \in Cursors /\ LitLenAt(i) \in Cursors
           /\ LitAt(i) \in Cursors /\ OffAt(i) \in Cursors
           /\ MatchLenAt(i) \in Cursors /\ NextAt(i) \in Cursors
           /\ call.at[i] = TokenAt(i).at
           /\ TokenAt(1) = Format!Cursor(0, 0)
           /\ i < Len(Script) => TokenAt(i + 1) = NextAt(i)
           /\ IF i = Len(Script) THEN Script[i].len = 0
              ELSE Script[i].len >= 2
           /\ Lit(i) < 256
<1> DEFINE lits == Text!LiteralsOf(call, i)
           parts == Format!WriteCommand(lits, Script, i)
<1>1. /\ call.cursor \in [1 .. Len(Script) -> [1 .. 6 -> Cursors]]
      /\ call.at[i] = TokenAt(i).at /\ TokenAt(1) = Format!Cursor(0, 0)
      /\ i < Len(Script) => TokenAt(i + 1) = NextAt(i)
      /\ IF i = Len(Script) THEN Script[i].len = 0 ELSE Script[i].len >= 2
      /\ Lit(i) < 256
  BY DEF WellFormed, Format!Encodes, Format!ShortLiterals, Script, Cursors,
     TokenAt, NextAt, Lit, Format!MIN_MATCH_SIZE_V2
<1>2. \A k \in 1 .. 5 : Reads(call.cursor[i][k], parts[k], call.cursor[i][k + 1])
  <2>1. parts = Format!WriteCommand(Format!LiteralsOf(call, i), call.script, i)
    BY DEF Script, Text!LiteralsOf, Format!LiteralsOf
  <2> HIDE DEF parts
  <2>2. \A k \in 1 .. 5 :
           /\ Format!SaysPart(call.block, call.cursor[i][k], parts[k])
           /\ call.cursor[i][k + 1] = Format!PastPart(call.cursor[i][k], parts[k])
    BY <2>1 DEF WellFormed, Format!Encodes, Script
  <2> QED BY <2>2 DEF Reads
<1>3. \A t1, t2, t3, t4, t5 : LET s == <<t1, t2, t3, t4, t5>>
                              IN  /\ s[1] = t1 /\ s[2] = t2 /\ s[3] = t3
                                  /\ s[4] = t4 /\ s[5] = t5
  OBVIOUS
<1>4. /\ parts[1] = Format!Bytes(<<Tok(i)>>)
      /\ parts[2] = Format!Varlen(Lit(i), 3) /\ parts[3] = Format!Bytes(lits)
      /\ parts[4] = OffPart(i) /\ parts[5] = MatchPart(i)
  BY <1>3, PartsAre
<1>5. /\ \A k \in 1 .. 6 : call.cursor[i][k] \in Cursors
  BY <1>1
<1>6. /\ 1 \in 1 .. 5 /\ 2 \in 1 .. 5 /\ 3 \in 1 .. 5 /\ 4 \in 1 .. 5
      /\ 5 \in 1 .. 5 /\ 1 + 1 = 2 /\ 2 + 1 = 3 /\ 3 + 1 = 4 /\ 4 + 1 = 5
      /\ 5 + 1 = 6 /\ 6 \in 1 .. 6 /\ \A k \in 1 .. 5 : k \in 1 .. 6
  BY SMT
<1> HIDE DEF parts, lits
<1>7. /\ TokenAt(i) \in Cursors /\ LitLenAt(i) \in Cursors
      /\ LitAt(i) \in Cursors /\ OffAt(i) \in Cursors
      /\ MatchLenAt(i) \in Cursors /\ NextAt(i) \in Cursors
  BY Zenon, <1>5, <1>6 DEF TokenAt, LitLenAt, LitAt, OffAt, MatchLenAt, NextAt
<1>8. Parsed(i)
  <2>1. Reads(call.cursor[i][1], parts[1], call.cursor[i][2])
    BY Zenon, <1>2, <1>6
  <2>2. Reads(call.cursor[i][2], parts[2], call.cursor[i][3])
    BY Zenon, <1>2, <1>6
  <2>3. Reads(call.cursor[i][3], parts[3], call.cursor[i][4])
    BY Zenon, <1>2, <1>6
  <2>4. Reads(call.cursor[i][4], parts[4], call.cursor[i][5])
    BY Zenon, <1>2, <1>6
  <2>5. Reads(call.cursor[i][5], parts[5], call.cursor[i][6])
    BY Zenon, <1>2, <1>6
  <2> QED
    BY Zenon, <1>4, <2>1, <2>2, <2>3, <2>4, <2>5
    DEF Parsed, TokenAt, LitLenAt, LitAt, OffAt, MatchLenAt, NextAt, lits
<1> QED BY <1>1, <1>7, <1>8

-----------------------------------------------------------------------------
(* What bytes are read from where, and where the next part then is. *)
LEMMA BytesRead ==
    ASSUME NEW cur, NEW s, NEW next, Reads(cur, Format!Bytes(s), next)
    PROVE  /\ Holds(cur.at, s)
           /\ next = Format!Cursor(cur.at + Len(s), cur.half)
BY DEF Reads, Holds, Format!SaysPart, Format!PastPart, Format!Bytes,
       Format!Part, Format!SaysNibble, Format!PastNibble, Text!HasAt,
       Format!HasAt

(* The same where a nibble comes before the bytes. *)
LEMMA NibbleRead ==
    ASSUME NEW cur, NEW n \in 0 .. 15, NEW s, NEW next,
           Reads(cur, Format!Part(n, s), next)
    PROVE  /\ Format!SaysNibble(call.block, cur, n)
           /\ Format!PastNibble(cur, n) = PastFifteen(cur)
           /\ Holds(PastFifteen(cur).at, s)
           /\ next = Format!Cursor(PastFifteen(cur).at + Len(s),
                                   PastFifteen(cur).half)
<1>1. n # Format!NoNibble /\ 15 # Format!NoNibble
  BY SMT DEF Format!NoNibble
<1>2. Format!PastNibble(cur, n) = PastFifteen(cur)
  BY <1>1 DEF PastFifteen, Format!PastNibble
<1>3. /\ Format!Part(n, s).nibble = n /\ Format!Part(n, s).bytes = s
  BY DEF Format!Part
<1> DEFINE part == Format!Part(n, s)
<1> HIDE DEF part
<1>4. /\ Format!SaysNibble(call.block, cur, part.nibble)
      /\ Format!HasAt(call.block, Format!PastNibble(cur, part.nibble).at,
                      part.bytes)
      /\ next = Format!Cursor(
                    Format!PastNibble(cur, part.nibble).at + Len(part.bytes),
                    Format!PastNibble(cur, part.nibble).half)
  BY DEF Reads, Format!SaysPart, Format!PastPart, part
<1>5. part.nibble = n /\ part.bytes = s
  BY <1>3 DEF part
<1> QED BY <1>2, <1>4, <1>5 DEF Holds, Text!HasAt, Format!HasAt

LEMMA CursorType ==
    ASSUME CallOK(call), Spelled(call), NEW cur \in Cursors
    PROVE  /\ cur.at \in Nat /\ cur.half \in Nat
           /\ cur.at \in 0 .. Len(call.block)
           /\ cur.half \in 0 .. Len(call.block)
           /\ Format!Cursor(cur.at, cur.half) = cur
           /\ Format!Cursor(cur.at + 0, cur.half) = cur
<1>1. Len(call.block) \in Nat
  BY SpelledType
<1>2. /\ cur.at \in 0 .. Len(call.block) /\ cur.half \in 0 .. Len(call.block)
      /\ cur = [at |-> cur.at, half |-> cur.half]
  BY DEF Cursors
<1>3. cur.at \in Nat /\ cur.half \in Nat /\ cur.at + 0 = cur.at
  BY SMT, <1>1, <1>2
<1> QED BY <1>2, <1>3 DEF Format!Cursor

-----------------------------------------------------------------------------
(* X goes on in the block over whole bytes. *)
LEMMA CursorOn ==
    ASSUME CallOK(call), Spelled(call), NEW cur \in Cursors, AtCursor(cur),
           NEW k \in Nat, x' = Wrap(x + k),
           UNCHANGED <<call, nibble, nibrdy>>,
           NEW next, next = Format!Cursor(cur.at + k, cur.half)
    PROVE  AtCursor(next)'
<1>1. Wrap(Position(cur.at) + k) = Position(cur.at + k)
  BY CursorType, PositionType
<1>2. next.at = cur.at + k /\ next.half = cur.half
  BY DEF Format!Cursor
<1>3. x' = Position(next.at)
  BY <1>1, <1>2 DEF AtCursor
<1>4. Position(next.at)' = Position(next.at)
  BY PlacesKept
<1> QED BY <1>2, <1>3, <1>4 DEF AtCursor

LEMMA CursorKept ==
    ASSUME NEW cur, AtCursor(cur), UNCHANGED <<call, x, nibble, nibrdy>>
    PROVE  AtCursor(cur)'
BY PlacesKept DEF AtCursor

(* The nibble a cursor is at is the one ReadNibble gives, and it goes past *)
(* it, wherever the nibble is.                                             *)
LEMMA NibbleStep ==
    ASSUME CallOK(call), Spelled(call), db = call.srcBank, call' = call,
           NEW cur \in Cursors, AtCursor(cur), NEW n \in 0 .. 15,
           Format!SaysNibble(call.block, cur, n)
    PROVE  NextNibble = n /\ (TakeNibble => AtCursor(PastFifteen(cur))')
<1>1. n # Format!NoNibble /\ 15 # Format!NoNibble
  BY SMT DEF Format!NoNibble
<1>2. /\ cur.at \in Nat /\ cur.half \in Nat
      /\ cur.at \in 0 .. Len(call.block)
  BY CursorType
<1>3. x = Position(cur.at)
  BY DEF AtCursor
<1> DEFINE next == PastFifteen(cur)
<1>4. CASE cur.half = 0
  <2>1. nibrdy = 0
    BY <1>4 DEF AtCursor
  <2>2. ~NibbleReady /\ nibrdy \div 2 + 1 = 1
    BY SMT, <2>1 DEF NibbleReady
  <2>3. cur.at < Len(call.block) /\ call.block[cur.at + 1] \div 16 = n
    BY <1>1, <1>4 DEF Format!SaysNibble
  <2>4. ReadByte = call.block[cur.at + 1]
    BY <1>2, <1>3, <2>3, LoadByte
  <2>5. NextNibble = n
    BY <2>2, <2>3, <2>4 DEF NextNibble
  <2>6. next.at = cur.at + 1 /\ next.half = cur.at + 1
    BY <1>1, <1>4 DEF PastFifteen, Format!PastNibble, Format!Cursor
  <2> HIDE DEF next
  <2>7. next.half # 0
    BY SMT, <1>2, <2>6
  <2>8. Wrap(x + 1) = Position(next.at)
    <3>1. 1 \in Nat
      BY SMT
    <3> QED BY <1>2, <1>3, <2>6, <3>1, PositionType
  <2>9. ASSUME TakeNibble PROVE AtCursor(next)'
    <3>1. nibrdy' = 1 /\ nibble' = call.block[next.half]
          /\ x' = Position(next.at)
      BY <2>2, <2>4, <2>6, <2>8, <2>9 DEF TakeNibble
    <3>2. Position(next.at)' = Position(next.at)
      BY PlacesKept
    <3> QED BY <2>7, <3>1, <3>2 DEF AtCursor
  <2> QED BY <2>5, <2>9 DEF next
<1>5. CASE cur.half # 0
  <2>1. nibrdy = 1 /\ nibble = call.block[cur.half]
    BY <1>5 DEF AtCursor
  <2>2. NibbleReady /\ nibrdy \div 2 = 0
    BY SMT, <2>1 DEF NibbleReady
  <2>3. call.block[cur.half] % 16 = n
    BY <1>1, <1>5 DEF Format!SaysNibble
  <2>5. NextNibble = n
    BY <2>1, <2>2, <2>3 DEF NextNibble
  <2>6. next.at = cur.at /\ next.half = 0
    BY <1>1, <1>5 DEF PastFifteen, Format!PastNibble, Format!Cursor
  <2> HIDE DEF next
  <2>9. ASSUME TakeNibble PROVE AtCursor(next)'
    <3>1. nibrdy' = 0 /\ x' = Position(next.at)
      BY <1>3, <2>2, <2>6, <2>9 DEF TakeNibble
    <3>2. Position(next.at)' = Position(next.at)
      BY PlacesKept
    <3> QED BY <2>6, <3>1, <3>2 DEF AtCursor
  <2> QED BY <2>5, <2>9 DEF next
<1> QED BY <1>4, <1>5

(* Past a nibble there is room for what follows it. *)
LEMMA PastType ==
    ASSUME CallOK(call), Spelled(call), NEW cur \in Cursors, NEW s,
           Holds(PastFifteen(cur).at, s), Len(s) \in Nat
    PROVE  PastFifteen(cur) \in Cursors
<1>1. /\ cur.at \in Nat /\ cur.half \in Nat /\ Len(call.block) \in Nat
      /\ cur.at \in 0 .. Len(call.block) /\ 0 \in 0 .. Len(call.block)
  BY SMT, CursorType, SpelledType
<1>2. 15 # Format!NoNibble
  BY SMT DEF Format!NoNibble
<1>3. CASE cur.half = 0
  <2>1. PastFifteen(cur) = [at |-> cur.at + 1, half |-> cur.at + 1]
    BY <1>2, <1>3 DEF PastFifteen, Format!PastNibble, Format!Cursor
  <2>2. cur.at + 1 + Len(s) <= Len(call.block)
    BY <2>1 DEF Holds, Text!HasAt
  <2>3. cur.at + 1 \in 0 .. Len(call.block)
    <3> DEFINE p == cur.at
               l == Len(s)
    <3>1. p \in Nat /\ l \in Nat /\ Len(call.block) \in Nat
          /\ p + 1 + l <= Len(call.block)
      BY <1>1, <2>2
    <3> HIDE DEF p, l
    <3>2. p + 1 \in 0 .. Len(call.block)
      BY SMT, <3>1
    <3> QED BY <3>2 DEF p
  <2> QED BY <2>1, <2>3 DEF Cursors
<1>4. CASE cur.half # 0
  <2>1. PastFifteen(cur) = [at |-> cur.at, half |-> 0]
    BY <1>2, <1>4 DEF PastFifteen, Format!PastNibble, Format!Cursor
  <2> QED BY <1>1, <2>1 DEF Cursors
<1> QED BY <1>3, <1>4

-----------------------------------------------------------------------------
LEMMA FieldType ==
    ASSUME NEW n \in Nat
    PROVE  Field(n, 3) \in 0 .. 3 /\ Field(n, 7) \in 0 .. 7
BY SMT DEF Field

(* The places of a command in block and text, in numbers. *)
LEMMA Layout ==
    ASSUME CallOK(call), WellFormed(call), NEW i \in 1 .. Len(Script)
    PROVE  /\ Spelled(call) /\ call.srcBank \in CodeBanks
           /\ i \in Nat /\ Len(Script) \in Nat /\ Len(call.block) \in Nat
           /\ Size \in Nat /\ Size \in Word
           /\ TokenAt(i) \in Cursors /\ LitLenAt(i) \in Cursors
           /\ LitAt(i) \in Cursors /\ OffAt(i) \in Cursors
           /\ MatchLenAt(i) \in Cursors /\ NextAt(i) \in Cursors
           /\ call.at[i] = TokenAt(i).at
           /\ OffAt(i) = Format!Cursor(LitAt(i).at + Lit(i), LitAt(i).half)
           /\ LitAt(i).at + Lit(i) <= Len(call.block)
           /\ \A j \in 1 .. Lit(i) :
                 call.block[LitAt(i).at + j] = call.plain[call.out[i] + j]
           /\ Lit(i) \in Nat /\ Lit(i) < 256
           /\ call.out[i] \in Nat /\ From(i) \in Nat
           /\ From(i) = call.out[i] + Lit(i) /\ From(i) <= Size
           /\ call.out[i + 1] = From(i) + Script[i].len
           /\ From(i) + Script[i].len <= Size
           /\ Script[i].len \in Nat /\ Off(i) \in Nat
           /\ i = Len(Script) => Script[i].len = 0 /\ From(i) = Size
           /\ i # Len(Script) => /\ Script[i].len >= 2
                                 /\ Off(i) \in 1 .. From(i)
                                 /\ i + 1 \in 1 .. Len(Script)
                                 /\ TokenAt(i + 1) = NextAt(i)
<1>1. Spelled(call) /\ call.srcBank \in CodeBanks
  BY DEF WellFormed
<1>2. /\ Parsed(i)
      /\ TokenAt(i) \in Cursors /\ LitLenAt(i) \in Cursors
      /\ LitAt(i) \in Cursors /\ OffAt(i) \in Cursors
      /\ MatchLenAt(i) \in Cursors /\ NextAt(i) \in Cursors
      /\ call.at[i] = TokenAt(i).at
      /\ i < Len(Script) => TokenAt(i + 1) = NextAt(i)
      /\ IF i = Len(Script) THEN Script[i].len = 0 ELSE Script[i].len >= 2
      /\ Lit(i) < 256
  BY CommandParsed
<1>3. /\ Len(call.block) \in Nat /\ Size \in Nat /\ Size \in Word
  BY <1>1, SizeType
<1>4. /\ Script[i].lit \in Nat /\ Script[i].len \in Nat /\ Script[i].off \in Nat
      /\ call.out[i] \in Nat /\ From(i) \in Nat
      /\ call.out[i + 1] = From(i) + Script[i].len
      /\ From(i) + Script[i].len <= Size
      /\ Script[i].len > 0 => Script[i].off \in 1 .. From(i)
      /\ From(i) = call.out[i] + Script[i].lit
  BY <1>1, CommandType DEF From
<1>5. Lit(i) = Script[i].lit /\ Off(i) = Script[i].off
  BY DEF Lit, Off
<1>6. Script \in Seq(Text!Commands)
  BY <1>1 DEF Spelled, Text!Spells, Script
<1>7. /\ Len(Script) \in Nat /\ i \in Nat
      /\ i # Len(Script) => i + 1 \in 1 .. Len(Script) /\ i < Len(Script)
  <2> HIDE DEF Script
  <2> QED BY SMT, <1>6
<1>8. i # Len(Script) => Script[i].len > 0
  <2> DEFINE len == Script[i].len
  <2>1. len \in Nat /\ (i # Len(Script) => len >= 2)
    BY <1>2, <1>4
  <2> HIDE DEF len
  <2>2. i # Len(Script) => len > 0
    BY SMT, <2>1
  <2> QED BY <2>2 DEF len
<1>9. i = Len(Script) => From(i) = Size
  <2>1. call.out[Len(Script) + 1] = Size
    BY <1>1 DEF Spelled, Text!Spells, Script, Size
  <2>2. i = Len(Script) => From(i) + 0 = Size
    BY <1>2, <1>4, <2>1
  <2> QED BY SMT, <1>4, <2>2
<1>10. From(i) <= Size
  BY SMT, <1>3, <1>4
<1>11. /\ OffAt(i) = Format!Cursor(LitAt(i).at + Lit(i), LitAt(i).half)
       /\ LitAt(i).at + Lit(i) <= Len(call.block)
       /\ \A j \in 1 .. Lit(i) :
             call.block[LitAt(i).at + j] = call.plain[call.out[i] + j]
  <2> DEFINE s == Text!LiteralsOf(call, i)
             n == Lit(i)
             at == call.out[i]
  <2>1. Len(s) = n /\ \A j \in 1 .. n : s[j] = call.plain[at + j]
    BY <1>1, <1>5, LiteralsType
  <2>2. Reads(LitAt(i), Format!Bytes(s), OffAt(i))
    BY <1>2 DEF Parsed
  <2> HIDE DEF s
  <2>3. Holds(LitAt(i).at, s)
        /\ OffAt(i) = Format!Cursor(LitAt(i).at + Len(s), LitAt(i).half)
    BY <2>2, BytesRead
  <2> QED BY <2>1, <2>3 DEF Holds, Text!HasAt
<1> QED BY <1>1, <1>2, <1>3, <1>4, <1>5, <1>7, <1>8, <1>9, <1>10, <1>11

-----------------------------------------------------------------------------
(* The token of a command says what its fields are. *)
LEMMA TokenSplit ==
    ASSUME NEW w \in 0 .. 7, NEW u \in 0 .. 3, NEW v \in 0 .. 7
    PROVE  LET t == w * 32 + u * 8 + v
           IN  /\ (t \div 8) % 4 = u /\ t % 8 = v
               /\ t \div 128 = w \div 4 /\ (t \div 64) % 2 = (w \div 2) % 2
               /\ (t \div 32) % 2 = w % 2
BY SMT

LEMMA ModeType ==
    ASSUME NEW i
    PROVE  \E w \in 0 .. 7 : Mode(i) = w * 32
<1>1. \A n, b : \E w \in 0 .. 1 : Format!InToken(n, b) = w * 32
  <2>1. 0 \in 0 .. 1 /\ 1 \in 0 .. 1 /\ 0 * 32 = 0 /\ 1 * 32 = 32
    BY SMT
  <2> QED BY <2>1 DEF Format!InToken
<1>2. /\ \A w \in 0 .. 1 : /\ w \in 0 .. 7
                           /\ w + 2 \in 0 .. 7 /\ 64 + w * 32 = (w + 2) * 32
                           /\ w + 4 \in 0 .. 7 /\ 128 + w * 32 = (w + 4) * 32
      /\ 6 \in 0 .. 7 /\ 6 * 32 = 192 /\ 7 \in 0 .. 7 /\ 7 * 32 = 224
  BY SMT
<1>3. Mode(i) \in {224, 192} \/ \E n, b :
         Mode(i) \in {Format!InToken(n, b), 64 + Format!InToken(n, b),
                      128 + Format!InToken(n, b)}
  BY DEF Mode, Format!OffsetMode
<1>4. CASE Mode(i) \in {224, 192}
  BY <1>2, <1>4
<1>5. CASE \E n, b : Mode(i) \in {Format!InToken(n, b), 64 + Format!InToken(n, b),
                      128 + Format!InToken(n, b)}
  <2>1. PICK w \in 0 .. 1 : Mode(i) \in {w * 32, 64 + w * 32, 128 + w * 32}
    BY <1>1, <1>5
  <2> QED BY <1>2, <2>1
<1> QED BY <1>3, <1>4, <1>5

LEMMA TokenSays ==
    ASSUME CallOK(call), WellFormed(call), NEW i \in 1 .. Len(Script)
    PROVE  /\ TokenAt(i).at < Len(call.block)
           /\ call.block[TokenAt(i).at + 1] = Tok(i)
           /\ LitLenAt(i) = Format!Cursor(TokenAt(i).at + 1, TokenAt(i).half)
           /\ (Tok(i) \div 8) % 4 = Field(Lit(i), 3)
           /\ Tok(i) % 8 = MatchField(i)
           /\ \E w \in 0 .. 7 : /\ Mode(i) = w * 32
                                /\ Tok(i) \div 128 = w \div 4
                                /\ (Tok(i) \div 64) % 2 = (w \div 2) % 2
                                /\ (Tok(i) \div 32) % 2 = w % 2
<1>1. /\ Lit(i) \in Nat /\ Script[i].len \in Nat
      /\ i # Len(Script) => Script[i].len >= 2
      /\ i = Len(Script) => Script[i].len = 0
      /\ Spelled(call) /\ TokenAt(i) \in Cursors /\ Len(call.block) \in Nat
  BY Layout
<1> DEFINE t == Tok(i)
           p == TokenAt(i).at
<1>2. /\ call.block[p + 1] = t /\ p + 1 <= Len(call.block)
      /\ LitLenAt(i) = Format!Cursor(p + 1, TokenAt(i).half)
  <2>1. Reads(TokenAt(i), Format!Bytes(<<t>>), LitLenAt(i))
    BY CommandParsed DEF Parsed
  <2>2. \A u : Len(<<u>>) = 1
    BY SMT
  <2> HIDE DEF t
  <2>3. Holds(p, <<t>>) /\ LitLenAt(i) = Format!Cursor(p + 1, TokenAt(i).half)
    BY <2>1, <2>2, BytesRead
  <2> QED BY <2>3, HoldsOne
<1>3. p < Len(call.block)
  <2>1. p \in Nat
    BY <1>1, CursorType
  <2> HIDE DEF p
  <2> QED BY SMT, <1>1, <1>2, <2>1
<1> DEFINE u == Field(Lit(i), 3)
           v == MatchField(i)
<1>4. u \in 0 .. 3 /\ v \in 0 .. 7
  <2>1. 7 \in 0 .. 7
    BY SMT
  <2>2. CASE Script[i].len = 0
    BY <1>1, <2>1, <2>2, FieldType DEF MatchField
  <2>3. CASE Script[i].len # 0
    <3>1. Script[i].len - 2 \in Nat
      BY SMT, <1>1, <2>3
    <3> QED BY <1>1, <2>3, <3>1, FieldType DEF MatchField
  <2> QED BY <2>2, <2>3
<1>5. PICK w \in 0 .. 7 : Mode(i) = w * 32
  BY ModeType
<1>6. t = w * 32 + u * 8 + v
  BY <1>5 DEF Tok
<1> HIDE DEF u, v, t, p
<1>7. /\ (t \div 8) % 4 = u /\ t % 8 = v
      /\ t \div 128 = w \div 4 /\ (t \div 64) % 2 = (w \div 2) % 2
      /\ (t \div 32) % 2 = w % 2
  BY <1>4, <1>6, TokenSplit
<1> QED BY <1>2, <1>3, <1>5, <1>7 DEF u, v, t, p

(* The parts of a length past its field. *)
VarlenSaid(cur, n, inToken, next) ==
    /\ PastFifteen(cur) \in Cursors
    /\ n < inToken + 15
           => /\ n - inToken \in 0 .. 14
              /\ Format!SaysNibble(call.block, cur, n - inToken)
              /\ next = PastFifteen(cur)
    /\ n >= inToken + 15 => Format!SaysNibble(call.block, cur, 15)
    /\ n >= inToken + 15 /\ n < 256
           => /\ Holds(PastFifteen(cur).at, <<n - inToken - 15>>)
              /\ next = PastByte(cur)
    /\ n >= 256
           => /\ Holds(PastFifteen(cur).at,
                       <<257 - (inToken + 15), n % 256, n \div 256>>)
              /\ next = Format!Cursor(PastFifteen(cur).at + 3,
                                      PastFifteen(cur).half)

LEMMA VarlenSays ==
    ASSUME CallOK(call), Spelled(call), NEW cur \in Cursors,
           NEW n \in Nat, NEW inToken \in {3, 9}, n >= inToken,
           NEW next \in Cursors, Reads(cur, Format!Varlen(n, inToken), next)
    PROVE  VarlenSaid(cur, n, inToken, next)
<1> USE DEF VarlenSaid
<1> DEFINE v == Format!LengthNibble(n, inToken)
           s == Format!LengthBytes(n, inToken)
           past == PastFifteen(cur)
<1>1. /\ ~(n < inToken) /\ n - inToken \in Nat
      /\ n < inToken + 15 => n - inToken \in 0 .. 14 /\ ~(n - inToken >= 15)
                             /\ ~(n >= 256)
      /\ n >= inToken + 15 => n - inToken >= 15 /\ ~(n < inToken + 15)
      /\ n >= 256 => ~(n < 256) /\ n >= inToken + 15
      /\ 256 - (inToken + 15) + 1 = 257 - (inToken + 15)
      /\ 15 \in 0 .. 15 /\ \A k \in 0 .. 14 : k \in 0 .. 15
      /\ n < inToken + 15 \/ n >= inToken + 15
  BY SMT
<1>2. v = IF n < inToken + 15 THEN n - inToken ELSE 15
  BY <1>1 DEF Format!LengthNibble, Format!AtMost
<1>3. s = IF n < inToken + 15 THEN <<>>
          ELSE IF n < 256 THEN <<n - inToken - 15>>
          ELSE <<257 - (inToken + 15), n % 256, n \div 256>>
  BY <1>1 DEF Format!LengthBytes
<1>4. v \in 0 .. 15
  BY <1>1, <1>2
<1>5. Reads(cur, Format!Part(v, s), next)
  BY DEF Format!Varlen
<1> HIDE DEF v, s
<1>6. /\ Format!SaysNibble(call.block, cur, v)
      /\ Holds(past.at, s)
      /\ next = Format!Cursor(past.at + Len(s), past.half)
  BY <1>4, <1>5, NibbleRead
<1>7. /\ Len(<<>>) = 0
      /\ \A a1, a2, a3 : Len(<<a1>>) = 1 /\ Len(<<a1, a2, a3>>) = 3
  BY SMT
<1>8. Len(s) \in Nat
  <2>1. 0 \in Nat /\ 1 \in Nat /\ 3 \in Nat
    BY SMT
  <2> QED BY <1>3, <1>7, <2>1
<1>9. past \in Cursors
  BY <1>6, <1>8, PastType
<1>10. Format!Cursor(past.at + 0, past.half) = past
  BY <1>9, CursorType
<1>11. CASE n < inToken + 15
  <2> HIDE DEF past
  <2>1. v = n - inToken /\ s = <<>>
    BY <1>2, <1>3, <1>11
  <2>2. next = past
    BY <1>6, <1>7, <1>10, <2>1
  <2> QED BY <1>1, <1>6, <1>9, <1>11, <2>1, <2>2 DEF past
<1>12. CASE n >= inToken + 15
  <2> HIDE DEF past
  <2>1. v = 15 /\ ~(n < inToken + 15)
    BY <1>1, <1>2, <1>12
  <2>2. n < 256 => s = <<n - inToken - 15>>
    BY <1>3, <2>1
  <2>3. n >= 256 => s = <<257 - (inToken + 15), n % 256, n \div 256>>
    BY <1>1, <1>3, <2>1
  <2>4. n < 256 => next = Format!Cursor(past.at + 1, past.half)
    BY <1>6, <1>7, <2>2
  <2>5. n >= 256 => next = Format!Cursor(past.at + 3, past.half)
    BY <1>6, <1>7, <2>3
  <2> QED BY <1>6, <1>9, <2>1, <2>2, <2>3, <2>4, <2>5 DEF past, PastByte
<1> QED BY <1>1, <1>11, <1>12

-----------------------------------------------------------------------------
(* The bits of an offset, negated, in each of its encodings. *)
Neg(off)  == Format!Negative(off)
Long(off) == Format!Negative(off - 512)

FiveBit     == 1 .. 32
NineBit     == 1 .. 512
ThirteenBit == 513 .. Format!FARTHEST_13_BIT

Zero(n, bit) == IF (n \div bit) % 2 = 0 THEN 1 ELSE 0

LEMMA NegatedIs ==
    ASSUME NEW off \in Word, off # 0
    PROVE  Wrap(-off) = Neg(off) /\ Neg(off) \in Word
BY SMT DEF Wrap, Word, Neg, Format!Negative

LEMMA FiveBits ==
    ASSUME NEW off \in FiveBit, NEW z \in {0, 1}, z = Zero(Neg(off), 1)
    PROVE  /\ (Neg(off) % 32) \div 2 \in 0 .. 15
           /\ MakeWord(224 + ((Neg(off) % 32) \div 2) * 2 + (1 - z), 255)
                  = Neg(off)
BY SMT DEF MakeWord, Neg, Zero, FiveBit, NineBit,
       Format!Negative

LEMMA NineBits ==
    ASSUME NEW off \in NineBit, NEW z \in {0, 1}, z = Zero(Neg(off), 256)
    PROVE  MakeWord(Neg(off) % 256, 255 - z) = Neg(off)
BY SMT DEF MakeWord, Neg, Zero, FiveBit, NineBit,
       Format!Negative

LEMMA ThirteenBits ==
    ASSUME NEW off \in ThirteenBit, NEW z \in {0, 1}, z = Zero(Long(off), 256)
    PROVE  /\ (Long(off) \div 512) % 16 \in 0 .. 15
           /\ Hi(Neg(off))
                  = 224 + ((Long(off) \div 512) % 16) * 2 + (1 - z) - 2
           /\ Lo(Neg(off)) = Long(off) % 256
BY SMT DEF Hi, Lo, Neg, Long, Zero, ThirteenBit,
       Format!Negative, Format!FARTHEST_13_BIT

LEMMA SixteenBits ==
    ASSUME NEW neg \in Word
    PROVE  /\ neg % 256 \in Byte /\ neg \div 256 \in Byte
           /\ MakeWord(neg % 256, neg \div 256) = neg
BY SMT DEF MakeWord, Word, Byte

(* Which encoding an offset has, and what of it is in the token: Mode(i)   *)
(* is 32 w.                                                                *)
LEMMA ModeSays ==
    ASSUME NEW i, NEW w \in 0 .. 7, Mode(i) = w * 32, NEW off, off = Off(i),
           off \in Word, off # 0, Script[i].len # 0
    PROVE  /\ w = 7 => off = Rep(i) /\ OffPart(i) = Format!Bytes(<<>>)
           /\ w \in {0, 1}
                 => /\ off \in FiveBit /\ w % 2 = Zero(Neg(off), 1)
                    /\ OffPart(i) = Format!Part((Neg(off) % 32) \div 2, <<>>)
           /\ w \in {2, 3}
                 => /\ off \in NineBit /\ w % 2 = Zero(Neg(off), 256)
                    /\ OffPart(i) = Format!Bytes(<<Neg(off) % 256>>)
           /\ w \in {4, 5}
                 => /\ off \in ThirteenBit /\ w % 2 = Zero(Long(off), 256)
                    /\ OffPart(i) = Format!Part((Long(off) \div 512) % 16,
                                                <<Long(off) % 256>>)
           /\ w = 6
                 => OffPart(i) = Format!Bytes(<<Neg(off) \div 256,
                                                Neg(off) % 256>>)
<1> DEFINE repeated == off = Rep(i)
           v1 == Zero(Neg(off), 1)
           v9 == Zero(Neg(off), 256)
           v13 == Zero(Long(off), 256)
<1>1. /\ Format!InToken(Neg(off), 1) = v1 * 32
      /\ Format!InToken(Neg(off), 256) = v9 * 32
      /\ Format!InToken(Long(off), 256) = v13 * 32
      /\ v1 \in {0, 1} /\ v9 \in {0, 1} /\ v13 \in {0, 1}
  <2>1. 1 * 32 = 32 /\ 0 * 32 = 0
    BY SMT
  <2> QED BY <2>1 DEF Format!InToken, Zero
<1>2. off \in Nat /\ off > 0
  BY SMT DEF Word
<1>r. /\ off \in FiveBit <=> off <= 32
      /\ off \in NineBit <=> off <= 512
      /\ off \in ThirteenBit
            <=> ~(off <= 512) /\ off <= Format!FARTHEST_13_BIT
      /\ ~(off <= 512) => ~(off <= 32)
  <2>1. off \in FiveBit <=> off <= 32
    BY SMT, <1>2 DEF FiveBit
  <2>2. off \in NineBit <=> off <= 512
    BY SMT, <1>2 DEF NineBit
  <2>3. off \in ThirteenBit
           <=> ~(off <= 512) /\ off <= Format!FARTHEST_13_BIT
    <3> DEFINE far == Format!FARTHEST_13_BIT
    <3>1. far \in Nat
      BY SMT DEF Format!FARTHEST_13_BIT
    <3> HIDE DEF far
    <3>2. off \in 513 .. far <=> ~(off <= 512) /\ off <= far
      BY SMT, <1>2, <3>1
    <3> QED BY <3>2 DEF ThirteenBit, far
  <2>4. ~(off <= 512) => ~(off <= 32)
    BY SMT, <1>2
  <2> QED BY <2>1, <2>2, <2>3, <2>4
<1>3. repeated => Mode(i) = 224 /\ OffPart(i) = Format!Bytes(<<>>)
  BY SMT DEF Mode, OffPart, Format!OffsetMode, Format!Offset
<1>4. ~repeated /\ off \in FiveBit
         => /\ Mode(i) = Format!InToken(Neg(off), 1)
            /\ OffPart(i) = Format!Part((Neg(off) % 32) \div 2, <<>>)
  BY <1>r DEF Mode, OffPart, Format!OffsetMode, Format!Offset, Neg
<1>5. ~repeated /\ off \in NineBit \ FiveBit
         => /\ Mode(i) = 64 + Format!InToken(Neg(off), 256)
            /\ OffPart(i) = Format!Bytes(<<Neg(off) % 256>>)
  BY <1>r DEF Mode, OffPart, Format!OffsetMode, Format!Offset, Neg
<1>6. ~repeated /\ off \in ThirteenBit
         => /\ Mode(i) = 128 + Format!InToken(Long(off), 256)
            /\ OffPart(i) = Format!Part((Long(off) \div 512) % 16,
                                        <<Long(off) % 256>>)
  BY <1>r DEF Mode, OffPart, Format!OffsetMode, Format!Offset, Long
<1>7. ~repeated /\ off \notin NineBit /\ off \notin ThirteenBit
         => /\ Mode(i) = 192
            /\ OffPart(i) = Format!Bytes(<<Neg(off) \div 256, Neg(off) % 256>>)
  BY <1>r DEF Mode, OffPart, Format!OffsetMode, Format!Offset, Neg
<1> HIDE DEF repeated, v1, v9, v13
<1>9. CASE repeated
  <2>1. w = 7
    BY SMT, <1>3, <1>9
  <2>2. w \notin {0, 1} /\ w \notin {2, 3} /\ w \notin {4, 5} /\ w # 6
    BY SMT, <2>1
  <2> QED BY <1>3, <1>9, <2>2 DEF repeated
<1>10. CASE ~repeated /\ off \in FiveBit
  <2>1. w = v1 /\ w % 2 = v1
    BY SMT, <1>1, <1>4, <1>10
  <2>2. w \notin {2, 3} /\ w \notin {4, 5} /\ w # 6 /\ w # 7
    BY SMT, <1>1, <2>1
  <2> QED BY <1>4, <1>10, <2>1, <2>2 DEF v1
<1>11. CASE ~repeated /\ off \in NineBit \ FiveBit
  <2>1. w = 2 + v9 /\ w % 2 = v9
    BY SMT, <1>1, <1>5, <1>11
  <2>2. w \notin {0, 1} /\ w \notin {4, 5} /\ w # 6 /\ w # 7
    BY SMT, <1>1, <2>1
  <2> QED BY <1>5, <1>11, <2>1, <2>2 DEF v9
<1>12. CASE ~repeated /\ off \in ThirteenBit
  <2>1. w = 4 + v13 /\ w % 2 = v13
    BY SMT, <1>1, <1>6, <1>12
  <2>2. w \notin {0, 1} /\ w \notin {2, 3} /\ w # 6 /\ w # 7
    BY SMT, <1>1, <2>1
  <2> QED BY <1>6, <1>12, <2>1, <2>2 DEF v13
<1>13. CASE ~repeated /\ off \notin NineBit /\ off \notin ThirteenBit
  <2>1. w = 6
    BY SMT, <1>7, <1>13
  <2>2. w \notin {0, 1} /\ w \notin {2, 3} /\ w \notin {4, 5} /\ w # 7
    BY SMT, <2>1
  <2> QED BY <1>7, <1>13, <2>1, <2>2
<1> QED BY <1>9, <1>10, <1>11, <1>12, <1>13

(* What is in the block of an offset of each encoding. *)
OffsetSaid(i, w) ==
    /\ w = 7 => /\ MatchLenAt(i) = OffAt(i)
                /\ i # Len(Script) => i # 1 /\ Off(i) = Rep(i)
    /\ w # 7 => i # Len(Script)
    /\ w \in {0, 1}
          => /\ MatchLenAt(i) = PastFifteen(OffAt(i))
             /\ \E n \in 0 .. 15 :
                   /\ Format!SaysNibble(call.block, OffAt(i), n)
                   /\ MakeWord(224 + n * 2 + (1 - (w % 2)), 255)
                          = Wrap(-Off(i))
    /\ w \in {2, 3}
          => /\ MatchLenAt(i)
                    = Format!Cursor(OffAt(i).at + 1, OffAt(i).half)
             /\ OffAt(i).at < Len(call.block)
             /\ MakeWord(call.block[OffAt(i).at + 1], 255 - (w % 2))
                    = Wrap(-Off(i))
    /\ w \in {4, 5}
          => LET past == PastFifteen(OffAt(i))
             IN  /\ MatchLenAt(i) = PastByte(OffAt(i))
                 /\ past \in Cursors /\ past.at < Len(call.block)
                 /\ call.block[past.at + 1] = Lo(Wrap(-Off(i)))
                 /\ \E n \in 0 .. 15 :
                       /\ Format!SaysNibble(call.block, OffAt(i), n)
                       /\ Hi(Wrap(-Off(i))) = 224 + n * 2 + (1 - (w % 2)) - 2
    /\ w = 6 => LET p == OffAt(i).at
                IN  /\ MatchLenAt(i) = Format!Cursor(p + 2, OffAt(i).half)
                    /\ p + 1 < Len(call.block)
                    /\ call.block[p + 1] \in Byte /\ call.block[p + 2] \in Byte
                    /\ MakeWord(call.block[p + 2], call.block[p + 1])
                           = Wrap(-Off(i))

LEMMA OffsetSays ==
    ASSUME CallOK(call), WellFormed(call), NEW i \in 1 .. Len(Script),
           NEW w \in 0 .. 7, Mode(i) = w * 32
    PROVE  OffsetSaid(i, w)
<1> DEFINE off == Off(i)
           cur == OffAt(i)
           next == MatchLenAt(i)
           neg == Neg(off)
           long == Long(off)
<1>1. /\ Spelled(call) /\ cur \in Cursors /\ next \in Cursors
      /\ Len(call.block) \in Nat
      /\ i = Len(Script) => Script[i].len = 0
      /\ i # Len(Script) => Script[i].len >= 2 /\ off \in 1 .. From(i)
      /\ From(i) \in Nat /\ From(i) <= Size /\ Size \in Word
  BY Layout
<1>2. cur.at \in Nat /\ Format!Cursor(cur.at + 0, cur.half) = cur
  BY <1>1, CursorType
<1>3. Reads(cur, OffPart(i), next)
  BY CommandParsed DEF Parsed
<1>4. Len(<<>>) = 0 /\ \A u, v : Len(<<u>>) = 1 /\ Len(<<u, v>>) = 2
  BY SMT
<1>5. ASSUME NEW s, OffPart(i) = Format!Bytes(s)
      PROVE  Holds(cur.at, s) /\ next = Format!Cursor(cur.at + Len(s), cur.half)
  BY <1>3, <1>5, BytesRead
<1>6. ASSUME NEW s, NEW n \in 0 .. 15, OffPart(i) = Format!Part(n, s),
             Len(s) \in Nat
      PROVE  /\ Format!SaysNibble(call.block, cur, n)
             /\ Holds(PastFifteen(cur).at, s) /\ PastFifteen(cur) \in Cursors
             /\ next = Format!Cursor(PastFifteen(cur).at + Len(s),
                                     PastFifteen(cur).half)
  BY <1>1, <1>3, <1>6, NibbleRead, PastType
<1>7. CASE i = Len(Script)
  <2>1. Script[i].len = 0
    BY <1>1, <1>7
  <2>2. Mode(i) = 224 /\ OffPart(i) = Format!Bytes(<<>>)
    BY <2>1 DEF Mode, OffPart
  <2>3. w = 7
    BY SMT, <2>2
  <2>4. next = cur
    BY <1>2, <1>4, <1>5, <2>2
  <2>5. ~(w \in {0, 1}) /\ ~(w \in {2, 3}) /\ ~(w \in {4, 5}) /\ w # 6
    BY SMT, <2>3
  <2> QED BY <1>7, <2>3, <2>4, <2>5 DEF OffsetSaid
<1>8. CASE i # Len(Script)
  <2>1. off \in Word /\ off # 0 /\ Script[i].len # 0
    <3>1. Script[i].len >= 2 /\ off \in 1 .. From(i)
      BY <1>1, <1>8
    <3> HIDE DEF off
    <3>2. off \in Word /\ off # 0
      BY SMT, <1>1, <3>1 DEF Word
    <3>3. Script[i].len # 0
      BY SMT, <3>1
    <3> QED BY <3>2, <3>3
  <2>2. Wrap(-off) = neg /\ Wrap(-off) \in Word
    BY <2>1, NegatedIs
  <2> DEFINE z == w % 2
  <2>3. z \in {0, 1}
    BY SMT
  <2>4. w = 7 => /\ off = Rep(i) /\ OffPart(i) = Format!Bytes(<<>>)
    BY <2>1, ModeSays
  <2>5. w \in {0, 1} => /\ off \in FiveBit
                        /\ z = Zero(neg, 1)
                        /\ OffPart(i) = Format!Part((neg % 32) \div 2, <<>>)
    BY <2>1, ModeSays
  <2>6. w \in {2, 3} => /\ off \in NineBit
                        /\ z = Zero(neg, 256)
                        /\ OffPart(i) = Format!Bytes(<<neg % 256>>)
    BY <2>1, ModeSays
  <2>7. w \in {4, 5} => /\ off \in ThirteenBit
                        /\ z = Zero(long, 256)
                        /\ OffPart(i) = Format!Part((long \div 512) % 16,
                                                    <<long % 256>>)
    BY <2>1, ModeSays
  <2>8. w = 6 => OffPart(i) = Format!Bytes(<<neg \div 256, neg % 256>>)
    BY <2>1, ModeSays
  <2>9. neg \in Word
    BY <2>2
  <2> DEFINE v == Wrap(-off)
  <2>10. v = neg
    BY <2>2
  <2>11. Len(call.block) \in Nat /\ cur.at \in Nat
    BY <1>1, <1>2
  <2>a. w = 7 => next = cur /\ i # 1 /\ off = Rep(i)
    <3>1. Format!RepOffset(Script, 1) = 0
      BY DEF Format!RepOffset
    <3> QED BY <1>2, <1>4, <1>5, <2>1, <2>4, <3>1 DEF Rep
  <2>b. w \in {0, 1} => /\ next = PastFifteen(cur)
                        /\ \E n \in 0 .. 15 :
                              /\ Format!SaysNibble(call.block, cur, n)
                              /\ MakeWord(224 + n * 2 + (1 - z), 255) = v
    <3> SUFFICES ASSUME w \in {0, 1}
                 PROVE  /\ next = PastFifteen(cur)
                        /\ \E n \in 0 .. 15 :
                              /\ Format!SaysNibble(call.block, cur, n)
                              /\ MakeWord(224 + n * 2 + (1 - z), 255) = v
      OBVIOUS
    <3> DEFINE n == (neg % 32) \div 2
    <3>1. n \in 0 .. 15 /\ MakeWord(224 + n * 2 + (1 - z), 255) = neg
      <4> HIDE DEF z, off
      <4> QED BY <2>3, <2>5, FiveBits
    <3>2. OffPart(i) = Format!Part(n, <<>>)
      BY <2>5
    <3>3. Len(<<>>) \in Nat
      BY SMT
    <3> HIDE DEF n, v, neg, z, next, cur
    <3>4. /\ Format!SaysNibble(call.block, cur, n)
          /\ PastFifteen(cur) \in Cursors
          /\ next = Format!Cursor(PastFifteen(cur).at + 0,
                                  PastFifteen(cur).half)
      BY <1>4, <1>6, <3>1, <3>2, <3>3
    <3>5. next = PastFifteen(cur)
      BY <1>1, <3>4, CursorType
    <3> QED BY <2>10, <3>1, <3>4, <3>5
  <2>c. w \in {2, 3} => /\ next = Format!Cursor(cur.at + 1, cur.half)
                        /\ cur.at < Len(call.block)
                        /\ MakeWord(call.block[cur.at + 1], 255 - z) = v
    <3> SUFFICES ASSUME w \in {2, 3}
                 PROVE  /\ next = Format!Cursor(cur.at + 1, cur.half)
                        /\ cur.at < Len(call.block)
                        /\ MakeWord(call.block[cur.at + 1], 255 - z) = v
      OBVIOUS
    <3> DEFINE b == neg % 256
    <3>1. MakeWord(b, 255 - z) = neg
      <4> HIDE DEF z, off
      <4> QED BY <2>3, <2>6, NineBits
    <3>2. OffPart(i) = Format!Bytes(<<b>>)
      BY <2>6
    <3> HIDE DEF b, v, neg, z, next, cur
    <3>3. Holds(cur.at, <<b>>) /\ next = Format!Cursor(cur.at + 1, cur.half)
      BY <1>4, <1>5, <3>2
    <3>4. call.block[cur.at + 1] = b /\ cur.at + 1 <= Len(call.block)
      BY <3>3, HoldsOne
    <3>5. cur.at < Len(call.block)
      BY SMT, <2>11, <3>4
    <3> QED BY <2>10, <3>1, <3>3, <3>4, <3>5
  <2>d. w \in {4, 5}
           => /\ next = PastByte(cur)
              /\ PastFifteen(cur) \in Cursors
              /\ PastFifteen(cur).at < Len(call.block)
              /\ call.block[PastFifteen(cur).at + 1] = Lo(v)
              /\ \E n \in 0 .. 15 :
                    /\ Format!SaysNibble(call.block, cur, n)
                    /\ Hi(v) = 224 + n * 2 + (1 - z) - 2
    <3> SUFFICES ASSUME w \in {4, 5}
                 PROVE  /\ next = PastByte(cur)
                        /\ PastFifteen(cur) \in Cursors
                        /\ PastFifteen(cur).at < Len(call.block)
                        /\ call.block[PastFifteen(cur).at + 1] = Lo(v)
                        /\ \E n \in 0 .. 15 :
                              /\ Format!SaysNibble(call.block, cur, n)
                              /\ Hi(v) = 224 + n * 2 + (1 - z) - 2
      OBVIOUS
    <3> DEFINE n == (long \div 512) % 16
               b == long % 256
    <3>1. /\ n \in 0 .. 15 /\ Hi(neg) = 224 + n * 2 + (1 - z) - 2
          /\ Lo(neg) = b
      <4> HIDE DEF z, off
      <4> QED BY <2>3, <2>7, ThirteenBits
    <3>2. OffPart(i) = Format!Part(n, <<b>>)
      BY <2>7
    <3>3. Len(<<b>>) \in Nat
      BY SMT
    <3> HIDE DEF n, b, v, neg, z, next, cur
    <3>4. /\ Format!SaysNibble(call.block, cur, n)
          /\ Holds(PastFifteen(cur).at, <<b>>)
          /\ PastFifteen(cur) \in Cursors
          /\ next = Format!Cursor(PastFifteen(cur).at + 1,
                                  PastFifteen(cur).half)
      BY <1>4, <1>6, <3>1, <3>2, <3>3
    <3>5. /\ call.block[PastFifteen(cur).at + 1] = b
          /\ PastFifteen(cur).at + 1 <= Len(call.block)
      BY <3>4, HoldsOne
    <3>6. PastFifteen(cur).at \in Nat
      BY <1>1, <3>4, CursorType
    <3>7. PastFifteen(cur).at < Len(call.block)
      BY SMT, <2>11, <3>5, <3>6
    <3> QED BY <2>10, <3>1, <3>4, <3>5, <3>7 DEF PastByte
  <2>e. w = 6 => /\ next = Format!Cursor(cur.at + 2, cur.half)
                 /\ cur.at + 1 < Len(call.block)
                 /\ call.block[cur.at + 1] \in Byte
                 /\ call.block[cur.at + 2] \in Byte
                 /\ MakeWord(call.block[cur.at + 2], call.block[cur.at + 1]) = v
    <3> SUFFICES ASSUME w = 6
                 PROVE  /\ next = Format!Cursor(cur.at + 2, cur.half)
                        /\ cur.at + 1 < Len(call.block)
                        /\ call.block[cur.at + 1] \in Byte
                        /\ call.block[cur.at + 2] \in Byte
                        /\ MakeWord(call.block[cur.at + 2],
                                    call.block[cur.at + 1]) = v
      OBVIOUS
    <3> DEFINE h == neg \div 256
               l == neg % 256
    <3>1. h \in Byte /\ l \in Byte /\ MakeWord(l, h) = neg
      <4> HIDE DEF neg
      <4> QED BY <2>9, SixteenBits
    <3>2. OffPart(i) = Format!Bytes(<<h, l>>)
      BY <2>8
    <3> HIDE DEF h, l, v, neg, next, cur
    <3>3. Holds(cur.at, <<h, l>>) /\ next = Format!Cursor(cur.at + 2, cur.half)
      BY <1>4, <1>5, <3>2
    <3>4. /\ call.block[cur.at + 1] = h /\ call.block[cur.at + 2] = l
          /\ cur.at + 2 <= Len(call.block)
      BY <3>3, HoldsTwo
    <3>5. cur.at + 1 < Len(call.block)
      BY SMT, <2>11, <3>4
    <3> QED BY <2>10, <3>1, <3>3, <3>4, <3>5
  <2> QED BY <1>8, <2>a, <2>b, <2>c, <2>d, <2>e DEF OffsetSaid
<1> QED BY <1>7, <1>8

-----------------------------------------------------------------------------
(* What stays where it was while the call does. *)
LEMMA CommandKept ==
    ASSUME call' = call, NEW i
    PROVE  /\ TokenAt(i)' = TokenAt(i) /\ LitLenAt(i)' = LitLenAt(i)
           /\ LitAt(i)' = LitAt(i) /\ OffAt(i)' = OffAt(i)
           /\ MatchLenAt(i)' = MatchLenAt(i) /\ NextAt(i)' = NextAt(i)
           /\ TokenAt(i + 1)' = TokenAt(i + 1)
           /\ call.out[i]' = call.out[i] /\ call.out[i + 1]' = call.out[i + 1]
           /\ Lit(i)' = Lit(i) /\ Off(i)' = Off(i) /\ Rep(i)' = Rep(i)
           /\ Tok(i)' = Tok(i) /\ Mode(i)' = Mode(i)
           /\ From(i)' = From(i) /\ Script' = Script /\ Size' = Size
           /\ Frame' = Frame /\ Start' = Start
           /\ \A cur : PastFifteen(cur)' = PastFifteen(cur)
           /\ \A cur : PastByte(cur)' = PastByte(cur)
           /\ \A n : After(n)' = After(n)
           /\ \A w : MoveFrame(w)' = MoveFrame(w)
           /\ \A w : ReadFrame(w)' = ReadFrame(w)
           /\ \A w, next : LengthFrame(w, next)' = LengthFrame(w, next)
<1>1. Script' = Script /\ Frame' = Frame /\ Size' = Size
      /\ From(i)' = From(i) /\ \A n : After(n)' = After(n)
      /\ \A w : MoveFrame(w)' = MoveFrame(w)
  BY PlacesKept
<1>2. /\ Mode(i)' = Mode(i) /\ Lit(i)' = Lit(i) /\ Off(i)' = Off(i)
      /\ Rep(i)' = Rep(i) /\ MatchField(i)' = MatchField(i)
  BY <1>1 DEF Mode, Lit, Off, Rep, MatchField
<1> QED BY <1>1, <1>2
        DEF TokenAt, LitLenAt, LitAt, OffAt, MatchLenAt, NextAt, Tok, Start,
            PastFifteen, PastByte, ReadFrame, LengthFrame

LEMMA HoldingKept ==
    ASSUME NEW n, Holding(n), UNCHANGED <<call, wram, wmadd>>
    PROVE  Holding(n)'
<1>1. Made(n)'
  BY MadeKept DEF Holding
<1> QED BY <1>1, PlacesKept DEF Holding, PortThere, Start

LEMMA ReadyKept ==
    ASSUME NEW n, Ready(n), UNCHANGED <<call, y, wram, wmadd>>
    PROVE  Ready(n)'
BY HoldingKept, PlacesKept DEF Ready

LEMMA RecentKept ==
    ASSUME NEW i, Recent(i), UNCHANGED <<call, match>>
    PROVE  Recent(i)'
BY CommandKept DEF Recent

(* What a call's invariants give at every step. *)
LEMMA InvFacts ==
    ASSUME IInv
    PROVE  /\ CommonTypeOK /\ CallOK(call) /\ wmadd \in WramAddress
           /\ a \in Word /\ c \in Bit
           /\ pc \notin {"Main", "Setup", "MatchCopied", "Idle"}
                  => db = call.srcBank
           /\ pc \notin {"Main", "Setup"} => /\ inBank = call.srcBank
                                             /\ outBank = call.dstBank
           /\ pc \in Steady8 \cup {"DecodeMatchLen"} \cup Steady16
                  => stack = Frame
BY DEF IInv, TypeOK, CommonTypeOK, Banks, StackShape

-----------------------------------------------------------------------------
(* Each action takes the routine from one part of the command to the next. *)
LEMMA ReadTokenStep ==
    ASSUME IInv, WellFormed(call), NEW i \in 1 .. Len(Script),
           AtToken(i), ReadToken
    PROVE  AtLitLen(i)'
<1> DEFINE cur == TokenAt(i)
           next == LitLenAt(i)
<1>1. /\ CallOK(call) /\ db = call.srcBank
      /\ AtCursor(cur) /\ Ready(call.out[i]) /\ Recent(i)
  BY InvFacts DEF AtToken
<1>2. /\ Spelled(call) /\ cur \in Cursors /\ cur.at \in Nat
      /\ cur.at < Len(call.block)
      /\ call.block[cur.at + 1] = Tok(i)
      /\ next = Format!Cursor(cur.at + 1, cur.half)
  <2>1. Spelled(call) /\ cur \in Cursors
    BY <1>1, Layout
  <2> QED BY <1>1, <2>1, TokenSays, CursorType
<1>3. ReadByte = Tok(i)
  BY <1>1, <1>2, LoadByte DEF AtCursor
<1>4. /\ call' = call
      /\ UNCHANGED <<y, wram, wmadd, match, nibble, nibrdy>>
      /\ x' = Wrap(x + 1) /\ pc' = "DecodeLitLen" /\ token' = Tok(i)
  BY <1>3 DEF ReadToken, fixed, output
<1>5. next' = next /\ Tok(i)' = Tok(i) /\ call.out[i]' = call.out[i]
  BY <1>4, CommandKept
<1>6. AtCursor(next)'
  <2> HIDE DEF cur, next
  <2>1. 1 \in Nat
    BY SMT
  <2> QED BY <1>1, <1>2, <1>4, <1>5, <2>1, CursorOn
<1>7. Ready(call.out[i])' /\ Recent(i)'
  BY <1>1, <1>4, <1>5, ReadyKept, RecentKept
<1> QED BY <1>4, <1>5, <1>6, <1>7 DEF AtLitLen

(* A length that fits its field is followed by nothing. *)
LEMMA NoVarlen ==
    ASSUME CallOK(call), Spelled(call), NEW cur \in Cursors,
           NEW n \in Nat, NEW inToken \in Nat, n < inToken,
           NEW next, Reads(cur, Format!Varlen(n, inToken), next)
    PROVE  next = cur
<1>1. Len(<<>>) = 0 /\ n < inToken + 15
  BY SMT
<1> DEFINE part == Format!Varlen(n, inToken)
<1>2. part.nibble = Format!NoNibble /\ part.bytes = <<>>
  BY <1>1 DEF Format!Varlen, Format!Part, Format!LengthNibble,
     Format!LengthBytes
<1> HIDE DEF part
<1>3. next = Format!Cursor(cur.at + 0, cur.half)
  BY <1>1, <1>2 DEF Reads, Format!PastPart, Format!PastNibble, part
<1> QED BY <1>3, CursorType

(* The length field of the literals. *)
LEMMA DecodeLitLenStep ==
    ASSUME IInv, WellFormed(call), NEW i \in 1 .. Len(Script),
           AtLitLen(i), DecodeLitLen
    PROVE  AtOffset(i)' \/ AtFew(i)' \/ AtLiteral(i)' \/ LitInNibble(i)'
<1>1. /\ CallOK(call) /\ token = Tok(i) /\ stack = Frame
      /\ AtCursor(LitLenAt(i)) /\ Ready(call.out[i]) /\ Recent(i)
  BY InvFacts DEF AtLitLen, Steady8
<1>2. LitField = Field(Lit(i), 3)
  BY <1>1, TokenSays DEF LitField
<1>3. /\ Spelled(call) /\ Lit(i) \in Nat
      /\ LitLenAt(i) \in Cursors /\ LitAt(i) \in Cursors
      /\ OffAt(i) = Format!Cursor(LitAt(i).at + Lit(i), LitAt(i).half)
      /\ From(i) = call.out[i] + Lit(i) /\ call.out[i] \in Nat
  BY <1>1, Layout
<1>4. Lit(i) < 3 => LitAt(i) = LitLenAt(i)
  <2>1. Reads(LitLenAt(i), Format!Varlen(Lit(i), 3), LitAt(i))
    BY <1>1, CommandParsed DEF Parsed
  <2>2. 3 \in Nat
    BY SMT
  <2> QED BY <1>1, <1>3, <2>1, <2>2, NoVarlen
<1>5. call' = call /\ UNCHANGED <<x, wram, wmadd, match, token, nibble, nibrdy>>
  BY DEF DecodeLitLen, fixed, output, state
<1>6. /\ LitAt(i)' = LitAt(i) /\ OffAt(i)' = OffAt(i)
      /\ LitLenAt(i)' = LitLenAt(i) /\ Tok(i)' = Tok(i)
      /\ From(i)' = From(i) /\ Lit(i)' = Lit(i) /\ call.out[i]' = call.out[i]
      /\ \A n : After(n)' = After(n)
      /\ \A w, next : LengthFrame(w, next)' = LengthFrame(w, next)
  BY <1>5, CommandKept
<1>7. Recent(i)' /\ AtCursor(LitLenAt(i))'
  BY <1>1, <1>5, <1>6, RecentKept, CursorKept
<1>8. CASE NoLiteral
  <2>1. Lit(i) = 0 /\ Lit(i) < 3
    BY SMT, <1>2, <1>3, <1>8 DEF Field, NoLiteral
  <2>2. OffAt(i) = LitLenAt(i)
    BY <1>1, <1>3, <1>4, <2>1, CursorType
  <2>3. From(i) = call.out[i]
    BY SMT, <1>3, <2>1
  <2>4. pc' = "DecodeMatchOffset" /\ y' = y
    BY <1>8 DEF NoLiteral
  <2>5. Ready(From(i))'
    BY <1>1, <1>5, <1>6, <2>3, <2>4, ReadyKept
  <2>6. AtCursor(OffAt(i))'
    BY <1>6, <1>7, <2>2
  <2> QED BY <1>1, <1>5, <1>6, <1>7, <2>4, <2>5, <2>6 DEF AtOffset
<1>9. CASE FewLiterals
  <2>1. Lit(i) \in {1, 2} /\ Lit(i) < 3 /\ Lit(i) = LitField /\ Lit(i) > 0
    BY SMT, <1>2, <1>3, <1>9 DEF LITERALS_RUN_LEN, Field, FewLiterals
  <2>2. AtCursor(LitAt(i))'
    BY <1>4, <1>6, <1>7, <2>1
  <2>3. Ready(call.out[i])'
    BY <1>1, <1>5, <1>6, <1>9, ReadyKept DEF FewLiterals
  <2>4. CASE INLINE = 2
    <3>1. pc' = "LitLen"
      BY <1>9, <2>4 DEF FewLiterals
    <3> QED
      BY <1>1, <1>5, <1>6, <1>7, <2>1, <2>2, <2>3, <2>4, <3>1 DEF AtFew
  <2>5. CASE INLINE # 2
    <3>1. pc' = "CopyLiteral" /\ a' = Lit(i) /\ c' = 0
      BY <1>9, <2>1, <2>5 DEF FewLiterals
    <3> QED
      BY <1>1, <1>5, <1>6, <1>7, <2>1, <2>2, <2>3, <3>1 DEF AtLiteral
  <2> QED BY <2>4, <2>5
<1>10. CASE ExtLitLen
  <2>1. Lit(i) >= 3
    BY SMT, <1>2, <1>3, <1>10 DEF LITERALS_RUN_LEN, Field, ExtLitLen
  <2>2. y = After(call.out[i]) /\ Holding(call.out[i])
    BY <1>1 DEF Ready
  <2>3. /\ stack' = LengthFrame(After(call.out[i]), "LitLenRead")
        /\ y' = 0 /\ pc' = "GetExtLen"
    BY <1>1, <1>10, <2>2 DEF ExtLitLen, CallGetExtLen, LengthFrame, ReadFrame
  <2>4. Holding(call.out[i])'
    BY <1>5, <1>6, <2>2, HoldingKept
  <2>5. Reading(0, "LitLenRead", call.out[i])'
    BY <1>6, <2>3, <2>4 DEF Reading
  <2> QED BY <1>1, <1>5, <1>6, <1>7, <2>1, <2>3, <2>5 DEF LitInNibble, ReadingLit
<1> QED BY <1>8, <1>9, <1>10 DEF DecodeLitLen

(* The port is at the end of the text, written to it or kept there.  *)
PortUsed == IF INLINE = 2 THEN wmadd ELSE PortAtY

LEMMA PortUsedIs ==
    ASSUME CallOK(call), Spelled(call), wmadd \in WramAddress,
           NEW n \in Nat, n < Size, Ready(n)
    PROVE  PortUsed = PortAtY /\ PortAtY = Start + n
<1>1. n \in 0 .. Size
  <2>1. Size \in Nat
    BY SizeType
  <2> QED BY SMT, <2>1
<1>2. Made(n) /\ PortInBank(n) /\ y = After(n) /\ PortThere(n)
  BY DEF Ready, Holding, Made
<1>3. PortAtY = Start + n
  BY <1>1, <1>2, PortAtAfter
<1>4. INLINE = 2 => wmadd = Start + n
  BY <1>2 DEF PortThere
<1> QED BY <1>3, <1>4 DEF PortUsed

(* A run of literals, by DMA or one by one. *)
LEMMA LiteralsMade ==
    ASSUME CallOK(call), WellFormed(call), NEW i \in 1 .. Len(Script),
           wmadd \in WramAddress, inBank = call.srcBank,
           Lit(i) > 0, Ready(call.out[i]), AtCursor(LitAt(i)),
           CopyRun(Lit(i), PortUsed), UNCHANGED <<call, nibble, nibrdy>>
    PROVE  /\ Holding(From(i))' /\ AtCursor(OffAt(i))'
           /\ Adc(y, Lit(i), 0) = After(From(i))
<1> DEFINE n == call.out[i]
           lit == Lit(i)
           cur == LitAt(i)
           next == OffAt(i)
           p == cur.at
<1>1. /\ Spelled(call) /\ n \in Nat /\ lit \in Nat /\ n + lit = From(i)
      /\ From(i) <= Size /\ Size \in Nat
      /\ cur \in Cursors /\ next = Format!Cursor(p + lit, cur.half)
      /\ p + lit <= Len(call.block)
      /\ \A j \in 1 .. lit : call.block[p + j] = call.plain[n + j]
  BY Layout
<1>2. p \in Nat
  BY <1>1, CursorType
<1>3. n' = n /\ lit' = lit /\ cur' = cur /\ next' = next /\ From(i)' = From(i)
  BY CommandKept
<1>4. Ready(n) /\ lit > 0 /\ CopyRun(lit, PortUsed) /\ AtCursor(cur)
  OBVIOUS
<1> DEFINE from == From(i)
<1>5. from' = from /\ n + lit = from /\ from <= Size
  BY <1>1, <1>3
<1> SUFFICES /\ Holding(from)' /\ AtCursor(next)'
             /\ Adc(y, lit, 0) = After(from)
  OBVIOUS
<1> HIDE DEF n, lit, cur, next, p, from
<1>6. n < Size /\ n + lit <= Size /\ n \in Nat /\ lit \in Nat
  BY SMT, <1>1, <1>4, <1>5
<1>7. PortUsed = PortAtY /\ PortAtY = Start + n
  BY <1>1, <1>4, <1>6, PortUsedIs
<1>8. Made(n) /\ y = After(n) /\ x = Position(p)
  BY <1>4 DEF Ready, Holding, AtCursor, p
<1>9. CopyRun(lit, PortAtY)
  BY <1>4, <1>7
<1>10. /\ Made(n + lit)' /\ x' = Position(p + lit)
       /\ Adc(y, lit, 0) = After(n + lit)
  BY <1>1, <1>2, <1>3, <1>4, <1>6, <1>8, <1>9, LiteralRun
<1>11. wmadd' = PortOn(Start + n, lit) /\ x' = Wrap(x + lit)
  <2>1. lit # 0
    BY SMT, <1>4, <1>6
  <2> QED BY <1>7, <1>9, <2>1 DEF CopyRun, DmaCount
<1>12. PortThere(from)'
  <2>1. /\ Start \in Nat /\ Start + Size <= 131072
    BY <1>1, StartType
  <2>2. from < Size => wmadd' = Start + from
    <3>1. from < Size => /\ Start + n + lit < 131072 /\ Start + n + lit \in Nat
                         /\ Start + n + lit = Start + from
      BY SMT, <1>1, <1>5, <1>6, <2>1
    <3> QED BY SMT, <1>11, <3>1 DEF PortOn
  <2>3. Start' = Start /\ Size' = Size
    BY PlacesKept DEF Start
  <2> QED BY <1>5, <2>2, <2>3 DEF PortThere
<1>13. Holding(from)'
  BY <1>3, <1>5, <1>10, <1>12 DEF Holding
<1>14. AtCursor(next)'
  BY <1>1, <1>3, <1>4, <1>6, <1>11, CursorOn DEF p
<1> QED BY <1>5, <1>10, <1>13, <1>14

(* One by one, to where the port is. *)
LEMMA LitLenStep ==
    ASSUME IInv, WellFormed(call), NEW i \in 1 .. Len(Script),
           AtFew(i), LitLen
    PROVE  AtOffset(i)'
<1>1. /\ CallOK(call) /\ wmadd \in WramAddress /\ db = call.srcBank
      /\ inBank = call.srcBank /\ token = Tok(i) /\ INLINE = 2
      /\ Lit(i) \in {1, 2} /\ AtCursor(LitAt(i))
      /\ Ready(call.out[i]) /\ Recent(i)
  BY InvFacts DEF AtFew
<1>2. LitField = Lit(i)
  <2>1. LitField = Field(Lit(i), 3)
    BY <1>1, TokenSays DEF LitField
  <2> QED BY SMT, <1>1, <2>1 DEF Field
<1>3. Lit(i) > 0 /\ Lit(i) # 0
  BY SMT, <1>1
<1>4. /\ call' = call /\ UNCHANGED <<token, nibble, nibrdy, match>>
      /\ y' = Wrap(y + Lit(i)) /\ pc' = "DecodeMatchOffset"
  BY <1>2 DEF LitLen, AfterFew, fixed, state
<1>5. CopyRun(Lit(i), PortUsed)
  BY <1>1, <1>2, <1>3 DEF LitLen, CopyRun, DmaCount, DmaSource, PortUsed
<1>6. /\ Holding(From(i))' /\ AtCursor(OffAt(i))'
      /\ Adc(y, Lit(i), 0) = After(From(i))
  BY <1>1, <1>3, <1>4, <1>5, LiteralsMade
<1>7. y' = After(From(i))
  <2>1. y \in Word
    BY InvFacts DEF CommonTypeOK
  <2>2. y + Lit(i) + 0 = y + Lit(i)
    BY SMT, <1>1, <2>1 DEF Word
  <2> QED BY <1>4, <1>6, <2>2 DEF Adc
<1>8. /\ From(i)' = From(i) /\ Tok(i)' = Tok(i) /\ OffAt(i)' = OffAt(i)
      /\ \A n : After(n)' = After(n)
  BY <1>4, CommandKept
<1>9. Ready(From(i))' /\ Recent(i)'
  BY <1>1, <1>4, <1>6, <1>7, <1>8, RecentKept DEF Ready
<1> QED BY <1>1, <1>4, <1>6, <1>8, <1>9 DEF AtOffset

(* By DMA. *)
LEMMA CopyLiteralStep ==
    ASSUME IInv, WellFormed(call), NEW i \in 1 .. Len(Script),
           AtLiteral(i), CopyLiteral
    PROVE  AtOffset(i)'
<1>1. /\ CallOK(call) /\ wmadd \in WramAddress /\ inBank = call.srcBank
      /\ token = Tok(i) /\ a = Lit(i) /\ Lit(i) > 0 /\ c = 0
      /\ AtCursor(LitAt(i)) /\ Ready(call.out[i]) /\ Recent(i)
  BY InvFacts DEF AtLiteral
<1>2. /\ call' = call /\ UNCHANGED <<token, nibble, nibrdy, match>>
      /\ y' = Adc(y, Lit(i), 0) /\ pc' = "DecodeMatchOffset"
      /\ CopyRun(Lit(i), PortUsed)
  BY <1>1 DEF CopyLiteral, AfterLiteral, PortUsed, fixed, state
<1>3. /\ Holding(From(i))' /\ AtCursor(OffAt(i))' /\ y' = After(From(i))
  BY <1>1, <1>2, LiteralsMade
<1>4. /\ From(i)' = From(i) /\ Tok(i)' = Tok(i) /\ OffAt(i)' = OffAt(i)
      /\ \A n : After(n)' = After(n)
  BY <1>2, CommandKept
<1>5. Ready(From(i))' /\ Recent(i)'
  BY <1>1, <1>2, <1>3, <1>4, RecentKept DEF Ready
<1> QED BY <1>1, <1>2, <1>3, <1>4, <1>5 DEF AtOffset

(* After a length Y is the end of the text again. *)
LEMMA LitLenReadStep ==
    ASSUME IInv, WellFormed(call), NEW i \in 1 .. Len(Script),
           HavingLit(i), LitLenRead
    PROVE  AtLiteral(i)'
<1>1. /\ CallOK(call) /\ token = Tok(i) /\ a = Lit(i) /\ c = 0 /\ Lit(i) >= 3
      /\ stack = ReadFrame(After(call.out[i])) /\ AtCursor(LitAt(i))
      /\ Holding(call.out[i]) /\ Recent(i)
  BY InvFacts DEF HavingLit
<1>2. /\ Lit(i) \in Nat /\ Spelled(call)
      /\ call.out[i] \in Nat /\ From(i) = call.out[i] + Lit(i)
      /\ From(i) <= Size /\ Size \in Nat
  BY <1>1, Layout
<1>3. call.out[i] \in 0 .. Size /\ Lit(i) > 0
  BY SMT, <1>1, <1>2
<1>4. y' = After(call.out[i])
  <2> DEFINE w == After(call.out[i])
  <2>1. w \in Word /\ stack = ReadFrame(w)
    BY <1>1, <1>2, <1>3, AfterType
  <2> HIDE DEF w
  <2>2. y' = w
    BY <2>1, PlyType DEF LitLenRead
  <2> QED BY <2>2 DEF w
<1>5. /\ call' = call /\ pc' = "CopyLiteral"
      /\ UNCHANGED <<x, a, c, wram, wmadd, match, token, nibble, nibrdy>>
  BY DEF LitLenRead, fixed, output, state
<1>6. /\ LitAt(i)' = LitAt(i) /\ Tok(i)' = Tok(i) /\ Lit(i)' = Lit(i)
      /\ call.out[i]' = call.out[i] /\ \A n : After(n)' = After(n)
  BY <1>5, CommandKept
<1>7. /\ AtCursor(LitAt(i))' /\ Recent(i)' /\ Holding(call.out[i])'
  BY <1>1, <1>5, <1>6, CursorKept, RecentKept, HoldingKept
<1>8. Ready(call.out[i])'
  BY <1>4, <1>6, <1>7 DEF Ready
<1> QED BY <1>1, <1>3, <1>5, <1>6, <1>7, <1>8 DEF AtLiteral

(* The offset of a match, in whichever encoding. *)
LEMMA DecodeMatchOffsetStep ==
    ASSUME IInv, WellFormed(call), NEW i \in 1 .. Len(Script),
           AtOffset(i), DecodeMatchOffset
    PROVE  AtMatchLen(i)' \/ AtOffsetLow(i)'
<1> DEFINE cur == OffAt(i)
           next == MatchLenAt(i)
           past == PastFifteen(cur)
           v == Wrap(-Off(i))
<1>1. /\ CallOK(call) /\ db = call.srcBank /\ a \in Word /\ token = Tok(i)
      /\ AtCursor(cur) /\ Ready(From(i)) /\ Recent(i)
  BY InvFacts DEF AtOffset
<1>2. /\ Spelled(call) /\ cur \in Cursors /\ cur.at \in Nat
  <2>1. Spelled(call) /\ cur \in Cursors
    BY <1>1, Layout
  <2> QED BY <1>1, <2>1, CursorType
<1>3. PICK w \in 0 .. 7 : /\ Mode(i) = w * 32
                          /\ BitX = w \div 4 /\ BitY = (w \div 2) % 2
                          /\ BitZ = w % 2
  BY <1>1, TokenSays DEF BitX, BitY, BitZ
<1>4. OffsetSaid(i, w)
  BY <1>1, <1>3, OffsetSays
<1>5. call' = call /\ UNCHANGED <<y, wram, wmadd, match, token>>
  BY DEF DecodeMatchOffset, fixed, output
<1>6. /\ next' = next /\ cur' = cur /\ past' = past /\ v' = v
      /\ From(i)' = From(i) /\ Tok(i)' = Tok(i) /\ Mode(i)' = Mode(i)
      /\ Script' = Script
  BY <1>5, CommandKept
<1>7. Ready(From(i))'
  BY <1>1, <1>5, <1>6, ReadyKept
<1>8. ASSUME pc' = "DecodeMatchLen", AtCursor(next)',
             i # Len(Script) => a' = v
      PROVE  AtMatchLen(i)'
  BY <1>1, <1>5, <1>6, <1>7, <1>8 DEF AtMatchLen, Negated
<1>9. BitZ \in {0, 1}
  BY SMT, <1>3
<1>n. ASSUME NEW n \in 0 .. 15, Format!SaysNibble(call.block, cur, n)
      PROVE  /\ NextNibble = n
             /\ NibbleAndZ = 224 + n * 2 + (1 - (w % 2))
             /\ TakeNibble => AtCursor(past)'
  <2>1. NextNibble = n /\ (TakeNibble => AtCursor(past)')
    <3> HIDE DEF cur
    <3> QED BY <1>1, <1>2, <1>5, <1>6, <1>n, NibbleStep
  <2> QED BY <1>3, <2>1 DEF NibbleAndZ
<1>10. CASE Offset00Z
  <2>1. w \in {0, 1}
    BY SMT, <1>3, <1>10 DEF Offset00Z
  <2>2. /\ next = past
        /\ \E n \in 0 .. 15 :
              /\ Format!SaysNibble(call.block, cur, n)
              /\ MakeWord(224 + n * 2 + (1 - (w % 2)), 255) = v
    BY <1>4, <2>1 DEF OffsetSaid
  <2>3. TakeNibble /\ a' = MakeWord(NibbleAndZ, 255) /\ pc' = "DecodeMatchLen"
    BY <1>10 DEF Offset00Z
  <2> HIDE DEF cur, next, past, v
  <2>4. AtCursor(next)' /\ a' = v
    BY <1>6, <1>n, <2>2, <2>3
  <2> QED BY <1>8, <2>3, <2>4
<1>11. CASE Offset01Z
  <2>1. w \in {2, 3}
    BY SMT, <1>3, <1>11 DEF Offset01Z
  <2>2. /\ next = Format!Cursor(cur.at + 1, cur.half)
        /\ cur.at < Len(call.block)
        /\ MakeWord(call.block[cur.at + 1], 255 - (w % 2)) = v
    BY <1>4, <2>1 DEF OffsetSaid
  <2>3. /\ a' = MakeWord(ReadByte, 255 - BitZ) /\ x' = Wrap(x + 1)
        /\ pc' = "DecodeMatchLen" /\ UNCHANGED <<nibble, nibrdy>>
    BY <1>11 DEF Offset01Z
  <2> HIDE DEF cur, next, past, v
  <2>4. ReadByte = call.block[cur.at + 1]
    BY <1>1, <1>2, <2>2, LoadByte DEF AtCursor
  <2>5. 1 \in Nat
    BY SMT
  <2>6. AtCursor(next)'
    BY <1>1, <1>2, <1>5, <1>6, <2>2, <2>3, <2>5, CursorOn
  <2> QED BY <1>3, <1>8, <2>2, <2>3, <2>4, <2>6
<1>12. CASE Offset10Z
  <2>1. w \in {4, 5} /\ i # Len(Script) /\ Mode(i) \in {128, 160}
    <3>1. w \in {4, 5} /\ w # 7
      BY SMT, <1>3, <1>12 DEF Offset10Z
    <3>2. w * 32 \in {128, 160}
      BY SMT, <3>1
    <3> QED BY <1>3, <1>4, <3>1, <3>2 DEF OffsetSaid
  <2>2. \E n \in 0 .. 15 : /\ Format!SaysNibble(call.block, cur, n)
                           /\ Hi(v) = 224 + n * 2 + (1 - (w % 2)) - 2
    BY <1>4, <2>1 DEF OffsetSaid
  <2>3. /\ TakeNibble /\ a' = MakeWord(Lo(a), NibbleAndZ - 2)
        /\ pc' = "OffsetLow"
    BY <1>12 DEF Offset10Z
  <2> HIDE DEF cur, next, past, v
  <2>4. PICK n \in 0 .. 15 : /\ Format!SaysNibble(call.block, cur, n)
                             /\ Hi(v) = 224 + n * 2 + (1 - (w % 2)) - 2
    BY <2>2
  <2>5. NibbleAndZ = 224 + n * 2 + (1 - (w % 2)) /\ AtCursor(past)'
    BY <1>6, <1>n, <2>3, <2>4
  <2>6. NibbleAndZ - 2 \in Byte /\ NibbleAndZ - 2 = Hi(v)
    <3>1. w % 2 \in {0, 1}
      BY <1>3, <1>9
    <3>2. NibbleAndZ - 2 \in Byte
      BY SMT, <2>5, <3>1 DEF Byte
    <3> QED BY <2>4, <2>5, <3>2
  <2>7. Hi(a') = Hi(v)
    BY <1>1, <2>3, <2>6, HalfType, MakeWordType
  <2> QED BY <1>1, <1>5, <1>6, <1>7, <2>1, <2>3, <2>5, <2>7
          DEF AtOffsetLow, v, cur, past
<1>13. CASE Offset110
  <2>1. w = 6
    BY SMT, <1>3, <1>13 DEF Offset110
  <2>2. /\ next = Format!Cursor(cur.at + 2, cur.half)
        /\ cur.at + 1 < Len(call.block)
        /\ call.block[cur.at + 1] \in Byte /\ call.block[cur.at + 2] \in Byte
        /\ MakeWord(call.block[cur.at + 2], call.block[cur.at + 1]) = v
    BY <1>4, <2>1 DEF OffsetSaid
  <2>3. /\ a' = MakeWord(Hi(ReadWord), Lo(ReadWord)) /\ x' = Wrap(x + 2)
        /\ pc' = "DecodeMatchLen" /\ UNCHANGED <<nibble, nibrdy>>
    BY <1>13 DEF Offset110
  <2> HIDE DEF cur, next, past, v
  <2>4. ReadWord = MakeWord(call.block[cur.at + 1], call.block[cur.at + 2])
    BY <1>1, <1>2, <2>2, LoadWord DEF AtCursor
  <2>5. 2 \in Nat
    BY SMT
  <2>6. AtCursor(next)'
    BY <1>1, <1>2, <1>5, <1>6, <2>2, <2>3, <2>5, CursorOn
  <2>7. a' = v
    BY <2>2, <2>3, <2>4, MakeWordType
  <2> QED BY <1>8, <2>3, <2>6, <2>7
<1>14. CASE Offset111
  <2>1. w = 7
    BY SMT, <1>3, <1>14 DEF Offset111
  <2>2. next = cur /\ (i # Len(Script) => i # 1 /\ Off(i) = Rep(i))
    BY <1>4, <2>1 DEF OffsetSaid
  <2>3. a' = match /\ pc' = "DecodeMatchLen" /\ UNCHANGED <<x, nibble, nibrdy>>
    BY <1>14 DEF Offset111
  <2>4. i # Len(Script) => a' = v
    BY <1>1, <2>2, <2>3 DEF Recent
  <2> HIDE DEF cur, next, past, v
  <2>5. AtCursor(next)'
    BY <1>1, <1>5, <1>6, <2>2, <2>3, CursorKept
  <2> QED BY <1>8, <2>3, <2>4, <2>5
<1> QED BY <1>10, <1>11, <1>12, <1>13, <1>14 DEF DecodeMatchOffset

LEMMA OffsetLowStep ==
    ASSUME IInv, WellFormed(call), NEW i \in 1 .. Len(Script),
           AtOffsetLow(i), OffsetLow
    PROVE  AtMatchLen(i)'
<1> DEFINE cur == OffAt(i)
           next == MatchLenAt(i)
           past == PastFifteen(cur)
           v == Wrap(-Off(i))
<1>1. /\ CallOK(call) /\ db = call.srcBank /\ token = Tok(i)
      /\ AtCursor(past) /\ Ready(From(i)) /\ Hi(a) = Hi(v)
      /\ Mode(i) \in {128, 160}
  BY InvFacts DEF AtOffsetLow
<1>2. /\ Spelled(call) /\ Off(i) \in Nat
  BY <1>1, Layout
<1>3. /\ next = PastByte(cur) /\ past \in Cursors /\ past.at < Len(call.block)
      /\ call.block[past.at + 1] = Lo(v)
  <2>1. PICK w \in {4, 5} : Mode(i) = w * 32
    <3>1. 4 * 32 = 128 /\ 5 * 32 = 160
      BY SMT
    <3> QED BY <1>1, <3>1
  <2>2. w \in 0 .. 7
    BY SMT
  <2>3. OffsetSaid(i, w)
    BY <1>1, <2>1, <2>2, OffsetSays
  <2> QED BY <2>3 DEF OffsetSaid
<1>4. /\ call' = call /\ x' = Wrap(x + 1) /\ pc' = "DecodeMatchLen"
      /\ UNCHANGED <<y, wram, wmadd, token, nibble, nibrdy>>
      /\ a' = MakeWord(ReadByte, Hi(a))
  BY DEF OffsetLow, fixed, output, state, SetLo
<1>5. /\ next' = next /\ v' = v /\ From(i)' = From(i) /\ Tok(i)' = Tok(i)
      /\ Script' = Script
  BY <1>4, CommandKept
<1>6. Ready(From(i))'
  BY <1>1, <1>4, <1>5, ReadyKept
<1>7. ReadByte = Lo(v)
  <2> HIDE DEF past, v
  <2>1. past.at \in Nat
    BY <1>1, <1>2, <1>3, CursorType
  <2> QED BY <1>1, <1>2, <1>3, <2>1, LoadByte DEF AtCursor
<1>8. a' = v
  <2>1. v \in Word
    <3>1. -Off(i) \in Int
      BY SMT, <1>2
    <3> QED BY <3>1, WrapType
  <2> HIDE DEF v
  <2>2. MakeWord(Lo(v), Hi(v)) = v
    BY SMT, <2>1 DEF MakeWord, Lo, Hi, Word
  <2> QED BY <1>1, <1>4, <1>7, <2>2
<1>9. AtCursor(next)'
  <2>1. next = Format!Cursor(past.at + 1, past.half)
    BY <1>3 DEF PastByte
  <2>2. 1 \in Nat
    BY SMT
  <2> HIDE DEF past, next
  <2> QED BY <1>1, <1>2, <1>3, <1>4, <1>5, <2>1, <2>2, CursorOn
<1> QED BY <1>1, <1>4, <1>5, <1>6, <1>8, <1>9 DEF AtMatchLen, Negated

-----------------------------------------------------------------------------
(* A length is read: the entries of the tables, which are in reach, and    *)
(* what is on the stack meanwhile.                                         *)
Held(kind) == IF kind = 0 THEN 3 ELSE 9

LEMMA TablesAre ==
    ASSUME WellFormed(call), db = call.srcBank, NEW kind \in {0, 1}, y = kind
    PROVE  /\ NibbleLenAdd = Held(kind) /\ ByteLenAdd + 1 = Held(kind) + 15
           /\ Held(kind) \in {3, 9}
<1>1. db \in CodeBanks
  BY DEF WellFormed
<1>2. /\ <<3, 9>>[0 + 1] = 3 /\ <<3, 9>>[1 + 1] = 9
      /\ <<17, 23>>[0 + 1] = 17 /\ <<17, 23>>[1 + 1] = 23
      /\ 17 + 1 = 3 + 15 /\ 23 + 1 = 9 + 15 /\ 1 # 0
  BY SMT
<1>3. NibbleLenAdd = <<3, 9>>[y + 1] /\ ByteLenAdd = <<17, 23>>[y + 1]
  BY <1>1 DEF NibbleLenAdd, ByteLenAdd, Table
<1>4. CASE kind = 0
  BY <1>2, <1>3, <1>4 DEF Held
<1>5. CASE kind = 1
  BY <1>2, <1>3, <1>5 DEF Held
<1> QED BY <1>4, <1>5

LEMMA LengthFrameIs ==
    ASSUME NEW w \in Word, NEW next, stack = LengthFrame(w, next)
    PROVE  /\ ReturnTo(stack) = next /\ Pop(stack) = ReadFrame(w)
           /\ ItemValue(Top(Pop(stack))) = w
<1>1. Top(stack) = Item("addr", next) /\ Pop(stack) = ReadFrame(w)
  BY PushPop DEF LengthFrame
<1>2. Top(Pop(stack)) = Item("word", w)
  BY <1>1, PushPop DEF ReadFrame
<1> QED BY <1>1, <1>2 DEF Item, ItemValue, ReturnTo

(* From its nibble: a length below the byte's is returned, 15 goes on.  *)
LEMMA GetExtLenStep ==
    ASSUME IInv, WellFormed(call), GetExtLen,
           NEW kind \in {0, 1}, NEW next, NEW k \in 0 .. Size,
           Reading(kind, next, k),
           NEW cur \in Cursors, AtCursor(cur),
           NEW n \in 0 .. 15, Format!SaysNibble(call.block, cur, n)
    PROVE  /\ AtCursor(PastFifteen(cur))'
           /\ UNCHANGED <<call, y, token, match, wram, wmadd>>
           /\ n < 15 => /\ pc' = next /\ a' = n + Held(kind) /\ c' = 0
                        /\ stack' = ReadFrame(After(k))
           /\ n = 15 => pc' = "LenByte" /\ stack' = stack
<1>1. /\ CallOK(call) /\ Spelled(call) /\ db = call.srcBank
      /\ y = kind /\ stack = LengthFrame(After(k), next)
  BY InvFacts DEF GetExtLen, WellFormed, Reading
<1>2. UNCHANGED <<call, y, token, match, wram, wmadd>> /\ TakeNibble
  BY DEF GetExtLen, fixed, output
<1>3. NextNibble = n /\ AtCursor(PastFifteen(cur))'
  BY <1>1, <1>2, NibbleStep
<1>4. NibbleLenAdd = Held(kind) /\ Held(kind) \in {3, 9}
  BY <1>1, TablesAre
<1>5. ASSUME n < 15
      PROVE  /\ pc' = next /\ a' = n + Held(kind) /\ c' = 0
             /\ stack' = ReadFrame(After(k))
  <2> DEFINE sum == n + Held(kind)
  <2>1. Length(Lo(sum), NibbleCarry(sum))
    <3>1. n # 15
      BY SMT, <1>5
    <3> QED BY <1>3, <1>4, <3>1 DEF GetExtLen, LenFollows, LenNibble
  <2>2. Lo(sum) = sum /\ NibbleCarry(sum) = 0
    <3>1. sum \in 0 .. 24
      BY SMT, <1>4
    <3> HIDE DEF sum
    <3> QED BY SMT, <3>1 DEF Lo, NibbleCarry
  <2>3. After(k) \in Word
    BY <1>1, AfterType
  <2>4. ReturnTo(stack) = next /\ Pop(stack) = ReadFrame(After(k))
    <3> DEFINE w == After(k)
    <3>1. w \in Word /\ stack = LengthFrame(w, next)
      BY <1>1, <2>3
    <3> HIDE DEF w
    <3>2. ReturnTo(stack) = next /\ Pop(stack) = ReadFrame(w)
      BY <3>1, LengthFrameIs
    <3> QED BY <3>2 DEF w
  <2> QED BY <2>1, <2>2, <2>4 DEF Length
<1>6. ASSUME n = 15
      PROVE  pc' = "LenByte" /\ stack' = stack
  <2>1. ~(15 < 15)
    BY SMT
  <2> QED BY <1>3, <1>6, <2>1 DEF GetExtLen, LenNibble, LenFollows
<1> QED BY <1>2, <1>3, <1>5, <1>6

(* From its byte: a length of a byte, the end of the data, or a word.  *)
FromByte(n, next, k) ==
    /\ n < 256 => /\ pc' = next /\ a' = n /\ c' = 0
                  /\ stack' = ReadFrame(After(k))
    /\ n = 256 => pc' = "Done" /\ a' = After(k)
    /\ n > 256 => pc' = "LenWord" /\ stack' = stack

LEMMA LenByteStep ==
    ASSUME IInv, WellFormed(call), LenByte,
           NEW kind \in {0, 1}, NEW next, NEW k \in 0 .. Size,
           Reading(kind, next, k),
           NEW cur \in Cursors, AtCursor(cur), cur.at < Len(call.block),
           NEW n \in Nat, n = call.block[cur.at + 1] + Held(kind) + 15
    PROVE  /\ AtCursor(Format!Cursor(cur.at + 1, cur.half))'
           /\ UNCHANGED <<call, y, token, match, wram, wmadd>>
           /\ FromByte(n, next, k)
<1>1. /\ CallOK(call) /\ Spelled(call) /\ db = call.srcBank
      /\ y = kind /\ stack = LengthFrame(After(k), next)
  BY InvFacts DEF LenByte, WellFormed, Reading
<1>2. /\ UNCHANGED <<call, y, token, match, wram, wmadd, nibble, nibrdy>>
      /\ x' = Wrap(x + 1)
  BY DEF LenByte, fixed, output, state
<1>3. AtCursor(Format!Cursor(cur.at + 1, cur.half))'
  <2> DEFINE on == Format!Cursor(cur.at + 1, cur.half)
  <2>1. 1 \in Nat /\ on = Format!Cursor(cur.at + 1, cur.half)
    BY SMT
  <2>2. AtCursor(on)'
    <3> HIDE DEF on
    <3> QED BY <1>1, <1>2, <2>1, CursorOn
  <2> QED BY <2>2
<1>4. ByteSum = n
  <2>1. ReadByte = call.block[cur.at + 1]
    <3>1. cur.at \in Nat
      BY <1>1, CursorType
    <3> QED BY <1>1, <3>1, LoadByte DEF AtCursor
  <2>2. ByteLenAdd + 1 = Held(kind) + 15
    BY <1>1, TablesAre
  <2>3. ByteSum = ReadByte + ByteLenAdd + 1
    BY DEF ByteSum
  <2>4. CommonTypeOK /\ y \in {0, 1}
    BY <1>1, InvFacts
  <2>5. ReadByte \in Byte /\ ByteLenAdd \in Byte /\ Held(kind) \in {3, 9}
    BY <1>1, <2>4, LoadType, TableType, TablesAre
  <2> DEFINE add == ByteLenAdd
             held == Held(kind)
             b == ReadByte
  <2>6. /\ add \in Byte /\ b \in Byte /\ held \in {3, 9}
        /\ add + 1 = held + 15 /\ n = b + held + 15
    BY <2>1, <2>2, <2>5
  <2> HIDE DEF add, held, b
  <2>7. b + add + 1 = n
    BY SMT, <2>6 DEF Byte
  <2> QED BY <2>3, <2>7 DEF add, b
<1>5. After(k) \in Word
  BY <1>1, AfterType
<1>6. /\ ReturnTo(stack) = next /\ Pop(stack) = ReadFrame(After(k))
      /\ ItemValue(Top(Pop(stack))) = After(k)
  <2> DEFINE w == After(k)
  <2>1. w \in Word /\ stack = LengthFrame(w, next)
    BY <1>1, <1>5
  <2> HIDE DEF w
  <2>2. /\ ReturnTo(stack) = next /\ Pop(stack) = ReadFrame(w)
        /\ ItemValue(Top(Pop(stack))) = w
    BY <2>1, LengthFrameIs
  <2> QED BY <2>2 DEF w
<1>7. /\ n < 256 => ~(n = 256) /\ ~(n > 256)
      /\ n = 256 => ~(n < 256) /\ ~(n > 256)
      /\ n > 256 => ~(n < 256) /\ ~(n = 256)
  BY SMT
<1>8. ByteReady \/ EndOfData \/ LongLen
  BY DEF LenByte
<1>9. ASSUME n < 256
      PROVE  pc' = next /\ a' = n /\ c' = 0 /\ stack' = ReadFrame(After(k))
  BY <1>4, <1>6, <1>7, <1>8, <1>9 DEF ByteReady, EndOfData, LongLen, Length
<1>10. ASSUME n = 256 PROVE pc' = "Done" /\ a' = After(k)
  <2>1. EndOfData
    BY <1>4, <1>7, <1>8, <1>10 DEF ByteReady, LongLen
  <2> QED BY <1>6, <2>1 DEF EndOfData
<1>11. ASSUME n > 256 PROVE pc' = "LenWord" /\ stack' = stack
  <2>1. LongLen
    BY <1>4, <1>7, <1>8, <1>11 DEF ByteReady, EndOfData
  <2> QED BY <2>1 DEF LongLen
<1> QED BY <1>2, <1>3, <1>9, <1>10, <1>11 DEF FromByte

(* What a length of the script becomes, from its nibble and from its byte. *)
LEMMA LengthNibbleStep ==
    ASSUME IInv, WellFormed(call), GetExtLen,
           NEW kind \in {0, 1}, NEW next, NEW k \in 0 .. Size,
           Reading(kind, next, k), NEW cur \in Cursors, AtCursor(cur),
           NEW len \in Nat, len >= Held(kind), NEW past \in Cursors,
           Reads(cur, Format!Varlen(len, Held(kind)), past)
    PROVE  /\ UNCHANGED <<call, y, token, match, wram, wmadd>>
           /\ len < Held(kind) + 15
                  => /\ pc' = next /\ a' = len /\ c' = 0
                     /\ stack' = ReadFrame(After(k)) /\ AtCursor(past)'
           /\ len >= Held(kind) + 15
                  => /\ pc' = "LenByte" /\ stack' = stack
                     /\ AtCursor(PastFifteen(cur))'
<1>1. CallOK(call) /\ Spelled(call) /\ Held(kind) \in {3, 9}
  BY InvFacts DEF WellFormed, Held
<1>v. ASSUME NEW held \in {3, 9}, held = Held(kind)
      PROVE  /\ len < held + 15
                   => /\ len - held \in 0 .. 14
                      /\ Format!SaysNibble(call.block, cur, len - held)
                      /\ past = PastFifteen(cur)
             /\ len >= held + 15 => Format!SaysNibble(call.block, cur, 15)
  <2>1. len >= held /\ Reads(cur, Format!Varlen(len, held), past)
    BY <1>v
  <2>2. VarlenSaid(cur, len, held, past)
    BY <1>1, <2>1, VarlenSays
  <2> QED BY <2>2 DEF VarlenSaid
<1>2. /\ len < Held(kind) + 15
             => /\ len - Held(kind) \in 0 .. 14
                /\ Format!SaysNibble(call.block, cur, len - Held(kind))
                /\ past = PastFifteen(cur)
      /\ len >= Held(kind) + 15 => Format!SaysNibble(call.block, cur, 15)
  BY <1>1, <1>v
<1>3. ASSUME NEW n \in 0 .. 15, Format!SaysNibble(call.block, cur, n)
      PROVE  /\ AtCursor(PastFifteen(cur))'
             /\ UNCHANGED <<call, y, token, match, wram, wmadd>>
             /\ n < 15 => /\ pc' = next /\ a' = n + Held(kind) /\ c' = 0
                          /\ stack' = ReadFrame(After(k))
             /\ n = 15 => pc' = "LenByte" /\ stack' = stack
  BY <1>3, GetExtLenStep
<1>4. CASE len < Held(kind) + 15
  <2> DEFINE n == len - Held(kind)
  <2>1. n \in 0 .. 15 /\ n < 15 /\ n + Held(kind) = len
        /\ ~(len >= Held(kind) + 15)
    BY SMT, <1>1, <1>2, <1>4
  <2>2. Format!SaysNibble(call.block, cur, n) /\ past = PastFifteen(cur)
    BY <1>2, <1>4
  <2> HIDE DEF n
  <2> QED BY <1>3, <2>1, <2>2
<1>5. CASE len >= Held(kind) + 15
  <2>1. 15 \in 0 .. 15 /\ ~(len < Held(kind) + 15)
    BY SMT, <1>1, <1>5
  <2> QED BY <1>2, <1>3, <1>5, <2>1
<1>6. len < Held(kind) + 15 \/ len >= Held(kind) + 15
  BY SMT, <1>1
<1> QED BY <1>4, <1>5, <1>6

LEMMA LengthByteStep ==
    ASSUME IInv, WellFormed(call), LenByte,
           NEW kind \in {0, 1}, NEW next, NEW k \in 0 .. Size,
           Reading(kind, next, k), NEW cur \in Cursors,
           AtCursor(PastFifteen(cur)),
           NEW len \in Nat, len >= Held(kind) + 15, NEW past \in Cursors,
           Reads(cur, Format!Varlen(len, Held(kind)), past)
    PROVE  /\ UNCHANGED <<call, y, token, match, wram, wmadd>>
           /\ len < 256
                  => /\ pc' = next /\ a' = len /\ c' = 0
                     /\ stack' = ReadFrame(After(k)) /\ AtCursor(past)'
           /\ len >= 256 => /\ pc' = "LenWord" /\ stack' = stack
                            /\ AtCursor(PastByte(cur))'
<1> DEFINE at == PastFifteen(cur)
           held == Held(kind)
<1>1. CallOK(call) /\ Spelled(call) /\ held \in {3, 9}
  BY InvFacts DEF WellFormed, Held
<1>2. len >= held /\ len >= held + 15
  BY SMT, <1>1
<1>3. /\ at \in Cursors
      /\ len < 256 => /\ Holds(at.at, <<len - held - 15>>)
                      /\ past = PastByte(cur)
      /\ len >= 256 => Holds(at.at, <<257 - (held + 15), len % 256, len \div 256>>)
  <2>1. Reads(cur, Format!Varlen(len, held), past)
    OBVIOUS
  <2> HIDE DEF held
  <2>2. VarlenSaid(cur, len, held, past)
    BY <1>1, <1>2, <2>1, VarlenSays
  <2> QED BY <1>2, <2>2 DEF VarlenSaid, at
<1>4. PastByte(cur) = Format!Cursor(at.at + 1, at.half)
  BY DEF PastByte
<1>5. at.at \in Nat /\ Len(call.block) \in Nat
  BY <1>1, <1>3, CursorType, SpelledType
<1>6. ASSUME NEW n \in Nat, at.at < Len(call.block),
             n = call.block[at.at + 1] + held + 15
      PROVE  /\ AtCursor(PastByte(cur))'
             /\ UNCHANGED <<call, y, token, match, wram, wmadd>>
             /\ FromByte(n, next, k)
  <2>1. n = call.block[at.at + 1] + Held(kind) + 15 /\ AtCursor(at)
    BY <1>6
  <2>2. at' = at /\ PastByte(cur)' = PastByte(cur)
    <3>1. call' = call
      BY DEF LenByte, fixed
    <3> QED BY <3>1, CommandKept
  <2> HIDE DEF at, held
  <2> QED BY <1>3, <1>4, <1>6, <2>1, <2>2, LenByteStep
<1>7. CASE len < 256
  <2>1. call.block[at.at + 1] = len - held - 15 /\ at.at + 1 <= Len(call.block)
    BY <1>3, <1>7, HoldsOne
  <2> HIDE DEF at, held
  <2>2. /\ len = (len - held - 15) + held + 15 /\ at.at < Len(call.block)
        /\ ~(len >= 256)
    BY SMT, <1>1, <1>5, <1>7, <2>1
  <2>3. /\ AtCursor(PastByte(cur))'
        /\ UNCHANGED <<call, y, token, match, wram, wmadd>>
        /\ pc' = next /\ a' = len /\ c' = 0 /\ stack' = ReadFrame(After(k))
    BY <1>6, <1>7, <2>1, <2>2 DEF FromByte
  <2> QED BY <1>3, <1>7, <2>2, <2>3
<1>8. CASE len >= 256
  <2> HIDE DEF at, held
  <2>1. /\ call.block[at.at + 1] = 257 - (held + 15)
        /\ at.at + 3 <= Len(call.block)
    <3>1. \A t, u, v : Len(<<t, u, v>>) = 3 /\ <<t, u, v>>[1] = t
                       /\ 1 \in 1 .. 3
      BY SMT
    <3> QED BY <1>3, <1>8, <3>1 DEF Holds, Text!HasAt
  <2>2. /\ 257 = (257 - (held + 15)) + held + 15 /\ at.at < Len(call.block)
        /\ 257 \in Nat /\ 257 > 256 /\ ~(len < 256)
    BY SMT, <1>1, <1>5, <1>8, <2>1
  <2>3. /\ AtCursor(PastByte(cur))'
        /\ UNCHANGED <<call, y, token, match, wram, wmadd>>
        /\ pc' = "LenWord" /\ stack' = stack
    BY <1>6, <2>1, <2>2 DEF FromByte
  <2> QED BY <2>2, <2>3
<1> QED BY SMT, <1>7, <1>8

-----------------------------------------------------------------------------
(* The length of a run of literals, from its nibble and from its byte. *)
LEMMA LitNibbleStep ==
    ASSUME IInv, WellFormed(call), NEW i \in 1 .. Len(Script),
           LitInNibble(i), GetExtLen
    PROVE  HavingLit(i)' \/ LitInByte(i)'
<1> DEFINE n == Lit(i)
           cur == LitLenAt(i)
           next == LitAt(i)
           k == call.out[i]
<1>1. /\ CallOK(call) /\ token = Tok(i) /\ Recent(i) /\ n >= 3
      /\ Reading(0, "LitLenRead", k) /\ AtCursor(cur) /\ Holding(k)
  BY InvFacts DEF LitInNibble, ReadingLit, Reading
<1>2. /\ n \in Nat /\ cur \in Cursors /\ next \in Cursors
      /\ k \in Nat /\ From(i) = k + n /\ From(i) <= Size /\ Size \in Nat
  BY <1>1, Layout
<1>3. k \in 0 .. Size
  BY SMT, <1>2
<1>4. Reads(cur, Format!Varlen(n, 3), next)
  BY <1>1, CommandParsed DEF Parsed
<1>5. Held(0) = 3 /\ 0 \in {0, 1} /\ 3 + 15 = 18
  BY SMT DEF Held
<1>6. call' = call
  BY DEF GetExtLen, fixed
<1>7. /\ n' = n /\ cur' = cur /\ next' = next /\ k' = k /\ Tok(i)' = Tok(i)
      /\ \A w : ReadFrame(w)' = ReadFrame(w) /\ \A l : After(l)' = After(l)
      /\ \A w, to : LengthFrame(w, to)' = LengthFrame(w, to)
      /\ PastFifteen(cur)' = PastFifteen(cur)
  BY <1>6, CommandKept
<1>8. /\ UNCHANGED <<call, y, token, match, wram, wmadd>>
      /\ n < 18 => /\ pc' = "LitLenRead" /\ a' = n /\ c' = 0
                   /\ stack' = ReadFrame(After(k)) /\ AtCursor(next)'
      /\ n >= 18 => /\ pc' = "LenByte" /\ stack' = stack
                    /\ AtCursor(PastFifteen(cur))'
  <2> HIDE DEF n, cur, next, k
  <2> QED BY <1>1, <1>2, <1>3, <1>4, <1>5, <1>7, LengthNibbleStep
<1>9. Recent(i)' /\ Holding(k)'
  BY <1>1, <1>7, <1>8, RecentKept, HoldingKept
<1>10. CASE n < 18
  BY <1>1, <1>7, <1>8, <1>9, <1>10 DEF HavingLit
<1>11. CASE n >= 18
  <2>1. Reading(0, "LitLenRead", k)'
    BY <1>1, <1>7, <1>8, <1>9, <1>11 DEF Reading
  <2> QED
    BY <1>1, <1>7, <1>8, <1>9, <1>11, <2>1 DEF LitInByte, ReadingLit
<1>12. n < 18 \/ n >= 18
  <2> HIDE DEF n
  <2> QED BY SMT, <1>2
<1> QED BY <1>10, <1>11, <1>12

LEMMA LitByteStep ==
    ASSUME IInv, WellFormed(call), NEW i \in 1 .. Len(Script),
           LitInByte(i), LenByte
    PROVE  HavingLit(i)'
<1> DEFINE n == Lit(i)
           cur == LitLenAt(i)
           next == LitAt(i)
           k == call.out[i]
<1>1. /\ CallOK(call) /\ token = Tok(i) /\ Recent(i) /\ n >= 18
      /\ Reading(0, "LitLenRead", k) /\ AtCursor(PastFifteen(cur)) /\ Holding(k)
  BY InvFacts DEF LitInByte, ReadingLit, Reading
<1>2. /\ n \in Nat /\ n < 256 /\ cur \in Cursors /\ next \in Cursors
      /\ k \in Nat /\ From(i) = k + n /\ From(i) <= Size /\ Size \in Nat
  BY <1>1, Layout
<1>3. k \in 0 .. Size
  BY SMT, <1>2
<1>4. Reads(cur, Format!Varlen(n, 3), next)
  BY <1>1, CommandParsed DEF Parsed
<1>5. Held(0) = 3 /\ 0 \in {0, 1} /\ 3 + 15 = 18
  BY SMT DEF Held
<1>6. call' = call
  BY DEF LenByte, fixed
<1>7. /\ n' = n /\ cur' = cur /\ next' = next /\ k' = k /\ Tok(i)' = Tok(i)
      /\ \A w : ReadFrame(w)' = ReadFrame(w) /\ \A l : After(l)' = After(l)
  BY <1>6, CommandKept
<1>8. /\ UNCHANGED <<call, y, token, match, wram, wmadd>>
      /\ pc' = "LitLenRead" /\ a' = n /\ c' = 0
      /\ stack' = ReadFrame(After(k)) /\ AtCursor(next)'
  <2> HIDE DEF n, cur, next, k
  <2> QED BY <1>1, <1>2, <1>3, <1>4, <1>5, <1>7, LengthByteStep
<1>9. Recent(i)' /\ Holding(k)'
  BY <1>1, <1>7, <1>8, RecentKept, HoldingKept
<1>10. n >= 3
  <2> HIDE DEF n
  <2> QED BY SMT, <1>1, <1>2
<1> QED BY <1>1, <1>7, <1>8, <1>9, <1>10 DEF HavingLit

-----------------------------------------------------------------------------
(* The length of a match: the last command has the end of data instead. *)
LEMMA DecodeMatchLenStep ==
    ASSUME IInv, WellFormed(call), NEW i \in 1 .. Len(Script),
           AtMatchLen(i), DecodeMatchLen
    PROVE  AtMatch(i)' \/ MatchInNibble(i)'
<1> DEFINE len == Script[i].len
           last == i = Len(Script)
           cur == MatchLenAt(i)
           next == NextAt(i)
           k == From(i)
<1>1. /\ CallOK(call) /\ token = Tok(i) /\ stack = Frame
      /\ AtCursor(cur) /\ Negated(i, a) /\ Ready(k)
  BY InvFacts DEF AtMatchLen
<1>2. LenField = MatchField(i)
  BY <1>1, TokenSays DEF LenField
<1>3. /\ Spelled(call) /\ len \in Nat /\ cur \in Cursors /\ next \in Cursors
      /\ ~last => len >= 2
      /\ last => len = 0
  BY <1>1, Layout
<1>4. LenField = IF len = 0 THEN 7 ELSE IF len - 2 >= 7 THEN 7 ELSE len - 2
  BY <1>2 DEF MatchField, Field
<1>5. UNCHANGED <<call, x, wram, wmadd, token, nibble, nibrdy>> /\ match' = a
  BY DEF DecodeMatchLen, fixed, output, state
<1>6. /\ len' = len /\ last' = last /\ cur' = cur /\ next' = next /\ k' = k
      /\ Tok(i)' = Tok(i) /\ Wrap(-Off(i))' = Wrap(-Off(i))
      /\ \A l : After(l)' = After(l)
      /\ \A w, to : LengthFrame(w, to)' = LengthFrame(w, to)
  BY <1>5, CommandKept
<1>7. AtCursor(cur)' /\ Negated(i, match)'
  BY <1>1, <1>5, <1>6, CursorKept DEF Negated
<1>8. CASE TokenMatchLen
  <2>1. ~last /\ len < 9 /\ LenField + 1 + 1 = len
    <3> HIDE DEF len, last
    <3> QED BY SMT, <1>3, <1>4, <1>8 DEF TokenMatchLen, MATCH_RUN_LEN
  <2>2. next = cur
    <3>1. Reads(cur, Format!Varlen(len, 9), next)
      <4>1. ~(len = 0)
        <5> HIDE DEF len, last
        <5> QED BY SMT, <1>3, <2>1
      <4> QED BY <1>1, <4>1, CommandParsed DEF Parsed, MatchPart
    <3>2. 9 \in Nat
      BY SMT
    <3> HIDE DEF len, cur, next
    <3> QED BY <1>1, <1>3, <2>1, <3>1, <3>2, NoVarlen
  <2>3. pc' = "CopyMatch" /\ a' = LenField + 1 /\ y' = y
    BY <1>8 DEF TokenMatchLen
  <2>4. Ready(k)'
    BY <1>1, <1>5, <1>6, <2>3, ReadyKept
  <2>5. AtCursor(next)' /\ a' + 1 = len'
    BY <1>6, <1>7, <2>1, <2>2, <2>3
  <2> QED BY <1>6, <1>7, <2>1, <2>3, <2>4, <2>5 DEF AtMatch
<1>9. CASE ExtMatchLen
  <2>1. ~last => len >= 9
    <3> HIDE DEF len, last
    <3> QED BY SMT, <1>3, <1>4, <1>9 DEF ExtMatchLen, MATCH_RUN_LEN
  <2>2. y = After(k) /\ Holding(k)
    BY <1>1 DEF Ready
  <2>3. /\ stack' = LengthFrame(After(k), "MatchLenRead")
        /\ y' = 1 /\ pc' = "GetExtLen"
    BY <1>1, <1>9, <2>2 DEF ExtMatchLen, CallGetExtLen, LengthFrame, ReadFrame
  <2>4. Holding(k)'
    BY <1>5, <1>6, <2>2, HoldingKept
  <2>5. Reading(1, "MatchLenRead", k)'
    BY <1>6, <2>3, <2>4 DEF Reading
  <2> QED BY <1>6, <1>7, <2>1, <2>3, <2>5 DEF MatchInNibble, ReadingMatch
<1> QED BY <1>8, <1>9 DEF DecodeMatchLen

LEMMA MatchNibbleStep ==
    ASSUME IInv, WellFormed(call), NEW i \in 1 .. Len(Script),
           MatchInNibble(i), GetExtLen
    PROVE  HavingMatch(i)' \/ MatchInByte(i)'
<1> DEFINE len == Script[i].len
           last == i = Len(Script)
           cur == MatchLenAt(i)
           next == NextAt(i)
           k == From(i)
<1>1. /\ CallOK(call) /\ Spelled(call) /\ Negated(i, match)
      /\ ~last => len >= 9
      /\ Reading(1, "MatchLenRead", k) /\ AtCursor(cur) /\ Holding(k)
  BY InvFacts DEF MatchInNibble, ReadingMatch, Reading, WellFormed
<1>2. /\ len \in Nat /\ cur \in Cursors /\ next \in Cursors
      /\ k \in Nat /\ k <= Size /\ Size \in Nat
      /\ last => len = 0
  BY <1>1, Layout
<1>3. k \in 0 .. Size
  BY SMT, <1>2
<1>4. Held(1) = 9 /\ 1 \in {0, 1} /\ 9 + 15 = 24 /\ 15 \in 0 .. 15 /\ ~(15 < 15)
  BY SMT DEF Held
<1>5. call' = call
  BY DEF GetExtLen, fixed
<1>6. /\ len' = len /\ last' = last /\ cur' = cur /\ next' = next /\ k' = k
      /\ Wrap(-Off(i))' = Wrap(-Off(i))
      /\ \A w : ReadFrame(w)' = ReadFrame(w) /\ \A l : After(l)' = After(l)
      /\ \A w, to : LengthFrame(w, to)' = LengthFrame(w, to)
      /\ PastFifteen(cur)' = PastFifteen(cur)
  BY <1>5, CommandKept
<1>7. /\ UNCHANGED <<call, y, token, match, wram, wmadd>>
      /\ ~last /\ len < 24
             => /\ pc' = "MatchLenRead" /\ a' = len
                /\ stack' = ReadFrame(After(k)) /\ AtCursor(next)'
      /\ last \/ len >= 24
             => /\ pc' = "LenByte" /\ stack' = stack
                /\ AtCursor(PastFifteen(cur))'
  <2>1. CASE last
    <3>1. Reads(cur, Format!Part(15, <<232>>), next)
      BY <1>1, <1>2, <2>1, CommandParsed DEF Parsed, MatchPart
    <3> HIDE DEF len, cur, next, k, last
    <3>2. Format!SaysNibble(call.block, cur, 15)
      BY <1>4, <3>1, NibbleRead
    <3> QED BY <1>1, <1>2, <1>3, <1>4, <1>6, <2>1, <3>2, GetExtLenStep
  <2>2. CASE ~last
    <3>1. ~(len = 0)
      <4> HIDE DEF len, last
      <4> QED BY SMT, <1>1, <1>2, <2>2
    <3>2. Reads(cur, Format!Varlen(len, 9), next)
      BY <1>1, <3>1, CommandParsed DEF Parsed, MatchPart
    <3> HIDE DEF len, cur, next, k, last
    <3> QED
      BY <1>1, <1>2, <1>3, <1>4, <1>6, <2>2, <3>2, LengthNibbleStep
  <2> QED BY <2>1, <2>2
<1>8. Negated(i, match)' /\ Holding(k)'
  BY <1>1, <1>6, <1>7, HoldingKept DEF Negated
<1>9. CASE ~last /\ len < 24
  BY <1>6, <1>7, <1>8, <1>9 DEF HavingMatch
<1>10. CASE last \/ len >= 24
  <2>1. Reading(1, "MatchLenRead", k)'
    BY <1>1, <1>6, <1>7, <1>8, <1>10 DEF Reading
  <2> QED BY <1>6, <1>7, <1>8, <1>10, <2>1 DEF MatchInByte, ReadingMatch
<1>11. len < 24 \/ len >= 24
  <2> HIDE DEF len
  <2> QED BY SMT, <1>2
<1> QED BY <1>9, <1>10, <1>11

LEMMA MatchByteStep ==
    ASSUME IInv, WellFormed(call), NEW i \in 1 .. Len(Script),
           MatchInByte(i), LenByte
    PROVE  \/ HavingMatch(i)' \/ MatchInWord(i)'
           \/ pc' = "Done" /\ Finished'
<1> DEFINE len == Script[i].len
           last == i = Len(Script)
           cur == MatchLenAt(i)
           next == NextAt(i)
           k == From(i)
<1>1. /\ CallOK(call) /\ Spelled(call) /\ Negated(i, match)
      /\ ~last => len >= 24
      /\ Reading(1, "MatchLenRead", k) /\ AtCursor(PastFifteen(cur))
      /\ Holding(k)
  BY InvFacts DEF MatchInByte, ReadingMatch, Reading, WellFormed
<1>2. /\ len \in Nat /\ cur \in Cursors /\ next \in Cursors
      /\ k \in Nat /\ k <= Size /\ Size \in Nat
      /\ last => len = 0 /\ k = Size
  BY <1>1, Layout
<1>3. k \in 0 .. Size
  BY SMT, <1>2
<1>4. /\ Held(1) = 9 /\ 1 \in {0, 1} /\ 9 + 15 = 24 /\ 15 \in 0 .. 15
      /\ 256 = 232 + 9 + 15 /\ 256 \in Nat
  BY SMT DEF Held
<1>5. call' = call
  BY DEF LenByte, fixed
<1>6. /\ len' = len /\ last' = last /\ cur' = cur /\ next' = next /\ k' = k
      /\ Wrap(-Off(i))' = Wrap(-Off(i)) /\ Size' = Size
      /\ \A w : ReadFrame(w)' = ReadFrame(w) /\ \A l : After(l)' = After(l)
      /\ \A w, to : LengthFrame(w, to)' = LengthFrame(w, to)
      /\ PastByte(cur)' = PastByte(cur)
  BY <1>5, CommandKept
<1>7. CASE last
  <2> DEFINE at == PastFifteen(cur)
  <2>1. Reads(cur, Format!Part(15, <<232>>), next)
    BY <1>1, <1>2, <1>7, CommandParsed DEF Parsed, MatchPart
  <2> HIDE DEF len, cur, next, k, last
  <2>2. Holds(at.at, <<232>>)
    BY <1>4, <2>1, NibbleRead
  <2>3. \A t : Len(<<t>>) = 1 /\ 1 \in Nat
    BY SMT
  <2>4. at \in Cursors
    <3>1. Len(<<232>>) \in Nat
      BY Zenon, <2>3
    <3> QED BY <1>1, <1>2, <2>2, <3>1, PastType
  <2> HIDE DEF at
  <2>5. call.block[at.at + 1] = 232 /\ at.at + 1 <= Len(call.block)
    BY <2>2, HoldsOne
  <2>6. at.at < Len(call.block)
    <3>1. at.at \in Nat /\ Len(call.block) \in Nat
      BY <1>1, <2>4, CursorType, SpelledType
    <3> QED BY SMT, <2>5, <3>1
  <2>7. AtCursor(at)
    BY <1>1 DEF at
  <2>8. /\ UNCHANGED <<call, y, token, match, wram, wmadd>>
        /\ FromByte(256, "MatchLenRead", k)
    <3>1. 256 = call.block[at.at + 1] + Held(1) + 15
      BY <1>4, <2>5
    <3> QED BY <1>1, <1>3, <1>4, <2>4, <2>6, <2>7, <3>1, LenByteStep
  <2>9. pc' = "Done" /\ a' = After(k)
    BY <2>8 DEF FromByte
  <2>10. Holding(k)'
    BY <1>1, <1>6, <2>8, HoldingKept
  <2>11. pc' # "Idle"
    BY <2>9
  <2> QED BY <1>2, <1>6, <1>7, <2>9, <2>10, <2>11 DEF Finished, Holding
<1>8. CASE ~last
  <2>1. ~(len = 0)
    <3> HIDE DEF len, last
    <3> QED BY SMT, <1>1, <1>2, <1>8
  <2>2. Reads(cur, Format!Varlen(len, 9), next)
    BY <1>1, <2>1, CommandParsed DEF Parsed, MatchPart
  <2>3. /\ UNCHANGED <<call, y, token, match, wram, wmadd>>
        /\ len < 256 => /\ pc' = "MatchLenRead" /\ a' = len
                        /\ stack' = ReadFrame(After(k)) /\ AtCursor(next)'
        /\ len >= 256 => /\ pc' = "LenWord" /\ stack' = stack
                         /\ AtCursor(PastByte(cur))'
    <3> HIDE DEF len, cur, next, k, last
    <3> QED
      BY <1>1, <1>2, <1>3, <1>4, <1>6, <1>8, <2>2, LengthByteStep
  <2>4. Negated(i, match)' /\ Holding(k)'
    BY <1>1, <1>6, <2>3, HoldingKept DEF Negated
  <2>5. CASE len < 256
    BY <1>6, <1>8, <2>3, <2>4, <2>5 DEF HavingMatch
  <2>6. CASE len >= 256
    <3>1. Reading(1, "MatchLenRead", k)'
      BY <1>1, <1>6, <2>3, <2>4, <2>6 DEF Reading
    <3> QED BY <1>6, <1>8, <2>3, <2>4, <2>6, <3>1 DEF MatchInWord, ReadingMatch
  <2>7. len < 256 \/ len >= 256
    <3> HIDE DEF len
    <3> QED BY SMT, <1>2
  <2> QED BY <2>5, <2>6, <2>7
<1> QED BY <1>7, <1>8

(* A match length of a word follows the byte. *)
LEMMA LenWordStep ==
    ASSUME IInv, WellFormed(call), NEW i \in 1 .. Len(Script),
           MatchInWord(i), LenWord
    PROVE  HavingMatch(i)'
<1> DEFINE len == Script[i].len
           cur == MatchLenAt(i)
           next == NextAt(i)
           k == From(i)
           at == PastFifteen(cur)
           on == PastByte(cur)
<1>1. /\ CallOK(call) /\ Spelled(call) /\ Negated(i, match)
      /\ i # Len(Script) /\ len >= 256 /\ db = call.srcBank
      /\ Reading(1, "MatchLenRead", k) /\ AtCursor(on) /\ Holding(k)
      /\ stack = LengthFrame(After(k), "MatchLenRead")
  BY InvFacts DEF MatchInWord, ReadingMatch, Reading, WellFormed
<1>2. /\ len \in Nat /\ cur \in Cursors /\ next \in Cursors
      /\ k \in Nat /\ k <= Size /\ Size \in Nat /\ Size \in Word
      /\ k + len <= Size /\ Len(call.block) \in Nat
  BY <1>1, Layout
<1>3. k \in 0 .. Size /\ len \in Word /\ len >= 9 /\ 9 \in {3, 9} /\ ~(len = 0)
  <2> HIDE DEF len, k
  <2> QED BY SMT, <1>1, <1>2 DEF Word
<1>4. /\ at \in Cursors
      /\ Holds(at.at, <<257 - (9 + 15), len % 256, len \div 256>>)
      /\ next = Format!Cursor(at.at + 3, at.half)
  <2>1. Reads(cur, Format!Varlen(len, 9), next)
    BY <1>1, <1>3, CommandParsed DEF Parsed, MatchPart
  <2> HIDE DEF len, cur, next
  <2>2. VarlenSaid(cur, len, 9, next)
    BY <1>1, <1>2, <1>3, <2>1, VarlenSays
  <2> QED BY <1>1, <2>2 DEF VarlenSaid
<1>5. at.at \in Nat /\ at.half \in 0 .. Len(call.block)
  BY <1>1, <1>4, CursorType
<1>6. /\ call.block[at.at + 2] = len % 256
      /\ call.block[at.at + 3] = len \div 256
      /\ at.at + 3 <= Len(call.block)
  <2>1. \A t, u, v : Len(<<t, u, v>>) = 3 /\ <<t, u, v>>[2] = u
                     /\ <<t, u, v>>[3] = v /\ 2 \in 1 .. 3 /\ 3 \in 1 .. 3
    BY SMT
  <2> HIDE DEF at, len
  <2> QED BY <1>4, <2>1 DEF Holds, Text!HasAt
<1>7. on.at = at.at + 1 /\ on.half = at.half
  BY DEF PastByte, Format!Cursor
<1>8. on \in Cursors
  <2> DEFINE p == at.at
  <2>1. p + 1 \in 0 .. Len(call.block)
    <3>1. p \in Nat /\ p + 3 <= Len(call.block)
      BY <1>5, <1>6
    <3> HIDE DEF p
    <3> QED BY SMT, <1>2, <3>1
  <2> QED BY <1>5, <2>1 DEF PastByte, Format!Cursor, Cursors
<1>9. /\ call' = call
      /\ UNCHANGED <<y, token, match, wram, wmadd, nibble, nibrdy>>
      /\ x' = Wrap(x + 2) /\ Length(ReadWord, c)
  BY DEF LenWord, fixed, output, state
<1>10. /\ len' = len /\ next' = next /\ k' = k
       /\ Wrap(-Off(i))' = Wrap(-Off(i)) /\ Script' = Script
       /\ \A w : ReadFrame(w)' = ReadFrame(w) /\ \A l : After(l)' = After(l)
  BY <1>9, CommandKept
<1>11. ReadWord = len
  <2> DEFINE q == on.at
  <2>1. /\ q \in Nat /\ q + 1 < Len(call.block)
        /\ q + 1 = at.at + 2 /\ q + 2 = at.at + 3
    <3> DEFINE p == at.at
    <3>1. p \in Nat /\ p + 3 <= Len(call.block) /\ q = p + 1
      BY <1>5, <1>6, <1>7
    <3> HIDE DEF p, q
    <3>2. q \in Nat /\ q + 1 < Len(call.block) /\ q + 1 = p + 2 /\ q + 2 = p + 3
      BY SMT, <1>2, <3>1
    <3> QED BY <3>2 DEF p
  <2>2. x = Position(q)
    BY <1>1 DEF AtCursor
  <2> HIDE DEF q
  <2>3. ReadWord = MakeWord(call.block[q + 1], call.block[q + 2])
    BY <1>1, <2>1, <2>2, LoadWord
  <2> HIDE DEF at, len
  <2>4. ReadWord = MakeWord(len % 256, len \div 256)
    BY <1>6, <2>1, <2>3
  <2>5. MakeWord(len % 256, len \div 256) = len
    BY SMT, <1>3 DEF MakeWord, Word
  <2> QED BY <2>4, <2>5
<1>12. AtCursor(next)'
  <2>1. next = Format!Cursor(on.at + 2, on.half)
    <3>1. at.at + 1 + 2 = at.at + 3
      <4> DEFINE p == at.at
      <4>1. p \in Nat
        BY <1>5
      <4> HIDE DEF p
      <4>2. p + 1 + 2 = p + 3
        BY SMT, <4>1
      <4> QED BY <4>2 DEF p
    <3> QED BY <1>4, <1>7, <3>1
  <2>2. 2 \in Nat
    BY SMT
  <2> HIDE DEF on, next
  <2> QED BY <1>1, <1>8, <1>9, <1>10, <2>1, <2>2, CursorOn
<1>13. pc' = "MatchLenRead" /\ a' = len /\ stack' = ReadFrame(After(k))
  <2> DEFINE w == After(k)
  <2>1. w \in Word /\ stack = LengthFrame(w, "MatchLenRead")
    BY <1>1, <1>3, AfterType
  <2> HIDE DEF w
  <2>2. ReturnTo(stack) = "MatchLenRead" /\ Pop(stack) = ReadFrame(w)
    BY <2>1, LengthFrameIs
  <2> QED BY <1>9, <1>11, <2>2 DEF Length, w
<1>14. Negated(i, match)' /\ Holding(k)'
  BY <1>1, <1>9, <1>10, HoldingKept DEF Negated
<1> QED BY <1>1, <1>10, <1>12, <1>13, <1>14 DEF HavingMatch

LEMMA MatchLenReadStep ==
    ASSUME IInv, WellFormed(call), NEW i \in 1 .. Len(Script),
           HavingMatch(i), MatchLenRead
    PROVE  AtMatch(i)'
<1> DEFINE len == Script[i].len
           k == From(i)
<1>1. /\ CallOK(call) /\ Spelled(call) /\ i # Len(Script) /\ a = len
      /\ stack = ReadFrame(After(k)) /\ AtCursor(NextAt(i))
      /\ Negated(i, match) /\ Holding(k)
  BY InvFacts DEF HavingMatch, WellFormed
<1>2. /\ len \in Nat /\ len >= 2 /\ k \in Nat /\ k <= Size
      /\ k + len <= Size /\ Size \in Nat /\ Size \in Word
  BY <1>1, Layout
<1>3. k \in 0 .. Size /\ Wrap(len - 1) + 1 = len
  <2> HIDE DEF len, k
  <2> QED BY SMT, <1>2 DEF Wrap, Word
<1>4. y' = After(k)
  <2> DEFINE w == After(k)
  <2>1. w \in Word /\ stack = ReadFrame(w)
    BY <1>1, <1>3, AfterType
  <2> HIDE DEF w
  <2>2. y' = w
    BY <2>1, PlyType DEF MatchLenRead
  <2> QED BY <2>2 DEF w
<1>5. /\ call' = call /\ pc' = "CopyMatch" /\ a' + 1 = len
      /\ UNCHANGED <<x, wram, wmadd, match, nibble, nibrdy>>
  BY <1>1, <1>3 DEF MatchLenRead, fixed, output, state
<1>6. /\ len' = len /\ k' = k /\ NextAt(i)' = NextAt(i) /\ Script' = Script
      /\ Wrap(-Off(i))' = Wrap(-Off(i)) /\ \A n : After(n)' = After(n)
  BY <1>5, CommandKept
<1>7. /\ AtCursor(NextAt(i))' /\ Negated(i, match)' /\ Holding(k)'
  BY <1>1, <1>5, <1>6, CursorKept, HoldingKept DEF Negated
<1>8. Ready(k)'
  BY <1>4, <1>6, <1>7 DEF Ready
<1> QED BY <1>1, <1>5, <1>6, <1>7, <1>8 DEF AtMatch

-----------------------------------------------------------------------------
(* The block move and what is put back after it. *)
LEMMA CopyMatchStep ==
    ASSUME IInv, WellFormed(call), NEW i \in 1 .. Len(Script),
           AtMatch(i), CopyMatch
    PROVE  AtMove(i)'
<1>1. /\ CallOK(call) /\ Spelled(call) /\ db = call.srcBank /\ stack = Frame
      /\ AtCursor(NextAt(i)) /\ Holding(From(i)) /\ i # Len(Script)
      /\ match = Wrap(-Off(i)) /\ a + 1 = Script[i].len
      /\ y = After(From(i))
  BY InvFacts DEF WellFormed, AtMatch, Negated, Ready, Steady16
<1>2. /\ From(i) \in Nat /\ Script[i].len \in Nat /\ Script[i].len >= 2
      /\ From(i) + Script[i].len <= Size /\ Size \in Nat /\ Size \in Word
      /\ Off(i) \in 1 .. From(i)
  BY <1>1, Layout
<1>3. MatchSource = call.dst + From(i) - Off(i)
  <2> DEFINE from == From(i)
             off == Off(i)
             dst == call.dst
             len == Script[i].len
  <2>1. from \in Nat /\ len \in Nat /\ len >= 2 /\ off \in 1 .. from
        /\ from + len <= Size /\ Size \in Nat /\ Size \in Word
    BY <1>2
  <2>2. dst \in Nat /\ dst + Size - 1 \in Word \cup {-1}
    BY <1>1, SizeType
  <2> HIDE DEF from, off, dst, len
  <2>3. from \in 0 .. Size /\ from < Size
    BY SMT, <2>1
  <2>4. After(from) = dst + from
    BY <1>1, <2>3, AfterType DEF dst
  <2>5. dst + from - off \in Word /\ off \in Word /\ off # 0
    BY SMT, <2>1, <2>2, <2>3 DEF Word
  <2>6. \A v \in Int, u \in Word : u # 0 /\ v - u \in Word
            => Wrap(v + Wrap(-u) + 0) = v - u
    BY SMT DEF Word, Wrap
  <2>7. dst + from \in Int /\ (dst + from) - off = dst + from - off
    BY SMT, <2>1, <2>2
  <2>8. Adc(After(from), Wrap(-off), 0) = dst + from - off
    <3> DEFINE at == dst + from
    <3>1. Wrap(at + Wrap(-off) + 0) = at - off
      <4>1. at \in Int /\ at - off \in Word
        BY <2>5, <2>7
      <4> HIDE DEF at
      <4> QED BY <2>5, <2>6, <4>1
    <3>2. After(from) = at /\ at - off = dst + from - off
      BY <2>4, <2>7
    <3> HIDE DEF at
    <3> QED BY <3>1, <3>2 DEF Adc
  <2> QED BY <1>1, <2>8 DEF MatchSource, from, off, dst
<1>4. UNCHANGED <<call, y, wram, wmadd, match, nibble, nibrdy>>
  BY DEF CopyMatch, fixed, output, state
<1>5. /\ From(i)' = From(i) /\ NextAt(i)' = NextAt(i) /\ Off(i)' = Off(i)
      /\ Script' = Script /\ \A p : Position(p)' = Position(p)
      /\ \A w : MoveFrame(w)' = MoveFrame(w)
  BY <1>4, PlacesKept, CommandKept
<1>6. MadeTo(From(i))'
  <2>1. MadeTo(From(i))
    BY <1>1 DEF Holding, MadeTo
  <2> QED BY <1>4, <1>5, <2>1, MadeToKept
<1>7. stack' = MoveFrame(Position(NextAt(i).at))
  BY <1>1 DEF CopyMatch, EnterMove, MoveFrame, AtCursor
<1>8. NibbleAt(NextAt(i))'
  BY <1>1, <1>4, <1>5 DEF AtCursor, NibbleAt
<1>9. /\ pc' = "BlockMove" /\ x' = call.dst + From(i) - Off(i)
      /\ a' + 1 = Script[i].len
  BY <1>1, <1>3 DEF CopyMatch, EnterMove
<1>10. Moves(i)'
  BY <1>1, <1>4, <1>5, <1>7, <1>8 DEF Moves, Negated
<1> QED BY <1>4, <1>5, <1>6, <1>9, <1>10 DEF AtMove

LEMMA MoveStep ==
    ASSUME IInv, WellFormed(call), NEW i \in 1 .. Len(Script),
           AtMove(i), Move
    PROVE  Moved(i)'
<1>1. /\ CallOK(call) /\ Spelled(call) /\ outBank = call.dstBank
      /\ a \in Word /\ i # Len(Script) /\ a + 1 = Script[i].len
      /\ x = call.dst + From(i) - Off(i) /\ Moves(i)
      /\ Made(From(i)) /\ y = After(From(i)) /\ MoveBlock
  BY InvFacts DEF WellFormed, AtMove, Moves, MadeTo, Move
<1>2. /\ From(i) \in Nat /\ Script[i].len \in Nat /\ Script[i].len >= 2
      /\ From(i) + Script[i].len <= Size
      /\ Off(i) \in 1 .. From(i)
      /\ call.out[i + 1] = From(i) + Script[i].len
  <2>1. CallOK(call) /\ WellFormed(call) /\ i # Len(Script)
    BY <1>1
  <2> QED BY ZenonT(30), <2>1, Layout
<1>3. Script[i].len > 0
  BY SMT, <1>2
<1>4. \A j \in 1 .. Script[i].len :
         call.plain[From(i) + j]
             = call.plain[From(i) - Off(i) + 1 + ((j - 1) % Off(i))]
  <2> DEFINE n == From(i)
             cmd == Script[i]
  <2>1. Text!Copies(call.plain, n, cmd) /\ cmd.len > 0
    BY <1>1, <1>3, CommandType
  <2>2. cmd.off = Off(i)
    BY DEF Off
  <2> HIDE DEF n, cmd
  <2>3. \A j \in 1 .. cmd.len :
           call.plain[n + j]
               = call.plain[n - cmd.off + 1 + ((j - 1) % cmd.off)]
    BY Zenon, <2>1 DEF Text!Copies
  <2> QED BY <2>2, <2>3 DEF n, cmd
<1>5. /\ call' = call /\ stack' = stack /\ pc' = "MatchCopied"
      /\ UNCHANGED <<match, nibble, nibrdy>>
  BY <1>1 DEF Move, MoveBlock, fixed, state
<1>6. /\ From(i)' = From(i) /\ NextAt(i)' = NextAt(i) /\ Off(i)' = Off(i)
      /\ call.out[i + 1]' = call.out[i + 1]
      /\ Script' = Script /\ \A p : Position(p)' = Position(p)
      /\ \A w : MoveFrame(w)' = MoveFrame(w) /\ \A n : After(n)' = After(n)
  BY <1>5, PlacesKept, CommandKept
<1>7. MadeTo(call.out[i + 1])'
  <2> DEFINE n == From(i)
             k == Script[i].len
             off == Off(i)
  <2>1. /\ n \in Nat /\ k \in Nat /\ k > 0 /\ n + k <= Size /\ off \in 1 .. n
        /\ \A j \in 1 .. k :
              call.plain[n + j] = call.plain[n - off + 1 + ((j - 1) % off)]
        /\ Made(n) /\ x = call.dst + n - off /\ y = After(n) /\ a + 1 = k
    BY <1>1, <1>2, <1>3, <1>4
  <2>2. n' = n /\ k' = k /\ call.out[i + 1]' = n + k
    BY <1>2, <1>6
  <2> HIDE DEF n, k, off
  <2>3. Made(n + k)' /\ y' = After(n + k)
    BY <1>1, <2>1, <2>2, MatchRun
  <2>4. \A l : After(l)' = After(l)
    BY <1>6
  <2> QED BY <2>2, <2>3, <2>4 DEF MadeTo
<1>8. Moves(i)'
  BY <1>1, <1>5, <1>6 DEF Moves, NibbleAt, Negated
<1> QED BY <1>5, <1>7, <1>8 DEF Moved

LEMMA MatchCopiedStep ==
    ASSUME IInv, WellFormed(call), NEW i \in 1 .. Len(Script),
           Moved(i), MatchCopied
    PROVE  i + 1 \in 1 .. Len(Script) /\ AtToken(i + 1)'
<1> DEFINE n == call.out[i + 1]
           next == NextAt(i)
<1>1. /\ CommonTypeOK /\ CallOK(call) /\ Spelled(call) /\ i # Len(Script)
      /\ wmadd \in WramAddress
      /\ stack = MoveFrame(Position(next.at)) /\ NibbleAt(next)
      /\ match = Wrap(-Off(i)) /\ Made(n) /\ y = After(n)
  BY InvFacts DEF WellFormed, Moved, Moves, Negated, MadeTo
<1>2. /\ i + 1 \in 1 .. Len(Script) /\ i \in Nat /\ next \in Cursors
      /\ TokenAt(i + 1) = next
  BY <1>1, Layout
<1>3. n \in 0 .. Size
  BY <1>1 DEF Made, TextTo
<1>4. x' = Position(next.at)
  <2> DEFINE w == Position(next.at)
  <2>1. w \in Word /\ stack = MoveFrame(w)
    BY <1>1, <1>2, CursorType, PositionType
  <2> HIDE DEF w
  <2>2. x' = w
    BY <1>1, <2>1, LeaveMoveFrame DEF MatchCopied
  <2> QED BY <2>2 DEF w
<1>5. /\ call' = call /\ UNCHANGED <<y, wram, match, nibble, nibrdy>>
      /\ pc' = "ReadToken" /\ wmadd' = PortAfterMatch
  BY DEF MatchCopied, fixed, state
<1>6. /\ next' = next /\ n' = n /\ TokenAt(i + 1)' = TokenAt(i + 1)
      /\ Script' = Script /\ Size' = Size /\ Start' = Start
      /\ \A p : Position(p)' = Position(p) /\ \A l : After(l)' = After(l)
  BY <1>5, PlacesKept, CommandKept
<1>7. wmadd' \div 65536 = wmadd \div 65536
  <2>1. y \in Word
    BY <1>1 DEF CommonTypeOK
  <2> QED BY <1>1, <1>5, <2>1, PortAtYKeepsBank DEF PortAfterMatch
<1>8. Made(n)'
  <2> HIDE DEF n
  <2>1. TextTo(n)'
    BY <1>1, <1>5, <1>6 DEF Made, TextTo
  <2>2. PortInBank(n)'
    BY <1>1, <1>5, <1>6, <1>7 DEF Made, PortInBank
  <2> QED BY <2>1, <2>2 DEF Made
<1>9. PortThere(n)'
  <2> HIDE DEF n
  <2>1. ASSUME INLINE = 2, n < Size
        PROVE  wmadd' = Start + n
    <3>1. PortAtY = Start + n
      BY <1>1, <1>3, <2>1, PortAtAfter DEF Made
    <3> QED BY <1>5, <2>1, <3>1 DEF PortAfterMatch
  <2> QED BY <1>6, <2>1 DEF PortThere
<1>10. Ready(n)'
  <2> HIDE DEF n
  <2> QED BY <1>1, <1>5, <1>6, <1>8, <1>9 DEF Ready, Holding
<1>11. AtCursor(TokenAt(i + 1))'
  BY <1>1, <1>2, <1>4, <1>5, <1>6 DEF AtCursor, NibbleAt
<1>12. Recent(i + 1)'
  <2>1. i + 1 # 1 /\ i + 1 - 1 = i
    BY SMT, <1>2
  <2>2. Rep(i + 1) = Off(i)
    BY <2>1 DEF Rep, Format!RepOffset, Off
  <2>3. Rep(i + 1)' = Rep(i + 1)
    BY <1>6 DEF Rep
  <2> QED BY <1>1, <1>5, <2>2, <2>3 DEF Recent
<1> QED BY <1>2, <1>5, <1>6, <1>10, <1>11, <1>12 DEF AtToken

(* Setup leaves the routine at the first command, and the data port at the *)
(* start of the text where it is to be kept at its end.                    *)
LEMMA SetupStep ==
    ASSUME IInv, WellFormed(call), pc = "Setup", NothingWritten,
           x = call.src, Setup
    PROVE  1 \in 1 .. Len(Script) /\ AtToken(1)'
<1>1. /\ CallOK(call) /\ Spelled(call) /\ wmadd \in WramAddress
      /\ y = call.dst /\ a = MakeWord(call.srcBank, call.dstBank)
      /\ y \in Word
  BY InvFacts DEF WellFormed, IInv, Banks, CommonTypeOK
<1>2. /\ call' = call /\ UNCHANGED <<x, y, wram>> /\ pc' = "ReadToken"
      /\ nibrdy' = 0 /\ SetupFrame(PortAtSetup)
  BY DEF Setup, ClearedNibrdy
<1>3. PortAtSetup \in WramAddress
  BY <1>1, InvFacts, PortAtYType DEF PortAtSetup
<1>4. /\ wmadd' \div 65536 = call.dstBank % 2
      /\ wmadd' = WramAt(call.dstBank, PortAtSetup % 65536)
  BY <1>1, <1>2, <1>3, SetupPort
<1>5. INLINE = 2 => wmadd' = Start
  BY <1>1, <1>4, PortAtYKeepsBank DEF PortAtSetup, Start
<1>6. 1 \in 1 .. Len(Script)
  <2>1. Script \in Seq(Text!Commands) /\ Script # <<>>
    BY <1>1 DEF Spelled, Text!Spells, Script
  <2> HIDE DEF Script
  <2> QED BY SMT, <2>1
<1>7. call.out[1] = 0
  BY <1>1, <1>6 DEF Spelled, Text!Spells
<1>8. TokenAt(1).at = 0 /\ TokenAt(1).half = 0
  <2>1. TokenAt(1) = Format!Cursor(0, 0)
    BY <1>1, <1>6, CommandParsed
  <2> QED BY <2>1 DEF Format!Cursor
<1>9. x' = Position(0)
  <2>1. \A u \in Word : Wrap(u + 0) = u
    BY SMT DEF Word, Wrap
  <2> QED BY <1>1, <1>2, <2>1 DEF Position, CallOK
<1>10. MadeTo(0)'
  BY <1>1, <1>2, <1>4, NothingMade
<1>11. PortThere(0)'
  <2>1. Start' = Start /\ Start + 0 = Start
    BY <1>1, <1>2, StartType DEF Start
  <2> QED BY <1>5, <2>1 DEF PortThere
<1>12. Ready(0)'
  BY <1>10, <1>11 DEF Ready, Holding, MadeTo
<1>13. /\ call.out[1]' = 0 /\ TokenAt(1)' = TokenAt(1)
       /\ Position(0)' = Position(0)
  BY <1>2, <1>7, PlacesKept, CommandKept
<1>14. AtCursor(TokenAt(1))'
  BY <1>2, <1>8, <1>9, <1>13 DEF AtCursor
<1>15. Recent(1)'
  BY DEF Recent
<1> QED BY <1>2, <1>6, <1>12, <1>13, <1>14, <1>15 DEF AtToken

-----------------------------------------------------------------------------
(* A routine that decodes stays one that does, whatever the step.          *)
LEMMA StageLabels ==
    ASSUME NEW i
    PROVE  /\ AtToken(i) => pc = "ReadToken"
           /\ AtLitLen(i) => pc = "DecodeLitLen"
           /\ AtFew(i) => pc = "LitLen"
           /\ LitInNibble(i) \/ MatchInNibble(i) => pc = "GetExtLen"
           /\ LitInByte(i) \/ MatchInByte(i) => pc = "LenByte"
           /\ MatchInWord(i) => pc = "LenWord"
           /\ HavingLit(i) => pc = "LitLenRead"
           /\ AtLiteral(i) => pc = "CopyLiteral"
           /\ AtOffset(i) => pc = "DecodeMatchOffset"
           /\ AtOffsetLow(i) => pc = "OffsetLow"
           /\ AtMatchLen(i) => pc = "DecodeMatchLen"
           /\ HavingMatch(i) => pc = "MatchLenRead"
           /\ AtMatch(i) => pc = "CopyMatch"
           /\ AtMove(i) => pc = "BlockMove"
           /\ Moved(i) => pc = "MatchCopied"
BY DEF AtToken, AtLitLen, AtFew, LitInNibble, LitInByte, HavingLit, AtLiteral,
       AtOffset, AtOffsetLow, AtMatchLen, MatchInNibble, MatchInByte,
       MatchInWord, HavingMatch, AtMatch, AtMove, Moved

Steps == {"ReadToken", "DecodeLitLen", "LitLen", "GetExtLen", "LenByte",
          "LenWord", "LitLenRead", "CopyLiteral", "DecodeMatchOffset",
          "OffsetLow", "DecodeMatchLen", "MatchLenRead", "CopyMatch",
          "BlockMove", "MatchCopied"}

LEMMA StageIs ==
    ASSUME Decoding
    PROVE  /\ pc \in Steps => \E i \in 1 .. Len(Script) : InCommand(i)
           /\ pc \in {"Done", "Idle"} => Finished
           /\ pc \in {"Main", "Setup"} => NothingWritten
           /\ pc = "Setup" => x = call.src
<1>1. ASSUME NEW i, InCommand(i)
      PROVE  pc \in Steps
  BY <1>1, StageLabels DEF InCommand, Steps
<1>2. Steps \cap {"Main", "Setup", "Done", "Idle"} = {}
  BY DEF Steps
<1> QED BY <1>1, <1>2 DEF Decoding

(* Which part of a command each label is at. *)
LEMMA StageAt ==
    ASSUME NEW i, InCommand(i)
    PROVE  /\ pc = "ReadToken" => AtToken(i)
           /\ pc = "DecodeLitLen" => AtLitLen(i)
           /\ pc = "LitLen" => AtFew(i)
           /\ pc = "GetExtLen" => LitInNibble(i) \/ MatchInNibble(i)
           /\ pc = "LenByte" => LitInByte(i) \/ MatchInByte(i)
           /\ pc = "LenWord" => MatchInWord(i)
           /\ pc = "LitLenRead" => HavingLit(i)
           /\ pc = "CopyLiteral" => AtLiteral(i)
           /\ pc = "DecodeMatchOffset" => AtOffset(i)
           /\ pc = "OffsetLow" => AtOffsetLow(i)
           /\ pc = "DecodeMatchLen" => AtMatchLen(i)
           /\ pc = "MatchLenRead" => HavingMatch(i)
           /\ pc = "CopyMatch" => AtMatch(i)
           /\ pc = "BlockMove" => AtMove(i)
           /\ pc = "MatchCopied" => Moved(i)
BY StageLabels DEF InCommand

(* A routine that stands still stays where it is. *)
LEMMA InCommandKept ==
    ASSUME NEW i, InCommand(i), UNCHANGED vars
    PROVE  InCommand(i)'
<1>1. /\ call' = call
      /\ UNCHANGED <<pc, x, y, a, c, stack, match, wram, wmadd, token, nibble,
                     nibrdy>>
  BY DEF vars, common, state
<1>2. /\ \A p : Position(p)' = Position(p) /\ \A w : MoveFrame(w)' = MoveFrame(w)
      /\ TokenAt(i)' = TokenAt(i) /\ LitLenAt(i)' = LitLenAt(i)
      /\ LitAt(i)' = LitAt(i) /\ OffAt(i)' = OffAt(i)
      /\ MatchLenAt(i)' = MatchLenAt(i) /\ NextAt(i)' = NextAt(i)
      /\ call.out[i]' = call.out[i] /\ call.out[i + 1]' = call.out[i + 1]
      /\ Lit(i)' = Lit(i) /\ Off(i)' = Off(i)
      /\ Tok(i)' = Tok(i) /\ Mode(i)' = Mode(i)
      /\ From(i)' = From(i) /\ Script' = Script
      /\ \A cur : PastFifteen(cur)' = PastFifteen(cur)
      /\ \A cur : PastByte(cur)' = PastByte(cur)
      /\ \A n : After(n)' = After(n)
      /\ \A w : ReadFrame(w)' = ReadFrame(w)
      /\ \A w, next : LengthFrame(w, next)' = LengthFrame(w, next)
  BY <1>1, PlacesKept, CommandKept
<1>3. /\ \A n : Holding(n) => Holding(n)'
      /\ \A n : Ready(n) => Ready(n)'
      /\ \A n : MadeTo(n) => MadeTo(n)'
      /\ \A cur : AtCursor(cur) => AtCursor(cur)'
      /\ Recent(i) => Recent(i)'
  BY <1>1, HoldingKept, ReadyKept, MadeToKept, CursorKept, RecentKept
<1>4. /\ \A kind, next, n : Reading(kind, next, n) => Reading(kind, next, n)'
      /\ \A w : Negated(i, w) => Negated(i, w)'
  BY <1>1, <1>2, <1>3 DEF Reading, Negated
<1>5. Negated(i, match) => Negated(i, match)'
  BY <1>1, <1>2 DEF Negated
<1>6. Negated(i, a) => Negated(i, a)'
  BY <1>1, <1>2 DEF Negated
<1>7. /\ ReadingLit(i) => ReadingLit(i)'
      /\ ReadingMatch(i) => ReadingMatch(i)'
  BY <1>1, <1>2, <1>3, <1>4, <1>5 DEF ReadingLit, ReadingMatch
<1>8. Moves(i) => Moves(i)'
  BY <1>1, <1>2, <1>5 DEF Moves, NibbleAt
<1>9. AtToken(i) => AtToken(i)'
  BY <1>1, <1>2, <1>3 DEF AtToken
<1>10. AtLitLen(i) => AtLitLen(i)'
  BY <1>1, <1>2, <1>3 DEF AtLitLen
<1>11. AtFew(i) => AtFew(i)'
  BY <1>1, <1>2, <1>3 DEF AtFew
<1>12. LitInNibble(i) => LitInNibble(i)'
  BY <1>1, <1>2, <1>3, <1>7 DEF LitInNibble
<1>13. LitInByte(i) => LitInByte(i)'
  BY <1>1, <1>2, <1>3, <1>7 DEF LitInByte
<1>14. HavingLit(i) => HavingLit(i)'
  BY <1>1, <1>2, <1>3 DEF HavingLit
<1>15. AtLiteral(i) => AtLiteral(i)'
  BY <1>1, <1>2, <1>3 DEF AtLiteral
<1>16. AtOffset(i) => AtOffset(i)'
  BY <1>1, <1>2, <1>3 DEF AtOffset
<1>17. AtOffsetLow(i) => AtOffsetLow(i)'
  BY <1>1, <1>2, <1>3 DEF AtOffsetLow
<1>18. AtMatchLen(i) => AtMatchLen(i)'
  BY <1>1, <1>2, <1>3, <1>6 DEF AtMatchLen
<1>19. MatchInNibble(i) => MatchInNibble(i)'
  BY <1>1, <1>2, <1>3, <1>7 DEF MatchInNibble
<1>20. MatchInByte(i) => MatchInByte(i)'
  BY <1>1, <1>2, <1>3, <1>7 DEF MatchInByte
<1>21. MatchInWord(i) => MatchInWord(i)'
  BY <1>1, <1>2, <1>3, <1>7 DEF MatchInWord
<1>22. HavingMatch(i) => HavingMatch(i)'
  BY <1>1, <1>2, <1>3, <1>5 DEF HavingMatch
<1>23. AtMatch(i) => AtMatch(i)'
  BY <1>1, <1>2, <1>3, <1>5 DEF AtMatch
<1>24. AtMove(i) => AtMove(i)'
  BY <1>1, <1>2, <1>3, <1>8 DEF AtMove
<1>25. Moved(i) => Moved(i)'
  BY <1>1, <1>2, <1>3, <1>8 DEF Moved
<1> QED
  BY <1>9, <1>10, <1>11, <1>12, <1>13, <1>14, <1>15, <1>16, <1>17, <1>18,
     <1>19, <1>20, <1>21, <1>22, <1>23, <1>24, <1>25 DEF InCommand

(* Within a command every step leads to a part of it, of the next one, or  *)
(* to the end.                                                             *)
LEMMA CommandStep ==
    ASSUME IInv, WellFormed(call), NEW i \in 1 .. Len(Script), InCommand(i),
           Next, pc \in Steps
    PROVE  \/ \E j \in 1 .. Len(Script) : InCommand(j)'
           \/ pc' = "Done" /\ Finished'
<1> USE DEF Steps
<1>1. CASE ReadToken
  <2>1. AtToken(i)
    BY <1>1, StageAt DEF ReadToken
  <2> QED BY <1>1, <2>1, ReadTokenStep DEF InCommand
<1>2. CASE DecodeLitLen
  <2>1. AtLitLen(i)
    BY <1>2, StageAt DEF DecodeLitLen
  <2> QED BY <1>2, <2>1, DecodeLitLenStep DEF InCommand
<1>3. CASE LitLen
  <2>1. AtFew(i)
    BY <1>3, StageAt DEF LitLen
  <2> QED BY <1>3, <2>1, LitLenStep DEF InCommand
<1>4. CASE LitLenRead
  <2>1. HavingLit(i)
    BY <1>4, StageAt DEF LitLenRead
  <2> QED BY <1>4, <2>1, LitLenReadStep DEF InCommand
<1>5. CASE CopyLiteral
  <2>1. AtLiteral(i)
    BY <1>5, StageAt DEF CopyLiteral
  <2> QED BY <1>5, <2>1, CopyLiteralStep DEF InCommand
<1>6. CASE DecodeMatchOffset
  <2>1. AtOffset(i)
    BY <1>6, StageAt DEF DecodeMatchOffset
  <2> QED BY <1>6, <2>1, DecodeMatchOffsetStep DEF InCommand
<1>7. CASE OffsetLow
  <2>1. AtOffsetLow(i)
    BY <1>7, StageAt DEF OffsetLow
  <2> QED BY <1>7, <2>1, OffsetLowStep DEF InCommand
<1>8. CASE DecodeMatchLen
  <2>1. AtMatchLen(i)
    BY <1>8, StageAt DEF DecodeMatchLen
  <2> QED BY <1>8, <2>1, DecodeMatchLenStep DEF InCommand
<1>9. CASE MatchLenRead
  <2>1. HavingMatch(i)
    BY <1>9, StageAt DEF MatchLenRead
  <2> QED BY <1>9, <2>1, MatchLenReadStep DEF InCommand
<1>10. CASE CopyMatch
  <2>1. AtMatch(i)
    BY <1>10, StageAt DEF CopyMatch
  <2> QED BY <1>10, <2>1, CopyMatchStep DEF InCommand
<1>11. CASE Move
  <2>1. AtMove(i)
    BY <1>11, StageAt DEF Move, MoveBlock
  <2> QED BY <1>11, <2>1, MoveStep DEF InCommand
<1>12. CASE MatchCopied
  <2>1. Moved(i)
    BY <1>12, StageAt DEF MatchCopied
  <2>2. i + 1 \in 1 .. Len(Script) /\ InCommand(i + 1)'
    BY <1>12, <2>1, MatchCopiedStep DEF InCommand
  <2> QED BY <2>2
<1>13. CASE GetExtLen
  <2>1. LitInNibble(i) \/ MatchInNibble(i)
    BY <1>13, StageAt DEF GetExtLen
  <2> QED BY <1>13, <2>1, LitNibbleStep, MatchNibbleStep DEF InCommand
<1>14. CASE LenByte
  <2>1. LitInByte(i) \/ MatchInByte(i)
    BY <1>14, StageAt DEF LenByte
  <2> QED BY <1>14, <2>1, LitByteStep, MatchByteStep DEF InCommand
<1>15. CASE LenWord
  <2>1. MatchInWord(i)
    BY <1>15, StageAt DEF LenWord
  <2> QED BY <1>15, <2>1, LenWordStep DEF InCommand
<1>16. ~(Main \/ Setup \/ Done \/ Wai)
  BY DEF Main, CallRoutine, Setup, Done, Wai, Idle
<1> QED
  BY <1>1, <1>2, <1>3, <1>4, <1>5, <1>6, <1>7, <1>8, <1>9, <1>10, <1>11,
     <1>12, <1>13, <1>14, <1>15, <1>16 DEF Next

(* The exit, which reports the length of the text. *)
LEMMA DoneStep ==
    ASSUME IInv, Spelled(call), pc = "Done", Finished, Done
    PROVE  pc' = "Idle" /\ wram' = wram /\ Finished' /\ (RETLEN => x' = Size)
<1>1. /\ CallOK(call) /\ CommonTypeOK /\ stack = Frame
      /\ Made(Size) /\ a = After(Size)
  BY InvFacts DEF Steady16, Finished
<1>2. UNCHANGED <<call, wram, wmadd>> /\ LeaveRoutine(Frame, a)
  BY <1>1 DEF Done, output
<1>3. a \in Word /\ Sbc(a, call.dst) = Size
  BY <1>1, SizeReported
<1>4. pc' = "Idle" /\ (RETLEN => x' = Size)
  BY <1>1, <1>2, <1>3, LeaveFrame
<1>5. Made(Size)' /\ Size' = Size
  <2> DEFINE n == Size
  <2>1. n' = n
    BY <1>2, PlacesKept
  <2>2. Made(n)
    BY <1>1
  <2> HIDE DEF n
  <2>3. Made(n)'
    BY <1>2, <2>1, <2>2, MadeKept
  <2> QED BY <2>1, <2>3 DEF n
<1> QED BY <1>2, <1>4, <1>5 DEF Finished

LEMMA DecodingStep == IInv /\ Decoding /\ [Next]_vars => Decoding'
<1> SUFFICES ASSUME IInv, Decoding, [Next]_vars PROVE Decoding'
  OBVIOUS
<1>1. WellFormed(call) /\ call' = call /\ CallOK(call) /\ Spelled(call)
  BY CallKept, InvFacts DEF Decoding, WellFormed
<1>2. WellFormed(call)'
  BY <1>1 DEF WellFormed, Spelled
<1>3. Script' = Script /\ Size' = Size
  BY <1>1, PlacesKept
<1>4. ASSUME NEW i \in 1 .. Len(Script), InCommand(i)'
      PROVE  Decoding'
  BY <1>2, <1>3, <1>4 DEF Decoding
<1>5. ASSUME pc' \in {"Done", "Idle"}, Finished'
      PROVE  Decoding'
  BY <1>2, <1>5 DEF Decoding
<1>6. CASE Main
  <2>1. pc = "Main" /\ NothingWritten
    BY <1>6, StageIs DEF Main, CallRoutine
  <2>2. /\ pc' = "Setup" /\ wram' = wram /\ x' = call.src
    BY <1>6 DEF Main, CallRoutine, output
  <2> QED BY <1>1, <1>2, <2>1, <2>2 DEF Decoding, NothingWritten
<1>7. CASE Setup
  <2>1. pc = "Setup" /\ NothingWritten /\ x = call.src
    BY <1>7, StageIs DEF Setup
  <2>2. 1 \in 1 .. Len(Script) /\ AtToken(1)'
    BY <1>1, <1>7, <2>1, SetupStep
  <2>3. InCommand(1)'
    BY <2>2 DEF InCommand
  <2> QED BY <1>4, <2>2, <2>3
<1>8. CASE Next /\ pc \in Steps
  <2>1. PICK i \in 1 .. Len(Script) : InCommand(i)
    BY <1>8, StageIs
  <2>2. \/ \E j \in 1 .. Len(Script) : InCommand(j)'
        \/ pc' = "Done" /\ Finished'
    BY <1>1, <1>8, <2>1, CommandStep
  <2> QED BY <1>4, <1>5, <2>2
<1>9. CASE Done
  <2>1. pc = "Done" /\ Finished
    BY <1>9, StageIs DEF Done
  <2> QED BY <1>1, <1>5, <1>9, <2>1, DoneStep
<1>10. CASE UNCHANGED vars
  <2>1. UNCHANGED <<call, pc, x, a, wram, wmadd>>
    BY <1>10 DEF vars, common
  <2>2. CASE pc \in {"Done", "Idle"}
    <3>1. Finished
      BY <2>2, StageIs
    <3>2. Finished'
      BY <1>1, <1>3, <2>1, <3>1, PlacesKept DEF Finished, Made, TextTo,
         PortInBank, Start
    <3> QED BY <1>5, <2>1, <2>2, <3>2
  <2>3. CASE pc \in {"Main", "Setup"}
    BY <1>1, <1>2, <2>1, <2>3, StageIs DEF Decoding, NothingWritten
  <2>4. CASE pc \in Steps
    BY <1>4, <1>10, <2>1, <2>4, StageIs, InCommandKept
  <2>5. pc \in Steps \cup {"Main", "Setup", "Done", "Idle"}
    BY DEF IInv, TypeOK, Labels, Steps
  <2> QED BY <2>2, <2>3, <2>4, <2>5
<1>11. CASE Wai
  BY <1>10, <1>11 DEF Wai, Idle, vars
<1>12. Next => pc \in Steps \/ Main \/ Setup \/ Done \/ Wai
  BY DEF Next, ReadToken, DecodeLitLen, LitLen, LitLenRead, CopyLiteral,
     DecodeMatchOffset, OffsetLow, DecodeMatchLen, MatchLenRead, CopyMatch,
     Move, MoveBlock, MatchCopied, GetExtLen, LenByte, LenWord, Steps
<1> QED BY <1>6, <1>7, <1>8, <1>9, <1>10, <1>11, <1>12

LEMMA DecodingInit == Init /\ WellFormed(call) => Decoding
BY DEF Init, RoutineInit, Decoding, NothingWritten

(* On every well-formed block the routine is, at each label, where in the  *)
(* script the registers say, with the text up to there and nothing else    *)
(* written, and the nibble put aside the one the stream has next.          *)
THEOREM DecodesInStep ==
    ASSUME \A r \in Calls : WellFormed(r)
    PROVE  Spec => [](IInv /\ Decoding)
<1>1. Init => IInv /\ Decoding
  BY InitInv, DecodingInit DEF Init, RoutineInit
<1>2. IInv /\ Decoding /\ [Next]_vars => (IInv /\ Decoding)'
  BY StepInv, DecodingStep
<1> QED BY <1>1, <1>2, PTL DEF Spec

-----------------------------------------------------------------------------
(* What has been made at the labels that write. *)
LEMMA MadeWhere ==
    ASSUME Decoding, pc \in Writing
    PROVE  \E n : MadeTo(n)
<1>1. pc \in Steps
  BY DEF Writing, Steps
<1>2. PICK i \in 1 .. Len(Script) : InCommand(i)
  BY <1>1, StageIs
<1>3. \A n : Ready(n) => MadeTo(n)
  BY DEF Ready, Holding, MadeTo
<1> QED BY <1>2, <1>3, StageAt
        DEF Writing, AtToken, AtLiteral, AtOffset, AtMove, Moved

LEMMA DecodingInStep == IInv /\ Decoding => InStep
<1> SUFFICES ASSUME IInv, Decoding, pc = "ReadToken"
             PROVE  \E i \in DOMAIN call.script :
                       Consumed = call.at[i] /\ Produced = call.out[i]
  BY DEF InStep
<1>1. PICK i \in 1 .. Len(Script) : AtToken(i)
  BY StageIs, StageAt DEF Steps
<1>2. CallOK(call) /\ WellFormed(call) /\ Spelled(call)
  BY InvFacts DEF Decoding, WellFormed
<1>3. /\ call.at[i] = TokenAt(i).at /\ TokenAt(i).at \in Nat
      /\ TokenAt(i).at < Len(call.block)
  <2>1. call.at[i] = TokenAt(i).at /\ TokenAt(i) \in Cursors
    BY <1>2, Layout
  <2> QED BY <1>2, <2>1, TokenSays, CursorType
<1>4. x = Position(call.at[i]) /\ MadeTo(call.out[i])
  BY <1>1, <1>3 DEF AtToken, AtCursor, Ready, Holding, MadeTo
<1> QED BY <1>2, <1>3, <1>4, InStepWhereStarting

(* The routine takes a well-formed block apart as the compressor put it    *)
(* together: ReadToken reads a token where a command starts, with the text *)
(* of the commands before it made.                                         *)
THEOREM InStepAlways ==
    ASSUME \A r \in Calls : WellFormed(r)
    PROVE  Spec => []InStep
BY DecodingInStep, DecodesInStep, PTL

LEMMA DecodingCarryClear == Decoding => CarryClear
BY StageIs, StageAt DEF CarryClear, Steps, AtLiteral

(* Every way to CopyLiteral on a well-formed block has cleared the carry   *)
(* the label adds to Y: GetExtLen returns a run's length with it clear, as *)
(* long as the run is shorter than 256 bytes.                              *)
THEOREM CarryClearAlways ==
    ASSUME \A r \in Calls : WellFormed(r)
    PROVE  Spec => []CarryClear
BY DecodingCarryClear, DecodesInStep, PTL

LEMMA DecodingPortInStep == IInv /\ Decoding => PortInStep
<1> SUFFICES ASSUME IInv, Decoding, pc \in {"LitLen", "CopyLiteral"},
                    INLINE = 2
             PROVE  wmadd = WramAt(call.dstBank, y)
  BY DEF PortInStep
<1>1. pc \in Steps
  BY DEF Steps
<1>2. PICK i \in 1 .. Len(Script) : AtFew(i) \/ AtLiteral(i)
  BY <1>1, StageIs, StageAt
<1>3. CallOK(call) /\ WellFormed(call) /\ Spelled(call)
  BY InvFacts DEF Decoding, WellFormed
<1> DEFINE n == call.out[i]
           lit == Lit(i)
           from == From(i)
<1>4. Ready(n) /\ (lit \in {1, 2} \/ lit > 0)
  BY <1>2 DEF AtFew, AtLiteral
<1>5. /\ n \in Nat /\ lit \in Nat /\ from = n + lit /\ from <= Size
      /\ Size \in Nat
  BY <1>3, Layout
<1> HIDE DEF n, lit, from
<1>6. n \in 0 .. Size /\ n < Size
  BY SMT, <1>4, <1>5
<1>7. wmadd = Start + n /\ y = After(n)
  BY <1>4, <1>6 DEF Ready, Holding, PortThere
<1>8. After(n) = call.dst + n
  BY <1>3, <1>6, AfterType
<1>9. /\ Start = (call.dstBank % 2) * 65536 + call.dst
      /\ call.dst \in Nat /\ call.dstBank % 2 \in {0, 1}
  BY <1>3, StartType, SpelledType
<1>10. Start + n = WramAt(call.dstBank, call.dst + n)
  BY SMT, <1>5, <1>9 DEF WramAt
<1> QED BY <1>7, <1>8, <1>10

(* With INLINE = 2 the data port is where Y is whenever literals are to be *)
(* stored, although matches do not go through it.                          *)
THEOREM PortInStepAlways ==
    ASSUME \A r \in Calls : WellFormed(r)
    PROVE  Spec => []PortInStep
BY DecodingPortInStep, DecodesInStep, PTL

LEMMA DecodingOutputContiguous == IInv /\ Decoding => OutputContiguous
<1> SUFFICES ASSUME IInv, Decoding PROVE OutputContiguous
  OBVIOUS
<1>1. CallOK(call) /\ Spelled(call)
  BY InvFacts DEF Decoding, WellFormed
<1>2. pc \in Writing => \E n : MadeTo(n)
  BY MadeWhere
<1> QED BY <1>1, <1>2, ContiguousWhereMade

(* DMA, the data port and block move write the destination from its start  *)
(* on, without a hole, and nothing else.                                   *)
THEOREM OutputContiguousAlways ==
    ASSUME \A r \in Calls : WellFormed(r)
    PROVE  Spec => []OutputContiguous
BY DecodingOutputContiguous, DecodesInStep, PTL

LEMMA DecodingMatchInsideOutput == IInv /\ Decoding => MatchInsideOutput
<1> SUFFICES ASSUME IInv, Decoding, pc = "BlockMove"
             PROVE  Wrap(x - call.dst) < Produced
  BY DEF MatchInsideOutput
<1>1. PICK i \in 1 .. Len(Script) : AtMove(i)
  BY StageIs, StageAt DEF Steps
<1>2. CallOK(call) /\ WellFormed(call) /\ Spelled(call)
  BY InvFacts DEF Decoding, WellFormed
<1>3. /\ From(i) \in Nat /\ Off(i) \in 1 .. From(i)
      /\ x = call.dst + From(i) - Off(i) /\ MadeTo(From(i))
  BY <1>1, <1>2, Layout DEF AtMove, Moves
<1> QED BY <1>2, <1>3, InsideWhereMoving

(* A match is copied from inside the text made so far, repeated offsets    *)
(* included.                                                               *)
THEOREM MatchInsideOutputAlways ==
    ASSUME \A r \in Calls : WellFormed(r)
    PROVE  Spec => []MatchInsideOutput
BY DecodingMatchInsideOutput, DecodesInStep, PTL

-----------------------------------------------------------------------------
(* The abstract specification: a step copies literals, copies a match,     *)
(* returns, or shows nothing.                                              *)
LEMMA PromisedLiterals ==
    ASSUME IInv, WellFormed(call), call' = call, NEW i \in 1 .. Len(Script),
           (AtFew(i) /\ LitLen) \/ (AtLiteral(i) /\ CopyLiteral)
    PROVE  Promise!Emit
<1>1. CallOK(call) /\ Spelled(call)
  BY InvFacts DEF WellFormed
<1>2. pc # "Idle" /\ pc' = "DecodeMatchOffset"
  BY DEF LitLen, CopyLiteral
<1>3. Made(call.out[i])
  BY DEF AtFew, AtLiteral, Ready, Holding
<1>4. AtOffset(i)'
  BY LitLenStep, CopyLiteralStep
<1>5. Made(From(i))' /\ From(i)' = From(i)
  BY <1>4, PlacesKept DEF AtOffset, Ready, Holding
<1>6. call.out[i] < From(i)
  <2> DEFINE n == call.out[i]
             lit == Lit(i)
             from == From(i)
  <2>1. /\ n \in Nat /\ lit \in Nat /\ from = n + lit
        /\ lit \in {1, 2} \/ lit > 0
    BY <1>1, Layout DEF AtFew, AtLiteral
  <2> HIDE DEF n, lit, from
  <2>2. n < from
    BY SMT, <2>1
  <2> QED BY <2>2 DEF n, from
<1>7. pc' # "Idle"
  BY <1>2
<1> QED BY <1>1, <1>2, <1>3, <1>5, <1>6, <1>7, PromisedEmit

LEMMA PromisedMatch ==
    ASSUME IInv, WellFormed(call), call' = call, NEW i \in 1 .. Len(Script),
           AtMove(i), Move
    PROVE  Promise!Emit
<1>1. CallOK(call) /\ Spelled(call) /\ i # Len(Script)
  BY InvFacts DEF WellFormed, AtMove, Moves
<1>2. pc = "BlockMove" /\ pc' = "MatchCopied"
  BY DEF Move, MoveBlock
<1>3. /\ Made(From(i)) /\ Made(call.out[i + 1])'
      /\ call.out[i + 1]' = call.out[i + 1] /\ From(i)' = From(i)
  BY MoveStep, PlacesKept, CommandKept DEF AtMove, Moved, MadeTo
<1>4. From(i) < call.out[i + 1]
  <2>1. /\ call.out[i + 1] = From(i) + Script[i].len /\ From(i) \in Nat
        /\ Script[i].len \in Nat /\ Script[i].len >= 2
    BY <1>1, Layout
  <2> QED BY SMT, <2>1
<1> QED BY <1>1, <1>2, <1>3, <1>4, PromisedEmit

(* The other steps show nothing. *)
LEMMA QuietSteps ==
    ASSUME IInv, Next, ~LitLen, ~CopyLiteral, ~Move, ~Done, ~Wai
    PROVE  wram' = wram /\ pc # "Idle" /\ pc' # "Idle"
<1>1. CASE GetExtLen \/ LenByte \/ LenWord
  <2>1. PICK w \in Word, next \in AfterLength : stack = LengthFrame(w, next)
    BY <1>1 DEF GetExtLen, LenByte, LenWord, IInv, StackShape, InLength
  <2>2. ReturnTo(stack) = next
    BY <2>1, LengthFrameIs
  <2>3. pc' \in {next, "LenByte", "LenWord", "Done"}
    BY <1>1, <2>2 DEF GetExtLen, LenNibble, LenFollows, LenByte, ByteReady,
       EndOfData, LongLen, LenWord, Length
  <2>4. wram' = wram /\ pc # "Idle"
    BY <1>1 DEF GetExtLen, LenByte, LenWord, output
  <2> QED BY <2>3, <2>4 DEF AfterLength
<1>2. CASE \/ Main \/ Setup \/ ReadToken \/ DecodeLitLen \/ LitLenRead
           \/ DecodeMatchOffset \/ OffsetLow \/ DecodeMatchLen
           \/ MatchLenRead \/ CopyMatch \/ MatchCopied
  <2>1. wram' = wram /\ pc # "Idle"
    BY <1>2 DEF Main, CallRoutine, Setup, ReadToken, DecodeLitLen, LitLenRead,
       DecodeMatchOffset, OffsetLow, DecodeMatchLen, MatchLenRead, CopyMatch,
       MatchCopied, output
  <2>2. pc' # "Idle"
    BY <1>2 DEF Main, CallRoutine, Setup, ReadToken, DecodeLitLen, NoLiteral,
       FewLiterals, ExtLitLen, CallGetExtLen, LitLenRead, DecodeMatchOffset,
       Offset00Z, Offset01Z, Offset10Z, Offset110, Offset111, OffsetLow,
       DecodeMatchLen, TokenMatchLen, ExtMatchLen, MatchLenRead, CopyMatch,
       EnterMove, MatchCopied
  <2> QED BY <2>1, <2>2
<1> QED BY <1>1, <1>2 DEF Next

LEMMA PromisedStep ==
    IInv /\ Decoding /\ [Next]_vars => [Promise!Next]_(Promise!vars)
<1> SUFFICES ASSUME IInv, Decoding, [Next]_vars
             PROVE  Promise!Next \/ UNCHANGED Promise!vars
  BY DEF Promise!vars
<1>1. /\ CallOK(call) /\ WellFormed(call) /\ Spelled(call) /\ call' = call
  BY CallKept, InvFacts DEF Decoding, WellFormed
<1>2. CASE LitLen \/ CopyLiteral
  <2>1. pc \in Steps
    BY <1>2 DEF LitLen, CopyLiteral, Steps
  <2>2. PICK i \in 1 .. Len(Script) : InCommand(i)
    BY <2>1, StageIs
  <2>3. (AtFew(i) /\ LitLen) \/ (AtLiteral(i) /\ CopyLiteral)
    BY <1>2, <2>2, StageAt DEF LitLen, CopyLiteral
  <2> QED BY <1>1, <2>3, PromisedLiterals DEF Promise!Next
<1>3. CASE Move
  <2>1. pc = "BlockMove" /\ pc \in Steps
    BY <1>3 DEF Move, MoveBlock, Steps
  <2>2. PICK i \in 1 .. Len(Script) : AtMove(i)
    BY <2>1, StageIs, StageAt
  <2> QED BY <1>1, <1>3, <2>2, PromisedMatch DEF Promise!Next
<1>4. CASE Done
  <2>1. pc = "Done" /\ Finished
    BY <1>4, StageIs DEF Done
  <2>2. pc' = "Idle" /\ wram' = wram /\ (RETLEN => x' = Size)
    BY <1>1, <1>4, <2>1, DoneStep
  <2>3. Made(Size) /\ pc # "Idle"
    BY <2>1 DEF Finished
  <2> QED BY <1>1, <2>2, <2>3, PromisedReturn DEF Promise!Next
<1>5. CASE UNCHANGED vars \/ Wai
  <2>1. UNCHANGED <<pc, x, wram>>
    BY <1>5 DEF vars, common, Wai, Idle
  <2> QED BY <1>1, <2>1, PromisedQuiet
<1>6. CASE Next /\ ~LitLen /\ ~CopyLiteral /\ ~Move /\ ~Done /\ ~Wai
  <2>1. wram' = wram /\ pc # "Idle" /\ pc' # "Idle"
    BY <1>6, QuietSteps
  <2> QED BY <1>1, <2>1, PromisedQuiet
<1> QED BY <1>2, <1>3, <1>4, <1>5, <1>6

(* On every well-formed block LZSA2_Decompress is a decompressor: what is  *)
(* in the destination is always a prefix of the text, only grows, and the  *)
(* routine returns with all of it there and, where it reports it, its      *)
(* length in X.                                                            *)
THEOREM ImplementsAlways ==
    ASSUME \A r \in Calls : WellFormed(r)
    PROVE  Spec => Implements
<1>1. Init => Promise!Init
  <2> SUFFICES ASSUME Init PROVE Promise!Init
    OBVIOUS
  <2>1. WellFormed(call) /\ CallOK(call)
    BY CallsAssumption DEF Init, RoutineInit
  <2> QED BY <2>1, PromisedInit DEF Init, RoutineInit, WellFormed
<1> QED
  BY <1>1, DecodesInStep, PromisedStep, PTL DEF Spec, Implements, Promise!Spec
=============================================================================
