-------------------------- MODULE Lz4DecoderProofs --------------------------
(***************************************************************************)
(* The first part is about LZ4_Decompress on any bytes at all, well formed *)
(* or not: what it does to the registers, the banks and the stack cannot   *)
(* be disturbed by the data (IInv).                                        *)
(*                                                                         *)
(* The second is about blocks that lz4ultra writes (WellFormed): where in  *)
(* the script the routine is at each label, and what of the text has been  *)
(* made (Decoding). From it follows that the routine is a decompressor.    *)
(***************************************************************************)
EXTENDS Lz4Decoder, LzRoutineProofs

Steady8  == {"ReadToken", "DecodeLitLen", "DecodeMatchOffset"}
Steady16 == {"CopyLiteral", "CopyMatch", "DecodeMatchLen", "Done"}
Moving  == {"BlockMove", "MatchCopied"}

LengthFrame(next) == Push(Frame, Item("addr", next))
SumFrame(next, w) == Push(LengthFrame(next), Item("word", w))

Sum == ItemValue(Top(stack))       \* while a length is added up

AfterLength == {"CopyLiteral", "CopyMatch"}

StackShape ==
    /\ pc = "Main" => stack = EmptyStack
    /\ pc = "Setup" => stack = Called
    /\ pc \in Steady8 \cup Steady16 => stack = Frame
    /\ pc \in Moving => /\ SavedX \in Word
                       /\ stack = MoveFrame(SavedX)
    /\ pc = "AddLength" => \E next \in AfterLength : stack = LengthFrame(next)
    /\ pc = "AddLoop" => /\ Sum \in Word
                         /\ \E next \in AfterLength :
                               stack = SumFrame(next, Sum)
    /\ pc = "Idle" => stack = EmptyStack

Width ==
    /\ pc \in {"Main", "Setup", "AddLength"} \cup Steady8 => m = 8
    /\ pc \in Steady16 \cup Moving \cup {"AddLoop"} => m = 16
    /\ pc = "Idle" /\ RETLEN => m = 8

Banks ==
    /\ pc \in {"Main", "Setup", "Idle"} => db = 128 /\ dp = 0
    /\ pc = "Setup" => /\ y = call.dst
                       /\ a = MakeWord(call.srcBank, call.dstBank)
    /\ pc \notin {"Main", "Setup", "MatchCopied", "Idle"} => db = call.srcBank
    /\ pc \notin {"Main", "Setup"} => /\ inBank = call.srcBank
                                      /\ outBank = call.dstBank

Reported == pc = "Idle" /\ RETLEN => x = Sbc(y, call.dst)

IInv == TypeOK /\ StackShape /\ Width /\ Banks /\ Reported

-----------------------------------------------------------------------------
LEMMA InitInv == Init => IInv
<1> SUFFICES ASSUME Init PROVE IInv
  OBVIOUS
<1>1. TypeOK
  BY SMT, RoutineInitType DEF Init, RoutineInit, TypeOK, Labels, Word, Byte
<1> QED BY SMT, <1>1
  DEF Init, RoutineInit, IInv, StackShape, Width, Banks, Reported,
                         Steady8, Steady16, Moving

-----------------------------------------------------------------------------
(* The two outcomes of a length field keep the invariant, for literals and *)
(* for matches.                                                            *)
LEMMA ShortLenInv ==
    ASSUME IInv, NEW field \in Byte, NEW next \in AfterLength,
           pc \in {"DecodeLitLen", "DecodeMatchLen"},
           ShortLen(field, next), 
           UNCHANGED <<fixed, output, x, y, db, match, length, token>>
    PROVE  IInv'
<1> USE DEF Steady8, Steady16, Moving, AfterLength, fixed, output
<1>1. field \in Word
  BY SMT DEF Byte, Word
<1>2. TypeOK'
  BY SMT, <1>1
  DEF ShortLen, ShortLenCarry, IInv, TypeOK, CommonTypeOK, Labels, Bit
<1>3. Frame' = Frame
  BY FrameFixed
<1> QED
  BY SMT, <1>2, <1>3 DEF ShortLen, IInv, StackShape, Width, Banks, Reported

LEMMA LongLenInv ==
    ASSUME IInv, NEW field \in Byte, NEW next \in AfterLength,
           pc \in {"DecodeLitLen", "DecodeMatchLen"},
           LongLen(field, next), 
           UNCHANGED <<fixed, output, x, y, db, match, length, token>>
    PROVE  IInv'
<1> USE DEF Steady8, Steady16, Moving, AfterLength, fixed, output
<1>1. SetLo(a, field) \in Word
  BY SetLoType DEF IInv, TypeOK, CommonTypeOK
<1>2. TypeOK'
  BY SMT, <1>1 DEF LongLen, IInv, TypeOK, CommonTypeOK, Labels, Bit
<1>3. Frame' = Frame
  BY FrameFixed
<1>4. stack' = LengthFrame(next)'
  BY SMT, <1>3 DEF LongLen, IInv, StackShape, LengthFrame
<1> QED
  BY SMT, <1>2, <1>3, <1>4 DEF LongLen, IInv, StackShape, Width, Banks, Reported

-----------------------------------------------------------------------------
(* Every action preserves the invariant. *)
LEMMA StepInv == IInv /\ [Next]_vars => IInv'
<1> SUFFICES ASSUME IInv, [Next]_vars PROVE IInv'
  OBVIOUS
<1> USE DEF Steady8, Steady16, Moving, AfterLength, fixed, output
<1>c. /\ CallOK(call) /\ call.block \in Seq(Byte)
      /\ call.src \in Word /\ call.dst \in Word
      /\ call.srcBank \in Byte /\ call.dstBank \in Byte
  BY CallType DEF IInv, TypeOK, CommonTypeOK
<1>t. CommonTypeOK
  BY DEF IInv, TypeOK
<1>l. ReadByte \in Byte /\ ReadWord \in Word
  BY <1>t, LoadType
<1>1. CASE Main
  <2>0. Len(call.block) \in Nat
    BY SMT, <1>c
  <2>1. Wrap(Len(call.block)) \in Word
    BY <2>0, WrapType
  <2>2. TypeOK'
    <3>1. CommonTypeOK'
      BY <1>1, <1>t, CallRoutineType DEF Main
    <3>2. length' \in Word
      BY <1>1, <2>1 DEF Main
    <3>3. pc' \in Labels
      BY SMT, <1>1 DEF Main, CallRoutine, Labels
    <3> QED BY SMT, <1>1, <3>1, <3>2, <3>3 DEF Main, IInv, TypeOK
  <2> QED
    BY SMT, <1>1, <2>2
    DEF Main, CallRoutine, IInv, StackShape, Width, Banks, Reported, Called
<1>2. CASE Setup
  <2>1. TypeOK'
    <3>1. /\ db' \in Byte /\ dp' \in Word /\ a' \in Word
          /\ inBank' \in Byte /\ outBank' \in Byte /\ wmadd' \in WramAddress
      BY <1>2, <1>t, SetupFrameType DEF Setup, CommonTypeOK
    <3>2. Adc(x, length, 0) \in Word /\ CarryOut(x, length, 0) \in Bit
      BY SMT, AdcType DEF IInv, TypeOK, CommonTypeOK, Bit
    <3> QED BY SMT, <1>2, <3>1, <3>2
      DEF Setup, IInv, TypeOK, CommonTypeOK, Labels
  <2>2. /\ stack = Called /\ db = 128 /\ dp = 0 /\ y = call.dst
        /\ a = MakeWord(call.srcBank, call.dstBank)
    BY SMT, <1>2 DEF Setup, IInv, StackShape, Banks
  <2>3. /\ stack' = Frame'
        /\ db' = call.srcBank /\ inBank' = call.srcBank
        /\ outBank' = call.dstBank
    BY <1>2, <1>c, <2>2, SetupBuildsFrame DEF Setup
  <2> QED
    BY SMT, <1>2, <2>1, <2>3 DEF Setup, IInv, StackShape, Width, Banks, Reported
<1>3. CASE ReadToken
  <2>1. TypeOK'
    <3>1. SetLo(a, ReadByte) \in Word
      BY <1>t, <1>l, SetLoType DEF CommonTypeOK
    <3>2. Wrap(x + 1) \in Word
      BY SMT, <1>t, WrapType DEF CommonTypeOK, Word
    <3> QED BY SMT, <1>3, <1>l, <3>1, <3>2
      DEF ReadToken, IInv, TypeOK, CommonTypeOK, Labels
  <2>2. Frame' = Frame
    BY <1>3, FrameFixed DEF ReadToken
  <2> QED
    BY SMT, <1>3, <2>1, <2>2
    DEF ReadToken, IInv, StackShape, Width, Banks, Reported
<1>4. CASE DecodeLitLen
  <2>1. token \div 16 \in Byte
    BY SMT DEF IInv, TypeOK, Byte
  <2>2. CASE NoLiteral
    <3>1. SetLo(a, 0) \in Word
      BY SMT, <1>t, SetLoType DEF CommonTypeOK, Byte
    <3>2. TypeOK'
      BY SMT, <1>4, <2>2, <3>1
      DEF DecodeLitLen, NoLiteral, IInv, TypeOK, CommonTypeOK, Labels
    <3>3. Frame' = Frame
      BY <1>4, FrameFixed DEF DecodeLitLen
    <3> QED
      BY SMT, <1>4, <2>2, <3>2, <3>3
      DEF DecodeLitLen, NoLiteral, IInv, StackShape, Width, Banks, Reported
  <2>3. CASE ShortLen(token \div 16, "CopyLiteral")
    BY <1>4, <2>1, <2>3, ShortLenInv DEF DecodeLitLen
  <2>4. CASE LongLen(token \div 16, "CopyLiteral")
    BY <1>4, <2>1, <2>4, LongLenInv DEF DecodeLitLen
  <2> QED BY <1>4, <2>2, <2>3, <2>4 DEF DecodeLitLen
<1>5. CASE CopyLiteral
  <2>1. TypeOK'
    <3>2. WramOK(wram') /\ wmadd' \in WramAddress /\ x' \in Word
      BY <1>5, <1>t, PortAtYType, CopyRunType DEF CopyLiteral, CommonTypeOK
    <3>3. AfterLiteral \in Word /\ CarryOut(y, a, c) \in Bit
      BY AdcType, <1>t DEF AfterLiteral, CommonTypeOK
    <3>4. SetLo(AfterLiteral, 64) \in Word
      BY SMT, <3>3, SetLoType DEF Byte
    <3> QED
      BY SMT, <1>5, <3>2, <3>3, <3>4
      DEF CopyLiteral, IInv, TypeOK, CommonTypeOK, Labels, WramOK
  <2>2. Frame' = Frame
    BY <1>5, FrameFixed DEF CopyLiteral
  <2> QED
    BY SMT, <1>5, <2>1, <2>2
    DEF CopyLiteral, IInv, StackShape, Width, Banks, Reported
<1>6. CASE DecodeMatchOffset
  <2>1. Wrap(x + 2) \in Word
    BY SMT, <1>t, WrapType DEF CommonTypeOK, Word
  <2>2. NoBorrow(Wrap(x + 2), length) \in Bit
    BY <2>1, SbcType DEF IInv, TypeOK
  <2>3. TypeOK'
    <3>1. x' \in Word /\ c' \in Bit /\ a' \in Word /\ m' = 16
      BY SMT, <1>6, <1>l, <2>1, <2>2 DEF DecodeMatchOffset
    <3>2. pc' \in Labels /\ match' \in Word
      BY SMT, <1>6, <1>l
      DEF DecodeMatchOffset, AtEnd, IInv, TypeOK, CommonTypeOK, Labels
    <3>3. UNCHANGED <<fixed, output, y, db, length, token>>
      BY <1>6 DEF DecodeMatchOffset
    <3> QED BY SMT, <3>1, <3>2, <3>3 DEF IInv, TypeOK, CommonTypeOK
  <2>4. Frame' = Frame
    BY <1>6, FrameFixed DEF DecodeMatchOffset
  <2> QED
    BY SMT, <1>6, <2>3, <2>4
    DEF DecodeMatchOffset, IInv, StackShape, Width, Banks, Reported
<1>7. CASE DecodeMatchLen
  <2>1. token % 16 \in Byte
    BY SMT DEF IInv, TypeOK, Byte
  <2> QED
    BY <1>7, <2>1, ShortLenInv, LongLenInv DEF DecodeMatchLen
<1>8. CASE CopyMatch
  <2>1. MatchSource \in Word /\ NoBorrow(y, match) \in Bit
    BY SbcType, <1>t DEF MatchSource, CommonTypeOK
  <2>2. MvnOperand(a) \in Word
    BY SMT, <1>t, WrapType DEF MvnOperand, CommonTypeOK, Word
  <2>3. stack = Frame /\ db = call.srcBank
    BY SMT, <1>8 DEF CopyMatch, IInv, StackShape, Banks
  <2>4. /\ stack' = MoveFrame(x) /\ SavedX' = x
        /\ x' = MatchSource /\ a' = MvnOperand(a)
    BY <1>8, <2>1, <2>2, <2>3, EnterMoveFrame DEF CopyMatch
  <2>5. TypeOK'
    BY SMT, <1>8, <2>1, <2>2, <2>4
    DEF CopyMatch, EnterMove, IInv, TypeOK, CommonTypeOK, Labels
  <2>6. Frame' = Frame
    BY <1>8, FrameFixed DEF CopyMatch
  <2>7. stack' = Push(Push(Frame', Item("word", SavedX')),
                      Item("db", call.srcBank'))
    BY SMT, <1>8, <2>4, <2>6 DEF CopyMatch, MoveFrame
  <2>8. x \in Word
    BY <1>t DEF CommonTypeOK
  <2> QED
    BY SMT, <1>8, <2>4, <2>5, <2>7, <2>8
    DEF CopyMatch, EnterMove, IInv, StackShape, Width, Banks, Reported,
        MoveFrame
<1>9. CASE Move
  <2>1. TypeOK'
    <3>1. CommonTypeOK'
      BY <1>9, <1>t, MoveBlockType DEF Move
    <3> QED BY SMT, <1>9, <3>1 DEF Move, MoveBlock, IInv, TypeOK, Labels
  <2>2. Frame' = Frame
    BY <1>9, FrameFixed DEF Move, MoveBlock
  <2>3. SavedX' = SavedX
    BY SMT, <1>9 DEF Move, MoveBlock, SavedX
  <2> QED
    BY SMT, <1>9, <2>1, <2>2, <2>3
    DEF Move, MoveBlock, IInv, StackShape, Width, Banks, Reported, MoveFrame
<1>10. CASE MatchCopied
  <2>1. stack = MoveFrame(SavedX) /\ SavedX \in Word
    BY SMT, <1>10 DEF MatchCopied, IInv, StackShape
  <2>2. /\ db' = call.srcBank /\ db' \in Byte
        /\ x' = SavedX /\ stack' = Frame /\ m' = 8
    BY <1>10, <1>t, <2>1, LeaveMoveFrame DEF MatchCopied
  <2>3. TypeOK'
    BY SMT, <1>10, <2>1, <2>2
    DEF MatchCopied, IInv, TypeOK, CommonTypeOK, Labels
  <2>4. Frame' = Frame
    BY <1>10, FrameFixed DEF MatchCopied
  <2> QED
    BY SMT, <1>10, <2>2, <2>3, <2>4
    DEF MatchCopied, IInv, StackShape, Width, Banks, Reported
<1>11. CASE AddLength
  <2>1. Lo(a) \in Word
    BY HalfType, <1>t DEF CommonTypeOK
  <2>2. TypeOK'
    BY SMT, <1>11, <2>1 DEF AddLength, IInv, TypeOK, CommonTypeOK, Labels
  <2>3. Frame' = Frame
    BY <1>11, FrameFixed DEF AddLength
  <2>4. PICK next \in AfterLength : stack = LengthFrame(next)
    BY SMT, <1>11 DEF AddLength, IInv, StackShape
  <2>5. stack' = Push(Push(Frame, Item("addr", next)), Item("word", Lo(a)))
    BY SMT, <1>11, <2>4 DEF AddLength, LengthFrame
  <2>6. Sum' = Lo(a)
    BY SMT, <2>5 DEF Sum, Top, Push, Item, ItemValue
  <2> QED
    BY SMT, <1>11, <2>1, <2>2, <2>3, <2>5, <2>6
    DEF AddLength, IInv, StackShape, Width, Banks, Reported, SumFrame,
        LengthFrame
<1>12. CASE AddLoop
  <2>1. Adc(ReadByte, Sum, 0) \in Word /\ CarryOut(ReadByte, Sum, 0) \in Bit
    <3>1. ReadByte \in Word
      BY SMT, <1>l DEF Byte, Word
    <3> QED BY SMT, <1>12, <3>1, AdcType DEF AddLoop, IInv, StackShape, Bit
  <2>2. Wrap(x + 1) \in Word
    BY SMT, <1>t, WrapType DEF CommonTypeOK, Word
  <2>3. PICK next \in AfterLength : stack = SumFrame(next, Sum)
    BY SMT, <1>12 DEF AddLoop, IInv, StackShape
  <2>4. /\ Pop(stack) = LengthFrame(next)
        /\ ReturnTo(Pop(stack)) = next
        /\ Pop(Pop(stack)) = Frame
    BY SMT, <2>3 DEF SumFrame, LengthFrame, Top, Pop, Push, Item, ReturnTo
  <2>5. Frame' = Frame
    BY <1>12, FrameFixed DEF AddLoop
  <2>6. CASE MoreBytes(ReadByte)
    <3>1. pc' = "AddLoop" /\ stack' = SumFrame(next, Adc(ReadByte, Sum, 0))
      BY SMT, <1>12, <2>4, <2>6 DEF AddLoop, SumFrame, Sum
    <3>2. Sum' = Adc(ReadByte, Sum, 0)
      BY SMT, <3>1 DEF Sum, SumFrame, Top, Push, Item, ItemValue
    <3>3. TypeOK'
      BY SMT, <1>12, <2>1, <2>2, <3>1
      DEF AddLoop, Sum, IInv, TypeOK, CommonTypeOK, Labels
    <3> QED
      BY SMT, <1>12, <2>1, <2>5, <3>1, <3>2, <3>3
      DEF AddLoop, IInv, StackShape, Width, Banks, Reported, SumFrame,
          LengthFrame
  <2>7. CASE ~MoreBytes(ReadByte)
    <3>1. pc' = next /\ stack' = Frame
      BY SMT, <1>12, <2>4, <2>7 DEF AddLoop
    <3>2. TypeOK'
      BY SMT, <1>12, <2>1, <2>2, <3>1
      DEF AddLoop, Sum, IInv, TypeOK, CommonTypeOK, Labels
    <3> QED
      BY SMT, <1>12, <2>5, <3>1, <3>2
      DEF AddLoop, IInv, StackShape, Width, Banks, Reported
  <2> QED BY <2>6, <2>7
<1>13. CASE Done
  <2>1. stack = Frame
    BY SMT, <1>13 DEF Done, IInv, StackShape
  <2>2. /\ stack' = EmptyStack /\ pc' = "Idle"
        /\ db' = 128 /\ dp' = 0
        /\ RETLEN => x' = Sbc(y, call.dst)
        /\ x' \in Word /\ a' \in Word /\ c' \in Bit
    BY <1>13, <1>t, <2>1, LeaveFrame DEF Done, CommonTypeOK
  <2>3. m' \in {8, 16} /\ (RETLEN => m' = 8)
    BY SMT, <1>13, <1>t DEF Done, WidthAtReturn, CommonTypeOK
  <2>4. 128 \in Byte /\ 0 \in Word
    BY SMT DEF Byte, Word
  <2>5. TypeOK'
    BY SMT, <1>13, <2>2, <2>3, <2>4 DEF Done, IInv, TypeOK, CommonTypeOK, Labels
  <2>6. Reported'
    BY SMT, <1>13, <2>2 DEF Done, Reported
  <2> QED
    BY SMT, <1>13, <2>2, <2>3, <2>5, <2>6
    DEF Done, IInv, StackShape, Width, Banks
<1>14. CASE UNCHANGED vars
  <2>1. Frame' = Frame
    BY <1>14, FrameFixed DEF vars, common
  <2> QED
    BY SMT, <1>14, <2>1
    DEF vars, common, IInv, TypeOK, CommonTypeOK, StackShape, Width, Banks,
        Reported,
        MoveFrame, LengthFrame, SumFrame, SavedX, Sum
<1>15. CASE Wai
  BY <1>14, <1>15 DEF Wai, Idle, vars
<1> QED
  BY <1>1, <1>2, <1>3, <1>4, <1>5, <1>6, <1>7, <1>8, <1>9, <1>10, <1>11, <1>12,
     <1>13, <1>14, <1>15 DEF Next

(* The call being served stays what it is. *)
LEMMA CallKept == [Next]_vars => call' = call
BY SMT DEF Next, Main, Setup, ReadToken, DecodeLitLen, CopyLiteral,
           DecodeMatchOffset, DecodeMatchLen, CopyMatch, Move, MatchCopied,
           AddLength, AddLoop, Done, Wai, CallRoutine, MoveBlock, Idle,
           common, fixed, vars

-----------------------------------------------------------------------------
(* The stack, the widths, the banks and the length are what IInv says at   *)
(* every label of LZ4_Decompress, whatever bytes are in the block.         *)
THEOREM Invariance == Spec => []IInv
BY InitInv, StepInv, PTL DEF Spec

(* The registers and the WRAM written stay what they are declared to be,   *)
(* on every block, and the CPU never leaves the labels of the code: no RTS *)
(* or RTL takes something for an address that is not one.                  *)
THEOREM TypeCorrect == Spec => []TypeOK
<1>1. IInv => TypeOK
  BY DEF IInv
<1> QED BY Invariance, <1>1, PTL

(* Whatever the block says, when the routine returns the caller's stack,   *)
(* DB and DP are what they were.                                           *)
THEOREM CallerRestoredAlways == Spec => []CallerRestored
<1>1. IInv => CallerRestored
  BY DEF IInv, StackShape, Banks, CallerRestored
<1> QED BY Invariance, <1>1, PTL

(* Built to report the length, the routine returns as its header says: in  *)
(* 8 bit mode, with the distance from the destination to the end in X.     *)
THEOREM ReturnsIn8BitAlways == ASSUME RETLEN PROVE Spec => []ReturnsIn8Bit
<1>1. IInv => ReturnsIn8Bit
  BY DEF IInv, Width, ReturnsIn8Bit
<1> QED BY Invariance, <1>1, PTL

LengthReported == pc = "Idle" /\ RETLEN => x = Produced

(* The length handed back is the distance from the destination to Y, on   *)
(* any block, in a build that returns it (Done).                           *)
THEOREM LengthReportedAlways == Spec => []LengthReported
<1>1. IInv => LengthReported
  BY SMT DEF IInv, Reported, LengthReported, Produced, Sbc
<1> QED BY Invariance, <1>1, PTL

(* Every load goes through the bank the block is in, although every block  *)
(* move leaves DB at the destination's, and the DMA reads from it too.     *)
THEOREM LoadsFromBlockBankAlways == Spec => []LoadsFromBlockBank
<1>1. IInv => LoadsFromBlockBank
  BY SMT DEF IInv, Banks, LoadsFromBlockBank
<1> QED BY Invariance, <1>1, PTL

-----------------------------------------------------------------------------
(* A well-formed block: the text is spelled by a script, in one bank, and  *)
(* the block is what the compressor writes for it.                         *)
Format == INSTANCE Lz4Format

WellFormed(r) == Spelled(r) /\ Format!Encodes(r)

Lit(i) == Script[i].lit
Enc(i) == IF Script[i].len = 0 THEN 0 ELSE Script[i].len - 4

(* The length field of the token, and how many bytes follow it. *)
Field(n) == IF n >= RunLen THEN RunLen ELSE n
Full(n)  == (n - RunLen) \div 255                \* as many are 255
Rest(n)  == (n - RunLen) % 255
More(n)  == IF n < RunLen THEN 0 ELSE Full(n) + 1

(* Where the parts of command i are in the block. *)
LitLenAt(i)   == call.at[i] + 1
LitAt(i)      == LitLenAt(i) + More(Lit(i))
OffAt(i)      == LitAt(i) + Lit(i)
MatchLenAt(i) == OffAt(i) + 2

LengthAt(p, n) ==
    \A j \in 0 .. More(n) - 1 :
        call.block[p + j + 1] = IF j < Full(n) THEN 255 ELSE Rest(n)

LEMMA MoreType ==
    ASSUME NEW n \in Nat
    PROVE  /\ Field(n) \in 0 .. 15 /\ More(n) \in Nat
           /\ n >= RunLen => /\ Full(n) \in Nat /\ Rest(n) \in 0 .. 254
                            /\ n = 15 + 255 * Full(n) + Rest(n)
BY SMT DEF Field, More, Full, Rest, RunLen

LEMMA VarlenBytes ==
    ASSUME NEW n \in Nat
    PROVE  LET s == Format!Varlen(n, 15)
           IN  /\ s \in Seq(Int) /\ Len(s) = More(n)
               /\ \A j \in 0 .. More(n) - 1 :
                     s[j + 1] = IF j < Full(n) THEN 255 ELSE Rest(n)
<1>1. CASE n < 15
  BY SMT, <1>1 DEF Format!Varlen, More, RunLen
<1>2. CASE ~(n < 15)
  <2> DEFINE k == Full(n)
             r == Rest(n)
             s == [i \in 1 .. k |-> 255]
  <2>1. k \in Nat /\ r \in Int /\ More(n) = k + 1
    BY SMT, <1>2 DEF Full, Rest, More, RunLen
  <2>2. Format!Varlen(n, 15) = s \o <<r>>
    BY <1>2 DEF Format!Varlen, Full, Rest, RunLen
  <2> HIDE DEF k, r
  <2>3. s \in Seq(Int) /\ Len(s) = k /\ \A i \in 1 .. k : s[i] = 255
    BY SMT, <2>1
  <2> HIDE DEF s
  <2>4. /\ s \o <<r>> \in Seq(Int) /\ Len(s \o <<r>>) = k + 1
        /\ \A j \in 0 .. k : (s \o <<r>>)[j + 1] = IF j < k THEN 255 ELSE r
    BY SMT, <2>1, <2>3
  <2>5. \A j \in 0 .. More(n) - 1 :
           Format!Varlen(n, 15)[j + 1] = IF j < k THEN 255 ELSE r
    <3>1. More(n) - 1 = k
      BY SMT, <2>1
    <3> TAKE j \in 0 .. More(n) - 1
    <3>2. j \in 0 .. k
      BY <3>1
    <3>3. (s \o <<r>>)[j + 1] = IF j < k THEN 255 ELSE r
      BY <2>4, <3>2
    <3> QED BY <2>2, <3>3
  <2> QED BY <2>1, <2>2, <2>4, <2>5 DEF k, r
<1> QED BY <1>1, <1>2

LEMMA TokenByte ==
    ASSUME NEW n \in Nat, NEW k \in Nat
    PROVE  Format!Token(n, k) = <<Field(n) * 16 + Field(k)>>
BY DEF Format!Token, Format!AtMost, Field, RunLen, Format!LITERALS_RUN_LEN,
       Format!MATCH_RUN_LEN

(* What the parts of command i say, and where they are. *)
Parsed(i) ==
    /\ LET t == Field(Lit(i)) * 16 + Field(Enc(i))
       IN  Holds(call.at[i], <<t>>)
    /\ LengthAt(LitLenAt(i), Lit(i))
    /\ LitAt(i) + Lit(i) <= Len(call.block)
    /\ \A j \in 1 .. Lit(i) :
          call.block[LitAt(i) + j] = call.plain[call.out[i] + j]
    /\ IF Script[i].len = 0 THEN Holds(OffAt(i), <<0, 0>>)
       ELSE Holds(OffAt(i), <<Script[i].off % 256, Script[i].off \div 256>>)
    /\ LengthAt(MatchLenAt(i), Enc(i))
    /\ call.at[i + 1] = MatchLenAt(i) + More(Enc(i))
    /\ call.at[i + 1] <= Len(call.block)

LEMMA CommandAt ==
    ASSUME CallOK(call), WellFormed(call), NEW i \in 1 .. Len(Script)
    PROVE  /\ call.at[i] \in Nat /\ Len(Script) \in Nat
           /\ Holds(call.at[i],
                    Format!WriteCommand(Text!LiteralsOf(call, i), Script[i]))
           /\ call.at[i + 1] = call.at[i]
                + Len(Format!WriteCommand(Text!LiteralsOf(call, i), Script[i]))
           /\ call.at[1] = 0 /\ call.at[Len(Script) + 1] = Len(call.block)
           /\ IF i = Len(Script) THEN Script[i].len = 0
              ELSE Script[i].len >= 4
<1>1. Len(Script) \in Nat /\ Len(call.block) \in Nat
  BY SMT DEF WellFormed, Spelled, Text!Spells, Script, CallOK
<1>2. call.at[i] \in Nat
  <2>1. call.at \in [1 .. Len(Script) + 1 -> 0 .. Len(call.block)]
    BY DEF WellFormed, Format!Encodes, Script
  <2> QED BY SMT, <1>1, <2>1
<1> QED
  BY <1>1, <1>2 DEF WellFormed, Format!Encodes, Script, Holds, Text!HasAt,
     Format!HasAt, Text!LiteralsOf, Format!LiteralsOf, Format!MIN_MATCH_SIZE

LEMMA LengthHeld ==
    ASSUME NEW p \in Nat, NEW n \in Nat, Holds(p, Format!Varlen(n, 15))
    PROVE  LengthAt(p, n) /\ p + More(n) <= Len(call.block)
<1> DEFINE s == Format!Varlen(n, 15)
<1>1. /\ s \in Seq(Int) /\ Len(s) = More(n) /\ More(n) \in Nat
      /\ \A j \in 0 .. More(n) - 1 :
            s[j + 1] = IF j < Full(n) THEN 255 ELSE Rest(n)
  BY VarlenBytes, MoreType
<1>2. p + Len(s) <= Len(call.block)
      /\ \A j \in 1 .. Len(s) : call.block[p + j] = s[j]
  BY DEF Holds, Text!HasAt
<1> HIDE DEF s
<1>3. ASSUME NEW j \in 0 .. More(n) - 1
      PROVE  call.block[p + j + 1] = IF j < Full(n) THEN 255 ELSE Rest(n)
  <2>1. j + 1 \in 1 .. Len(s) /\ p + (j + 1) = p + j + 1
    <3>1. Len(s) = More(n) /\ More(n) \in Nat
      BY <1>1
    <3> QED BY SMT, <3>1
  <2>2. call.block[p + j + 1] = s[j + 1]
    BY <1>2, <2>1
  <2> QED BY <1>1, <2>2
<1> QED BY <1>1, <1>2, <1>3 DEF LengthAt

LEMMA CommandParsed ==
    ASSUME CallOK(call), WellFormed(call), NEW i \in 1 .. Len(Script)
    PROVE  Parsed(i)
<1> DEFINE p == call.at[i]
           tok == <<Field(Lit(i)) * 16 + Field(Enc(i))>>
           vl == Format!Varlen(Lit(i), 15)
           lits == Text!LiteralsOf(call, i)
           off == IF Script[i].len = 0 THEN <<0, 0>>
                  ELSE <<Script[i].off % 256, Script[i].off \div 256>>
           vm == Format!Varlen(Enc(i), 15)
           front == tok \o vl \o lits \o off
           written == Format!WriteCommand(lits, Script[i])
<1>1. /\ Spelled(call) /\ p \in Nat /\ Len(call.block) \in Nat
      /\ Holds(p, written) /\ call.at[i + 1] = p + Len(written)
      /\ Script[i].len = 0 \/ Script[i].len >= 4
  BY CommandAt, SizeType DEF WellFormed
<1>2. /\ Lit(i) \in Nat /\ Enc(i) \in Nat /\ Script[i].off \in Nat
      /\ Script[i].len \in Nat
  <2>1. Script[i].lit \in Nat /\ Script[i].len \in Nat /\ Script[i].off \in Nat
    BY <1>1, CommandType
  <2> QED BY SMT, <1>1, <2>1 DEF Lit, Enc
<1>3. /\ tok \in Seq(Int) /\ Len(tok) = 1 /\ off \in Seq(Int) /\ Len(off) = 2
  <2>1. Field(Lit(i)) * 16 + Field(Enc(i)) \in Int
    <3>1. \A n \in 0 .. 15 : n \in Int
      BY SMT
    <3>2. Field(Lit(i)) \in Int /\ Field(Enc(i)) \in Int
      BY <1>2, <3>1, MoreType
    <3> DEFINE u == Field(Lit(i))
               v == Field(Enc(i))
    <3> HIDE DEF u, v
    <3>3. u \in Int /\ v \in Int
      BY <3>2 DEF u, v
    <3>4. u * 16 + v \in Int
      BY SMT, <3>3
    <3> QED BY <3>4 DEF u, v
  <2> QED BY SMT, <1>2, <2>1
<1>4. /\ vl \in Seq(Int) /\ Len(vl) = More(Lit(i))
      /\ vm \in Seq(Int) /\ Len(vm) = More(Enc(i))
  BY <1>2, VarlenBytes
<1>5. /\ lits \in Seq(Int) /\ Len(lits) = Lit(i)
      /\ \A j \in 1 .. Lit(i) : lits[j] = call.plain[call.out[i] + j]
  BY <1>1, LiteralsType DEF Lit
<1>6. front \in Seq(Int)
  <2> HIDE DEF tok, vl, lits, off
  <2>1. tok \o vl \in Seq(Int)
    BY <1>3, <1>4, ConcatType
  <2>2. tok \o vl \o lits \in Seq(Int)
    BY <1>5, <2>1, ConcatType
  <2> QED BY <1>3, <2>2, ConcatType
<1>7. written = front \o vm
  <2>1. Format!Token(Lit(i), Enc(i)) = tok
    BY <1>2, TokenByte
  <2>2. CASE Script[i].len = 0
    <3>1. written = front
      BY <2>1, <2>2 DEF Format!WriteCommand, Format!WriteLastCommand, Lit, Enc,
         Format!LITERALS_RUN_LEN
    <3>2. vm = <<>>
      BY SMT, <2>2 DEF Enc, Format!Varlen
    <3> HIDE DEF front, vm, written
    <3>3. front \o <<>> = front
      BY SMT, <1>6
    <3> QED BY <3>1, <3>2, <3>3
  <2>3. CASE Script[i].len # 0
    BY <2>1, <2>3 DEF Format!WriteCommand, Format!WriteMatchCommand, Lit, Enc,
       Format!LITERALS_RUN_LEN, Format!MATCH_RUN_LEN, Format!MIN_MATCH_SIZE
  <2> QED BY <2>2, <2>3
<1>8. /\ Holds(p, tok) /\ Holds(p + 1, vl) /\ Holds(p + 1 + Len(vl), lits)
      /\ Holds(p + 1 + Len(vl) + Len(lits), off)
      /\ Holds(p + Len(front), vm)
      /\ Len(front) = 1 + Len(vl) + Len(lits) + 2
      /\ Len(front \o vm) = Len(front) + Len(vm)
  <2>1. Holds(p, front) /\ Holds(p + Len(front), vm)
    <3> HIDE DEF front, vm, written
    <3> QED BY <1>1, <1>4, <1>6, <1>7, HoldsParts
  <2>2. Len(front \o vm) = Len(front) + Len(vm)
    <3> HIDE DEF front, vm
    <3> QED BY <1>4, <1>6, ConcatType
  <2>3. p \in Nat /\ Len(call.block) \in Nat
    BY <1>1
  <2> HIDE DEF tok, vl, lits, off, vm, written, p
  <2>4. /\ Holds(p, tok) /\ Holds(p + Len(tok), vl)
        /\ Holds(p + Len(tok) + Len(vl), lits)
        /\ Holds(p + Len(tok) + Len(vl) + Len(lits), off)
        /\ Len(front) = Len(tok) + Len(vl) + Len(lits) + Len(off)
    <3>1. Holds(p, tok \o vl \o lits \o off)
      BY <2>1
    <3>2. InFour(p, tok, vl, lits, off)
      <4>1. tok \in Seq(Int) /\ vl \in Seq(Int) /\ lits \in Seq(Int)
            /\ off \in Seq(Int)
        BY <1>3, <1>4, <1>5
      <4> QED BY Zenon, <2>3, <3>1, <4>1, HoldsFour
    <3> QED BY Zenon, <3>2 DEF InFour
  <2> QED BY <1>3, <2>1, <2>2, <2>4
<1> HIDE DEF front, written
<1>9. /\ p + 1 = LitLenAt(i) /\ LitLenAt(i) + Len(vl) = LitAt(i)
      /\ LitAt(i) + Len(lits) = OffAt(i)
      /\ p + Len(front) = MatchLenAt(i)
      /\ call.at[i + 1] = MatchLenAt(i) + More(Enc(i))
      /\ LitLenAt(i) \in Nat /\ LitAt(i) \in Nat /\ OffAt(i) \in Nat
      /\ MatchLenAt(i) \in Nat
  <2>1. p + 1 = LitLenAt(i) /\ LitLenAt(i) + More(Lit(i)) = LitAt(i)
        /\ LitAt(i) + Lit(i) = OffAt(i) /\ OffAt(i) + 2 = MatchLenAt(i)
    BY DEF LitLenAt, LitAt, OffAt, MatchLenAt
  <2>2. More(Lit(i)) \in Nat /\ More(Enc(i)) \in Nat
    BY <1>2, MoreType
  <2> DEFINE a1 == LitLenAt(i)
             a2 == LitAt(i)
             a3 == OffAt(i)
             a4 == MatchLenAt(i)
             l == Lit(i)
             ml == More(l)
             me == More(Enc(i))
  <2>3. /\ p \in Nat /\ ml \in Nat /\ me \in Nat /\ l \in Nat
        /\ p + 1 = a1 /\ a1 + ml = a2 /\ a2 + l = a3 /\ a3 + 2 = a4
        /\ Len(front) = 1 + ml + l + 2
        /\ call.at[i + 1] = p + (Len(front) + me)
        /\ Len(vl) = ml /\ Len(lits) = l
    BY <1>1, <1>2, <1>4, <1>5, <1>7, <1>8, <2>1, <2>2
  <2> HIDE DEF vl, lits, p, vm, a1, a2, a3, a4, l, ml, me
  <2>4. a1 \in Nat /\ a2 \in Nat /\ a3 \in Nat /\ a4 \in Nat
    BY SMT, <2>3
  <2>5. p + Len(front) = a4
    BY SMT, <2>3
  <2>6. call.at[i + 1] = a4 + me
    BY SMT, <2>3
  <2> QED BY <2>3, <2>4, <2>5, <2>6 DEF a1, a2, a3, a4, l, ml, me
<1>10. /\ LengthAt(LitLenAt(i), Lit(i))
       /\ LengthAt(MatchLenAt(i), Enc(i))
       /\ MatchLenAt(i) + More(Enc(i)) <= Len(call.block)
  BY <1>2, <1>8, <1>9, LengthHeld
<1>11. /\ LitAt(i) + Lit(i) <= Len(call.block)
       /\ \A j \in 1 .. Lit(i) : call.block[LitAt(i) + j] = lits[j]
  <2>1. Holds(LitAt(i), lits) /\ Len(lits) = Lit(i)
    BY <1>5, <1>8, <1>9
  <2> HIDE DEF lits
  <2> QED BY <2>1 DEF Holds, Text!HasAt
<1>12. Holds(OffAt(i), off)
  BY <1>8, <1>9
<1>13. \A j \in 1 .. Lit(i) :
          call.block[LitAt(i) + j] = call.plain[call.out[i] + j]
  BY <1>5, <1>11
<1>14. Holds(p, tok)
  BY <1>8
<1>15. call.at[i + 1] = MatchLenAt(i) + More(Enc(i))
       /\ call.at[i + 1] <= Len(call.block)
  BY <1>9, <1>10
<1>16. IF Script[i].len = 0 THEN Holds(OffAt(i), <<0, 0>>)
       ELSE Holds(OffAt(i), <<Script[i].off % 256, Script[i].off \div 256>>)
  BY <1>12
<1> QED BY Zenon, <1>10, <1>11, <1>13, <1>14, <1>15, <1>16 DEF Parsed

Tok(i) == Field(Lit(i)) * 16 + Field(Enc(i))

(* The places of a command in block and text, in numbers. *)
LEMMA Layout ==
    ASSUME CallOK(call), WellFormed(call), NEW i \in 1 .. Len(Script)
    PROVE  /\ i \in Nat /\ Len(Script) \in Nat /\ Len(call.block) \in Nat
           /\ Size \in Nat /\ Size \in Word
           /\ call.at[i] \in Nat /\ LitLenAt(i) \in Nat /\ LitAt(i) \in Nat
           /\ OffAt(i) \in Nat /\ MatchLenAt(i) \in Nat /\ call.at[i + 1] \in Nat
           /\ LitLenAt(i) = call.at[i] + 1
           /\ LitAt(i) = LitLenAt(i) + More(Lit(i))
           /\ OffAt(i) = LitAt(i) + Lit(i)
           /\ MatchLenAt(i) = OffAt(i) + 2
           /\ call.at[i + 1] = MatchLenAt(i) + More(Enc(i))
           /\ call.at[i + 1] <= Len(call.block)
           /\ Lit(i) \in Nat /\ Enc(i) \in Nat
           /\ More(Lit(i)) \in Nat /\ More(Enc(i)) \in Nat
           /\ call.out[i] \in Nat /\ From(i) \in Nat
           /\ From(i) = call.out[i] + Lit(i)
           /\ call.out[i + 1] = From(i) + Script[i].len
           /\ From(i) + Script[i].len <= Size
           /\ Script[i].len \in Nat /\ Script[i].off \in Nat
           /\ i = Len(Script) => /\ Script[i].len = 0 /\ From(i) = Size
                                 /\ call.at[i + 1] = Len(call.block)
           /\ i # Len(Script) => /\ Script[i].len >= 4
                                 /\ Enc(i) = Script[i].len - 4
                                 /\ Script[i].off \in 1 .. From(i)
<1>1. Spelled(call)
  BY DEF WellFormed
<1>2. /\ call.at[i] \in Nat /\ Len(Script) \in Nat
      /\ call.at[Len(Script) + 1] = Len(call.block)
      /\ IF i = Len(Script) THEN Script[i].len = 0 ELSE Script[i].len >= 4
  BY CommandAt
<1>3. /\ Len(call.block) \in Nat /\ Size \in Nat /\ Size \in Word
  BY <1>1, SizeType
<1>4. /\ Script[i].lit \in Nat /\ Script[i].len \in Nat /\ Script[i].off \in Nat
      /\ call.out[i] \in Nat /\ From(i) \in Nat
      /\ call.out[i + 1] = From(i) + Script[i].len
      /\ From(i) + Script[i].len <= Size
      /\ Script[i].len > 0 => Script[i].off \in 1 .. From(i)
      /\ From(i) = call.out[i] + Script[i].lit
  BY <1>1, CommandType DEF From
<1>5. Lit(i) = Script[i].lit
      /\ Enc(i) = (IF Script[i].len = 0 THEN 0 ELSE Script[i].len - 4)
  BY DEF Lit, Enc
<1>6. /\ call.at[i + 1] = MatchLenAt(i) + More(Enc(i))
      /\ call.at[i + 1] <= Len(call.block)
  BY CommandParsed DEF Parsed
<1>7. Lit(i) \in Nat /\ Enc(i) \in Nat
  BY SMT, <1>2, <1>4, <1>5
<1>8. More(Lit(i)) \in Nat /\ More(Enc(i)) \in Nat
  BY <1>7, MoreType
<1>9. /\ LitLenAt(i) = call.at[i] + 1
      /\ LitAt(i) = LitLenAt(i) + More(Lit(i))
      /\ OffAt(i) = LitAt(i) + Lit(i)
      /\ MatchLenAt(i) = OffAt(i) + 2
  BY DEF LitLenAt, LitAt, OffAt, MatchLenAt
<1>10. i = Len(Script) => From(i) = Size
  <2>1. call.out[Len(Script) + 1] = Size
    BY <1>1 DEF Spelled, Text!Spells, Script, Size
  <2>2. i = Len(Script) => From(i) + 0 = Size
    BY <1>2, <1>4, <2>1
  <2> QED BY SMT, <1>4, <2>2
<1>11. i \in Nat
  BY SMT
<1>12. /\ LitLenAt(i) \in Nat /\ LitAt(i) \in Nat /\ OffAt(i) \in Nat
       /\ MatchLenAt(i) \in Nat /\ call.at[i + 1] \in Nat
  <2>1. LitLenAt(i) \in Nat
    BY SMT, <1>2, <1>9
  <2>2. LitAt(i) \in Nat
    BY SMT, <1>8, <1>9, <2>1
  <2>3. OffAt(i) \in Nat
    BY SMT, <1>7, <1>9, <2>2
  <2>4. MatchLenAt(i) \in Nat
    BY SMT, <1>9, <2>3
  <2>5. call.at[i + 1] \in Nat
    BY SMT, <1>6, <1>8, <2>4
  <2> QED BY <2>1, <2>2, <2>3, <2>4, <2>5
<1>13. i # Len(Script) => /\ Script[i].len > 0 /\ Script[i].len >= 4
                          /\ Enc(i) = Script[i].len - 4
  BY SMT, <1>2, <1>4, <1>5
<1>14. i = Len(Script) => call.at[i + 1] = Len(call.block)
  BY <1>2
<1> QED BY <1>2, <1>3, <1>4, <1>5, <1>6, <1>7, <1>8, <1>9, <1>10, <1>11,
           <1>12, <1>13, <1>14

(* A command that is not the last is followed by one in the block. *)
LEMMA NextCommand ==
    ASSUME CallOK(call), WellFormed(call), NEW i \in 1 .. Len(Script),
           i # Len(Script)
    PROVE  i + 1 \in 1 .. Len(Script) /\ call.at[i + 1] < Len(call.block)
<1>1. i + 1 \in 1 .. Len(Script)
  BY SMT, Layout
<1>2. call.at[i + 1] < Len(call.block)
  <2> DEFINE k == i + 1
  <2>1. k \in 1 .. Len(Script)
    BY <1>1
  <2> HIDE DEF k
  <2>2. /\ call.at[k] \in Nat /\ LitLenAt(k) = call.at[k] + 1
        /\ LitLenAt(k) \in Nat /\ LitAt(k) = LitLenAt(k) + More(Lit(k))
        /\ More(Lit(k)) \in Nat /\ LitAt(k) \in Nat
    BY <2>1, Layout
  <2>3. /\ Lit(k) \in Nat /\ LitAt(k) \in Nat /\ Len(call.block) \in Nat
        /\ LitAt(k) + Lit(k) <= Len(call.block)
    BY <2>1, Layout, CommandParsed DEF Parsed
  <2>4. call.at[k] < LitAt(k)
    BY SMT, <2>2
  <2>5. LitAt(k) <= Len(call.block)
    BY SMT, <2>3
  <2>6. call.at[k] \in Nat /\ LitAt(k) \in Nat /\ Len(call.block) \in Nat
    BY <2>2, <2>3
  <2>7. call.at[k] < Len(call.block)
    BY SMT, <2>4, <2>5, <2>6
  <2> QED BY <2>7 DEF k
<1> QED BY <1>1, <1>2

(* The bytes a command is read from. *)
LEMMA Bytes ==
    ASSUME CallOK(call), WellFormed(call), NEW i \in 1 .. Len(Script)
    PROVE  /\ call.at[i] < Len(call.block)
           /\ call.block[call.at[i] + 1] = Tok(i)
           /\ Tok(i) \div 16 = Field(Lit(i)) /\ Tok(i) % 16 = Field(Enc(i))
           /\ OffAt(i) + 1 < Len(call.block)
           /\ i # Len(Script) =>
                 MakeWord(call.block[OffAt(i) + 1], call.block[OffAt(i) + 2])
                     = Script[i].off
<1>1. Parsed(i)
  BY CommandParsed
<1>2. /\ call.at[i] + 1 <= Len(call.block)
      /\ call.block[call.at[i] + 1] = Tok(i)
  <2>1. Holds(call.at[i], <<Tok(i)>>)
    BY <1>1 DEF Parsed, Tok
  <2> DEFINE t == Tok(i)
             p == call.at[i]
  <2> HIDE DEF t, p
  <2>2. Holds(p, <<t>>)
    BY <2>1 DEF t, p
  <2>3. Len(<<t>>) = 1 /\ <<t>>[1] = t /\ 1 \in 1 .. 1
    BY SMT
  <2> QED BY <2>2, <2>3 DEF Holds, Text!HasAt, t, p
<1>3. /\ call.at[i] \in Nat /\ Len(call.block) \in Nat
      /\ Script[i].off \in Nat /\ OffAt(i) \in Nat
      /\ Lit(i) \in Nat /\ Enc(i) \in Nat
      /\ i # Len(Script) => Script[i].len >= 4
      /\ Script[i].len \in Nat
  BY Layout
<1>4. call.at[i] < Len(call.block)
  <2>1. call.at[i] \in Nat /\ Len(call.block) \in Nat
        /\ call.at[i] + 1 <= Len(call.block)
    BY <1>2, <1>3
  <2> QED BY SMT, <2>1
<1>5. Tok(i) \div 16 = Field(Lit(i)) /\ Tok(i) % 16 = Field(Enc(i))
  <2>1. Field(Lit(i)) \in 0 .. 15 /\ Field(Enc(i)) \in 0 .. 15
    BY <1>3, MoreType
  <2>2. \A u, v \in 0 .. 15 : (u * 16 + v) \div 16 = u /\ (u * 16 + v) % 16 = v
    BY SMT
  <2> QED BY Zenon, <2>1, <2>2 DEF Tok
<1>6. \E u, v : /\ Holds(OffAt(i), <<u, v>>)
                /\ Script[i].len # 0 => /\ u = Script[i].off % 256
                                        /\ v = Script[i].off \div 256
  BY <1>1 DEF Parsed
<1>7. PICK u, v : /\ Holds(OffAt(i), <<u, v>>)
                  /\ Script[i].len # 0 => /\ u = Script[i].off % 256
                                          /\ v = Script[i].off \div 256
  BY <1>6
<1>8. /\ OffAt(i) + 2 <= Len(call.block)
      /\ call.block[OffAt(i) + 1] = u /\ call.block[OffAt(i) + 2] = v
  <2>1. Len(<<u, v>>) = 2 /\ <<u, v>>[1] = u /\ <<u, v>>[2] = v
        /\ 1 \in 1 .. 2 /\ 2 \in 1 .. 2
    BY SMT
  <2> QED BY <1>7, <2>1 DEF Holds, Text!HasAt
<1>9. i # Len(Script) => MakeWord(u, v) = Script[i].off
  <2>1. i # Len(Script) => Script[i].len # 0
    BY SMT, <1>3
  <2>2. \A n \in Nat : (n \div 256) * 256 + (n % 256) = n
    BY SMT
  <2> QED BY <1>3, <1>7, <2>1, <2>2 DEF MakeWord
<1>10. OffAt(i) + 1 < Len(call.block)
  BY SMT, <1>3, <1>8
<1> QED BY <1>2, <1>4, <1>5, <1>8, <1>9, <1>10

-----------------------------------------------------------------------------
(* Where the routine is in command i, label by label: X is at the part of  *)
(* the command that comes next, the text before it has been made, and the  *)
(* accumulator, the token and the last offset are the command's own.       *)
AtToken(i) == /\ pc = "ReadToken"
              /\ x = Position(call.at[i])
              /\ MadeTo(call.out[i])

AtLitLen(i) == /\ pc = "DecodeLitLen" /\ token = Tok(i)
               /\ x = Position(LitLenAt(i))
               /\ MadeTo(call.out[i])

(* The length n is being added up from its field and the bytes from p on.  *)
Adding(next, p, n) ==
    /\ n >= RunLen
    /\ \/ pc = "AddLength" /\ stack = LengthFrame(next)
          /\ Lo(a) = RunLen /\ x = Position(p)
       \/ /\ pc = "AddLoop"
          /\ \E j \in 0 .. Full(n) : /\ stack = SumFrame(next, RunLen + 255 * j)
                                    /\ x = Position(p + j)

AddingLit(i) == /\ token = Tok(i)
                /\ Adding("CopyLiteral", LitLenAt(i), Lit(i))
                /\ MadeTo(call.out[i])

AtLiteral(i) == /\ pc = "CopyLiteral" /\ token = Tok(i)
                /\ a = Lit(i) /\ a > 0 /\ c = 0
                /\ x = Position(LitAt(i))
                /\ MadeTo(call.out[i])

AtOffset(i) == /\ pc = "DecodeMatchOffset" /\ token = Tok(i)
               /\ x = Position(OffAt(i))
               /\ MadeTo(From(i))

Matching(i) == i # Len(Script) /\ MadeTo(From(i))

AtMatchLen(i) == /\ pc = "DecodeMatchLen" /\ token = Tok(i)
                 /\ match = Script[i].off
                 /\ x = Position(MatchLenAt(i))
                 /\ Matching(i)

AddingMatch(i) == /\ match = Script[i].off
                  /\ Adding("CopyMatch", MatchLenAt(i), Enc(i))
                  /\ Matching(i)

AtMatch(i) == /\ pc = "CopyMatch"
              /\ match = Script[i].off /\ a = Enc(i)
              /\ x = Position(call.at[i + 1])
              /\ Matching(i)

AtMove(i) == /\ pc = "BlockMove"
             /\ stack = MoveFrame(Position(call.at[i + 1]))
             /\ x = call.dst + From(i) - Script[i].off
             /\ a + 1 = Script[i].len
             /\ Matching(i)

Moved(i) == /\ pc = "MatchCopied"
            /\ stack = MoveFrame(Position(call.at[i + 1]))
            /\ i # Len(Script)
            /\ MadeTo(call.out[i + 1])

InCommand(i) ==
    \/ AtToken(i) \/ AtLitLen(i) \/ AddingLit(i) \/ AtLiteral(i) \/ AtOffset(i)
    \/ AtMatchLen(i) \/ AddingMatch(i) \/ AtMatch(i) \/ AtMove(i) \/ Moved(i)

EndIs == length = Position(Len(call.block))

Decoding ==
    /\ WellFormed(call)
    /\ \/ pc = "Main" /\ NothingWritten
       \/ /\ pc = "Setup" /\ NothingWritten
          /\ x = call.src /\ length = Wrap(Len(call.block))
       \/ EndIs /\ \E i \in 1 .. Len(Script) : InCommand(i)
       \/ pc \in {"Done", "Idle"} /\ MadeTo(Size)

LEMMA CommandKept ==
    ASSUME call' = call, NEW i
    PROVE  /\ call.at[i]' = call.at[i] /\ call.at[i + 1]' = call.at[i + 1]
           /\ call.out[i]' = call.out[i] /\ call.out[i + 1]' = call.out[i + 1]
           /\ LitLenAt(i)' = LitLenAt(i) /\ LitAt(i)' = LitAt(i)
           /\ OffAt(i)' = OffAt(i) /\ MatchLenAt(i)' = MatchLenAt(i)
           /\ Lit(i)' = Lit(i) /\ Enc(i)' = Enc(i) /\ Tok(i)' = Tok(i)
BY DEF LitLenAt, LitAt, OffAt, MatchLenAt, Lit, Enc, Tok, Script

(* What a call's invariants give at every step. *)
LEMMA InvFacts ==
    ASSUME IInv
    PROVE  /\ CommonTypeOK /\ CallOK(call) /\ wmadd \in WramAddress
           /\ a \in Word /\ length \in Word
           /\ pc \notin {"Main", "Setup", "MatchCopied", "Idle"}
                  => db = call.srcBank
           /\ pc \notin {"Main", "Setup"} => /\ inBank = call.srcBank
                                             /\ outBank = call.dstBank
           /\ pc \in Steady8 \cup Steady16 => stack = Frame
BY DEF IInv, TypeOK, CommonTypeOK, Banks, StackShape

-----------------------------------------------------------------------------
(* Each action takes the routine from one part of the command to the next. *)
LEMMA ReadTokenStep ==
    ASSUME IInv, WellFormed(call), NEW i \in 1 .. Len(Script),
           AtToken(i), ReadToken
    PROVE  AtLitLen(i)'
<1>1. /\ CallOK(call) /\ Spelled(call) /\ db = call.srcBank
      /\ x = Position(call.at[i]) /\ MadeTo(call.out[i])
  BY InvFacts DEF WellFormed, AtToken
<1>2. /\ call.at[i] \in Nat /\ call.at[i] < Len(call.block)
      /\ call.block[call.at[i] + 1] = Tok(i)
      /\ LitLenAt(i) = call.at[i] + 1
      /\ Len(call.block) \in Nat
  BY <1>1, Layout, Bytes
<1>3. ReadByte = Tok(i)
  BY <1>1, <1>2, LoadByte
<1>4. Wrap(x + 1) = Position(LitLenAt(i))
  <2>1. call.at[i] \in 0 .. Len(call.block)
    BY SMT, <1>2
  <2> QED BY <1>1, <1>2, <2>1, PositionType
<1>5. call' = call /\ UNCHANGED <<y, wram, wmadd>>
  BY DEF ReadToken, fixed, output
<1>6. MadeTo(call.out[i])'
  BY <1>1, <1>5, MadeToKept
<1>7. /\ Position(LitLenAt(i))' = Position(LitLenAt(i))
      /\ Tok(i)' = Tok(i)
  BY <1>5, PlacesKept, CommandKept
<1>8. pc' = "DecodeLitLen" /\ token' = Tok(i) /\ x' = Position(LitLenAt(i))
  BY <1>3, <1>4 DEF ReadToken
<1> QED BY <1>6, <1>7, <1>8 DEF AtLitLen

(* The length field of the literals. *)
LEMMA DecodeLitLenStep ==
    ASSUME IInv, WellFormed(call), NEW i \in 1 .. Len(Script),
           AtLitLen(i), DecodeLitLen
    PROVE  AtOffset(i)' \/ AtLiteral(i)' \/ AddingLit(i)'
<1>1. /\ CallOK(call) /\ token = Tok(i) /\ a \in Word
      /\ x = Position(LitLenAt(i)) /\ MadeTo(call.out[i]) /\ stack = Frame
  BY InvFacts DEF AtLitLen, Steady8
<1>2. token \div 16 = Field(Lit(i))
  BY <1>1, Bytes
<1>3. /\ Lit(i) \in Nat /\ LitLenAt(i) \in Nat
      /\ LitAt(i) = LitLenAt(i) + More(Lit(i)) /\ OffAt(i) = LitAt(i) + Lit(i)
      /\ From(i) = call.out[i] + Lit(i) /\ call.out[i] \in Nat
  BY <1>1, Layout
<1>4. call' = call /\ UNCHANGED <<x, y, wram, wmadd, token>>
  BY DEF DecodeLitLen, fixed, output
<1>5. MadeTo(call.out[i])'
  BY <1>1, <1>4, MadeToKept
<1>6. /\ \A p : Position(p)' = Position(p)
      /\ LitAt(i)' = LitAt(i) /\ OffAt(i)' = OffAt(i)
      /\ LitLenAt(i)' = LitLenAt(i) /\ Tok(i)' = Tok(i)
      /\ From(i)' = From(i) /\ Lit(i)' = Lit(i) /\ call.out[i]' = call.out[i]
      /\ Frame' = Frame
  BY <1>4, PlacesKept, CommandKept
<1>7. CASE NoLiteral
  <2>1. Lit(i) = 0
    BY SMT, <1>2, <1>3, <1>7 DEF NoLiteral, Field, RunLen
  <2>2. OffAt(i) = LitLenAt(i) /\ From(i) = call.out[i]
    BY SMT, <1>3, <2>1 DEF More, RunLen
  <2>3. pc' = "DecodeMatchOffset" /\ x' = Position(OffAt(i))
    BY <1>1, <1>4, <1>7, <2>2 DEF NoLiteral
  <2>4. MadeTo(From(i))'
    BY <1>5, <1>6, <2>2
  <2> QED BY <1>1, <1>4, <1>6, <2>3, <2>4 DEF AtOffset
<1>8. CASE token \div 16 # 0 /\ ShortLen(token \div 16, "CopyLiteral")
  <2>1. Lit(i) < RunLen /\ Field(Lit(i)) = Lit(i) /\ Lit(i) > 0
    BY SMT, <1>2, <1>3, <1>8 DEF ShortLen, Field, RunLen
  <2>2. LitAt(i) = LitLenAt(i)
    BY SMT, <1>3, <2>1 DEF More
  <2>3. /\ pc' = "CopyLiteral" /\ a' = Lit(i) /\ c' = 0
        /\ x' = Position(LitAt(i))
    BY <1>1, <1>2, <1>4, <1>8, <2>1, <2>2 DEF ShortLen, ShortLenCarry
  <2> QED BY <1>1, <1>4, <1>5, <1>6, <2>1, <2>3 DEF AtLiteral
<1>9. CASE LongLen(token \div 16, "CopyLiteral")
  <2>1. Field(Lit(i)) = RunLen /\ Lit(i) >= RunLen
    BY SMT, <1>2, <1>3, <1>9 DEF LongLen, Field, RunLen
  <2>2. Lo(SetLo(a, RunLen)) = RunLen
    <3>1. Hi(a) \in Byte /\ RunLen \in Byte
      BY SMT, <1>1, HalfType DEF RunLen, Byte
    <3> QED BY <3>1, MakeWordType DEF SetLo
  <2>3. pc' = "AddLength" /\ Lo(a') = RunLen
    BY <1>2, <1>9, <2>1, <2>2 DEF LongLen
  <2>4. stack' = LengthFrame("CopyLiteral")'
    BY <1>1, <1>6, <1>9 DEF LongLen, LengthFrame
  <2>5. Adding("CopyLiteral", LitLenAt(i), Lit(i))'
    BY <1>1, <1>4, <1>6, <2>1, <2>3, <2>4 DEF Adding
  <2> QED BY <1>1, <1>4, <1>5, <1>6, <2>5 DEF AddingLit
<1> QED BY <1>7, <1>8, <1>9 DEF DecodeLitLen

(* The sum starts with the field. *)
LEMMA AddLengthStep ==
    ASSUME IInv, NEW next, NEW p \in Nat, NEW n \in Nat,
           Adding(next, p, n), AddLength
    PROVE  Adding(next, p, n)'
<1>1. /\ n >= RunLen /\ stack = LengthFrame(next) /\ Lo(a) = RunLen
      /\ x = Position(p)
  BY DEF Adding, AddLength
<1>2. 0 \in 0 .. Full(n) /\ RunLen + 255 * 0 = RunLen /\ p + 0 = p
  BY SMT, <1>1, MoreType DEF RunLen
<1>3. call' = call /\ x' = x
  BY DEF AddLength, fixed
<1>4. stack' = SumFrame(next, RunLen)'
  BY <1>1, <1>3, PlacesKept DEF AddLength, SumFrame, LengthFrame
<1>5. x' = Position(p)'
  BY <1>1, <1>3, PlacesKept
<1>6. pc' = "AddLoop"
  BY DEF AddLength
<1> QED BY <1>1, <1>2, <1>4, <1>5, <1>6 DEF Adding

(* Each byte is added; the one that is not 255 is the last. *)
LEMMA AddLoopStep ==
    ASSUME IInv, CallOK(call), Spelled(call), NEW next, NEW p \in Nat,
           NEW n \in Nat, n <= Size, LengthAt(p, n),
           p + More(n) <= Len(call.block), Adding(next, p, n), AddLoop
    PROVE  \/ Adding(next, p, n)'
           \/ /\ pc' = next /\ a' = n /\ c' = 0
              /\ x' = Position(p + More(n))
<1>1. n >= RunLen /\ pc = "AddLoop"
  BY DEF Adding, AddLoop
<1>2. PICK j \in 0 .. Full(n) : /\ stack = SumFrame(next, RunLen + 255 * j)
                                /\ x = Position(p + j)
  BY <1>1 DEF Adding
<1>3. /\ Full(n) \in Nat /\ Rest(n) \in 0 .. 254 /\ More(n) = Full(n) + 1
      /\ n = RunLen + 255 * Full(n) + Rest(n)
  BY SMT, <1>1, MoreType DEF RunLen, More
<1>13. /\ Full(n) \in Nat /\ Rest(n) \in Nat /\ Rest(n) # 255
  <2>1. \A r \in 0 .. 254 : r \in Nat /\ r # 255
    BY SMT
  <2> QED BY <1>3, <2>1
<1>4. Len(call.block) \in Nat /\ Size \in Word
  BY SizeType
<1>5. /\ j \in Nat /\ j \in 0 .. More(n) - 1 /\ p + j \in Nat
      /\ p + j < Len(call.block) /\ p + j \in 0 .. Len(call.block)
      /\ p + j + 1 = p + (j + 1)
  <2>1. /\ Full(n) \in Nat /\ More(n) = Full(n) + 1 /\ Len(call.block) \in Nat
        /\ p + More(n) <= Len(call.block)
    BY <1>3, <1>4
  <2> QED BY SMT, <2>1
<1>6. ReadByte = IF j < Full(n) THEN 255 ELSE Rest(n)
  <2>1. ReadByte = call.block[p + j + 1]
    BY <1>1, <1>2, <1>5, LoadByte, InvFacts
  <2> QED BY <1>5, <2>1 DEF LengthAt
<1>7. /\ ItemValue(Top(stack)) = RunLen + 255 * j
      /\ Pop(stack) = LengthFrame(next) /\ Pop(Pop(stack)) = Frame
      /\ ReturnTo(Pop(stack)) = next
  <2> DEFINE w == RunLen + 255 * j
  <2>1. stack = SumFrame(next, w)
    BY <1>2
  <2> HIDE DEF w
  <2>2. ItemValue(Top(stack)) = w
    BY SMT, <2>1 DEF SumFrame, Push, Top, Item, ItemValue
  <2>3. /\ Pop(stack) = LengthFrame(next) /\ Pop(Pop(stack)) = Frame
        /\ ReturnTo(Pop(stack)) = next
    BY SMT, <2>1 DEF SumFrame, LengthFrame, Push, Top, Pop, Item, ReturnTo
  <2> QED BY <2>2, <2>3 DEF w
<1>8. x' = Position(p + (j + 1))
  <2>1. Wrap(x + 1) = Position(p + j + 1)
    BY <1>2, <1>5, PositionType
  <2> QED BY <1>5, <2>1 DEF AddLoop
<1>9. call' = call
  BY DEF AddLoop, fixed
<1>12. n \in Word
  BY SMT, <1>4 DEF Word
<1>10. CASE j < Full(n)
  <2>1. ReadByte = 255 /\ MoreBytes(ReadByte)
    BY <1>6, <1>10 DEF MoreBytes
  <2>2. Adc(255, RunLen + 255 * j, 0) = RunLen + 255 * (j + 1)
    <3>1. 255 + (RunLen + 255 * j) + 0 = RunLen + 255 * (j + 1)
      BY SMT, <1>5 DEF RunLen
    <3>2. RunLen + 255 * (j + 1) \in Word
      <4> DEFINE f == Full(n)
                 r == Rest(n)
      <4>1. /\ f \in Nat /\ r \in Nat /\ n = RunLen + 255 * f + r
            /\ j \in Nat /\ j < f /\ n \in Word
        BY <1>3, <1>5, <1>10, <1>12, <1>13
      <4> HIDE DEF f, r
      <4>2. RunLen + 255 * (j + 1) <= n
        BY SMT, <4>1 DEF RunLen
      <4> QED BY SMT, <1>5, <4>1, <4>2 DEF Word, RunLen
    <3>3. \A u \in Word : Wrap(u) = u
      BY SMT DEF Word, Wrap
    <3> QED BY SMT, <3>1, <3>2, <3>3 DEF Adc
  <2>3. j + 1 \in 0 .. Full(n)
    BY SMT, <1>3, <1>5, <1>10
  <2>4. /\ pc' = "AddLoop"
        /\ stack' = Push(LengthFrame(next),
                         Item("word", RunLen + 255 * (j + 1)))
    BY <1>7, <2>1, <2>2 DEF AddLoop
  <2>5. stack' = SumFrame(next, RunLen + 255 * (j + 1))'
    BY <1>9, <2>4, PlacesKept DEF SumFrame, LengthFrame
  <2>6. x' = Position(p + (j + 1))'
    BY <1>8, <1>9, PlacesKept
  <2>7. Adding(next, p, n)'
    BY <1>1, <2>3, <2>4, <2>5, <2>6 DEF Adding
  <2> QED BY <2>7
<1>11. CASE ~(j < Full(n))
  <2>1. j = Full(n)
    BY SMT, <1>3, <1>5, <1>11
  <2>2. ReadByte = Rest(n) /\ ~MoreBytes(ReadByte)
    <3>1. ReadByte = Rest(n)
      BY <1>6, <1>11
    <3> QED BY <1>13, <3>1 DEF MoreBytes
  <2>3. Rest(n) + (RunLen + 255 * j) + 0 = n /\ n \in Word
    <3> DEFINE f == Full(n)
               r == Rest(n)
    <3>1. f \in Nat /\ r \in Nat /\ n = RunLen + 255 * f + r /\ j = f
      BY <1>3, <1>13, <2>1
    <3> HIDE DEF f, r
    <3>2. r + (RunLen + 255 * j) + 0 = n
      BY SMT, <3>1 DEF RunLen
    <3> QED BY <1>12, <3>2 DEF r
  <2>4. Adc(Rest(n), RunLen + 255 * j, 0) = n
    <3>1. \A u \in Word : Wrap(u) = u
      BY SMT DEF Word, Wrap
    <3> QED BY <2>3, <3>1 DEF Adc
  <2>5. CarryOut(Rest(n), RunLen + 255 * j, 0) = 0
    <3>1. \A u \in Word : ~(u > 65535)
      BY SMT DEF Word
    <3> QED BY SMT, <2>3, <3>1 DEF CarryOut
  <2>6. pc' = next /\ a' = n /\ c' = 0
    BY <1>7, <2>2, <2>4, <2>5 DEF AddLoop
  <2>7. j + 1 = More(n)
    BY SMT, <1>3, <2>1
  <2> QED BY <1>8, <2>6, <2>7
<1> QED BY <1>10, <1>11

(* The literals are copied by DMA, and end where the offset is. *)
LEMMA CopyLiteralStep ==
    ASSUME IInv, WellFormed(call), NEW i \in 1 .. Len(Script),
           AtLiteral(i), CopyLiteral
    PROVE  AtOffset(i)'
<1>1. /\ CallOK(call) /\ Spelled(call) /\ wmadd \in WramAddress
      /\ inBank = call.srcBank /\ token = Tok(i)
      /\ a = Lit(i) /\ a > 0 /\ c = 0 /\ x = Position(LitAt(i))
      /\ Made(call.out[i]) /\ y = After(call.out[i])
  BY InvFacts DEF WellFormed, AtLiteral, MadeTo
<1>2. /\ Lit(i) \in Nat /\ LitAt(i) \in Nat /\ call.out[i] \in Nat
      /\ OffAt(i) = LitAt(i) + Lit(i) /\ From(i) = call.out[i] + Lit(i)
  BY <1>1, Layout
<1>3. From(i) <= Size
  <2>1. /\ From(i) \in Nat /\ Script[i].len \in Nat /\ Size \in Nat
        /\ From(i) + Script[i].len <= Size
    BY <1>1, Layout
  <2> QED BY SMT, <2>1
<1>4. /\ LitAt(i) + Lit(i) <= Len(call.block)
      /\ \A j \in 1 .. Lit(i) :
            call.block[LitAt(i) + j] = call.plain[call.out[i] + j]
  BY <1>1, CommandParsed DEF Parsed
<1>5. call' = call /\ CopyRun(Lit(i), PortAtY) /\ token' = token
      /\ y' = Adc(y, Lit(i), 0) /\ pc' = "DecodeMatchOffset"
  BY <1>1 DEF CopyLiteral, fixed, AfterLiteral
<1>6. /\ Made(From(i))' /\ x' = Position(OffAt(i))
      /\ y' = After(From(i))
  <2> DEFINE n == call.out[i]
             lit == Lit(i)
             p == LitAt(i)
  <2>1. /\ n \in Nat /\ lit \in Nat /\ lit > 0 /\ n + lit <= Size /\ p \in Nat
        /\ p + lit <= Len(call.block)
        /\ \A j \in 1 .. lit : call.block[p + j] = call.plain[n + j]
        /\ Made(n) /\ x = Position(p) /\ y = After(n) /\ CopyRun(lit, PortAtY)
    BY <1>1, <1>2, <1>3, <1>4, <1>5
  <2>2. n + lit = From(i) /\ p + lit = OffAt(i)
    BY <1>2
  <2>3. n' = n /\ lit' = lit /\ From(i)' = From(i)
    BY <1>5, CommandKept, PlacesKept
  <2> HIDE DEF n, lit, p
  <2>4. Made(n + lit)' /\ x' = Position(p + lit)
        /\ Adc(y, lit, 0) = After(n + lit)
    BY <1>1, <1>5, <2>1, <2>3, LiteralRun
  <2> QED BY <1>5, <2>2, <2>3, <2>4 DEF lit
<1>7. /\ \A p : Position(p)' = Position(p) /\ \A n : After(n)' = After(n)
      /\ From(i)' = From(i) /\ OffAt(i)' = OffAt(i) /\ Tok(i)' = Tok(i)
  BY <1>5, PlacesKept, CommandKept
<1> QED BY <1>1, <1>5, <1>6, <1>7 DEF AtOffset, MadeTo

(* The last offset ends at the end of the block, and no other does. *)
LEMMA DecodeMatchOffsetStep ==
    ASSUME IInv, WellFormed(call), NEW i \in 1 .. Len(Script), EndIs,
           AtOffset(i), DecodeMatchOffset
    PROVE  AtMatchLen(i)' \/ (pc' = "Done" /\ MadeTo(Size)')
<1>1. /\ CallOK(call) /\ Spelled(call) /\ db = call.srcBank
      /\ x = Position(OffAt(i)) /\ MadeTo(From(i)) /\ token = Tok(i)
  BY InvFacts DEF WellFormed, AtOffset
<1>2. /\ OffAt(i) \in Nat /\ MatchLenAt(i) = OffAt(i) + 2
      /\ MatchLenAt(i) \in Nat /\ Len(call.block) \in Nat
      /\ call.at[i + 1] = MatchLenAt(i) + More(Enc(i))
      /\ call.at[i + 1] <= Len(call.block) /\ More(Enc(i)) \in Nat
      /\ i = Len(Script) => /\ Script[i].len = 0 /\ From(i) = Size
                            /\ call.at[i + 1] = Len(call.block)
  BY <1>1, Layout
<1>3. OffAt(i) + 1 < Len(call.block)
  BY <1>1, Bytes
<1>4. Wrap(x + 2) = Position(MatchLenAt(i))
  <2>1. OffAt(i) \in 0 .. Len(call.block)
    BY SMT, <1>2, <1>3
  <2>2. \A n \in Nat : Wrap(Position(OffAt(i)) + n) = Position(OffAt(i) + n)
    BY <1>1, <2>1, PositionType
  <2> QED BY <1>1, <1>2, <2>2
<1>5. call' = call /\ UNCHANGED <<y, wram, wmadd, token>>
      /\ x' = Position(MatchLenAt(i))
  BY <1>4 DEF DecodeMatchOffset, fixed, output
<1>7. /\ \A p : Position(p)' = Position(p)
      /\ From(i)' = From(i) /\ MatchLenAt(i)' = MatchLenAt(i)
      /\ Tok(i)' = Tok(i) /\ Script' = Script /\ Size' = Size
  BY <1>5, PlacesKept, CommandKept
<1>6. MadeTo(From(i))'
  BY <1>1, <1>5, <1>7, MadeToKept
<1>8. CASE i = Len(Script)
  <2>1. MatchLenAt(i) = Len(call.block)
    <3>1. Enc(i) = 0
      BY <1>2, <1>8 DEF Enc
    <3>2. More(Enc(i)) = 0
      BY SMT, <3>1 DEF More, RunLen
    <3> QED BY SMT, <1>2, <1>8, <3>2
  <2>2. AtEnd(Wrap(x + 2))
    BY <1>4, <2>1 DEF AtEnd, EndIs
  <2>3. pc' = "Done"
    BY <2>2 DEF DecodeMatchOffset
  <2>4. From(i) = Size
    BY <1>2, <1>8
  <2> QED BY <1>6, <1>7, <2>3, <2>4
<1>9. CASE i # Len(Script)
  <2>1. MatchLenAt(i) < Len(call.block) /\ MatchLenAt(i) # 0
    <3>1. call.at[i + 1] < Len(call.block) /\ call.at[i + 1] \in Nat
      BY <1>1, <1>9, NextCommand, Layout
    <3>2. MatchLenAt(i) <= call.at[i + 1] /\ MatchLenAt(i) # 0
      BY SMT, <1>2
    <3>3. MatchLenAt(i) \in Nat /\ Len(call.block) \in Nat
      BY <1>2
    <3> QED BY SMT, <3>1, <3>2, <3>3
  <2>2. ~AtEnd(Wrap(x + 2))
    <3>1. Position(MatchLenAt(i)) # Position(Len(call.block))
      BY <1>1, <1>2, <2>1, BeforeEnd
    <3> QED BY <1>4, <3>1 DEF AtEnd, EndIs
  <2>3. ReadWord = Script[i].off
    BY <1>1, <1>2, <1>3, <1>9, LoadWord, Bytes
  <2>4. pc' = "DecodeMatchLen" /\ match' = Script[i].off
    BY <2>2, <2>3 DEF DecodeMatchOffset
  <2>5. Matching(i)'
    BY <1>6, <1>7, <1>9 DEF Matching
  <2> QED BY <1>1, <1>5, <1>7, <2>4, <2>5 DEF AtMatchLen
<1> QED BY <1>8, <1>9

(* The length field of the match. *)
LEMMA DecodeMatchLenStep ==
    ASSUME IInv, WellFormed(call), NEW i \in 1 .. Len(Script),
           AtMatchLen(i), DecodeMatchLen
    PROVE  AtMatch(i)' \/ AddingMatch(i)'
<1>1. /\ CallOK(call) /\ token = Tok(i) /\ a \in Word /\ stack = Frame
      /\ x = Position(MatchLenAt(i)) /\ MadeTo(From(i)) /\ i # Len(Script)
      /\ match = Script[i].off
  BY InvFacts DEF AtMatchLen, Matching, Steady16
<1>2. token % 16 = Field(Enc(i))
  BY <1>1, Bytes
<1>3. /\ Enc(i) \in Nat /\ MatchLenAt(i) \in Nat
      /\ call.at[i + 1] = MatchLenAt(i) + More(Enc(i))
  BY <1>1, Layout
<1>4. call' = call /\ UNCHANGED <<x, y, wram, wmadd, token, match>>
  BY DEF DecodeMatchLen, fixed, output
<1>6. /\ \A p : Position(p)' = Position(p)
      /\ MatchLenAt(i)' = MatchLenAt(i) /\ call.at[i + 1]' = call.at[i + 1]
      /\ From(i)' = From(i) /\ Enc(i)' = Enc(i)
      /\ Script' = Script /\ Frame' = Frame
  BY <1>4, PlacesKept, CommandKept
<1>5. MadeTo(From(i))'
  BY <1>1, <1>4, <1>6, MadeToKept
<1>7. Matching(i)'
  BY <1>1, <1>5, <1>6 DEF Matching
<1>8. CASE ShortLen(token % 16, "CopyMatch")
  <2>1. Enc(i) < RunLen /\ Field(Enc(i)) = Enc(i)
    BY SMT, <1>2, <1>3, <1>8 DEF ShortLen, Field, RunLen
  <2>2. call.at[i + 1] = MatchLenAt(i)
    BY SMT, <1>3, <2>1 DEF More
  <2>3. /\ pc' = "CopyMatch" /\ a' = Enc(i)
        /\ x' = Position(call.at[i + 1])
    BY <1>1, <1>2, <1>4, <1>8, <2>1, <2>2 DEF ShortLen
  <2> QED BY <1>1, <1>4, <1>6, <1>7, <2>3 DEF AtMatch
<1>9. CASE LongLen(token % 16, "CopyMatch")
  <2>1. Field(Enc(i)) = RunLen /\ Enc(i) >= RunLen
    BY SMT, <1>2, <1>3, <1>9 DEF LongLen, Field, RunLen
  <2>2. Lo(SetLo(a, RunLen)) = RunLen
    <3>1. Hi(a) \in Byte /\ RunLen \in Byte
      BY SMT, <1>1, HalfType DEF RunLen, Byte
    <3> QED BY <3>1, MakeWordType DEF SetLo
  <2>3. pc' = "AddLength" /\ Lo(a') = RunLen
    BY <1>2, <1>9, <2>1, <2>2 DEF LongLen
  <2>4. stack' = LengthFrame("CopyMatch")'
    BY <1>1, <1>6, <1>9 DEF LongLen, LengthFrame
  <2>5. Adding("CopyMatch", MatchLenAt(i), Enc(i))'
    BY <1>1, <1>4, <1>6, <2>1, <2>3, <2>4 DEF Adding
  <2> QED BY <1>1, <1>4, <1>6, <1>7, <2>5 DEF AddingMatch
<1> QED BY <1>8, <1>9 DEF DecodeMatchLen

(* The block move starts `off' bytes back and copies the match.  *)
LEMMA CopyMatchStep ==
    ASSUME IInv, WellFormed(call), NEW i \in 1 .. Len(Script),
           AtMatch(i), CopyMatch
    PROVE  AtMove(i)'
<1>1. /\ CallOK(call) /\ Spelled(call) /\ db = call.srcBank /\ stack = Frame
      /\ x = Position(call.at[i + 1]) /\ MadeTo(From(i)) /\ i # Len(Script)
      /\ match = Script[i].off /\ a = Enc(i) /\ y = After(From(i))
  BY InvFacts DEF WellFormed, AtMatch, Matching, MadeTo, Steady16
<1>2. /\ From(i) \in Nat /\ Script[i].len \in Nat /\ Script[i].len >= 4
      /\ From(i) + Script[i].len <= Size /\ Size \in Nat /\ Size \in Word
      /\ Script[i].off \in 1 .. From(i) /\ Enc(i) = Script[i].len - 4
  BY <1>1, Layout
<1>3. MatchSource = call.dst + From(i) - Script[i].off
  <2> DEFINE from == From(i)
             off == Script[i].off
             dst == call.dst
             len == Script[i].len
  <2>1. from \in Nat /\ len \in Nat /\ len >= 4 /\ off \in 1 .. from
        /\ from + len <= Size /\ Size \in Nat
    BY <1>2
  <2>2. dst \in Nat /\ dst + Size - 1 \in Word \cup {-1}
    BY <1>1, SizeType
  <2> HIDE DEF from, off, dst, len
  <2>3. from \in 0 .. Size /\ from < Size
    BY SMT, <2>1
  <2>4. After(from) = dst + from
    BY <1>1, <2>3, AfterType DEF dst
  <2>5. dst + from - off \in Word
    BY SMT, <2>1, <2>2, <2>3 DEF Word
  <2>6. \A u \in Word : Wrap(u) = u
    BY SMT DEF Word, Wrap
  <2>7. Sbc(After(from), off) = dst + from - off
    <3>1. After(from) - off = dst + from - off
      BY SMT, <2>1, <2>2, <2>4
    <3>2. Wrap(dst + from - off) = dst + from - off
      BY <2>5, <2>6
    <3> QED BY Zenon, <3>1, <3>2 DEF Sbc
  <2> QED BY <1>1, <2>7 DEF MatchSource, from, off, dst
<1>4. MvnOperand(a) + 1 = Script[i].len
  <2> DEFINE len == Script[i].len
             from == From(i)
  <2>1. len \in Nat /\ len >= 4 /\ from \in Nat /\ Size \in Nat
        /\ from + len <= Size /\ Size \in Word /\ a = len - 4
    BY <1>1, <1>2
  <2> HIDE DEF len, from
  <2>2. a + 3 \in Word /\ a + 3 + 1 = len
    BY SMT, <2>1 DEF Word
  <2>3. \A u \in Word : Wrap(u) = u
    BY SMT DEF Word, Wrap
  <2> QED BY <2>2, <2>3 DEF MvnOperand, len
<1>5. call' = call /\ UNCHANGED <<y, wram, wmadd>>
  BY DEF CopyMatch, fixed, output
<1>6. /\ From(i)' = From(i) /\ call.at[i + 1]' = call.at[i + 1]
      /\ Script' = Script /\ \A p : Position(p)' = Position(p)
      /\ \A w : MoveFrame(w)' = MoveFrame(w)
  BY <1>5, PlacesKept, CommandKept
<1>7. Matching(i)'
  BY <1>1, <1>5, <1>6, MadeToKept DEF Matching
<1>8. stack' = MoveFrame(Position(call.at[i + 1]))
  BY <1>1 DEF CopyMatch, EnterMove, MoveFrame
<1>9. /\ pc' = "BlockMove" /\ x' = call.dst + From(i) - Script[i].off
      /\ a' + 1 = Script[i].len
  BY <1>3, <1>4 DEF CopyMatch, EnterMove
<1> QED BY <1>5, <1>6, <1>7, <1>8, <1>9 DEF AtMove

LEMMA MoveStep ==
    ASSUME IInv, WellFormed(call), NEW i \in 1 .. Len(Script),
           AtMove(i), Move
    PROVE  Moved(i)'
<1>1. /\ CallOK(call) /\ Spelled(call) /\ outBank = call.dstBank
      /\ a \in Word /\ i # Len(Script) /\ a + 1 = Script[i].len
      /\ x = call.dst + From(i) - Script[i].off
      /\ stack = MoveFrame(Position(call.at[i + 1]))
      /\ Made(From(i)) /\ y = After(From(i)) /\ MoveBlock
  BY InvFacts DEF WellFormed, AtMove, Matching, MadeTo, Move
<1>2. /\ From(i) \in Nat /\ Script[i].len \in Nat /\ Script[i].len >= 4
      /\ From(i) + Script[i].len <= Size
      /\ Script[i].off \in 1 .. From(i)
      /\ call.out[i + 1] = From(i) + Script[i].len
  BY <1>1, Layout
<1>3. Script[i].len > 0
  BY SMT, <1>2
<1>4. \A j \in 1 .. Script[i].len :
         call.plain[From(i) + j]
             = call.plain[From(i) - Script[i].off + 1
                          + ((j - 1) % Script[i].off)]
  BY <1>1, <1>3, CommandType DEF Text!Copies
<1>5. call' = call /\ stack' = stack /\ pc' = "MatchCopied"
  BY <1>1 DEF MoveBlock, fixed
<1>6. /\ From(i)' = From(i) /\ call.at[i + 1]' = call.at[i + 1]
      /\ call.out[i + 1]' = call.out[i + 1]
      /\ Script' = Script /\ \A p : Position(p)' = Position(p)
      /\ \A w : MoveFrame(w)' = MoveFrame(w) /\ \A n : After(n)' = After(n)
  BY <1>5, PlacesKept, CommandKept
<1>7. MadeTo(call.out[i + 1])'
  <2> DEFINE n == From(i)
             k == Script[i].len
             off == Script[i].off
  <2>1. /\ n \in Nat /\ k \in Nat /\ k > 0 /\ n + k <= Size /\ off \in 1 .. n
        /\ \A j \in 1 .. k :
              call.plain[n + j] = call.plain[n - off + 1 + ((j - 1) % off)]
        /\ Made(n) /\ x = call.dst + n - off /\ y = After(n) /\ a + 1 = k
    BY <1>1, <1>2, <1>3, <1>4
  <2>2. n' = n /\ k' = k /\ call.out[i + 1]' = n + k
    BY <1>2, <1>6
  <2> HIDE DEF n, k, off
  <2>3. Made(n + k)' /\ y' = After(n + k)
    BY <1>1, <2>1, <2>2, MatchRun
  <2>4. \A l : After(l)' = After(l)
    BY <1>6
  <2> QED BY <2>2, <2>3, <2>4 DEF MadeTo
<1> QED BY <1>1, <1>5, <1>6, <1>7 DEF Moved

LEMMA MatchCopiedStep ==
    ASSUME IInv, WellFormed(call), NEW i \in 1 .. Len(Script),
           Moved(i), MatchCopied
    PROVE  i + 1 \in 1 .. Len(Script) /\ AtToken(i + 1)'
<1>1. /\ CommonTypeOK /\ CallOK(call) /\ Spelled(call) /\ i # Len(Script)
      /\ stack = MoveFrame(Position(call.at[i + 1]))
      /\ MadeTo(call.out[i + 1])
  BY InvFacts DEF WellFormed, Moved
<1>2. i + 1 \in 1 .. Len(Script)
  BY <1>1, NextCommand
<1>3. x' = Position(call.at[i + 1])
  <2> DEFINE w == Position(call.at[i + 1])
  <2>1. call.at[i + 1] \in 0 .. Len(call.block)
    <3>1. call.at[i + 1] \in Nat /\ Len(call.block) \in Nat
          /\ call.at[i + 1] <= Len(call.block)
      BY <1>1, Layout
    <3> QED BY SMT, <3>1
  <2>2. w \in Word /\ stack = MoveFrame(w)
    BY <1>1, <2>1, PositionType
  <2> HIDE DEF w
  <2>3. x' = w
    BY <1>1, <2>2, LeaveMoveFrame DEF MatchCopied
  <2> QED BY <2>3 DEF w
<1>4. call' = call /\ UNCHANGED <<y, wram, wmadd>> /\ pc' = "ReadToken"
  BY DEF MatchCopied, fixed, output
<1>5. /\ call.at[i + 1]' = call.at[i + 1] /\ call.out[i + 1]' = call.out[i + 1]
      /\ \A p : Position(p)' = Position(p)
  BY <1>4, PlacesKept, CommandKept
<1>6. MadeTo(call.out[i + 1])'
  BY <1>1, <1>4, <1>5, MadeToKept
<1> QED BY <1>2, <1>3, <1>4, <1>5, <1>6 DEF AtToken

(* Setup leaves the routine at the first command. *)
LEMMA SetupStep ==
    ASSUME IInv, WellFormed(call), pc = "Setup", NothingWritten,
           x = call.src, length = Wrap(Len(call.block)), Setup
    PROVE  EndIs' /\ 1 \in 1 .. Len(Script) /\ AtToken(1)'
<1>1. /\ CallOK(call) /\ Spelled(call) /\ wmadd \in WramAddress
      /\ y = call.dst /\ a = MakeWord(call.srcBank, call.dstBank)
  BY InvFacts DEF WellFormed, IInv, Banks
<1>2. call' = call /\ UNCHANGED <<x, y, wram>> /\ pc' = "ReadToken"
      /\ length' = Adc(x, length, 0) /\ SetupFrame(wmadd)
  BY DEF Setup
<1>3. \A p : Position(p)' = Position(p)
  BY <1>2, PlacesKept
<1>4. Len(call.block) \in Nat /\ call.src \in Nat /\ call.src \in Word
  BY <1>1, SpelledType DEF CallOK
<1>5. EndIs'
  <2> DEFINE src == call.src
             len == Len(call.block)
  <2>1. src \in Nat /\ len \in Nat
    BY <1>4
  <2>2. length' = Adc(src, Wrap(len), 0) /\ Position(len) = Wrap(src + len)
    BY <1>2 DEF Position
  <2> HIDE DEF src, len
  <2>3. Adc(src, Wrap(len), 0) = Wrap(src + len)
    BY SMT, <2>1 DEF Adc, Wrap
  <2>4. length' = Position(len)
    BY <2>2, <2>3
  <2> QED BY <1>2, <1>3, <2>4 DEF EndIs, len
<1>6. 1 \in 1 .. Len(Script)
  <2>1. Script \in Seq(Text!Commands) /\ Script # <<>>
    BY <1>1 DEF Spelled, Text!Spells, Script
  <2> HIDE DEF Script
  <2> QED BY SMT, <2>1
<1>7. call.out[1] = 0 /\ call.at[1] = 0
  BY <1>1, <1>6, CommandAt DEF Spelled, Text!Spells
<1>8. x' = Position(0)
  <2>1. \A u \in Word : Wrap(u + 0) = u
    BY SMT DEF Word, Wrap
  <2> QED BY <1>2, <1>4, <2>1 DEF Position
<1>9. MadeTo(0)'
  <2>1. wmadd' \div 65536 = call.dstBank % 2
    BY <1>1, <1>2, SetupPort
  <2> QED BY <1>1, <1>2, <2>1, NothingMade
<1>10. call.out[1]' = 0 /\ call.at[1]' = 0
  BY <1>2, <1>7
<1> QED BY <1>2, <1>3, <1>5, <1>6, <1>8, <1>9, <1>10 DEF AtToken

-----------------------------------------------------------------------------
(* A routine that decodes stays one that does, whatever the step.          *)
LEMMA AddStep ==
    ASSUME IInv, WellFormed(call), EndIs, NEW i \in 1 .. Len(Script),
           AddingLit(i) \/ AddingMatch(i), AddLength \/ AddLoop
    PROVE  InCommand(i)'
<1>1. CallOK(call) /\ Spelled(call)
  BY InvFacts DEF WellFormed
<1>2. call' = call /\ UNCHANGED <<y, wram, wmadd, token, match>>
  BY DEF AddLength, AddLoop, fixed, output
<1>3. /\ \A p : Position(p)' = Position(p)
      /\ LitAt(i)' = LitAt(i) /\ LitLenAt(i)' = LitLenAt(i)
      /\ MatchLenAt(i)' = MatchLenAt(i) /\ call.at[i + 1]' = call.at[i + 1]
      /\ Tok(i)' = Tok(i) /\ From(i)' = From(i) /\ Script' = Script
      /\ Lit(i)' = Lit(i) /\ Enc(i)' = Enc(i) /\ call.out[i]' = call.out[i]
  BY <1>2, PlacesKept, CommandKept
<1>4. /\ Lit(i) \in Nat /\ Enc(i) \in Nat
      /\ LitLenAt(i) \in Nat /\ MatchLenAt(i) \in Nat
      /\ LitAt(i) = LitLenAt(i) + More(Lit(i))
      /\ call.at[i + 1] = MatchLenAt(i) + More(Enc(i))
  BY <1>1, Layout
<1>5. CASE AddingLit(i)
  <2> DEFINE n == Lit(i)
             p == LitLenAt(i)
  <2>1. /\ token = Tok(i) /\ Adding("CopyLiteral", p, n)
        /\ MadeTo(call.out[i]) /\ LengthAt(p, n)
    BY <1>1, <1>5, CommandParsed DEF AddingLit, Parsed
  <2>2. n <= Size /\ p + More(n) <= Len(call.block) /\ n >= RunLen
    <3>1. /\ n \in Nat /\ call.out[i] \in Nat /\ Script[i].len \in Nat
          /\ From(i) = call.out[i] + n /\ From(i) + Script[i].len <= Size
          /\ Size \in Nat
      BY <1>1, Layout
    <3>2. n <= Size
      BY SMT, <3>1
    <3>3. /\ LitAt(i) + n <= Len(call.block) /\ LitAt(i) \in Nat
          /\ Len(call.block) \in Nat /\ LitAt(i) = p + More(n)
      BY <1>1, Layout, CommandParsed DEF Parsed
    <3>4. LitAt(i) <= Len(call.block)
      BY SMT, <3>1, <3>3
    <3> QED BY <2>1, <3>2, <3>3, <3>4 DEF Adding
  <2>3. MadeTo(call.out[i])'
    BY <1>2, <1>3, <2>1, MadeToKept
  <2>4. p \in Nat /\ n \in Nat /\ n' = n /\ p' = p
    BY <1>3, <1>4
  <2> HIDE DEF n, p
  <2>5. CASE Adding("CopyLiteral", p, n)'
    <3>1. Adding("CopyLiteral", LitLenAt(i), Lit(i))'
      BY <2>4, <2>5 DEF n, p
    <3> QED BY <1>2, <1>3, <2>1, <2>3, <3>1 DEF AddingLit, InCommand
  <2>6. CASE /\ pc' = "CopyLiteral" /\ a' = n /\ c' = 0
             /\ x' = Position(p + More(n))
    <3>1. n > 0
      BY SMT, <2>2, <2>4 DEF RunLen
    <3>2. x' = Position(LitAt(i))' /\ a' = Lit(i)' /\ a' > 0
      BY <1>3, <1>4, <2>4, <2>6, <3>1 DEF n, p
    <3> QED BY <1>2, <1>3, <2>1, <2>3, <2>6, <3>2 DEF AtLiteral, InCommand
  <2>7. \/ Adding("CopyLiteral", p, n)'
        \/ /\ pc' = "CopyLiteral" /\ a' = n /\ c' = 0
           /\ x' = Position(p + More(n))
    <3>1. CASE AddLength
      BY <2>1, <2>4, <3>1, AddLengthStep
    <3>2. CASE AddLoop
      BY <1>1, <2>1, <2>2, <2>4, <3>2, AddLoopStep
    <3> QED BY <3>1, <3>2
  <2> QED BY <2>5, <2>6, <2>7
<1>6. CASE AddingMatch(i)
  <2> DEFINE n == Enc(i)
             p == MatchLenAt(i)
  <2>1. /\ match = Script[i].off /\ Adding("CopyMatch", p, n)
        /\ i # Len(Script) /\ MadeTo(From(i)) /\ LengthAt(p, n)
    BY <1>1, <1>6, CommandParsed DEF AddingMatch, Matching, Parsed
  <2>2. n <= Size /\ p + More(n) <= Len(call.block)
    <3>1. /\ n = Script[i].len - 4 /\ From(i) \in Nat /\ Script[i].len \in Nat
          /\ From(i) + Script[i].len <= Size /\ Size \in Nat
      BY <1>1, <2>1, Layout
    <3>2. n <= Size
      BY SMT, <3>1
    <3>3. p + More(n) <= Len(call.block)
      BY <1>1, Layout
    <3> QED BY <3>2, <3>3
  <2>3. MadeTo(From(i))'
    BY <1>2, <1>3, <2>1, MadeToKept
  <2>4. p \in Nat /\ n \in Nat /\ n' = n /\ p' = p
    BY <1>3, <1>4
  <2>8. Matching(i)' /\ match' = Script[i].off'
    BY <1>2, <1>3, <2>1, <2>3 DEF Matching
  <2> HIDE DEF n, p
  <2>5. CASE Adding("CopyMatch", p, n)'
    <3>1. Adding("CopyMatch", MatchLenAt(i), Enc(i))'
      BY <2>4, <2>5 DEF n, p
    <3> QED BY <2>8, <3>1 DEF AddingMatch, InCommand
  <2>6. CASE /\ pc' = "CopyMatch" /\ a' = n /\ c' = 0
             /\ x' = Position(p + More(n))
    <3>1. x' = Position(call.at[i + 1])' /\ a' = Enc(i)'
      BY <1>3, <1>4, <2>4, <2>6 DEF n, p
    <3> QED BY <2>6, <2>8, <3>1 DEF AtMatch, InCommand
  <2>7. \/ Adding("CopyMatch", p, n)'
        \/ /\ pc' = "CopyMatch" /\ a' = n /\ c' = 0
           /\ x' = Position(p + More(n))
    <3>1. CASE AddLength
      BY <2>1, <2>4, <3>1, AddLengthStep
    <3>2. CASE AddLoop
      BY <1>1, <2>1, <2>2, <2>4, <3>2, AddLoopStep
    <3> QED BY <3>1, <3>2
  <2> QED BY <2>5, <2>6, <2>7
<1> QED BY <1>5, <1>6

(* The label tells which part of the command it is. *)
LEMMA StageLabels ==
    ASSUME NEW i
    PROVE  /\ AtToken(i) => pc = "ReadToken"
           /\ AtLitLen(i) => pc = "DecodeLitLen"
           /\ AddingLit(i) => pc \in {"AddLength", "AddLoop"}
           /\ AtLiteral(i) => pc = "CopyLiteral"
           /\ AtOffset(i) => pc = "DecodeMatchOffset"
           /\ AtMatchLen(i) => pc = "DecodeMatchLen"
           /\ AddingMatch(i) => pc \in {"AddLength", "AddLoop"}
           /\ AtMatch(i) => pc = "CopyMatch"
           /\ AtMove(i) => pc = "BlockMove"
           /\ Moved(i) => pc = "MatchCopied"
BY DEF AtToken, AtLitLen, AddingLit, AtLiteral, AtOffset, AtMatchLen,
       AddingMatch, AtMatch, AtMove, Moved, Adding

LEMMA StageIs ==
    ASSUME Decoding
    PROVE  /\ pc \notin {"Main", "Setup", "Done", "Idle"}
                 => EndIs /\ \E i \in 1 .. Len(Script) : InCommand(i)
           /\ pc \in {"Done", "Idle"} => MadeTo(Size)
           /\ pc \in {"Main", "Setup"} => NothingWritten
           /\ pc = "Setup" => x = call.src /\ length = Wrap(Len(call.block))
<1>1. ASSUME NEW i, InCommand(i)
      PROVE  pc \notin {"Main", "Setup", "Done", "Idle"}
  BY <1>1, StageLabels DEF InCommand
<1> QED BY <1>1 DEF Decoding

(* A routine that stands still stays where it is. *)
LEMMA InCommandKept ==
    ASSUME NEW i, InCommand(i), UNCHANGED vars
    PROVE  InCommand(i)'
<1>1. /\ call' = call
      /\ UNCHANGED <<pc, x, y, a, c, stack, match, wram, wmadd, token>>
  BY DEF vars, common
<1>2. /\ \A p : Position(p)' = Position(p) /\ \A w : MoveFrame(w)' = MoveFrame(w)
      /\ LitAt(i)' = LitAt(i) /\ LitLenAt(i)' = LitLenAt(i)
      /\ OffAt(i)' = OffAt(i)
      /\ MatchLenAt(i)' = MatchLenAt(i) /\ call.at[i + 1]' = call.at[i + 1]
      /\ Tok(i)' = Tok(i) /\ From(i)' = From(i) /\ Script' = Script
      /\ Lit(i)' = Lit(i) /\ Enc(i)' = Enc(i) /\ Frame' = Frame
  BY <1>1, PlacesKept, CommandKept
<1>3. ASSUME NEW n, MadeTo(n) PROVE MadeTo(n)'
  BY <1>1, <1>3, MadeToKept
<1>4. Matching(i) => Matching(i)'
  BY <1>2, <1>3 DEF Matching
<1>5. ASSUME NEW next, NEW p, NEW n, Adding(next, p, n)
      PROVE  Adding(next, p, n)'
  BY <1>1, <1>2, <1>5 DEF Adding, LengthFrame, SumFrame
<1>6. AtToken(i) => AtToken(i)'
  BY <1>1, <1>2, <1>3 DEF AtToken
<1>7. AtLitLen(i) => AtLitLen(i)'
  BY <1>1, <1>2, <1>3 DEF AtLitLen
<1>8. AddingLit(i) => AddingLit(i)'
  BY <1>1, <1>2, <1>3, <1>5 DEF AddingLit
<1>9. AtLiteral(i) => AtLiteral(i)'
  BY <1>1, <1>2, <1>3 DEF AtLiteral
<1>10. AtOffset(i) => AtOffset(i)'
  BY <1>1, <1>2, <1>3 DEF AtOffset
<1>11. AtMatchLen(i) => AtMatchLen(i)'
  BY <1>1, <1>2, <1>4 DEF AtMatchLen
<1>12. AddingMatch(i) => AddingMatch(i)'
  BY <1>1, <1>2, <1>4, <1>5 DEF AddingMatch
<1>13. AtMatch(i) => AtMatch(i)'
  BY <1>1, <1>2, <1>4 DEF AtMatch
<1>14. AtMove(i) => AtMove(i)'
  BY <1>1, <1>2, <1>4 DEF AtMove
<1>15. Moved(i) => Moved(i)'
  BY <1>1, <1>2, <1>3 DEF Moved
<1> QED BY <1>6, <1>7, <1>8, <1>9, <1>10, <1>11, <1>12, <1>13, <1>14, <1>15
        DEF InCommand

LEMMA DecodingStep == IInv /\ Decoding /\ [Next]_vars => Decoding'
<1> SUFFICES ASSUME IInv, Decoding, [Next]_vars PROVE Decoding'
  OBVIOUS
<1>1. WellFormed(call) /\ call' = call /\ CallOK(call)
  BY CallKept, InvFacts DEF Decoding
<1>2. WellFormed(call)'
  BY <1>1 DEF WellFormed, Spelled
<1>3. Script' = Script /\ Size' = Size /\ \A p : Position(p)' = Position(p)
  BY <1>1, PlacesKept
<1>4. EndIs /\ length' = length => EndIs'
  BY <1>1, <1>3 DEF EndIs
<1>5. ASSUME EndIs', NEW i \in 1 .. Len(Script), InCommand(i)'
      PROVE  Decoding'
  BY <1>2, <1>3, <1>5 DEF Decoding
<1>6. CASE Main
  <2>1. pc = "Main" /\ NothingWritten
    BY <1>6, StageIs DEF Main, CallRoutine
  <2>2. /\ pc' = "Setup" /\ wram' = wram /\ x' = call.src
        /\ length' = Wrap(Len(call.block))
    BY <1>6 DEF Main, CallRoutine, output
  <2> QED BY <1>1, <1>2, <2>1, <2>2 DEF Decoding, NothingWritten
<1>7. CASE Setup
  <2>1. /\ pc = "Setup" /\ NothingWritten
        /\ x = call.src /\ length = Wrap(Len(call.block))
    BY <1>7, StageIs DEF Setup
  <2>2. EndIs' /\ 1 \in 1 .. Len(Script) /\ AtToken(1)'
    BY <1>1, <1>7, <2>1, SetupStep
  <2>3. InCommand(1)'
    BY <2>2 DEF InCommand
  <2> QED BY <1>5, <2>2, <2>3
<1>8. CASE \/ ReadToken \/ DecodeLitLen \/ CopyLiteral \/ DecodeMatchOffset
           \/ DecodeMatchLen \/ CopyMatch \/ Move \/ MatchCopied
           \/ AddLength \/ AddLoop
  <2>1. /\ pc \notin {"Main", "Setup", "Done", "Idle"} /\ length' = length
    BY <1>8 DEF ReadToken, DecodeLitLen, CopyLiteral, DecodeMatchOffset,
       DecodeMatchLen, CopyMatch, Move, MoveBlock, MatchCopied, AddLength,
       AddLoop
  <2>2. EndIs /\ EndIs'
    BY <1>4, <2>1, StageIs
  <2>3. PICK i \in 1 .. Len(Script) : InCommand(i)
    BY <2>1, StageIs
  <2>4. CASE ReadToken
    <3>1. AtToken(i)
      BY <2>3, <2>4, StageLabels DEF ReadToken, InCommand
    <3> QED BY <1>1, <1>5, <2>2, <2>4, <3>1, ReadTokenStep DEF InCommand
  <2>5. CASE DecodeLitLen
    <3>1. AtLitLen(i)
      BY <2>3, <2>5, StageLabels DEF DecodeLitLen, InCommand
    <3> QED BY <1>1, <1>5, <2>2, <2>5, <3>1, DecodeLitLenStep DEF InCommand
  <2>6. CASE CopyLiteral
    <3>1. AtLiteral(i)
      BY <2>3, <2>6, StageLabels DEF CopyLiteral, InCommand
    <3> QED BY <1>1, <1>5, <2>2, <2>6, <3>1, CopyLiteralStep DEF InCommand
  <2>7. CASE DecodeMatchOffset
    <3>1. AtOffset(i)
      BY <2>3, <2>7, StageLabels DEF DecodeMatchOffset, InCommand
    <3>2. AtMatchLen(i)' \/ (pc' = "Done" /\ MadeTo(Size)')
      BY <1>1, <2>2, <2>7, <3>1, DecodeMatchOffsetStep
    <3>3. CASE AtMatchLen(i)'
      BY <1>5, <2>2, <3>3 DEF InCommand
    <3>4. CASE pc' = "Done" /\ MadeTo(Size)'
      BY <1>2, <3>4 DEF Decoding
    <3> QED BY <3>2, <3>3, <3>4
  <2>8. CASE DecodeMatchLen
    <3>1. AtMatchLen(i)
      BY <2>3, <2>8, StageLabels DEF DecodeMatchLen, InCommand
    <3> QED BY <1>1, <1>5, <2>2, <2>8, <3>1, DecodeMatchLenStep DEF InCommand
  <2>9. CASE CopyMatch
    <3>1. AtMatch(i)
      BY <2>3, <2>9, StageLabels DEF CopyMatch, InCommand
    <3> QED BY <1>1, <1>5, <2>2, <2>9, <3>1, CopyMatchStep DEF InCommand
  <2>10. CASE Move
    <3>1. AtMove(i)
      BY <2>3, <2>10, StageLabels DEF Move, MoveBlock, InCommand
    <3> QED BY <1>1, <1>5, <2>2, <2>10, <3>1, MoveStep DEF InCommand
  <2>11. CASE MatchCopied
    <3>1. Moved(i)
      BY <2>3, <2>11, StageLabels DEF MatchCopied, InCommand
    <3>2. i + 1 \in 1 .. Len(Script) /\ InCommand(i + 1)'
      BY <1>1, <2>11, <3>1, MatchCopiedStep DEF InCommand
    <3> QED BY <1>5, <2>2, <3>2
  <2>12. CASE AddLength \/ AddLoop
    <3>1. AddingLit(i) \/ AddingMatch(i)
      BY <2>3, <2>12, StageLabels DEF AddLength, AddLoop, InCommand
    <3> QED BY <1>1, <1>5, <2>2, <2>12, <3>1, AddStep
  <2> QED BY <1>8, <2>4, <2>5, <2>6, <2>7, <2>8, <2>9, <2>10, <2>11, <2>12
<1>9. CASE Done
  <2>1. MadeTo(Size) /\ UNCHANGED <<y, wram, wmadd>>
    BY <1>9, StageIs DEF Done, output
  <2>2. MadeTo(Size)'
    BY <1>1, <1>3, <2>1, MadeToKept
  <2>3. stack = Frame /\ CommonTypeOK
    BY <1>9, InvFacts DEF Done, Steady16
  <2>4. pc' = "Idle"
    BY <1>9, <2>3, LeaveFrame DEF Done, CommonTypeOK
  <2> QED BY <1>2, <2>2, <2>4 DEF Decoding
<1>10. CASE UNCHANGED vars
  <2>1. UNCHANGED <<pc, x, y, wram, wmadd, length>>
    BY <1>10 DEF vars, common
  <2>2. CASE pc \in {"Done", "Idle"}
    <3>1. MadeTo(Size)'
      BY <1>1, <1>3, <2>1, <2>2, StageIs, MadeToKept
    <3> QED BY <1>2, <2>1, <2>2, <3>1 DEF Decoding
  <2>3. CASE pc \in {"Main", "Setup"}
    BY <1>1, <1>2, <2>1, <2>3, StageIs DEF Decoding, NothingWritten
  <2>4. CASE pc \notin {"Main", "Setup", "Done", "Idle"}
    BY <1>4, <1>5, <1>10, <2>1, <2>4, StageIs, InCommandKept
  <2> QED BY <2>2, <2>3, <2>4
<1>11. CASE Wai
  BY <1>10, <1>11 DEF Wai, Idle, vars
<1> QED BY <1>6, <1>7, <1>8, <1>9, <1>10, <1>11 DEF Next

LEMMA DecodingInit == Init /\ WellFormed(call) => Decoding
BY DEF Init, RoutineInit, Decoding, NothingWritten

(* On every well-formed block the routine is, at each label, where in the  *)
(* script the registers say, with the text up to there and nothing else    *)
(* written.                                                                *)
THEOREM DecodesInStep ==
    ASSUME \A r \in Calls : WellFormed(r)
    PROVE  Spec => [](IInv /\ Decoding)
<1>1. Init => IInv /\ Decoding
  BY InitInv, DecodingInit DEF Init, RoutineInit
<1>2. IInv /\ Decoding /\ [Next]_vars => (IInv /\ Decoding)'
  BY StepInv, DecodingStep
<1> QED BY <1>1, <1>2, PTL DEF Spec

(* Which places of the command the labels that write are at. *)
LEMMA MadeWhere ==
    ASSUME Decoding, pc \notin {"Main", "Setup"}
    PROVE  \E n : MadeTo(n)
<1>1. CASE pc \in {"Done", "Idle"}
  BY <1>1, StageIs
<1>2. CASE pc \notin {"Done", "Idle"}
  <2>1. PICK i \in 1 .. Len(Script) : InCommand(i)
    BY <1>2, StageIs
  <2> QED BY <2>1 DEF InCommand, AtToken, AtLitLen, AddingLit, AtLiteral,
          AtOffset, AtMatchLen, AddingMatch, AtMatch, AtMove, Moved, Matching
<1> QED BY <1>1, <1>2

LEMMA DecodingInStep == IInv /\ Decoding => InStep
<1> SUFFICES ASSUME IInv, Decoding, pc = "ReadToken"
             PROVE  \E i \in DOMAIN call.script :
                       Consumed = call.at[i] /\ Produced = call.out[i]
  BY DEF InStep
<1>1. PICK i \in 1 .. Len(Script) : AtToken(i)
  BY StageIs, StageLabels DEF InCommand
<1>2. CallOK(call) /\ WellFormed(call) /\ Spelled(call)
  BY InvFacts DEF Decoding, WellFormed
<1>3. call.at[i] \in Nat /\ call.at[i] < Len(call.block)
  BY <1>2, Layout, Bytes
<1> QED BY <1>1, <1>2, <1>3, InStepWhereStarting DEF AtToken

(* The routine takes a well-formed block apart as the compressor put it    *)
(* together: ReadToken reads a token where a command starts, with the text *)
(* of the commands before it made.                                         *)
THEOREM InStepAlways ==
    ASSUME \A r \in Calls : WellFormed(r)
    PROVE  Spec => []InStep
BY DecodingInStep, DecodesInStep, PTL

LEMMA DecodingCarryClear == Decoding => CarryClear
BY StageIs, StageLabels DEF CarryClear, InCommand, AtLiteral

(* Every way to CopyLiteral on a well-formed block has cleared the carry   *)
(* the label adds to Y.                                                    *)
THEOREM CarryClearAlways ==
    ASSUME \A r \in Calls : WellFormed(r)
    PROVE  Spec => []CarryClear
BY DecodingCarryClear, DecodesInStep, PTL

LEMMA DecodingOutputContiguous == IInv /\ Decoding => OutputContiguous
<1> SUFFICES ASSUME IInv, Decoding PROVE OutputContiguous
  OBVIOUS
<1>1. CallOK(call) /\ Spelled(call)
  BY InvFacts DEF Decoding, WellFormed
<1>2. pc \in Writing => \E n : MadeTo(n)
  BY MadeWhere DEF Writing
<1> QED BY <1>1, <1>2, ContiguousWhereMade

(* DMA and block move write the destination from its start on, without a   *)
(* hole, and nothing else.                                                 *)
THEOREM OutputContiguousAlways ==
    ASSUME \A r \in Calls : WellFormed(r)
    PROVE  Spec => []OutputContiguous
BY DecodingOutputContiguous, DecodesInStep, PTL

LEMMA DecodingMatchInsideOutput == IInv /\ Decoding => MatchInsideOutput
<1> SUFFICES ASSUME IInv, Decoding, pc = "BlockMove"
             PROVE  Wrap(x - call.dst) < Produced
  BY DEF MatchInsideOutput
<1>1. PICK i \in 1 .. Len(Script) : AtMove(i)
  BY StageIs, StageLabels DEF InCommand
<1>2. CallOK(call) /\ WellFormed(call) /\ Spelled(call)
  BY InvFacts DEF Decoding, WellFormed
<1>3. /\ From(i) \in Nat /\ Script[i].off \in 1 .. From(i)
      /\ x = call.dst + From(i) - Script[i].off /\ MadeTo(From(i))
  BY <1>1, <1>2, Layout DEF AtMove, Matching
<1> QED BY <1>2, <1>3, InsideWhereMoving

(* A match is copied from inside the text made so far. *)
THEOREM MatchInsideOutputAlways ==
    ASSUME \A r \in Calls : WellFormed(r)
    PROVE  Spec => []MatchInsideOutput
BY DecodingMatchInsideOutput, DecodesInStep, PTL

-----------------------------------------------------------------------------
(* The abstract specification: a step copies literals, copies a match,     *)
(* returns, or shows nothing.                                              *)
LEMMA PromisedStep ==
    IInv /\ Decoding /\ IInv' /\ [Next]_vars => [Promise!Next]_(Promise!vars)
<1> SUFFICES ASSUME IInv, Decoding, IInv', [Next]_vars
             PROVE  Promise!Next \/ UNCHANGED Promise!vars
  BY DEF Promise!vars
<1>1. /\ CallOK(call) /\ WellFormed(call) /\ Spelled(call) /\ call' = call
  BY CallKept, InvFacts DEF Decoding, WellFormed
<1>2. CASE CopyLiteral
  <2>1. pc = "CopyLiteral" /\ pc' = "DecodeMatchOffset"
    BY <1>2 DEF CopyLiteral
  <2>2. PICK i \in 1 .. Len(Script) : AtLiteral(i)
    BY <2>1, StageIs, StageLabels DEF InCommand
  <2>3. Made(call.out[i]) /\ Made(From(i))' /\ From(i)' = From(i)
    BY <1>1, <1>2, <2>2, CopyLiteralStep, PlacesKept
    DEF AtLiteral, AtOffset, MadeTo
  <2>4. call.out[i] < From(i)
    <3>1. /\ From(i) = call.out[i] + Lit(i) /\ call.out[i] \in Nat
          /\ Lit(i) \in Nat /\ Lit(i) > 0
      BY <1>1, <2>2, Layout DEF AtLiteral
    <3> QED BY SMT, <3>1
  <2> QED BY <1>1, <2>1, <2>3, <2>4, PromisedEmit DEF Promise!Next
<1>3. CASE Move
  <2>1. pc = "BlockMove" /\ pc' = "MatchCopied"
    BY <1>3 DEF Move, MoveBlock
  <2>2. PICK i \in 1 .. Len(Script) : AtMove(i)
    BY <2>1, StageIs, StageLabels DEF InCommand
  <2>3. /\ Made(From(i)) /\ Made(call.out[i + 1])'
        /\ call.out[i + 1]' = call.out[i + 1] /\ From(i)' = From(i)
    BY <1>1, <1>3, <2>2, MoveStep, PlacesKept, CommandKept
    DEF AtMove, Matching, Moved, MadeTo
  <2>4. From(i) < call.out[i + 1]
    <3>1. /\ call.out[i + 1] = From(i) + Script[i].len /\ From(i) \in Nat
          /\ Script[i].len \in Nat /\ Script[i].len >= 4
      BY <1>1, <2>2, Layout DEF AtMove, Matching
    <3> QED BY SMT, <3>1
  <2> QED BY <1>1, <2>1, <2>3, <2>4, PromisedEmit DEF Promise!Next
<1>4. CASE Done
  <2>1. /\ pc = "Done" /\ MadeTo(Size) /\ wram' = wram /\ y' = y
    BY <1>4, StageIs DEF Done, output
  <2>2. stack = Frame /\ CommonTypeOK
    BY <1>4, InvFacts DEF Done, Steady16
  <2>3. pc' = "Idle" /\ (RETLEN => x' = Sbc(y, call.dst))
    BY <1>4, <2>2, LeaveFrame DEF Done, CommonTypeOK
  <2>4. Sbc(y, call.dst) = Size
    BY <1>1, <2>1, ReportedSize
  <2> QED BY <1>1, <2>1, <2>3, <2>4, PromisedReturn DEF Promise!Next, MadeTo
<1>5. CASE \/ Main \/ Setup \/ ReadToken \/ DecodeLitLen \/ DecodeMatchOffset
           \/ DecodeMatchLen \/ CopyMatch \/ MatchCopied \/ AddLength
           \/ AddLoop
  <2>1. wram' = wram /\ pc # "Idle"
    BY <1>5 DEF Main, CallRoutine, Setup, ReadToken, DecodeLitLen,
       DecodeMatchOffset, DecodeMatchLen, CopyMatch, MatchCopied, AddLength,
       AddLoop, output
  <2>2. pc' # "Idle"
    <3>1. CASE AddLoop
      <4>1. PICK next \in AfterLength : stack = SumFrame(next, Sum)
        BY <3>1 DEF AddLoop, IInv, StackShape
      <4>2. ReturnTo(Pop(stack)) = next
        BY SMT, <4>1 DEF SumFrame, LengthFrame, Top, Pop, Push, Item, ReturnTo
      <4> QED BY <3>1, <4>2 DEF AddLoop, AfterLength
    <3> QED
      BY <1>5, <3>1 DEF Main, CallRoutine, Setup, ReadToken, DecodeLitLen,
         NoLiteral, ShortLen, LongLen, DecodeMatchOffset, DecodeMatchLen,
         CopyMatch, EnterMove, MatchCopied, AddLength
  <2> QED BY <1>1, <2>1, <2>2, PromisedQuiet
<1>6. CASE UNCHANGED vars \/ Wai
  <2>1. UNCHANGED <<pc, x, wram>>
    BY <1>6 DEF vars, common, Wai, Idle
  <2> QED BY <1>1, <2>1, PromisedQuiet
<1> QED BY <1>2, <1>3, <1>4, <1>5, <1>6 DEF Next

(* On every well-formed block LZ4_Decompress is a decompressor: what is in *)
(* the destination is always a prefix of the text, it only grows, and the  *)
(* routine returns with all of it there and, where it reports it, its      *)
(* length in X.                                                            *)
THEOREM ImplementsAlways ==
    ASSUME \A r \in Calls : WellFormed(r)
    PROVE  Spec => Implements
<1>1. Init => Promise!Init
  <2> SUFFICES ASSUME Init PROVE Promise!Init
    OBVIOUS
  <2>1. WellFormed(call) /\ CallOK(call)
    BY CallsAssumption DEF Init, RoutineInit
  <2> QED BY <2>1, PromisedInit DEF Init, RoutineInit, WellFormed
<1> QED
  BY <1>1, DecodesInStep, PromisedStep, PTL DEF Spec, Implements, Promise!Spec
=============================================================================
