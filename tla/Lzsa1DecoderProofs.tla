------------------------- MODULE Lzsa1DecoderProofs -------------------------
(***************************************************************************)
(* The first part is about LZSA1_Decompress on any bytes at all, well      *)
(* formed or not: what it does to the registers, the banks and the stack   *)
(* cannot be disturbed by the data, the exit out of the middle of          *)
(* AddLength included (IInv).                                              *)
(*                                                                         *)
(* The second is about blocks that lzsa -f1 writes, without runs of        *)
(* literals the routine cannot take (WellFormed): where in the script it   *)
(* is at each label, and what of the text has been made (Decoding). From   *)
(* it follows that the routine is a decompressor.                          *)
(***************************************************************************)
EXTENDS Lzsa1Decoder, LzRoutineProofs

Steady8  == {"ReadToken", "DecodeLitLen", "DecodeMatchOffset", "DecodeMatchLen"}
Steady16 == {"CopyLiteral", "CopyMatch", "Done"}
Moving   == {"BlockMove", "MatchCopied"}

AfterLength == {"CopyLiteral", "CopyMatch"}

LengthFrame(next) == Push(Frame, Item("addr", next))

StackShape ==
    /\ pc = "Main" => stack = EmptyStack
    /\ pc = "Setup" => stack = Called
    /\ pc \in Steady8 \cup Steady16 => stack = Frame
    /\ pc \in Moving => /\ SavedX \in Word
                        /\ stack = MoveFrame(SavedX)
    /\ pc = "AddLength" => \E next \in AfterLength : stack = LengthFrame(next)
    /\ pc = "Idle" => stack = EmptyStack

Width ==
    /\ pc \in {"Main", "Setup", "AddLength", "Idle"} \cup Steady8 => m = 8
    /\ pc \in Steady16 \cup Moving => m = 16

Banks ==
    /\ pc \in {"Main", "Setup", "Idle"} => db = 128 /\ dp = 0
    /\ pc = "Setup" => /\ y = call.dst
                       /\ a = MakeWord(call.srcBank, call.dstBank)
    /\ pc \notin {"Main", "Setup", "MatchCopied", "Idle"} => db = call.srcBank
    /\ pc \notin {"Main", "Setup"} => /\ inBank = call.srcBank
                                      /\ outBank = call.dstBank

Reported == pc = "Idle" /\ RETLEN => x = Sbc(y, call.dst)

IInv == TypeOK /\ StackShape /\ Width /\ Banks /\ Reported

-----------------------------------------------------------------------------
LEMMA InitInv == Init => IInv
<1> SUFFICES ASSUME Init PROVE IInv
  OBVIOUS
<1>1. TypeOK
  BY SMT, RoutineInitType DEF Init, RoutineInit, TypeOK, Labels, Byte
<1> QED BY SMT, <1>1 DEF Init, RoutineInit, IInv, StackShape, Width, Banks,
                         Reported, Steady8, Steady16, Moving

(* The two outcomes of a length field keep the invariant, for literals and *)
(* for matches.                                                            *)
LEMMA ShortLenInv ==
    ASSUME IInv, NEW len \in Byte, NEW next \in AfterLength,
           pc \in {"DecodeLitLen", "DecodeMatchLen"}, ShortLen(len, next),
           UNCHANGED <<fixed, output, x, y, db, match, token>>
    PROVE  IInv'
<1> USE DEF Steady8, Steady16, Moving, AfterLength, fixed, output
<1>1. len \in Word
  BY SMT DEF Byte, Word
<1>2. TypeOK'
  BY SMT, <1>1 DEF ShortLen, IInv, TypeOK, CommonTypeOK, Labels, Bit
<1>3. Frame' = Frame
  BY FrameFixed
<1> QED
  BY SMT, <1>2, <1>3 DEF ShortLen, IInv, StackShape, Width, Banks, Reported

LEMMA LongLenInv ==
    ASSUME IInv, NEW len \in Byte, NEW next \in AfterLength,
           pc \in {"DecodeLitLen", "DecodeMatchLen"}, LongLen(len, next),
           UNCHANGED <<fixed, output, x, y, db, match, token>>
    PROVE  IInv'
<1> USE DEF Steady8, Steady16, Moving, AfterLength, fixed, output
<1>1. SetLo(a, len) \in Word
  BY SetLoType DEF IInv, TypeOK, CommonTypeOK
<1>2. TypeOK'
  BY SMT, <1>1 DEF LongLen, IInv, TypeOK, CommonTypeOK, Labels, Bit
<1>3. Frame' = Frame
  BY FrameFixed
<1>4. stack' = LengthFrame(next)'
  BY SMT, <1>3 DEF LongLen, IInv, StackShape, LengthFrame
<1> QED
  BY SMT, <1>2, <1>3, <1>4
  DEF LongLen, IInv, StackShape, Width, Banks, Reported

(* So do the ways a length comes back from AddLength. *)
LEMMA LengthInv ==
    ASSUME IInv, pc = "AddLength", m' = 16,
           NEW len \in Word, NEW bytes \in Nat, NEW carry \in Bit,
           Length(len, bytes, carry),
           UNCHANGED <<fixed, output, y, db, match, token>>
    PROVE  IInv'
<1> USE DEF Steady8, Steady16, Moving, AfterLength, fixed, output
<1>1. PICK next \in AfterLength : stack = LengthFrame(next)
  BY SMT DEF IInv, StackShape
<1>2. ReturnTo(stack) = next /\ Pop(stack) = Frame
  BY SMT, <1>1 DEF LengthFrame, Top, Pop, Push, Item, ReturnTo
<1>3. Wrap(x + bytes) \in Word
  BY SMT, WrapType DEF IInv, TypeOK, CommonTypeOK, Word
<1>4. TypeOK'
  BY SMT, <1>2, <1>3 DEF Length, IInv, TypeOK, CommonTypeOK, Labels
<1>5. Frame' = Frame
  BY FrameFixed
<1> QED
  BY SMT, <1>2, <1>4, <1>5 DEF Length, IInv, StackShape, Width, Banks, Reported

-----------------------------------------------------------------------------
(* Every action preserves the invariant. *)
LEMMA StepInv == IInv /\ [Next]_vars => IInv'
<1> SUFFICES ASSUME IInv, [Next]_vars PROVE IInv'
  OBVIOUS
<1> USE DEF Steady8, Steady16, Moving, AfterLength, fixed, output
<1>t. CommonTypeOK
  BY DEF IInv, TypeOK
<1>l. ReadByte \in Byte /\ ByteAfter \in Byte /\ WordAfter \in Word
  BY <1>t, LoadType, LoadAfterType
<1>1. CASE Main
  <2>1. TypeOK'
    <3>1. CommonTypeOK'
      BY <1>1, <1>t, CallRoutineType DEF Main
    <3>2. pc' \in Labels
      BY SMT, <1>1 DEF Main, CallRoutine, Labels
    <3> QED BY SMT, <1>1, <3>1, <3>2 DEF Main, IInv, TypeOK
  <2> QED
    BY SMT, <1>1, <2>1
    DEF Main, CallRoutine, IInv, StackShape, Width, Banks, Reported, Called
<1>2. CASE Setup
  <2>1. TypeOK'
    <3>1. /\ db' \in Byte /\ dp' \in Word /\ a' \in Word
          /\ inBank' \in Byte /\ outBank' \in Byte /\ wmadd' \in WramAddress
      BY <1>2, <1>t, SetupFrameType DEF Setup, CommonTypeOK
    <3> QED BY SMT, <1>2, <3>1 DEF Setup, IInv, TypeOK, CommonTypeOK, Labels
  <2>2. /\ stack = Called /\ db = 128 /\ dp = 0 /\ y = call.dst
        /\ a = MakeWord(call.srcBank, call.dstBank) /\ CallOK(call)
    BY SMT, <1>2, <1>t DEF Setup, IInv, StackShape, Banks, CommonTypeOK
  <2>3. /\ stack' = Frame' /\ db' = call.srcBank
        /\ inBank' = call.srcBank /\ outBank' = call.dstBank
    BY <1>2, <2>2, SetupBuildsFrame DEF Setup
  <2> QED
    BY SMT, <1>2, <2>1, <2>3 DEF Setup, IInv, StackShape, Width, Banks, Reported
<1>3. CASE ReadToken
  <2>1. TypeOK'
    <3>1. SetLo(a, ReadByte) \in Word
      BY <1>t, <1>l, SetLoType DEF CommonTypeOK
    <3>2. Wrap(x + 1) \in Word
      BY SMT, <1>t, WrapType DEF CommonTypeOK, Word
    <3> QED
      BY SMT, <1>3, <1>l, <3>1, <3>2
      DEF ReadToken, IInv, TypeOK, CommonTypeOK, Labels
  <2>2. Frame' = Frame
    BY <1>3, FrameFixed DEF ReadToken
  <2> QED
    BY SMT, <1>3, <2>1, <2>2
    DEF ReadToken, IInv, StackShape, Width, Banks, Reported
<1>4. CASE DecodeLitLen
  <2>1. LitField \in Byte
    BY SMT DEF LitField, IInv, TypeOK, Byte
  <2>2. CASE NoLiteral
    <3>1. SetLo(a, 0) \in Word
      BY SMT, <1>t, SetLoType DEF CommonTypeOK, Byte
    <3>2. TypeOK'
      BY SMT, <1>4, <2>2, <3>1
      DEF DecodeLitLen, NoLiteral, IInv, TypeOK, CommonTypeOK, Labels
    <3>3. Frame' = Frame
      BY <1>4, FrameFixed DEF DecodeLitLen
    <3> QED
      BY SMT, <1>4, <2>2, <3>2, <3>3
      DEF DecodeLitLen, NoLiteral, IInv, StackShape, Width, Banks, Reported
  <2>3. CASE ShortLen(LitField, "CopyLiteral")
    BY <1>4, <2>1, <2>3, ShortLenInv DEF DecodeLitLen
  <2>4. CASE LongLen(LitField, "CopyLiteral")
    BY <1>4, <2>1, <2>4, LongLenInv DEF DecodeLitLen
  <2> QED BY <1>4, <2>2, <2>3, <2>4 DEF DecodeLitLen
<1>5. CASE CopyLiteral
  <2>1. TypeOK'
    <3>1. WramOK(wram') /\ wmadd' \in WramAddress /\ x' \in Word
      BY <1>5, <1>t, PortAtYType, CopyRunType DEF CopyLiteral, CommonTypeOK
    <3>2. AfterLiteral \in Word /\ CarryOut(y, a, c) \in Bit
      BY AdcType, <1>t DEF AfterLiteral, CommonTypeOK
    <3>3. SetLo(AfterLiteral, 64) \in Word
      BY SMT, <3>2, SetLoType DEF Byte
    <3> QED
      BY SMT, <1>5, <3>1, <3>2, <3>3
      DEF CopyLiteral, IInv, TypeOK, CommonTypeOK, Labels
  <2>2. Frame' = Frame
    BY <1>5, FrameFixed DEF CopyLiteral
  <2> QED
    BY SMT, <1>5, <2>1, <2>2
    DEF CopyLiteral, IInv, StackShape, Width, Banks, Reported
<1>6. CASE DecodeMatchOffset
  <2> DEFINE high == IF WordOffset THEN ByteAfter ELSE 255
  <2>1. high \in Byte
    BY SMT, <1>l DEF Byte
  <2>2. MakeWord(ReadByte, high) \in Word /\ SetLo(a, high) \in Word
    <3> HIDE DEF high
    <3> QED BY <1>t, <1>l, <2>1, MakeWordType, SetLoType DEF CommonTypeOK
  <2>3. Wrap(x + 1) \in Word /\ Wrap(x + 2) \in Word
    BY SMT, <1>t, WrapType DEF CommonTypeOK, Word
  <2>4. TypeOK'
    <3>1. match' \in Word /\ a' \in Word
      BY <1>6, <2>2 DEF DecodeMatchOffset
    <3>2. x' \in Word
      BY SMT, <1>6, <2>3 DEF DecodeMatchOffset
    <3>3. pc' \in Labels
      BY SMT, <1>6 DEF DecodeMatchOffset, Labels
    <3>4. UNCHANGED <<fixed, output, y, c, m, db, stack, token>>
      BY <1>6 DEF DecodeMatchOffset
    <3> QED BY SMT, <3>1, <3>2, <3>3, <3>4 DEF IInv, TypeOK, CommonTypeOK
  <2>5. Frame' = Frame
    BY <1>6, FrameFixed DEF DecodeMatchOffset
  <2> QED
    BY SMT, <1>6, <2>4, <2>5
    DEF DecodeMatchOffset, IInv, StackShape, Width, Banks, Reported
<1>7. CASE DecodeMatchLen
  <2>1. MatchLen \in Byte
    BY SMT DEF MatchLen, IInv, TypeOK, Byte
  <2> QED
    BY <1>7, <2>1, ShortLenInv, LongLenInv DEF DecodeMatchLen
<1>8. CASE CopyMatch
  <2>1. MatchSource \in Word /\ CarryOut(y, match, 0) \in Bit
    BY SMT, AdcType, <1>t DEF MatchSource, CommonTypeOK, Bit
  <2>2. MvnOperand(a) \in Word
    BY SMT, <1>t, WrapType DEF MvnOperand, CommonTypeOK, Word
  <2>3. stack = Frame /\ db = call.srcBank
    BY SMT, <1>8 DEF CopyMatch, IInv, StackShape, Banks
  <2>4. /\ stack' = MoveFrame(x) /\ SavedX' = x
        /\ x' = MatchSource /\ a' = MvnOperand(a)
    BY <1>8, <2>1, <2>2, <2>3, EnterMoveFrame DEF CopyMatch
  <2>5. TypeOK'
    BY SMT, <1>8, <2>1, <2>2, <2>4
    DEF CopyMatch, EnterMove, IInv, TypeOK, CommonTypeOK, Labels
  <2>6. Frame' = Frame
    BY <1>8, FrameFixed DEF CopyMatch
  <2>7. stack' = Push(Push(Frame', Item("word", SavedX')),
                      Item("db", call.srcBank'))
    BY SMT, <1>8, <2>4, <2>6 DEF CopyMatch, MoveFrame
  <2>8. x \in Word
    BY <1>t DEF CommonTypeOK
  <2> QED
    BY SMT, <1>8, <2>4, <2>5, <2>7, <2>8
    DEF CopyMatch, EnterMove, IInv, StackShape, Width, Banks, Reported,
        MoveFrame
<1>9. CASE Move
  <2>1. TypeOK'
    <3>1. CommonTypeOK'
      BY <1>9, <1>t, MoveBlockType DEF Move
    <3> QED BY SMT, <1>9, <3>1 DEF Move, MoveBlock, IInv, TypeOK, Labels
  <2>2. Frame' = Frame
    BY <1>9, FrameFixed DEF Move, MoveBlock
  <2>3. SavedX' = SavedX
    BY SMT, <1>9 DEF Move, MoveBlock, SavedX
  <2> QED
    BY SMT, <1>9, <2>1, <2>2, <2>3
    DEF Move, MoveBlock, IInv, StackShape, Width, Banks, Reported, MoveFrame
<1>10. CASE MatchCopied
  <2>1. stack = MoveFrame(SavedX) /\ SavedX \in Word
    BY SMT, <1>10 DEF MatchCopied, IInv, StackShape
  <2>2. /\ db' = call.srcBank /\ db' \in Byte
        /\ x' = SavedX /\ stack' = Frame /\ m' = 8
    BY <1>10, <1>t, <2>1, LeaveMoveFrame DEF MatchCopied
  <2>3. TypeOK'
    BY SMT, <1>10, <2>1, <2>2
    DEF MatchCopied, IInv, TypeOK, CommonTypeOK, Labels
  <2>4. Frame' = Frame
    BY <1>10, FrameFixed DEF MatchCopied
  <2> QED
    BY SMT, <1>10, <2>2, <2>3, <2>4
    DEF MatchCopied, IInv, StackShape, Width, Banks, Reported
<1>11. CASE AddLength
  <2>1. UNCHANGED <<fixed, output, y, db, match, token>> /\ m' = 16
    BY <1>11 DEF AddLength
  <2>2. Lo(a) \in Byte
    BY <1>t, HalfType DEF CommonTypeOK
  <2>3. CASE ByteLen
    <3>1. LengthSum \in Word
      BY SMT, <2>2, <2>3, <1>l DEF ByteLen, LengthSum, Byte, Word
    <3> QED
      BY SMT, <1>11, <2>1, <2>3, <3>1, LengthInv DEF AddLength, ByteLen, Bit
  <2>4. CASE TwoByteLen
    <3>1. ByteAfter + 255 + 1 \in Word
      BY SMT, <1>l DEF Byte, Word
    <3> QED
      BY SMT, <1>11, <2>1, <2>4, <3>1, LengthInv DEF AddLength, TwoByteLen, Bit
  <2>5. CASE ThreeByteLen
    BY SMT, <1>11, <1>l, <2>1, <2>5, LengthInv DEF AddLength, ThreeByteLen, Bit
  <2>6. CASE EndOfData
    <3>1. PICK next \in AfterLength : stack = LengthFrame(next)
      BY SMT, <1>11 DEF AddLength, IInv, StackShape
    <3>2. ItemValue(Top(stack)) \in Word /\ UnwoundReturn = Frame
      BY SMT, <3>1 DEF UnwoundReturn, LengthFrame, Top, Pop, Push, Item,
                       ItemValue, CodeAddress, Word
    <3>3. TypeOK'
      BY SMT, <1>11, <2>1, <2>6, <3>2
      DEF EndOfData, IInv, TypeOK, CommonTypeOK, Labels, Bit
    <3>4. Frame' = Frame
      BY <2>1, FrameFixed
    <3> QED
      BY SMT, <1>11, <2>1, <2>6, <3>2, <3>3, <3>4
      DEF AddLength, EndOfData, IInv, StackShape, Width, Banks, Reported
  <2> QED BY <1>11, <2>3, <2>4, <2>5, <2>6 DEF AddLength
<1>12. CASE Done
  <2>1. stack = Frame
    BY SMT, <1>12 DEF Done, IInv, StackShape
  <2>2. /\ stack' = EmptyStack /\ pc' = "Idle"
        /\ db' = 128 /\ dp' = 0
        /\ RETLEN => x' = Sbc(y, call.dst)
        /\ x' \in Word /\ a' \in Word /\ c' \in Bit
    BY <1>12, <1>t, <2>1, LeaveFrame DEF Done, CommonTypeOK
  <2>3. 128 \in Byte /\ 0 \in Word
    BY SMT DEF Byte, Word
  <2>4. TypeOK'
    BY SMT, <1>12, <2>2, <2>3
    DEF Done, WidthAtReturn, IInv, TypeOK, CommonTypeOK, Labels
  <2>5. Reported'
    BY SMT, <1>12, <2>2 DEF Done, Reported
  <2> QED
    BY SMT, <1>12, <2>2, <2>4, <2>5
    DEF Done, WidthAtReturn, IInv, StackShape, Width, Banks
<1>13. CASE UNCHANGED vars
  <2>1. Frame' = Frame
    BY <1>13, FrameFixed DEF vars, common
  <2> QED
    BY SMT, <1>13, <2>1
    DEF vars, common, IInv, TypeOK, CommonTypeOK, StackShape, Width, Banks,
        Reported, MoveFrame, LengthFrame, SavedX
<1>14. CASE Wai
  BY <1>13, <1>14 DEF Wai, Idle, vars
<1> QED
  BY <1>1, <1>2, <1>3, <1>4, <1>5, <1>6, <1>7, <1>8, <1>9, <1>10, <1>11, <1>12,
     <1>13, <1>14 DEF Next

(* The call being served stays what it is. *)
LEMMA CallKept == [Next]_vars => call' = call
BY SMT DEF Next, Main, Setup, ReadToken, DecodeLitLen, CopyLiteral,
           DecodeMatchOffset, DecodeMatchLen, CopyMatch, Move, MatchCopied,
           AddLength, Done, Wai, CallRoutine, MoveBlock, Idle, common,
           fixed, vars

-----------------------------------------------------------------------------
(* The stack, the widths and the banks are what IInv says at every label   *)
(* of LZSA1_Decompress, whatever bytes are in the block.                   *)
THEOREM Invariance == Spec => []IInv
BY InitInv, StepInv, PTL DEF Spec

(* The registers and the WRAM written stay what they are declared to be,   *)
(* on every block, and the CPU never leaves the labels of the code: no RTS *)
(* or RTL takes something for an address that is not one.                  *)
THEOREM TypeCorrect == Spec => []TypeOK
<1>1. IInv => TypeOK
  BY DEF IInv
<1> QED BY Invariance, <1>1, PTL

(* Whatever the block says, when the routine returns the caller's stack,   *)
(* DB and DP are what they were: the end marker found in the middle of a   *)
(* length, with an address still on the stack, is left cleanly.            *)
THEOREM CallerRestoredAlways == Spec => []CallerRestored
<1>1. IInv => CallerRestored
  BY DEF IInv, StackShape, Banks, CallerRestored
<1> QED BY Invariance, <1>1, PTL

(* With or without the length, the accumulator is 8 bits wide again. *)
THEOREM ReturnsIn8BitAlways == Spec => []ReturnsIn8Bit
<1>1. IInv => ReturnsIn8Bit
  BY DEF IInv, Width, ReturnsIn8Bit
<1> QED BY Invariance, <1>1, PTL

(* Loads and DMA stay in the bank of the block. *)
THEOREM LoadsFromBlockBankAlways == Spec => []LoadsFromBlockBank
<1>1. IInv => LoadsFromBlockBank
  BY SMT DEF IInv, Banks, LoadsFromBlockBank
<1> QED BY Invariance, <1>1, PTL

-----------------------------------------------------------------------------
(* A well-formed block: the text is spelled by a script, in one bank, the  *)
(* block is what the compressor writes for it, and no run of literals is   *)
(* longer than LZSA1_Decompress can take (ThreeByteLen).                   *)
Format == INSTANCE Lzsa1Format

WellFormed(r) == /\ Spelled(r)
                 /\ Format!Encodes(r)
                 /\ Format!ShortLiterals(r)

(* What command i says: a match is wide when its offset takes two bytes,   *)
(* and in place of one the last command has a length field of 15.          *)
Lit(i)  == Script[i].lit
Wide(i) == Script[i].len # 0 /\ Script[i].off > 256

Field(n, max)    == IF n >= max THEN max ELSE n
MatchField(i)    == IF Script[i].len = 0 THEN 15
                    ELSE Field(Script[i].len - 3, 15)
WideBit(i)       == IF Wide(i) THEN 128 ELSE 0
Tok(i)           == WideBit(i) + Field(Lit(i), 7) * 16 + MatchField(i)
More(n, inToken) == IF n < inToken THEN 0
                    ELSE IF n < 256 THEN 1
                    ELSE IF n < 512 THEN 2 ELSE 3

(* Where the parts of command i are in the block. *)
LitLenAt(i)   == call.at[i] + 1
LitAt(i)      == LitLenAt(i) + More(Lit(i), 7)
OffAt(i)      == LitAt(i) + Lit(i)
MatchLenAt(i) == OffAt(i) + (IF Wide(i) THEN 2 ELSE 1)

LEMMA VarlenType ==
    ASSUME NEW n \in Nat, NEW inToken \in {7, 18}
    PROVE  /\ Format!Varlen(n, inToken) \in Seq(Int)
           /\ Len(Format!Varlen(n, inToken)) = More(n, inToken)
           /\ More(n, inToken) \in 0 .. 3
<1>1. /\ n - inToken \in Int /\ 257 - inToken \in Int /\ n - 256 \in Int
      /\ 256 - inToken \in Int /\ n % 256 \in Int /\ n \div 256 \in Int
  BY SMT
<1>2. \A u, v, w \in Int : /\ <<u>> \in Seq(Int) /\ Len(<<u>>) = 1
                           /\ <<u, v>> \in Seq(Int) /\ Len(<<u, v>>) = 2
                           /\ <<u, v, w>> \in Seq(Int) /\ Len(<<u, v, w>>) = 3
  BY SMT
<1>3. <<>> \in Seq(Int) /\ Len(<<>>) = 0
  BY SMT
<1> QED BY <1>1, <1>2, <1>3 DEF Format!Varlen, More

LEMMA FieldType ==
    ASSUME NEW n \in Nat
    PROVE  Field(n, 7) \in 0 .. 7 /\ Field(n, 15) \in 0 .. 15
BY SMT DEF Field

(* What the parts of command i say, and where they are. *)
Parsed(i) ==
    /\ Holds(call.at[i], <<Tok(i)>>)
    /\ Holds(LitLenAt(i), Format!Varlen(Lit(i), 7))
    /\ LitAt(i) + Lit(i) <= Len(call.block)
    /\ \A j \in 1 .. Lit(i) :
          call.block[LitAt(i) + j] = call.plain[call.out[i] + j]
    /\ IF i = Len(Script) THEN Holds(OffAt(i), <<0, 238, 0, 0>>)
       ELSE /\ Holds(OffAt(i), Format!OffsetBytes(Script[i].off))
            /\ Holds(MatchLenAt(i), Format!Varlen(Script[i].len, 18))
            /\ call.at[i + 1] = MatchLenAt(i) + More(Script[i].len, 18)

LEMMA CommandAt ==
    ASSUME CallOK(call), WellFormed(call), NEW i \in 1 .. Len(Script)
    PROVE  /\ call.at[i] \in Nat /\ Len(Script) \in Nat
           /\ Holds(call.at[i],
                    Format!WriteCommand(Text!LiteralsOf(call, i), Script[i]))
           /\ call.at[i + 1] = call.at[i]
                + Len(Format!WriteCommand(Text!LiteralsOf(call, i), Script[i]))
           /\ call.at[1] = 0
           /\ Holds(call.at[Len(Script) + 1], <<0, 238, 0, 0>>)
           /\ IF i = Len(Script) THEN Script[i].len = 0
              ELSE Script[i].len >= 3
           /\ Script[i].lit < 512
<1>1. Len(Script) \in Nat /\ Len(call.block) \in Nat
  BY SMT DEF WellFormed, Spelled, Text!Spells, Script, CallOK
<1>2. call.at[i] \in Nat
  <2>1. call.at \in [1 .. Len(Script) + 1 -> 0 .. Len(call.block)]
    BY DEF WellFormed, Format!Encodes, Script
  <2> QED BY SMT, <1>1, <2>1
<1> QED
  BY ZenonT(60), <1>1, <1>2
  DEF WellFormed, Format!Encodes, Format!ShortLiterals, Script,
     Holds, Text!HasAt, Format!HasAt, Text!LiteralsOf, Format!LiteralsOf,
     Format!MIN_MATCH_SIZE_V1, Format!EOD

(* The token, and the bytes of the offset. *)
LEMMA HeadBytes ==
    ASSUME NEW n \in Nat, NEW k \in Nat, NEW off \in Nat
    PROVE  /\ Format!Token(n, k, Format!LongOffset(off))
                  = <<(IF off > 256 THEN 128 ELSE 0)
                      + Field(n, 7) * 16 + Field(k, 15)>>
           /\ Format!OffsetBytes(off) \in Seq(Int)
           /\ Len(Format!OffsetBytes(off)) = IF off > 256 THEN 2 ELSE 1
<1>1. /\ (-off) % 256 \in Int /\ ((-off) % 65536) \div 256 \in Int
  BY SMT
<1>2. \A u, v \in Int : /\ <<u>> \in Seq(Int) /\ Len(<<u>>) = 1
                        /\ <<u, v>> \in Seq(Int) /\ Len(<<u, v>>) = 2
  BY SMT
<1>3. Field(15, 15) = 15
  BY SMT DEF Field
<1>4. /\ Format!OffsetBytes(off) \in Seq(Int)
      /\ Len(Format!OffsetBytes(off)) = IF off > 256 THEN 2 ELSE 1
  <2> DEFINE u == (-off) % 256
             v == ((-off) % 65536) \div 256
  <2>1. Format!OffsetBytes(off) = IF off > 256 THEN <<u, v>> ELSE <<u>>
    BY DEF Format!OffsetBytes, Format!LongOffset
  <2> HIDE DEF u, v
  <2>2. u \in Int /\ v \in Int
    BY <1>1 DEF u, v
  <2> QED BY <1>2, <2>1, <2>2
<1> QED
  BY <1>3, <1>4 DEF Format!Token, Format!AtMost, Field, Format!LongOffset,
     Format!LITERALS_RUN_LEN_V1, Format!MATCH_RUN_LEN_V1

LEMMA LastWritten ==
    ASSUME NEW literals, NEW cmd, cmd.len = 0
    PROVE  Format!WriteCommand(literals, cmd)
               = <<0 + Field(cmd.lit, 7) * 16 + 15>>
                 \o Format!Varlen(cmd.lit, 7) \o literals
<1>1. Format!WriteCommand(literals, cmd)
          = Format!Token(cmd.lit, Format!MATCH_RUN_LEN_V1, FALSE)
            \o Format!LiteralsVarlen(cmd.lit) \o literals
  BY DEF Format!WriteCommand, Format!WriteLastCommand
<1>2. Format!LiteralsVarlen(cmd.lit) = Format!Varlen(cmd.lit, 7)
  BY DEF Format!LiteralsVarlen, Format!LITERALS_RUN_LEN_V1
<1>3. Format!Token(cmd.lit, Format!MATCH_RUN_LEN_V1, FALSE)
          = <<0 + Field(cmd.lit, 7) * 16 + 15>>
  <2>1. Format!AtMost(15, 15) = 15
    BY SMT DEF Format!AtMost
  <2> QED BY SMT, <2>1 DEF Format!Token, Format!AtMost, Field,
     Format!LITERALS_RUN_LEN_V1, Format!MATCH_RUN_LEN_V1
<1> QED BY <1>1, <1>2, <1>3

LEMMA MatchWritten ==
    ASSUME NEW literals, NEW cmd, cmd.len # 0
    PROVE  Format!WriteCommand(literals, cmd)
               = Format!Token(cmd.lit, cmd.len - 3, Format!LongOffset(cmd.off))
                 \o Format!Varlen(cmd.lit, 7) \o literals
                 \o Format!OffsetBytes(cmd.off)
                 \o Format!Varlen(cmd.len, 18)
<1>1. 15 + 3 = 18
  BY SMT
<1>2. /\ Format!LiteralsVarlen(cmd.lit) = Format!Varlen(cmd.lit, 7)
      /\ Format!MatchVarlen(cmd.len) = Format!Varlen(cmd.len, 18)
  BY <1>1 DEF Format!LiteralsVarlen, Format!MatchVarlen,
     Format!LITERALS_RUN_LEN_V1, Format!MATCH_RUN_LEN_V1,
     Format!MIN_MATCH_SIZE_V1
<1>3. Format!WriteCommand(literals, cmd)
          = Format!Token(cmd.lit, cmd.len - Format!MIN_MATCH_SIZE_V1,
                         Format!LongOffset(cmd.off))
            \o Format!LiteralsVarlen(cmd.lit) \o literals
            \o Format!OffsetBytes(cmd.off) \o Format!MatchVarlen(cmd.len)
  BY DEF Format!WriteCommand, Format!WriteMatchCommand
<1> QED BY <1>2, <1>3 DEF Format!MIN_MATCH_SIZE_V1

LEMMA CommandParsed ==
    ASSUME CallOK(call), WellFormed(call), NEW i \in 1 .. Len(Script)
    PROVE  Parsed(i)
<1> DEFINE p == call.at[i]
           last == Script[i].len = 0
           tok == <<Tok(i)>>
           vl == Format!Varlen(Lit(i), 7)
           lits == Text!LiteralsOf(call, i)
           off == IF last THEN <<>> ELSE Format!OffsetBytes(Script[i].off)
           vm == IF last THEN <<>> ELSE Format!Varlen(Script[i].len, 18)
           front == tok \o vl \o lits \o off
           written == Format!WriteCommand(lits, Script[i])
<1>1. /\ Spelled(call) /\ p \in Nat /\ Len(call.block) \in Nat
      /\ Holds(p, written) /\ call.at[i + 1] = p + Len(written)
      /\ last <=> i = Len(Script)
      /\ last => Holds(call.at[i + 1], <<0, 238, 0, 0>>)
      /\ ~last => Script[i].len >= 3
  <2>1. /\ Spelled(call) /\ Len(call.block) \in Nat
    BY SizeType DEF WellFormed
  <2>2. Script[i].len \in Nat
    BY <2>1, CommandType
  <2>3. Script[i].len >= 3 => ~last
    BY SMT, <2>2
  <2>4. /\ p \in Nat /\ Holds(p, written) /\ call.at[i + 1] = p + Len(written)
        /\ Holds(call.at[Len(Script) + 1], <<0, 238, 0, 0>>)
        /\ IF i = Len(Script) THEN Script[i].len = 0 ELSE Script[i].len >= 3
    BY CommandAt
  <2> HIDE DEF p, written
  <2>5. last <=> i = Len(Script)
    BY <2>3, <2>4
  <2>6. ~last => Script[i].len >= 3
    BY <2>4
  <2> QED BY Zenon, <2>1, <2>4, <2>5, <2>6
<1>2. /\ Lit(i) \in Nat /\ Script[i].off \in Nat /\ Script[i].len \in Nat
      /\ ~last => Script[i].len - 3 \in Nat
  <2>1. Script[i].lit \in Nat /\ Script[i].len \in Nat /\ Script[i].off \in Nat
    BY <1>1, CommandType
  <2> QED BY SMT, <1>1, <2>1 DEF Lit
<1>3. tok \in Seq(Int) /\ Len(tok) = 1 /\ Len(<<>>) = 0 /\ <<>> \in Seq(Int)
  <2>1. Field(Lit(i), 7) \in 0 .. 7 /\ MatchField(i) \in 0 .. 15
    <3>1. 15 \in 0 .. 15
      BY SMT
    <3> QED BY <1>2, <3>1, FieldType DEF MatchField
  <2>2. \A w \in {0, 128}, u \in 0 .. 7, v \in 0 .. 15 : w + u * 16 + v \in Int
    BY SMT
  <2>3. Tok(i) \in Int
    BY <2>1, <2>2 DEF Tok, WideBit
  <2> QED BY SMT, <2>3
<1>4. /\ vl \in Seq(Int) /\ Len(vl) = More(Lit(i), 7)
      /\ vm \in Seq(Int)
      /\ Len(vm) = IF last THEN 0 ELSE More(Script[i].len, 18)
      /\ More(Lit(i), 7) \in Nat /\ More(Script[i].len, 18) \in Nat
  <2>1. \A u \in 0 .. 3 : u \in Nat
    BY SMT
  <2>2. 7 \in {7, 18} /\ 18 \in {7, 18}
    BY SMT
  <2>3. /\ vl \in Seq(Int) /\ Len(vl) = More(Lit(i), 7)
        /\ More(Lit(i), 7) \in 0 .. 3
    BY <1>2, <2>2, VarlenType
  <2> DEFINE v == Format!Varlen(Script[i].len, 18)
  <2>4. /\ v \in Seq(Int) /\ Len(v) = More(Script[i].len, 18)
        /\ More(Script[i].len, 18) \in 0 .. 3
    BY <1>2, <2>2, VarlenType
  <2>5. vm = IF last THEN <<>> ELSE v
    OBVIOUS
  <2> HIDE DEF v
  <2>6. CASE Script[i].len = 0
    BY Zenon, <1>3, <2>1, <2>3, <2>4, <2>6
  <2>7. CASE Script[i].len # 0
    BY <2>1, <2>3, <2>4, <2>7 DEF v
  <2> QED BY <2>6, <2>7
<1>5. /\ lits \in Seq(Int) /\ Len(lits) = Lit(i)
      /\ \A j \in 1 .. Lit(i) : lits[j] = call.plain[call.out[i] + j]
  BY <1>1, LiteralsType DEF Lit
<1>6. /\ off \in Seq(Int)
      /\ Len(off) = IF last THEN 0 ELSE IF Wide(i) THEN 2 ELSE 1
  BY Zenon, <1>2, <1>3, HeadBytes DEF Wide
<1>7. front \in Seq(Int)
  <2> HIDE DEF tok, vl, lits, off
  <2>1. tok \o vl \in Seq(Int)
    BY <1>3, <1>4, ConcatType
  <2>2. tok \o vl \o lits \in Seq(Int)
    BY <1>5, <2>1, ConcatType
  <2> QED BY <1>6, <2>2, ConcatType
<1>8. written = front \o vm
  <2>1. \A s \in Seq(Int) : s \o <<>> = s
    BY SMT
  <2>2. CASE last
    <3>1. Tok(i) = 0 + Field(Lit(i), 7) * 16 + 15
      BY <2>2 DEF Tok, Wide, WideBit, MatchField
    <3>2. written = tok \o vl \o lits
      BY <2>2, <3>1, LastWritten DEF Lit
    <3>3. off = <<>> /\ vm = <<>>
      BY <2>2
    <3>4. tok \o vl \o lits \in Seq(Int)
      <4> HIDE DEF tok, vl, lits
      <4>1. tok \o vl \in Seq(Int)
        BY <1>3, <1>4, ConcatType
      <4> QED BY <1>5, <4>1, ConcatType
    <3>5. front = tok \o vl \o lits
      <4> DEFINE s == tok \o vl \o lits
      <4>1. s \o off = s
        BY <2>1, <3>3, <3>4
      <4> QED BY <4>1
    <3>6. front \o vm = front
      <4> HIDE DEF front
      <4> QED BY <2>1, <3>3, <1>7
    <3> QED BY <3>2, <3>5, <3>6
  <2>3. CASE ~last
    <3>1. Format!Token(Lit(i), Script[i].len - 3,
                       Format!LongOffset(Script[i].off)) = tok
      BY <1>2, <2>3, HeadBytes DEF Tok, Wide, WideBit, MatchField
    <3> QED BY <2>3, <3>1, MatchWritten DEF Lit
  <2> QED BY <2>2, <2>3
<1>9. /\ Holds(p, tok) /\ Holds(p + 1, vl) /\ Holds(p + 1 + Len(vl), lits)
      /\ Holds(p + 1 + Len(vl) + Len(lits), off)
      /\ Holds(p + Len(front), vm)
      /\ Len(front) = 1 + Len(vl) + Len(lits) + Len(off)
      /\ Len(front \o vm) = Len(front) + Len(vm)
  <2>1. Holds(p, front) /\ Holds(p + Len(front), vm)
    <3> HIDE DEF front, vm, written
    <3> QED BY <1>1, <1>4, <1>7, <1>8, HoldsParts
  <2>2. Len(front \o vm) = Len(front) + Len(vm)
    <3> HIDE DEF front, vm
    <3> QED BY <1>4, <1>7, ConcatType
  <2>3. p \in Nat /\ Len(call.block) \in Nat
    BY <1>1
  <2> HIDE DEF tok, vl, lits, off, vm, written, p
  <2>4. /\ Holds(p, tok) /\ Holds(p + Len(tok), vl)
        /\ Holds(p + Len(tok) + Len(vl), lits)
        /\ Holds(p + Len(tok) + Len(vl) + Len(lits), off)
        /\ Len(front) = Len(tok) + Len(vl) + Len(lits) + Len(off)
    <3>1. Holds(p, tok \o vl \o lits \o off)
      BY <2>1
    <3>2. InFour(p, tok, vl, lits, off)
      <4>1. tok \in Seq(Int) /\ vl \in Seq(Int) /\ lits \in Seq(Int)
            /\ off \in Seq(Int)
        BY <1>3, <1>4, <1>5, <1>6
      <4> QED BY Zenon, <2>3, <3>1, <4>1, HoldsFour
    <3> QED BY Zenon, <3>2 DEF InFour
  <2> QED BY <1>3, <2>1, <2>2, <2>4
<1> HIDE DEF front, written
<1>10. /\ p + 1 = LitLenAt(i) /\ LitLenAt(i) + Len(vl) = LitAt(i)
       /\ LitAt(i) + Len(lits) = OffAt(i)
       /\ ~last => /\ p + Len(front) = MatchLenAt(i)
                   /\ call.at[i + 1] = MatchLenAt(i) + More(Script[i].len, 18)
       /\ last => call.at[i + 1] = OffAt(i)
  <2>1. p + 1 = LitLenAt(i) /\ LitLenAt(i) + More(Lit(i), 7) = LitAt(i)
        /\ LitAt(i) + Lit(i) = OffAt(i)
        /\ OffAt(i) + (IF Wide(i) THEN 2 ELSE 1) = MatchLenAt(i)
    BY DEF LitLenAt, LitAt, OffAt, MatchLenAt
  <2> DEFINE a1 == LitLenAt(i)
             a2 == LitAt(i)
             a3 == OffAt(i)
             a4 == MatchLenAt(i)
             l == Lit(i)
             ml == More(l, 7)
             me == More(Script[i].len, 18)
             w == IF Wide(i) THEN 2 ELSE 1
  <2>2. /\ p \in Nat /\ ml \in Nat /\ me \in Nat /\ l \in Nat /\ w \in {1, 2}
        /\ p + 1 = a1 /\ a1 + ml = a2 /\ a2 + l = a3 /\ a3 + w = a4
        /\ Len(front) = 1 + ml + l + (IF last THEN 0 ELSE w)
        /\ call.at[i + 1] = p + (Len(front) + (IF last THEN 0 ELSE me))
        /\ Len(vl) = ml /\ Len(lits) = l
    BY ZenonT(30), <1>1, <1>2, <1>4, <1>5, <1>6, <1>8, <1>9, <2>1
  <2> HIDE DEF vl, lits, p, vm, a1, a2, a3, a4, l, ml, me, w, last
  <2>3. ~last => p + Len(front) = a4
    BY SMTT(30), <2>2
  <2>4. ~last => call.at[i + 1] = a4 + me
    BY SMT, <2>2
  <2>5. last => call.at[i + 1] = a3
    BY SMT, <2>2
  <2> QED BY <2>2, <2>3, <2>4, <2>5 DEF a1, a2, a3, a4, l, ml, me, w
<1>11. /\ Holds(p, tok) /\ Holds(LitLenAt(i), vl) /\ Holds(LitAt(i), lits)
       /\ ~last => /\ Holds(OffAt(i), Format!OffsetBytes(Script[i].off))
                   /\ Holds(MatchLenAt(i), Format!Varlen(Script[i].len, 18))
       /\ last => Holds(OffAt(i), <<0, 238, 0, 0>>)
  BY <1>1, <1>9, <1>10
<1>12. /\ LitAt(i) + Lit(i) <= Len(call.block)
       /\ \A j \in 1 .. Lit(i) :
             call.block[LitAt(i) + j] = call.plain[call.out[i] + j]
  <2>1. Holds(LitAt(i), lits) /\ Len(lits) = Lit(i)
    BY <1>5, <1>11
  <2>2. LitAt(i) + Lit(i) <= Len(call.block)
        /\ \A j \in 1 .. Lit(i) : call.block[LitAt(i) + j] = lits[j]
    <3> HIDE DEF lits
    <3> QED BY <2>1 DEF Holds, Text!HasAt
  <2> QED BY <1>5, <2>2
<1> QED BY <1>1, <1>10, <1>11, <1>12 DEF Parsed

(* The places of a command in block and text, in numbers. *)
LEMMA Layout ==
    ASSUME CallOK(call), WellFormed(call), NEW i \in 1 .. Len(Script)
    PROVE  /\ i \in Nat /\ Len(Script) \in Nat /\ Len(call.block) \in Nat
           /\ Size \in Nat /\ Size \in Word
           /\ call.at[i] \in Nat /\ LitLenAt(i) \in Nat /\ LitAt(i) \in Nat
           /\ OffAt(i) \in Nat /\ MatchLenAt(i) \in Nat
           /\ LitLenAt(i) = call.at[i] + 1
           /\ LitAt(i) = LitLenAt(i) + More(Lit(i), 7)
           /\ OffAt(i) = LitAt(i) + Lit(i)
           /\ MatchLenAt(i) = OffAt(i) + (IF Wide(i) THEN 2 ELSE 1)
           /\ Lit(i) \in Nat /\ Lit(i) < 512
           /\ call.out[i] \in Nat /\ From(i) \in Nat
           /\ From(i) = call.out[i] + Lit(i)
           /\ call.out[i + 1] = From(i) + Script[i].len
           /\ From(i) + Script[i].len <= Size
           /\ Script[i].len \in Nat /\ Script[i].off \in Nat
           /\ i = Len(Script) => Script[i].len = 0 /\ From(i) = Size
           /\ i # Len(Script) => /\ Script[i].len >= 3
                                 /\ Script[i].off \in 1 .. From(i)
                                 /\ call.at[i + 1] \in Nat
                                 /\ call.at[i + 1] = MatchLenAt(i)
                                                    + More(Script[i].len, 18)
<1>1. Spelled(call)
  BY DEF WellFormed
<1>2. /\ call.at[i] \in Nat /\ Len(Script) \in Nat
      /\ IF i = Len(Script) THEN Script[i].len = 0 ELSE Script[i].len >= 3
      /\ Script[i].lit < 512
  BY CommandAt
<1>3. /\ Len(call.block) \in Nat /\ Size \in Nat /\ Size \in Word
  BY <1>1, SizeType
<1>4. /\ Script[i].lit \in Nat /\ Script[i].len \in Nat /\ Script[i].off \in Nat
      /\ call.out[i] \in Nat /\ From(i) \in Nat
      /\ call.out[i + 1] = From(i) + Script[i].len
      /\ From(i) + Script[i].len <= Size
      /\ Script[i].len > 0 => Script[i].off \in 1 .. From(i)
      /\ From(i) = call.out[i] + Script[i].lit
  BY <1>1, CommandType DEF From
<1>5. Lit(i) = Script[i].lit
  BY DEF Lit
<1>6. i # Len(Script) => call.at[i + 1] = MatchLenAt(i) + More(Script[i].len, 18)
  BY CommandParsed DEF Parsed
<1>7. More(Lit(i), 7) \in Nat /\ More(Script[i].len, 18) \in Nat
  <2>1. \A u \in 0 .. 3 : u \in Nat
    BY SMT
  <2>2. 7 \in {7, 18} /\ 18 \in {7, 18}
    BY SMT
  <2> QED BY <1>4, <1>5, <2>1, <2>2, VarlenType
<1>8. /\ LitLenAt(i) = call.at[i] + 1
      /\ LitAt(i) = LitLenAt(i) + More(Lit(i), 7)
      /\ OffAt(i) = LitAt(i) + Lit(i)
      /\ MatchLenAt(i) = OffAt(i) + (IF Wide(i) THEN 2 ELSE 1)
  BY DEF LitLenAt, LitAt, OffAt, MatchLenAt
<1>9. i = Len(Script) => From(i) = Size
  <2>1. call.out[Len(Script) + 1] = Size
    BY <1>1 DEF Spelled, Text!Spells, Script, Size
  <2>2. i = Len(Script) => From(i) + 0 = Size
    BY <1>2, <1>4, <2>1
  <2> QED BY SMT, <1>4, <2>2
<1>10. i \in Nat
  BY SMT
<1>11. /\ LitLenAt(i) \in Nat /\ LitAt(i) \in Nat /\ OffAt(i) \in Nat
       /\ MatchLenAt(i) \in Nat
       /\ i # Len(Script) => call.at[i + 1] \in Nat
  <2>1. LitLenAt(i) \in Nat
    BY SMT, <1>2, <1>8
  <2>2. LitAt(i) \in Nat
    BY SMTT(30), <1>7, <1>8, <2>1
  <2>3. OffAt(i) \in Nat
    BY SMTT(30), <1>4, <1>5, <1>8, <2>2
  <2>4. MatchLenAt(i) \in Nat
    BY SMT, <1>8, <2>3
  <2>5. i # Len(Script) => call.at[i + 1] \in Nat
    BY SMT, <1>6, <1>7, <2>4
  <2> QED BY <2>1, <2>2, <2>3, <2>4, <2>5
<1>12. i # Len(Script) => Script[i].len > 0
  BY SMT, <1>2, <1>4
<1> QED BY <1>2, <1>3, <1>4, <1>5, <1>6, <1>8, <1>9, <1>10, <1>11, <1>12

(* What is held is read byte by byte. *)
LEMMA HeldByte ==
    ASSUME NEW p, NEW s, Holds(p, s), NEW k \in 1 .. Len(s)
    PROVE  call.block[p + k] = s[k] /\ p + Len(s) <= Len(call.block)
BY DEF Holds, Text!HasAt

(* The token of a command says what its fields are. *)
LEMMA TokenSplit ==
    ASSUME NEW w \in {0, 128}, NEW u \in 0 .. 7, NEW v \in 0 .. 15
    PROVE  /\ ((w + u * 16 + v) % 128) \div 16 = u
           /\ (w + u * 16 + v) % 16 = v
           /\ (w + u * 16 + v >= 128) <=> (w = 128)
BY SMT

LEMMA TokenSays ==
    ASSUME CallOK(call), WellFormed(call), NEW i \in 1 .. Len(Script)
    PROVE  /\ call.at[i] < Len(call.block)
           /\ call.block[call.at[i] + 1] = Tok(i)
           /\ (Tok(i) % 128) \div 16 = Field(Lit(i), 7)
           /\ Tok(i) % 16 = MatchField(i)
           /\ (Tok(i) >= 128) <=> Wide(i)
<1>1. /\ Lit(i) \in Nat /\ Script[i].len \in Nat
      /\ i # Len(Script) => Script[i].len >= 3
      /\ i = Len(Script) => Script[i].len = 0
  BY Layout
<1>2. /\ call.at[i] + 1 <= Len(call.block)
      /\ call.block[call.at[i] + 1] = Tok(i)
  <2>1. Holds(call.at[i], <<Tok(i)>>)
    BY CommandParsed DEF Parsed
  <2>2. \A t : Len(<<t>>) = 1 /\ <<t>>[1] = t /\ 1 \in 1 .. 1
    BY SMT
  <2> DEFINE t == Tok(i)
             p == call.at[i]
  <2> HIDE DEF t, p
  <2>3. Holds(p, <<t>>)
    BY <2>1 DEF t, p
  <2>4. p + 1 <= Len(call.block) /\ call.block[p + 1] = t
    BY <2>2, <2>3, HeldByte
  <2> QED BY <2>4 DEF t, p
<1>3. call.at[i] < Len(call.block)
  <2>1. call.at[i] \in Nat /\ Len(call.block) \in Nat
    BY Layout
  <2>2. call.at[i] + 1 <= Len(call.block)
    BY <1>2
  <2> QED BY SMT, <2>1, <2>2
<1>4. Field(Lit(i), 7) \in 0 .. 7 /\ MatchField(i) \in 0 .. 15
  <2>1. 15 \in 0 .. 15
    BY SMT
  <2>2. CASE Script[i].len = 0
    BY <1>1, <2>1, <2>2, FieldType DEF MatchField
  <2>3. CASE Script[i].len # 0
    <3>1. Script[i].len \in Nat /\ Script[i].len >= 3
      BY <1>1, <2>3
    <3>2. Script[i].len - 3 \in Nat
      BY SMT, <3>1
    <3> QED BY <1>1, <2>3, <3>2, FieldType DEF MatchField
  <2> QED BY <2>2, <2>3
<1>5. WideBit(i) \in {0, 128} /\ ((WideBit(i) = 128) <=> Wide(i))
  <2>1. 0 # 128
    BY SMT
  <2> QED BY <2>1 DEF WideBit
<1> DEFINE w == WideBit(i)
           u == Field(Lit(i), 7)
           v == MatchField(i)
<1>6. w \in {0, 128} /\ u \in 0 .. 7 /\ v \in 0 .. 15 /\ Tok(i) = w + u * 16 + v
  BY <1>4, <1>5 DEF Tok
<1> HIDE DEF w, u, v
<1>7. /\ (Tok(i) % 128) \div 16 = u
      /\ Tok(i) % 16 = v
      /\ (Tok(i) >= 128) <=> (w = 128)
  BY <1>6, TokenSplit
<1> QED BY <1>2, <1>3, <1>5, <1>7 DEF w, u, v

(* The bytes of the offset make the offset, negated. *)
LEMMA OffsetSplit ==
    ASSUME NEW off \in Word, off # 0
    PROVE  LET u == (-off) % 256
               v == ((-off) % 65536) \div 256
           IN  /\ off > 256 => MakeWord(u, v) = Wrap(-off)
               /\ ~(off > 256) => MakeWord(u, 255) = Wrap(-off)
BY SMT DEF MakeWord, Wrap, Word

LEMMA OffsetSays ==
    ASSUME CallOK(call), WellFormed(call), NEW i \in 1 .. Len(Script),
           i # Len(Script)
    PROVE  /\ Script[i].off \in Word
           /\ MatchLenAt(i) <= Len(call.block)
           /\ Wide(i) => MakeWord(call.block[OffAt(i) + 1],
                                  call.block[OffAt(i) + 2])
                             = Wrap(-Script[i].off)
           /\ ~Wide(i) => MakeWord(call.block[OffAt(i) + 1], 255)
                              = Wrap(-Script[i].off)
<1> DEFINE off == Script[i].off
           p == OffAt(i)
           s == Format!OffsetBytes(off)
           u == (-off) % 256
           v == ((-off) % 65536) \div 256
<1>1. MatchLenAt(i) = p + (IF Wide(i) THEN 2 ELSE 1)
      /\ Script[i].len \in Nat /\ Script[i].len >= 3
  BY Layout
<1>2. off \in Word /\ off # 0
  <2>1. /\ off \in Nat /\ off \in 1 .. From(i) /\ From(i) \in Nat
        /\ Script[i].len \in Nat
        /\ From(i) + Script[i].len <= Size /\ Size \in Nat /\ Size \in Word
    BY Layout
  <2> HIDE DEF off
  <2> QED BY SMT, <2>1 DEF Word
<1>3. Wide(i) <=> off > 256
  <2>1. Script[i].len # 0
    BY SMT, <1>1
  <2> QED BY <2>1 DEF Wide
<1>4. s = IF off > 256 THEN <<u, v>> ELSE <<u>>
  BY DEF Format!OffsetBytes, Format!LongOffset
<1>5. Holds(p, s)
  BY CommandParsed DEF Parsed
<1>6. /\ off > 256 => MakeWord(u, v) = Wrap(-off)
      /\ ~(off > 256) => MakeWord(u, 255) = Wrap(-off)
  <2> HIDE DEF off
  <2> QED BY <1>2, OffsetSplit
<1> HIDE DEF off, s, u, v, p
<1>9. CASE Wide(i)
  <2>1. Holds(p, <<u, v>>)
    BY <1>3, <1>4, <1>5, <1>9
  <2>2. call.block[p + 1] = u /\ call.block[p + 2] = v
        /\ p + 2 <= Len(call.block)
    BY <2>1, HoldsTwo
  <2> QED BY <1>1, <1>2, <1>3, <1>6, <1>9, <2>2 DEF off, p
<1>10. CASE ~Wide(i)
  <2>1. Holds(p, <<u>>)
    BY <1>3, <1>4, <1>5, <1>10
  <2>2. call.block[p + 1] = u /\ p + 1 <= Len(call.block)
    BY <2>1, HoldsOne
  <2> QED BY <1>1, <1>2, <1>3, <1>6, <1>10, <2>2 DEF off, p
<1> QED BY <1>9, <1>10

-----------------------------------------------------------------------------
(* Where the routine is in command i, label by label: X is at the part of  *)
(* the command that comes next, the text before it has been made, and the  *)
(* accumulator, the token and the last offset are the command's own.       *)
AtToken(i) == /\ pc = "ReadToken"
              /\ x = Position(call.at[i])
              /\ MadeTo(call.out[i])

AtLitLen(i) == /\ pc = "DecodeLitLen" /\ token = Tok(i)
               /\ x = Position(LitLenAt(i))
               /\ MadeTo(call.out[i])

(* A length is to be added to its field by the bytes from p on. *)
Adding(next, p, field) == /\ pc = "AddLength" /\ stack = LengthFrame(next)
                          /\ Lo(a) = field /\ x = Position(p)

AddingLit(i) == /\ token = Tok(i) /\ Lit(i) >= 7
                /\ Adding("CopyLiteral", LitLenAt(i), 7)
                /\ MadeTo(call.out[i])

AtLiteral(i) == /\ pc = "CopyLiteral" /\ token = Tok(i)
                /\ a = Lit(i) /\ a > 0 /\ c = 0
                /\ x = Position(LitAt(i))
                /\ MadeTo(call.out[i])

AtOffset(i) == /\ pc = "DecodeMatchOffset" /\ token = Tok(i)
               /\ x = Position(OffAt(i))
               /\ MadeTo(From(i))

(* The offset of a match has been read; the last command's is not used. *)
Matching(i) == /\ i # Len(Script) => match = Wrap(-Script[i].off)
               /\ MadeTo(From(i))

AtMatchLen(i) == /\ pc = "DecodeMatchLen" /\ token = Tok(i)
                 /\ x = Position(MatchLenAt(i))
                 /\ Matching(i)

AddingMatch(i) == /\ i # Len(Script) => Script[i].len >= 18
                  /\ Adding("CopyMatch", MatchLenAt(i), 18)
                  /\ Matching(i)

AtMatch(i) == /\ pc = "CopyMatch" /\ i # Len(Script)
              /\ a = Script[i].len
              /\ x = Position(call.at[i + 1])
              /\ Matching(i)

AtMove(i) == /\ pc = "BlockMove" /\ i # Len(Script)
             /\ stack = MoveFrame(Position(call.at[i + 1]))
             /\ x = call.dst + From(i) - Script[i].off
             /\ a + 1 = Script[i].len
             /\ MadeTo(From(i))

Moved(i) == /\ pc = "MatchCopied"
            /\ stack = MoveFrame(Position(call.at[i + 1]))
            /\ i # Len(Script)
            /\ MadeTo(call.out[i + 1])

InCommand(i) ==
    \/ AtToken(i) \/ AtLitLen(i) \/ AddingLit(i) \/ AtLiteral(i) \/ AtOffset(i)
    \/ AtMatchLen(i) \/ AddingMatch(i) \/ AtMatch(i) \/ AtMove(i) \/ Moved(i)

Decoding ==
    /\ WellFormed(call)
    /\ \/ pc = "Main" /\ NothingWritten
       \/ pc = "Setup" /\ NothingWritten /\ x = call.src
       \/ \E i \in 1 .. Len(Script) : InCommand(i)
       \/ pc \in {"Done", "Idle"} /\ MadeTo(Size)

LEMMA CommandKept ==
    ASSUME call' = call, NEW i
    PROVE  /\ call.at[i]' = call.at[i] /\ call.at[i + 1]' = call.at[i + 1]
           /\ call.out[i]' = call.out[i] /\ call.out[i + 1]' = call.out[i + 1]
           /\ LitLenAt(i)' = LitLenAt(i) /\ LitAt(i)' = LitAt(i)
           /\ OffAt(i)' = OffAt(i) /\ MatchLenAt(i)' = MatchLenAt(i)
           /\ Lit(i)' = Lit(i) /\ Tok(i)' = Tok(i)
BY DEF LitLenAt, LitAt, OffAt, MatchLenAt, Lit, Tok, Script, Wide, WideBit,
       MatchField

(* What a call's invariants give at every step. *)
LEMMA InvFacts ==
    ASSUME IInv
    PROVE  /\ CommonTypeOK /\ CallOK(call) /\ wmadd \in WramAddress
           /\ a \in Word
           /\ pc \notin {"Main", "Setup", "MatchCopied", "Idle"}
                  => db = call.srcBank
           /\ pc \notin {"Main", "Setup"} => /\ inBank = call.srcBank
                                             /\ outBank = call.dstBank
           /\ pc \in Steady8 \cup Steady16 => stack = Frame
BY DEF IInv, TypeOK, CommonTypeOK, Banks, StackShape

-----------------------------------------------------------------------------
(* Each action takes the routine from one part of the command to the next. *)
LEMMA ReadTokenStep ==
    ASSUME IInv, WellFormed(call), NEW i \in 1 .. Len(Script),
           AtToken(i), ReadToken
    PROVE  AtLitLen(i)'
<1>1. /\ CallOK(call) /\ Spelled(call) /\ db = call.srcBank
      /\ x = Position(call.at[i]) /\ MadeTo(call.out[i])
  BY InvFacts DEF WellFormed, AtToken
<1>2. /\ call.at[i] \in Nat /\ call.at[i] < Len(call.block)
      /\ call.block[call.at[i] + 1] = Tok(i)
      /\ LitLenAt(i) = call.at[i] + 1
      /\ Len(call.block) \in Nat
  BY <1>1, Layout, TokenSays
<1>3. ReadByte = Tok(i)
  BY <1>1, <1>2, LoadByte
<1>4. Wrap(x + 1) = Position(LitLenAt(i))
  <2>1. call.at[i] \in 0 .. Len(call.block)
    BY SMT, <1>2
  <2> QED BY <1>1, <1>2, <2>1, PositionType
<1>5. call' = call /\ UNCHANGED <<y, wram, wmadd>>
  BY DEF ReadToken, fixed, output
<1>6. MadeTo(call.out[i])'
  BY <1>1, <1>5, MadeToKept
<1>7. /\ Position(LitLenAt(i))' = Position(LitLenAt(i))
      /\ Tok(i)' = Tok(i)
  BY <1>5, PlacesKept, CommandKept
<1>8. pc' = "DecodeLitLen" /\ token' = Tok(i) /\ x' = Position(LitLenAt(i))
  BY <1>3, <1>4 DEF ReadToken
<1> QED BY <1>6, <1>7, <1>8 DEF AtLitLen

(* The length field of the literals. *)
LEMMA DecodeLitLenStep ==
    ASSUME IInv, WellFormed(call), NEW i \in 1 .. Len(Script),
           AtLitLen(i), DecodeLitLen
    PROVE  AtOffset(i)' \/ AtLiteral(i)' \/ AddingLit(i)'
<1>1. /\ CallOK(call) /\ token = Tok(i) /\ a \in Word
      /\ x = Position(LitLenAt(i)) /\ MadeTo(call.out[i]) /\ stack = Frame
  BY InvFacts DEF AtLitLen, Steady8
<1>2. LitField = Field(Lit(i), 7)
  BY <1>1, TokenSays DEF LitField
<1>3. /\ Lit(i) \in Nat /\ LitLenAt(i) \in Nat
      /\ LitAt(i) = LitLenAt(i) + More(Lit(i), 7)
      /\ OffAt(i) = LitAt(i) + Lit(i)
      /\ From(i) = call.out[i] + Lit(i) /\ call.out[i] \in Nat
  BY <1>1, Layout
<1>4. call' = call /\ UNCHANGED <<x, y, wram, wmadd, token>>
  BY DEF DecodeLitLen, fixed, output
<1>5. MadeTo(call.out[i])'
  BY <1>1, <1>4, MadeToKept
<1>6. /\ \A p : Position(p)' = Position(p)
      /\ LitAt(i)' = LitAt(i) /\ OffAt(i)' = OffAt(i)
      /\ LitLenAt(i)' = LitLenAt(i) /\ Tok(i)' = Tok(i)
      /\ From(i)' = From(i) /\ Lit(i)' = Lit(i) /\ call.out[i]' = call.out[i]
      /\ Frame' = Frame
  BY <1>4, PlacesKept, CommandKept
<1>7. CASE LitField = 0 /\ NoLiteral
  <2>1. Lit(i) = 0
    BY SMT, <1>2, <1>3, <1>7 DEF Field
  <2>2. OffAt(i) = LitLenAt(i) /\ From(i) = call.out[i]
    BY SMT, <1>3, <2>1 DEF More
  <2>3. pc' = "DecodeMatchOffset" /\ x' = Position(OffAt(i))
    BY <1>1, <1>4, <1>7, <2>2 DEF NoLiteral
  <2>4. MadeTo(From(i))'
    BY <1>5, <1>6, <2>2
  <2> QED BY <1>1, <1>4, <1>6, <2>3, <2>4 DEF AtOffset
<1>8. CASE LitField \in 1 .. LITERALS_RUN_LEN - 1
           /\ ShortLen(LitField, "CopyLiteral")
  <2>1. Lit(i) < 7 /\ Field(Lit(i), 7) = Lit(i) /\ Lit(i) > 0
    BY SMT, <1>2, <1>3, <1>8 DEF LITERALS_RUN_LEN, Field
  <2>2. LitAt(i) = LitLenAt(i)
    BY SMT, <1>3, <2>1 DEF More
  <2>3. /\ pc' = "CopyLiteral" /\ a' = Lit(i) /\ c' = 0
        /\ x' = Position(LitAt(i))
    BY <1>1, <1>2, <1>4, <1>8, <2>1, <2>2 DEF ShortLen
  <2> QED BY <1>1, <1>4, <1>5, <1>6, <2>1, <2>3 DEF AtLiteral
<1>9. CASE LitField = LITERALS_RUN_LEN /\ LongLen(LitField, "CopyLiteral")
  <2>1. LitField = 7 /\ Lit(i) >= 7
    BY SMT, <1>2, <1>3, <1>9 DEF LITERALS_RUN_LEN, Field
  <2>2. Lo(SetLo(a, 7)) = 7
    <3>1. Hi(a) \in Byte /\ 7 \in Byte
      BY SMT, <1>1, HalfType DEF Byte
    <3> QED BY <3>1, MakeWordType DEF SetLo
  <2>3. pc' = "AddLength" /\ Lo(a') = 7
    BY <1>9, <2>1, <2>2 DEF LongLen
  <2>4. stack' = LengthFrame("CopyLiteral")'
    BY <1>1, <1>6, <1>9 DEF LongLen, LengthFrame
  <2>5. Adding("CopyLiteral", LitLenAt(i), 7)'
    BY <1>1, <1>4, <1>6, <2>3, <2>4 DEF Adding
  <2> QED BY <1>1, <1>4, <1>5, <1>6, <2>1, <2>5 DEF AddingLit
<1> QED BY <1>7, <1>8, <1>9 DEF DecodeLitLen

(* The bytes of a length past its field. *)
LEMMA VarlenSays ==
    ASSUME CallOK(call), NEW p \in Nat, NEW n \in Nat, NEW inToken \in {7, 18},
           n >= inToken, Holds(p, Format!Varlen(n, inToken))
    PROVE  /\ p + More(n, inToken) <= Len(call.block)
           /\ n < 256 => /\ More(n, inToken) = 1
                         /\ inToken + call.block[p + 1] = n
           /\ n >= 256 /\ n < 512 => /\ More(n, inToken) = 2
                                     /\ inToken + call.block[p + 1] = 257
                                     /\ call.block[p + 2] = n - 256
           /\ n >= 512 => /\ More(n, inToken) = 3
                          /\ inToken + call.block[p + 1] = 256
                          /\ MakeWord(call.block[p + 2], call.block[p + 3]) = n
<1> DEFINE s == Format!Varlen(n, inToken)
<1>1. /\ p + Len(s) <= Len(call.block)
      /\ \A k \in 1 .. Len(s) : call.block[p + k] = s[k]
  BY DEF Holds, Text!HasAt
<1>2. Len(s) = More(n, inToken)
  BY VarlenType
<1>3. ~(n < inToken)
  BY SMT
<1>4. /\ inToken + (n - inToken) = n /\ inToken + (257 - inToken) = 257
      /\ inToken + (256 - inToken) = 256
      /\ (n \div 256) * 256 + (n % 256) = n
  BY SMT
<1>5. 1 \in 1 .. 1 /\ 1 \in 1 .. 2 /\ 2 \in 1 .. 2
      /\ 1 \in 1 .. 3 /\ 2 \in 1 .. 3 /\ 3 \in 1 .. 3
  BY SMT
<1>6. CASE n < 256
  <2>1. s = <<n - inToken>> /\ More(n, inToken) = 1 /\ ~(n >= 256) /\ ~(n >= 512)
    <3>1. ~(n >= 256) /\ ~(n >= 512)
      BY SMT, <1>6
    <3> QED BY <1>3, <1>6, <3>1 DEF Format!Varlen, More
  <2> HIDE DEF s
  <2>2. call.block[p + 1] = n - inToken
    BY <1>1, <1>2, <1>5, <2>1
  <2> QED BY <1>1, <1>2, <1>4, <2>1, <2>2
<1>7. CASE n >= 256 /\ n < 512
  <2>1. /\ s = <<257 - inToken, n - 256>> /\ More(n, inToken) = 2
        /\ ~(n < 256) /\ ~(n >= 512)
    <3>1. ~(n < 256) /\ ~(n >= 512)
      BY SMT, <1>7
    <3> QED BY <1>3, <1>7, <3>1 DEF Format!Varlen, More
  <2> HIDE DEF s
  <2>2. call.block[p + 1] = 257 - inToken /\ call.block[p + 2] = n - 256
    BY <1>1, <1>2, <1>5, <2>1
  <2> QED BY <1>1, <1>2, <1>4, <2>1, <2>2
<1>8. CASE n >= 512
  <2>1. /\ s = <<256 - inToken, n % 256, n \div 256>> /\ More(n, inToken) = 3
        /\ ~(n < 256) /\ ~(n < 512)
    <3>1. ~(n < 256) /\ ~(n < 512)
      BY SMT, <1>8
    <3> QED BY <1>3, <1>8, <3>1 DEF Format!Varlen, More
  <2> HIDE DEF s
  <2>2. /\ call.block[p + 1] = 256 - inToken /\ call.block[p + 2] = n % 256
        /\ call.block[p + 3] = n \div 256
    BY <1>1, <1>2, <1>5, <2>1
  <2> QED BY <1>1, <1>2, <1>4, <2>1, <2>2 DEF MakeWord
<1>9. n < 256 \/ (n >= 256 /\ n < 512) \/ n >= 512
  BY SMT
<1> QED BY <1>6, <1>7, <1>8, <1>9

(* One, two or three bytes make the length; only the last way leaves C.    *)
LEMMA AddLengthStep ==
    ASSUME IInv, CallOK(call), Spelled(call), NEW next, NEW p \in Nat,
           NEW n \in Nat, NEW inToken \in {7, 18}, n >= inToken,
           Holds(p, Format!Varlen(n, inToken)),
           Adding(next, p, inToken), AddLength
    PROVE  /\ pc' = next /\ a' = n
           /\ x' = Position(p + More(n, inToken))
           /\ n < 512 => c' = 0
<1>1. /\ pc = "AddLength" /\ stack = LengthFrame(next) /\ Lo(a) = inToken
      /\ x = Position(p) /\ db = call.srcBank
  BY InvFacts DEF Adding, AddLength
<1>2. ReturnTo(stack) = next
  BY SMT, <1>1 DEF LengthFrame, Push, Item, ReturnTo, Top
<1>3. Len(call.block) \in Nat
  BY SizeType
<1> DEFINE k == More(n, inToken)
           b == call.block[p + 1]
           d == call.block[p + 2]
           e == call.block[p + 3]
<1>4. /\ p + k <= Len(call.block)
      /\ n < 256 => k = 1 /\ inToken + b = n
      /\ n >= 256 /\ n < 512 => k = 2 /\ inToken + b = 257 /\ d = n - 256
      /\ n >= 512 => k = 3 /\ inToken + b = 256 /\ MakeWord(d, e) = n
  BY VarlenSays
<1> HIDE DEF k, b, d, e
<1>5. k \in {1, 2, 3}
  <2>1. n < 256 \/ (n >= 256 /\ n < 512) \/ n >= 512
    BY SMT
  <2> QED BY <1>4, <2>1
<1>6. p < Len(call.block) /\ p \in 0 .. Len(call.block)
  BY SMT, <1>3, <1>4, <1>5
<1>7. LengthSum = inToken + b
  <2>1. ReadByte = b
    BY <1>1, <1>6, LoadByte DEF b
  <2> QED BY <1>1, <2>1 DEF LengthSum
<1>8. \A j \in Nat : Wrap(x + j) = Position(p + j)
  BY <1>1, <1>6, PositionType
<1>9. CASE n < 256
  <2>1. LengthSum = n /\ k = 1
    BY <1>4, <1>7, <1>9
  <2>2. ByteLen
    BY SMT, <1>9, <2>1 DEF AddLength, TwoByteLen, ThreeByteLen, EndOfData
  <2>3. 1 \in Nat
    BY SMT
  <2> QED BY <1>2, <1>8, <2>1, <2>2, <2>3 DEF ByteLen, Length, k
<1>10. CASE n >= 256 /\ n < 512
  <2>1. LengthSum = 257 /\ k = 2 /\ d = n - 256
    BY <1>4, <1>7, <1>10
  <2>2. TwoByteLen
    BY SMT, <2>1 DEF AddLength, ByteLen, ThreeByteLen, EndOfData
  <2>3. 2 \in Nat /\ p + 1 < Len(call.block)
    BY SMT, <1>3, <1>4, <2>1
  <2>4. ByteAfter = d
    BY <1>1, <2>3, LoadByteAfter DEF d
  <2>5. ByteAfter + 255 + 1 = n
    BY SMT, <2>1, <2>4
  <2> QED BY <1>2, <1>8, <2>1, <2>2, <2>3, <2>5 DEF TwoByteLen, Length, k
<1>11. CASE n >= 512
  <2>1. LengthSum = 256 /\ k = 3 /\ MakeWord(d, e) = n /\ ~(n < 512)
    <3>1. ~(n < 512)
      BY SMT, <1>11
    <3> QED BY <1>4, <1>7, <1>11, <3>1
  <2>2. 3 \in Nat /\ p + 2 < Len(call.block) /\ n # 0
    BY SMT, <1>3, <1>4, <1>11, <2>1
  <2>3. WordAfter = n
    BY <1>1, <2>1, <2>2, LoadWordAfter DEF d, e
  <2>4. ThreeByteLen
    BY SMT, <2>1, <2>2, <2>3 DEF AddLength, ByteLen, TwoByteLen, EndOfData
  <2> QED BY <1>2, <1>8, <2>1, <2>2, <2>3, <2>4 DEF ThreeByteLen, Length, k
<1>12. n < 256 \/ (n >= 256 /\ n < 512) \/ n >= 512
  BY SMT
<1> QED BY <1>9, <1>10, <1>11, <1>12

(* The marker in place of the last command's match is a length of zero.    *)
LEMMA EndStep ==
    ASSUME IInv, WellFormed(call), NEW i \in 1 .. Len(Script),
           i = Len(Script), AddingMatch(i), AddLength
    PROVE  pc' = "Done" /\ MadeTo(Size)'
<1>1. /\ CallOK(call) /\ Spelled(call) /\ Lo(a) = 18 /\ db = call.srcBank
      /\ x = Position(MatchLenAt(i)) /\ MadeTo(From(i))
  BY InvFacts DEF AddingMatch, Adding, Matching, WellFormed
<1>2. /\ OffAt(i) \in Nat /\ Script[i].len = 0 /\ From(i) = Size
      /\ MatchLenAt(i) = OffAt(i) + (IF Wide(i) THEN 2 ELSE 1)
      /\ Len(call.block) \in Nat
  BY <1>1, Layout
<1> DEFINE p == OffAt(i) + 1
           s == <<0, 238, 0, 0>>
<1>3. MatchLenAt(i) = p
  BY <1>2 DEF Wide
<1>4. Holds(OffAt(i), s)
  BY <1>1, CommandParsed DEF Parsed
<1>5. /\ p \in Nat /\ p + 2 < Len(call.block) /\ p < Len(call.block)
      /\ call.block[p + 1] = 238 /\ call.block[p + 2] = 0
      /\ call.block[p + 3] = 0
  <2> DEFINE q == OffAt(i)
  <2>1. /\ Len(s) = 4 /\ s[2] = 238 /\ s[3] = 0 /\ s[4] = 0
        /\ 2 \in 1 .. 4 /\ 3 \in 1 .. 4 /\ 4 \in 1 .. 4
    BY SMT
  <2> HIDE DEF s
  <2>2. q \in Nat /\ Len(call.block) \in Nat /\ Holds(q, s)
    BY <1>2, <1>4
  <2> HIDE DEF q
  <2>3. /\ q + 4 <= Len(call.block) /\ call.block[q + 2] = 238
        /\ call.block[q + 3] = 0 /\ call.block[q + 4] = 0
    <3>1. q + 4 <= Len(call.block)
          /\ \A k \in 1 .. 4 : call.block[q + k] = s[k]
      BY <2>1, <2>2 DEF Holds, Text!HasAt
    <3> QED BY <2>1, <3>1
  <2>4. /\ q + 1 \in Nat /\ q + 1 + 2 < Len(call.block)
        /\ q + 1 < Len(call.block)
        /\ q + 1 + 1 = q + 2 /\ q + 1 + 2 = q + 3 /\ q + 1 + 3 = q + 4
    BY SMT, <2>2, <2>3
  <2> QED BY <2>3, <2>4 DEF q
<1> HIDE DEF p
<1>6. LengthSum = 256
  <2>1. ReadByte = 238
    BY <1>1, <1>3, <1>5, LoadByte
  <2>2. 18 + 238 = 256
    BY SMT
  <2> QED BY <1>1, <2>1, <2>2 DEF LengthSum
<1>7. WordAfter = 0
  <2>1. WordAfter = MakeWord(0, 0)
    BY <1>1, <1>3, <1>5, LoadWordAfter
  <2> QED BY SMT, <2>1 DEF MakeWord
<1>8. EndOfData
  BY SMT, <1>6, <1>7 DEF AddLength, ByteLen, TwoByteLen, ThreeByteLen
<1>9. call' = call /\ UNCHANGED <<y, wram, wmadd>>
  BY DEF AddLength, fixed, output
<1>10. MadeTo(Size)'
  BY <1>1, <1>2, <1>9, MadeToKept, PlacesKept
<1> QED BY <1>8, <1>10 DEF EndOfData

(* The literals are copied by DMA, and end where the offset is. *)
LEMMA CopyLiteralStep ==
    ASSUME IInv, WellFormed(call), NEW i \in 1 .. Len(Script),
           AtLiteral(i), CopyLiteral
    PROVE  AtOffset(i)'
<1>1. /\ CallOK(call) /\ Spelled(call) /\ wmadd \in WramAddress
      /\ inBank = call.srcBank /\ token = Tok(i)
      /\ a = Lit(i) /\ a > 0 /\ c = 0 /\ x = Position(LitAt(i))
      /\ Made(call.out[i]) /\ y = After(call.out[i])
  BY InvFacts DEF WellFormed, AtLiteral, MadeTo
<1>2. /\ Lit(i) \in Nat /\ LitAt(i) \in Nat /\ call.out[i] \in Nat
      /\ OffAt(i) = LitAt(i) + Lit(i) /\ From(i) = call.out[i] + Lit(i)
  BY <1>1, Layout
<1>3. From(i) <= Size
  <2>1. /\ From(i) \in Nat /\ Script[i].len \in Nat /\ Size \in Nat
        /\ From(i) + Script[i].len <= Size
    BY <1>1, Layout
  <2> QED BY SMT, <2>1
<1>4. /\ LitAt(i) + Lit(i) <= Len(call.block)
      /\ \A j \in 1 .. Lit(i) :
            call.block[LitAt(i) + j] = call.plain[call.out[i] + j]
  BY <1>1, CommandParsed DEF Parsed
<1>5. call' = call /\ CopyRun(Lit(i), PortAtY) /\ token' = token
      /\ y' = Adc(y, Lit(i), 0) /\ pc' = "DecodeMatchOffset"
  BY <1>1 DEF CopyLiteral, fixed, AfterLiteral
<1>6. /\ Made(From(i))' /\ x' = Position(OffAt(i))
      /\ y' = After(From(i))
  <2> DEFINE n == call.out[i]
             lit == Lit(i)
             p == LitAt(i)
  <2>1. /\ n \in Nat /\ lit \in Nat /\ lit > 0 /\ n + lit <= Size /\ p \in Nat
        /\ p + lit <= Len(call.block)
        /\ \A j \in 1 .. lit : call.block[p + j] = call.plain[n + j]
        /\ Made(n) /\ x = Position(p) /\ y = After(n) /\ CopyRun(lit, PortAtY)
    BY <1>1, <1>2, <1>3, <1>4, <1>5
  <2>2. n + lit = From(i) /\ p + lit = OffAt(i)
    BY <1>2
  <2>3. n' = n /\ lit' = lit /\ From(i)' = From(i)
    BY <1>5, CommandKept, PlacesKept
  <2> HIDE DEF n, lit, p
  <2>4. Made(n + lit)' /\ x' = Position(p + lit)
        /\ Adc(y, lit, 0) = After(n + lit)
    BY <1>1, <1>5, <2>1, <2>3, LiteralRun
  <2> QED BY <1>5, <2>2, <2>3, <2>4 DEF lit
<1>7. /\ \A p : Position(p)' = Position(p) /\ \A n : After(n)' = After(n)
      /\ From(i)' = From(i) /\ OffAt(i)' = OffAt(i) /\ Tok(i)' = Tok(i)
  BY <1>5, PlacesKept, CommandKept
<1> QED BY <1>1, <1>5, <1>6, <1>7 DEF AtOffset, MadeTo

(* One or two bytes make the offset; the last command's are a marker. *)
LEMMA DecodeMatchOffsetStep ==
    ASSUME IInv, WellFormed(call), NEW i \in 1 .. Len(Script),
           AtOffset(i), DecodeMatchOffset
    PROVE  AtMatchLen(i)'
<1>1. /\ CallOK(call) /\ Spelled(call) /\ db = call.srcBank
      /\ x = Position(OffAt(i)) /\ MadeTo(From(i)) /\ token = Tok(i)
  BY InvFacts DEF WellFormed, AtOffset
<1>2. /\ OffAt(i) \in Nat /\ Len(call.block) \in Nat
      /\ MatchLenAt(i) = OffAt(i) + (IF Wide(i) THEN 2 ELSE 1)
      /\ i = Len(Script) => Script[i].len = 0
  BY <1>1, Layout
<1>3. WordOffset <=> Wide(i)
  BY <1>1, TokenSays DEF WordOffset
<1>4. MatchLenAt(i) <= Len(call.block)
  <2>1. CASE i = Len(Script)
    <3> DEFINE s == <<0, 238, 0, 0>>
               p == OffAt(i)
    <3>1. Holds(p, s)
      BY <1>1, <2>1, CommandParsed DEF Parsed
    <3>2. Len(s) = 4
      BY SMT
    <3>3. MatchLenAt(i) = p + 1
      BY <1>2, <2>1 DEF Wide
    <3> HIDE DEF s, p
    <3>4. p + 4 <= Len(call.block)
      BY <3>1, <3>2 DEF Holds, Text!HasAt
    <3>5. p \in Nat /\ Len(call.block) \in Nat
      BY <1>2 DEF p
    <3>6. p + 1 <= Len(call.block)
      BY SMT, <3>4, <3>5
    <3> QED BY <3>3, <3>6
  <2>2. CASE i # Len(Script)
    BY <1>1, <2>2, OffsetSays
  <2> QED BY <2>1, <2>2
<1>5. x' = Position(MatchLenAt(i))
  <2> DEFINE w == IF Wide(i) THEN 2 ELSE 1
             p == OffAt(i)
  <2>1. x' = Wrap(x + w) /\ MatchLenAt(i) = p + w
    BY <1>2, <1>3 DEF DecodeMatchOffset
  <2>2. w \in Nat
    BY SMT
  <2>3. p \in Nat /\ Len(call.block) \in Nat /\ p + w <= Len(call.block)
    BY <1>2, <1>4
  <2> HIDE DEF w, p
  <2>4. p \in 0 .. Len(call.block)
    BY SMT, <2>2, <2>3
  <2>5. \A n \in Nat : Wrap(Position(p) + n) = Position(p + n)
    BY <1>1, <2>4, PositionType
  <2>6. x = Position(p)
    BY <1>1 DEF p
  <2> QED BY <2>1, <2>2, <2>5, <2>6
<1>6. call' = call /\ UNCHANGED <<y, wram, wmadd, token>>
      /\ pc' = "DecodeMatchLen"
  BY DEF DecodeMatchOffset, fixed, output
<1>7. /\ \A p : Position(p)' = Position(p)
      /\ From(i)' = From(i) /\ MatchLenAt(i)' = MatchLenAt(i)
      /\ Tok(i)' = Tok(i) /\ Script' = Script
  BY <1>6, PlacesKept, CommandKept
<1>8. MadeTo(From(i))'
  BY <1>1, <1>6, <1>7, MadeToKept
<1>9. i # Len(Script) => match' = Wrap(-Script[i].off)
  <2> SUFFICES ASSUME i # Len(Script) PROVE match' = Wrap(-Script[i].off)
    OBVIOUS
  <2> DEFINE p == OffAt(i)
  <2>1. p \in Nat /\ p < Len(call.block)
        /\ (Wide(i) => p + 1 < Len(call.block))
    <3>1. p \in Nat /\ Len(call.block) \in Nat
          /\ p + (IF Wide(i) THEN 2 ELSE 1) <= Len(call.block)
      BY <1>2, <1>4
    <3> HIDE DEF p
    <3> QED BY SMT, <3>1
  <2>2. ReadByte = call.block[p + 1]
    BY <1>1, <2>1, LoadByte
  <2>3. Wide(i) => ByteAfter = call.block[p + 2]
    BY <1>1, <2>1, LoadByteAfter
  <2> QED BY <1>1, <1>3, <2>2, <2>3, OffsetSays DEF DecodeMatchOffset
<1> QED BY <1>1, <1>5, <1>6, <1>7, <1>8, <1>9 DEF AtMatchLen, Matching

(* The length field of the match. *)
LEMMA DecodeMatchLenStep ==
    ASSUME IInv, WellFormed(call), NEW i \in 1 .. Len(Script),
           AtMatchLen(i), DecodeMatchLen
    PROVE  AtMatch(i)' \/ AddingMatch(i)'
<1>1. /\ CallOK(call) /\ token = Tok(i) /\ a \in Word /\ stack = Frame
      /\ x = Position(MatchLenAt(i)) /\ MadeTo(From(i)) /\ Matching(i)
  BY InvFacts DEF AtMatchLen, Matching, Steady8
<1>2. MatchLen = MatchField(i) + 3
  BY <1>1, TokenSays DEF MatchLen
<1>3. /\ Script[i].len \in Nat /\ MatchLenAt(i) \in Nat
      /\ i # Len(Script) => /\ Script[i].len >= 3
                            /\ call.at[i + 1] = MatchLenAt(i)
                                                  + More(Script[i].len, 18)
      /\ i = Len(Script) => Script[i].len = 0
  BY SMTT(30), <1>1, Layout
<1>4. call' = call /\ UNCHANGED <<x, y, wram, wmadd, token, match>>
  BY DEF DecodeMatchLen, fixed, output
<1>5. /\ \A p : Position(p)' = Position(p)
      /\ MatchLenAt(i)' = MatchLenAt(i) /\ call.at[i + 1]' = call.at[i + 1]
      /\ From(i)' = From(i) /\ Script' = Script /\ Frame' = Frame
  BY <1>4, PlacesKept, CommandKept
<1>6. Matching(i)'
  <2>1. MadeTo(From(i))'
    BY <1>1, <1>4, <1>5, MadeToKept
  <2> QED BY <1>1, <1>4, <1>5, <2>1 DEF Matching
<1>7. /\ i # Len(Script) /\ Script[i].len < 18 => MatchLen = Script[i].len
      /\ i = Len(Script) \/ Script[i].len >= 18 => MatchLen = 18
  <2> DEFINE len == Script[i].len
  <2>1. MatchField(i) = IF len = 0 THEN 15
                        ELSE IF len - 3 >= 15 THEN 15 ELSE len - 3
    BY DEF MatchField, Field
  <2>2. /\ len \in Nat
        /\ i # Len(Script) => len >= 3
        /\ i = Len(Script) => len = 0
    BY <1>3
  <2> DEFINE last == i = Len(Script)
  <2>3. /\ len \in Nat
        /\ ~last => len >= 3
        /\ last => len = 0
    BY <2>2
  <2> HIDE DEF len, last
  <2>4. ~last /\ len < 18 => MatchLen = len
    BY SMT, <1>2, <2>1, <2>3
  <2>5. last \/ len >= 18 => MatchLen = 18
    BY SMT, <1>2, <2>1, <2>3
  <2> QED BY <2>4, <2>5 DEF len, last
<1>8. CASE i # Len(Script) /\ Script[i].len < 18
  <2>1. MatchLen = Script[i].len /\ MatchLen <= 17 /\ ~(MatchLen > 17)
    <3> DEFINE len == Script[i].len
    <3>1. MatchLen = len /\ len \in Nat /\ len < 18
      BY <1>3, <1>7, <1>8
    <3> HIDE DEF len
    <3>2. MatchLen <= 17 /\ ~(MatchLen > 17)
      BY SMT, <3>1
    <3> QED BY <3>1, <3>2 DEF len
  <2>2. ShortLen(MatchLen, "CopyMatch")
    BY <2>1 DEF DecodeMatchLen, LONGEST_SHORT
  <2>3. call.at[i + 1] = MatchLenAt(i)
    <3>1. More(Script[i].len, 18) = 0
      BY <1>8 DEF More
    <3> QED BY SMT, <1>3, <1>8, <3>1
  <2>4. /\ pc' = "CopyMatch" /\ a' = Script[i].len
        /\ x' = Position(call.at[i + 1])
    BY <1>1, <1>4, <2>1, <2>2, <2>3 DEF ShortLen
  <2> QED BY <1>4, <1>5, <1>6, <1>8, <2>4 DEF AtMatch
<1>9. CASE ~(i # Len(Script) /\ Script[i].len < 18)
  <2>1. MatchLen = 18 /\ (i # Len(Script) => Script[i].len >= 18)
    <3>1. ~(Script[i].len < 18) => Script[i].len >= 18
      <4>1. Script[i].len \in Nat
        BY <1>3
      <4> QED BY SMT, <4>1
    <3> QED BY <1>7, <1>9, <3>1
  <2>2. LongLen(18, "CopyMatch")
    <3>1. ~(18 <= 17)
      BY SMT
    <3> QED BY <2>1, <3>1 DEF DecodeMatchLen, LONGEST_SHORT
  <2>3. Lo(SetLo(a, 18)) = 18
    <3>1. Hi(a) \in Byte /\ 18 \in Byte
      BY SMT, <1>1, HalfType DEF Byte
    <3> QED BY <3>1, MakeWordType DEF SetLo
  <2>4. pc' = "AddLength" /\ Lo(a') = 18
    BY <2>2, <2>3 DEF LongLen
  <2>5. stack' = LengthFrame("CopyMatch")'
    BY <1>1, <1>5, <2>2 DEF LongLen, LengthFrame
  <2>6. Adding("CopyMatch", MatchLenAt(i), 18)'
    BY <1>1, <1>4, <1>5, <2>4, <2>5 DEF Adding
  <2> QED BY <1>4, <1>5, <1>6, <2>1, <2>6 DEF AddingMatch
<1> QED BY <1>8, <1>9

LEMMA NextCommand ==
    ASSUME CallOK(call), WellFormed(call), NEW i \in 1 .. Len(Script),
           i # Len(Script)
    PROVE  /\ i + 1 \in 1 .. Len(Script)
           /\ call.at[i + 1] \in 0 .. Len(call.block)
<1>1. i + 1 \in 1 .. Len(Script)
  BY SMT, Layout
<1>2. call.at[i + 1] \in 0 .. Len(call.block)
  <2> DEFINE k == i + 1
  <2>1. k \in 1 .. Len(Script)
    BY <1>1
  <2> HIDE DEF k
  <2>2. call.at[k] \in Nat /\ Len(call.block) \in Nat
    BY <2>1, Layout
  <2>3. call.at[k] < Len(call.block)
    BY <2>1, TokenSays
  <2>4. call.at[k] \in 0 .. Len(call.block)
    BY SMT, <2>2, <2>3
  <2> QED BY <2>4 DEF k
<1> QED BY <1>1, <1>2

LEMMA CopyMatchStep ==
    ASSUME IInv, WellFormed(call), NEW i \in 1 .. Len(Script),
           AtMatch(i), CopyMatch
    PROVE  AtMove(i)'
<1>1. /\ CallOK(call) /\ Spelled(call) /\ db = call.srcBank /\ stack = Frame
      /\ x = Position(call.at[i + 1]) /\ MadeTo(From(i)) /\ i # Len(Script)
      /\ match = Wrap(-Script[i].off) /\ a = Script[i].len
      /\ y = After(From(i))
  BY InvFacts DEF WellFormed, AtMatch, Matching, MadeTo, Steady16
<1>2. /\ From(i) \in Nat /\ Script[i].len \in Nat /\ Script[i].len >= 3
      /\ From(i) + Script[i].len <= Size /\ Size \in Nat /\ Size \in Word
      /\ Script[i].off \in 1 .. From(i)
  BY <1>1, Layout
<1>3. MatchSource = call.dst + From(i) - Script[i].off
  <2> DEFINE from == From(i)
             off == Script[i].off
             dst == call.dst
             len == Script[i].len
  <2>1. from \in Nat /\ len \in Nat /\ len >= 3 /\ off \in 1 .. from
        /\ from + len <= Size /\ Size \in Nat /\ Size \in Word
    BY <1>2
  <2>2. dst \in Nat /\ dst + Size - 1 \in Word \cup {-1}
    BY <1>1, SizeType
  <2> HIDE DEF from, off, dst, len
  <2>3. from \in 0 .. Size /\ from < Size
    BY SMT, <2>1
  <2>4. After(from) = dst + from
    BY <1>1, <2>3, AfterType DEF dst
  <2>5. dst + from - off \in Word /\ off \in Word /\ off # 0
    BY SMT, <2>1, <2>2, <2>3 DEF Word
  <2>6. \A v \in Int, u \in Word : u # 0 /\ v - u \in Word
            => Wrap(v + Wrap(-u) + 0) = v - u
    BY SMT DEF Word, Wrap
  <2>7. dst + from \in Int /\ (dst + from) - off = dst + from - off
    BY SMT, <2>1, <2>2
  <2>8. Adc(After(from), Wrap(-off), 0) = dst + from - off
    <3> DEFINE at == dst + from
    <3>1. Wrap(at + Wrap(-off) + 0) = at - off
      <4>1. at \in Int /\ at - off \in Word
        BY <2>5, <2>7
      <4> HIDE DEF at
      <4> QED BY <2>5, <2>6, <4>1
    <3>2. After(from) = at /\ at - off = dst + from - off
      BY <2>4, <2>7
    <3> HIDE DEF at
    <3> QED BY <3>1, <3>2 DEF Adc
  <2> QED BY <1>1, <2>8 DEF MatchSource, from, off, dst
<1>4. MvnOperand(a) + 1 = Script[i].len
  <2> DEFINE len == Script[i].len
             from == From(i)
  <2>1. len \in Nat /\ len >= 3 /\ from \in Nat /\ Size \in Nat
        /\ from + len <= Size /\ Size \in Word /\ a = len
    BY <1>1, <1>2
  <2> HIDE DEF len, from
  <2>2. a - 1 \in Word /\ a - 1 + 1 = len
    BY SMT, <2>1 DEF Word
  <2>3. \A u \in Word : Wrap(u) = u
    BY SMT DEF Word, Wrap
  <2> QED BY <2>2, <2>3 DEF MvnOperand, len
<1>5. call' = call /\ UNCHANGED <<y, wram, wmadd>>
  BY DEF CopyMatch, fixed, output
<1>6. /\ From(i)' = From(i) /\ call.at[i + 1]' = call.at[i + 1]
      /\ Script' = Script /\ \A p : Position(p)' = Position(p)
      /\ \A w : MoveFrame(w)' = MoveFrame(w)
  BY <1>5, PlacesKept, CommandKept
<1>7. MadeTo(From(i))'
  BY <1>1, <1>5, <1>6, MadeToKept
<1>8. stack' = MoveFrame(Position(call.at[i + 1]))
  BY <1>1 DEF CopyMatch, EnterMove, MoveFrame
<1>9. /\ pc' = "BlockMove" /\ x' = call.dst + From(i) - Script[i].off
      /\ a' + 1 = Script[i].len
  BY <1>3, <1>4 DEF CopyMatch, EnterMove
<1> QED BY <1>1, <1>5, <1>6, <1>7, <1>8, <1>9 DEF AtMove

LEMMA MoveStep ==
    ASSUME IInv, WellFormed(call), NEW i \in 1 .. Len(Script),
           AtMove(i), Move
    PROVE  Moved(i)'
<1>1. /\ CallOK(call) /\ Spelled(call) /\ outBank = call.dstBank
      /\ a \in Word /\ i # Len(Script) /\ a + 1 = Script[i].len
      /\ x = call.dst + From(i) - Script[i].off
      /\ stack = MoveFrame(Position(call.at[i + 1]))
      /\ Made(From(i)) /\ y = After(From(i)) /\ MoveBlock
  BY InvFacts DEF WellFormed, AtMove, MadeTo, Move
<1>2. /\ From(i) \in Nat /\ Script[i].len \in Nat /\ Script[i].len >= 3
      /\ From(i) + Script[i].len <= Size
      /\ Script[i].off \in 1 .. From(i)
      /\ call.out[i + 1] = From(i) + Script[i].len
  <2>1. CallOK(call) /\ WellFormed(call) /\ i # Len(Script)
    BY <1>1
  <2> QED BY ZenonT(30), <2>1, Layout
<1>3. Script[i].len > 0
  BY SMT, <1>2
<1>4. \A j \in 1 .. Script[i].len :
         call.plain[From(i) + j]
             = call.plain[From(i) - Script[i].off + 1
                          + ((j - 1) % Script[i].off)]
  <2> DEFINE n == From(i)
             cmd == Script[i]
  <2>1. Text!Copies(call.plain, n, cmd) /\ cmd.len > 0
    BY <1>1, <1>3, CommandType
  <2> HIDE DEF n, cmd
  <2>2. \A j \in 1 .. cmd.len :
           call.plain[n + j]
               = call.plain[n - cmd.off + 1 + ((j - 1) % cmd.off)]
    BY Zenon, <2>1 DEF Text!Copies
  <2> QED BY <2>2 DEF n, cmd
<1>5. call' = call /\ stack' = stack /\ pc' = "MatchCopied"
  BY <1>1 DEF MoveBlock, fixed
<1>6. /\ From(i)' = From(i) /\ call.at[i + 1]' = call.at[i + 1]
      /\ call.out[i + 1]' = call.out[i + 1]
      /\ Script' = Script /\ \A p : Position(p)' = Position(p)
      /\ \A w : MoveFrame(w)' = MoveFrame(w) /\ \A n : After(n)' = After(n)
  BY <1>5, PlacesKept, CommandKept
<1>7. MadeTo(call.out[i + 1])'
  <2> DEFINE n == From(i)
             k == Script[i].len
             off == Script[i].off
  <2>1. /\ n \in Nat /\ k \in Nat /\ k > 0 /\ n + k <= Size /\ off \in 1 .. n
        /\ \A j \in 1 .. k :
              call.plain[n + j] = call.plain[n - off + 1 + ((j - 1) % off)]
        /\ Made(n) /\ x = call.dst + n - off /\ y = After(n) /\ a + 1 = k
    BY <1>1, <1>2, <1>3, <1>4
  <2>2. n' = n /\ k' = k /\ call.out[i + 1]' = n + k
    BY <1>2, <1>6
  <2> HIDE DEF n, k, off
  <2>3. Made(n + k)' /\ y' = After(n + k)
    BY <1>1, <2>1, <2>2, MatchRun
  <2>4. \A l : After(l)' = After(l)
    BY <1>6
  <2> QED BY <2>2, <2>3, <2>4 DEF MadeTo
<1> QED BY <1>1, <1>5, <1>6, <1>7 DEF Moved

LEMMA MatchCopiedStep ==
    ASSUME IInv, WellFormed(call), NEW i \in 1 .. Len(Script),
           Moved(i), MatchCopied
    PROVE  i + 1 \in 1 .. Len(Script) /\ AtToken(i + 1)'
<1>1. /\ CommonTypeOK /\ CallOK(call) /\ Spelled(call) /\ i # Len(Script)
      /\ stack = MoveFrame(Position(call.at[i + 1]))
      /\ MadeTo(call.out[i + 1])
  BY InvFacts DEF WellFormed, Moved
<1>2. /\ i + 1 \in 1 .. Len(Script)
      /\ call.at[i + 1] \in 0 .. Len(call.block)
  BY <1>1, NextCommand
<1>3. x' = Position(call.at[i + 1])
  <2> DEFINE w == Position(call.at[i + 1])
  <2>1. w \in Word /\ stack = MoveFrame(w)
    BY <1>1, <1>2, PositionType
  <2> HIDE DEF w
  <2>2. x' = w
    BY <1>1, <2>1, LeaveMoveFrame DEF MatchCopied
  <2> QED BY <2>2 DEF w
<1>4. call' = call /\ UNCHANGED <<y, wram, wmadd>> /\ pc' = "ReadToken"
  BY DEF MatchCopied, fixed, output
<1>5. /\ call.at[i + 1]' = call.at[i + 1] /\ call.out[i + 1]' = call.out[i + 1]
      /\ \A p : Position(p)' = Position(p)
  BY <1>4, PlacesKept, CommandKept
<1>6. MadeTo(call.out[i + 1])'
  BY <1>1, <1>4, <1>5, MadeToKept
<1> QED BY <1>2, <1>3, <1>4, <1>5, <1>6 DEF AtToken

(* Setup leaves the routine at the first command. *)
LEMMA SetupStep ==
    ASSUME IInv, WellFormed(call), pc = "Setup", NothingWritten,
           x = call.src, Setup
    PROVE  1 \in 1 .. Len(Script) /\ AtToken(1)'
<1>1. /\ CallOK(call) /\ Spelled(call) /\ wmadd \in WramAddress
      /\ y = call.dst /\ a = MakeWord(call.srcBank, call.dstBank)
  BY InvFacts DEF WellFormed, IInv, Banks
<1>2. call' = call /\ UNCHANGED <<x, y, wram>> /\ pc' = "ReadToken"
      /\ SetupFrame(wmadd)
  BY DEF Setup
<1>3. \A p : Position(p)' = Position(p)
  BY <1>2, PlacesKept
<1>4. call.src \in Word
  BY <1>1 DEF CallOK
<1>6. 1 \in 1 .. Len(Script)
  <2>1. Script \in Seq(Text!Commands) /\ Script # <<>>
    BY <1>1 DEF Spelled, Text!Spells, Script
  <2> HIDE DEF Script
  <2> QED BY SMT, <2>1
<1>7. call.out[1] = 0 /\ call.at[1] = 0
  BY <1>1, <1>6, CommandAt DEF Spelled, Text!Spells
<1>8. x' = Position(0)
  <2>1. \A u \in Word : Wrap(u + 0) = u
    BY SMT DEF Word, Wrap
  <2> QED BY <1>2, <1>4, <2>1 DEF Position
<1>9. MadeTo(0)'
  <2>1. wmadd' \div 65536 = call.dstBank % 2
    BY <1>1, <1>2, SetupPort
  <2> QED BY <1>1, <1>2, <2>1, NothingMade
<1>10. call.out[1]' = 0 /\ call.at[1]' = 0
  BY <1>2, <1>7
<1> QED BY <1>2, <1>3, <1>6, <1>8, <1>9, <1>10 DEF AtToken

-----------------------------------------------------------------------------
(* A routine that decodes stays one that does, whatever the step.          *)
LEMMA AddStep ==
    ASSUME IInv, WellFormed(call), NEW i \in 1 .. Len(Script),
           AddingLit(i) \/ AddingMatch(i), AddLength
    PROVE  InCommand(i)' \/ (pc' = "Done" /\ MadeTo(Size)')
<1>1. CallOK(call) /\ Spelled(call)
  BY InvFacts DEF WellFormed
<1>2. call' = call /\ UNCHANGED <<y, wram, wmadd, token, match>>
  BY DEF AddLength, fixed, output
<1>3. /\ \A p : Position(p)' = Position(p)
      /\ LitAt(i)' = LitAt(i) /\ call.at[i + 1]' = call.at[i + 1]
      /\ Tok(i)' = Tok(i) /\ From(i)' = From(i) /\ Script' = Script
      /\ Lit(i)' = Lit(i) /\ call.out[i]' = call.out[i]
  BY <1>2, PlacesKept, CommandKept
<1>4. /\ Lit(i) \in Nat /\ Lit(i) < 512 /\ Script[i].len \in Nat
      /\ LitLenAt(i) \in Nat /\ MatchLenAt(i) \in Nat
      /\ LitAt(i) = LitLenAt(i) + More(Lit(i), 7)
      /\ i # Len(Script)
            => call.at[i + 1] = MatchLenAt(i) + More(Script[i].len, 18)
  BY SMTT(30), <1>1, Layout
<1>5. CASE AddingLit(i)
  <2> DEFINE n == Lit(i)
             p == LitLenAt(i)
  <2>1. /\ token = Tok(i) /\ Adding("CopyLiteral", p, 7)
        /\ MadeTo(call.out[i]) /\ n >= 7 /\ Holds(p, Format!Varlen(n, 7))
    BY <1>1, <1>5, CommandParsed DEF AddingLit, Parsed
  <2>2. MadeTo(call.out[i])'
    BY <1>2, <1>3, <2>1, MadeToKept
  <2>3. p \in Nat /\ n \in Nat /\ n < 512
    BY <1>4
  <2>4. LitAt(i) = p + More(n, 7)
    BY <1>4
  <2>5. n = Lit(i)
    OBVIOUS
  <2> HIDE DEF n, p
  <2>6. n > 0
    BY SMT, <2>1, <2>3
  <2>7. /\ pc' = "CopyLiteral" /\ a' = n /\ c' = 0
        /\ x' = Position(p + More(n, 7))
    BY <1>1, <2>1, <2>3, AddLengthStep
  <2>8. x' = Position(LitAt(i))' /\ a' = Lit(i)' /\ a' > 0 /\ token' = Tok(i)'
    BY <1>2, <1>3, <2>1, <2>4, <2>5, <2>6, <2>7
  <2> QED BY <1>3, <2>2, <2>7, <2>8 DEF AtLiteral, InCommand
<1>6. CASE AddingMatch(i) /\ i # Len(Script)
  <2> DEFINE n == Script[i].len
             p == MatchLenAt(i)
  <2>1. /\ Adding("CopyMatch", p, 18) /\ n >= 18 /\ MadeTo(From(i))
        /\ match = Wrap(-Script[i].off)
        /\ Holds(p, Format!Varlen(n, 18))
    BY <1>1, <1>6, CommandParsed DEF AddingMatch, Matching, Parsed
  <2>2. MadeTo(From(i))'
    BY <1>2, <1>3, <2>1, MadeToKept
  <2>3. p \in Nat /\ n \in Nat
    BY <1>4
  <2>4. call.at[i + 1] = p + More(n, 18)
    BY <1>4, <1>6
  <2>5. n = Script[i].len
    OBVIOUS
  <2> HIDE DEF n, p
  <2>6. /\ pc' = "CopyMatch" /\ a' = n /\ x' = Position(p + More(n, 18))
    BY <1>1, <2>1, <2>3, AddLengthStep
  <2>7. /\ x' = Position(call.at[i + 1])' /\ a' = Script[i].len'
        /\ i # Len(Script)'
    BY <1>3, <1>6, <2>4, <2>5, <2>6
  <2>8. Matching(i)'
    BY <1>2, <1>3, <2>1, <2>2 DEF Matching
  <2> QED BY <2>6, <2>7, <2>8 DEF AtMatch, InCommand
<1>7. CASE AddingMatch(i) /\ i = Len(Script)
  BY <1>7, EndStep
<1> QED BY <1>5, <1>6, <1>7

(* The label tells which part of the command it is. *)
LEMMA StageLabels ==
    ASSUME NEW i
    PROVE  /\ AtToken(i) => pc = "ReadToken"
           /\ AtLitLen(i) => pc = "DecodeLitLen"
           /\ AddingLit(i) => pc = "AddLength"
           /\ AtLiteral(i) => pc = "CopyLiteral"
           /\ AtOffset(i) => pc = "DecodeMatchOffset"
           /\ AtMatchLen(i) => pc = "DecodeMatchLen"
           /\ AddingMatch(i) => pc = "AddLength"
           /\ AtMatch(i) => pc = "CopyMatch"
           /\ AtMove(i) => pc = "BlockMove"
           /\ Moved(i) => pc = "MatchCopied"
BY DEF AtToken, AtLitLen, AddingLit, AtLiteral, AtOffset, AtMatchLen,
       AddingMatch, AtMatch, AtMove, Moved, Adding

LEMMA StageIs ==
    ASSUME Decoding
    PROVE  /\ pc \notin {"Main", "Setup", "Done", "Idle"}
                 => \E i \in 1 .. Len(Script) : InCommand(i)
           /\ pc \in {"Done", "Idle"} => MadeTo(Size)
           /\ pc \in {"Main", "Setup"} => NothingWritten
           /\ pc = "Setup" => x = call.src
<1>1. ASSUME NEW i, InCommand(i)
      PROVE  pc \notin {"Main", "Setup", "Done", "Idle"}
  BY <1>1, StageLabels DEF InCommand
<1> QED BY <1>1 DEF Decoding

(* A routine that stands still stays where it is. *)
LEMMA InCommandKept ==
    ASSUME NEW i, InCommand(i), UNCHANGED vars
    PROVE  InCommand(i)'
<1>1. /\ call' = call
      /\ UNCHANGED <<pc, x, y, a, c, stack, match, wram, wmadd, token>>
  BY DEF vars, common
<1>2. /\ \A p : Position(p)' = Position(p) /\ \A w : MoveFrame(w)' = MoveFrame(w)
      /\ LitAt(i)' = LitAt(i) /\ LitLenAt(i)' = LitLenAt(i)
      /\ OffAt(i)' = OffAt(i)
      /\ MatchLenAt(i)' = MatchLenAt(i) /\ call.at[i + 1]' = call.at[i + 1]
      /\ Tok(i)' = Tok(i) /\ From(i)' = From(i) /\ Script' = Script
      /\ Lit(i)' = Lit(i) /\ Frame' = Frame
  BY <1>1, PlacesKept, CommandKept
<1>3. ASSUME NEW n, MadeTo(n) PROVE MadeTo(n)'
  BY <1>1, <1>3, MadeToKept
<1>4. Matching(i) => Matching(i)'
  BY <1>1, <1>2, <1>3 DEF Matching
<1>5. ASSUME NEW next, NEW p, NEW n, Adding(next, p, n)
      PROVE  Adding(next, p, n)'
  BY <1>1, <1>2, <1>5 DEF Adding, LengthFrame
<1>6. AtToken(i) => AtToken(i)'
  BY <1>1, <1>2, <1>3 DEF AtToken
<1>7. AtLitLen(i) => AtLitLen(i)'
  BY <1>1, <1>2, <1>3 DEF AtLitLen
<1>8. AddingLit(i) => AddingLit(i)'
  BY <1>1, <1>2, <1>3, <1>5 DEF AddingLit
<1>9. AtLiteral(i) => AtLiteral(i)'
  BY <1>1, <1>2, <1>3 DEF AtLiteral
<1>10. AtOffset(i) => AtOffset(i)'
  BY <1>1, <1>2, <1>3 DEF AtOffset
<1>11. AtMatchLen(i) => AtMatchLen(i)'
  BY <1>1, <1>2, <1>4 DEF AtMatchLen
<1>12. AddingMatch(i) => AddingMatch(i)'
  BY <1>1, <1>2, <1>4, <1>5 DEF AddingMatch
<1>13. AtMatch(i) => AtMatch(i)'
  BY <1>1, <1>2, <1>4 DEF AtMatch
<1>14. AtMove(i) => AtMove(i)'
  BY <1>1, <1>2, <1>3 DEF AtMove
<1>15. Moved(i) => Moved(i)'
  BY <1>1, <1>2, <1>3 DEF Moved
<1> QED BY <1>6, <1>7, <1>8, <1>9, <1>10, <1>11, <1>12, <1>13, <1>14, <1>15
        DEF InCommand

LEMMA DecodingStep == IInv /\ Decoding /\ [Next]_vars => Decoding'
<1> SUFFICES ASSUME IInv, Decoding, [Next]_vars PROVE Decoding'
  OBVIOUS
<1>1. WellFormed(call) /\ call' = call /\ CallOK(call)
  BY CallKept, InvFacts DEF Decoding
<1>2. WellFormed(call)'
  BY <1>1 DEF WellFormed, Spelled
<1>3. Script' = Script /\ Size' = Size /\ \A p : Position(p)' = Position(p)
  BY <1>1, PlacesKept
<1>5. ASSUME NEW i \in 1 .. Len(Script), InCommand(i)'
      PROVE  Decoding'
  BY <1>2, <1>3, <1>5 DEF Decoding
<1>6. CASE Main
  <2>1. pc = "Main" /\ NothingWritten
    BY <1>6, StageIs DEF Main, CallRoutine
  <2>2. /\ pc' = "Setup" /\ wram' = wram /\ x' = call.src
    BY <1>6 DEF Main, CallRoutine, output
  <2> QED BY <1>1, <1>2, <2>1, <2>2 DEF Decoding, NothingWritten
<1>7. CASE Setup
  <2>1. pc = "Setup" /\ NothingWritten /\ x = call.src
    BY <1>7, StageIs DEF Setup
  <2>2. 1 \in 1 .. Len(Script) /\ AtToken(1)'
    BY <1>1, <1>7, <2>1, SetupStep
  <2>3. InCommand(1)'
    BY <2>2 DEF InCommand
  <2> QED BY <1>5, <2>2, <2>3
<1>8. CASE \/ ReadToken \/ DecodeLitLen \/ CopyLiteral \/ DecodeMatchOffset
           \/ DecodeMatchLen \/ CopyMatch \/ Move \/ MatchCopied
           \/ AddLength
  <2>1. pc \notin {"Main", "Setup", "Done", "Idle"}
    BY <1>8 DEF ReadToken, DecodeLitLen, CopyLiteral, DecodeMatchOffset,
       DecodeMatchLen, CopyMatch, Move, MoveBlock, MatchCopied, AddLength
  <2>3. PICK i \in 1 .. Len(Script) : InCommand(i)
    BY <2>1, StageIs
  <2>4. CASE ReadToken
    <3>1. AtToken(i)
      BY <2>3, <2>4, StageLabels DEF ReadToken, InCommand
    <3> QED BY <1>1, <1>5, <2>4, <3>1, ReadTokenStep DEF InCommand
  <2>5. CASE DecodeLitLen
    <3>1. AtLitLen(i)
      BY <2>3, <2>5, StageLabels DEF DecodeLitLen, InCommand
    <3> QED BY <1>1, <1>5, <2>5, <3>1, DecodeLitLenStep DEF InCommand
  <2>6. CASE CopyLiteral
    <3>1. AtLiteral(i)
      BY <2>3, <2>6, StageLabels DEF CopyLiteral, InCommand
    <3> QED BY <1>1, <1>5, <2>6, <3>1, CopyLiteralStep DEF InCommand
  <2>7. CASE DecodeMatchOffset
    <3>1. AtOffset(i)
      BY <2>3, <2>7, StageLabels DEF DecodeMatchOffset, InCommand
    <3> QED
      BY <1>1, <1>5, <2>7, <3>1, DecodeMatchOffsetStep DEF InCommand
  <2>8. CASE DecodeMatchLen
    <3>1. AtMatchLen(i)
      BY <2>3, <2>8, StageLabels DEF DecodeMatchLen, InCommand
    <3> QED BY <1>1, <1>5, <2>8, <3>1, DecodeMatchLenStep DEF InCommand
  <2>9. CASE CopyMatch
    <3>1. AtMatch(i)
      BY <2>3, <2>9, StageLabels DEF CopyMatch, InCommand
    <3> QED BY <1>1, <1>5, <2>9, <3>1, CopyMatchStep DEF InCommand
  <2>10. CASE Move
    <3>1. AtMove(i)
      BY <2>3, <2>10, StageLabels DEF Move, MoveBlock, InCommand
    <3> QED BY <1>1, <1>5, <2>10, <3>1, MoveStep DEF InCommand
  <2>11. CASE MatchCopied
    <3>1. Moved(i)
      BY <2>3, <2>11, StageLabels DEF MatchCopied, InCommand
    <3>2. i + 1 \in 1 .. Len(Script) /\ InCommand(i + 1)'
      BY <1>1, <2>11, <3>1, MatchCopiedStep DEF InCommand
    <3> QED BY <1>5, <3>2
  <2>12. CASE AddLength
    <3>1. AddingLit(i) \/ AddingMatch(i)
      BY <2>3, <2>12, StageLabels DEF AddLength, InCommand
    <3>2. InCommand(i)' \/ (pc' = "Done" /\ MadeTo(Size)')
      BY <1>1, <2>12, <3>1, AddStep
    <3>3. CASE pc' = "Done" /\ MadeTo(Size)'
      BY <1>2, <3>3 DEF Decoding
    <3> QED BY <1>5, <3>2, <3>3
  <2> QED BY <1>8, <2>4, <2>5, <2>6, <2>7, <2>8, <2>9, <2>10, <2>11, <2>12
<1>9. CASE Done
  <2>1. MadeTo(Size) /\ UNCHANGED <<y, wram, wmadd>>
    BY <1>9, StageIs DEF Done, output
  <2>2. MadeTo(Size)'
    BY <1>1, <1>3, <2>1, MadeToKept
  <2>3. stack = Frame /\ CommonTypeOK
    BY <1>9, InvFacts DEF Done, Steady16
  <2>4. pc' = "Idle"
    BY <1>9, <2>3, LeaveFrame DEF Done, CommonTypeOK
  <2> QED BY <1>2, <2>2, <2>4 DEF Decoding
<1>10. CASE UNCHANGED vars
  <2>1. UNCHANGED <<pc, x, y, wram, wmadd>>
    BY <1>10 DEF vars, common
  <2>2. CASE pc \in {"Done", "Idle"}
    <3>1. MadeTo(Size)'
      BY <1>1, <1>3, <2>1, <2>2, StageIs, MadeToKept
    <3> QED BY <1>2, <2>1, <2>2, <3>1 DEF Decoding
  <2>3. CASE pc \in {"Main", "Setup"}
    BY <1>1, <1>2, <2>1, <2>3, StageIs DEF Decoding, NothingWritten
  <2>4. CASE pc \notin {"Main", "Setup", "Done", "Idle"}
    BY <1>5, <1>10, <2>1, <2>4, StageIs, InCommandKept
  <2> QED BY <2>2, <2>3, <2>4
<1>11. CASE Wai
  BY <1>10, <1>11 DEF Wai, Idle, vars
<1> QED BY <1>6, <1>7, <1>8, <1>9, <1>10, <1>11 DEF Next

LEMMA DecodingInit == Init /\ WellFormed(call) => Decoding
BY DEF Init, RoutineInit, Decoding, NothingWritten

(* On every well-formed block the routine is, at each label, where in the  *)
(* script the registers say, with the text up to there and nothing else    *)
(* written.                                                                *)
THEOREM DecodesInStep ==
    ASSUME \A r \in Calls : WellFormed(r)
    PROVE  Spec => [](IInv /\ Decoding)
<1>1. Init => IInv /\ Decoding
  BY InitInv, DecodingInit DEF Init, RoutineInit
<1>2. IInv /\ Decoding /\ [Next]_vars => (IInv /\ Decoding)'
  BY StepInv, DecodingStep
<1> QED BY <1>1, <1>2, PTL DEF Spec

(* Which places of the command the labels that write are at. *)
LEMMA MadeWhere ==
    ASSUME Decoding, pc \notin {"Main", "Setup"}
    PROVE  \E n : MadeTo(n)
<1>1. CASE pc \in {"Done", "Idle"}
  BY <1>1, StageIs
<1>2. CASE pc \notin {"Done", "Idle"}
  <2>1. PICK i \in 1 .. Len(Script) : InCommand(i)
    BY <1>2, StageIs
  <2> QED BY <2>1 DEF InCommand, AtToken, AtLitLen, AddingLit, AtLiteral,
          AtOffset, AtMatchLen, AddingMatch, AtMatch, AtMove, Moved, Matching
<1> QED BY <1>1, <1>2

LEMMA DecodingInStep == IInv /\ Decoding => InStep
<1> SUFFICES ASSUME IInv, Decoding, pc = "ReadToken"
             PROVE  \E i \in DOMAIN call.script :
                       Consumed = call.at[i] /\ Produced = call.out[i]
  BY DEF InStep
<1>1. PICK i \in 1 .. Len(Script) : AtToken(i)
  BY StageIs, StageLabels DEF InCommand
<1>2. CallOK(call) /\ WellFormed(call) /\ Spelled(call)
  BY InvFacts DEF Decoding, WellFormed
<1>3. call.at[i] \in Nat /\ call.at[i] < Len(call.block)
  BY <1>2, Layout, TokenSays
<1> QED BY <1>1, <1>2, <1>3, InStepWhereStarting DEF AtToken

(* The routine takes a well-formed block apart as the compressor put it    *)
(* together: ReadToken reads a token where a command starts, with the text *)
(* of the commands before it made.                                         *)
THEOREM InStepAlways ==
    ASSUME \A r \in Calls : WellFormed(r)
    PROVE  Spec => []InStep
BY DecodingInStep, DecodesInStep, PTL

LEMMA DecodingCarryClear == Decoding => CarryClear
BY StageIs, StageLabels DEF CarryClear, InCommand, AtLiteral

(* Every way to CopyLiteral on a well-formed block has cleared the carry   *)
(* the label adds to Y.                                                    *)
THEOREM CarryClearAlways ==
    ASSUME \A r \in Calls : WellFormed(r)
    PROVE  Spec => []CarryClear
BY DecodingCarryClear, DecodesInStep, PTL

LEMMA DecodingOutputContiguous == IInv /\ Decoding => OutputContiguous
<1> SUFFICES ASSUME IInv, Decoding PROVE OutputContiguous
  OBVIOUS
<1>1. CallOK(call) /\ Spelled(call)
  BY InvFacts DEF Decoding, WellFormed
<1>2. pc \in Writing => \E n : MadeTo(n)
  BY MadeWhere DEF Writing
<1> QED BY <1>1, <1>2, ContiguousWhereMade

(* DMA and block move write the destination from its start on, without a   *)
(* hole, and nothing else.                                                 *)
THEOREM OutputContiguousAlways ==
    ASSUME \A r \in Calls : WellFormed(r)
    PROVE  Spec => []OutputContiguous
BY DecodingOutputContiguous, DecodesInStep, PTL

LEMMA DecodingMatchInsideOutput == IInv /\ Decoding => MatchInsideOutput
<1> SUFFICES ASSUME IInv, Decoding, pc = "BlockMove"
             PROVE  Wrap(x - call.dst) < Produced
  BY DEF MatchInsideOutput
<1>1. PICK i \in 1 .. Len(Script) : AtMove(i)
  BY StageIs, StageLabels DEF InCommand
<1>2. CallOK(call) /\ WellFormed(call) /\ Spelled(call)
  BY InvFacts DEF Decoding, WellFormed
<1>3. /\ From(i) \in Nat /\ Script[i].off \in 1 .. From(i)
      /\ x = call.dst + From(i) - Script[i].off /\ MadeTo(From(i))
  BY <1>1, <1>2, Layout DEF AtMove
<1> QED BY <1>2, <1>3, InsideWhereMoving

(* A match is copied from inside the text made so far. *)
THEOREM MatchInsideOutputAlways ==
    ASSUME \A r \in Calls : WellFormed(r)
    PROVE  Spec => []MatchInsideOutput
BY DecodingMatchInsideOutput, DecodesInStep, PTL

-----------------------------------------------------------------------------
(* The abstract specification: a step copies literals, copies a match,     *)
(* returns, or shows nothing.                                              *)
LEMMA PromisedStep ==
    IInv /\ Decoding /\ IInv' /\ [Next]_vars => [Promise!Next]_(Promise!vars)
<1> SUFFICES ASSUME IInv, Decoding, IInv', [Next]_vars
             PROVE  Promise!Next \/ UNCHANGED Promise!vars
  BY DEF Promise!vars
<1>1. /\ CallOK(call) /\ WellFormed(call) /\ Spelled(call) /\ call' = call
  BY CallKept, InvFacts DEF Decoding, WellFormed
<1>2. CASE CopyLiteral
  <2>1. pc = "CopyLiteral" /\ pc' = "DecodeMatchOffset"
    BY <1>2 DEF CopyLiteral
  <2>2. PICK i \in 1 .. Len(Script) : AtLiteral(i)
    BY <2>1, StageIs, StageLabels DEF InCommand
  <2>3. Made(call.out[i]) /\ Made(From(i))' /\ From(i)' = From(i)
    BY <1>1, <1>2, <2>2, CopyLiteralStep, PlacesKept
    DEF AtLiteral, AtOffset, MadeTo
  <2>4. call.out[i] < From(i)
    <3>1. /\ From(i) = call.out[i] + Lit(i) /\ call.out[i] \in Nat
          /\ Lit(i) \in Nat /\ Lit(i) > 0
      BY <1>1, <2>2, Layout DEF AtLiteral
    <3> QED BY SMT, <3>1
  <2> QED BY <1>1, <2>1, <2>3, <2>4, PromisedEmit DEF Promise!Next
<1>3. CASE Move
  <2>1. pc = "BlockMove" /\ pc' = "MatchCopied"
    BY <1>3 DEF Move, MoveBlock
  <2>2. PICK i \in 1 .. Len(Script) : AtMove(i)
    BY <2>1, StageIs, StageLabels DEF InCommand
  <2>3. /\ Made(From(i)) /\ Made(call.out[i + 1])'
        /\ call.out[i + 1]' = call.out[i + 1] /\ From(i)' = From(i)
    BY <1>1, <1>3, <2>2, MoveStep, PlacesKept, CommandKept
    DEF AtMove, Moved, MadeTo
  <2>4. From(i) < call.out[i + 1]
    <3>1. /\ call.out[i + 1] = From(i) + Script[i].len /\ From(i) \in Nat
          /\ Script[i].len \in Nat /\ Script[i].len >= 3
      BY <1>1, <2>2, Layout DEF AtMove
    <3> QED BY SMT, <3>1
  <2> QED BY <1>1, <2>1, <2>3, <2>4, PromisedEmit DEF Promise!Next
<1>4. CASE Done
  <2>1. /\ pc = "Done" /\ MadeTo(Size) /\ wram' = wram /\ y' = y
    BY <1>4, StageIs DEF Done, output
  <2>2. stack = Frame /\ CommonTypeOK
    BY <1>4, InvFacts DEF Done, Steady16
  <2>3. pc' = "Idle" /\ (RETLEN => x' = Sbc(y, call.dst))
    BY <1>4, <2>2, LeaveFrame DEF Done, CommonTypeOK
  <2>4. Sbc(y, call.dst) = Size
    BY <1>1, <2>1, ReportedSize
  <2> QED BY <1>1, <2>1, <2>3, <2>4, PromisedReturn DEF Promise!Next, MadeTo
<1>5. CASE \/ Main \/ Setup \/ ReadToken \/ DecodeLitLen \/ DecodeMatchOffset
           \/ DecodeMatchLen \/ CopyMatch \/ MatchCopied \/ AddLength
  <2>1. wram' = wram /\ pc # "Idle"
    BY <1>5 DEF Main, CallRoutine, Setup, ReadToken, DecodeLitLen,
       DecodeMatchOffset, DecodeMatchLen, CopyMatch, MatchCopied, AddLength,
       output
  <2>2. pc' # "Idle"
    <3>1. CASE AddLength
      <4>1. PICK next \in AfterLength : stack = LengthFrame(next)
        BY <3>1 DEF AddLength, IInv, StackShape
      <4>2. ReturnTo(stack) = next
        BY SMT, <4>1 DEF LengthFrame, Top, Push, Item, ReturnTo
      <4>3. pc' \in {next, "Done"}
        BY <3>1, <4>2 DEF AddLength, ByteLen, TwoByteLen, ThreeByteLen,
           Length, EndOfData
      <4> QED BY <4>3 DEF AfterLength
    <3> QED
      BY <1>5, <3>1 DEF Main, CallRoutine, Setup, ReadToken, DecodeLitLen,
         NoLiteral, ShortLen, LongLen, DecodeMatchOffset, DecodeMatchLen,
         CopyMatch, EnterMove, MatchCopied
  <2> QED BY <1>1, <2>1, <2>2, PromisedQuiet
<1>6. CASE UNCHANGED vars \/ Wai
  <2>1. UNCHANGED <<pc, x, wram>>
    BY <1>6 DEF vars, common, Wai, Idle
  <2> QED BY <1>1, <2>1, PromisedQuiet
<1> QED BY <1>2, <1>3, <1>4, <1>5, <1>6 DEF Next

(* On every well-formed block LZSA1_Decompress is a decompressor: what is  *)
(* in the destination is always a prefix of the text, only grows, and the  *)
(* routine returns with all of it there and, where it reports it, its      *)
(* length in X.                                                            *)
THEOREM ImplementsAlways ==
    ASSUME \A r \in Calls : WellFormed(r)
    PROVE  Spec => Implements
<1>1. Init => Promise!Init
  <2> SUFFICES ASSUME Init PROVE Promise!Init
    OBVIOUS
  <2>1. WellFormed(call) /\ CallOK(call)
    BY CallsAssumption DEF Init, RoutineInit
  <2> QED BY <2>1, PromisedInit DEF Init, RoutineInit, WellFormed
<1> QED
  BY <1>1, DecodesInStep, PromisedStep, PTL DEF Spec, Implements, Promise!Spec
=============================================================================
