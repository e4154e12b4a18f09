-------------------------- MODULE Zx0DecoderProofs --------------------------
(***************************************************************************)
(* The first part is about ZX0_Decompress on any bytes at all. Besides     *)
(* what holds of all decoders - types, stack, banks - this is about its    *)
(* bit buffer: no stream makes it take a bit that is not there. Control    *)
(* bits alternate with others, and a byte has an even number of bits, so   *)
(* that the buffer can only be used up where a control bit is due, and     *)
(* there the code looks (IInv).                                            *)
(*                                                                         *)
(* The second is about streams that salvador writes (WellFormed): at which *)
(* bit of which number the routine is at each label, wherever the bit      *)
(* buffer is kept, and what of the text has been made (Decoding). From it  *)
(* follows that the routine is a decompressor.                             *)
(***************************************************************************)
EXTENDS Zx0Decoder, LzRoutineProofs

(* What is at the label a number is returned to, and the labels of its     *)
(* decoding; labels between numbers; labels of the block move.             *)
AfterNumber == {"CopyLiteral", "ReuseLenRead", "OffsetRead", "MatchLenRead"}
Unrolled    == {"GammaBit2", "GammaBit3", "GammaBit4"}
Gammas      == {"DecodeGamma", "GammaCheckBit", "GammaAddBit",
                "GammaFillBuffer"} \cup Unrolled
Starts      == {"DecodeMatchNew", "DecodeLiteral", "DecodeMatchReuse"}
Moving      == {"BlockMove", "MatchCopied"}

-----------------------------------------------------------------------------
(* A buffer with 0, 2, 4 or 6 bits before the end marker, and one with 1,  *)
(* 3, 5 or 7.                                                              *)
EvenBits(b) == /\ b \in Byte
               /\ b = 128 \/ b % 64 = 32 \/ b % 16 = 8 \/ b % 4 = 2

OddBits(b) == /\ b \in Byte
              /\ b % 128 = 64 \/ b % 32 = 16 \/ b % 8 = 4 \/ b % 2 = 1

(* Out of an even number of bits comes one, or else the end marker. *)
LEMMA ShiftEven ==
    ASSUME NEW b, EvenBits(b)
    PROVE  /\ Shifted(b) \in Byte /\ BitOut(b) \in Bit
           /\ Shifted(b) = 0 => BitOut(b) = 1
           /\ Shifted(b) # 0 => OddBits(Shifted(b))
BY SMT DEF EvenBits, OddBits, Shifted, BitOut, Byte, Bit

(* Out of an odd number comes one. *)
LEMMA ShiftOdd ==
    ASSUME NEW b, OddBits(b)
    PROVE  /\ Shifted(b) \in Byte /\ BitOut(b) \in Bit
           /\ EvenBits(Shifted(b))
BY SMT DEF EvenBits, OddBits, Shifted, BitOut, Byte, Bit

(* Two bits less: the low end of the buffer is empty. *)
LEMMA ShiftTwice ==
    ASSUME NEW b, EvenBits(b)
    PROVE  /\ Shifted(Shifted(b)) % 8 = 0
           /\ b % 8 = 0 => Shifted(Shifted(b)) % 32 = 0
           /\ b % 32 = 0 /\ Shifted(b) # 0 => Shifted(Shifted(b)) = 128
BY SMT DEF EvenBits, Shifted, Byte

(* The new byte, less its first bit, with the marker that came in. *)
LEMMA FillOdd ==
    ASSUME NEW byte \in Byte, c = 1
    PROVE  OddBits(Filled(byte)) /\ BitOut(byte) \in Bit
BY SMT DEF OddBits, Filled, Shifted, BitOut, Byte, Bit

(* The low half of A holds what was put there. *)
LEMMA BufferSet ==
    ASSUME NEW w \in Word, NEW b \in Byte
    PROVE  SetLo(w, b) \in Word /\ Lo(SetLo(w, b)) = b
BY SetLoType, HalfType, MakeWordType DEF SetLo

LEMMA WithBitType ==
    ASSUME NEW n \in Word, NEW b \in Bit
    PROVE  WithBit(n, b) \in Word /\ n \div 32768 \in Bit
BY SMT DEF WithBit, Wrap, Word, Bit

-----------------------------------------------------------------------------
(* The stack while a number is decoded, with the bit buffer put aside, and *)
(* around a block move.                                                    *)
NumberFrame(next) == Push(Frame, Item("addr", next))
BufferFrame(b)    == IF INLINE = 0 THEN Push(Frame, Item("byte", b)) ELSE Frame
MovingFrame(b, w) ==
    Push(Push(BufferFrame(b), Item("word", w)), Item("db", call.srcBank))

(* The buffer put aside, around a block move. *)
Aside == IF INLINE = 0 THEN ItemValue(Top(Pop(Pop(stack)))) ELSE Lo(tmp)

StackShape ==
    /\ pc = "Main" => stack = EmptyStack
    /\ pc = "Setup" => stack = Called
    /\ pc \in Starts \cup AfterNumber => stack = Frame
    /\ pc \in Gammas => \E next \in AfterNumber : stack = NumberFrame(next)
    /\ pc \in {"CopyMatch", "TypeBit", "Done"}
          => stack = BufferFrame(SavedBuffer)
    /\ pc \in Moving => SavedX \in Word /\ stack = MovingFrame(Aside, SavedX)
    /\ pc = "Idle" => stack = EmptyStack

Width == /\ pc \in {"CopyMatch"} \cup Moving => m = 16
         /\ pc \notin {"CopyMatch"} \cup Moving => m = 8

Banks ==
    /\ pc \in {"Main", "Setup", "Idle"} => db = 128 /\ dp = 0
    /\ pc = "Setup" => /\ y = call.dst
                       /\ a = MakeWord(call.srcBank, call.dstBank)
    /\ pc \notin {"Main", "Setup", "MatchCopied", "Idle"} => db = call.srcBank
    /\ pc \notin {"Main", "Setup"} => /\ inBank = call.srcBank
                                      /\ outBank = call.dstBank

(* Where the number of bits left is even and where odd, how few there are  *)
(* in the unrolled turns, and where C is 1.                                *)
Bits ==
    /\ pc \in {"DecodeGamma"} \cup Starts \cup Unrolled => EvenBits(Lo(a))
    /\ pc = "GammaBit3" => Lo(a) % 8 = 0
    /\ pc = "GammaBit4" => Lo(a) % 32 = 0
    /\ pc \in {"GammaCheckBit", "GammaAddBit"} \cup AfterNumber
          => OddBits(Lo(a))
    /\ pc = "GammaFillBuffer" => Lo(a) = 0 /\ c = 1
    /\ pc \in {"CopyMatch", "TypeBit"} => OddBits(SavedBuffer)
    /\ pc \in Moving => OddBits(Aside)
    /\ pc \in {"Done"} \cup AfterNumber => c = 1

Reported == pc = "Idle" /\ RETLEN => x = Sbc(y, call.dst)

IInv == TypeOK /\ StackShape /\ Width /\ Banks /\ Bits /\ Reported

-----------------------------------------------------------------------------
LEMMA InitInv == Init => IInv
<1> SUFFICES ASSUME Init PROVE IInv
  OBVIOUS
<1>1. TypeOK
  BY SMT, RoutineInitType DEF Init, RoutineInit, TypeOK, Labels, Word
<1> QED
  BY SMT, <1>1
  DEF Init, RoutineInit, IInv, StackShape, Width, Banks, Bits, Reported,
      Starts, AfterNumber, Gammas, Unrolled, Moving

(* The start of a number: the stack gets the address to go on at. *)
LEMMA NumberStart ==
    ASSUME IInv, pc \in Starts \cup AfterNumber,
           NEW next \in AfterNumber,
           NEW entry \in {"DecodeGamma", "GammaCheckBit"},
           Gamma(entry, next),
           x' \in Word, a' \in Word, c' \in Bit, match' \in Word,
           length' \in Word, tmp' \in Word,
           UNCHANGED <<fixed, output, y, m, db>>, Bits'
    PROVE  IInv'
<1> USE DEF Starts, AfterNumber, Gammas, Unrolled, Moving, fixed, output
<1>1. Frame' = Frame
  BY FrameFixed
<1>2. stack' = NumberFrame(next)'
  BY SMT, <1>1 DEF Gamma, IInv, StackShape, NumberFrame
<1>3. pc' = entry
  BY DEF Gamma
<1>4. TypeOK'
  BY SMT, <1>3 DEF IInv, TypeOK, CommonTypeOK, Labels
<1> QED
  BY SMT, <1>2, <1>3, <1>4 DEF IInv, StackShape, Width, Banks, Reported

(* A step from one label of the decoding to another. *)
LEMMA NumberStep ==
    ASSUME IInv, pc \in Gammas, pc' \in Gammas, stack' = stack,
           x' \in Word, a' \in Word, c' \in Bit, length' \in Word,
           UNCHANGED <<fixed, output, y, m, db, match, tmp>>, Bits'
    PROVE  IInv'
<1> USE DEF Starts, AfterNumber, Gammas, Unrolled, Moving, fixed, output
<1>1. Frame' = Frame
  BY FrameFixed
<1>2. TypeOK'
  BY SMT DEF IInv, TypeOK, CommonTypeOK, Labels
<1> QED
  BY SMT, <1>1, <1>2 DEF IInv, StackShape, Width, Banks, Reported, NumberFrame

(* The end of a number: back to where it was wanted, with C = 1 and an odd *)
(* number of bits.                                                         *)
LEMMA NumberEnd ==
    ASSUME IInv, pc \in Gammas, GammaDone,
           x' \in Word, a' \in Word, c' = 1, length' \in Word,
           UNCHANGED <<fixed, output, y, m, db, match, tmp>>,
           OddBits(Lo(a))'
    PROVE  IInv'
<1> USE DEF Starts, AfterNumber, Gammas, Unrolled, Moving, fixed, output
<1>1. PICK next \in AfterNumber : stack = NumberFrame(next)
  BY SMT DEF IInv, StackShape
<1>2. pc' = next /\ stack' = Frame
  BY SMT, <1>1 DEF GammaDone, NumberFrame, ReturnTo, Top, Pop, Push, Item
<1>3. Frame' = Frame
  BY FrameFixed
<1>4. TypeOK'
  BY SMT, <1>2 DEF IInv, TypeOK, CommonTypeOK, Labels, Bit
<1> QED
  BY SMT, <1>2, <1>3, <1>4
  DEF IInv, StackShape, Width, Banks, Bits, Reported

-----------------------------------------------------------------------------
(* The decoding of a number, action by action. *)
LEMMA NumberInv ==
    ASSUME IInv,
           \/ DecodeGamma \/ GammaCheckBit \/ GammaAddBit
           \/ GammaBit2 \/ GammaBit3 \/ GammaBit4 \/ GammaFillBuffer
    PROVE  IInv'
<1> USE DEF Starts, AfterNumber, Gammas, Unrolled, Moving, state
<1>t. CommonTypeOK /\ length \in Word
  BY DEF IInv, TypeOK
<1>a. a \in Word /\ c \in Bit /\ x \in Word
  BY <1>t DEF CommonTypeOK
<1>b. Shifted(Lo(a)) \in Byte /\ Shifted(Shifted(Lo(a))) \in Byte
  BY SMT, <1>a, HalfType DEF Shifted, Byte
<1>1. CASE DecodeGamma
  <2>1. EvenBits(Lo(a))
    BY SMT, <1>1 DEF DecodeGamma, IInv, Bits
  <2>2. a' \in Word /\ Lo(a') = Shifted(Lo(a)) /\ c' \in Bit
    BY <1>1, <1>a, <1>b, <2>1, BufferSet, ShiftEven DEF DecodeGamma
  <2>3. Bits'
    BY SMT, <1>1, <2>1, <2>2, ShiftEven DEF DecodeGamma, Bits
  <2> QED BY SMT, <1>1, <1>t, <1>a, <2>2, <2>3, NumberStep DEF DecodeGamma
<1>2. CASE GammaCheckBit
  <2>1. OddBits(Lo(a))
    BY SMT, <1>2 DEF GammaCheckBit, IInv, Bits
  <2>2. CASE IsLast(c)
    BY SMT, <1>2, <1>t, <1>a, <2>1, <2>2, NumberEnd
    DEF GammaCheckBit, IsLast, CarryAtEnd
  <2>3. CASE ~IsLast(c)
    <3>1. Bits'
      BY SMT, <1>2, <2>1, <2>3 DEF GammaCheckBit, Bits
    <3> QED
      BY SMT, <1>2, <1>t, <1>a, <2>3, <3>1, NumberStep DEF GammaCheckBit
  <2> QED BY <2>2, <2>3
<1>3. CASE GammaAddBit
  <2>1. OddBits(Lo(a))
    BY SMT, <1>3 DEF GammaAddBit, IInv, Bits
  <2>2. a' \in Word /\ Lo(a') = Shifted(Lo(a))
    BY <1>3, <1>a, <1>b, BufferSet DEF GammaAddBit
  <2>3. length' \in Word /\ c' \in Bit
    BY <1>3, <1>t, <2>1, ShiftOdd, WithBitType DEF GammaAddBit
  <2>4. Bits'
    BY SMT, <1>3, <2>1, <2>2, ShiftOdd DEF GammaAddBit, Bits
  <2> QED BY SMT, <1>3, <1>a, <2>2, <2>3, <2>4, NumberStep DEF GammaAddBit
<1>4. ASSUME NEW label \in Unrolled, NEW next, UnrolledBit(label, next),
             label = "GammaBit2" => next = "GammaBit3",
             label = "GammaBit3" => next = "GammaBit4",
             label = "GammaBit4" => next = "GammaFillBuffer"
      PROVE  IInv'
  <2> DEFINE once == Shifted(Lo(a))
             twice == Shifted(once)
  <2>1. EvenBits(Lo(a)) /\ pc = label
    BY SMT, <1>4 DEF UnrolledBit, IInv, Bits
  <2>2. BitOut(Lo(a)) \in Bit /\ (once = 0 => BitOut(Lo(a)) = 1)
    BY <2>1, ShiftEven
  <2>3. CASE once = 0
    <3>1. /\ pc' = "GammaFillBuffer" /\ c' = 1
          /\ a' = SetLo(a, once) /\ UNCHANGED <<stack, length>>
      BY SMT, <1>4, <2>2, <2>3 DEF UnrolledBit
    <3>2. a' \in Word /\ Lo(a') = 0
      BY SMT, <1>a, <1>b, <2>3, <3>1, BufferSet
    <3>3. Bits'
      BY SMT, <3>1, <3>2 DEF Bits
    <3> QED
      BY SMT, <1>4, <1>t, <1>a, <2>1, <3>1, <3>2, <3>3, NumberStep
      DEF UnrolledBit, Bit
  <2>4. CASE once # 0 /\ BitOut(Lo(a)) = 1
    <3>1. GammaDone /\ a' = SetLo(a, once) /\ c' = 1 /\ length' = length
      BY SMT, <1>4, <2>4 DEF UnrolledBit, IsLast, CarryAtEnd
    <3>2. a' \in Word /\ Lo(a') = once
      BY <1>a, <1>b, <3>1, BufferSet
    <3>3. OddBits(Lo(a)')
      BY SMT, <2>1, <2>4, <3>2, ShiftEven
    <3> QED
      BY SMT, <1>4, <1>t, <1>a, <2>1, <3>1, <3>2, <3>3, NumberEnd
      DEF UnrolledBit
  <2>5. CASE once # 0 /\ BitOut(Lo(a)) # 1
    <3>1. OddBits(once)
      BY <2>1, <2>5, ShiftEven
    <3>2. BitOut(once) \in Bit /\ EvenBits(twice)
      BY <3>1, ShiftOdd
    <3>3. /\ pc' = next /\ stack' = stack
          /\ length' = WithBit(length, BitOut(once))
      BY SMT, <1>4, <2>5 DEF UnrolledBit, IsLast
    <3>4. length' \in Word /\ length \div 32768 \in Bit
      BY <1>t, <3>2, <3>3, WithBitType
    <3>5. CASE label # "GammaBit4"
      <4>1. a' = SetLo(a, twice) /\ c' \in Bit
        BY SMT, <1>4, <2>5, <3>4, <3>5 DEF UnrolledBit, IsLast
      <4>2. a' \in Word /\ Lo(a') = twice
        BY <1>a, <1>b, <4>1, BufferSet
      <4>3. /\ next \in {"GammaBit3", "GammaBit4"}
            /\ twice % 8 = 0
            /\ next = "GammaBit4" => twice % 32 = 0
        <5>1. next = "GammaBit4" => Lo(a) % 8 = 0
          BY SMT, <1>4, <2>1, <3>5 DEF IInv, Bits
        <5> QED BY SMT, <1>4, <2>1, <3>5, <5>1, ShiftTwice
      <4>4. Bits'
        <5> HIDE DEF twice
        <5> QED BY SMT, <3>2, <3>3, <4>2, <4>3 DEF Bits
      <4> QED
        BY SMT, <1>4, <1>a, <2>1, <3>3, <3>4, <4>1, <4>2, <4>3, <4>4,
            NumberStep
        DEF UnrolledBit
    <3>6. CASE label = "GammaBit4"
      <4>1. Lo(a) % 32 = 0
        BY SMT, <2>1, <3>6 DEF IInv, Bits
      <4>2. twice = 128
        BY <2>1, <2>5, <4>1, ShiftTwice
      <4>3. Shifted(twice) = 0 /\ BitOut(twice) = 1
        BY SMT, <4>2 DEF Shifted, BitOut
      <4>4. /\ pc' = "GammaFillBuffer"
            /\ a' = SetLo(a, Shifted(twice)) /\ c' = BitOut(twice)
        BY SMT, <1>4, <2>5, <3>6 DEF UnrolledBit, IsLast
      <4>5. 0 \in Byte /\ 1 \in Bit
        BY SMT DEF Byte, Bit
      <4>6. a' \in Word /\ Lo(a') = 0 /\ c' = 1
        <5> HIDE DEF twice
        <5> QED BY <1>a, <4>3, <4>4, <4>5, BufferSet
      <4>7. Bits'
        BY SMT, <4>4, <4>6 DEF Bits
      <4> QED
        BY SMT, <1>4, <1>a, <2>1, <3>3, <3>4, <4>4, <4>5, <4>6, <4>7,
            NumberStep
        DEF UnrolledBit
    <3> QED BY <3>5, <3>6
  <2> QED BY <2>2, <2>3, <2>4, <2>5
<1>5. CASE GammaFillBuffer
  <2>1. c = 1
    BY SMT, <1>5 DEF GammaFillBuffer, IInv, Bits
  <2>2. ReadByte \in Byte
    BY <1>t, LoadType
  <2>3. OddBits(Filled(ReadByte)) /\ BitOut(ReadByte) \in Bit
    BY <2>1, <2>2, FillOdd
  <2>4. a' \in Word /\ Lo(a') = Filled(ReadByte)
    BY <1>5, <1>a, <2>3, BufferSet DEF GammaFillBuffer, OddBits
  <2>5. x' \in Word
    BY SMT, <1>5, <1>a, WrapType DEF GammaFillBuffer, Word
  <2>6. CASE IsLast(BitOut(ReadByte))
    BY SMT, <1>5, <1>t, <2>3, <2>4, <2>5, <2>6, NumberEnd
    DEF GammaFillBuffer, IsLast, CarryAtEnd
  <2>7. CASE ~IsLast(BitOut(ReadByte))
    <3>1. Bits'
      BY SMT, <1>5, <2>3, <2>4, <2>7 DEF GammaFillBuffer, Bits
    <3> QED
      BY SMT, <1>5, <1>t, <2>3, <2>4, <2>5, <2>7, <3>1, NumberStep
      DEF GammaFillBuffer
  <2> QED BY <2>6, <2>7
<1> QED
  BY SMT, <1>1, <1>2, <1>3, <1>4, <1>5 DEF GammaBit2, GammaBit3, GammaBit4

-----------------------------------------------------------------------------
(* The buffer is put aside on the stack or in ZX0_tmp. *)
LEMMA SaveBufferFrame ==
    ASSUME stack = Frame, SaveBuffer, a \in Word, tmp \in Word, call' = call
    PROVE  /\ SavedBuffer' = Lo(a)
           /\ stack' = BufferFrame(SavedBuffer)'
           /\ tmp' \in Word
<1>1. Frame' = Frame
  BY FrameFixed
<1>2. Lo(a) \in Byte
  BY HalfType
<1>3. CASE INLINE = 0
  <2>1. stack' = Push(Frame, Item("byte", Lo(a))) /\ tmp' = tmp
    BY SMT, <1>3 DEF SaveBuffer
  <2>2. ItemValue(Top(stack')) = Lo(a)
    BY SMT, <2>1 DEF ItemValue, Top, Push, Item
  <2> QED BY SMT, <1>1, <1>3, <2>1, <2>2 DEF SavedBuffer, BufferFrame
<1>4. CASE INLINE # 0
  <2>1. stack' = Frame /\ tmp' = SetLo(tmp, Lo(a))
    BY SMT, <1>4 DEF SaveBuffer
  <2>2. tmp' \in Word /\ Lo(tmp') = Lo(a)
    BY <1>2, <2>1, BufferSet
  <2> QED BY SMT, <1>1, <1>4, <2>1, <2>2 DEF SavedBuffer, BufferFrame
<1> QED BY <1>3, <1>4

(* The block move's registers go on top of it and come off again. *)
LEMMA EnterMoveAside ==
    ASSUME NEW from, NEW operand, EnterMove(from, operand),
           stack = BufferFrame(SavedBuffer), db = call.srcBank,
           UNCHANGED <<call, tmp>>
    PROVE  /\ SavedX' = x /\ Aside' = SavedBuffer
           /\ stack' = MovingFrame(Aside, SavedX)'
           /\ x' = from /\ a' = operand
<1>1. Frame' = Frame
  BY FrameFixed
<1>2. /\ stack' = Push(Push(stack, Item("word", x)), Item("db", call.srcBank))
      /\ x' = from /\ a' = operand
  BY SMT DEF EnterMove
<1>3. SavedX' = x /\ Pop(Pop(stack')) = stack
  BY SMT, <1>2 DEF SavedX, Top, Pop, Push, Item, ItemValue
<1>4. Aside' = SavedBuffer
  BY SMT, <1>3 DEF Aside, SavedBuffer
<1>5. BufferFrame(SavedBuffer) = BufferFrame(Aside)'
  BY SMT, <1>1, <1>4 DEF BufferFrame
<1>6. stack' = Push(Push(BufferFrame(Aside), Item("word", SavedX)),
                    Item("db", call.srcBank))'
  BY SMT, <1>2, <1>3, <1>5
<1> QED BY <1>2, <1>3, <1>4, <1>6 DEF MovingFrame

LEMMA LeaveMoveAside ==
    ASSUME LeaveMove, NEW w \in Word, stack = MovingFrame(Aside, w),
           UNCHANGED <<call, tmp>>
    PROVE  /\ db' = call.srcBank /\ x' = w /\ m' = 8
           /\ SavedBuffer' = Aside
           /\ stack' = BufferFrame(SavedBuffer)'
<1>1. Frame' = Frame
  BY FrameFixed
<1>2. /\ RestoredBank = call.srcBank
      /\ ItemValue(Top(Pop(stack))) = w
      /\ Pop(Pop(stack)) = BufferFrame(Aside)
  BY SMT DEF RestoredBank, MovingFrame, Top, Pop, Push, Item, ItemValue
<1>3. db' = call.srcBank /\ x' = w /\ m' = 8 /\ stack' = Pop(Pop(stack))
  BY SMT, <1>2 DEF LeaveMove
<1>4. SavedBuffer' = Aside
  BY SMT, <1>3 DEF SavedBuffer, Aside
<1> QED BY SMT, <1>1, <1>2, <1>3, <1>4 DEF BufferFrame

(* What takes the buffer back finds the frame below it. *)
LEMMA BufferOff ==
    (IF INLINE = 0 THEN Pop(BufferFrame(SavedBuffer))
     ELSE BufferFrame(SavedBuffer)) = Frame
BY SMT, PushPop DEF BufferFrame

(* The type bit is there; the buffer has an even number of bits after it.  *)
LEMMA ChooseTypeBits ==
    ASSUME NEW b, OddBits(b), NEW high \in Word, NEW other,
           ChooseType(b, high, other)
    PROVE  /\ a' \in Word /\ c' \in Bit
           /\ EvenBits(Lo(a')) /\ pc' \in {"DecodeMatchNew", other}
<1>1. Shifted(b) \in Byte /\ BitOut(b) \in Bit /\ EvenBits(Shifted(b))
  BY ShiftOdd
<1>2. a' \in Word /\ Lo(a') = Shifted(b)
  BY <1>1, BufferSet DEF ChooseType
<1> QED BY SMT, <1>1, <1>2 DEF ChooseType

-----------------------------------------------------------------------------
(* The buffer put aside where a number has been decoded. *)
LEMMA SaveInv ==
    ASSUME IInv, pc \in AfterNumber, SaveBuffer,
           \/ pc' = "CopyMatch" /\ m' = 16
           \/ pc' = "Done" /\ m' = m,
           a' \in Word, length' \in Word,
           UNCHANGED <<fixed, output, x, y, c, db, match>>
    PROVE  IInv'
<1> USE DEF Starts, AfterNumber, Gammas, Unrolled, Moving, fixed, output
<1>1. stack = Frame /\ OddBits(Lo(a)) /\ c = 1
  BY SMT DEF IInv, StackShape, Bits
<1>2. /\ SavedBuffer' = Lo(a)
      /\ stack' = BufferFrame(SavedBuffer)'
      /\ tmp' \in Word
  BY <1>1, SaveBufferFrame DEF IInv, TypeOK, CommonTypeOK
<1>3. TypeOK'
  BY SMT, <1>2 DEF IInv, TypeOK, CommonTypeOK, Labels
<1>4. OddBits(SavedBuffer)'
  BY <1>1, <1>2
<1> QED
  BY SMT, <1>1, <1>2, <1>3, <1>4
  DEF IInv, StackShape, Width, Banks, Bits, Reported

-----------------------------------------------------------------------------
(* Every action preserves the invariant. *)
LEMMA StepInv == IInv /\ [Next]_vars => IInv'
<1> SUFFICES ASSUME IInv, [Next]_vars PROVE IInv'
  OBVIOUS
<1> USE DEF Starts, AfterNumber, Gammas, Unrolled, Moving, fixed, output, state
<1>c. /\ CallOK(call) /\ call.block \in Seq(Byte)
      /\ call.src \in Word /\ call.dst \in Word
      /\ call.srcBank \in Byte /\ call.dstBank \in Byte
  BY CallType DEF IInv, TypeOK, CommonTypeOK
<1>t. CommonTypeOK /\ length \in Word /\ tmp \in Word
  BY DEF IInv, TypeOK
<1>a. a \in Word /\ Lo(a) \in Byte /\ c \in Bit /\ x \in Word /\ y \in Word
  BY <1>t, HalfType DEF CommonTypeOK
<1>1. CASE Main
  <2>1. CommonTypeOK'
    BY <1>1, <1>t, CallRoutineType DEF Main
  <2>2. TypeOK'
    BY SMT, <1>1, <2>1 DEF Main, CallRoutine, IInv, TypeOK, Labels
  <2> QED
    BY SMT, <1>1, <2>2
    DEF Main, CallRoutine, IInv, StackShape, Width, Banks, Bits, Reported,
        Called
<1>2. CASE Setup
  <2>1. /\ db' \in Byte /\ dp' \in Word /\ a' \in Word
        /\ inBank' \in Byte /\ outBank' \in Byte /\ wmadd' \in WramAddress
    BY <1>2, <1>t, SetupFrameType, PortAtYType DEF Setup
  <2>2. TypeOK'
    BY SMT, <1>2, <2>1 DEF Setup, IInv, TypeOK, CommonTypeOK, Labels, Word
  <2>3. /\ stack = Called /\ db = 128 /\ dp = 0 /\ y = call.dst
        /\ a = MakeWord(call.srcBank, call.dstBank)
    BY SMT, <1>2 DEF Setup, IInv, StackShape, Banks
  <2>4. /\ stack' = Frame'
        /\ db' = call.srcBank /\ inBank' = call.srcBank
        /\ outBank' = call.dstBank
    BY <1>2, <1>c, <2>3, SetupBuildsFrame DEF Setup
  <2>5. EvenBits(Lo(a'))
    <3>1. 128 \in Byte
      BY SMT DEF Byte
    <3>2. a' = MakeWord(128, Lo(a))
      BY <1>2 DEF Setup, SetupFrame
    <3>3. Lo(a') = 128
      BY <1>a, <3>1, <3>2, MakeWordType
    <3> QED BY SMT, <3>3 DEF EvenBits, Byte
  <2> QED
    BY SMT, <1>2, <2>2, <2>4, <2>5
    DEF Setup, IInv, StackShape, Width, Banks, Bits, Reported
<1>3. CASE \/ DecodeGamma \/ GammaCheckBit \/ GammaAddBit
           \/ GammaBit2 \/ GammaBit3 \/ GammaBit4 \/ GammaFillBuffer
  BY <1>3, NumberInv
<1>4. CASE DecodeLiteral
  <2>1. length' \in Word
    BY SMT, <1>4 DEF DecodeLiteral, Word
  <2>2. Bits'
    BY SMT, <1>4 DEF DecodeLiteral, Gamma, IInv, Bits
  <2> QED
    BY SMT, <1>4, <1>t, <1>a, <2>1, <2>2, NumberStart
    DEF DecodeLiteral, CommonTypeOK
<1>5. CASE CopyLiteral
  <2>1. OddBits(Lo(a)) /\ stack = Frame
    BY SMT, <1>5 DEF CopyLiteral, IInv, Bits, StackShape
  <2>2. WramOK(wram') /\ wmadd' \in WramAddress /\ x' \in Word
    BY <1>5, <1>t, PortAtYType, CopyRunType DEF CopyLiteral
  <2>3. AfterLiteral \in Word
    BY SMT, <1>t, <1>a, AdcType DEF AfterLiteral, Bit
  <2>4. /\ a' \in Word /\ c' \in Bit
        /\ EvenBits(Lo(a')) /\ pc' \in {"DecodeMatchNew", "DecodeMatchReuse"}
    BY <1>5, <2>1, <2>3, ChooseTypeBits DEF CopyLiteral, BufferKept
  <2>5. Frame' = Frame
    BY <1>5, FrameFixed DEF CopyLiteral
  <2>6. TypeOK'
    BY SMT, <1>5, <1>a, <2>2, <2>3, <2>4
    DEF CopyLiteral, IInv, TypeOK, CommonTypeOK, Labels, WramOK
  <2> QED
    BY SMT, <1>5, <2>1, <2>4, <2>5, <2>6
    DEF CopyLiteral, IInv, StackShape, Width, Banks, Bits, Reported
<1>6. CASE DecodeMatchReuse
  <2>1. length' \in Word
    BY SMT, <1>6 DEF DecodeMatchReuse, Word
  <2>2. Bits'
    BY SMT, <1>6 DEF DecodeMatchReuse, Gamma, IInv, Bits
  <2> QED
    BY SMT, <1>6, <1>t, <1>a, <2>1, <2>2, NumberStart
    DEF DecodeMatchReuse, CommonTypeOK
<1>7. CASE ReuseLenRead
  <2>1. ReusedLen \in Word
    BY SMT, <1>t, WrapType DEF ReusedLen, Word
  <2> QED BY SMT, <1>7, <1>a, <2>1, SaveInv DEF ReuseLenRead
<1>8. CASE DecodeMatchNew
  <2>1. length' \in Word
    <3>1. 254 \in Byte
      BY SMT DEF Byte
    <3> QED BY <1>8, <1>t, <3>1, SetLoType DEF DecodeMatchNew
  <2>2. Bits'
    BY SMT, <1>8 DEF DecodeMatchNew, Gamma, IInv, Bits
  <2> QED
    BY SMT, <1>8, <1>t, <1>a, <2>1, <2>2, NumberStart
    DEF DecodeMatchNew, CommonTypeOK
<1>9. CASE OffsetRead
  <2>1. High \in Byte
    BY SMT, <1>t, HalfType DEF High, Byte
  <2>2. CASE EndOfData
    <3>1. SetLo(a, High) \in Word
      BY <1>a, <2>1, SetLoType
    <3> QED
      BY SMT, <1>9, <1>t, <2>2, <3>1, SaveInv DEF OffsetRead, EndOfData
  <2>3. CASE WithOffset
    <3>1. OddBits(Lo(a)) /\ c = 1
      BY SMT, <1>9 DEF OffsetRead, IInv, Bits
    <3>2. ReadByte \in Byte
      BY <1>t, LoadType
    <3>3. match' \in Word /\ c' \in Bit
      <4>1. MakeWord(ReadByte, High) \in Word
        BY <2>1, <3>2, MakeWordType
      <4> QED
        BY SMT, <2>3, <3>1, <3>2, <4>1
        DEF WithOffset, NewOffset, Word, Byte, Bit
    <3>4. a' \in Word /\ Lo(a') = Lo(a)
      BY <1>a, <2>3, <3>3, BufferSet DEF WithOffset
    <3>5. x' \in Word /\ length' \in Word
      BY SMT, <1>a, <2>3, WrapType DEF WithOffset, SplitLength, Word
    <3>6. tmp' \in Word
      BY <1>t, <1>a, <2>3, SetLoType DEF WithOffset
    <3>7. Bits'
      BY SMT, <2>3, <3>1, <3>4 DEF WithOffset, Gamma, Bits
    <3> QED
      BY SMT, <1>9, <2>3, <3>3, <3>4, <3>5, <3>6, <3>7, NumberStart
      DEF OffsetRead, WithOffset
  <2> QED BY <1>9, <2>2, <2>3 DEF OffsetRead
<1>10. CASE MatchLenRead
  BY SMT, <1>10, <1>t, <1>a, SaveInv DEF MatchLenRead
<1>11. CASE CopyMatch
  <2>1. /\ stack = BufferFrame(SavedBuffer) /\ db = call.srcBank
        /\ OddBits(SavedBuffer) /\ m = 16
    BY SMT, <1>11 DEF CopyMatch, IInv, StackShape, Banks, Bits, Width
  <2>2. /\ SavedX' = x /\ Aside' = SavedBuffer
        /\ stack' = MovingFrame(Aside, SavedX)'
        /\ x' = MatchSource /\ a' = length
    BY <1>11, <2>1, EnterMoveAside DEF CopyMatch
  <2>3. MatchSource \in Word /\ CarryOut(y, match, 0) \in Bit
    BY SMT, <1>t, AdcType DEF MatchSource, CommonTypeOK, Bit
  <2>4. pc' = "BlockMove"
    BY <1>11 DEF CopyMatch, EnterMove
  <2>5. TypeOK'
    BY SMT, <1>11, <1>t, <2>2, <2>3, <2>4
    DEF CopyMatch, IInv, TypeOK, CommonTypeOK, Labels
  <2>6. OddBits(Aside)' /\ SavedX' \in Word
    BY <1>a, <2>1, <2>2
  <2> QED
    BY SMT, <1>11, <2>1, <2>2, <2>4, <2>5, <2>6
    DEF CopyMatch, IInv, StackShape, Width, Banks, Bits, Reported
<1>12. CASE Move
  <2>1. TypeOK'
    <3>1. CommonTypeOK'
      BY <1>12, <1>t, MoveBlockType DEF Move
    <3> QED BY SMT, <1>12, <3>1 DEF Move, MoveBlock, IInv, TypeOK, Labels
  <2>2. Frame' = Frame
    BY <1>12, FrameFixed DEF Move, MoveBlock
  <2>3. SavedX' = SavedX /\ Aside' = Aside
    BY SMT, <1>12 DEF Move, MoveBlock, SavedX, Aside
  <2>4. /\ SavedX \in Word /\ stack = MovingFrame(Aside, SavedX)
        /\ OddBits(Aside) /\ m = 16
    BY SMT, <1>12 DEF Move, MoveBlock, IInv, StackShape, Bits, Width
  <2>5. stack' = MovingFrame(Aside, SavedX)'
    BY SMT, <1>12, <2>2, <2>3, <2>4
    DEF Move, MoveBlock, MovingFrame, BufferFrame
  <2>6. OddBits(Aside)'
    BY <2>3, <2>4
  <2> QED
    BY SMT, <1>12, <2>1, <2>3, <2>4, <2>5, <2>6
    DEF Move, MoveBlock, IInv, StackShape, Width, Banks, Bits, Reported
<1>13. CASE MatchCopied
  <2>1. /\ stack = MovingFrame(Aside, SavedX) /\ SavedX \in Word
        /\ OddBits(Aside)
    BY SMT, <1>13 DEF MatchCopied, IInv, StackShape, Bits
  <2>2. /\ db' = call.srcBank /\ x' = SavedX /\ m' = 8
        /\ SavedBuffer' = Aside
        /\ stack' = BufferFrame(SavedBuffer)'
    BY <1>13, <2>1, LeaveMoveAside DEF MatchCopied
  <2>3. TypeOK'
    BY SMT, <1>13, <1>c, <2>1, <2>2
    DEF MatchCopied, IInv, TypeOK, CommonTypeOK, Labels
  <2>4. OddBits(SavedBuffer)'
    BY <2>1, <2>2
  <2> QED
    BY SMT, <1>13, <2>2, <2>3, <2>4
    DEF MatchCopied, IInv, StackShape, Width, Banks, Bits, Reported
<1>14. CASE TypeBit
  <2>1. stack = BufferFrame(SavedBuffer) /\ OddBits(SavedBuffer)
    BY SMT, <1>14 DEF TypeBit, IInv, StackShape, Bits
  <2>2. /\ a' \in Word /\ c' \in Bit
        /\ EvenBits(Lo(a')) /\ pc' \in {"DecodeMatchNew", "DecodeLiteral"}
    BY <1>14, <1>a, <2>1, ChooseTypeBits DEF TypeBit
  <2>3. stack' = Frame
    <3>1. stack' = IF INLINE = 0 THEN Pop(BufferFrame(SavedBuffer))
                   ELSE BufferFrame(SavedBuffer)
      BY <1>14, <2>1 DEF TypeBit
    <3> QED BY <3>1, BufferOff
  <2>4. Frame' = Frame
    BY <1>14, FrameFixed DEF TypeBit
  <2>5. TypeOK'
    BY SMT, <1>14, <2>2 DEF TypeBit, IInv, TypeOK, CommonTypeOK, Labels
  <2> QED
    BY SMT, <1>14, <2>2, <2>3, <2>4, <2>5
    DEF TypeBit, IInv, StackShape, Width, Banks, Bits, Reported
<1>15. CASE Done
  <2>1. stack = BufferFrame(SavedBuffer) /\ c = 1 /\ m = 8
    BY SMT, <1>15 DEF Done, IInv, StackShape, Bits, Width
  <2>2. UnwoundBuffer = Frame
    <3>1. UnwoundBuffer = IF INLINE = 0 THEN Pop(BufferFrame(SavedBuffer))
                          ELSE BufferFrame(SavedBuffer)
      BY <2>1 DEF UnwoundBuffer
    <3> QED BY <3>1, BufferOff
  <2>3. Wrap(y - (1 - c)) = y
    BY SMT, <1>a, <2>1 DEF Wrap, Word
  <2>4. LeaveRoutine(Frame, y)
    BY <1>15, <2>2, <2>3 DEF Done
  <2>5. /\ stack' = EmptyStack /\ pc' = "Idle"
        /\ db' = 128 /\ dp' = 0
        /\ RETLEN => x' = Sbc(y, call.dst)
        /\ x' \in Word /\ a' \in Word /\ c' \in Bit
    BY <1>t, <1>a, <2>4, LeaveFrame
  <2>6. m' = 8
    BY SMT, <1>15, <2>1 DEF Done, WidthAtReturn
  <2>7. 128 \in Byte /\ 0 \in Word
    BY SMT DEF Byte, Word
  <2>8. TypeOK'
    BY SMT, <1>15, <2>5, <2>6, <2>7
    DEF Done, IInv, TypeOK, CommonTypeOK, Labels
  <2>9. Reported'
    BY SMT, <1>15, <2>5 DEF Done, Reported
  <2> QED
    BY SMT, <1>15, <2>5, <2>6, <2>8, <2>9
    DEF Done, IInv, StackShape, Width, Banks, Bits
<1>16. CASE UNCHANGED vars
  <2>1. Frame' = Frame
    BY <1>16, FrameFixed DEF vars, common
  <2> QED
    BY SMT, <1>16, <2>1
    DEF vars, common, IInv, TypeOK, CommonTypeOK, StackShape, Width, Banks,
        Bits, Reported, NumberFrame, BufferFrame, MovingFrame, SavedX,
        SavedBuffer, Aside
<1>17. CASE Wai
  BY <1>16, <1>17 DEF Wai, Idle, vars
<1> QED
  BY <1>1, <1>2, <1>3, <1>4, <1>5, <1>6, <1>7, <1>8, <1>9, <1>10, <1>11, <1>12,
     <1>13, <1>14, <1>15, <1>16, <1>17 DEF Next

(* The call being served stays what it is. *)
LEMMA CallKept == [Next]_vars => call' = call
BY SMT DEF Next, Main, Setup, DecodeGamma, GammaCheckBit, GammaAddBit,
           GammaBit2, GammaBit3, GammaBit4, GammaFillBuffer, DecodeLiteral,
           CopyLiteral, DecodeMatchReuse, ReuseLenRead, DecodeMatchNew,
           OffsetRead, MatchLenRead, CopyMatch, Move, MatchCopied, TypeBit,
           Done, Wai, UnrolledBit, CallRoutine, MoveBlock, Idle, common, fixed,
           vars

-----------------------------------------------------------------------------
(* The stack, the widths, the banks and the bits left in the buffer are    *)
(* what IInv says at every label of ZX0_Decompress, whatever the stream.   *)
THEOREM Invariance == Spec => []IInv
BY InitInv, StepInv, PTL DEF Spec

(* The registers and the WRAM written stay what they are declared to be,   *)
(* on every stream, and the CPU never leaves the labels of the code: no    *)
(* RTS or RTL takes the bit buffer or a register for an address.           *)
THEOREM TypeCorrect == Spec => []TypeOK
<1>1. IInv => TypeOK
  BY DEF IInv
<1> QED BY Invariance, <1>1, PTL

(* Whatever the stream says, and wherever the bit buffer is kept, when the *)
(* routine returns the caller's stack, DB and DP are what they were.       *)
THEOREM CallerRestoredAlways == Spec => []CallerRestored
<1>1. IInv => CallerRestored
  BY DEF IInv, StackShape, Banks, CallerRestored
<1> QED BY Invariance, <1>1, PTL

(* "C=1 (previous end marker shifted out)" holds wherever the code relies  *)
(* on it, on every stream: the buffer is refilled when only the marker was *)
(* left, never before and never after, unrolled or not.                    *)
THEOREM MarkerShiftedOutAlways == Spec => []MarkerShiftedOut
<1>1. IInv => MarkerShiftedOut
  BY SMT DEF IInv, Bits, MarkerShiftedOut
<1> QED BY Invariance, <1>1, PTL

(* The type of what follows a match is taken from the buffer without       *)
(* looking whether it is used up; it never is, on any stream.              *)
THEOREM TypeBitThereAlways == Spec => []TypeBitThere
<1>1. IInv => TypeBitThere
  BY SMT DEF IInv, Bits, OddBits, TypeBitThere, Byte
<1> QED BY Invariance, <1>1, PTL

(* The SBC that forms the length finds C = 1 on every stream that ends.    *)
THEOREM CarrySetAtDoneAlways == Spec => []CarrySetAtDone
<1>1. IInv => CarrySetAtDone
  BY SMT DEF IInv, Bits, CarrySetAtDone
<1> QED BY Invariance, <1>1, PTL

(* Every return is in 8 bit mode, with or without the length's code.       *)
THEOREM ReturnsIn8BitAlways == Spec => []ReturnsIn8Bit
<1>1. IInv => ReturnsIn8Bit
  BY SMT DEF IInv, Width, Moving, ReturnsIn8Bit
<1> QED BY Invariance, <1>1, PTL

LengthReported == pc = "Idle" /\ RETLEN => x = Produced

(* The length returned, which is formed with the C the number decoding     *)
(* left, is the distance from the destination to the end of the output.    *)
THEOREM LengthReportedAlways == Spec => []LengthReported
<1>1. IInv => LengthReported
  BY SMT DEF IInv, Reported, LengthReported, Produced, Sbc
<1> QED BY Invariance, <1>1, PTL

-----------------------------------------------------------------------------
(* From here on the block is one that a script was encoded as.             *)
Format == INSTANCE Zx0Format

WellFormed(r) == /\ Spelled(r)
                 /\ Format!Encodes(r)
                 /\ r.steps = Format!CopySteps(r)

Last == Len(Script)

(* Byte b with u bits taken out of it, and the end marker. *)
BitsTaken == <<1, 2, 4, 8, 16, 32, 64, 128>>

Buffered(b, u) == ((2 * b + 1) * BitsTaken[u]) % 256

Buffer(cursor) == IF cursor.used = 8 THEN 128
                  ELSE Buffered(call.block[cursor.byte], cursor.used)

BitsAt(cursor) == Lo(a) = Buffer(cursor) /\ x = Position(cursor.at)

IsCursor(cursor)   == cursor \in Format!Cursors(Len(call.block))
Says(cursor, bit)  == Format!SaysBit(call.block, cursor, bit)
Past(cursor)       == Format!PastBit(cursor)
Control(number, k) == Format!ControlBit(number, k)
Turns(number)      == Format!Turns(number)
EndOf(number)      == Format!EndOf(number)
IsNumber(number, n, one) == Format!SaysNumber(call.block, number, n, one)

(* The length while v has been read of a number, as it is or inverted.     *)
LengthSays(v, one) ==
    IF one = 1 THEN length = v ELSE Lo(length) = (255 - v) % 256

Ahead(cursor, number, k) == /\ IsCursor(cursor)
                            /\ Says(cursor, Control(number, k))
                            /\ Past(cursor) = number.past[k]

(* Where the routine is in turn k of a number. *)
InTurn(number, k) ==
    \/ /\ pc \in {"DecodeGamma"} \cup Unrolled
       /\ \E cursor : Ahead(cursor, number, k) /\ BitsAt(cursor)
    \/ /\ pc = "GammaFillBuffer"
       /\ \E cursor : /\ Ahead(cursor, number, k)
                      /\ cursor.used = 8 /\ x = Position(cursor.at)
    \/ pc = "GammaCheckBit" /\ c = Control(number, k) /\ BitsAt(number.past[k])
    \/ pc = "GammaAddBit" /\ k # Turns(number) /\ BitsAt(number.past[k])

Reading(number, one, next) ==
    /\ stack = NumberFrame(next)
    /\ \E k \in 1 .. Turns(number) :
          LengthSays(number.value[k], one) /\ InTurn(number, k)

HasRead(number, n, one, next) ==
    pc = next /\ BitsAt(EndOf(number)) /\ LengthSays(n, one)

-----------------------------------------------------------------------------
(* The numbers of command i, and what they say. *)
LitNumber(i)  == call.numbers[i].lit
HighNumber(i) == call.numbers[i].high
LenNumber(i)  == call.numbers[i].len
HighSaid(i)   == IF i = Last THEN Format!EOD ELSE Format!HighPart(Script[i].off)
LitSaid(i)    == Script[i].lit
LenSaid(i)    == IF Format!Repeats(Script, i) THEN Script[i].len
                 ELSE Script[i].len - 1
Reuses(i)     == i # Last /\ Format!Repeats(Script, i)

Negated(off)  == 65536 - off
LastOffset(i) == match = Negated(Format!Rep(Script, i))
ThisOffset(i) == match = Negated(Script[i].off)

LitBits(i)  == Format!LiteralStart(call, i)   \* where the literals' bits are
TypeAt(i)   == Format!PastLiterals(call, i)   \* where the match's type is
CodeAt(i)   == Past(TypeAt(i))                \* where its first number is

(* Where the routine is in command i, label by label.                      *)
BeforeText(i) == LastOffset(i) /\ MadeTo(call.out[i])

AtType(i) == /\ pc = "TypeBit" /\ i # 1
             /\ SavedBuffer = Buffer(call.start[i])
             /\ x = Position(call.start[i].at)
             /\ BeforeText(i)

AtLitCode(i) == /\ pc = "DecodeLiteral" /\ LitSaid(i) # 0
                /\ BitsAt(LitBits(i))
                /\ BeforeText(i)

ReadingLit(i) == /\ LitSaid(i) # 0
                 /\ Reading(LitNumber(i), 1, "CopyLiteral")
                 /\ BeforeText(i)

AtLiteral(i) == /\ LitSaid(i) # 0
                /\ HasRead(LitNumber(i), LitSaid(i), 1, "CopyLiteral")
                /\ BeforeText(i)

Reusing(i) == Reuses(i) /\ ThisOffset(i) /\ MadeTo(From(i))

AtReuse(i) == /\ pc = "DecodeMatchReuse"
              /\ BitsAt(CodeAt(i))
              /\ Reusing(i)

ReadingReuse(i) == Reading(LenNumber(i), 1, "ReuseLenRead") /\ Reusing(i)

AtReuseLen(i) == /\ HasRead(LenNumber(i), LenSaid(i), 1, "ReuseLenRead")
                 /\ Reusing(i)

ReadingNew(i) == ~Reuses(i) /\ MadeTo(From(i))

AtNew(i) == /\ pc = "DecodeMatchNew"
            /\ BitsAt(CodeAt(i))
            /\ ReadingNew(i)

ReadingHigh(i) == Reading(HighNumber(i), 0, "OffsetRead") /\ ReadingNew(i)

AtOffset(i) == /\ HasRead(HighNumber(i), HighSaid(i), 0, "OffsetRead")
               /\ ReadingNew(i)

WithNew(i) == i # Last /\ ~Reuses(i) /\ ThisOffset(i) /\ MadeTo(From(i))

ReadingLen(i) == Reading(LenNumber(i), 1, "MatchLenRead") /\ WithNew(i)

AtLen(i) == /\ HasRead(LenNumber(i), LenSaid(i), 1, "MatchLenRead")
            /\ WithNew(i)

Matching(i) == i # Last /\ ThisOffset(i) /\ MadeTo(From(i))

AtMatch(i) == /\ pc = "CopyMatch"
              /\ SavedBuffer = Buffer(call.start[i + 1])
              /\ x = Position(call.start[i + 1].at)
              /\ length + 1 = Script[i].len
              /\ Matching(i)

BeyondMatch(i) == /\ Aside = Buffer(call.start[i + 1])
                  /\ SavedX = Position(call.start[i + 1].at)
                  /\ i # Last /\ ThisOffset(i)

AtMove(i) == /\ pc = "BlockMove" /\ BeyondMatch(i)
             /\ x = call.dst + From(i) - Script[i].off
             /\ a + 1 = Script[i].len
             /\ MadeTo(From(i))

Moved(i) == /\ pc = "MatchCopied" /\ BeyondMatch(i)
            /\ MadeTo(call.out[i + 1])

InCommand(i) ==
    \/ AtType(i) \/ AtLitCode(i) \/ ReadingLit(i) \/ AtLiteral(i)
    \/ AtReuse(i) \/ ReadingReuse(i) \/ AtReuseLen(i)
    \/ AtNew(i) \/ ReadingHigh(i) \/ AtOffset(i) \/ ReadingLen(i) \/ AtLen(i)
    \/ AtMatch(i) \/ AtMove(i) \/ Moved(i)

Decoding ==
    /\ WellFormed(call)
    /\ \/ pc = "Main" /\ NothingWritten
       \/ pc = "Setup" /\ NothingWritten /\ x = call.src
       \/ \E i \in 1 .. Last : InCommand(i)
       \/ pc \in {"Done", "Idle"} /\ MadeTo(Size)

-----------------------------------------------------------------------------
(* A buffer that is not used up gives the byte's next bit, and has one less*)
(* after it; it is never empty.                                            *)
LEMMA NextBit ==
    ASSUME NEW b \in Byte, NEW u \in 1 .. 7
    PROVE  /\ Buffered(b, u) \in Byte
           /\ Shifted(Buffered(b, u)) = Buffered(b, u + 1)
           /\ Shifted(Buffered(b, u)) # 0 /\ Buffered(b, u) # 128
           /\ BitOut(Buffered(b, u)) = (b \div Format!BitValue[u + 1]) % 2
<1> USE DEF Buffered, BitsTaken, Shifted, BitOut, Format!BitValue, Byte
<1>1. CASE u = 1
  BY SMT, <1>1
<1>2. CASE u = 2
  BY SMT, <1>2
<1>3. CASE u = 3
  BY SMT, <1>3
<1>4. CASE u = 4
  BY SMT, <1>4
<1>5. CASE u = 5
  BY SMT, <1>5
<1>6. CASE u = 6
  BY SMT, <1>6
<1>7. CASE u = 7
  BY SMT, <1>7
<1>8. u \in {1, 2, 3, 4, 5, 6, 7}
  BY SMT
<1> HIDE DEF Buffered, BitsTaken, Shifted, BitOut, Format!BitValue, Byte
<1> QED BY <1>1, <1>2, <1>3, <1>4, <1>5, <1>6, <1>7, <1>8

LEMMA FirstBit ==
    ASSUME NEW b \in Byte, c = 1
    PROVE  /\ Filled(b) = Buffered(b, 1)
           /\ BitOut(b) = (b \div Format!BitValue[1]) % 2
           /\ Buffered(b, 1) \in Byte /\ Buffered(b, 8) = 128
BY SMT DEF Filled, Buffered, BitsTaken, Shifted, BitOut, Format!BitValue, Byte

(* A cursor, the bit after it, and what the buffer is before and after.    *)
LEMMA CursorType ==
    ASSUME CallOK(call), NEW cursor, IsCursor(cursor)
    PROVE  /\ cursor.at \in 0 .. Len(call.block) /\ cursor.at \in Nat
           /\ cursor.byte \in Nat /\ cursor.byte <= Len(call.block)
           /\ cursor.used \in 1 .. 8 /\ Len(call.block) \in Nat
<1>1. Len(call.block) \in Nat
  BY SMT, CallType DEF CallOK
<1>2. /\ cursor.at \in 0 .. Len(call.block)
      /\ cursor.byte \in 0 .. Len(call.block)
      /\ cursor.used \in 1 .. 8
  BY SMT DEF IsCursor, Format!Cursors
<1> QED BY SMT, <1>1, <1>2

LEMMA PastBitIs ==
    ASSUME NEW cursor
    PROVE  /\ cursor.used # 8 => /\ Past(cursor).at = cursor.at
                                 /\ Past(cursor).byte = cursor.byte
                                 /\ Past(cursor).used = cursor.used + 1
           /\ cursor.used = 8 => /\ Past(cursor).at = cursor.at + 1
                                 /\ Past(cursor).byte = cursor.at + 1
                                 /\ Past(cursor).used = 1
BY SMT DEF Past, Format!PastBit, Format!Cursor

(* A bit out of a buffer that has one. *)
LEMMA TakeBit ==
    ASSUME CallOK(call), NEW cursor, IsCursor(cursor), cursor.used # 8,
           NEW bit, Says(cursor, bit)
    PROVE  /\ BitOut(Buffer(cursor)) = bit
           /\ Buffer(cursor) \in Byte /\ Buffer(cursor) # 128
           /\ Shifted(Buffer(cursor)) = Buffer(Past(cursor))
           /\ Shifted(Buffer(cursor)) # 0
           /\ Past(cursor).at = cursor.at
<1> DEFINE u == cursor.used
           b == call.block[cursor.byte]
<1>1. u \in 1 .. 7 /\ u + 1 \in 2 .. 8
  BY SMT, CursorType
<1>2. /\ Past(cursor).at = cursor.at
      /\ Past(cursor).byte = cursor.byte
      /\ Past(cursor).used = u + 1
  BY PastBitIs
<1>3. /\ cursor.byte \in 1 .. Len(call.block)
      /\ (b \div Format!BitValue[u + 1]) % 2 = bit
  BY <1>2 DEF Says, Format!SaysBit, Past
<1>4. b \in Byte
  BY <1>3, SMT DEF CallOK
<1>5. Buffer(cursor) = Buffered(b, u)
  BY DEF Buffer
<1>6. Buffer(Past(cursor)) = Buffered(b, u + 1)
  <2>1. u + 1 = 8 => Buffered(b, u + 1) = 128
    BY <1>4, SMT DEF Buffered, BitsTaken, Byte
  <2> QED BY <1>2, <2>1 DEF Buffer
<1> HIDE DEF u, b
<1> QED BY <1>1, <1>2, <1>3, <1>4, <1>5, <1>6, NextBit

(* Nothing but the end marker is in a buffer that is used up. *)
LEMMA UsedUp ==
    ASSUME NEW cursor, cursor.used = 8
    PROVE  /\ Buffer(cursor) = 128 /\ Shifted(128) = 0 /\ BitOut(128) = 1
           /\ ~OddBits(128)
BY SMT DEF Buffer, Shifted, BitOut, OddBits

(* The first bit of a new byte. *)
LEMMA TakeFirstBit ==
    ASSUME CallOK(call), Spelled(call), db = call.srcBank, c = 1,
           NEW cursor, IsCursor(cursor), cursor.used = 8,
           NEW bit, Says(cursor, bit), x = Position(cursor.at)
    PROVE  /\ Filled(ReadByte) = Buffer(Past(cursor))
           /\ BitOut(ReadByte) = bit /\ Filled(ReadByte) \in Byte
           /\ Wrap(x + 1) = Position(Past(cursor).at)
<1> DEFINE p == cursor.at
           b == call.block[p + 1]
<1>1. /\ Past(cursor).at = p + 1 /\ Past(cursor).byte = p + 1
      /\ Past(cursor).used = 1
  BY PastBitIs
<1>2. /\ p + 1 \in 1 .. Len(call.block)
      /\ (b \div Format!BitValue[1]) % 2 = bit
  BY <1>1 DEF Says, Format!SaysBit, Past
<1>3. p \in Nat /\ p < Len(call.block) /\ p \in 0 .. Len(call.block)
  BY SMT, <1>2, CursorType
<1>4. b \in Byte
  BY <1>2, SMT DEF CallOK
<1>5. ReadByte = b
  BY <1>3, LoadByte
<1>6. Wrap(x + 1) = Position(p + 1)
  BY <1>3, PositionType
<1>7. Buffer(Past(cursor)) = Buffered(b, 1)
  BY <1>1 DEF Buffer
<1> HIDE DEF p, b
<1> QED BY <1>1, <1>2, <1>4, <1>5, <1>6, <1>7, FirstBit

(* A cursor within the block is one after the next bit too. *)
LEMMA PastBitType ==
    ASSUME CallOK(call), NEW cursor, IsCursor(cursor), NEW bit,
           Says(cursor, bit)
    PROVE  IsCursor(Past(cursor))
<1>1. Past(cursor).byte \in 1 .. Len(call.block)
  BY DEF Says, Format!SaysBit, Past
<1>2. /\ Past(cursor).at \in 0 .. Len(call.block)
      /\ Past(cursor).byte \in 0 .. Len(call.block)
      /\ Past(cursor).used \in 1 .. 8
  BY SMT, <1>1, CursorType, PastBitIs
<1>3. Past(cursor) = [at |-> Past(cursor).at, byte |-> Past(cursor).byte,
                      used |-> Past(cursor).used]
  BY SMT DEF Past, Format!PastBit, Format!Cursor
<1> DEFINE p == Past(cursor)
<1>4. p = [at |-> p.at, byte |-> p.byte, used |-> p.used]
  BY <1>3
<1> HIDE DEF p
<1>5. p \in Format!Cursors(Len(call.block))
  BY SMT, <1>2, <1>4 DEF p, Format!Cursors
<1> QED BY <1>5 DEF IsCursor, p

-----------------------------------------------------------------------------
(* A number's values and cursors, and what its turns say. *)
LEMMA NumberType ==
    ASSUME NEW number, NEW n, NEW one, IsNumber(number, n, one)
    PROVE  /\ Turns(number) \in Nat /\ Turns(number) \in 1 .. Turns(number)
           /\ 1 \in 1 .. Turns(number)
           /\ number.value[1] = 1 /\ number.value[Turns(number)] = n
           /\ EndOf(number) = number.past[Turns(number)]
           /\ IsCursor(EndOf(number))
           /\ \A k \in 1 .. Turns(number) : /\ number.value[k] \in Format!NumberValues
                                            /\ IsCursor(number.past[k])
<1>1. /\ number.value \in Seq(Format!NumberValues) /\ number.value # <<>>
      /\ number.past \in [1 .. Turns(number) -> Format!Cursors(Len(call.block))]
      /\ number.value[1] = 1 /\ number.value[Turns(number)] = n
  BY DEF IsNumber, Format!SaysNumber, Turns
<1>2. Turns(number) = Len(number.value)
  BY DEF Turns, Format!Turns
<1>3. EndOf(number) = number.past[Turns(number)]
  BY DEF EndOf, Format!EndOf, Turns
<1>4. Turns(number) \in Nat /\ Turns(number) >= 1
  BY SMT, <1>1, <1>2
<1>5. \A k \in 1 .. Turns(number) : number.value[k] \in Format!NumberValues
  BY SMT, <1>1, <1>2
<1>6. \A k \in 1 .. Turns(number) : IsCursor(number.past[k])
  BY <1>1 DEF IsCursor
<1>7. Turns(number) \in 1 .. Turns(number) /\ 1 \in 1 .. Turns(number)
  BY SMT, <1>4
<1> QED BY <1>1, <1>3, <1>4, <1>5, <1>6, <1>7

Streamed(bit, one) == IF one = 1 THEN bit ELSE 1 - bit

LEMMA TurnSays ==
    ASSUME CallOK(call), NEW number, NEW n, NEW one, IsNumber(number, n, one),
           NEW k \in 1 .. Turns(number), k # Turns(number)
    PROVE  /\ Control(number, k) = 0 /\ k + 1 \in 1 .. Turns(number)
           /\ IsCursor(number.past[k])
           /\ \E bit \in {0, 1} :
                 /\ number.value[k + 1] = 2 * number.value[k] + bit
                 /\ Says(number.past[k], Streamed(bit, one))
           /\ Ahead(Past(number.past[k]), number, k + 1)
<1>1. Control(number, k) = 0
  BY DEF Control, Format!ControlBit, Turns
<1>2. k \in 1 .. Turns(number) - 1 /\ k + 1 \in 1 .. Turns(number)
  BY SMT, NumberType
<1>3. Format!SaysTurn(call.block, number, one, k)
  BY <1>2 DEF IsNumber, Format!SaysNumber, Turns
<1> DEFINE data == number.past[k]
           bit  == number.value[k + 1] - 2 * number.value[k]
<1>4. /\ bit \in {0, 1} /\ Says(data, Streamed(bit, one))
      /\ Says(Past(data), Control(number, k + 1))
      /\ number.past[k + 1] = Past(Past(data))
  BY <1>3 DEF Format!SaysTurn, Says, Past, Control, Streamed
<1>5. number.value[k + 1] = 2 * number.value[k] + bit
  <2>1. /\ number.value[k + 1] \in Format!NumberValues
        /\ number.value[k] \in Format!NumberValues
    BY <1>2, NumberType
  <2>2. number.value[k + 1] \in Nat /\ number.value[k] \in Nat
    BY SMT, <2>1 DEF Format!NumberValues
  <2> QED BY SMT, <2>2
<1>6. IsCursor(data) /\ IsCursor(Past(data))
  BY <1>4, NumberType, PastBitType
<1> HIDE DEF data, bit
<1> QED BY <1>1, <1>2, <1>4, <1>5, <1>6 DEF Ahead, data

LEMMA LastTurn ==
    ASSUME NEW number PROVE Control(number, Turns(number)) = 1
BY DEF Control, Format!ControlBit, Turns

(* The length with another bit. *)
LEMMA LengthGrows ==
    ASSUME length \in Word, NEW v \in Format!NumberValues, NEW bit \in {0, 1},
           2 * v + bit \in Format!NumberValues, NEW one, LengthSays(v, one),
           length' = WithBit(length, Streamed(bit, one))
    PROVE  LengthSays(2 * v + bit, one)'
<1>1. CASE one = 1
  <2>1. length' = 2 * v + bit
    BY SMT, <1>1 DEF Format!NumberValues, LengthSays, WithBit, Streamed, Wrap
  <2> QED BY <1>1, <2>1 DEF LengthSays
<1>2. CASE one # 1
  <2>1. Lo(length) = (255 - v) % 256 /\ length' = WithBit(length, 1 - bit)
    BY <1>2 DEF LengthSays, Streamed
  <2>2. Lo(length') = (255 - (2 * v + bit)) % 256
    BY SMT, <2>1 DEF Format!NumberValues, WithBit, Wrap, Lo, Word
  <2> QED BY <1>2, <2>2 DEF LengthSays
<1> QED BY <1>1, <1>2

-----------------------------------------------------------------------------
(* What a step that leaves the call alone leaves alone. *)
LEMMA CursorKept ==
    ASSUME call' = call
    PROVE  /\ \A cursor : Buffer(cursor)' = Buffer(cursor)
           /\ \A cursor : Position(cursor.at)' = Position(cursor.at)
           /\ \A cursor, number, k :
                 Ahead(cursor, number, k)' <=> Ahead(cursor, number, k)
           /\ \A next : NumberFrame(next)' = NumberFrame(next)
           /\ \A number : Turns(number)' = Turns(number)
           /\ \A number : EndOf(number)' = EndOf(number)
           /\ \A number, k : Control(number, k)' = Control(number, k)
           /\ \A number, n, one :
                 IsNumber(number, n, one)' <=> IsNumber(number, n, one)
<1>1. Frame' = Frame
  BY FrameFixed
<1>2. \A cursor : Buffer(cursor)' = Buffer(cursor)
  BY DEF Buffer
<1>3. \A cursor : Position(cursor.at)' = Position(cursor.at)
  BY DEF Position
<1>4. \A number : Turns(number)' = Turns(number)
  BY DEF Turns
<1>5. \A number, k : Control(number, k)' = Control(number, k)
  BY DEF Control
<1>6. \A number : EndOf(number)' = EndOf(number)
  BY DEF EndOf
<1>7. \A cursor : Past(cursor)' = Past(cursor)
  BY DEF Past
<1>8. \A cursor, number, k :
         Ahead(cursor, number, k)' <=> Ahead(cursor, number, k)
  BY <1>5, <1>7 DEF Ahead, IsCursor, Says
<1>9. \A next : NumberFrame(next)' = NumberFrame(next)
  BY <1>1 DEF NumberFrame
<1>10. \A number, n, one :
         IsNumber(number, n, one)' <=> IsNumber(number, n, one)
  BY DEF IsNumber
<1> QED BY <1>1, <1>2, <1>3, <1>4, <1>5, <1>6, <1>8, <1>9, <1>10

(* Where a step of the decoding of a number can lead. *)
LEMMA StaysReading ==
    ASSUME call' = call, stack' = stack, NEW next, stack = NumberFrame(next),
           NEW number, NEW one, NEW k \in 1 .. Turns(number),
           LengthSays(number.value[k], one)',
           \/ /\ pc' \in {"DecodeGamma"} \cup Unrolled
              /\ \E cursor : /\ Ahead(cursor, number, k)
                             /\ Lo(a') = Buffer(cursor)
                             /\ x' = Position(cursor.at)
           \/ /\ pc' = "GammaFillBuffer"
              /\ \E cursor : /\ Ahead(cursor, number, k) /\ cursor.used = 8
                             /\ x' = Position(cursor.at)
           \/ /\ \/ pc' = "GammaCheckBit" /\ c' = Control(number, k)
                 \/ pc' = "GammaAddBit" /\ k # Turns(number)
              /\ Lo(a') = Buffer(number.past[k])
              /\ x' = Position(number.past[k].at)
    PROVE  Reading(number, one, next)'
<1>1. /\ \A cursor : Buffer(cursor)' = Buffer(cursor)
      /\ \A cursor : Position(cursor.at)' = Position(cursor.at)
      /\ \A cursor : Ahead(cursor, number, k)' <=> Ahead(cursor, number, k)
      /\ NumberFrame(next)' = NumberFrame(next)
      /\ Turns(number)' = Turns(number)
      /\ Control(number, k)' = Control(number, k)
  BY CursorKept
<1>2. \A cursor : Lo(a') = Buffer(cursor) /\ x' = Position(cursor.at)
                    => BitsAt(cursor)'
  BY <1>1 DEF BitsAt
<1>3. InTurn(number, k)'
  BY <1>1, <1>2 DEF InTurn, Unrolled
<1> QED BY <1>1, <1>3 DEF Reading

LEMMA ReadsOff ==
    ASSUME call' = call, NEW next, stack = NumberFrame(next), GammaDone,
           NEW number, NEW n, NEW one, LengthSays(n, one)',
           Lo(a') = Buffer(EndOf(number)), x' = Position(EndOf(number).at)
    PROVE  HasRead(number, n, one, next)'
<1>1. pc' = next
  BY SMT DEF GammaDone, NumberFrame, ReturnTo, Top, Pop, Push, Item
<1>2. BitsAt(EndOf(number))'
  <2>1. /\ \A cursor : Buffer(cursor)' = Buffer(cursor)
        /\ \A cursor : Position(cursor.at)' = Position(cursor.at)
        /\ EndOf(number)' = EndOf(number)
    BY CursorKept
  <2> QED BY <2>1 DEF BitsAt
<1> QED BY <1>1, <1>2 DEF HasRead

-----------------------------------------------------------------------------
(* What is known of the routine while it reads a number. *)
LEMMA GammaFacts ==
    ASSUME IInv, pc \in Gammas
    PROVE  /\ a \in Word /\ length \in Word /\ c \in Bit
           /\ db = call.srcBank
           /\ pc = "GammaFillBuffer" => c = 1
           /\ pc = "GammaAddBit" => OddBits(Lo(a))
           /\ pc \in Unrolled => EvenBits(Lo(a))
BY DEF IInv, TypeOK, CommonTypeOK, Banks, Bits, Gammas, Unrolled, Starts

(* The bits of a number are followed turn by turn. *)
LEMMA DecodeGammaReads ==
    ASSUME IInv, CallOK(call), NEW number, NEW one, NEW next,
           NEW k \in 1 .. Turns(number), stack = NumberFrame(next),
           LengthSays(number.value[k], one), InTurn(number, k), DecodeGamma
    PROVE  Reading(number, one, next)'
<1>1. /\ pc = "DecodeGamma" /\ a' = SetLo(a, Shifted(Lo(a)))
      /\ c' = BitOut(Lo(a))
      /\ pc' = IF Shifted(Lo(a)) = 0 THEN "GammaFillBuffer" ELSE "GammaCheckBit"
      /\ call' = call /\ stack' = stack /\ length' = length /\ x' = x
  BY DEF DecodeGamma, fixed, state
<1>2. PICK cursor : Ahead(cursor, number, k) /\ BitsAt(cursor)
  BY <1>1 DEF InTurn, Unrolled
<1>3. /\ IsCursor(cursor) /\ Says(cursor, Control(number, k))
      /\ Past(cursor) = number.past[k] /\ Lo(a) = Buffer(cursor)
      /\ x = Position(cursor.at)
  BY <1>2 DEF Ahead, BitsAt
<1>4. LengthSays(number.value[k], one)'
  BY <1>1 DEF LengthSays
<1>5. CASE cursor.used = 8
  <2>1. pc' = "GammaFillBuffer" /\ x' = Position(cursor.at)
    BY <1>1, <1>3, <1>5, UsedUp
  <2> QED BY <1>1, <1>2, <1>4, <1>5, <2>1, StaysReading
<1>6. CASE cursor.used # 8
  <2>1. /\ BitOut(Buffer(cursor)) = Control(number, k)
        /\ Shifted(Buffer(cursor)) = Buffer(number.past[k])
        /\ Shifted(Buffer(cursor)) # 0
        /\ Shifted(Buffer(cursor)) \in Byte
        /\ number.past[k].at = cursor.at
    <3>1. Shifted(Buffer(cursor)) \in Byte
      BY SMT, <1>3, <1>6, TakeBit DEF Shifted, Byte
    <3> QED BY <1>3, <1>6, <3>1, TakeBit
  <2>2. a \in Word
    BY <1>1, GammaFacts DEF Gammas
  <2>3. Lo(a') = Buffer(number.past[k])
    BY <1>1, <1>3, <2>1, <2>2, BufferSet
  <2>4. /\ pc' = "GammaCheckBit" /\ c' = Control(number, k)
        /\ x' = Position(number.past[k].at)
    BY <1>1, <1>3, <2>1
  <2> QED BY <1>1, <1>4, <2>3, <2>4, StaysReading
<1> QED BY <1>5, <1>6

LEMMA CheckBitReads ==
    ASSUME IInv, CallOK(call), NEW number, NEW n, NEW one, NEW next,
           IsNumber(number, n, one),
           NEW k \in 1 .. Turns(number), stack = NumberFrame(next),
           LengthSays(number.value[k], one), InTurn(number, k), GammaCheckBit
    PROVE  Reading(number, one, next)' \/ HasRead(number, n, one, next)'
<1>1. /\ pc = "GammaCheckBit" /\ UNCHANGED <<call, x, a, length>>
  BY DEF GammaCheckBit, fixed, state
<1>2. c = Control(number, k) /\ BitsAt(number.past[k])
  BY <1>1 DEF InTurn, Unrolled
<1>3. LengthSays(number.value[k], one)'
  BY <1>1 DEF LengthSays
<1>4. Lo(a') = Buffer(number.past[k]) /\ x' = Position(number.past[k].at)
  BY <1>1, <1>2 DEF BitsAt
<1>5. CASE k = Turns(number)
  <2>1. IsLast(c)
    BY <1>2, <1>5, LastTurn DEF IsLast
  <2>2. GammaDone
    BY <2>1 DEF GammaCheckBit
  <2>3. EndOf(number) = number.past[k] /\ number.value[k] = n
    BY <1>5, NumberType
  <2> QED BY <1>1, <1>3, <1>4, <2>2, <2>3, ReadsOff
<1>6. CASE k # Turns(number)
  <2>1. ~IsLast(c)
    BY <1>2, <1>6, TurnSays DEF IsLast
  <2>2. pc' = "GammaAddBit" /\ stack' = stack
    BY <2>1 DEF GammaCheckBit
  <2> QED BY <1>1, <1>3, <1>4, <1>6, <2>2, StaysReading
<1> QED BY <1>5, <1>6

LEMMA AddBitReads ==
    ASSUME IInv, CallOK(call), NEW number, NEW n, NEW one, NEW next,
           IsNumber(number, n, one),
           NEW k \in 1 .. Turns(number), stack = NumberFrame(next),
           LengthSays(number.value[k], one), InTurn(number, k), GammaAddBit
    PROVE  Reading(number, one, next)'
<1>1. /\ pc = "GammaAddBit" /\ UNCHANGED <<call, x, stack>>
      /\ a' = SetLo(a, Shifted(Lo(a)))
      /\ length' = WithBit(length, BitOut(Lo(a)))
      /\ pc' \in {"DecodeGamma"} \cup Unrolled
  BY DEF GammaAddBit, fixed, Unrolled
<1>2. k # Turns(number) /\ BitsAt(number.past[k])
  BY <1>1 DEF InTurn, Unrolled
<1>3. a \in Word /\ length \in Word /\ OddBits(Lo(a))
  BY <1>1, GammaFacts DEF Gammas
<1> DEFINE data == number.past[k]
<1>4. Lo(a) = Buffer(data) /\ x = Position(data.at)
  BY <1>2 DEF BitsAt
<1>5. data.used # 8
  BY <1>3, <1>4, UsedUp
<1>6. /\ k + 1 \in 1 .. Turns(number) /\ IsCursor(data)
      /\ Ahead(Past(data), number, k + 1)
  BY <1>2, TurnSays
<1>7. PICK bit \in {0, 1} :
         /\ number.value[k + 1] = 2 * number.value[k] + bit
         /\ Says(data, Streamed(bit, one))
  BY <1>2, TurnSays
<1>8. /\ BitOut(Buffer(data)) = Streamed(bit, one)
      /\ Shifted(Buffer(data)) = Buffer(Past(data))
      /\ Shifted(Buffer(data)) \in Byte
      /\ Past(data).at = data.at
  <2> HIDE DEF data
  <2>1. Shifted(Buffer(data)) \in Byte
    BY SMT, <1>5, <1>6, <1>7, TakeBit DEF Shifted, Byte
  <2> QED BY <1>5, <1>6, <1>7, <2>1, TakeBit
<1>9. /\ number.value[k] \in Format!NumberValues
      /\ number.value[k + 1] \in Format!NumberValues
  BY <1>6, NumberType
<1>10. LengthSays(number.value[k + 1], one)'
  BY <1>1, <1>3, <1>4, <1>7, <1>8, <1>9, LengthGrows
<1>11. Lo(a') = Buffer(Past(data)) /\ x' = Position(Past(data).at)
  BY <1>1, <1>3, <1>4, <1>8, BufferSet
<1> HIDE DEF data
<1> QED BY <1>1, <1>6, <1>10, <1>11, StaysReading

LEMMA FillBufferReads ==
    ASSUME IInv, CallOK(call), Spelled(call),
           NEW number, NEW n, NEW one, NEW next,
           IsNumber(number, n, one),
           NEW k \in 1 .. Turns(number), stack = NumberFrame(next),
           LengthSays(number.value[k], one), InTurn(number, k), GammaFillBuffer
    PROVE  Reading(number, one, next)' \/ HasRead(number, n, one, next)'
<1>1. /\ pc = "GammaFillBuffer" /\ UNCHANGED <<call, length>>
      /\ a' = SetLo(a, Filled(ReadByte)) /\ x' = Wrap(x + 1)
  BY DEF GammaFillBuffer, fixed, state
<1>2. PICK cursor : /\ Ahead(cursor, number, k)
                    /\ cursor.used = 8 /\ x = Position(cursor.at)
  BY <1>1 DEF InTurn, Unrolled
<1>3. a \in Word /\ c = 1 /\ db = call.srcBank
  BY <1>1, GammaFacts DEF Gammas
<1>4. /\ IsCursor(cursor) /\ Says(cursor, Control(number, k))
      /\ Past(cursor) = number.past[k]
  BY <1>2 DEF Ahead
<1>5. /\ Filled(ReadByte) = Buffer(number.past[k])
      /\ BitOut(ReadByte) = Control(number, k) /\ Filled(ReadByte) \in Byte
      /\ Wrap(x + 1) = Position(number.past[k].at)
  BY <1>2, <1>3, <1>4, TakeFirstBit
<1>6. Lo(a') = Buffer(number.past[k]) /\ x' = Position(number.past[k].at)
  BY <1>1, <1>3, <1>5, BufferSet
<1>7. LengthSays(number.value[k], one)'
  BY <1>1 DEF LengthSays
<1>8. CASE k = Turns(number)
  <2>1. IsLast(BitOut(ReadByte))
    BY <1>5, <1>8, LastTurn DEF IsLast
  <2>2. GammaDone
    BY <2>1 DEF GammaFillBuffer
  <2>3. EndOf(number) = number.past[k] /\ number.value[k] = n
    BY <1>8, NumberType
  <2> QED BY <1>1, <1>6, <1>7, <2>2, <2>3, ReadsOff
<1>9. CASE k # Turns(number)
  <2>1. ~IsLast(BitOut(ReadByte))
    BY <1>5, <1>9, TurnSays DEF IsLast
  <2>2. pc' = "GammaAddBit" /\ stack' = stack
    BY <2>1 DEF GammaFillBuffer
  <2> QED BY <1>1, <1>6, <1>7, <1>9, <2>2, StaysReading
<1> QED BY <1>8, <1>9

(* A turn of the unrolled loop takes two bits, and the last one a third,   *)
(* which is the end marker.                                                *)
LEMMA UnrolledReads ==
    ASSUME IInv, CallOK(call), NEW number, NEW n, NEW one, NEW next,
           IsNumber(number, n, one),
           NEW k \in 1 .. Turns(number), stack = NumberFrame(next),
           LengthSays(number.value[k], one), InTurn(number, k),
           NEW label \in Unrolled, NEW then, UnrolledBit(label, then),
           then \in Unrolled \/ then = "GammaFillBuffer",
           then = "GammaFillBuffer" => label = "GammaBit4"
    PROVE  Reading(number, one, next)' \/ HasRead(number, n, one, next)'
<1> DEFINE once == Shifted(Lo(a))
           twice == Shifted(once)
<1>1. pc = label /\ UNCHANGED <<call, x>>
  BY DEF UnrolledBit, fixed
<1>2. a \in Word /\ length \in Word /\ EvenBits(Lo(a))
  BY <1>1, GammaFacts DEF Gammas
<1>3. PICK cursor : Ahead(cursor, number, k) /\ BitsAt(cursor)
  BY <1>1 DEF InTurn, Unrolled
<1>4. /\ IsCursor(cursor) /\ Says(cursor, Control(number, k))
      /\ Past(cursor) = number.past[k] /\ Lo(a) = Buffer(cursor)
      /\ x = Position(cursor.at)
  BY <1>3 DEF Ahead, BitsAt
<1> DEFINE data == number.past[k]
<1>5. CASE cursor.used = 8
  <2>1. once = 0
    BY <1>4, <1>5, UsedUp
  <2>2. pc' = "GammaFillBuffer" /\ UNCHANGED <<stack, length>>
    BY <2>1 DEF UnrolledBit
  <2>3. LengthSays(number.value[k], one)' /\ x' = Position(cursor.at)
    BY <1>1, <1>4, <2>2 DEF LengthSays
  <2> QED BY <1>1, <1>3, <1>5, <2>2, <2>3, StaysReading
<1>6. CASE cursor.used # 8
  <2>1. /\ BitOut(Lo(a)) = Control(number, k)
        /\ once = Buffer(data) /\ once # 0 /\ once \in Byte
        /\ data.at = cursor.at
    <3>1. once \in Byte
      BY SMT, <1>2, HalfType DEF Shifted, Byte
    <3> QED BY <1>4, <1>6, <3>1, TakeBit
  <2>2. x' = Position(data.at)
    BY <1>1, <1>4, <2>1
  <2>3. CASE k = Turns(number)
    <3>1. IsLast(BitOut(Lo(a)))
      BY <2>1, <2>3, LastTurn DEF IsLast
    <3>2. GammaDone /\ a' = SetLo(a, once) /\ length' = length
      BY <2>1, <3>1 DEF UnrolledBit
    <3>3. Lo(a') = Buffer(data) /\ LengthSays(number.value[k], one)'
      BY <1>2, <2>1, <3>2, BufferSet DEF LengthSays
    <3>4. EndOf(number) = data /\ number.value[k] = n
      BY <2>3, NumberType
    <3> QED BY <1>1, <2>2, <3>2, <3>3, <3>4, ReadsOff
  <2>4. CASE k # Turns(number)
    <3>1. ~IsLast(BitOut(Lo(a)))
      BY <2>1, <2>4, TurnSays DEF IsLast
    <3>2. /\ length' = WithBit(length, BitOut(once))
          /\ pc' = then /\ stack' = stack
          /\ then # "GammaFillBuffer" => a' = SetLo(a, twice)
      BY <2>1, <3>1 DEF UnrolledBit
    <3>3. OddBits(once)
      BY <1>2, <2>1, ShiftEven
    <3>4. data.used # 8
      BY <2>1, <3>3, UsedUp
    <3>5. /\ k + 1 \in 1 .. Turns(number) /\ IsCursor(data)
          /\ Ahead(Past(data), number, k + 1)
      BY <2>4, TurnSays
    <3>6. PICK bit \in {0, 1} :
             /\ number.value[k + 1] = 2 * number.value[k] + bit
             /\ Says(data, Streamed(bit, one))
      BY <2>4, TurnSays
    <3>7. /\ BitOut(once) = Streamed(bit, one)
          /\ twice = Buffer(Past(data)) /\ Past(data).at = data.at
      <4> HIDE DEF data
      <4> QED BY <2>1, <3>4, <3>5, <3>6, TakeBit
    <3>8. /\ number.value[k] \in Format!NumberValues
          /\ number.value[k + 1] \in Format!NumberValues
      BY <3>5, NumberType
    <3>9. LengthSays(number.value[k + 1], one)'
      BY <1>2, <3>2, <3>6, <3>7, <3>8, LengthGrows
    <3>10. x' = Position(Past(data).at)
      BY <2>2, <3>7
    <3>11. CASE then \in Unrolled
      <4>1. twice \in Byte
        BY SMT, <2>1 DEF Shifted, Byte
      <4>2. Lo(a') = Buffer(Past(data))
        <5>1. then # "GammaFillBuffer"
          BY <3>11 DEF Unrolled
        <5> HIDE DEF twice
        <5> QED BY <1>2, <3>2, <3>7, <4>1, <5>1, BufferSet
      <4> HIDE DEF data, once, twice
      <4> QED BY <1>1, <3>2, <3>5, <3>9, <3>10, <3>11, <4>2, StaysReading
    <3>12. CASE then = "GammaFillBuffer"
      <4>1. Lo(a) % 32 = 0
        BY <1>1, <3>12 DEF IInv, Bits
      <4>2. twice = 128
        BY <1>2, <2>1, <4>1, ShiftTwice
      <4>3. Past(data).used = 8
        <5>1. /\ IsCursor(Past(data))
              /\ Says(Past(data), Control(number, k + 1))
          BY <3>5 DEF Ahead
        <5> DEFINE p == Past(data)
        <5>2. IsCursor(p) /\ Says(p, Control(number, k + 1)) /\ Buffer(p) = 128
          BY <3>7, <4>2, <5>1
        <5> HIDE DEF p, data, twice
        <5>3. p.used # 8 => Buffer(p) # 128
          BY <5>2, TakeBit
        <5> QED BY <5>2, <5>3 DEF p
      <4>4. pc' = "GammaFillBuffer" /\ call' = call /\ stack' = stack
        BY <1>1, <3>2, <3>12
      <4> HIDE DEF data, once, twice
      <4>5. \E cur : /\ Ahead(cur, number, k + 1) /\ cur.used = 8
                       /\ x' = Position(cur.at)
        BY <3>5, <3>10, <4>3
      <4> QED BY <3>5, <3>9, <4>4, <4>5, StaysReading
    <3> QED BY <3>11, <3>12
  <2> QED BY <2>3, <2>4
<1> QED BY <1>5, <1>6

Reads == \/ DecodeGamma \/ GammaCheckBit \/ GammaAddBit
         \/ GammaBit2 \/ GammaBit3 \/ GammaBit4 \/ GammaFillBuffer

(* A step of the decoding stays in the number or has read it. *)
LEMMA ReadingStep ==
    ASSUME IInv, CallOK(call), Spelled(call),
           NEW number, NEW n, NEW one, NEW next,
           IsNumber(number, n, one), Reading(number, one, next), Reads
    PROVE  Reading(number, one, next)' \/ HasRead(number, n, one, next)'
<1>1. PICK k \in 1 .. Turns(number) :
         LengthSays(number.value[k], one) /\ InTurn(number, k)
  BY DEF Reading
<1>2. stack = NumberFrame(next)
  BY DEF Reading
<1>3. CASE DecodeGamma
  BY <1>1, <1>2, <1>3, DecodeGammaReads
<1>4. CASE GammaCheckBit
  BY <1>1, <1>2, <1>4, CheckBitReads
<1>5. CASE GammaAddBit
  BY <1>1, <1>2, <1>5, AddBitReads
<1>6. CASE GammaFillBuffer
  BY <1>1, <1>2, <1>6, FillBufferReads
<1>7. CASE GammaBit2
  BY <1>1, <1>2, <1>7, UnrolledReads DEF GammaBit2, Unrolled
<1>8. CASE GammaBit3
  BY <1>1, <1>2, <1>8, UnrolledReads DEF GammaBit3, Unrolled
<1>9. CASE GammaBit4
  BY <1>1, <1>2, <1>9, UnrolledReads DEF GammaBit4, Unrolled
<1> QED BY <1>3, <1>4, <1>5, <1>6, <1>7, <1>8, <1>9 DEF Reads

-----------------------------------------------------------------------------
(* A command's places in block and text, and what is written for it.       *)
LEMMA Places ==
    ASSUME CallOK(call), WellFormed(call), NEW i \in 1 .. Last
    PROVE  /\ Spelled(call) /\ i \in Nat /\ Last \in Nat
           /\ Len(call.block) \in Nat /\ Size \in Nat /\ Size \in Word
           /\ IsCursor(call.start[i]) /\ call.start[i].at < Len(call.block)
           /\ call.out[i] \in Nat /\ From(i) \in Nat
           /\ From(i) = call.out[i] + Script[i].lit
           /\ call.out[i + 1] = From(i) + Script[i].len
           /\ From(i) + Script[i].len <= Size
           /\ Script[i].lit \in Nat /\ Script[i].len \in Nat
           /\ Script[i].off \in Nat
           /\ i = Last => Script[i].len = 0 /\ From(i) = Size
           /\ i # Last => /\ i \in 1 .. Last - 1 /\ i + 1 \in 1 .. Last
                          /\ Script[i].len > 0
                          /\ Script[i].off \in 1 .. From(i)
<1>1. Spelled(call) /\ Format!Encodes(call)
  BY DEF WellFormed
<1>2. /\ Len(call.block) \in Nat /\ Size \in Nat /\ Size \in Word
  BY <1>1, SizeType
<1>3. /\ Script[i].lit \in Nat /\ Script[i].len \in Nat /\ Script[i].off \in Nat
      /\ call.out[i] \in Nat /\ From(i) \in Nat
      /\ call.out[i + 1] = From(i) + Script[i].len
      /\ From(i) + Script[i].len <= Size
      /\ Script[i].len > 0 => Script[i].off \in 1 .. From(i)
      /\ From(i) = call.out[i] + Script[i].lit
  BY <1>1, CommandType DEF From, Last
<1>4. i \in Nat /\ Last \in Nat
  <2>1. Script \in Seq(Text!Commands)
    BY <1>1 DEF Spelled, Text!Spells, Script
  <2> QED BY SMT, <2>1 DEF Last
<1>5. /\ call.start \in [1 .. Last -> Format!Cursors(Len(call.block))]
      /\ \A j \in 1 .. Last : call.start[j].at < Len(call.block)
      /\ Script[Last].len = 0
      /\ \A j \in 1 .. Last - 1 :
            IF Format!Repeats(Script, j) THEN Format!SaysRepMatch(call, j)
            ELSE Format!SaysMatchWithOffset(call, j)
  BY <1>1 DEF Format!Encodes, Last, Script
<1>6. IsCursor(call.start[i]) /\ call.start[i].at < Len(call.block)
  BY <1>5 DEF IsCursor
<1>7. i = Last => From(i) = Size
  <2>1. call.out[Last + 1] = Size
    BY <1>1 DEF Spelled, Text!Spells, Script, Size, Last
  <2>2. i = Last => From(i) + 0 = Size
    BY <1>3, <1>5, <2>1
  <2> QED BY SMT, <1>3, <2>2
<1>8. i # Last => i \in 1 .. Last - 1 /\ i + 1 \in 1 .. Last
  BY SMT, <1>4
<1>9. i # Last => Script[i].len > 0
  <2>1. Format!SaysRepMatch(call, i) => Script[i].len >= 1
    BY DEF Format!SaysRepMatch, Script
  <2>2. Format!SaysMatchWithOffset(call, i) => Script[i].len >= 2
    BY DEF Format!SaysMatchWithOffset, Script
  <2>3. i # Last => Script[i].len >= 1 \/ Script[i].len >= 2
    BY <1>5, <1>8, <2>1, <2>2
  <2> QED BY SMT, <1>3, <2>3
<1> QED BY <1>1, <1>2, <1>3, <1>4, <1>5, <1>6, <1>7, <1>8, <1>9

LEMMA LiteralsEncoded ==
    ASSUME CallOK(call), WellFormed(call), NEW i \in 1 .. Last
    PROVE  /\ LitSaid(i) = 0 => i # 1 /\ TypeAt(i) = call.start[i]
           /\ LitSaid(i) # 0 =>
                 /\ i # 1 => /\ Says(call.start[i], 0)
                             /\ LitBits(i) = Past(call.start[i])
                 /\ i = 1 => LitBits(i) = call.start[i]
                 /\ Ahead(LitBits(i), LitNumber(i), 1)
                 /\ IsNumber(LitNumber(i), LitSaid(i), 1)
                 /\ EndOf(LitNumber(i)).at + LitSaid(i) <= Len(call.block)
                 /\ \A j \in 1 .. LitSaid(i) :
                       call.block[EndOf(LitNumber(i)).at + j]
                           = call.plain[call.out[i] + j]
                 /\ TypeAt(i).at = EndOf(LitNumber(i)).at + LitSaid(i)
                 /\ TypeAt(i).byte = EndOf(LitNumber(i)).byte
                 /\ TypeAt(i).used = EndOf(LitNumber(i)).used
                 /\ IsCursor(TypeAt(i))
<1>1. Format!SaysLiterals(call, i) /\ Spelled(call)
  BY DEF WellFormed, Format!Encodes, Last, Script
<1>2. CASE LitSaid(i) = 0
  <2>1. i > 1 /\ i \in Nat
    BY <1>1, <1>2, Places DEF Format!SaysLiterals, LitSaid, Script
  <2>2. i # 1
    BY SMT, <2>1
  <2>3. TypeAt(i) = call.start[i]
    BY <1>2 DEF TypeAt, Format!PastLiterals, LitSaid, Script
  <2> QED BY <1>2, <2>2, <2>3
<1>3. CASE LitSaid(i) # 0
  <2> DEFINE number == LitNumber(i)
             end == EndOf(number)
  <2>1. /\ i > 1 => Format!SaysBit(call.block, call.start[i], 0)
        /\ Format!StartsAt(call.block, number, LitBits(i))
        /\ IsNumber(number, LitSaid(i), 1)
        /\ Format!HasAt(call.block, end.at, Format!LiteralsOf(call, i))
    BY <1>1, <1>3
    DEF Format!SaysLiterals, LitSaid, Script, LitBits, LitNumber, IsNumber, EndOf
  <2>2. i # 1 => Says(call.start[i], 0) /\ LitBits(i) = Past(call.start[i])
    <3>1. i # 1 => i > 1
      BY SMT, Places
    <3> QED BY <2>1, <3>1 DEF Says, LitBits, Format!LiteralStart, Past
  <2>3. i = 1 => LitBits(i) = call.start[i]
    BY DEF LitBits, Format!LiteralStart
  <2>4. IsCursor(LitBits(i))
    BY <2>2, <2>3, Places, PastBitType
  <2>5. Ahead(LitBits(i), number, 1)
    BY <2>1, <2>4 DEF Ahead, Format!StartsAt, Says, Control, Past
  <2>6. /\ end.at + LitSaid(i) <= Len(call.block)
        /\ \A j \in 1 .. LitSaid(i) :
              call.block[end.at + j] = call.plain[call.out[i] + j]
    <3>1. Format!LiteralsOf(call, i) = Text!LiteralsOf(call, i)
      BY DEF Format!LiteralsOf, Text!LiteralsOf
    <3>2. /\ Len(Text!LiteralsOf(call, i)) = LitSaid(i)
          /\ \A j \in 1 .. LitSaid(i) :
                Text!LiteralsOf(call, i)[j] = call.plain[call.out[i] + j]
      BY <1>1, LiteralsType DEF LitSaid, Last
    <3> DEFINE lits == Text!LiteralsOf(call, i)
    <3> HIDE DEF lits, end
    <3>3. /\ end.at + Len(lits) <= Len(call.block)
          /\ \A j \in 1 .. Len(lits) : call.block[end.at + j] = lits[j]
      BY <2>1, <3>1 DEF Format!HasAt, lits
    <3> QED BY <3>2, <3>3 DEF lits
  <2>7. TypeAt(i) = Format!PastBytes(end, LitSaid(i))
    BY <1>3 DEF TypeAt, Format!PastLiterals, LitSaid, Script, LitNumber, EndOf
  <2>8. /\ TypeAt(i).at = end.at + LitSaid(i)
        /\ TypeAt(i).byte = end.byte /\ TypeAt(i).used = end.used
        /\ IsCursor(TypeAt(i))
    <3>1. IsCursor(end)
      BY <2>1, NumberType
    <3> DEFINE lit == LitSaid(i)
    <3>2. lit \in Nat /\ end.at + lit <= Len(call.block)
      BY <2>6, Places DEF LitSaid
    <3>3. /\ end.at \in Nat /\ end.byte \in 0 .. Len(call.block)
          /\ end.used \in 1 .. 8 /\ Len(call.block) \in Nat
      <4> HIDE DEF end
      <4> QED BY SMT, <3>1, CursorType
    <3> HIDE DEF end, lit
    <3>4. /\ end.at + lit \in 0 .. Len(call.block)
      BY SMT, <3>2, <3>3
    <3>5. Format!PastBytes(end, lit)
              = [at |-> end.at + lit, byte |-> end.byte, used |-> end.used]
      BY DEF Format!PastBytes, Format!Cursor
    <3>6. Format!PastBytes(end, lit) \in Format!Cursors(Len(call.block))
      BY <3>3, <3>4, <3>5 DEF Format!Cursors
    <3> QED BY SMT, <2>7, <3>5, <3>6 DEF lit, IsCursor
  <2> QED BY <1>3, <2>1, <2>2, <2>3, <2>5, <2>6, <2>8
<1> QED BY <1>2, <1>3

LEMMA TypeAtType ==
    ASSUME CallOK(call), WellFormed(call), NEW i \in 1 .. Last
    PROVE  IsCursor(TypeAt(i))
BY LiteralsEncoded, Places

(* The match of a command: its type, its offset and its length. *)
LEMMA ReuseEncoded ==
    ASSUME CallOK(call), WellFormed(call), NEW i \in 1 .. Last, Reuses(i)
    PROVE  /\ Says(TypeAt(i), 0) /\ Ahead(CodeAt(i), LenNumber(i), 1)
           /\ IsNumber(LenNumber(i), LenSaid(i), 1)
           /\ LenSaid(i) = Script[i].len
           /\ Script[i].off = Format!Rep(Script, i)
           /\ LitSaid(i) # 0
           /\ call.start[i + 1] = EndOf(LenNumber(i))
<1>1. i \in 1 .. Last - 1 /\ Format!Repeats(Script, i)
  BY Places DEF Reuses
<1>2. /\ Format!SaysRepMatch(call, i)
      /\ call.start[i + 1] = EndOf(LenNumber(i))
  BY <1>1 DEF WellFormed, Format!Encodes, Last, Script, EndOf, LenNumber
<1>3. LenSaid(i) = Script[i].len
  BY <1>1 DEF LenSaid
<1>4. /\ Says(TypeAt(i), 0)
      /\ Format!StartsAt(call.block, LenNumber(i), CodeAt(i))
      /\ IsNumber(LenNumber(i), LenSaid(i), 1)
  BY <1>2, <1>3 DEF Format!SaysRepMatch, Says, TypeAt, CodeAt, LenNumber, Past,
                    IsNumber, Script
<1>5. IsCursor(CodeAt(i))
  BY <1>4, TypeAtType, PastBitType DEF CodeAt
<1>6. Ahead(CodeAt(i), LenNumber(i), 1)
  BY <1>4, <1>5 DEF Ahead, Format!StartsAt, Says, Control, Past
<1> QED BY <1>1, <1>2, <1>3, <1>4, <1>6 DEF Format!Repeats, LitSaid

LEMMA HighEncoded ==
    ASSUME CallOK(call), WellFormed(call), NEW i \in 1 .. Last, ~Reuses(i)
    PROVE  /\ Says(TypeAt(i), 1) /\ Ahead(CodeAt(i), HighNumber(i), 1)
           /\ IsNumber(HighNumber(i), HighSaid(i), 0)
<1>1. Format!SaysHigh(call, i, HighSaid(i))
  <2>1. CASE i = Last
    BY <2>1 DEF WellFormed, Format!Encodes, Last, Script, HighSaid
  <2>2. CASE i # Last
    <3>1. i \in 1 .. Last - 1 /\ ~Format!Repeats(Script, i)
      BY <2>2, Places DEF Reuses
    <3>2. Format!SaysMatchWithOffset(call, i)
      BY <3>1 DEF WellFormed, Format!Encodes, Last, Script
    <3> QED BY <2>2, <3>2 DEF Format!SaysMatchWithOffset, HighSaid, Script
  <2> QED BY <2>1, <2>2
<1>2. /\ Says(TypeAt(i), 1)
      /\ Format!StartsAt(call.block, HighNumber(i), CodeAt(i))
      /\ IsNumber(HighNumber(i), HighSaid(i), 0)
  BY <1>1 DEF Format!SaysHigh, Says, TypeAt, CodeAt, HighNumber, Past, IsNumber
<1>3. IsCursor(CodeAt(i))
  BY <1>2, TypeAtType, PastBitType DEF CodeAt
<1>4. Ahead(CodeAt(i), HighNumber(i), 1)
  BY <1>2, <1>3 DEF Ahead, Format!StartsAt, Says, Control, Past
<1> QED BY <1>2, <1>4

(* The byte with the low part of an offset. *)
LowByte(i) == 2 * Format!LowPart(Script[i].off) + Control(LenNumber(i), 1)

LEMMA NewEncoded ==
    ASSUME CallOK(call), WellFormed(call), NEW i \in 1 .. Last,
           i # Last, ~Reuses(i)
    PROVE  LET low == EndOf(HighNumber(i))
           IN  /\ Script[i].off <= Format!FARTHEST
               /\ call.block[low.at + 1] = LowByte(i)
               /\ low.at + 1 <= Len(call.block)
               /\ LenNumber(i).past[1].at = low.at + 1
               /\ LenNumber(i).past[1].byte = low.byte
               /\ LenNumber(i).past[1].used = low.used
               /\ IsNumber(LenNumber(i), LenSaid(i), 1)
               /\ LenSaid(i) = Script[i].len - 1
               /\ call.start[i + 1] = EndOf(LenNumber(i))
<1>1. i \in 1 .. Last - 1 /\ ~Format!Repeats(Script, i)
  BY Places DEF Reuses
<1>2. /\ Format!SaysMatchWithOffset(call, i)
      /\ call.start[i + 1] = EndOf(LenNumber(i))
  BY <1>1 DEF WellFormed, Format!Encodes, Last, Script, EndOf, LenNumber
<1>3. LenSaid(i) = Script[i].len - 1
  BY <1>1 DEF LenSaid
<1> DEFINE low == EndOf(HighNumber(i))
<1>4. /\ Script[i].off <= Format!FARTHEST
      /\ Text!HasAt(call.block, low.at, <<LowByte(i)>>)
      /\ LenNumber(i).past[1] = Format!PastBytes(low, 1)
      /\ IsNumber(LenNumber(i), LenSaid(i), 1)
  BY <1>2, <1>3 DEF Format!SaysMatchWithOffset, LenNumber, HighNumber, EndOf,
     IsNumber, Script, LowByte, Control, Format!HasAt, Text!HasAt
<1>5. call.block[low.at + 1] = LowByte(i) /\ low.at + 1 <= Len(call.block)
  BY <1>4, HoldsOne DEF Holds
<1>6. /\ LenNumber(i).past[1].at = low.at + 1
      /\ LenNumber(i).past[1].byte = low.byte
      /\ LenNumber(i).past[1].used = low.used
  BY SMT, <1>4 DEF Format!PastBytes, Format!Cursor
<1> QED BY <1>2, <1>3, <1>4, <1>5, <1>6

-----------------------------------------------------------------------------
(* What a step leaves alone, and what the invariant gives at every label.  *)
LEMMA CommandKept ==
    ASSUME call' = call, NEW i
    PROVE  /\ call.start[i]' = call.start[i]
           /\ call.start[i + 1]' = call.start[i + 1]
           /\ call.out[i]' = call.out[i] /\ call.out[i + 1]' = call.out[i + 1]
           /\ LitNumber(i)' = LitNumber(i) /\ HighNumber(i)' = HighNumber(i)
           /\ LenNumber(i)' = LenNumber(i)
           /\ LitSaid(i)' = LitSaid(i) /\ HighSaid(i)' = HighSaid(i)
           /\ LenSaid(i)' = LenSaid(i) /\ (Reuses(i)' <=> Reuses(i))
           /\ LitBits(i)' = LitBits(i) /\ TypeAt(i)' = TypeAt(i)
           /\ CodeAt(i)' = CodeAt(i) /\ Last' = Last
<1>1. Script' = Script
  BY DEF Script
<1>2. Last' = Last
  BY <1>1 DEF Last
<1>3. LitBits(i)' = LitBits(i) /\ TypeAt(i)' = TypeAt(i)
  BY DEF LitBits, TypeAt
<1>4. CodeAt(i)' = CodeAt(i)
  BY <1>3 DEF CodeAt, Past
<1>5. Format!Repeats(Script, i)' <=> Format!Repeats(Script, i)
  BY <1>1
<1>6. LitNumber(i)' = LitNumber(i) /\ HighNumber(i)' = HighNumber(i)
      /\ LenNumber(i)' = LenNumber(i)
  BY DEF LitNumber, HighNumber, LenNumber
<1>7. /\ LitSaid(i)' = LitSaid(i) /\ HighSaid(i)' = HighSaid(i)
      /\ LenSaid(i)' = LenSaid(i) /\ (Reuses(i)' <=> Reuses(i))
  BY <1>1, <1>2, <1>5 DEF LitSaid, HighSaid, LenSaid, Reuses
<1> QED BY <1>2, <1>3, <1>4, <1>6, <1>7

LEMMA TextKept ==
    ASSUME NEW i, UNCHANGED <<call, y, match, wram, wmadd>>
    PROVE  /\ BeforeText(i) => BeforeText(i)'
           /\ Reusing(i) => Reusing(i)'
           /\ ReadingNew(i) => ReadingNew(i)'
           /\ WithNew(i) => WithNew(i)'
           /\ Matching(i) => Matching(i)'
           /\ ThisOffset(i) => ThisOffset(i)'
<1>1. /\ call.out[i]' = call.out[i] /\ From(i)' = From(i)
      /\ Script' = Script /\ Last' = Last /\ (Reuses(i)' <=> Reuses(i))
  BY CommandKept, PlacesKept
<1>2. ASSUME NEW n, MadeTo(n) PROVE MadeTo(n)'
  BY <1>2, MadeToKept
<1>3. (LastOffset(i) => LastOffset(i)') /\ (ThisOffset(i) => ThisOffset(i)')
  BY <1>1 DEF LastOffset, ThisOffset, Negated
<1> QED BY <1>1, <1>2, <1>3 DEF BeforeText, Reusing, ReadingNew, WithNew, Matching

LEMMA InvFacts ==
    ASSUME IInv
    PROVE  /\ CommonTypeOK /\ CallOK(call) /\ wmadd \in WramAddress
           /\ a \in Word /\ length \in Word /\ tmp \in Word /\ y \in Word
           /\ pc \notin {"Main", "Setup", "MatchCopied", "Idle"}
                  => db = call.srcBank
           /\ pc \notin {"Main", "Setup"} => /\ inBank = call.srcBank
                                             /\ outBank = call.dstBank
           /\ pc \in Starts \cup AfterNumber => stack = Frame
           /\ pc \in AfterNumber => OddBits(Lo(a)) /\ c = 1
           /\ pc \in {"CopyMatch", "TypeBit"} => OddBits(SavedBuffer)
           /\ pc \in {"CopyMatch", "TypeBit", "Done"}
                  => stack = BufferFrame(SavedBuffer)
           /\ pc \in Moving
                  => SavedX \in Word /\ stack = MovingFrame(Aside, SavedX)
<1>1. TypeOK /\ StackShape /\ Banks /\ Bits
  BY DEF IInv
<1>2. /\ CommonTypeOK /\ CallOK(call) /\ wmadd \in WramAddress
      /\ a \in Word /\ length \in Word /\ tmp \in Word /\ y \in Word
  BY <1>1 DEF TypeOK, CommonTypeOK
<1>3. /\ pc \notin {"Main", "Setup", "MatchCopied", "Idle"}
             => db = call.srcBank
      /\ pc \notin {"Main", "Setup"} => /\ inBank = call.srcBank
                                        /\ outBank = call.dstBank
  BY <1>1 DEF Banks
<1>4. /\ pc \in AfterNumber => OddBits(Lo(a)) /\ c = 1
      /\ pc \in {"CopyMatch", "TypeBit"} => OddBits(SavedBuffer)
  BY <1>1 DEF Bits
<1> QED BY <1>1, <1>2, <1>3, <1>4 DEF StackShape

-----------------------------------------------------------------------------
(* A number is started at its first bit. *)
LEMMA StartsReading ==
    ASSUME call' = call, x' = x, a' = a, stack = Frame,
           NEW next, Gamma("DecodeGamma", next),
           NEW number, NEW n, NEW one, IsNumber(number, n, one),
           NEW cursor, BitsAt(cursor), Ahead(cursor, number, 1),
           LengthSays(1, one)'
    PROVE  Reading(number, one, next)'
<1>1. pc' = "DecodeGamma" /\ stack' = NumberFrame(next)'
  <2>1. NumberFrame(next)' = NumberFrame(next)
    BY CursorKept
  <2> QED BY <2>1 DEF Gamma, NumberFrame
<1>2. BitsAt(cursor)' /\ Ahead(cursor, number, 1)' /\ Turns(number)' = Turns(number)
  <2>1. /\ Buffer(cursor)' = Buffer(cursor)
        /\ Position(cursor.at)' = Position(cursor.at)
        /\ Ahead(cursor, number, 1)' <=> Ahead(cursor, number, 1)
        /\ Turns(number)' = Turns(number)
    BY CursorKept
  <2> QED BY <2>1 DEF BitsAt
<1>3. 1 \in 1 .. Turns(number) /\ number.value[1] = 1
  BY NumberType
<1>4. InTurn(number, 1)'
  BY <1>1, <1>2 DEF InTurn
<1> QED BY <1>1, <1>2, <1>3, <1>4 DEF Reading

(* Setup leaves the routine at the first command, with nothing but the end *)
(* marker in the buffer.                                                   *)
LEMMA SetupStep ==
    ASSUME IInv, WellFormed(call), pc = "Setup", NothingWritten,
           x = call.src, Setup
    PROVE  1 \in 1 .. Last /\ AtLitCode(1)'
<1>1. /\ CallOK(call) /\ Spelled(call) /\ CommonTypeOK /\ wmadd \in WramAddress
      /\ y = call.dst /\ a = MakeWord(call.srcBank, call.dstBank)
      /\ a \in Word /\ y \in Word
  BY InvFacts DEF WellFormed, IInv, Banks
<1>2. call' = call /\ UNCHANGED <<x, y, wram>> /\ pc' = "DecodeLiteral"
      /\ SetupFrame(PortAtY) /\ match' = 65535
  BY DEF Setup
<1>3. \A p : Position(p)' = Position(p)
  BY <1>2, PlacesKept
<1>4. call.src \in Word
  BY <1>1 DEF CallOK
<1>5. 1 \in 1 .. Last
  <2>1. Script \in Seq(Text!Commands) /\ Script # <<>>
    BY <1>1 DEF Spelled, Text!Spells, Script
  <2> HIDE DEF Script
  <2> QED BY SMT, <2>1 DEF Last
<1>6. call.out[1] = 0 /\ call.start[1] = Format!AtFirst
  BY <1>1 DEF Spelled, Text!Spells, WellFormed, Format!Encodes
<1>7. x' = Position(0)
  <2>1. \A u \in Word : Wrap(u + 0) = u
    BY SMT DEF Word, Wrap
  <2> QED BY <1>2, <1>4, <2>1 DEF Position
<1>8. MadeTo(0)'
  <2>1. PortAtY \in WramAddress
    BY <1>1, PortAtYType
  <2>2. wmadd' \div 65536 = call.dstBank % 2
    BY <1>1, <1>2, <2>1, SetupPort
  <2> QED BY <1>1, <1>2, <2>2, NothingMade
<1>9. Lo(a') = 128
  <2>1. a' = MakeWord(128, Lo(a))
    BY <1>2 DEF SetupFrame
  <2>2. 128 \in Byte /\ Lo(a) \in Byte
    <3>1. 128 \in Byte
      BY SMT DEF Byte
    <3> QED BY <1>1, <3>1, HalfType
  <2> QED BY <2>1, <2>2, MakeWordType
<1>10. LitSaid(1) # 0 /\ LitBits(1) = Format!AtFirst
  BY <1>1, <1>5, <1>6, LiteralsEncoded
<1>11. Format!AtFirst.used = 8 /\ Format!AtFirst.at = 0
  BY SMT DEF Format!AtFirst, Format!Cursor
<1>12. BitsAt(LitBits(1))'
  <2>1. LitBits(1)' = Format!AtFirst
    BY <1>2, <1>10, CommandKept
  <2>2. Buffer(Format!AtFirst)' = 128
    BY <1>11 DEF Buffer
  <2>3. Position(Format!AtFirst.at)' = Position(0)
    BY <1>3, <1>11
  <2> QED BY <1>7, <1>9, <2>1, <2>2, <2>3 DEF BitsAt
<1>13. LastOffset(1)'
  <2>1. Format!Rep(Script, 1)' = 1
    BY DEF Format!Rep
  <2>2. 65536 - 1 = 65535
    BY SMT
  <2> QED BY <1>2, <2>1, <2>2 DEF LastOffset, Negated
<1>14. MadeTo(call.out[1])' /\ LitSaid(1)' # 0
  BY <1>2, <1>6, <1>8, <1>10, CommandKept
<1> QED BY <1>2, <1>5, <1>12, <1>13, <1>14 DEF AtLitCode, BeforeText

-----------------------------------------------------------------------------
(* A bit of a type is taken from the buffer. *)
LEMMA TypeTaken ==
    ASSUME CallOK(call), call' = call, NEW cursor, IsCursor(cursor),
           OddBits(Buffer(cursor)), NEW bit, Says(cursor, bit),
           NEW high \in Word, NEW other, ChooseType(Buffer(cursor), high, other),
           x' = Position(cursor.at)
    PROVE  /\ pc' = IF bit = 1 THEN "DecodeMatchNew" ELSE other
           /\ BitsAt(Past(cursor))'
<1>1. cursor.used # 8
  BY UsedUp
<1>2. /\ BitOut(Buffer(cursor)) = bit
      /\ Shifted(Buffer(cursor)) = Buffer(Past(cursor))
      /\ Past(cursor).at = cursor.at
  BY <1>1, TakeBit
<1>3. Lo(a') = Buffer(Past(cursor))
  <2>1. Shifted(Buffer(cursor)) \in Byte
    BY ShiftOdd
  <2> QED BY <1>2, <2>1, BufferSet DEF ChooseType
<1>4. /\ Past(cursor)' = Past(cursor)
      /\ \A cur : Buffer(cur)' = Buffer(cur)
      /\ \A cur : Position(cur.at)' = Position(cur.at)
  BY CursorKept DEF Past
<1>5. BitsAt(Past(cursor))'
  <2> DEFINE past == Past(cursor)
  <2>1. Lo(a') = Buffer(past) /\ x' = Position(past.at) /\ past' = past
    BY <1>2, <1>3, <1>4
  <2> HIDE DEF past
  <2> QED
    <3>1. Buffer(past)' = Buffer(past) /\ Position(past.at)' = Position(past.at)
      BY <1>4, <2>1, CursorKept
    <3>2. BitsAt(past)'
      BY <2>1, <3>1 DEF BitsAt
    <3> QED BY <3>2 DEF past
<1> QED BY <1>2, <1>5 DEF ChooseType

(* The bit after a match says whether literals follow. *)
LEMMA TypeBitStep ==
    ASSUME IInv, WellFormed(call), NEW i \in 1 .. Last, AtType(i), TypeBit
    PROVE  AtLitCode(i)' \/ AtNew(i)'
<1>1. /\ CallOK(call) /\ i # 1 /\ a \in Word
      /\ SavedBuffer = Buffer(call.start[i]) /\ OddBits(SavedBuffer)
      /\ x = Position(call.start[i].at) /\ BeforeText(i)
  BY InvFacts DEF AtType, TypeBit
<1>2. /\ UNCHANGED <<call, x, y, match, wram, wmadd>>
      /\ ChooseType(SavedBuffer, a, "DecodeLiteral")
  BY DEF TypeBit, fixed, output
<1>3. BeforeText(i)'
  BY <1>1, <1>2, TextKept
<1>0. PICK cursor : cursor = call.start[i]
  OBVIOUS
<1>4. IsCursor(cursor)
  BY <1>0, <1>1, Places
<1>5. /\ OddBits(Buffer(cursor)) /\ ChooseType(Buffer(cursor), a, "DecodeLiteral")
      /\ x' = Position(cursor.at)
  BY <1>0, <1>1, <1>2
<1>6. CASE LitSaid(i) # 0
  <2>1. Says(cursor, 0) /\ LitBits(i) = Past(cursor)
    BY <1>0, <1>1, <1>6, LiteralsEncoded
  <2>2. LitBits(i)' = Past(cursor)' /\ LitSaid(i)' # 0
    BY <1>2, <1>6, <2>1, CommandKept DEF Past
  <2>3. pc' = "DecodeLiteral" /\ BitsAt(Past(cursor))'
    BY <1>1, <1>2, <1>4, <1>5, <2>1, TypeTaken
  <2> QED BY <1>3, <2>2, <2>3 DEF AtLitCode
<1>7. CASE LitSaid(i) = 0
  <2>1. TypeAt(i) = cursor /\ ~Reuses(i)
    BY <1>0, <1>1, <1>7, LiteralsEncoded DEF Reuses, Format!Repeats, LitSaid
  <2>2. Says(cursor, 1) /\ CodeAt(i) = Past(cursor)
    BY <1>1, <2>1, HighEncoded DEF CodeAt
  <2>3. CodeAt(i)' = Past(cursor)'
    BY <1>2, <2>2, CommandKept DEF Past
  <2>4. From(i) = call.out[i]
    <3>1. /\ From(i) = call.out[i] + Script[i].lit /\ call.out[i] \in Nat
          /\ Script[i].lit = 0
      BY <1>1, <1>7, Places DEF LitSaid
    <3> QED BY SMT, <3>1
  <2>5. ReadingNew(i)
    BY <1>1, <2>1, <2>4 DEF ReadingNew, BeforeText
  <2>6. ReadingNew(i)'
    BY <1>2, <2>5, TextKept
  <2>7. pc' = "DecodeMatchNew" /\ BitsAt(Past(cursor))'
    BY <1>1, <1>2, <1>4, <1>5, <2>2, TypeTaken
  <2> QED BY <2>3, <2>6, <2>7 DEF AtNew
<1> QED BY <1>6, <1>7

LEMMA DecodeLiteralStep ==
    ASSUME IInv, WellFormed(call), NEW i \in 1 .. Last,
           AtLitCode(i), DecodeLiteral
    PROVE  ReadingLit(i)'
<1>1. /\ CallOK(call) /\ LitSaid(i) # 0 /\ BitsAt(LitBits(i)) /\ BeforeText(i)
      /\ stack = Frame
  BY InvFacts DEF AtLitCode, DecodeLiteral, Starts
<1>2. /\ UNCHANGED <<call, x, a, y, match, wram, wmadd>> /\ length' = 1
      /\ Gamma("DecodeGamma", "CopyLiteral")
  BY DEF DecodeLiteral, fixed, output
<1>3. /\ Ahead(LitBits(i), LitNumber(i), 1)
      /\ IsNumber(LitNumber(i), LitSaid(i), 1)
  BY <1>1, LiteralsEncoded
<1>4. LengthSays(1, 1)'
  BY <1>2 DEF LengthSays
<1>5. PICK number : number = LitNumber(i)
  OBVIOUS
<1>6. Reading(number, 1, "CopyLiteral")'
  BY <1>1, <1>2, <1>3, <1>4, <1>5, StartsReading
<1>7. LitNumber(i)' = number /\ LitSaid(i)' # 0 /\ BeforeText(i)'
  BY <1>1, <1>2, <1>5, CommandKept, TextKept
<1> QED BY <1>6, <1>7 DEF ReadingLit

LEMMA DecodeMatchReuseStep ==
    ASSUME IInv, WellFormed(call), NEW i \in 1 .. Last,
           AtReuse(i), DecodeMatchReuse
    PROVE  ReadingReuse(i)'
<1>1. /\ CallOK(call) /\ BitsAt(CodeAt(i)) /\ Reusing(i) /\ Reuses(i)
      /\ stack = Frame
  BY InvFacts DEF AtReuse, Reusing, DecodeMatchReuse, Starts
<1>2. /\ UNCHANGED <<call, x, a, y, match, wram, wmadd>> /\ length' = 1
      /\ Gamma("DecodeGamma", "ReuseLenRead")
  BY DEF DecodeMatchReuse, fixed, output
<1>3. /\ Ahead(CodeAt(i), LenNumber(i), 1)
      /\ IsNumber(LenNumber(i), LenSaid(i), 1)
  BY <1>1, ReuseEncoded
<1>4. LengthSays(1, 1)'
  BY <1>2 DEF LengthSays
<1>5. PICK number : number = LenNumber(i)
  OBVIOUS
<1>6. Reading(number, 1, "ReuseLenRead")'
  BY <1>1, <1>2, <1>3, <1>4, <1>5, StartsReading
<1>7. LenNumber(i)' = number /\ Reusing(i)'
  BY <1>1, <1>2, <1>5, CommandKept, TextKept
<1> QED BY <1>6, <1>7 DEF ReadingReuse

LEMMA DecodeMatchNewStep ==
    ASSUME IInv, WellFormed(call), NEW i \in 1 .. Last,
           AtNew(i), DecodeMatchNew
    PROVE  ReadingHigh(i)'
<1>1. /\ CallOK(call) /\ BitsAt(CodeAt(i)) /\ ReadingNew(i) /\ ~Reuses(i)
      /\ stack = Frame /\ length \in Word
  BY InvFacts DEF AtNew, ReadingNew, DecodeMatchNew, Starts
<1>2. /\ UNCHANGED <<call, x, a, y, match, wram, wmadd>>
      /\ length' = SetLo(length, 254)
      /\ Gamma("DecodeGamma", "OffsetRead")
  BY DEF DecodeMatchNew, fixed, output
<1>3. /\ Ahead(CodeAt(i), HighNumber(i), 1)
      /\ IsNumber(HighNumber(i), HighSaid(i), 0)
  BY <1>1, HighEncoded
<1>4. LengthSays(1, 0)'
  <2>1. 254 \in Byte /\ (255 - 1) % 256 = 254 /\ 0 # 1
    BY SMT DEF Byte
  <2>2. Lo(length') = 254
    BY <1>1, <1>2, <2>1, BufferSet
  <2> QED BY <2>1, <2>2 DEF LengthSays
<1>5. PICK number : number = HighNumber(i)
  OBVIOUS
<1>6. Reading(number, 0, "OffsetRead")'
  BY <1>1, <1>2, <1>3, <1>4, <1>5, StartsReading
<1>7. HighNumber(i)' = number /\ ReadingNew(i)'
  BY <1>1, <1>2, <1>5, CommandKept, TextKept
<1> QED BY <1>6, <1>7 DEF ReadingHigh

-----------------------------------------------------------------------------
(* The literals; then a bit chooses the match. *)
LEMMA CopyLiteralStep ==
    ASSUME IInv, WellFormed(call), NEW i \in 1 .. Last,
           AtLiteral(i), CopyLiteral
    PROVE  /\ AtReuse(i)' \/ AtNew(i)'
           /\ Made(From(i))'
<1>1. /\ CallOK(call) /\ Spelled(call) /\ wmadd \in WramAddress
      /\ inBank = call.srcBank /\ y \in Word /\ length \in Word
      /\ LitSaid(i) # 0 /\ length = LitSaid(i)
      /\ BitsAt(EndOf(LitNumber(i))) /\ OddBits(Lo(a))
      /\ Made(call.out[i]) /\ y = After(call.out[i]) /\ LastOffset(i)
  BY InvFacts DEF AtLiteral, HasRead, BeforeText, MadeTo, LengthSays,
     WellFormed, CopyLiteral, AfterNumber
<1> DEFINE n == call.out[i]
           lit == LitSaid(i)
           end == EndOf(LitNumber(i))
           p == end.at
<1>2. /\ IsNumber(LitNumber(i), lit, 1) /\ p + lit <= Len(call.block)
      /\ \A j \in 1 .. lit : call.block[p + j] = call.plain[n + j]
      /\ TypeAt(i).at = p + lit /\ TypeAt(i).byte = end.byte
      /\ TypeAt(i).used = end.used /\ IsCursor(TypeAt(i))
  BY <1>1, LiteralsEncoded
<1>3. p \in Nat
  <2>1. IsCursor(end)
    BY <1>2, NumberType
  <2> HIDE DEF end
  <2> QED BY <1>1, <2>1, CursorType
<1>4. /\ n \in Nat /\ lit \in Nat /\ lit > 0 /\ n + lit <= Size
      /\ From(i) = n + lit
  <2>1. /\ n \in Nat /\ lit \in Nat /\ From(i) \in Nat /\ Size \in Nat
        /\ Script[i].len \in Nat /\ From(i) + Script[i].len <= Size
        /\ From(i) = n + lit
    BY <1>1, Places DEF LitSaid
  <2> QED BY SMT, <1>1, <2>1
<1>5. /\ call' = call /\ CopyRun(lit, PortAtY) /\ match' = match
      /\ y' = Adc(y, lit, 0)
      /\ ChooseType(Lo(a), AfterLiteral, "DecodeMatchReuse")
  BY <1>1 DEF CopyLiteral, AfterLiteral, BufferKept, fixed
<1>6. /\ Made(From(i))' /\ x' = Position(p + lit) /\ y' = After(From(i))
  <2>1. n' = n /\ lit' = lit /\ From(i)' = From(i)
    BY <1>5, CommandKept, PlacesKept
  <2>2. Made(n) /\ x = Position(p) /\ y = After(n)
    BY <1>1 DEF BitsAt
  <2> HIDE DEF n, lit, p
  <2>3. Made(n + lit)' /\ x' = Position(p + lit)
        /\ Adc(y, lit, 0) = After(n + lit)
    BY <1>1, <1>2, <1>3, <1>4, <1>5, <2>1, <2>2, LiteralRun
  <2> QED BY <1>4, <1>5, <2>1, <2>3
<1>7. MadeTo(From(i))'
  <2>1. After(From(i))' = After(From(i))
    <3>1. From(i)' = From(i) /\ \A k : After(k)' = After(k)
      BY <1>5, PlacesKept
    <3> QED BY <3>1
  <2> QED BY <1>6, <2>1 DEF MadeTo
<1>0. PICK cursor : cursor = TypeAt(i)
  OBVIOUS
<1>8. /\ IsCursor(cursor) /\ OddBits(Buffer(cursor))
      /\ ChooseType(Buffer(cursor), AfterLiteral, "DecodeMatchReuse")
      /\ x' = Position(cursor.at)
  <2>1. Buffer(cursor) = Buffer(end)
    BY <1>0, <1>2 DEF Buffer
  <2>2. Lo(a) = Buffer(end)
    BY <1>1 DEF BitsAt
  <2> QED BY <1>0, <1>1, <1>2, <1>5, <1>6, <2>1, <2>2
<1>9. AfterLiteral \in Word
  BY SMT, <1>1, AdcType DEF AfterLiteral, Bit
<1>10. CodeAt(i)' = Past(cursor)' /\ (Reuses(i)' <=> Reuses(i))
  BY <1>0, <1>5, CommandKept DEF CodeAt, Past
<1>11. CASE Reuses(i)
  <2>1. Says(cursor, 0) /\ Script[i].off = Format!Rep(Script, i)
    BY <1>0, <1>1, <1>11, ReuseEncoded
  <2>2. ThisOffset(i)'
    <3>1. ThisOffset(i)
      BY <1>1, <2>1 DEF ThisOffset, LastOffset
    <3>2. Script' = Script
      BY <1>5, PlacesKept
    <3> QED BY <1>5, <3>1, <3>2 DEF ThisOffset, Negated
  <2>3. pc' = "DecodeMatchReuse" /\ BitsAt(Past(cursor))'
    BY <1>1, <1>5, <1>8, <1>9, <2>1, TypeTaken
  <2> QED BY <1>6, <1>7, <1>10, <1>11, <2>2, <2>3 DEF AtReuse, Reusing
<1>12. CASE ~Reuses(i)
  <2>1. Says(cursor, 1)
    BY <1>0, <1>1, <1>12, HighEncoded
  <2>2. pc' = "DecodeMatchNew" /\ BitsAt(Past(cursor))'
    BY <1>1, <1>5, <1>8, <1>9, <2>1, TypeTaken
  <2> QED BY <1>6, <1>7, <1>10, <1>12, <2>2 DEF AtNew, ReadingNew
<1> QED BY <1>11, <1>12

-----------------------------------------------------------------------------
(* The buffer is put aside before a match; its length is one less than the *)
(* script's, as MVN has it.                                                *)
LEMMA MatchLength ==
    ASSUME CallOK(call), WellFormed(call), NEW i \in 1 .. Last, i # Last
    PROVE  /\ Wrap(Script[i].len - 1) = Script[i].len - 1
           /\ Script[i].len - 1 + 1 = Script[i].len
           /\ Script[i].len - 1 \in Word
<1> DEFINE len == Script[i].len
           from == From(i)
<1>1. len \in Nat /\ len > 0 /\ from \in Nat /\ Size \in Word /\ from + len <= Size
  BY Places
<1> HIDE DEF len, from
<1>2. len - 1 \in Word /\ len - 1 + 1 = len
  BY SMT, <1>1 DEF Word
<1>3. \A u \in Word : Wrap(u) = u
  BY SMT DEF Word, Wrap
<1> QED BY <1>2, <1>3 DEF len

LEMMA ReachesMatch ==
    ASSUME IInv, WellFormed(call), NEW i \in 1 .. Last, Matching(i),
           pc \in AfterNumber, SaveBuffer, pc' = "CopyMatch",
           BitsAt(EndOf(LenNumber(i))),
           call.start[i + 1] = EndOf(LenNumber(i)),
           length' + 1 = Script[i].len,
           UNCHANGED <<call, x, y, match, wram, wmadd>>
    PROVE  AtMatch(i)'
<1>1. SavedBuffer' = Lo(a)
  BY InvFacts, SaveBufferFrame
<1>2. PICK cursor : cursor = call.start[i + 1]
  OBVIOUS
<1>3. Lo(a) = Buffer(cursor) /\ x = Position(cursor.at)
  BY <1>2 DEF BitsAt
<1>4. /\ call.start[i + 1]' = cursor /\ Script' = Script
      /\ Buffer(cursor)' = Buffer(cursor)
      /\ Position(cursor.at)' = Position(cursor.at)
  BY <1>2, CommandKept, PlacesKept, CursorKept
<1>5. Matching(i)'
  BY TextKept
<1> QED BY <1>1, <1>3, <1>4, <1>5 DEF AtMatch

LEMMA ReuseLenReadStep ==
    ASSUME IInv, WellFormed(call), NEW i \in 1 .. Last,
           AtReuseLen(i), ReuseLenRead
    PROVE  AtMatch(i)'
<1>1. /\ CallOK(call) /\ Reuses(i) /\ Matching(i) /\ i # Last
      /\ length = LenSaid(i) /\ BitsAt(EndOf(LenNumber(i)))
  BY InvFacts DEF AtReuseLen, HasRead, LengthSays, Reusing, Matching, Reuses
<1>2. /\ LenSaid(i) = Script[i].len
      /\ call.start[i + 1] = EndOf(LenNumber(i))
  BY <1>1, ReuseEncoded
<1>3. /\ pc \in AfterNumber /\ SaveBuffer /\ pc' = "CopyMatch"
      /\ UNCHANGED <<call, x, y, match, wram, wmadd>>
      /\ length' = Wrap(length - 1)
  BY DEF ReuseLenRead, AfterNumber, ReusedLen, fixed, output
<1>4. length' + 1 = Script[i].len
  BY <1>1, <1>2, <1>3, MatchLength
<1> QED BY <1>1, <1>2, <1>3, <1>4, ReachesMatch

LEMMA MatchLenReadStep ==
    ASSUME IInv, WellFormed(call), NEW i \in 1 .. Last,
           AtLen(i), MatchLenRead
    PROVE  AtMatch(i)'
<1>1. /\ CallOK(call) /\ ~Reuses(i) /\ Matching(i) /\ i # Last
      /\ length = LenSaid(i) /\ BitsAt(EndOf(LenNumber(i)))
  BY InvFacts DEF AtLen, HasRead, LengthSays, WithNew, Matching
<1>2. /\ LenSaid(i) = Script[i].len - 1
      /\ call.start[i + 1] = EndOf(LenNumber(i))
  BY <1>1, NewEncoded
<1>3. /\ pc \in AfterNumber /\ SaveBuffer /\ pc' = "CopyMatch"
      /\ UNCHANGED <<call, x, y, match, wram, wmadd>>
      /\ length' = length
  BY DEF MatchLenRead, AfterNumber, fixed, output
<1>4. length' + 1 = Script[i].len
  BY <1>1, <1>2, <1>3, MatchLength
<1> QED BY <1>1, <1>2, <1>3, <1>4, ReachesMatch

-----------------------------------------------------------------------------
(* The two parts of an offset, and the word they are rotated into. *)
LEMMA OffsetWord ==
    ASSUME NEW off \in Nat, off >= 1, off <= Format!FARTHEST,
           NEW bit \in {0, 1}, NEW byte,
           byte = 2 * Format!LowPart(off) + bit
    PROVE  LET high == (((255 - Format!HighPart(off)) % 256) + 1) % 256
           IN  /\ high # 0 /\ byte % 2 = bit
               /\ 32768 + MakeWord(byte, high) \div 2 = Negated(off)
<1> DEFINE q == (off - 1) \div 128
           r == (off - 1) % 128
<1>1. /\ q \in Nat /\ r \in Nat /\ q < 255 /\ r < 128 /\ off - 1 = 128 * q + r
  BY SMT DEF Format!FARTHEST
<1>2. Format!HighPart(off) = q + 1 /\ Format!LowPart(off) = 127 - r
  BY DEF Format!HighPart, Format!LowPart
<1> HIDE DEF q, r
<1>3. (((255 - (q + 1)) % 256) + 1) % 256 = 255 - q /\ 255 - q # 0
  BY SMT, <1>1
<1>4. byte % 2 = bit
  BY SMT, <1>1, <1>2
<1>5. 32768 + ((255 - q) * 256 + byte) \div 2 = 65536 - off
  <2>1. ((255 - q) * 256 + byte) \div 2 = (255 - q) * 128 + (127 - r)
    BY SMT, <1>1, <1>2
  <2> QED BY SMT, <1>1, <2>1
<1> QED BY <1>2, <1>3, <1>4, <1>5 DEF MakeWord, Negated

(* The high part read: the end of the block, or the low part follows. *)
LEMMA OffsetReadStep ==
    ASSUME IInv, WellFormed(call), NEW i \in 1 .. Last,
           AtOffset(i), OffsetRead
    PROVE  ReadingLen(i)' \/ (pc' = "Done" /\ MadeTo(Size)')
<1>1. /\ CallOK(call) /\ Spelled(call) /\ ~Reuses(i) /\ MadeTo(From(i))
      /\ Lo(length) = (255 - HighSaid(i)) % 256
      /\ BitsAt(EndOf(HighNumber(i)))
      /\ OddBits(Lo(a)) /\ c = 1 /\ stack = Frame /\ db = call.srcBank
      /\ a \in Word /\ length \in Word /\ pc = "OffsetRead"
  <2>1. 0 # 1
    BY SMT
  <2> QED BY <2>1, InvFacts DEF AtOffset, HasRead, LengthSays, ReadingNew,
          WellFormed, OffsetRead, AfterNumber
<1>2. UNCHANGED <<call, y, wram, wmadd>>
  BY DEF OffsetRead, fixed, output
<1>3. From(i)' = From(i) /\ Size' = Size /\ Script' = Script /\ Last' = Last
      /\ (Reuses(i)' <=> Reuses(i)) /\ LenNumber(i)' = LenNumber(i)
  BY <1>2, PlacesKept, CommandKept
<1>4. MadeTo(From(i))'
  BY <1>1, <1>2, <1>3, MadeToKept
<1>5. High = (((255 - HighSaid(i)) % 256) + 1) % 256
  BY <1>1 DEF High
<1>6. CASE i = Last
  <2>1. High = 0
    <3>1. (((255 - 256) % 256) + 1) % 256 = 0
      BY SMT
    <3> QED BY <1>5, <1>6, <3>1 DEF HighSaid, Format!EOD
  <2>2. pc' = "Done"
    BY <2>1 DEF OffsetRead, EndOfData, WithOffset
  <2>3. From(i) = Size
    BY <1>1, <1>6, Places
  <2> QED BY <1>3, <1>4, <2>2, <2>3
<1>7. CASE i # Last
  <2> DEFINE low == EndOf(HighNumber(i))
  <2>1. /\ Script[i].off <= Format!FARTHEST
        /\ call.block[low.at + 1] = LowByte(i)
        /\ low.at + 1 <= Len(call.block)
        /\ LenNumber(i).past[1].at = low.at + 1
        /\ LenNumber(i).past[1].byte = low.byte
        /\ LenNumber(i).past[1].used = low.used
        /\ IsNumber(LenNumber(i), LenSaid(i), 1)
    BY <1>1, <1>7, NewEncoded
  <2>2. low.at \in Nat /\ low.at < Len(call.block)
        /\ low.at \in 0 .. Len(call.block) /\ Len(call.block) \in Nat
    <3>1. IsCursor(low)
      BY <1>1, HighEncoded, NumberType
    <3> HIDE DEF low
    <3>2. low.at \in Nat /\ Len(call.block) \in Nat
      BY <1>1, <3>1, CursorType
    <3> QED BY SMT, <2>1, <3>2
  <2>3. ReadByte = LowByte(i) /\ Wrap(x + 1) = Position(low.at + 1)
    <3>1. x = Position(low.at) /\ 1 \in Nat
      BY <1>1, SMT DEF BitsAt
    <3> HIDE DEF low
    <3> QED BY <1>1, <2>1, <2>2, <3>1, LoadByte, PositionType
  <2> DEFINE off == Script[i].off
             bit == Control(LenNumber(i), 1)
  <2>4. off \in Nat /\ off >= 1 /\ bit \in {0, 1}
    <3>1. off \in 1 .. From(i) /\ off \in Nat /\ From(i) \in Nat
      BY <1>1, <1>7, Places
    <3>2. bit \in {0, 1}
      BY DEF Control, Format!ControlBit
    <3> HIDE DEF off, bit
    <3> QED BY SMT, <3>1, <3>2
  <2>5. /\ High # 0 /\ ReadByte % 2 = bit
        /\ 32768 + MakeWord(ReadByte, High) \div 2 = Negated(off)
    <3>1. ReadByte = 2 * Format!LowPart(off) + bit
      BY <2>3 DEF LowByte
    <3>2. HighSaid(i) = Format!HighPart(off)
      BY <1>7 DEF HighSaid
    <3> HIDE DEF off, bit
    <3>3. off <= Format!FARTHEST
      BY <2>1 DEF off
    <3> QED BY <1>5, <2>4, <3>1, <3>2, <3>3, OffsetWord
  <2>6. WithOffset
    BY <2>5 DEF OffsetRead, EndOfData
  <2>7. match' = Negated(off)
    <3>1. c * 32768 = 32768
      BY SMT, <1>1
    <3> QED BY <2>5, <2>6, <3>1 DEF WithOffset, NewOffset
  <2>8. /\ c' = bit /\ x' = Position(low.at + 1) /\ length' = 1
        /\ pc' = "GammaCheckBit" /\ stack' = NumberFrame("MatchLenRead")
    BY <1>1, <2>3, <2>5, <2>6
    DEF WithOffset, SplitLength, Gamma, NumberFrame
  <2>9. Lo(a') = Buffer(low)
    <3>1. a' = SetLo(match', Lo(a)) /\ Lo(a) \in Byte
      BY <1>1, <2>6, HalfType DEF WithOffset
    <3>2. match' \in Word
      <4>1. off <= 32640
        BY <2>1 DEF Format!FARTHEST
      <4> HIDE DEF off
      <4> QED BY SMT, <2>4, <2>7, <4>1 DEF Negated, Word
    <3>3. Lo(a') = Lo(a)
      BY <3>1, <3>2, BufferSet
    <3> QED BY <1>1, <3>3 DEF BitsAt
  <2>10. PICK number : number = LenNumber(i)
    OBVIOUS
  <2>11. InTurn(number, 1)'
    <3>1. PICK data : data = number.past[1]
      OBVIOUS
    <3>2. /\ Buffer(data) = Buffer(low) /\ data.at = low.at + 1
      BY <2>1, <2>10, <3>1 DEF Buffer
    <3>3. /\ Buffer(data)' = Buffer(data)
          /\ Position(data.at)' = Position(data.at)
          /\ Control(number, 1)' = Control(number, 1)
      BY <1>2, CursorKept
    <3>4. BitsAt(data)'
      BY <2>8, <2>9, <3>2, <3>3 DEF BitsAt
    <3> QED BY <2>8, <2>10, <3>1, <3>3, <3>4 DEF InTurn, Unrolled
  <2>12. Reading(number, 1, "MatchLenRead")'
    <3>1. /\ 1 \in 1 .. Turns(number) /\ number.value[1] = 1
      BY <2>1, <2>10, NumberType
    <3>2. /\ Turns(number)' = Turns(number)
          /\ NumberFrame("MatchLenRead")' = NumberFrame("MatchLenRead")
      BY <1>2, CursorKept
    <3>3. LengthSays(1, 1)'
      BY <2>8 DEF LengthSays
    <3> QED BY <2>8, <2>11, <3>1, <3>2, <3>3 DEF Reading
  <2>13. WithNew(i)'
    BY <1>1, <1>3, <1>4, <1>7, <2>7 DEF WithNew, ThisOffset, Negated
  <2> QED BY <1>3, <2>10, <2>12, <2>13 DEF ReadingLen
<1> QED BY <1>6, <1>7

-----------------------------------------------------------------------------
(* The match. *)
LEMMA CopyMatchStep ==
    ASSUME IInv, WellFormed(call), NEW i \in 1 .. Last,
           AtMatch(i), CopyMatch
    PROVE  AtMove(i)'
<1>1. /\ CallOK(call) /\ Spelled(call) /\ db = call.srcBank
      /\ stack = BufferFrame(SavedBuffer)
      /\ SavedBuffer = Buffer(call.start[i + 1])
      /\ x = Position(call.start[i + 1].at) /\ MadeTo(From(i)) /\ i # Last
      /\ match = Negated(Script[i].off) /\ length + 1 = Script[i].len
      /\ y = After(From(i)) /\ ThisOffset(i) /\ Matching(i)
  BY InvFacts DEF WellFormed, AtMatch, Matching, ThisOffset, MadeTo, CopyMatch
<1>2. /\ From(i) \in Nat /\ Script[i].len \in Nat /\ Script[i].len > 0
      /\ From(i) + Script[i].len <= Size /\ Size \in Nat /\ Size \in Word
      /\ Script[i].off \in 1 .. From(i)
  BY <1>1, Places
<1>3. MatchSource = call.dst + From(i) - Script[i].off
  <2> DEFINE from == From(i)
             off == Script[i].off
             dst == call.dst
             len == Script[i].len
  <2>1. from \in Nat /\ len \in Nat /\ len > 0 /\ off \in 1 .. from
        /\ from + len <= Size /\ Size \in Nat /\ Size \in Word
    BY <1>2
  <2>2. dst \in Nat /\ dst + Size - 1 \in Word \cup {-1}
    BY <1>1, SizeType
  <2> HIDE DEF from, off, dst, len
  <2>3. from \in 0 .. Size /\ from < Size
    BY SMT, <2>1
  <2>4. After(from) = dst + from
    BY <1>1, <2>3, AfterType DEF dst
  <2>5. /\ dst + from \in Nat /\ (dst + from) - off \in Word
        /\ (dst + from) - off = dst + from - off
    BY SMT, <2>1, <2>2, <2>3 DEF Word
  <2>6. \A v \in Nat, u \in Nat : v - u \in Word
            => Wrap(v + (65536 - u) + 0) = v - u
    BY SMT DEF Word, Wrap
  <2>7. off \in Nat
    BY SMT, <2>1
  <2>8. Adc(After(from), 65536 - off, 0) = dst + from - off
    <3> DEFINE at == dst + from
    <3>1. at \in Nat /\ at - off \in Word /\ After(from) = at
      BY Zenon, <2>4, <2>5
    <3> HIDE DEF at
    <3>2. Adc(After(from), 65536 - off, 0) = at - off
      BY <2>6, <2>7, <3>1 DEF Adc
    <3> QED BY <2>5, <3>2 DEF at
  <2> QED BY <1>1, <2>8 DEF MatchSource, Negated, from, off, dst
<1>4. UNCHANGED <<call, y, match, wram, wmadd, tmp>>
  BY DEF CopyMatch, fixed, output, state
<1>5. /\ From(i)' = From(i) /\ Script' = Script /\ Last' = Last
      /\ ThisOffset(i)' /\ MadeTo(From(i))'
  BY <1>1, <1>4, TextKept, CommandKept, PlacesKept DEF Matching
<1>6. /\ SavedX' = x /\ Aside' = SavedBuffer
      /\ x' = MatchSource /\ a' = length /\ pc' = "BlockMove"
  <2>1. EnterMove(MatchSource, length)
    BY DEF CopyMatch
  <2> QED BY <1>1, <1>4, <2>1, EnterMoveAside DEF EnterMove
<1>7. BeyondMatch(i)'
  <2>1. PICK cursor : cursor = call.start[i + 1]
    OBVIOUS
  <2>2. /\ call.start[i + 1]' = cursor
        /\ Buffer(cursor)' = Buffer(cursor)
        /\ Position(cursor.at)' = Position(cursor.at)
    BY <1>4, <2>1, CommandKept, CursorKept
  <2> QED BY <1>1, <1>5, <1>6, <2>1, <2>2 DEF BeyondMatch
<1>8. call.dst' = call.dst
  BY <1>4
<1> QED BY <1>1, <1>3, <1>5, <1>6, <1>7, <1>8 DEF AtMove

LEMMA MoveStep ==
    ASSUME IInv, WellFormed(call), NEW i \in 1 .. Last, AtMove(i), Move
    PROVE  Moved(i)'
<1>1. /\ CallOK(call) /\ Spelled(call) /\ outBank = call.dstBank
      /\ a \in Word /\ i # Last /\ a + 1 = Script[i].len
      /\ x = call.dst + From(i) - Script[i].off /\ BeyondMatch(i)
      /\ Made(From(i)) /\ y = After(From(i)) /\ MoveBlock
      /\ ThisOffset(i)
  BY InvFacts DEF WellFormed, AtMove, BeyondMatch, MadeTo, Move
<1>2. /\ From(i) \in Nat /\ Script[i].len \in Nat /\ Script[i].len > 0
      /\ From(i) + Script[i].len <= Size
      /\ Script[i].off \in 1 .. From(i)
      /\ call.out[i + 1] = From(i) + Script[i].len
  BY <1>1, Places
<1>3. \A j \in 1 .. Script[i].len :
         call.plain[From(i) + j]
             = call.plain[From(i) - Script[i].off + 1
                          + ((j - 1) % Script[i].off)]
  <2> DEFINE n == From(i)
             cmd == Script[i]
  <2>1. Text!Copies(call.plain, n, cmd) /\ cmd.len > 0
    BY <1>1, <1>2, CommandType DEF Last
  <2> HIDE DEF n, cmd
  <2>2. \A j \in 1 .. cmd.len :
           call.plain[n + j]
               = call.plain[n - cmd.off + 1 + ((j - 1) % cmd.off)]
    BY Zenon, <2>1 DEF Text!Copies
  <2> QED BY Zenon, <2>2 DEF n, cmd
<1>4. UNCHANGED <<call, stack, match, tmp>> /\ pc' = "MatchCopied"
  BY <1>1 DEF Move, MoveBlock, fixed, state
<1>5. /\ From(i)' = From(i) /\ call.out[i + 1]' = call.out[i + 1]
      /\ Script' = Script /\ Last' = Last /\ \A n : After(n)' = After(n)
  BY <1>4, PlacesKept, CommandKept
<1>6. MadeTo(call.out[i + 1])'
  <2> DEFINE n == From(i)
             k == Script[i].len
             off == Script[i].off
  <2>1. /\ n \in Nat /\ k \in Nat /\ k > 0 /\ n + k <= Size /\ off \in 1 .. n
        /\ \A j \in 1 .. k :
              call.plain[n + j] = call.plain[n - off + 1 + ((j - 1) % off)]
        /\ Made(n) /\ x = call.dst + n - off /\ y = After(n) /\ a + 1 = k
    BY <1>1, <1>2, <1>3
  <2>2. n' = n /\ k' = k /\ call.out[i + 1]' = n + k
    BY <1>2, <1>5
  <2> HIDE DEF n, k, off
  <2>3. Made(n + k)' /\ y' = After(n + k)
    BY <1>1, <2>1, <2>2, MatchRun
  <2>4. \A l : After(l)' = After(l)
    BY <1>5
  <2> QED BY <2>2, <2>3, <2>4 DEF MadeTo
<1>7. BeyondMatch(i)'
  <2>1. PICK cursor : cursor = call.start[i + 1]
    OBVIOUS
  <2>2. /\ call.start[i + 1]' = cursor
        /\ Buffer(cursor)' = Buffer(cursor)
        /\ Position(cursor.at)' = Position(cursor.at)
    BY <1>4, <2>1, CommandKept, CursorKept
  <2>3. Aside' = Aside /\ SavedX' = SavedX
    BY <1>4 DEF Aside, SavedX
  <2>4. ThisOffset(i)'
    BY <1>1, <1>4, <1>5 DEF ThisOffset, Negated
  <2> QED BY <1>1, <1>5, <2>1, <2>2, <2>3, <2>4 DEF BeyondMatch
<1> QED BY <1>4, <1>6, <1>7 DEF Moved

LEMMA MatchCopiedStep ==
    ASSUME IInv, WellFormed(call), NEW i \in 1 .. Last,
           Moved(i), MatchCopied
    PROVE  i + 1 \in 1 .. Last /\ AtType(i + 1)'
<1>1. /\ CallOK(call) /\ i # Last /\ ThisOffset(i)
      /\ SavedX \in Word /\ stack = MovingFrame(Aside, SavedX)
      /\ Aside = Buffer(call.start[i + 1])
      /\ SavedX = Position(call.start[i + 1].at)
      /\ MadeTo(call.out[i + 1])
  BY InvFacts DEF Moved, BeyondMatch, Moving
<1>2. /\ i + 1 \in 1 .. Last /\ i + 1 # 1 /\ (i + 1) - 1 = i
  <2>1. i + 1 \in 1 .. Last /\ i \in Nat /\ i \in 1 .. Last
    BY <1>1, Places
  <2> QED BY SMT, <2>1
<1>3. /\ UNCHANGED <<call, y, match, wram, wmadd, tmp>> /\ pc' = "TypeBit"
      /\ LeaveMove
  BY DEF MatchCopied, fixed, output, state
<1>4. x' = SavedX /\ SavedBuffer' = Aside
  BY <1>1, <1>3, LeaveMoveAside
<1>5. PICK cursor : cursor = call.start[i + 1]
  OBVIOUS
<1>6. /\ call.start[i + 1]' = cursor
      /\ Buffer(cursor)' = Buffer(cursor)
      /\ Position(cursor.at)' = Position(cursor.at)
  BY <1>3, <1>5, CommandKept, CursorKept
<1>7. BeforeText(i + 1)'
  <2>1. /\ call.out[i + 1]' = call.out[i + 1] /\ Script' = Script
    BY <1>3, CommandKept, PlacesKept
  <2>2. MadeTo(call.out[i + 1])'
    BY <1>1, <1>3, <2>1, MadeToKept
  <2>3. Format!Rep(Script, i + 1)' = Script[i].off
    BY <1>2, <2>1 DEF Format!Rep
  <2> QED BY <1>1, <1>3, <2>2, <2>3 DEF BeforeText, LastOffset, ThisOffset, Negated
<1> QED BY <1>1, <1>2, <1>3, <1>4, <1>5, <1>6, <1>7 DEF AtType

-----------------------------------------------------------------------------
(* What the decoding of a number leaves alone, and where it leads. *)
LEMMA ReadsKept ==
    ASSUME Reads
    PROVE  /\ UNCHANGED <<call, y, match, wram, wmadd>>
           /\ pc \in Gammas
<1>1. UNCHANGED <<call, y, match, wram, wmadd>>
  BY DEF Reads, DecodeGamma, GammaCheckBit, GammaAddBit, GammaBit2, GammaBit3,
     GammaBit4, UnrolledBit, GammaFillBuffer, fixed, output
<1>2. pc \in Gammas
  BY DEF Reads, DecodeGamma, GammaCheckBit, GammaAddBit, GammaBit2, GammaBit3,
     GammaBit4, UnrolledBit, GammaFillBuffer, Gammas, Unrolled
<1> QED BY <1>1, <1>2

LEMMA ReadingLitStep ==
    ASSUME IInv, WellFormed(call), NEW i \in 1 .. Last, ReadingLit(i), Reads
    PROVE  ReadingLit(i)' \/ AtLiteral(i)'
<1>1. CallOK(call) /\ Spelled(call) /\ LitSaid(i) # 0 /\ BeforeText(i)
      /\ UNCHANGED <<call, y, match, wram, wmadd>>
  BY InvFacts, ReadsKept DEF WellFormed, ReadingLit
<1>2. PICK number : number = LitNumber(i)
  OBVIOUS
<1>3. PICK n : n = LitSaid(i)
  OBVIOUS
<1>4. IsNumber(number, n, 1) /\ Reading(number, 1, "CopyLiteral")
  BY <1>1, <1>2, <1>3, LiteralsEncoded DEF ReadingLit
<1>5. Reading(number, 1, "CopyLiteral")' \/ HasRead(number, n, 1, "CopyLiteral")'
  BY <1>1, <1>4, ReadingStep
<1>6. LitNumber(i)' = number /\ LitSaid(i)' = n /\ BeforeText(i)'
  BY <1>1, <1>2, <1>3, CommandKept, TextKept
<1> QED BY <1>1, <1>3, <1>5, <1>6 DEF ReadingLit, AtLiteral

LEMMA ReadingReuseStep ==
    ASSUME IInv, WellFormed(call), NEW i \in 1 .. Last, ReadingReuse(i), Reads
    PROVE  ReadingReuse(i)' \/ AtReuseLen(i)'
<1>1. CallOK(call) /\ Spelled(call) /\ Reuses(i) /\ Reusing(i)
      /\ UNCHANGED <<call, y, match, wram, wmadd>>
  BY InvFacts, ReadsKept DEF WellFormed, ReadingReuse, Reusing
<1>2. PICK number : number = LenNumber(i)
  OBVIOUS
<1>3. PICK n : n = LenSaid(i)
  OBVIOUS
<1>4. IsNumber(number, n, 1) /\ Reading(number, 1, "ReuseLenRead")
  BY <1>1, <1>2, <1>3, ReuseEncoded DEF ReadingReuse
<1>5. Reading(number, 1, "ReuseLenRead")' \/ HasRead(number, n, 1, "ReuseLenRead")'
  BY <1>1, <1>4, ReadingStep
<1>6. LenNumber(i)' = number /\ LenSaid(i)' = n /\ Reusing(i)'
  BY <1>1, <1>2, <1>3, CommandKept, TextKept
<1> QED BY <1>5, <1>6 DEF ReadingReuse, AtReuseLen

LEMMA ReadingHighStep ==
    ASSUME IInv, WellFormed(call), NEW i \in 1 .. Last, ReadingHigh(i), Reads
    PROVE  ReadingHigh(i)' \/ AtOffset(i)'
<1>1. CallOK(call) /\ Spelled(call) /\ ~Reuses(i) /\ ReadingNew(i)
      /\ UNCHANGED <<call, y, match, wram, wmadd>>
  BY InvFacts, ReadsKept DEF WellFormed, ReadingHigh, ReadingNew
<1>2. PICK number : number = HighNumber(i)
  OBVIOUS
<1>3. PICK n : n = HighSaid(i)
  OBVIOUS
<1>4. IsNumber(number, n, 0) /\ Reading(number, 0, "OffsetRead")
  BY <1>1, <1>2, <1>3, HighEncoded DEF ReadingHigh
<1>5. Reading(number, 0, "OffsetRead")' \/ HasRead(number, n, 0, "OffsetRead")'
  BY <1>1, <1>4, ReadingStep
<1>6. HighNumber(i)' = number /\ HighSaid(i)' = n /\ ReadingNew(i)'
  BY <1>1, <1>2, <1>3, CommandKept, TextKept
<1> QED BY <1>5, <1>6 DEF ReadingHigh, AtOffset

LEMMA ReadingLenStep ==
    ASSUME IInv, WellFormed(call), NEW i \in 1 .. Last, ReadingLen(i), Reads
    PROVE  ReadingLen(i)' \/ AtLen(i)'
<1>1. CallOK(call) /\ Spelled(call) /\ i # Last /\ ~Reuses(i) /\ WithNew(i)
      /\ UNCHANGED <<call, y, match, wram, wmadd>>
  BY InvFacts, ReadsKept DEF WellFormed, ReadingLen, WithNew
<1>2. PICK number : number = LenNumber(i)
  OBVIOUS
<1>3. PICK n : n = LenSaid(i)
  OBVIOUS
<1>4. IsNumber(number, n, 1) /\ Reading(number, 1, "MatchLenRead")
  BY <1>1, <1>2, <1>3, NewEncoded DEF ReadingLen
<1>5. Reading(number, 1, "MatchLenRead")' \/ HasRead(number, n, 1, "MatchLenRead")'
  BY <1>1, <1>4, ReadingStep
<1>6. LenNumber(i)' = number /\ LenSaid(i)' = n /\ WithNew(i)'
  BY <1>1, <1>2, <1>3, CommandKept, TextKept
<1> QED BY <1>5, <1>6 DEF ReadingLen, AtLen

-----------------------------------------------------------------------------
(* A routine that decodes stays one that does, whatever the step.          *)

(* The label tells which part of the command it is, but for the numbers.   *)
LEMMA StageLabels ==
    ASSUME NEW i
    PROVE  /\ AtType(i) => pc = "TypeBit"
           /\ AtLitCode(i) => pc = "DecodeLiteral"
           /\ AtLiteral(i) => pc = "CopyLiteral"
           /\ AtReuse(i) => pc = "DecodeMatchReuse"
           /\ AtReuseLen(i) => pc = "ReuseLenRead"
           /\ AtNew(i) => pc = "DecodeMatchNew"
           /\ AtOffset(i) => pc = "OffsetRead"
           /\ AtLen(i) => pc = "MatchLenRead"
           /\ AtMatch(i) => pc = "CopyMatch"
           /\ AtMove(i) => pc = "BlockMove"
           /\ Moved(i) => pc = "MatchCopied"
           /\ ReadingLit(i) \/ ReadingReuse(i) \/ ReadingHigh(i)
                 \/ ReadingLen(i) => pc \in Gammas
<1>1. ASSUME NEW number, NEW one, NEW next, Reading(number, one, next)
      PROVE  pc \in Gammas
  BY <1>1 DEF Reading, InTurn, Gammas, Unrolled
<1>2. /\ AtLiteral(i) => pc = "CopyLiteral"
      /\ AtReuseLen(i) => pc = "ReuseLenRead"
      /\ AtOffset(i) => pc = "OffsetRead"
      /\ AtLen(i) => pc = "MatchLenRead"
  BY DEF AtLiteral, AtReuseLen, AtOffset, AtLen, HasRead
<1>3. /\ AtType(i) => pc = "TypeBit"
      /\ AtLitCode(i) => pc = "DecodeLiteral"
      /\ AtReuse(i) => pc = "DecodeMatchReuse"
      /\ AtNew(i) => pc = "DecodeMatchNew"
      /\ AtMatch(i) => pc = "CopyMatch"
      /\ AtMove(i) => pc = "BlockMove"
      /\ Moved(i) => pc = "MatchCopied"
  BY DEF AtType, AtLitCode, AtReuse, AtNew, AtMatch, AtMove, Moved
<1>4. ReadingLit(i) \/ ReadingReuse(i) \/ ReadingHigh(i) \/ ReadingLen(i)
         => pc \in Gammas
  BY <1>1 DEF ReadingLit, ReadingReuse, ReadingHigh, ReadingLen
<1> QED BY <1>2, <1>3, <1>4

LEMMA StageIs ==
    ASSUME Decoding
    PROVE  /\ pc \notin {"Main", "Setup", "Done", "Idle"}
                 => \E i \in 1 .. Last : InCommand(i)
           /\ pc \in {"Done", "Idle"} => MadeTo(Size)
           /\ pc \in {"Main", "Setup"} => NothingWritten
           /\ pc = "Setup" => x = call.src
<1>1. ASSUME NEW i, InCommand(i)
      PROVE  pc \notin {"Main", "Setup", "Done", "Idle"}
  BY <1>1, StageLabels DEF InCommand, Gammas, Unrolled
<1> QED BY <1>1 DEF Decoding

(* A routine that stands still stays where it is. *)
LEMMA ReadingKept ==
    ASSUME UNCHANGED vars, NEW number, NEW n, NEW one, NEW next
    PROVE  /\ Reading(number, one, next) => Reading(number, one, next)'
           /\ HasRead(number, n, one, next) => HasRead(number, n, one, next)'
<1>1. UNCHANGED <<call, pc, x, a, c, stack, length>>
  BY DEF vars, common, state
<1>2. /\ \A cursor : Buffer(cursor)' = Buffer(cursor)
      /\ \A cursor : Position(cursor.at)' = Position(cursor.at)
      /\ \A cursor, k : Ahead(cursor, number, k)' <=> Ahead(cursor, number, k)
      /\ NumberFrame(next)' = NumberFrame(next)
      /\ Turns(number)' = Turns(number)
      /\ EndOf(number)' = EndOf(number)
      /\ \A k : Control(number, k)' = Control(number, k)
  BY <1>1, CursorKept
<1>3. \A cursor : BitsAt(cursor) => BitsAt(cursor)'
  BY <1>1, <1>2 DEF BitsAt
<1>4. \A v : LengthSays(v, one) => LengthSays(v, one)'
  BY <1>1 DEF LengthSays
<1>5. ASSUME NEW k, InTurn(number, k) PROVE InTurn(number, k)'
  BY <1>1, <1>2, <1>3, <1>5 DEF InTurn, Unrolled
<1>6. Reading(number, one, next) => Reading(number, one, next)'
  BY <1>1, <1>2, <1>4, <1>5 DEF Reading
<1>7. ASSUME HasRead(number, n, one, next) PROVE HasRead(number, n, one, next)'
  <2>1. PICK end : end = EndOf(number)
    OBVIOUS
  <2>2. BitsAt(end)' /\ EndOf(number)' = end
    BY <1>2, <1>3, <1>7, <2>1 DEF HasRead
  <2> QED BY <1>1, <1>4, <1>7, <2>2 DEF HasRead
<1> QED BY <1>6, <1>7

LEMMA InCommandKept ==
    ASSUME NEW i, InCommand(i), UNCHANGED vars
    PROVE  InCommand(i)'
<1>1. UNCHANGED <<call, pc, x, y, a, c, stack, match, wram, wmadd, length, tmp>>
  BY DEF vars, common, state
<1>2. PICK lit, high, len, litSaid, highSaid, lenSaid, code, bits, from, next :
         /\ lit = LitNumber(i) /\ high = HighNumber(i) /\ len = LenNumber(i)
         /\ litSaid = LitSaid(i) /\ highSaid = HighSaid(i)
         /\ lenSaid = LenSaid(i) /\ code = CodeAt(i) /\ bits = LitBits(i)
         /\ from = call.start[i] /\ next = call.start[i + 1]
  OBVIOUS
<1>3. /\ LitNumber(i)' = lit /\ HighNumber(i)' = high /\ LenNumber(i)' = len
      /\ LitSaid(i)' = litSaid /\ HighSaid(i)' = highSaid
      /\ LenSaid(i)' = lenSaid /\ CodeAt(i)' = code /\ LitBits(i)' = bits
      /\ call.start[i]' = from /\ call.start[i + 1]' = next
      /\ call.out[i + 1]' = call.out[i + 1] /\ From(i)' = From(i)
      /\ Script' = Script /\ Last' = Last
  BY <1>1, <1>2, CommandKept, PlacesKept
<1>4. /\ BeforeText(i) => BeforeText(i)'
      /\ Reusing(i) => Reusing(i)'
      /\ ReadingNew(i) => ReadingNew(i)'
      /\ WithNew(i) => WithNew(i)'
      /\ Matching(i) => Matching(i)'
      /\ ThisOffset(i) => ThisOffset(i)'
  BY <1>1, TextKept
<1>5. \A cursor : /\ Buffer(cursor)' = Buffer(cursor)
                  /\ Position(cursor.at)' = Position(cursor.at)
  BY <1>1, CursorKept
<1>6. \A cursor : BitsAt(cursor) => BitsAt(cursor)'
  BY <1>1, <1>5 DEF BitsAt
<1>7. \A number, n, one, label :
         /\ Reading(number, one, label) => Reading(number, one, label)'
         /\ HasRead(number, n, one, label) => HasRead(number, n, one, label)'
  BY ReadingKept
<1>8. ASSUME NEW n, MadeTo(n) PROVE MadeTo(n)'
  BY <1>1, <1>8, MadeToKept
<1>9. SavedBuffer' = SavedBuffer /\ Aside' = Aside /\ SavedX' = SavedX
  BY <1>1 DEF SavedBuffer, Aside, SavedX
<1>10. BeyondMatch(i) => BeyondMatch(i)'
  BY <1>2, <1>3, <1>4, <1>5, <1>9 DEF BeyondMatch
<1>11. AtType(i) => AtType(i)'
  BY <1>1, <1>2, <1>3, <1>4, <1>5, <1>9 DEF AtType
<1>12. AtLitCode(i) => AtLitCode(i)'
  BY <1>1, <1>2, <1>3, <1>4, <1>6 DEF AtLitCode
<1>13. ReadingLit(i) => ReadingLit(i)'
  BY <1>2, <1>3, <1>4, <1>7 DEF ReadingLit
<1>14. AtLiteral(i) => AtLiteral(i)'
  BY <1>2, <1>3, <1>4, <1>7 DEF AtLiteral
<1>15. AtReuse(i) => AtReuse(i)'
  BY <1>1, <1>2, <1>3, <1>4, <1>6 DEF AtReuse
<1>16. ReadingReuse(i) => ReadingReuse(i)'
  BY <1>2, <1>3, <1>4, <1>7 DEF ReadingReuse
<1>17. AtReuseLen(i) => AtReuseLen(i)'
  BY <1>2, <1>3, <1>4, <1>7 DEF AtReuseLen
<1>18. AtNew(i) => AtNew(i)'
  BY <1>1, <1>2, <1>3, <1>4, <1>6 DEF AtNew
<1>19. ReadingHigh(i) => ReadingHigh(i)'
  BY <1>2, <1>3, <1>4, <1>7 DEF ReadingHigh
<1>20. AtOffset(i) => AtOffset(i)'
  BY <1>2, <1>3, <1>4, <1>7 DEF AtOffset
<1>21. ReadingLen(i) => ReadingLen(i)'
  BY <1>2, <1>3, <1>4, <1>7 DEF ReadingLen
<1>22. AtLen(i) => AtLen(i)'
  BY <1>2, <1>3, <1>4, <1>7 DEF AtLen
<1>23. AtMatch(i) => AtMatch(i)'
  BY <1>1, <1>2, <1>3, <1>4, <1>5, <1>9 DEF AtMatch
<1>24. AtMove(i) => AtMove(i)'
  <2>1. MadeTo(From(i)) => MadeTo(From(i))'
    BY <1>3, <1>8
  <2> QED BY <1>1, <1>3, <1>10, <2>1 DEF AtMove
<1>25. Moved(i) => Moved(i)'
  BY <1>1, <1>3, <1>8, <1>10 DEF Moved
<1> QED BY <1>11, <1>12, <1>13, <1>14, <1>15, <1>16, <1>17, <1>18, <1>19,
           <1>20, <1>21, <1>22, <1>23, <1>24, <1>25 DEF InCommand

(* The exit returns to Main, with the length between Y and the start. *)
LEMMA DoneLeaves ==
    ASSUME IInv, Done
    PROVE  /\ pc' = "Idle" /\ UNCHANGED <<call, y, wram, wmadd>>
           /\ RETLEN => x' = Sbc(y, call.dst)
<1>1. stack = BufferFrame(SavedBuffer) /\ c = 1 /\ CommonTypeOK
      /\ y \in Word /\ a \in Word /\ x \in Word
  BY DEF Done, IInv, StackShape, Bits, TypeOK, CommonTypeOK
<1>2. UnwoundBuffer = Frame
  <2>1. UnwoundBuffer = IF INLINE = 0 THEN Pop(BufferFrame(SavedBuffer))
                        ELSE BufferFrame(SavedBuffer)
    BY <1>1 DEF UnwoundBuffer
  <2> QED BY <2>1, BufferOff
<1>3. Wrap(y - (1 - c)) = y
  BY SMT, <1>1 DEF Wrap, Word
<1>4. LeaveRoutine(Frame, y)
  BY <1>2, <1>3 DEF Done
<1>5. pc' = "Idle" /\ (RETLEN => x' = Sbc(y, call.dst))
  BY <1>1, <1>4, LeaveFrame
<1> QED BY <1>5 DEF Done, output

LEMMA DecodingStep == IInv /\ Decoding /\ [Next]_vars => Decoding'
<1> SUFFICES ASSUME IInv, Decoding, [Next]_vars PROVE Decoding'
  OBVIOUS
<1>1. WellFormed(call) /\ call' = call /\ CallOK(call)
  BY CallKept, InvFacts DEF Decoding
<1>2. WellFormed(call)'
  BY <1>1 DEF WellFormed, Spelled
<1>3. Script' = Script /\ Size' = Size /\ Last' = Last
  BY <1>1, PlacesKept DEF Last
<1>4. ASSUME NEW i \in 1 .. Last, InCommand(i)' PROVE Decoding'
  BY <1>2, <1>3, <1>4 DEF Decoding
<1>5. CASE Main
  <2>1. pc = "Main" /\ NothingWritten
    BY <1>5, StageIs DEF Main, CallRoutine
  <2>2. /\ pc' = "Setup" /\ wram' = wram /\ x' = call.src
    BY <1>5 DEF Main, CallRoutine, output
  <2> QED BY <1>1, <1>2, <2>1, <2>2 DEF Decoding, NothingWritten
<1>6. CASE Setup
  <2>1. pc = "Setup" /\ NothingWritten /\ x = call.src
    BY <1>6, StageIs DEF Setup
  <2>2. 1 \in 1 .. Last /\ AtLitCode(1)'
    BY <1>1, <1>6, <2>1, SetupStep
  <2>3. InCommand(1)'
    BY <2>2 DEF InCommand
  <2> QED BY <1>4, <2>2, <2>3
<1>7. CASE Reads
  <2>1. pc \in Gammas
    BY <1>7, ReadsKept
  <2>2. PICK i \in 1 .. Last : InCommand(i)
    BY <2>1, StageIs DEF Gammas, Unrolled
  <2>3. ReadingLit(i) \/ ReadingReuse(i) \/ ReadingHigh(i) \/ ReadingLen(i)
    BY <2>1, <2>2, StageLabels DEF InCommand, Gammas, Unrolled
  <2>4. InCommand(i)'
    BY <1>1, <1>7, <2>3, ReadingLitStep, ReadingReuseStep, ReadingHighStep,
       ReadingLenStep
    DEF InCommand
  <2> QED BY <1>4, <2>4
<1>8. CASE \/ DecodeLiteral \/ CopyLiteral \/ DecodeMatchReuse \/ ReuseLenRead
           \/ DecodeMatchNew \/ OffsetRead \/ MatchLenRead \/ CopyMatch \/ Move
           \/ MatchCopied \/ TypeBit
  <2>1. pc \notin {"Main", "Setup", "Done", "Idle"} \cup Gammas
    BY <1>8 DEF DecodeLiteral, CopyLiteral, DecodeMatchReuse, ReuseLenRead,
       DecodeMatchNew, OffsetRead, MatchLenRead, CopyMatch, Move, MoveBlock,
       MatchCopied, TypeBit, Gammas, Unrolled
  <2>2. PICK i \in 1 .. Last : InCommand(i)
    BY <2>1, StageIs
  <2>3. \/ AtType(i) \/ AtLitCode(i) \/ AtLiteral(i) \/ AtReuse(i)
        \/ AtReuseLen(i) \/ AtNew(i) \/ AtOffset(i) \/ AtLen(i)
        \/ AtMatch(i) \/ AtMove(i) \/ Moved(i)
    BY <2>1, <2>2, StageLabels DEF InCommand
  <2>4. CASE DecodeLiteral
    <3>1. AtLitCode(i)
      BY <2>3, <2>4, StageLabels DEF DecodeLiteral
    <3> QED BY <1>1, <1>4, <2>4, <3>1, DecodeLiteralStep DEF InCommand
  <2>5. CASE CopyLiteral
    <3>1. AtLiteral(i)
      BY <2>3, <2>5, StageLabels DEF CopyLiteral
    <3> QED BY <1>1, <1>4, <2>5, <3>1, CopyLiteralStep DEF InCommand
  <2>6. CASE DecodeMatchReuse
    <3>1. AtReuse(i)
      BY <2>3, <2>6, StageLabels DEF DecodeMatchReuse
    <3> QED BY <1>1, <1>4, <2>6, <3>1, DecodeMatchReuseStep DEF InCommand
  <2>7. CASE ReuseLenRead
    <3>1. AtReuseLen(i)
      BY <2>3, <2>7, StageLabels DEF ReuseLenRead
    <3> QED BY <1>1, <1>4, <2>7, <3>1, ReuseLenReadStep DEF InCommand
  <2>8. CASE DecodeMatchNew
    <3>1. AtNew(i)
      BY <2>3, <2>8, StageLabels DEF DecodeMatchNew
    <3> QED BY <1>1, <1>4, <2>8, <3>1, DecodeMatchNewStep DEF InCommand
  <2>9. CASE OffsetRead
    <3>1. AtOffset(i)
      BY <2>3, <2>9, StageLabels DEF OffsetRead
    <3>2. ReadingLen(i)' \/ (pc' = "Done" /\ MadeTo(Size)')
      BY <1>1, <2>9, <3>1, OffsetReadStep
    <3>3. CASE pc' = "Done" /\ MadeTo(Size)'
      BY <1>2, <3>3 DEF Decoding
    <3> QED BY <1>4, <3>2, <3>3 DEF InCommand
  <2>10. CASE MatchLenRead
    <3>1. AtLen(i)
      BY <2>3, <2>10, StageLabels DEF MatchLenRead
    <3> QED BY <1>1, <1>4, <2>10, <3>1, MatchLenReadStep DEF InCommand
  <2>11. CASE CopyMatch
    <3>1. AtMatch(i)
      BY <2>3, <2>11, StageLabels DEF CopyMatch
    <3> QED BY <1>1, <1>4, <2>11, <3>1, CopyMatchStep DEF InCommand
  <2>12. CASE Move
    <3>1. AtMove(i)
      BY <2>3, <2>12, StageLabels DEF Move, MoveBlock
    <3> QED BY <1>1, <1>4, <2>12, <3>1, MoveStep DEF InCommand
  <2>13. CASE MatchCopied
    <3>1. Moved(i)
      BY <2>3, <2>13, StageLabels DEF MatchCopied
    <3>2. i + 1 \in 1 .. Last /\ InCommand(i + 1)'
      BY <1>1, <2>13, <3>1, MatchCopiedStep DEF InCommand
    <3> QED BY <1>4, <3>2
  <2>14. CASE TypeBit
    <3>1. AtType(i)
      BY <2>3, <2>14, StageLabels DEF TypeBit
    <3> QED BY <1>1, <1>4, <2>14, <3>1, TypeBitStep DEF InCommand
  <2> QED BY <1>8, <2>4, <2>5, <2>6, <2>7, <2>8, <2>9, <2>10, <2>11, <2>12,
             <2>13, <2>14
<1>9. CASE Done
  <2>1. MadeTo(Size)
    BY <1>9, StageIs DEF Done
  <2>2. pc' = "Idle" /\ UNCHANGED <<call, y, wram, wmadd>>
    BY <1>9, DoneLeaves
  <2>3. MadeTo(Size)'
    BY <1>3, <2>1, <2>2, MadeToKept
  <2> QED BY <1>2, <2>2, <2>3 DEF Decoding
<1>10. CASE UNCHANGED vars
  <2>1. UNCHANGED <<pc, x, y, wram, wmadd>>
    BY <1>10 DEF vars, common
  <2>2. CASE pc \in {"Done", "Idle"}
    <3>1. MadeTo(Size)'
      BY <1>1, <1>3, <2>1, <2>2, StageIs, MadeToKept
    <3> QED BY <1>2, <2>1, <2>2, <3>1 DEF Decoding
  <2>3. CASE pc \in {"Main", "Setup"}
    BY <1>1, <1>2, <2>1, <2>3, StageIs DEF Decoding, NothingWritten
  <2>4. CASE pc \notin {"Main", "Setup", "Done", "Idle"}
    BY <1>4, <1>10, <2>1, <2>4, StageIs, InCommandKept
  <2> QED BY <2>2, <2>3, <2>4
<1>11. CASE Wai
  BY <1>10, <1>11 DEF Wai, Idle, vars
<1> QED BY <1>5, <1>6, <1>7, <1>8, <1>9, <1>10, <1>11 DEF Next, Reads

LEMMA DecodingInit == Init /\ WellFormed(call) => Decoding
BY DEF Init, RoutineInit, Decoding, NothingWritten

(* On every well-formed block the routine is, at each label, at the bit of *)
(* the script the bit buffer and X say, with the text up to there and      *)
(* nothing else written.                                                   *)
THEOREM DecodesInStep ==
    ASSUME \A r \in Calls : WellFormed(r)
    PROVE  Spec => [](IInv /\ Decoding)
<1>1. Init => IInv /\ Decoding
  BY InitInv, DecodingInit DEF Init, RoutineInit
<1>2. IInv /\ Decoding /\ [Next]_vars => (IInv /\ Decoding)'
  BY StepInv, DecodingStep
<1> QED BY <1>1, <1>2, PTL DEF Spec

LEMMA MadeWhere ==
    ASSUME Decoding, pc \notin {"Main", "Setup"}
    PROVE  \E n : MadeTo(n)
<1>1. CASE pc \in {"Done", "Idle"}
  BY <1>1, StageIs
<1>2. CASE pc \notin {"Done", "Idle"}
  <2>1. PICK i \in 1 .. Last : InCommand(i)
    BY <1>2, StageIs
  <2> QED BY <2>1 DEF InCommand, AtType, AtLitCode, ReadingLit, AtLiteral,
          AtReuse, ReadingReuse, AtReuseLen, AtNew, ReadingHigh, AtOffset,
          ReadingLen, AtLen, AtMatch, AtMove, Moved, BeforeText, Reusing,
          ReadingNew, WithNew, Matching
<1> QED BY <1>1, <1>2

LEMMA DecodingInStepBits == IInv /\ Decoding => InStepBits
<1> SUFFICES ASSUME IInv, Decoding, pc \in {"CopyLiteral", "CopyMatch"}
             PROVE  <<Consumed, Produced>> \in call.steps
  BY DEF InStepBits
<1>1. CallOK(call) /\ WellFormed(call) /\ Spelled(call)
      /\ call.steps = Format!CopySteps(call)
  BY InvFacts DEF Decoding, WellFormed
<1>2. PICK i \in 1 .. Last : InCommand(i)
  BY StageIs
<1>3. ASSUME NEW p \in Nat, p < Len(call.block), x = Position(p)
      PROVE  Consumed = p
  <2>1. p \in 0 .. Len(call.block)
    BY SMT, <1>1, <1>3, SizeType
  <2> QED BY <1>1, <1>3, <2>1, PositionType DEF Consumed
<1>4. Format!EndOf(call.numbers[i].lit) = EndOf(LitNumber(i))
      /\ Format!EndOf(call.numbers[i].len) = EndOf(LenNumber(i))
  BY DEF EndOf, LitNumber, LenNumber
<1>5. CASE pc = "CopyLiteral"
  <2>1. AtLiteral(i)
    BY <1>2, <1>5, StageLabels DEF InCommand, Gammas, Unrolled
  <2>2. LitSaid(i) # 0 /\ x = Position(EndOf(LitNumber(i)).at)
        /\ MadeTo(call.out[i])
    BY <2>1 DEF AtLiteral, HasRead, BitsAt, BeforeText
  <2> DEFINE p == EndOf(LitNumber(i)).at
             lit == Script[i].lit
  <2>3. p \in Nat /\ p + lit <= Len(call.block) /\ lit \in Nat /\ lit # 0
        /\ Len(call.block) \in Nat
    <3>1. IsCursor(EndOf(LitNumber(i)))
      BY <1>1, <2>2, LiteralsEncoded, NumberType
    <3>2. p \in Nat
      BY <1>1, <3>1, CursorType
    <3> QED BY <1>1, <2>2, <3>2, LiteralsEncoded, Places DEF LitSaid
  <2>4. p < Len(call.block) /\ lit > 0
    <3> HIDE DEF p, lit
    <3> QED BY SMT, <2>3
  <2>5. Consumed = p
    <3> HIDE DEF p
    <3>1. x = Position(p)
      BY <2>2 DEF p
    <3> QED BY <1>3, <2>3, <2>4, <3>1
  <2>6. Produced = call.out[i]
    BY <1>1, <2>2, ProducedIs
  <2>7. i \in {j \in 1 .. Len(call.script) : call.script[j].lit > 0}
    BY <2>4 DEF Script, Last
  <2> QED BY <1>1, <1>4, <2>5, <2>6, <2>7 DEF Format!CopySteps
<1>6. CASE pc = "CopyMatch"
  <2>1. AtMatch(i)
    BY <1>2, <1>6, StageLabels DEF InCommand, Gammas, Unrolled
  <2>2. i # Last /\ x = Position(call.start[i + 1].at) /\ MadeTo(From(i))
    BY <2>1 DEF AtMatch, Matching
  <2>3. i + 1 \in 1 .. Last /\ Script[i].len > 0
        /\ From(i) = call.out[i] + Script[i].lit
    BY <1>1, <2>2, Places
  <2>4. call.start[i + 1] = EndOf(LenNumber(i))
    BY <1>1, <2>2, ReuseEncoded, NewEncoded
  <2>5. /\ call.start[i + 1].at \in Nat
        /\ call.start[i + 1].at < Len(call.block)
    BY <1>1, <2>3, Places, CursorType
  <2>6. Consumed = call.start[i + 1].at
    <3> DEFINE p == call.start[i + 1].at
    <3>1. p \in Nat /\ p < Len(call.block) /\ x = Position(p)
      BY <2>2, <2>5
    <3> HIDE DEF p
    <3>2. Consumed = p
      BY <1>3, <3>1
    <3> QED BY <3>2 DEF p
  <2>7. Produced = call.out[i] + call.script[i].lit
    BY <1>1, <2>2, <2>3, ProducedIs DEF Script
  <2>8. i \in {j \in 1 .. Len(call.script) : call.script[j].len > 0}
    BY <2>3 DEF Script, Last
  <2> QED BY <1>1, <1>4, <2>4, <2>6, <2>7, <2>8 DEF Format!CopySteps
<1> QED BY <1>5, <1>6

(* The routine takes a well-formed stream apart bit by bit as the          *)
(* compressor put it together: where it copies, it has taken the bytes     *)
(* written before that, and made the text that comes before.               *)
THEOREM InStepBitsAlways ==
    ASSUME \A r \in Calls : WellFormed(r)
    PROVE  Spec => []InStepBits
BY DecodingInStepBits, DecodesInStep, PTL

LEMMA DecodingOutputContiguous == IInv /\ Decoding => OutputContiguous
<1> SUFFICES ASSUME IInv, Decoding PROVE OutputContiguous
  OBVIOUS
<1>1. CallOK(call) /\ Spelled(call)
  BY InvFacts DEF Decoding, WellFormed
<1>2. pc \in Writing => \E n : MadeTo(n)
  BY MadeWhere DEF Writing
<1> QED BY <1>1, <1>2, ContiguousWhereMade

(* DMA and block move write the destination from its start on, without a   *)
(* hole, and nothing else.                                                 *)
THEOREM OutputContiguousAlways ==
    ASSUME \A r \in Calls : WellFormed(r)
    PROVE  Spec => []OutputContiguous
BY DecodingOutputContiguous, DecodesInStep, PTL

LEMMA DecodingMatchInsideOutput == IInv /\ Decoding => MatchInsideOutput
<1> SUFFICES ASSUME IInv, Decoding, pc = "BlockMove"
             PROVE  Wrap(x - call.dst) < Produced
  BY DEF MatchInsideOutput
<1>1. PICK i \in 1 .. Last : AtMove(i)
  BY StageIs, StageLabels DEF InCommand, Gammas, Unrolled
<1>2. CallOK(call) /\ WellFormed(call) /\ Spelled(call)
  BY InvFacts DEF Decoding, WellFormed
<1>3. /\ From(i) \in Nat /\ Script[i].off \in 1 .. From(i)
      /\ x = call.dst + From(i) - Script[i].off /\ MadeTo(From(i))
  BY <1>1, <1>2, Places DEF AtMove, BeyondMatch
<1> QED BY <1>2, <1>3, InsideWhereMoving

(* A match is copied from inside the text made so far. *)
THEOREM MatchInsideOutputAlways ==
    ASSUME \A r \in Calls : WellFormed(r)
    PROVE  Spec => []MatchInsideOutput
BY DecodingMatchInsideOutput, DecodesInStep, PTL

-----------------------------------------------------------------------------
(* The abstract specification: a step copies literals, copies a match,     *)
(* returns, or shows nothing.                                              *)
LEMMA PromisedStep ==
    IInv /\ Decoding /\ IInv' /\ [Next]_vars => [Promise!Next]_(Promise!vars)
<1> SUFFICES ASSUME IInv, Decoding, IInv', [Next]_vars
             PROVE  Promise!Next \/ UNCHANGED Promise!vars
  BY DEF Promise!vars
<1>1. /\ CallOK(call) /\ WellFormed(call) /\ Spelled(call) /\ call' = call
  BY CallKept, InvFacts DEF Decoding, WellFormed
<1>2. CASE CopyLiteral
  <2>1. pc = "CopyLiteral" /\ pc' # "Idle"
    BY <1>2 DEF CopyLiteral, ChooseType
  <2>2. PICK i \in 1 .. Last : AtLiteral(i)
    BY <2>1, StageIs, StageLabels DEF InCommand, Gammas, Unrolled
  <2>3. Made(call.out[i]) /\ Made(From(i))' /\ From(i)' = From(i)
    BY <1>1, <1>2, <2>2, CopyLiteralStep, PlacesKept
    DEF AtLiteral, BeforeText, MadeTo
  <2>4. call.out[i] < From(i)
    <3>1. /\ From(i) = call.out[i] + Script[i].lit /\ call.out[i] \in Nat
          /\ Script[i].lit \in Nat /\ Script[i].lit # 0
      BY <1>1, <2>2, Places DEF AtLiteral, LitSaid
    <3> QED BY SMT, <3>1
  <2> QED BY <1>1, <2>1, <2>3, <2>4, PromisedEmit DEF Promise!Next
<1>3. CASE Move
  <2>1. pc = "BlockMove" /\ pc' = "MatchCopied"
    BY <1>3 DEF Move, MoveBlock
  <2>2. PICK i \in 1 .. Last : AtMove(i)
    BY <2>1, StageIs, StageLabels DEF InCommand, Gammas, Unrolled
  <2>3. /\ Made(From(i)) /\ Made(call.out[i + 1])'
        /\ call.out[i + 1]' = call.out[i + 1] /\ From(i)' = From(i)
    BY <1>1, <1>3, <2>2, MoveStep, PlacesKept, CommandKept
    DEF AtMove, Moved, MadeTo
  <2>4. From(i) < call.out[i + 1]
    <3>1. /\ call.out[i + 1] = From(i) + Script[i].len /\ From(i) \in Nat
          /\ Script[i].len \in Nat /\ Script[i].len > 0
      BY <1>1, <2>2, Places DEF AtMove, BeyondMatch
    <3> QED BY SMT, <3>1
  <2> QED BY <1>1, <2>1, <2>3, <2>4, PromisedEmit DEF Promise!Next
<1>4. CASE Done
  <2>1. /\ pc = "Done" /\ MadeTo(Size)
    BY <1>4, StageIs DEF Done
  <2>2. /\ pc' = "Idle" /\ wram' = wram /\ (RETLEN => x' = Sbc(y, call.dst))
    BY <1>4, DoneLeaves
  <2>3. Sbc(y, call.dst) = Size
    BY <1>1, <2>1, ReportedSize
  <2> QED BY <1>1, <2>1, <2>2, <2>3, PromisedReturn DEF Promise!Next, MadeTo
<1>5. CASE Reads
  <2>1. wram' = wram /\ pc \in Gammas
    BY <1>5, ReadsKept
  <2>2. pc' # "Idle"
    <3>1. PICK next \in AfterNumber : stack = NumberFrame(next)
      BY <2>1 DEF IInv, StackShape
    <3>2. ReturnTo(stack) = next
      BY SMT, <3>1 DEF NumberFrame, Top, Push, Item, ReturnTo
    <3>3. GammaDone => pc' = next
      BY <3>2 DEF GammaDone
    <3> QED BY <1>5, <3>3 DEF Reads, DecodeGamma, GammaCheckBit, GammaAddBit,
            GammaBit2, GammaBit3, GammaBit4, UnrolledBit, GammaFillBuffer,
            AfterNumber
  <2> QED BY <1>1, <2>1, <2>2, PromisedQuiet DEF Gammas, Unrolled
<1>6. CASE \/ Main \/ Setup \/ DecodeLiteral \/ DecodeMatchReuse
           \/ ReuseLenRead \/ DecodeMatchNew \/ OffsetRead \/ MatchLenRead
           \/ CopyMatch \/ MatchCopied \/ TypeBit
  <2>1. wram' = wram /\ pc # "Idle"
    BY <1>6 DEF Main, CallRoutine, Setup, DecodeLiteral, DecodeMatchReuse,
       ReuseLenRead, DecodeMatchNew, OffsetRead, MatchLenRead, CopyMatch,
       MatchCopied, TypeBit, output
  <2>2. pc' # "Idle"
    BY <1>6 DEF Main, CallRoutine, Setup, DecodeLiteral, DecodeMatchReuse,
       ReuseLenRead, DecodeMatchNew, OffsetRead, EndOfData, WithOffset,
       MatchLenRead, CopyMatch, EnterMove, MatchCopied, TypeBit, ChooseType,
       Gamma
  <2> QED BY <1>1, <2>1, <2>2, PromisedQuiet
<1>7. CASE UNCHANGED vars \/ Wai
  <2>1. UNCHANGED <<pc, x, wram>>
    BY <1>7 DEF vars, common, Wai, Idle
  <2> QED BY <1>1, <2>1, PromisedQuiet
<1> QED BY <1>2, <1>3, <1>4, <1>5, <1>6, <1>7 DEF Next, Reads

(* On every well-formed stream ZX0_Decompress is a decompressor: what is   *)
(* in the destination is always a prefix of the text, only grows, and the  *)
(* routine returns with all of it there and, where it reports it, its      *)
(* length in X.                                                            *)
THEOREM ImplementsAlways ==
    ASSUME \A r \in Calls : WellFormed(r)
    PROVE  Spec => Implements
<1>1. Init => Promise!Init
  <2> SUFFICES ASSUME Init PROVE Promise!Init
    OBVIOUS
  <2>1. WellFormed(call) /\ CallOK(call)
    BY CallsAssumption DEF Init, RoutineInit
  <2> QED BY <2>1, PromisedInit DEF Init, RoutineInit, WellFormed
<1> QED
  BY <1>1, DecodesInStep, PromisedStep, PTL DEF Spec, Implements, Promise!Spec
=============================================================================
