------------------------ MODULE DecompressorsProofs -------------------------
(***************************************************************************)
(* The four routines as a program calls them, with any word in the         *)
(* registers they keep their variables in. Each routine's invariant holds  *)
(* when it is called, whatever is left there, and nothing but its own      *)
(* steps is taken until the end: with any bytes in the block (Inv), and    *)
(* with blocks that the compressor of the routine's format wrote           *)
(* (InStream). So what is proved of each routine alone holds of the        *)
(* library, and the library is a decompressor.                             *)
(***************************************************************************)
EXTENDS Decompressors, TLAPS

Inv == /\ call \in Calls
       /\ Calling("LZ4") => LZ4!IInv
       /\ Calling("LZSA1") => LZSA1!IInv
       /\ Calling("LZSA2") => LZSA2!IInv
       /\ Calling("ZX0") => ZX0!IInv

-----------------------------------------------------------------------------
(* The routines mean the same by a byte, a word and the rest of the types. *)
LEMMA SameSets ==
    /\ LZ4!Byte = Byte /\ LZ4!Word = Word /\ LZ4!Bit = Bit
    /\ LZSA1!Byte = Byte /\ LZSA1!Word = Word /\ LZSA1!Bit = Bit
    /\ LZSA2!Byte = Byte /\ LZSA2!Word = Word /\ LZSA2!Bit = Bit
    /\ ZX0!Byte = Byte /\ ZX0!Word = Word /\ ZX0!Bit = Bit
<1>1. /\ LZ4!Byte = Byte /\ LZSA1!Byte = Byte
      /\ LZSA2!Byte = Byte /\ ZX0!Byte = Byte
  BY Zenon DEF Byte, LZ4!Byte, LZSA1!Byte, LZSA2!Byte, ZX0!Byte
<1>2. /\ LZ4!Word = Word /\ LZSA1!Word = Word
      /\ LZSA2!Word = Word /\ ZX0!Word = Word
  BY SMT DEF Word, LZ4!Word, LZSA1!Word, LZSA2!Word, ZX0!Word
<1>3. /\ LZ4!Bit = Bit /\ LZSA1!Bit = Bit
      /\ LZSA2!Bit = Bit /\ ZX0!Bit = Bit
  BY Zenon DEF Bit, LZ4!Bit, LZSA1!Bit, LZSA2!Bit, ZX0!Bit
<1> QED BY <1>1, <1>2, <1>3

LEMMA SameCell ==
    /\ LZ4!WramAddress = WramAddress /\ LZ4!Cell = Cell
    /\ LZSA1!WramAddress = WramAddress /\ LZSA1!Cell = Cell
    /\ LZSA2!WramAddress = WramAddress /\ LZSA2!Cell = Cell
    /\ ZX0!WramAddress = WramAddress /\ ZX0!Cell = Cell
<1>1. /\ LZ4!WramAddress = WramAddress /\ LZSA1!WramAddress = WramAddress
      /\ LZSA2!WramAddress = WramAddress /\ ZX0!WramAddress = WramAddress
  BY SMT DEF WramAddress, LZ4!WramAddress, LZSA1!WramAddress,
               LZSA2!WramAddress, ZX0!WramAddress
<1>2. /\ LZ4!Cell = Cell /\ LZSA1!Cell = Cell
      /\ LZSA2!Cell = Cell /\ ZX0!Cell = Cell
  BY Zenon, SameSets
  DEF Cell, LZ4!Cell, LZSA1!Cell, LZSA2!Cell, ZX0!Cell,
      Junk, LZ4!Junk, LZSA1!Junk, LZSA2!Junk, ZX0!Junk
<1> QED BY <1>1, <1>2

LEMMA SameCallOK ==
    ASSUME NEW r
    PROVE  /\ LZ4!CallOK(r) = CallOK(r) /\ LZSA1!CallOK(r) = CallOK(r)
           /\ LZSA2!CallOK(r) = CallOK(r) /\ ZX0!CallOK(r) = CallOK(r)
BY Zenon, SameSets
DEF CallOK, LZ4!CallOK, LZSA1!CallOK, LZSA2!CallOK, ZX0!CallOK

LEMMA SameType ==
    /\ LZ4!CommonTypeOK = CommonTypeOK /\ LZSA1!CommonTypeOK = CommonTypeOK
    /\ LZSA2!CommonTypeOK = CommonTypeOK /\ ZX0!CommonTypeOK = CommonTypeOK
BY Zenon, SameSets, SameCell, SameCallOK
DEF CommonTypeOK, LZ4!CommonTypeOK, LZSA1!CommonTypeOK,
    LZSA2!CommonTypeOK, ZX0!CommonTypeOK,
    WramOK, LZ4!WramOK, LZSA1!WramOK, LZSA2!WramOK, ZX0!WramOK

(* What the lemmas about each routine assume of calls. *)
LEMMA EachCallOK ==
    /\ \A r \in Calls : LZ4!CallOK(r)
    /\ \A r \in Calls : LZSA1!CallOK(r)
    /\ \A r \in Calls : LZSA2!CallOK(r)
    /\ \A r \in Calls : ZX0!CallOK(r)
BY CallsAssumption, SameCallOK

-----------------------------------------------------------------------------
(* Where Main is about to call, a routine's invariant holds. *)
LEMMA TypesAtInit == Init =>
    /\ CommonTypeOK
    /\ length \in Word /\ tmp \in Word
    /\ token \in Byte /\ nibble \in Byte /\ nibrdy \in Byte
<1> SUFFICES ASSUME Init
             PROVE  /\ CommonTypeOK
                    /\ length \in Word /\ tmp \in Word
                    /\ token \in Byte /\ nibble \in Byte /\ nibrdy \in Byte
  OBVIOUS
<1>1. PICK word \in Leftovers :
        /\ x = word /\ y = word /\ a = word /\ c = word % 2
        /\ match = word /\ length = word /\ tmp = word
        /\ inBank = Lo(word) /\ outBank = Lo(word)
        /\ token = Lo(word) /\ nibble = Lo(word) /\ nibrdy = Lo(word)
        /\ wmadd = WramAt(126, word)
  BY DEF Init
<1>2. word \in Word
  BY LeftoversAssumption
<1>3. Lo(word) \in Byte
  BY SMT, <1>2 DEF Lo, Byte, Word
<1>4. WramAt(126, word) \in WramAddress
  BY SMT, <1>2 DEF WramAt, WramAddress, Word
<1>5. word % 2 \in Bit
  BY SMT, <1>2 DEF Bit, Word
<1>6. CallOK(call) /\ WramOK(wram)
  BY SMT, CallsAssumption DEF Init, WramOK
<1>7. 128 \in Byte /\ 0 \in Word /\ 8 \in {8, 16}
  BY SMT DEF Byte, Word
<1>8. CommonTypeOK
  BY <1>1, <1>2, <1>3, <1>4, <1>5, <1>6, <1>7 DEF Init, CommonTypeOK
<1> QED BY <1>1, <1>2, <1>3, <1>8

LEMMA InitInv == Init => Inv
<1> SUFFICES ASSUME Init PROVE Inv
  OBVIOUS
<1>1. /\ LZ4!CommonTypeOK /\ LZSA1!CommonTypeOK
      /\ LZSA2!CommonTypeOK /\ ZX0!CommonTypeOK
      /\ length \in Word /\ tmp \in Word
      /\ token \in Byte /\ nibble \in Byte /\ nibrdy \in Byte
  BY TypesAtInit, SameType
<1>2. /\ call \in Calls /\ pc = "Main" /\ m = 8 /\ db = 128 /\ dp = 0
      /\ stack = <<>>
  BY DEF Init, EmptyStack
<1>3. LZ4!IInv
  <2>1. LZ4!TypeOK
    BY <1>1, <1>2, SameSets DEF LZ4!TypeOK, LZ4!Labels
  <2> QED
    BY SMT, <1>2, <2>1
    DEF LZ4!IInv, LZ4!StackShape, LZ4!Width, LZ4!Banks, LZ4!Reported,
        LZ4!Steady8, LZ4!Steady16, LZ4!Moving, LZ4!EmptyStack
<1>4. LZSA1!IInv
  <2>1. LZSA1!TypeOK
    BY <1>1, <1>2, SameSets DEF LZSA1!TypeOK, LZSA1!Labels
  <2> QED
    BY SMT, <1>2, <2>1
    DEF LZSA1!IInv, LZSA1!StackShape, LZSA1!Width, LZSA1!Banks,
        LZSA1!Reported, LZSA1!Steady8, LZSA1!Steady16, LZSA1!Moving,
        LZSA1!EmptyStack
<1>5. LZSA2!IInv
  <2>1. LZSA2!TypeOK
    BY <1>1, <1>2, SameSets DEF LZSA2!TypeOK, LZSA2!Labels
  <2> QED
    BY SMT, <1>2, <2>1
    DEF LZSA2!IInv, LZSA2!StackShape, LZSA2!Width, LZSA2!Banks,
        LZSA2!Chosen, LZSA2!Steady8, LZSA2!Steady16, LZSA2!Moving,
        LZSA2!InLength, LZSA2!AfterLength, LZSA2!EmptyStack
<1>6. ZX0!IInv
  <2>1. ZX0!TypeOK
    BY <1>1, <1>2, SameSets DEF ZX0!TypeOK, ZX0!Labels
  <2> QED
    BY SMT, <1>2, <2>1
    DEF ZX0!IInv, ZX0!StackShape, ZX0!Width, ZX0!Banks, ZX0!Bits,
        ZX0!Reported, ZX0!Starts, ZX0!Unrolled, ZX0!Gammas, ZX0!AfterNumber,
        ZX0!Moving, ZX0!EmptyStack
<1> QED BY <1>2, <1>3, <1>4, <1>5, <1>6 DEF Inv

-----------------------------------------------------------------------------
(* A step is one of the routine that was called, or none. *)
LEMMA StepLz4 ==
    ASSUME LZ4!IInv, [LZ4!Next]_(LZ4!vars)
    PROVE  LZ4!IInv' /\ call' = call
BY EachCallOK, RetlenAssumption, LZ4!StepInv, LZ4!CallKept

LEMMA StepLzsa1 ==
    ASSUME LZSA1!IInv, [LZSA1!Next]_(LZSA1!vars)
    PROVE  LZSA1!IInv' /\ call' = call
BY EachCallOK, RetlenAssumption, LZSA1!StepInv, LZSA1!CallKept

LEMMA StepLzsa2 ==
    ASSUME LZSA2!IInv, [LZSA2!Next]_(LZSA2!vars)
    PROVE  LZSA2!IInv' /\ call' = call
BY EachCallOK, RetlenAssumption, LZSA2!StepInv, LZSA2!CallKept

LEMMA StepZx0 ==
    ASSUME ZX0!IInv, [ZX0!Next]_(ZX0!vars)
    PROVE  ZX0!IInv' /\ call' = call
BY EachCallOK, RetlenAssumption, ZX0!StepInv, ZX0!CallKept

LEMMA StepInv == Inv /\ [Next]_vars => Inv'
<1> SUFFICES ASSUME Inv, [Next]_vars PROVE Inv'
  OBVIOUS
<1>1. CASE Calling("LZ4") /\ LZ4!Next
  <2>1. LZ4!IInv' /\ call' = call
    BY <1>1, StepLz4 DEF Inv
  <2> QED BY <1>1, <2>1 DEF Inv, Calling
<1>2. CASE Calling("LZSA1") /\ LZSA1!Next
  <2>1. LZSA1!IInv' /\ call' = call
    BY <1>2, StepLzsa1 DEF Inv
  <2> QED BY <1>2, <2>1 DEF Inv, Calling
<1>3. CASE Calling("LZSA2") /\ LZSA2!Next
  <2>1. LZSA2!IInv' /\ call' = call
    BY <1>3, StepLzsa2 DEF Inv
  <2> QED BY <1>3, <2>1 DEF Inv, Calling
<1>4. CASE Calling("ZX0") /\ ZX0!Next
  <2>1. ZX0!IInv' /\ call' = call
    BY <1>4, StepZx0 DEF Inv
  <2> QED BY <1>4, <2>1 DEF Inv, Calling
<1>5. CASE UNCHANGED vars
  <2>1. call' = call
    BY <1>5 DEF vars, common
  <2>2. /\ UNCHANGED LZ4!vars /\ UNCHANGED LZSA1!vars
        /\ UNCHANGED LZSA2!vars /\ UNCHANGED ZX0!vars
    BY <1>5
    DEF vars, common, LZ4!vars, LZ4!common, LZSA1!vars, LZSA1!common,
        LZSA2!vars, LZSA2!common, LZSA2!state, ZX0!vars, ZX0!common,
        ZX0!state
  <2>3. /\ Calling("LZ4") => LZ4!IInv'
        /\ Calling("LZSA1") => LZSA1!IInv'
        /\ Calling("LZSA2") => LZSA2!IInv'
        /\ Calling("ZX0") => ZX0!IInv'
    BY <2>2, StepLz4, StepLzsa1, StepLzsa2, StepZx0 DEF Inv
  <2> QED BY <2>1, <2>3 DEF Inv, Calling
<1> QED BY <1>1, <1>2, <1>3, <1>4, <1>5 DEF Next

(* Of any call, to any of the four, with any leftovers: the invariant of   *)
(* the routine called holds from the call on.                              *)
THEOREM Invariance == Spec => []Inv
BY InitInv, StepInv, PTL DEF Spec

(* A call is to one of the four. *)
LEMMA OneOfThem ==
    ASSUME call \in Calls
    PROVE  Calling("LZ4") \/ Calling("LZSA1") \/ Calling("LZSA2")
               \/ Calling("ZX0")
BY RoutineAssumption DEF Calling

-----------------------------------------------------------------------------
(* Whatever is in the block and whatever earlier calls left in registers,  *)
(* the registers keep their widths and the CPU stays at its labels, in all *)
(* four routines.                                                          *)
THEOREM TypeCorrect == Spec => []TypeOK
<1>1. Inv => TypeOK
  BY DEF Inv, TypeOK, LZ4!IInv, LZSA1!IInv, LZSA2!IInv, ZX0!IInv
<1> QED BY Invariance, <1>1, PTL

(* And each of them returns with the stack, DB and DP as they were. *)
THEOREM CallerRestoredAlways == Spec => []CallerRestored
<1>1. Inv => CallerRestored
  <2> SUFFICES ASSUME Inv, pc = "Idle"
               PROVE  stack = <<>> /\ db = 128 /\ dp = 0
    BY DEF CallerRestored, EmptyStack
  <2>1. CASE Calling("LZ4")
    BY <2>1 DEF Inv, LZ4!IInv, LZ4!StackShape, LZ4!Banks, LZ4!EmptyStack
  <2>2. CASE Calling("LZSA1")
    BY <2>2
    DEF Inv, LZSA1!IInv, LZSA1!StackShape, LZSA1!Banks, LZSA1!EmptyStack
  <2>3. CASE Calling("LZSA2")
    BY <2>3
    DEF Inv, LZSA2!IInv, LZSA2!StackShape, LZSA2!Banks, LZSA2!EmptyStack
  <2>4. CASE Calling("ZX0")
    BY <2>4 DEF Inv, ZX0!IInv, ZX0!StackShape, ZX0!Banks, ZX0!EmptyStack
  <2> QED BY <2>1, <2>2, <2>3, <2>4, OneOfThem DEF Inv
<1> QED BY Invariance, <1>1, PTL

(* Built to return the length, each returns in 8 bit mode. *)
THEOREM ReturnsIn8BitAlways == ASSUME RETLEN PROVE Spec => []ReturnsIn8Bit
<1>1. Inv => ReturnsIn8Bit
  <2> SUFFICES ASSUME Inv, pc = "Idle" PROVE m = 8
    BY DEF ReturnsIn8Bit
  <2>1. CASE Calling("LZ4")
    BY <2>1 DEF Inv, LZ4!IInv, LZ4!Width
  <2>2. CASE Calling("LZSA1")
    BY <2>2 DEF Inv, LZSA1!IInv, LZSA1!Width
  <2>3. CASE Calling("LZSA2")
    BY <2>3 DEF Inv, LZSA2!IInv, LZSA2!Width
  <2>4. CASE Calling("ZX0")
    BY <2>4 DEF Inv, ZX0!IInv, ZX0!Width, ZX0!Moving
  <2> QED BY <2>1, <2>2, <2>3, <2>4, OneOfThem DEF Inv
<1> QED BY Invariance, <1>1, PTL

(* Block moves leave DB at the destination's bank; every load and every    *)
(* DMA is from the block's all the same.                                   *)
THEOREM LoadsFromBlockBankAlways == Spec => []LoadsFromBlockBank
<1>1. Inv => LoadsFromBlockBank
  <2> SUFFICES ASSUME Inv, pc \notin {"Main", "Setup", "MatchCopied", "Idle"}
               PROVE  db = call.srcBank /\ inBank = call.srcBank
    BY DEF LoadsFromBlockBank
  <2>1. CASE Calling("LZ4")
    BY <2>1 DEF Inv, LZ4!IInv, LZ4!Banks
  <2>2. CASE Calling("LZSA1")
    BY <2>2 DEF Inv, LZSA1!IInv, LZSA1!Banks
  <2>3. CASE Calling("LZSA2")
    BY <2>3 DEF Inv, LZSA2!IInv, LZSA2!Banks
  <2>4. CASE Calling("ZX0")
    BY <2>4 DEF Inv, ZX0!IInv, ZX0!Banks
  <2> QED BY <2>1, <2>2, <2>3, <2>4, OneOfThem DEF Inv
<1> QED BY Invariance, <1>1, PTL

-----------------------------------------------------------------------------
(* With blocks that a compressor wrote, each routine is, at every label,   *)
(* where in the stream the registers say, whatever earlier calls left in   *)
(* the registers the position does not depend on.                          *)
InStream == /\ Calling("LZ4") => LZ4!Decoding
            /\ Calling("LZSA1") => LZSA1!Decoding
            /\ Calling("LZSA2") => LZSA2!Decoding
            /\ Calling("ZX0") => ZX0!Decoding

LEMMA InitInStream ==
    ASSUME WellFormedCalls, Init
    PROVE  InStream
<1>1. /\ Calling("LZ4") => LZ4!WellFormed(call)
      /\ Calling("LZSA1") => LZSA1!WellFormed(call)
      /\ Calling("LZSA2") => LZSA2!WellFormed(call)
      /\ Calling("ZX0") => ZX0!WellFormed(call)
  BY DEF Init, WellFormedCalls, WellFormed, Calling
<1>2. pc = "Main" /\ wram = [p \in {} |-> Junk]
  BY DEF Init
<1> QED
  BY <1>1, <1>2
  DEF InStream, Junk, LZ4!Junk, LZSA1!Junk, LZSA2!Junk, ZX0!Junk,
      LZ4!Decoding, LZSA1!Decoding, LZSA2!Decoding, ZX0!Decoding,
      LZ4!NothingWritten, LZSA1!NothingWritten, LZSA2!NothingWritten,
      ZX0!NothingWritten

LEMMA StepDecodesLz4 ==
    ASSUME LZ4!IInv, LZ4!Decoding, [LZ4!Next]_(LZ4!vars)
    PROVE  LZ4!Decoding'
BY EachCallOK, RetlenAssumption, LZ4!DecodingStep

LEMMA StepDecodesLzsa1 ==
    ASSUME LZSA1!IInv, LZSA1!Decoding, [LZSA1!Next]_(LZSA1!vars)
    PROVE  LZSA1!Decoding'
BY EachCallOK, RetlenAssumption, LZSA1!DecodingStep

LEMMA StepDecodesLzsa2 ==
    ASSUME LZSA2!IInv, LZSA2!Decoding, [LZSA2!Next]_(LZSA2!vars)
    PROVE  LZSA2!Decoding'
BY EachCallOK, RetlenAssumption, LZSA2!DecodingStep

LEMMA StepDecodesZx0 ==
    ASSUME ZX0!IInv, ZX0!Decoding, [ZX0!Next]_(ZX0!vars)
    PROVE  ZX0!Decoding'
BY EachCallOK, RetlenAssumption, ZX0!DecodingStep

(* Which routine takes a step. *)
LEMMA StepOf ==
    ASSUME call \in Calls, [Next]_vars
    PROVE  /\ Calling("LZ4") => [LZ4!Next]_(LZ4!vars)
           /\ Calling("LZSA1") => [LZSA1!Next]_(LZSA1!vars)
           /\ Calling("LZSA2") => [LZSA2!Next]_(LZSA2!vars)
           /\ Calling("ZX0") => [ZX0!Next]_(ZX0!vars)
<1>1. CASE UNCHANGED vars
  BY <1>1
  DEF vars, common, LZ4!vars, LZ4!common, LZSA1!vars, LZSA1!common,
      LZSA2!vars, LZSA2!common, LZSA2!state, ZX0!vars, ZX0!common, ZX0!state
<1>2. CASE Next
  BY <1>2 DEF Next, Calling
<1> QED BY <1>1, <1>2

LEMMA StepInStream == Inv /\ InStream /\ [Next]_vars => InStream'
<1> SUFFICES ASSUME Inv, InStream, [Next]_vars PROVE InStream'
  OBVIOUS
<1>1. call' = call
  BY StepOf, OneOfThem, StepLz4, StepLzsa1, StepLzsa2, StepZx0 DEF Inv
<1>2. /\ Calling("LZ4") => LZ4!Decoding'
      /\ Calling("LZSA1") => LZSA1!Decoding'
      /\ Calling("LZSA2") => LZSA2!Decoding'
      /\ Calling("ZX0") => ZX0!Decoding'
  BY StepOf, StepDecodesLz4, StepDecodesLzsa1, StepDecodesLzsa2,
     StepDecodesZx0
  DEF Inv, InStream
<1> QED BY <1>1, <1>2 DEF InStream, Calling

(* The position in the stream, of all calls together. *)
THEOREM StaysInStream ==
    ASSUME WellFormedCalls
    PROVE  Spec => [](Inv /\ InStream)
BY InitInv, InitInStream, StepInv, StepInStream, PTL DEF Spec

-----------------------------------------------------------------------------
(* ZX0's bit buffer, on any stream: it is refilled exactly when only its   *)
(* end marker was left, in the loop and in its unrolled form.              *)
THEOREM MarkerShiftedOutAlways == Spec => []MarkerShiftedOut
<1>1. Inv => MarkerShiftedOut
  BY SMT DEF Inv, MarkerShiftedOut, ZX0!MarkerShiftedOut, ZX0!IInv, ZX0!Bits
<1> QED BY Invariance, <1>1, PTL

(* There is a bit in it where a type bit is taken without looking. *)
THEOREM TypeBitThereAlways == Spec => []TypeBitThere
<1>1. Inv => TypeBitThere
  BY SMT DEF Inv, TypeBitThere, ZX0!TypeBitThere, ZX0!IInv, ZX0!Bits,
             ZX0!OddBits, ZX0!Byte
<1> QED BY Invariance, <1>1, PTL

(* And the exit is reached with C = 1 only. *)
THEOREM CarrySetAtDoneAlways == Spec => []CarrySetAtDone
<1>1. Inv => CarrySetAtDone
  BY SMT DEF Inv, CarrySetAtDone, ZX0!CarrySetAtDone, ZX0!IInv, ZX0!Bits
<1> QED BY Invariance, <1>1, PTL

-----------------------------------------------------------------------------
(* What is asked of a routine is what the library is asked for: the words  *)
(* mean the same, and so does what a caller sees of it.                    *)
LEMMA SameWords ==
    /\ \A n : /\ LZ4!Wrap(n) = Wrap(n) /\ LZSA1!Wrap(n) = Wrap(n)
              /\ LZSA2!Wrap(n) = Wrap(n) /\ ZX0!Wrap(n) = Wrap(n)
    /\ \A b, p : /\ LZ4!WramAt(b, p) = WramAt(b, p)
                 /\ LZSA1!WramAt(b, p) = WramAt(b, p)
                 /\ LZSA2!WramAt(b, p) = WramAt(b, p)
                 /\ ZX0!WramAt(b, p) = WramAt(b, p)
    /\ \A w, p : /\ LZ4!Peek(w, p) = Peek(w, p)
                 /\ LZSA1!Peek(w, p) = Peek(w, p)
                 /\ LZSA2!Peek(w, p) = Peek(w, p)
                 /\ ZX0!Peek(w, p) = Peek(w, p)
<1>1. \A n : /\ LZ4!Wrap(n) = Wrap(n) /\ LZSA1!Wrap(n) = Wrap(n)
             /\ LZSA2!Wrap(n) = Wrap(n) /\ ZX0!Wrap(n) = Wrap(n)
  BY SMT DEF Wrap, LZ4!Wrap, LZSA1!Wrap, LZSA2!Wrap, ZX0!Wrap
<1>2. \A b, p : /\ LZ4!WramAt(b, p) = WramAt(b, p)
                /\ LZSA1!WramAt(b, p) = WramAt(b, p)
                /\ LZSA2!WramAt(b, p) = WramAt(b, p)
                /\ ZX0!WramAt(b, p) = WramAt(b, p)
  BY SMT DEF WramAt, LZ4!WramAt, LZSA1!WramAt, LZSA2!WramAt, ZX0!WramAt
<1>3. \A w, p : /\ LZ4!Peek(w, p) = Peek(w, p)
                /\ LZSA1!Peek(w, p) = Peek(w, p)
                /\ LZSA2!Peek(w, p) = Peek(w, p)
                /\ ZX0!Peek(w, p) = Peek(w, p)
  BY Zenon DEF Peek, LZ4!Peek, LZSA1!Peek, LZSA2!Peek, ZX0!Peek,
               Junk, LZ4!Junk, LZSA1!Junk, LZSA2!Junk, ZX0!Junk
<1> QED BY <1>1, <1>2, <1>3

LEMMA SameProgress ==
    /\ LZ4!Consumed = Consumed /\ LZ4!Produced = Produced
    /\ LZSA1!Consumed = Consumed /\ LZSA1!Produced = Produced
    /\ LZSA2!Consumed = Consumed /\ LZSA2!Produced = Produced
    /\ ZX0!Consumed = Consumed /\ ZX0!Produced = Produced
BY Zenon, SameWords
DEF Consumed, LZ4!Consumed, LZSA1!Consumed, LZSA2!Consumed, ZX0!Consumed,
    Produced, LZ4!Produced, LZSA1!Produced, LZSA2!Produced, ZX0!Produced

LEMMA SameQuestions ==
    /\ LZ4!CarryClear = CarryClear /\ LZSA1!CarryClear = CarryClear
    /\ LZSA2!CarryClear = CarryClear
    /\ LZ4!InStep = InStep /\ LZSA1!InStep = InStep /\ LZSA2!InStep = InStep
<1>1. /\ LZ4!CarryClear = CarryClear /\ LZSA1!CarryClear = CarryClear
      /\ LZSA2!CarryClear = CarryClear
  BY Zenon
  DEF CarryClear, LZ4!CarryClear, LZSA1!CarryClear, LZSA2!CarryClear
<1>2. LZ4!InStep = InStep /\ LZSA1!InStep = InStep /\ LZSA2!InStep = InStep
  BY Zenon, SameProgress DEF InStep, LZ4!InStep, LZSA1!InStep, LZSA2!InStep
<1> QED BY <1>1, <1>2

LEMMA SameOutputQuestions ==
    /\ LZ4!OutputContiguous = OutputContiguous
    /\ LZSA1!OutputContiguous = OutputContiguous
    /\ LZSA2!OutputContiguous = OutputContiguous
    /\ ZX0!OutputContiguous = OutputContiguous
    /\ LZ4!MatchInsideOutput = MatchInsideOutput
    /\ LZSA1!MatchInsideOutput = MatchInsideOutput
    /\ LZSA2!MatchInsideOutput = MatchInsideOutput
    /\ ZX0!MatchInsideOutput = MatchInsideOutput
<1>1. /\ LZ4!OutputContiguous = OutputContiguous
      /\ LZSA1!OutputContiguous = OutputContiguous
      /\ LZSA2!OutputContiguous = OutputContiguous
      /\ ZX0!OutputContiguous = OutputContiguous
  BY Zenon, SameWords, SameProgress
  DEF OutputContiguous, LZ4!OutputContiguous, LZSA1!OutputContiguous,
      LZSA2!OutputContiguous, ZX0!OutputContiguous,
      Writing, LZ4!Writing, LZSA1!Writing, LZSA2!Writing, ZX0!Writing
<1>2. /\ LZ4!MatchInsideOutput = MatchInsideOutput
      /\ LZSA1!MatchInsideOutput = MatchInsideOutput
      /\ LZSA2!MatchInsideOutput = MatchInsideOutput
      /\ ZX0!MatchInsideOutput = MatchInsideOutput
  BY Zenon, SameWords, SameProgress
  DEF MatchInsideOutput, LZ4!MatchInsideOutput, LZSA1!MatchInsideOutput,
      LZSA2!MatchInsideOutput, ZX0!MatchInsideOutput
<1> QED BY <1>1, <1>2

(* "C=0" wherever the length of literals is added to Y, in every routine   *)
(* that adds it with the carry as it finds it, on every well-formed block. *)
THEOREM CarryClearForLengthAlways ==
    ASSUME WellFormedCalls
    PROVE  Spec => []CarryClearForLength
<1>1. Inv /\ InStream => CarryClearForLength
  BY OneOfThem, SameQuestions,
     LZ4!DecodingCarryClear, LZSA1!DecodingCarryClear,
     LZSA2!DecodingCarryClear, EachCallOK, RetlenAssumption
  DEF Inv, InStream, CarryClearForLength
<1> QED BY <1>1, StaysInStream, PTL

(* LZSA2 stores literals through the data port where the text ends,        *)
(* although what moved the port there was the run before last.             *)
THEOREM PortInStepAlways ==
    ASSUME WellFormedCalls
    PROVE  Spec => []PortInStep
<1>1. Inv /\ InStream => PortInStep
  BY LZSA2!DecodingPortInStep, EachCallOK, RetlenAssumption
  DEF Inv, InStream, PortInStep
<1> QED BY <1>1, StaysInStream, PTL

(* Each routine takes the stream apart as its compressor put it together,  *)
(* at every command, whatever earlier calls left in the registers.         *)
THEOREM InStepEverywhereAlways ==
    ASSUME WellFormedCalls
    PROVE  Spec => []InStepEverywhere
<1>1. Inv /\ InStream => InStepEverywhere
  <2> SUFFICES ASSUME Inv, InStream PROVE InStepEverywhere
    OBVIOUS
  <2>1. Calling("ZX0") => ZX0!InStepBits
    BY ZX0!DecodingInStepBits, EachCallOK, RetlenAssumption
    DEF Inv, InStream
  <2>2. InStep
    <3>1. CASE Calling("LZ4")
      BY <3>1, SameQuestions, LZ4!DecodingInStep, EachCallOK,
         RetlenAssumption
      DEF Inv, InStream
    <3>2. CASE Calling("LZSA1")
      BY <3>2, SameQuestions, LZSA1!DecodingInStep, EachCallOK,
         RetlenAssumption
      DEF Inv, InStream
    <3>3. CASE Calling("LZSA2")
      BY <3>3, SameQuestions, LZSA2!DecodingInStep, EachCallOK,
         RetlenAssumption
      DEF Inv, InStream
    <3>4. CASE Calling("ZX0")
      <4>1. pc \in ZX0!Labels
        BY <3>4 DEF Inv, ZX0!IInv, ZX0!TypeOK
      <4> QED BY <4>1 DEF ZX0!Labels, InStep  \* it has no tokens
    <3> QED BY <3>1, <3>2, <3>3, <3>4, OneOfThem DEF Inv
  <2> QED BY <2>1, <2>2 DEF InStepEverywhere
<1> QED BY <1>1, StaysInStream, PTL

(* DMA and block moves of every routine write the destination from its     *)
(* start on, without a hole, and nothing else.                             *)
THEOREM OutputContiguousAlways ==
    ASSUME WellFormedCalls
    PROVE  Spec => []OutputContiguous
<1>1. Inv /\ InStream => OutputContiguous
  BY OneOfThem, SameOutputQuestions, EachCallOK, RetlenAssumption,
     LZ4!DecodingOutputContiguous, LZSA1!DecodingOutputContiguous,
     LZSA2!DecodingOutputContiguous, ZX0!DecodingOutputContiguous
  DEF Inv, InStream
<1> QED BY <1>1, StaysInStream, PTL

(* No routine copies a match from what WRAM held before the call.          *)
THEOREM MatchInsideOutputAlways ==
    ASSUME WellFormedCalls
    PROVE  Spec => []MatchInsideOutput
<1>1. Inv /\ InStream => MatchInsideOutput
  BY OneOfThem, SameOutputQuestions, EachCallOK, RetlenAssumption,
     LZ4!DecodingMatchInsideOutput, LZSA1!DecodingMatchInsideOutput,
     LZSA2!DecodingMatchInsideOutput, ZX0!DecodingMatchInsideOutput
  DEF Inv, InStream
<1> QED BY <1>1, StaysInStream, PTL

-----------------------------------------------------------------------------
(* What a routine promises is what the library promises: the abstract      *)
(* specification of each is about the same destination and the same X.     *)
LEMMA SameLz4 ==
    /\ LZ4!Promise!Init => Promise!Init
    /\ [LZ4!Promise!Next]_(LZ4!Promise!vars) => [Promise!Next]_(Promise!vars)
<1>1. LZ4!Output = Output /\ LZ4!Output' = Output'
  <2>1. \A S : LZ4!Cardinality(S) = Cardinality(S)
    BY Zenon DEF Cardinality, LZ4!Cardinality
  <2> QED BY SMT, <2>1, SameWords DEF Output, LZ4!Output
<1>2. LZ4!Result = Result /\ LZ4!Result' = Result'
  BY Zenon DEF Result, LZ4!Result
<1>3. LZ4!Promise!Init => Promise!Init
  BY Zenon, <1>1, <1>2
  DEF Promise!Init, Promise!Running, LZ4!Promise!Init, LZ4!Promise!Running
<1>4. LZ4!Promise!Emit => Promise!Emit
  BY SMT, <1>1, <1>2
  DEF Promise!Emit, Promise!IsPrefixOf, Promise!Running,
      LZ4!Promise!Emit, LZ4!Promise!IsPrefixOf, LZ4!Promise!Running
<1>5. LZ4!Promise!Return => Promise!Return
  BY SMT, <1>1, <1>2
  DEF Promise!Return, Promise!Running, Promise!NoLength,
      LZ4!Promise!Return, LZ4!Promise!Running, LZ4!Promise!NoLength
<1>6. UNCHANGED LZ4!Promise!vars => UNCHANGED Promise!vars
  BY Zenon, <1>1, <1>2 DEF Promise!vars, LZ4!Promise!vars
<1> QED
  BY Zenon, <1>3, <1>4, <1>5, <1>6 DEF Promise!Next, LZ4!Promise!Next

LEMMA SameLzsa1 ==
    /\ LZSA1!Promise!Init => Promise!Init
    /\ [LZSA1!Promise!Next]_(LZSA1!Promise!vars) => [Promise!Next]_(Promise!vars)
<1>1. LZSA1!Output = Output /\ LZSA1!Output' = Output'
  <2>1. \A S : LZSA1!Cardinality(S) = Cardinality(S)
    BY Zenon DEF Cardinality, LZSA1!Cardinality
  <2> QED BY SMT, <2>1, SameWords DEF Output, LZSA1!Output
<1>2. LZSA1!Result = Result /\ LZSA1!Result' = Result'
  BY Zenon DEF Result, LZSA1!Result
<1>3. LZSA1!Promise!Init => Promise!Init
  BY Zenon, <1>1, <1>2
  DEF Promise!Init, Promise!Running, LZSA1!Promise!Init, LZSA1!Promise!Running
<1>4. LZSA1!Promise!Emit => Promise!Emit
  BY SMT, <1>1, <1>2
  DEF Promise!Emit, Promise!IsPrefixOf, Promise!Running,
      LZSA1!Promise!Emit, LZSA1!Promise!IsPrefixOf, LZSA1!Promise!Running
<1>5. LZSA1!Promise!Return => Promise!Return
  BY SMT, <1>1, <1>2
  DEF Promise!Return, Promise!Running, Promise!NoLength,
      LZSA1!Promise!Return, LZSA1!Promise!Running, LZSA1!Promise!NoLength
<1>6. UNCHANGED LZSA1!Promise!vars => UNCHANGED Promise!vars
  BY Zenon, <1>1, <1>2 DEF Promise!vars, LZSA1!Promise!vars
<1> QED
  BY Zenon, <1>3, <1>4, <1>5, <1>6 DEF Promise!Next, LZSA1!Promise!Next

LEMMA SameLzsa2 ==
    /\ LZSA2!Promise!Init => Promise!Init
    /\ [LZSA2!Promise!Next]_(LZSA2!Promise!vars) => [Promise!Next]_(Promise!vars)
<1>1. LZSA2!Output = Output /\ LZSA2!Output' = Output'
  <2>1. \A S : LZSA2!Cardinality(S) = Cardinality(S)
    BY Zenon DEF Cardinality, LZSA2!Cardinality
  <2> QED BY SMT, <2>1, SameWords DEF Output, LZSA2!Output
<1>2. LZSA2!Result = Result /\ LZSA2!Result' = Result'
  BY Zenon DEF Result, LZSA2!Result
<1>3. LZSA2!Promise!Init => Promise!Init
  BY Zenon, <1>1, <1>2
  DEF Promise!Init, Promise!Running, LZSA2!Promise!Init, LZSA2!Promise!Running
<1>4. LZSA2!Promise!Emit => Promise!Emit
  BY SMT, <1>1, <1>2
  DEF Promise!Emit, Promise!IsPrefixOf, Promise!Running,
      LZSA2!Promise!Emit, LZSA2!Promise!IsPrefixOf, LZSA2!Promise!Running
<1>5. LZSA2!Promise!Return => Promise!Return
  BY SMT, <1>1, <1>2
  DEF Promise!Return, Promise!Running, Promise!NoLength,
      LZSA2!Promise!Return, LZSA2!Promise!Running, LZSA2!Promise!NoLength
<1>6. UNCHANGED LZSA2!Promise!vars => UNCHANGED Promise!vars
  BY Zenon, <1>1, <1>2 DEF Promise!vars, LZSA2!Promise!vars
<1> QED
  BY Zenon, <1>3, <1>4, <1>5, <1>6 DEF Promise!Next, LZSA2!Promise!Next

LEMMA SameZx0 ==
    /\ ZX0!Promise!Init => Promise!Init
    /\ [ZX0!Promise!Next]_(ZX0!Promise!vars) => [Promise!Next]_(Promise!vars)
<1>1. ZX0!Output = Output /\ ZX0!Output' = Output'
  <2>1. \A S : ZX0!Cardinality(S) = Cardinality(S)
    BY Zenon DEF Cardinality, ZX0!Cardinality
  <2> QED BY SMT, <2>1, SameWords DEF Output, ZX0!Output
<1>2. ZX0!Result = Result /\ ZX0!Result' = Result'
  BY Zenon DEF Result, ZX0!Result
<1>3. ZX0!Promise!Init => Promise!Init
  BY Zenon, <1>1, <1>2
  DEF Promise!Init, Promise!Running, ZX0!Promise!Init, ZX0!Promise!Running
<1>4. ZX0!Promise!Emit => Promise!Emit
  BY SMT, <1>1, <1>2
  DEF Promise!Emit, Promise!IsPrefixOf, Promise!Running,
      ZX0!Promise!Emit, ZX0!Promise!IsPrefixOf, ZX0!Promise!Running
<1>5. ZX0!Promise!Return => Promise!Return
  BY SMT, <1>1, <1>2
  DEF Promise!Return, Promise!Running, Promise!NoLength,
      ZX0!Promise!Return, ZX0!Promise!Running, ZX0!Promise!NoLength
<1>6. UNCHANGED ZX0!Promise!vars => UNCHANGED Promise!vars
  BY Zenon, <1>1, <1>2 DEF Promise!vars, ZX0!Promise!vars
<1> QED
  BY Zenon, <1>3, <1>4, <1>5, <1>6 DEF Promise!Next, ZX0!Promise!Next

LEMMA StepPromisedLz4 ==
    ASSUME LZ4!IInv, LZ4!Decoding, [LZ4!Next]_(LZ4!vars)
    PROVE  [Promise!Next]_(Promise!vars)
<1>1. LZ4!IInv'
  BY StepLz4
<1>2. [LZ4!Promise!Next]_(LZ4!Promise!vars)
  BY <1>1, EachCallOK, RetlenAssumption, LZ4!PromisedStep
<1> QED BY <1>2, SameLz4

LEMMA StepPromisedLzsa1 ==
    ASSUME LZSA1!IInv, LZSA1!Decoding, [LZSA1!Next]_(LZSA1!vars)
    PROVE  [Promise!Next]_(Promise!vars)
<1>1. LZSA1!IInv'
  BY StepLzsa1
<1>2. [LZSA1!Promise!Next]_(LZSA1!Promise!vars)
  BY <1>1, EachCallOK, RetlenAssumption, LZSA1!PromisedStep
<1> QED BY <1>2, SameLzsa1

LEMMA StepPromisedLzsa2 ==
    ASSUME LZSA2!IInv, LZSA2!Decoding, [LZSA2!Next]_(LZSA2!vars)
    PROVE  [Promise!Next]_(Promise!vars)
<1>1. LZSA2!IInv'
  BY StepLzsa2
<1>2. [LZSA2!Promise!Next]_(LZSA2!Promise!vars)
  BY <1>1, EachCallOK, RetlenAssumption, LZSA2!PromisedStep
<1> QED BY <1>2, SameLzsa2

LEMMA StepPromisedZx0 ==
    ASSUME ZX0!IInv, ZX0!Decoding, [ZX0!Next]_(ZX0!vars)
    PROVE  [Promise!Next]_(Promise!vars)
<1>1. ZX0!IInv'
  BY StepZx0
<1>2. [ZX0!Promise!Next]_(ZX0!Promise!vars)
  BY <1>1, EachCallOK, RetlenAssumption, ZX0!PromisedStep
<1> QED BY <1>2, SameZx0

LEMMA InitPromised ==
    ASSUME WellFormedCalls, Init
    PROVE  Promise!Init
<1>1. /\ pc = "Main" /\ wram = [p \in {} |-> Junk]
      /\ call \in Calls /\ CallOK(call) /\ WellFormed(call)
  BY CallsAssumption DEF Init, WellFormedCalls
<1>2. CASE Calling("LZ4")
  <2>1. LZ4!Spelled(call) /\ LZ4!CallOK(call)
    BY <1>1, <1>2, SameCallOK DEF WellFormed, Calling, LZ4!WellFormed
  <2>2. LZ4!Promise!Init
    BY <1>1, <2>1, LZ4!PromisedInit, EachCallOK, RetlenAssumption
    DEF Junk, LZ4!Junk
  <2> QED BY <2>2, SameLz4
<1>3. CASE Calling("LZSA1")
  <2>1. LZSA1!Spelled(call) /\ LZSA1!CallOK(call)
    BY <1>1, <1>3, SameCallOK DEF WellFormed, Calling, LZSA1!WellFormed
  <2>2. LZSA1!Promise!Init
    BY <1>1, <2>1, LZSA1!PromisedInit, EachCallOK, RetlenAssumption
    DEF Junk, LZSA1!Junk
  <2> QED BY <2>2, SameLzsa1
<1>4. CASE Calling("LZSA2")
  <2>1. LZSA2!Spelled(call) /\ LZSA2!CallOK(call)
    BY <1>1, <1>4, SameCallOK DEF WellFormed, Calling, LZSA2!WellFormed
  <2>2. LZSA2!Promise!Init
    BY <1>1, <2>1, LZSA2!PromisedInit, EachCallOK, RetlenAssumption
    DEF Junk, LZSA2!Junk
  <2> QED BY <2>2, SameLzsa2
<1>5. CASE Calling("ZX0")
  <2>1. ZX0!Spelled(call) /\ ZX0!CallOK(call)
    BY <1>1, <1>5, SameCallOK DEF WellFormed, Calling, ZX0!WellFormed
  <2>2. ZX0!Promise!Init
    BY <1>1, <2>1, ZX0!PromisedInit, EachCallOK, RetlenAssumption
    DEF Junk, ZX0!Junk
  <2> QED BY <2>2, SameZx0
<1> QED BY <1>1, <1>2, <1>3, <1>4, <1>5, OneOfThem

(* Whichever routine of the library is called, with whatever left in its   *)
(* registers: on a block its compressor wrote it is a decompressor.  What  *)
(* is in the destination is always a prefix of the text, only grows, is    *)
(* all there on return, and X is its length where that is reported.        *)
THEOREM ImplementsAlways ==
    ASSUME WellFormedCalls
    PROVE  Spec => Implements
<1>1. Init => Promise!Init
  BY InitPromised
<1>2. Inv /\ InStream /\ [Next]_vars => [Promise!Next]_(Promise!vars)
  BY StepOf, OneOfThem, StepPromisedLz4, StepPromisedLzsa1,
     StepPromisedLzsa2, StepPromisedZx0
  DEF Inv, InStream
<1> QED
  BY <1>1, <1>2, StaysInStream, PTL DEF Spec, Implements, Promise!Spec
=============================================================================
