-------------------------- MODULE LzRoutineProofs ---------------------------
(***************************************************************************)
(* Lemmas for the proofs about the decoders: what the operators of Snes    *)
(* return for every argument, what each part of LzRoutine does to the      *)
(* types of the registers, and that the frame Setup builds is the one the  *)
(* exit takes apart; then, for blocks that say a text, what a DMA and a    *)
(* block move do to a destination that holds the text up to some position, *)
(* and which steps the abstract specification allows.                      *)
(***************************************************************************)
EXTENDS LzRoutine, FiniteSetTheorems, TLAPS

(* Arithmetic modulo 65536 stays within a register. *)
LEMMA WrapType == ASSUME NEW n \in Int PROVE Wrap(n) \in Word
BY SMT DEF Wrap, Word

(* The two halves of the accumulator are bytes, and two bytes are a word.  *)
LEMMA HalfType ==
    ASSUME NEW w \in Word
    PROVE  Lo(w) \in Byte /\ Hi(w) \in Byte /\ Lo(w) \in Word
BY SMT DEF Word, Byte, Lo, Hi

LEMMA MakeWordType ==
    ASSUME NEW l \in Byte, NEW h \in Byte
    PROVE  /\ MakeWord(l, h) \in Word
           /\ Lo(MakeWord(l, h)) = l
           /\ Hi(MakeWord(l, h)) = h
BY SMT DEF Word, Byte, MakeWord, Lo, Hi

(* An 8 bit load leaves a word in B:A. *)
LEMMA SetLoType ==
    ASSUME NEW w \in Word, NEW b \in Byte
    PROVE  SetLo(w, b) \in Word
BY SMT, HalfType, MakeWordType DEF SetLo

(* ADC and SBC give a word and a carry. *)
LEMMA AdcType ==
    ASSUME NEW u \in Word, NEW v \in Word, NEW k \in Bit
    PROVE  Adc(u, v, k) \in Word /\ CarryOut(u, v, k) \in Bit
BY SMT, WrapType DEF Word, Bit, Adc, CarryOut

LEMMA SbcType ==
    ASSUME NEW u \in Word, NEW v \in Word
    PROVE  Sbc(u, v) \in Word /\ NoBorrow(u, v) \in Bit
BY SMT, WrapType DEF Word, Bit, Sbc, NoBorrow

-----------------------------------------------------------------------------
(* A load returns a byte or a word wherever it is from. *)
LEMMA RomByteType ==
    ASSUME NEW block \in Seq(Byte), NEW blockBank, NEW at \in Word,
           NEW bank, NEW addr \in Word
    PROVE  RomByte(block, blockBank, at, bank, addr) \in Byte
<1> DEFINE i == Wrap(addr - at)
<1>1. i \in Nat
  BY SMT, WrapType DEF Word
<1>2. CASE bank = blockBank /\ i < Len(block)
  <2>1. i + 1 \in 1 .. Len(block)
    BY SMT, <1>1, <1>2
  <2>2. block[i + 1] \in Byte
    BY SMT, <2>1
  <2> QED BY SMT, <2>2, <1>2 DEF RomByte
<1>3. CASE ~(bank = blockBank /\ i < Len(block))
  BY SMT, <1>3 DEF RomByte, Filler, Byte
<1> QED BY <1>2, <1>3

LEMMA RomWordType ==
    ASSUME NEW block \in Seq(Byte), NEW blockBank, NEW at \in Word,
           NEW bank, NEW addr \in Word
    PROVE  RomWord(block, blockBank, at, bank, addr) \in Word
<1>1. RomByte(block, blockBank, at, bank, addr) \in Byte
  BY RomByteType
<1>2. addr # 65535 => RomByte(block, blockBank, at, bank, addr + 1) \in Byte
  <2>1. addr # 65535 => addr + 1 \in Word
    BY SMT DEF Word
  <2> QED BY SMT, <2>1, RomByteType
<1>3. Filler \in Byte
  BY SMT DEF Filler, Byte
<1> QED BY SMT, <1>1, <1>2, <1>3, MakeWordType DEF RomWord

-----------------------------------------------------------------------------
LEMMA WramAtType ==
    ASSUME NEW bank \in Byte, NEW addr \in Word
    PROVE  WramAt(bank, addr) \in WramAddress
BY SMT DEF Byte, Word, WramAt, WramAddress

(* The data port stays inside WRAM. *)
LEMMA PortType ==
    ASSUME NEW port \in WramAddress
    PROVE  /\ \A bank \in Byte : PortBank(port, bank) \in WramAddress
           /\ \A addr \in Word : PortAt(port, addr) \in WramAddress
           /\ \A n \in Nat : PortOn(port, n) \in WramAddress
BY SMT DEF PortBank, PortAt, PortOn, WramAt, WramAddress, Byte, Word

LEMMA DmaCountType ==
    ASSUME NEW w \in Word
    PROVE  DmaCount(w) \in Nat /\ DmaCount(w) <= 65536
BY SMT DEF Word, DmaCount

LEMMA DmaToWramType ==
    ASSUME NEW w, WramOK(w), NEW p \in WramAddress,
           NEW n \in Nat, n <= 65536, NEW bytes \in [0 .. n - 1 -> Byte]
    PROVE  WramOK(DmaToWram(w, p, bytes, n))
<1> DEFINE Index(q) == (q - p) % 131072
           target   == {(p + i) % 131072 : i \in 0 .. n - 1}
           new      == DmaToWram(w, p, bytes, n)
<1>1. target \subseteq WramAddress
  BY SMT DEF WramAddress
<1>2. \A q \in target : Index(q) < n
  BY SMT DEF WramAddress
<1>3. DOMAIN new = DOMAIN w \cup target
  BY SMT DEF DmaToWram
<1>4. ASSUME NEW q \in DOMAIN new
      PROVE  new[q] \in Cell
  <2>1. q \in WramAddress
    BY SMT, <1>1, <1>3 DEF WramOK
  <2>2. new[q] = IF Index(q) < n THEN bytes[Index(q)] ELSE w[q]
    BY SMT, <1>3 DEF DmaToWram
  <2>3. CASE Index(q) < n
    <3>1. Index(q) \in 0 .. n - 1
      BY SMT, <2>1, <2>3 DEF WramAddress
    <3> QED BY SMT, <3>1, <2>2, <2>3 DEF Cell
  <2>4. CASE ~(Index(q) < n)
    <3>1. q \in DOMAIN w
      BY SMT, <1>2, <1>3, <2>4
    <3> QED BY SMT, <3>1, <2>2, <2>4 DEF WramOK
  <2> QED BY <2>3, <2>4
<1>5. new \in [DOMAIN new -> Cell]
  <2>1. new = [q \in DOMAIN new |-> new[q]]
    BY SMT DEF DmaToWram
  <2> HIDE DEF new
  <2> QED BY SMT, <1>4, <2>1
<1> QED BY SMT, <1>1, <1>3, <1>5 DEF WramOK

LEMMA BlockMoveType ==
    ASSUME NEW w, WramOK(w), NEW bank \in Byte,
           NEW from \in Word, NEW to \in Word, NEW n \in Nat
    PROVE  WramOK(BlockMove(w, bank, from, to, n))
<1> DEFINE target == {WramAt(bank, Wrap(to + i)) : i \in 0 .. n - 1}
           new    == BlockMove(w, bank, from, to, n)
<1>1. target \subseteq WramAddress
  <2>1. \A i \in 0 .. n - 1 : Wrap(to + i) \in Word
    BY SMT, WrapType DEF Word
  <2> QED BY SMT, <2>1, WramAtType
<1>2. DOMAIN new = DOMAIN w \cup target
  BY SMT DEF BlockMove
<1>3. \A q : Peek(w, q) \in Cell
  BY SMT DEF Peek, WramOK, Cell, Junk
<1>4. ASSUME NEW q \in DOMAIN new
      PROVE  new[q] \in Cell
  BY SMT, <1>2, <1>3 DEF BlockMove
<1>5. new \in [DOMAIN new -> Cell]
  <2>1. new = [q \in DOMAIN new |-> new[q]]
    BY SMT DEF BlockMove
  <2> HIDE DEF new
  <2> QED BY SMT, <1>4, <2>1
<1> QED BY SMT, <1>1, <1>2, <1>5 DEF WramOK

(* A pushed item is what is pulled, and what is below it is left. *)
LEMMA PushPop ==
    ASSUME NEW s, NEW item
    PROVE  Top(Push(s, item)) = item /\ Pop(Push(s, item)) = s
BY SMT DEF Top, Pop, Push

-----------------------------------------------------------------------------
(* The stack while the routine runs.  Called is what Main's jsl pushes;    *)
(* Saved is that and the caller's registers; Frame is what Setup leaves.   *)
Called == Push(EmptyStack, Item("addr", AfterCall))
Saved  == Push(Push(Called, Item("dp", 0)), Item("db", 128))
Frame  == IF RETLEN THEN Push(Saved, Item("word", call.dst)) ELSE Saved

(* The stack around a block move. *)
MoveFrame(w) == Push(Push(Frame, Item("word", w)), Item("db", call.srcBank))

SavedX == ItemValue(Top(Pop(stack)))  \* the X saved there

-----------------------------------------------------------------------------
(* What a call record holds. *)
LEMMA CallType ==
    ASSUME NEW r, CallOK(r)
    PROVE  /\ r.block \in Seq(Byte)
           /\ r.src \in Word /\ r.dst \in Word
           /\ r.srcBank \in Byte /\ r.dstBank \in Byte
BY SMT DEF CallOK, Byte

(* Loads and DMA fetches give bytes wherever X and DB point. *)
LEMMA LoadType ==
    ASSUME CommonTypeOK
    PROVE  /\ ReadByte \in Byte
           /\ ReadWord \in Word
           /\ \A n \in Nat : DmaSource(n) \in [0 .. n - 1 -> Byte]
<1>1. /\ call.block \in Seq(Byte)
      /\ call.src \in Word
      /\ x \in Word
  BY CallType DEF CommonTypeOK
<1>2. ASSUME NEW n \in Nat, NEW i \in 0 .. n - 1
      PROVE  RomByte(call.block, call.srcBank, call.src, inBank, Wrap(x + i))
                 \in Byte
  <2>1. Wrap(x + i) \in Word
    <3>1. x + i \in Int
      BY SMT, <1>1 DEF Word
    <3> QED BY <3>1, WrapType
  <2> QED BY <1>1, <2>1, RomByteType
<1>3. \A n \in Nat : DmaSource(n) \in [0 .. n - 1 -> Byte]
  BY SMT, <1>2 DEF DmaSource
<1> QED BY <1>1, <1>3, RomByteType, RomWordType DEF ReadByte, ReadWord

(* The loads one byte further on. *)
LEMMA LoadAfterType ==
    ASSUME CommonTypeOK
    PROVE  ByteAfter \in Byte /\ WordAfter \in Word
<1>1. /\ call.block \in Seq(Byte)
      /\ call.src \in Word
  BY CallType DEF CommonTypeOK
<1>2. Wrap(x + 1) \in Word
  BY SMT, WrapType DEF CommonTypeOK, Word
<1>3. ByteAfter \in Byte
  BY <1>1, <1>2, RomByteType DEF ByteAfter
<1>4. CASE x = 65535
  <2>1. MakeWord(Filler, Filler) \in Word
    BY SMT, MakeWordType DEF Filler, Byte
  <2> QED BY SMT, <1>3, <1>4, <2>1 DEF WordAfter
<1>5. CASE x # 65535
  <2>1. x + 1 \in Word
    BY SMT, <1>5 DEF CommonTypeOK, Word
  <2>2. RomWord(call.block, call.srcBank, call.src, db, x + 1) \in Word
    BY <1>1, <2>1, RomWordType
  <2> QED BY SMT, <1>3, <1>5, <2>2 DEF WordAfter
<1> QED BY SMT, <1>4, <1>5

-----------------------------------------------------------------------------
(* The state boot.s leaves. *)
LEMMA RoutineInitType == RoutineInit => CommonTypeOK
<1> SUFFICES ASSUME RoutineInit PROVE CommonTypeOK
  OBVIOUS
<1>1. CallOK(call)
  BY CallsAssumption DEF RoutineInit
<1>2. WramOK(wram)
  BY SMT DEF RoutineInit, WramOK
<1> QED BY SMT, <1>1, <1>2
  DEF RoutineInit, CommonTypeOK, Word, Byte, Bit, WramAddress

(* The call loads the index registers and B:A. *)
LEMMA CallRoutineType ==
    ASSUME CommonTypeOK, CallRoutine
    PROVE  CommonTypeOK'
<1>1. /\ call.src \in Word /\ call.dst \in Word
      /\ call.srcBank \in Byte /\ call.dstBank \in Byte
  BY CallType DEF CommonTypeOK
<1>2. MakeWord(call.srcBank, call.dstBank) \in Word
  BY <1>1, MakeWordType
<1> QED BY SMT, <1>1, <1>2 DEF CallRoutine, CommonTypeOK, fixed, output

(* What Setup puts into the banks, DP and A. *)
LEMMA SetupFrameType ==
    ASSUME CommonTypeOK, NEW port \in WramAddress, SetupFrame(port)
    PROVE  /\ db' \in Byte /\ dp' \in Word /\ a' \in Word
           /\ inBank' \in Byte /\ outBank' \in Byte /\ wmadd' \in WramAddress
<1>1. Lo(a) \in Byte /\ Hi(a) \in Byte
  BY HalfType DEF CommonTypeOK
<1>2. MakeWord(128, Lo(a)) \in Word
  BY SMT, <1>1, MakeWordType DEF Byte
<1>3. 17152 \in Word
  BY SMT DEF Word
<1>4. PortBank(port, Hi(a)) \in WramAddress
  BY <1>1, PortType DEF CommonTypeOK
<1> QED BY SMT, <1>1, <1>2, <1>3, <1>4 DEF SetupFrame

(* A literal run. *)
LEMMA CopyRunType ==
    ASSUME CommonTypeOK, NEW len \in Word, NEW port \in WramAddress,
           CopyRun(len, port)
    PROVE  WramOK(wram') /\ wmadd' \in WramAddress /\ x' \in Word
<1> DEFINE n == DmaCount(len)
<1>1. n \in Nat /\ n <= 65536
  BY DmaCountType
<1>2. WramOK(wram)
  BY DEF CommonTypeOK, WramOK
<1>3. DmaSource(n) \in [0 .. n - 1 -> Byte]
  <2>1. \A k \in Nat : DmaSource(k) \in [0 .. k - 1 -> Byte]
    BY LoadType
  <2>2. n \in Nat
    BY SMT, <1>1
  <2> HIDE DEF n
  <2> QED BY Zenon, <2>1, <2>2
<1>4. WramOK(DmaToWram(wram, port, DmaSource(n), n))
  <2> HIDE DEF n
  <2> QED BY SMT, <1>1, <1>2, <1>3, DmaToWramType
<1>5. Wrap(x + n) \in Word
  <2> HIDE DEF n
  <2> QED BY SMT, <1>1, WrapType DEF CommonTypeOK, Word
<1>6. PortOn(port, n) \in WramAddress
  <2>1. n \in Nat
    BY SMT, <1>1
  <2> HIDE DEF n
  <2> QED BY <2>1, PortType
<1> QED BY <1>4, <1>5, <1>6 DEF CopyRun

(* The block move. *)
LEMMA MoveBlockType ==
    ASSUME CommonTypeOK, MoveBlock
    PROVE  CommonTypeOK'
<1>1. WramOK(wram')
  <2>1. a + 1 \in Nat
    BY SMT DEF CommonTypeOK, Word
  <2>2. WramOK(wram) /\ outBank \in Byte /\ x \in Word /\ y \in Word
    BY DEF CommonTypeOK, WramOK
  <2>3. WramOK(BlockMove(wram, outBank, x, y, a + 1))
    BY Zenon, <2>1, <2>2, BlockMoveType
  <2> QED BY <2>3 DEF MoveBlock
<1>2. Wrap(x + a + 1) \in Word /\ Wrap(y + a + 1) \in Word
  BY SMT, WrapType DEF CommonTypeOK, Word
<1>3. 65535 \in Word
  BY SMT DEF Word
<1> QED BY SMT, <1>1, <1>2, <1>3 DEF MoveBlock, CommonTypeOK, fixed, WramOK

LEMMA PortAtYType == CommonTypeOK => PortAtY \in WramAddress
BY PortType DEF CommonTypeOK, PortAtY

-----------------------------------------------------------------------------
(* Steps do not change the call, so the frame stays what it is. *)
LEMMA FrameFixed ==
    ASSUME call' = call
    PROVE  Frame' = Frame /\ \A w : MoveFrame(w)' = MoveFrame(w)
BY SMT DEF Frame, Saved, Called, AfterCall, MoveFrame

(* Setup builds the frame. *)
LEMMA SetupBuildsFrame ==
    ASSUME stack = Called, db = 128, dp = 0, y = call.dst,
           a = MakeWord(call.srcBank, call.dstBank), CallOK(call),
           NEW port, SetupFrame(port), call' = call
    PROVE  /\ stack' = Frame'
           /\ db' = call.srcBank /\ inBank' = call.srcBank
           /\ outBank' = call.dstBank
<1>1. call.srcBank \in Byte /\ call.dstBank \in Byte
  BY CallType
<1>2. stack' = Frame'
  BY SMT DEF SetupFrame, Frame, Saved, SavedRegisters, Called
<1>3. db' = call.srcBank /\ inBank' = call.srcBank /\ outBank' = call.dstBank
  BY SMT, <1>1, MakeWordType DEF SetupFrame
<1> QED BY <1>2, <1>3

(* The exit takes it apart: DB, DP and the return address end up where     *)
(* they came from, and X is the distance from the destination.             *)
LEMMA LeaveFrame ==
    ASSUME CommonTypeOK, NEW end \in Word, LeaveRoutine(Frame, end)
    PROVE  /\ stack' = EmptyStack /\ pc' = "Idle"
           /\ db' = 128 /\ dp' = 0
           /\ RETLEN => x' = Sbc(end, call.dst)
           /\ x' \in Word /\ a' \in Word /\ c' \in Bit
<1>1. Unwound(Frame) = Saved
  BY SMT, RetlenAssumption DEF Unwound, Frame, Pop, Push
<1>2. /\ ItemValue(Top(Saved)) = 128
      /\ ItemValue(Top(Pop(Saved))) = 0
      /\ ReturnTo(Pop(Pop(Saved))) = "Idle"
      /\ Pop(Pop(Pop(Saved))) = EmptyStack
  BY SMT DEF Saved, Called, AfterCall, Top, Pop, Push, Item, ItemValue, ReturnTo
<1>3. RETLEN => ItemValue(Top(Frame)) = call.dst
  BY SMT DEF Frame, Top, Push, Item, ItemValue
<1>4. RETLEN => Sbc(end, call.dst) \in Word /\ NoBorrow(end, call.dst) \in Bit
  BY CallType, SbcType DEF CommonTypeOK
<1> QED BY SMT, <1>1, <1>2, <1>3, <1>4 DEF LeaveRoutine, CommonTypeOK

(* The block move's registers are restored to what they were. *)
LEMMA LeaveMoveFrame ==
    ASSUME CommonTypeOK, LeaveMove, NEW w \in Word, stack = MoveFrame(w)
    PROVE  /\ db' = call.srcBank /\ db' \in Byte
           /\ x' = w /\ stack' = Frame /\ m' = 8
<1>1. /\ RestoredBank = call.srcBank
      /\ ItemValue(Top(Pop(stack))) = w
      /\ Pop(Pop(stack)) = Frame
  BY SMT DEF RestoredBank, MoveFrame, Top, Pop, Push, Item, ItemValue
<1> QED BY SMT, <1>1, CallType DEF LeaveMove, CommonTypeOK

(* EnterMove saves X and DB as MoveFrame says. *)
LEMMA EnterMoveFrame ==
    ASSUME NEW from \in Word, NEW operand \in Word,
           EnterMove(from, operand), stack = Frame, db = call.srcBank
    PROVE  stack' = MoveFrame(x) /\ SavedX' = x /\ x' = from /\ a' = operand
<1>1. stack' = MoveFrame(x) /\ x' = from /\ a' = operand
  BY SMT DEF EnterMove, MoveFrame
<1>2. SavedX' = x
  BY SMT, <1>1 DEF MoveFrame, SavedX, Top, Pop, Push, Item, ItemValue
<1> QED BY <1>1, <1>2

-----------------------------------------------------------------------------
(* What is asked of a call beyond CallOK for its text to be produced: the  *)
(* block and the text are in one bank each, and the script spells the text.*)
Text == INSTANCE LzBlock

Spelled(r) == /\ r.plain \in Seq(Byte)
              /\ Text!Spells(r)
              /\ Text!InOneBank(r)

Script  == call.script
Size    == Len(call.plain)                  \* of the text
From(i) == call.out[i] + Script[i].lit      \* where a command's match goes

LEMMA SpelledType ==
    ASSUME CallOK(call), Spelled(call)
    PROVE  /\ call.src \in Nat /\ call.dst \in Nat
           /\ call.srcBank \in Byte /\ call.dstBank \in {126, 127}
           /\ call.block \in Seq(Byte) /\ Len(call.block) \in Nat
           /\ call.plain \in Seq(Byte) /\ Size \in Nat
           /\ call.src + Len(call.block) <= 65536
           /\ call.dst + Size <= 65536 /\ Size < 65536
           /\ call.src < 65536 /\ call.dst < 65536
BY SMT DEF CallOK, Spelled, Text!InOneBank, Word, Byte, Size

(* A command, and where it stands in the text. *)
LEMMA CommandType ==
    ASSUME Spelled(call), NEW i \in 1 .. Len(Script)
    PROVE  /\ Script[i].lit \in Nat /\ Script[i].len \in Nat
           /\ Script[i].off \in Nat
           /\ call.out[i] \in Nat /\ From(i) \in Nat
           /\ call.out[i + 1] = From(i) + Script[i].len
           /\ From(i) + Script[i].len <= Size
           /\ Script[i].len > 0 => Script[i].off \in 1 .. From(i)
           /\ Text!Copies(call.plain, From(i), Script[i])
<1>0. Len(Script) \in Nat /\ Size \in Nat
  BY SMT DEF Spelled, Text!Spells, Script, Size
<1>1. Script[i] \in [lit : Nat, len : Nat, off : Nat]
  <2>1. Script \in Seq(Text!Commands)
    BY DEF Spelled, Text!Spells, Script
  <2>2. Script[i] \in Text!Commands
    BY SMT, <2>1
  <2> QED BY <2>2 DEF Text!Commands
<1>2. call.out[i] \in 0 .. Size /\ call.out[i + 1] \in 0 .. Size
  <2>1. i \in 1 .. Len(Script) + 1 /\ i + 1 \in 1 .. Len(Script) + 1
    BY SMT, <1>0
  <2>2. call.out \in [1 .. Len(Script) + 1 -> 0 .. Size]
    BY DEF Spelled, Text!Spells, Script, Size
  <2> QED BY SMT, <2>1, <2>2
<1>3. /\ call.out[i + 1] = From(i) + Script[i].len
      /\ Text!Copies(call.plain, From(i), Script[i])
  BY SMT DEF Spelled, Text!Spells, Script, From
<1>4. Script[i].lit \in Nat /\ Script[i].len \in Nat /\ Script[i].off \in Nat
  BY SMT, <1>1
<1>5. From(i) \in Nat
  BY SMT, <1>0, <1>2, <1>4 DEF From
<1> QED BY SMT, <1>0, <1>2, <1>3, <1>4, <1>5 DEF Text!Copies

-----------------------------------------------------------------------------
(* Position p of the block is where X is; the first n bytes of the text,   *)
(* and nothing else, are where they belong, with Y behind them, and the    *)
(* data port in their bank for as long as there is something left of it.   *)
Position(p) == Wrap(call.src + p)

Start == WramAt(call.dstBank, call.dst)

TextTo(n) == /\ n \in 0 .. Size
             /\ DOMAIN wram = Start .. Start + n - 1
             /\ \A i \in 1 .. n : wram[Start + i - 1] = call.plain[i]

PortInBank(n) == call.dst + n < 65536 => wmadd \div 65536 = call.dstBank % 2

Made(n) == TextTo(n) /\ PortInBank(n)

After(n) == Wrap(call.dst + n)

LEMMA MadeKept ==
    ASSUME NEW n, Made(n), UNCHANGED <<call, wram, wmadd>>
    PROVE  Made(n)'
BY DEF Made, TextTo, PortInBank, Start, Size

LEMMA PositionType ==
    ASSUME CallOK(call), Spelled(call), NEW p \in 0 .. Len(call.block)
    PROVE  /\ Position(p) \in Word
           /\ p < Len(call.block) => /\ Position(p) = call.src + p
                                     /\ Wrap(Position(p) - call.src) = p
           /\ \A n \in Nat : Wrap(Position(p) + n) = Position(p + n)
<1> DEFINE src == call.src
<1>1. src \in Nat /\ src + p \in Nat /\ p \in Nat
  BY SMT, SpelledType
<1>2. p < Len(call.block) => src + p < 65536
  BY SMT, SpelledType
<1>3. Position(p) = (src + p) % 65536
  BY DEF Position, Wrap
<1> HIDE DEF src
<1>4. Position(p) \in Word
  BY SMT, <1>1, <1>3 DEF Word
<1>5. p < Len(call.block) => Position(p) = src + p
  BY SMT, <1>1, <1>2, <1>3
<1>6. p < Len(call.block) => Wrap(Position(p) - src) = p
  BY SMT, <1>1, <1>2, <1>5 DEF Wrap
<1>7. ASSUME NEW n \in Nat PROVE Wrap(Position(p) + n) = Position(p + n)
  <2>1. (((src + p) % 65536) + n) % 65536 = (src + (p + n)) % 65536
    BY SMT, <1>1
  <2> QED BY SMT, <1>3, <2>1 DEF Position, Wrap, src
<1> QED BY <1>4, <1>5, <1>6, <1>7 DEF src

(* Only the end of the block is where the block ends. *)
LEMMA BeforeEnd ==
    ASSUME CallOK(call), Spelled(call), NEW p \in Nat,
           p < Len(call.block), p # 0
    PROVE  Position(p) # Position(Len(call.block))
<1> DEFINE src == call.src
           len == Len(call.block)
<1>1. src \in Nat /\ len \in Nat /\ src + len <= 65536 /\ src < 65536
  BY SMT, SpelledType
<1>2. Position(p) = (src + p) % 65536 /\ Position(len) = (src + len) % 65536
  BY DEF Position, Wrap
<1> HIDE DEF src, len
<1>3. p < len
  BY DEF len
<1>4. (src + p) % 65536 # (src + len) % 65536
  BY SMT, <1>1, <1>3
<1> QED BY SMT, <1>2, <1>4 DEF len

(* Loads from inside the block. *)
LEMMA LoadFromBlock ==
    ASSUME CallOK(call), Spelled(call), NEW p \in Nat, p < Len(call.block)
    PROVE  RomByte(call.block, call.srcBank, call.src, call.srcBank,
                   Position(p)) = call.block[p + 1]
<1>1. p \in 0 .. Len(call.block)
  BY SMT, SpelledType
<1>2. Wrap(Position(p) - call.src) = p
  BY <1>1, PositionType
<1> QED BY <1>2 DEF RomByte

LEMMA LoadByte ==
    ASSUME CallOK(call), Spelled(call), db = call.srcBank,
           NEW p \in Nat, p < Len(call.block), x = Position(p)
    PROVE  ReadByte = call.block[p + 1]
BY LoadFromBlock DEF ReadByte

LEMMA LoadWord ==
    ASSUME CallOK(call), Spelled(call), db = call.srcBank,
           NEW p \in Nat, p + 1 < Len(call.block), x = Position(p)
    PROVE  ReadWord = MakeWord(call.block[p + 1], call.block[p + 2])
<1>1. /\ p < Len(call.block) /\ p + 1 \in Nat /\ p + 1 + 1 = p + 2
      /\ p \in 0 .. Len(call.block) /\ p + 1 \in 0 .. Len(call.block)
  BY SMT, SpelledType
<1>2. Position(p) = call.src + p /\ Position(p + 1) = call.src + (p + 1)
  BY <1>1, PositionType
<1>3. Position(p) # 65535 /\ Position(p) + 1 = Position(p + 1)
  <2>1. call.src \in Nat /\ call.src + (p + 1) < 65536
    BY SMT, SpelledType
  <2> QED BY SMT, <1>1, <1>2, <2>1
<1>4. /\ RomByte(call.block, call.srcBank, call.src, call.srcBank,
                 Position(p)) = call.block[p + 1]
      /\ RomByte(call.block, call.srcBank, call.src, call.srcBank,
                 Position(p + 1)) = call.block[p + 2]
  BY <1>1, LoadFromBlock
<1> QED BY <1>3, <1>4 DEF ReadWord, RomWord

LEMMA LoadByteAfter ==
    ASSUME CallOK(call), Spelled(call), db = call.srcBank,
           NEW p \in Nat, p + 1 < Len(call.block), x = Position(p)
    PROVE  ByteAfter = call.block[p + 2]
<1>1. p + 1 \in Nat /\ p + 1 + 1 = p + 2 /\ p \in 0 .. Len(call.block)
  BY SMT, SpelledType
<1>2. Wrap(x + 1) = Position(p + 1)
  BY <1>1, PositionType
<1>3. RomByte(call.block, call.srcBank, call.src, call.srcBank,
              Position(p + 1)) = call.block[p + 1 + 1]
  BY <1>1, LoadFromBlock
<1> QED BY <1>1, <1>2, <1>3 DEF ByteAfter

LEMMA LoadWordAfter ==
    ASSUME CallOK(call), Spelled(call), db = call.srcBank,
           NEW p \in Nat, p + 2 < Len(call.block), x = Position(p)
    PROVE  WordAfter = MakeWord(call.block[p + 2], call.block[p + 3])
<1>1. /\ p < Len(call.block) /\ p + 1 \in Nat /\ p + 1 < Len(call.block)
      /\ p + 2 \in Nat /\ p + 1 + 1 = p + 2 /\ p + 2 + 1 = p + 3
      /\ p \in 0 .. Len(call.block) /\ p + 1 \in 0 .. Len(call.block)
      /\ p + 2 \in 0 .. Len(call.block)
  BY SMT, SpelledType
<1>2. /\ Position(p) = call.src + p /\ Position(p + 1) = call.src + (p + 1)
      /\ Position(p + 2) = call.src + (p + 2)
  BY <1>1, PositionType
<1>3. /\ Position(p) # 65535 /\ Position(p) + 1 = Position(p + 1)
      /\ Position(p + 1) # 65535 /\ Position(p + 1) + 1 = Position(p + 2)
  <2>1. call.src \in Nat /\ call.src + (p + 2) < 65536
    BY SMT, SpelledType
  <2> QED BY SMT, <1>1, <1>2, <2>1
<1>4. /\ RomByte(call.block, call.srcBank, call.src, call.srcBank,
                 Position(p + 1)) = call.block[p + 1 + 1]
      /\ RomByte(call.block, call.srcBank, call.src, call.srcBank,
                 Position(p + 2)) = call.block[p + 2 + 1]
  BY <1>1, LoadFromBlock
<1>5. WordAfter = MakeWord(call.block[p + 1 + 1], call.block[p + 2 + 1])
  BY <1>3, <1>4 DEF WordAfter, RomWord
<1> QED BY <1>1, <1>5

-----------------------------------------------------------------------------
(* After(n) is n bytes past the destination, and Y tells n. *)
LEMMA AfterType ==
    ASSUME CallOK(call), Spelled(call), NEW n \in 0 .. Size
    PROVE  /\ After(n) \in Word
           /\ n < Size => After(n) = call.dst + n
           /\ Wrap(After(n) - call.dst) = n
           /\ \A k \in Nat : Wrap(After(n) + k) = After(n + k)
<1> DEFINE dst == call.dst
<1>1. dst \in Nat /\ n \in Nat /\ dst < 65536 /\ n < 65536
  BY SMT, SpelledType
<1>2. n < Size => dst + n < 65536
  BY SMT, SpelledType
<1>3. After(n) = (dst + n) % 65536
  BY DEF After, Wrap
<1> HIDE DEF dst
<1>4. After(n) \in Word
  BY SMT, <1>1, <1>3 DEF Word
<1>5. n < Size => After(n) = dst + n
  BY SMT, <1>1, <1>2, <1>3
<1>6. Wrap(After(n) - dst) = n
  BY SMT, <1>1, <1>3 DEF Wrap
<1>7. ASSUME NEW k \in Nat PROVE Wrap(After(n) + k) = After(n + k)
  <2>1. (((dst + n) % 65536) + k) % 65536 = (dst + (n + k)) % 65536
    BY SMT, <1>1
  <2> QED BY SMT, <1>3, <2>1 DEF After, Wrap, dst
<1> QED BY <1>4, <1>5, <1>6, <1>7 DEF dst

(* Where a byte of the text goes is in WRAM, in the destination's bank. *)
LEMMA StartType ==
    ASSUME CallOK(call), Spelled(call)
    PROVE  /\ Start \in Nat /\ Start + Size <= 131072
           /\ call.dstBank % 2 \in {0, 1}
           /\ Start = (call.dstBank % 2) * 65536 + call.dst
<1>1. call.dst \in Nat /\ call.dst + Size <= 65536 /\ Size \in Nat
  BY SMT, SpelledType
<1>2. call.dstBank % 2 \in {0, 1}
  BY SMT, SpelledType
<1>3. Start = (call.dstBank % 2) * 65536 + call.dst
  BY DEF Start, WramAt
<1> QED BY SMT, <1>1, <1>2, <1>3

(* Where the data port is once Y has been written to it. *)
LEMMA PortAtAfter ==
    ASSUME CallOK(call), Spelled(call), wmadd \in WramAddress,
           NEW n \in 0 .. Size, n < Size, PortInBank(n), y = After(n)
    PROVE  PortAtY = Start + n
<1>1. y = call.dst + n /\ call.dst + n < 65536
  <2>1. y = call.dst + n
    BY AfterType
  <2>2. /\ call.dst \in Nat /\ n \in Nat /\ Size \in Nat
        /\ call.dst + Size <= 65536
    BY SMT, SpelledType
  <2> QED BY SMT, <2>1, <2>2
<1>2. wmadd \div 65536 = call.dstBank % 2
  BY <1>1 DEF PortInBank
<1>3. call.dst \in Nat /\ n \in Nat
  BY SMT, SpelledType
<1>4. (call.dstBank % 2) % 2 = call.dstBank % 2
  BY SMT, StartType
<1> QED BY SMT, <1>1, <1>2, <1>3, <1>4, StartType DEF PortAtY, PortAt, WramAt

-----------------------------------------------------------------------------
(* A DMA run behind what is there makes one stretch of both. *)
DmaAt(p, i)    == (p + i) % 131072    \* where byte i goes
DmaIndex(p, q) == (q - p) % 131072    \* which byte goes to q

LEMMA DmaValue ==
    ASSUME NEW w, NEW p, NEW bytes, NEW k,
           NEW q \in DOMAIN DmaToWram(w, p, bytes, k)
    PROVE  /\ DmaIndex(p, q) < k
                  => DmaToWram(w, p, bytes, k)[q] = bytes[DmaIndex(p, q)]
           /\ ~(DmaIndex(p, q) < k)
                  => DmaToWram(w, p, bytes, k)[q] = w[q]
BY SMT DEF DmaToWram, DmaIndex

(* k bytes more behind the n from `start' on. *)
Appended(v, w, start, n, k, bytes) ==
    /\ DOMAIN v = start .. start + (n + k) - 1
    /\ \A i \in 1 .. n : v[start + i - 1] = w[start + i - 1]
    /\ \A i \in 0 .. k - 1 : v[start + n + i] = bytes[i]

LEMMA DmaRun ==
    ASSUME NEW w, NEW bytes, NEW start \in Nat, NEW n \in Nat, NEW k \in Nat,
           n + k \in Word, start + n + k - 1 \in WramAddress,
           DOMAIN w = start .. start + n - 1
    PROVE  Appended(DmaToWram(w, start + n, bytes, k), w, start, n, k, bytes)
<1> DEFINE p == start + n
           target == {DmaAt(p, i) : i \in 0 .. k - 1}
           v == DmaToWram(w, p, bytes, k)
<1>1. ASSUME NEW i \in 0 .. k - 1
      PROVE  /\ DmaAt(p, i) = p + i /\ DmaIndex(p, p + i) = i /\ i < k
             /\ p + i \in p .. p + k - 1
  BY SMT DEF DmaAt, DmaIndex, WramAddress
<1>2. ASSUME NEW q \in p .. p + k - 1
      PROVE  q \in target
  <2> DEFINE i == q - p
  <2>1. i \in 0 .. k - 1 /\ q = p + i
    BY SMT
  <2> HIDE DEF i
  <2>2. q = DmaAt(p, i)
    BY <1>1, <2>1
  <2> QED BY <2>1, <2>2
<1>3. DOMAIN v = DOMAIN w \cup target
  BY SMT DEF DmaToWram, DmaAt
<1>4. \A q \in DOMAIN v : /\ DmaIndex(p, q) < k => v[q] = bytes[DmaIndex(p, q)]
                          /\ ~(DmaIndex(p, q) < k) => v[q] = w[q]
  BY DmaValue
<1> HIDE DEF v
<1>5. target = p .. p + k - 1
  <2>1. ASSUME NEW q \in target PROVE q \in p .. p + k - 1
    BY <1>1
  <2> HIDE DEF target
  <2> QED BY <1>2, <2>1
<1> HIDE DEF target
<1>6. DOMAIN v = start .. start + (n + k) - 1
  <2>1. ASSUME NEW q
        PROVE  q \in start .. start + n - 1 \/ q \in p .. p + k - 1
               <=> q \in start .. start + (n + k) - 1
    BY SMT
  <2>2. (start .. start + n - 1) \cup (p .. p + k - 1)
            = start .. start + (n + k) - 1
    BY Zenon, <2>1
  <2> QED BY <1>3, <1>5, <2>2
<1>7. ASSUME NEW i \in 1 .. n
      PROVE  v[start + i - 1] = w[start + i - 1]
  <2>1. start + i - 1 \in DOMAIN v
    BY SMT, <1>6
  <2>2. ~(DmaIndex(p, start + i - 1) < k)
    BY SMT DEF DmaIndex, Word
  <2> QED BY <1>4, <2>1, <2>2
<1>8. ASSUME NEW i \in 0 .. k - 1
      PROVE  v[p + i] = bytes[i]
  <2>1. p + i \in DOMAIN v
    BY <1>1, <1>3, <1>5
  <2> QED BY <1>1, <1>4, <2>1
<1> QED BY <1>6, <1>7, <1>8 DEF v, Appended

-----------------------------------------------------------------------------
(* The sizes a call's positions stay below. *)
LEMMA SizeType ==
    ASSUME CallOK(call), Spelled(call)
    PROVE  /\ Size \in Nat /\ Size \in Word /\ call.dst \in Nat
           /\ call.dst + Size - 1 \in Word \cup {-1}
           /\ Start + Size - 1 \in WramAddress \cup {-1}
           /\ Len(call.block) \in Nat
<1>1. /\ Size \in Nat /\ Size < 65536 /\ call.dst \in Nat
      /\ call.dst + Size <= 65536 /\ Len(call.block) \in Nat
  BY SMT, SpelledType
<1>2. Start \in Nat /\ Start + Size <= 131072
  BY StartType
<1> QED BY SMT, <1>1, <1>2 DEF Word, WramAddress

(* The literals of a command: what lies at position p of the block goes to *)
(* where the text made so far ends.                                        *)
LEMMA LiteralRun ==
    ASSUME CallOK(call), Spelled(call), wmadd \in WramAddress,
           inBank = call.srcBank,
           NEW n \in Nat, NEW lit \in Nat, lit > 0, n + lit <= Size,
           NEW p \in Nat, p + lit <= Len(call.block),
           \A j \in 1 .. lit : call.block[p + j] = call.plain[n + j],
           Made(n), x = Position(p), y = After(n),
           CopyRun(lit, PortAtY), call' = call
    PROVE  /\ Made(n + lit)'
           /\ x' = Position(p + lit)
           /\ Adc(y, lit, 0) = After(n + lit)
<1> DEFINE port == Start + n
           bytes == DmaSource(lit)
<1>1. /\ n \in 0 .. Size /\ n < Size /\ n + lit \in 0 .. Size
      /\ lit # 0 /\ n + lit \in Word
      /\ port \in Nat /\ port + lit - 1 \in WramAddress
      /\ Start \in Nat
  <2>1. Size \in Nat /\ Size \in Word /\ Start \in Nat /\ Size > 0
        /\ Start + Size - 1 \in WramAddress \cup {-1}
    BY SMT, SizeType, StartType
  <2> QED BY SMT, <2>1 DEF Word, WramAddress
<1>2. PortAtY = port
  BY <1>1, PortAtAfter DEF Made
<1>3. /\ wram' = DmaToWram(wram, port, bytes, lit)
      /\ wmadd' = PortOn(port, lit)
      /\ x' = Wrap(x + lit)
  BY <1>1, <1>2 DEF CopyRun, DmaCount
<1>4. p \in 0 .. Len(call.block) /\ Len(call.block) \in Nat
  BY SMT, SizeType
<1>5. x' = Position(p + lit)
  BY <1>3, <1>4, PositionType
<1>6. Adc(y, lit, 0) = After(n + lit)
  <2>1. After(n) \in Word /\ Wrap(After(n) + lit) = After(n + lit)
    BY <1>1, AfterType
  <2>2. After(n) + lit + 0 = After(n) + lit
    BY SMT, <2>1 DEF Word
  <2> QED BY <2>1, <2>2 DEF Adc
<1>7. ASSUME NEW k \in 0 .. lit - 1
      PROVE  bytes[k] = call.plain[n + k + 1]
  <2>1. k \in Nat /\ k + 1 \in 1 .. lit /\ p + k \in Nat
        /\ p + k < Len(call.block)
        /\ p + (k + 1) = p + k + 1 /\ n + (k + 1) = n + k + 1
    BY SMT, <1>4
  <2>2. bytes[k] = RomByte(call.block, call.srcBank, call.src, call.srcBank,
                           Wrap(x + k))
    BY DEF DmaSource
  <2>3. Wrap(x + k) = Position(p + k)
    BY <1>4, <2>1, PositionType
  <2>4. bytes[k] = call.block[p + k + 1]
    BY <2>1, <2>2, <2>3, LoadFromBlock
  <2> QED BY <2>1, <2>4
<1>8. TextTo(n)
  BY DEF Made
<1> HIDE DEF bytes
<1>9. /\ DOMAIN wram' = Start .. Start + (n + lit) - 1
      /\ \A i \in 1 .. n : wram'[Start + i - 1] = wram[Start + i - 1]
      /\ \A i \in 0 .. lit - 1 : wram'[port + i] = bytes[i]
  <2>1. DOMAIN wram = Start .. Start + n - 1
    BY <1>8 DEF TextTo
  <2>2. Appended(DmaToWram(wram, port, bytes, lit), wram, Start, n, lit, bytes)
    BY <1>1, <2>1, DmaRun
  <2> QED BY <1>3, <2>2 DEF Appended
<1>10. ASSUME NEW i \in 1 .. n + lit
       PROVE  wram'[Start + i - 1] = call.plain[i]
  <2>1. CASE i \in 1 .. n
    BY <1>8, <1>9, <2>1 DEF TextTo
  <2>2. CASE i \notin 1 .. n
    <3> DEFINE k == i - n - 1
    <3>1. k \in 0 .. lit - 1 /\ n + k + 1 = i /\ port + k = Start + i - 1
      BY SMT, <1>1, <2>2
    <3> HIDE DEF k, port
    <3> QED BY <1>7, <1>9, <3>1
  <2> QED BY <2>1, <2>2
<1>11. PortInBank(n + lit)'
  <2> DEFINE b == call.dstBank % 2
             end == call.dst + (n + lit)
  <2>1. b \in {0, 1} /\ end \in Nat /\ port + lit = b * 65536 + end
    <3>1. call.dst \in Nat
      BY SizeType
    <3>2. b \in {0, 1} /\ Start = b * 65536 + call.dst
      BY StartType
    <3>3. n + lit \in Nat /\ port + lit = Start + (n + lit)
      BY SMT, <1>1
    <3> DEFINE dst == call.dst
               made == n + lit
    <3>4. dst \in Nat /\ made \in Nat /\ Start = b * 65536 + dst
      BY <3>1, <3>2, <3>3
    <3> HIDE DEF b, dst, made
    <3>5. dst + made \in Nat /\ Start + made = b * 65536 + (dst + made)
      BY SMT, <3>2, <3>4
    <3> QED BY <3>2, <3>3, <3>5 DEF dst, made
  <2>2. end < 65536 => ((b * 65536 + end) % 131072) \div 65536 = b
    <3> HIDE DEF end, b
    <3> QED BY SMT, <2>1
  <2>3. wmadd' = (port + lit) % 131072
    BY <1>3 DEF PortOn
  <2> QED BY SMT, <2>1, <2>2, <2>3 DEF PortInBank
<1>12. Start' = Start /\ Size' = Size
  BY DEF Start, Size
<1>13. Made(n + lit)'
  BY <1>1, <1>9, <1>10, <1>11, <1>12 DEF Made, TextTo
<1> QED BY <1>5, <1>6, <1>13

-----------------------------------------------------------------------------
(* A block move behind what is there, from inside it, repeats what it      *)
(* starts with: the last `off' bytes, over and over.                       *)
MoveAt(bank, to, i)    == WramAt(bank, Wrap(to + i))   \* where byte i goes
MoveHits(bank, to, q)  == q = WramAt(bank, q % 65536)  \* whether q is in reach
MoveIndex(to, q)       == Wrap(q - to)                 \* which byte goes to q
MoveFrom(bank, from, dist, i) ==                       \* where byte i is from
    WramAt(bank, Wrap(from + (IF dist = 0 THEN i ELSE i % dist)))

LEMMA MoveValue ==
    ASSUME NEW w, NEW bank, NEW from, NEW to, NEW n,
           NEW q \in DOMAIN BlockMove(w, bank, from, to, n)
    PROVE  BlockMove(w, bank, from, to, n)[q]
               = Peek(w, IF MoveHits(bank, to, q) /\ MoveIndex(to, q) < n
                         THEN MoveFrom(bank, from, Wrap(to - from),
                                       MoveIndex(to, q))
                         ELSE q)
BY SMT DEF BlockMove, MoveHits, MoveIndex, MoveFrom

Repeated(v, w, start, n, k, off) ==
    /\ DOMAIN v = start .. start + (n + k) - 1
    /\ \A i \in 1 .. n : v[start + i - 1] = w[start + i - 1]
    /\ \A i \in 0 .. k - 1 : v[start + n + i] = w[start + n - off + (i % off)]

LEMMA MoveRun ==
    ASSUME NEW w, NEW bank \in Byte, NEW d \in Nat, NEW n \in Nat,
           NEW k \in Nat, NEW off \in 1 .. n,
           NEW from, from = d + n - off, NEW to, to = d + n,
           NEW start, start = WramAt(bank, d),
           n + k \in Word, d + n + k - 1 \in Word,
           DOMAIN w = start .. start + n - 1
    PROVE  Repeated(BlockMove(w, bank, from, to, k), w, start, n, k, off)
<1> DEFINE b == bank % 2
           target == {MoveAt(bank, to, i) : i \in 0 .. k - 1}
           v == BlockMove(w, bank, from, to, k)
<1>1. b \in {0, 1} /\ start = b * 65536 + d /\ start \in Nat
  BY SMT DEF Byte, WramAt
<1>2. ASSUME NEW j \in 0 .. n + k - 1
      PROVE  /\ WramAt(bank, Wrap(d + j)) = start + j
             /\ MoveHits(bank, to, start + j)
             /\ j >= n => MoveIndex(to, start + j) = j - n
             /\ j < n => ~(MoveIndex(to, start + j) < k)
  <2>1. d + j \in Nat /\ d + j < 65536
    BY SMT DEF Word
  <2>2. Wrap(d + j) = d + j
    BY SMT, <2>1 DEF Wrap
  <2>3. (start + j) % 65536 = d + j
    <3> HIDE DEF b
    <3> QED BY SMT, <1>1, <2>1
  <2>4. WramAt(bank, d + j) = start + j
    <3>1. start + j = b * 65536 + (d + j)
      <4> HIDE DEF b
      <4> QED BY SMT, <1>1
    <3> QED BY <3>1 DEF WramAt
  <2>5. MoveIndex(to, start + j) = Wrap((start + j) - to)
    BY DEF MoveIndex
  <2>6. /\ j >= n => Wrap((start + j) - to) = j - n
        /\ j < n => Wrap((start + j) - to) = 65536 + j - n
    <3>1. (start + j) - to = b * 65536 + j - n
      <4> HIDE DEF b
      <4> QED BY SMT, <1>1
    <3> HIDE DEF b
    <3> QED BY SMT, <1>1, <3>1 DEF Word, Wrap
  <2>7. j < n => ~(65536 + j - n < k)
    BY SMT DEF Word
  <2> QED BY <2>2, <2>3, <2>4, <2>5, <2>6, <2>7 DEF MoveHits
<1>3. v = BlockMove(w, bank, from, to, k)
  OBVIOUS
<1>4. DOMAIN v = DOMAIN w \cup target
  BY SMT DEF BlockMove, MoveAt
<1> HIDE DEF v
<1>5. target = {start + n + i : i \in 0 .. k - 1}
  <2>1. ASSUME NEW i \in 0 .. k - 1
        PROVE  MoveAt(bank, to, i) = start + n + i
    <3>1. n + i \in 0 .. n + k - 1 /\ to + i = d + (n + i)
          /\ start + n + i = start + (n + i)
      BY SMT, <1>1
    <3> QED BY <1>2, <3>1 DEF MoveAt
  <2> HIDE DEF v
  <2> QED BY <2>1
<1>6. DOMAIN v = start .. start + (n + k) - 1
  <2>1. \A i \in 0 .. k - 1 : start + n + i \in start + n .. start + (n + k) - 1
    BY SMT, <1>1
  <2>2. ASSUME NEW q \in start + n .. start + (n + k) - 1
        PROVE  q \in {start + n + i : i \in 0 .. k - 1}
    <3> DEFINE i == q - (start + n)
    <3>1. i \in 0 .. k - 1 /\ q = start + n + i
      BY SMT, <1>1
    <3> HIDE DEF i
    <3> QED BY <3>1
  <2>3. target = start + n .. start + (n + k) - 1
    <3> HIDE DEF target
    <3> QED BY Zenon, <1>5, <2>1, <2>2
  <2>4. ASSUME NEW q
        PROVE  \/ q \in start .. start + n - 1
               \/ q \in start + n .. start + (n + k) - 1
               <=> q \in start .. start + (n + k) - 1
    BY SMT, <1>1
  <2> HIDE DEF target
  <2>5. (start .. start + n - 1) \cup (start + n .. start + (n + k) - 1)
            = start .. start + (n + k) - 1
    BY Zenon, <2>4
  <2> QED BY <1>4, <2>3, <2>5
<1> HIDE DEF target
<1>7. Wrap(to - from) = off /\ off # 0
  <2>1. to - from = off /\ off \in Nat /\ off < 65536 /\ off # 0
    BY SMT DEF Word
  <2> QED BY SMT, <2>1 DEF Wrap
<1>8. ASSUME NEW j \in 0 .. n + k - 1
      PROVE  v[start + j] = Peek(w, IF j >= n
                                    THEN MoveFrom(bank, from, off, j - n)
                                    ELSE start + j)
  <2>1. start + j \in DOMAIN v
    BY SMT, <1>1, <1>6
  <2>2. v[start + j]
            = Peek(w, IF /\ MoveHits(bank, to, start + j)
                         /\ MoveIndex(to, start + j) < k
                      THEN MoveFrom(bank, from, Wrap(to - from),
                                    MoveIndex(to, start + j))
                      ELSE start + j)
    <3>1. start + j \in DOMAIN BlockMove(w, bank, from, to, k)
      BY <1>3, <2>1
    <3> QED BY <1>3, <3>1, MoveValue
  <2>3. CASE j >= n
    <3>1. j - n < k
      BY SMT
    <3> QED BY <1>2, <1>7, <2>2, <2>3, <3>1
  <2>4. CASE ~(j >= n)
    <3>1. j < n
      BY SMT, <2>4
    <3> QED BY <1>2, <2>2, <2>4, <3>1
  <2> QED BY <2>3, <2>4
<1>9. ASSUME NEW i \in 1 .. n
      PROVE  v[start + i - 1] = w[start + i - 1]
  <2>1. i - 1 \in 0 .. n + k - 1 /\ ~(i - 1 >= n) /\ start + (i - 1) = start + i - 1
    BY SMT, <1>1
  <2>2. start + i - 1 \in DOMAIN w
    BY SMT, <1>1
  <2> QED BY <1>8, <2>1, <2>2 DEF Peek
<1>10. ASSUME NEW i \in 0 .. k - 1
       PROVE  v[start + n + i] = w[start + n - off + (i % off)]
  <2> DEFINE r == i % off
  <2>1. r \in 0 .. off - 1
    BY SMT
  <2> HIDE DEF r
  <2>2. /\ n - off + r \in 0 .. n + k - 1 /\ from + r = d + (n - off + r)
        /\ start + n - off + r = start + (n - off + r)
        /\ start + n - off + r \in start .. start + n - 1
    BY SMT, <1>1, <2>1
  <2>3. WramAt(bank, Wrap(from + r)) = start + n - off + r
    BY <1>2, <2>2
  <2>4. MoveFrom(bank, from, off, i) = start + n - off + r
    BY <1>7, <2>3 DEF MoveFrom, r
  <2>5. /\ n + i \in 0 .. n + k - 1 /\ n + i >= n /\ n + i - n = i
        /\ start + (n + i) = start + n + i
    BY SMT, <1>1
  <2>6. v[start + n + i] = Peek(w, start + n - off + r)
    BY <1>8, <2>4, <2>5
  <2>7. v[start + n + i] = w[start + n - off + r]
    BY <2>2, <2>6 DEF Peek
  <2> QED BY <2>7 DEF r
<1>11. Repeated(v, w, start, n, k, off)
  BY <1>6, <1>9, <1>10 DEF Repeated
<1> QED BY <1>3, <1>11

(* The match of a command goes to where the text made so far ends. *)
LEMMA MatchRun ==
    ASSUME CallOK(call), Spelled(call), outBank = call.dstBank,
           NEW n \in Nat, NEW k \in Nat, k > 0, n + k <= Size,
           NEW off \in 1 .. n,
           \A j \in 1 .. k :
               call.plain[n + j] = call.plain[n - off + 1 + ((j - 1) % off)],
           Made(n), x = call.dst + n - off, y = After(n), a + 1 = k,
           a \in Word, MoveBlock
    PROVE  Made(n + k)' /\ y' = After(n + k)
<1>1. /\ n \in 0 .. Size /\ n < Size /\ n + k \in 0 .. Size /\ n + k \in Word
      /\ call.dst \in Nat /\ call.dst + n + k - 1 \in Word
      /\ Start \in Nat
  <2>1. /\ Size \in Nat /\ Size \in Word /\ Start \in Nat /\ Size > 0
        /\ call.dst \in Nat /\ call.dst + Size - 1 \in Word \cup {-1}
    BY SMT, SizeType, StartType
  <2> QED BY SMT, <2>1 DEF Word
<1>2. y = call.dst + n
  BY <1>1, AfterType
<1>3. wram' = BlockMove(wram, call.dstBank, x, y, k)
  BY DEF MoveBlock
<1>4. y' = After(n + k)
  <2>1. y + a + 1 = After(n) + k
    BY SMT, <1>1, <1>2 DEF Word
  <2>2. Wrap(After(n) + k) = After(n + k)
    BY <1>1, AfterType
  <2> QED BY <2>1, <2>2 DEF MoveBlock
<1>5. TextTo(n)
  BY DEF Made
<1>6. Repeated(wram', wram, Start, n, k, off)
  <2>1. DOMAIN wram = Start .. Start + n - 1
    BY <1>5 DEF TextTo
  <2>2. call.dstBank \in Byte
    BY CallType
  <2>3. Repeated(BlockMove(wram, call.dstBank, x, y, k), wram, Start, n, k, off)
    BY <1>1, <1>2, <2>1, <2>2, MoveRun DEF Start
  <2> QED BY <1>3, <2>3
<1>7. ASSUME NEW i \in 1 .. n + k
      PROVE  wram'[Start + i - 1] = call.plain[i]
  <2>1. CASE i \in 1 .. n
    BY <1>5, <1>6, <2>1 DEF TextTo, Repeated
  <2>2. CASE i \notin 1 .. n
    <3> DEFINE j == i - n
               r == (j - 1) % off
               s == n - off + 1 + r
    <3>1. j \in 1 .. k /\ n + j = i /\ j - 1 \in 0 .. k - 1
          /\ Start + n + (j - 1) = Start + i - 1
      BY SMT, <1>1, <2>2
    <3>2. call.plain[i] = call.plain[s]
      BY <3>1
    <3>3. wram'[Start + i - 1] = wram[Start + n - off + r]
      <4> HIDE DEF j
      <4> QED BY <1>6, <3>1 DEF Repeated
    <3>4. r \in 0 .. off - 1
      <4> HIDE DEF j
      <4> QED BY SMT, <3>1
    <3>5. s \in 1 .. n /\ Start + s - 1 = Start + n - off + r
      <4> HIDE DEF r
      <4> QED BY SMT, <1>1, <3>4
    <3> HIDE DEF s, r
    <3>6. wram[Start + s - 1] = call.plain[s]
      BY <1>5, <3>5 DEF TextTo
    <3> QED BY <3>2, <3>3, <3>5, <3>6
  <2> QED BY <2>1, <2>2
<1>8. call' = call /\ wmadd' = wmadd
  BY DEF MoveBlock, fixed
<1>9. PortInBank(n + k)'
  <2>1. call.dst + (n + k) < 65536 => call.dst + n < 65536
    BY SMT, <1>1
  <2> QED BY <1>8, <2>1 DEF Made, PortInBank
<1>10. Start' = Start /\ Size' = Size
  BY <1>8 DEF Start, Size
<1>11. TextTo(n + k)'
  BY <1>1, <1>6, <1>7, <1>8, <1>10 DEF TextTo, Repeated
<1> QED BY <1>4, <1>9, <1>11 DEF Made

-----------------------------------------------------------------------------
(* What is in WRAM is what a caller sees of the text. *)
Shown == \A n : CallOK(call) /\ Spelled(call) /\ Made(n)
                  => /\ n \in Nat /\ n <= Size
                     /\ Output = SubSeq(call.plain, 1, n)
                     /\ Len(Output) = n

LEMMA OutputIs == Shown
<1> SUFFICES ASSUME CallOK(call), Spelled(call), NEW n, Made(n)
             PROVE  /\ n \in Nat /\ n <= Size
                    /\ Output = SubSeq(call.plain, 1, n)
                    /\ Len(Output) = n
  BY DEF Shown
<1>1. n \in Nat /\ n <= Size /\ Size \in Nat /\ n \in 0 .. Size
  BY SMT, SizeType DEF Made, TextTo
<1>2. DOMAIN wram = Start .. Start + n - 1
  BY DEF Made, TextTo
<1>3. Cardinality(DOMAIN wram) = n
  <2>1. Start \in Int /\ Start + n - 1 \in Int /\ (Start + n - 1) - Start + 1 = n
    BY SMT, <1>1, StartType
  <2>2. Cardinality(Start .. Start + n - 1)
            = IF Start > Start + n - 1 THEN 0 ELSE (Start + n - 1) - Start + 1
    BY Zenon, <2>1, FS_Interval
  <2>3. Start > Start + n - 1 => n = 0
    BY SMT, <1>1, StartType
  <2> QED BY <1>2, <2>1, <2>2, <2>3
<1>4. ASSUME NEW i \in 1 .. n
      PROVE  Peek(wram, WramAt(call.dstBank, Wrap(call.dst + i - 1)))
                 = call.plain[i]
  <2>1. call.dst \in Nat /\ call.dst + i - 1 \in Word
    <3>1. call.dst \in Nat /\ call.dst + Size - 1 \in Word \cup {-1}
      BY SizeType
    <3> QED BY SMT, <1>1, <3>1 DEF Word
  <2>2. Wrap(call.dst + i - 1) = call.dst + i - 1
    <3>1. \A u \in Word : Wrap(u) = u
      BY SMT DEF Word, Wrap
    <3> QED BY Zenon, <2>1, <3>1
  <2>3. WramAt(call.dstBank, call.dst + i - 1) = Start + i - 1
    <3> DEFINE base == (call.dstBank % 2) * 65536
               dst  == call.dst
    <3>1. Start = base + dst /\ WramAt(call.dstBank, dst + i - 1) = base + (dst + i - 1)
      BY StartType DEF WramAt
    <3>2. base \in Int /\ dst \in Int
      BY SMT, <2>1, StartType
    <3> HIDE DEF base, dst
    <3>3. base + (dst + i - 1) = base + dst + i - 1
      BY SMT, <3>2
    <3> QED BY <3>1, <3>3 DEF dst
  <2>4. Start + i - 1 \in DOMAIN wram
    BY SMT, <1>1, <1>2, StartType
  <2> QED BY <2>2, <2>3, <2>4 DEF Peek, Made, TextTo
<1>5. Output = [i \in 1 .. n |-> call.plain[i]]
  BY <1>3, <1>4 DEF Output
<1>6. SubSeq(call.plain, 1, n) = [i \in 1 .. n |-> call.plain[i]]
  BY SMT, <1>1
<1> QED BY SMT, <1>1, <1>5, <1>6

-----------------------------------------------------------------------------
(* How the steps of a routine look to its caller: nothing has happened, the*)
(* text has got longer, or the routine has returned.                       *)
LEMMA PromisedInit ==
    ASSUME CallOK(call), Spelled(call), pc = "Main", wram = [p \in {} |-> Junk]
    PROVE  Promise!Init
<1>1. call.plain \in Seq(0 .. 255)
  <2>1. ASSUME NEW v \in Byte PROVE v \in 0 .. 255
    BY SMT DEF Byte
  <2>2. ASSUME NEW v \in 0 .. 255 PROVE v \in Byte
    BY SMT DEF Byte
  <2>3. Byte = 0 .. 255
    BY <2>1, <2>2
  <2> QED BY <2>3 DEF Spelled
<1>2. Output = <<>>
  <2>1. Cardinality(DOMAIN wram) = 0
    BY FS_EmptySet
  <2> QED BY SMT, <2>1 DEF Output
<1>3. Result = -2
  BY DEF Result
<1> QED BY SMT, <1>1, <1>2, <1>3 DEF Promise!Init, Promise!Running

LEMMA PromisedQuiet ==
    ASSUME call' = call, wram' = wram,
           (pc # "Idle" /\ pc' # "Idle") \/ (pc' = pc /\ x' = x)
    PROVE  UNCHANGED Promise!vars
<1>1. Output' = Output
  BY DEF Output
<1>2. Result' = Result
  BY DEF Result
<1> QED BY <1>1, <1>2 DEF Promise!vars

LEMMA PromisedEmit ==
    ASSUME CallOK(call), Spelled(call), call' = call,
           NEW n, Made(n), NEW k, Made(k)', n < k,
           pc # "Idle", pc' # "Idle"
    PROVE  Promise!Emit
<1>1. Len(Output) = n /\ n \in Nat
  BY OutputIs DEF Shown
<1>2. /\ Output' = SubSeq(call.plain, 1, k) /\ Len(Output') = k
      /\ k \in Nat /\ k <= Size
  <2>1. CallOK(call)' /\ Spelled(call)'
    BY DEF CallOK, Spelled
  <2>2. Shown'
    BY OutputIs, PTL
  <2> QED BY <2>1, <2>2 DEF Shown, Size
<1>3. Promise!IsPrefixOf(Output', call.plain)
  BY <1>2 DEF Promise!IsPrefixOf, Size
<1>4. Result = -2 /\ Result' = -2
  BY DEF Result
<1>5. Len(Output') > Len(Output)
  BY SMT, <1>1, <1>2
<1> QED BY <1>3, <1>4, <1>5 DEF Promise!Emit, Promise!Running

LEMMA PromisedReturn ==
    ASSUME CallOK(call), Spelled(call), call' = call, wram' = wram,
           Made(Size), pc # "Idle", pc' = "Idle", RETLEN => x' = Size
    PROVE  Promise!Return
<1> DEFINE reported == Len(call.plain) % 65536
<1>1. Output = SubSeq(call.plain, 1, Size)
  BY OutputIs DEF Shown
<1>2. Size \in Nat /\ Size \in Word
  BY SizeType
<1>3. SubSeq(call.plain, 1, Size) = call.plain
  BY SMT, <1>2 DEF Size, Spelled
<1>4. Output' = Output
  BY DEF Output
<1>5. reported = Size
  <2>1. Size % 65536 = Size
    BY SMT, <1>2 DEF Word
  <2>2. Len(call.plain) = Size
    BY DEF Size
  <2> QED BY SMT, <2>1, <2>2
<1>6. Promise!Return <=> /\ Result = Promise!Running
                         /\ Output = call.plain
                         /\ Result' = IF RETLEN THEN reported
                                      ELSE Promise!NoLength
                         /\ UNCHANGED <<call.plain, Output>>
  BY DEF Promise!Return
<1> HIDE DEF reported
<1>7. /\ Result = Promise!Running
      /\ Result' = IF RETLEN THEN reported ELSE Promise!NoLength
  BY <1>5 DEF Result, Promise!Running, Promise!NoLength
<1> QED BY <1>1, <1>3, <1>4, <1>6, <1>7

-----------------------------------------------------------------------------
(* Position p of the block has what s says, and s has parts. *)
Holds(p, s) == Text!HasAt(call.block, p, s)

LEMMA HoldsParts ==
    ASSUME NEW p \in Nat, NEW s \in Seq(Int), NEW t \in Seq(Int),
           Holds(p, s \o t), Len(call.block) \in Nat
    PROVE  Holds(p, s) /\ Holds(p + Len(s), t)
<1>1. /\ Len(s \o t) = Len(s) + Len(t)
      /\ \A i \in 1 .. Len(s) : (s \o t)[i] = s[i]
      /\ \A i \in 1 .. Len(t) : (s \o t)[Len(s) + i] = t[i]
  BY SMT
<1> DEFINE u == s \o t
<1> HIDE DEF u
<1>2. /\ p + Len(u) <= Len(call.block)
      /\ \A i \in 1 .. Len(u) : call.block[p + i] = u[i]
  BY DEF Holds, Text!HasAt, u
<1>3. Len(s) \in Nat /\ Len(t) \in Nat
  BY SMT
<1>4. Holds(p, s)
  <2>1. p + Len(s) <= Len(call.block)
    BY SMT, <1>1, <1>2, <1>3 DEF u
  <2>2. ASSUME NEW i \in 1 .. Len(s) PROVE call.block[p + i] = s[i]
    <3>1. i \in 1 .. Len(u)
      BY SMT, <1>1, <1>3 DEF u
    <3> QED BY <1>1, <1>2, <3>1 DEF u
  <2> QED BY <2>1, <2>2 DEF Holds, Text!HasAt
<1>5. Holds(p + Len(s), t)
  <2>1. p + Len(s) + Len(t) <= Len(call.block)
    BY SMT, <1>1, <1>2, <1>3 DEF u
  <2>2. ASSUME NEW i \in 1 .. Len(t) PROVE call.block[p + Len(s) + i] = t[i]
    <3>1. Len(s) + i \in 1 .. Len(u) /\ p + (Len(s) + i) = p + Len(s) + i
      BY SMT, <1>1, <1>3 DEF u
    <3> QED BY <1>1, <1>2, <3>1 DEF u
  <2> QED BY <2>1, <2>2 DEF Holds, Text!HasAt
<1> QED BY <1>4, <1>5

(* One byte and two bytes that are held. *)
LEMMA HoldsOne ==
    ASSUME NEW p, NEW u, Holds(p, <<u>>)
    PROVE  call.block[p + 1] = u /\ p + 1 <= Len(call.block)
<1>1. Len(<<u>>) = 1 /\ <<u>>[1] = u /\ 1 \in 1 .. 1
  BY SMT
<1> DEFINE s == <<u>>
<1>2. Holds(p, s) /\ Len(s) = 1 /\ s[1] = u
  BY <1>1
<1> HIDE DEF s
<1> QED BY <1>1, <1>2 DEF Holds, Text!HasAt

LEMMA HoldsTwo ==
    ASSUME NEW p, NEW u, NEW v, Holds(p, <<u, v>>)
    PROVE  /\ call.block[p + 1] = u /\ call.block[p + 2] = v
           /\ p + 2 <= Len(call.block)
<1>1. Len(<<u, v>>) = 2 /\ <<u, v>>[1] = u /\ <<u, v>>[2] = v
      /\ 1 \in 1 .. 2 /\ 2 \in 1 .. 2
  BY SMT
<1> DEFINE s == <<u, v>>
<1>2. Holds(p, s) /\ Len(s) = 2 /\ s[1] = u /\ s[2] = v
  BY <1>1
<1> HIDE DEF s
<1> QED BY <1>1, <1>2 DEF Holds, Text!HasAt

LEMMA ConcatType ==
    ASSUME NEW s \in Seq(Int), NEW t \in Seq(Int)
    PROVE  /\ s \o t \in Seq(Int) /\ Len(s \o t) = Len(s) + Len(t)
           /\ Len(s) \in Nat /\ Len(t) \in Nat
BY SMT

(* A sequence put together from left to right. *)
InFour(p, s, t, u, v) ==
    /\ Holds(p, s)
    /\ Holds(p + Len(s), t)
    /\ Holds(p + Len(s) + Len(t), u)
    /\ Holds(p + Len(s) + Len(t) + Len(u), v)
    /\ Len(s \o t \o u \o v) = Len(s) + Len(t) + Len(u) + Len(v)
    /\ s \o t \o u \o v \in Seq(Int)

LEMMA HoldsFour ==
    ASSUME NEW p \in Nat, NEW s \in Seq(Int), NEW t \in Seq(Int),
           NEW u \in Seq(Int), NEW v \in Seq(Int),
           Holds(p, s \o t \o u \o v), Len(call.block) \in Nat
    PROVE  InFour(p, s, t, u, v)
<1> DEFINE st == s \o t
           stu == st \o u
<1>1. st \in Seq(Int) /\ Len(st) = Len(s) + Len(t)
  BY ConcatType
<1>2. stu \in Seq(Int) /\ Len(stu) = Len(s) + Len(t) + Len(u)
  <2> HIDE DEF st
  <2>1. stu \in Seq(Int) /\ Len(stu) = Len(st) + Len(u)
    BY <1>1, ConcatType
  <2> QED BY <1>1, <2>1
<1>3. Holds(p, stu \o v)
  OBVIOUS
<1>4. stu \o v \in Seq(Int)
      /\ Len(stu \o v) = Len(s) + Len(t) + Len(u) + Len(v)
  <2> HIDE DEF stu
  <2>1. stu \o v \in Seq(Int) /\ Len(stu \o v) = Len(stu) + Len(v)
    BY <1>2, ConcatType
  <2> QED BY <1>2, <2>1
<1>5. Holds(p, stu) /\ Holds(p + Len(stu), v)
  <2> HIDE DEF stu
  <2> QED BY <1>2, <1>3, HoldsParts
<1>6. Holds(p, st) /\ Holds(p + Len(st), u)
  <2> HIDE DEF st
  <2> QED BY <1>1, <1>5, HoldsParts DEF stu
<1>7. Holds(p, s) /\ Holds(p + Len(s), t)
  BY <1>6, HoldsParts DEF st
<1>8. p + Len(st) = p + Len(s) + Len(t)
      /\ p + Len(stu) = p + Len(s) + Len(t) + Len(u)
  <2> HIDE DEF st, stu
  <2>1. Len(s) \in Nat /\ Len(t) \in Nat /\ Len(u) \in Nat
    BY SMT
  <2> QED BY SMT, <1>1, <1>2, <2>1
<1> QED BY <1>4, <1>5, <1>6, <1>7, <1>8 DEF InFour

(* The literals of a command in the block are those in the text. *)
LEMMA LiteralsType ==
    ASSUME Spelled(call), NEW i \in 1 .. Len(Script)
    PROVE  /\ Text!LiteralsOf(call, i) \in Seq(Int)
           /\ Len(Text!LiteralsOf(call, i)) = Script[i].lit
           /\ \A j \in 1 .. Script[i].lit :
                 Text!LiteralsOf(call, i)[j] = call.plain[call.out[i] + j]
<1> DEFINE o == call.out[i]
           l == Script[i].lit
<1>1. o \in Nat /\ l \in Nat /\ o + l <= Size /\ Size \in Nat
  <2>1. /\ o \in Nat /\ l \in Nat /\ From(i) \in Nat /\ Script[i].len \in Nat
        /\ From(i) + Script[i].len <= Size /\ From(i) = o + l
    BY CommandType DEF From
  <2>2. Size \in Nat
    BY SMT DEF Size, Spelled
  <2> QED BY SMT, <2>1, <2>2
<1>2. call.plain \in Seq(Int) /\ Len(call.plain) = Size
  BY SMT DEF Spelled, Byte, Size
<1>3. Text!LiteralsOf(call, i) = SubSeq(call.plain, o + 1, o + l)
  BY DEF Text!LiteralsOf, Script
<1> HIDE DEF o, l
<1>4. SubSeq(call.plain, o + 1, o + l) \in Seq(Int)
      /\ Len(SubSeq(call.plain, o + 1, o + l)) = l
      /\ \A j \in 1 .. l : SubSeq(call.plain, o + 1, o + l)[j] = call.plain[o + j]
  BY SMT, <1>1, <1>2
<1> QED BY <1>3, <1>4 DEF o, l

-----------------------------------------------------------------------------
(* The state in which the first n bytes of the text are there and Y is     *)
(* behind them, and what a step has to leave alone to keep it.             *)
MadeTo(n) == Made(n) /\ y = After(n)

NothingWritten == wram = [p \in {} |-> Junk]

LEMMA PlacesKept ==
    ASSUME call' = call
    PROVE  /\ \A p : Position(p)' = Position(p)
           /\ \A n : After(n)' = After(n)
           /\ \A i : From(i)' = From(i)
           /\ Script' = Script /\ Size' = Size /\ Frame' = Frame
           /\ \A w : MoveFrame(w)' = MoveFrame(w)
BY FrameFixed DEF Position, After, From, Script, Size

LEMMA MadeToKept ==
    ASSUME NEW n, MadeTo(n), UNCHANGED <<call, y, wram, wmadd>>
    PROVE  MadeTo(n)'
BY MadeKept DEF MadeTo, After

(* Before the first byte the text is made as far as nothing. *)
LEMMA NothingMade ==
    ASSUME CallOK(call), Spelled(call), NothingWritten, call' = call,
           wram' = wram, wmadd' \div 65536 = call.dstBank % 2,
           y = call.dst, y' = y
    PROVE  MadeTo(0)'
<1>1. Size \in Nat /\ Start \in Nat /\ call.dst \in Nat
      /\ call.dst \in Word
  BY SizeType, StartType DEF CallOK
<1>2. TextTo(0)'
  <2>1. DOMAIN wram = {} /\ Start .. Start + 0 - 1 = {} /\ 0 \in 0 .. Size
    BY SMT, <1>1 DEF NothingWritten
  <2>2. 1 .. 0 = {}
    BY SMT
  <2>3. Start' = Start /\ Size' = Size
    BY DEF Start, Size
  <2> QED BY <2>1, <2>2, <2>3 DEF TextTo
<1>3. PortInBank(0)'
  BY DEF PortInBank
<1>4. y' = After(0)'
  <2>1. \A u \in Word : Wrap(u + 0) = u
    BY SMT DEF Word, Wrap
  <2> QED BY <1>1, <2>1 DEF After
<1> QED BY <1>2, <1>3, <1>4 DEF MadeTo, Made

(* Setup sets the data port's bank to the destination's. *)
LEMMA SetupPort ==
    ASSUME CallOK(call), NEW port \in WramAddress, SetupFrame(port),
           a = MakeWord(call.srcBank, call.dstBank)
    PROVE  /\ wmadd' \div 65536 = call.dstBank % 2
           /\ wmadd' = WramAt(call.dstBank, port % 65536)
<1>1. Hi(a) = call.dstBank /\ call.dstBank \in Byte
  BY CallType, MakeWordType
<1>2. wmadd' = PortBank(port, call.dstBank)
  BY <1>1 DEF SetupFrame
<1>3. \A bank \in Byte :
         PortBank(port, bank) \div 65536 = bank % 2
  BY SMT DEF PortBank, WramAt, Byte, WramAddress
<1> QED BY <1>1, <1>2, <1>3 DEF PortBank

(* Where Y is written to the port's address the port stays in its bank. *)
LEMMA PortAtYKeepsBank ==
    ASSUME wmadd \in WramAddress, y \in Word
    PROVE  PortAtY \div 65536 = wmadd \div 65536 /\ PortAtY % 65536 = y
<1>1. \A p \in WramAddress, w \in Word :
         /\ WramAt(p \div 65536, w) \div 65536 = p \div 65536
         /\ WramAt(p \div 65536, w) % 65536 = w
  BY SMT DEF WramAt, WramAddress, Word
<1> QED BY <1>1 DEF PortAtY, PortAt

-----------------------------------------------------------------------------
(* The text made is what the routine's own registers say it is.            *)
LEMMA ProducedIs ==
    ASSUME CallOK(call), Spelled(call), NEW n, MadeTo(n)
    PROVE  /\ n \in Nat /\ n <= Size /\ Produced = n
           /\ DOMAIN wram = Start .. Start + Produced - 1
<1>1. n \in 0 .. Size /\ DOMAIN wram = Start .. Start + n - 1
  BY DEF MadeTo, Made, TextTo
<1>2. Produced = n
  BY <1>1, AfterType DEF MadeTo, Produced
<1>3. n \in Nat /\ n <= Size
  BY SMT, <1>1, SizeType
<1> QED BY <1>1, <1>2, <1>3

(* What a routine that is at the start of a command, at a block move, or   *)
(* anywhere with some of the text made shows of the properties.            *)
LEMMA ContiguousWhereMade ==
    ASSUME CallOK(call), Spelled(call), pc \in Writing => \E n : MadeTo(n)
    PROVE  OutputContiguous
<1>1. ASSUME NEW n, MadeTo(n)
      PROVE  DOMAIN wram = Start .. Start + Produced - 1
  BY <1>1, ProducedIs
<1> QED BY <1>1 DEF OutputContiguous, Start

LEMMA InsideWhereMoving ==
    ASSUME CallOK(call), Spelled(call), NEW n \in Nat, MadeTo(n),
           NEW off \in 1 .. n, x = call.dst + n - off
    PROVE  Wrap(x - call.dst) < Produced
<1>1. Produced = n /\ n <= Size
  BY ProducedIs
<1>2. Size \in Nat /\ Size \in Word /\ call.dst \in Nat
  BY SizeType
<1> DEFINE dst == call.dst
<1>3. x - dst = n - off
  <2>1. dst \in Nat /\ x = dst + n - off
    BY <1>2
  <2> HIDE DEF dst
  <2> QED BY SMT, <2>1
<1>4. n - off \in Word /\ n - off < n
  BY SMT, <1>1, <1>2 DEF Word
<1>5. \A u \in Word : Wrap(u) = u
  BY SMT DEF Word, Wrap
<1> QED BY <1>1, <1>3, <1>4, <1>5

LEMMA InStepWhereStarting ==
    ASSUME CallOK(call), Spelled(call), NEW i \in 1 .. Len(Script),
           call.at[i] \in Nat, call.at[i] < Len(call.block),
           x = Position(call.at[i]), MadeTo(call.out[i])
    PROVE  /\ Consumed = call.at[i] /\ Produced = call.out[i]
           /\ i \in DOMAIN call.script
<1>1. call.at[i] \in 0 .. Len(call.block)
  BY SMT, SizeType
<1>2. Consumed = call.at[i]
  BY <1>1, PositionType DEF Consumed
<1>3. Produced = call.out[i]
  BY ProducedIs
<1>4. i \in DOMAIN call.script
  <2>1. call.script \in Seq(Text!Commands)
    BY DEF Spelled, Text!Spells
  <2>2. DOMAIN call.script = 1 .. Len(call.script)
    BY SMT, <2>1
  <2> QED BY <2>2 DEF Script
<1> QED BY <1>2, <1>3, <1>4

(* The routine has returned its length. *)
LEMMA ReportedSize ==
    ASSUME CallOK(call), Spelled(call), MadeTo(Size)
    PROVE  Sbc(y, call.dst) = Size /\ Size \in Nat
<1>1. Size \in Nat
  BY SizeType
<1>2. Produced = Size
  BY <1>1, ProducedIs
<1> QED BY <1>1, <1>2 DEF Produced, Sbc

LEMMA SizeReported ==
    ASSUME CallOK(call), Spelled(call)
    PROVE  After(Size) \in Word /\ Sbc(After(Size), call.dst) = Size
<1>1. Size \in 0 .. Size
  <2>1. Size \in Nat
    BY SizeType
  <2> QED BY SMT, <2>1
<1> QED BY <1>1, AfterType DEF Sbc
=============================================================================
