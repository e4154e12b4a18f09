----------------------------- MODULE LzRoutine ------------------------------
(***************************************************************************)
(* What LZ4_, LZSA1_, LZSA2_ and ZX0_Decompress share: the CPU registers   *)
(* and DMA registers they use, the way they are called from main-*.s, how  *)
(* Setup saves the caller's registers and how the exit restores them, the  *)
(* literal run by DMA and the match by block move, and what is asked of    *)
(* each of them.  A decoder module adds its own variables and its actions, *)
(* one per labelled run of instructions; pc is the label the CPU is at.    *)
(***************************************************************************)
EXTENDS Snes, FiniteSets

CONSTANTS Calls,   \* the calls to model, records of
                   \*   block, plain : the compressed bytes, what they stand for
                   \*   script : the commands the block consists of
                   \*   at, out : where in both each command starts
                   \*   cursor : where each part of it is (LZSA2)
                   \*   start, numbers, steps : the bit it starts at, its
                   \*      numbers bit by bit, where they end (ZX0)
                   \*   src, srcBank : where the block is
                   \*   dst, dstBank : where the text goes
          RETLEN   \* *_OPT_RETLEN = 1: the decompressed length is returned

CallOK(r) == /\ r.block \in Seq(Byte)
             /\ r.src \in Word /\ r.srcBank \in Byte
             /\ r.dst \in Word /\ r.dstBank \in {126, 127}

ASSUME CallsAssumption == \A r \in Calls : CallOK(r)

ASSUME RetlenAssumption == RETLEN \in BOOLEAN

VARIABLES call,     \* the call being served; constant
          pc,       \* the label the CPU is at
          x, y, a,  \* index registers, B:A
          c,        \* carry flag
          m,        \* accumulator width: 8 or 16
          db, dp,   \* data bank and direct page
          stack,
          match,    \* *_match, ZX0_offset: the last match offset
          inBank,   \* *_dma_src+2
          outBank,  \* *_mvn+1 and *_mvn+2
          wmadd,    \* the WRAM data port's address
          wram

common == <<call, pc, x, y, a, c, m, db, dp, stack, match, inBank, outBank,
            wmadd, wram>>

fixed  == <<call, dp, inBank, outBank>>   \* what stays as Setup leaves it
output == <<wmadd, wram>>

-----------------------------------------------------------------------------
(* Loads through the data bank. *)
ReadByte == RomByte(call.block, call.srcBank, call.src, db, x)
ReadWord == RomWord(call.block, call.srcBank, call.src, db, x)

(* The same one byte further on: after INX, or with `lda a:1,x', which    *)
(* does not wrap within the bank.                                          *)
ByteAfter == RomByte(call.block, call.srcBank, call.src, db, Wrap(x + 1))
WordAfter == IF x = 65535 THEN MakeWord(Filler, Filler)
             ELSE RomWord(call.block, call.srcBank, call.src, db, x + 1)

(* What DMA channel 6 fetches: n bytes from inBank:x. *)
DmaSource(n) ==
    [i \in 0 .. n - 1 |->
        RomByte(call.block, call.srcBank, call.src, inBank, Wrap(x + i))]

-----------------------------------------------------------------------------
(* boot.s leaves DP = 0 and DB = $80 and an empty stack. *)
RoutineInit ==
    /\ call \in Calls
    /\ pc = "Main"
    /\ x = 0 /\ y = 0 /\ a = 0 /\ c = 0 /\ m = 8
    /\ db = 128 /\ dp = 0
    /\ stack = EmptyStack
    /\ match = 0 /\ inBank = 0 /\ outBank = 0 /\ wmadd = 0
    /\ wram = [p \in {} |-> Junk]

(* Main sets the parameters and calls; after the call it waits for ever.   *)
AfterCall == "Idle"

CallRoutine ==
    /\ pc = "Main"
    /\ x' = call.src
    /\ y' = call.dst
    /\ a' = MakeWord(call.srcBank, call.dstBank)
    /\ stack' = Push(stack, Item("addr", AfterCall))
    /\ pc' = "Setup"
    /\ UNCHANGED <<fixed, output, c, m, db, match>>

(* Main waits for interrupts that are off (sei in Boot). *)
Idle == pc = "Idle" /\ UNCHANGED common

-----------------------------------------------------------------------------
(* Slip: DP and DB saved in the order they are restored in. *)
SavedRegistersSwapped == Push(Push(stack, Item("db", db)), Item("dp", dp))

(* phd, phb *)
SavedRegisters == Push(Push(stack, Item("dp", dp)), Item("db", db))

(* Where the port is once Y has been written to WMADD. *)
PortAtY == PortAt(wmadd, y)

(* The data port is at `port' when its bank is written.  *)
SetupFrame(port) ==
    /\ stack' = IF RETLEN THEN Push(SavedRegisters, Item("word", y))
                ELSE SavedRegisters
    /\ db' = Lo(a)
    /\ dp' = 17152                                  \* $4300
    /\ inBank' = Lo(a)
    /\ outBank' = Hi(a)
    /\ wmadd' = PortBank(port, Hi(a))
    /\ a' = MakeWord(128, Lo(a))                    \* <WMDATA, after xba

(* The stack as PLB, PLD and RTL find it at the exit, and what they do,    *)
(* `end' being the offset at which the output ends.                        *)
Unwound(frame) == IF RETLEN THEN Pop(frame) ELSE frame

LeaveRoutine(frame, end) ==
    /\ IF RETLEN
       THEN /\ x' = Sbc(end, ItemValue(Top(frame)))
            /\ a' = Sbc(end, ItemValue(Top(frame)))
            /\ c' = NoBorrow(end, ItemValue(Top(frame)))
       ELSE UNCHANGED <<x, a, c>>
    /\ db' = ItemValue(Top(Unwound(frame)))
    /\ dp' = ItemValue(Top(Pop(Unwound(frame))))
    /\ stack' = Pop(Pop(Pop(Unwound(frame))))
    /\ pc' = ReturnTo(Pop(Pop(Unwound(frame))))

-----------------------------------------------------------------------------
(* The literal run: DMA from inBank:x through the data port, which is at   *)
(* `port'.  The DMA source register counts up, and X is loaded from it.    *)
CopyRun(len, port) ==
    LET n == DmaCount(len)
    IN  /\ wram' = DmaToWram(wram, port, DmaSource(n), n)
        /\ wmadd' = PortOn(port, n)
        /\ x' = Wrap(x + n)

(* The match: X and DB are saved, the block move that Setup wrote into the *)
(* DMA registers is called, and both are restored.                         *)
EnterMove(from, operand) ==
    /\ stack' = Push(Push(stack, Item("word", x)), Item("db", db))
    /\ x' = from
    /\ a' = operand
    /\ pc' = "BlockMove"

(* MVN copies A + 1 bytes, leaves A at $ffff and DB at the destination's.  *)
MoveBlock ==
    /\ pc = "BlockMove"
    /\ wram' = BlockMove(wram, outBank, x, y, a + 1)
    /\ x' = Wrap(x + a + 1)
    /\ y' = Wrap(y + a + 1)
    /\ a' = 65535
    /\ db' = outBank
    /\ pc' = "MatchCopied"
    /\ UNCHANGED <<fixed, c, m, stack, match, wmadd>>

(* Slip: no phb/plb around the block move. *)
ClobberedBank == outBank

(* plb, plx *)
RestoredBank == ItemValue(Top(stack))

LeaveMove == /\ db' = RestoredBank
             /\ x' = ItemValue(Top(Pop(stack)))
             /\ stack' = Pop(Pop(stack))
             /\ m' = 8

-----------------------------------------------------------------------------
CommonTypeOK ==
    /\ CallOK(call)
    /\ x \in Word /\ y \in Word /\ a \in Word
    /\ c \in Bit /\ m \in {8, 16}
    /\ db \in Byte /\ dp \in Word
    /\ match \in Word /\ inBank \in Byte /\ outBank \in Byte
    /\ wmadd \in WramAddress
    /\ WramOK(wram)

(* How far the CPU has come in the block, and in the output.  (Y has other *)
(* uses where nothing is written.)                                         *)
Consumed == Wrap(x - call.src)
Produced == Wrap(y - call.dst)
Writing  == {"ReadToken", "CopyLiteral", "DecodeMatchOffset", "BlockMove",
             "MatchCopied"}

(* CopyLiteral: "Length in A, ... C=0".  It adds the length to Y with the  *)
(* carry it is entered with, so every way to it must have cleared it.      *)
CarryClear == pc = "CopyLiteral" => c = 0

(* The routine takes the block apart as the compressor put it together: a  *)
(* token is read where a command starts, with the output of the commands   *)
(* before it complete.                                                     *)
InStep ==
    pc = "ReadToken" => \E i \in DOMAIN call.script :
                           Consumed = call.at[i] /\ Produced = call.out[i]

(* From Setup on loads and DMA are from the bank of the block, although    *)
(* every block move leaves DB at the destination's.                        *)
LoadsFromBlockBank ==
    pc \notin {"Main", "Setup", "MatchCopied", "Idle"}
        => db = call.srcBank /\ inBank = call.srcBank

(* The routine writes every byte of [dst, y) and no other, at every step:  *)
(* DMA and block move leave no hole, do not overshoot, and agree on where  *)
(* the next byte goes.                                                     *)
OutputContiguous ==
    LET start == WramAt(call.dstBank, call.dst)
    IN  pc \in Writing => DOMAIN wram = start .. start + Produced - 1

(* A block move starts inside what has been produced: it never copies what *)
(* WRAM held before the call.                                              *)
MatchInsideOutput ==
    pc = "BlockMove" => Wrap(x - call.dst) < Produced

(* Back in Main the stack is as it was, DB and DP too: the exit unwinds    *)
(* what Setup pushed and whatever the path to it left on the stack.        *)
CallerRestored ==
    pc = "Idle" => stack = EmptyStack /\ db = 128 /\ dp = 0

(* "Out (a8i16)": the caller gets an 8 bit accumulator back. *)
ReturnsIn8Bit == pc = "Idle" => m = 8

(* "x  Decompressed length", when the routine is built to return it.       *)
ReturnsLength == pc = "Idle" /\ RETLEN => x = Wrap(Len(call.plain))

-----------------------------------------------------------------------------
Output == [i \in 1 .. Cardinality(DOMAIN wram) |->
              Peek(wram, WramAt(call.dstBank, Wrap(call.dst + i - 1)))]

Result == IF pc = "Idle" THEN (IF RETLEN THEN x ELSE -1) ELSE -2

Promise == INSTANCE Decompressor
           WITH ReportsLength <- RETLEN,
                plain <- call.plain, out <- Output, result <- Result

(* The output is always a prefix of the plain text, only grows, and is     *)
(* complete when the routine returns, with its length in X.                *)
Implements == Promise!Spec

(* Every call returns. *)
Returns == Promise!Termination
=============================================================================
