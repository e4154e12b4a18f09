----------------------------- MODULE Zx0Decoder -----------------------------
(***************************************************************************)
(* ZX0_Decompress (src/src/shvc-zx0.s), called the way main-zx0.s calls it.*)
(*                                                                         *)
(* The low half of A is the bit buffer: the bits of a byte still to be     *)
(* used, then a 1 that marks their end, then zeros.  ASL takes a bit out.  *)
(***************************************************************************)
EXTENDS LzRoutine

CONSTANT INLINE     \* ZX0_OPT_INLINE: 1 unrolls the loop and keeps the bit
                    \* buffer in ZX0_tmp, 0 keeps it on the stack

VARIABLES length,   \* ZX0_length
          tmp       \* ZX0_tmp

state == <<length, tmp>>
vars  == <<common, state>>

Labels == {"Main", "Setup", "DecodeMatchNew", "OffsetRead", "MatchLenRead",
           "CopyMatch", "BlockMove", "MatchCopied", "TypeBit", "DecodeLiteral",
           "CopyLiteral", "DecodeMatchReuse", "ReuseLenRead", "DecodeGamma",
           "GammaCheckBit", "GammaAddBit", "GammaBit2", "GammaBit3",
           "GammaBit4", "GammaFillBuffer", "Done", "Idle"}

Init == RoutineInit /\ length = 0 /\ tmp = 0

Main == CallRoutine /\ UNCHANGED state

(* The offset a block starts with, 1, is kept negated like all of them.    *)
Setup == /\ pc = "Setup"
         /\ SetupFrame(PortAtY)
         /\ match' = 65535
         /\ pc' = "DecodeLiteral"
         /\ UNCHANGED <<call, x, y, c, m, wram, state>>

-----------------------------------------------------------------------------
(* asl on the low half of A, or on a byte. *)
Shifted(b)  == (2 * b) % 256
BitOut(b)   == b \div 128

(* A number is decoded from `entry' on, and the code at `next' goes on.    *)
Gamma(entry, next) == /\ stack' = Push(stack, Item("addr", next))
                      /\ pc' = entry

GammaDone == /\ pc' = ReturnTo(stack)
             /\ stack' = Pop(stack)

DecodeGamma ==
    /\ pc = "DecodeGamma"
    /\ a' = SetLo(a, Shifted(Lo(a)))
    /\ c' = BitOut(Lo(a))
    /\ pc' = IF Shifted(Lo(a)) = 0 THEN "GammaFillBuffer" ELSE "GammaCheckBit"
    /\ UNCHANGED <<fixed, output, x, y, m, db, stack, match, state>>

(* A control bit of 1 ends the number. *)
IsLast(bit) == bit = 1

(* Slip: CLC moved here from where literals and matches are copied.        *)
CarryAtEndClear(bit) == 0

(* The bit that ends the number is still in C when it has been decoded.    *)
CarryAtEnd(bit) == bit

GammaCheckBit ==
    /\ pc = "GammaCheckBit"
    /\ \/ IsLast(c) /\ GammaDone /\ c' = CarryAtEnd(c)
       \/ ~IsLast(c) /\ pc' = "GammaAddBit" /\ UNCHANGED <<stack, c>>
    /\ UNCHANGED <<fixed, output, x, y, a, m, db, match, state>>

(* asl, rol, rol: the next bit of the buffer is shifted into the length.   *)
WithBit(n, b) == Wrap(2 * n + b)

GammaAddBit ==
    /\ pc = "GammaAddBit"
    /\ a' = SetLo(a, Shifted(Lo(a)))
    /\ length' = WithBit(length, BitOut(Lo(a)))
    /\ c' = length \div 32768
    /\ pc' = IF INLINE = 1 THEN "GammaBit2" ELSE "DecodeGamma"
    /\ UNCHANGED <<fixed, output, x, y, m, db, stack, match, tmp>>

(* A turn of the loop, unrolled.  The last one does not look whether the   *)
(* buffer is empty after it but takes it to be.                            *)
UnrolledBit(label, next) ==
    LET once  == Shifted(Lo(a))
        twice == Shifted(once)
    IN  /\ pc = label
        /\ \/ /\ once = 0
              /\ pc' = "GammaFillBuffer"
              /\ a' = SetLo(a, once)
              /\ c' = BitOut(Lo(a))
              /\ UNCHANGED <<stack, length>>
           \/ /\ once # 0 /\ IsLast(BitOut(Lo(a)))
              /\ GammaDone
              /\ a' = SetLo(a, once)
              /\ c' = CarryAtEnd(BitOut(Lo(a)))
              /\ UNCHANGED length
           \/ /\ once # 0 /\ ~IsLast(BitOut(Lo(a)))
              /\ length' = WithBit(length, BitOut(once))
              /\ pc' = next
              /\ IF next = "GammaFillBuffer"
                 THEN a' = SetLo(a, Shifted(twice)) /\ c' = BitOut(twice)
                 ELSE a' = SetLo(a, twice) /\ c' = length \div 32768
              /\ UNCHANGED stack
        /\ UNCHANGED <<fixed, output, x, y, m, db, match, tmp>>

(* n-bit 2, 3 and 4 *)
GammaBit2 == UnrolledBit("GammaBit2", "GammaBit3")
GammaBit3 == UnrolledBit("GammaBit3", "GammaBit4")
GammaBit4 == UnrolledBit("GammaBit4", "GammaFillBuffer")

(* Slip: `asl' for `rol': the new byte gets no end marker. *)
FilledUnmarked(byte) == Shifted(byte)

(* The marker shifted out of the old buffer comes in again below the new.  *)
Filled(byte) == Shifted(byte) + c

GammaFillBuffer ==
    /\ pc = "GammaFillBuffer"
    /\ a' = SetLo(a, Filled(ReadByte))
    /\ x' = Wrap(x + 1)
    /\ \/ /\ IsLast(BitOut(ReadByte))
          /\ GammaDone
          /\ c' = CarryAtEnd(BitOut(ReadByte))
       \/ /\ ~IsLast(BitOut(ReadByte))
          /\ pc' = "GammaAddBit"
          /\ c' = BitOut(ReadByte)
          /\ UNCHANGED stack
    /\ UNCHANGED <<fixed, output, y, m, db, match, state>>

-----------------------------------------------------------------------------
(* The bit buffer is put aside, over a block move, and taken up again.     *)
SaveBuffer == IF INLINE = 0
              THEN stack' = Push(stack, Item("byte", Lo(a))) /\ UNCHANGED tmp
              ELSE tmp' = SetLo(tmp, Lo(a)) /\ UNCHANGED stack

SavedBuffer == IF INLINE = 0 THEN ItemValue(Top(stack)) ELSE Lo(tmp)

(* The next bit of the buffer chooses between a match with a new offset and*)
(* what is at `other'.                                                     *)
ChooseType(buffer, high, other) ==
    /\ a' = SetLo(high, Shifted(buffer))
    /\ c' = BitOut(buffer)
    /\ pc' = IF BitOut(buffer) = 1 THEN "DecodeMatchNew" ELSE other

DecodeLiteral == /\ pc = "DecodeLiteral"
                 /\ length' = 1
                 /\ Gamma("DecodeGamma", "CopyLiteral")
                 /\ UNCHANGED <<fixed, output, x, y, a, c, m, db, match, tmp>>

(* Slip: the buffer kept at ZX0_tmp, where the end offset is formed.       *)
BufferOverwritten == IF INLINE = 1 THEN Lo(y) ELSE Lo(a)

(* It is at ZX0_tmp+2, or on the stack. *)
BufferKept == Lo(a)

AfterLiteral == Adc(y, length, 0)

CopyLiteral == /\ pc = "CopyLiteral"
               /\ CopyRun(length, PortAtY)
               /\ tmp' = y
               /\ y' = AfterLiteral
               /\ ChooseType(BufferKept, AfterLiteral, "DecodeMatchReuse")
               /\ UNCHANGED <<fixed, m, db, stack, match, length>>

DecodeMatchReuse ==
    /\ pc = "DecodeMatchReuse"
    /\ length' = 1
    /\ Gamma("DecodeGamma", "ReuseLenRead")
    /\ UNCHANGED <<fixed, output, x, y, a, c, m, db, match, tmp>>

(* Slip: DEC left out. *)
ReusedLenLong == length

(* MVN copies one byte more than it is told. *)
ReusedLen == Wrap(length - 1)

ReuseLenRead == /\ pc = "ReuseLenRead"
                /\ SaveBuffer
                /\ m' = 16
                /\ length' = ReusedLen
                /\ pc' = "CopyMatch"
                /\ UNCHANGED <<fixed, output, x, y, a, c, db, match>>

-----------------------------------------------------------------------------
(* The number is the high part of the negated offset: its first bit is 0   *)
(* as $fe has it, the others are inverted in the stream.                   *)
DecodeMatchNew ==
    /\ pc = "DecodeMatchNew"
    /\ length' = SetLo(length, 254)
    /\ Gamma("DecodeGamma", "OffsetRead")
    /\ UNCHANGED <<fixed, output, x, y, a, c, m, db, match, tmp>>

High == (Lo(length) + 1) % 256

(* Nothing left of the number: the end of the block. *)
EndOfData == /\ High = 0
             /\ SaveBuffer
             /\ a' = SetLo(a, High)
             /\ pc' = "Done"
             /\ UNCHANGED <<x, c, match, length>>

(* The 16 bits are rotated: C, which is 1, comes in above the offset, and  *)
(* the first control bit of the match length goes out below it.            *)
NewOffset(low) == c * 32768 + MakeWord(low, High) \div 2

(* Slip: the length is not set to 1 again. *)
SplitLengthKept == length

(* The length whose first control bit is already in C. *)
SplitLength == 1

WithOffset == /\ High # 0
              /\ match' = NewOffset(ReadByte)
              /\ c' = ReadByte % 2
              /\ x' = Wrap(x + 1)
              /\ a' = SetLo(match', Lo(a))
              /\ tmp' = IF INLINE = 1 THEN SetLo(tmp, Lo(a)) ELSE tmp
              /\ length' = SplitLength
              /\ Gamma("GammaCheckBit", "MatchLenRead")

OffsetRead == /\ pc = "OffsetRead"
              /\ EndOfData \/ WithOffset
              /\ UNCHANGED <<fixed, output, y, m, db>>

MatchLenRead == /\ pc = "MatchLenRead"
                /\ SaveBuffer
                /\ m' = 16
                /\ pc' = "CopyMatch"
                /\ UNCHANGED <<fixed, output, x, y, a, c, db, match, length>>

-----------------------------------------------------------------------------
(* The offset is kept negated, so it is added. *)
MatchSource == Adc(y, match, 0)

CopyMatch == /\ pc = "CopyMatch"
             /\ EnterMove(MatchSource, length)
             /\ c' = CarryOut(y, match, 0)
             /\ UNCHANGED <<fixed, output, y, m, db, match, state>>

Move == MoveBlock /\ UNCHANGED state

MatchCopied == /\ pc = "MatchCopied"
               /\ LeaveMove
               /\ pc' = "TypeBit"
               /\ UNCHANGED <<fixed, output, y, a, c, match, state>>

TypeBit == /\ pc = "TypeBit"
           /\ ChooseType(SavedBuffer, a, "DecodeLiteral")
           /\ stack' = IF INLINE = 0 THEN Pop(stack) ELSE stack
           /\ UNCHANGED <<fixed, output, x, y, m, db, match, state>>

-----------------------------------------------------------------------------
(* With INLINE = 0 the bit buffer is on top of what the exit restores.     *)
UnwoundBuffer == IF INLINE = 0 THEN Pop(stack) ELSE stack

(* The switch to an 8 bit accumulator is part of the length's code.        *)
WidthAtReturn == IF RETLEN THEN 8 ELSE m

(* The subtraction takes the carry as the number decoding left it.         *)
Done == /\ pc = "Done"
        /\ LeaveRoutine(UnwoundBuffer, Wrap(y - (1 - c)))
        /\ m' = WidthAtReturn
        /\ UNCHANGED <<output, call, y, match, inBank, outBank, state>>

Wai == Idle /\ UNCHANGED state

Next == \/ Main \/ Setup \/ DecodeGamma \/ GammaCheckBit \/ GammaAddBit
        \/ GammaBit2 \/ GammaBit3 \/ GammaBit4 \/ GammaFillBuffer
        \/ DecodeLiteral \/ CopyLiteral \/ DecodeMatchReuse \/ ReuseLenRead
        \/ DecodeMatchNew \/ OffsetRead \/ MatchLenRead \/ CopyMatch \/ Move
        \/ MatchCopied \/ TypeBit \/ Done \/ Wai

Spec == Init /\ [][Next]_vars
FairSpec == Spec /\ WF_vars(Next)   \* the CPU executes: nothing interrupts it

-----------------------------------------------------------------------------
TypeOK == /\ CommonTypeOK
          /\ pc \in Labels
          /\ length \in Word /\ tmp \in Word

(* "C=1 (previous end marker shifted out)": the buffer is refilled exactly *)
(* when it is used up, and its end marker is what was shifted out, although*)
(* the bits that choose a type, the bits of a number and the last turn of  *)
(* the unrolled loop are taken without looking.                            *)
MarkerShiftedOut == pc = "GammaFillBuffer" => Lo(a) = 0 /\ c = 1

(* A type bit is a bit of the stream and never the end marker. *)
TypeBitThere ==
    pc = "TypeBit" => SavedBuffer % 128 # 0

(* The subtraction that makes the length relies on C = 1. *)
CarrySetAtDone == pc = "Done" => c = 1

(* The routine takes the stream apart as the compressor put it together:   *)
(* where literals are copied and where a match is, it has taken as many    *)
(* bytes as were written for it, and produced all that comes before.       *)
InStepBits ==
    pc \in {"CopyLiteral", "CopyMatch"}
        => <<Consumed, Produced>> \in call.steps
=============================================================================
