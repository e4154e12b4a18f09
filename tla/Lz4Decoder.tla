----------------------------- MODULE Lz4Decoder -----------------------------
(***************************************************************************)
(* LZ4_Decompress (src/src/shvc-lz4.s), called the way main-lz4.s calls it.*)
(***************************************************************************)
EXTENDS LzRoutine

VARIABLES length,   \* LZ4_Length: the size of the block, then its end offset
          token     \* LZ4_token

vars == <<common, length, token>>

Labels == {"Main", "Setup", "ReadToken", "DecodeLitLen", "CopyLiteral",
           "DecodeMatchOffset", "DecodeMatchLen", "CopyMatch", "BlockMove",
           "MatchCopied", "AddLength", "AddLoop", "Done", "Idle"}

Init == RoutineInit /\ length = 0 /\ token = 0

Main == /\ CallRoutine
        /\ length' = Wrap(Len(call.block))
        /\ UNCHANGED token

Setup == /\ pc = "Setup"
         /\ SetupFrame(wmadd)
         /\ length' = Adc(x, length, 0)
         /\ c' = CarryOut(x, length, 0)
         /\ pc' = "ReadToken"
         /\ UNCHANGED <<call, x, y, m, match, wram, token>>

ReadToken == /\ pc = "ReadToken"
             /\ token' = ReadByte
             /\ a' = SetLo(a, ReadByte)
             /\ x' = Wrap(x + 1)
             /\ pc' = "DecodeLitLen"
             /\ UNCHANGED <<fixed, output, y, c, m, db, stack, match, length>>

-----------------------------------------------------------------------------
(* A four bit length field: it is the length itself, or 15 and bytes from  *)
(* the stream are to be added before the code at `next' goes on.           *)
RunLen == 15

NoLiteral == /\ token \div 16 = 0
             /\ pc' = "DecodeMatchOffset"
             /\ a' = SetLo(a, 0)
             /\ UNCHANGED <<c, m, stack>>

(* C after the comparison with 15. *)
ShortLenCarry == 0

ShortLen(field, next) == /\ field < RunLen
                         /\ pc' = next
                         /\ a' = field
                         /\ c' = ShortLenCarry
                         /\ m' = 16
                         /\ UNCHANGED stack

(* Slip: the address to go on at is not pushed. *)
LongLenNoReturn(field, next) == /\ field = RunLen
                                /\ pc' = "AddLength"
                                /\ a' = SetLo(a, field)
                                /\ c' = 1
                                /\ m' = 8
                                /\ UNCHANGED stack

LongLen(field, next) == /\ field = RunLen
                        /\ pc' = "AddLength"
                        /\ a' = SetLo(a, field)
                        /\ c' = 1
                        /\ m' = 8
                        /\ stack' = Push(stack, Item("addr", next))

DecodeLitLen ==
    /\ pc = "DecodeLitLen"
    /\ \/ NoLiteral
       \/ token \div 16 # 0 /\ ShortLen(token \div 16, "CopyLiteral")
       \/ LongLen(token \div 16, "CopyLiteral")
    /\ UNCHANGED <<fixed, output, x, y, db, match, length, token>>

(* Slip: a carry left over from the comparison that chose AddLength. *)
AfterLiteralCarry == Adc(y, a, 1)

(* Y is advanced with the carry the label is entered with. *)
AfterLiteral == Adc(y, a, c)

CopyLiteral ==
    /\ pc = "CopyLiteral"
    /\ CopyRun(a, PortAtY)
    /\ y' = AfterLiteral
    /\ c' = CarryOut(y, a, c)
    /\ a' = SetLo(AfterLiteral, 64)
    /\ m' = 8
    /\ pc' = "DecodeMatchOffset"
    /\ UNCHANGED <<fixed, db, stack, match, length, token>>

(* The end of the block is where an offset ends at the end offset. *)
AtEnd(offset) == offset = length

DecodeMatchOffset ==
    LET next == Wrap(x + 2)
    IN  /\ pc = "DecodeMatchOffset"
        /\ m' = 16
        /\ a' = ReadWord
        /\ x' = next
        /\ c' = NoBorrow(next, length)
        /\ IF AtEnd(next)
           THEN pc' = "Done" /\ UNCHANGED match
           ELSE pc' = "DecodeMatchLen" /\ match' = ReadWord
        /\ UNCHANGED <<fixed, output, y, db, stack, length, token>>

DecodeMatchLen ==
    /\ pc = "DecodeMatchLen"
    /\ \/ ShortLen(token % 16, "CopyMatch")
       \/ LongLen(token % 16, "CopyMatch")
    /\ UNCHANGED <<fixed, output, x, y, db, match, length, token>>

-----------------------------------------------------------------------------

(* A holds the length field; MVN copies A + 1 bytes. *)
MvnOperand(len) == Wrap(len + 3)

MatchSource == Sbc(y, match)

CopyMatch == /\ pc = "CopyMatch"
             /\ EnterMove(MatchSource, MvnOperand(a))
             /\ c' = NoBorrow(y, match)
             /\ UNCHANGED <<fixed, output, y, m, db, match, length, token>>

Move == MoveBlock /\ UNCHANGED <<length, token>>

MatchCopied == /\ pc = "MatchCopied"
               /\ LeaveMove
               /\ pc' = "ReadToken"
               /\ UNCHANGED <<fixed, output, y, a, c, match, length, token>>

-----------------------------------------------------------------------------
(* AddLength keeps the running sum on the stack, above the address pushed  *)
(* by the code that wants it.                                              *)
AddLength == /\ pc = "AddLength"
             /\ m' = 16
             /\ a' = Lo(a)
             /\ stack' = Push(stack, Item("word", Lo(a)))
             /\ pc' = "AddLoop"
             /\ UNCHANGED <<fixed, output, x, y, c, db, match, length, token>>

MoreBytes(byte) == byte = 255

AddLoop ==
    LET sum == ItemValue(Top(stack))
        below == Pop(stack)
    IN  /\ pc = "AddLoop"
        /\ x' = Wrap(x + 1)
        /\ a' = Adc(ReadByte, sum, 0)
        /\ c' = CarryOut(ReadByte, sum, 0)
        /\ \/ /\ MoreBytes(ReadByte)
              /\ stack' = Push(below, Item("word", Adc(ReadByte, sum, 0)))
              /\ pc' = "AddLoop"
           \/ /\ ~MoreBytes(ReadByte)
              /\ stack' = Pop(below)
              /\ pc' = ReturnTo(below)
        /\ UNCHANGED <<fixed, output, y, m, db, match, length, token>>

-----------------------------------------------------------------------------
(* Slip: the sep #$20 of the length's code dropped. *)
WidthAtReturnKept == m

(* The switch back to an 8 bit accumulator is part of the length's code.   *)
WidthAtReturn == IF RETLEN THEN 8 ELSE m

Done == /\ pc = "Done"
        /\ LeaveRoutine(stack, y)
        /\ m' = WidthAtReturn
        /\ UNCHANGED <<output, call, y, match, inBank, outBank, length, token>>

Wai == Idle /\ UNCHANGED <<length, token>>

Next == \/ Main \/ Setup \/ ReadToken \/ DecodeLitLen \/ CopyLiteral
        \/ DecodeMatchOffset \/ DecodeMatchLen \/ CopyMatch \/ Move
        \/ MatchCopied \/ AddLength \/ AddLoop \/ Done \/ Wai

Spec == Init /\ [][Next]_vars
FairSpec == Spec /\ WF_vars(Next)   \* the CPU executes: nothing interrupts it

-----------------------------------------------------------------------------
TypeOK == /\ CommonTypeOK
          /\ pc \in Labels
          /\ length \in Word /\ token \in Byte
=============================================================================
