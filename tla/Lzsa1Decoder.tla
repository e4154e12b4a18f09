---------------------------- MODULE Lzsa1Decoder ----------------------------
(***************************************************************************)
(* LZSA1_Decompress (src/src/shvc-lzsa1.s), called as main-lzsa1.s does.   *)
(***************************************************************************)
EXTENDS LzRoutine

VARIABLE token      \* LZSA1_token

vars == <<common, token>>

Labels == {"Main", "Setup", "ReadToken", "DecodeLitLen", "CopyLiteral",
           "DecodeMatchOffset", "DecodeMatchLen", "CopyMatch", "BlockMove",
           "MatchCopied", "AddLength", "Done", "Idle"}

Init == RoutineInit /\ token = 0

Main == CallRoutine /\ UNCHANGED token

Setup == /\ pc = "Setup"
         /\ SetupFrame(wmadd)
         /\ pc' = "ReadToken"
         /\ UNCHANGED <<call, x, y, c, m, match, wram, token>>

ReadToken == /\ pc = "ReadToken"
             /\ token' = ReadByte
             /\ a' = SetLo(a, ReadByte)
             /\ x' = Wrap(x + 1)
             /\ pc' = "DecodeLitLen"
             /\ UNCHANGED <<fixed, output, y, c, m, db, stack, match>>

-----------------------------------------------------------------------------
(* A length field is the length itself, or its largest value and bytes     *)
(* from the stream are to be added before the code at `next' goes on.      *)
ShortLen(len, next) == /\ a' = len
                       /\ c' = 0
                       /\ m' = 16
                       /\ pc' = next
                       /\ UNCHANGED stack

LongLen(len, next) == /\ a' = SetLo(a, len)
                      /\ c' = 1
                      /\ m' = 8
                      /\ pc' = "AddLength"
                      /\ stack' = Push(stack, Item("addr", next))

NoLiteral == /\ a' = SetLo(a, 0)
             /\ pc' = "DecodeMatchOffset"
             /\ UNCHANGED <<c, m, stack>>

LitField == (token % 128) \div 16
LITERALS_RUN_LEN == 7

DecodeLitLen ==
    /\ pc = "DecodeLitLen"
    /\ \/ LitField = 0 /\ NoLiteral
       \/ /\ LitField \in 1 .. LITERALS_RUN_LEN - 1
          /\ ShortLen(LitField, "CopyLiteral")
       \/ LitField = LITERALS_RUN_LEN /\ LongLen(LitField, "CopyLiteral")
    /\ UNCHANGED <<fixed, output, x, y, db, match, token>>

(* Y is advanced with the carry the label is entered with. *)
AfterLiteral == Adc(y, a, c)

CopyLiteral ==
    /\ pc = "CopyLiteral"
    /\ CopyRun(a, PortAtY)
    /\ y' = AfterLiteral
    /\ c' = CarryOut(y, a, c)
    /\ a' = SetLo(AfterLiteral, 64)
    /\ m' = 8
    /\ pc' = "DecodeMatchOffset"
    /\ UNCHANGED <<fixed, db, stack, match, token>>

(* Bit 7 of the token: the offset has a high byte, else that is $ff. *)
WordOffset == token >= 128

DecodeMatchOffset ==
    LET high == IF WordOffset THEN ByteAfter ELSE 255
    IN  /\ pc = "DecodeMatchOffset"
        /\ match' = MakeWord(ReadByte, high)
        /\ a' = SetLo(a, high)
        /\ x' = Wrap(x + (IF WordOffset THEN 2 ELSE 1))
        /\ pc' = "DecodeMatchLen"
        /\ UNCHANGED <<fixed, output, y, c, m, db, stack, token>>

MatchLen == (token % 16) + 3
LONGEST_SHORT == 17

DecodeMatchLen ==
    /\ pc = "DecodeMatchLen"
    /\ \/ MatchLen <= LONGEST_SHORT /\ ShortLen(MatchLen, "CopyMatch")
       \/ MatchLen > LONGEST_SHORT /\ LongLen(MatchLen, "CopyMatch")
    /\ UNCHANGED <<fixed, output, x, y, db, match, token>>

-----------------------------------------------------------------------------

(* MVN copies A + 1 bytes. *)
MvnOperand(len) == Wrap(len - 1)

(* The offset is stored negated, so it is added. *)
MatchSource == Adc(y, match, 0)

CopyMatch == /\ pc = "CopyMatch"
             /\ EnterMove(MatchSource, MvnOperand(a))
             /\ c' = CarryOut(y, match, 0)
             /\ UNCHANGED <<fixed, output, y, m, db, match, token>>

Move == MoveBlock /\ UNCHANGED token

MatchCopied == /\ pc = "MatchCopied"
               /\ LeaveMove
               /\ pc' = "ReadToken"
               /\ UNCHANGED <<fixed, output, y, a, c, match, token>>

-----------------------------------------------------------------------------
(* The first length byte, added to the length field in 8 bits. *)
LengthSum == Lo(a) + ReadByte

(* Each way on has the length in A, has passed its bytes and leaves C.     *)
Length(len, bytes, carry) == /\ a' = len
                             /\ x' = Wrap(x + bytes)
                             /\ c' = carry
                             /\ pc' = ReturnTo(stack)
                             /\ stack' = Pop(stack)

ByteLen == LengthSum < 256 /\ Length(LengthSum, 1, 0)

(* Slip: `ora #$100' for `adc #$ff', which leaves the first sum's carry. *)
TwoByteLenCarry == LengthSum > 256 /\ Length(256 + ByteAfter, 2, 1)

(* The second byte is added to $ff with the carry of the first sum. *)
TwoByteLen == LengthSum > 256 /\ Length(ByteAfter + 255 + 1, 2, 0)

(* Reached with C = 1, which nothing clears. *)
ThreeByteLen == LengthSum = 256 /\ WordAfter # 0 /\ Length(WordAfter, 3, 1)

UnwoundReturn == Pop(stack)

(* A length of zero as a word ends the block: pla, and on to the exit. *)
EndOfData == /\ LengthSum = 256
             /\ WordAfter = 0
             /\ a' = ItemValue(Top(stack))
             /\ c' = 1
             /\ stack' = UnwoundReturn
             /\ pc' = "Done"
             /\ UNCHANGED x

AddLength == /\ pc = "AddLength"
             /\ m' = 16
             /\ ByteLen \/ TwoByteLen \/ ThreeByteLen \/ EndOfData
             /\ UNCHANGED <<fixed, output, y, db, match, token>>

WidthAtReturn == 8

Done == /\ pc = "Done"
        /\ LeaveRoutine(stack, y)
        /\ m' = WidthAtReturn
        /\ UNCHANGED <<output, call, y, match, inBank, outBank, token>>

Wai == Idle /\ UNCHANGED token

Next == \/ Main \/ Setup \/ ReadToken \/ DecodeLitLen \/ CopyLiteral
        \/ DecodeMatchOffset \/ DecodeMatchLen \/ CopyMatch \/ Move
        \/ MatchCopied \/ AddLength \/ Done \/ Wai

Spec == Init /\ [][Next]_vars
FairSpec == Spec /\ WF_vars(Next)   \* the CPU executes: nothing interrupts it

-----------------------------------------------------------------------------
TypeOK == CommonTypeOK /\ pc \in Labels /\ token \in Byte
=============================================================================
