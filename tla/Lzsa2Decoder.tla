---------------------------- MODULE Lzsa2Decoder ----------------------------
(***************************************************************************)
(* LZSA2_Decompress (src/src/shvc-lzsa2.s), called as main-lzsa2.s does.   *)
(* Nibbles are taken from a byte kept in LZSA2_nibble, first the high one, *)
(* then, when LZSA2_nibrdy says so, the low one.                           *)
(***************************************************************************)
EXTENDS LzRoutine

CONSTANTS INLINE,     \* LZSA2_OPT_INLINE; 0 and 1 differ in speed only
          CodeBanks   \* the banks the routine's own code can be read from

VARIABLES token,    \* LZSA2_token
          nibble,   \* LZSA2_nibble
          nibrdy    \* LZSA2_nibrdy

state == <<token, nibble, nibrdy>>
vars  == <<common, state>>

Labels == {"Main", "Setup", "ReadToken", "DecodeLitLen", "LitLen", "LitLenRead",
           "CopyLiteral", "DecodeMatchOffset", "OffsetLow", "DecodeMatchLen",
           "MatchLenRead", "CopyMatch", "BlockMove", "MatchCopied",
           "GetExtLen", "LenByte", "LenWord", "Done", "Idle"}

Init == RoutineInit /\ token = 0 /\ nibble = 0 /\ nibrdy = 0

Main == CallRoutine /\ UNCHANGED state

(* With INLINE = 2 the data port is kept in step with Y and set to it here.*)
PortAtSetup == IF INLINE = 2 THEN PortAtY ELSE wmadd

(* Slip: no stz LZSA2_nibrdy. *)
KeptNibrdy == nibrdy

ClearedNibrdy == 0

Setup == /\ pc = "Setup"
         /\ SetupFrame(PortAtSetup)
         /\ nibrdy' = ClearedNibrdy
         /\ pc' = "ReadToken"
         /\ UNCHANGED <<call, x, y, c, m, match, wram, token, nibble>>

ReadToken == /\ pc = "ReadToken"
             /\ token' = ReadByte
             /\ a' = SetLo(a, ReadByte)
             /\ x' = Wrap(x + 1)
             /\ pc' = "DecodeLitLen"
             /\ UNCHANGED <<fixed, output, y, c, m, db, stack, match, nibble,
                            nibrdy>>

-----------------------------------------------------------------------------
(* ReadNibble *)
NibbleReady == nibrdy % 2 = 1

NextNibble == IF NibbleReady THEN nibble % 16 ELSE ReadByte \div 16

TakeNibble == IF NibbleReady
              THEN /\ nibrdy' = nibrdy \div 2
                   /\ UNCHANGED <<nibble, x>>
              ELSE /\ nibrdy' = nibrdy \div 2 + 1
                   /\ nibble' = ReadByte
                   /\ x' = Wrap(x + 1)

(* Y is saved while it tells GetExtLen which kind of length is wanted. *)
CallGetExtLen(kind, next) ==
    /\ stack' = Push(Push(stack, Item("word", y)), Item("addr", next))
    /\ y' = kind
    /\ c' = 1
    /\ m' = 8
    /\ pc' = "GetExtLen"

-----------------------------------------------------------------------------
LitField == (token \div 8) % 4
LITERALS_RUN_LEN == 3

NoLiteral == /\ LitField = 0
             /\ a' = SetLo(a, 0)
             /\ pc' = "DecodeMatchOffset"
             /\ UNCHANGED <<y, c, m, stack>>

(* One or two literals: through the data port one by one, or as any run.   *)
FewLiterals ==
    /\ LitField \in 1 .. LITERALS_RUN_LEN - 1
    /\ IF INLINE = 2
       THEN /\ a' = SetLo(a, LitField * 8)
            /\ c' = IF LitField = 2 THEN 1 ELSE 0
            /\ pc' = "LitLen"
            /\ UNCHANGED m
       ELSE /\ a' = LitField
            /\ c' = 0
            /\ m' = 16
            /\ pc' = "CopyLiteral"
    /\ UNCHANGED <<y, stack>>

ExtLitLen == /\ LitField = LITERALS_RUN_LEN
             /\ a' = SetLo(a, LitField * 8)
             /\ CallGetExtLen(0, "LitLenRead")

DecodeLitLen == /\ pc = "DecodeLitLen"
                /\ NoLiteral \/ FewLiterals \/ ExtLitLen
                /\ UNCHANGED <<fixed, output, x, db, match, state>>

AfterFew == Wrap(y + LitField)

(* @LitLen1, @LitLen2: the stores go where the port is, not where Y is.    *)
LitLen ==
    LET bytes == [i \in 0 .. LitField - 1 |->
                     RomByte(call.block, call.srcBank, call.src, db,
                             Wrap(x + i))]
    IN  /\ pc = "LitLen"
        /\ wram' = DmaToWram(wram, wmadd, bytes, LitField)
        /\ wmadd' = PortOn(wmadd, LitField)
        /\ a' = SetLo(a, bytes[LitField - 1])
        /\ x' = Wrap(x + LitField)
        /\ y' = AfterFew
        /\ pc' = "DecodeMatchOffset"
        /\ UNCHANGED <<fixed, c, m, db, stack, match, state>>

(* ply *)
LitLenRead == /\ pc = "LitLenRead"
              /\ y' = ItemValue(Top(stack))
              /\ stack' = Pop(stack)
              /\ pc' = "CopyLiteral"
              /\ UNCHANGED <<fixed, output, x, a, c, m, db, match, state>>

(* Y is advanced with the carry the label is entered with. *)
AfterLiteral == Adc(y, a, c)

CopyLiteral ==
    /\ pc = "CopyLiteral"
    /\ CopyRun(a, IF INLINE = 2 THEN wmadd ELSE PortAtY)
    /\ y' = AfterLiteral
    /\ c' = CarryOut(y, a, c)
    /\ a' = SetLo(AfterLiteral, 64)
    /\ m' = 8
    /\ pc' = "DecodeMatchOffset"
    /\ UNCHANGED <<fixed, db, stack, match, state>>

-----------------------------------------------------------------------------
(* Bits X, Y and Z of the token select how the offset is encoded. *)
BitX == token \div 128
BitY == (token \div 64) % 2
BitZ == (token \div 32) % 2

(* A nibble and bit Z, inverted, below the bits eor #%11100001 sets. *)
NibbleAndZ == 224 + NextNibble * 2 + (1 - BitZ)

Offset00Z == /\ BitX = 0 /\ BitY = 0
             /\ TakeNibble
             /\ a' = MakeWord(NibbleAndZ, 255)
             /\ c' = 0
             /\ pc' = "DecodeMatchLen"
             /\ UNCHANGED m

Offset01Z == /\ BitX = 0 /\ BitY = 1
             /\ a' = MakeWord(ReadByte, 255 - BitZ)
             /\ x' = Wrap(x + 1)
             /\ c' = 0
             /\ pc' = "DecodeMatchLen"
             /\ UNCHANGED <<m, nibble, nibrdy>>

(* The high byte; the low one is read at the next label. *)
Offset10Z == /\ BitX = 1 /\ BitY = 0
             /\ TakeNibble
             /\ a' = MakeWord(Lo(a), NibbleAndZ - 2)
             /\ c' = 0
             /\ pc' = "OffsetLow"
             /\ UNCHANGED m

Offset110 == /\ BitX = 1 /\ BitY = 1 /\ BitZ = 0
             /\ a' = MakeWord(Hi(ReadWord), Lo(ReadWord))
             /\ x' = Wrap(x + 2)
             /\ c' = 1
             /\ m' = 16
             /\ pc' = "DecodeMatchLen"
             /\ UNCHANGED <<nibble, nibrdy>>

Offset111 == /\ BitX = 1 /\ BitY = 1 /\ BitZ = 1
             /\ a' = match
             /\ c' = 1
             /\ m' = 16
             /\ pc' = "DecodeMatchLen"
             /\ UNCHANGED <<x, nibble, nibrdy>>

DecodeMatchOffset ==
    /\ pc = "DecodeMatchOffset"
    /\ Offset00Z \/ Offset01Z \/ Offset10Z \/ Offset110 \/ Offset111
    /\ UNCHANGED <<fixed, output, y, db, stack, match, token>>

OffsetLow == /\ pc = "OffsetLow"
             /\ a' = SetLo(a, ReadByte)
             /\ x' = Wrap(x + 1)
             /\ pc' = "DecodeMatchLen"
             /\ UNCHANGED <<fixed, output, y, c, m, db, stack, match, state>>

-----------------------------------------------------------------------------
LenField == token % 8
MATCH_RUN_LEN == 7

TokenMatchLen == /\ LenField < MATCH_RUN_LEN
                 /\ a' = LenField + 1
                 /\ c' = 0
                 /\ m' = 16
                 /\ pc' = "CopyMatch"
                 /\ UNCHANGED <<y, stack>>

ExtMatchLen == /\ LenField = MATCH_RUN_LEN
               /\ a' = SetLo(a, LenField)
               /\ CallGetExtLen(1, "MatchLenRead")

DecodeMatchLen == /\ pc = "DecodeMatchLen"
                  /\ match' = a
                  /\ TokenMatchLen \/ ExtMatchLen
                  /\ UNCHANGED <<fixed, output, x, db, state>>

(* dec, ply *)
MatchLenRead == /\ pc = "MatchLenRead"
                /\ a' = Wrap(a - 1)
                /\ y' = ItemValue(Top(stack))
                /\ stack' = Pop(stack)
                /\ pc' = "CopyMatch"
                /\ UNCHANGED <<fixed, output, x, c, m, db, match, state>>

(* Slip: CLC left out, while C can be 1. *)
MatchSourceCarry == Adc(y, match, 1)

(* The offset is stored negated, so it is added. *)
MatchSource == Adc(y, match, 0)

CopyMatch == /\ pc = "CopyMatch"
             /\ EnterMove(MatchSource, a)
             /\ c' = CarryOut(y, match, 0)
             /\ UNCHANGED <<fixed, output, y, m, db, match, state>>

Move == MoveBlock /\ UNCHANGED state

(* Slip: WMADD is not written after the block move. *)
PortLeftBehind == wmadd

(* The block move did not go through the data port. *)
PortAfterMatch == IF INLINE = 2 THEN PortAtY ELSE wmadd

MatchCopied == /\ pc = "MatchCopied"
               /\ LeaveMove
               /\ a' = IF INLINE = 2 THEN y ELSE a
               /\ wmadd' = PortAfterMatch
               /\ pc' = "ReadToken"
               /\ UNCHANGED <<fixed, y, c, match, wram, state>>

-----------------------------------------------------------------------------
(* The tables are read through DB, which is the bank of the block: where   *)
(* the code cannot be read from there, what is read is that bank's.        *)
TableAt == 33024

Table(values, at) ==
    IF db \in CodeBanks THEN values[y + 1]
    ELSE RomByte(call.block, call.srcBank, call.src, db, at + y)

NibbleLenAdd == Table(<<3, 9>>, TableAt)
ByteLenAdd   == Table(<<17, 23>>, TableAt + 2)

Length(len, carry) == /\ a' = len
                      /\ c' = carry
                      /\ m' = 16
                      /\ pc' = ReturnTo(stack)
                      /\ stack' = Pop(stack)

NibbleCarry(sum) == sum \div 256

LenNibble == LET sum == NextNibble + NibbleLenAdd
             IN  NextNibble < 15 /\ Length(Lo(sum), NibbleCarry(sum))

LenFollows == /\ NextNibble = 15
              /\ a' = SetLo(a, 15)
              /\ c' = 1
              /\ pc' = "LenByte"
              /\ UNCHANGED <<m, stack>>

GetExtLen == /\ pc = "GetExtLen"
             /\ TakeNibble
             /\ LenNibble \/ LenFollows
             /\ UNCHANGED <<fixed, output, y, db, match, token>>

(* The byte, the table entry and the carry the comparison with 15 left.    *)
ByteSum == ReadByte + ByteLenAdd + 1

ByteReady == ByteSum < 256 /\ Length(ByteSum, 0)

(* Slip: Y is left on the stack. *)
UnwoundOnce == Pop(stack)

(* The return address and Y are unwound; Y's value is left in A.           *)
UnwoundTwice == Pop(Pop(stack))

EndOfData == /\ ByteSum = 256
             /\ a' = ItemValue(Top(Pop(stack)))
             /\ c' = 1
             /\ m' = 16
             /\ stack' = UnwoundTwice
             /\ pc' = "Done"

LongLen == /\ ByteSum > 256
           /\ a' = SetLo(a, Lo(ByteSum))
           /\ c' = 1
           /\ pc' = "LenWord"
           /\ UNCHANGED <<m, stack>>

LenByte == /\ pc = "LenByte"
           /\ x' = Wrap(x + 1)
           /\ ByteReady \/ EndOfData \/ LongLen
           /\ UNCHANGED <<fixed, output, y, db, match, state>>

(* Reached with C = 1, which nothing clears. *)
LenWord == /\ pc = "LenWord"
           /\ Length(ReadWord, c)
           /\ x' = Wrap(x + 2)
           /\ UNCHANGED <<fixed, output, y, db, match, state>>

-----------------------------------------------------------------------------
WidthAtReturn == 8

Done == /\ pc = "Done"
        /\ LeaveRoutine(stack, a)
        /\ m' = WidthAtReturn
        /\ UNCHANGED <<output, call, y, match, inBank, outBank, state>>

Wai == Idle /\ UNCHANGED state

Next == \/ Main \/ Setup \/ ReadToken \/ DecodeLitLen \/ LitLen \/ LitLenRead
        \/ CopyLiteral \/ DecodeMatchOffset \/ OffsetLow \/ DecodeMatchLen
        \/ MatchLenRead \/ CopyMatch \/ Move \/ MatchCopied \/ GetExtLen
        \/ LenByte \/ LenWord \/ Done \/ Wai

Spec == Init /\ [][Next]_vars
FairSpec == Spec /\ WF_vars(Next)   \* the CPU executes: nothing interrupts it

-----------------------------------------------------------------------------
TypeOK == /\ CommonTypeOK
          /\ pc \in Labels
          /\ token \in Byte /\ nibble \in Byte
          /\ nibrdy \in IF pc \in {"Main", "Setup"} THEN Byte ELSE {0, 1}

(* Literals are stored where the data port is, matches where Y is: with    *)
(* INLINE = 2 nothing but the code's care keeps the two together.          *)
PortInStep ==
    pc \in {"LitLen", "CopyLiteral"} /\ INLINE = 2
        => wmadd = WramAt(call.dstBank, y)
=============================================================================
