-------------------------- MODULE RefLzsa2Decoder ---------------------------
(***************************************************************************)
(* The reference LZSA2 decoder of the tests                                *)
(* (src/test/decoder_reference_lzsa2.s), called once as                    *)
(* test_reference_lzsa2.s does.  It runs from RAM and keeps its state in   *)
(* the operands of its own instructions: a label with an operand in it is  *)
(* a variable here.  pc is the label the CPU is at.                        *)
(***************************************************************************)
EXTENDS Snes

CONSTANT Calls   \* records of block, plain, src, srcBank, dst, dstBank

VARIABLES call,      \* the call being served; constant
          pc,
          token,     \* the byte PHA keeps on the stack
          x, y,      \* the two halves of the loop counters
          src,       \* GETSRC+1: where the next byte is read
          dst,       \* PUTDST+1: where the next byte goes
          back,      \* COPY_MATCH_LOOP+1: where the match is read
          offs,      \* OFFSHI:OFFSLO, the offset, negated
          nibbles,   \* NIBBLES: the byte with nibbles in it
          nibcount,  \* NIBCOUNT: whether its low one is still to come
          wram

vars == <<call, pc, token, x, y, src, dst, back, offs, nibbles, nibcount, wram>>

input  == <<src, nibbles, nibcount>>
output == <<dst, wram>>

Unset == 43690   \* $AAAA, what the operands are assembled with

Init == /\ call \in Calls
        /\ pc = "Main"
        /\ token = 0 /\ x = 0 /\ y = 0
        /\ src = Unset /\ dst = Unset /\ back = Unset /\ offs = Unset
        /\ nibbles = Lo(Unset) /\ nibcount = 0
        /\ wram = [p \in {} |-> Junk]

(* Main copies the decoder to RAM, sets the addresses and calls it.  *)
(* Slip: `bra Main' for `bra :-'. *)
AfterCallAgain == "Main"

AfterCall == "Tests_DONE"

Main == /\ pc = "Main"
        /\ src' = call.src
        /\ dst' = call.dst
        /\ offs' = Unset /\ back' = Unset /\ nibbles' = Lo(Unset)
        /\ y' = 0
        /\ nibcount' = 0
        /\ pc' = "DECODE_TOKEN"
        /\ UNCHANGED <<call, token, x, wram>>

-----------------------------------------------------------------------------
(* The n-th byte GETSRC is going to return. *)
Ahead(n) == RomByte(call.block, call.srcBank, call.src, call.srcBank,
                    Wrap(src + n))

NibbleReady == nibcount = 1

(* GETNIBBLE: it leaves C = 1 on both of its ways.                         *)
Nibble == IF NibbleReady THEN nibbles % 16 ELSE Ahead(0) \div 16

NibbleBytes == IF NibbleReady THEN 0 ELSE 1

(* Slip: INC without the LSR that takes the flag away. *)
TakeNibbleCounted(more) ==
    /\ nibcount' = nibcount + 1
    /\ nibbles' = IF NibbleReady THEN nibbles ELSE Ahead(0)
    /\ src' = Wrap(src + NibbleBytes + more)

(* The nibble and, behind it, `more' bytes are taken. *)
TakeNibble(more) ==
    /\ nibcount' = 1 - nibcount
    /\ nibbles' = IF NibbleReady THEN nibbles ELSE Ahead(0)
    /\ src' = Wrap(src + NibbleBytes + more)

TakeBytes(n) == src' = Wrap(src + n) /\ UNCHANGED <<nibbles, nibcount>>

(* Slip: INY whatever X is, a part of 256 too many when X is zero. *)
CountAlwaysUp(lo, hi) == x' = lo /\ y' = (hi + 1) % 256

(* The counters of a loop that ends with DEX, BNE, DEY, BNE, and how often *)
(* it goes round.  Y is only counted up for a part of 256.                 *)
Count(lo, hi) == x' = lo /\ y' = (IF lo = 0 THEN hi ELSE hi + 1) % 256

Rounds == (IF x = 0 THEN 256 ELSE x) + 256 * ((IF y = 0 THEN 256 ELSE y) - 1)

(* n more than a byte holds: the two bytes that follow. *)
LargeCount == Count(Ahead(0), Ahead(1)) /\ TakeBytes(2)

-----------------------------------------------------------------------------
LitField == (Ahead(0) \div 8) % 4

DECODE_TOKEN ==
    /\ pc = "DECODE_TOKEN"
    /\ token' = Ahead(0)
    /\ TakeBytes(1)
    /\ \/ /\ LitField = 0
          /\ pc' = "NO_LITERALS"
          /\ UNCHANGED <<x, y>>
       \/ /\ LitField \in {1, 2}
          /\ Count(LitField, y)
          /\ pc' = "COPY_LITERALS"
       \/ /\ LitField = 3
          /\ pc' = "LITERALS_NIBBLE"
          /\ UNCHANGED <<x, y>>
    /\ UNCHANGED <<call, output, back, offs>>

(* A length of `base' and more: the nibble, or the byte behind a nibble of *)
(* 15, or, where that byte is at least `limit', the two bytes after it.    *)
ShortLength(base) == /\ Nibble < 15
                     /\ Count(base + Nibble, y)
                     /\ TakeNibble(0)

LengthByte == Ahead(NibbleBytes)

ByteLength(limit) == /\ Nibble = 15
                     /\ LengthByte < limit
                     /\ Count((LengthByte - limit) % 256, y)
                     /\ TakeNibble(1)

LITERALS_NIBBLE ==
    /\ pc = "LITERALS_NIBBLE"
    /\ \/ ShortLength(3) /\ pc' = "COPY_LITERALS"
       \/ ByteLength(238) /\ pc' = "COPY_LITERALS"
       \/ /\ Nibble = 15 /\ LengthByte >= 238
          /\ TakeNibble(1)
          /\ pc' = "PREPARE_COPY_LITERALS_LARGE"
          /\ UNCHANGED <<x, y>>
    /\ UNCHANGED <<call, token, output, back, offs>>

PREPARE_COPY_LITERALS_LARGE ==
    /\ pc = "PREPARE_COPY_LITERALS_LARGE"
    /\ LargeCount
    /\ pc' = "COPY_LITERALS"
    /\ UNCHANGED <<call, token, output, back, offs>>

(* dst wraps within its bank. *)
DstAt(addr) == WramAt(call.dstBank, Wrap(addr))

Stored(bytes) ==
    LET at(q) == Wrap(q - dst)
    IN  [q \in DOMAIN wram \cup {DstAt(dst + i) : i \in DOMAIN bytes} |->
            IF at(q) < Rounds THEN bytes[at(q)] ELSE wram[q]]

COPY_LITERALS ==
    /\ pc = "COPY_LITERALS"
    /\ wram' = Stored([i \in 0 .. Rounds - 1 |-> Ahead(i)])
    /\ TakeBytes(Rounds)
    /\ dst' = Wrap(dst + Rounds)
    /\ x' = 0 /\ y' = 0
    /\ pc' = "NO_LITERALS"
    /\ UNCHANGED <<call, token, back, offs>>

-----------------------------------------------------------------------------
(* Bits X, Y and Z of the token select how the offset is encoded. *)
Mode == <<token \div 128, (token \div 64) % 2>>
BitZ == (token \div 32) % 2

(* GETCOMBINEDBITS *)
CombinedBits == Nibble * 2 + (1 - BitZ)

Offset5 == /\ Mode = <<0, 0>>
           /\ offs' = MakeWord(224 + CombinedBits, 255)
           /\ TakeNibble(0)

Offset9 == /\ Mode = <<0, 1>>
           /\ offs' = MakeWord(Ahead(0), 255 - BitZ)
           /\ TakeBytes(1)

(* 222 is 224 less 2, for the 512. *)
High13 == CombinedBits + 222

Offset13 == /\ Mode = <<1, 0>>
            /\ offs' = MakeWord(Ahead(NibbleBytes), High13)
            /\ TakeNibble(1)

Offset16 == /\ Mode = <<1, 1>> /\ BitZ = 0
            /\ offs' = MakeWord(Ahead(1), Ahead(0))
            /\ TakeBytes(2)

RepOffset == /\ Mode = <<1, 1>> /\ BitZ = 1
             /\ UNCHANGED <<offs, input>>

NO_LITERALS == /\ pc = "NO_LITERALS"
               /\ Offset5 \/ Offset9 \/ Offset13 \/ Offset16 \/ RepOffset
               /\ pc' = "REP_MATCH"
               /\ UNCHANGED <<call, token, x, y, output, back>>

-----------------------------------------------------------------------------
(* The length is the token's, one, and the carry of destination + offset.  *)
TokenLength == (token % 8) + 1 + CarryOut(dst, offs, 0)

REP_MATCH ==
    /\ pc = "REP_MATCH"
    /\ back' = Adc(dst, offs, 0)
    /\ \/ /\ TokenLength < 9
          /\ Count(TokenLength, y)
          /\ pc' = "COPY_MATCH_LOOP"
       \/ /\ TokenLength >= 9
          /\ pc' = "MATCH_NIBBLE"
          /\ UNCHANGED <<x, y>>
    /\ UNCHANGED <<call, token, input, output, offs>>

END == 232

LongMatch == LengthByte > END

MATCH_NIBBLE ==
    /\ pc = "MATCH_NIBBLE"
    /\ \/ ShortLength(9) /\ pc' = "COPY_MATCH_LOOP"
       \/ ByteLength(END) /\ pc' = "COPY_MATCH_LOOP"
       \/ /\ Nibble = 15 /\ LengthByte = END
          /\ x' = 0
          /\ TakeNibble(1)
          /\ pc' = "DECOMPRESSION_DONE"
          /\ UNCHANGED y
       \/ /\ Nibble = 15 /\ LongMatch
          /\ TakeNibble(1)
          /\ pc' = "MATCH_LARGE"
          /\ UNCHANGED <<x, y>>
    /\ UNCHANGED <<call, token, output, back, offs>>

MATCH_LARGE == /\ pc = "MATCH_LARGE"
               /\ LargeCount
               /\ pc' = "COPY_MATCH_LOOP"
               /\ UNCHANGED <<call, token, output, back, offs>>

(* One byte at a time: from where the match reaches what it has written    *)
(* itself, it repeats.                                                     *)
Repeated ==
    LET dist == Wrap(dst - back)
    IN  [i \in 0 .. Rounds - 1 |->
            Peek(wram, DstAt(back + (IF dist = 0 THEN i ELSE i % dist)))]

COPY_MATCH_LOOP ==
    /\ pc = "COPY_MATCH_LOOP"
    /\ wram' = Stored(Repeated)
    /\ back' = Wrap(back + Rounds)
    /\ dst' = Wrap(dst + Rounds)
    /\ x' = 0 /\ y' = 0
    /\ pc' = "DECODE_TOKEN"
    /\ UNCHANGED <<call, token, input, offs>>

(* rts, rtl *)
DECOMPRESSION_DONE ==
    /\ pc = "DECOMPRESSION_DONE"
    /\ pc' = AfterCall
    /\ UNCHANGED <<call, token, x, y, input, output, back, offs>>

Tests_DONE == pc = "Tests_DONE" /\ UNCHANGED vars

Next == \/ Main \/ DECODE_TOKEN \/ LITERALS_NIBBLE
        \/ PREPARE_COPY_LITERALS_LARGE \/ COPY_LITERALS \/ NO_LITERALS
        \/ REP_MATCH \/ MATCH_NIBBLE \/ MATCH_LARGE \/ COPY_MATCH_LOOP
        \/ DECOMPRESSION_DONE \/ Tests_DONE

Spec == Init /\ [][Next]_vars

(* The CPU executes: interrupts are off.  Every action goes to another     *)
(* label.                                                                  *)
FairSpec == Spec /\ WF_pc(Next)

-----------------------------------------------------------------------------
Labels == {"Main", "DECODE_TOKEN", "LITERALS_NIBBLE",
           "PREPARE_COPY_LITERALS_LARGE", "COPY_LITERALS", "NO_LITERALS",
           "REP_MATCH", "MATCH_NIBBLE", "MATCH_LARGE", "COPY_MATCH_LOOP",
           "DECOMPRESSION_DONE", "Tests_DONE"}

(* Every register and operand stays in its width (DECODE_TOKEN's PHA ..). *)
TypeOK == /\ pc \in Labels
          /\ token \in Byte /\ x \in Byte /\ y \in Byte
          /\ src \in Word /\ dst \in Word /\ back \in Word /\ offs \in Word
          /\ nibbles \in Byte /\ nibcount \in Bit
          /\ WramOK(wram)

Output == [i \in 1 .. Wrap(dst - call.dst) |->
              Peek(wram, WramAt(call.dstBank, Wrap(call.dst + i - 1)))]

Promise == INSTANCE Decompressor
           WITH ReportsLength <- TRUE,
                plain <- call.plain,
                out <- IF pc = "Main" THEN <<>> ELSE Output,
                result <- IF pc = "Tests_DONE" THEN Wrap(dst - call.dst)
                          ELSE -2

(* "out: LZSA_DST_LO/LZSA_DST_HI/LZSA_DST_BANK contain the last            *)
(* decompressed byte address, +1": the output grows as a prefix of the     *)
(* plain text, and the address is right when all of it is there.           *)
Implements == Promise!Spec

(* The call returns. *)
Returns == Promise!Termination
=============================================================================
