----------------------------- MODULE Zx0Format ------------------------------
(***************************************************************************)
(* The ZX0 stream a script becomes: what salvador_write_block emits with   *)
(* the flags the Makefile calls salvador with (forward, inverted offsets). *)
(* Bits and bytes interleave: bits fill a byte that was put into the stream*)
(* when its first bit was written, whatever has been appended since.       *)
(*                                                                         *)
(* A command's match repeats the last offset when that is its own and the  *)
(* command has literals; a length of 1 is possible only then.              *)
(***************************************************************************)
EXTENDS LzBlock

EOD == 256                     \* the high part of an offset that ends a block

(* Where one is in a block: how many bytes come before, and which of them  *)
(* bits are put into, or taken out of; `used' of them it has.              *)
Cursor(at, byte, used) == [at |-> at, byte |-> byte, used |-> used]
Cursors(size) == [at : 0 .. size, byte : 0 .. size, used : 1 .. 8]
AtFirst == Cursor(0, 0, 8)

PastBit(cursor) ==
    IF cursor.used = 8 THEN Cursor(cursor.at + 1, cursor.at + 1, 1)
    ELSE Cursor(cursor.at, cursor.byte, cursor.used + 1)

PastBytes(cursor, n) == Cursor(cursor.at + n, cursor.byte, cursor.used)

BitValue == <<128, 64, 32, 16, 8, 4, 2, 1>>

-----------------------------------------------------------------------------
(* What is written one after the other: bits and bytes. *)
Bits(bits)   == [bits |-> bits, bytes |-> <<>>]
Bytes(bytes) == [bits |-> <<>>, bytes |-> bytes]

BitsOf(pieces) == FlattenSeq([i \in DOMAIN pieces |-> pieces[i].bits])

(* How many bytes have been put into the stream for the bits of `pieces'.  *)
BitBytes(pieces) == (Len(BitsOf(pieces)) + 7) \div 8

(* The k-th byte of bits, from its highest bit on. *)
BitByte(bits, k) ==
    LET bit(j) == IF 8 * k + j \in DOMAIN bits THEN bits[8 * k + j] ELSE 0
    IN  FoldLeft(LAMBDA v, j : 2 * v + bit(j), 0, [j \in 1 .. 8 |-> j])

(* A byte of bits comes where its first bit is written.  (Control bits and *)
(* others alternate, so that only a control bit ever starts a byte.)       *)
Pack(pieces) ==
    LET bits    == BitsOf(pieces)
        from(i) == BitBytes(SubSeq(pieces, 1, i - 1))
        to(i)   == BitBytes(SubSeq(pieces, 1, i))
    IN  FlattenSeq([i \in DOMAIN pieces |->
            [k \in 1 .. to(i) - from(i) |-> BitByte(bits, from(i) + k - 1)]
                \o pieces[i].bytes])

(* Interlaced Elias gamma: a control bit 0 before each bit after the first,*)
(* and a control bit 1.                                                    *)
Log2(n) == CHOOSE k \in 0 .. 15 : 2^k <= n /\ n < 2^(k + 1)

EliasBits(n, one) ==
    FlattenSeq([i \in 1 .. Log2(n) |->
        <<0, IF (n \div 2^(Log2(n) - i)) % 2 = 1 THEN one ELSE 1 - one>>])
    \o <<1>>

NormalElias(n)   == EliasBits(n, 1)
InvertedElias(n) == EliasBits(n, 0)

(* The first control bit is in the byte that holds the offset's low part.  *)
SplitElias(n) == Tail(NormalElias(n))

WriteLiterals(at, lit, isFirst) ==
    IF lit = 0 THEN <<>>
    ELSE <<Bits((IF isFirst THEN <<>> ELSE <<0>>) \o NormalElias(lit)),
           Bytes(Literals(at, lit))>>

RepMatch(len) == <<Bits(<<0>> \o NormalElias(len))>>

(* The low part of the offset is inverted by salvador too: 255 - it, << 1. *)
MatchWithOffset(len, off) ==
    <<Bits(<<1>> \o InvertedElias((off - 1) \div 128 + 1)),
      Bytes(<<2 * (127 - ((off - 1) % 128)) + (IF len = 2 THEN 1 ELSE 0)>>),
      Bits(SplitElias(len - 1))>>

Rep(script, i) == IF i = 1 THEN 1 ELSE script[i - 1].off

WriteMatch(script, i) ==
    LET cmd == script[i]
    IN  IF cmd.len = 0 THEN <<>>
        ELSE IF cmd.off = Rep(script, i) /\ cmd.lit # 0 THEN RepMatch(cmd.len)
        ELSE MatchWithOffset(cmd.len, cmd.off)

WriteCommand(script, i) ==
    WriteLiterals(LengthBefore(script, i), script[i].lit, i = 1)
    \o WriteMatch(script, i)

Pieces(script) ==
    FlattenSeq([i \in DOMAIN script |-> WriteCommand(script, i)])
        \o <<Bits(<<1>> \o InvertedElias(EOD))>>

Block(script) == Pack(Pieces(script))

-----------------------------------------------------------------------------
(* The same said of a block that is there. *)
SaysBit(block, cursor, bit) ==
    LET past == PastBit(cursor)
    IN  /\ past.byte \in 1 .. Len(block)
        /\ (block[past.byte] \div BitValue[past.used]) % 2 = bit

(* A number turn by turn: what has been read of it and where its control   *)
(* bit ends.  Its first bit is not in the stream.                          *)
Turns(number) == Len(number.value)
ControlBit(number, k) == IF k = Turns(number) THEN 1 ELSE 0
EndOf(number) == number.past[Turns(number)]

SaysTurn(block, number, one, k) ==
    LET data == number.past[k]
        bit  == number.value[k + 1] - 2 * number.value[k]
    IN  /\ bit \in {0, 1}
        /\ SaysBit(block, data, IF one = 1 THEN bit ELSE 1 - bit)
        /\ SaysBit(block, PastBit(data), ControlBit(number, k + 1))
        /\ number.past[k + 1] = PastBit(PastBit(data))

NumberValues == {n \in Nat : 0 < n /\ n < 65536}   \* what ZX0_length holds

SaysNumber(block, number, n, one) ==
    /\ number.value \in Seq(NumberValues) /\ number.value # <<>>
    /\ number.past \in [1 .. Turns(number) -> Cursors(Len(block))]
    /\ number.value[1] = 1 /\ number.value[Turns(number)] = n
    /\ \A k \in 1 .. Turns(number) - 1 : SaysTurn(block, number, one, k)

StartsAt(block, number, cursor) ==
    /\ SaysBit(block, cursor, ControlBit(number, 1))
    /\ number.past[1] = PastBit(cursor)

(* The high and the low part of an offset, which take 8 bits each. *)
FARTHEST == 32640
HighPart(off) == (off - 1) \div 128 + 1
LowPart(off)  == 127 - ((off - 1) % 128)

Repeats(script, i) == script[i].off = Rep(script, i) /\ script[i].lit # 0

-----------------------------------------------------------------------------
(* r.start has the cursor each command of r.script starts at, r.numbers its*)
(* numbers: `lit', `high' and `len'.                                       *)
PastLiterals(r, i) ==
    IF r.script[i].lit = 0 THEN r.start[i]
    ELSE PastBytes(EndOf(r.numbers[i].lit), r.script[i].lit)

LiteralStart(r, i) == IF i = 1 THEN r.start[i] ELSE PastBit(r.start[i])

SaysLiterals(r, i) ==
    LET number == r.numbers[i].lit
    IN  IF r.script[i].lit = 0 THEN i > 1
        ELSE /\ i > 1 => SaysBit(r.block, r.start[i], 0)
             /\ StartsAt(r.block, number, LiteralStart(r, i))
             /\ SaysNumber(r.block, number, r.script[i].lit, 1)
             /\ HasAt(r.block, EndOf(number).at, LiteralsOf(r, i))

SaysHigh(r, i, n) ==
    LET number == r.numbers[i].high
    IN  /\ SaysBit(r.block, PastLiterals(r, i), 1)
        /\ StartsAt(r.block, number, PastBit(PastLiterals(r, i)))
        /\ SaysNumber(r.block, number, n, 0)

SaysRepMatch(r, i) ==
    LET number == r.numbers[i].len
    IN  /\ r.script[i].len >= 1
        /\ SaysBit(r.block, PastLiterals(r, i), 0)
        /\ StartsAt(r.block, number, PastBit(PastLiterals(r, i)))
        /\ SaysNumber(r.block, number, r.script[i].len, 1)

SaysMatchWithOffset(r, i) ==
    LET number == r.numbers[i].len
        low    == EndOf(r.numbers[i].high)
    IN  /\ r.script[i].len >= 2 /\ r.script[i].off <= FARTHEST
        /\ SaysHigh(r, i, HighPart(r.script[i].off))
        /\ HasAt(r.block, low.at,
                 <<2 * LowPart(r.script[i].off) + ControlBit(number, 1)>>)
        /\ number.past[1] = PastBytes(low, 1)
        /\ SaysNumber(r.block, number, r.script[i].len - 1, 1)

Encodes(r) ==
    LET last == Len(r.script)
    IN  /\ r.start \in [1 .. last -> Cursors(Len(r.block))]
        /\ r.start[1] = AtFirst
        /\ \A i \in 1 .. last : r.start[i].at < Len(r.block)
        /\ \A i \in 1 .. last : SaysLiterals(r, i)
        /\ \A i \in 1 .. last - 1 :
              /\ IF Repeats(r.script, i) THEN SaysRepMatch(r, i)
                 ELSE SaysMatchWithOffset(r, i)
              /\ r.start[i + 1] = EndOf(r.numbers[i].len)
        /\ r.script[last].len = 0 /\ SaysHigh(r, last, EOD)

(* Where a reader copies, in the block and in the text: the number of      *)
(* literals or the length of a match has just ended.                       *)
CopySteps(r) ==
    {<<EndOf(r.numbers[i].lit).at, r.out[i]>> :
        i \in {j \in 1 .. Len(r.script) : r.script[j].lit > 0}}
    \cup
    {<<EndOf(r.numbers[i].len).at, r.out[i] + r.script[i].lit>> :
        i \in {j \in 1 .. Len(r.script) : r.script[j].len > 0}}
=============================================================================
