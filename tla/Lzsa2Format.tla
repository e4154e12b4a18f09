---------------------------- MODULE Lzsa2Format -----------------------------
(***************************************************************************)
(* The LZSA2 block a script becomes: what lzsa_write_block_v2 emits for raw*)
(* blocks ("lzsa -f2 -r"), the stream LZSA2_Decompress is written for.     *)
(* Lengths and offsets are partly nibbles.  Two nibbles that follow each   *)
(* other in the stream share a byte, which is where the first one belongs, *)
(* however many whole bytes come between them.                             *)
(***************************************************************************)
EXTENDS LzBlock

MIN_MATCH_SIZE_V2   == 2
LITERALS_RUN_LEN_V2 == 3
MATCH_RUN_LEN_V2    == 7

AtMost(n, limit) == IF n >= limit THEN limit ELSE n

(* A part of a command: a nibble, or none, and then whole bytes. *)
NoNibble == 16
Part(nibble, s) == [nibble |-> nibble, bytes |-> s]
Bytes(s)        == Part(NoNibble, s)

(* `half' is the position of the byte with room for a nibble, 0 if none has.*)
WriteNibble(written, n) ==
    LET bytes == written.bytes
    IN  IF n = NoNibble THEN written
        ELSE IF written.half = 0
        THEN [bytes |-> Append(bytes, n * 16), half |-> Len(bytes) + 1]
        ELSE [bytes |-> [bytes EXCEPT ![written.half] = @ + n], half |-> 0]

WritePart(written, part) ==
    [WriteNibble(written, part.nibble) EXCEPT !.bytes = @ \o part.bytes]

Pack(parts) == FoldLeft(WritePart, [bytes |-> <<>>, half |-> 0], parts)

-----------------------------------------------------------------------------
(* What follows the token for n bytes, of which the token holds inToken.   *)
(* `end' is the byte length the end of data marker has instead.            *)
LengthNibble(n, inToken) == IF n < inToken THEN NoNibble
                            ELSE AtMost(n - inToken, 15)

LengthBytes(n, inToken) ==
    LET end == 256 - (inToken + 15)   \* would make n = 256
    IN  IF n < inToken + 15 THEN <<>>
        ELSE IF n < 256 THEN <<n - inToken - 15>>
        ELSE <<end + 1, n % 256, n \div 256>>

Varlen(n, inToken) == Part(LengthNibble(n, inToken), LengthBytes(n, inToken))

LiteralsVarlen(lit) == Varlen(lit, LITERALS_RUN_LEN_V2)
MatchVarlen(len)    == Varlen(len, MATCH_RUN_LEN_V2 + MIN_MATCH_SIZE_V2)

(* The offset, negated, in 5, 9, 13 or 16 bits.  One bit of the shorter    *)
(* ones is in the token, inverted: bit 0 or bit 8.                         *)
Negative(off)   == 65536 - off
FARTHEST_13_BIT == 8192 + 512

InToken(n, bit) == IF (n \div bit) % 2 = 0 THEN 32 ELSE 0

OffsetMode(off, rep) ==
    IF off = rep THEN 224
    ELSE IF off <= 32  THEN InToken(Negative(off), 1)
    ELSE IF off <= 512 THEN 64 + InToken(Negative(off), 256)
    ELSE IF off <= FARTHEST_13_BIT THEN 128 + InToken(Negative(off - 512), 256)
    ELSE 192

Offset(off, rep) ==
    LET neg == Negative(off)
        long == Negative(off - 512)
    IN  IF off = rep THEN Bytes(<<>>)
        ELSE IF off <= 32  THEN Part((neg % 32) \div 2, <<>>)
        ELSE IF off <= 512 THEN Bytes(<<neg % 256>>)
        ELSE IF off <= FARTHEST_13_BIT
        THEN Part((long \div 512) % 16, <<long % 256>>)
        ELSE Bytes(<<neg \div 256, neg % 256>>)

Token(mode, lit, encodedLen) ==
    Bytes(<<mode + AtMost(lit, LITERALS_RUN_LEN_V2) * 8
                 + AtMost(encodedLen, MATCH_RUN_LEN_V2)>>)

-----------------------------------------------------------------------------
(* `rep' is the offset of the match before, 0 at the start of the block.   *)
WriteMatchCommand(literals, cmd, rep) ==
    <<Token(OffsetMode(cmd.off, rep), cmd.lit, cmd.len - MIN_MATCH_SIZE_V2),
      LiteralsVarlen(cmd.lit),
      Bytes(literals),
      Offset(cmd.off, rep),
      MatchVarlen(cmd.len)>>

(* The last literals have a repeated offset and match length field of 7,   *)
(* for the marker: a match length that adds up to 256.                     *)
EOD == Part(15, <<232>>)

WriteLastCommand(literals, cmd, rep) ==
    <<Token(224, cmd.lit, MATCH_RUN_LEN_V2),
      LiteralsVarlen(cmd.lit),
      Bytes(literals),
      Offset(rep, rep),
      EOD>>

RepOffset(script, i) == IF i = 1 THEN 0 ELSE script[i - 1].off

WriteCommand(literals, script, i) ==
    IF script[i].len = 0
    THEN WriteLastCommand(literals, script[i], RepOffset(script, i))
    ELSE WriteMatchCommand(literals, script[i], RepOffset(script, i))

(* The parts of each command. *)
Parts(script) ==
    [i \in 1 .. Len(script) |->
        WriteCommand(Literals(LengthBefore(script, i), script[i].lit),
                     script, i)]

Block(script) == Pack(FlattenSeq(Parts(script))).bytes

-----------------------------------------------------------------------------
(* Where a part of a command is: the bytes before it, and the byte with    *)
(* room for its nibble.                                                    *)
Cursor(at, half) == [at |-> at, half |-> half]

PastNibble(cursor, n) ==
    IF n = NoNibble THEN cursor
    ELSE IF cursor.half = 0 THEN Cursor(cursor.at + 1, cursor.at + 1)
    ELSE Cursor(cursor.at, 0)

PastPart(cursor, part) ==
    LET past == PastNibble(cursor, part.nibble)
    IN  Cursor(past.at + Len(part.bytes), past.half)

SaysNibble(block, cursor, n) ==
    IF n = NoNibble THEN TRUE
    ELSE IF cursor.half = 0
    THEN cursor.at < Len(block) /\ block[cursor.at + 1] \div 16 = n
    ELSE block[cursor.half] % 16 = n

SaysPart(block, cursor, part) ==
    /\ SaysNibble(block, cursor, part.nibble)
    /\ HasAt(block, PastNibble(cursor, part.nibble).at, part.bytes)

(* r.cursor has the cursors of the five parts of each command of r.script, *)
(* and then the one it ends with.  A match has at least two bytes, and the *)
(* command without one is the last.                                        *)
Encodes(r) ==
    LET last == Len(r.script)
        size == Len(r.block)
    IN  /\ r.cursor \in [1 .. last ->
                           [1 .. 6 -> [at : 0 .. size, half : 0 .. size]]]
        /\ r.cursor[1][1] = Cursor(0, 0)
        /\ \A i \in 1 .. last :
              LET parts == WriteCommand(LiteralsOf(r, i), r.script, i)
              IN  /\ r.at[i] = r.cursor[i][1].at
                  /\ \A k \in 1 .. 5 :
                        /\ SaysPart(r.block, r.cursor[i][k], parts[k])
                        /\ r.cursor[i][k + 1]
                               = PastPart(r.cursor[i][k], parts[k])
                  /\ i < last => r.cursor[i + 1][1] = r.cursor[i][6]
                  /\ IF i = last THEN r.script[i].len = 0
                     ELSE r.script[i].len >= MIN_MATCH_SIZE_V2

(* LZSA2_Decompress cannot take runs as long as the format allows.  *)
ShortLiterals(r) == \A i \in 1 .. Len(r.script) : r.script[i].lit < 256
=============================================================================
