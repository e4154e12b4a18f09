---------------------------- MODULE Lzsa1Format -----------------------------
(***************************************************************************)
(* The LZSA1 block a script becomes: what lzsa_write_block_v1 emits for raw*)
(* blocks ("lzsa -f1 -r"), the stream LZSA1_Decompress is written for.     *)
(***************************************************************************)
EXTENDS LzBlock

MIN_MATCH_SIZE_V1   == 3
LITERALS_RUN_LEN_V1 == 7
MATCH_RUN_LEN_V1    == 15

AtMost(n, limit) == IF n >= limit THEN limit ELSE n

(* A length of up to `inToken', or of one, two or three bytes past the     *)
(* token: the first one tells 256 + the second, or that a word follows.    *)
Varlen(n, inToken) ==
    IF n < inToken THEN <<>>
    ELSE IF n < 256 THEN <<n - inToken>>
    ELSE IF n < 512 THEN <<257 - inToken, n - 256>>
    ELSE <<256 - inToken, n % 256, n \div 256>>

LiteralsVarlen(lit) == Varlen(lit, LITERALS_RUN_LEN_V1)
MatchVarlen(len)    == Varlen(len, MATCH_RUN_LEN_V1 + MIN_MATCH_SIZE_V1)

LongOffset(off) == off > 256

Token(lit, encodedLen, long) ==
    <<(IF long THEN 128 ELSE 0)
      + AtMost(lit, LITERALS_RUN_LEN_V1) * 16
      + AtMost(encodedLen, MATCH_RUN_LEN_V1)>>

(* Offsets are stored negated. *)
OffsetBytes(off) ==
    IF LongOffset(off) THEN <<(-off) % 256, ((-off) % 65536) \div 256>>
    ELSE <<(-off) % 256>>

WriteMatchCommand(literals, cmd) ==
    Token(cmd.lit, cmd.len - MIN_MATCH_SIZE_V1, LongOffset(cmd.off))
    \o LiteralsVarlen(cmd.lit)
    \o literals
    \o OffsetBytes(cmd.off)
    \o MatchVarlen(cmd.len)

(* The last literals have a match length field of 15, for the marker. *)
WriteLastCommand(literals, cmd) ==
    Token(cmd.lit, MATCH_RUN_LEN_V1, FALSE)
    \o LiteralsVarlen(cmd.lit)
    \o literals

WriteCommand(literals, cmd) ==
    IF cmd.len = 0 THEN WriteLastCommand(literals, cmd)
    ELSE WriteMatchCommand(literals, cmd)

WriteCommands(script) ==
    FlattenSeq([i \in 1 .. Len(script) |->
                   WriteCommand(Literals(LengthBefore(script, i),
                                         script[i].lit), script[i])])

(* The end of data marker: a match offset, and a match length of 0 as word.*)
EOD == <<0, 238, 0, 0>>

Block(script) == WriteCommands(script) \o EOD

-----------------------------------------------------------------------------
(* r.at has the positions at which the commands of r.script start in the   *)
(* block, and then the marker's.  A match has at least three bytes, and the*)
(* command without one is the last.                                        *)
Encodes(r) ==
    LET last == Len(r.script)
    IN  /\ r.at \in [1 .. last + 1 -> 0 .. Len(r.block)]
        /\ r.at[1] = 0 /\ HasAt(r.block, r.at[last + 1], EOD)
        /\ \A i \in 1 .. last :
              LET written == WriteCommand(LiteralsOf(r, i), r.script[i])
              IN  /\ HasAt(r.block, r.at[i], written)
                  /\ r.at[i + 1] = r.at[i] + Len(written)
                  /\ IF i = last THEN r.script[i].len = 0
                     ELSE r.script[i].len >= MIN_MATCH_SIZE_V1

(* LZSA1_Decompress cannot take runs as long as the format allows.  *)
ShortLiterals(r) == \A i \in 1 .. Len(r.script) : r.script[i].lit < 512
=============================================================================
