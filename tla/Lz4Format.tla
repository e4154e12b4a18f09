----------------------------- MODULE Lz4Format ------------------------------
(***************************************************************************)
(* The LZ4 block a script becomes: what lz4ultra_write_block_lz4 emits for *)
(* raw blocks ("lz4ultra -r"), the stream LZ4_Decompress is written for.   *)
(***************************************************************************)
EXTENDS LzBlock

MIN_MATCH_SIZE   == 4
LITERALS_RUN_LEN == 15
MATCH_RUN_LEN    == 15

AtMost(n, limit) == IF n >= limit THEN limit ELSE n

(* The bytes 255, 255, ..., rest that carry a length past the token. *)
Varlen(n, runLen) ==
    IF n < runLen THEN <<>>
    ELSE [i \in 1 .. (n - runLen) \div 255 |-> 255] \o <<(n - runLen) % 255>>

Token(lit, encodedLen) ==
    <<AtMost(lit, LITERALS_RUN_LEN) * 16 + AtMost(encodedLen, MATCH_RUN_LEN)>>

WriteMatchCommand(literals, cmd) ==
    LET encodedLen == cmd.len - MIN_MATCH_SIZE
    IN  Token(cmd.lit, encodedLen)
        \o Varlen(cmd.lit, LITERALS_RUN_LEN)
        \o literals
        \o <<cmd.off % 256, cmd.off \div 256>>
        \o Varlen(encodedLen, MATCH_RUN_LEN)

(* The last literals, then a zero match offset as end of data marker. *)
WriteLastCommand(literals, cmd) ==
    Token(cmd.lit, 0)
    \o Varlen(cmd.lit, LITERALS_RUN_LEN)
    \o literals
    \o <<0, 0>>

WriteCommand(literals, cmd) ==
    IF cmd.len = 0 THEN WriteLastCommand(literals, cmd)
    ELSE WriteMatchCommand(literals, cmd)

Block(script) ==
    FlattenSeq([i \in 1 .. Len(script) |->
                   WriteCommand(Literals(LengthBefore(script, i),
                                         script[i].lit), script[i])])

-----------------------------------------------------------------------------
(* r.at has the positions at which the commands of r.script start in the   *)
(* block, and then its length.  A match has at least four bytes, and the   *)
(* command without one is the last.                                        *)
Encodes(r) ==
    LET last == Len(r.script)
    IN  /\ r.at \in [1 .. last + 1 -> 0 .. Len(r.block)]
        /\ r.at[1] = 0 /\ r.at[last + 1] = Len(r.block)
        /\ \A i \in 1 .. last :
              LET written == WriteCommand(LiteralsOf(r, i), r.script[i])
              IN  /\ HasAt(r.block, r.at[i], written)
                  /\ r.at[i + 1] = r.at[i] + Len(written)
                  /\ IF i = last THEN r.script[i].len = 0
                     ELSE r.script[i].len >= MIN_MATCH_SIZE
=============================================================================
