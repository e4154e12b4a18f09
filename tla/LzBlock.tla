------------------------------ MODULE LzBlock -------------------------------
(***************************************************************************)
(* What a compressed block says, whatever its format: a script, the        *)
(* sequence of commands a compressor's write_block emits.  A command copies*)
(* `lit' literal bytes, then `len' bytes from `off' bytes back in the      *)
(* output (len = 0 in the last command of a block that ends in literals).  *)
(***************************************************************************)
EXTENDS Integers, Sequences, SequencesExt

Command(lit, len, off) == [lit |-> lit, len |-> len, off |-> off]

(* The literal byte at position p of the plain text.  The value depends on *)
(* the position, so that a byte out of place shows.                        *)
Payload(p) == (7 * p + p \div 256) % 251

Literals(p, n) == [i \in 1 .. n |-> Payload(p + i)]

(* LZ77 copy: the source may overlap what the copy itself produces. *)
Copied(plain, len, off) ==
    [i \in 1 .. len |-> plain[Len(plain) - off + 1 + ((i - 1) % off)]]

Extend(plain, cmd) ==
    LET withLiterals == plain \o Literals(Len(plain), cmd.lit)
    IN  IF cmd.len = 0 THEN withLiterals
        ELSE withLiterals \o Copied(withLiterals, cmd.len, cmd.off)

Expand(script) == FoldLeft(Extend, <<>>, script)

(* How much plain text precedes command i. *)
LengthBefore(script, i) ==
    FoldLeft(LAMBDA n, cmd : n + cmd.lit + cmd.len, 0, SubSeq(script, 1, i - 1))

(* Where each command of the text starts, and where the text ends. *)
TextPositions(script) ==
    [i \in 1 .. Len(script) + 1 |-> LengthBefore(script, i)]

-----------------------------------------------------------------------------
(* The same said of a block and a text as they are, without building them  *)
(* again: what a call has to be for a routine to be held to the text.  Its *)
(* literals are any bytes.                                                 *)

(* What is `at' one position after the other in a block. *)
HasAt(block, at, s) == /\ at + Len(s) <= Len(block)
                       /\ \A i \in 1 .. Len(s) : block[at + i] = s[i]

Commands == [lit : Nat, len : Nat, off : Nat]

LiteralsOf(r, i) == SubSeq(r.plain, r.out[i] + 1, r.out[i] + r.script[i].lit)

(* What a command copies is the last `off' bytes before it, over and over. *)
Copies(plain, from, cmd) ==
    cmd.len > 0 =>
        /\ cmd.off \in 1 .. from
        /\ \A j \in 1 .. cmd.len :
              plain[from + j] = plain[from - cmd.off + 1 + ((j - 1) % cmd.off)]

(* r.out has the positions in the text at which the commands of r.script   *)
(* start, and then its length; only the last command may have no match.    *)
Spells(r) ==
    /\ r.script \in Seq(Commands) /\ r.script # <<>>
    /\ r.out \in [1 .. Len(r.script) + 1 -> 0 .. Len(r.plain)]
    /\ r.out[1] = 0 /\ r.out[Len(r.script) + 1] = Len(r.plain)
    /\ \A i \in 1 .. Len(r.script) :
          LET from == r.out[i] + r.script[i].lit
          IN  /\ r.out[i + 1] = from + r.script[i].len
              /\ Copies(r.plain, from, r.script[i])

(* Block and text lie in one bank each, and a word holds their lengths. *)
InOneBank(r) == /\ r.src + Len(r.block) <= 65536
                /\ r.dst + Len(r.plain) <= 65536
                /\ Len(r.plain) < 65536
=============================================================================
