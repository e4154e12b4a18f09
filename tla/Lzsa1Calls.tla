----------------------------- MODULE Lzsa1Calls -----------------------------
(***************************************************************************)
(* The calls TLC runs LZSA1_Decompress on.  A script has two matches and   *)
(* the last literals; lengths and offsets sit on both sides of every       *)
(* boundary of the encoding: 6 and 7 literals and 17 and 18 match bytes in *)
(* the token, one, two and three bytes past it, offsets of 256 and 257.    *)
(***************************************************************************)
EXTENDS Lzsa1Format

CONSTANT LongLiterals   \* whether literal runs of 512 and more occur

Script(l1, m1, o1, l2, m2, o2, l3) ==
    <<Command(l1, m1, o1), Command(l2, m2, o2), Command(l3, 0, 0)>>

LiteralEdges == IF LongLiterals THEN {512, 767}
                ELSE {1, 6, 7, 255, 256, 257, 511}
MatchEdges   == {3, 17, 18, 255, 256, 257, 511, 512, 513, 767}

Scripts ==
    {Script(7, n, 1, 0, n, 7, 1) : n \in MatchEdges}
    \cup {Script(2, n, 2, 0, 4, 2, 0) : n \in MatchEdges}
    \cup {Script(n, k, 1, 0, k, n, 1) :
            n \in LiteralEdges, k \in {3, 256}}
    \cup {Script(2, 3, 2, n, 4, n, 7) : n \in LiteralEdges}
    \cup {Script(n, k, n, n, k, 1, n) : n \in {7, 256}, k \in {18, 256}}
    \cup {Script(258, n, 256, 6, n, 257, 0) : n \in {17, 18}}

(* The block starts at a bank's start or ends at its end; so does the text.*)
Placements == {"low", "high"}

Place(placement, size) == IF placement = "low" THEN 0 ELSE 65536 - size

CallOf(script, placement) ==
    LET block == Block(script)
        plain == Expand(script)
    IN  [block |-> block, plain |-> plain,
         script |-> script,
         at |-> [i \in 1 .. Len(script) + 1 |->
                    Len(WriteCommands(SubSeq(script, 1, i - 1)))],
         out |-> TextPositions(script),
         srcBank |-> 193, dstBank |-> IF placement = "low" THEN 127 ELSE 126,
         src |-> Place(placement, Len(block)),
         dst |-> Place(placement, Len(plain))]
=============================================================================
