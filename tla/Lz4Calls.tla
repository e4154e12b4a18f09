----------------------------- MODULE Lz4Calls -------------------------------
(***************************************************************************)
(* The calls TLC runs LZ4_Decompress on.  A script has two matches and the *)
(* last literals; lengths sit on both sides of every boundary of the       *)
(* encoding: 14 and 15 in the token, a length byte of 0, 254, 255 and a    *)
(* second one, for literals and for matches.                               *)
(***************************************************************************)
EXTENDS Lz4Format

Script(l1, m1, o1, l2, m2, o2, l3) ==
    <<Command(l1, m1, o1), Command(l2, m2, o2), Command(l3, 0, 0)>>

LiteralEdges == {1, 14, 15, 16, 269, 270, 525}
MatchEdges   == {4, 18, 19, 20, 273, 274, 528}

Scripts ==
    {Script(n, k, 1, 0, k, n, 1) :
        n \in LiteralEdges, k \in {4, 19, 273}}
    \cup {Script(n, k, 1, 0, k, n, 1) :
            n \in {1, 15, 269}, k \in MatchEdges}
    \cup {Script(3, n, o, 0, 4, 2, 0) : n \in MatchEdges, o \in {1, 2, 3}}
    \cup {Script(2, 4, 2, n, 4, n, 15) : n \in LiteralEdges}
    \cup {Script(n, k, n, n, k, 1, n) : n \in {15, 269}, k \in {19, 273}}

(* The block starts at a bank's start or ends at its end; so does the text.*)
Placements == {"low", "high"}

Place(placement, size) == IF placement = "low" THEN 0 ELSE 65536 - size

CallOf(script, placement) ==
    LET block == Block(script)
        plain == Expand(script)
    IN  [block |-> block, plain |-> plain, script |-> script,
         at |-> [i \in 1 .. Len(script) + 1 |->
                    Len(Block(SubSeq(script, 1, i - 1)))],
         out |-> TextPositions(script),
         srcBank |-> 193, dstBank |-> IF placement = "low" THEN 127 ELSE 126,
         src |-> Place(placement, Len(block)),
         dst |-> Place(placement, Len(plain))]
=============================================================================
