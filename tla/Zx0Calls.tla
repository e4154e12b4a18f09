----------------------------- MODULE Zx0Calls -------------------------------
(***************************************************************************)
(* The calls TLC runs ZX0_Decompress on.  Lengths and offsets sit on both  *)
(* sides of every change in the number of bits they take, so that numbers  *)
(* start and end at every place of the bit buffer.                         *)
(***************************************************************************)
EXTENDS Zx0Format

CONSTANTS LiteralEdges, MatchEdges, OffsetEdges

(* Literals, a match, a match without literals, a repeated offset with one *)
(* literal, and the last literals, if any.                                 *)
Lengths(l1, m1, l2, m2, last) ==
    <<Command(l1, m1, 2), Command(0, m2, 1), Command(l2, 1, 1),
      Command(1, m1, 1), Command(last, 0, 0)>>

(* A run long enough for a match from `off' back, and that offset again.   *)
Offsets(off, len, last) ==
    <<Command(2, off + 1, 1), Command(1, len, off), Command(3, 9, off),
      Command(0, 2, 3), Command(last, 0, 0)>>

Scripts ==
    {Lengths(n, k, j, 2, 0) : n \in LiteralEdges \ {1}, k \in MatchEdges,
                              j \in {1, 3}}
    \cup {Lengths(3, 2, n, k, n) : n \in LiteralEdges, k \in MatchEdges}
    \cup {Offsets(o, k, n) : o \in OffsetEdges, k \in {2, 3}, n \in {0, 2}}

-----------------------------------------------------------------------------
(* The cursors and numbers of a script, each where the one before it ends. *)
PastBits(cursor, n) ==
    FoldLeft(LAMBDA past, j : PastBit(past), cursor, [j \in 1 .. n |-> j])

NumberFrom(n, past) ==
    LET turns == Log2(n) + 1
    IN  [value |-> [k \in 1 .. turns |-> n \div 2^(turns - k)],
         past  |-> [k \in 1 .. turns |-> PastBits(past, 2 * (k - 1))]]

NoNumber == [value |-> <<>>, past |-> <<>>]

NumbersOf(script, i, start) ==
    LET cmd  == script[i]
        lit  == NumberFrom(cmd.lit, PastBits(start, IF i = 1 THEN 1 ELSE 2))
        type == IF cmd.lit = 0 THEN start ELSE PastBytes(EndOf(lit), cmd.lit)
        code == PastBits(type, 2)
        high == NumberFrom(IF cmd.len = 0 THEN EOD ELSE HighPart(cmd.off), code)
        len  == IF Repeats(script, i) THEN NumberFrom(cmd.len, code)
                ELSE NumberFrom(cmd.len - 1, PastBytes(EndOf(high), 1))
    IN  [lit  |-> IF cmd.lit = 0 THEN NoNumber ELSE lit,
         high |-> high,
         len  |-> IF cmd.len = 0 THEN NoNumber ELSE len]

Layout(script) ==
    FoldLeft(LAMBDA before, i :
                 LET numbers == NumbersOf(script, i, before.next)
                 IN  [start   |-> Append(before.start, before.next),
                      numbers |-> Append(before.numbers, numbers),
                      next    |-> IF script[i].len = 0 THEN AtFirst
                                  ELSE EndOf(numbers.len)],
             [start |-> <<>>, numbers |-> <<>>, next |-> AtFirst],
             [i \in 1 .. Len(script) |-> i])

(* The block starts at a bank's start or ends at its end; so does the text.*)
Placements == {"low", "high"}

Place(placement, size) == IF placement = "low" THEN 0 ELSE 65536 - size

CallOf(script, placement) ==
    LET block == Block(script)
        plain == Expand(script)
        layout == [script |-> script, out |-> TextPositions(script)]
                      @@ Layout(script)
    IN  layout @@
        [block |-> block, plain |-> plain, steps |-> CopySteps(layout),
         srcBank |-> 193, dstBank |-> IF placement = "low" THEN 127 ELSE 126,
         src |-> Place(placement, Len(block)),
         dst |-> Place(placement, Len(plain))]
=============================================================================
