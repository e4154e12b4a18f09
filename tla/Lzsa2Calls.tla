----------------------------- MODULE Lzsa2Calls -----------------------------
(***************************************************************************)
(* The blocks both LZSA2 decoders are run on.  Lengths and offsets sit on  *)
(* both sides of every boundary of the encoding, and the number of nibbles *)
(* before each of them is sometimes odd and sometimes even.                *)
(***************************************************************************)
EXTENDS Lzsa2Format

CONSTANTS LiteralEdges, MatchEdges, OffsetEdges,   \* lengths and offsets
          SrcBank                                  \* the bank of the block

(* Two literal runs and a match of each length, the last one repeating the *)
(* offset.  With `odd' the first match length takes a nibble.              *)
Lengths(l1, m1, l2, m2, odd) ==
    <<Command(l1, IF odd THEN 9 ELSE 8, 1), Command(l2, m1, 2),
      Command(0, m2, 2), Command(l1, 0, 0)>>

(* A run long enough for a match from `off' back, and that offset again.   *)
Offsets(off, last) ==
    <<Command(2, off + 1, 1), Command(1, 3, off), Command(3, 9, off),
      Command(0, 2, 3), Command(last, 0, 0)>>

Scripts ==
    {Lengths(n, k, 0, k, odd) :
        n \in LiteralEdges, k \in MatchEdges, odd \in BOOLEAN}
    \cup {Lengths(1, 2, n, 3, odd) : n \in LiteralEdges, odd \in BOOLEAN}
    \cup {Offsets(o, n) : o \in OffsetEdges, n \in {0, 3}}

(* The block starts at a bank's start or ends at its end; so does the text.*)
Placements == {"low", "high"}

Place(placement, size) == IF placement = "low" THEN 0 ELSE 65536 - size

(* The cursors of a command's parts, from the one it starts at; and those  *)
(* of all commands, each of which starts where the one before it ends.     *)
CursorsFrom(start, parts) ==
    FoldLeft(LAMBDA cursors, part :
                 Append(cursors, PastPart(Last(cursors), part)),
             <<start>>, parts)

Layout(commands) ==
    FoldLeft(LAMBDA layout, parts :
                 Append(layout,
                        CursorsFrom(IF layout = <<>> THEN Cursor(0, 0)
                                    ELSE Last(Last(layout)), parts)),
             <<>>, commands)

CallOf(script, placement) ==
    LET block == Block(script)
        plain == Expand(script)
        cursor == Layout(Parts(script))
    IN  [block |-> block, plain |-> plain,
         script |-> script, cursor |-> cursor,
         at |-> [i \in 1 .. Len(script) |-> cursor[i][1].at],
         out |-> TextPositions(script),
         srcBank |-> SrcBank,
         dstBank |-> IF placement = "low" THEN 127 ELSE 126,
         src |-> Place(placement, Len(block)),
         dst |-> Place(placement, Len(plain))]
=============================================================================
