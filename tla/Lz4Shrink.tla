----------------------------- MODULE Lz4Shrink ------------------------------
(***************************************************************************)
(* How lz4ultra compresses one block (lz4ultra_compressor_shrink_block):   *)
(* matches are found, the cheapest of their lengths is picked at each      *)
(* position from the end backwards, commands that are not worth it are     *)
(* made literals or joined, and the commands are written.  Each phase      *)
(* trusts what the one before left in match[].                             *)
(***************************************************************************)
EXTENDS Lz4MatchFinder

CONSTANTS LITERALS_RUN_LEN, MATCH_RUN_LEN,
          LEAVE_ALONE_MATCH_SIZE,
          SHORT,         \* the longest match made literals: 19
          BYTE,          \* the largest length byte: 255
          Flags,         \* what a block may be compressed with
          MaxOut(_)      \* nMaxOutDataSize, for a number of input bytes

VARIABLES flags,         \* of "FAVOR_RATIO" and "RAW_BLOCK"
          cost, score,   \* in bits, and in commands, from a position on
          lastLiterals,  \* where the literals at hand end
          numLiterals,
          commands,      \* what has been written
          outOffset      \* how many bytes that is

optimizer == <<cost, score, lastLiterals>>
writer    == <<commands, outOffset>>
frozen    == <<flags, window, start, intervals, posData, built, ref,
               matchPos, found>>
vars      == <<flags, finder, match, optimizer, numLiterals, writer>>

MODESWITCH_PENALTY == 1
MinusOne == 2147483647   \* -1 in an unsigned length: longer than any

IsMatch(m) == m.length >= MIN_MATCH_SIZE

(* In bits; n may be less than the run length. *)
LiteralsVarlenSize(n) == ((n - LITERALS_RUN_LEN + BYTE) \div BYTE) * 8
MatchVarlenSize(n)    == ((n - MATCH_RUN_LEN + BYTE) \div BYTE) * 8

-----------------------------------------------------------------------------
(* optimize_matches_lz4.  The last byte is a literal. *)
StartOptimizing ==
    /\ pc = "Find" /\ i = Size
    /\ cost' = [p \in Positions |-> IF p = Size - 1 THEN 8 ELSE 0]
    /\ score' = [p \in Positions |-> 0]
    /\ lastLiterals' = Size
    /\ i' = Size - 2
    /\ pc' = "Optimize"
    /\ UNCHANGED <<frozen, match, numLiterals, writer>>

Penalty(p) == IF IsMatch(match[p]) THEN MODESWITCH_PENALTY ELSE 0

(* Slip: the run the literals are in taken to start where they end. *)
BoundaryLate(n) == n > LITERALS_RUN_LEN /\ (n - LITERALS_RUN_LEN) % BYTE = 0

(* One literal more takes one length byte more. *)
Boundary(n) == n >= LITERALS_RUN_LEN /\ (n - LITERALS_RUN_LEN) % BYTE = 0

AsLiteral ==
    [length |-> 0,
     cost   |-> 8 + cost[i + 1] + Penalty(i + 1)
                  + IF Boundary(lastLiterals - i) THEN 8 ELSE 0,
     score  |-> 1 + score[i + 1]]

AsMatch(k) ==
    [length |-> k,
     cost   |-> 8 + 16 + MatchVarlenSize(k - MIN_MATCH_SIZE)
                  + cost[i + k] + Penalty(i + k),
     score  |-> score[i + k] + IF "FAVOR_RATIO" \in flags THEN 1 ELSE 5]

(* Without the ratio favoured, a match just above what the token holds is  *)
(* cut.                                                                    *)
InTokenLen == MATCH_RUN_LEN + MIN_MATCH_SIZE - 1

Usable(len) == IF "FAVOR_RATIO" \notin flags
                  /\ len \in InTokenLen + 1 .. 2 * InTokenLen
               THEN InTokenLen ELSE len

Lengths ==
    LET len == Min({match[i].length, Size - LAST_LITERALS - i})
    IN  IF ~IsMatch(match[i]) THEN {}
        ELSE IF match[i].length >= LEAVE_ALONE_MATCH_SIZE THEN {len}
        ELSE MIN_MATCH_SIZE .. Usable(len)

(* Tried first literals, then from the longest match down.  *)
Better(x, y) == \/ x.cost < y.cost
                \/ x.cost = y.cost /\ x.score < y.score
                \/ /\ x.cost = y.cost /\ x.score = y.score /\ y.length # 0
                   /\ (x.length = 0 \/ x.length > y.length)

Best == LET options == {AsLiteral} \cup {AsMatch(k) : k \in Lengths}
        IN  CHOOSE x \in options : \A y \in options \ {x} : Better(x, y)

Optimize ==
    /\ pc = "Optimize"
    /\ i >= start
    /\ cost' = [cost EXCEPT ![i] = Best.cost]
    /\ score' = [score EXCEPT ![i] = Best.score]
    /\ match' = [match EXCEPT ![i] =
                    [length |-> Best.length,
                     offset |-> IF Best.length = 0 THEN 0 ELSE @.offset]]
    /\ lastLiterals' = IF Best.length = 0 THEN lastLiterals ELSE i
    /\ i' = i - 1
    /\ UNCHANGED <<frozen, pc, numLiterals, writer>>

-----------------------------------------------------------------------------
(* optimize_command_count_lz4 *)
StartReducing ==
    /\ pc = "Optimize"
    /\ i < start
    /\ i' = start
    /\ numLiterals' = 0
    /\ pc' = "Reduce"
    /\ UNCHANGED <<frozen, match, optimizer, writer>>

Here == match[i]
End  == i + Here.length          \* where the match ends
Then == match[End]

CommandSize == 8 + LiteralsVarlenSize(numLiterals) + 16
                 + MatchVarlenSize(Here.length - MIN_MATCH_SIZE)

(* Up to the next match or the end of the block. *)
LiteralsAfter == Min({p \in End + 1 .. Size : p < Size => IsMatch(match[p])})
                     - End

(* The length bytes of the run the match would become a part of.           *)
LiteralsGrowth ==
    IF IsMatch(Then) THEN LiteralsVarlenSize(numLiterals + Here.length)
    ELSE LiteralsVarlenSize(numLiterals + LiteralsAfter + Here.length)
             - LiteralsVarlenSize(LiteralsAfter)

WorthLiterals ==
    /\ Here.length <= SHORT
    /\ End < Size
    /\ CommandSize >= Here.length * 8 + LiteralsGrowth

ToLiterals ==
    /\ WorthLiterals
    /\ match' = [p \in Positions |->
                    IF p \in i .. End - 1 THEN [match[p] EXCEPT !.length = 0]
                    ELSE match[p]]
    /\ numLiterals' = numLiterals + Here.length
    /\ i' = End

(* Slip: joined without comparing what the two matches copy. *)
JoinableUncompared ==
    /\ End < Size
    /\ Here.offset > 0
    /\ Then.length >= 2 /\ Then.offset > 0
    /\ Here.length + Then.length >= LEAVE_ALONE_MATCH_SIZE
    /\ End >= Then.offset
    /\ End + Then.length <= Size

(* The match that follows copies what this one would go on to copy. *)
Joinable ==
    /\ End < Size
    /\ Here.offset > 0 /\ Here.length >= 2
    /\ Then.length >= 2 /\ Then.offset > 0
    /\ Here.length + Then.length >= LEAVE_ALONE_MATCH_SIZE
    /\ Here.length + Then.length <= 65535
    /\ End >= Here.offset /\ End >= Then.offset
    /\ End + Then.length <= Size
    /\ SameFor(End - Here.offset, End - Then.offset, Then.length)

Join ==
    /\ ~WorthLiterals
    /\ Joinable
    /\ match' = [match EXCEPT ![i].length = @ + Then.length,
                              ![End] = [length |-> MinusOne, offset |-> 0]]
    /\ UNCHANGED <<i, numLiterals>>

Keep ==
    /\ ~WorthLiterals
    /\ ~Joinable
    /\ numLiterals' = 0
    /\ i' = End
    /\ UNCHANGED match

Reduce ==
    /\ pc = "Reduce"
    /\ i < Size
    /\ \/ IsMatch(Here) /\ (ToLiterals \/ Join \/ Keep)
       \/ /\ ~IsMatch(Here)
          /\ numLiterals' = numLiterals + 1
          /\ i' = i + 1
          /\ UNCHANGED match
    /\ UNCHANGED <<frozen, pc, optimizer, writer>>

-----------------------------------------------------------------------------
(* write_block_lz4 *)
StartWriting ==
    /\ pc = "Reduce"
    /\ i = Size
    /\ i' = start
    /\ pc' = "Write"
    /\ UNCHANGED <<frozen, match, optimizer, numLiterals, writer>>

NextMatch == Min({p \in i .. Size : p < Size => IsMatch(match[p])})

Fits(size) == outOffset + size <= MaxOut(Size - start)

WriteLiterals(n) == 8 + LiteralsVarlenSize(n) + n * 8

Uncompressible == /\ pc' = "Uncompressible"
                  /\ UNCHANGED <<frozen, i, match, optimizer, numLiterals,
                                 writer>>

WriteMatch ==
    LET m    == match[NextMatch]
        size == (WriteLiterals(NextMatch - i) + 16
                    + MatchVarlenSize(m.length - MIN_MATCH_SIZE)) \div 8
    IN  /\ pc = "Write"
        /\ NextMatch < Size
        /\ \/ /\ ~(Fits(size) /\ m.offset \in 1 .. MAX_OFFSET)
              /\ Uncompressible
           \/ /\ Fits(size) /\ m.offset \in 1 .. MAX_OFFSET
              /\ commands' = Append(commands,
                     [literals |-> SubSeq(window, i + 1, NextMatch),
                      length |-> m.length, offset |-> m.offset])
              /\ outOffset' = outOffset + size
              /\ i' = NextMatch + m.length
              /\ UNCHANGED <<frozen, pc, match, optimizer, numLiterals>>

(* A raw block has a zero offset at the end. *)
WriteLast ==
    LET size == WriteLiterals(Size - i) \div 8
                    + IF "RAW_BLOCK" \in flags THEN 2 ELSE 0
    IN  /\ pc = "Write"
        /\ NextMatch = Size
        /\ \/ /\ ~Fits(size)
              /\ Uncompressible
           \/ /\ Fits(size)
              /\ commands' = Append(commands,
                     [literals |-> SubSeq(window, i + 1, Size),
                      length |-> 0, offset |-> 0])
              /\ outOffset' = outOffset + size
              /\ pc' = "Written"
              /\ UNCHANGED <<frozen, i, match, optimizer, numLiterals>>

Init == /\ flags \in Flags
        /\ MatchInit
        /\ cost = <<>> /\ score = <<>> /\ lastLiterals = 0
        /\ numLiterals = 0
        /\ commands = <<>> /\ outOffset = 0

Stop == pc \in {"Written", "Uncompressible"} /\ UNCHANGED vars

Next == \/ FinderNext /\ UNCHANGED <<flags, optimizer, numLiterals, writer>>
        \/ StartOptimizing \/ Optimize \/ StartReducing \/ Reduce
        \/ StartWriting \/ WriteMatch \/ WriteLast \/ Stop

Spec == Init /\ [][Next]_vars

-----------------------------------------------------------------------------
TypeOK ==
    /\ FinderTypeOK
    /\ match \in [Positions -> [length : Nat, offset : 0 .. Size]]
    /\ numLiterals \in 0 .. Size /\ outOffset \in Nat

Extend(text, command) ==
    LET from == Len(text) + Len(command.literals) - command.offset
        before == text \o command.literals
    IN  before \o [k \in 1 .. command.length |->
                      before[from + 1 + ((k - 1) % command.offset)]]

(* What is written is the block: expanded after the history, the commands  *)
(* give the window, whatever was shortened, made literals or joined.       *)
RoundTrip ==
    pc = "Written" =>
        FoldLeft(Extend, SubSeq(window, 1, start), commands) = window

(* "the output size will not increase": after the reduction, what is       *)
(* written is no longer than what the optimizer counted on, the last token *)
(* apart.                                                                  *)
NeverGrows ==
    pc = "Written" =>
        outOffset * 8 <= cost[start] + 8
                            + IF "RAW_BLOCK" \in flags THEN 16 ELSE 0

(* A match neither starts nor ends too near to the end of the block, not   *)
(* even a joined one.                                                      *)
EndsInLiterals ==
    pc = "Written" /\ Len(commands) > 1 =>
        /\ Len(Last(commands).literals) >= LAST_LITERALS
        /\ Len(Last(commands).literals) + commands[Len(commands) - 1].length
               >= LAST_MATCH_OFFSET
=============================================================================
