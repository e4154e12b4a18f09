--------------------------- MODULE Lz4MatchFinder ---------------------------
(***************************************************************************)
(* lz4ultra's use of the match finder: one match per position, the longest *)
(* one near enough, cut off before the end of the block, where LZ4 wants   *)
(* literals.  The positions of the history are visited without it.         *)
(***************************************************************************)
EXTENDS MatchFinder

CONSTANTS LAST_MATCH_OFFSET, LAST_LITERALS

VARIABLE match   \* match[p] for the positions that have been visited

NoMatch == [length |-> 0, offset |-> 0]

RoomBeforeLast == Max({Size - LAST_LITERALS - i, 0})

Shortened == [found[1] EXCEPT !.length = Min({@, RoomBeforeLast})]

(* Slip: a match stored however near to the end it starts. *)
StoredToEnd == IF found = <<>> THEN NoMatch ELSE Shortened

Stored == IF found = <<>> \/ i > Size - LAST_MATCH_OFFSET THEN NoMatch
          ELSE Shortened

(* find_all_matches, skip_matches *)
NextPosition ==
    /\ pc = "Found"
    /\ match' = IF i < start THEN match ELSE [match EXCEPT ![i] = Stored]
    /\ i' = i + 1
    /\ pc' = "Find"
    /\ UNCHANGED <<window, start, intervals, posData, built, ref, matchPos,
                   found>>

FinderNext ==
    \/ /\ \/ SortSuffixes \/ PermutedLcp \/ RotateLcp
          \/ BuildIntervals \/ CloseIntervals
          \/ Find \/ Ascend \/ NothingFound
          \/ EnterLinks \/ FollowLink \/ VisitLinked
       /\ UNCHANGED match
    \/ NextPosition

MatchInit == FinderInit /\ match = [p \in 0 .. Size - 1 |-> NoMatch]

-----------------------------------------------------------------------------
(* What two positions have in common, as far as the finder wants to know. *)
Common(p, q) == Kept(Extended(p, q, 0))

(* What is reported for a position of the block is as long as any earlier  *)
(* occurrence within reach, and is the nearest one of that length.         *)
Earlier == {p \in 0 .. i - 1 : Common(p, i) > 0}
Within  == {p \in Earlier : i - p <= MAX_OFFSET}

LongestAndNearest ==
    pc = "Found" /\ i >= start =>
        IF Within = {} THEN found = <<>>
        ELSE LET length  == Max({Common(p, i) : p \in Within})
                 nearest == Max({p \in Within : Common(p, i) = length})
             IN  found = <<[length |-> length, offset |-> i - nearest]>>
=============================================================================
