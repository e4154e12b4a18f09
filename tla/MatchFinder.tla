---------------------------- MODULE MatchFinder -----------------------------
(***************************************************************************)
(* How lz4ultra finds earlier occurrences of the bytes at a position       *)
(* (matchfinder.c).  The suffixes of the window are sorted, and the tree of*)
(* its LCP intervals (the sets of suffixes that share a prefix) is built   *)
(* over the very array that holds the sorted suffixes.  Then positions are *)
(* visited in order; an interval that was visited remembers the last       *)
(* position in it, with the links to it corrected only when they are used. *)
(*                                                                         *)
(* An entry of either array is a number made of a length and an index,     *)
(* and a flag for visited intervals, whose entry is a position.            *)
(***************************************************************************)
EXTENDS Integers, Sequences, SequencesExt, FiniteSetsExt

CONSTANTS Inputs,           \* records: window, the bytes, and start, how
                            \* many of them are history
          MIN_MATCH_SIZE,
          LCP_MAX,          \* longer common prefixes count as this long
          POS,              \* POS_MASK + 1
          MAX_OFFSET

VARIABLES window, start,
          pc,
          intervals, posData,    \* the two arrays
          open,                  \* open_intervals, the root first
          next,                  \* next_interval_idx
          curLen,
          r, prevPos,            \* the suffix in turn, the one before
          i,                     \* the position in turn
          ref, matchPos,
          found                  \* the matches reported for it

built   == <<curLen, open, next, r, prevPos>>
finding == <<i, ref, matchPos, found>>
finder  == <<window, start, pc, intervals, posData, built, finding>>

Size == Len(window)
Positions == 0 .. Size - 1
ByteAt(p) == window[p + 1]

VISITED_FLAG == POS * (LCP_MAX + 1)

Entry(lcp, index) == lcp * POS + index
Lcp(entry) == (entry % VISITED_FLAG) \div POS   \* entry & LCP_MASK
Pos(entry) == entry % POS
Visited(p) == VISITED_FLAG + p
LastVisitor(entry) == entry % VISITED_FLAG      \* EXCL_VISITED_MASK

-----------------------------------------------------------------------------
(* divsufsort_build_array *)
SameFor(p, q, n) == \A k \in 0 .. n - 1 : ByteAt(p + k) = ByteAt(q + k)

Room(p, q) == Size - Max({p, q})

Before(p, q) ==
    \E n \in 0 .. Room(p, q) :
        /\ SameFor(p, q, n)
        /\ \/ p + n = Size /\ q + n < Size
           \/ p + n < Size /\ q + n < Size /\ ByteAt(p + n) < ByteAt(q + n)

Rank(p) == Cardinality({q \in Positions : Before(q, p)})

(* With Phi, the suffix sorted before each, where the lengths will be. *)
SortSuffixes ==
    LET sorted == [k \in Positions |-> CHOOSE p \in Positions : Rank(p) = k]
    IN  /\ pc = "SortSuffixes"
        /\ intervals' = sorted
        /\ posData' = [p \in Positions |->
                          IF Rank(p) = 0 THEN -1 ELSE sorted[Rank(p) - 1]]
        /\ r' = 0
        /\ curLen' = 0
        /\ pc' = "PermutedLcp"
        /\ UNCHANGED <<window, start, open, next, prevPos, finding>>

(* The length shared with the suffix sorted before, for each position in   *)
(* turn: at most one less than for the position before, so that no byte is *)
(* looked at again.                                                        *)
Extended(p, q, from) ==
    LET further == {n \in from + 1 .. Room(p, q) :
                       \A k \in from .. n - 1 : ByteAt(p + k) = ByteAt(q + k)}
    IN  Max(further \cup {from})

After(len) == IF len > 0 THEN len - 1 ELSE 0

PermutedLcp ==
    LET phi == posData[r]
        len == IF phi = -1 THEN 0 ELSE Extended(r, phi, curLen)
    IN  /\ pc = "PermutedLcp"
        /\ r < Size
        /\ posData' = [posData EXCEPT ![r] = len]
        /\ curLen' = IF phi = -1 THEN curLen ELSE After(len)
        /\ r' = r + 1
        /\ UNCHANGED <<window, start, pc, intervals, open, next, prevPos,
                       finding>>

(* Slip: nLen not limited to LCP_MAX. *)
KeptUncapped(len) == IF len < MIN_MATCH_SIZE THEN 0 ELSE len

(* What is kept of a length: none below the minimum, and at most LCP_MAX.  *)
Kept(len) == IF len < MIN_MATCH_SIZE THEN 0 ELSE Min({len, LCP_MAX})

(* The root takes the place of the first suffix. *)
RotateLcp ==
    /\ pc = "PermutedLcp"
    /\ r = Size
    /\ intervals' =
          [k \in Positions |->
              LET p == intervals[k]
              IN  IF k = 0 THEN 0 ELSE Entry(Kept(posData[p]), p)]
    /\ prevPos' = intervals[0]
    /\ open' = <<0>>
    /\ next' = 1
    /\ r' = 1
    /\ pc' = "BuildIntervals"
    /\ UNCHANGED <<window, start, curLen, posData, finding>>

-----------------------------------------------------------------------------
NextLcp == Lcp(intervals[r])
Top     == Last(open)

(* The intervals the next suffix belongs to as well. *)
Stays(entry) == Lcp(entry) <= NextLcp

StillOpen ==
    SubSeq(open, 1, Max({d \in DOMAIN open : Stays(open[d])}))

(* With one of just its length on top. *)
Opened == IF Lcp(Last(StillOpen)) = NextLcp THEN StillOpen
          ELSE Append(StillOpen, Entry(NextLcp, next))

(* The intervals that are closed get their superinterval. *)
Closed(stillOpen, last) ==
    [k \in Positions |->
        IF \E d \in DOMAIN open : d > Len(stillOpen) /\ Pos(open[d]) = k
        THEN LET d == CHOOSE d \in DOMAIN open :
                          d > Len(stillOpen) /\ Pos(open[d]) = k
             IN  IF d = Len(stillOpen) + 1 THEN last ELSE open[d - 1]
        ELSE intervals[k]]

Deepest == IF NextLcp > Lcp(Top) THEN Last(Opened) ELSE Top

BuildIntervals ==
    /\ pc = "BuildIntervals"
    /\ r < Size
    /\ posData' = [posData EXCEPT ![prevPos] = Deepest]
    /\ intervals' = Closed(StillOpen, Last(Opened))
    /\ open' = Opened
    /\ next' = IF Len(Opened) > Len(StillOpen) THEN next + 1 ELSE next
    /\ prevPos' = Pos(intervals[r])
    /\ r' = r + 1
    /\ UNCHANGED <<window, start, pc, curLen, finding>>

CloseIntervals ==
    /\ pc = "BuildIntervals"
    /\ r = Size
    /\ posData' = [posData EXCEPT ![prevPos] = Top]
    /\ intervals' = Closed(<<0>>, 0)
    /\ open' = <<0>>
    /\ i' = 0
    /\ pc' = "Find"
    /\ UNCHANGED <<window, start, curLen, next, r, prevPos, ref, matchPos,
                   found>>

-----------------------------------------------------------------------------
(* find_matches_at.  From the deepest interval of the position upwards:    *)
(* first through intervals no earlier position is in.                      *)
Super == intervals[Pos(ref)]

Find == /\ pc = "Find"
        /\ i < Size
        /\ ref' = posData[i]
        /\ posData' = [posData EXCEPT ![i] = 0]
        /\ found' = <<>>
        /\ pc' = "Ascend"
        /\ UNCHANGED <<window, start, intervals, built, i, matchPos>>

Visit == [intervals EXCEPT ![Pos(ref)] = Visited(i)]

Ascend == /\ pc = "Ascend"
          /\ Lcp(Super) # 0
          /\ intervals' = Visit
          /\ ref' = Super
          /\ UNCHANGED <<window, start, pc, posData, built, i, matchPos,
                         found>>

(* The root, or an unvisited child of the root. *)
NothingFound ==
    /\ pc = "Ascend"
    /\ Super = 0
    /\ intervals' = IF ref = 0 THEN intervals ELSE Visit
    /\ pc' = "Found"
    /\ UNCHANGED <<window, start, posData, built, finding>>

(* A visited one: on from the position that visited it last. *)
EnterLinks ==
    /\ pc = "Ascend"
    /\ Lcp(Super) = 0 /\ Super # 0
    /\ matchPos' = LastVisitor(Super)
    /\ pc' = "Links"
    /\ UNCHANGED <<window, start, intervals, posData, built, i, ref, found>>

(* The deepest interval the position linked to is in.  If it is deeper than*)
(* the one at hand, a later position has been in it since.                 *)
Linked == posData[matchPos]

FollowLink ==
    /\ pc = "Links"
    /\ Linked > ref
    /\ matchPos' = LastVisitor(intervals[Pos(Linked)])
    /\ UNCHANGED <<window, start, pc, intervals, posData, built, i, ref,
                   found>>

(* Slip: the link to the interval left as it was. *)
UnlinkedPosData == posData

LinkedPosData == [posData EXCEPT ![matchPos] = ref]

(* Of the history nothing is reported, and of the block one match. *)
WithMatch(p) ==
    IF i >= start /\ found = <<>> /\ i - p <= MAX_OFFSET
    THEN <<[length |-> Lcp(ref), offset |-> i - p]>>
    ELSE found

VisitLinked ==
    /\ pc = "Links"
    /\ Linked <= ref
    /\ intervals' = Visit
    /\ posData' = LinkedPosData
    /\ found' = WithMatch(matchPos)
    /\ IF Linked = 0
       THEN pc' = "Found" /\ UNCHANGED <<ref, matchPos>>
       ELSE /\ ref' = Linked
            /\ matchPos' = LastVisitor(Visit[Pos(Linked)])
            /\ UNCHANGED pc
    /\ UNCHANGED <<window, start, built, i>>

FinderInit ==
    /\ \E input \in Inputs : window = input.window /\ start = input.start
    /\ pc = "SortSuffixes"
    /\ intervals = <<>> /\ posData = <<>>
    /\ curLen = 0 /\ open = <<>> /\ next = 0 /\ r = 0 /\ prevPos = 0
    /\ i = 0 /\ ref = 0 /\ matchPos = 0 /\ found = <<>>

-----------------------------------------------------------------------------
FinderTypeOK ==
    /\ pc = "BuildIntervals" =>
          intervals \in [Positions -> 0 .. VISITED_FLAG - 1]
    /\ pc \in {"Find", "Found"} =>
          /\ intervals \in [Positions -> 0 .. 2 * VISITED_FLAG - 1]
          /\ posData \in [Positions -> 0 .. VISITED_FLAG - 1]
    /\ open \in Seq(0 .. VISITED_FLAG - 1)
    /\ next \in 0 .. Size /\ r \in 0 .. Size
    /\ prevPos \in 0 .. Size /\ curLen \in 0 .. Size
    /\ i \in -1 .. Size
    /\ ref \in 0 .. VISITED_FLAG - 1 /\ matchPos \in 0 .. Size
=============================================================================
