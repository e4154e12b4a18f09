------------------------- MODULE MCRefLzsa2Decoder --------------------------
(***************************************************************************)
(* The calls TLC runs the reference decoder on: the blocks LZSA2_Decompress*)
(* is run on, and blocks without a match.  The output of the latter ends   *)
(* at the end of a bank but for one byte, or, with AtBankStart, starts at  *)
(* its start, where Destination is in test_reference_lzsa2.s.              *)
(***************************************************************************)
EXTENDS RefLzsa2Decoder

CONSTANTS LiteralEdges, MatchEdges, OffsetEdges, SrcBank,
          AtBankStart   \* blocks without a match at the start of the bank

(* Kept apart: the decoder and the format have some names in common. *)
Input == INSTANCE Lzsa2Calls

LiteralScripts == {<<Input!Command(n, 0, 0)>> : n \in LiteralEdges}

(* The byte left at the end is the one Destination, of $ffff bytes, lacks. *)
Placed(r, placement) ==
    [r EXCEPT !.dst = IF placement = "low" THEN 0 ELSE 65535 - Len(r.plain)]

PlacedCalls(scripts, placements) ==
    {Placed(Input!CallOf(script, placement), placement) :
        script \in scripts, placement \in placements}

MCCalls == IF AtBankStart THEN PlacedCalls(LiteralScripts, {"low"})
           ELSE PlacedCalls(Input!Scripts, Input!Placements)
                \cup PlacedCalls(LiteralScripts, {"high"})
=============================================================================
