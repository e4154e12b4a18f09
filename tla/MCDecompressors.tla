-------------------------- MODULE MCDecompressors ---------------------------
(***************************************************************************)
(* The calls TLC runs the four routines on.                                *)
(***************************************************************************)
EXTENDS Decompressors, TLC

CONSTANTS Lzsa2Literals, Lzsa2Matches, Lzsa2Offsets,
          Zx0Literals, Zx0Matches, Zx0Offsets

Of4 == INSTANCE Lz4Calls
Of1 == INSTANCE Lzsa1Calls WITH LongLiterals <- FALSE
Of2 == INSTANCE Lzsa2Calls
       WITH LiteralEdges <- Lzsa2Literals, MatchEdges <- Lzsa2Matches,
            OffsetEdges <- Lzsa2Offsets, SrcBank <- 192
Of0 == INSTANCE Zx0Calls
       WITH LiteralEdges <- Zx0Literals, MatchEdges <- Zx0Matches,
            OffsetEdges <- Zx0Offsets

(* Each script of a routine's, in each place. *)
To(routine, scripts, placements, CallOf(_, _)) ==
    {[routine |-> routine] @@ CallOf(script, placement) :
        script \in scripts, placement \in placements}

MCCalls == To("LZ4", Of4!Scripts, Of4!Placements, Of4!CallOf)
           \cup To("LZSA1", Of1!Scripts, Of1!Placements, Of1!CallOf)
           \cup To("LZSA2", Of2!Scripts, Of2!Placements, Of2!CallOf)
           \cup To("ZX0", Of0!Scripts, Of0!Placements, Of0!CallOf)

(* They are what the theorems about streams are about. *)
ASSUME MCCallsAssumption == WellFormedCalls
=============================================================================
