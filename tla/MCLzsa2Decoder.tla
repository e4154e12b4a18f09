--------------------------- MODULE MCLzsa2Decoder ---------------------------
(***************************************************************************)
(* LZSA2_Decompress on the calls of Lzsa2Calls.                            *)
(***************************************************************************)
EXTENDS Lzsa2Decoder, Lzsa2Calls

MCCalls == {CallOf(script, placement) :
               script \in Scripts, placement \in Placements}
=============================================================================
