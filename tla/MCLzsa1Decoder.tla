--------------------------- MODULE MCLzsa1Decoder ---------------------------
(***************************************************************************)
(* LZSA1_Decompress on the calls of Lzsa1Calls.                            *)
(***************************************************************************)
EXTENDS Lzsa1Decoder, Lzsa1Calls

MCCalls == {CallOf(script, placement) :
               script \in Scripts, placement \in Placements}
=============================================================================
