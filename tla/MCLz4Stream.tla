---------------------------- MODULE MCLz4Stream -----------------------------
(***************************************************************************)
(* Data of up to three blocks, with and without a dictionary: blocks of 2  *)
(* and 3 bytes stand for those of 64 Kb to 4 Mb, and two bytes of history  *)
(* for 64 Kb.                                                              *)
(***************************************************************************)
EXTENDS Lz4Stream

CONSTANT Longest

MCBlockSize(c) == c + 1

MCDatas == UNION {[1 .. n -> {1, 2}] : n \in 0 .. Longest}

MCNoDictionary == {<<>>}
MCDictionaries == {<<>>, <<1>>, <<2, 1>>}

MCFlagSets == SUBSET {RAW, INDEP}
MCLegacy   == {{LEGACY}}
=============================================================================
