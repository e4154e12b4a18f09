---------------------------- MODULE MCLz4Shrink -----------------------------
(***************************************************************************)
(* The blocks TLC runs lz4ultra's compressor on: every window of bits up to*)
(* a length, and runs and repetitions that are longer.                     *)
(***************************************************************************)
EXTENDS Lz4Shrink

CONSTANTS Longest, Starts, Patterns

(* A run of n ones, m zeros, and the run again: matches next to each other.*)
Repetitions ==
    {[k \in 1 .. 2 * n + m |-> IF k \in n + 1 .. n + m THEN 0 ELSE 1] :
        n \in 4 .. Patterns, m \in 1 .. 3}

MCWindows == UNION {[1 .. n -> {0, 1}] : n \in 1 .. Longest} \cup Repetitions

MCInputs == {[window |-> w, start |-> s] :
                s \in Starts, w \in {v \in MCWindows : Len(v) > Max(Starts)}}

MCFlags == {{}, {"FAVOR_RATIO", "RAW_BLOCK"}}
MCMaxOut(n) == IF n % 3 = 0 THEN n \div 2 ELSE 2 * n + 4
=============================================================================
