--------------------------- MODULE Decompressors ----------------------------
(***************************************************************************)
(* The library: the four routines beside each other, and a program that    *)
(* calls one of them, not for the first time: the DMA registers they keep  *)
(* their variables in, the carry and the WRAM data port hold what earlier  *)
(* calls or the program itself left there.  What is asked of a routine is  *)
(* in LzRoutine; here it is asked of all of them.                          *)
(***************************************************************************)
EXTENDS LzRoutine

CONSTANTS Leftovers,     \* words found in registers at the call
          Lzsa2Inline,   \* LZSA2_OPT_INLINE
          Zx0Inline,     \* ZX0_OPT_INLINE
          CodeBanks      \* the banks LZSA2's tables can be read from

ASSUME LeftoversAssumption == Leftovers \subseteq Word

ASSUME RoutineAssumption ==
    \A r \in Calls : r.routine \in {"LZ4", "LZSA1", "LZSA2", "ZX0"}

VARIABLES length, token, nibble, nibrdy, tmp

vars == <<common, length, token, nibble, nibrdy, tmp>>

(* Each decoder comes with what is proved of it. *)
LZ4   == INSTANCE Lz4DecoderProofs
LZSA1 == INSTANCE Lzsa1DecoderProofs
LZSA2 == INSTANCE Lzsa2DecoderProofs WITH INLINE <- Lzsa2Inline
ZX0   == INSTANCE Zx0DecoderProofs WITH INLINE <- Zx0Inline

(* A call says which routine it is to. *)
Calling(routine) == call.routine = routine

(* What the compressor of a call's format writes. *)
WellFormed(r) == /\ r.routine = "LZ4" => LZ4!WellFormed(r)
                 /\ r.routine = "LZSA1" => LZSA1!WellFormed(r)
                 /\ r.routine = "LZSA2" => LZSA2!WellFormed(r)
                 /\ r.routine = "ZX0" => ZX0!WellFormed(r)

WellFormedCalls == \A r \in Calls : WellFormed(r)

-----------------------------------------------------------------------------
Init == /\ call \in Calls
        /\ pc = "Main"
        /\ m = 8 /\ db = 128 /\ dp = 0
        /\ stack = EmptyStack
        /\ \E word \in Leftovers :
              /\ x = word /\ y = word /\ a = word /\ c = word % 2
              /\ match = word /\ length = word /\ tmp = word
              /\ inBank = Lo(word) /\ outBank = Lo(word)
              /\ token = Lo(word) /\ nibble = Lo(word) /\ nibrdy = Lo(word)
              /\ wmadd = WramAt(126, word)
        /\ wram = [p \in {} |-> Junk]

Next == \/ /\ Calling("LZ4") /\ LZ4!Next
           /\ UNCHANGED <<nibble, nibrdy, tmp>>
        \/ /\ Calling("LZSA1") /\ LZSA1!Next
           /\ UNCHANGED <<length, nibble, nibrdy, tmp>>
        \/ /\ Calling("LZSA2") /\ LZSA2!Next
           /\ UNCHANGED <<length, tmp>>
        \/ /\ Calling("ZX0") /\ ZX0!Next
           /\ UNCHANGED <<token, nibble, nibrdy>>

Spec == Init /\ [][Next]_vars
FairSpec == Spec /\ WF_vars(Next)   \* the CPU executes: nothing interrupts it

-----------------------------------------------------------------------------
(* Registers have their widths and the CPU is at a label: no RTS or RTL    *)
(* takes anything else than an address off the stack.                      *)
TypeOK == /\ Calling("LZ4") => LZ4!TypeOK
          /\ Calling("LZSA1") => LZSA1!TypeOK
          /\ Calling("LZSA2") => LZSA2!TypeOK
          /\ Calling("ZX0") => ZX0!TypeOK

(* Where LZSA2 stores literals through the data port without setting it,   *)
(* it is at the end of the output.                                         *)
PortInStep == Calling("LZSA2") => LZSA2!PortInStep

(* ZX0's bit buffer is refilled exactly when it is used up, whether its    *)
(* loop is unrolled or not.                                                *)
MarkerShiftedOut == Calling("ZX0") => ZX0!MarkerShiftedOut

(* ZX0 takes a type bit without looking whether there is one, and there is.*)
TypeBitThere == Calling("ZX0") => ZX0!TypeBitThere

(* ZX0 makes the length with a carry nobody sets on purpose. *)
CarrySetAtDone == Calling("ZX0") => ZX0!CarrySetAtDone

(* Each routine takes the stream apart as the compressor put it together:  *)
(* where ZX0 copies, and where the others read a token, the commands before*)
(* are used up and their output is complete.                               *)
InStepEverywhere == InStep /\ (Calling("ZX0") => ZX0!InStepBits)

(* The two LZSA routines add the length of literals with the carry that is *)
(* left by whatever path led there ("C=0").                                *)
CarryClearForLength == ~Calling("ZX0") => CarryClear
=============================================================================
