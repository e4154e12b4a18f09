---------------------------- MODULE Decompressor ----------------------------
(***************************************************************************)
(* What each of the four routines promises its caller, whatever the format:*)
(* the destination only ever holds a growing prefix of the plain text,     *)
(* nothing else is written, and once all of it is there the routine returns*)
(* the length ("Out (a8i16): x  Decompressed length").                     *)
(***************************************************************************)
EXTENDS Integers, Sequences

CONSTANT ReportsLength \* whether the length is returned (OPT_RETLEN)

VARIABLES plain,    \* the text this call has to produce
          out,      \* what the destination holds so far
          result    \* what the caller has got back

vars == <<plain, out, result>>

Running == -2       \* the routine has not returned
NoLength == -1      \* it has, without a length

Init == /\ plain \in Seq(0 .. 255)
        /\ out = <<>>
        /\ result = Running

IsPrefixOf(s, t) == Len(s) <= Len(t) /\ s = SubSeq(t, 1, Len(s))

Emit == /\ result = Running
        /\ Len(out') > Len(out)
        /\ IsPrefixOf(out', plain)
        /\ UNCHANGED <<plain, result>>

Return == /\ result = Running
          /\ out = plain
          /\ result' = IF ReportsLength THEN Len(plain) % 65536 ELSE NoLength
          /\ UNCHANGED <<plain, out>>

Next == Emit \/ Return

Spec == Init /\ [][Next]_vars

(* The routine does return. *)
Termination == <>(result # Running)
=============================================================================
