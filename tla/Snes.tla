-------------------------------- MODULE Snes --------------------------------
(***************************************************************************)
(* What the decoders use of the console: 8 and 16 bit arithmetic with the  *)
(* carry flag, the CPU stack, the ROM as seen through a data bank, DMA     *)
(* channel 6 writing to the WRAM data port, and the block move instruction.*)
(* The hardware is not part of the repository: it is modelled from the way *)
(* the decoders use it.                                                    *)
(*                                                                         *)
(* The 128 KB of WRAM are a partial function: its domain is the set of     *)
(* addresses written since the decoder was called.  The rest holds         *)
(* whatever it held before, which Peek shows as Junk, a value no byte has. *)
(***************************************************************************)
EXTENDS Integers, Sequences

Bit  == {0, 1}
Byte == {n \in Nat : n < 256}
Word == {n \in Nat : n < 65536}
WramAddress == {n \in Nat : n < 131072}
Junk == 256
Cell == Byte \cup {Junk}

-----------------------------------------------------------------------------
(* Arithmetic.  ADC and SBC at width 16, and the low half of an accumulator*)
(* whose high half (B) an 8 bit instruction leaves alone.                  *)

Wrap(n) == n % 65536

Lo(w) == w % 256
Hi(w) == w \div 256
MakeWord(lo, hi) == hi * 256 + lo
SetLo(w, b) == MakeWord(b, Hi(w))

Adc(u, v, carry)      == Wrap(u + v + carry)
CarryOut(u, v, carry) == IF u + v + carry > 65535 THEN 1 ELSE 0
Sbc(u, v)             == Wrap(u - v)          \* with C = 1, no borrow
NoBorrow(u, v)        == IF u >= v THEN 1 ELSE 0  \* C after CMP or SBC

-----------------------------------------------------------------------------
(* The stack, top first.  An item remembers what was pushed: an address to *)
(* return to, a saved DP or DB, or a word.                                 *)

Push(stack, item) == <<item, stack>>
Top(stack)        == stack[1]
Pop(stack)        == stack[2]
EmptyStack        == <<>>

Item(kind, value) == <<kind, value>>

(* A pull takes any item for data: an address is a word of the code's bank.*)
CodeAddress == 32768
ItemValue(item) == IF item[1] = "addr" THEN CodeAddress ELSE item[2]

(* RTS and RTL: what is on top had better be an address. *)
ReturnTo(stack) ==
    IF Top(stack)[1] = "addr" THEN Top(stack)[2] ELSE "Crash"

-----------------------------------------------------------------------------
(* A ROM holding one block: its bytes from address `at' of bank `bank', and*)
(* filler everywhere else (link.cfg fills with $ff).                       *)

Filler == 255

RomByte(block, blockBank, at, bank, addr) ==
    LET i == Wrap(addr - at)
    IN  IF bank = blockBank /\ i < Len(block) THEN block[i + 1] ELSE Filler

(* 16 bit load: the second byte of a word at the end of a bank comes from  *)
(* the next bank, which no block reaches into.                             *)
RomWord(block, blockBank, at, bank, addr) ==
    MakeWord(RomByte(block, blockBank, at, bank, addr),
             IF addr = 65535 THEN Filler
             ELSE RomByte(block, blockBank, at, bank, addr + 1))

-----------------------------------------------------------------------------
(* WRAM, banks $7e and $7f. *)

WramAt(bank, addr) == (bank % 2) * 65536 + addr
Peek(wram, p) == IF p \in DOMAIN wram THEN wram[p] ELSE Junk

(* Only WRAM addresses are ever written, and with cells. *)
WramOK(wram) == /\ DOMAIN wram \subseteq WramAddress
                /\ wram \in [DOMAIN wram -> Cell]

(* WMADD, the address the data port WMDATA accesses, is one 17 bit counter:*)
(* a write to WMADD+2 sets its bank, a 16 bit write to WMADD the rest, and *)
(* each byte through the port moves it on.                                 *)
PortBank(port, bank) == WramAt(bank, port % 65536)
PortAt(port, addr)   == WramAt(port \div 65536, addr)
PortOn(port, n)      == (port + n) % 131072

(* A DMA length of zero means 65536 bytes. *)
DmaCount(n) == IF n = 0 THEN 65536 ELSE n

(* DMA through WMDATA: bytes[0 .. n-1] go to n successive WRAM addresses,  *)
(* running on from bank $7e into $7f.                                      *)
DmaToWram(wram, p, bytes, n) ==
    LET Index(q) == (q - p) % 131072
        target   == {(p + i) % 131072 : i \in 0 .. n - 1}
    IN  [q \in DOMAIN wram \cup target |->
            IF Index(q) < n THEN bytes[Index(q)] ELSE wram[q]]

(* MVN within one bank: n bytes, ascending, one at a time, both offsets    *)
(* wrapping at the bank's end.  A byte read after the same instruction     *)
(* wrote it is the copy of a byte `dist' earlier, which repeats the first  *)
(* `dist' bytes: how an overlapping match makes a run.                     *)
BlockMove(wram, bank, from, to, n) ==
    LET dist      == Wrap(to - from)
        Index(q)  == Wrap(q - to)
        Source(i) ==
            WramAt(bank, Wrap(from + (IF dist = 0 THEN i ELSE i % dist)))
        target    == {WramAt(bank, Wrap(to + i)) : i \in 0 .. n - 1}
    IN  [q \in DOMAIN wram \cup target |->
            Peek(wram, IF q = WramAt(bank, q % 65536) /\ Index(q) < n
                       THEN Source(Index(q)) ELSE q)]
=============================================================================
