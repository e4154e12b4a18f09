# A TLA+ model of SHVC-LZ

SHVC-LZ is a set of four decompression routines for the Super Famicom, written
in 65816 assembly: `LZ4_Decompress`, `LZSA1_Decompress`, `LZSA2_Decompress` and
`ZX0_Decompress`. A program puts a block of compressed data in ROM, puts its
address, the address of a destination in WRAM and the two banks in registers,
and calls one of them; the routine writes the plain text and returns its length.
The repository also holds what it takes to build and test such a program: the
compressors, the assembler and linker of cc65, and a second LZSA2 decoder the
tests compare with.

The routines are short and have no types, no assertions and one test each that
compares the text of a few files. What makes them right is invisible in them:
which of the two accumulator widths the CPU is in at a label, whether the carry
is clear where an `adc` adds a length, what is on the stack where a `plx` or an
`rts` takes something off, which bank DB is, how many bits a bit buffer has
left. These modules state all of that, TLC checks it for blocks on both sides of
every boundary of the encodings, and TLAPS proves two things: what does not
depend on the block being well formed, for every block there is; and for every
block a compressor may write, that each routine expands it to the text, writes
nothing else and returns its length.

Around the routines three tools are modelled whose state is as easy to get
wrong: the block compressor and the streams of lz4ultra, and the linker, which
decides at which addresses all of it ends up in the ROM.

## The system

| component | state | operations |
|---|---|---|
| `src/src/shvc-lz4.s` | registers, stack, DMA registers as variables (`LZ4_match`, `LZ4_token`, `LZ4_length`, `LZ4_mvn`, `LZ4_dma_*`) | Setup, ReadToken, DecodeLitLen, CopyLiteral, DecodeMatchOffset, DecodeMatchLen, CopyMatch, AddLength, Done |
| `src/src/shvc-lzsa1.s` | the same, `LZSA1_token` | the same labels; AddLength also finds the end of data |
| `src/src/shvc-lzsa2.s` | the same and `LZSA2_nibble`, `LZSA2_nibrdy` (a nibble put aside) | as above, five match offset encodings, GetNibble, GetExtLen, two length tables |
| `src/src/shvc-zx0.s` | `ZX0_length`, `ZX0_offset`, `ZX0_tmp`, the bit buffer in A | DecodeLiteral, DecodeMatchReuse, DecodeMatchNew, CopyLiteral, CopyMatch, DecodeGamma, GammaFillBuffer, Done |
| `src/src/boot/` | the CPU after reset | Boot, ResetMMIO and friends, `Main` of each example |
| `src/test/decoder_reference_lzsa2.s` | the operands of its own instructions, two loop counters | the labels from DECODE_TOKEN to DECOMPRESSION_DONE |
| `src/tools/lz4ultra` (vendored), blocks | suffix array and interval tree, `match[]`, costs, output | build, find, optimise, reduce, write |
| `src/tools/lz4ultra`, streams | buffers with history, frame data, two files | compress stream, decompress stream |
| `src/tools/lzsa`, `src/tools/salvador` (vendored) | – | their `*_write_block*` functions define the formats |
| `src/tools/cc65/src/ld65` (vendored) | symbol table, open libraries, segments, memory areas, output file | read objects and libraries, resolve, place, write |
| `src/tools/cc65`, the rest | – | assembler, archiver, debug information |
| `src/test/*.py` | – | scripts that run the decoders in an emulator |

The four routines do not call each other, but they share DMA channel 6: each
copies literals through the WRAM data port with it, keeps its variables in its
registers, and calls a block move that Setup assembles there. So each finds
there what an earlier call of another left. Each is called with `jsl` from a
`Main` that Boot jumps to. The compressors meet the decoders only in the bytes
of a block, lz4ultra meets itself in the bytes of a file, and the linker meets
everything in the addresses.

What is hard here is not concurrency. Boot disables interrupts and nothing else
touches channel 6, so one CPU executes one path; the tools are sequential
programs. What is hard is

- *protocols between labels*: carry, width, DB and the top of the stack are
  agreed between a label and every way to it, in comments at best (`; C=0`);
- *the end of data*, which is found two calls deep in LZSA1 and LZSA2 and with
  or without a saved bit buffer in ZX0, so that the exit has to unwind what the
  way to it pushed;
- *stale state*: the nibble put aside, the length whose low half alone is set,
  the data port that block moves do not move, the offset that is repeated;
  links to intervals that later positions have visited since; the history in
  front of a block's buffer; a count of open imports kept beside the table;
- *boundaries*: a run of exactly 15 + 255, a sum of exactly 256, an offset of
  512, a buffer that runs out in the middle of a number, a block at the very
  end of a bank, a file of exactly so many blocks;
- *order and failure*: the order of libraries and groups on the command line, a
  write that fails behind one that did not, a file that was cut;
- *two passes that must agree*: prices of the optimiser and what is written,
  addresses given out and file positions.

`PROJECT.json` lists each at its line under "hazards", with the properties that
are for it.

## Modules

```
Snes            arithmetic, stack, ROM, WRAM, DMA, block move       (external)
LzBlock         commands and what they expand to
 Lz4Format  Lzsa1Format  Lzsa2Format  Zx0Format    how commands become bytes
  Lz4Calls  Lzsa1Calls  Lzsa2Calls  Zx0Calls       the blocks TLC uses
Decompressor    what a routine promises its caller                  (abstract)
LzRoutine       what the four routines share   EXTENDS Snes; INSTANCE Decompressor
 Lz4Decoder  Lzsa1Decoder  Lzsa2Decoder  Zx0Decoder   EXTENDS LzRoutine
 Decompressors  the library: a call of any of the four, anything in its
                registers                 INSTANCE the four with their proofs
  MCDecompressors
RefLzsa2Decoder  the reference decoder         EXTENDS Snes; INSTANCE Decompressor
  MCRefLzsa2Decoder

MatchFinder     lz4ultra's interval tree
 Lz4MatchFinder  what is kept of the matches
  Lz4Shrink     optimiser, reducer, writer
   MCLz4Shrink
Lz4Frame        files, frames, what both directions share
 Lz4CompressStream   Lz4ExpandStream
  Lz4Stream     one after the other, with a file that may be cut in between
   MCLz4Stream

Ld65Link        symbol table, object files, libraries, groups
 Ld65           segments, memory areas, output file
  MCLd65

LzRoutineProofs
 Lz4DecoderProofs  Lzsa1DecoderProofs  Lzsa2DecoderProofs  Zx0DecoderProofs
  DecompressorsProofs
Lz4StreamProofs of the streams
Ld65Proofs      of the symbol table, the libraries, the addresses and the file
```

**State of the decoders.** `pc` is the label the CPU is at, and there is one
action per label, that is, per run of instructions from one point where control
can come in to the next; a label that has several ways out has several
disjuncts. `x`, `y`, `a` (B:A, 16 bits), `c`, `m` (width), `db`, `dp` and
`stack` are the CPU's, in the widths they have. `stack` is a nest of pairs, top
first, each item with what was pushed: an address, a word, a DP or a DB. A pull
takes any item as data; an `rts` that finds something else than an address makes
`pc` "Crash", which is no label, so that `TypeOK` says among other things that
this never happens. `match`, `inBank`, `outBank`, `length`, `token`, `nibble`,
`nibrdy`, `tmp` are the variables the routines keep in DMA registers. Flags
other than C are not variables: they are used by the next instruction only.

**Memory.** ROM is one block and filler (`$ff`, as `link.cfg` says) in all
banks. WRAM is a partial function whose domain is what has been written since
the call; reading anything else gives `Junk`, which is not a byte, so that a
text made of bytes that were there before cannot pass for right. `mvn` copies
byte by byte with both offsets wrapping in their bank, so overlapping matches
repeat. A DMA length of 0 is 65536.

**Formats.** A *script* is a sequence of commands – so many literals, then so
many bytes from so far back. `Block` (or `WriteBlock`) turns it into bytes as
the functions `lz4ultra_write_block_lz4`, `lzsa_write_block_v1`,
`lzsa_write_block_v2` and `salvador_write_block` do, one command at a time;
`Expand` turns it into the plain text. `Encodes` and `Spells` say the same of a
block and a text without building them: at these positions the block has what
the command is written as, and the text is what it expands to. The positions
come with the call. `at` and `out` are those in the block and in the text at which
commands start. LZSA2 has a `cursor` for each part of a command, as a nibble may
belong in a byte passed long ago; ZX0 has the cursor a command starts at
(`start`, counted in bits), its `numbers` turn by turn, and in `steps` where they
end. With `Block` TLC makes the calls, with `Encodes` one can reason about any.

**The promise.** `Decompressor` has three variables: the text, what the
destination holds, what the caller has got back. Output is only ever a longer
prefix of the text, and returning needs all of it. `LzRoutine` maps the concrete
state to it: the output is what WRAM has from the destination on, *counting all
that was written anywhere*, so that one byte elsewhere shows as junk in it. The
property `Implements` is `Promise!Spec`, `Returns` is `Promise!Termination`.
`RefLzsa2Decoder` is held to the same promise.

**The library.** `Decompressors` is what a program sees: `call` says which
routine it is to, and at the call every register a routine keeps a variable in,
the accumulator's high byte, the carry and the data port hold some word left
behind. A decoder alone starts with these cleared (`RoutineInit`).

**Build options.** `RETLEN` (all), `INLINE` (LZSA2 1 and 2, ZX0 0 and 1).
`*_OPT_MAPMODE` selects `jsr`/`rts` or `jsl`/`rtl` for the block move and
changes nothing else; it is left out. So is `LZSA2_OPT_INLINE` 0, which calls
`GetNibble` for what 1 has in place.

**lz4ultra.** The match finder is modelled down to its two arrays, since its
difficulty is in them: the sorted suffixes are overwritten by lengths and these
by a tree of intervals, and when a position is looked up only its own interval
is brought up to date, other links being corrected when somebody follows them.
Optimiser, reducer and writer are one action per position. In the streams a
block is abstract: its units are literals or the distance to copy from, and
whether it was compressible is a free choice. What is exact there is what goes
wrong there: which bytes are history, the size of the buffer, the header, the
flags, the order of writes, ends of files. Writes go through stdio. `file` and
`output` are what `fwrite` took, and a write fails in one of two ways: it returns
that it took only some (`WriteFails`, `EmitFails`: the status is
`LZ4ULTRA_ERROR_DST`), or it returns that it took all, and the end of that, up to
`STDIO_BUFFER` units, is lost when the file is closed (`CloseFile`,
`CloseOutput`), which changes no status: `lz4ultra_filestream_close` drops what
`fclose` returns, and the status was decided before. `cut` counts the units a
file has lost, then or later.

**ld65.** A job is a command line with its configuration. `Ld65Link` has the
counters the code keeps (`impOpen`, `expCount`), an entry per name (`owner`:
none, dummy, the linker or a module), and `cursor`, where `LibResolve` is in the
libraries. `Ld65` has the sections in the order they were read, and one walk
over areas and their segments for the addresses and another for the file. Bytes
of the file are marked by the section they belong to.

**Slips.** An operator below a comment "Slip:" is a form of the definition that
follows it with a mistake that is easily made there. Nothing uses it; replacing
the definition by it must break the property `PROJECT.json` names.

## Runs

| run | what it asks | bounds |
|---|---|---|
| `decompressors` | everything below of the four routines as delivered: RETLEN = 1, LZSA2 INLINE = 2, ZX0 INLINE = 1 | see the tables of edges |
| `decompressors_small` | the text and the exit of the smallest builds: RETLEN = 0, INLINE 1 and 0 | the same, LZSA2 offsets to 8705, ZX0 offsets to 1921 |
| `ref_lzsa2` | does the reference decoder keep the same promise? | LZSA2 blocks as below, runs to 300 |
| `lz4_shrink` | is the match the longest and nearest, does what is written expand to the block, and does it fit? | all windows of up to 7 bits, with no history and with 2 bytes of it, repetitions of up to 19; minimum match 3, lengths capped at 5, which is also where the optimiser leaves a match alone, offsets to 6; both flags |
| `lz4_stream` | does a file come back, whole or cut? | up to 5 bytes, blocks of 2 and 3, 2 bytes of history, dictionaries of 0 to 2; writes fail anywhere, up to 5 units are lost when a file is closed (all of a small one, the end of a larger), files are cut anywhere |
| `ld65` | is the link what the command line says, is every byte where its address says, does it end? | up to two libraries of one or two modules, an object file, a group; three segments in two areas in every way to place them; `src/link.cfg` with its banks shrunk |
| `lzsa1_long_literal`, `lzsa2_long_literal`, `ref_lzsa2_literals`, `lz4_stream_legacy`, `ld65_group`, `ld65_fill` | violations, see findings | what it takes |

Each call of a decoder places its block and its text once at the start and once
at the end of a bank. Scripts have two to five commands, with lengths and
offsets

| format | literals | matches | offsets |
|---|---|---|---|
| LZ4 | 1, 14, 15, 16, 269, 270, 525 | 4, 18, 19, 20, 273, 274, 528 | 1, 2, 3 and the literals |
| LZSA1 | 1, 6, 7, 255, 256, 257, 511 | 3, 17, 18, 255..257, 511..513, 767 | 1, 2, and around 256 |
| LZSA2 | 1, 2, 3, 17, 18, 255 | 2, 8, 9, 23, 24, 255, 256, 300 | around 1, 32, 256, 512, 768, and 1024 (8705) |
| ZX0 | 1, 2, 3, 4, 16, 256 | 2, 3, 4, 5, 17, 255, 256 | 1, 2, 128, 129, 256, 257, 384, 385 (1920, 1921) |

TLC also evaluates `WellFormedCalls` on all of these calls
(`MCCallsAssumption`): what the theorems below ask of a block is true of each, so
that they are not about nothing, and `Encodes` says of a block no more than
`Block` does.

The bounds are enough in this sense: a decoder treats all lengths (offsets)
between two boundaries of the encoding alike, except for arithmetic that is
exact; every boundary has a value on either side; and commands only meet
through the state at the next token (carry, a nibble, the bit buffer, DB, the
port, the last offset), of which the pairs of commands cover the kinds. One word
of leftovers, 43691 = $AAAB, has a low and a high byte that are not 0, are not
each other and set the carry. What the bounds leave out: texts near 64 KB, ZX0
numbers of more than 9 bits after the first, three-byte LZSA lengths with a
non-trivial high byte.

The constants of lz4ultra are shrunk so that every limit is met: a match longer
than the cap, an offset too far, a run of literals that costs a byte more, a
match too near to the end, a block that does not fit. In the streams two bytes
of history and blocks of two or three make a block shorter than, as long as and
longer than the history; a buffer of five units may lose a small file with its
header, or the end of a larger one. Alignments are divided by primes up to
`LAST_PRIME` = 3, so that two sections aligned to 5 have a prime in common that
`LeastCommonMultiple` counts twice, as the code does above 251. Three names that
need one another cover every order in which a library can be searched too early;
two of the five are the constructor table's. Three segments cover one before,
one behind and one elsewhere.

### Properties

Decoders (`decompressors`; the marked ones also in `decompressors_small`)

- `TypeOK`: registers have their widths and the CPU is at a label.
- `CarryClearForLength`: `CopyLiteral` adds the length with the carry it is
  entered with; every way to it has cleared it.
- `InStepEverywhere`: a token is read exactly where a command starts, with the
  output of the earlier commands complete. This is the strongest of them: a
  length, offset, nibble or bit out of place breaks it at once.
- `OutputContiguous`: what is written is `[dst, y)`, at every step; the data
  port and the block move agree on where the next byte goes.
- `LoadsFromBlockBank`: block moves leave DB at the destination; everything
  else loads from the block's bank all the same.
- `MatchInsideOutput`: no match starts before the destination, although a
  repeated offset may be one nobody set.
- `PortInStep` (LZSA2): where short literals go through the data port without
  setting it, it is at Y.
- `MarkerShiftedOut`, `TypeBitThere`, `CarrySetAtDone` (ZX0): the buffer is
  filled exactly when it is used up; the type bit, which is taken without
  looking, is there; the length is made with a carry nobody set on purpose.
- `CallerRestored` (both), `ReturnsIn8Bit`: what the caller gets back.
- `Implements` (both): the detailed routine is a `Decompressor`.
- `Returns`: every call returns.

Block compressor (`lz4_shrink`)

- `LongestAndNearest`: whatever links were out of date, the match found is the
  longest in reach and the nearest of that length.
- `RoundTrip`: the commands written expand to the block, whatever was shortened,
  dropped or joined on the way.
- `NeverGrows`: what is written costs no more than the optimiser said it would,
  the last token apart.
- `EndsInLiterals`: no match, not even a joined one, ends where LZ4 wants
  literals.

Streams (`lz4_stream`)

- `RoundTrip`: what was compressed without an error, and has lost nothing when
  it was closed or since, decompresses to what it was without an error, unless a
  write of that fails.
- `OutputIsPrefix`: of a file that lost its end, what still comes out is right,
  and so is what is left of that after its own writes fail or its end is lost.
- `NothingMissing`: when `lz4ultra_compress_file` reports no error, all of the
  input was read and the file has a unit for every byte, a size for every block
  and the end mark, but for what was lost in `fclose`: at most `STDIO_BUFFER` of
  them, and only from the end. It does *not* say that the file is complete,
  which the code does not see to (see "Seen while modelling").

Linker (`ld65`)

- `CountersExact`: `impOpen` and `expCount` are what a count of the table gives,
  after every step.
- `NeededOnly`: a library module is linked only for a name that was missing.
- `SearchComplete`: a name is left undefined although a library defines it only
  when all who import it came after that library's last search.
- `LoadedOnce`: a module's sections are read at most once and only if it is
  referenced; the referenced ones that are missed are those behind a library
  that gave nothing in its group (finding 5).
- `CompleteLink`: when a file was written, no import is without a definition.
- `WeakGivesWay`: a weak symbol is used only where no module defines it.
- `OwnerKept`: a name bound stays bound.
- `InsideAndApart`: without an overflow segments are inside their areas and do
  not share addresses.
- `AlignedUnlessWarned`: sections run at a multiple of their alignment.
- `WrittenWherePlaced`: each byte of a section is in the file at the position
  its load address stands for. Not in areas where some segment only runs,
  overwrites but runs elsewhere, or has no data and is not filled (`IsImage`), nor
  where the passes do not agree on the size in the file (`Accounted`, finding 6),
  nor under a segment that overwrites (`Covered`).
- `Terminates`: libraries that need one another are searched only so often.

**Fairness.** `FairSpec` of the decoders is `Spec` and `WF_vars(Next)`: a step
that can be taken is taken. A CPU always executes its next instruction,
interrupts are off (`sei` in `boot.s`) and a DMA halts the CPU only while it
lasts. ld65 waits for nothing but the files it reads, so it too is
`WF_vars(Next)`. The compressors have no liveness property: each of their loops
counts up to a bound. At the end each model stutters (`Idle`, `Stop`, `Ended`),
so no state is a deadlock and deadlock is checked.

## Proofs

### The decoders on any data

`Lz4DecoderProofs`, `Lzsa1DecoderProofs`, `Lzsa2DecoderProofs` and
`Zx0DecoderProofs` prove, for *every* set of calls, every block of bytes
(compressed data or not), every placement and every build option:

- `TypeCorrect`: `Spec => []TypeOK`;
- `CallerRestoredAlways`: whatever the data, when the routine returns the stack,
  DB and DP are the caller's;
- `ReturnsIn8BitAlways` (LZ4: with RETLEN);
- `LoadsFromBlockBankAlways` (LZ4, LZSA1, LZSA2);
- `LengthReportedAlways` (LZ4, ZX0): X is the distance from the destination
  to Y;
- and of ZX0's bit buffer, on any stream: `MarkerShiftedOutAlways` (it is
  refilled exactly when it is used up), `TypeBitThereAlways` (a type bit taken
  without looking is there) and `CarrySetAtDoneAlways`.

`DecompressorsProofs` proves the same of the library, the specification the runs
check: for any words left in registers, each routine's invariant holds where it
is called, a step is one of the routine that was called, and so all of the above
holds of all four (`RoutineAssumption`: a call is to one of them).

So garbage in the ROM may make a routine write nonsense or not return, but not
return wrongly; and no call depends on the one before it in this respect. The
assumptions are `CallsAssumption` (blocks are sequences of bytes, addresses are
words, the destination is in WRAM), `RetlenAssumption` and
`LeftoversAssumption` (leftovers are words).

None of these is inductive. The stack at `Idle` is what it was because the stack
at `Done` has a certain shape, which is so because it has at every label.
`IInv` therefore says for each label what is on the stack (`StackShape`), which
width the accumulator has (`Width`), what the banks are (`Banks`), for LZ4 and
ZX0 what X is at the end (`Reported`), and for LZSA2 which of two tables a
length is looked up in (`Chosen`): its jump to the end of data comes out of a
length reader that has either one or two addresses below it, depending on that.
`InitInv` and `StepInv` (one case per action) show it inductive; each theorem
follows by PTL.

For ZX0 there is one part more, `Bits`. A byte gives the buffer 8 bits. A number
takes them in pairs, a control bit and a bit of the number, until a control bit
of its own ends it, so it starts with an even number of bits left and ends with
an odd one; the type bit after it makes that even again. A match length after an
offset starts in between: its first control bit is in the offset's low byte. So
whether the buffer holds an even or an odd number of bits is known at every
label, wherever it is kept (A, stack, `tmp`). `EvenBits` and `OddBits` say it by
the place of the end marker, which can only come out where the number is even;
that is where the code looks, and the three unrolled turns in front of the one
that does not look leave it exactly the marker.

`LzRoutineProofs` has the facts about arithmetic, ROM, DMA and block move that
this rests on (results are words, WRAM stays WRAM), and those about the shared
steps: the call, Setup, the block move and its exit, the frame.

### The decoders on what a compressor writes

The same modules prove of every call that is `WellFormed`, whatever its script,
its text and its place:

- `InStepAlways` (ZX0: `InStepBitsAlways`), `CarryClearAlways` (not ZX0),
  `OutputContiguousAlways`, `MatchInsideOutputAlways`, and for LZSA2
  `PortInStepAlways`;
- `ImplementsAlways`: the routine is a `Decompressor`.

`DecompressorsProofs` proves these of the library, with any words left in its
registers: `InStepEverywhereAlways`, `CarryClearForLengthAlways`,
`PortInStepAlways`, `OutputContiguousAlways`, `MatchInsideOutputAlways` and
`ImplementsAlways`. So every safety property of the run `decompressors` is a
theorem.

*The premise.* `WellFormed` is `Spelled` (the text is what the script expands
to; block and text lie in one bank each) and the format's `Encodes`, a statement
about the block alone. Beyond that it asks of LZSA1 that no run of literals has
512 bytes or more and of LZSA2 that none has 256 or more (`ShortLiterals`),
without which the theorems are false (findings 1 and 2), and of LZSA2 that its
tables can be read in the bank of the block (`CodeBanks`, see "Seen while
modelling"). Of LZ4 and ZX0 nothing more is asked. Literals are any bytes,
lengths and offsets any that the format can express.

*The invariant.* `Decoding` says of each label which command of the script the
routine is in and where: X is at that part of it, the registers have what has
been read of it (the token, the sum of a length so far, the offset), the carry
is what the next addition needs, the port is where it is relied on, and the
destination holds the text as far as the command says (`Made`) and nothing else.
`DecodingInit` and `DecodingStep` (a lemma per action) show it inductive
together with `IInv`; `DecodesInStep` is the theorem.

*Why this is no induction over the block.* The block is not taken as the value
of a recursive function. The call has the positions at which its commands start,
and `Encodes` relates each to the next one, so that the step from one command to
the next needs no more than that instance of it. A length that goes on (LZ4's
255s) is a fact about each of its bytes; a match that overlaps what it copies is
one about each byte and the one it repeats (`Copies`). That a DMA and a block
move take a destination that holds the text up to one position to one that holds
it up to another is shown once, in `LzRoutineProofs` (`LiteralRun`, `MatchRun`).

*LZSA2's nibbles.* The cursor says which byte has a nibble left, and `AtCursor`
that `nibrdy` is set exactly when there is one and `nibble` is that byte. A
length is looked up in one of two tables, read as data; what they give is
compared with the format's lengths.

*ZX0's bits.* Wherever the bit buffer is (A, stack, `tmp`), it is the byte of
the cursor with the bits taken shifted out and the end marker behind them
(`Buffer`). A number is read turn by turn; at turn k the register has its first
k bits (`value`) and the cursor is where the format's is (`past`). That the
buffer is refilled in time is `IInv`'s; that the byte it is refilled with is the
one the compressor put the bit into is what the cursor adds. A match length
after an offset starts with a control bit that is not in the buffer but in the
low part of the offset; its `past` begins behind that byte, in the bits where
they were.

*The refinement.* `PromisedStep`: under `IInv` and `Decoding` each step either
makes the destination a longer prefix of the text, or returns with all of it, or
changes nothing that `Decompressor` has. `Output` counts all of WRAM that has been
written, so this includes that nothing else was. For the library each of the four
is shown to have the same promise (`SameLz4` to `SameZx0`), as the definitions of
an instance are others for the prover.

### The streams

`Lz4StreamProofs` proves of lz4ultra, for every input, block size, size of the
history, dictionary and set of flags, whichever bytes are copied from the
history and whichever blocks are left uncompressed, and wherever a write fails,
the file is cut, or either file loses its end in `fclose` (`STDIO_BUFFER` is any
number),

- `RoundTripAlways`, `OutputIsPrefixAlways`, `NothingMissingAlways` and
- `StreamTypes` (`TypeOK`: no buffer holds more than its size).

All four follow from `StreamInv`. The hard part of it is what a reader of the
file may rely on, stated without reading it: `UnitsOK(f, n)` says for each of
the n blocks by themselves where it lies (`At`), how long its frame says it is,
and that each of its units is either the byte that belongs there or a copy from
a position, in the block or in reach in front of it, which holds that byte
(`UnitOK`). Nothing is defined by recursion over the file, so nothing needs an
induction over it: a byte that is copied is right because the byte it comes from
is an earlier one, and in a set of places that are wrong there would be a first
(`MinIsLeast`, `AllReached`, `BlockExpanded`). `Compressing` says of the buffer
at the start of a block that the bytes in front of it are those the copies will
be taken from (`InBufferOK`: the dictionary, or the end of the block before),
`Expanding` the same of the other direction (`OutBufferOK`), and that the
position in the file is where the next block begins. `Closed` says that a file
without an error is `Complete`, which gives the length of the file in terms of
what it has lost; losing an end, at `fclose` or later, leaves the rest
(`EndLost`). `NothingMissingAlways` is that length with `cut` bounded by the
buffer. What `lz4ultra_decompress_stream` writes, all of a block or, when the
write fails, some of it, lengthens a prefix (`OutputGrows`).

`StreamAssumption` has what the sizes are (a block is not empty, a dictionary
fits in the history, as `lz4ultra_dictionary_load` sees to, a raw block fits in
the buffer). The theorems assume `Expressible` on top:
in the legacy format no block is left uncompressed, and there is no dictionary.
Without the first the theorem is false, finding 4; without the second too, see
"Seen while modelling". Of the format that is the default nothing is assumed.

### The linker

`Ld65Proofs` proves for every command line with `LinkAssumption` (finitely many
names, all of them in `Names`; an object file has one module) what follows.

*The table.* `OwnerKeptAlways` comes from the table's operations alone: no claim
takes a name from its owner, and a count makes dummies of names without an entry
only. `NeededOnlyAlways` and `WeakGivesWayAlways` come from `TableInv`. A module
is needed because somebody imports its name; to know this at the next step one
has to know that every dummy has an import (`DummiesImported`), that what linked
modules export is in the table (`ExportsDefined`), and that the linker itself has
defined no weak symbol before the search is over (`LinkerWaits`). `PlacesOK` says
that the cursor is at a module that exists.

`CountersExactAlways` and `CompleteLinkAlways` come from `CounterInv`. The
operations change `impOpen` by what they find in the table, so a name that has
no entry must not have been counted (`OnlyEntriesCounted`), or the import that
makes its entry would be counted with older ones; and whatever is imported has an
entry (`ImportsEntered`), so that no open import is outside the count. `NoneOpen`
says that no file is opened unless the count is 0. The counts are sums over
finite sets. They are defined as the one function on the subsets that is 0 at the
empty set and grows by the value of an element (`Adds`, `SumOf`), so what is
needed of them follows without an induction over data: a set of subsets that
holds each set of which it holds the smaller ones holds all of them
(`AllSubsets`).

*Files and libraries.* `LoadedOnceAlways` and `SearchCompleteAlways` come from
`FilesInv`. Both speak of the state when all files are in; the invariant says
what they are made of, file by file: how the open libraries stand in the order of
the command line (`FilesOK`), where their group begins and ends (`GroupsOK`),
that there are only object files between two of them (`NextToEachOther`). `RestOK`
is the point of the first: a referenced module that is not loaded is still before
the cursor's way (`ToLoad`), or the removal of a library before it in the group
made the loop go past it (`PassedOver`), which is finding 5 and the only way a
module can be missed. For the second, `RoundOK` says what a round without an
addition has shown so far, and `SearchedOK` that a name left missing by a search
is imported by later files only.

*The addresses.* For every configuration with `PlaceAssumption` (a segment has
one description, with an alignment or an address but not both, and does not
overwrite without data; areas and segments are numbered; sizes are naturals):
`InsideAndApartAlways` and `AlignedUnlessWarnedAlways`. Both are about the linker
when it is done with all areas, so `PlaceInv` has a part for each stage. While
sections are read (`SectionsOK`): each lies at a multiple of its alignment in its
segment, and the segment's alignment is a multiple of that too, since the least
common multiple is taken each time. While addresses are given out (`PlacingOK`),
*as long as nothing has overflowed*: all segments walked past fit (`AllFit`), all
of them end at or before the address reached (`BehindAll`), and those not warned
about are aligned (`PCsAligned`). After an overflow none of this holds, as fixed
addresses are not heeded any more; the linker then goes on only to count. When
all is placed (`Placed`) the two properties follow. The arithmetic (what
`AlignAddr` returns, multiples of multiples, the minimum of a set of numbers) is
in lemmas of its own.

*The output file.* `WrittenWherePlacedAlways`, from `WriteInv`. CfgProcess and
BinWriteMem walk over areas and segments independently, each with its own
address, and the file is right only because they come to the same. Their common
ground is in three definitions that mention neither: `Laid` is the address of a
segment behind the one before it (`Reached`), `Taken` is what an area has taken
in the file up to one of its segments – the fill level in an area that comes out
as its image, the sum of its segments with the gaps before them in the others –
and `FileBefore` is where an area begins. Of the first pass `PlacingMore` says,
as long as nothing has overflowed, that addresses are as laid (`LaidOut`), fill
levels are the highest end (`LevelsOK`), and the size and the offsets in the
file are what has been taken (`SizesOK`). When the walk is over this is
`AllLaidOut`, and the second pass (`Writing`) starts again from nothing and has
written as much as `Taken` says too (`SizeAt(pos)`); so it finds the same
addresses and offsets (`SegmentThere`, `BeginsAtAddress`). `ImagesOK` then says
that each section of a segment already written is in the file at its address, or
under a segment that overwrites it and came later (`InFileAt`); to keep this, a
segment that does not overwrite must begin at or behind the end of the file
(`ImageGrows`), which is again that both count alike. `SectionsApart` says that
two sections do not lie on each other in their segment. The counts agree under
`AllAccounted` only, and the internal error is reached only without it (last
part of `WriteInv`); finding 6 is such a configuration. That `PlaceInv` and
`WriteInv` speak of the walk before an overflow loses nothing: with one, no file
is written.

*The types.* `LinkerTypes` is last, as a type of the linker is seldom only one:
that a position is inside the file, an address not below 0 or a counter not below
0 follows from what is known of each stage (`TypesInv` with `PlaceInv`,
`WriteInv` and `FilesInv`).

### Only model-checked

- That `Block(script)` of each format, which is defined by recursion over the
  script, satisfies `Encodes`: that is an induction over data. TLC evaluates it on
  every call of the runs.
- The block compressor (`LongestAndNearest`, `RoundTrip`, `NeverGrows`,
  `EndsInLiterals`) and the reference decoder with their types: what the interval
  tree and the optimiser compute is defined by recursion over the window.
- Liveness (`Returns`, `Terminates`) is beyond the prover.

## Findings

Each is a run that fails as the code is, with the line that says otherwise.

1. `lzsa1_long_literal`: after a literal run of 512 or more, `CopyLiteral` is
   entered with C = 1 (its comment says C=0) and all that follows, and the
   length, is one off.
2. `lzsa2_long_literal`: the same in LZSA2 from a run of 256 on.
3. `ref_lzsa2_literals`: the reference decoder makes the length of a match with
   the carry of destination + offset. In a block without a match the offset is
   the $AAAA it was assembled with, there is no carry for a low destination, the
   end of data is taken for a match of eight bytes, and these are written.
4. `lz4_stream_legacy`: in the legacy format a block that cannot be compressed
   makes `lz4ultra` write an error code's worth of stale bytes for a frame, and
   report success; the file cannot be decompressed.
5. `ld65_group`: a library that gives no module is taken out of the list of open
   libraries inside the loop over that list, and the next one in the group is
   never loaded, though its modules are bound to the imports.
6. `ld65_fill`: a segment that runs in a filled area and is loaded elsewhere
   takes up room in the file that was not counted, and the next area in the
   file is not where it was said to be.

Seen while modelling, without a run:

- with `LZ4_OPT_RETLEN = 0` `LZ4_Decompress` returns with a 16 bit accumulator,
  where its header says `Out (a8i16)`; this is why `ReturnsIn8Bit` is asked of
  the builds that return the length only;
- the tables of LZSA2 lie behind its code and are read through DB, the bank of
  the data. In a bank where the code is not seen, lengths are wrong
  (`CodeBanks`), while the README says that addresses can be set freely;
- a dictionary given with the legacy format is put in front of every block when
  compressing (`shrink_streaming.c:127` makes its blocks independent) and of the
  first one only when decompressing (`frame.c:227` sets no such flag);
- `lz4ultra_compress_file` and `lz4ultra_decompress_file` return the status
  they had before the output was closed (`shrink_streaming.c:84-89`,
  `expand_streaming.c:78-84`), and `lz4ultra_filestream_close` drops what
  `fclose` returns (`stream.c:45`). What stdio still held back is then lost on a
  full disk with `LZ4ULTRA_OK` returned, all of it if the file is small, where
  `shrink_streaming.c:56` says "@return LZ4ULTRA_OK for success, or an error
  value". The runs have this behaviour (`CloseFile`, `CloseOutput`), and the
  properties say what holds in spite of it;
- the decompressor does not report a file that was cut: a short frame or block
  ends the loop without an error, and no end mark is asked for;
- a stream of more than one block is refused in the raw format only after its
  first block has been written;
- `bin.c` seeks in the file for a segment that overwrites only where it runs in
  the area that is written. One that is loaded there and runs elsewhere, behind
  another that was sought to, is written where that one ended and not at its load
  address; this is why `IsImage` asks where it runs.

## Not modelled

- ca65, ar65, od65, the debug information library and the rest of cc65: the
  programs of this repository use a small part of them, and none keeps state
  across more than one pass except tables like the one modelled for ld65. Of
  ld65: the parsers of configurations and object files, the value of
  expressions, assertions, address sizes, the o65 and Atari formats, map, label
  and debug files. Sections are read here when all files are in, which nothing
  looks at before; `MAX_ALIGNMENT` is therefore reported later than in the code.
- Match finding and parsing of lzsa and salvador, the in-memory variants of the
  streams, the command lines of the compressors and their self tests. Any
  script of commands is a possible result of a parser, and the decoders are
  checked on scripts.
- `init.s`, `header.s`: straight-line initialisation and data. The state they
  leave (DP 0, DB $80, empty stack, M = 8) is where a call starts. `link.cfg`
  is an instance of the linker's configurations (`RomJobs`).
- The test scripts: sequential, around an emulator that is not in the repository.
- The build of the reference decoder that runs backwards, which no test uses.
- A block or a destination that crosses a bank, which the README excludes.

## Plan

1. (done) the four decoders with their formats, refinement of `Decompressor`,
   safety proofs of all four, alone and together.
2. (done) the reference LZSA2 decoder; lz4ultra's block compressor and streams;
   ld65 with proofs of the symbol table and of the addresses.
3. The match finders of lzsa and salvador, which report more than one match per
   position; the forward references of salvador's parser.
4. (done) each routine implements `Decompressor` on what a compressor writes,
   and so does the library.
5. (done) of the linker and the streams every safety property as a theorem.
6. The match finder's tree as functions instead of recursion, so that
   `EndsInLiterals` and `NeverGrows` can be proved; expressions and assertions of
   ld65.
