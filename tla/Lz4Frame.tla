------------------------------ MODULE Lz4Frame ------------------------------
(***************************************************************************)
(* The files lz4ultra writes and reads (frame.c), as sequences of units:   *)
(* the magic number, the rest of the header, the size in front of a block, *)
(* and each byte of a block.  A byte of a compressed block is a literal or *)
(* the offset it is copied from: matches and tokens are Lz4Shrink's.       *)
(***************************************************************************)
EXTENDS Integers, Sequences, SequencesExt, FiniteSetsExt

CONSTANTS HISTORY_SIZE, MAX_OFFSET,
          BlockSize(_),       \* for the block size codes
          LEGACY_BLOCK_SIZE,  \* 1 << 23
          MIN_CODE, MAX_CODE, \* 4 and 7
          WritesFail,         \* whether they may, to a full disk
          STDIO_BUFFER        \* what stdio holds back of a file at most

VARIABLES data, dictionary,   \* what is compressed
          flags,
          pc, status,
          file                \* what it is compressed to

RAW    == "RAW_BLOCK"       \* the flags, LZ4ULTRA_FLAG_xxx
INDEP  == "INDEP_BLOCKS"
LEGACY == "LEGACY_FRAMES"

Unit(kind, value) == [kind |-> kind, value |-> value]

Literal(byte) == Unit("literal", byte)
Copy(offset)  == Unit("copy", offset)
Plain(byte)   == Unit("plain", byte)   \* of a block that is not compressed

Magic(legacy)  == Unit("magic", legacy)
Options(o)     == Unit("options", o)
Frame(f)       == Unit("frame", f)
Zero           == Unit("zero", 0)

(* lz4ultra_encode_header *)
Header(code) ==
    IF LEGACY \in flags THEN <<Magic(TRUE)>>
    ELSE <<Magic(FALSE), Options([indep |-> INDEP \in flags, code |-> code])>>

(* lz4ultra_encode_compressed_block_frame *)
CompressedFrame(size) == <<Frame([size |-> size, uncompressed |-> FALSE])>>

(* Slip: the uncompressed flag left out. *)
UncompressedFrameUnflagged(size, last) == CompressedFrame(size)

(* lz4ultra_encode_uncompressed_block_frame.  For legacy frames it returns *)
(* an error, which is positive: 7, and so many bytes are written of what   *)
(* the buffer held.                                                        *)
UncompressedFrame(size, last) ==
    IF LEGACY \in flags THEN <<last, Zero, Zero, Zero>>
    ELSE <<Frame([size |-> size, uncompressed |-> TRUE])>>

(* lz4ultra_encode_footer_frame *)
Footer ==
    IF {RAW, LEGACY} \cap flags # {} THEN <<>>
    ELSE <<Frame([size |-> 0, uncompressed |-> FALSE])>>

(* lz4ultra_decode_header *)
DecodedFlags(magic, options) ==
    IF magic.value THEN {LEGACY}
    ELSE IF options.value.indep THEN {INDEP} ELSE {}
=============================================================================
