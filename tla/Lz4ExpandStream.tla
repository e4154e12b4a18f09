-------------------------- MODULE Lz4ExpandStream ---------------------------
(***************************************************************************)
(* lz4ultra_decompress_stream, of a file that may have been cut short.     *)
(***************************************************************************)
EXTENDS Lz4Frame

VARIABLES outPos, outEof,   \* the stream that is read
          outBuffer,        \* pOutData from HISTORY_SIZE on
          outMax, outPrev, outDict, outBlocks,
          output            \* the stream that is written

expander == <<flags, outPos, outEof, outBuffer, outMax, outPrev, outDict,
              outBlocks, output>>

Left == Len(file) - outPos

EndWith(result) == /\ pc' = "Ended"
                   /\ status' = result

(* Not raw: the magic number and, unless it is the legacy one, the options.*)
HeaderLacking == Left < IF file # <<>> /\ file[1].value THEN 1 ELSE 2

ReadHeader ==
    /\ pc = "ReadHeader"
    /\ \/ /\ RAW \notin flags /\ HeaderLacking
          /\ EndWith("ERROR_SRC")
          /\ UNCHANGED <<flags, outPos, outMax, outBuffer>>
       \/ /\ RAW \in flags
          /\ outMax' = BlockSize(MAX_CODE)
          /\ pc' = "Expand"
          /\ outBuffer' = [p \in -HISTORY_SIZE .. outMax' - 1 |-> 0]
          /\ UNCHANGED <<flags, status, outPos>>
       \/ /\ RAW \notin flags /\ ~HeaderLacking
          /\ flags' = DecodedFlags(file[1], file[2])
          /\ outPos' = IF LEGACY \in flags' THEN 1 ELSE 2
          /\ outMax' = IF LEGACY \in flags' THEN LEGACY_BLOCK_SIZE
                       ELSE BlockSize(file[2].value.code)
          /\ outBuffer' = [p \in -HISTORY_SIZE .. outMax' - 1 |-> 0]
          /\ pc' = "Expand"
          /\ UNCHANGED status
    /\ UNCHANGED <<data, dictionary, file, outEof, outPrev, outDict,
                   outBlocks, output>>

-----------------------------------------------------------------------------
OutHistory ==
    IF outPrev > 0 THEN [p \in -outPrev .. -1 |-> outBuffer[outMax + p]]
    ELSE [p \in -outDict .. -1 |-> dictionary[outDict + p + 1]]

WithOutHistory == [p \in DOMAIN outBuffer |->
                      IF p \in DOMAIN OutHistory THEN OutHistory[p]
                      ELSE outBuffer[p]]

HistorySize == IF outPrev > 0 THEN outPrev ELSE outDict

(* The dictionary is used up unless blocks are independent. *)
DictAfter == IF outPrev = 0 /\ INDEP \notin flags THEN 0 ELSE outDict

(* lz4ultra_decompressor_expand_block; what a byte that is not of a        *)
(* compressed block would mean is left open.                               *)
Step(buf, p, unit) ==
    [buf EXCEPT ![p] = IF unit.kind = "copy" THEN buf[p - unit.value]
                       ELSE unit.value]

Expanded(payload) ==
    LET after[k \in 0 .. Len(payload)] ==
            IF k = 0 THEN WithOutHistory
            ELSE Step(after[k - 1], k - 1, payload[k])
    IN  after[Len(payload)]

Expandable(payload) ==
    /\ \A k \in DOMAIN payload : payload[k].kind \in {"literal", "copy"}
    /\ Len(payload) <= outMax

Contents(payload, uncompressed) ==
    IF uncompressed
    THEN [p \in DOMAIN outBuffer |->
             IF p >= 0 /\ p < Len(payload) THEN payload[p + 1].value
             ELSE WithOutHistory[p]]
    ELSE Expanded(payload)

(* Slip: a block before an independent one taken for its history. *)
OutKeptAlways(n) == Min({n, HISTORY_SIZE})

(* How much of a block is history for the next. *)
OutKept(n) == IF INDEP \in flags THEN 0 ELSE Min({n, HISTORY_SIZE})

(* All of the bytes are written, or the write is seen to fail.             *)
Emitted(bytes) == /\ output' = output \o bytes
                  /\ UNCHANGED <<pc, status>>

EmitFails(bytes) ==
    /\ WritesFail
    /\ \E n \in 0 .. Len(bytes) - 1 : output' = output \o SubSeq(bytes, 1, n)
    /\ EndWith("ERROR_DST")

Emit(payload, uncompressed) ==
    LET buf   == Contents(payload, uncompressed)
        n     == Len(payload)
        bytes == [k \in 1 .. n |-> buf[k - 1]]
    IN  /\ outBuffer' = buf
        /\ outPrev' = IF n = 0 THEN HistorySize ELSE OutKept(n)
        /\ outBlocks' = outBlocks + 1
        /\ Emitted(bytes) \/ EmitFails(bytes)

(* A block that is cut short is not expanded, and ends without an error.   *)
EndOfBlocks == /\ EndWith("OK")
               /\ UNCHANGED <<outBuffer, output, outPrev, outBlocks>>

FormatError == /\ EndWith("ERROR_FORMAT")
               /\ UNCHANGED <<outBuffer, output, outPrev, outBlocks>>

ExpandPayload(units, uncompressed) ==
    IF uncompressed \/ Expandable(units) THEN Emit(units, uncompressed)
    ELSE /\ EndWith("ERROR_DECOMPRESSION")
         /\ UNCHANGED <<outBuffer, output, outPrev, outBlocks>>

ExpandFrame ==
    /\ RAW \notin flags
    /\ IF Left = 0 \/ file[outPos + 1].kind # "frame"
       THEN IF Left = 0 THEN outPos' = outPos /\ outEof' = TRUE /\ EndOfBlocks
            ELSE outPos' = outPos + 1 /\ outEof' = FALSE /\ FormatError
       ELSE LET frame == file[outPos + 1].value
                got   == Min({frame.size, Left - 1})
            IN  /\ outPos' = outPos + 1 + got
                /\ outEof' = (got < frame.size)
                /\ IF frame.size > outMax THEN FormatError
                   ELSE IF frame.size = 0 \/ got < frame.size
                   THEN EndOfBlocks
                   ELSE ExpandPayload(SubSeq(file, outPos + 2,
                                             outPos + 1 + got),
                                      frame.uncompressed)

(* All that is left but the last two bytes, once.  A compressed block has  *)
(* room for them within outMax; here each of its bytes takes a unit, so    *)
(* that they come on top.                                                  *)
ExpandRaw ==
    LET most == outMax + 2
        got  == Min({most, Left})
    IN  /\ RAW \in flags
        /\ IF outBlocks > 0 THEN UNCHANGED <<outPos, outEof>> /\ EndOfBlocks
           ELSE /\ outPos' = outPos + got
                /\ outEof' = (got < most)
                /\ ExpandPayload(SubSeq(file, outPos + 1,
                                        outPos + Max({got - 2, 0})), FALSE)

Expand ==
    /\ pc = "Expand"
    /\ ~outEof
    /\ ExpandFrame \/ ExpandRaw
    /\ outDict' = DictAfter
    /\ UNCHANGED <<data, dictionary, flags, file, outMax>>

Finish ==
    /\ pc = "Expand"
    /\ outEof
    /\ EndWith("OK")
    /\ UNCHANGED <<data, dictionary, file, expander>>

ExpandInit ==
    /\ outPos = 0 /\ outEof = FALSE /\ outBuffer = <<>>
    /\ outMax = 0 /\ outPrev = 0 /\ outDict = Len(dictionary)
    /\ outBlocks = 0 /\ output = <<>>

ExpandNext == ReadHeader \/ Expand \/ Finish
=============================================================================
