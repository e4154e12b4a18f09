------------------------------ MODULE Lz4Stream -----------------------------
(***************************************************************************)
(* A file compressed by lz4ultra, which may lose its end, and decompressed *)
(* by it, with the same dictionary and, if the block is raw, -r.  A write  *)
(* to either file may fail, or be found to have failed only when the file  *)
(* is closed, which nobody looks at.                                       *)
(***************************************************************************)
EXTENDS Lz4CompressStream, Lz4ExpandStream

CONSTANT FilesCut   \* whether they may

VARIABLES asked,    \* the flags the file was compressed with
          cut       \* how many units it has lost

vars == <<task, pc, status, compressor, file, expander, asked, cut>>

expanding == <<outPos, outEof, outBuffer, outMax, outPrev, outDict, outBlocks,
               output>>

Init == CompressInit /\ ExpandInit /\ asked = flags /\ cut = 0

(* What is lost of the end of a file. *)
Short(units, n) == SubSeq(units, 1, Len(units) - n)

FileLoses(most) ==
    \E n \in 0 .. Min({most, Len(file)}) : /\ cut' = cut + n
                                          /\ file' = Short(file, n)

(* lz4ultra_compress_file and lz4ultra_decompress_file close their output  *)
(* when the status is decided.  What fclose cannot write then is lost, and *)
(* its result is not looked at.                                            *)
Unwritten == IF WritesFail THEN STDIO_BUFFER ELSE 0

CloseFile ==
    /\ pc = "Closing"
    /\ FileLoses(Unwritten)
    /\ pc' = "Closed"
    /\ UNCHANGED <<task, status, compressor, expanding, asked>>

CloseOutput ==
    /\ pc = "Ended"
    /\ \E n \in 0 .. Min({Unwritten, Len(output)}) :
          output' = Short(output, n)
    /\ pc' = "OutputClosed"
    /\ UNCHANGED <<task, status, compressor, file, outPos, outEof, outBuffer,
                   outMax, outPrev, outDict, outBlocks, asked, cut>>

(* The file is kept only if it was compressed without an error. *)
Reopen ==
    /\ pc = "Closed" /\ status = "OK"
    /\ FileLoses(IF FilesCut THEN Len(file) ELSE 0)
    /\ flags' = flags \cap {RAW}
    /\ pc' = "ReadHeader"
    /\ UNCHANGED <<task, status, code, reading, sizes, frameData, expanding,
                   asked>>

Stop == /\ pc = "OutputClosed" \/ (pc = "Closed" /\ status # "OK")
        /\ UNCHANGED vars

Next ==
    \/ CompressNext /\ UNCHANGED <<expanding, asked, cut>>
    \/ CloseFile
    \/ Reopen
    \/ /\ ExpandNext
       /\ UNCHANGED <<code, reading, sizes, frameData, asked, cut>>
    \/ CloseOutput
    \/ Stop

Spec == Init /\ [][Next]_vars

-----------------------------------------------------------------------------
TypeOK ==
    /\ status \in {"OK", "ERROR_SRC", "ERROR_DST", "ERROR_FORMAT",
                   "ERROR_DECOMPRESSION", "ERROR_RAW_TOOLARGE",
                   "ERROR_RAW_UNCOMPRESSED"}
    /\ inPos \in 0 .. Len(data) /\ outPos \in 0 .. Len(file)
    /\ {prevSize, dictSize, outPrev, outDict} \subseteq 0 .. HISTORY_SIZE
    /\ {blockMax, outMax}
           \subseteq {0, LEGACY_BLOCK_SIZE}
                         \cup {BlockSize(c) : c \in MIN_CODE .. MAX_CODE}

(* A file that was compressed without an error and has lost nothing, when  *)
(* it was closed or since, decompresses to what it was made of, whichever  *)
(* bytes were copied from the history, wherever the blocks end, and        *)
(* whichever of them were not compressed; unless a write of that fails.    *)
RoundTrip ==
    pc = "Ended" /\ cut = 0 /\ status # "ERROR_DST" =>
        status = "OK" /\ output = data

(* Whatever is lost of a file, what it still gives is right, and so is     *)
(* what is left of that when it is closed.                                 *)
OutputIsPrefix ==
    pc \in {"Expand", "Ended", "OutputClosed"} => IsPrefix(output, data)

(* A unit for each byte, and for each block its size or, raw, what ends it *)
WholeSize ==
    Len(data) + Len(Footer)
        + IF RAW \in flags THEN 2 * numBlocks
          ELSE Len(Header(code)) + numBlocks

(* A write that is seen to come short is an error: if there was none, the  *)
(* file was given all blocks and the end mark.  All it can be without is   *)
(* the end that was still in the buffer when it was closed, because        *)
(* lz4ultra_filestream_close drops what fclose returns: then the status is *)
(* LZ4ULTRA_OK and a small file may have nothing in it.                    *)
NothingMissing ==
    pc = "Closed" /\ status = "OK" =>
        /\ inPos = Len(data)
        /\ Len(file) + cut = WholeSize
        /\ cut <= STDIO_BUFFER
        /\ cut = 0 /\ {RAW, LEGACY} \cap flags = {} => Last(file) = Footer[1]
=============================================================================
