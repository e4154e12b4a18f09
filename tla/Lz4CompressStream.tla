------------------------- MODULE Lz4CompressStream --------------------------
(***************************************************************************)
(* lz4ultra_compress_stream: blocks are read into a buffer behind what the *)
(* block before, or the dictionary, left there as history.                 *)
(***************************************************************************)
EXTENDS Lz4Frame

CONSTANTS Datas, Dictionaries, FlagSets, Codes,
          RAW_MAX,             \* 0x400000
          SomeUncompressible   \* whether a block may be

(* A dictionary is loaded up to the size of the history, and what is only  *)
(* one block fits in the largest one.                                      *)
ASSUME StreamAssumption ==
  /\ HISTORY_SIZE \in Nat /\ LEGACY_BLOCK_SIZE \in Nat \ {0}
  /\ MIN_CODE \in Nat /\ MAX_CODE \in Nat /\ MIN_CODE <= MAX_CODE
  /\ Codes \subseteq MIN_CODE .. MAX_CODE
  /\ \A c \in MIN_CODE .. MAX_CODE : BlockSize(c) \in Nat \ {0}
  /\ MAX_OFFSET \in Nat /\ STDIO_BUFFER \in Nat
  /\ RAW_MAX \in Nat /\ RAW_MAX <= BlockSize(MAX_CODE)
  /\ \A d \in Datas : d \in Seq(Nat)
  /\ \A d \in Dictionaries : d \in Seq(Nat) /\ Len(d) <= HISTORY_SIZE

VARIABLES code,                 \* nBlockMaxCode
          inPos, inEof,         \* the stream that is read
          buffer,               \* pInData from HISTORY_SIZE on
          blockMax, preloaded, prevSize, dictSize, numBlocks,
          frameData

task    == <<data, dictionary>>
reading == <<inPos, inEof, buffer>>
sizes   == <<blockMax, preloaded, prevSize, dictSize, numBlocks>>
compressor == <<flags, code, reading, sizes, frameData>>

Blank == 0   \* the buffer is cleared

(* What is read when n bytes are asked for. *)
ReadTo(n) == Min({inPos + n, Len(data)})
IsShort(n) == inPos + n > Len(data)

Loaded(buf, n) ==
    [p \in DOMAIN buf |-> IF p >= 0 /\ p < ReadTo(n) - inPos
                          THEN data[inPos + p + 1] ELSE buf[p]]

(* What fwrite takes is held back in part until the file is closed; here   *)
(* it is in the file.  It takes all of the units, or returns that it took  *)
(* only some.                                                              *)
Written(units) == /\ file' = file \o units
                  /\ UNCHANGED status

(* Slip: the count that fwrite returns not compared.                       *)
WriteFailsUnseen(units) ==
    /\ WritesFail
    /\ \E n \in 0 .. Len(units) - 1 : file' = file \o SubSeq(units, 1, n)
    /\ UNCHANGED status

WriteFails(units) ==
    /\ WritesFail
    /\ \E n \in 0 .. Len(units) - 1 : file' = file \o SubSeq(units, 1, n)
    /\ status' = "ERROR_DST"

Write(units) == Written(units) \/ WriteFails(units)

(* The smallest block size the data is less than. *)
Reduced(c, size) ==
    Min({b \in MIN_CODE .. c : \A d \in b .. c - 1 : BlockSize(d) > size})

Open ==
    LET full  == IF LEGACY \in flags THEN LEGACY_BLOCK_SIZE
                 ELSE BlockSize(code)
        size  == ReadTo(full)
        small == IF size < full /\ LEGACY \notin flags
                 THEN Reduced(code, size) ELSE code
    IN  /\ pc = "Open"
        /\ flags' = IF LEGACY \in flags THEN flags \cup {INDEP} ELSE flags
        /\ buffer' = Loaded([p \in -HISTORY_SIZE .. full - 1 |-> Blank], full)
        /\ preloaded' = size
        /\ inPos' = size
        /\ inEof' = IsShort(full)
        /\ code' = small
        /\ blockMax' = IF LEGACY \in flags THEN full ELSE BlockSize(small)
        /\ IF RAW \in flags
           THEN UNCHANGED <<file, status, frameData>>
           ELSE /\ Write(Header(small))
                /\ frameData' = Last(Header(small))
        /\ pc' = "Blocks"
        /\ UNCHANGED <<task, prevSize, dictSize, numBlocks>>

-----------------------------------------------------------------------------
More == (preloaded > 0 \/ ~inEof) /\ status = "OK"

(* The bytes of history in front of the block. *)
History == IF prevSize > 0 THEN prevSize ELSE dictSize

WithHistory ==
    [p \in DOMAIN buffer |->
        IF p \in -History .. -1
        THEN IF prevSize > 0 THEN buffer[blockMax + p]
             ELSE dictionary[dictSize + p + 1]
        ELSE buffer[p]]

(* The end of the input is found when the block before was a full one. *)
NothingRead ==
    /\ pc = "Blocks" /\ More
    /\ preloaded = 0 /\ inPos = Len(data)
    /\ buffer' = WithHistory
    /\ prevSize' = History
    /\ inEof' = TRUE
    /\ UNCHANGED <<task, flags, code, pc, status, inPos, blockMax, preloaded,
                   dictSize, numBlocks, frameData, file>>

(* What lz4ultra_compressor_shrink_block may make of n bytes.  *)
Encodings(buf, n) ==
    {e \in [0 .. n - 1 -> 0 .. MAX_OFFSET] :
        \A p \in 0 .. n - 1 :
            e[p] > 0 => p - e[p] >= -History /\ buf[p - e[p]] = buf[p]}

Encoded(buf, e, n) ==
    [k \in 1 .. n |-> IF e[k - 1] = 0 THEN Literal(buf[k - 1])
                      ELSE Copy(e[k - 1])]

WriteCompressed(buf, n) ==
    \E e \in Encodings(buf, n) :
        LET payload == Encoded(buf, e, n)
        IN  IF RAW \in flags
            THEN Write(payload \o <<Zero, Zero>>) /\ UNCHANGED frameData
            ELSE /\ Write(CompressedFrame(n) \o payload)
                 /\ frameData' = Last(CompressedFrame(n))

WriteUncompressed(buf, n) ==
    LET frame == UncompressedFrame(n, frameData)
        plain == [k \in 1 .. n |-> Plain(buf[k - 1])]
    IN  /\ Write(frame \o plain)
        /\ frameData' = frame[1]

(* Slip: not held to the room there is in front of a block. *)
KeptWhole(size) == IF INDEP \in flags THEN 0 ELSE size

(* How much of a block is history for the next. *)
Kept(size) == IF INDEP \in flags THEN 0 ELSE Min({size, HISTORY_SIZE})

NoRaw(error) == /\ status' = error
                /\ UNCHANGED <<prevSize, numBlocks, frameData, file>>

Block ==
    LET size == IF preloaded > 0 THEN preloaded ELSE ReadTo(blockMax) - inPos
        buf  == IF preloaded > 0 THEN WithHistory
                ELSE [p \in DOMAIN buffer |->
                         IF p < 0 THEN WithHistory[p]
                         ELSE Loaded(buffer, blockMax)[p]]
    IN  /\ pc = "Blocks" /\ More
        /\ size > 0
        /\ buffer' = buf
        /\ preloaded' = 0
        /\ inPos' = IF preloaded > 0 THEN inPos ELSE inPos + size
        /\ inEof' = IF preloaded > 0 THEN inEof ELSE IsShort(blockMax)
        /\ \/ /\ RAW \in flags /\ (numBlocks > 0 \/ size > RAW_MAX)
              /\ NoRaw("ERROR_RAW_TOOLARGE")
              /\ UNCHANGED dictSize
           \/ /\ ~(RAW \in flags /\ (numBlocks > 0 \/ size > RAW_MAX))
              /\ dictSize' = IF INDEP \in flags THEN dictSize ELSE 0
              /\ \/ /\ SomeUncompressible /\ RAW \in flags
                    /\ NoRaw("ERROR_RAW_UNCOMPRESSED")
                 \/ /\ \/ WriteCompressed(buf, size)
                       \/ /\ SomeUncompressible /\ RAW \notin flags
                          /\ WriteUncompressed(buf, size)
                    /\ prevSize' = Kept(size)
                    /\ numBlocks' = numBlocks + 1
        /\ UNCHANGED <<task, flags, code, pc, blockMax>>

Close ==
    /\ pc = "Blocks"
    /\ ~More
    /\ IF status = "OK" THEN Write(Footer)
       ELSE UNCHANGED <<file, status>>
    /\ pc' = "Closing"
    /\ UNCHANGED <<task, compressor>>

CompressInit ==
    /\ data \in Datas /\ dictionary \in Dictionaries
    /\ flags \in FlagSets /\ code \in Codes
    /\ pc = "Open" /\ status = "OK"
    /\ inPos = 0 /\ inEof = FALSE /\ buffer = <<>>
    /\ blockMax = 0 /\ preloaded = 0 /\ prevSize = 0
    /\ dictSize = Len(dictionary) /\ numBlocks = 0
    /\ frameData = Zero
    /\ file = <<>>

CompressNext == Open \/ NothingRead \/ Block \/ Close
=============================================================================
