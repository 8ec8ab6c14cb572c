--------------------------- MODULE ScannerIpcRead ---------------------------
(***************************************************************************)
(* readScannerIpcFrame: one framed result read from the scanner's output,  *)
(* which arrives in chunks of any size.  The output is arbitrary bytes; of *)
(* the header the reader sees whether the magic is there and which length  *)
(* it declares, of all other bytes their position in the stream.           *)
(***************************************************************************)
EXTENDS Integers

CONSTANTS
  HeaderBytes,  \* SCANNER_IPC_HEADER_BYTES
  Lengths,      \* lengths a header may declare
  MaxPayload,   \* max_payload_bytes of the run
  MaxChunks,    \* SCANNER_IPC_MAX_CHUNKS
  MaxStream     \* bound: how many bytes the scanner writes

ASSUME IpcAssumption ==
  /\ HeaderBytes \in Nat \ {0} /\ Lengths \subseteq Nat
  /\ MaxPayload \in Nat \ {0} /\ MaxChunks \in Nat /\ MaxStream \in Nat

VARIABLES
  stream,        \* what the scanner writes before it closes its output
  sent,          \* how much of it has arrived
  headerOffset,
  length,        \* the size of the payload buffer; 0 for null
  payload,       \* which byte of the stream each filled byte of the buffer is
  payloadOffset,
  chunks,
  judgement

readVars == <<stream, sent, headerOffset, length, payload, payloadOffset, chunks, judgement>>

Streams == [magic : BOOLEAN, declared : Lengths, size : 0..MaxStream]
Decided == {"OK", "INVALID_FRAME", "OUTPUT_TOO_LARGE"}
Interruptions == {"ABORTED", "TIMEOUT", "STREAM_ERROR"}
Judgements == {"NONE", "TOO_FRAGMENTED"} \cup Decided \cup Interruptions
-----------------------------------------------------------------------------
Least(m, n) == IF m <= n THEN m ELSE n

\* What a complete header is refused for.
HeaderVerdict ==
  IF ~stream.magic \/ stream.declared = 0 THEN "INVALID_FRAME"
  ELSE IF stream.declared > MaxPayload THEN "OUTPUT_TOO_LARGE"
  ELSE "NONE"

\* One chunk too many, whatever is in it.
TooFragmented ==
  /\ chunks + 1 > MaxChunks
  /\ chunks' = chunks + 1 /\ judgement' = "TOO_FRAGMENTED"
  /\ UNCHANGED <<stream, sent, headerOffset, length, payload, payloadOffset>>

\* The chunk belongs to the header, which may stay incomplete or be refused.
HeaderOf(n) == Least(HeaderBytes - headerOffset, n)
HeaderRefused(n) ==
  headerOffset < HeaderBytes /\ headerOffset + n >= HeaderBytes /\ HeaderVerdict # "NONE"

\* The size of the payload buffer once the header's part of the chunk is taken.
LengthAfter(n) ==
  IF headerOffset < HeaderBytes /\ headerOffset + n >= HeaderBytes
  THEN stream.declared ELSE length

PayloadOf(n) == Least(LengthAfter(n) - payloadOffset, n - HeaderOf(n))

Filled_fromChunkStart(n) ==
  [i \in 1..(payloadOffset + PayloadOf(n)) |->
     IF i <= payloadOffset THEN payload[i] ELSE sent + i - payloadOffset]

\* The buffer after the chunk is copied behind what it holds.
Filled(n) ==
  [i \in 1..(payloadOffset + PayloadOf(n)) |->
     IF i <= payloadOffset THEN payload[i]
     ELSE sent + HeaderOf(n) + i - payloadOffset]

Trailing(n) == HeaderOf(n) + PayloadOf(n) # n

\* A chunk of n bytes, the last of which may complete the header, fill the buffer
\* or lie behind the frame.
Chunk(n) ==
  /\ chunks + 1 <= MaxChunks
  /\ sent' = sent + n
  /\ chunks' = chunks + 1
  /\ headerOffset' = headerOffset + HeaderOf(n)
  /\ \/ /\ HeaderRefused(n)
        /\ judgement' = HeaderVerdict
        /\ UNCHANGED <<length, payload, payloadOffset>>
     \/ /\ ~HeaderRefused(n)
        /\ length' = LengthAfter(n)
        /\ payload' = Filled(n)
        /\ payloadOffset' = payloadOffset + PayloadOf(n)
        /\ judgement' = IF Trailing(n) THEN "INVALID_FRAME" ELSE "NONE"
  /\ UNCHANGED stream

Complete == length # 0 /\ payloadOffset = length

\* The output is closed.
Done ==
  /\ sent = stream.size
  /\ judgement' = IF Complete THEN "OK" ELSE "INVALID_FRAME"
  /\ UNCHANGED <<stream, sent, headerOffset, length, payload, payloadOffset, chunks>>

\* The run is aborted, its deadline passes or the stream fails before the next chunk.
Interrupted ==
  /\ judgement' \in Interruptions
  /\ UNCHANGED <<stream, sent, headerOffset, length, payload, payloadOffset, chunks>>

ReadInit ==
  /\ stream \in Streams
  /\ sent = 0 /\ headerOffset = 0 /\ length = 0
  /\ payload = [i \in 1..0 |-> 0] /\ payloadOffset = 0
  /\ chunks = 0 /\ judgement = "NONE"

\* nextWithDeadline: what the reader waits for, chunk after chunk.
ReadNext ==
  /\ judgement = "NONE"
  /\ \/ \E n \in 0..(stream.size - sent) : Chunk(n)
     \/ TooFragmented
     \/ Done
     \/ Interrupted

ReadSpec == ReadInit /\ [][ReadNext]_readVars
-----------------------------------------------------------------------------
ReadTypeOK ==
  /\ stream \in Streams /\ sent \in 0..stream.size
  /\ headerOffset \in 0..HeaderBytes /\ length \in 0..MaxPayload
  /\ payloadOffset \in 0..length /\ payload \in [1..payloadOffset -> 1..stream.size]
  /\ chunks \in 0..(MaxChunks + 1) /\ judgement \in Judgements

\* What the whole stream deserves.
Deserved ==
  IF stream.size < HeaderBytes \/ ~stream.magic \/ stream.declared = 0 THEN "INVALID_FRAME"
  ELSE IF stream.declared > MaxPayload THEN "OUTPUT_TOO_LARGE"
  ELSE IF stream.size # HeaderBytes + stream.declared THEN "INVALID_FRAME"
  ELSE "OK"

\* The reader's judgement of the output depends on its bytes and not on how they were
\* cut into chunks, and what it accepts is the payload byte by byte.
ReadsTheStream ==
  /\ judgement \in Decided => judgement = Deserved
  /\ judgement = "OK" => payload = [i \in 1..stream.declared |-> HeaderBytes + i]
=============================================================================
