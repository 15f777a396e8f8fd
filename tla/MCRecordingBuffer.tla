------------------------- MODULE MCRecordingBuffer -------------------------
(***************************************************************************)
(* Model-checking instance of RecordingBuffer, scaled down.  In the code  *)
(* RecordingBuffer::limit() is 65536 - sizeof(Buffer) = 64504 bytes on   *)
(* LP64 and the flush limit RECORDING_BUFFER_LIMIT is 61440, leaving     *)
(* 3064 bytes of headroom; here the headroom is 3 bytes.                  *)
(***************************************************************************)
EXTENDS RecordingBuffer

MCCapacity == 10
MCFlushLimit == 7

=============================================================================
