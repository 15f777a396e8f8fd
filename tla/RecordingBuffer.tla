--------------------------- MODULE RecordingBuffer ---------------------------
(***************************************************************************)
(* Buffer / RecordingBuffer (src/ddprof-lib/src/main/cpp/buffers.h): a    *)
(* byte array with one cursor _offset, filled by put* and drained by      *)
(* flushIfNeeded, which hands _data[0.._offset) to a sink callback and    *)
(* resets the cursor only if the callback reports the whole length.       *)
(*                                                                         *)
(* The bytes themselves are abstracted to their positions in the stream  *)
(* of everything ever put: the buffer holds stream bytes                  *)
(* [base, base + offset), and the sink's output is the sequence of        *)
(* stream ranges it has been handed and has consumed.  The writer that    *)
(* drives the buffer (a recording thread holding its shard lock) is not   *)
(* in the repository; it follows spec 4.3: write a record, then           *)
(* flushIfNeeded; at the end flush everything, retrying while sink calls  *)
(* are left.  The bound on put* is only an assert, so offset is not       *)
(* capped here: with a failing sink it grows past Capacity.               *)
(***************************************************************************)
EXTENDS Integers, Sequences

LOCAL INSTANCE SequencesExt

CONSTANTS
    Capacity,       \* limit(): the bytes _data can hold
    FlushLimit,     \* the limit argument of flushIfNeeded (BUFFER_LIMIT, ...)
    RecordSizes,    \* sizes of the records the writer puts
    SinkShort,      \* the sink may consume fewer bytes than offered, or fail
    MaxRecords,     \* records the writer puts (bounds the run)
    MaxSinkCalls    \* calls of the sink (bounds retries)

ASSUME /\ FlushLimit \in Nat /\ Capacity \in Nat /\ FlushLimit < Capacity
       /\ RecordSizes \subseteq Nat \ {0}
       /\ SinkShort \in BOOLEAN /\ MaxRecords \in Nat /\ MaxSinkCalls \in Nat

VARIABLES
    offset,     \* _offset
    base,       \* stream position of _data[0]
    records,    \* records put so far
    pc,         \* the writer: "put", "flush", "final" or "done"
    sent,       \* the sink's output: consumed stream ranges <<from, to>>
    sinkCalls   \* calls of the sink so far

vars == <<offset, base, records, pc, sent, sinkCalls>>

Init ==
    /\ offset = 0 /\ base = 0 /\ records = 0
    /\ pc = "put" /\ sent = <<>> /\ sinkCalls = 0

\* what the FlushCallback may return for len offered bytes: ssize_t, the
\* bytes it consumed, or -1
SinkResults(len) ==
    {len} \cup (IF SinkShort THEN {-1} \cup 0..(len - 1) ELSE {})

\* Fault-injected variant: any write that consumed something counts as
\* complete (callback(...) > 0 instead of == _offset).
DeliverResetOnWrite(n) ==
    /\ sent' = IF n > 0 THEN Append(sent, <<base, base + n>>) ELSE sent
    /\ sinkCalls' = sinkCalls + 1
    /\ IF n > 0 THEN offset' = 0 /\ base' = base + offset
             ELSE UNCHANGED <<offset, base>>

\* if (callback(_data, _offset) == _offset) { reset(); return true; }:
\* the sink keeps the n bytes it consumed either way
Deliver(n) ==
    /\ sent' = IF n > 0 THEN Append(sent, <<base, base + n>>) ELSE sent
    /\ sinkCalls' = sinkCalls + 1
    /\ IF n = offset THEN offset' = 0 /\ base' = base + offset
                     ELSE UNCHANGED <<offset, base>>

\* put(v, len), put8 .. put64, putVar32/64, putUtf8: copy the record at
\* _offset and advance it; the bound is only assert(_offset + len < limit())
Put ==
    /\ pc = "put" /\ records < MaxRecords
    /\ \E s \in RecordSizes : offset' = offset + s
    /\ records' = records + 1
    /\ pc' = "flush"
    /\ UNCHANGED <<base, sent, sinkCalls>>

\* flushIfNeeded(callback, limit): only when _offset > limit
FlushIfNeeded(limit) ==
    IF offset > limit /\ sinkCalls < MaxSinkCalls
    THEN \E n \in SinkResults(offset) : Deliver(n)
    ELSE UNCHANGED <<offset, base, sent, sinkCalls>>

\* the writer flushes after each record
Flush ==
    /\ pc = "flush"
    /\ FlushIfNeeded(FlushLimit)
    /\ pc' = IF records < MaxRecords THEN "put" ELSE "final"
    /\ UNCHANGED records

\* at the end the writer flushes with limit 0 until the buffer is empty
Final ==
    /\ pc = "final"
    /\ offset = 0 \/ sinkCalls < MaxSinkCalls
    /\ FlushIfNeeded(0)
    /\ pc' = IF offset' = 0 THEN "done" ELSE "final"
    /\ UNCHANGED records

Next == Put \/ Flush \/ Final

Spec == Init /\ [][Next]_vars

(***************************************************************************)
(* Properties.                                                            *)
(***************************************************************************)

\* the stream positions the sink has consumed
Consumed == UNION {r[1]..(r[2] - 1) : r \in Range(sent)}

\* No byte put is lost, however the sink fails: a short write or -1
\* leaves _offset as it was, so every position of the stream is either
\* consumed by the sink or still in _data, and every position before the
\* buffer's start has been consumed; flushIfNeeded may drop the buffer
\* only after the sink has taken all of it.
NoByteLost ==
    /\ 0..(base - 1) \subseteq Consumed
    /\ Consumed \cup base..(base + offset - 1) = 0..(base + offset - 1)

=============================================================================
