------------------------------- MODULE MessageCodec -------------------------------
(***************************************************************************)
(* The framing of discovery messages on a substream: MessageWriter puts a   *)
(* header with the size before each message and writes its buffer as far as *)
(* the stream takes it, MessageReader collects exactly the bytes it wants   *)
(* for the header and then for the data.  The stream (a library) holds at   *)
(* most CAPACITY bytes and wakes a task whose poll returned Pending from it.*)
(*                                                                           *)
(* A message is its size in bytes; each byte names the message it belongs   *)
(* to, so that a byte read into the wrong frame is seen.                     *)
(***************************************************************************)
EXTENDS Integers, FiniteSets, FiniteSetsExt, Sequences, SequencesExt

CONSTANTS
    HEADER_SIZE,       \* bytes of a header
    MAX_MESSAGE_SIZE,  \* largest size a reader accepts
    CAPACITY,          \* bytes the stream holds
    Sizes,             \* sizes of the messages that are sent
    MAX_SENT           \* messages that are sent

VARIABLES writer, stream, reader, sent, received

vars == <<writer, stream, reader, sent, received>>

HeaderBytes(i, size) == [k \in 1 .. HEADER_SIZE |-> [of |-> i, part |-> "header", at |-> k, size |-> size]]

DataBytes(i, size) == [k \in 1 .. size |-> [of |-> i, part |-> "data", at |-> k, size |-> size]]

NewReader == [state |-> "Head", size |-> 0, buffer |-> <<>>, result |-> "none", waits |-> FALSE]

Init ==
    /\ writer = [buffer |-> <<>>, awake |-> TRUE, waits |-> FALSE, closed |-> FALSE]
    /\ stream = <<>>
    /\ reader = NewReader
    /\ sent = <<>>
    /\ received = <<>>

(* start_send, after poll_ready was Ready: the buffer is empty.              *)
start_send(size) ==
    /\ Len(sent) < MAX_SENT
    /\ writer.buffer = <<>> /\ ~writer.closed
    /\ writer' = [writer EXCEPT !.buffer = HeaderBytes(Len(sent) + 1, size) \o DataBytes(Len(sent) + 1, size),
                                !.awake = TRUE]
    /\ sent' = Append(sent, size)
    /\ UNCHANGED <<stream, reader, received>>

Space == CAPACITY - Len(stream)

(* write_from_buf: one write, which may take less than there is.  A stream   *)
(* without space registers the task; a short write does not.                 *)
(* Mutant: the buffer is cleared after a write, whatever it took.            *)
write_from_buf_clears(n) ==
    IF n = 0 THEN [writer EXCEPT !.awake = FALSE, !.waits = TRUE]
    ELSE [writer EXCEPT !.buffer = <<>>, !.awake = TRUE]

write_from_buf(n) ==
    IF n = 0 THEN [writer EXCEPT !.awake = FALSE, !.waits = TRUE]
    ELSE [writer EXCEPT !.buffer = SubSeq(@, n + 1, Len(@)), !.awake = (n = Len(writer.buffer))]

poll_ready ==
    /\ writer.buffer # <<>>
    /\ \E n \in IF Space = 0 THEN {0} ELSE 1 .. Min({Space, Len(writer.buffer)}) :
          /\ writer' = write_from_buf(n)
          /\ stream' = stream \o SubSeq(writer.buffer, 1, n)
    /\ UNCHANGED <<reader, sent, received>>

poll_close ==
    /\ writer.buffer = <<>> /\ ~writer.closed
    /\ writer' = [writer EXCEPT !.closed = TRUE]
    /\ UNCHANGED <<stream, reader, sent, received>>

Wanted(r) == IF r.state = "Head" THEN HEADER_SIZE ELSE r.size

(* read_to_buf: reads are repeated until the buffer is full, the stream is   *)
(* empty or it ended.                                                        *)
read_to_buf(r) == Min({Wanted(r) - Len(r.buffer), Len(stream)})

(* Header::deserialize_from_vec of the bytes in the buffer.                  *)
HeaderSize(buffer) ==
    IF \A k \in 1 .. HEADER_SIZE : buffer[k].part = "header" /\ buffer[k].at = k /\ buffer[k].of = buffer[1].of
    THEN buffer[1].size
    ELSE MAX_MESSAGE_SIZE + 1

(* After a header poll_next returns Pending, but it has woken itself.         *)
Decoded(r) ==
    LET b == r.buffer
    IN  IF r.state = "Head"
        THEN IF HeaderSize(b) > MAX_MESSAGE_SIZE THEN [r EXCEPT !.result = "error"]
             ELSE [r EXCEPT !.state = "Data", !.size = HeaderSize(b), !.buffer = <<>>]
        ELSE IF \E k \in 1 .. Len(b) : b[k].part # "data" \/ b[k].at # k THEN [r EXCEPT !.result = "error"]
             ELSE [r EXCEPT !.state = "Head", !.size = 0, !.buffer = <<>>]

poll_next ==
    LET n == read_to_buf(reader)
        r == [reader EXCEPT !.buffer = @ \o SubSeq(stream, 1, n), !.waits = FALSE]
        full == Len(r.buffer) >= Wanted(r)
    IN  /\ reader.result = "none" /\ ~reader.waits
        /\ stream' = SubSeq(stream, n + 1, Len(stream))
        /\ writer' = IF n > 0 /\ writer.waits THEN [writer EXCEPT !.waits = FALSE, !.awake = TRUE] ELSE writer
        /\ reader' = IF full THEN Decoded(r)
                     ELSE IF ~writer.closed THEN [r EXCEPT !.waits = TRUE]
                     ELSE [r EXCEPT !.result = IF r.state = "Head" /\ r.buffer = <<>> THEN "end" ELSE "error"]
        /\ received' = IF full /\ r.state = "Data" THEN Append(received, r.size) ELSE received
        /\ UNCHANGED sent

(* The stream wakes a reader that found it empty.                            *)
WakeReader ==
    /\ reader.waits /\ (stream # <<>> \/ writer.closed)
    /\ reader.state = "Data" => Len(reader.buffer) < reader.size
    /\ reader' = [reader EXCEPT !.waits = FALSE]
    /\ UNCHANGED <<writer, stream, sent, received>>

Next ==
    \/ \E size \in Sizes : start_send(size)
    \/ poll_ready
    \/ poll_close
    \/ poll_next
    \/ WakeReader

Spec == Init /\ [][Next]_vars

(* A task that is awake is polled, and so is a reader that was woken; one    *)
(* that sleeps may be polled for another reason, but that is not assumed.    *)
Woken == writer.awake /\ poll_ready
Fairness == WF_vars(Woken) /\ WF_vars(poll_next) /\ WF_vars(WakeReader)

FairSpec == Spec /\ Fairness

(***************************************************************************)
(* Properties                                                               *)
(***************************************************************************)
(* A reader never holds more than it wants for the frame it is in.           *)
TypeOK ==
    /\ Len(stream) <= CAPACITY
    /\ reader.state \in {"Head", "Data"}
    /\ reader.size \in 0 .. MAX_MESSAGE_SIZE
    /\ Len(reader.buffer) <= Wanted(reader)
    /\ writer.awake \in BOOLEAN /\ writer.waits \in BOOLEAN /\ reader.waits \in BOOLEAN

(* However the stream splits writes and reads, a reader gets the messages    *)
(* that were sent, in order, and no error; the end of the stream is reported *)
(* as such only between two messages.                                        *)
FramesAreKept ==
    /\ IsPrefix(received, sent)
    /\ reader.result # "error"
    /\ reader.result = "end" => received = sent

(* A short write has left bytes, and nothing wakes the writer. *)
Stranded == writer.buffer # <<>> /\ ~writer.awake /\ ~writer.waits
AllArrived == received = sent \/ Stranded

(* Every message that was sent arrives, also an empty one after whose header *)
(* no byte wakes the reader (poll_next wakes itself), unless a short write   *)
(* puts the writer to sleep (see WriterWillWake).                            *)
EveryMessageArrives == []<>AllArrived

(* A writer that keeps bytes is polled again: it woke itself or the stream   *)
(* will wake it.  Not so in the code: write_from_buf returns Pending after a *)
(* short write, for which the stream registers no waker.                     *)
WriterWillWake == writer.buffer # <<>> => writer.awake \/ writer.waits

=============================================================================
