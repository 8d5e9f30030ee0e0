----------------------------- MODULE LogDecoding ----------------------------
(***************************************************************************)
(* From the body of a log response to the entries of a DriverLogResult:    *)
(* the body loop of _read_response, _decode_logs and the last lines of     *)
(* DockerDriver.logs (docker.py).                                          *)
(*                                                                         *)
(* A body is a sequence of bytes.  A frame's header is one byte of each of *)
(* its fields (the stream, the zeroes, the size), of eight in the code.    *)
(***************************************************************************)
EXTENDS Integers, Sequences, FiniteSets
Seqs == INSTANCE SequencesExt

CONSTANTS
    MaxLogBytes,    \* _MAX_LOG_BYTES
    MaxTail         \* the greatest tail a caller may ask for, 1000 in the code

HeaderBytes == 3
Newline     == 10
Stdout      == 1
Stderr      == 2

(* A bug: a body cut exactly at a chunk's end does not count as cut.       *)
TakeChunk_SilentCut(body, chunk, maximum) ==
    LET remaining == maximum - Len(body.bytes)
    IN  IF body.truncated THEN body
        ELSE IF Len(chunk) > remaining
        THEN [bytes     |-> body.bytes \o SubSeq(chunk, 1, remaining),
              truncated |-> remaining > 0]
        ELSE [body EXCEPT !.bytes = @ \o chunk]

(* One chunk of the body loop: the first one that does not fit is cut and  *)
(* ends it.                                                                *)
TakeChunk(body, chunk, maximum) ==
    LET remaining == maximum - Len(body.bytes)
    IN  IF body.truncated THEN body
        ELSE IF Len(chunk) > remaining
        THEN [bytes     |-> body.bytes \o SubSeq(chunk, 1, remaining),
              truncated |-> TRUE]
        ELSE [body EXCEPT !.bytes = @ \o chunk]

(* Where the body is not to be truncated, one too long fails the call.     *)
ReadBody(chunks, maximum) ==
    Seqs!FoldLeft(LAMBDA body, chunk : TakeChunk(body, chunk, maximum),
                  [bytes |-> <<>>, truncated |-> FALSE], chunks)

(* str.splitlines, with the newline for all the characters that end one.   *)
Lines(text) ==
    LET ends   == {i \in DOMAIN text : text[i] = Newline}
        starts == {i \in DOMAIN text : i = 1 \/ i - 1 \in ends}
        EndOf(i) == IF \E e \in ends : e >= i
                    THEN CHOOSE e \in ends : e >= i /\ \A f \in ends : f >= i => e <= f
                    ELSE Len(text) + 1
    IN  [k \in 1 .. Cardinality(starts) |->
            LET i == Seqs!SetToSortSeq(starts, <)[k] IN SubSeq(text, i, EndOf(i) - 1)]

EntriesOf(stream, text) ==
    [k \in DOMAIN Lines(text) |-> [stream |-> stream, text |-> Lines(text)[k]]]

Ended     == [entries |-> <<>>, truncated |-> FALSE, malformed |-> FALSE]
Malformed == [Ended EXCEPT !.malformed = TRUE]
FrameCut  == [Ended EXCEPT !.truncated = TRUE]

(* A bug: the bytes left over are taken for a bad header.                  *)
HeaderCut_Malformed == Malformed

HeaderCut == FrameCut

(* The frames from offset o on.  A header or a frame that the body does    *)
(* not hold whole ends the decoding; a header that is none fails it.       *)
FramesFrom(payload) ==
    LET f[o \in 0 .. Len(payload)] ==
            LET rest == Len(payload) - o
                size == payload[o + HeaderBytes]
                text == SubSeq(payload, o + HeaderBytes + 1,
                               o + HeaderBytes + size)
            IN  IF rest = 0 THEN Ended
                ELSE IF rest < HeaderBytes THEN HeaderCut
                ELSE IF payload[o + 2] # 0 \/ size > MaxLogBytes THEN Malformed
                ELSE IF rest < HeaderBytes + size THEN FrameCut
                ELSE IF payload[o + 1] \notin {Stdout, Stderr} THEN Malformed
                ELSE [f[o + HeaderBytes + size] EXCEPT
                        !.entries = EntriesOf(payload[o + 1], text) \o @]
    IN  f[0]

DecodeLogs(payload, multiplexed) ==
    IF multiplexed THEN FramesFrom(payload)
    ELSE [Ended EXCEPT !.entries = EntriesOf(Stdout, payload)]

LogResult(chunks, multiplexed, tail) ==
    LET body    == ReadBody(chunks, MaxLogBytes)
        decoded == DecodeLogs(body.bytes, multiplexed)
        total   == Len(decoded.entries)
        skipped == IF total > tail THEN total - tail ELSE 0
    IN  [malformed |-> decoded.malformed,
         entries   |-> SubSeq(decoded.entries, skipped + 1, total),
         truncated |-> \/ body.truncated \/ decoded.truncated
                       \/ total > tail]

-----------------------------------------------------------------------------
(* A container's log is a sequence of messages [stream, text], which the   *)
(* engine's own tail counts: it sends the last of them only, and does not  *)
(* say so.  str.splitlines may find several lines in one.                  *)
LastMessages(log, tail) ==
    SubSeq(log, IF Len(log) > tail THEN Len(log) - tail + 1 ELSE 1, Len(log))

(* On the wire: a frame for each, or with a terminal their bytes alone.    *)
Framed(messages, tty) ==
    Seqs!FlattenSeq([i \in DOMAIN messages |->
        IF tty THEN messages[i].text
        ELSE <<messages[i].stream, 0, Len(messages[i].text)>>
                \o messages[i].text])

Sent(log, tty, tail) == Framed(LastMessages(log, tail), tty)

Written(messages, tty) ==
    IF tty THEN EntriesOf(Stdout, Framed(messages, tty))
    ELSE Seqs!FlattenSeq([i \in DOMAIN messages |->
                        EntriesOf(messages[i].stream, messages[i].text)])

(* How a body may arrive: whole, or in two chunks.                         *)
Chunkings(body) ==
    {<<SubSeq(body, 1, k), SubSeq(body, k + 1, Len(body))>> : k \in 0 .. Len(body)}

(* Whatever the driver cuts off what it was sent, by the size limit in the *)
(* middle of a frame or of a line, or by its own count of lines, its       *)
(* result says that something is missing.  One that does not is, entry for *)
(* entry, the last messages of the log, as many as were asked for; that    *)
(* there were older ones the engine has not told it.                       *)
ToldAsAsked(log, tty, tail) ==
    \A chunks \in Chunkings(Sent(log, tty, tail)) :
        LET r == LogResult(chunks, ~tty, tail)
        IN  r.truncated \/ r.entries = Written(LastMessages(log, tail), tty)

(* A body the engine sends never fails, wherever the size limit cuts it:   *)
(* the cut must not be taken for a malformed header.                       *)
CutsDecode(log, tty, tail) ==
    \A chunks \in Chunkings(Sent(log, tty, tail)) :
        ~LogResult(chunks, ~tty, tail).malformed
=============================================================================
