----------------------------- MODULE RingBuffer -----------------------------
(***************************************************************************)
(* klog/ringbuffer.go: the byte ring behind the log lines of the MCP tool  *)
(* get_logs.  Every method holds the mutex, so a call is one step.         *)
(***************************************************************************)
EXTENDS Naturals, Sequences

CONSTANTS
    Cap,       \* r.cap
    Payloads   \* what one Write may get

Newline == 10
LogByte == 0..255

\* NewRingBuffer replaces a capacity that is not positive.
ASSUME RingBufferAssumption ==
    /\ Cap \in Nat \ {0}
    /\ Payloads \subseteq Seq(LogByte)

VARIABLES
    buf, start, len,   \* the fields of RingBuffer
    input              \* the argument of the last Write

ringVars == <<buf, start, len, input>>

Cells == 0..(Cap - 1)

\* A fresh buffer is filled with zeros.
RingInit == buf = [i \in Cells |-> 0] /\ start = 0 /\ len = 0 /\ input = <<>>

\* Mutant: the oldest byte is overwritten and start stays.
PutNoAdvance(r, b) ==
    IF r.len < Cap
    THEN [r EXCEPT !.buf[(r.start + r.len) % Cap] = b, !.len = @ + 1]
    ELSE [r EXCEPT !.buf[r.start] = b]

\* The body of Write's loop: append, or overwrite the oldest byte.
Put(r, b) ==
    IF r.len < Cap
    THEN [r EXCEPT !.buf[(r.start + r.len) % Cap] = b, !.len = @ + 1]
    ELSE [r EXCEPT !.buf[r.start] = b, !.start = (@ + 1) % Cap]

\* Write's loop over the bytes of p.
PutAll(ring, p) ==
    LET put[i \in 0..Len(p)] == IF i = 0 THEN ring ELSE Put(put[i - 1], p[i])
    IN  put[Len(p)]

Ring == [buf |-> buf, start |-> start, len |-> len]

Write(p) ==
    LET r == PutAll(Ring, p)
    IN  buf' = r.buf /\ start' = r.start /\ len' = r.len /\ input' = p

RingNext == \E p \in Payloads : Write(p)

RingSpec == RingInit /\ [][RingNext]_ringVars

-----------------------------------------------------------------------------
(* The observers                                                           *)

\* Bytes and String.
Bytes == [i \in 1..len |-> buf[(start + i - 1) % Cap]]

\* strings.Split(s, "\n"), byte by byte.
Split(s) ==
    LET parts[i \in 0..Len(s)] ==
            IF i = 0 THEN <<<<>>>>
            ELSE IF s[i] = Newline THEN Append(parts[i - 1], <<>>)
            ELSE [parts[i - 1] EXCEPT ![Len(parts[i - 1])] = Append(@, s[i])]
    IN  parts[Len(s)]

\* An empty fragment after the last newline is dropped.
Full(parts) ==
    IF parts[Len(parts)] = <<>> THEN SubSeq(parts, 1, Len(parts) - 1) ELSE parts

\* Mutant: off by one in the number of lines.
LinesMinusOne(n) ==
    LET lines == Full(Split(Bytes))
    IN  IF len = 0 THEN <<>>
        ELSE IF Len(lines) <= n THEN lines
        ELSE SubSeq(lines, Len(lines) - n, Len(lines))

Lines(n) ==
    LET lines == Full(Split(Bytes))
    IN  IF len = 0 THEN <<>>
        ELSE IF Len(lines) <= n THEN lines
        ELSE SubSeq(lines, Len(lines) - n + 1, Len(lines))

-----------------------------------------------------------------------------
(* Properties                                                              *)

\* The ring implements LogTail: Bytes are the last Cap bytes written, however
\* the writes wrap around, also when a single one is longer than the ring.
Abstract == INSTANCE LogTail WITH tail <- Bytes

KeepsTail == Abstract!Spec

\* Every line of a sequence of lines with its newline.
Join(lines) ==
    LET text[i \in 0..Len(lines)] ==
            IF i = 0 THEN <<>> ELSE text[i - 1] \o lines[i] \o <<Newline>>
    IN  text[Len(lines)]

\* Lines(n) are the last lines of the content, n of them if there are as many:
\* with their newlines they are its end, nothing split, skipped or repeated,
\* whether or not the content ends in a newline and wherever the ring wraps.
\* An empty line counts as a line: the comment of Lines promises "the last n
\* non-empty lines" (ringbuffer.go:60), the code keeps the empty ones, and
\* TestRingBufferEmptyFragment wants them (ringbuffer_test.go:66, "empty
\* middle line is kept").  The property takes the side of the code and the test.
LinesAreTail ==
    LET text == Join(Lines(Cap + 1))
    IN  /\ text \in {Bytes, Append(Bytes, Newline)}
        /\ \A n \in 0..Cap :
               /\ \E k \in 0..Len(text) : Join(Lines(n)) = SubSeq(text, k + 1, Len(text))
               /\ Len(Lines(n)) <= n
               /\ Len(Lines(n)) < n => Join(Lines(n)) = text
=============================================================================
