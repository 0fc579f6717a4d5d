--------------------------- MODULE BufferedStream ---------------------------
(***************************************************************************)
(* BufferedByteReceiveStream on a stream (external) that serves one        *)
(* receive() at a time, or has one receiver: while a call waits for it,    *)
(* other calls are served from the buffer or fail.  A call that waits may  *)
(* be cancelled.                                                           *)
(***************************************************************************)
EXTENDS Integers, Sequences

CONSTANTS
  Delimiters,   \* the delimiters, sequences of 0 and 1
  MaxInput,     \* bound: the bytes that the peer sends, each 0 or 1
  MaxLimit      \* bound: the numbers of bytes that are asked for

VARIABLES
  ofBytes,   \* the wrapped stream is a ByteReceiveStream
  input,     \* what the peer sends
  unread,    \* how much of it the wrapped stream has not given out
  buffer,    \* _buffer
  reading,   \* the call that waits for the wrapped stream
  taken,     \* history: what was returned, and the delimiters that were cut out
  isClosed   \* _closed

bufferVars == <<ofBytes, input, unread, buffer, reading, taken, isClosed>>

Limit == 1..MaxLimit
NoRead == [op |-> "none"]

BufferInit ==
  /\ ofBytes \in BOOLEAN
  /\ input \in [1..MaxInput -> {0, 1}]
  /\ unread = MaxInput /\ buffer = <<>> /\ taken = <<>>
  /\ reading = NoRead
  /\ isClosed = FALSE

\* The most that the wrapped stream may give: an object stream gives what it has.
Asks(n) == IF ofBytes THEN n ELSE MaxInput

Waits(call) ==
  /\ reading = NoRead /\ ~isClosed
  /\ reading' = call
  /\ UNCHANGED <<buffer, taken>>

\* The first n bytes go to the caller, or are the delimiter; what is left is the
\* buffer.
Takes(bytes, n) ==
  /\ taken' = taken \o SubSeq(bytes, 1, n)
  /\ buffer' = SubSeq(bytes, n + 1, Len(bytes))

Least(m, n) == IF m < n THEN m ELSE n

-----------------------------------------------------------------------------
\* receive(): from the buffer, or what the wrapped stream gives next
Receive(n) ==
  /\ ~isClosed
  /\ \/ buffer # <<>> /\ Takes(buffer, Least(n, Len(buffer))) /\ UNCHANGED reading
     \/ buffer = <<>> /\ Waits([op |-> "receive", n |-> n, asks |-> Asks(n)])
  /\ UNCHANGED <<ofBytes, input, unread, isClosed>>

\* receive_exactly(), before it has waited
ReceiveExactly(n) ==
  /\ \/ Len(buffer) >= n /\ Takes(buffer, n) /\ UNCHANGED reading
     \/ Len(buffer) < n /\ Waits([op |-> "exactly", n |-> n, asks |-> Asks(n - Len(buffer))])
  /\ UNCHANGED <<ofBytes, input, unread, isClosed>>

\* find(): the places, from offset on, where the delimiter starts
Finds(bytes, delimiter, offset) ==
  {i \in (offset + 1)..(Len(bytes) - Len(delimiter) + 1) :
     SubSeq(bytes, i, i + Len(delimiter) - 1) = delimiter}

\* What comes up to the first of them is taken.
Found(bytes, delimiter, offset) ==
  \E i \in Finds(bytes, delimiter, offset) :
    /\ \A j \in Finds(bytes, delimiter, offset) : i <= j
    /\ Takes(bytes, i + Len(delimiter) - 1)

\* receive_until(), before it has waited; DelimiterNotFound changes nothing.
ReceiveUntil(delimiter, n) ==
  /\ \/ Finds(buffer, delimiter, 0) # {} /\ Found(buffer, delimiter, 0) /\ UNCHANGED reading
     \/ /\ Finds(buffer, delimiter, 0) = {} /\ Len(buffer) < n
        /\ Waits([op |-> "until", n |-> n, delimiter |-> delimiter, asks |-> MaxInput])
  /\ UNCHANGED <<ofBytes, input, unread, isClosed>>

-----------------------------------------------------------------------------
\* A mutant: the search goes on behind what was searched.
OffsetAtEnd(length, delimiter) == length
\* A mutant: what does not fit is dropped.
RestDropped(chunk, n) == <<>>

\* A delimiter may have begun in the bytes that were searched before.
Offset(length, delimiter) ==
  IF length < Len(delimiter) THEN 0 ELSE length - Len(delimiter) + 1
\* The part of a chunk that does not fit
Rest(chunk, n) == SubSeq(chunk, n + 1, Len(chunk))

GetsOn(call, chunk) ==
  LET bytes == buffer \o chunk IN
  CASE call.op = "receive" ->
         /\ taken' = taken \o SubSeq(chunk, 1, Least(call.n, Len(chunk)))
         /\ buffer' = buffer \o Rest(chunk, Least(call.n, Len(chunk)))
         /\ reading' = NoRead
    [] call.op = "exactly" ->
         IF Len(bytes) >= call.n THEN Takes(bytes, call.n) /\ reading' = NoRead
         ELSE /\ buffer' = bytes /\ UNCHANGED taken
              /\ reading' = [reading EXCEPT !.asks = Asks(call.n - Len(bytes))]
    [] call.op = "until" ->
         LET offset == Offset(Len(buffer), call.delimiter) IN
         IF Finds(bytes, call.delimiter, offset) # {}
         THEN Found(bytes, call.delimiter, offset) /\ reading' = NoRead
         ELSE /\ buffer' = bytes /\ UNCHANGED taken
              /\ reading' = IF Len(bytes) >= call.n THEN NoRead ELSE reading

\* The wrapped stream gives a chunk, and the call ends or asks for more.
ChunkArrives(k) ==
  /\ reading # NoRead /\ k <= unread /\ k <= reading.asks
  /\ LET at == MaxInput - unread IN GetsOn(reading, SubSeq(input, at + 1, at + k))
  /\ unread' = unread - k
  /\ UNCHANGED <<ofBytes, input, isClosed>>

\* The call fails at the wrapped stream: IncompleteRead at its end, cancelled, or
\* closed.
ReadFails ==
  /\ reading # NoRead /\ reading' = NoRead
  /\ UNCHANGED <<ofBytes, input, unread, buffer, taken, isClosed>>

CloseBuffered ==
  /\ ~isClosed /\ isClosed' = TRUE
  /\ UNCHANGED <<ofBytes, input, unread, buffer, reading, taken>>

BufferNext ==
  \/ \E n \in Limit : Receive(n) \/ ReceiveExactly(n)
  \/ \E n \in Limit, delimiter \in Delimiters : ReceiveUntil(delimiter, n)
  \/ \E k \in 1..MaxInput : ChunkArrives(k)
  \/ ReadFails \/ CloseBuffered

-----------------------------------------------------------------------------
\* Every byte is returned once and in order, whatever calls are mixed and wherever
\* one is cancelled: what a call has got from the stream is in the buffer before it
\* waits again.
NoByteLost ==
  taken \o buffer \o SubSeq(input, MaxInput - unread + 1, MaxInput) = input

\* receive_until() never waits with its delimiter in the buffer, in however many
\* chunks it came, and receive_exactly() never waits with enough bytes.
WaitsForMore ==
  /\ reading.op = "until" =>
       Finds(buffer, reading.delimiter, 0) = {} /\ Len(buffer) < reading.n
  /\ reading.op = "exactly" => Len(buffer) < reading.n
=============================================================================
