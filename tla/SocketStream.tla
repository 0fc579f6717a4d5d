---------------------------- MODULE SocketStream ----------------------------
(***************************************************************************)
(* SocketStream and StreamProtocol of the asyncio backend, on a selector   *)
(* transport of asyncio (external) and a peer.  The bytes that the peer    *)
(* sends are numbered, a chunk is a sequence of them; of what is sent to    *)
(* it, only whether write() has passed it on is told.  A suspended call     *)
(* may be cancelled at any time.                                           *)
(***************************************************************************)
EXTENDS Naturals, Sequences, Functions

CONSTANTS
  Reader,     \* tasks that call receive()
  Writer,     \* tasks that call send() and send_eof()
  Closer,     \* tasks that call aclose()
  Chunks,     \* the lengths of the chunks that the peer sends
  MaxBytes    \* bound: the bytes that it sends

VARIABLES
  sock,     \* the stream, the protocol and the transport
  wire,     \* what the peer has sent and the transport has not read
  sent,     \* history: the number of bytes that the peer has sent
  at,       \* where each task is, and whether it has been woken
  got,      \* history: the bytes that receive() returned
  ended     \* history: receive() has raised EndOfStream

streamVars == <<sock, wire, sent, at, got, ended>>

StreamUser == Reader \union Writer \union Closer
Idle == [place |-> "idle", woken |-> FALSE, behind |-> FALSE]

SocketInit ==
  /\ \E reading \in BOOLEAN :   \* accepted sockets are read from at once
       sock = [queue |-> <<>>, readSet |-> FALSE, writeSet |-> TRUE, exception |-> FALSE,
               atEof |-> FALSE, closed |-> FALSE, receiveGuard |-> FALSE, sendGuard |-> FALSE,
               reading |-> reading, closing |-> FALSE, eofWritten |-> FALSE,
               buffer |-> FALSE,     \* there is something that write() could not pass on
               lost |-> "no"]        \* then scheduled with or without an error, or done
  /\ wire = <<>>
  /\ sent = 0
  /\ at = [t \in StreamUser |-> Idle]
  /\ got = <<>>
  /\ ended = FALSE

-----------------------------------------------------------------------------
(* The transport and the peer *)

Wake(places) ==
  [t \in StreamUser |-> IF at[t].place \in places THEN [at[t] EXCEPT !.woken = TRUE] ELSE at[t]]

\* What recv() gives at the end of the stream, and an error in its place
EndOfFile == <<>>
Reset == <<0>>

PeerSends(x) ==
  /\ {EndOfFile, Reset} \intersect Range(wire) = {}
  /\ ~sock.atEof /\ sock.lost = "no" /\ ~sock.closing
  /\ wire' = Append(wire, x)
  /\ sent' = IF x \in {EndOfFile, Reset} THEN sent ELSE sent + Len(x)
  /\ UNCHANGED <<sock, at, got, ended>>

NextChunk(n) == [i \in 1..n |-> sent + i]

\* _force_close(): an error, or abort(); connection_lost is put into the ready
\* queue, behind every task that has yielded before.
ForceClosed(s, exc) ==
  IF s.lost # "no" THEN s
  ELSE [s EXCEPT !.closing = TRUE, !.reading = FALSE, !.buffer = FALSE,
                 !.lost = IF exc THEN "error" ELSE "clean"]

\* _read_ready: data_received, eof_received, which keeps the transport open, or
\* an error.
TransportReads ==
  /\ sock.reading /\ ~sock.closing /\ wire # <<>>
  /\ LET x == Head(wire) IN
     CASE x = EndOfFile -> /\ sock' = [sock EXCEPT !.atEof = TRUE, !.readSet = TRUE,
                                               !.reading = FALSE]
                       /\ at' = Wake({"reading"})
       [] x = Reset -> sock' = ForceClosed(sock, TRUE) /\ UNCHANGED at
       [] OTHER -> /\ sock' = [sock EXCEPT !.queue = Append(@, x), !.readSet = TRUE]
                   /\ at' = Wake({"reading"})
  /\ wire' = Tail(wire)
  /\ UNCHANGED <<sent, got, ended>>

\* A mutant: writers are not woken when the connection is lost.
LostWakesReaders == Wake({"reading"})
LostWakes == Wake({"reading", "writing"})

\* connection_lost
Lost(s, exc) ==
  [s EXCEPT !.lost = "done", !.exception = @ \/ exc, !.readSet = TRUE, !.writeSet = TRUE]

ConnectionLost ==
  /\ sock.lost \in {"error", "clean"}
  /\ sock' = Lost(sock, sock.lost = "error")
  /\ at' = [t \in StreamUser |-> [LostWakes[t] EXCEPT !.behind = FALSE]]
  /\ UNCHANGED <<wire, sent, got, ended>>

\* The kernel takes what is in the buffer, or reports an error; a transport that
\* is closing is lost at once then.
TransportWrites ==
  /\ sock.buffer
  /\ \/ LET done == [sock EXCEPT !.buffer = FALSE, !.writeSet = TRUE]
        IN IF sock.closing
           THEN sock' = Lost(done, FALSE) /\ at' = LostWakes
           ELSE sock' = done /\ at' = Wake({"writing"})
     \/ sock' = ForceClosed(sock, TRUE) /\ UNCHANGED at
  /\ UNCHANGED <<wire, sent, got, ended>>

\* write(): passed on, refused with an error, or kept, with a call of
\* pause_writing(); silently dropped once the connection is lost.
Written(s) ==
  IF s.lost # "no" THEN {s}
  ELSE {[s EXCEPT !.buffer = TRUE, !.writeSet = FALSE]}
       \union (IF s.buffer THEN {} ELSE {s, ForceClosed(s, TRUE)})

-----------------------------------------------------------------------------
(* receive() *)

At(t, place) ==
  at' = [at EXCEPT ![t] = [place |-> place, woken |-> FALSE,
                           behind |-> sock.lost \in {"error", "clean"}]]

\* A mutant: the end of the stream does not count.
ReadyWhenSet == sock.readSet \/ sock.closing
\* There is something to be had without waiting.
Ready == sock.readSet \/ sock.closing \/ sock.atEof

StartReceive(t) ==
  /\ at[t].place = "idle" /\ ~sock.receiveGuard
  /\ IF Ready
     THEN At(t, "checkpoint") /\ sock' = [sock EXCEPT !.receiveGuard = TRUE]
     ELSE /\ At(t, "reading")
          /\ sock' = [sock EXCEPT !.receiveGuard = TRUE, !.reading = TRUE]
  /\ UNCHANGED <<wire, sent, got, ended>>

\* A mutant: the part that does not fit is put behind the rest.
RestAtEnd(rest, queue) == Append(queue, rest)
\* The part of a chunk that does not fit goes back to the front.
PutBack(rest, queue) == <<rest>> \o queue

\* A mutant: the event stays set.
AlwaysSet(queue) == TRUE
StaysSet(queue) == queue # <<>>

\* Past the wait or the checkpoint: a chunk of up to n bytes, or an exception,
\* which is told apart by what the protocol has heard.
EndReceive(t, n) ==
  /\ \/ at[t].place = "reading" /\ at[t].woken
     \/ at[t].place = "checkpoint" /\ ~at[t].behind
  /\ at' = [at EXCEPT ![t] = Idle]
  /\ LET s == [sock EXCEPT !.reading = @ /\ at[t].place # "reading", !.receiveGuard = FALSE]
     IN IF sock.queue = <<>>
        THEN /\ sock' = s
             /\ ended' = (ended \/ (~sock.closed /\ ~sock.exception))
             /\ UNCHANGED got
        ELSE LET chunk == Head(sock.queue)
                 k == IF Len(chunk) > n THEN n ELSE Len(chunk)
                 queue == IF Len(chunk) > n
                          THEN PutBack(SubSeq(chunk, n + 1, Len(chunk)), Tail(sock.queue))
                          ELSE Tail(sock.queue)
             IN /\ got' = got \o SubSeq(chunk, 1, k)
                /\ sock' = [s EXCEPT !.queue = queue, !.readSet = @ /\ StaysSet(queue)]
             /\ UNCHANGED ended
  /\ UNCHANGED <<wire, sent>>

-----------------------------------------------------------------------------
(* send(), send_eof(), aclose() *)

StartSend(t) ==
  /\ at[t].place = "idle" /\ ~sock.sendGuard
  /\ At(t, "sending")
  /\ sock' = [sock EXCEPT !.sendGuard = TRUE]
  /\ UNCHANGED <<wire, sent, got, ended>>

SendEnds(t, s) ==
  /\ at' = [at EXCEPT ![t] = Idle]
  /\ sock' = [s EXCEPT !.sendGuard = FALSE]

\* Past the checkpoint: write() and, unless it paused the protocol, the end.
WriteItem(t) ==
  /\ at[t].place = "sending" /\ ~at[t].behind
  /\ IF sock.closed \/ sock.exception \/ sock.eofWritten
     THEN SendEnds(t, sock)
     ELSE \E s \in Written(sock) :
            IF s.writeSet THEN SendEnds(t, s) ELSE At(t, "writing") /\ sock' = s
  /\ UNCHANGED <<wire, sent, got, ended>>

EndSend(t) ==
  /\ at[t].place = "writing" /\ at[t].woken
  /\ SendEnds(t, sock)
  /\ UNCHANGED <<wire, sent, got, ended>>

SendEof(t) ==
  /\ at[t].place = "idle" /\ ~sock.closing /\ ~sock.eofWritten
  /\ sock' = [sock EXCEPT !.eofWritten = TRUE]
  /\ UNCHANGED <<wire, sent, at, got, ended>>

\* aclose(): write_eof() and close(), which schedules connection_lost unless the
\* buffer has to be written first; a yield; abort().
StartClose(t) ==
  /\ at[t].place = "idle" /\ ~sock.closing
  /\ LET s == [sock EXCEPT !.closed = TRUE, !.eofWritten = TRUE, !.closing = TRUE,
                           !.reading = FALSE]
     IN sock' = IF s.buffer THEN s ELSE [s EXCEPT !.lost = "clean"]
  /\ At(t, "closing")
  /\ UNCHANGED <<wire, sent, got, ended>>

EndClose(t) ==
  /\ at[t].place = "closing"
  /\ at' = [at EXCEPT ![t] = Idle]
  /\ sock' = ForceClosed(sock, FALSE)
  /\ UNCHANGED <<wire, sent, got, ended>>

\* A CancelledError at any await: the guards are released, reading is not paused
\* again, abort() is not called.
Interrupted(t) ==
  /\ at[t].place # "idle"
  /\ at' = [at EXCEPT ![t] = Idle]
  /\ sock' = [sock EXCEPT !.receiveGuard = @ /\ at[t].place \notin {"reading", "checkpoint"},
                          !.sendGuard = @ /\ at[t].place \notin {"sending", "writing"}]
  /\ UNCHANGED <<wire, sent, got, ended>>

SocketNext ==
  \/ \E n \in Chunks : sent + n <= MaxBytes /\ PeerSends(NextChunk(n))
  \/ \E x \in {EndOfFile, Reset} : PeerSends(x)
  \/ TransportReads \/ TransportWrites \/ ConnectionLost
  \/ \E t \in Reader : StartReceive(t) \/ \E n \in 1..2 : EndReceive(t, n)
  \/ \E t \in Writer : StartSend(t) \/ WriteItem(t) \/ EndSend(t) \/ SendEof(t)
  \/ \E t \in Closer : StartClose(t) \/ EndClose(t)
  \/ \E t \in StreamUser : Interrupted(t)

-----------------------------------------------------------------------------
\* What is under way: the chunks of the queue and of the wire, and how the peer ended
UnderWay == sock.queue \o wire

\* The last byte before place i of it
Before(i) == IF i = 1 THEN Len(got) ELSE UnderWay[i - 1][Len(UnderWay[i - 1])]

\* The bytes arrive in the order in which they were sent, whatever receive() is
\* cancelled, splits or puts back: what was returned is followed by the first chunk
\* under way, each chunk by the next one, and the last one is the last that was sent.
\* EndOfStream means that the peer has ended its stream and every byte was returned.
BytesInOrder ==
  /\ got = [i \in 1..Len(got) |-> i]
  /\ \A i \in DOMAIN UnderWay :
       IF UnderWay[i] \in {EndOfFile, Reset}
       THEN i = Len(UnderWay) /\ Before(i) = sent
       ELSE /\ UnderWay[i] = [k \in 1..Len(UnderWay[i]) |-> Before(i) + k]
            /\ i = Len(UnderWay) => Before(i + 1) = sent
  /\ UnderWay = <<>> => Len(got) = sent
  /\ ended => sock.atEof /\ UnderWay = <<>>

\* A task that waits in receive() or send() waits for something that is still to
\* come: bytes that the transport reads, the end of a connection that is going
\* down, or room in the buffer.  No wake-up is lost when connection_lost(),
\* eof_received() or resume_writing() come in between.
WaitsForEvents ==
  \A t \in StreamUser : ~at[t].woken =>
    /\ at[t].place = "reading" =>
         /\ ~sock.readSet /\ sock.queue = <<>> /\ ~sock.atEof
         /\ sock.lost # "done" /\ (sock.reading \/ sock.closing)
    /\ at[t].place = "writing" =>
         (sock.lost = "no" /\ sock.buffer) \/ sock.lost \in {"error", "clean"}
=============================================================================
