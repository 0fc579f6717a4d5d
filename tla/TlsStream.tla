----------------------------- MODULE TlsStream -----------------------------
(***************************************************************************)
(* TLSStream on a transport stream, and the handler of TLSListener that    *)
(* makes it.  Each call of the SSL object (external) works on two buffers  *)
(* in memory; the loop around it moves records between them and the        *)
(* transport.  Records are numbered in either direction: the peer sends    *)
(* its hello, data and perhaps close_notify, and ends its stream.  Calls   *)
(* may be cancelled at any await, the transport fails a second send() or   *)
(* receive() while one is under way.                                       *)
(***************************************************************************)
EXTENDS Naturals, Sequences, Functions

CONSTANTS
  TlsReader,   \* tasks that call receive()
  TlsWriter,   \* tasks that call send()
  TlsCloser,   \* the task that wraps the stream and calls aclose()
  MaxRecords   \* bound: the records in either direction

VARIABLES
  tls,     \* the stream, its buffer of received records, and the transport
  tlsAt,   \* where each task is, in which call, the records it is sending, and the
           \* data it returns then
  net,     \* the records of the peer that the transport has not given out
  past     \* history: what the peer sent, what we sent and received, whether records
           \* or data were lost, and how receive() told the end

tlsVars == <<tls, tlsAt, net, past>>

TlsTask == TlsReader \union TlsWriter \union {TlsCloser}
Quiet == [place |-> "quiet", call |-> "none", carries |-> <<>>, then |-> "none", data |-> <<>>]
Hello == [kind |-> "hello", n |-> 0]
Notify == [kind |-> "notify", n |-> 0]

TlsInit ==
  /\ \E compatible \in BOOLEAN :
       tls = [compatible |-> compatible, state |-> "new", bio |-> <<>>, eof |-> FALSE,
              made |-> 0, notified |-> FALSE, closed |-> FALSE]
  /\ tlsAt = [t \in TlsTask |-> Quiet]
  /\ net = [records |-> <<>>, ended |-> FALSE]
  /\ past = [peer |-> 0, notify |-> FALSE, sent |-> <<>>, got |-> <<>>,
             lossy |-> FALSE, dropped |-> FALSE, ends |-> {}]

PeerSendsRecord ==
  /\ ~net.ended /\ ~past.notify
  /\ \/ /\ past.peer < MaxRecords
        /\ net' = [net EXCEPT !.records =
                     Append(@, IF past.peer = 0 THEN Hello ELSE [kind |-> "data", n |-> past.peer])]
        /\ past' = [past EXCEPT !.peer = @ + 1]
     \/ /\ past.peer > 0
        /\ net' = [net EXCEPT !.records = Append(@, Notify)]
        /\ past' = [past EXCEPT !.notify = TRUE]
  /\ UNCHANGED <<tls, tlsAt>>

PeerEnds ==
  /\ ~net.ended
  /\ net' = [net EXCEPT !.ended = TRUE]
  /\ UNCHANGED <<tls, tlsAt, past>>

-----------------------------------------------------------------------------
(* One round of _call_sslobject_method(): the call of the SSL object, and  *)
(* the await that follows, if any.                                         *)

Busy(place, t) == \E u \in TlsTask \ {t} : tlsAt[u].place = place

\* The call is over, well or badly.
Done(t, s, how) ==
  /\ tlsAt' = [tlsAt EXCEPT ![t] = Quiet]
  /\ tls' = IF tlsAt[t].call = "handshake" /\ how = "returned" THEN [s EXCEPT !.state = "open"]
            ELSE IF tlsAt[t].call \in {"handshake", "unwrap"}
                 THEN [s EXCEPT !.closed = TRUE, !.state = "over"]
            ELSE s

\* receive() of the transport, if nobody else is in it
Receives(t, s) ==
  IF Busy("receiving", t) THEN Done(t, s, "busy")
  ELSE /\ tlsAt' = [tlsAt EXCEPT ![t].place = "receiving", ![t].carries = <<>>]
       /\ tls' = s

\* A mutant: a ragged end is an end.
RaggedEndQuietly(t, s) ==
  /\ Done(t, s, "raised")
  /\ past' = [past EXCEPT !.ends = @ \union {"EndOfStream"}]

\* A mutant: nothing is flushed before more is wanted.
FlushesResults(s, then) == s.made > tls.made /\ then = "result"
\* What the call has put into the buffer is sent before anything else.
Flushes(s, then) == s.made > tls.made

\* The records that were made go out first, then comes the result, with the data
\* that were read, or the wait.
Then(t, s, then, data) ==
  LET fresh == [i \in 1..(s.made - tls.made) |-> tls.made + i] IN
  IF Flushes(s, then)
  THEN IF Busy("flushing", t)
       THEN /\ Done(t, s, "busy")
            /\ past' = [past EXCEPT !.lossy = TRUE, !.dropped = @ \/ data # <<>>]
       ELSE /\ tlsAt' = [tlsAt EXCEPT ![t].place = "flushing", ![t].carries = fresh,
                                      ![t].then = then, ![t].data = data]
            /\ tls' = s
            /\ UNCHANGED past
  ELSE IF then = "result"
       THEN Done(t, s, "returned") /\ past' = [past EXCEPT !.got = @ \o data]
       ELSE Receives(t, s) /\ UNCHANGED past

Made(s) == IF s.made < MaxRecords THEN {s, [s EXCEPT !.made = @ + 1]} ELSE {s}

\* The SSL object found the end of its input: SSLEOFError
RaggedEnd(t, s) ==
  /\ Done(t, s, "raised")
  /\ past' = [past EXCEPT !.ends = IF tlsAt[t].call = "read" /\ ~s.compatible
                                   THEN @ \union {"EndOfStream"} ELSE @ \union {"broken"}]

\* read(): data, the end after close_notify, or more is wanted; a reply to the
\* peer may be made on the way.
ReadRound(t, s) ==
  IF s.bio # <<>>
  THEN IF Head(s.bio).kind = "notify"
       THEN Done(t, s, "raised") /\ past' = [past EXCEPT !.ends = @ \union {"EndOfStream"}]
       ELSE \E made \in Made(s) :
              Then(t, [made EXCEPT !.bio = Tail(@)], "result", <<Head(s.bio).n>>)
  ELSE IF s.eof THEN RaggedEnd(t, s)
  ELSE \E made \in Made(s) : Then(t, made, "receive", <<>>)

\* do_handshake(): our hello, the peer's, and the end of ours
HandshakeRound(t, s) ==
  IF s.bio = <<>>
  THEN IF s.eof THEN RaggedEnd(t, s)
       ELSE Then(t, [s EXCEPT !.made = IF @ = 0 THEN 1 ELSE @], "receive", <<>>)
  ELSE Then(t, [s EXCEPT !.bio = Tail(@), !.made = @ + 1], "result", <<>>)

\* unwrap(): close_notify is made once; application data in the way is an error.
UnwrapRound(t, s) ==
  LET told == [s EXCEPT !.notified = TRUE, !.made = IF s.notified THEN @ ELSE @ + 1] IN
  IF s.bio # <<>>
  THEN IF Head(s.bio).kind = "notify" THEN Then(t, told, "result", <<>>)
       ELSE Done(t, told, "raised") /\ UNCHANGED past
  ELSE IF s.eof THEN RaggedEnd(t, told)
  ELSE Then(t, told, "receive", <<>>)

OneRound(t, s) ==
  CASE tlsAt[t].call = "read" -> ReadRound(t, s)
    [] tlsAt[t].call = "write" -> Then(t, [s EXCEPT !.made = @ + 1], "result", <<>>)
    [] tlsAt[t].call = "handshake" -> HandshakeRound(t, s)
    [] tlsAt[t].call = "unwrap" -> UnwrapRound(t, s)

-----------------------------------------------------------------------------
\* wrap(), receive(), send() and, with the closing handshake, aclose()
CallOf(t) ==
  CASE t \in TlsReader -> "read" [] t \in TlsWriter -> "write"
    [] OTHER -> IF tls.state = "new" THEN "handshake" ELSE "unwrap"

StartTls(t) ==
  /\ tlsAt[t] = Quiet
  /\ tls.state = "open" \/ (tls.state = "new" /\ t = TlsCloser)
  /\ t = TlsCloser => tls.state = "new" \/ tls.compatible
  /\ t \in TlsWriter => tls.made < MaxRecords
  /\ tlsAt' = [tlsAt EXCEPT ![t].place = "calls", ![t].call = CallOf(t)]
  /\ UNCHANGED <<tls, net, past>>

FirstRound(t) ==
  /\ tlsAt[t].place = "calls"
  /\ OneRound(t, tls)
  /\ UNCHANGED net

\* aclose() without the closing handshake
ClosePlainly ==
  /\ tls.state = "open" /\ ~tls.compatible
  /\ tls' = [tls EXCEPT !.closed = TRUE, !.state = "over"]
  /\ UNCHANGED <<tlsAt, net, past>>

\* send() of the transport is over; then the result, or a wait for the peer.
Flushed(t) ==
  /\ tlsAt[t].place = "flushing" /\ ~tls.closed
  /\ past' = [past EXCEPT !.sent = @ \o tlsAt[t].carries, !.got = @ \o tlsAt[t].data]
  /\ IF tlsAt[t].then = "result" THEN Done(t, tls, "returned") ELSE Receives(t, tls)
  /\ UNCHANGED net

\* receive() of the transport is over: the next round.
Received(t) ==
  /\ tlsAt[t].place = "receiving" /\ ~tls.closed
  /\ \/ /\ net.records # <<>>
        /\ net' = [net EXCEPT !.records = Tail(@)]
        /\ OneRound(t, [tls EXCEPT !.bio = Append(@, Head(net.records))])
     \/ /\ net.records = <<>> /\ net.ended
        /\ OneRound(t, [tls EXCEPT !.eof = TRUE])
        /\ UNCHANGED net

\* A cancellation, the timeout of the handshake, or an error of the transport: the
\* records that were being sent may be lost.  A handshake or an unwrap() that
\* fails closes the transport forcefully.
CallFails(t) ==
  /\ tlsAt[t].place \in {"flushing", "receiving"}
  /\ Done(t, tls, "raised")
  /\ LET p == [past EXCEPT !.dropped = @ \/ tlsAt[t].data # <<>>] IN
     past' \in {[p EXCEPT !.lossy = @ \/ tlsAt[t].carries # <<>>],
                [p EXCEPT !.sent = @ \o tlsAt[t].carries]}
  /\ UNCHANGED net

TlsNext ==
  \/ PeerSendsRecord \/ PeerEnds \/ ClosePlainly
  \/ \E t \in TlsTask : StartTls(t) \/ FirstRound(t) \/ Flushed(t) \/ Received(t) \/ CallFails(t)

-----------------------------------------------------------------------------
\* The i-th record of the peer
Nth(i) ==
  CASE i = 1 -> Hello
    [] i > 1 /\ i <= past.peer -> [kind |-> "data", n |-> i - 1]
    [] OTHER -> Notify

\* The records of the peer that nobody has read, and how many have been read
Unread == tls.bio \o net.records
Taken == past.peer + (IF past.notify THEN 1 ELSE 0) - Len(Unread)

\* What the peer sent is received in order, once, and none is lost, whoever's call
\* moved it into the buffer and however that call ended: it was received, or is in
\* the hands of a receive() that sends a reply first, or is still to be read; only a
\* receive() that fails while it sends takes its data along.  Our records go out in
\* order, and none is missing unless the send() that carried it failed; so nobody
\* waits for the peer while the peer waits for what has not been sent.
RecordsInOrder ==
  /\ \A i \in DOMAIN Unread : Unread[i] = Nth(Taken + i)
  /\ tls.state = "open" /\ ~past.dropped =>
       /\ IsInjective(past.got) /\ \A i \in DOMAIN past.got : past.got[i] \in 1..(Taken - 1)
       /\ \A n \in 1..(Taken - 1) :
            (\E i \in DOMAIN past.got : past.got[i] = n)
              <=> ~\E t \in TlsReader : tlsAt[t].data = <<n>>
       /\ (\A t, u \in TlsReader : t = u) => \A i \in DOMAIN past.got : past.got[i] = i
  /\ \A i, j \in DOMAIN past.sent : i < j => past.sent[i] < past.sent[j]
  /\ tls.state # "over" /\ ~past.lossy /\ (\A t \in TlsTask : tlsAt[t].carries = <<>>)
       => Len(past.sent) = tls.made

\* With the standard's closing handshake, a stream that was cut off is not taken
\* for one that has ended.
NoTruncation ==
  tls.compatible /\ "EndOfStream" \in past.ends => past.notify
=============================================================================
