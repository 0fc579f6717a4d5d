------------------------------ MODULE Datagram ------------------------------
(***************************************************************************)
(* UDPSocket, ConnectedUDPSocket and DatagramProtocol of the asyncio       *)
(* backend, on a selector transport of asyncio (external).  The packets    *)
(* that come in are numbered.  The tasks may be cancelled at any await.    *)
(***************************************************************************)
EXTENDS Naturals, Sequences

CONSTANTS
  UdpReader,    \* tasks that call receive()
  UdpWriter,    \* tasks that call send()
  MaxQueue,     \* the length of read_queue, 100 in the code
  MaxPackets    \* bound: the packets that come in, and those that are sent

VARIABLES
  udp,       \* the socket, the protocol and the transport
  udpAt,     \* where each task is, whether its event was set, whether it is cancelled
  packets    \* history: the packets that came in, were received, and pushed out;
             \* receive() raised BrokenResourceError

udpVars == <<udp, udpAt, packets>>

UdpUser == UdpReader \union UdpWriter
Out == [place |-> "out", woken |-> FALSE, cut |-> FALSE]

UdpInit ==
  /\ udp = [queue |-> <<>>, readSet |-> FALSE, writeSet |-> TRUE, closed |-> FALSE,
            receiveGuard |-> FALSE, sendGuard |-> FALSE,
            closing |-> FALSE, lost |-> FALSE,
            buffer |-> 0, sent |-> 0]   \* what the kernel has not taken; what was sent
  /\ udpAt = [t \in UdpUser |-> Out]
  /\ packets = [came |-> 0, received |-> <<>>, pushedOut |-> {}, broken |-> FALSE]

UdpWakes(place) ==
  [t \in UdpUser |-> IF udpAt[t].place = place THEN [udpAt[t] EXCEPT !.woken = TRUE]
                     ELSE udpAt[t]]

UdpGoes(t, place) == udpAt' = [udpAt EXCEPT ![t] = [Out EXCEPT !.place = place]]

-----------------------------------------------------------------------------
(* The protocol *)

\* datagram_received(): a full queue loses its first packet.
DatagramReceived ==
  /\ ~udp.closing /\ packets.came < MaxPackets
  /\ LET n == packets.came + 1
         full == Len(udp.queue) = MaxQueue
         q == Append(udp.queue, n)
     IN /\ udp' = [udp EXCEPT !.queue = IF full THEN Tail(q) ELSE q, !.readSet = TRUE]
        /\ packets' = [packets EXCEPT !.came = n,
                         !.pushedOut = IF full THEN @ \union {Head(q)} ELSE @]
  /\ udpAt' = UdpWakes("reading")

\* The kernel takes the buffer: resume_writing(), and connection_lost() if the
\* transport is closing.
SendtoReady ==
  /\ udp.buffer > 0
  /\ udp' = [udp EXCEPT !.buffer = 0, !.writeSet = TRUE, !.lost = udp.closing,
                        !.readSet = @ \/ udp.closing]
  /\ udpAt' = [t \in UdpUser |->
                 IF udpAt[t].place = "writing" \/ (udp.closing /\ udpAt[t].place = "reading")
                 THEN [udpAt[t] EXCEPT !.woken = TRUE] ELSE udpAt[t]]
  /\ UNCHANGED packets

\* connection_lost() that close() has scheduled, with nothing in the buffer
UdpLost ==
  /\ udp.closing /\ ~udp.lost /\ udp.buffer = 0
  /\ udp' = [udp EXCEPT !.lost = TRUE, !.readSet = TRUE, !.writeSet = TRUE]
  /\ udpAt' = [t \in UdpUser |-> IF udpAt[t].place \in {"reading", "writing"}
                                 THEN [udpAt[t] EXCEPT !.woken = TRUE] ELSE udpAt[t]]
  /\ UNCHANGED packets

-----------------------------------------------------------------------------
(* receive(), send(), aclose() *)

StartUdpReceive(t) ==
  /\ udpAt[t] = Out /\ ~udp.receiveGuard
  /\ UdpGoes(t, "receives")
  /\ udp' = [udp EXCEPT !.receiveGuard = TRUE]
  /\ UNCHANGED packets

\* A mutant: the event is not cleared.
Cleared(set) == set
Unset(set) == FALSE

\* Past the checkpoint; asyncio's wait() returns at once if the event is set.
UdpWaits(t) ==
  /\ udpAt[t].place = "receives" /\ ~udpAt[t].cut
  /\ udp.queue = <<>> /\ ~udp.closing
  /\ udp' = [udp EXCEPT !.readSet = Unset(@)]
  /\ udpAt' = [udpAt EXCEPT ![t] = [Out EXCEPT !.place = "reading", !.woken = Unset(udp.readSet)]]
  /\ UNCHANGED packets

UdpReceives(t) ==
  /\ ~udpAt[t].cut
  /\ \/ udpAt[t].place = "receives" /\ (udp.queue # <<>> \/ udp.closing)
     \/ udpAt[t].place = "reading" /\ udpAt[t].woken
  /\ UdpGoes(t, "out")
  /\ IF udp.queue # <<>>
     THEN /\ udp' = [udp EXCEPT !.queue = Tail(@), !.receiveGuard = FALSE]
          /\ packets' = [packets EXCEPT !.received = Append(@, Head(udp.queue))]
     ELSE /\ udp' = [udp EXCEPT !.receiveGuard = FALSE]
          /\ packets' = [packets EXCEPT !.broken = @ \/ ~udp.closed]

StartUdpSend(t) ==
  /\ udpAt[t] = Out /\ ~udp.sendGuard /\ udp.sent < MaxPackets
  /\ UdpGoes(t, "sends")
  /\ udp' = [udp EXCEPT !.sendGuard = TRUE]
  /\ UNCHANGED packets

\* Past the checkpoint, and past the wait for the event: sendto(), which may keep
\* the packet and call pause_writing(); or an error, as the socket was closed.
UdpSends(t) ==
  /\ ~udpAt[t].cut
  /\ udpAt[t].place = "sends" \/ (udpAt[t].place = "writing" /\ udpAt[t].woken)
  /\ \/ /\ udpAt[t].place = "sends" /\ ~udp.writeSet
        /\ UdpGoes(t, "writing")
        /\ UNCHANGED udp
     \/ /\ udpAt[t].place = "sends" => udp.writeSet
        /\ UdpGoes(t, "out")
        /\ LET s == [udp EXCEPT !.sendGuard = FALSE]
               kept == [s EXCEPT !.sent = @ + 1, !.buffer = @ + 1]
           IN \/ udp.closing /\ udp' = s
              \/ ~udp.closing /\ udp.buffer = 0 /\ udp' = [s EXCEPT !.sent = @ + 1]
              \/ ~udp.closing /\ udp' \in {kept, [kept EXCEPT !.writeSet = FALSE]}
  /\ UNCHANGED packets

\* A CancelledError at any await
UdpAborted(t) ==
  /\ udpAt[t].cut
  /\ UdpGoes(t, "out")
  /\ udp' = IF t \in UdpReader THEN [udp EXCEPT !.receiveGuard = FALSE]
            ELSE [udp EXCEPT !.sendGuard = FALSE]
  /\ UNCHANGED packets

CancelUdp(t) ==
  /\ udpAt[t] # Out /\ ~udpAt[t].cut
  /\ udpAt' = [udpAt EXCEPT ![t].cut = TRUE]
  /\ UNCHANGED <<udp, packets>>

CloseUdp ==
  /\ ~udp.closing
  /\ udp' = [udp EXCEPT !.closed = TRUE, !.closing = TRUE]
  /\ UNCHANGED <<udpAt, packets>>

UdpNext ==
  \/ DatagramReceived \/ SendtoReady \/ UdpLost \/ CloseUdp
  \/ \E t \in UdpReader : StartUdpReceive(t) \/ UdpWaits(t) \/ UdpReceives(t)
  \/ \E t \in UdpWriter : StartUdpSend(t) \/ UdpSends(t)
  \/ \E t \in UdpUser : UdpAborted(t) \/ CancelUdp(t)

-----------------------------------------------------------------------------
\* A packet that came in is received, once and in order, waits in the queue, or
\* was pushed out of a full queue: no cancelled receive() takes one along.
\* Nobody waits while there is a packet or the socket is gone, and receive() never
\* takes an open socket for a broken one.
PacketsAccounted ==
  /\ LET kept == packets.received \o udp.queue IN
     /\ \A i, j \in DOMAIN kept : i < j => kept[i] < kept[j]
     /\ {kept[i] : i \in DOMAIN kept} = (1..packets.came) \ packets.pushedOut
  /\ \A t \in UdpReader :
       udpAt[t].place = "reading" /\ ~udpAt[t].woken =>
         udp.queue = <<>> /\ ~udp.readSet /\ ~udp.lost
  /\ ~packets.broken
=============================================================================
