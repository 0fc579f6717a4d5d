-------------------------- MODULE SocketComponents --------------------------
(***************************************************************************)
(* The components have a state of their own and meet the others only       *)
(* through calls: each behaviour is one of a single component, which its   *)
(* initial state chooses.  The variables take the state of that component, *)
(* in the order in which its module lists them.  Here: the components that *)
(* stand on sockets, transports and signals; Components has the rest.      *)
(***************************************************************************)
EXTENDS Naturals, Sequences, FiniteSets

\* The parameters of the components, by the names they have there
CONSTANTS
  Reader, Writer, Closer, Chunks, MaxBytes,            \* SocketStream
  Delimiters, MaxBuffered, MaxLimit,             \* BufferedStream
  RawReceiver, RawSender, Pieces, MaxPieces,     \* RawSocket
  Acceptor, ListenerCloser, MaxConnections,      \* SocketListener
  UdpReader, UdpWriter, MaxQueue, MaxPackets,    \* Datagram
  Waiter, Direction, NoWaiter,                   \* WaitSocket
  Addresses,                                     \* SocketSetup
  MaxAddresses,                                  \* ConnectTcp
  TlsReader, TlsWriter, TlsCloser, MaxRecords,   \* TlsStream
  Receiver, NoReceiver, MaxSignals               \* SignalReceiver

\* A chunk is not empty.
ASSUME ChunkAssumption == Chunks \subseteq Nat \ {0}
\* A delimiter is a sequence of bytes; the bounds of BufferedStream are numbers.
ASSUME BufferAssumption ==
  Delimiters \subseteq Seq({0, 1}) /\ MaxBuffered \in Nat /\ MaxLimit \in Nat
\* A task of RawSocket receives or sends, an item has at least one piece.
ASSUME RawAssumption == RawReceiver \intersect RawSender = {} /\ Pieces \in Nat \ {0}
\* A task of Datagram receives or sends, its queue holds a packet at least.
ASSUME UdpAssumption ==
  UdpReader \intersect UdpWriter = {} /\ MaxQueue \in Nat \ {0} /\ MaxPackets \in Nat
\* There are finitely many tasks that accept; the bounds of SocketSetup and
\* ConnectTcp are numbers.
ASSUME ListenerAssumption == IsFiniteSet(Acceptor)
ASSUME AddressAssumption == Addresses \in Nat /\ MaxAddresses \in Nat
\* A task of TlsStream receives, sends or closes.
ASSUME TlsAssumption ==
  TlsReader \intersect TlsWriter = {} /\ TlsCloser \notin TlsReader \union TlsWriter
\* What stands for nobody is nobody.
ASSUME WaiterAssumption == NoWaiter \notin Waiter

VARIABLES component, a, b, c, d, e, f, g

allVars == <<component, a, b, c, d, e, f, g>>

Stream == INSTANCE SocketStream WITH
  sock <- a, wire <- b, sent <- c, at <- d, got <- e, ended <- f
Raw == INSTANCE RawSocket WITH
  raw <- a, rawAt <- b, left <- c, outgoing <- d
Listener == INSTANCE SocketListener WITH
  listener <- a, accepting <- b, closing <- c, fates <- d
Udp == INSTANCE Datagram WITH
  udp <- a, udpAt <- b, packets <- c
Wait == INSTANCE WaitSocket WITH
  events <- a, watched <- b, waits <- c, sockOpen <- d
Setup == INSTANCE SocketSetup WITH
  job <- a, socks <- b, path <- c
Connect == INSTANCE ConnectTcp WITH
  families <- a, targets <- b, attempts <- c, caller <- d, winner <- e, cancelled <- f
Tls == INSTANCE TlsStream WITH
  tls <- a, tlsAt <- b, net <- c, past <- d
Buffered == INSTANCE BufferedStream WITH
  MaxInput <- MaxBuffered,
  ofBytes <- a, input <- b, unread <- c, buffer <- d, reading <- e, taken <- f, isClosed <- g
Signals == INSTANCE SignalReceiver WITH
  handler <- a, receivers <- b, arrived <- c, heard <- d, displaced <- e

\* The variables that the state of a component leaves over
BlankG == g = <<>>
BlankF == f = <<>> /\ BlankG
BlankE == e = <<>> /\ BlankF
BlankD == d = <<>> /\ BlankE
BlankC == c = <<>> /\ BlankD

SocketInit ==
  \/ component = "Stream" /\ Stream!SocketInit /\ BlankG
  \/ component = "Buffered" /\ Buffered!BufferInit
  \/ component = "Raw" /\ Raw!RawInit /\ BlankE
  \/ component = "Listener" /\ Listener!ListenerInit /\ BlankE
  \/ component = "Udp" /\ Udp!UdpInit /\ BlankD
  \/ component = "Wait" /\ Wait!WaitInit /\ BlankE
  \/ component = "Setup" /\ Setup!SetupInit /\ BlankD
  \/ component = "Connect" /\ Connect!ConnectInit /\ BlankG
  \/ component = "Tls" /\ Tls!TlsInit /\ BlankE
  \/ component = "Signals" /\ Signals!SignalInit /\ BlankF

SocketNext ==
  \/ component = "Stream" /\ Stream!SocketNext /\ UNCHANGED <<component, g>>
  \/ component = "Buffered" /\ Buffered!BufferNext /\ UNCHANGED component
  \/ component = "Raw" /\ Raw!RawNext /\ UNCHANGED <<component, e, f, g>>
  \/ component = "Listener" /\ Listener!ListenerNext /\ UNCHANGED <<component, e, f, g>>
  \/ component = "Udp" /\ Udp!UdpNext /\ UNCHANGED <<component, d, e, f, g>>
  \/ component = "Wait" /\ Wait!WaitNext /\ UNCHANGED <<component, e, f, g>>
  \/ component = "Setup" /\ Setup!SetupNext /\ UNCHANGED <<component, d, e, f, g>>
  \/ component = "Connect" /\ Connect!ConnectNext /\ UNCHANGED <<component, g>>
  \/ component = "Tls" /\ Tls!TlsNext /\ UNCHANGED <<component, e, f, g>>
  \/ component = "Signals" /\ Signals!SignalNext /\ UNCHANGED <<component, f, g>>

SocketSpec == SocketInit /\ [][SocketNext]_allVars

-----------------------------------------------------------------------------
\* SocketStream and BufferedByteReceiveStream: no byte is lost, doubled or reordered.
BytesInOrder ==
  /\ component = "Stream" => Stream!BytesInOrder
  /\ component = "Buffered" => Buffered!NoByteLost

\* A task that waits for a socket, a stream or a signal waits for something that has
\* not come yet; it is registered with the loop for it, unless, of a signal, somebody
\* else has taken the handler away.
WaitersAreWoken ==
  /\ component = "Stream" => Stream!WaitsForEvents
  /\ component = "Raw" => Raw!CloseReleases
  /\ component = "Wait" => Wait!WaitersAreWatched
  /\ component = "Buffered" => Buffered!WaitsForMore
  /\ component = "Signals" => Signals!SignalsHeard

\* UNIX sockets and UDP: what one call sends arrives in one piece and in order, and a
\* packet is received, in the queue, or was dropped by the limit of the queue.
PacketsKept ==
  /\ component = "Raw" => Raw!ItemsInOnePiece
  /\ component = "Udp" => Udp!PacketsAccounted

\* The calls that make sockets: each socket is handed to the caller or closed, also
\* when an attempt fails or loses, but for the one that a call was at when it failed or
\* was cancelled itself; a connection is given to one acceptor.
SocketsHandedOn ==
  /\ component = "Setup" => Setup!SocketsHandedOn
  /\ component = "Connect" => Connect!OneStream /\ Connect!TargetsInterleaved
  /\ component = "Listener" => Listener!ConnectionsKept

\* TLSStream: records leave in the order in which they were made and no answer is
\* skipped, whichever of its tasks flushes them; a transport that ends without
\* close_notify is not taken for the end of the data.
RecordsInOrder == component = "Tls" => Tls!RecordsInOrder /\ Tls!NoTruncation
=============================================================================
