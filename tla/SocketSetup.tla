---------------------------- MODULE SocketSetup ----------------------------
(***************************************************************************)
(* The calls that make sockets: create_tcp_listener(),                     *)
(* create_unix_listener(), connect_unix(), and the two forms of            *)
(* create_unix_datagram_socket().  A call opens its sockets one by one and *)
(* hands them on, or raises.  bind() of a path runs in a worker thread     *)
(* that is abandoned when the call is cancelled.                           *)
(***************************************************************************)
EXTENDS Naturals

CONSTANT Addresses   \* the number of addresses that getaddrinfo() returns

VARIABLES
  job,     \* the call, where it is, and which address it is at
  socks,   \* what became of each of its sockets
  path     \* whether the path exists, and whether a thread is about to bind it

setupVars == <<job, socks, path>>

Calls == {"tcp_listener", "unix_listener", "connect_unix", "unix_datagram",
          "connected_datagram"}
Sock == 1..Addresses

SetupInit ==
  /\ \E call \in Calls : job = [call |-> call, step |-> "begin", at |-> 1]
  /\ socks = [s \in Sock |-> "none"]
  /\ \E stale \in BOOLEAN : path = [exists |-> stale, binding |-> FALSE]

\* A mutant: the last listener is the only one that is closed.
ClosedLast(s) == [s EXCEPT ![job.at - 1] = "closed"]
\* Every listener in the list is closed.
ClosedAll(s) == [i \in Sock |-> IF s[i] = "listening" THEN "closed" ELSE s[i]]

Raises(s) == job' = [job EXCEPT !.step = "raised"] /\ socks' = s
Returns(s) == job' = [job EXCEPT !.step = "returned"] /\ socks' = s

-----------------------------------------------------------------------------
\* create_tcp_listener() for one address: the socket joins the list once it
\* listens; an error before that does not close it.
ListenAt ==
  /\ job.call = "tcp_listener" /\ job.step = "begin" /\ job.at <= Addresses
  /\ \/ /\ socks' = [socks EXCEPT ![job.at] = "listening"]
        /\ job' = [job EXCEPT !.at = @ + 1]
     \/ Raises(IF job.at = 1 THEN [socks EXCEPT ![job.at] = "open"]
               ELSE [ClosedAll(socks) EXCEPT ![job.at] = "open"])
  /\ UNCHANGED path

ListenAtAll ==
  /\ job.call = "tcp_listener" /\ job.step = "begin" /\ job.at > Addresses
  /\ Returns([s \in Sock |-> "given"])
  /\ UNCHANGED path

-----------------------------------------------------------------------------
\* setup_unix_local_socket(): a socket at the path is removed, and the thread
\* starts to bind.
SetupLocal ==
  /\ job.call \in {"unix_listener", "unix_datagram", "connected_datagram"}
  /\ job.step = "begin"
  /\ socks' = [socks EXCEPT ![1] = "open"]
  /\ \/ /\ job' = [job EXCEPT !.step = "binding"]
        /\ path' = [exists |-> FALSE, binding |-> TRUE]
     \/ /\ job.call # "unix_listener"   \* no local path
        /\ job' = [job EXCEPT !.step = "bound"]
        /\ UNCHANGED path

\* The thread binds, and chmod() follows; or either fails.
ThreadBinds ==
  /\ path.binding
  /\ \/ /\ path' = [exists |-> TRUE, binding |-> FALSE]
        /\ IF job.step = "binding"
           THEN \/ job' = [job EXCEPT !.step = "bound"] /\ UNCHANGED socks
                \/ Raises([socks EXCEPT ![1] = "closed"])
           ELSE UNCHANGED <<job, socks>>
     \/ /\ path' = [path EXCEPT !.binding = FALSE]
        /\ IF job.step = "binding" THEN Raises([socks EXCEPT ![1] = "closed"])
           ELSE UNCHANGED <<job, socks>>

\* A mutant: an abandoned bind() leaves the socket to the thread.
AbandonedOpen == socks
Abandoned == [socks EXCEPT ![1] = "closed"]

BindAbandoned ==
  /\ job.step = "binding"
  /\ Raises(Abandoned)
  /\ UNCHANGED path

\* listen()
ListenUnix ==
  /\ job.call = "unix_listener" /\ job.step = "bound"
  /\ Returns([socks EXCEPT ![1] = "given"]) \/ Raises([socks EXCEPT ![1] = "closed"])
  /\ UNCHANGED path

-----------------------------------------------------------------------------
\* connect_unix() opens its socket after a checkpoint, which may be cancelled.
ConnectUnix ==
  /\ job.call = "connect_unix" /\ job.step = "begin"
  /\ \/ Raises(socks)
     \/ /\ job' = [job EXCEPT !.step = "connecting"]
        /\ socks' = [socks EXCEPT ![1] = "open"]
  /\ UNCHANGED path

\* The checkpoint of create_unix_datagram_socket(): a cancellation in it leaves
\* the socket open.
DatagramCheckpoint ==
  /\ job.call \in {"unix_datagram", "connected_datagram"} /\ job.step = "bound"
  /\ \/ Raises(socks)
     \/ /\ job.call = "unix_datagram"
        /\ Returns([socks EXCEPT ![1] = "given"])
     \/ /\ job.call = "connected_datagram"
        /\ job' = [job EXCEPT !.step = "connecting"] /\ UNCHANGED socks
  /\ UNCHANGED path

\* connect(), again after each wait until it does not block; an error closes the
\* socket.
Connect ==
  /\ job.step = "connecting"
  /\ \/ Returns([socks EXCEPT ![1] = "given"])
     \/ Raises([socks EXCEPT ![1] = "closed"])
     \/ /\ job' = [job EXCEPT !.step = "waiting"]
        /\ UNCHANGED socks
  /\ UNCHANGED path

\* The wait ends; a CancelledError in it is raised by the handler of the
\* BlockingIOError, past the clause that would close the socket.
ConnectWaits ==
  /\ job.step = "waiting"
  /\ \/ job' = [job EXCEPT !.step = "connecting"] /\ UNCHANGED socks
     \/ Raises(socks)
  /\ UNCHANGED path

SetupNext ==
  \/ ListenAt \/ ListenAtAll \/ SetupLocal \/ ThreadBinds \/ BindAbandoned
  \/ ListenUnix \/ ConnectUnix \/ DatagramCheckpoint \/ Connect \/ ConnectWaits

-----------------------------------------------------------------------------
\* A call that returns hands on all that it opened.  One that raises has closed it:
\* a TCP listener but for the socket it was working on, and a UNIX listener all,
\* also if it is cancelled while the thread binds.
SocketsHandedOn ==
  /\ job.step = "returned" => \A s \in Sock : socks[s] \in {"none", "given"}
  /\ job.step = "raised" /\ job.call \in {"tcp_listener", "unix_listener"} =>
       \A s \in Sock : socks[s] \in {"none", "closed"}
                       \/ (job.call = "tcp_listener" /\ s = job.at)
=============================================================================
