--------------------------- MODULE SocketListener ---------------------------
(***************************************************************************)
(* TCPSocketListener and UNIXSocketListener of the asyncio backend.  The   *)
(* first accepts through sock_accept() of the loop, inside a scope that    *)
(* aclose() cancels; the second calls accept() of the socket and waits for *)
(* the socket to be readable.  The tasks may be cancelled at any await.    *)
(***************************************************************************)
EXTENDS Naturals, FiniteSets

CONSTANTS
  Acceptor,        \* tasks that call accept()
  ListenerCloser,  \* tasks that call aclose()
  MaxConnections   \* bound: the connections that come in

VARIABLES
  listener,   \* the listener and its socket
  accepting,  \* where each task is in accept(), its future, and whether it is cancelled
  closing,    \* the tasks that have yielded in aclose()
  fates       \* history: the connections that came in, were handed on, and were dropped

listenerVars == <<listener, accepting, closing, fates>>

Away == [place |-> "away", future |-> "none", cut |-> FALSE]

ListenerInit ==
  /\ \E kind \in {"tcp", "unix"} :
       listener = [kind |-> kind, closed |-> FALSE, open |-> TRUE, guard |-> FALSE,
                   scope |-> FALSE,      \* _accept_scope is set
                   backlog |-> 0,
                   everCut |-> FALSE]    \* history: a task was cancelled in accept()
  /\ accepting = [t \in Acceptor |-> Away]
  /\ closing = {}
  /\ fates = [came |-> 0, handed |-> 0, dropped |-> 0]

Incoming ==
  /\ listener.open /\ fates.came < MaxConnections
  /\ listener' = [listener EXCEPT !.backlog = @ + 1]
  /\ fates' = [fates EXCEPT !.came = @ + 1]
  /\ UNCHANGED <<accepting, closing>>

-----------------------------------------------------------------------------
\* The TCP listener is checked and guarded before the checkpoint, the UNIX
\* listener after it.
StartAccept(t) ==
  /\ accepting[t] = Away
  /\ listener.kind = "tcp" => ~listener.closed /\ ~listener.guard
  /\ accepting' = [accepting EXCEPT ![t].place = "checkpoint"]
  /\ listener' = [listener EXCEPT !.guard = @ \/ listener.kind = "tcp"]
  /\ UNCHANGED <<closing, fates>>

Quits(t) ==
  /\ accepting' = [accepting EXCEPT ![t] = Away]
  /\ listener' = [listener EXCEPT !.guard = FALSE, !.scope = FALSE]

\* sock_accept(): an error on a socket that is closed, a connection at once, or a
\* future inside the scope; then connect_accepted_socket(), past the guard.
TcpAccepts(t) ==
  /\ listener.kind = "tcp" /\ accepting[t].place = "checkpoint" /\ ~accepting[t].cut
  /\ \/ ~listener.open /\ Quits(t)
     \/ /\ listener.open /\ listener.backlog > 0
        /\ accepting' = [accepting EXCEPT ![t].place = "connecting"]
        /\ listener' = [listener EXCEPT !.backlog = @ - 1, !.guard = FALSE]
     \/ /\ listener.open /\ listener.backlog = 0
        /\ accepting' = [accepting EXCEPT ![t].place = "waiting", ![t].future = "pending"]
        /\ listener' = [listener EXCEPT !.scope = TRUE]
  /\ UNCHANGED <<closing, fates>>

\* A round of the loop in accept(): BusyResourceError before the first one
UnixAccepts(t) ==
  /\ listener.kind = "unix" /\ ~accepting[t].cut
  /\ \/ accepting[t].place = "checkpoint" \/ accepting[t].future = "ready"
  /\ \/ /\ accepting[t].place = "checkpoint" /\ listener.guard
        /\ accepting' = [accepting EXCEPT ![t] = Away]
        /\ UNCHANGED <<listener, fates>>
     \/ /\ accepting[t].place = "checkpoint" => ~listener.guard
        /\ \/ ~listener.open /\ Quits(t) /\ UNCHANGED fates
           \/ /\ listener.open /\ listener.backlog > 0
              /\ accepting' = [accepting EXCEPT ![t] = Away]
              /\ listener' = [listener EXCEPT !.backlog = @ - 1, !.guard = FALSE]
              /\ fates' = [fates EXCEPT !.handed = @ + 1]
           \/ /\ listener.open /\ listener.backlog = 0
              /\ accepting' = [accepting EXCEPT ![t].place = "waiting", ![t].future = "pending"]
              /\ listener' = [listener EXCEPT !.guard = TRUE]
              /\ UNCHANGED fates
  /\ UNCHANGED closing

\* The loop finds the socket readable.  sock_accept() takes the connection for
\* its future even if that has just been cancelled, and loses it then.
Readable(t) ==
  /\ listener.open /\ listener.backlog > 0
  /\ \/ /\ listener.kind = "unix" /\ accepting[t].future = "pending"
        /\ accepting' = [accepting EXCEPT ![t].future = "ready"]
        /\ UNCHANGED <<listener, fates>>
     \/ /\ listener.kind = "tcp"
        /\ listener' = [listener EXCEPT !.backlog = @ - 1]
        /\ \/ /\ accepting[t].future = "pending"
              /\ accepting' = [accepting EXCEPT ![t].future = "connection"]
              /\ UNCHANGED fates
           \/ /\ accepting[t].future = "cancelled" /\ ~listener.closed
              /\ fates' = [fates EXCEPT !.dropped = @ + 1]
              /\ UNCHANGED accepting
  /\ UNCHANGED closing

\* The task of a TCP listener is stepped with its connection or a CancelledError,
\* which drops the connection it was about to get.
TcpWakes(t) ==
  /\ listener.kind = "tcp" /\ accepting[t].place = "waiting" /\ accepting[t].future # "pending"
  /\ IF accepting[t].future = "connection" /\ ~accepting[t].cut
     THEN /\ accepting' = [accepting EXCEPT ![t].place = "connecting", ![t].future = "none"]
          /\ listener' = [listener EXCEPT !.guard = FALSE, !.scope = FALSE]
          /\ UNCHANGED fates
     ELSE /\ Quits(t)
          /\ fates' = IF accepting[t].future = "connection"
                      THEN [fates EXCEPT !.dropped = @ + 1] ELSE fates
  /\ UNCHANGED closing

\* connect_accepted_socket() ends; when it is cancelled it closes the connection.
Connected(t) ==
  /\ accepting[t].place = "connecting"
  /\ accepting' = [accepting EXCEPT ![t] = Away]
  /\ fates' = IF accepting[t].cut THEN [fates EXCEPT !.dropped = @ + 1]
              ELSE [fates EXCEPT !.handed = @ + 1]
  /\ UNCHANGED <<listener, closing>>

\* A CancelledError in the checkpoint, or at the future of the UNIX listener
AcceptAborted(t) ==
  /\ accepting[t].cut
  /\ \/ /\ accepting[t].place = "checkpoint"
        /\ IF listener.kind = "tcp" THEN Quits(t)
           ELSE accepting' = [accepting EXCEPT ![t] = Away] /\ UNCHANGED listener
     \/ listener.kind = "unix" /\ accepting[t].place = "waiting" /\ Quits(t)
  /\ UNCHANGED <<closing, fates>>

CancelAccept(t) ==
  /\ accepting[t].place # "away" /\ ~accepting[t].cut
  /\ accepting' = [accepting EXCEPT ![t].cut = TRUE,
                                    ![t].future = IF @ = "pending" THEN "cancelled" ELSE @]
  /\ listener' = [listener EXCEPT !.everCut = TRUE]
  /\ UNCHANGED <<closing, fates>>

-----------------------------------------------------------------------------
\* A mutant: the cancellation also hits a task whose future is done.
ReleasedAll(future) == IF future # "none" THEN "released" ELSE future
\* A mutant: it hits nobody.
ReleasedNone(future) == future
\* What cancel() of the scope does to the future, whose socket is not watched any
\* more; a task that is about to be stepped is left alone.
Released(future) == IF future = "pending" THEN "released" ELSE future

\* aclose() of the TCP listener yields before it closes the socket if somebody is
\* in accept().
CloseTcp(c) ==
  /\ listener.kind = "tcp" /\ ~listener.closed
  /\ IF listener.scope
     THEN /\ accepting' = [t \in Acceptor |->
                             [accepting[t] EXCEPT !.future = Released(@)]]
          /\ closing' = closing \union {c}
          /\ listener' = [listener EXCEPT !.closed = TRUE]
     ELSE /\ listener' = [listener EXCEPT !.closed = TRUE, !.open = FALSE]
          /\ UNCHANGED <<accepting, closing>>
  /\ UNCHANGED fates

\* After the yield; a cancellation in it leaves the socket open for good.
CloseTcpEnds(c) ==
  /\ c \in closing
  /\ closing' = closing \ {c}
  /\ listener' \in {listener, [listener EXCEPT !.open = FALSE]}
  /\ UNCHANGED <<accepting, fates>>

\* aclose() of the UNIX listener tells nobody.
CloseUnix ==
  /\ listener.kind = "unix" /\ listener.open
  /\ listener' = [listener EXCEPT !.closed = TRUE, !.open = FALSE]
  /\ UNCHANGED <<accepting, closing, fates>>

ListenerNext ==
  \/ Incoming \/ CloseUnix
  \/ \E t \in Acceptor :
       \/ StartAccept(t) \/ TcpAccepts(t) \/ UnixAccepts(t) \/ Readable(t)
       \/ TcpWakes(t) \/ Connected(t) \/ AcceptAborted(t) \/ CancelAccept(t)
  \/ \E c \in ListenerCloser : CloseTcp(c) \/ CloseTcpEnds(c)

-----------------------------------------------------------------------------
\* Closing a TCP listener leaves nobody waiting in accept(), and loses none of the
\* connections that were taken from its socket: each is handed on, unless its own
\* task was cancelled.
ConnectionsKept ==
  /\ listener.kind = "tcp" /\ listener.closed =>
       \A t \in Acceptor : accepting[t].future # "pending"
  /\ fates.dropped > 0 => listener.everCut
  /\ fates.came = listener.backlog + fates.handed + fates.dropped
       + Cardinality({t \in Acceptor : accepting[t].place = "connecting"
                                        \/ accepting[t].future = "connection"})
=============================================================================
