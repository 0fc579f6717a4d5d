----------------------------- MODULE WaitSocket -----------------------------
(***************************************************************************)
(* wait_socket_readable() and wait_socket_writable() of the asyncio        *)
(* backend: an event per socket and direction, which the loop sets as long *)
(* as it watches the socket.  The socket is the user's, who may close it.  *)
(***************************************************************************)
EXTENDS Naturals, FiniteSets

CONSTANTS
  Waiter,     \* tasks that wait for the one socket
  Direction,  \* "reading" and "writing"
  NoWaiter    \* not a task

VARIABLES
  events,    \* read_events and write_events: whose event there is, by direction
  watched,   \* the directions in which the loop watches the socket
  waits,     \* of each task: where it is, in which direction, its event, cancelled
  sockOpen   \* the socket has not been closed

waitVars == <<events, watched, waits, sockOpen>>

Absent == [place |-> "absent", dir |-> "none", set |-> FALSE, cut |-> FALSE]

WaitInit ==
  /\ events = [d \in Direction |-> NoWaiter]
  /\ watched = {}
  /\ waits = [t \in Waiter |-> Absent]
  /\ sockOpen = TRUE

StartWaiting(t, d) ==
  /\ waits[t] = Absent
  /\ waits' = [waits EXCEPT ![t] = [Absent EXCEPT !.place = "checkpoint", !.dir = d]]
  /\ UNCHANGED <<events, watched, sockOpen>>

\* A mutant: the second task takes the place of the first.
FreeAlways(d) == TRUE
FreeDirection(d) == events[d] = NoWaiter

\* Past the checkpoint: BusyResourceError, ValueError from add_reader() of a
\* closed socket, which leaves the event behind, or the wait.
Watches(t, d) ==
  /\ waits[t].place = "checkpoint" /\ waits[t].dir = d /\ ~waits[t].cut
  /\ IF ~FreeDirection(d)
     THEN waits' = [waits EXCEPT ![t] = Absent] /\ UNCHANGED <<events, watched>>
     ELSE /\ events' = [events EXCEPT ![d] = t]
          /\ IF sockOpen
             THEN /\ watched' = watched \union {d}
                  /\ waits' = [waits EXCEPT ![t].place = "waiting"]
             ELSE waits' = [waits EXCEPT ![t] = Absent] /\ UNCHANGED watched
  /\ UNCHANGED sockOpen

\* The loop calls set() of the event it was given.
SocketReady(d) ==
  /\ d \in watched /\ sockOpen
  /\ \E t \in Waiter :
       /\ waits[t].place = "waiting" /\ events[d] = t
       /\ waits' = [waits EXCEPT ![t].set = TRUE]
  /\ UNCHANGED <<events, watched, sockOpen>>

\* The wait ends, or is cancelled: the entry of the direction is removed, whoever
\* made it, and the loop stops watching.
StopsWaiting(t) ==
  /\ waits[t].place = "waiting" /\ (waits[t].set \/ waits[t].cut)
  /\ LET d == waits[t].dir IN
     /\ events' = [events EXCEPT ![d] = NoWaiter]
     /\ watched' = IF events[d] # NoWaiter THEN watched \ {d} ELSE watched
  /\ waits' = [waits EXCEPT ![t] = Absent]
  /\ UNCHANGED sockOpen

LeavesCheckpoint(t) ==
  /\ waits[t].place = "checkpoint" /\ waits[t].cut
  /\ waits' = [waits EXCEPT ![t] = Absent]
  /\ UNCHANGED <<events, watched, sockOpen>>

CancelWaiting(t) ==
  /\ waits[t] # Absent /\ ~waits[t].cut
  /\ waits' = [waits EXCEPT ![t].cut = TRUE]
  /\ UNCHANGED <<events, watched, sockOpen>>

\* close() of the socket; the loop never hears of it again.
CloseSocket ==
  /\ sockOpen
  /\ sockOpen' = FALSE
  /\ UNCHANGED <<events, watched, waits>>

WaitNext ==
  \/ \E t \in Waiter :
       \/ \E d \in Direction : StartWaiting(t, d) \/ Watches(t, d)
       \/ StopsWaiting(t) \/ LeavesCheckpoint(t) \/ CancelWaiting(t)
  \/ \E d \in Direction : SocketReady(d)
  \/ CloseSocket

-----------------------------------------------------------------------------
\* A task that waits is the one whose event the loop sets, in either direction,
\* however the tasks before it ended; only add_reader() of a closed socket leaves
\* an entry without a task.
WaitersAreWatched ==
  /\ \A t \in Waiter : waits[t].place = "waiting" =>
       events[waits[t].dir] = t /\ waits[t].dir \in watched
  /\ \A d \in Direction : sockOpen /\ events[d] # NoWaiter =>
       waits[events[d]].place = "waiting" /\ waits[events[d]].dir = d
=============================================================================
