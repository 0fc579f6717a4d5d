----------------------------- MODULE RawSocket -----------------------------
(***************************************************************************)
(* The UNIX sockets of the asyncio backend: each call retries a call of    *)
(* the kernel, and waits on a future that the loop sets when the socket is *)
(* ready.  A socket is a stream or takes packets; an item is sent in       *)
(* pieces, a packet and a message with file descriptors in one.            *)
(* A cancellation may come at any await.                                   *)
(***************************************************************************)
EXTENDS Naturals, FiniteSets, Sequences

CONSTANTS
  RawReceiver,  \* tasks that call receive() or receive_fds()
  RawSender,    \* tasks that call send() or send_fds()
  Pieces,       \* the number of pieces of an item that is sent to a stream
  MaxPieces     \* bound: the pieces that are sent

VARIABLES
  raw,       \* the socket: its kind, _closing, the guards and the futures
  rawAt,     \* where each task is, in a call with file descriptors or not, and
             \* whether it has been cancelled there
  left,      \* the pieces of each sender's item that are still to be sent
  outgoing   \* history: who sent the pieces, in order

rawVars == <<raw, rawAt, left, outgoing>>

RawUser == RawReceiver \union RawSender
Size == IF raw.kind = "stream" THEN Pieces ELSE 1
Side(t) == IF t \in RawReceiver THEN "receive" ELSE "send"

RawInit ==
  /\ \E kind \in {"stream", "packets"} :
       raw = [kind |-> kind, closing |-> FALSE,
              closeFailed |-> FALSE,   \* history: aclose() raised InvalidStateError
              guard |-> [s \in {"receive", "send"} |-> FALSE],
              future |-> [s \in {"receive", "send"} |-> "none"]]
  /\ rawAt = [t \in RawUser |-> [place |-> "idle", fds |-> FALSE, cut |-> FALSE]]
  /\ left = [t \in RawSender |-> 0]
  /\ outgoing = <<>>

RawGoes(t, place) == rawAt' = [rawAt EXCEPT ![t].place = place, ![t].cut = FALSE]

-----------------------------------------------------------------------------
\* A call starts with a checkpoint, before it enters its guard.
StartCall(t) ==
  /\ rawAt[t].place = "idle"
  /\ \E fds \in {FALSE, raw.kind = "stream"} :
       rawAt' = [rawAt EXCEPT ![t] = [place |-> "checkpoint", fds |-> fds, cut |-> FALSE]]
  /\ \/ t \in RawReceiver /\ UNCHANGED left
     \/ /\ t \in RawSender /\ Len(outgoing) + Size <= MaxPieces
        /\ left' = [left EXCEPT ![t] = Size]
  /\ UNCHANGED <<raw, outgoing>>

\* A mutant: two tasks may be inside.
NeverGuarded(t) == FALSE
Guarded(t) == raw.guard[Side(t)]

\* The task may go on: past the checkpoint and the guard, or the future is done,
\* whose callback removes it and the loop's watch on the socket.
MayGoOn(t) ==
  /\ ~rawAt[t].cut
  /\ \/ rawAt[t].place = "checkpoint" /\ ~Guarded(t)
     \/ rawAt[t].place = "waiting" /\ raw.future[Side(t)] = "done"

Leaves(t) ==
  /\ raw' = [raw EXCEPT !.guard[Side(t)] = FALSE, !.future[Side(t)] = "none"]
  /\ RawGoes(t, "idle")

\* _wait_until_readable() and _wait_until_writable(); a closed socket raises
\* OSError before.
WaitUntilReady(t) ==
  /\ ~raw.closing
  /\ raw' = [raw EXCEPT !.guard[Side(t)] = TRUE, !.future[Side(t)] = "pending"]
  /\ RawGoes(t, "waiting")

\* A round of a call that receives: it ends, with data, EndOfStream or an error,
\* or waits.
Round(t) == MayGoOn(t) /\ (Leaves(t) \/ WaitUntilReady(t))

\* receive() of a stream
StreamReceives(t) ==
  /\ t \in RawReceiver /\ raw.kind = "stream" /\ ~rawAt[t].fds
  /\ Round(t)
  /\ UNCHANGED <<left, outgoing>>

\* receive_fds(); what it makes of the ancillary data comes after the guard.
FdsReceives(t) ==
  /\ t \in RawReceiver /\ rawAt[t].fds
  /\ Round(t)
  /\ UNCHANGED <<left, outgoing>>

\* receive() of the datagram sockets
PacketReceives(t) ==
  /\ t \in RawReceiver /\ raw.kind = "packets"
  /\ Round(t)
  /\ UNCHANGED <<left, outgoing>>

Sent(t, k) ==
  /\ k > 0 => ~raw.closing
  /\ left' = [left EXCEPT ![t] = @ - k]
  /\ outgoing' = outgoing \o [i \in 1..k |-> t]

\* send(): any number of pieces, until the item is sent, the kernel takes no more
\* or an OSError ends it.
StreamSends(t) ==
  /\ t \in RawSender /\ raw.kind = "stream" /\ ~rawAt[t].fds /\ MayGoOn(t)
  /\ \E k \in 0..left[t] :
       /\ Sent(t, k)
       /\ Leaves(t) \/ (k < left[t] /\ WaitUntilReady(t))

\* send_fds(): one sendmsg() that is taken, whatever part of the message it is
FdsSends(t) ==
  /\ t \in RawSender /\ rawAt[t].fds /\ MayGoOn(t)
  /\ \E k \in 0..left[t] :
       /\ Sent(t, k)
       /\ Leaves(t) \/ (k = 0 /\ WaitUntilReady(t))

\* send() of the datagram sockets: all or nothing
PacketSends(t) ==
  /\ t \in RawSender /\ raw.kind = "packets" /\ MayGoOn(t)
  /\ \E k \in {0, left[t]} :
       /\ Sent(t, k)
       /\ Leaves(t) \/ (k < left[t] /\ WaitUntilReady(t))

\* A CancelledError in the checkpoint or at the future, or BusyResourceError
CallAborted(t) ==
  /\ \/ rawAt[t].cut \/ (rawAt[t].place = "checkpoint" /\ Guarded(t))
  /\ IF rawAt[t].place = "waiting" THEN Leaves(t) ELSE RawGoes(t, "idle") /\ UNCHANGED raw
  /\ UNCHANGED <<left, outgoing>>

\* A cancellation also makes a pending future done.
CancelCall(t) ==
  /\ rawAt[t].place # "idle" /\ ~rawAt[t].cut
  /\ rawAt' = [rawAt EXCEPT ![t].cut = TRUE]
  /\ raw' = IF rawAt[t].place = "waiting" THEN [raw EXCEPT !.future[Side(t)] = "done"] ELSE raw
  /\ UNCHANGED <<left, outgoing>>

-----------------------------------------------------------------------------
\* The loop sets the future of a socket that is ready; a closed one never is.
Ready(side) ==
  /\ raw.future[side] = "pending" /\ ~raw.closing
  /\ raw' = [raw EXCEPT !.future[side] = "done"]
  /\ UNCHANGED <<rawAt, left, outgoing>>

\* A mutant: aclose() tells the receiver only.
ReleaseReceiver(future) == [future EXCEPT !.receive = IF @ = "pending" THEN "done" ELSE @]
\* set_result() for whoever waits
Release(future) == [s \in DOMAIN future |-> IF future[s] = "pending" THEN "done" ELSE future[s]]

\* aclose(): set_result() raises InvalidStateError on a future that is done and
\* not yet removed, the receiver's before the sender's.
CloseRaw ==
  /\ ~raw.closing
  /\ LET f == raw.future IN
     raw' = [raw EXCEPT !.closing = TRUE,
               !.closeFailed = "done" \in {f.receive, f.send},
               !.future = IF f.receive = "done" THEN f ELSE Release(f)]
  /\ UNCHANGED <<rawAt, left, outgoing>>

RawNext ==
  \/ \E t \in RawUser :
       \/ StartCall(t) \/ CallAborted(t) \/ CancelCall(t)
       \/ StreamReceives(t) \/ FdsReceives(t) \/ PacketReceives(t)
       \/ StreamSends(t) \/ FdsSends(t) \/ PacketSends(t)
  \/ \E side \in {"receive", "send"} : Ready(side)
  \/ CloseRaw

-----------------------------------------------------------------------------
\* aclose() sends home whoever waits for the socket; only one that failed with
\* InvalidStateError may have forgotten the sender.
CloseReleases ==
  raw.closing => \A s \in {"receive", "send"} :
    raw.future[s] = "pending" => s = "send" /\ raw.closeFailed

\* The pieces of an item are not mixed with those of another one: when a sender
\* waits in the middle of its item, nobody has sent anything since.
ItemsInOnePiece ==
  \A t \in RawSender :
    rawAt[t].place = "waiting" /\ left[t] < Size => outgoing[Len(outgoing)] = t
=============================================================================
