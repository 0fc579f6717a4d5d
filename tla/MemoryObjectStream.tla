------------------------- MODULE MemoryObjectStream -------------------------
(***************************************************************************)
(* Memory object streams: a bounded buffer between send and receive        *)
(* streams, with the waiting receivers and the waiting senders, each an    *)
(* Event and an item.  Each task has a clone of one of the two ends.  An   *)
(* item is handed over while its receiver is suspended; the receiver       *)
(* returns it at its next step.                                            *)
(***************************************************************************)
EXTENDS AsyncioTask, SequencesExt

CONSTANTS
  Sender,          \* the tasks that send; the others receive
  MaxBufferSize,   \* max_buffer_size
  MaxItems,        \* bound: the items sent
  MaxNative        \* bound: the calls of asyncio's own Task.cancel()

ASSUME StreamAssumption ==
  /\ Sender \subseteq Task
  /\ MaxBufferSize \in Nat /\ MaxItems \in Nat /\ MaxNative \in Nat

VARIABLES
  buffer,      \* buffer; items are numbered as they reach send_nowait()
  receivers,   \* waiting_receivers; fut[t] is the future in the Event of t
  senders,     \* waiting_senders
  item,        \* item[t]: what t sends, or was handed; 0 for no item
  open,        \* the tasks whose clone is not closed
  cancelling,  \* the tasks with Task.cancelling() > 0
  count,       \* history: the number of the latest item
  handed,      \* history: the latest item that was handed to a receiver
  accepted,    \* history: the items whose send() has returned
  received,    \* history: the items that a receive() has returned
  natives      \* history: the calls of Task.cancel()

stateVars == <<buffer, receivers, senders, item, open>>
history == <<count, handed, accepted, received, natives>>
streamVars == <<stateVars, cancelling, history>>
vars == <<taskVars, streamVars>>

Receiver == Task \ Sender

\* "check" is suspended in the checkpoint of send() or receive(), "wait" in
\* event.wait().
Places == {"idle", "check", "wait"}

TypeOK ==
  /\ TaskTypeOK(Places)
  /\ buffer \in Seq(1..MaxItems) /\ Len(buffer) <= MaxBufferSize
  /\ receivers \in Seq(Receiver) /\ senders \in Seq(Sender)
  /\ item \in [Task -> 0..MaxItems]
  /\ open \subseteq Task /\ cancelling \subseteq Task
  /\ count \in 0..MaxItems /\ handed \in 0..MaxItems /\ natives \in 0..MaxNative
  /\ accepted \subseteq 1..MaxItems /\ received \subseteq 1..MaxItems

Init ==
  /\ TaskInit
  /\ buffer = <<>> /\ receivers = <<>> /\ senders = <<>>
  /\ item = [t \in Task |-> 0]
  /\ open = Task /\ cancelling = {}
  /\ count = 0 /\ handed = 0 /\ natives = 0
  /\ accepted = {} /\ received = {}

-----------------------------------------------------------------------------
\* Event.set() for the tasks of S: it passes over a future that is cancelled.
Set(S) ==
  [t \in Task |-> IF t \in S /\ fut[t] = "pending" THEN "result" ELSE fut[t]]

\* TaskInfo.has_pending_cancellation(), also when a shield keeps it from t.
HasPendingCancellation(t) == t \in cancelling \/ scope[t] = "cancelled"

\* A mutant: receivers that are being cancelled are handed items, too.
EveryReceiver(k) == TRUE

Live(k) == ~HasPendingCancellation(receivers[k])

\* Mutants: the buffer takes one item too many, or one too few.
RoomForOneMore == Len(buffer) <= MaxBufferSize
RoomForOneLess == Len(buffer) + 1 < MaxBufferSize

Room == Len(buffer) < MaxBufferSize

WouldBlock == ~(\E k \in DOMAIN receivers : Live(k)) /\ ~Room

\* send_nowait(): receivers that have a cancellation pending are taken out of
\* the queue and get nothing, also when it raises WouldBlock.
Put(i) ==
  \/ \E k \in DOMAIN receivers :
       /\ Live(k) /\ \A j \in 1..(k - 1) : ~Live(j)
       /\ receivers' = SubSeq(receivers, k + 1, Len(receivers))
       /\ item' = [item EXCEPT ![receivers[k]] = i]
       /\ fut' = Set({receivers[k]})
       /\ handed' = i
       /\ UNCHANGED buffer
  \/ /\ \A k \in DOMAIN receivers : ~Live(k)
     /\ Room
     /\ receivers' = <<>>
     /\ buffer' = Append(buffer, i)
     /\ UNCHANGED <<item, fut, handed>>

\* A mutant: the item of a waiting sender overtakes the buffer.
TakeFromSender(line) ==
  IF line = <<>> THEN buffer ELSE <<item[Head(line)]>> \o buffer

\* receive_nowait() makes room for the first waiting sender's item.
Refilled(line) ==
  IF line = <<>> THEN buffer ELSE Append(buffer, item[Head(line)])

\* receive_nowait() with an item to return
Take ==
  /\ Refilled(senders) # <<>>
  /\ buffer' = Tail(Refilled(senders))
  /\ handed' = Head(Refilled(senders))
  /\ received' = received \union {Head(Refilled(senders))}
  /\ fut' = Set({senders[k] : k \in DOMAIN senders \cap {1}})
  /\ senders' = IF senders = <<>> THEN <<>> ELSE Tail(senders)

EndOf(side) == open \cap side = {}

-----------------------------------------------------------------------------
\* send() and receive() begin with a checkpoint.
Call(t) ==
  /\ pc[t] = "idle"
  /\ Move(t, "check")
  /\ UNCHANGED <<fut, mustCancel, scope, streamVars>>

\* The checkpoint, or the wait of a receiver or a sender, raises: `finally` and
\* `except BaseException` take the entry out of its queue.
Interrupted(t) ==
  /\ pc[t] \in {"check", "wait"} /\ Runnable(t) /\ Raises(t)
  /\ receivers' = RemoveFirst(receivers, t)
  /\ senders' = RemoveFirst(senders, t)
  /\ item' = [item EXCEPT ![t] = 0]
  /\ fut' = Stepped(t)
  /\ Move(t, "idle") /\ Unwind(t)
  /\ UNCHANGED <<buffer, open, cancelling, history>>

\* In a cancelled scope a checkpoint always raises.
PastCheckpoint(t) == pc[t] = "check" /\ ~Raises(t) /\ scope[t] = "open"

\* send_nowait() as the rest of send(), or called by itself
SendItem(t) ==
  /\ t \in Sender /\ t \in open /\ ~EndOf(Receiver) /\ count < MaxItems
  /\ pc[t] = "idle" \/ PastCheckpoint(t)
  /\ Put(count + 1)
  /\ count' = count + 1
  /\ accepted' = accepted \union {count + 1}
  /\ Move(t, "idle")
  /\ UNCHANGED <<mustCancel, scope, senders, open, cancelling, received, natives>>

SendNowaitBlocks(t) ==
  /\ t \in Sender /\ t \in open /\ ~EndOf(Receiver) /\ WouldBlock
  /\ pc[t] = "idle"
  /\ receivers' = <<>>
  /\ UNCHANGED <<taskVars, buffer, senders, item, open, cancelling, history>>

SendWaits(t) ==
  /\ t \in Sender /\ t \in open /\ ~EndOf(Receiver) /\ WouldBlock
  /\ PastCheckpoint(t) /\ count < MaxItems
  /\ count' = count + 1
  /\ receivers' = <<>>
  /\ senders' = Append(senders, t)
  /\ item' = [item EXCEPT ![t] = count + 1]
  /\ fut' = [fut EXCEPT ![t] = "pending"]
  /\ Move(t, "wait")
  /\ UNCHANGED <<mustCancel, scope, buffer, open, cancelling,
                 handed, accepted, received, natives>>

\* ClosedResourceError, BrokenResourceError or EndOfStream
CallFails(t) ==
  /\ PastCheckpoint(t)
  /\ \/ t \notin open
     \/ t \in Sender /\ EndOf(Receiver)
     \/ t \in Receiver /\ Refilled(senders) = <<>> /\ EndOf(Sender)
  /\ Move(t, "idle")
  /\ UNCHANGED <<fut, mustCancel, scope, streamVars>>

\* receive_nowait() as the rest of receive(), or called by itself
ReceiveItem(t) ==
  /\ t \in Receiver /\ t \in open
  /\ pc[t] = "idle" \/ PastCheckpoint(t)
  /\ Take
  /\ Move(t, "idle")
  /\ UNCHANGED <<mustCancel, scope, receivers, item, open, cancelling,
                 count, accepted, natives>>

ReceiveWaits(t) ==
  /\ t \in Receiver /\ t \in open /\ PastCheckpoint(t)
  /\ Refilled(senders) = <<>> /\ ~EndOf(Sender)
  /\ receivers' = Append(receivers, t)
  /\ fut' = [fut EXCEPT ![t] = "pending"]
  /\ Move(t, "wait")
  /\ UNCHANGED <<mustCancel, scope, buffer, senders, item, open, cancelling, history>>

\* The Event is set: a receiver returns its item, or raises EndOfStream for lack
\* of one; a sender whose entry nobody took raises BrokenResourceError.
WaitEnds(t) ==
  /\ pc[t] = "wait" /\ fut[t] = "result" /\ ~Raises(t)
  /\ received' = received \union (IF t \in Receiver THEN {item[t]} \ {0} ELSE {})
  /\ accepted' = accepted \union
                   (IF t \in Sender /\ ~Contains(senders, t) THEN {item[t]} ELSE {})
  /\ receivers' = RemoveFirst(receivers, t)
  /\ senders' = RemoveFirst(senders, t)
  /\ item' = [item EXCEPT ![t] = 0]
  /\ fut' = Stepped(t)
  /\ Move(t, "idle")
  /\ UNCHANGED <<mustCancel, scope, buffer, open, cancelling, count, handed, natives>>

\* Mutants: the first receiver only is woken; waiting senders are not.
WokenFirst(t) ==
  IF t \in Sender THEN {receivers[k] : k \in DOMAIN receivers \cap {1}}
  ELSE Range(senders)
WokenReceivers(t) == IF t \in Sender THEN Range(receivers) ELSE {}

\* The waiting tasks that the last clone of an end wakes
Woken(t) == Range(IF t \in Sender THEN receivers ELSE senders)

\* close(); nobody closes a clone under a call that is made on it.
Close(t) ==
  /\ pc[t] = "idle" /\ t \in open
  /\ open' = open \ {t}
  /\ LET last == open' \cap (IF t \in Sender THEN Sender ELSE Receiver) = {} IN
     /\ fut' = Set(IF last THEN Woken(t) ELSE {})
     /\ receivers' = IF last /\ t \in Sender THEN <<>> ELSE receivers
  /\ UNCHANGED <<pc, mustCancel, scope, buffer, senders, item, cancelling, history>>

\* clone() of another clone of the same end
Clone(t) ==
  /\ pc[t] = "idle" /\ t \notin open
  /\ \E u \in open : u \in Sender <=> t \in Sender
  /\ open' = open \union {t}
  /\ UNCHANGED <<taskVars, buffer, receivers, senders, item, cancelling, history>>

-----------------------------------------------------------------------------
Suspended(t) == pc[t] # "idle"

\* Each cancellation that reaches the task counts in Task.cancelling() ...
Requested(t) ==
  /\ cancelling' = IF <<fut, mustCancel>>' = <<fut, mustCancel>> THEN cancelling
                   ELSE cancelling \union {t}
  /\ UNCHANGED <<stateVars, count, handed, accepted, received>>

\* A scope that is cancelled while t is in user code is found by the checkpoint
\* of the next call, as if it were cancelled there.
CancelledByScope(t) ==
  /\ Suspended(t)
  /\ ScopeCancel(t, TRUE) \/ Redeliver(t, TRUE)
  /\ Requested(t) /\ UNCHANGED natives

CancelledByAsyncio(t) ==
  /\ natives < MaxNative /\ natives' = natives + 1
  /\ NativeCancel(t, Suspended(t))
  /\ Requested(t)

\* ... until the scope is exited or somebody calls uncancel().  Cleanup code may
\* use streams before that, in a shielded scope.
Uncancel(t) ==
  /\ pc[t] = "idle" /\ t \in cancelling
  /\ cancelling' = cancelling \ {t}
  /\ UNCHANGED <<taskVars, stateVars, history>>

Next ==
  \E t \in Task :
    \/ Call(t) \/ Interrupted(t) \/ CallFails(t) \/ WaitEnds(t)
    \/ SendItem(t) \/ SendNowaitBlocks(t) \/ SendWaits(t)
    \/ ReceiveItem(t) \/ ReceiveWaits(t)
    \/ Close(t) \/ Clone(t)
    \/ CancelledByScope(t) \/ CancelledByAsyncio(t) \/ Uncancel(t)

Spec == Init /\ [][Next]_vars

-----------------------------------------------------------------------------
Waits(t) == pc[t] = "wait" /\ fut[t] = "pending"

\* A receiver that waits although no send() or close() will find it
Dropped(t) == t \in Receiver /\ Waits(t) /\ ~Contains(receivers, t)

\* First in, first out: the items in the buffer and then those of the waiting
\* senders are in the order of the send() calls and later than any that was
\* handed out; so none is handed out twice, and none overtakes another.
InOrder ==
  LET pending == buffer \o [k \in DOMAIN senders |-> item[senders[k]]]
  IN /\ \A k \in DOMAIN pending : pending[k] > handed
     /\ \A j, k \in DOMAIN pending : j < k => pending[j] < pending[k]

\* An item whose send() returned is on its way or was received; a receiver that
\* a cancel scope interrupts takes none with it, one interrupted by asyncio's
\* own cancel() takes one at most.
NothingLost ==
  Cardinality(accepted \ (received \union Range(buffer)
                          \union {item[t] : t \in Receiver})) <= natives

\* Nobody waits for what is there: receivers queue only while there is no item,
\* and senders only while the buffer is full.
NoNeedlessWait ==
  /\ receivers # <<>> => buffer = <<>> /\ senders = <<>>
  /\ senders # <<>> => Len(buffer) = MaxBufferSize

\* Only receivers with a cancellation pending are dropped from the queue.
DroppedWasCancelled == \A t \in Task : Dropped(t) => HasPendingCancellation(t)

\* The end of the other side arrives: once its last clone is closed, nobody is
\* left waiting for it, the dropped receivers apart.
EndArrives ==
  \A t \in Task :
    Waits(t) /\ ~Dropped(t) => ~EndOf(IF t \in Sender THEN Receiver ELSE Sender)

\* "tasks_waiting_receive: number of tasks blocked on receive()", which is the
\* length of waiting_receivers: a task that is blocked is in it.
BlockedAreCounted == \A t \in Receiver : Waits(t) => Contains(receivers, t)
=============================================================================
