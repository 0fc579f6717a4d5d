--------------------------- MODULE SignalReceiver ---------------------------
(***************************************************************************)
(* _SignalReceiver of the asyncio backend: receivers of one signal, each   *)
(* with a queue and one task that iterates over it.  The loop has a single *)
(* handler for the signal.  Signals are numbered; a task may be cancelled  *)
(* at any await.                                                           *)
(***************************************************************************)
EXTENDS Naturals, Sequences

CONSTANTS
  Receiver,
  NoReceiver,
  MaxSignals   \* bound: the signals that arrive

VARIABLES
  handler,    \* the receiver whose _deliver the loop calls
  receivers,  \* of each: entered or not, its queue and future, where its task is
  arrived,    \* history: the number of signals
  heard,      \* history: of each receiver, the signals delivered to it, and returned
  displaced   \* history: receivers that the handler was taken from

signalVars == <<handler, receivers, arrived, heard, displaced>>

SignalInit ==
  /\ handler = NoReceiver
  /\ receivers = [r \in Receiver |->
       [state |-> "new", queue |-> <<>>, future |-> "pending", place |-> "out"]]
  /\ arrived = 0
  /\ heard = [r \in Receiver |-> [came |-> <<>>, got |-> <<>>]]
  /\ displaced = {}

\* add_signal_handler() takes the place of another handler, and
\* remove_signal_handler() leaves none.
EnterReceiver(r) ==
  /\ receivers[r].state = "new"
  /\ receivers' = [receivers EXCEPT ![r].state = "entered"]
  /\ handler' = r
  /\ displaced' = displaced \union {handler}
  /\ UNCHANGED <<arrived, heard>>

ExitReceiver(r) ==
  /\ receivers[r].state = "entered" /\ receivers[r].place = "out"
  /\ receivers' = [receivers EXCEPT ![r].state = "left"]
  /\ handler' = NoReceiver
  /\ displaced' = displaced \union {handler}
  /\ UNCHANGED <<arrived, heard>>

Deliver ==
  /\ handler # NoReceiver /\ arrived < MaxSignals
  /\ arrived' = arrived + 1
  /\ receivers' = [receivers EXCEPT
       ![handler].queue = Append(@, arrived + 1),
       ![handler].future = IF @ = "pending" THEN "done" ELSE @]
  /\ heard' = [heard EXCEPT ![handler].came = Append(@, arrived + 1)]
  /\ UNCHANGED <<handler, displaced>>

-----------------------------------------------------------------------------
StartNext(r) ==
  /\ receivers[r].state = "entered" /\ receivers[r].place = "out"
  /\ receivers' = [receivers EXCEPT ![r].place = "checkpoint"]
  /\ UNCHANGED <<handler, arrived, heard, displaced>>

\* A mutant: the future of an earlier signal is awaited once more.
OldFuture(future) == future
FreshFuture(future) == "pending"

WaitForSignal(r) ==
  /\ receivers[r].place = "checkpoint" /\ receivers[r].queue = <<>>
  /\ receivers' = [receivers EXCEPT ![r].place = "waiting", ![r].future = FreshFuture(@)]
  /\ UNCHANGED <<handler, arrived, heard, displaced>>

\* popleft(); it raises IndexError on an empty deque.
EndNext(r) ==
  /\ \/ receivers[r].place = "checkpoint" /\ receivers[r].queue # <<>>
     \/ receivers[r].place = "waiting" /\ receivers[r].future = "done"
  /\ receivers[r].queue # <<>>
  /\ receivers' = [receivers EXCEPT ![r].place = "out", ![r].queue = Tail(@)]
  /\ heard' = [heard EXCEPT ![r].got = Append(@, Head(receivers[r].queue))]
  /\ UNCHANGED <<handler, arrived, displaced>>

\* A CancelledError in the checkpoint or at the future
NextCancelled(r) ==
  /\ receivers[r].place # "out"
  /\ receivers' = [receivers EXCEPT
       ![r].place = "out",
       ![r].future = IF receivers[r].place = "waiting" /\ @ = "pending"
                     THEN "cancelled" ELSE @]
  /\ UNCHANGED <<handler, arrived, heard, displaced>>

SignalNext ==
  \/ \E r \in Receiver :
       \/ EnterReceiver(r) \/ ExitReceiver(r) \/ StartNext(r) \/ WaitForSignal(r)
       \/ EndNext(r) \/ NextCancelled(r)
  \/ Deliver

-----------------------------------------------------------------------------
\* The signals that a receiver was given are returned in order and none is lost to
\* a cancellation; its task waits exactly while there is none, and is registered
\* with the loop for the next one, unless another receiver that was entered or left
\* since has taken the handler from it.
SignalsHeard ==
  \A r \in Receiver :
    /\ heard[r].got \o receivers[r].queue = heard[r].came
    /\ receivers[r].place = "waiting" =>
         /\ receivers[r].queue = <<>> <=> receivers[r].future = "pending"
         /\ handler = r \/ r \in displaced
=============================================================================
