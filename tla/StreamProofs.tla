---------------------------- MODULE StreamProofs ----------------------------
(***************************************************************************)
(* Proofs about MemoryObjectStream for any number of tasks, any buffer     *)
(* size and any cancellations: the items stay in order, nobody waits for   *)
(* what is there, whoever still waits is in a queue or was cancelled, and  *)
(* no item is lost. Order rests on the queues: an item is handed to a      *)
(* receiver past the buffer only because receivers wait while there is     *)
(* nothing in it. That items are kept rests on whom an item is handed to:  *)
(* a receiver without a pending cancellation, which no cancel scope        *)
(* interrupts any more (LossInv).                                          *)
(***************************************************************************)
EXTENDS MemoryObjectStream, QueueLemmas, FiniteSetTheorems

StreamTypeOK ==
  /\ TaskTypeOK(Places)
  /\ buffer \in Seq(Nat) /\ Len(buffer) <= MaxBufferSize
  /\ receivers \in Seq(Receiver) /\ senders \in Seq(Sender)
  /\ item \in [Task -> Nat] /\ count \in Nat /\ handed \in Nat

\* The queues hold waiting tasks, each once, and no sender waits outside of them.
QueuesAgree ==
  /\ IsInjective(receivers) /\ IsInjective(senders)
  /\ \A t \in Task : Contains(receivers, t) \/ Contains(senders, t) => pc[t] = "wait"
  /\ \A t \in Sender : Waits(t) => Contains(senders, t)

\* The item of the k-th waiting sender
Offer(k) == item[senders[k]]

\* InOrder, with the buffer and the waiting senders apart
Ordered ==
  /\ handed <= count
  /\ \A i \in DOMAIN buffer : handed < buffer[i] /\ buffer[i] <= count
  /\ \A k \in DOMAIN senders : handed < Offer(k) /\ Offer(k) <= count
  /\ \A i, j \in DOMAIN buffer : i < j => buffer[i] < buffer[j]
  /\ \A j, k \in DOMAIN senders : j < k => Offer(j) < Offer(k)
  /\ \A i \in DOMAIN buffer, k \in DOMAIN senders : buffer[i] < Offer(k)

SInv ==
  /\ StreamTypeOK /\ QueuesAgree /\ Ordered
  /\ NoNeedlessWait /\ DroppedWasCancelled /\ EndArrives

\* At first there is no item, and nobody waits.
LEMMA InitSInv == Init => SInv
<1> SUFFICES ASSUME Init PROVE SInv
  OBVIOUS
<1> USE DEF Init, TaskInit
<1>1. StreamTypeOK
  BY EmptySeq, StreamAssumption DEF StreamTypeOK, TaskTypeOK, Places, FutureState
<1>2. QueuesAgree /\ DroppedWasCancelled /\ EndArrives
  BY StreamAssumption
     DEF QueuesAgree, DroppedWasCancelled, EndArrives, Dropped, Waits, Contains, IsInjective
<1>3. Ordered /\ NoNeedlessWait
  BY DEF Ordered, NoNeedlessWait
<1> QED
  BY <1>1, <1>2, <1>3 DEF SInv

\* Setting events changes futures that are pending, of the tasks meant.
LEMMA SetFacts ==
  ASSUME fut \in [Task -> FutureState], NEW S
  PROVE  /\ Set(S) \in [Task -> FutureState]
         /\ \A t \in Task : Set(S)[t] = "pending" <=> fut[t] = "pending" /\ t \notin S
BY DEF Set, FutureState

\* send_nowait() empties the queue of receivers up to the first one it may serve; with
\* none, it fills the buffer.  Nobody joins a queue, and nobody else stops waiting.
LEMMA PutFacts ==
  ASSUME SInv, NEW i \in Nat, Put(i)
  PROVE  /\ receivers' \in Seq(Receiver) /\ IsInjective(receivers')
         /\ \A t \in Task : Contains(receivers', t) => Contains(receivers, t)
         /\ \A t \in Task : Contains(receivers, t) /\ ~Contains(receivers', t)
                            => HasPendingCancellation(t) \/ fut'[t] # "pending"
         /\ fut' \in [Task -> FutureState]
         /\ \A t \in Task : fut'[t] = "pending" => fut[t] = "pending"
         /\ \A t \in Sender : fut'[t] = fut[t]
         /\ item' \in [Task -> Nat] /\ \A t \in Sender : item'[t] = item[t]
         /\ receivers' # <<>> => receivers # <<>>
         /\ \/ receivers # <<>> /\ handed' = i /\ buffer' = buffer
            \/ Room /\ receivers' = <<>> /\ handed' = handed /\ buffer' = Append(buffer, i)
<1>0. /\ StreamTypeOK /\ QueuesAgree
      /\ receivers \in Seq(Receiver) /\ IsInjective(receivers)
      /\ fut \in [Task -> FutureState] /\ item \in [Task -> Nat]
  BY DEF SInv, StreamTypeOK, QueuesAgree, TaskTypeOK
<1>1. /\ Len(receivers) \in Nat /\ DOMAIN receivers = 1..Len(receivers)
      /\ \A k \in 1..Len(receivers) : receivers[k] \in Receiver
  BY <1>0, LenProperties, ElementOfSeq
<1>2. \A t \in Receiver : t \in Task /\ t \notin Sender
  BY DEF Receiver
<1>3. ASSUME NEW k \in DOMAIN receivers, \A j \in 1..(k - 1) : ~Live(j),
             receivers' = SubSeq(receivers, k + 1, Len(receivers)),
             item' = [item EXCEPT ![receivers[k]] = i],
             fut' = Set({receivers[k]}), handed' = i, buffer' = buffer
      PROVE  /\ receivers' \in Seq(Receiver) /\ IsInjective(receivers')
             /\ \A t \in Task : Contains(receivers', t) => Contains(receivers, t)
             /\ \A t \in Task : Contains(receivers, t) /\ ~Contains(receivers', t)
                                => HasPendingCancellation(t) \/ fut'[t] # "pending"
             /\ fut' \in [Task -> FutureState]
             /\ \A t \in Task : fut'[t] = "pending" => fut[t] = "pending"
             /\ \A t \in Sender : fut'[t] = fut[t]
             /\ item' \in [Task -> Nat] /\ \A t \in Sender : item'[t] = item[t]
             /\ receivers # <<>>
  <2>1. /\ k \in 0..Len(receivers) /\ receivers[k] \in Task /\ receivers[k] \notin Sender
        /\ receivers # <<>>
    BY <1>1, <1>2, <1>3
  <2>2. /\ receivers' \in Seq(Receiver) /\ IsInjective(receivers')
        /\ \A x : Contains(receivers', x)
                  <=> Contains(receivers, x) /\ x \notin {receivers[j] : j \in 1..k}
    BY <1>0, <1>3, <2>1, DropFacts
  <2>3. /\ fut' \in [Task -> FutureState]
        /\ \A t \in Task : fut'[t] = "pending" <=> fut[t] = "pending" /\ t # receivers[k]
    BY <1>0, <1>3, SetFacts
  <2>4. \A t \in Sender : fut'[t] = fut[t] /\ item'[t] = item[t]
    BY <1>0, <1>3, <2>1, StreamAssumption DEF Set
  <2>5. ASSUME NEW t \in Task, Contains(receivers, t), ~Contains(receivers', t)
        PROVE  HasPendingCancellation(t) \/ fut'[t] # "pending"
    <3>1. PICK j \in 1..k : t = receivers[j]
      BY <2>2, <2>5
    <3>2. CASE j = k
      BY <2>3, <3>1, <3>2
    <3>3. CASE j # k
      <4>1. j \in 1..(k - 1)
        BY <1>1, <3>3
      <4> QED
        BY <1>3, <3>1, <4>1 DEF Live
    <3> QED
      BY <3>2, <3>3
  <2>6. item' \in [Task -> Nat]
    BY <1>0, <1>3
  <2> QED
    BY <2>1, <2>2, <2>3, <2>4, <2>5, <2>6
<1>4. ASSUME \A k \in DOMAIN receivers : ~Live(k), receivers' = <<>>, UNCHANGED <<item, fut>>
      PROVE  /\ receivers' \in Seq(Receiver) /\ IsInjective(receivers')
             /\ \A t \in Task : ~Contains(receivers', t)
             /\ \A t \in Task : Contains(receivers, t) => HasPendingCancellation(t)
  BY <1>1, <1>4, EmptySeq DEF Contains, IsInjective, Live
<1>5. CASE \E k \in DOMAIN receivers :
             /\ Live(k) /\ \A j \in 1..(k - 1) : ~Live(j)
             /\ receivers' = SubSeq(receivers, k + 1, Len(receivers))
             /\ item' = [item EXCEPT ![receivers[k]] = i]
             /\ fut' = Set({receivers[k]})
             /\ handed' = i
             /\ UNCHANGED buffer
  BY <1>3, <1>5
<1>6. CASE /\ \A k \in DOMAIN receivers : ~Live(k)
           /\ Room /\ receivers' = <<>> /\ buffer' = Append(buffer, i)
           /\ UNCHANGED <<item, fut, handed>>
  BY <1>0, <1>4, <1>6
<1> QED
  BY <1>5, <1>6 DEF Put

-----------------------------------------------------------------------------
\* Steps that do not touch the queues and the items: calls that begin or fail,
\* cancellations, and new clones.
LEMMA QuietStep ==
  ASSUME SInv, TaskTypeOK(Places)', open \subseteq open',
         UNCHANGED <<buffer, receivers, senders, item, count, handed>>,
         \A u \in Task : Waits(u)' => Waits(u),
         \A u \in Task : pc[u] = "wait" => pc'[u] = "wait",
         \A u \in Task : Waits(u)' /\ HasPendingCancellation(u) => HasPendingCancellation(u)'
  PROVE  SInv'
<1>1. StreamTypeOK'
  BY DEF SInv, StreamTypeOK
<1>2. QueuesAgree'
  BY StreamAssumption DEF SInv, QueuesAgree
<1>3. Ordered' /\ NoNeedlessWait'
  BY DEF SInv, Ordered, Offer, NoNeedlessWait
<1>4. \A u \in Task : Dropped(u)' <=> Dropped(u) /\ Waits(u)'
  BY DEF Dropped
<1>5. DroppedWasCancelled' /\ EndArrives'
  <2>1. \A side : EndOf(side)' => EndOf(side)
    BY DEF EndOf
  <2>2. DroppedWasCancelled'
    BY <1>4 DEF SInv, DroppedWasCancelled, Dropped
  <2>3. EndArrives'
    BY <1>4, <2>1 DEF SInv, EndArrives
  <2> QED
    BY <2>2, <2>3
<1> QED
  BY <1>1, <1>2, <1>3, <1>5 DEF SInv

\* A call ends, wherever it was: t is in no queue any more, and the others keep their order.
LEMMA LeavingStep ==
  ASSUME SInv, NEW t \in Task, TaskTypeOK(Places)',
         receivers' = RemoveFirst(receivers, t), senders' = RemoveFirst(senders, t),
         item' = [item EXCEPT ![t] = 0], fut' = Stepped(t), Move(t, "idle"),
         scope' \in {scope, [scope EXCEPT ![t] = "open"]},
         UNCHANGED <<buffer, open, cancelling, count, handed>>
  PROVE  SInv'
<1>0. /\ StreamTypeOK /\ QueuesAgree /\ Ordered /\ NoNeedlessWait
      /\ DroppedWasCancelled /\ EndArrives
      /\ IsInjective(receivers) /\ IsInjective(senders)
  BY DEF SInv, QueuesAgree
<1>1. /\ receivers' \in Seq(Receiver) /\ IsInjective(receivers')
      /\ \A x : Contains(receivers', x) <=> Contains(receivers, x) /\ x # t
      /\ senders' \in Seq(Sender) /\ IsInjective(senders')
      /\ \A x : Contains(senders', x) <=> Contains(senders, x) /\ x # t
      /\ \A i, j \in DOMAIN senders' :
           i < j => \E a, b \in DOMAIN senders :
                      a < b /\ senders'[i] = senders[a] /\ senders'[j] = senders[b]
  BY <1>0, WithdrawFacts DEF StreamTypeOK
<1>2. /\ \A u \in Task \ {t} : /\ pc'[u] = pc[u] /\ fut'[u] = fut[u] /\ item'[u] = item[u]
                               /\ scope'[u] = scope[u]
      /\ pc'[t] = "idle" /\ item' \in [Task -> Nat]
  BY <1>0 DEF StreamTypeOK, TaskTypeOK, Stepped, Move
<1>3. StreamTypeOK'
  BY <1>0, <1>1, <1>2 DEF StreamTypeOK
<1>4. QueuesAgree'
  BY <1>0, <1>1, <1>2, StreamAssumption DEF QueuesAgree, Waits
<1>5. Ordered'
  <2>1. \A k \in DOMAIN senders' : \E a \in DOMAIN senders : senders'[k] = senders[a] /\ senders[a] # t
    <3> SUFFICES ASSUME NEW k \in DOMAIN senders'
                 PROVE  \E a \in DOMAIN senders : senders'[k] = senders[a] /\ senders[a] # t
      OBVIOUS
    <3>1. DOMAIN senders' = 1..Len(senders') /\ DOMAIN senders = 1..Len(senders)
      BY <1>0, <1>1, LenProperties DEF StreamTypeOK
    <3>2. Contains(senders', senders'[k])
      BY <3>1 DEF Contains
    <3>3. Contains(senders, senders'[k]) /\ senders'[k] # t
      BY <1>1, <3>2
    <3> QED
      BY <3>1, <3>3 DEF Contains
  <2>2. \A k \in DOMAIN senders : senders[k] \in Task
    BY <1>0, LenProperties, StreamAssumption DEF StreamTypeOK
  <2>3. \A k \in DOMAIN senders' : \E a \in DOMAIN senders :
          senders'[k] = senders[a] /\ item'[senders'[k]] = Offer(a)
    BY <1>2, <2>1, <2>2 DEF Offer
  <2>4. \A i, j \in DOMAIN senders' :
          i < j => \E a, b \in DOMAIN senders :
                     a < b /\ item'[senders'[i]] = Offer(a) /\ item'[senders'[j]] = Offer(b)
    BY <1>1, <1>2, <2>1, <2>2 DEF Offer
  <2> QED
    BY <1>0, <2>3, <2>4 DEF Ordered, Offer
<1>6. NoNeedlessWait'
  <2>1. /\ receivers = <<>> => receivers' = <<>>
        /\ senders = <<>> => senders' = <<>>
    BY DEF RemoveFirst
  <2> QED
    BY <1>0, <2>1 DEF NoNeedlessWait
<1>7. DroppedWasCancelled' /\ EndArrives'
  <2>1. \A u \in Task : Waits(u)' => u # t /\ Waits(u)
    BY <1>2 DEF Waits
  <2>2. \A u \in Task : Waits(u)' => (Dropped(u)' <=> Dropped(u))
    BY <1>1, <2>1 DEF Dropped
  <2>3. DroppedWasCancelled'
    BY <1>0, <1>2, <2>1, <2>2 DEF DroppedWasCancelled, HasPendingCancellation, Dropped
  <2>4. EndArrives'
    BY <1>0, <2>1, <2>2 DEF EndArrives, EndOf
  <2> QED
    BY <2>3, <2>4
<1> QED
  BY <1>3, <1>4, <1>5, <1>6, <1>7 DEF SInv

\* What keeps those who wait in agreement, for every step that ends nobody's wait other
\* than by a result, and takes from the queue only receivers that are being cancelled.
LEMMA WaitersKept ==
  ASSUME SInv, NEW t \in Task, ~Waits(t)',
         \A u \in Task : Waits(u)' => Waits(u),
         \A u \in Receiver : Waits(u)' /\ Contains(receivers, u) /\ ~Contains(receivers', u)
                             => HasPendingCancellation(u),
         \A u \in Task : Contains(receivers', u) => Contains(receivers, u),
         UNCHANGED <<open, cancelling, scope>>
  PROVE  DroppedWasCancelled' /\ EndArrives'
<1>1. \A u \in Task : Dropped(u)' => HasPendingCancellation(u)
  BY DEF SInv, DroppedWasCancelled, Dropped
<1>2. \A u \in Task : Dropped(u) /\ Waits(u)' => Dropped(u)'
  BY DEF Dropped
<1> QED
  BY <1>1, <1>2 DEF SInv, DroppedWasCancelled, EndArrives, EndOf, HasPendingCancellation

-----------------------------------------------------------------------------
\* An item reaches a receiver only past an empty buffer, and the buffer only when no
\* sender waits.
LEMMA SendItemStep == ASSUME SInv, NEW t \in Task, SendItem(t) PROVE SInv'
<1>0. /\ StreamTypeOK /\ QueuesAgree /\ Ordered /\ NoNeedlessWait
      /\ pc[t] # "wait" /\ t \in Sender /\ pc' = [pc EXCEPT ![t] = "idle"]
      /\ Put(count + 1) /\ count' = count + 1 /\ count \in Nat
      /\ UNCHANGED <<mustCancel, scope, senders, open, cancelling>>
  BY DEF SInv, SendItem, PastCheckpoint, Move, StreamTypeOK
<1>1. /\ receivers' \in Seq(Receiver) /\ IsInjective(receivers')
      /\ \A u \in Task : Contains(receivers', u) => Contains(receivers, u)
      /\ \A u \in Task : Contains(receivers, u) /\ ~Contains(receivers', u)
                         => HasPendingCancellation(u) \/ fut'[u] # "pending"
      /\ fut' \in [Task -> FutureState]
      /\ \A u \in Task : fut'[u] = "pending" => fut[u] = "pending"
      /\ item' \in [Task -> Nat] /\ \A u \in Sender : item'[u] = item[u]
      /\ \/ receivers # <<>> /\ handed' = count + 1 /\ buffer' = buffer
         \/ Room /\ receivers' = <<>> /\ handed' = handed /\ buffer' = Append(buffer, count + 1)
  BY <1>0, PutFacts
<1>2. /\ \A u \in Task \ {t} : pc'[u] = pc[u]
      /\ pc'[t] = "idle" /\ pc' \in [Task -> Places]
  BY <1>0 DEF StreamTypeOK, TaskTypeOK, Places
<1>3. \/ /\ handed' = count + 1 /\ buffer' = <<>> /\ senders' = <<>>
      \/ /\ senders = <<>> /\ receivers' = <<>> /\ handed' = handed
         /\ buffer' = Append(buffer, count + 1) /\ Len(buffer) < MaxBufferSize
  BY <1>0, <1>1, StreamAssumption DEF NoNeedlessWait, Room
<1>4. /\ Append(buffer, count + 1) \in Seq(Nat)
      /\ Len(Append(buffer, count + 1)) = Len(buffer) + 1
      /\ DOMAIN buffer = 1..Len(buffer) /\ Len(buffer) \in Nat
      /\ DOMAIN Append(buffer, count + 1) = 1..(Len(buffer) + 1)
      /\ \A i \in 1..Len(buffer) : Append(buffer, count + 1)[i] = buffer[i] /\ buffer[i] \in Nat
      /\ Append(buffer, count + 1)[Len(buffer) + 1] = count + 1
  <2>1. count + 1 \in Nat /\ buffer \in Seq(Nat)
    BY <1>0 DEF StreamTypeOK
  <2> QED
    BY <2>1, AppendProperties, LenProperties, ElementOfSeq
<1>5. StreamTypeOK'
  <2>1. buffer' \in Seq(Nat) /\ Len(buffer') <= MaxBufferSize
    <3>1. CASE buffer' = <<>>
      BY <3>1, EmptySeq, StreamAssumption
    <3>2. CASE buffer' = Append(buffer, count + 1) /\ Len(buffer) < MaxBufferSize
      BY <1>4, <3>2, StreamAssumption
    <3> QED
      BY <1>3, <3>1, <3>2
  <2>2. handed' \in Nat /\ count' \in Nat
    BY <1>0, <1>3 DEF StreamTypeOK
  <2> QED
    BY <1>0, <1>1, <1>2, <2>1, <2>2 DEF StreamTypeOK, TaskTypeOK
<1>6. QueuesAgree'
  BY <1>0, <1>1, <1>2, StreamAssumption DEF QueuesAgree, Waits
<1>7. Ordered'
  <2>1. CASE handed' = count + 1 /\ buffer' = <<>> /\ senders' = <<>>
    BY <1>0, <2>1 DEF Ordered
  <2>2. CASE /\ senders = <<>> /\ handed' = handed
             /\ buffer' = Append(buffer, count + 1)
    <3>1. senders' = <<>>
      BY <1>0, <2>2
    <3>2. handed' <= count'
      BY <1>0, <2>2 DEF Ordered, StreamTypeOK
    <3>3. \A i \in 1..Len(buffer) : handed < buffer[i] /\ buffer[i] <= count
      BY <1>0, <1>4 DEF Ordered
    <3>4. \A i \in DOMAIN buffer' : handed' < buffer'[i] /\ buffer'[i] <= count'
      BY <1>0, <1>4, <2>2, <3>3 DEF Ordered, StreamTypeOK
    <3>5. \A i, j \in DOMAIN buffer' : i < j => buffer'[i] < buffer'[j]
      BY <1>0, <1>4, <2>2, <3>3 DEF Ordered, StreamTypeOK
    <3> QED
      BY <3>1, <3>2, <3>4, <3>5 DEF Ordered
  <2> QED
    BY <1>3, <2>1, <2>2
<1>8. NoNeedlessWait'
  BY <1>0, <1>3 DEF NoNeedlessWait
<1>9. DroppedWasCancelled' /\ EndArrives'
  <2>1. ~Waits(t)' /\ \A u \in Task : Waits(u)' => Waits(u)
    BY <1>1, <1>2 DEF Waits
  <2>2. \A u \in Receiver : Waits(u)' /\ Contains(receivers, u) /\ ~Contains(receivers', u)
                            => HasPendingCancellation(u)
    BY <1>1 DEF Waits, Receiver
  <2> QED
    BY <1>0, <1>1, <2>1, <2>2, WaitersKept
<1> QED
  BY <1>5, <1>6, <1>7, <1>8, <1>9 DEF SInv

\* send_nowait() that raises WouldBlock has emptied the queue of receivers.
LEMMA WouldBlockFacts ==
  ASSUME SInv, WouldBlock
  PROVE  /\ Len(buffer) = MaxBufferSize
         /\ \A u \in Task : Contains(receivers, u) => HasPendingCancellation(u)
<1>1. buffer \in Seq(Nat) /\ Len(buffer) <= MaxBufferSize /\ receivers \in Seq(Receiver)
  BY DEF SInv, StreamTypeOK
<1>2. Len(buffer) = MaxBufferSize
  <2>1. Len(buffer) \in Nat
    BY <1>1, LenProperties
  <2> QED
    BY <1>1, <2>1, StreamAssumption DEF WouldBlock, Room
<1>3. \A u \in Task : Contains(receivers, u) => HasPendingCancellation(u)
  BY <1>1, LenProperties DEF Contains, WouldBlock, Live
<1> QED
  BY <1>2, <1>3

LEMMA SendNowaitBlocksStep == ASSUME SInv, NEW t \in Task, SendNowaitBlocks(t) PROVE SInv'
<1>0. /\ StreamTypeOK /\ QueuesAgree /\ Ordered /\ NoNeedlessWait /\ pc[t] = "idle"
      /\ receivers' = <<>>
      /\ UNCHANGED <<pc, fut, mustCancel, scope, buffer, senders, item, open, cancelling,
                     count, handed>>
      /\ \A u \in Task : Contains(receivers, u) => HasPendingCancellation(u)
  BY WouldBlockFacts DEF SInv, SendNowaitBlocks, taskVars, history
<1>1. receivers' \in Seq(Receiver) /\ IsInjective(receivers') /\ \A u : ~Contains(receivers', u)
  BY <1>0, EmptySeq DEF Contains, IsInjective
<1>2. StreamTypeOK' /\ QueuesAgree'
  BY <1>0, <1>1 DEF StreamTypeOK, TaskTypeOK, QueuesAgree, Waits
<1>3. Ordered' /\ NoNeedlessWait'
  BY <1>0 DEF Ordered, Offer, NoNeedlessWait
<1>4. DroppedWasCancelled' /\ EndArrives'
  <2>1. ~Waits(t)' /\ \A u \in Task : Waits(u)' => Waits(u)
    BY <1>0 DEF Waits
  <2>2. \A u \in Receiver : u \in Task
    BY DEF Receiver
  <2> QED
    BY <1>0, <1>1, <2>1, <2>2, WaitersKept
<1> QED
  BY <1>2, <1>3, <1>4 DEF SInv

\* A sender queues with the latest item, behind a buffer that is full.
LEMMA SendWaitsStep == ASSUME SInv, NEW t \in Task, SendWaits(t) PROVE SInv'
<1>0. /\ StreamTypeOK /\ QueuesAgree /\ Ordered /\ NoNeedlessWait
      /\ DroppedWasCancelled /\ EndArrives
      /\ pc[t] = "check" /\ t \in Sender /\ ~EndOf(Receiver)
      /\ receivers' = <<>> /\ senders' = Append(senders, t)
      /\ count' = count + 1 /\ item' = [item EXCEPT ![t] = count + 1]
      /\ fut' = [fut EXCEPT ![t] = "pending"] /\ pc' = [pc EXCEPT ![t] = "wait"]
      /\ UNCHANGED <<mustCancel, scope, buffer, open, cancelling, handed>>
  BY DEF SInv, SendWaits, PastCheckpoint, Move
<1>1. /\ Len(buffer) = MaxBufferSize
      /\ \A u \in Task : Contains(receivers, u) => HasPendingCancellation(u)
  BY WouldBlockFacts DEF SendWaits
<1>2. /\ \A u \in Task \ {t} : pc'[u] = pc[u] /\ fut'[u] = fut[u] /\ item'[u] = item[u]
      /\ pc'[t] = "wait" /\ item'[t] = count + 1 /\ item' \in [Task -> Nat]
      /\ pc' \in [Task -> Places] /\ fut' \in [Task -> FutureState]
  BY <1>0 DEF StreamTypeOK, TaskTypeOK, Places, FutureState
<1>3. receivers' \in Seq(Receiver) /\ IsInjective(receivers') /\ \A u : ~Contains(receivers', u)
  BY <1>0, EmptySeq DEF Contains, IsInjective
<1>4. /\ senders' \in Seq(Sender) /\ IsInjective(senders')
      /\ \A x : Contains(senders', x) <=> Contains(senders, x) \/ x = t
  BY <1>0, AppendFacts DEF QueuesAgree, StreamTypeOK
<1>5. StreamTypeOK'
  BY <1>0, <1>2, <1>3, <1>4 DEF StreamTypeOK, TaskTypeOK
<1>6. QueuesAgree'
  BY <1>0, <1>2, <1>3, <1>4, StreamAssumption DEF QueuesAgree, Waits
<1>7. Ordered'
  <2>1. /\ DOMAIN senders = 1..Len(senders) /\ Len(senders) \in Nat
        /\ DOMAIN senders' = 1..(Len(senders) + 1) /\ senders'[Len(senders) + 1] = t
        /\ \A k \in 1..Len(senders) : senders'[k] = senders[k] /\ senders[k] \in Task
                                      /\ senders[k] # t
    <3>1. senders \in Seq(Sender)
      BY <1>0 DEF StreamTypeOK
    <3>2. ~Contains(senders, t)
      BY <1>0 DEF QueuesAgree
    <3> QED
      BY <1>0, <1>4, <3>1, <3>2, AppendProperties, LenProperties, ElementOfSeq, StreamAssumption
         DEF Contains
  <2>2. /\ \A k \in 1..Len(senders) : item'[senders'[k]] = item[senders[k]]
        /\ item'[senders'[Len(senders) + 1]] = count + 1
    BY <1>2, <2>1
  <2>3. /\ count \in Nat /\ handed \in Nat /\ handed <= count
        /\ \A i \in DOMAIN buffer : handed < buffer[i] /\ buffer[i] <= count /\ buffer[i] \in Nat
        /\ \A k \in 1..Len(senders) :
             /\ handed < item[senders[k]] /\ item[senders[k]] <= count
             /\ item[senders[k]] \in Nat
    BY <1>0, <2>1, LenProperties DEF Ordered, StreamTypeOK, Offer
  <2>4. /\ \A i \in DOMAIN buffer : buffer[i] <= count + 1 /\ buffer[i] < count + 1
        /\ \A k \in 1..Len(senders) : item[senders[k]] <= count + 1 /\ item[senders[k]] < count + 1
        /\ handed <= count + 1 /\ handed < count + 1
    BY <2>3
  <2>5. /\ \A j, k \in 1..Len(senders) : j < k => item[senders[j]] < item[senders[k]]
        /\ \A i \in DOMAIN buffer, k \in 1..Len(senders) : buffer[i] < item[senders[k]]
        /\ \A i, j \in DOMAIN buffer : i < j => buffer[i] < buffer[j]
    BY <1>0, <2>1 DEF Ordered, Offer
  <2>6. \A k \in DOMAIN senders' : k \in 1..Len(senders) \/ k = Len(senders) + 1
    BY <2>1
  <2>7. \A k \in DOMAIN senders' : handed < item'[senders'[k]] /\ item'[senders'[k]] <= count + 1
    BY <2>2, <2>3, <2>4, <2>6
  <2>8. ASSUME NEW j \in DOMAIN senders', NEW k \in DOMAIN senders', j < k
        PROVE  item'[senders'[j]] < item'[senders'[k]]
    <3>1. j \in 1..Len(senders)
      BY <2>1, <2>8
    <3> QED
      BY <2>2, <2>4, <2>5, <2>6, <2>8, <3>1
  <2>9. \A i \in DOMAIN buffer, k \in DOMAIN senders' : buffer[i] < item'[senders'[k]]
    BY <2>2, <2>4, <2>5, <2>6
  <2> QED
    BY <1>0, <2>3, <2>4, <2>5, <2>7, <2>8, <2>9 DEF Ordered, Offer
<1>8. NoNeedlessWait'
  BY <1>0, <1>1 DEF NoNeedlessWait
<1>9. DroppedWasCancelled' /\ EndArrives'
  <2>1. /\ t \notin Receiver /\ ~Dropped(t)'
    BY <1>0 DEF Receiver, Dropped
  <2>2. \A u \in Task : /\ Dropped(u)' => HasPendingCancellation(u)
                        /\ Waits(u)' /\ u # t => Waits(u)
                        /\ Dropped(u) /\ Waits(u)' => Dropped(u)'
    BY <1>0, <1>1, <1>2, <1>3, <2>1 DEF Dropped, Waits, DroppedWasCancelled
  <2> QED
    BY <1>0, <2>1, <2>2
       DEF DroppedWasCancelled, EndArrives, EndOf, HasPendingCancellation, Receiver
<1> QED
  BY <1>5, <1>6, <1>7, <1>8, <1>9 DEF SInv

-----------------------------------------------------------------------------
\* The buffer with the item of the first waiting sender: in order, later than what was
\* handed out, and before the items of the other senders.
LEMMA RefilledFacts ==
  ASSUME SInv
  PROVE  /\ Refilled(senders) \in Seq(Nat)
         /\ \A i \in DOMAIN Refilled(senders) :
              /\ handed < Refilled(senders)[i] /\ Refilled(senders)[i] <= count
              /\ \A k \in DOMAIN senders : k > 1 => Refilled(senders)[i] < Offer(k)
         /\ \A i, j \in DOMAIN Refilled(senders) :
              i < j => Refilled(senders)[i] < Refilled(senders)[j]
         /\ IF senders = <<>> THEN Refilled(senders) = buffer
            ELSE Len(Refilled(senders)) = Len(buffer) + 1 /\ Refilled(senders) # <<>>
<1>0. /\ Ordered /\ buffer \in Seq(Nat) /\ senders \in Seq(Sender)
      /\ DOMAIN buffer = 1..Len(buffer) /\ Len(buffer) \in Nat
      /\ DOMAIN senders = 1..Len(senders) /\ Len(senders) \in Nat
      /\ \A k \in DOMAIN senders : Offer(k) \in Nat
      /\ \A i \in DOMAIN buffer : buffer[i] \in Nat
  <2>1. /\ Ordered /\ buffer \in Seq(Nat) /\ senders \in Seq(Sender) /\ item \in [Task -> Nat]
    BY DEF SInv, StreamTypeOK
  <2>2. \A k \in 1..Len(senders) : senders[k] \in Task
    BY <2>1, ElementOfSeq, StreamAssumption
  <2> QED
    BY <2>1, <2>2, LenProperties, ElementOfSeq DEF Offer
<1>1. CASE senders = <<>>
  <2>1. DOMAIN senders = {}
    BY <1>1
  <2> QED
    BY <1>0, <1>1, <2>1 DEF Ordered, Refilled
<1>2. CASE senders # <<>>
  <2>1. Head(senders) = senders[1] /\ 1 \in DOMAIN senders
    BY <1>0, <1>2, TailFacts
  <2> DEFINE x == Offer(1)
             r == Append(buffer, x)
  <2>2. Refilled(senders) = r
    BY <1>2, <2>1 DEF Refilled, Offer
  <2>3. x \in Nat
    BY <1>0, <2>1
  <2>4. /\ r \in Seq(Nat) /\ r # <<>> /\ Len(r) = Len(buffer) + 1
        /\ DOMAIN r = 1..(Len(buffer) + 1)
        /\ \A i \in 1..Len(buffer) : r[i] = buffer[i]
        /\ r[Len(buffer) + 1] = x
    BY <1>0, <2>3, AppendProperties, LenProperties
  <2>5. /\ handed < x /\ x <= count
        /\ \A k \in DOMAIN senders : k > 1 => x < Offer(k)
        /\ \A i \in 1..Len(buffer) : /\ handed < buffer[i] /\ buffer[i] <= count /\ buffer[i] < x
                                     /\ \A k \in DOMAIN senders : buffer[i] < Offer(k)
        /\ \A i, j \in 1..Len(buffer) : i < j => buffer[i] < buffer[j]
    BY <1>0, <2>1 DEF Ordered
  <2> HIDE DEF x, r
  <2>6. \A i \in DOMAIN r : i \in 1..Len(buffer) \/ i = Len(buffer) + 1
    BY <1>0, <2>4
  <2>7. \A i \in DOMAIN r : /\ handed < r[i] /\ r[i] <= count
                            /\ \A k \in DOMAIN senders : k > 1 => r[i] < Offer(k)
    BY <2>4, <2>5, <2>6
  <2>8. ASSUME NEW i \in DOMAIN r, NEW j \in DOMAIN r, i < j PROVE r[i] < r[j]
    <3>1. i \in 1..Len(buffer)
      BY <1>0, <2>4, <2>8
    <3> QED
      BY <2>4, <2>5, <2>6, <2>8, <3>1
  <2> QED
    BY <1>2, <2>2, <2>4, <2>7, <2>8
<1> QED
  BY <1>1, <1>2

\* A receiver takes the first item, and the first sender's joins the buffer behind.
LEMMA ReceiveItemStep == ASSUME SInv, NEW t \in Task, ReceiveItem(t) PROVE SInv'
<1> DEFINE r == Refilled(senders)
<1>0. /\ StreamTypeOK /\ QueuesAgree /\ Ordered /\ NoNeedlessWait
      /\ pc[t] # "wait" /\ pc' = [pc EXCEPT ![t] = "idle"]
      /\ r # <<>> /\ buffer' = Tail(r) /\ handed' = Head(r)
      /\ fut' = Set({senders[k] : k \in DOMAIN senders \cap {1}})
      /\ senders' = IF senders = <<>> THEN <<>> ELSE Tail(senders)
      /\ UNCHANGED <<mustCancel, scope, receivers, item, open, cancelling, count>>
  BY DEF SInv, ReceiveItem, Take, PastCheckpoint, Move
<1>1. /\ r \in Seq(Nat)
      /\ \A i \in DOMAIN r : /\ handed < r[i] /\ r[i] <= count
                             /\ \A k \in DOMAIN senders : k > 1 => r[i] < Offer(k)
      /\ \A i, j \in DOMAIN r : i < j => r[i] < r[j]
      /\ IF senders = <<>> THEN r = buffer ELSE Len(r) = Len(buffer) + 1
  BY RefilledFacts
<1> HIDE DEF r
<1>2. /\ handed' = r[1] /\ 1 \in DOMAIN r /\ r[1] \in Nat
      /\ buffer' \in Seq(Nat) /\ Len(buffer') = Len(r) - 1
      /\ \A i \in DOMAIN buffer' : i + 1 \in DOMAIN r /\ buffer'[i] = r[i + 1]
  BY <1>0, <1>1, TailFacts
<1>3. /\ senders \in Seq(Sender) /\ IsInjective(senders) /\ item \in [Task -> Nat]
      /\ fut \in [Task -> FutureState] /\ pc \in [Task -> Places]
  BY <1>0 DEF StreamTypeOK, QueuesAgree, TaskTypeOK
<1>4. /\ senders' \in Seq(Sender) /\ IsInjective(senders')
      /\ \A i \in DOMAIN senders' : i + 1 \in DOMAIN senders /\ senders'[i] = senders[i + 1]
      /\ \A x : Contains(senders', x) => Contains(senders, x)
      /\ \A x : Contains(senders, x) /\ ~Contains(senders', x) => fut'[x] # "pending" \/ x \notin Task
  <2>1. CASE senders = <<>>
    BY <1>0, <1>3, <2>1
  <2>2. CASE senders # <<>>
    <3>1. /\ Head(senders) = senders[1] /\ 1 \in DOMAIN senders /\ senders' = Tail(senders)
          /\ senders' \in Seq(Sender) /\ IsInjective(senders')
          /\ \A i \in DOMAIN senders' : i + 1 \in DOMAIN senders /\ senders'[i] = senders[i + 1]
          /\ \A x : Contains(senders', x) <=> Contains(senders, x) /\ x # Head(senders)
      BY <1>0, <1>3, <2>2, TailFacts
    <3>2. senders[1] \in Task => fut'[senders[1]] # "pending"
      BY <1>0, <1>3, <3>1, SetFacts
    <3> QED
      BY <3>1, <3>2
  <2> QED
    BY <2>1, <2>2
<1>5. /\ fut' \in [Task -> FutureState]
      /\ \A u \in Task : fut'[u] = "pending" => fut[u] = "pending"
      /\ \A u \in Task \ {t} : pc'[u] = pc[u]
      /\ pc'[t] = "idle" /\ pc' \in [Task -> Places]
  BY <1>0, <1>3, SetFacts DEF Places
<1>6. receivers = <<>> /\ Len(buffer') <= MaxBufferSize
      /\ (senders' # <<>> => Len(buffer') = MaxBufferSize)
  <2>1. receivers = <<>>
    BY <1>0, <1>1 DEF NoNeedlessWait
  <2>2. Len(buffer) \in Nat /\ Len(buffer) <= MaxBufferSize
    BY <1>0, LenProperties DEF StreamTypeOK
  <2>3. CASE senders = <<>>
    BY <1>0, <1>1, <1>2, <2>1, <2>2, <2>3, StreamAssumption
  <2>4. CASE senders # <<>>
    BY <1>0, <1>1, <1>2, <2>1, <2>2, <2>4, StreamAssumption DEF NoNeedlessWait
  <2> QED
    BY <2>3, <2>4
<1>7. StreamTypeOK' /\ NoNeedlessWait'
  BY <1>0, <1>2, <1>3, <1>4, <1>5, <1>6 DEF StreamTypeOK, TaskTypeOK, NoNeedlessWait
<1>8. QueuesAgree'
  BY <1>0, <1>4, <1>5, StreamAssumption DEF QueuesAgree, Waits
<1>9. Ordered'
  <2>1. /\ DOMAIN senders = 1..Len(senders) /\ Len(senders) \in Nat
        /\ DOMAIN r = 1..Len(r) /\ Len(r) \in Nat
        /\ DOMAIN buffer' = 1..(Len(r) - 1)
        /\ DOMAIN senders' = 1..Len(senders') /\ Len(senders') \in Nat
    BY <1>1, <1>2, <1>3, <1>4, LenProperties
  <2>2. handed' <= count'
    BY <1>0, <1>1, <1>2
  <2>3. ASSUME NEW i \in DOMAIN buffer'
        PROVE  handed' < buffer'[i] /\ buffer'[i] <= count'
    <3>1. i + 1 \in DOMAIN r /\ 1 < i + 1 /\ buffer'[i] = r[i + 1]
      BY <1>2, <2>1
    <3> QED
      BY <1>0, <1>1, <1>2, <3>1
  <2>4. ASSUME NEW i \in DOMAIN buffer', NEW j \in DOMAIN buffer', i < j
        PROVE  buffer'[i] < buffer'[j]
    <3>1. /\ i + 1 \in DOMAIN r /\ buffer'[i] = r[i + 1]
          /\ j + 1 \in DOMAIN r /\ buffer'[j] = r[j + 1]
      BY <1>2
    <3>2. i + 1 < j + 1
      BY <2>1, <2>4
    <3> QED
      BY <1>1, <3>1, <3>2
  <2>5. \A k \in DOMAIN senders' : /\ k + 1 \in DOMAIN senders /\ k + 1 > 1
                                   /\ item'[senders'[k]] = Offer(k + 1)
    BY <1>0, <1>4, <2>1 DEF Offer
  <2>6. \A k \in DOMAIN senders' : handed' < item'[senders'[k]] /\ item'[senders'[k]] <= count'
    <3>1. \A k \in DOMAIN senders : k > 1 => r[1] < Offer(k)
      BY <1>1, <1>2
    <3>2. \A k \in DOMAIN senders : Offer(k) <= count
      BY <1>0 DEF Ordered
    <3> QED
      BY <1>0, <1>2, <2>5, <3>1, <3>2
  <2>7. \A i \in DOMAIN buffer', k \in DOMAIN senders' : buffer'[i] < item'[senders'[k]]
    BY <1>1, <1>2, <2>5
  <2>8. \A j, k \in DOMAIN senders' : j < k => item'[senders'[j]] < item'[senders'[k]]
    BY <1>0, <2>1, <2>5 DEF Ordered
  <2> QED
    BY <2>2, <2>3, <2>4, <2>6, <2>7, <2>8 DEF Ordered, Offer
<1>10. DroppedWasCancelled' /\ EndArrives'
  <2>1. ~Waits(t)' /\ \A u \in Task : Waits(u)' => Waits(u)
    BY <1>5 DEF Waits
  <2> QED
    BY <1>0, <2>1, WaitersKept
<1> QED
  BY <1>7, <1>8, <1>9, <1>10 DEF SInv

\* A receiver queues for lack of an item.
LEMMA ReceiveWaitsStep == ASSUME SInv, NEW t \in Task, ReceiveWaits(t) PROVE SInv'
<1>0. /\ StreamTypeOK /\ QueuesAgree /\ Ordered /\ DroppedWasCancelled /\ EndArrives
      /\ pc[t] = "check" /\ t \in Receiver /\ ~EndOf(Sender) /\ Refilled(senders) = <<>>
      /\ receivers' = Append(receivers, t)
      /\ fut' = [fut EXCEPT ![t] = "pending"] /\ pc' = [pc EXCEPT ![t] = "wait"]
      /\ UNCHANGED <<mustCancel, scope, buffer, senders, item, open, cancelling, count, handed>>
  BY DEF SInv, ReceiveWaits, PastCheckpoint, Move, history
<1>1. buffer = <<>> /\ senders = <<>>
  BY <1>0, RefilledFacts
<1>2. /\ \A u \in Task \ {t} : pc'[u] = pc[u] /\ fut'[u] = fut[u]
      /\ pc'[t] = "wait" /\ pc' \in [Task -> Places] /\ fut' \in [Task -> FutureState]
  BY <1>0 DEF StreamTypeOK, TaskTypeOK, Places, FutureState
<1>3. /\ receivers' \in Seq(Receiver) /\ IsInjective(receivers')
      /\ \A x : Contains(receivers', x) <=> Contains(receivers, x) \/ x = t
  BY <1>0, AppendFacts DEF QueuesAgree, StreamTypeOK
<1>4. StreamTypeOK'
  BY <1>0, <1>2, <1>3 DEF StreamTypeOK, TaskTypeOK
<1>5. QueuesAgree'
  BY <1>0, <1>2, <1>3, StreamAssumption DEF QueuesAgree, Waits, Receiver
<1>6. Ordered' /\ NoNeedlessWait'
  BY <1>0, <1>1 DEF Ordered, Offer, NoNeedlessWait
<1>7. DroppedWasCancelled' /\ EndArrives'
  <2>1. \A u \in Task \ {t} : /\ Waits(u)' <=> Waits(u)
                              /\ Dropped(u)' <=> Dropped(u)
    BY <1>2, <1>3 DEF Waits, Dropped
  <2>2. ~Dropped(t)' /\ t \notin Sender
    BY <1>0, <1>3 DEF Dropped, Receiver
  <2> QED
    BY <1>0, <2>1, <2>2 DEF DroppedWasCancelled, EndArrives, EndOf, HasPendingCancellation
<1> QED
  BY <1>4, <1>5, <1>6, <1>7 DEF SInv

\* The last clone of an end wakes whoever waits for it; dropped receivers stay behind.
LEMMA CloseStep == ASSUME SInv, NEW t \in Task, Close(t) PROVE SInv'
<1> DEFINE last == open' \cap (IF t \in Sender THEN Sender ELSE Receiver) = {}
<1>0. /\ StreamTypeOK /\ QueuesAgree /\ Ordered /\ NoNeedlessWait
      /\ DroppedWasCancelled /\ EndArrives
      /\ pc[t] = "idle" /\ t \in open /\ open' = open \ {t}
      /\ fut' = Set(IF last THEN Woken(t) ELSE {})
      /\ receivers' = IF last /\ t \in Sender THEN <<>> ELSE receivers
      /\ UNCHANGED <<pc, mustCancel, scope, buffer, senders, item, cancelling, count, handed>>
  BY DEF SInv, Close, history
<1> HIDE DEF last
<1>1. /\ receivers \in Seq(Receiver) /\ senders \in Seq(Sender)
      /\ fut \in [Task -> FutureState]
  BY <1>0 DEF StreamTypeOK, TaskTypeOK
<1>2. /\ receivers' \in Seq(Receiver) /\ IsInjective(receivers')
      /\ \A x : Contains(receivers', x) => Contains(receivers, x)
  BY <1>0, EmptySeq DEF StreamTypeOK, QueuesAgree, Contains, IsInjective
<1>3. /\ fut' \in [Task -> FutureState]
      /\ \A u \in Task : fut'[u] = "pending" => fut[u] = "pending"
      /\ last => \A u \in Task : fut'[u] = "pending" => u \notin Woken(t)
  BY <1>0, <1>1, SetFacts
<1>4. \A u : u \in Woken(t) <=> IF t \in Sender THEN Contains(receivers, u) ELSE Contains(senders, u)
  BY <1>1, LenProperties DEF Woken, Range, Contains
<1>5. \A u \in Task : Waits(u)' => Waits(u)
  BY <1>0, <1>3 DEF Waits
<1>6. StreamTypeOK' /\ QueuesAgree'
  BY <1>0, <1>2, <1>3, <1>5, StreamAssumption DEF StreamTypeOK, TaskTypeOK, QueuesAgree
<1>7. Ordered' /\ NoNeedlessWait'
  BY <1>0 DEF Ordered, Offer, NoNeedlessWait
<1>8. \A u \in Task : Waits(u)' => (Dropped(u)' <=> Dropped(u))
  <2> SUFFICES ASSUME NEW u \in Receiver, u \in Task, Waits(u)'
               PROVE  Contains(receivers', u) <=> Contains(receivers, u)
    BY <1>5 DEF Dropped
  <2>1. CASE last /\ t \in Sender
    BY <1>2, <1>3, <1>4, <2>1 DEF Waits
  <2>2. CASE ~(last /\ t \in Sender)
    BY <1>0, <2>2
  <2> QED
    BY <2>1, <2>2
<1>9. DroppedWasCancelled'
  BY <1>0, <1>5, <1>8 DEF DroppedWasCancelled, Dropped, HasPendingCancellation
<1>10. EndArrives'
  <2> SUFFICES ASSUME NEW u \in Task, Waits(u)', ~Dropped(u)'
               PROVE  ~EndOf(IF u \in Sender THEN Receiver ELSE Sender)'
    BY DEF EndArrives
  <2>1. Waits(u) /\ ~Dropped(u) /\ ~EndOf(IF u \in Sender THEN Receiver ELSE Sender)
    BY <1>0, <1>5, <1>8 DEF EndArrives
  <2>2. IF u \in Sender THEN Contains(senders, u) ELSE Contains(receivers, u)
    BY <1>0, <2>1 DEF Dropped, Receiver, QueuesAgree
  <2>3. CASE last
    <3>1. u \in Sender <=> t \in Sender
      BY <1>3, <1>4, <2>2, <2>3 DEF Waits
    <3> QED
      BY <1>0, <2>1, <3>1 DEF EndOf, Receiver
  <2>4. CASE ~last
    BY <1>0, <2>1, <2>4 DEF EndOf, Receiver, last
  <2> QED
    BY <2>3, <2>4
<1> QED
  BY <1>6, <1>7, <1>9, <1>10 DEF SInv

\* A cancellation stops a wait or leaves it as it is.
LEMMA CancellationStep ==
  ASSUME SInv, NEW t \in Task,
         ScopeCancel(t, TRUE) \/ Redeliver(t, TRUE) \/ NativeCancel(t, Suspended(t)),
         Requested(t)
  PROVE  SInv'
<1>0. StreamTypeOK
  BY DEF SInv
<1>1. /\ UNCHANGED <<pc, buffer, receivers, senders, item, open, count, handed>>
      /\ cancelling \subseteq cancelling'
      /\ \A u \in Task : scope[u] = "cancelled" => scope'[u] = "cancelled"
      /\ \A u \in Task : fut'[u] = "pending" => fut[u] = "pending"
  BY <1>0 DEF ScopeCancel, Redeliver, NativeCancel, TaskCancel, Requested, stateVars,
     StreamTypeOK, TaskTypeOK, FutureState
<1>2. TaskTypeOK(Places)'
  BY <1>0, <1>1 DEF ScopeCancel, Redeliver, NativeCancel, TaskCancel, StreamTypeOK, TaskTypeOK,
     FutureState
<1> QED
  BY <1>1, <1>2, QuietStep DEF Waits, HasPendingCancellation

\* Every step keeps the items in order and the waiting tasks in agreement with the queues.
LEMMA NextSInv == SInv /\ [Next]_vars => SInv'
<1> SUFFICES ASSUME SInv, [Next]_vars PROVE SInv'
  OBVIOUS
<1>0. StreamTypeOK
  BY DEF SInv
<1>1. CASE UNCHANGED vars
  <2>1. TaskTypeOK(Places)'
    BY <1>0, <1>1 DEF StreamTypeOK, TaskTypeOK, vars, taskVars
  <2> QED
    BY <1>1, <2>1, QuietStep
       DEF vars, taskVars, streamVars, stateVars, history, Waits, HasPendingCancellation
<1>2. ASSUME NEW t \in Task, Call(t) \/ CallFails(t) PROVE SInv'
  <2>1. /\ UNCHANGED <<fut, mustCancel, scope, stateVars, cancelling, count, handed>>
        /\ pc[t] # "wait" /\ \E place \in {"idle", "check"} : Move(t, place)
    BY <1>2 DEF Call, CallFails, PastCheckpoint, streamVars, history
  <2>2. /\ pc' \in [Task -> Places] /\ pc'[t] # "wait"
        /\ \A u \in Task \ {t} : pc'[u] = pc[u]
    BY <1>0, <2>1 DEF StreamTypeOK, TaskTypeOK, Move, Places
  <2>3. TaskTypeOK(Places)'
    BY <1>0, <2>1, <2>2 DEF StreamTypeOK, TaskTypeOK
  <2> QED
    BY <2>1, <2>2, <2>3, QuietStep DEF stateVars, Waits, HasPendingCancellation
<1>3. ASSUME NEW t \in Task, Interrupted(t) PROVE SInv'
  <2>1. TaskTypeOK(Places)'
    BY <1>0, <1>3 DEF StreamTypeOK, TaskTypeOK, Interrupted, Move, Stepped, Unwind, Places, FutureState
  <2> QED
    BY <1>3, <2>1, LeavingStep DEF Interrupted, Unwind, history
<1>4. ASSUME NEW t \in Task, WaitEnds(t) PROVE SInv'
  <2>1. TaskTypeOK(Places)'
    BY <1>0, <1>4 DEF StreamTypeOK, TaskTypeOK, WaitEnds, Move, Stepped, Places, FutureState
  <2> QED
    BY <1>4, <2>1, LeavingStep DEF WaitEnds
<1>5. ASSUME NEW t \in Task, Clone(t) \/ Uncancel(t) PROVE SInv'
  <2>1. /\ UNCHANGED <<taskVars, buffer, receivers, senders, item, count, handed>>
        /\ open \subseteq open' /\ pc[t] # "wait"
        /\ \A u \in Task \ {t} : u \in cancelling => u \in cancelling'
    BY <1>5 DEF Clone, Uncancel, stateVars, history
  <2>2. TaskTypeOK(Places)'
    BY <1>0, <2>1 DEF StreamTypeOK, TaskTypeOK, taskVars
  <2> QED
    BY <2>1, <2>2, QuietStep DEF taskVars, Waits, HasPendingCancellation
<1>6. ASSUME NEW t \in Task, CancelledByScope(t) \/ CancelledByAsyncio(t) PROVE SInv'
  BY <1>6, CancellationStep DEF CancelledByScope, CancelledByAsyncio
<1> QED
  BY <1>1, <1>2, <1>3, <1>4, <1>5, <1>6, SendItemStep, SendNowaitBlocksStep, SendWaitsStep,
     ReceiveItemStep, ReceiveWaitsStep, CloseStep DEF Next

-----------------------------------------------------------------------------
\* The invariant with the buffer and the senders apart gives the order of both together.
LEMMA OrderedInOrder == SInv => InOrder
<1> SUFFICES ASSUME SInv PROVE InOrder
  OBVIOUS
<1> DEFINE offers == [k \in DOMAIN senders |-> item[senders[k]]]
           pending == buffer \o offers
<1>0. /\ Ordered /\ buffer \in Seq(Nat) /\ senders \in Seq(Sender) /\ item \in [Task -> Nat]
      /\ DOMAIN buffer = 1..Len(buffer) /\ Len(buffer) \in Nat
      /\ DOMAIN senders = 1..Len(senders) /\ Len(senders) \in Nat
      /\ \A k \in 1..Len(senders) : senders[k] \in Task
  <2>1. Ordered /\ buffer \in Seq(Nat) /\ senders \in Seq(Sender) /\ item \in [Task -> Nat]
    BY DEF SInv, StreamTypeOK
  <2> QED
    BY <2>1, LenProperties, ElementOfSeq, StreamAssumption
<1>1. offers \in Seq(Nat) /\ Len(offers) = Len(senders)
  BY <1>0
<1>2. \A k \in 1..Len(senders) : offers[k] = Offer(k)
  BY <1>0 DEF Offer
<1> HIDE DEF offers
<1>3. /\ pending \in Seq(Nat) /\ DOMAIN pending = 1..(Len(buffer) + Len(senders))
      /\ \A i \in 1..(Len(buffer) + Len(senders)) :
           pending[i] = IF i <= Len(buffer) THEN buffer[i] ELSE offers[i - Len(buffer)]
  <2>1. /\ pending \in Seq(Nat) /\ Len(pending) = Len(buffer) + Len(offers)
        /\ \A i \in 1..(Len(buffer) + Len(offers)) :
             pending[i] = IF i <= Len(buffer) THEN buffer[i] ELSE offers[i - Len(buffer)]
    BY <1>0, <1>1, ConcatProperties
  <2>2. DOMAIN pending = 1..Len(pending)
    BY <2>1, LenProperties
  <2> QED
    BY <1>1, <2>1, <2>2
<1> HIDE DEF pending
<1>4. ASSUME NEW i \in DOMAIN pending
      PROVE  \/ i \in DOMAIN buffer /\ pending[i] = buffer[i]
             \/ /\ i > Len(buffer) /\ i - Len(buffer) \in DOMAIN senders
                /\ pending[i] = Offer(i - Len(buffer))
  <2>1. CASE i <= Len(buffer)
    BY <1>0, <1>3, <2>1
  <2>2. CASE ~(i <= Len(buffer))
    <3>1. i - Len(buffer) \in 1..Len(senders) /\ i > Len(buffer)
      BY <1>0, <1>3, <2>2
    <3> QED
      BY <1>0, <1>2, <1>3, <2>2, <3>1
  <2> QED
    BY <2>1, <2>2
<1>5. \A k \in DOMAIN pending : pending[k] > handed
  <2>1. /\ \A i \in DOMAIN buffer : handed < buffer[i] /\ buffer[i] \in Nat
        /\ \A k \in DOMAIN senders : handed < Offer(k) /\ Offer(k) \in Nat
        /\ handed \in Nat
    BY <1>0, ElementOfSeq DEF Ordered, Offer, SInv, StreamTypeOK
  <2> QED
    BY <1>4, <2>1
<1>6. ASSUME NEW j \in DOMAIN pending, NEW k \in DOMAIN pending, j < k
      PROVE  pending[j] < pending[k]
  <2>1. CASE k \in DOMAIN buffer /\ pending[k] = buffer[k]
    <3>1. j \in DOMAIN buffer /\ pending[j] = buffer[j]
      BY <1>0, <1>3, <1>6, <2>1
    <3> QED
      BY <1>0, <1>6, <2>1, <3>1 DEF Ordered
  <2>2. CASE /\ k > Len(buffer) /\ k - Len(buffer) \in DOMAIN senders
             /\ pending[k] = Offer(k - Len(buffer))
    <3>1. CASE j \in DOMAIN buffer /\ pending[j] = buffer[j]
      BY <1>0, <2>2, <3>1 DEF Ordered
    <3>2. CASE /\ j > Len(buffer) /\ j - Len(buffer) \in DOMAIN senders
               /\ pending[j] = Offer(j - Len(buffer))
      <4>1. j - Len(buffer) < k - Len(buffer)
        BY <1>0, <1>3, <1>6
      <4> QED
        BY <1>0, <2>2, <3>2, <4>1 DEF Ordered
    <3> QED
      BY <1>4, <3>1, <3>2
  <2> QED
    BY <1>4, <2>1, <2>2
<1> QED
  BY <1>5, <1>6 DEF InOrder, pending, offers

\* First in, first out, for every buffer size, any number of tasks and any cancellations.
THEOREM ItemsInOrder == Spec => []InOrder
<1>1. Init => SInv
  BY InitSInv
<1>2. SInv /\ [Next]_vars => SInv'
  BY NextSInv
<1>3. SInv => InOrder
  BY OrderedInOrder
<1> QED
  BY <1>1, <1>2, <1>3, PTL DEF Spec

\* Receivers wait only while there is nothing to receive, senders only while the buffer
\* is full.
THEOREM NobodyWaitsNeedlessly == Spec => []NoNeedlessWait
<1>1. Init => SInv
  BY InitSInv
<1>2. SInv /\ [Next]_vars => SInv'
  BY NextSInv
<1>3. SInv => NoNeedlessWait
  BY DEF SInv
<1> QED
  BY <1>1, <1>2, <1>3, PTL DEF Spec

\* A receiver that waits outside of the queue was being cancelled when a sender passed
\* over it.
THEOREM DroppedOnlyWhenCancelled == Spec => []DroppedWasCancelled
<1>1. Init => SInv
  BY InitSInv
<1>2. SInv /\ [Next]_vars => SInv'
  BY NextSInv
<1>3. SInv => DroppedWasCancelled
  BY DEF SInv
<1> QED
  BY <1>1, <1>2, <1>3, PTL DEF Spec

\* When the last clone of an end is closed, nobody is left waiting for it on the other
\* side, whoever was dropped from the queue apart.
THEOREM EndReachesWaiters == Spec => []EndArrives
<1>1. Init => SInv
  BY InitSInv
<1>2. SInv /\ [Next]_vars => SInv'
  BY NextSInv
<1>3. SInv => EndArrives
  BY DEF SInv
<1> QED
  BY <1>1, <1>2, <1>3, PTL DEF Spec

-----------------------------------------------------------------------------
(* What is lost.  An accepted item is kept once it is in the buffer or was   *)
(* received: it leaves the buffer only when it is received.  In between it   *)
(* may be in the hands of one receiver, which has no cancellation pending    *)
(* when it is handed the item; from then on no cancel scope interrupts it,   *)
(* so that only asyncio's own cancel() puts the item at risk.                *)

Kept == received \union Range(buffer)
InHands == {item[t] : t \in Receiver}
Missing == accepted \ (Kept \union InHands)
AtRisk == {item[t] : t \in {u \in Receiver : mustCancel[u]}} \ {0}

\* A call that is to be interrupted has a cancellation pending.
Requests ==
  \A t \in Task : mustCancel[t] \/ fut[t] = "cancelled" => t \in cancelling /\ pc[t] # "idle"

\* A receiver that was handed an item waits no more, and is in no queue.
Hands ==
  \A t \in Receiver :
    /\ item[t] # 0 => pc[t] = "wait" /\ fut[t] = "result" /\ ~Contains(receivers, t)
    /\ Contains(receivers, t) => fut[t] \in {"pending", "cancelled"}

\* The item of a sender that was taken from the queue went into the buffer.
Taken == \A t \in Sender : pc[t] = "wait" /\ ~Contains(senders, t) => item[t] \in Kept

LossesCounted ==
  /\ natives \in Nat /\ IsFiniteSet(Missing \union AtRisk)
  /\ Cardinality(Missing \union AtRisk) <= natives

LossInv ==
  /\ Requests /\ Hands /\ Taken
  /\ 0 \notin accepted /\ 0 \notin received /\ LossesCounted

LEMMA InitLossInv == Init => LossInv
<1> SUFFICES ASSUME Init PROVE LossInv
  OBVIOUS
<1>1. Missing \union AtRisk = {}
  BY StreamAssumption DEF Init, TaskInit, Missing, AtRisk, Receiver
<1>2. LossesCounted
  BY <1>1, FS_EmptySet DEF LossesCounted, Init
<1>3. Requests /\ Hands /\ Taken
  BY StreamAssumption DEF Init, TaskInit, Requests, Hands, Taken, Contains, Receiver
<1> QED
  BY <1>2, <1>3 DEF LossInv, Init

\* No more is lost than was, but for one item with one more call of cancel().
LEMMA CountedStep ==
  ASSUME LossesCounted, NEW x,
         \/ (Missing \union AtRisk)' \subseteq Missing \union AtRisk /\ natives' = natives
         \/ (Missing \union AtRisk)' \subseteq (Missing \union AtRisk) \union {x} /\ natives' = natives + 1
  PROVE  LossesCounted'
<1> DEFINE M == Missing \union AtRisk
<1>1. IsFiniteSet(M) /\ Cardinality(M) \in Nat /\ Cardinality(M) <= natives /\ natives \in Nat
  BY FS_CardinalityType DEF LossesCounted
<1>2. \/ M' \subseteq M /\ natives' = natives
      \/ M' \subseteq M \union {x} /\ natives' = natives + 1
  OBVIOUS
<1>3. LossesCounted' <=> natives' \in Nat /\ IsFiniteSet(M') /\ Cardinality(M') <= natives'
  BY DEF LossesCounted
<1> HIDE DEF M
<1>4. CASE M' \subseteq M /\ natives' = natives
  <2>1. IsFiniteSet(M') /\ Cardinality(M') <= Cardinality(M) /\ Cardinality(M') \in Nat
    BY <1>1, <1>4, FS_Subset, FS_CardinalityType
  <2> QED
    BY <1>1, <1>3, <1>4, <2>1
<1>5. CASE M' \subseteq M \union {x} /\ natives' = natives + 1
  <2>1. /\ IsFiniteSet(M \union {x})
        /\ Cardinality(M \union {x}) = IF x \in M THEN Cardinality(M) ELSE Cardinality(M) + 1
    BY <1>1, FS_AddElement
  <2>2. /\ IsFiniteSet(M') /\ Cardinality(M') <= Cardinality(M \union {x})
        /\ Cardinality(M') \in Nat
    BY <1>5, <2>1, FS_Subset, FS_CardinalityType
  <2> QED
    BY <1>1, <1>3, <1>5, <2>1, <2>2
<1> QED
  BY <1>2, <1>4, <1>5

\* Steps that hand over, take and end nothing
LEMMA NoItemMoves ==
  ASSUME LossInv, UNCHANGED <<buffer, senders, item, accepted, received, natives>>,
         \A u \in Task : mustCancel'[u] => mustCancel[u] \/ item[u] = 0 \/ u \in Sender,
         \A u \in Sender : pc'[u] = "wait" => pc[u] = "wait",
         Requests', Hands'
  PROVE  LossInv'
<1>1. Taken'
  BY DEF LossInv, Taken, Kept
<1>2. Missing' \subseteq Missing /\ AtRisk' \subseteq AtRisk
  BY DEF Missing, AtRisk, Kept, InHands, Receiver
<1>3. LossesCounted'
  BY <1>2, CountedStep DEF LossInv
<1> QED
  BY <1>1, <1>3 DEF LossInv

\* A call that is over has no item any more: what it had it gave back, or it was at risk.
LEMMA LeavingLoses ==
  ASSUME SInv, LossInv, NEW t \in Task, Interrupted(t) \/ WaitEnds(t)
  PROVE  LossInv'
<1>0. /\ StreamTypeOK /\ IsInjective(receivers) /\ IsInjective(senders)
      /\ pc \in [Task -> Places] /\ fut \in [Task -> FutureState]
      /\ mustCancel \in [Task -> BOOLEAN] /\ item \in [Task -> Nat]
      /\ Requests /\ Hands /\ Taken /\ 0 \notin accepted /\ 0 \notin received
  BY DEF SInv, QueuesAgree, StreamTypeOK, TaskTypeOK, LossInv
<1>1. /\ receivers' = RemoveFirst(receivers, t) /\ senders' = RemoveFirst(senders, t)
      /\ item' = [item EXCEPT ![t] = 0] /\ fut' = [fut EXCEPT ![t] = "none"]
      /\ pc' = [pc EXCEPT ![t] = "idle"]
      /\ \A u \in Task \ {t} : mustCancel'[u] = mustCancel[u]
      /\ ~mustCancel'[t]
      /\ UNCHANGED <<buffer, cancelling, natives>>
  BY <1>0 DEF Interrupted, WaitEnds, Stepped, Move, Unwind, history, Raises
<1>2. /\ \A x : Contains(receivers', x) <=> Contains(receivers, x) /\ x # t
      /\ \A x : Contains(senders', x) <=> Contains(senders, x) /\ x # t
  BY <1>0, <1>1, WithdrawFacts DEF StreamTypeOK
<1>3. /\ \A u \in Task \ {t} : /\ pc'[u] = pc[u] /\ fut'[u] = fut[u] /\ item'[u] = item[u]
      /\ pc'[t] = "idle" /\ fut'[t] = "none" /\ item'[t] = 0
  BY <1>0, <1>1
<1>4. /\ received' = received \/ (t \in Receiver /\ received' = received \union ({item[t]} \ {0}))
      /\ accepted' = accepted \/ (t \in Sender /\ pc[t] = "wait" /\ ~Contains(senders, t)
                                  /\ accepted' = accepted \union {item[t]})
  BY DEF Interrupted, WaitEnds, history
<1>5. 0 \notin Kept
  BY <1>0 DEF SInv, Kept, Range, Ordered, StreamTypeOK
<1>6. 0 \notin accepted' /\ 0 \notin received' /\ Kept \subseteq Kept'
      /\ accepted' \subseteq accepted \union Kept
  BY <1>0, <1>1, <1>4, <1>5 DEF Kept, Taken
<1>7. Requests' /\ Hands'
  BY <1>0, <1>1, <1>2, <1>3 DEF Requests, Hands, Receiver
<1>8. Taken'
  BY <1>0, <1>2, <1>3, <1>6, StreamAssumption DEF Taken
<1>9. t \in Receiver /\ item[t] # 0 => item[t] \in received' \/ mustCancel[t]
  BY <1>0 DEF Interrupted, WaitEnds, Hands, Raises
<1>10. Missing' \subseteq Missing \union AtRisk
  <2> SUFFICES ASSUME NEW x, x \in accepted', x \notin Kept', x \notin InHands'
               PROVE  x \in Missing \union AtRisk
    BY DEF Missing
  <2>1. x \in accepted /\ x \notin Kept /\ x # 0
    BY <1>0, <1>6
  <2>2. CASE x \in InHands
    <3>1. PICK u \in Receiver : x = item[u]
      BY <2>2 DEF InHands
    <3>2. u = t
      BY <1>3, <3>1 DEF InHands, Receiver
    <3>3. mustCancel[t]
      BY <1>9, <2>1, <3>1, <3>2 DEF Kept
    <3> QED
      BY <2>1, <3>1, <3>2, <3>3 DEF AtRisk
  <2>3. CASE x \notin InHands
    BY <2>1, <2>3 DEF Missing
  <2> QED
    BY <2>2, <2>3
<1>11. AtRisk' \subseteq AtRisk
  BY <1>1, <1>3 DEF AtRisk, Receiver
<1>12. LossesCounted'
  BY <1>1, <1>10, <1>11, CountedStep DEF LossInv
<1> QED
  BY <1>6, <1>7, <1>8, <1>12 DEF LossInv

\* An item that is sent is in the buffer, or in the hands of a receiver that has none
\* and that nobody interrupts.
LEMMA SendingLoses ==
  ASSUME SInv, LossInv, NEW t \in Task, SendItem(t)
  PROVE  LossInv'
<1>0. /\ StreamTypeOK /\ IsInjective(receivers) /\ receivers \in Seq(Receiver)
      /\ pc \in [Task -> Places] /\ fut \in [Task -> FutureState] /\ buffer \in Seq(Nat)
      /\ mustCancel \in [Task -> BOOLEAN] /\ item \in [Task -> Nat] /\ count \in Nat
      /\ Requests /\ Hands /\ Taken /\ 0 \notin accepted /\ 0 \notin received
      /\ QueuesAgree
  BY DEF SInv, QueuesAgree, StreamTypeOK, TaskTypeOK, LossInv
<1>1. /\ t \in Sender /\ Put(count + 1) /\ accepted' = accepted \union {count + 1}
      /\ pc[t] # "wait" /\ pc' = [pc EXCEPT ![t] = "idle"]
      /\ ~mustCancel[t] /\ fut[t] # "cancelled"
      /\ UNCHANGED <<mustCancel, senders, cancelling, received, natives>>
  BY <1>0 DEF SendItem, PastCheckpoint, Move, Raises, Requests
<1>2. \A u \in Task : pc'[u] = IF u = t THEN "idle" ELSE pc[u]
  BY <1>0, <1>1
<1>3. /\ Len(receivers) \in Nat /\ DOMAIN receivers = 1..Len(receivers)
      /\ \A k \in 1..Len(receivers) : receivers[k] \in Receiver
      /\ \A u \in Receiver : u \in Task /\ u \notin Sender
      /\ DOMAIN buffer = 1..Len(buffer) /\ Len(buffer) \in Nat
  BY <1>0, LenProperties, ElementOfSeq DEF Receiver
<1>4. ASSUME \A u \in Receiver : mustCancel[u] => item'[u] = item[u] \/ item'[u] = 0,
             Kept \subseteq Kept', InHands \subseteq InHands' \union {0},
             count + 1 \in Kept' \union InHands', Requests', Hands',
             \A u \in Sender : item'[u] = item[u]
      PROVE  LossInv'
  <2>1. Missing' \subseteq Missing
    BY <1>0, <1>1, <1>4 DEF Missing
  <2>2. AtRisk' \subseteq AtRisk
    BY <1>1, <1>4 DEF AtRisk
  <2>3. LossesCounted'
    BY <1>1, <2>1, <2>2, CountedStep DEF LossInv
  <2>4. Taken'
    BY <1>0, <1>1, <1>2, <1>4 DEF Taken
  <2>5. 0 \notin accepted' /\ 0 \notin received'
    BY <1>0, <1>1
  <2> QED
    BY <1>4, <2>3, <2>4, <2>5 DEF LossInv
<1>5. ASSUME NEW k \in DOMAIN receivers, Live(k),
             receivers' = SubSeq(receivers, k + 1, Len(receivers)),
             item' = [item EXCEPT ![receivers[k]] = count + 1],
             fut' = Set({receivers[k]}), buffer' = buffer
      PROVE  LossInv'
  <2> DEFINE r == receivers[k]
  <2>1. /\ r \in Receiver /\ r \in Task /\ r \notin Sender /\ Contains(receivers, r)
        /\ k \in 0..Len(receivers)
    BY <1>3 DEF Contains
  <2>2. /\ item[r] = 0 /\ ~mustCancel[r] /\ fut[r] = "pending" /\ r # t /\ pc[r] = "wait"
    BY <1>0, <1>1, <1>5, <2>1 DEF Hands, Requests, Live, HasPendingCancellation, QueuesAgree
  <2>3. /\ \A x : Contains(receivers', x)
                  <=> Contains(receivers, x) /\ x \notin {receivers[j] : j \in 1..k}
    BY <1>0, <1>5, <2>1, DropFacts
  <2>4. ~Contains(receivers', r) /\ \A x : Contains(receivers', x) => Contains(receivers, x)
    BY <1>3, <2>3
  <2>5. /\ \A u \in Task : item'[u] = IF u = r THEN count + 1 ELSE item[u]
        /\ \A u \in Task : fut'[u] = IF u = r THEN "result" ELSE fut[u]
    BY <1>0, <1>5, <2>1, <2>2 DEF Set
  <2> HIDE DEF r
  <2>6. Requests'
    BY <1>0, <1>1, <1>2, <2>5 DEF Requests
  <2>7. Hands'
    BY <1>0, <1>1, <1>2, <1>3, <2>2, <2>4, <2>5 DEF Hands
  <2>8. \A u \in Receiver : mustCancel[u] => item'[u] = item[u] \/ item'[u] = 0
    BY <1>3, <2>2, <2>5
  <2>9. Kept' = Kept
    BY <1>1, <1>5 DEF Kept
  <2>10. InHands \subseteq InHands' \union {0} /\ count + 1 \in InHands'
    BY <1>3, <2>1, <2>2, <2>5 DEF InHands
  <2>11. \A u \in Sender : item'[u] = item[u]
    BY <2>1, <2>5, StreamAssumption
  <2> QED
    BY <1>4, <2>6, <2>7, <2>8, <2>9, <2>10, <2>11
<1>6. CASE /\ receivers' = <<>> /\ buffer' = Append(buffer, count + 1)
           /\ UNCHANGED <<item, fut>>
  <2>1. /\ DOMAIN buffer' = 1..(Len(buffer) + 1)
        /\ \A i \in 1..Len(buffer) : buffer'[i] = buffer[i]
        /\ buffer'[Len(buffer) + 1] = count + 1
    <3>1. buffer \in Seq(Nat) /\ count + 1 \in Nat
      BY <1>0
    <3>2. /\ Append(buffer, count + 1) \in Seq(Nat)
          /\ Len(Append(buffer, count + 1)) = Len(buffer) + 1
          /\ \A i \in 1..Len(buffer) : Append(buffer, count + 1)[i] = buffer[i]
          /\ Append(buffer, count + 1)[Len(buffer) + 1] = count + 1
      BY <3>1, AppendProperties
    <3> QED
      BY <1>6, <3>2, LenProperties
  <2>2. Range(buffer) \union {count + 1} \subseteq Range(buffer')
    <3>1. \A i \in 1..Len(buffer) : i \in DOMAIN buffer' /\ buffer'[i] = buffer[i]
      BY <1>3, <2>1
    <3>2. Len(buffer) + 1 \in DOMAIN buffer'
      BY <1>3, <2>1
    <3> QED
      BY <1>3, <2>1, <3>1, <3>2 DEF Range
  <2>3. Kept \subseteq Kept' /\ count + 1 \in Kept' /\ InHands' = InHands
    BY <1>1, <1>6, <2>2 DEF Kept, InHands
  <2>4. Requests' /\ Hands'
    BY <1>0, <1>1, <1>2, <1>3, <1>6 DEF Requests, Hands, Contains
  <2> QED
    BY <1>4, <1>6, <2>3, <2>4
<1> QED
  BY <1>1, <1>5, <1>6 DEF Put

\* What receive_nowait() returns leaves the buffer and was received; the item of the first
\* sender takes its place.
LEMMA ReceivingLoses ==
  ASSUME SInv, LossInv, NEW t \in Task, ReceiveItem(t)
  PROVE  LossInv'
<1> DEFINE r == Refilled(senders)
<1>0. /\ StreamTypeOK /\ QueuesAgree /\ NoNeedlessWait
      /\ pc \in [Task -> Places] /\ fut \in [Task -> FutureState] /\ buffer \in Seq(Nat)
      /\ mustCancel \in [Task -> BOOLEAN] /\ item \in [Task -> Nat]
      /\ senders \in Seq(Sender) /\ IsInjective(senders)
      /\ Requests /\ Hands /\ Taken /\ 0 \notin accepted /\ 0 \notin received
  BY DEF SInv, QueuesAgree, StreamTypeOK, TaskTypeOK, LossInv
<1>1. /\ t \in Receiver /\ pc[t] # "wait" /\ pc' = [pc EXCEPT ![t] = "idle"]
      /\ ~mustCancel[t] /\ fut[t] # "cancelled"
      /\ r # <<>> /\ buffer' = Tail(r) /\ received' = received \union {Head(r)}
      /\ fut' = Set({senders[k] : k \in DOMAIN senders \cap {1}})
      /\ senders' = IF senders = <<>> THEN <<>> ELSE Tail(senders)
      /\ UNCHANGED <<mustCancel, receivers, item, cancelling, accepted, natives>>
  BY <1>0 DEF ReceiveItem, Take, PastCheckpoint, Move, Raises, Requests
<1>2. r \in Seq(Nat) /\ (\A i \in DOMAIN r : handed < r[i]) /\ handed \in Nat
  BY <1>0, RefilledFacts DEF StreamTypeOK
<1>3. receivers = <<>>
  BY <1>0, <1>1 DEF NoNeedlessWait, Refilled
<1>4. Range(buffer) \subseteq Range(r) /\ (senders # <<>> => item[Head(senders)] \in Range(r))
  <2>1. CASE senders = <<>>
    BY <2>1 DEF Refilled
  <2>2. CASE senders # <<>>
    <3>1. Head(senders) \in Task
      BY <1>0, <2>2, TailFacts, StreamAssumption
    <3> DEFINE i == item[Head(senders)]
    <3>2. i \in Nat
      BY <1>0, <3>1
    <3>3. r = Append(buffer, i)
      BY <2>2 DEF Refilled
    <3> HIDE DEF r, i
    <3>4. /\ Len(r) = Len(buffer) + 1 /\ r \in Seq(Nat)
          /\ \A j \in 1..Len(buffer) : r[j] = buffer[j]
          /\ r[Len(buffer) + 1] = i
      BY <1>0, <3>2, <3>3, AppendProperties
    <3>5. /\ Len(buffer) \in Nat /\ DOMAIN buffer = 1..Len(buffer)
          /\ DOMAIN r = 1..(Len(buffer) + 1)
      BY <1>0, <3>4, LenProperties
    <3>6. \A j \in DOMAIN buffer : j \in DOMAIN r /\ r[j] = buffer[j]
      BY <3>4, <3>5
    <3>7. Len(buffer) + 1 \in DOMAIN r
      BY <3>5
    <3> QED
      BY <3>4, <3>6, <3>7 DEF Range, i
  <2> QED
    BY <2>1, <2>2
<1> HIDE DEF r
<1>5. /\ Head(r) = r[1] /\ 1 \in DOMAIN r /\ Tail(r) \in Seq(Nat)
      /\ Len(Tail(r)) = Len(r) - 1
      /\ \A i \in DOMAIN Tail(r) : Tail(r)[i] = r[i + 1]
      /\ Len(r) \in Nat /\ DOMAIN r = 1..Len(r)
      /\ DOMAIN Tail(r) = 1..Len(Tail(r))
  BY <1>1, <1>2, TailFacts, LenProperties
<1>6. Range(r) \subseteq Range(buffer') \union {Head(r)}
  <2>1. ASSUME NEW i \in DOMAIN r, i # 1
        PROVE  r[i] \in Range(buffer')
    <3>1. i - 1 \in DOMAIN Tail(r) /\ Tail(r)[i - 1] = r[i - 1 + 1] /\ i - 1 + 1 = i
      BY <1>5, <2>1
    <3> QED
      BY <1>1, <3>1 DEF Range
  <2> QED
    BY <1>5, <2>1 DEF Range
<1>7. Range(r) \subseteq Kept' /\ Kept \subseteq Kept'
  BY <1>1, <1>4, <1>6 DEF Kept
<1>8. 0 \notin received' /\ 0 \notin accepted'
  <2>1. handed < r[1] /\ 1 \in DOMAIN r /\ r[1] \in Nat
    BY <1>2, <1>5, ElementOfSeq
  <2> QED
    BY <1>0, <1>1, <1>2, <1>5, <2>1
<1>9. /\ \A u \in Task : pc'[u] = IF u = t THEN "idle" ELSE pc[u]
      /\ \A u \in Task : fut'[u] = "cancelled" => fut[u] = "cancelled"
      /\ \A u \in Receiver : fut'[u] = fut[u]
  <2>1. {senders[k] : k \in DOMAIN senders \cap {1}} \subseteq Sender
    BY <1>0, LenProperties, ElementOfSeq
  <2> QED
    BY <1>0, <1>1, <2>1 DEF Set, Receiver
<1>10. Requests' /\ Hands'
  BY <1>0, <1>1, <1>3, <1>9 DEF Requests, Hands, Contains, Receiver
<1>11. Taken'
  <2> SUFFICES ASSUME NEW u \in Sender, pc'[u] = "wait", ~Contains(senders', u)
               PROVE  item[u] \in Kept'
    BY <1>1 DEF Taken
  <2>1. pc[u] = "wait"
    BY <1>9, StreamAssumption
  <2>2. CASE Contains(senders, u)
    <3>1. senders # <<>>
      BY <2>2 DEF Contains
    <3>2. \A x : Contains(senders', x) <=> Contains(senders, x) /\ x # Head(senders)
      BY <1>0, <1>1, <3>1, TailFacts
    <3> QED
      BY <1>4, <1>7, <2>2, <3>1, <3>2
  <2>3. CASE ~Contains(senders, u)
    BY <1>0, <1>7, <2>1, <2>3 DEF Taken
  <2> QED
    BY <2>2, <2>3
<1>12. Missing' \subseteq Missing /\ AtRisk' = AtRisk
  BY <1>1, <1>7 DEF Missing, AtRisk, InHands
<1>13. LossesCounted'
  BY <1>1, <1>12, CountedStep DEF LossInv
<1> QED
  BY <1>8, <1>10, <1>11, <1>13 DEF LossInv

\* A sender that waits has its item counted from when it is taken.
LEMMA SendWaitsLoses ==
  ASSUME SInv, LossInv, NEW t \in Task, SendWaits(t)
  PROVE  LossInv'
<1>0. /\ StreamTypeOK /\ QueuesAgree
      /\ pc \in [Task -> Places] /\ fut \in [Task -> FutureState]
      /\ mustCancel \in [Task -> BOOLEAN] /\ item \in [Task -> Nat] /\ count \in Nat
      /\ senders \in Seq(Sender) /\ IsInjective(senders)
      /\ Requests /\ Hands /\ Taken /\ 0 \notin accepted /\ 0 \notin received
  BY DEF SInv, QueuesAgree, StreamTypeOK, TaskTypeOK, LossInv
<1>1. /\ t \in Sender /\ pc[t] = "check" /\ ~mustCancel[t]
      /\ receivers' = <<>> /\ senders' = Append(senders, t)
      /\ UNCHANGED <<mustCancel, buffer, cancelling, accepted, received, natives>>
      /\ \A u \in Task : pc'[u] = IF u = t THEN "wait" ELSE pc[u]
      /\ \A u \in Task : fut'[u] = IF u = t THEN "pending" ELSE fut[u]
      /\ \A u \in Task : u # t => item'[u] = item[u]
  BY <1>0 DEF SendWaits, PastCheckpoint, Raises, Move
<1>2. \A x : Contains(senders', x) <=> Contains(senders, x) \/ x = t
  <2>1. ~Contains(senders, t)
    BY <1>0, <1>1 DEF QueuesAgree
  <2> QED
    BY <1>0, <1>1, <2>1, AppendFacts
<1>3. \A u \in Receiver : u \in Task /\ u # t
  BY <1>1 DEF Receiver
<1>4. Requests' /\ Hands'
  BY <1>0, <1>1, <1>3 DEF Requests, Hands, Contains
<1>5. Taken'
  BY <1>0, <1>1, <1>2, StreamAssumption DEF Taken, Kept
<1>6. Missing' = Missing /\ AtRisk' = AtRisk
  <2>1. InHands' = InHands /\ Kept' = Kept
    BY <1>1, <1>3 DEF InHands, Kept
  <2> QED
    BY <1>1, <1>3, <2>1 DEF Missing, AtRisk
<1>7. LossesCounted'
  BY <1>1, <1>6, CountedStep DEF LossInv
<1> QED
  BY <1>0, <1>1, <1>4, <1>5, <1>7 DEF LossInv

\* A cancel scope passes over a receiver that was handed an item; asyncio's own cancel()
\* does not.
LEMMA CancellingLoses ==
  ASSUME SInv, LossInv, NEW t \in Task, CancelledByScope(t) \/ CancelledByAsyncio(t)
  PROVE  LossInv'
<1>0. /\ fut \in [Task -> FutureState] /\ mustCancel \in [Task -> BOOLEAN]
      /\ Requests /\ Hands /\ Taken /\ 0 \notin accepted /\ 0 \notin received
  BY DEF SInv, StreamTypeOK, TaskTypeOK, LossInv
<1>1. /\ UNCHANGED <<pc, buffer, receivers, senders, item, accepted, received>>
      /\ pc[t] # "idle" /\ Requested(t)
      /\ TaskCancel(t) \/ UNCHANGED <<fut, mustCancel>>
  BY DEF CancelledByScope, CancelledByAsyncio, ScopeCancel, Redeliver, NativeCancel, Requested,
     stateVars, Suspended
<1>2. /\ \A u \in Task : fut'[u] = "cancelled" => fut[u] = "cancelled" \/ (u = t /\ fut[t] = "pending")
      /\ \A u \in Task : fut'[u] = fut[u] \/ (fut[u] = "pending" /\ fut'[u] = "cancelled")
      /\ \A u \in Task : mustCancel'[u] => mustCancel[u] \/ u = t
      /\ cancelling \subseteq cancelling'
      /\ fut' # fut \/ mustCancel' # mustCancel => t \in cancelling'
      /\ fut' \in [Task -> FutureState]
  BY <1>0, <1>1 DEF TaskCancel, Requested, FutureState
<1>3. Requests'
  BY <1>0, <1>1, <1>2 DEF Requests
<1>4. Hands'
  BY <1>0, <1>1, <1>2 DEF Hands, Receiver
<1>5. Missing' = Missing /\ Kept' = Kept
  BY <1>1 DEF Missing, Kept, InHands
<1>6. Taken'
  BY <1>0, <1>1, <1>5 DEF Taken
<1>7. AtRisk' \subseteq AtRisk \union {item[t]}
  BY <1>1, <1>2 DEF AtRisk, Receiver
<1>8. CASE CancelledByAsyncio(t)
  <2>1. natives' = natives + 1
    BY <1>8 DEF CancelledByAsyncio
  <2>2. LossesCounted'
    BY <1>5, <1>7, <2>1, CountedStep DEF LossInv
  <2> QED
    BY <1>0, <1>1, <1>3, <1>4, <1>6, <2>2 DEF LossInv
<1>9. CASE CancelledByScope(t)
  <2>1. mustCancel' = mustCancel \/ fut[t] \in {"none", "pending"}
    BY <1>9 DEF CancelledByScope, ScopeCancel, Redeliver, Deliverable
  <2>2. AtRisk' \subseteq AtRisk
    BY <1>0, <1>1, <1>2, <2>1 DEF AtRisk, Hands, Receiver
  <2>3. natives' = natives
    BY <1>9 DEF CancelledByScope
  <2>4. LossesCounted'
    BY <1>5, <2>2, <2>3, CountedStep DEF LossInv
  <2> QED
    BY <1>0, <1>1, <1>3, <1>4, <1>6, <2>4 DEF LossInv
<1> QED
  BY <1>8, <1>9

\* The last clone of the other end sets the Events of receivers, which then queue no more.
LEMMA ClosingLoses ==
  ASSUME SInv, LossInv, NEW t \in Task, Close(t)
  PROVE  LossInv'
<1> DEFINE last == open' \cap (IF t \in Sender THEN Sender ELSE Receiver) = {}
<1>0. /\ receivers \in Seq(Receiver) /\ senders \in Seq(Sender) /\ fut \in [Task -> FutureState]
      /\ Requests /\ Hands
  BY DEF SInv, StreamTypeOK, TaskTypeOK, LossInv
<1>1. /\ fut' = Set(IF last THEN Woken(t) ELSE {})
      /\ receivers' = IF last /\ t \in Sender THEN <<>> ELSE receivers
      /\ UNCHANGED <<pc, mustCancel, cancelling, buffer, senders, item, accepted, received, natives>>
  BY DEF Close, history
<1> HIDE DEF last
<1>2. \A u \in Task : fut'[u] = fut[u] \/ (fut[u] = "pending" /\ fut'[u] = "result")
  BY <1>0, <1>1 DEF Set
<1>3. ~(last /\ t \in Sender) => \A u \in Receiver : fut'[u] = fut[u]
  <2>1. Range(senders) \subseteq Sender
    BY <1>0, LenProperties, ElementOfSeq DEF Range
  <2> QED
    BY <1>0, <1>1, <2>1 DEF Set, Woken, Receiver
<1>4. Requests'
  BY <1>0, <1>1, <1>2 DEF Requests
<1>5. Hands'
  BY <1>0, <1>1, <1>2, <1>3 DEF Hands, Contains, Receiver
<1> QED
  BY <1>1, <1>4, <1>5, NoItemMoves

\* Every step keeps count of what is lost.
LEMMA NextLossInv == SInv /\ LossInv /\ [Next]_vars => LossInv'
<1> SUFFICES ASSUME SInv, LossInv, [Next]_vars PROVE LossInv'
  OBVIOUS
<1>0. /\ pc \in [Task -> Places] /\ fut \in [Task -> FutureState]
      /\ mustCancel \in [Task -> BOOLEAN]
      /\ receivers \in Seq(Receiver) /\ IsInjective(receivers)
      /\ Requests /\ Hands /\ QueuesAgree
  BY DEF SInv, QueuesAgree, StreamTypeOK, TaskTypeOK, LossInv
<1>1. CASE UNCHANGED vars
  <2>1. Requests' /\ Hands'
    BY <1>0, <1>1 DEF vars, taskVars, streamVars, stateVars, history, Requests, Hands
  <2> QED
    BY <1>1, <2>1, NoItemMoves DEF vars, taskVars, streamVars, stateVars, history
<1>2. ASSUME NEW t \in Task, Call(t) \/ CallFails(t) PROVE LossInv'
  <2>1. /\ UNCHANGED <<fut, mustCancel, stateVars, cancelling, accepted, received, natives>>
        /\ pc[t] # "wait" /\ \E place \in {"idle", "check"} : Move(t, place)
        /\ Move(t, "check") \/ (~mustCancel[t] /\ fut[t] # "cancelled")
    BY <1>2 DEF Call, CallFails, PastCheckpoint, Raises, streamVars, history
  <2>2. /\ \A u \in Task \ {t} : pc'[u] = pc[u]
        /\ pc'[t] = "check" \/ (pc'[t] = "idle" /\ ~mustCancel[t] /\ fut[t] # "cancelled")
    BY <1>0, <2>1 DEF Move
  <2>3. Requests' /\ Hands'
    BY <1>0, <2>1, <2>2 DEF Requests, Hands, Receiver, stateVars
  <2>4. \A u \in Sender : pc'[u] = "wait" => pc[u] = "wait"
    BY <2>2, StreamAssumption
  <2> QED
    BY <2>1, <2>3, <2>4, NoItemMoves DEF stateVars
<1>3. ASSUME NEW t \in Task, Clone(t) \/ Uncancel(t) PROVE LossInv'
  <2>1. /\ UNCHANGED <<taskVars, buffer, receivers, senders, item, accepted, received, natives>>
        /\ pc[t] = "idle"
        /\ \A u \in Task \ {t} : u \in cancelling => u \in cancelling'
    BY <1>3 DEF Clone, Uncancel, stateVars, history
  <2>2. Requests' /\ Hands'
    BY <1>0, <2>1 DEF Requests, Hands, taskVars
  <2> QED
    BY <2>1, <2>2, NoItemMoves DEF taskVars
<1>4. ASSUME NEW t \in Task, SendNowaitBlocks(t) PROVE LossInv'
  <2>1. /\ UNCHANGED <<taskVars, buffer, senders, item, cancelling, accepted, received, natives>>
        /\ receivers' = <<>>
    BY <1>4 DEF SendNowaitBlocks, history
  <2>2. Requests' /\ Hands'
    BY <1>0, <2>1 DEF Requests, Hands, Contains, taskVars
  <2> QED
    BY <2>1, <2>2, NoItemMoves DEF taskVars
<1>5. ASSUME NEW t \in Task, ReceiveWaits(t) PROVE LossInv'
  <2>1. /\ t \in Receiver /\ pc[t] = "check" /\ ~mustCancel[t]
        /\ receivers' = Append(receivers, t)
        /\ UNCHANGED <<mustCancel, buffer, senders, item, cancelling, accepted, received, natives>>
        /\ \A u \in Task : pc'[u] = IF u = t THEN "wait" ELSE pc[u]
        /\ \A u \in Task : fut'[u] = IF u = t THEN "pending" ELSE fut[u]
    BY <1>0, <1>5 DEF ReceiveWaits, PastCheckpoint, Raises, Move, history
  <2>2. \A x : Contains(receivers', x) <=> Contains(receivers, x) \/ x = t
    <3>1. ~Contains(receivers, t)
      BY <1>0, <2>1 DEF QueuesAgree, Receiver
    <3> QED
      BY <1>0, <2>1, <3>1, AppendFacts
  <2>3. Requests' /\ Hands'
    BY <1>0, <2>1, <2>2 DEF Requests, Hands, Receiver
  <2>4. \A u \in Sender : pc'[u] = "wait" => pc[u] = "wait"
    BY <2>1, StreamAssumption DEF Receiver
  <2> QED
    BY <2>1, <2>3, <2>4, NoItemMoves
<1> QED
  BY <1>1, <1>2, <1>3, <1>4, <1>5, LeavingLoses, SendingLoses, ReceivingLoses, SendWaitsLoses,
     CancellingLoses, ClosingLoses DEF Next

\* An item whose send() returned is received, or on its way, or one call of asyncio's own
\* cancel() has cost it.
THEOREM ItemsAreKept == Spec => []NothingLost
<1>1. Init => SInv /\ LossInv
  BY InitSInv, InitLossInv
<1>2. SInv /\ LossInv /\ [Next]_vars => SInv' /\ LossInv'
  BY NextSInv, NextLossInv
<1>3. ASSUME LossInv PROVE NothingLost
  <2> DEFINE L == accepted \ (received \union Range(buffer) \union {item[t] : t \in Receiver})
  <2>1. L \subseteq Missing \union AtRisk
    BY DEF Missing, Kept, InHands
  <2>2. /\ IsFiniteSet(Missing \union AtRisk) /\ Cardinality(Missing \union AtRisk) <= natives
        /\ natives \in Nat
    BY <1>3 DEF LossInv, LossesCounted
  <2> HIDE DEF L
  <2>3. /\ Cardinality(L) <= Cardinality(Missing \union AtRisk) /\ IsFiniteSet(L)
    BY <2>1, <2>2, FS_Subset
  <2>4. Cardinality(L) \in Nat /\ Cardinality(Missing \union AtRisk) \in Nat
    BY <2>2, <2>3, FS_CardinalityType
  <2> QED
    BY <2>2, <2>3, <2>4 DEF NothingLost, L
<1> QED
  BY <1>1, <1>2, <1>3, PTL DEF Spec
=============================================================================
