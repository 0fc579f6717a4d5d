---------------------------- MODULE LockProofs ----------------------------
(***************************************************************************)
(* Proofs about Lock for any set of tasks: the queue and the futures       *)
(* agree, and the lock has one owner. The two are inductive only together: *)
(* that release() finds no future with a result in the queue needs sole    *)
(* ownership, and that the task it picks is not entitled yet needs the     *)
(* agreement of queue and futures. The second part is about Condition: the *)
(* lock underneath stays correct, the deque of the condition agrees with   *)
(* the tasks that wait, and wait() ends with the lock held, which needs    *)
(* that no scope reaches a task while it takes the lock again. The third   *)
(* part shows that both implement AbstractLock, step by step.              *)
(***************************************************************************)
EXTENDS Condition, QueueLemmas

IInv == TypeOK /\ QueueAgrees /\ SoleOwner

\* What release() does to a queue in which no future has a result: it frees
\* the lock, or gives it to one task that was waiting.
LEMMA HandOverFacts ==
  ASSUME NEW line \in Seq(Task), NEW f \in [Task -> FutureState],
         \A w \in Task : Contains(line, w) => f[w] \in {"pending", "cancelled"},
         HandOver(line, f)
  PROVE  \/ owner' = NoTask /\ fut' = f
         \/ \E w \in Task : /\ Contains(line, w) /\ f[w] = "pending"
                            /\ owner' = w /\ fut' = [f EXCEPT ![w] = "result"]
<1>1. Len(line) \in Nat /\ DOMAIN line = 1..Len(line)
      /\ \A i \in 1..Len(line) : line[i] \in Task
  BY LenProperties, ElementOfSeq
<1>2. CASE \E i \in DOMAIN line : /\ f[line[i]] # "cancelled"
                                  /\ owner' = line[i]
                                  /\ fut' = [f EXCEPT ![line[i]] = "result"]
  <2>1. PICK i \in DOMAIN line : /\ f[line[i]] # "cancelled"
                                 /\ owner' = line[i]
                                 /\ fut' = [f EXCEPT ![line[i]] = "result"]
    BY <1>2
  <2>2. line[i] \in Task /\ Contains(line, line[i])
    BY <1>1, <2>1 DEF Contains
  <2>3. f[line[i]] = "pending"
    BY <2>1, <2>2
  <2> QED
    BY <2>1, <2>2, <2>3
<1> QED
  BY <1>2 DEF HandOver

\* At first nobody waits and nobody owns the lock.
LEMMA InitIInv == Init => IInv
<1> SUFFICES ASSUME Init PROVE IInv
  OBVIOUS
<1> USE DEF Init, TaskInit
<1>1. TypeOK
  BY EmptySeq DEF TypeOK, TaskTypeOK, Places, FutureState
<1>2. QueueAgrees
  BY DEF QueueAgrees, Contains, IsInjective
<1>3. SoleOwner
  BY TaskAssumption DEF SoleOwner, Entitled
<1> QED
  BY <1>1, <1>2, <1>3 DEF IInv

\* acquire() and acquire_nowait() that do not join the queue: t moves between
\* places outside the queue, and takes the lock only when it has no owner.
LEMMA OutsideQueue ==
  ASSUME IInv, NEW t \in Task, NEW place \in Places \ {"queued"},
         pc[t] # "queued", Move(t, place),
         fut' = fut, waiters' = waiters,
         mustCancel' \in [Task -> BOOLEAN], scope' \in [Task -> {"open", "cancelled"}],
         \/ owner' = owner /\ (pc[t] \in {"hold", "yield"} <=> place \in {"hold", "yield"})
         \/ owner = NoTask /\ owner' = t /\ place \in {"hold", "yield"}
  PROVE  IInv'
<1> USE DEF IInv, Move, TypeOK, TaskTypeOK
<1>1. TypeOK'
  OBVIOUS
<1>2. QueueAgrees'
  BY DEF QueueAgrees
<1>3. SoleOwner'
  BY TaskAssumption DEF SoleOwner, Entitled, QueueAgrees
<1> QED
  BY <1>1, <1>2, <1>3

\* A step by t that ends in release() with t outside the queue afterwards.
LEMMA ReleasingStep ==
  ASSUME IInv, NEW t \in Task, NEW line \in Seq(Task), NEW f \in [Task -> FutureState],
         owner = t, Move(t, "idle"), HandOver(line, f),
         waiters' = line, IsInjective(line),
         \A u \in Task : Contains(line, u) <=> pc[u] = "queued" /\ u # t,
         \A u \in Task \ {t} : f[u] = fut[u], f[t] = "none",
         mustCancel' \in [Task -> BOOLEAN], scope' \in [Task -> {"open", "cancelled"}]
  PROVE  IInv'
<1> USE DEF Move
<1>1. TypeOK
  BY DEF IInv
<1>2. \A u \in Task : Contains(line, u) => f[u] \in {"pending", "cancelled"}
  <2> SUFFICES ASSUME NEW u \in Task, Contains(line, u)
               PROVE  f[u] \in {"pending", "cancelled"}
    OBVIOUS
  <2>1. u # t /\ pc[u] = "queued" /\ f[u] = fut[u]
    OBVIOUS
  <2>2. fut[u] # "none"
    BY <2>1 DEF IInv, QueueAgrees
  <2>3. fut[u] # "result"
    BY <2>1 DEF IInv, SoleOwner, Entitled
  <2> QED
    BY <2>1, <2>2, <2>3, <1>1 DEF TypeOK, TaskTypeOK, FutureState
<1>3. \/ owner' = NoTask /\ fut' = f
      \/ \E w \in Task : /\ Contains(line, w) /\ f[w] = "pending"
                         /\ owner' = w /\ fut' = [f EXCEPT ![w] = "result"]
  BY <1>2, HandOverFacts
<1>4. TypeOK'
  BY <1>1, <1>3 DEF TypeOK, TaskTypeOK, Places, FutureState
<1>5. \A u \in Task : pc'[u] = IF u = t THEN "idle" ELSE pc[u]
  BY <1>1 DEF TypeOK, TaskTypeOK
<1>6. \A u \in Task : fut'[u] = "none" <=> pc'[u] # "queued"
  BY <1>2, <1>3, <1>5 DEF IInv, QueueAgrees
<1>7. QueueAgrees'
  BY <1>5, <1>6 DEF QueueAgrees
<1>8. SoleOwner'
  <2> SUFFICES ASSUME NEW u \in Task PROVE Entitled(u)' <=> owner' = u
    BY DEF SoleOwner
  <2>1. u # t => /\ pc[u] \notin {"hold", "yield"}
                   /\ ~(pc[u] = "queued" /\ fut[u] = "result")
    BY DEF IInv, SoleOwner, Entitled
  <2>2. /\ pc'[t] = "idle"
        /\ u # t => pc'[u] = pc[u] /\ f[u] = fut[u]
    BY <1>5
  <2>3. Entitled(u)' <=> \/ pc'[u] \in {"hold", "yield"}
                         \/ pc'[u] = "queued" /\ fut'[u] = "result"
    BY DEF Entitled
  <2>4. CASE owner' = NoTask /\ fut' = f
    <3>1. owner' # u
      BY <2>4, TaskAssumption
    <3> QED
      BY <3>1, <2>1, <2>2, <2>3, <2>4
  <2>5. ASSUME NEW w \in Task, Contains(line, w), f[w] = "pending",
               owner' = w, fut' = [f EXCEPT ![w] = "result"]
        PROVE  Entitled(u)' <=> owner' = u
    <3>1. w # t /\ pc[w] = "queued" /\ fut'[w] = "result"
      BY <2>5
    <3>2. u # w => fut'[u] = f[u]
      BY <2>5
    <3> QED
      BY <3>1, <3>2, <2>1, <2>2, <2>3, <2>5
  <2> QED
    BY <2>4, <2>5, <1>3
<1> QED
  BY <1>4, <1>7, <1>8 DEF IInv

\* A cancellation changes a future only from "pending" to "cancelled", which
\* neither the queue nor the ownership depends on.
LEMMA FutureCancelled ==
  ASSUME IInv, NEW t \in Task,
         pc' = pc, owner' = owner, waiters' = waiters,
         mustCancel' \in [Task -> BOOLEAN], scope' \in [Task -> {"open", "cancelled"}],
         \/ fut' = fut
         \/ fut[t] = "pending" /\ fut' = [fut EXCEPT ![t] = "cancelled"]
  PROVE  IInv'
<1> USE DEF IInv
<1>1. TypeOK'
  BY DEF TypeOK, TaskTypeOK, FutureState
<1>2. QueueAgrees'
  BY DEF QueueAgrees, TypeOK, TaskTypeOK
<1>3. SoleOwner'
  BY DEF SoleOwner, Entitled, TypeOK, TaskTypeOK
<1> QED
  BY <1>1, <1>2, <1>3

LEMMA CancellingStep ==
  ASSUME IInv, NEW t \in Task, Cancelling(t)
  PROVE  IInv'
<1>1. /\ pc' = pc /\ owner' = owner /\ waiters' = waiters
      /\ mustCancel' \in [Task -> BOOLEAN] /\ scope' \in [Task -> {"open", "cancelled"}]
      /\ \/ fut' = fut
         \/ fut[t] = "pending" /\ fut' = [fut EXCEPT ![t] = "cancelled"]
  BY DEF Cancelling, ScopeCancel, Redeliver, NativeCancel, LeaveScope, TaskCancel,
         IInv, TypeOK, TaskTypeOK
<1> QED
  BY <1>1, FutureCancelled

\* A task outside the queue, to which the lock has not been given, joins it.
LEMMA JoiningStep ==
  ASSUME IInv, NEW t \in Task, pc[t] = "idle", owner # t,
         waiters' = Append(waiters, t), fut' = [fut EXCEPT ![t] = "pending"],
         Move(t, "queued"), owner' = owner,
         mustCancel' \in [Task -> BOOLEAN], scope' \in [Task -> {"open", "cancelled"}]
  PROVE  IInv'
<1>0. TypeOK /\ QueueAgrees /\ SoleOwner
  BY DEF IInv
<1> USE DEF Move
<1>1. ~Contains(waiters, t)
  BY <1>0 DEF QueueAgrees
<1>2. /\ waiters' \in Seq(Task) /\ IsInjective(waiters')
      /\ \A u \in Task : Contains(waiters', u) <=> Contains(waiters, u) \/ u = t
  BY <1>0, <1>1, AppendFacts DEF TypeOK, QueueAgrees
<1>3. TypeOK'
  BY <1>0, <1>2 DEF TypeOK, TaskTypeOK, Places, FutureState
<1>4. QueueAgrees'
  BY <1>0, <1>2 DEF QueueAgrees, TypeOK, TaskTypeOK
<1>5. SoleOwner'
  BY <1>0 DEF SoleOwner, Entitled, TypeOK, TaskTypeOK
<1> QED
  BY <1>3, <1>4, <1>5 DEF IInv

LEMMA StutteringStep == IInv /\ UNCHANGED vars => IInv'
BY DEF IInv, TypeOK, TaskTypeOK, QueueAgrees, SoleOwner, Entitled, vars, taskVars

\* Every step of every call keeps queue, futures and ownership in agreement.
LEMMA CallStep ==
  ASSUME IInv, NEW t \in Task,
         \/ AcquireFast(t) \/ AcquireSlow(t) \/ AcquireNowait(t) \/ Release(t)
         \/ Resume(t)
  PROVE  IInv'
<1>0. TypeOK /\ QueueAgrees /\ SoleOwner
  BY DEF IInv
<1>1. ASSUME AcquireFast(t) PROVE IInv'
  BY <1>1, <1>0, OutsideQueue DEF AcquireFast, Free, Move, Places, TypeOK, TaskTypeOK
<1>2. ASSUME AcquireNowait(t) PROVE IInv'
  BY <1>2, <1>0, OutsideQueue DEF AcquireNowait, Free, Places, TypeOK, TaskTypeOK
<1>3. ASSUME AcquireSlow(t) PROVE IInv'
  BY <1>3, <1>0, JoiningStep DEF AcquireSlow, TypeOK, TaskTypeOK
<1>4. ASSUME Release(t) PROVE IInv'
  <2>1. /\ waiters \in Seq(Task) /\ fut \in [Task -> FutureState]
        /\ mustCancel \in [Task -> BOOLEAN] /\ scope \in [Task -> {"open", "cancelled"}]
        /\ IsInjective(waiters) /\ fut[t] = "none"
        /\ \A u \in Task : Contains(waiters, u) <=> pc[u] = "queued" /\ u # t
    BY <1>0, <1>4 DEF Release, TypeOK, TaskTypeOK, QueueAgrees
  <2> QED
    BY <2>1, <1>4, ReleasingStep DEF Release
<1>5. ASSUME ResumeCheck(t) PROVE IInv'
  BY <1>5, <1>0, OutsideQueue DEF ResumeCheck, Unwind, Places, TypeOK, TaskTypeOK
<1>6. ASSUME ResumeYield(t) PROVE IInv'
  <2>1. CASE Move(t, "hold") /\ UNCHANGED <<fut, mustCancel, scope, owner>>
    BY <2>1, <1>6, <1>0, OutsideQueue DEF ResumeYield, Places, TypeOK, TaskTypeOK
  <2>2. CASE HandOver(waiters, fut) /\ Move(t, "idle") /\ Unwind(t)
    <3>1. /\ waiters \in Seq(Task) /\ fut \in [Task -> FutureState]
          /\ mustCancel' \in [Task -> BOOLEAN] /\ scope' \in [Task -> {"open", "cancelled"}]
          /\ IsInjective(waiters) /\ fut[t] = "none"
          /\ \A u \in Task : Contains(waiters, u) <=> pc[u] = "queued" /\ u # t
      BY <1>0, <1>6, <2>2 DEF ResumeYield, Unwind, TypeOK, TaskTypeOK, QueueAgrees
    <3>2. owner = t /\ waiters' = waiters
      BY <1>0, <1>6 DEF ResumeYield, SoleOwner, Entitled
    <3> QED
      BY <3>1, <3>2, <2>2, ReleasingStep
  <2> QED
    BY <1>6, <2>1, <2>2 DEF ResumeYield
<1>7. ASSUME ResumeQueued(t) PROVE IInv'
  <2> DEFINE line == RemoveFirst(waiters, t)
  <2>1. pc[t] = "queued" /\ waiters' = line /\ fut[t] # "pending"
    BY <1>7 DEF ResumeQueued, Runnable
  <2>2. /\ line \in Seq(Task) /\ IsInjective(line)
        /\ \A u \in Task : Contains(line, u) <=> pc[u] = "queued" /\ u # t
    BY <2>1, <1>0, RemoveFirstFacts DEF TypeOK, QueueAgrees
  <2>3. /\ Stepped(t) \in [Task -> FutureState] /\ Stepped(t)[t] = "none"
        /\ \A u \in Task \ {t} : Stepped(t)[u] = fut[u]
    BY <1>0 DEF Stepped, TypeOK, TaskTypeOK, FutureState
  <2> HIDE DEF line
  <2>4. ASSUME fut' = Stepped(t), owner' = owner,
               NEW place \in {"idle", "hold"}, Move(t, place),
               place = "hold" <=> owner = t,
               mustCancel' \in [Task -> BOOLEAN], scope' \in [Task -> {"open", "cancelled"}]
        PROVE  IInv'
    <3> USE <2>1, <2>4 DEF Move
    <3>1. TypeOK'
      BY <1>0, <2>2, <2>3 DEF TypeOK, TaskTypeOK, Places
    <3>2. QueueAgrees'
      BY <1>0, <2>2, <2>3 DEF QueueAgrees, TypeOK, TaskTypeOK
    <3>3. SoleOwner'
      BY <1>0, <2>3 DEF SoleOwner, Entitled, TypeOK, TaskTypeOK
    <3> QED
      BY <3>1, <3>2, <3>3 DEF IInv
  <2>5. CASE /\ ~Raises(t) /\ Move(t, "hold")
             /\ fut' = Stepped(t) /\ UNCHANGED <<mustCancel, scope, owner>>
    <3>1. fut[t] = "result"
      BY <2>1, <2>5, <1>0 DEF Raises, QueueAgrees, TypeOK, TaskTypeOK, FutureState
    <3>2. owner = t
      BY <3>1, <2>1, <1>0 DEF SoleOwner, Entitled
    <3> QED
      BY <2>4, <2>5, <3>2, <1>0 DEF TypeOK, TaskTypeOK
  <2>6. CASE Withdraw(t, line) /\ Move(t, "idle") /\ Unwind(t)
    <3>1. mustCancel' \in [Task -> BOOLEAN] /\ scope' \in [Task -> {"open", "cancelled"}]
      BY <2>6, <1>0 DEF Unwind, TypeOK, TaskTypeOK
    <3>2. CASE owner = t
      BY <3>1, <3>2, <2>6, <2>1, <2>2, <2>3, ReleasingStep DEF Withdraw
    <3>3. CASE owner # t
      BY <3>1, <3>3, <2>6, <2>4 DEF Withdraw
    <3> QED
      BY <3>2, <3>3
  <2> QED
    BY <1>7, <2>5, <2>6 DEF ResumeQueued, line
<1> QED
  BY <1>1, <1>2, <1>3, <1>4, <1>5, <1>6, <1>7 DEF Resume

LEMMA NextIInv == IInv /\ [Next]_vars => IInv'
BY StutteringStep, CallStep, CancellingStep DEF Next

\* The variables have their types at all times.
THEOREM TypeCorrect == Spec => []TypeOK
<1>1. Init => IInv
  BY InitIInv
<1>2. IInv /\ [Next]_vars => IInv'
  BY NextIInv
<1>3. IInv => TypeOK
  BY DEF IInv
<1> QED
  BY <1>1, <1>2, <1>3, PTL DEF Spec

\* The queue of waiters holds exactly the suspended tasks, each once, so that
\* _waiters.remove(item) never fails and no future is completed twice.
THEOREM QueueCorrect == Spec => []QueueAgrees
<1>1. Init => IInv
  BY InitIInv
<1>2. IInv /\ [Next]_vars => IInv'
  BY NextIInv
<1>3. IInv => QueueAgrees
  BY DEF IInv
<1> QED
  BY <1>1, <1>2, <1>3, PTL DEF Spec

\* The lock has one owner, it is the task that holds the lock or is about to
\* learn that it does, and cancellation at any point loses no ownership.
THEOREM MutualExclusion == Spec => []SoleOwner
<1>1. Init => IInv
  BY InitIInv
<1>2. IInv /\ [Next]_vars => IInv'
  BY NextIInv
<1>3. IInv => SoleOwner
  BY DEF IInv
<1> QED
  BY <1>1, <1>2, <1>3, PTL DEF Spec

-----------------------------------------------------------------------------
(* Condition *)

WaitTypeOK ==
  /\ phase \in [Task -> {"none", "checkpoint", "event", "reacquire"}]
  /\ evfut \in [Task -> {"none", "pending", "set", "cancelled"}]
  /\ isSet \in [Task -> BOOLEAN]
  /\ listeners \in Seq(Task)

\* Where a task is in wait() tells where it is with the lock, and what its event may be.
PhasesAgree ==
  \A t \in Task :
    /\ phase[t] = "checkpoint" => pc[t] = "hold"
    /\ phase[t] = "event" => pc[t] = "idle"
    /\ phase[t] = "reacquire" => pc[t] \in {"yield", "queued"}
    /\ isSet[t] => phase[t] = "event"
    /\ evfut[t] = "none" <=> phase[t] # "event"
    /\ evfut[t] = "set" => isSet[t]

Shielded ==
  \A t \in Task \ Native : phase[t] = "reacquire" => ~mustCancel[t] /\ fut[t] # "cancelled"

CondIInv == IInv /\ WaitTypeOK /\ PhasesAgree /\ Shielded /\ ListenersAgree

\* At first nobody waits.
LEMMA InitCondIInv == CondInit => CondIInv
<1> SUFFICES ASSUME CondInit PROVE CondIInv
  OBVIOUS
<1>1. IInv
  BY InitIInv DEF CondInit
<1>2. WaitTypeOK
  BY EmptySeq DEF CondInit, WaitTypeOK
<1>3. PhasesAgree /\ Shielded
  BY DEF CondInit, PhasesAgree, Shielded
<1>4. ListenersAgree
  BY DEF CondInit, ListenersAgree, IsInjective, Contains
<1> QED
  BY <1>1, <1>2, <1>3, <1>4 DEF CondIInv

\* release() cancels nobody.
LEMMA HandOverCancelsNone ==
  ASSUME NEW line \in Seq(Task), NEW f \in [Task -> FutureState], HandOver(line, f)
  PROVE  \A u \in Task : fut'[u] = "cancelled" => f[u] = "cancelled"
BY DEF HandOver

\* A call of the lock leaves the others where they are, and cancels nobody.
LEMMA OthersStay ==
  ASSUME IInv, NEW t \in Task,
         \/ AcquireFast(t) \/ AcquireSlow(t) \/ AcquireNowait(t) \/ Release(t)
         \/ Resume(t)
  PROVE  \A u \in Task \ {t} : /\ pc'[u] = pc[u] /\ mustCancel'[u] = mustCancel[u]
                               /\ fut'[u] = "cancelled" => fut[u] = "cancelled"
<1>0. TypeOK /\ QueueAgrees
  BY DEF IInv
<1>1. \A u \in Task \ {t} : pc'[u] = pc[u] /\ mustCancel'[u] = mustCancel[u]
  BY <1>0 DEF AcquireFast, AcquireSlow, AcquireNowait, Release, Resume, ResumeCheck,
     ResumeYield, ResumeQueued, Move, Unwind, TypeOK, TaskTypeOK
<1>2. CASE HandOver(waiters, fut) \/ fut' = fut \/ AcquireSlow(t)
  BY <1>0, <1>1, <1>2, HandOverCancelsNone DEF AcquireSlow, TypeOK, TaskTypeOK
<1>3. CASE ResumeQueued(t)
  <2> DEFINE line == RemoveFirst(waiters, t)
  <2>1. line \in Seq(Task)
    BY <1>0, <1>3, RemoveFirstFacts DEF ResumeQueued, TypeOK, QueueAgrees
  <2>2. /\ Stepped(t) \in [Task -> FutureState]
        /\ \A u \in Task \ {t} : Stepped(t)[u] = fut[u]
    BY <1>0 DEF Stepped, TypeOK, TaskTypeOK, FutureState
  <2>3. fut' = Stepped(t) \/ HandOver(line, Stepped(t))
    BY <1>3 DEF ResumeQueued, Withdraw
  <2> HIDE DEF line
  <2> QED
    BY <1>1, <2>1, <2>2, <2>3, HandOverCancelsNone
<1> QED
  BY <1>2, <1>3 DEF AcquireFast, AcquireNowait, Release, Resume, ResumeCheck, ResumeYield

\* What a cancellation does, wherever in wait() or in the lock it meets the task
LEMMA CondCancellingFacts ==
  ASSUME CondIInv, NEW t \in Task, CondCancelling(t)
  PROVE  /\ pc' = pc /\ owner' = owner /\ waiters' = waiters
         /\ mustCancel' \in [Task -> BOOLEAN] /\ scope' \in [Task -> {"open", "cancelled"}]
         /\ \/ fut' = fut
            \/ fut[t] = "pending" /\ fut' = [fut EXCEPT ![t] = "cancelled"]
         /\ \A u \in Task \ {t} : mustCancel'[u] = mustCancel[u]
         /\ t \notin Native /\ phase[t] = "reacquire" => fut' = fut /\ mustCancel' = mustCancel
         /\ \/ evfut' = evfut
            \/ evfut[t] = "pending" /\ evfut' = [evfut EXCEPT ![t] = "cancelled"]
         /\ UNCHANGED <<phase, isSet, listeners, ownerTask>>
<1>1. /\ TypeOK /\ WaitTypeOK
  BY DEF CondIInv, IInv
<1>2. CASE phase[t] = "event" /\ EventCancel(t)
  BY <1>1, <1>2 DEF EventCancel, TypeOK, TaskTypeOK, WaitTypeOK
<1>3. CASE /\ phase[t] = "checkpoint" /\ UNCHANGED <<owner, waiters, waitVars, ownerTask>>
           /\ ScopeCancel(t, TRUE) \/ Redeliver(t, TRUE) \/ NativeCancel(t, TRUE)
  BY <1>1, <1>3 DEF ScopeCancel, Redeliver, NativeCancel, TaskCancel, TypeOK, TaskTypeOK, waitVars
<1>4. CASE /\ phase[t] \in {"none", "reacquire"}
           /\ UNCHANGED <<owner, waiters, waitVars, ownerTask>>
           /\ \/ ScopeCancel(t, LockExposed(t)) \/ Redeliver(t, LockExposed(t))
              \/ NativeCancel(t, Suspended(t))
              \/ phase[t] = "none" /\ LeaveScope(t, ~Suspended(t))
  BY <1>1, <1>4 DEF ScopeCancel, Redeliver, NativeCancel, LeaveScope, TaskCancel, LockExposed,
     TypeOK, TaskTypeOK, waitVars
<1> QED
  BY <1>2, <1>3, <1>4 DEF CondCancelling

\* The lock underneath goes through steps of its own, or is taken again as acquire()
\* takes it.
LEMMA LockStep ==
  ASSUME CondIInv, [CondNext]_condVars
  PROVE  IInv'
<1>0. IInv /\ TypeOK /\ SoleOwner /\ QueueAgrees /\ PhasesAgree
  BY DEF CondIInv, IInv
<1>1. CASE UNCHANGED vars
  BY <1>0, <1>1, StutteringStep
<1>2. ASSUME NEW t \in Task, UseLock(t) PROVE IInv'
  BY <1>0, <1>2, CallStep DEF UseLock
<1>3. ASSUME NEW t \in Task, ResumeCheckpoint(t) PROVE IInv'
  <2>1. CASE Release(t)
    BY <1>0, <2>1, CallStep
  <2>2. CASE Unwind(t) /\ UNCHANGED <<pc, fut, owner, waiters>>
    <3>1. mustCancel' \in [Task -> BOOLEAN] /\ scope' \in [Task -> {"open", "cancelled"}]
      BY <1>0, <2>2 DEF Unwind, TypeOK, TaskTypeOK
    <3> QED
      BY <1>0, <2>2, <3>1, FutureCancelled
  <2> QED
    BY <1>3, <2>1, <2>2 DEF ResumeCheckpoint
<1>4. ASSUME NEW t \in Task, ResumeEvent(t) PROVE IInv'
  <2>1. /\ pc[t] = "idle" /\ owner # t
        /\ mustCancel' \in [Task -> BOOLEAN] /\ scope' \in [Task -> {"open", "cancelled"}]
    BY <1>0, <1>4
       DEF ResumeEvent, PhasesAgree, SoleOwner, Entitled, TypeOK, TaskTypeOK
  <2>2. CASE Free
    <3>1. PICK place \in {"hold", "yield"} : Move(t, place)
      BY <1>4, <2>2 DEF ResumeEvent
    <3>2. /\ place \in Places \ {"queued"}
          /\ owner = NoTask /\ owner' = t /\ fut' = fut /\ waiters' = waiters
      BY <1>4, <2>2, <3>1 DEF ResumeEvent, Free, Places
    <3> QED
      BY <1>0, <2>1, <3>1, <3>2, OutsideQueue
  <2>3. CASE ~Free
    BY <1>0, <1>4, <2>1, <2>3, JoiningStep DEF ResumeEvent
  <2> QED
    BY <2>2, <2>3
<1>5. ASSUME NEW t \in Task, ResumeReacquire(t) PROVE IInv'
  BY <1>0, <1>5, CallStep DEF ResumeReacquire, Resume
<1>6. ASSUME NEW t \in Task, CondCancelling(t) PROVE IInv'
  BY <1>0, <1>6, CondCancellingFacts, FutureCancelled
<1> QED
  BY <1>1, <1>2, <1>3, <1>4, <1>5, <1>6
     DEF CondNext, WaitStep, StartWait, Notify, condVars

\* notify() sets the events that it takes from the deque.
LEMMA NotifyFacts ==
  ASSUME CondIInv, NEW t \in Task, NEW n \in 0..Len(listeners), Notify(t, n)
  PROVE  /\ WaitTypeOK' /\ ListenersAgree'
         /\ \A u \in Task : /\ isSet'[u] => phase[u] = "event"
                            /\ evfut'[u] = "none" <=> evfut[u] = "none"
                            /\ evfut'[u] = "set" => isSet'[u]
<1> DEFINE hit == {listeners[i] : i \in 1..n}
<1>0. WaitTypeOK /\ PhasesAgree /\ ListenersAgree
  BY DEF CondIInv
<1>1. /\ isSet' = [w \in Task |-> isSet[w] \/ w \in hit]
      /\ evfut' = [w \in Task |-> IF w \in hit /\ evfut[w] = "pending" THEN "set" ELSE evfut[w]]
      /\ listeners' = SubSeq(listeners, n + 1, Len(listeners))
      /\ phase' = phase
  BY DEF Notify, Remaining
<1>2. /\ listeners' \in Seq(Task) /\ IsInjective(listeners')
      /\ \A x : Contains(listeners', x) <=> Contains(listeners, x) /\ x \notin hit
  BY <1>0, <1>1, DropFacts DEF WaitTypeOK, ListenersAgree
<1>3. \A x \in hit : Contains(listeners, x)
  BY <1>0, LenProperties DEF WaitTypeOK, Contains
<1> HIDE DEF hit
<1>4. \A u \in Task : isSet'[u] <=> isSet[u] \/ u \in hit
  BY <1>1, Zenon
<1>5. isSet' \in [Task -> BOOLEAN]
  BY <1>1, <1>0 DEF WaitTypeOK
<1>6. WaitTypeOK'
  BY <1>0, <1>1, <1>2, <1>5 DEF WaitTypeOK
<1>7. ListenersAgree'
  BY <1>0, <1>1, <1>2, <1>4 DEF ListenersAgree
<1>8. ASSUME NEW u \in Task
      PROVE  /\ isSet'[u] => phase[u] = "event"
             /\ evfut'[u] = "none" <=> evfut[u] = "none"
             /\ evfut'[u] = "set" => isSet'[u]
  <2>1. isSet'[u] => phase[u] = "event"
    BY <1>0, <1>3, <1>4 DEF PhasesAgree, ListenersAgree
  <2>2. evfut'[u] = IF u \in hit /\ evfut[u] = "pending" THEN "set" ELSE evfut[u]
    BY <1>1
  <2>3. evfut[u] = "set" => isSet[u]
    BY <1>0 DEF PhasesAgree
  <2> QED
    BY <1>4, <2>1, <2>2, <2>3
<1> QED
  BY <1>6, <1>7, <1>8

\* A step by t that leaves the other tasks where they are keeps the phases in agreement if
\* it does so for t.
LEMMA PhasesOfOthers ==
  ASSUME CondIInv, NEW t \in Task,
         \A u \in Task \ {t} :
           /\ pc'[u] = pc[u] /\ phase'[u] = phase[u] /\ mustCancel'[u] = mustCancel[u]
           /\ fut'[u] = "cancelled" => fut[u] = "cancelled"
           /\ evfut'[u] = evfut[u] /\ isSet'[u] = isSet[u],
         phase'[t] = "none", evfut'[t] = "none", isSet'[t] = FALSE
  PROVE  PhasesAgree' /\ Shielded'
BY DEF CondIInv, PhasesAgree, Shielded

\* wait() gives the lock up: its event joins the deque.
LEMMA CheckpointStep ==
  ASSUME CondIInv, NEW t \in Task, ResumeCheckpoint(t)
  PROVE  WaitTypeOK' /\ PhasesAgree' /\ Shielded' /\ ListenersAgree'
<1>0. IInv /\ TypeOK /\ WaitTypeOK /\ PhasesAgree /\ Shielded /\ ListenersAgree
  BY DEF CondIInv, IInv
<1>1. /\ phase[t] = "checkpoint" /\ isSet[t] = FALSE /\ evfut[t] = "none"
      /\ isSet' = isSet
  BY <1>0 DEF ResumeCheckpoint, PhasesAgree, WaitTypeOK
<1>2. CASE /\ phase' = [phase EXCEPT ![t] = "none"] /\ Unwind(t)
           /\ UNCHANGED <<pc, fut, owner, waiters, evfut, isSet, listeners>>
  <2>1. WaitTypeOK'
    BY <1>0, <1>2 DEF WaitTypeOK
  <2>2. \A u \in Task : /\ phase'[u] = IF u = t THEN "none" ELSE phase[u]
                        /\ u # t => mustCancel'[u] = mustCancel[u]
    BY <1>0, <1>2 DEF Unwind, WaitTypeOK, TypeOK, TaskTypeOK
  <2>3. PhasesAgree' /\ Shielded'
    BY <1>1, <1>2, <2>2, PhasesOfOthers
  <2>4. ListenersAgree'
    BY <1>0, <1>1, <1>2, <2>2 DEF ListenersAgree
  <2> QED
    BY <2>1, <2>3, <2>4
<1>3. CASE /\ phase' = [phase EXCEPT ![t] = "event"]
           /\ evfut' = [evfut EXCEPT ![t] = "pending"]
           /\ listeners' = Append(listeners, t) /\ Release(t)
  <2>1. /\ listeners' \in Seq(Task) /\ IsInjective(listeners')
        /\ \A x : Contains(listeners', x) <=> Contains(listeners, x) \/ x = t
    <3>1. ~Contains(listeners, t)
      BY <1>0, <1>1 DEF ListenersAgree
    <3> QED
      BY <1>0, <1>3, <3>1, AppendFacts DEF WaitTypeOK, ListenersAgree
  <2>2. \A u \in Task : /\ phase'[u] = IF u = t THEN "event" ELSE phase[u]
                        /\ evfut'[u] = IF u = t THEN "pending" ELSE evfut[u]
    BY <1>0, <1>3 DEF WaitTypeOK
  <2>3. /\ \A u \in Task \ {t} : /\ pc'[u] = pc[u] /\ mustCancel'[u] = mustCancel[u]
                                 /\ fut'[u] = "cancelled" => fut[u] = "cancelled"
        /\ pc'[t] = "idle"
    BY <1>0, <1>3, OthersStay DEF Release, Move, TypeOK, TaskTypeOK
  <2>4. WaitTypeOK'
    BY <1>0, <1>1, <1>3, <2>1 DEF WaitTypeOK
  <2>5. PhasesAgree' /\ Shielded'
    BY <1>0, <1>1, <2>2, <2>3 DEF PhasesAgree, Shielded
  <2>6. ListenersAgree'
    BY <1>0, <1>1, <2>1, <2>2 DEF ListenersAgree
  <2> QED
    BY <2>4, <2>5, <2>6
<1> QED
  BY <1>2, <1>3 DEF ResumeCheckpoint

\* The wait for the event ends: the event is in the deque no more, whoever took it out.
LEMMA EventStep ==
  ASSUME CondIInv, NEW t \in Task, ResumeEvent(t)
  PROVE  WaitTypeOK' /\ PhasesAgree' /\ Shielded' /\ ListenersAgree'
<1>0. IInv /\ TypeOK /\ QueueAgrees /\ WaitTypeOK /\ PhasesAgree /\ Shielded /\ ListenersAgree
  BY DEF CondIInv, IInv
<1>1. phase[t] = "event" /\ pc[t] = "idle" /\ fut[t] = "none" /\ evfut[t] # "pending"
  BY <1>0 DEF ResumeEvent, PhasesAgree, QueueAgrees
<1>2. /\ listeners' \in Seq(Task) /\ IsInjective(listeners')
      /\ \A u \in Task : Contains(listeners', u) <=> Contains(listeners, u) /\ u # t
  <2>1. CASE (mustCancel[t] \/ evfut[t] = "cancelled") /\ ~isSet[t]
    <3>1. listeners' = RemoveFirst(listeners, t) /\ Contains(listeners, t)
      BY <1>0, <1>1, <2>1 DEF ResumeEvent, ListenersAgree
    <3> QED
      BY <1>0, <3>1, RemoveFirstFacts DEF WaitTypeOK, ListenersAgree
  <2>2. CASE ~((mustCancel[t] \/ evfut[t] = "cancelled") /\ ~isSet[t])
    <3>1. listeners' = listeners
      BY <2>2 DEF ResumeEvent
    <3>2. isSet[t]
      BY <1>0, <1>1, <2>2 DEF PhasesAgree, WaitTypeOK
    <3> QED
      BY <1>0, <3>1, <3>2 DEF WaitTypeOK, ListenersAgree
  <2> QED
    BY <2>1, <2>2
<1>3. \A u \in Task :
        /\ phase'[u] = IF u = t THEN (IF Free /\ FastAcquire THEN "none" ELSE "reacquire")
                       ELSE phase[u]
        /\ evfut'[u] = IF u = t THEN "none" ELSE evfut[u]
        /\ isSet'[u] = IF u = t THEN FALSE ELSE isSet[u]
        /\ mustCancel'[u] = IF u = t THEN FALSE ELSE mustCancel[u]
  BY <1>0 DEF ResumeEvent, WaitTypeOK, TypeOK, TaskTypeOK
<1>4. /\ \A u \in Task \ {t} : pc'[u] = pc[u] /\ fut'[u] = fut[u]
      /\ pc'[t] = IF Free THEN (IF FastAcquire THEN "hold" ELSE "yield") ELSE "queued"
      /\ fut'[t] # "cancelled"
  BY <1>0, <1>1 DEF ResumeEvent, Move, TypeOK, TaskTypeOK
<1>5. WaitTypeOK'
  BY <1>0, <1>2 DEF ResumeEvent, WaitTypeOK
<1>6. PhasesAgree' /\ Shielded'
  <2>1. /\ phase'[t] \in {"none", "reacquire"} /\ evfut'[t] = "none"
        /\ ~isSet'[t] /\ ~mustCancel'[t]
        /\ phase'[t] = "reacquire" => pc'[t] \in {"yield", "queued"}
    BY <1>3, <1>4
  <2>2. \A u \in Task \ {t} :
          /\ pc'[u] = pc[u] /\ phase'[u] = phase[u] /\ mustCancel'[u] = mustCancel[u]
          /\ fut'[u] = fut[u] /\ evfut'[u] = evfut[u] /\ isSet'[u] = isSet[u]
    BY <1>3, <1>4
  <2> QED
    BY <1>0, <1>4, <2>1, <2>2 DEF PhasesAgree, Shielded
<1>7. ListenersAgree'
  BY <1>0, <1>2, <1>3 DEF ListenersAgree
<1> QED
  BY <1>5, <1>6, <1>7

\* Every step keeps the lock, the phases and the deque in agreement.
LEMMA NextCondIInv == CondIInv /\ [CondNext]_condVars => CondIInv'
<1> SUFFICES ASSUME CondIInv, [CondNext]_condVars PROVE CondIInv'
  OBVIOUS
<1> DEFINE Rest == WaitTypeOK /\ PhasesAgree /\ Shielded /\ ListenersAgree
<1>0. IInv /\ TypeOK /\ WaitTypeOK /\ PhasesAgree /\ Shielded /\ ListenersAgree
  BY DEF CondIInv, IInv
<1>1. ASSUME UNCHANGED condVars PROVE Rest'
  <2>1. UNCHANGED <<pc, fut, mustCancel, phase, evfut, isSet, listeners>>
    BY <1>1 DEF condVars, waitVars, vars, taskVars
  <2>2. WaitTypeOK' /\ ListenersAgree'
    BY <1>0, <2>1 DEF WaitTypeOK, ListenersAgree
  <2>3. PhasesAgree' /\ Shielded'
    BY <1>0, <2>1 DEF PhasesAgree, Shielded
  <2> QED
    BY <2>2, <2>3
<1>2. ASSUME NEW t \in Task, UseLock(t) PROVE Rest'
  <2>1. /\ phase[t] = "none" /\ evfut[t] = "none" /\ isSet[t] = FALSE
        /\ UNCHANGED <<phase, evfut, isSet, listeners>>
    BY <1>0, <1>2 DEF UseLock, waitVars, PhasesAgree, WaitTypeOK
  <2>2. \A u \in Task \ {t} : /\ pc'[u] = pc[u] /\ mustCancel'[u] = mustCancel[u]
                              /\ fut'[u] = "cancelled" => fut[u] = "cancelled"
    BY <1>0, <1>2, OthersStay DEF UseLock
  <2>3. PhasesAgree' /\ Shielded'
    BY <2>1, <2>2, PhasesOfOthers
  <2> QED
    BY <1>0, <2>1, <2>3 DEF WaitTypeOK, ListenersAgree
<1>3. ASSUME NEW t \in Task, StartWait(t) PROVE Rest'
  <2>1. /\ pc[t] = "hold" /\ phase[t] = "none"
        /\ phase' = [phase EXCEPT ![t] = "checkpoint"]
        /\ UNCHANGED <<pc, fut, mustCancel, evfut, isSet, listeners>>
    BY <1>3 DEF StartWait, vars, taskVars
  <2>2. \A u \in Task : phase'[u] = IF u = t THEN "checkpoint" ELSE phase[u]
    BY <1>0, <2>1 DEF WaitTypeOK
  <2>3. WaitTypeOK'
    BY <1>0, <2>1 DEF WaitTypeOK
  <2>4. PhasesAgree' /\ Shielded'
    BY <1>0, <2>1, <2>2 DEF PhasesAgree, Shielded
  <2>5. ListenersAgree'
    BY <1>0, <2>1, <2>2 DEF ListenersAgree
  <2> QED
    BY <2>3, <2>4, <2>5
<1>4. ASSUME NEW t \in Task, ResumeReacquire(t) PROVE Rest'
  <2>1. /\ phase[t] = "reacquire" /\ evfut[t] = "none" /\ isSet[t] = FALSE
        /\ phase' = [phase EXCEPT ![t] = "none"]
        /\ UNCHANGED <<evfut, isSet, listeners>>
    BY <1>0, <1>4 DEF ResumeReacquire, PhasesAgree, WaitTypeOK
  <2>2. \A u \in Task : phase'[u] = IF u = t THEN "none" ELSE phase[u]
    BY <1>0, <2>1 DEF WaitTypeOK
  <2>3. \A u \in Task \ {t} : /\ pc'[u] = pc[u] /\ mustCancel'[u] = mustCancel[u]
                              /\ fut'[u] = "cancelled" => fut[u] = "cancelled"
    BY <1>0, <1>4, OthersStay DEF ResumeReacquire, Resume
  <2>4. PhasesAgree' /\ Shielded'
    BY <2>1, <2>2, <2>3, PhasesOfOthers
  <2>5. WaitTypeOK' /\ ListenersAgree'
    BY <1>0, <2>1, <2>2 DEF WaitTypeOK, ListenersAgree
  <2> QED
    BY <2>4, <2>5
<1>5. ASSUME NEW t \in Task, CondCancelling(t) PROVE Rest'
  <2>1. /\ pc' = pc /\ UNCHANGED <<phase, isSet, listeners>>
        /\ \/ fut' = fut
           \/ fut[t] = "pending" /\ fut' = [fut EXCEPT ![t] = "cancelled"]
        /\ \A u \in Task \ {t} : mustCancel'[u] = mustCancel[u]
        /\ t \notin Native /\ phase[t] = "reacquire" => fut' = fut /\ mustCancel' = mustCancel
        /\ \/ evfut' = evfut
           \/ evfut[t] = "pending" /\ evfut' = [evfut EXCEPT ![t] = "cancelled"]
    BY <1>5, CondCancellingFacts
  <2>2. WaitTypeOK'
    BY <1>0, <2>1 DEF WaitTypeOK
  <2>3. PhasesAgree'
    BY <1>0, <2>1 DEF PhasesAgree, WaitTypeOK
  <2>4. Shielded'
    BY <1>0, <2>1 DEF Shielded, TypeOK, TaskTypeOK
  <2>5. ListenersAgree'
    BY <1>0, <2>1 DEF ListenersAgree
  <2> QED
    BY <2>2, <2>3, <2>4, <2>5
<1>6. ASSUME NEW t \in Task, NEW n \in 0..Len(listeners), Notify(t, n) PROVE Rest'
  <2>1. UNCHANGED <<pc, fut, mustCancel, phase>>
    BY <1>6 DEF Notify, vars, taskVars
  <2>2. /\ WaitTypeOK' /\ ListenersAgree'
        /\ \A u \in Task : /\ isSet'[u] => phase[u] = "event"
                           /\ evfut'[u] = "none" <=> evfut[u] = "none"
                           /\ evfut'[u] = "set" => isSet'[u]
    BY <1>6, NotifyFacts
  <2>3. PhasesAgree' /\ Shielded'
    BY <1>0, <2>1, <2>2 DEF PhasesAgree, Shielded
  <2> QED
    BY <2>2, <2>3
<1>7. ASSUME NEW t \in Task, ResumeCheckpoint(t) \/ ResumeEvent(t) PROVE Rest'
  BY <1>7, CheckpointStep, EventStep
<1>8. CondIInv' <=> IInv' /\ Rest'
  BY DEF CondIInv
<1> HIDE DEF Rest
<1>9. Rest'
  BY <1>1, <1>2, <1>3, <1>4, <1>5, <1>6, <1>7 DEF CondNext, WaitStep
<1> QED
  BY <1>8, <1>9, LockStep

\* The lock of a condition keeps its types, its queue and its one owner, whatever
\* wait() does with it.
THEOREM LockOfCondition == CondSpec => [](TypeOK /\ QueueAgrees /\ SoleOwner)
<1>1. CondInit => CondIInv
  BY InitCondIInv
<1>2. CondIInv /\ [CondNext]_condVars => CondIInv'
  BY NextCondIInv
<1>3. CondIInv => TypeOK /\ QueueAgrees /\ SoleOwner
  BY DEF CondIInv, IInv
<1> QED
  BY <1>1, <1>2, <1>3, PTL DEF CondSpec

\* The deque of a condition holds the events that are not set, of the tasks that wait for
\* them: a cancelled wait() finds its event, and no notification goes to one that is over.
THEOREM ListenersCorrect == CondSpec => []ListenersAgree
<1>1. CondInit => CondIInv
  BY InitCondIInv
<1>2. CondIInv /\ [CondNext]_condVars => CondIInv'
  BY NextCondIInv
<1>3. CondIInv => ListenersAgree
  BY DEF CondIInv
<1> QED
  BY <1>1, <1>2, <1>3, PTL DEF CondSpec

\* A step that ends wait() leaves the lock with the task, unless asyncio's own cancel()
\* may hit it.
LEMMA EndOfWait ==
  ASSUME CondIInv, NEW t \in Task, WaitStep(t) \/ UseLock(t) \/ StartWait(t),
         NEW u \in Task \ Native, phase[u] # "none", phase'[u] = "none"
  PROVE  owner' = u
<1>0. TypeOK /\ QueueAgrees /\ SoleOwner /\ WaitTypeOK /\ PhasesAgree /\ Shielded
  BY DEF CondIInv, IInv
<1>1. /\ u = t /\ WaitStep(t)
  BY <1>0 DEF WaitStep, UseLock, StartWait, waitVars, ResumeCheckpoint, ResumeEvent, ResumeReacquire,
     WaitTypeOK
<1>2. CASE ResumeCheckpoint(t)
  <2>1. owner' = owner /\ pc[t] = "hold"
    BY <1>0, <1>1, <1>2 DEF ResumeCheckpoint, PhasesAgree, WaitTypeOK
  <2> QED
    BY <1>0, <1>1, <2>1 DEF SoleOwner, Entitled
<1>3. CASE ResumeEvent(t)
  BY <1>0, <1>1, <1>3 DEF ResumeEvent, WaitTypeOK
<1>4. CASE ResumeReacquire(t)
  <2>1. ~Raises(t) /\ pc[t] \in {"yield", "queued"}
    BY <1>0, <1>1, <1>4 DEF ResumeReacquire, Raises, Shielded, PhasesAgree
  <2>2. owner' = owner
    BY <1>4, <2>1 DEF ResumeReacquire, ResumeYield, ResumeQueued
  <2>3. Entitled(t)
    BY <1>0, <1>4, <2>1 DEF ResumeReacquire, ResumeYield, ResumeQueued, Entitled, Raises,
       Runnable, QueueAgrees, TypeOK, TaskTypeOK, FutureState
  <2> QED
    BY <1>0, <1>1, <2>2, <2>3 DEF SoleOwner
<1> QED
  BY <1>1, <1>2, <1>3, <1>4 DEF WaitStep

\* However wait() ends, the task that called it holds the lock.
THEOREM LockHeldOnReturn == CondSpec => HoldsOnReturn
<1> DEFINE Held == \A t \in Task \ Native : phase[t] # "none" /\ phase'[t] = "none" => owner' = t
<1>1. CondInit => CondIInv
  BY InitCondIInv
<1>2. CondIInv /\ [CondNext]_condVars => CondIInv'
  BY NextCondIInv
<1>3. CondIInv /\ [CondNext]_condVars => [Held]_condVars
  <2> SUFFICES ASSUME CondIInv, CondNext, NEW u \in Task \ Native,
                      phase[u] # "none", phase'[u] = "none"
               PROVE  owner' = u
    OBVIOUS
  <2>1. \A t \in Task : CondCancelling(t) => phase' = phase
    BY CondCancellingFacts
  <2> QED
    BY <2>1, EndOfWait DEF CondNext, Notify
<1> QED
  BY <1>1, <1>2, <1>3, PTL DEF CondSpec, HoldsOnReturn

-----------------------------------------------------------------------------
(* The lock serves first those who came first: each of its steps is a step   *)
(* of AbstractLock, or leaves the owner and the line as they are.            *)

\* u does not stand behind v.
Stands(s, u, v) == \E i, j \in DOMAIN s : i <= j /\ s[i] = u /\ s[j] = v

\* The line, for any deque and futures
LineOf(s, f) ==
  {p \in Task \X Task :
     f[p[1]] = "pending" /\ f[p[2]] = "pending" /\ Stands(s, p[1], p[2])}

LEMMA LineIs == Line = LineOf(waiters, fut) /\ Line' = LineOf(waiters', fut')
BY DEF Line, LineOf, Stands

LEMMA InLineOf ==
  ASSUME NEW s, NEW f, NEW u, NEW v
  PROVE  <<u, v>> \in LineOf(s, f)
         <=> /\ u \in Task /\ v \in Task /\ f[u] = "pending" /\ f[v] = "pending"
             /\ Stands(s, u, v)
BY DEF LineOf

LEMMA LinesEqual ==
  ASSUME NEW s, NEW f, NEW L, L \subseteq Task \X Task,
         \A u, v \in Task : <<u, v>> \in LineOf(s, f) <=> <<u, v>> \in L
  PROVE  LineOf(s, f) = L
<1>1. LineOf(s, f) \subseteq Task \X Task
  BY DEF LineOf
<1>2. \A p \in Task \X Task : p \in LineOf(s, f) <=> p \in L
  <2> SUFFICES ASSUME NEW u \in Task, NEW v \in Task
               PROVE  <<u, v>> \in LineOf(s, f) <=> <<u, v>> \in L
    OBVIOUS
  <2> QED
    OBVIOUS
<1> QED
  BY <1>1, <1>2

\* Whoever is in the queue stands somewhere, and so does one of any two behind the other.
LEMMA StandsFacts ==
  ASSUME NEW s \in Seq(Task), IsInjective(s), NEW u, NEW v, Contains(s, u), Contains(s, v)
  PROVE  /\ Stands(s, u, u)
         /\ Stands(s, u, v) \/ Stands(s, v, u)
         /\ Stands(s, u, v) /\ Stands(s, v, u) => u = v
<1>1. Len(s) \in Nat /\ DOMAIN s = 1..Len(s)
  BY LenProperties
<1>2. PICK a \in 1..Len(s) : s[a] = u
  BY DEF Contains
<1>3. PICK b \in 1..Len(s) : s[b] = v
  BY DEF Contains
<1>4. (a <= b \/ b <= a) /\ a <= a
  BY <1>1
<1>7. Stands(s, u, u) /\ (Stands(s, u, v) \/ Stands(s, v, u))
  BY <1>1, <1>2, <1>3, <1>4 DEF Stands
<1>8. ASSUME Stands(s, u, v), Stands(s, v, u) PROVE u = v
  <2>1. PICK i, j \in DOMAIN s : i <= j /\ s[i] = u /\ s[j] = v
    BY <1>8 DEF Stands
  <2>2. PICK k, m \in DOMAIN s : k <= m /\ s[k] = v /\ s[m] = u
    BY <1>8 DEF Stands
  <2>4. i = m /\ k = j
    BY <2>1, <2>2 DEF IsInjective
  <2>5. i = j
    BY <1>1, <2>1, <2>2, <2>4
  <2> QED
    BY <2>1, <2>5
<1> QED
  BY <1>7, <1>8

\* remove() leaves the others in their order.
LEMMA OrderKept ==
  ASSUME NEW s \in Seq(Task), IsInjective(s), NEW e, NEW u, NEW v, u # e, v # e
  PROVE  Stands(RemoveFirst(s, e), u, v) <=> Stands(s, u, v)
<1> DEFINE r == RemoveFirst(s, e)
<1>1. /\ r \in Seq(Task) /\ IsInjective(r)
      /\ \A x : Contains(r, x) <=> Contains(s, x) /\ x # e
      /\ \A i, j \in DOMAIN r :
           i < j => \E a, b \in DOMAIN s : a < b /\ r[i] = s[a] /\ r[j] = s[b]
  BY WithdrawFacts
<1> HIDE DEF r
<1>2. /\ Len(s) \in Nat /\ DOMAIN s = 1..Len(s) /\ Len(r) \in Nat /\ DOMAIN r = 1..Len(r)
  BY <1>1, LenProperties
<1>3. \A q, x, y : Len(q) \in Nat /\ DOMAIN q = 1..Len(q) /\ Stands(q, x, y)
                   => Contains(q, x) /\ Contains(q, y)
  BY DEF Stands, Contains
<1>4. ASSUME NEW x, NEW y, Stands(r, x, y) PROVE Stands(s, x, y)
  <2>1. PICK i, j \in DOMAIN r : i <= j /\ r[i] = x /\ r[j] = y
    BY <1>4 DEF Stands
  <2>2. CASE i = j
    <3>1. Contains(s, x) /\ x = y
      BY <1>1, <1>2, <1>3, <1>4, <2>1, <2>2
    <3> QED
      BY <3>1, StandsFacts
  <2>3. CASE i # j
    <3>1. i < j
      BY <1>2, <2>1, <2>3
    <3>2. PICK a, b \in DOMAIN s : a < b /\ x = s[a] /\ y = s[b]
      BY <1>1, <2>1, <3>1
    <3>3. a <= b
      BY <1>2, <3>2
    <3> QED
      BY <3>2, <3>3 DEF Stands
  <2> QED
    BY <2>2, <2>3
<1>5. ASSUME Stands(s, u, v) PROVE Stands(r, u, v)
  <2>1. Contains(s, u) /\ Contains(s, v) /\ Contains(r, u) /\ Contains(r, v)
    BY <1>1, <1>2, <1>3, <1>5
  <2>2. CASE Stands(r, v, u)
    <3>1. u = v
      BY <1>4, <1>5, <2>1, <2>2, StandsFacts
    <3> QED
      BY <2>2, <3>1
  <2> QED
    BY <1>1, <2>1, <2>2, StandsFacts
<1> QED
  BY <1>4, <1>5 DEF r

\* The line depends on who is pending only.
LEMMA LineSame ==
  ASSUME NEW s, NEW f, NEW g, \A u \in Task : g[u] = "pending" <=> f[u] = "pending"
  PROVE  LineOf(s, g) = LineOf(s, f)
<1>1. LineOf(s, f) \subseteq Task \X Task
  BY DEF LineOf
<1>2. \A u, v \in Task : <<u, v>> \in LineOf(s, g) <=> <<u, v>> \in LineOf(s, f)
  BY InLineOf
<1> QED
  BY <1>1, <1>2, LinesEqual

\* What t leaves of a line
Less(L, t) == {p \in L : p[1] # t /\ p[2] # t}

\* A task that is pending no more leaves the line, whether its entry is removed or stays.
LEMMA LineLess ==
  ASSUME NEW s \in Seq(Task), IsInjective(s), NEW t, NEW f, NEW g,
         \A u \in Task : g[u] = "pending" <=> f[u] = "pending" /\ u # t,
         NEW r, r = s \/ r = RemoveFirst(s, t)
  PROVE  LineOf(r, g) = Less(LineOf(s, f), t)
<1> DEFINE L == {p \in LineOf(s, f) : p[1] # t /\ p[2] # t}
<1>1. L \subseteq Task \X Task
  BY DEF LineOf
<1>2. ASSUME NEW u \in Task, NEW v \in Task
      PROVE  <<u, v>> \in LineOf(r, g) <=> <<u, v>> \in L
  <2>1. <<u, v>> \in L <=> <<u, v>> \in LineOf(s, f) /\ u # t /\ v # t
    OBVIOUS
  <2>2. u # t /\ v # t => (Stands(r, u, v) <=> Stands(s, u, v))
    BY OrderKept
  <2> QED
    BY <2>1, <2>2, InLineOf
<1> HIDE DEF L
<1>3. LineOf(r, g) = L
  BY <1>1, <1>2, LinesEqual
<1> QED
  BY <1>3 DEF L, Less

\* So the step of a task that is not pending leaves the line alone.
LEMMA LineKept ==
  ASSUME NEW s \in Seq(Task), IsInjective(s), NEW t, NEW f, NEW g, f[t] # "pending",
         \A u \in Task : g[u] = "pending" <=> f[u] = "pending",
         NEW r, r = s \/ r = RemoveFirst(s, t)
  PROVE  LineOf(r, g) = LineOf(s, f)
<1>1. \A u \in Task : g[u] = "pending" <=> f[u] = "pending" /\ u # t
  OBVIOUS
<1>2. LineOf(r, g) = Less(LineOf(s, f), t)
  BY <1>1, LineLess
<1>3. \A p \in LineOf(s, f) : p[1] # t /\ p[2] # t
  BY DEF LineOf
<1> QED
  BY <1>2, <1>3 DEF Less

\* append() puts a task behind everybody who is in line.
LEMMA LineMore ==
  ASSUME NEW s \in Seq(Task), IsInjective(s), NEW t \in Task, ~Contains(s, t),
         NEW f, NEW g, f[t] # "pending",
         \A u \in Task : g[u] = "pending" <=> f[u] = "pending" \/ u = t,
         \A u \in Task : f[u] = "pending" => Contains(s, u)
  PROVE  LineOf(Append(s, t), g)
         = LineOf(s, f) \union ({u \in Task : f[u] = "pending"} \X {t}) \union {<<t, t>>}
<1> DEFINE L == LineOf(s, f) \union ({u \in Task : f[u] = "pending"} \X {t}) \union {<<t, t>>}
           q == Append(s, t)
<1>1. /\ Len(s) \in Nat /\ DOMAIN s = 1..Len(s) /\ DOMAIN q = 1..(Len(s) + 1)
      /\ \A i \in 1..Len(s) : q[i] = s[i] /\ q[i] # t
      /\ q[Len(s) + 1] = t
  <2>1. /\ Append(s, t) \in Seq(Task) /\ Len(Append(s, t)) = Len(s) + 1
        /\ \A i \in 1..Len(s) : Append(s, t)[i] = s[i]
        /\ Append(s, t)[Len(s) + 1] = t
    BY AppendProperties
  <2> QED
    BY <2>1, LenProperties DEF Contains
<1> HIDE DEF q
<1>2. ASSUME NEW u \in Task, NEW v \in Task, f[u] = "pending", f[v] = "pending"
      PROVE  Stands(q, u, v) <=> Stands(s, u, v)
  <2>1. u # t /\ v # t
    BY <1>2
  <2>2. ASSUME NEW i \in DOMAIN q, q[i] # t PROVE i \in DOMAIN s /\ s[i] = q[i]
    <3>1. i # Len(s) + 1
      BY <1>1, <2>2
    <3>2. i \in 1..Len(s)
      BY <1>1, <2>2, <3>1
    <3> QED
      BY <1>1, <3>2
  <2>3. ASSUME NEW i \in DOMAIN s PROVE i \in DOMAIN q /\ q[i] = s[i]
    BY <1>1, <2>3
  <2> QED
    BY <2>1, <2>2, <2>3 DEF Stands
<1>3. ASSUME NEW u \in Task, f[u] = "pending" \/ u = t PROVE Stands(q, u, t)
  <2>1. PICK i \in DOMAIN q : q[i] = u
    <3>1. CASE u = t
      <4>1. Len(s) + 1 \in DOMAIN q
        BY <1>1
      <4> QED
        BY <1>1, <4>1, <3>1
    <3>2. CASE u # t
      <4>1. PICK i \in 1..Len(s) : s[i] = u
        BY <1>3, <3>2 DEF Contains
      <4>2. i \in DOMAIN q /\ q[i] = u
        BY <1>1, <4>1
      <4> QED
        BY <4>2
    <3> QED
      BY <3>1, <3>2
  <2>2. i <= Len(s) + 1 /\ Len(s) + 1 \in DOMAIN q
    BY <1>1
  <2> QED
    BY <1>1, <2>1, <2>2 DEF Stands
<1>4. ASSUME NEW v \in Task, Stands(q, t, v) PROVE v = t
  <2>1. PICK i, j \in DOMAIN q : i <= j /\ q[i] = t /\ q[j] = v
    BY <1>4 DEF Stands
  <2>2. i = Len(s) + 1
    BY <1>1, <2>1
  <2>3. j = Len(s) + 1
    BY <1>1, <2>1, <2>2
  <2> QED
    BY <1>1, <2>1, <2>3
<1>5. L \subseteq Task \X Task
  BY DEF LineOf
<1>6. ASSUME NEW u \in Task, NEW v \in Task
      PROVE  <<u, v>> \in LineOf(q, g) <=> <<u, v>> \in L
  <2>1. <<u, v>> \in L <=> \/ <<u, v>> \in LineOf(s, f)
                           \/ v = t /\ (f[u] = "pending" \/ u = t)
    OBVIOUS
  <2>2. CASE v = t
    BY <1>3, <2>1, <2>2, InLineOf
  <2>3. CASE v # t
    <3>1. u = t => ~Stands(q, u, v) /\ <<u, v>> \notin LineOf(s, f)
      BY <1>4, <2>3, InLineOf
    <3>2. <<u, v>> \in LineOf(q, g)
          <=> /\ f[u] = "pending" \/ u = t
              /\ f[v] = "pending"
              /\ Stands(q, u, v)
      BY <2>3, InLineOf
    <3>3. <<u, v>> \in LineOf(s, f)
          <=> f[u] = "pending" /\ f[v] = "pending" /\ Stands(s, u, v)
      BY InLineOf
    <3> QED
      BY <1>2, <2>1, <2>3, <3>1, <3>2, <3>3
  <2> QED
    BY <2>2, <2>3
<1> HIDE DEF L
<1>7. LineOf(q, g) = L
  BY <1>5, <1>6, LinesEqual
<1> QED
  BY <1>7 DEF L, q

\* Who stands in the line of the abstract lock: the tasks whose futures are pending
LEMMA PendingInLine ==
  ASSUME TypeOK, QueueAgrees
  PROVE  /\ Abstract!InLine = {u \in Task : fut[u] = "pending"}
         /\ \A u \in Task : fut[u] = "pending" => Contains(waiters, u) /\ Stands(waiters, u, u)
         /\ owner = NoTask /\ waiters = <<>> => Abstract!InLine = {}
<1>1. ASSUME NEW u \in Task, fut[u] = "pending"
      PROVE  Contains(waiters, u) /\ Stands(waiters, u, u)
  <2>1. Contains(waiters, u)
    BY <1>1 DEF QueueAgrees
  <2>2. waiters \in Seq(Task) /\ IsInjective(waiters)
    BY DEF TypeOK, QueueAgrees
  <2> QED
    BY <2>1, <2>2, StandsFacts
<1>2. \A u \in Task : <<u, u>> \in Line <=> fut[u] = "pending"
  BY <1>1, LineIs, InLineOf
<1>3. Abstract!InLine = {u \in Task : fut[u] = "pending"}
  BY <1>2 DEF Abstract!InLine
<1>4. waiters = <<>> => \A u : ~Contains(waiters, u)
  BY DEF Contains
<1> QED
  BY <1>1, <1>3, <1>4

\* The line of the lock, whoever looks at the queue before or after t took its entry out
LEMMA QueueLineKept ==
  ASSUME TypeOK, QueueAgrees, NEW t, fut[t] # "pending",
         NEW q, q = waiters \/ q = RemoveFirst(waiters, t),
         NEW f, \A u \in Task : f[u] = "pending" <=> fut[u] = "pending"
  PROVE  LineOf(q, f) = LineOf(waiters, fut)
<1> DEFINE s == waiters   e == fut
<1>1. /\ s \in Seq(Task) /\ IsInjective(s) /\ e[t] # "pending"
      /\ \A u \in Task : f[u] = "pending" <=> e[u] = "pending"
      /\ q = s \/ q = RemoveFirst(s, t)
  BY DEF TypeOK, QueueAgrees
<1> HIDE DEF s, e
<1>2. LineOf(q, f) = LineOf(s, e)
  BY ONLY <1>1, LineKept
<1> QED
  BY <1>2 DEF s, e

\* A step that keeps the owner and the pending tasks: a stutter
LEMMA AbstractStutter ==
  ASSUME TypeOK, QueueAgrees, NEW t, owner' = owner, fut[t] # "pending",
         \A u \in Task : fut'[u] = "pending" <=> fut[u] = "pending",
         waiters' = waiters \/ waiters' = RemoveFirst(waiters, t)
  PROVE  UNCHANGED Abstract!vars
<1>1. LineOf(waiters', fut') = LineOf(waiters, fut)
  BY QueueLineKept
<1> QED
  BY <1>1, LineIs DEF Abstract!vars

\* A cancellation takes a task out of the line, or leaves the line as it is.
LEMMA AbstractCancel ==
  ASSUME TypeOK, QueueAgrees, NEW t \in Task, owner' = owner, waiters' = waiters,
         \/ fut' = fut
         \/ fut[t] = "pending" /\ fut' = [fut EXCEPT ![t] = "cancelled"]
  PROVE  [Abstract!Next]_(Abstract!vars)
<1>1. CASE fut' = fut
  <2>1. Line' = Line
    BY <1>1, LineIs
  <2> QED
    BY <2>1 DEF Abstract!vars
<1>2. CASE fut[t] = "pending" /\ fut' = [fut EXCEPT ![t] = "cancelled"]
  <2> DEFINE s == waiters   f == fut   g == fut'
  <2>1. /\ s \in Seq(Task) /\ IsInjective(s)
        /\ \A u \in Task : g[u] = "pending" <=> f[u] = "pending" /\ u # t
        /\ Line = LineOf(s, f) /\ Line' = LineOf(s, g)
    BY <1>2, LineIs DEF TypeOK, TaskTypeOK, QueueAgrees
  <2> HIDE DEF s, f, g
  <2>2. Line' = Less(Line, t)
    BY <2>1, LineLess
  <2>3. t \in Abstract!InLine
    BY <1>2, PendingInLine
  <2>4. Abstract!Abandon(t)
    BY <2>2, <2>3 DEF Abstract!Abandon, Abstract!Left, Less
  <2> QED
    BY <2>4 DEF Abstract!Next
<1> QED
  BY <1>1, <1>2

\* A task that finds the lock taken joins the line at its end.
LEMMA AbstractJoin ==
  ASSUME TypeOK, QueueAgrees, NEW t \in Task, owner # t, owner' = owner, pc[t] # "queued",
         waiters' = Append(waiters, t), fut' = [fut EXCEPT ![t] = "pending"]
  PROVE  Abstract!Next
<1> DEFINE s == waiters   f == fut   g == fut'
<1>1. /\ s \in Seq(Task) /\ IsInjective(s) /\ ~Contains(s, t) /\ f[t] # "pending"
      /\ \A u \in Task : g[u] = "pending" <=> f[u] = "pending" \/ u = t
      /\ Line = LineOf(s, f) /\ Line' = LineOf(Append(s, t), g)
      /\ Abstract!InLine = {u \in Task : f[u] = "pending"}
      /\ \A u \in Task : f[u] = "pending" => Contains(s, u)
  BY LineIs, PendingInLine DEF TypeOK, TaskTypeOK, QueueAgrees
<1>2. t \notin Abstract!InLine
  BY <1>1
<1> HIDE DEF s, f, g
<1>3. LineOf(Append(s, t), g)
      = LineOf(s, f) \union ({u \in Task : f[u] = "pending"} \X {t}) \union {<<t, t>>}
  BY <1>1, LineMore
<1>4. Line' = Line \union (Abstract!InLine \X {t}) \union {<<t, t>>}
  BY <1>1, <1>3
<1>5. Abstract!Join(t)
  BY <1>2, <1>4 DEF Abstract!Join
<1> QED
  BY <1>5 DEF Abstract!Next

\* release() gives the lock to the waiter that no other waiter stands before.
LEMMA HandOverInOrder ==
  ASSUME NEW line \in Seq(Task), NEW f \in [Task -> FutureState],
         \A w \in Task : Contains(line, w) => f[w] \in {"pending", "cancelled"},
         HandOver(line, f)
  PROVE  \/ /\ owner' = NoTask /\ fut' = f
            /\ \A u \in Task : Contains(line, u) => f[u] # "pending"
         \/ \E w \in Task :
              /\ Contains(line, w) /\ f[w] = "pending"
              /\ owner' = w /\ fut' = [f EXCEPT ![w] = "result"]
              /\ \A u \in Task : Contains(line, u) /\ f[u] = "pending" => Stands(line, w, u)
<1>1. Len(line) \in Nat /\ DOMAIN line = 1..Len(line)
      /\ \A i \in 1..Len(line) : line[i] \in Task
  BY LenProperties, ElementOfSeq
<1>2. CASE \E i \in DOMAIN line :
             /\ f[line[i]] # "cancelled"
             /\ \A j \in 1..(i - 1) : f[line[j]] = "cancelled"
             /\ owner' = line[i]
             /\ fut' = [f EXCEPT ![line[i]] = "result"]
  <2>1. PICK i \in DOMAIN line :
          /\ f[line[i]] # "cancelled"
          /\ \A j \in 1..(i - 1) : f[line[j]] = "cancelled"
          /\ owner' = line[i]
          /\ fut' = [f EXCEPT ![line[i]] = "result"]
    BY <1>2
  <2>2. line[i] \in Task /\ Contains(line, line[i])
    BY <1>1, <2>1 DEF Contains
  <2>3. f[line[i]] = "pending"
    BY <2>1, <2>2
  <2>4. ASSUME NEW u \in Task, Contains(line, u), f[u] = "pending"
        PROVE  Stands(line, line[i], u)
    <3>1. PICK k \in 1..Len(line) : line[k] = u
      BY <2>4 DEF Contains
    <3>2. f[line[k]] # "cancelled"
      BY <2>4, <3>1
    <3>3. k \notin 1..(i - 1)
      BY <2>1, <3>2
    <3>4. i <= k /\ k \in DOMAIN line
      BY <1>1, <2>1, <3>3
    <3> QED
      BY <2>1, <3>1, <3>4 DEF Stands
  <2> QED
    BY <2>1, <2>2, <2>3, <2>4
<1>3. CASE /\ \A i \in DOMAIN line : f[line[i]] = "cancelled"
           /\ owner' = NoTask
           /\ fut' = f
  <2>1. \A u \in Task : Contains(line, u) => f[u] # "pending"
    BY <1>1, <1>3 DEF Contains
  <2> QED
    BY <1>3, <2>1
<1> QED
  BY <1>2, <1>3 DEF HandOver

\* The owner, outside the queue once its own entry is removed, gives the lock up.
LEMMA AbstractGiveUp ==
  ASSUME TypeOK, QueueAgrees, SoleOwner, NEW t \in Task, owner = t,
         NEW q, q = waiters \/ q = RemoveFirst(waiters, t), waiters' = q,
         fut[t] # "pending", NEW f, f = fut \/ f = Stepped(t),
         ~Contains(q, t), HandOver(q, f)
  PROVE  Abstract!Next
<1>1. waiters \in Seq(Task) /\ IsInjective(waiters) /\ fut \in [Task -> FutureState]
  BY DEF TypeOK, TaskTypeOK, QueueAgrees
<1>2. /\ q \in Seq(Task) /\ IsInjective(q)
      /\ \A u \in Task : Contains(q, u) => Contains(waiters, u) /\ u # t
      /\ \A u \in Task : Contains(waiters, u) /\ u # t => Contains(q, u)
  BY <1>1, WithdrawFacts
<1>3. /\ f \in [Task -> FutureState]
      /\ \A u \in Task : f[u] = "pending" <=> fut[u] = "pending"
      /\ \A u \in Task \ {t} : f[u] = fut[u]
  BY <1>1 DEF Stepped, FutureState
<1>4. \A w \in Task : Contains(q, w) => f[w] \in {"pending", "cancelled"}
  <2> SUFFICES ASSUME NEW w \in Task, Contains(q, w)
               PROVE  f[w] \in {"pending", "cancelled"}
    OBVIOUS
  <2>1. w # t /\ pc[w] = "queued" /\ f[w] = fut[w]
    BY <1>2, <1>3 DEF QueueAgrees
  <2>2. fut[w] # "none" /\ fut[w] # "result"
    BY <2>1 DEF QueueAgrees, SoleOwner, Entitled
  <2> QED
    BY <1>1, <2>1, <2>2 DEF FutureState
<1>5. \A u \in Task : f[u] = "pending" => Contains(q, u)
  BY <1>2, <1>3, PendingInLine
<1>6. LineOf(q, f) = Line
  BY <1>3, QueueLineKept, LineIs
<1>7. Abstract!InLine = {u \in Task : f[u] = "pending"} /\ owner # NoTask
  BY <1>3, PendingInLine, TaskAssumption
<1>8. Line' = LineOf(q, fut')
  BY LineIs
<1>9. CASE /\ owner' = NoTask /\ fut' = f
           /\ \A u \in Task : Contains(q, u) => f[u] # "pending"
  <2>1. Line' = Line /\ Abstract!InLine = {}
    BY <1>5, <1>6, <1>7, <1>8, <1>9
  <2> QED
    BY <1>7, <1>9, <2>1 DEF Abstract!Next, Abstract!GiveUp
<1>10. ASSUME NEW w \in Task, Contains(q, w), f[w] = "pending",
              owner' = w, fut' = [f EXCEPT ![w] = "result"],
              \A u \in Task : Contains(q, u) /\ f[u] = "pending" => Stands(q, w, u)
       PROVE  Abstract!Next
  <2>1. Line' = Less(Line, w)
    <3> DEFINE g == fut'
    <3>1. \A u \in Task : g[u] = "pending" <=> f[u] = "pending" /\ u # w
      BY <1>3, <1>10
    <3>2. Line' = LineOf(q, g)
      BY <1>8
    <3> HIDE DEF g
    <3> QED
      BY <1>2, <1>6, <3>1, <3>2, LineLess
  <2>2. w \in Abstract!InLine
    BY <1>7, <1>10
  <2>3. \A u \in Abstract!InLine : <<w, u>> \in Line
    BY <1>5, <1>6, <1>7, <1>10, InLineOf
  <2>4. Abstract!GiveUp
    BY <1>7, <1>10, <2>1, <2>2, <2>3 DEF Abstract!GiveUp, Abstract!Left, Less
  <2> QED
    BY <2>4 DEF Abstract!Next
<1> QED
  BY <1>2, <1>3, <1>4, <1>9, <1>10, HandOverInOrder

\* A free lock is taken: nobody stands in line for it.
LEMMA AbstractTake ==
  ASSUME TypeOK, QueueAgrees, NEW t \in Task, Free, owner' = t,
         fut' = fut, waiters' = waiters
  PROVE  Abstract!Next
<1>1. Line' = Line
  BY LineIs
<1>2. Abstract!Take(t)
  BY <1>1, PendingInLine DEF Abstract!Take, Free
<1> QED
  BY <1>2 DEF Abstract!Next

\* The operations of the lock, and their steps after a suspension
LEMMA AbstractCall ==
  ASSUME IInv, NEW t \in Task,
         AcquireFast(t) \/ AcquireSlow(t) \/ AcquireNowait(t) \/ Release(t) \/ Resume(t)
  PROVE  [Abstract!Next]_(Abstract!vars)
<1>0. TypeOK /\ QueueAgrees /\ SoleOwner
  BY DEF IInv
<1>1. /\ pc[t] # "queued" => fut[t] = "none" /\ ~Contains(waiters, t)
      /\ waiters \in Seq(Task) /\ IsInjective(waiters) /\ fut \in [Task -> FutureState]
  BY <1>0 DEF QueueAgrees, TypeOK, TaskTypeOK
<1>2. CASE AcquireFast(t)
  <2>1. Free /\ fut' = fut /\ waiters' = waiters /\ (owner' = owner \/ owner' = t)
    BY <1>2 DEF AcquireFast
  <2>2. owner' = owner => Line' = Line
    BY <2>1, LineIs
  <2> QED
    BY <1>0, <2>1, <2>2, AbstractTake DEF Abstract!vars
<1>3. CASE AcquireSlow(t)
  <2>1. /\ owner # t /\ owner' = owner /\ pc[t] # "queued"
        /\ waiters' = Append(waiters, t) /\ fut' = [fut EXCEPT ![t] = "pending"]
    BY <1>3 DEF AcquireSlow
  <2> QED
    BY <1>0, <2>1, AbstractJoin
<1>4. CASE AcquireNowait(t)
  BY <1>0, <1>4, AbstractTake DEF AcquireNowait
<1>5. CASE Release(t)
  <2>1. /\ owner = t /\ waiters' = waiters /\ HandOver(waiters, fut)
        /\ fut[t] # "pending" /\ ~Contains(waiters, t)
    BY <1>1, <1>5 DEF Release
  <2> QED
    BY <1>0, <2>1, AbstractGiveUp
<1>6. CASE ResumeCheck(t)
  <2>1. Line' = Line /\ owner' = owner
    BY <1>6, LineIs DEF ResumeCheck
  <2> QED
    BY <2>1 DEF Abstract!vars
<1>7. CASE ResumeYield(t)
  <2>1. CASE ~Raises(t)
    <3>1. Line' = Line /\ owner' = owner
      BY <1>7, <2>1, LineIs DEF ResumeYield
    <3> QED
      BY <3>1 DEF Abstract!vars
  <2>2. CASE Raises(t)
    <3>1. /\ owner = t /\ waiters' = waiters /\ HandOver(waiters, fut)
          /\ fut[t] # "pending" /\ ~Contains(waiters, t)
      BY <1>0, <1>1, <1>7, <2>2 DEF ResumeYield, SoleOwner, Entitled
    <3> QED
      BY <1>0, <3>1, AbstractGiveUp
  <2> QED
    BY <2>1, <2>2
<1>8. CASE ResumeQueued(t)
  <2> DEFINE q == RemoveFirst(waiters, t)
  <2>1. /\ fut[t] # "pending" /\ waiters' = q
        /\ \/ owner' = owner /\ fut' = Stepped(t)
           \/ owner = t /\ HandOver(q, Stepped(t))
    BY <1>8 DEF ResumeQueued, Withdraw, Runnable
  <2>2. ~Contains(q, t)
    BY <1>1, WithdrawFacts
  <2>3. CASE owner' = owner /\ fut' = Stepped(t)
    <3>1. \A u \in Task : fut'[u] = "pending" <=> fut[u] = "pending"
      BY <1>1, <2>1, <2>3 DEF Stepped
    <3>2. waiters' = RemoveFirst(waiters, t)
      BY <2>1
    <3> QED
      BY <1>0, <2>1, <2>3, <3>1, <3>2, AbstractStutter
  <2>4. CASE owner = t /\ HandOver(q, Stepped(t))
    <3> DEFINE f == Stepped(t)
    <3>1. /\ (q = waiters \/ q = RemoveFirst(waiters, t)) /\ waiters' = q
          /\ (f = fut \/ f = Stepped(t)) /\ HandOver(q, f)
      BY <2>1, <2>4
    <3> HIDE DEF q, f
    <3> QED
      BY <1>0, <2>1, <2>2, <2>4, <3>1, AbstractGiveUp
  <2> QED
    BY <2>1, <2>3, <2>4
<1> QED
  BY <1>2, <1>3, <1>4, <1>5, <1>6, <1>7, <1>8 DEF Resume

\* At first the lock is free and the line is empty.
LEMMA AbstractStart == Init => Abstract!Init
<1> SUFFICES ASSUME Init PROVE Abstract!Init
  OBVIOUS
<1>1. \A p \in Line : FALSE
  BY DEF Init, TaskInit, Line
<1>2. Line = {}
  BY <1>1
<1> QED
  BY <1>2 DEF Init, Abstract!Init

\* The lock hands itself on in the order of arrival: release() passes over cancelled waiters
\* and nobody else, and no acquire() or acquire_nowait() overtakes a waiter that is not cancelled.
THEOREM LockServesInOrder == Spec => FirstComeFirstServed
<1>1. Init => IInv /\ Abstract!Init
  BY InitIInv, AbstractStart
<1>2. IInv /\ [Next]_vars => IInv'
  BY NextIInv
<1>3. IInv /\ [Next]_vars => [Abstract!Next]_(Abstract!vars)
  <2> SUFFICES ASSUME IInv, [Next]_vars PROVE [Abstract!Next]_(Abstract!vars)
    OBVIOUS
  <2>1. CASE UNCHANGED vars
    <3>1. owner' = owner /\ Line' = Line
      BY <2>1, LineIs DEF vars, taskVars
    <3> QED
      BY <3>1 DEF Abstract!vars
  <2>2. ASSUME NEW t \in Task, Cancelling(t) PROVE [Abstract!Next]_(Abstract!vars)
    <3>1. /\ TypeOK /\ QueueAgrees /\ owner' = owner /\ waiters' = waiters
          /\ \/ fut' = fut
             \/ fut[t] = "pending" /\ fut' = [fut EXCEPT ![t] = "cancelled"]
      BY <2>2 DEF Cancelling, ScopeCancel, Redeliver, NativeCancel, LeaveScope, TaskCancel, IInv
    <3> QED
      BY <3>1, AbstractCancel
  <2> QED
    BY <2>1, <2>2, AbstractCall DEF Next
<1> QED
  BY <1>1, <1>2, <1>3, PTL DEF Spec, FirstComeFirstServed, Abstract!Spec

\* The same of the lock of a condition: acquire() at the end of wait() stands in the same line.
THEOREM ConditionServesInOrder == CondSpec => FirstComeFirstServed
<1>1. CondInit => CondIInv /\ Abstract!Init
  BY InitCondIInv, AbstractStart DEF CondInit
<1>2. CondIInv /\ [CondNext]_condVars => CondIInv'
  BY NextCondIInv
<1>3. CondIInv /\ [CondNext]_condVars => [Abstract!Next]_(Abstract!vars)
  <2> SUFFICES ASSUME CondIInv, [CondNext]_condVars PROVE [Abstract!Next]_(Abstract!vars)
    OBVIOUS
  <2>0. IInv /\ TypeOK /\ QueueAgrees /\ SoleOwner /\ PhasesAgree
    BY DEF CondIInv, IInv
  <2>1. ASSUME owner' = owner, fut' = fut, waiters' = waiters
        PROVE  UNCHANGED Abstract!vars
    BY <2>1, LineIs DEF Abstract!vars
  <2>2. ASSUME NEW t \in Task, CondCancelling(t) PROVE [Abstract!Next]_(Abstract!vars)
    BY <2>0, <2>2, CondCancellingFacts, AbstractCancel
  <2>3. ASSUME NEW t \in Task, ResumeCheckpoint(t) PROVE [Abstract!Next]_(Abstract!vars)
    <3>1. \/ owner' = owner /\ fut' = fut /\ waiters' = waiters
          \/ Release(t)
      BY <2>3 DEF ResumeCheckpoint
    <3> QED
      BY <2>0, <2>1, <3>1, AbstractCall
  <2>4. ASSUME NEW t \in Task, ResumeEvent(t) PROVE [Abstract!Next]_(Abstract!vars)
    <3>1. pc[t] = "idle"
      BY <2>0, <2>4 DEF ResumeEvent, PhasesAgree
    <3>2. CASE Free
      BY <2>0, <2>4, <3>2, AbstractTake DEF ResumeEvent
    <3>3. CASE ~Free
      <4>1. /\ owner # t /\ owner' = owner /\ pc[t] # "queued"
            /\ waiters' = Append(waiters, t) /\ fut' = [fut EXCEPT ![t] = "pending"]
        BY <2>0, <2>4, <3>1, <3>3 DEF ResumeEvent, SoleOwner, Entitled
      <4> QED
        BY <2>0, <4>1, AbstractJoin
    <3> QED
      BY <3>2, <3>3
  <2>5. ASSUME NEW t \in Task, UseLock(t) \/ ResumeReacquire(t)
        PROVE  [Abstract!Next]_(Abstract!vars)
    <3>1. AcquireFast(t) \/ AcquireSlow(t) \/ AcquireNowait(t) \/ Release(t) \/ Resume(t)
      BY <2>5 DEF UseLock, ResumeReacquire, Resume
    <3> QED
      BY <2>0, <3>1, AbstractCall
  <2>6. ASSUME NEW t \in Task, StartWait(t) \/ \E n \in 0..Len(listeners) : Notify(t, n)
        PROVE  UNCHANGED Abstract!vars
    BY <2>1, <2>6 DEF StartWait, Notify, vars, taskVars
  <2>7. CASE UNCHANGED condVars
    BY <2>1, <2>7 DEF condVars, vars, taskVars
  <2> QED
    BY <2>2, <2>3, <2>4, <2>5, <2>6, <2>7 DEF CondNext, WaitStep
<1> QED
  BY <1>1, <1>2, <1>3, PTL DEF CondSpec, FirstComeFirstServed, Abstract!Spec
=============================================================================
