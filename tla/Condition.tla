----------------------------- MODULE Condition -----------------------------
(***************************************************************************)
(* anyio.Condition on top of Lock: a deque of events, one per task that is *)
(* in wait().  wait() gives the lock up, waits for its event, and takes    *)
(* the lock again under a shield, whether the event was set or the wait    *)
(* was cancelled.  Every task uses the lock through the condition, and     *)
(* calls wait() while it holds the lock.                                   *)
(***************************************************************************)
EXTENDS Lock

VARIABLES
  phase,      \* where wait() of each task is
  evfut,      \* the future on which it awaits its event
  isSet,      \* the flag of its event
  listeners,  \* _waiters: the tasks whose events are in the deque
  ownerTask   \* _owner_task of the condition

waitVars == <<phase, evfut, isSet, listeners>>
condVars == <<vars, waitVars, ownerTask>>

CondInit ==
  /\ Init
  /\ phase = [t \in Task |-> "none"]
  /\ evfut = [t \in Task |-> "none"]
  /\ isSet = [t \in Task |-> FALSE]
  /\ listeners = <<>>
  /\ ownerTask = NoTask

-----------------------------------------------------------------------------
\* acquire() of the condition notes the task once acquire() of the lock is over;
\* release() does not forget it.
Noted(t) ==
  ownerTask' = IF pc[t] # "hold" /\ pc'[t] = "hold" THEN t ELSE ownerTask

\* The operations of the lock, called outside of wait()
UseLock(t) ==
  /\ phase[t] = "none"
  /\ \/ AcquireFast(t) \/ AcquireSlow(t) \/ AcquireNowait(t) \/ Release(t)
     \/ Resume(t)
  /\ Noted(t)
  /\ UNCHANGED waitVars

\* wait() up to its checkpoint
StartWait(t) ==
  /\ phase[t] = "none" /\ pc[t] = "hold"
  /\ phase' = [phase EXCEPT ![t] = "checkpoint"]
  /\ UNCHANGED <<vars, evfut, isSet, listeners, ownerTask>>

\* Past the checkpoint, a fresh event is put into the deque before the lock is
\* released; a cancellation in the checkpoint leaves the lock held.
ResumeCheckpoint(t) ==
  /\ phase[t] = "checkpoint"
  /\ \/ /\ mustCancel[t]
        /\ phase' = [phase EXCEPT ![t] = "none"]
        /\ Unwind(t)
        /\ UNCHANGED <<pc, fut, owner, waiters, evfut, isSet, listeners>>
     \/ /\ ~mustCancel[t]
        /\ phase' = [phase EXCEPT ![t] = "event"]
        /\ evfut' = [evfut EXCEPT ![t] = "pending"]
        /\ listeners' = Append(listeners, t)
        /\ Release(t)
        /\ UNCHANGED isSet
  /\ UNCHANGED ownerTask

\* The wait for the event ends, and the lock is acquired again: in the same step
\* if it is free.  A CancelledError goes on after that, inside its scope.
ResumeEvent(t) ==
  /\ phase[t] = "event" /\ evfut[t] # "pending"
  /\ LET raises == mustCancel[t] \/ evfut[t] = "cancelled" IN
     listeners' = IF raises /\ ~isSet[t] THEN RemoveFirst(listeners, t) ELSE listeners
  /\ phase' = [phase EXCEPT ![t] = IF Free /\ FastAcquire THEN "none" ELSE "reacquire"]
  /\ evfut' = [evfut EXCEPT ![t] = "none"]
  /\ mustCancel' = [mustCancel EXCEPT ![t] = FALSE]
  /\ IF Free
     THEN /\ owner' = t
          /\ Move(t, IF FastAcquire THEN "hold" ELSE "yield")
          /\ UNCHANGED <<fut, waiters>>
     ELSE /\ waiters' = Append(waiters, t)
          /\ fut' = [fut EXCEPT ![t] = "pending"]
          /\ Move(t, "queued")
          /\ UNCHANGED owner
  /\ isSet' = [isSet EXCEPT ![t] = FALSE]   \* the event is dropped
  /\ Noted(t)
  /\ UNCHANGED scope

\* The end of the acquire() in the finally clause; only asyncio's own cancel()
\* makes it fail, and wait() ends without the lock.
ResumeReacquire(t) ==
  /\ phase[t] = "reacquire"
  /\ ResumeYield(t) \/ ResumeQueued(t)
  /\ phase' = [phase EXCEPT ![t] = "none"]
  /\ Noted(t)
  /\ UNCHANGED <<evfut, isSet, listeners>>

\* A mutant: the deque loses one event however many are set.
RemainingAfterOne(n) == IF listeners = <<>> THEN listeners ELSE Tail(listeners)

\* What is left in the deque once n events have been taken from its front.
Remaining(n) == SubSeq(listeners, n + 1, Len(listeners))

\* notify(n) for an n up to the length of the deque, where it stops, and notify_all();
\* what is tested is that the task was the last one to acquire.
Notify(t, n) ==
  /\ phase[t] = "none" /\ pc[t] \in {"idle", "hold"} /\ ownerTask = t
  /\ LET hit == {listeners[i] : i \in 1..n} IN
     /\ isSet' = [w \in Task |-> isSet[w] \/ w \in hit]
     /\ evfut' = [w \in Task |-> IF w \in hit /\ evfut[w] = "pending" THEN "set" ELSE evfut[w]]
  /\ listeners' = Remaining(n)
  /\ UNCHANGED <<vars, phase, ownerTask>>

-----------------------------------------------------------------------------
\* A mutant: the finally clause has no shield.
LockExposedAlways(t) == Exposed(t)

\* No shield stands between the scope and what t waits for in the lock.
LockExposed(t) == Exposed(t) /\ phase[t] = "none"

\* A cancellation while the task waits for its event
EventCancel(t) ==
  /\ LET reached == evfut[t] = "pending" /\ ~mustCancel[t]
         hit == evfut' = [evfut EXCEPT ![t] = "cancelled"]
     IN \/ /\ scope[t] = "open"
           /\ scope' = [scope EXCEPT ![t] = "cancelled"]
           /\ IF reached THEN hit ELSE UNCHANGED evfut
           /\ UNCHANGED mustCancel
        \/ /\ scope[t] = "cancelled" /\ reached /\ hit
           /\ UNCHANGED <<scope, mustCancel>>
        \/ /\ t \in Native
           /\ IF evfut[t] = "pending" THEN hit /\ UNCHANGED mustCancel
              ELSE mustCancel' = [mustCancel EXCEPT ![t] = TRUE] /\ UNCHANGED evfut
           /\ UNCHANGED scope
  /\ UNCHANGED <<pc, fut, owner, waiters, phase, isSet, listeners, ownerTask>>

CondCancelling(t) ==
  \/ /\ \/ /\ phase[t] = "checkpoint"
           /\ ScopeCancel(t, TRUE) \/ Redeliver(t, TRUE) \/ NativeCancel(t, TRUE)
        \/ /\ phase[t] \in {"none", "reacquire"}
           /\ \/ ScopeCancel(t, LockExposed(t))
              \/ Redeliver(t, LockExposed(t))
              \/ NativeCancel(t, Suspended(t))
              \/ phase[t] = "none" /\ LeaveScope(t, ~Suspended(t))
     /\ UNCHANGED <<owner, waiters, waitVars, ownerTask>>
  \/ phase[t] = "event" /\ EventCancel(t)

WaitStep(t) ==
  ResumeCheckpoint(t) \/ ResumeEvent(t) \/ ResumeReacquire(t)

CondNext ==
  \E t \in Task :
    \/ UseLock(t) \/ StartWait(t) \/ WaitStep(t) \/ CondCancelling(t)
    \/ \E n \in 0..Len(listeners) : Notify(t, n)

\* The loop steps what is runnable; a holder that may release does so in the
\* end, however often it calls wait() in between.
CondFairness ==
  \A t \in Task :
    /\ WF_condVars(WaitStep(t))
    /\ WF_condVars(phase[t] = "none" /\ Resume(t) /\ Noted(t) /\ UNCHANGED waitVars)
    /\ SF_condVars(phase[t] = "none" /\ Release(t) /\ Noted(t) /\ UNCHANGED waitVars)
    /\ WF_condVars(CondCancelling(t) /\ scope[t] = "cancelled" /\ scope'[t] = "cancelled")

CondSpec == CondInit /\ [][CondNext]_condVars
CondFairSpec == CondSpec /\ CondFairness

-----------------------------------------------------------------------------
\* The deque holds the events that are not set, each once, and of waiting tasks
\* only: a cancelled wait() finds its event to remove, and notify() gives no
\* notification to a wait() that is over.
ListenersAgree ==
  /\ IsInjective(listeners)
  /\ \A t \in Task : Contains(listeners, t) <=> phase[t] = "event" /\ ~isSet[t]

\* However wait() ends, notified or cancelled by a scope, in the event or while
\* it takes the lock again, the task has the lock: what follows in its block may
\* rely on it.  Asyncio's own cancel() alone breaks this.
HoldsOnReturn ==
  [][\A t \in Task \ Native :
       phase[t] # "none" /\ phase'[t] = "none" => owner' = t]_condVars
=============================================================================
