----------------------------- MODULE Semaphore -----------------------------
(***************************************************************************)
(* anyio.Semaphore of the asyncio backend: a counter and a deque of        *)
(* futures.  A release() gives its token straight to the first live waiter *)
(* and takes the waiter's future out of the deque; the waiter learns of it *)
(* at its next step, and may be cancelled before that.                     *)
(***************************************************************************)
EXTENDS AsyncioTask, SequencesExt

CONSTANTS
  InitialValue,
  MaxValue,      \* max_value; NoTask stands for None
  FastAcquire,   \* Semaphore(fast_acquire=True)
  MaxIssued      \* bound: the tokens in circulation

ASSUME SemaphoreAssumption ==
  /\ InitialValue \in Nat /\ MaxIssued \in Nat /\ FastAcquire \in BOOLEAN
  /\ MaxValue = NoTask \/ (MaxValue \in Nat /\ MaxValue >= InitialValue)

VARIABLES
  value,     \* _value
  waiters,   \* _waiters; fut[t] is the future of t
  issued     \* history: the tokens in circulation, held ones included

vars == <<taskVars, value, waiters, issued>>

\* "hold" is user code with a token; the other places are those of Lock.
Places == {"idle", "hold", "check", "yield", "queued"}

TypeOK ==
  /\ TaskTypeOK(Places)
  /\ value \in Nat /\ issued \in Nat
  /\ waiters \in Seq(Task)

Init ==
  /\ TaskInit
  /\ value = InitialValue
  /\ waiters = <<>>
  /\ issued = InitialValue

-----------------------------------------------------------------------------
AtMax == MaxValue # NoTask /\ value = MaxValue

\* Mutants of Pass: it serves the last waiter; it leaves the future of the one
\* it serves in the deque.
PassToLast(f) ==
  IF \E i \in DOMAIN waiters : f[waiters[i]] # "cancelled"
  THEN \E i \in DOMAIN waiters :
         /\ f[waiters[i]] # "cancelled"
         /\ \A j \in (i + 1)..Len(waiters) : f[waiters[j]] = "cancelled"
         /\ fut' = [f EXCEPT ![waiters[i]] = "result"]
         /\ waiters' = RemoveAt(waiters, i)
         /\ UNCHANGED value
  ELSE value' = value + 1 /\ fut' = f /\ UNCHANGED waiters
PassKeepsEntry(f) ==
  IF \E i \in DOMAIN waiters : f[waiters[i]] # "cancelled"
  THEN \E i \in DOMAIN waiters :
         /\ f[waiters[i]] # "cancelled"
         /\ \A j \in 1..(i - 1) : f[waiters[j]] = "cancelled"
         /\ fut' = [f EXCEPT ![waiters[i]] = "result"]
         /\ UNCHANGED <<value, waiters>>
  ELSE value' = value + 1 /\ fut' = f /\ UNCHANGED waiters

\* release() below max_value, with f for the futures.
Pass(f) ==
  IF \E i \in DOMAIN waiters : f[waiters[i]] # "cancelled"
  THEN \E i \in DOMAIN waiters :
         /\ f[waiters[i]] # "cancelled"
         /\ \A j \in 1..(i - 1) : f[waiters[j]] = "cancelled"
         /\ fut' = [f EXCEPT ![waiters[i]] = "result"]
         /\ waiters' = RemoveAt(waiters, i)
         /\ UNCHANGED value
  ELSE value' = value + 1 /\ fut' = f /\ UNCHANGED waiters

\* release() by a task that has a token: at max_value it raises ValueError and
\* the token leaves circulation.
GiveBack(f) ==
  \/ ~AtMax /\ Pass(f) /\ UNCHANGED issued
  \/ AtMax /\ issued' = issued - 1 /\ fut' = f /\ UNCHANGED <<value, waiters>>

\* acquire() up to its first suspension, or to its end on the fast path.
AcquireFast(t) ==
  /\ pc[t] = "idle" /\ value > 0 /\ waiters = <<>>
  /\ IF scope[t] = "cancelled"
     THEN Move(t, "check") /\ UNCHANGED value
     ELSE Move(t, IF FastAcquire THEN "hold" ELSE "yield") /\ value' = value - 1
  /\ UNCHANGED <<fut, mustCancel, scope, waiters, issued>>

AcquireSlow(t) ==
  /\ pc[t] = "idle" /\ ~(value > 0 /\ waiters = <<>>)
  /\ waiters' = Append(waiters, t)
  /\ fut' = [fut EXCEPT ![t] = "pending"]
  /\ Move(t, "queued")
  /\ UNCHANGED <<mustCancel, scope, value, issued>>

\* A mutant: the counter is not looked at.
AcquireUnchecked(t) ==
  /\ pc[t] = "idle"
  /\ value' = value - 1
  /\ Move(t, "hold")
  /\ UNCHANGED <<fut, mustCancel, scope, waiters, issued>>

\* acquire_nowait() looks at the counter only.
AcquireNowait(t) ==
  /\ pc[t] = "idle" /\ value # 0
  /\ value' = value - 1
  /\ Move(t, "hold")
  /\ UNCHANGED <<fut, mustCancel, scope, waiters, issued>>

ResumeCheck(t) ==
  /\ pc[t] = "check" /\ Raises(t)
  /\ Move(t, "idle") /\ Unwind(t)
  /\ UNCHANGED <<fut, value, waiters, issued>>

ResumeYield(t) ==
  /\ pc[t] = "yield"
  /\ \/ /\ ~Raises(t)
        /\ Move(t, "hold")
        /\ UNCHANGED <<fut, mustCancel, scope, value, waiters, issued>>
     \/ /\ Raises(t)
        /\ GiveBack(fut)
        /\ Move(t, "idle") /\ Unwind(t)

\* A mutant: a waiter that is cancelled after it got its token keeps quiet.
WithdrawSilently(t) ==
  /\ waiters' = RemoveFirst(waiters, t)
  /\ fut' = Stepped(t)
  /\ UNCHANGED <<value, issued>>

\* The handler of CancelledError: a future that is no longer in the deque has
\* been given a token, which goes back.
Withdraw(t) ==
  IF Contains(waiters, t)
  THEN /\ waiters' = RemoveFirst(waiters, t)
       /\ fut' = Stepped(t)
       /\ UNCHANGED <<value, issued>>
  ELSE GiveBack(Stepped(t))

ResumeQueued(t) ==
  /\ pc[t] = "queued" /\ Runnable(t)
  /\ \/ /\ ~Raises(t)
        /\ Move(t, "hold")
        /\ fut' = Stepped(t)
        /\ UNCHANGED <<mustCancel, scope, value, waiters, issued>>
     \/ /\ Raises(t)
        /\ Withdraw(t)
        /\ Move(t, "idle") /\ Unwind(t)

Release(t) ==
  /\ pc[t] = "hold"
  /\ GiveBack(fut)
  /\ Move(t, "idle")
  /\ UNCHANGED <<mustCancel, scope>>

\* release() by a task without a token puts a new one in circulation; at
\* max_value it raises and changes nothing.
Issue(t) ==
  /\ pc[t] = "idle" /\ ~AtMax /\ issued < MaxIssued
  /\ Pass(fut)
  /\ issued' = issued + 1
  /\ UNCHANGED <<pc, mustCancel, scope>>

-----------------------------------------------------------------------------
Suspended(t) == pc[t] \in {"check", "yield", "queued"}
Exposed(t) == pc[t] \in {"check", "queued"}

Cancelling(t) ==
  /\ \/ ScopeCancel(t, Exposed(t))
     \/ Redeliver(t, Exposed(t))
     \/ NativeCancel(t, Suspended(t))
     \/ LeaveScope(t, ~Suspended(t))
  /\ UNCHANGED <<value, waiters, issued>>

Resume(t) == ResumeCheck(t) \/ ResumeYield(t) \/ ResumeQueued(t)

Next ==
  \E t \in Task :
    \/ AcquireFast(t) \/ AcquireSlow(t) \/ AcquireNowait(t)
    \/ Release(t) \/ Issue(t)
    \/ Resume(t) \/ Cancelling(t)

\* The loop steps every runnable task and repeats the delivery of a
\* cancellation; a task with a token is expected to release in the end.
Fairness ==
  \A t \in Task :
    /\ WF_vars(Resume(t))
    /\ WF_vars(Release(t))
    /\ WF_vars(Redeliver(t, Exposed(t)) /\ UNCHANGED <<value, waiters, issued>>)

Spec == Init /\ [][Next]_vars
FairSpec == Spec /\ Fairness

-----------------------------------------------------------------------------
\* A token belongs to a task that holds it, or that waits and was given it.
Holders ==
  {t \in Task : \/ pc[t] \in {"hold", "yield"}
                \/ pc[t] = "queued" /\ fut[t] = "result"}

\* No token is lost or made up: the counter and the tokens of the tasks add up
\* to those in circulation, also while one is on its way to a waiter that is
\* being cancelled.
Conservation == value + Cardinality(Holders) = issued

\* The deque holds the futures of the waiters that were given nothing, each
\* once: "not in the deque" in the handler of CancelledError means "was given a
\* token", and set_result() in release() meets no future that is done.
QueueAgrees ==
  /\ \A t \in Task :
       Contains(waiters, t) <=> pc[t] = "queued" /\ fut[t] \in {"pending", "cancelled"}
  /\ IsInjective(waiters)
  /\ \A t \in Task : fut[t] = "none" <=> pc[t] # "queued"

\* release() serves the waiter that has waited longest of those not cancelled.
ServedInOrder ==
  [][\A i, j \in DOMAIN waiters :
       i < j /\ fut[waiters[i]] = "pending" /\ fut[waiters[j]] = "pending"
       => fut'[waiters[j]] # "result"]_vars

\* A waiter is served or cancelled in the end, unless the semaphore has tokens
\* and it still waits (the state NoStrandedWaiter of Lock is about).
WaiterServed ==
  \A t \in Task : pc[t] = "queued" ~> (pc[t] # "queued" \/ value > 0)
=============================================================================
