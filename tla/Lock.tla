-------------------------------- MODULE Lock --------------------------------
(***************************************************************************)
(* anyio.Lock of the asyncio backend: an owner and a deque of waiters,     *)
(* each a task and the future it awaits.  A task that calls acquire() with *)
(* `async with` or by itself later calls release(); a call may be          *)
(* cancelled at every point where it is suspended.                         *)
(***************************************************************************)
EXTENDS AsyncioTask, SequencesExt

CONSTANT FastAcquire   \* Lock(fast_acquire=True)

ASSUME FastAcquireAssumption == FastAcquire \in BOOLEAN

VARIABLES
  owner,    \* _owner_task
  waiters   \* _waiters; fut[t] is the future of the entry of t

vars == <<taskVars, owner, waiters>>

\* "idle" and "hold" are user code without and with the lock; "check" is
\* suspended in checkpoint_if_cancelled, "yield" in cancel_shielded_checkpoint,
\* "queued" in `await fut`.
Places == {"idle", "hold", "check", "yield", "queued"}

TypeOK ==
  /\ TaskTypeOK(Places)
  /\ owner \in Task \union {NoTask}
  /\ waiters \in Seq(Task)

Init ==
  /\ TaskInit
  /\ owner = NoTask
  /\ waiters = <<>>

Free == owner = NoTask /\ waiters = <<>>

-----------------------------------------------------------------------------
\* Mutants of HandOver: the entry, not its task, becomes the owner; only the
\* first waiter is looked at.
HandOverEntry(line, f) ==
  \/ line # <<>> /\ owner' = <<Head(line), f[Head(line)]>> /\ fut' = f
  \/ line = <<>> /\ owner' = NoTask /\ fut' = f
HandOverLosesPlace(line, f) ==
  \/ \E i \in DOMAIN line :
       /\ f[line[i]] # "cancelled"
       /\ owner' = line[i]
       /\ fut' = [f EXCEPT ![line[i]] = "result"]
  \/ /\ \A i \in DOMAIN line : f[line[i]] = "cancelled"
     /\ owner' = NoTask
     /\ fut' = f

\* release(), called with `line` for the waiters and f for the futures: the
\* first waiter whose future is not cancelled becomes the owner.
HandOver(line, f) ==
  \/ \E i \in DOMAIN line :
       /\ f[line[i]] # "cancelled"
       /\ \A j \in 1..(i - 1) : f[line[j]] = "cancelled"
       /\ owner' = line[i]
       /\ fut' = [f EXCEPT ![line[i]] = "result"]
  \/ /\ \A i \in DOMAIN line : f[line[i]] = "cancelled"
     /\ owner' = NoTask
     /\ fut' = f

\* acquire() up to its first suspension, or to its end on the fast path.
AcquireFast(t) ==
  /\ pc[t] = "idle" /\ Free
  /\ IF scope[t] = "cancelled"
     THEN Move(t, "check") /\ UNCHANGED owner
     ELSE Move(t, IF FastAcquire THEN "hold" ELSE "yield") /\ owner' = t
  /\ UNCHANGED <<fut, mustCancel, scope, waiters>>

AcquireSlow(t) ==
  /\ pc[t] = "idle" /\ ~Free /\ owner # t
  /\ waiters' = Append(waiters, t)
  /\ fut' = [fut EXCEPT ![t] = "pending"]
  /\ Move(t, "queued")
  /\ UNCHANGED <<mustCancel, scope, owner>>

\* acquire_nowait(); it changes nothing when it raises WouldBlock.
AcquireNowait(t) ==
  /\ pc[t] = "idle" /\ Free
  /\ owner' = t
  /\ Move(t, "hold")
  /\ UNCHANGED <<fut, mustCancel, scope, waiters>>

\* checkpoint_if_cancelled goes round until the cancellation arrives.
ResumeCheck(t) ==
  /\ pc[t] = "check" /\ Raises(t)
  /\ Move(t, "idle") /\ Unwind(t)
  /\ UNCHANGED <<fut, owner, waiters>>

ResumeYield(t) ==
  /\ pc[t] = "yield"
  /\ \/ /\ ~Raises(t)
        /\ Move(t, "hold")
        /\ UNCHANGED <<fut, mustCancel, scope, owner>>
     \/ /\ Raises(t)
        /\ HandOver(waiters, fut)
        /\ Move(t, "idle") /\ Unwind(t)
  /\ UNCHANGED waiters

\* A mutant: the handler forgets that the lock may have been handed to it.
WithdrawSilently(t, line) == UNCHANGED owner /\ fut' = Stepped(t)

\* The handler of CancelledError in acquire(): an ownership that has arrived
\* meanwhile is passed on.
Withdraw(t, line) ==
  IF owner = t THEN HandOver(line, Stepped(t))
  ELSE UNCHANGED owner /\ fut' = Stepped(t)

\* A mutant: the entry of a cancelled waiter stays in the deque.
ResumeQueuedKeepsEntry(t) ==
  /\ pc[t] = "queued" /\ Runnable(t)
  /\ \/ /\ ~Raises(t)
        /\ waiters' = RemoveFirst(waiters, t)
        /\ Move(t, "hold")
        /\ fut' = Stepped(t)
        /\ UNCHANGED <<mustCancel, scope, owner>>
     \/ /\ Raises(t)
        /\ UNCHANGED waiters
        /\ Withdraw(t, waiters)
        /\ Move(t, "idle") /\ Unwind(t)

ResumeQueued(t) ==
  /\ pc[t] = "queued" /\ Runnable(t)
  /\ LET line == RemoveFirst(waiters, t) IN
     /\ waiters' = line
     /\ \/ /\ ~Raises(t)
           /\ Move(t, "hold")
           /\ fut' = Stepped(t)
           /\ UNCHANGED <<mustCancel, scope, owner>>
        \/ /\ Raises(t)
           /\ Withdraw(t, line)
           /\ Move(t, "idle") /\ Unwind(t)

\* release() by the owner; anybody else gets a RuntimeError and changes nothing.
Release(t) ==
  /\ pc[t] = "hold" /\ owner = t
  /\ HandOver(waiters, fut)
  /\ Move(t, "idle")
  /\ UNCHANGED <<mustCancel, scope, waiters>>

-----------------------------------------------------------------------------
Suspended(t) == pc[t] \in {"check", "yield", "queued"}
Exposed(t) == pc[t] \in {"check", "queued"}

Cancelling(t) ==
  /\ \/ ScopeCancel(t, Exposed(t))
     \/ Redeliver(t, Exposed(t))
     \/ NativeCancel(t, Suspended(t))
     \/ LeaveScope(t, ~Suspended(t))
  /\ UNCHANGED <<owner, waiters>>

Resume(t) == ResumeCheck(t) \/ ResumeYield(t) \/ ResumeQueued(t)

Next ==
  \E t \in Task :
    \/ AcquireFast(t) \/ AcquireSlow(t) \/ AcquireNowait(t) \/ Release(t)
    \/ Resume(t) \/ Cancelling(t)

\* The loop steps every runnable task and repeats the delivery of a
\* cancellation; a holder is expected to release in the end.
Fairness ==
  \A t \in Task :
    /\ WF_vars(Resume(t))
    /\ WF_vars(Release(t))
    /\ WF_vars(Redeliver(t, Exposed(t)) /\ UNCHANGED <<owner, waiters>>)

Spec == Init /\ [][Next]_vars
FairSpec == Spec /\ Fairness

-----------------------------------------------------------------------------
\* The tasks that the lock has been given to: they hold it, or will find out
\* at their next step.
Entitled(t) ==
  \/ pc[t] \in {"hold", "yield"}
  \/ pc[t] = "queued" /\ fut[t] = "result"

\* Sole ownership (docs: "sole access to a single task at once"): _owner_task
\* and the tasks' own view agree at all times, also while an ownership is on
\* its way to a waiter, and an acquire() that raised leaves no ownership behind.
SoleOwner == \A t \in Task : Entitled(t) <=> owner = t

\* The deque holds exactly the tasks suspended in `await fut`, each once, so
\* that `_waiters.remove(item)` finds its item and set_result() in release()
\* never meets a future that has a result already.
QueueAgrees ==
  /\ \A t \in Task : Contains(waiters, t) <=> pc[t] = "queued"
  /\ IsInjective(waiters)
  /\ \A t \in Task : fut[t] = "none" <=> pc[t] # "queued"

\* The waiters whose futures are pending, in the order of the deque
Line ==
  {p \in Task \X Task :
     /\ fut[p[1]] = "pending" /\ fut[p[2]] = "pending"
     /\ \E i, j \in DOMAIN waiters : i <= j /\ p = <<waiters[i], waiters[j]>>}

\* release() hands the lock on in the order of arrival, skips waiters that are
\* cancelled, and no acquire() or acquire_nowait() passes a live waiter.
Abstract == INSTANCE AbstractLock WITH holder <- owner, line <- Line
FirstComeFirstServed == Abstract!Spec

\* A waiter is served or cancelled in the end, unless the lock is free and it
\* still waits, which NoStrandedWaiter is about.
WaiterServed ==
  \A t \in Task : pc[t] = "queued" ~> (pc[t] # "queued" \/ owner = NoTask)

\* Nobody waits for a lock that is not held.
NoStrandedWaiter ==
  owner = NoTask => \A t \in Task : fut[t] # "pending"
=============================================================================
