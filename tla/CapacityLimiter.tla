-------------------------- MODULE CapacityLimiter --------------------------
(***************************************************************************)
(* anyio.CapacityLimiter of the asyncio backend: a set of borrowers, a     *)
(* total that may be changed at any time, and an ordered dict of waiting   *)
(* borrowers with an Event each.  A release takes an entry out of the      *)
(* queue and sets its Event; the waiter adds its borrower to the set only  *)
(* when it is stepped.                                                     *)
(***************************************************************************)
EXTENDS AsyncioTask, SequencesExt

CONSTANTS
  Borrower,     \* the objects tokens are borrowed for
  BorrowerOf,   \* the borrower each task acquires for: itself with acquire()
  Totals        \* the values total_tokens is given; the least one is the first

ASSUME LimiterAssumption ==
  /\ Task \subseteq Borrower /\ BorrowerOf \in [Task -> Borrower]
  /\ Totals \subseteq Nat \ {0} /\ Totals # {}

VARIABLES
  borrowers,   \* _borrowers
  queue,       \* _wait_queue: <<borrower, task>>, where the task awaits the Event
  total,       \* _total_tokens
  wasted       \* history: an Event was set that no live waiter made use of

limiterVars == <<borrowers, queue, total, wasted>>
vars == <<taskVars, limiterVars>>

\* "check" is suspended in checkpoint_if_cancelled, "wait" in event.wait(),
\* "yield" in cancel_shielded_checkpoint; "hold" is user code with a token.
Places == {"idle", "hold", "check", "yield", "wait"}

TypeOK ==
  /\ TaskTypeOK(Places)
  /\ borrowers \subseteq Borrower
  /\ queue \in Seq(Borrower \X Task)
  /\ total \in Totals /\ wasted \in BOOLEAN

Init ==
  /\ TaskInit
  /\ borrowers = {} /\ queue = <<>>
  /\ total = Min(Totals) /\ wasted = FALSE

-----------------------------------------------------------------------------
\* The first n entries of the queue leave it and their Events are set; f are
\* the futures before.
Notify(n, f) ==
  LET notified == {queue[i][2] : i \in 1..n} IN
  /\ fut' = [t \in Task |->
               IF t \in notified /\ f[t] = "pending" THEN "result" ELSE f[t]]
  /\ queue' = SubSeq(queue, n + 1, Len(queue))
  /\ wasted' = (wasted \/ \E t \in notified : f[t] # "pending")

\* A mutant: popitem() without last=False serves the latest waiter.
ReturnToLast(b, f) ==
  /\ borrowers' = borrowers \ {b}
  /\ IF queue # <<>> /\ Cardinality(borrowers') < total
     THEN /\ fut' = [f EXCEPT ![Last(queue)[2]] = IF @ = "pending" THEN "result" ELSE @]
          /\ queue' = Front(queue)
          /\ wasted' = (wasted \/ f[Last(queue)[2]] # "pending")
     ELSE fut' = f /\ UNCHANGED <<queue, wasted>>

\* A mutant: the capacity is compared before the borrower is removed.
ReturnComparedEarly(b, f) ==
  /\ borrowers' = borrowers \ {b}
  /\ IF queue # <<>> /\ Cardinality(borrowers) < total
     THEN Notify(1, f)
     ELSE fut' = f /\ UNCHANGED <<queue, wasted>>

\* release_on_behalf_of(b), for a b that has a token; it raises otherwise.
Return(b, f) ==
  /\ borrowers' = borrowers \ {b}
  /\ IF queue # <<>> /\ Cardinality(borrowers') < total
     THEN Notify(1, f)
     ELSE fut' = f /\ UNCHANGED <<queue, wasted>>

ReturnIfHeld(b, f) ==
  \/ b \in borrowers /\ Return(b, f)
  \/ b \notin borrowers /\ fut' = f /\ UNCHANGED <<borrowers, queue, wasted>>

\* acquire_on_behalf_of_nowait() has a token to give.
Available == queue = <<>> /\ Cardinality(borrowers) < total

\* A mutant: the queue is keyed by the waiter.
EnqueueByTask(b, t) == Append(queue, <<t, b>>)

\* `_wait_queue[borrower] = event`: a second wait for the same borrower takes
\* over the place of the first.
Enqueue(b, t) ==
  IF \E i \in DOMAIN queue : queue[i][1] = b
  THEN [i \in DOMAIN queue |-> IF queue[i][1] = b THEN <<b, t>> ELSE queue[i]]
  ELSE Append(queue, <<b, t>>)

\* A mutant: the entry stays.
WithoutNobody(b) == queue

\* `_wait_queue.pop(borrower, None)`
Without(b) == RemoveFirstMatch(queue, LAMBDA e : e[1] = b)

\* acquire_on_behalf_of() up to its first suspension; for a borrower that has a
\* token it raises.
Acquire(t) ==
  /\ pc[t] = "idle"
  /\ \/ /\ scope[t] = "cancelled"
        /\ Move(t, "check")
        /\ UNCHANGED <<fut, borrowers, queue>>
     \/ /\ scope[t] = "open" /\ BorrowerOf[t] \notin borrowers /\ Available
        /\ borrowers' = borrowers \union {BorrowerOf[t]}
        /\ Move(t, "yield")
        /\ UNCHANGED <<fut, queue>>
     \/ /\ scope[t] = "open" /\ BorrowerOf[t] \notin borrowers /\ ~Available
        /\ queue' = Enqueue(BorrowerOf[t], t)
        /\ fut' = [fut EXCEPT ![t] = "pending"]
        /\ Move(t, "wait")
        /\ UNCHANGED borrowers
  /\ UNCHANGED <<mustCancel, scope, total, wasted>>

AcquireNowait(t) ==
  /\ pc[t] = "idle" /\ BorrowerOf[t] \notin borrowers /\ Available
  /\ borrowers' = borrowers \union {BorrowerOf[t]}
  /\ Move(t, "hold")
  /\ UNCHANGED <<fut, mustCancel, scope, queue, total, wasted>>

ResumeCheck(t) ==
  /\ pc[t] = "check" /\ Raises(t)
  /\ Move(t, "idle") /\ Unwind(t)
  /\ UNCHANGED <<fut, limiterVars>>

\* The handler calls release(), for the current task and not for the borrower.
ResumeYield(t) ==
  /\ pc[t] = "yield"
  /\ \/ /\ ~Raises(t)
        /\ Move(t, "hold")
        /\ UNCHANGED <<fut, mustCancel, scope, borrowers, queue, wasted>>
     \/ /\ Raises(t)
        /\ ReturnIfHeld(t, fut)
        /\ Move(t, "idle") /\ Unwind(t)
  /\ UNCHANGED total

\* A mutant: the borrower is entered before `await event.wait()`'s outcome is known.
ResumeWaitBorrowsFirst(t) ==
  /\ pc[t] = "wait" /\ Runnable(t)
  /\ fut' = Stepped(t)
  /\ borrowers' = borrowers \union {BorrowerOf[t]}
  /\ \/ /\ ~Raises(t)
        /\ Move(t, "hold")
        /\ UNCHANGED <<mustCancel, scope, queue, wasted>>
     \/ /\ Raises(t)
        /\ queue' = Without(BorrowerOf[t])
        /\ wasted' = (wasted \/ fut[t] = "result")
        /\ Move(t, "idle") /\ Unwind(t)
  /\ UNCHANGED total

\* A waiter that was notified takes its token whatever has been given out since;
\* one that raises takes its entry, if it still has one, out of the queue.
ResumeWait(t) ==
  /\ pc[t] = "wait" /\ Runnable(t)
  /\ fut' = Stepped(t)
  /\ \/ /\ ~Raises(t)
        /\ borrowers' = borrowers \union {BorrowerOf[t]}
        /\ Move(t, "hold")
        /\ UNCHANGED <<mustCancel, scope, queue, wasted>>
     \/ /\ Raises(t)
        /\ queue' = Without(BorrowerOf[t])
        /\ wasted' = (wasted \/ fut[t] = "result")
        /\ Move(t, "idle") /\ Unwind(t)
        /\ UNCHANGED borrowers
  /\ UNCHANGED total

Release(t) ==
  /\ pc[t] = "hold"
  /\ ReturnIfHeld(BorrowerOf[t], fut)
  /\ Move(t, "idle")
  /\ UNCHANGED <<mustCancel, scope, total>>

\* The setter of total_tokens notifies as many waiters as tokens were added,
\* whether or not the limiter was overdrawn.
SetTotal ==
  \E n \in Totals \ {total} :
    /\ total' = n
    /\ Notify(IF n > total THEN Min({n - total, Len(queue)}) ELSE 0, fut)
    /\ UNCHANGED <<pc, mustCancel, scope, borrowers>>

-----------------------------------------------------------------------------
Suspended(t) == pc[t] \in {"check", "yield", "wait"}
Exposed(t) == pc[t] \in {"check", "wait"}

Cancelling(t) ==
  /\ \/ ScopeCancel(t, Exposed(t))
     \/ Redeliver(t, Exposed(t))
     \/ NativeCancel(t, Suspended(t))
     \/ LeaveScope(t, ~Suspended(t))
  /\ UNCHANGED limiterVars

Resume(t) == ResumeCheck(t) \/ ResumeYield(t) \/ ResumeWait(t)

Next ==
  \/ SetTotal
  \/ \E t \in Task : \/ Acquire(t) \/ AcquireNowait(t) \/ Release(t)
                     \/ Resume(t) \/ Cancelling(t)

\* The loop steps every runnable task and repeats the delivery of a
\* cancellation; a task with a token is expected to release in the end.
Fairness ==
  \A t \in Task :
    /\ WF_vars(Resume(t))
    /\ WF_vars(Release(t))
    /\ WF_vars(Redeliver(t, Exposed(t)) /\ UNCHANGED limiterVars)

Spec == Init /\ [][Next]_vars
FairSpec == Spec /\ Fairness

-----------------------------------------------------------------------------
Holds(t) == pc[t] \in {"hold", "yield"}

\* A task has a token for exactly as long as it is inside `async with limiter`,
\* wherever acquire() was cancelled: none is left behind by a call that raised,
\* and none is taken from a task by another's release.
TokensHeld == borrowers = {BorrowerOf[t] : t \in {u \in Task : Holds(u)}}

\* The queue holds one entry for each waiter that was not notified.
QueueAgrees ==
  /\ IsInjective(queue)
  /\ \A t \in Task :
       Contains(queue, <<BorrowerOf[t], t>>) => pc[t] = "wait" /\ fut[t] # "result"
  /\ \A t \in Task : fut[t] = "pending" => Contains(queue, <<BorrowerOf[t], t>>)

\* A token is free, a borrower queues for one, and nobody is on the way to it.
TokenLost ==
  /\ queue # <<>> /\ Cardinality(borrowers) < total
  /\ \A t \in Task : ~(pc[t] = "wait" /\ fut[t] = "result")

\* Capacity goes unused while borrowers queue only after a notification went to
\* a waiter that was being cancelled.
TokenLostToCancelledWaiter == TokenLost => wasted

\* A waiter gets its token or is cancelled in the end, unless a notification
\* was wasted before.
WaiterServed ==
  \A t \in Task : pc[t] = "wait" ~> (pc[t] # "wait" \/ wasted)

\* ":ivar float total_tokens: total number of available tokens": with a total
\* that is never changed, no more borrowers than tokens.
WithinTotal == Cardinality(borrowers) <= total
=============================================================================
