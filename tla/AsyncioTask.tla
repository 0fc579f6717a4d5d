---------------------------- MODULE AsyncioTask ----------------------------
(***************************************************************************)
(* The asyncio task and future, as the asyncio backend of AnyIO relies on  *)
(* them, and the part of a cancel scope that a primitive sees.             *)
(*                                                                         *)
(* One task runs at a time, from one suspension to the next: an action of  *)
(* a component is one such stretch.  A task that is suspended waits on one *)
(* future, or on none when it yielded with sleep(0).  The event loop runs  *)
(* the runnable tasks in some order; the order is left open.               *)
(***************************************************************************)
EXTENDS Naturals, Sequences

CONSTANTS
  Task,     \* the tasks that use the component
  NoTask,   \* None, where the code keeps a task or None
  Native    \* the tasks on which something calls asyncio's own Task.cancel()

ASSUME TaskAssumption == NoTask \notin Task /\ Native \subseteq Task

VARIABLES
  pc,          \* where each task is: in user code, or suspended in an operation
  fut,         \* task._fut_waiter: "none", or the state of the future it awaits
  mustCancel,  \* task._must_cancel: the next step throws CancelledError
  scope        \* "cancelled" when a scope around the current call is cancelled

taskVars == <<pc, fut, mustCancel, scope>>

FutureState == {"none", "pending", "result", "cancelled"}

TaskTypeOK(Places) ==
  /\ pc \in [Task -> Places]
  /\ fut \in [Task -> FutureState]
  /\ mustCancel \in [Task -> BOOLEAN]
  /\ scope \in [Task -> {"open", "cancelled"}]

TaskInit ==
  /\ pc = [t \in Task |-> "idle"]
  /\ fut = [t \in Task |-> "none"]
  /\ mustCancel = [t \in Task |-> FALSE]
  /\ scope = [t \in Task |-> "open"]

Move(t, place) == pc' = [pc EXCEPT ![t] = place]

\* The loop steps a task whose future is done, or that yielded bare.
Runnable(t) == fut[t] # "pending"

\* The step throws CancelledError into the coroutine instead of resuming it.
Raises(t) == mustCancel[t] \/ fut[t] = "cancelled"

\* The futures once t has been stepped: it waits on nothing.
Stepped(t) == [fut EXCEPT ![t] = "none"]

\* Task.cancel(): cancel the awaited future, or, when that is done already or
\* there is none, have the next step throw.
TaskCancel(t) ==
  \/ /\ fut[t] = "pending"
     /\ fut' = [fut EXCEPT ![t] = "cancelled"]
     /\ UNCHANGED mustCancel
  \/ /\ fut[t] # "pending"
     /\ mustCancel' = [mustCancel EXCEPT ![t] = TRUE]
     /\ UNCHANGED fut

\* The step consumes _must_cancel; the call ends and raises, and the exception
\* leaves the cancelled scope, so the task's next call is in a fresh one.
Unwind(t) ==
  /\ mustCancel' = [mustCancel EXCEPT ![t] = FALSE]
  /\ scope' = [scope EXCEPT ![t] = "open"]

\* A task in user code leaves the block of a cancelled scope without a raise.
LeaveScope(t, inUserCode) ==
  /\ scope[t] = "cancelled" /\ inUserCode
  /\ scope' = [scope EXCEPT ![t] = "open"]
  /\ UNCHANGED <<pc, fut, mustCancel>>

-----------------------------------------------------------------------------
(* Cancellation of a suspended call.  `exposed` says that t is suspended in  *)
(* the component with no shield between it and the scope.                    *)

\* CancelScope._deliver_cancellation passes over a task that is to be cancelled
\* already, or whose future is done: it gets its result.
Deliverable(t) == ~mustCancel[t] /\ fut[t] \in {"none", "pending"}

\* Another task calls cancel() on a scope around t; delivery starts at once.
ScopeCancel(t, exposed) ==
  /\ scope[t] = "open"
  /\ scope' = [scope EXCEPT ![t] = "cancelled"]
  /\ IF exposed /\ Deliverable(t)
     THEN TaskCancel(t)
     ELSE UNCHANGED <<fut, mustCancel>>
  /\ UNCHANGED pc

\* The callback that _deliver_cancellation reschedules on every loop cycle.
Redeliver(t, exposed) ==
  /\ scope[t] = "cancelled" /\ exposed /\ Deliverable(t)
  /\ TaskCancel(t)
  /\ UNCHANGED <<pc, scope>>

\* asyncio's own cancel(), which no shield stops.
NativeCancel(t, suspended) ==
  /\ t \in Native /\ suspended
  /\ TaskCancel(t)
  /\ UNCHANGED <<pc, scope>>
=============================================================================
