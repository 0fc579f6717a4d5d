---------------------------- MODULE CancelScope ----------------------------
(***************************************************************************)
(* Cancel scopes of the asyncio backend.  A scope is entered and exited by *)
(* its host task; scopes nest; a cancelled scope cancels the tasks in it   *)
(* and in the scopes below it, as far as no shield and no cancelled scope  *)
(* is in between, and repeats that on every loop cycle.  Cancellation uses *)
(* asyncio's edge-triggered Task.cancel(), whose requests it takes back on *)
(* exit.                                                                   *)
(*                                                                         *)
(* The loop steps one task at a time.  `current` is the task being stepped *)
(* and makes any number of the calls below before it suspends; callbacks,  *)
(* timers and the code of other tasks act while it is NoTask.              *)
(***************************************************************************)
EXTENDS Naturals, FiniteSetsExt

CONSTANTS
  Task, NoTask,
  Scope, NoScope,
  MaxCancels,   \* bound: a task with so many cancellation requests awaits no more
  Native,       \* the tasks on which something calls asyncio's own Task.cancel()
  MaxNative     \* bound: how often per task

ASSUME ScopeAssumption ==
  /\ NoTask \notin Task /\ NoScope \notin Scope
  /\ MaxCancels \in Nat /\ Native \subseteq Task /\ MaxNative \in Nat

VARIABLES
  current,   \* current_task()
  task,      \* the state of each task
  scope      \* the state of each CancelScope

vars == <<current, task, scope>>

Kind == {"anyio", "native"}   \* is_anyio_cancellation() tells them apart

\* "chained": a native cancellation with one by a scope in its __context__, which
\* was raised while the task handled that one.
Cancellation == Kind \union {"chained"}

TaskState == [
  place : {"new", "started", "done"},     \* _task_started: "started"
  cur : Scope \union {NoScope},           \* _task_states[task].cancel_scope
  fut : {"none", "pending", "result"} \union Kind,   \* _fut_waiter
  must : {"no"} \union Kind,              \* _must_cancel, and with which message
  exc : {"none", "error"} \union Cancellation,   \* the exception that unwinds the task
  cancelling : Nat,                       \* Task.cancelling()
  natives : Nat ]                         \* history: how many were native

ScopeState == [
  parent : Scope \union {NoScope},   \* _parent_scope
  host : Task \union {NoTask},       \* _host_task
  active : BOOLEAN, used : BOOLEAN,  \* _active; used: has been active
  called : BOOLEAN, shield : BOOLEAN,
  handle : BOOLEAN,                  \* _cancel_handle is not None
  calls : Nat, before : Nat ]        \* _cancel_calls, _cancelling

NewTask == [place |-> "new", cur |-> NoScope, fut |-> "none", must |-> "no",
            exc |-> "none", cancelling |-> 0, natives |-> 0]
NewScope == [parent |-> NoScope, host |-> NoTask, active |-> FALSE, used |-> FALSE,
             called |-> FALSE, shield |-> FALSE, handle |-> FALSE,
             calls |-> 0, before |-> 0]

TypeOK ==
  /\ current \in Task \union {NoTask}
  /\ task \in [Task -> TaskState]
  /\ scope \in [Scope -> ScopeState]

-----------------------------------------------------------------------------
(* The methods, as functions from a state to a state; `me` is the current    *)
(* task.  The tasks in a scope are those whose `cur` it is, and its child    *)
(* scopes are the active ones whose parent it is.                            *)

State == [task |-> task, scope |-> scope]
Becomes(st) == task' = st.task /\ scope' = st.scope

\* The walk up from s to the closest cancelled scope that no shield hides.
Nearest(sc, s) ==
  LET near[x \in Scope \union {NoScope}] ==
        IF x = NoScope \/ sc[x].called THEN x
        ELSE IF sc[x].shield THEN NoScope
        ELSE near[sc[x].parent]
  IN near[s]

EffectivelyCancelled(sc, s) == Nearest(sc, s) # NoScope

ParentCancellationVisible(sc, s) ==
  ~sc[s].shield /\ EffectivelyCancelled(sc, sc[s].parent)

\* A mutant: the walk down looks through a shield.
VisitedThroughShields(sc, o) ==
  LET below[x \in Scope \union {NoScope}] ==
        x = o \/ /\ x # NoScope
                 /\ sc[x].active /\ ~sc[x].called
                 /\ below[sc[x].parent]
  IN {x \in Scope : below[x]}

\* The scopes that a delivery by scope o visits on its way down.
Visited(sc, o) ==
  LET below[x \in Scope \union {NoScope}] ==
        x = o \/ /\ x # NoScope
                 /\ sc[x].active /\ ~sc[x].shield /\ ~sc[x].called
                 /\ below[sc[x].parent]
  IN {x \in Scope : below[x]}

\* Task.cancel(): cancel the awaited future, or else throw at the next step.
CancelTask(r, kind) ==
  [r EXCEPT !.cancelling = @ + 1,
            !.fut = IF @ = "pending" THEN kind ELSE @,
            !.must = IF r.fut = "pending" THEN @ ELSE kind]

\* A mutant: the delivery is not repeated when it cancelled somebody.
DeliverOnce(st, o, me) ==
  LET inside == {t \in Task : st.task[t].cur \in Visited(st.scope, o)}
      hit == {t \in inside \ {me} :
                /\ st.task[t].place = "started" /\ st.task[t].must = "no"
                /\ st.task[t].fut \in {"none", "pending"}}
  IN [task |-> [t \in Task |-> IF t \in hit THEN CancelTask(st.task[t], "anyio")
                               ELSE st.task[t]],
      scope |-> [st.scope EXCEPT
                   ![o].handle = (inside # {} /\ hit = {}),
                   ![o].calls = @ + (IF st.scope[o].host \in hit THEN 1 ELSE 0)]]

\* _deliver_cancellation(origin = o): it skips the current task, tasks that have
\* not started or have ended, and tasks that are to be stepped with a result;
\* it comes back on the next cycle as long as it sees a task at all.
Deliver(st, o, me) ==
  LET inside == {t \in Task : st.task[t].cur \in Visited(st.scope, o)}
      hit == {t \in inside \ {me} :
                /\ st.task[t].place = "started" /\ st.task[t].must = "no"
                /\ st.task[t].fut \in {"none", "pending"}}
  IN [task |-> [t \in Task |-> IF t \in hit THEN CancelTask(st.task[t], "anyio")
                               ELSE st.task[t]],
      scope |-> [st.scope EXCEPT
                   ![o].handle = (inside # {}),
                   ![o].calls = @ + (IF st.scope[o].host \in hit THEN 1 ELSE 0)]]

\* A mutant: nothing is restarted.
NoRestart(st, s, me) == st

RestartInParent(st, s, me) ==
  LET c == Nearest(st.scope, st.scope[s].parent) IN
  IF c # NoScope /\ ~st.scope[c].handle THEN Deliver(st, c, me) ELSE st

\* cancel()
Cancel(st, s, me) ==
  LET n == [st EXCEPT !.scope[s].called = TRUE] IN
  IF st.scope[s].called THEN st
  ELSE IF st.scope[s].host # NoTask THEN Deliver(n, s, me)
  ELSE n

\* The setter of shield
SetShield(st, s, value, me) ==
  LET n == [st EXCEPT !.scope[s].shield = value] IN
  IF st.scope[s].shield /\ ~value THEN RestartInParent(n, s, me) ELSE n

\* __enter__ by task t
Enter(st, s, t, shield) ==
  LET r == st.task[t]
      n == [task |-> [st.task EXCEPT ![t].cur = s],
            scope |-> [st.scope EXCEPT
                         ![s] = [@ EXCEPT !.parent = r.cur, !.host = t,
                                          !.active = TRUE, !.used = TRUE,
                                          !.shield = shield, !.before = r.cancelling]]]
  IN IF n.scope[s].called THEN Deliver(n, s, t) ELSE n

\* Mutants: no requests are taken back; requests of others are, too.
UncancelNothing(calls, over) == 0
UncancelAll(calls, over) == over

\* How many of `calls` requests __exit__ takes back from a host that has `over`
\* more of them than on entry: at least one, and none below the entry's count.
Uncancelled(calls, over) ==
  IF calls = 0 THEN 0 ELSE Min({calls, Max({1, over})})

\* A mutant: a shield keeps the cancellation of its own scope out as well.
SwallowsUnshielded(sc, s, exc) ==
  /\ sc[s].called /\ exc \in {"anyio", "chained"}
  /\ ~sc[s].shield /\ ~ParentCancellationVisible(sc, s)

\* The cancellation ends at s: s was cancelled, and no cancelled scope further
\* out is visible from it.  _uncancel() looks for the one by a scope along
\* __context__ too, and so ends a native one that was raised on top of it.
Swallows(sc, s, exc) ==
  sc[s].called /\ exc \in {"anyio", "chained"} /\ ~ParentCancellationVisible(sc, s)

\* __exit__ by the host with r.exc for the exception that leaves the block
Exit(st, s) ==
  LET v == st.scope[s]
      t == v.host
      r == st.task[t]
      over == IF r.cancelling > v.before THEN r.cancelling - v.before ELSE 0
      back == Uncancelled(v.calls, over)
      ends == Swallows(st.scope, s, r.exc)
      n == [task |-> [st.task EXCEPT ![t] =
                        [r EXCEPT !.cur = v.parent,
                                  !.cancelling = IF @ > back THEN @ - back ELSE 0,
                                  !.exc = IF ends THEN "none" ELSE @]],
            scope |-> [st.scope EXCEPT ![s] =
                        [v EXCEPT !.active = FALSE, !.host = NoTask,
                                  !.calls = @ - back, !.before = 0]]]
  IN RestartInParent(n, s, t)

-----------------------------------------------------------------------------
\* Some tasks run from the start; the others are started by components that
\* build on this one.
InitWith(roots) ==
  /\ current = NoTask
  /\ task = [t \in Task |-> IF t \in roots THEN [NewTask EXCEPT !.place = "started"]
                            ELSE NewTask]
  /\ scope = [s \in Scope |-> NewScope]

Init == InitWith(Task)

Running(t) == current = t
Suspended(t) == current # t /\ task[t].place = "started"

\* The exception of kind `kind` raised where `handled` is being handled: the latter
\* becomes its __context__.
Thrown(handled, kind) ==
  IF kind = "native" /\ handled \in {"anyio", "chained"} THEN "chained" ELSE kind

\* The loop steps a task: the throw replaces whatever the task was handling.
Step(t) ==
  /\ current = NoTask /\ task[t].place = "started" /\ task[t].fut # "pending"
  /\ current' = t
  /\ task' = [task EXCEPT
                ![t].fut = "none", ![t].must = "no",
                ![t].exc = IF task[t].fut \in Kind THEN Thrown(@, task[t].fut)
                           ELSE IF task[t].must # "no" THEN Thrown(@, task[t].must)
                           ELSE @]
  /\ UNCHANGED scope

\* The task suspends on a future or, with sleep(0), on none; also in cleanup
\* code that runs while an exception unwinds it.
Suspend(t) ==
  /\ Running(t) /\ task[t].cancelling < MaxCancels
  /\ current' = NoTask
  /\ \E f \in {"none", "pending"} : task' = [task EXCEPT ![t].fut = f]
  /\ UNCHANGED scope

\* Whatever the task waits for happens.
Wake(t) ==
  /\ current = NoTask /\ task[t].fut = "pending"
  /\ task' = [task EXCEPT ![t].fut = "result"]
  /\ UNCHANGED <<current, scope>>

\* The task's own code raises.
RaiseError(t) ==
  /\ Running(t) /\ task[t].exc = "none"
  /\ task' = [task EXCEPT ![t].exc = "error"]
  /\ UNCHANGED <<current, scope>>

EnterScope(t, s) ==
  /\ Running(t) /\ ~scope[s].used
  /\ \E shield \in BOOLEAN : Becomes(Enter(State, s, t, shield))
  /\ UNCHANGED current

ExitScope(t) ==
  /\ Running(t) /\ task[t].cur # NoScope /\ scope[task[t].cur].host = t
  /\ Becomes(Exit(State, task[t].cur))
  /\ UNCHANGED current

\* cancel(), by any task or by the timer of a deadline
CancelScope(s) ==
  /\ ~scope[s].called /\ (scope[s].active \/ ~scope[s].used)
  /\ Becomes(Cancel(State, s, current))
  /\ UNCHANGED current

ChangeShield(s) ==
  /\ scope[s].active
  /\ Becomes(SetShield(State, s, ~scope[s].shield, current))
  /\ UNCHANGED current

\* The callback that _deliver_cancellation left for the next loop cycle.
Redeliver(s) ==
  /\ current = NoTask /\ scope[s].handle
  /\ Becomes(Deliver(State, s, NoTask))
  /\ UNCHANGED current

NativeCancel(t) ==
  /\ t \in Native /\ Suspended(t) /\ task[t].natives < MaxNative
  /\ task' = [task EXCEPT ![t] = [CancelTask(task[t], "native") EXCEPT !.natives = @ + 1]]
  /\ UNCHANGED <<current, scope>>

\* The coroutine returns or raises; it has left its scopes.
Finish(t) ==
  /\ Running(t) /\ task[t].cur = NoScope
  /\ current' = NoTask
  /\ task' = [task EXCEPT ![t].place = "done"]
  /\ UNCHANGED scope

Next ==
  \/ \E t \in Task :
       \/ Step(t) \/ Suspend(t) \/ Wake(t) \/ RaiseError(t)
       \/ ExitScope(t) \/ NativeCancel(t) \/ Finish(t)
       \/ \E s \in Scope : EnterScope(t, s)
  \/ \E s \in Scope : CancelScope(s) \/ ChangeShield(s) \/ Redeliver(s)

\* The loop runs every task that is ready and every callback.
Fairness ==
  /\ \A t \in Task : WF_vars(Step(t))
  /\ \A s \in Scope : WF_vars(Redeliver(s))

Spec == Init /\ [][Next]_vars
FairSpec == Spec /\ Fairness

-----------------------------------------------------------------------------
\* As long as a task is inside a cancelled scope with no shield in between, the
\* closest such scope has a delivery scheduled: neither entering and leaving
\* shielded or cancelled scopes nor lifting a shield loses the cancellation.
DeliveryArmed ==
  \A t \in Task :
    LET c == Nearest(scope, task[t].cur) IN c # NoScope => scope[c].handle

\* A cancellation by a scope ends within the scopes it came from: none gets past
\* the outermost scope of a task, whatever is cancelled and shielded on the way
\* out.  A native cancellation that hit the task while it unwound ends with it.
NothingEscapes ==
  \A t \in Task : task[t].cur = NoScope => task[t].exc \notin {"anyio", "chained"}

\* Once a task is out of all scopes, the requests they made are taken back and
\* asyncio's own are left: Task.cancelling() counts the latter.
RequestsBalance ==
  \A t \in Task : task[t].cur = NoScope => task[t].cancelling = task[t].natives

\* Shields and the boundaries of other cancelled scopes hold: a scope cancels
\* only tasks that the walk up from their own scope finds cancelled.
DeliveredInside ==
  [][\A t \in Task :
       ("anyio" \in {task'[t].fut, task'[t].must} \ {task[t].fut, task[t].must})
       => EffectivelyCancelled(scope', task'[t].cur)]_vars

\* Level-triggered cancellation: a task that waits inside a cancelled scope is
\* stepped in the end, unless a shield is put in between.
CancellationArrives ==
  \A t \in Task :
    (Suspended(t) /\ EffectivelyCancelled(scope, task[t].cur))
      ~> (Running(t) \/ ~EffectivelyCancelled(scope, task[t].cur))
=============================================================================
