----------------------------- MODULE TaskGroup -----------------------------
(***************************************************************************)
(* Task groups of the asyncio backend.  A group is a cancel scope that its *)
(* host enters, and the set of tasks spawned into it.  __aexit__ waits     *)
(* until the set is empty, inside a scope of its own that is shielded once *)
(* the host has been cancelled; a task leaves the set in a callback after  *)
(* it has ended, which records its exception and cancels the group.        *)
(***************************************************************************)
EXTENDS CancelScope

CONSTANTS
  Group,       \* each group, named by its cancel_scope
  WaitScope,   \* the scope that __aexit__ of each group enters
  Roots        \* the tasks that run from the start, outside of the groups

ASSUME GroupAssumption ==
  /\ Roots \subseteq Task /\ Group \subseteq Scope
  /\ WaitScope \in [Group -> Scope \ Group]
  /\ \A g, h \in Group : WaitScope[g] = WaitScope[h] => g = h

VARIABLE group   \* the state of each TaskGroup

groupVars == <<vars, group>>

WaitScopes == {WaitScope[g] : g \in Group}
Plain == Scope \ (Group \union WaitScopes)

GroupState == [
  phase : {"new", "open", "wait", "checkpoint", "closed"},
  active : BOOLEAN,             \* _active
  tasks : SUBSET Task,          \* _tasks
  awaited : SUBSET Task,        \* the tasks that _wait() has yet to see ended
  failed : BOOLEAN,             \* _exceptions is not empty
  block : {"none", "error"} \union Cancellation,    \* what the block raised
  excval : {"none", "error"} \union Cancellation,   \* exc_val of __aexit__
  lost : BOOLEAN ]              \* history: a child ended in an error

GroupTypeOK == TypeOK /\ group \in [Group -> GroupState]

GroupInit ==
  /\ InitWith(Roots)
  /\ group = [g \in Group |-> [phase |-> "new", active |-> FALSE, tasks |-> {},
                               awaited |-> {}, failed |-> FALSE, block |-> "none",
                               excval |-> "none", lost |-> FALSE]]

\* t runs code of its own, and not that of __aexit__.
InUserCode(t) == Running(t) /\ task[t].cur \notin WaitScopes

\* What is left of a task once its callbacks have run.
Gone == [NewTask EXCEPT !.place = "done"]

\* What is left of a group after __aexit__; `active` is not reset on every path.
Closed(active, tasks) ==
  [phase |-> "closed", active |-> active, tasks |-> tasks, awaited |-> {},
   failed |-> FALSE, block |-> "none", excval |-> "none", lost |-> FALSE]

\* A cancellation, not an error
IsCancelled(exc) == exc \in Cancellation

-----------------------------------------------------------------------------
\* __aenter__
EnterGroup(t, g) ==
  /\ InUserCode(t) /\ group[g].phase = "new" /\ task[t].exc = "none"
  /\ Becomes(Enter(State, g, t, FALSE))
  /\ group' = [group EXCEPT ![g].phase = "open", ![g].active = TRUE]
  /\ UNCHANGED current

\* start_soon(): the child gets the scope of the group, whoever spawns it.
StartSoon(t, g, c) ==
  /\ InUserCode(t) /\ group[g].active
  /\ task[c].place = "new" /\ \A h \in Group : c \notin group[h].tasks
  /\ task' = [task EXCEPT ![c].cur = g]
  /\ group' = [group EXCEPT ![g].tasks = @ \union {c}]
  /\ UNCHANGED <<current, scope>>

\* The first step of a child; a child cancelled before that never runs.
StartChild(c) ==
  /\ current = NoTask /\ task[c].place = "new" /\ \E g \in Group : c \in group[g].tasks
  /\ IF task[c].must = "no"
     THEN current' = c /\ task' = [task EXCEPT ![c].place = "started"]
     ELSE /\ task' = [task EXCEPT ![c].place = "done", ![c].exc = task[c].must]
          /\ UNCHANGED current
  /\ UNCHANGED <<scope, group>>

FinishChild(c) ==
  /\ InUserCode(c) /\ \E g \in Group : c \in group[g].tasks /\ task[c].cur = g
  /\ current' = NoTask
  /\ task' = [task EXCEPT ![c].place = "done"]
  /\ UNCHANGED <<scope, group>>

\* Mutants: an error does not cancel the group; the error of a child is dropped
\* when the group is cancelled already.
ChildEndedQuietly(st, g, exc) == st
ChildFailedUnlessCancelled(sc, g, exc) ==
  exc = "error" /\ ~EffectivelyCancelled(sc, g)

\* A child that ended in any exception cancels the group, unless a cancelled
\* scope does so already.
ChildEnded(st, g, exc) ==
  IF exc # "none" /\ ~EffectivelyCancelled(st.scope, g)
  THEN Cancel(st, g, NoTask) ELSE st

ChildFailed(sc, g, exc) == exc = "error"

\* A mutant: on_completion does nothing.
LastOneForgotten(left, r) == r

\* on_completion: the last awaited task completes the future of _wait(), unless
\* that has been cancelled.
Completed(left, r) ==
  IF left = {} /\ r.fut = "pending" THEN [r EXCEPT !.fut = "result"] ELSE r

\* The callbacks task_done and on_completion, in one loop cycle and in order.
TaskDone(c, g) ==
  /\ current = NoTask /\ c \in group[g].tasks /\ task[c].place = "done"
  /\ LET exc == task[c].exc
         left == group[g].awaited \ {c}
         host == scope[g].host
         n == ChildEnded([State EXCEPT !.task[c] = Gone], g, exc)
     IN /\ group' = [group EXCEPT
                       ![g].tasks = @ \ {c}, ![g].awaited = left,
                       ![g].failed = @ \/ (group[g].phase # "closed" /\ ChildFailed(scope, g, exc)),
                       ![g].lost = @ \/ (group[g].phase # "closed" /\ exc = "error")]
        /\ scope' = n.scope
        /\ task' = IF c \in group[g].awaited
                   THEN [n.task EXCEPT ![host] = Completed(left, @)] ELSE n.task
  /\ UNCHANGED current

-----------------------------------------------------------------------------
(* __aexit__ *)

\* The host suspends inside the wait scope: on the future of _wait(), or bare.
Await(st, t, fut) ==
  /\ task' = [st.task EXCEPT ![t].fut = fut, ![t].exc = "none"]
  /\ scope' = st.scope
  /\ current' = NoTask

\* Up to the first suspension: an exception cancels the group; without children
\* to wait for there is a shielded checkpoint.
ExitGroup(t, g) ==
  /\ InUserCode(t) /\ task[t].cur = g /\ scope[g].host = t
  /\ LET exc == task[t].exc
         idle == group[g].tasks = {}
         n == IF exc # "none" THEN Cancel(State, g, t) ELSE State
     IN /\ Await(Enter(n, WaitScope[g], t, idle), t, IF idle THEN "none" ELSE "pending")
        /\ group' = [group EXCEPT
             ![g].phase = IF idle THEN "checkpoint" ELSE "wait",
             ![g].awaited = group[g].tasks, ![g].block = exc, ![g].excval = exc,
             ![g].failed = @ \/ exc = "error", ![g].lost = @ \/ exc = "error"]

\* The end: both scopes are exited, and the group's may swallow the exception.
\* One that does come out does so where the block's own is being handled.
Leave(st, t, g, exc) ==
  LET n == Exit([Exit(st, WaitScope[g]) EXCEPT !.task[t].exc = exc], g) IN
  /\ Becomes([n EXCEPT !.task[t].exc = Thrown(group[g].block, @)])
  /\ UNCHANGED current

AllEnded(g) == group[g].tasks = {}

\* A cancellation that interrupts the wait shields it and cancels the group.
Interruption(t, g) ==
  IF task[t].exc = "none" THEN State
  ELSE Cancel([State EXCEPT !.scope[WaitScope[g]].shield = TRUE], g, t)

\* What `raise` in __aexit__ raises: the block's exception is its context only if
\* the host has been sent a result, not if an exception was thrown into __aexit__.
Raised(t, g, exc) ==
  IF task[t].exc = "none" THEN Thrown(group[g].block, exc) ELSE exc

\* The host is stepped in its wait.  A native cancellation takes the place of
\* one by a scope; errors take precedence over both.
WaitStepped(t, g) ==
  /\ Running(t) /\ task[t].cur = WaitScope[g] /\ group[g].phase = "wait"
  /\ LET exc == task[t].exc
         old == group[g].excval
         excval == IF exc # "none" /\ (old = "none" \/ (IsCancelled(old) /\ exc = "native"))
                   THEN exc ELSE old
         n == Interruption(t, g)
     IN \/ /\ AllEnded(g)
           /\ Leave(n, t, g, IF group[g].failed THEN "error" ELSE Raised(t, g, excval))
           /\ group' = [group EXCEPT ![g] = Closed(FALSE, group[g].tasks)]
        \/ /\ ~AllEnded(g)
           /\ Await(n, t, "pending")
           /\ group' = [group EXCEPT ![g].awaited = group[g].tasks,
                                          ![g].excval = excval]

\* The host is stepped in its checkpoint: the group closes, unless a native
\* cancellation goes straight through to the group's scope.
CheckpointStepped(t, g) ==
  /\ Running(t) /\ task[t].cur = WaitScope[g] /\ group[g].phase = "checkpoint"
  /\ LET exc == task[t].exc
         last == IF group[g].failed THEN "error" ELSE group[g].excval
     IN /\ Leave(State, t, g, IF exc = "none" THEN last ELSE exc)
        /\ group' = [group EXCEPT ![g] = Closed(exc # "none", group[g].tasks)]

-----------------------------------------------------------------------------
GroupNext ==
  \/ \E t \in Task :
       \/ /\ \/ Step(t) \/ Wake(t) \/ NativeCancel(t)
             \/ InUserCode(t) /\ (Suspend(t) \/ RaiseError(t))
             \/ InUserCode(t) /\ task[t].cur \in Plain /\ ExitScope(t)
             \/ InUserCode(t) /\ t \in Roots /\ Finish(t)
             \/ \E s \in Plain : InUserCode(t) /\ EnterScope(t, s)
          /\ UNCHANGED group
       \/ StartChild(t) \/ FinishChild(t)
       \/ \E g \in Group :
            \/ EnterGroup(t, g) \/ ExitGroup(t, g)
            \/ WaitStepped(t, g) \/ CheckpointStepped(t, g) \/ TaskDone(t, g)
            \/ \E c \in Task : StartSoon(t, g, c)
  \/ /\ \/ \E s \in Plain \union Group : CancelScope(s)
        \/ \E s \in Plain : ChangeShield(s)
        \/ \E s \in Scope : Redeliver(s)
     /\ UNCHANGED group

GroupSpec == GroupInit /\ [][GroupNext]_groupVars

-----------------------------------------------------------------------------
\* docs/tasks.rst: "If a child task, or the code in the enclosed context block
\* raises an exception, all child tasks are cancelled": the group is in a cancelled
\* scope from the callback that sees the error until it is left.  A scope around the
\* group may be the cancelled one; then raising a shield in between ends it early.
FailureCancels ==
  [][\A g \in Group :
       /\ group'[g].failed /\ group'[g].phase # "closed"
       /\ ~EffectivelyCancelled(scope', g)
       => /\ group[g].failed
          /\ EffectivelyCancelled(scope, g) =>
               \E s \in Plain : scope[s].active /\ ~scope[s].shield /\ scope'[s].shield
    ]_groupVars

\* An error of a child or of the block comes out of the group, also when the
\* group was being cancelled, and the scope does not swallow it.
ErrorsComeOut ==
  [][\A g \in Group :
       group[g].phase = "wait" /\ group'[g].phase = "closed" /\ group[g].lost
       => task'[scope[g].host].exc = "error"]_groupVars

\* A cancellation is on its way to every task in a cancelled scope, or will be
\* sent again when a shielded or cancelled scope further down is left; only a
\* scope that has been left itself, with a child still in it, sends no more.
ArmedOrBlocked ==
  \A t \in Task :
    LET c == Nearest(scope, task[t].cur) IN
    c # NoScope /\ scope[c].active =>
      \/ scope[c].handle
      \/ \E b \in Scope \ {c} : /\ scope[b].active /\ (scope[b].shield \/ scope[b].called)
                                /\ Nearest(scope, scope[b].parent) = c

\* No lost wakeup: while the host is suspended in _wait() some child that it
\* waits for has still to end, also when the callbacks of children, new children
\* and cancellations come together.
HostHasReasonToWait ==
  \A g \in Group :
    group[g].phase = "wait" /\ task[scope[g].host].fut = "pending"
      => group[g].awaited # {} /\ group[g].awaited \subseteq group[g].tasks

\* docs/tasks.rst: "makes sure that all its child tasks are finished one way or
\* another after the context block is exited".
NoOrphans == \A g \in Group : group[g].phase = "closed" => group[g].tasks = {}

\* docs/cancellation.rst: "If a task is waiting on something, it is cancelled
\* immediately."
WaitersAreCancelled ==
  \A t \in Task :
    Suspended(t) /\ task[t].fut = "pending" =>
      LET c == Nearest(scope, task[t].cur) IN c # NoScope => scope[c].handle
=============================================================================
