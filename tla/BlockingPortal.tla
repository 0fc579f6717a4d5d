--------------------------- MODULE BlockingPortal ---------------------------
(***************************************************************************)
(* BlockingPortal on asyncio: threads start tasks in the portal's group    *)
(* and get a concurrent.futures.Future for each, which any thread may      *)
(* cancel at any moment.  The loop thread executes one line at a time, as  *)
(* seen from the other threads.  Each call is named by its thread.         *)
(***************************************************************************)
EXTENDS Naturals, Sequences, Functions

CONSTANTS
  PortalCall,   \* the calls, each once
  StartTask,    \* those of start_task(); the others are start_task_soon()
  NoPortalCall

VARIABLES
  pcall,    \* the calls
  posted,   \* what call_soon_threadsafe has handed to the loop, in order
  line,     \* the call whose _call_func is between two lines
  portal,   \* open, stopping (_event_loop_thread_id is None), then in __aexit__ of
            \* the group: waiting or checkpoint; closed, and gone with its loop
  groupOff  \* the scope of the portal's task group is cancelled

portalVars == <<pcall, posted, line, portal, groupOff>>

PortalInit ==
  /\ pcall = [c \in PortalCall |->
       [thread |-> "idle",     \* idle, checked, posted, starting, waiting, done
        future |-> "pending",  \* result, error or cancelled
        status |-> "pending",  \* the future of the task status
        task |-> "none",       \* new, tested, suspended, ending, ended
        ending |-> "none",     \* result, error, base
        late |-> FALSE,        \* history: spawned during the last checkpoint
        scopeOff |-> FALSE,    \* the scope in _call_func is cancelled
        callback |-> FALSE,    \* is registered with the future
        cancel |-> "none"]]    \* the thread that cancelled: called, posted, over
  /\ posted = <<>>
  /\ line = NoPortalCall
  /\ portal = "open"
  /\ groupOff = FALSE

LoopFree == line = NoPortalCall /\ portal # "gone"
Accepting == portal = "open"               \* what _check_running() reads
Active == portal \notin {"closed", "gone"}   \* the group takes new tasks

-----------------------------------------------------------------------------
(* The calling threads *)

\* _check_running(), and the call after it: anything may come in between.
Check(c) ==
  /\ pcall[c].thread = "idle"
  /\ pcall' = [pcall EXCEPT ![c].thread = IF Accepting THEN "checked" ELSE "done"]
  /\ UNCHANGED <<posted, line, portal, groupOff>>

\* call_soon_threadsafe() raises once the loop is closed.
Post(c) ==
  /\ pcall[c].thread = "checked"
  /\ IF portal = "gone"
     THEN pcall' = [pcall EXCEPT ![c].thread = "done"] /\ UNCHANGED posted
     ELSE /\ pcall' = [pcall EXCEPT ![c].thread = "posted"]
          /\ posted' = Append(posted, [kind |-> "spawn", call |-> c])
  /\ UNCHANGED <<line, portal, groupOff>>

\* The thread gets its answer: the start value or failure, then the result.
Answered(c) ==
  /\ \/ /\ pcall[c].thread = "starting" /\ pcall[c].status # "pending"
        /\ pcall' = [pcall EXCEPT ![c].thread = IF pcall[c].status = "started"
                                                THEN "waiting" ELSE "done"]
     \/ /\ pcall[c].thread = "waiting" /\ pcall[c].future # "pending"
        /\ pcall' = [pcall EXCEPT ![c].thread = "done"]
  /\ UNCHANGED <<posted, line, portal, groupOff>>

\* Future.cancel() by whoever has the future; it then runs the callback, if that
\* is registered already.
CancelFuture(c) ==
  /\ pcall[c].thread = "waiting" /\ pcall[c].future = "pending"
  /\ pcall' = [pcall EXCEPT ![c].future = "cancelled",
                            ![c].cancel = IF pcall[c].callback THEN "called" ELSE "over"]
  /\ UNCHANGED <<posted, line, portal, groupOff>>

\* The callback: a call of the portal in turn, unless that is stopped.
Callback(c) ==
  /\ pcall[c].cancel = "called"
  /\ IF Accepting
     THEN /\ posted' = Append(posted, [kind |-> "cancel", call |-> c])
          /\ pcall' = [pcall EXCEPT ![c].cancel = "posted"]
     ELSE pcall' = [pcall EXCEPT ![c].cancel = "over"] /\ UNCHANGED posted
  /\ UNCHANGED <<line, portal, groupOff>>

-----------------------------------------------------------------------------
(* The loop *)

\* A posted call spawns its task, which raises in a group that is not active; a
\* posted scope.cancel() is a task that does no more than that.
RunPosted ==
  /\ LoopFree /\ posted # <<>>
  /\ LET p == Head(posted) IN
     pcall' = [pcall EXCEPT ![p.call] =
       IF p.kind = "cancel"
       THEN [pcall[p.call] EXCEPT !.cancel = "over",
               !.scopeOff = @ \/ (Active /\ pcall[p.call].task # "ended")]
       ELSE IF Active
       THEN [pcall[p.call] EXCEPT !.task = "new", !.late = (portal = "checkpoint"),
               !.thread = IF p.call \in StartTask THEN "starting" ELSE "waiting"]
       ELSE [pcall[p.call] EXCEPT !.thread = "done"]]
  /\ posted' = Tail(posted)
  /\ UNCHANGED <<line, portal, groupOff>>

\* _call_func up to the test of the future: cancelled already, or to be watched.
StartCall(c) ==
  /\ LoopFree /\ pcall[c].task = "new"
  /\ IF pcall[c].future = "cancelled"
     THEN /\ pcall' = [pcall EXCEPT ![c].task = "suspended", ![c].scopeOff = TRUE]
          /\ UNCHANGED line
     ELSE /\ pcall' = [pcall EXCEPT ![c].task = "tested"]
          /\ line' = c
  /\ UNCHANGED <<posted, portal, groupOff>>

\* add_done_callback(): on a future that was cancelled since, the callback runs
\* here, in the loop's thread, where it does nothing.
Watch(c) ==
  /\ line = c /\ pcall[c].task = "tested"
  /\ pcall' = [pcall EXCEPT ![c].task = "suspended",
                            ![c].callback = pcall[c].future = "pending"]
  /\ line' = NoPortalCall
  /\ UNCHANGED <<posted, portal, groupOff>>

\* The function of start_task() calls started().
CallStarted(c) ==
  /\ LoopFree /\ c \in StartTask /\ pcall[c].task = "suspended"
  /\ pcall[c].status = "pending"
  /\ pcall' = [pcall EXCEPT ![c].status = "started"]
  /\ UNCHANGED <<posted, line, portal, groupOff>>

\* The task_done callback of start_task()
StatusAfter(c, future) ==
  IF c \in StartTask /\ pcall[c].status = "pending" /\ future # "pending"
  THEN "failed" ELSE pcall[c].status

Resolved(c, future) ==
  pcall' = [pcall EXCEPT ![c].task = "ended", ![c].future = future,
                         ![c].status = StatusAfter(c, future)]

\* A mutant: a cancelled task leaves its future alone.
LeftAlone(future) == future
\* A cancelled task cancels its future, if nobody has yet.
AfterCancellation(future) == IF future = "pending" THEN "cancelled" ELSE future

\* The coroutine is cancelled through the group, by the loop that is about to end,
\* or through the scope, which swallows that: the future is cancelled then.
CallCancelled(c) ==
  /\ LoopFree /\ pcall[c].task = "suspended"
  /\ groupOff \/ pcall[c].scopeOff \/ portal = "closed"
  /\ Resolved(c, AfterCancellation(pcall[c].future))
  /\ UNCHANGED <<posted, line, portal, groupOff>>

\* It returns, raises, or raises a BaseException, which is raised once more in
\* the group.  A future that is seen to be cancelled is left alone.
CallEnds(c, how) ==
  /\ LoopFree /\ pcall[c].task = "suspended"
  /\ IF pcall[c].future = "cancelled"
     THEN /\ Resolved(c, "cancelled")
          /\ groupOff' = (groupOff \/ how = "base")
          /\ UNCHANGED line
     ELSE /\ pcall' = [pcall EXCEPT ![c].task = "ending", ![c].ending = how]
          /\ line' = c /\ UNCHANGED groupOff
  /\ UNCHANGED <<posted, portal>>

\* The line after: set_result() and set_exception() raise when the future has
\* been cancelled since, and the group fails.
SetFuture(c) ==
  /\ line = c /\ pcall[c].task = "ending"
  /\ LET late == pcall[c].future = "cancelled" IN
     /\ Resolved(c, IF late THEN "cancelled"
                    ELSE IF pcall[c].ending = "result" THEN "result" ELSE "error")
     /\ groupOff' = (groupOff \/ late \/ pcall[c].ending = "base")
  /\ line' = NoPortalCall
  /\ UNCHANGED <<posted, portal>>

\* stop(): by a call, or in __aexit__, which a group that fails brings about.
StopPortal(cancelRemaining) ==
  /\ LoopFree /\ Accepting
  /\ portal' = "stopping"
  /\ groupOff' = (groupOff \/ cancelRemaining)
  /\ UNCHANGED <<pcall, posted, line>>

Unfinished(c) == pcall[c].task \notin {"none", "ended"}

\* The tasks have all ended; the checkpoint of a group that had none is over anyway.
AllEnded == (\A c \in PortalCall : ~Unfinished(c)) \/ portal = "checkpoint"

\* __aexit__ of the task group, in which it is active still; and the end of the
\* loop some time after it, when its last tasks have been cancelled and have ended,
\* which forgets what has been posted.
ClosePortal ==
  /\ LoopFree
  /\ \/ /\ portal = "stopping" /\ UNCHANGED posted
        /\ portal' = IF \E c \in PortalCall : Unfinished(c) THEN "waiting" ELSE "checkpoint"
     \/ portal \in {"waiting", "checkpoint"} /\ AllEnded /\ portal' = "closed" /\ UNCHANGED posted
     \/ /\ portal = "closed" /\ \A c \in PortalCall : ~Unfinished(c)
        /\ portal' = "gone" /\ posted' = <<>>
  /\ UNCHANGED <<pcall, line, groupOff>>

PortalNext ==
  \/ \E c \in PortalCall :
       \/ Check(c) \/ Post(c) \/ Answered(c) \/ CancelFuture(c) \/ Callback(c)
       \/ StartCall(c) \/ Watch(c) \/ CallStarted(c) \/ CallCancelled(c) \/ SetFuture(c)
       \/ \E how \in {"result", "error", "base"} : CallEnds(c, how)
  \/ RunPosted \/ ClosePortal
  \/ \E cancelRemaining \in BOOLEAN : StopPortal(cancelRemaining)

-----------------------------------------------------------------------------
\* A call that was posted to a loop that ended without running it: its thread waits
\* for ever.  So does the thread whose cancellation was posted.
Forgotten(c) ==
  portal = "gone" /\ (pcall[c].thread = "posted" \/ pcall[c].cancel = "posted")

\* "Implementors must ensure that the future is resolved when the task finishes":
\* a thread that waits for the loop to take its call, for a start value or for a
\* result has an item or a task that is still to give it, whoever cancels what and
\* when, and no task outlives the portal.  Two exceptions: a call that the loop
\* forgot, and a task that was spawned in the last checkpoint of the group.
ThreadsAnswered ==
  /\ \A c \in PortalCall :
       /\ pcall[c].thread = "posted" /\ ~Forgotten(c) => [kind |-> "spawn", call |-> c] \in Range(posted)
       /\ pcall[c].cancel = "posted" /\ ~Forgotten(c) => [kind |-> "cancel", call |-> c] \in Range(posted)
       /\ pcall[c].thread = "waiting" /\ pcall[c].future = "pending" => Unfinished(c)
       /\ pcall[c].thread = "starting" /\ pcall[c].status = "pending" => Unfinished(c)
  /\ ~Active => \A c \in PortalCall : Unfinished(c) => pcall[c].late
=============================================================================
