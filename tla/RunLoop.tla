------------------------------ MODULE RunLoop ------------------------------
(***************************************************************************)
(* anyio.run() on asyncio: the name of the library, the Runner (the one of *)
(* the backend, for versions of Python without it), its handler for SIGINT *)
(* and what close() waits for.  Tasks other than the main one are started  *)
(* and end at any time; the default executor may be running a job.         *)
(***************************************************************************)
EXTENDS Naturals, FiniteSets

CONSTANTS
  Background,      \* the tasks besides the main task
  MaxInterrupts,   \* bound: SIGINTs
  MaxRequests      \* bound: cancellations of the main task by others

VARIABLES
  run,         \* of the call: where it is, its thread, what it cached, its outcome
  handler,     \* of SIGINT
  main,        \* of the main task: its state, the requests to cancel it
  background,  \* of each of the other tasks, its state
  executor     \* whether the default executor runs a job

runVars == <<run, handler, main, background, executor>>

RunInit ==
  /\ \E inMainThread, uncancels \in BOOLEAN, library \in {"none", "asyncio"} :
       run = [phase |-> "none", inMainThread |-> inMainThread, uncancels |-> uncancels,
              library |-> library, before |-> library, interrupts |-> 0, sigints |-> 0,
              replaced |-> FALSE, cutShort |-> FALSE, outcome |-> "none"]
  /\ handler \in {"default", "custom"}
  /\ main = [state |-> "none", due |-> FALSE, requests |-> 0, byOthers |-> 0]
  /\ background = [t \in Background |-> "none"]
  /\ executor = "idle"

\* run() refuses a thread in which a library runs already.
Refused == run.library # "none"

\* anyio.run(), AsyncIOBackend.run() and Runner.run() up to run_until_complete()
CallRun ==
  /\ run.phase = "none"
  /\ IF Refused
     THEN /\ run' = [run EXCEPT !.phase = "over", !.outcome = "refused"]
          /\ UNCHANGED <<handler, main>>
     ELSE /\ run' = [run EXCEPT !.phase = "running", !.library = "asyncio"]
          /\ main' = [main EXCEPT !.state = "pending"]
          /\ handler' = IF run.inMainThread /\ handler = "default" THEN "runner" ELSE handler
  /\ UNCHANGED <<background, executor>>

\* A mutant: the handler is put back only after a run that was not interrupted.
HandlerKept == handler
\* The handler after Runner.run(): one that the program has set in between stays.
HandlerBack == IF handler = "runner" THEN "default" ELSE handler

\* _cancel_all_tasks() begins, with the tasks that are there now.
ToCancel == [t \in Background |-> IF background[t] = "pending" THEN "cancelling" ELSE background[t]]

Closing(outcome) ==
  /\ run' = [run EXCEPT !.phase = "closing", !.outcome = outcome]
  /\ background' = ToCancel

\* A KeyboardInterrupt out of run_until_complete(), raised in the loop or in a step of
\* the main task, which ends with it: run() closes its loop, close() gives up what it
\* waits for.
Interrupted(inMain) ==
  /\ run' = [run EXCEPT
       !.phase = IF @ = "running" THEN "closing" ELSE "over",
       !.cutShort = run.phase # "running",
       !.library = IF run.phase = "running" THEN @ ELSE run.before,
       !.sigints = @ + 1,
       !.outcome = "interrupt"]
  /\ inMain => main.state = "pending"
  /\ main' = IF inMain THEN [main EXCEPT !.state = "error", !.due = FALSE]
             ELSE [main EXCEPT !.due = @ \/ (run.phase = "running" /\ main.state = "pending")]
  /\ background' = IF run.phase = "running" THEN ToCancel ELSE background
  /\ handler' = HandlerBack

\* The loop is there, from _lazy_init() to the end of close().
Alive == run.phase \in {"running", "closing", "executor"}

\* A mutant: each SIGINT is a request to cancel.
MayCancelAgain == main.state = "pending"
\* _on_sigint() cancels the main task once.
MayCancel == run.interrupts = 0 /\ main.state = "pending"

Sigint ==
  /\ Alive /\ run.sigints < MaxInterrupts
  /\ \/ /\ handler = "runner" /\ MayCancel
        /\ run' = [run EXCEPT !.interrupts = @ + 1, !.sigints = @ + 1]
        /\ main' = [main EXCEPT !.due = TRUE, !.requests = @ + 1]
        /\ UNCHANGED <<handler, background>>
     \/ handler = "runner" /\ ~MayCancel /\ \E inMain \in BOOLEAN : Interrupted(inMain)
     \/ /\ handler = "default" /\ run.inMainThread
        /\ \E inMain \in BOOLEAN : Interrupted(inMain)
  /\ UNCHANGED executor

\* The program sets a handler of its own, or the default one.
SetHandler(new) ==
  /\ run.phase = "running" /\ run.inMainThread
  /\ handler' = new
  /\ run' = [run EXCEPT !.replaced = TRUE]
  /\ UNCHANGED <<main, background, executor>>

-----------------------------------------------------------------------------
(* The tasks *)

CancelMain ==
  /\ run.phase = "running" /\ main.state = "pending" /\ main.byOthers < MaxRequests
  /\ main' = [main EXCEPT !.due = TRUE, !.requests = @ + 1, !.byOthers = @ + 1]
  /\ UNCHANGED <<run, handler, background, executor>>

\* The main task catches its CancelledError, and may call uncancel() where there is one.
MainGoesOn(undo) ==
  /\ Alive /\ main.state = "pending" /\ main.due
  /\ undo => run.uncancels /\ main.requests > 0
  /\ main' = [main EXCEPT !.due = FALSE, !.requests = IF undo THEN @ - 1 ELSE @]
  /\ UNCHANGED <<run, handler, background, executor>>

MainEnds(state) ==
  /\ Alive /\ main.state = "pending"
  /\ main.due <=> state = "cancelled"
  /\ main' = [main EXCEPT !.state = state, !.due = FALSE]
  /\ UNCHANGED <<run, handler, background, executor>>

BackgroundSteps(t) ==
  /\ Alive
  /\ \/ background[t] = "none" /\ background' = [background EXCEPT ![t] = "pending"]
     \/ /\ background[t] \in {"pending", "cancelling"}
        /\ background' = [background EXCEPT ![t] = "done"]
  /\ UNCHANGED <<run, handler, main, executor>>

ExecutorSteps ==
  /\ Alive
  /\ \/ executor = "idle" /\ run.phase # "executor" /\ executor' = "busy"
     \/ executor = "busy" /\ executor' = "idle"
  /\ UNCHANGED <<run, handler, main, background>>

-----------------------------------------------------------------------------
\* The outcome of run_until_complete() for the main task
Outcome ==
  IF main.state = "cancelled" /\ run.interrupts > 0 /\ run.uncancels /\ main.requests <= 1
  THEN "interrupt" ELSE main.state

RunEnds ==
  /\ run.phase = "running" /\ main.state # "pending"
  /\ Closing(Outcome)
  /\ handler' = HandlerBack
  /\ UNCHANGED <<main, executor>>

\* A mutant: the tasks are cancelled but not awaited.
GatheredNone == TRUE
Gathered == main.state # "pending" /\ \A t \in Background : background[t] # "cancelling"

\* gather() of the cancelled tasks, and shutdown_asyncgens()
TasksGone ==
  /\ run.phase = "closing" /\ Gathered
  /\ run' = [run EXCEPT !.phase = "executor"]
  /\ UNCHANGED <<handler, main, background, executor>>

\* shutdown_default_executor() joins the threads of the executor.
ExecutorShutDown == executor = "idle"

\* loop.close(), and the reset of the library
LoopCloses ==
  /\ run.phase = "executor" /\ ExecutorShutDown
  /\ run' = [run EXCEPT !.phase = "over", !.library = run.before]
  /\ UNCHANGED <<handler, main, background, executor>>

RunNext ==
  \/ CallRun \/ Sigint \/ CancelMain \/ ExecutorSteps \/ RunEnds \/ TasksGone \/ LoopCloses
  \/ \E new \in {"default", "custom"} : SetHandler(new)
  \/ \E undo \in BOOLEAN : MainGoesOn(undo)
  \/ \E state \in {"value", "error", "cancelled"} : MainEnds(state)
  \/ \E t \in Background : BackgroundSteps(t)

-----------------------------------------------------------------------------
\* After run() the handler of SIGINT is never the one of a runner that is gone, and the
\* library is what it was; unless close() itself was interrupted, the main task, every
\* task that close() found and the executor have come to their end.  A second SIGINT
\* does not wait for the task, and a task that only a SIGINT cancelled makes run() raise
\* KeyboardInterrupt where tasks have uncancel().
RunLeavesNothing ==
  /\ run.phase = "over" =>
       /\ handler # "runner" /\ run.library = run.before
       /\ run.outcome # "refused" /\ ~run.cutShort =>
            /\ main.state # "pending" /\ executor = "idle"
            /\ \A t \in Background : background[t] # "cancelling"
  /\ run.phase = "running" /\ handler = "runner" => run.sigints <= 1 \/ run.replaced
  /\ /\ run.phase \in {"closing", "executor", "over"} /\ main.state = "cancelled"
     /\ main.byOthers = 0 /\ run.uncancels
     => run.outcome = "interrupt"
=============================================================================
