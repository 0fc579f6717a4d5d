---------------------------- MODULE ProcessPool ----------------------------
(***************************************************************************)
(* to_process.run_sync(): calls that borrow a token of a limiter, take an  *)
(* idle worker process or start one, send it the request and wait for the  *)
(* response; processes that may die at any time, which the parent notices  *)
(* later.                                                                  *)
(***************************************************************************)
EXTENDS Naturals, FiniteSets, Sequences, Functions

CONSTANTS
  Request,        \* the calls, each once and in a task of its own
  Cancellable,    \* those with cancellable=True
  Proc,           \* the processes that can be started
  NoProc,
  ProcessTokens   \* of the limiter

VARIABLES
  req,       \* the calls: place, process, a cancelled scope around them
  proc,      \* the processes: new, alive, dead, noticed once returncode is set
  workers,   \* _process_pool_workers
  resting,   \* _process_pool_idle_workers
  stray,     \* history: processes that calls let go of without a kill()
  ended      \* the root task: "no", "ending", or "shut" once the pool is shut down

poolVars == <<req, proc, workers, resting, stray, ended>>

\* places: idle, pruning, starting (READY awaited), initialising, running, closing
\* (a killed process is waited for), done
PoolInit ==
  /\ req = [c \in Request |-> [place |-> "idle", proc |-> NoProc,
                             cancel |-> "no"]]   \* or "scope", "native"
  /\ proc = [p \in Proc |-> "new"]
  /\ workers = {} /\ resting = <<>> /\ stray = {} /\ ended = "no"

Busy == {c \in Request : req[c].place \notin {"idle", "done"}}
Goes(c, place, p) == req' = [req EXCEPT ![c].place = place, ![c].proc = p]
Killed(ps) == [p \in Proc |-> IF p \in ps /\ proc[p] = "alive" THEN "dead" ELSE proc[p]]
Members(s) == {s[i] : i \in DOMAIN s}

-----------------------------------------------------------------------------
\* The idle workers from the end: those known to have exited are dropped, the
\* first other one, at place k, is taken.
LastUsable(k) ==
  /\ k \in DOMAIN resting /\ proc[resting[k]] # "noticed"
  /\ \A j \in (k + 1)..Len(resting) : proc[resting[j]] = "noticed"
Dropped(k) == Members(SubSeq(resting, k + 1, Len(resting)))

\* A mutant: the worker that is taken stays in the deque.
RestingKeepsTaken(n, k) == SubSeq(resting, n + 1, k)
RestingAfter(n, k) == SubSeq(resting, n + 1, k - 1)

\* The call has a token.
Admitted(c) ==
  req[c].place = "idle" /\ ended = "no" /\ Cardinality(Busy) < ProcessTokens

\* A worker is there; the n that have been idle longest are killed, and waited
\* for under a shield.
TakeWorker(c) ==
  /\ Admitted(c)
  /\ \E k \in DOMAIN resting, n \in 0..Len(resting) :
       /\ LastUsable(k) /\ n < k
       /\ \A i \in 1..n : proc[resting[i]] # "noticed"
       /\ Goes(c, IF n > 0 THEN "pruning" ELSE "running", resting[k])
       /\ LET old == Members(SubSeq(resting, 1, n)) IN
          proc' = Killed(old) /\ workers' = workers \ (old \union Dropped(k))
       /\ resting' = RestingAfter(n, k)
  /\ UNCHANGED <<stray, ended>>

\* kill() raises for a worker that is known to have exited: the call fails, and
\* the worker it had taken is in use by nobody.
TakeWorkerFails(c) ==
  /\ Admitted(c)
  /\ \E k \in DOMAIN resting, n \in 1..Len(resting) :
       /\ LastUsable(k) /\ n < k
       /\ proc[resting[n]] = "noticed" /\ \A i \in 1..(n - 1) : proc[resting[i]] # "noticed"
       /\ Goes(c, "done", NoProc)
       /\ LET old == Members(SubSeq(resting, 1, n - 1)) IN
          proc' = Killed(old) /\ workers' = workers \ (old \union Dropped(k))
       /\ resting' = SubSeq(resting, n + 1, k - 1)
       /\ stray' = stray \union {resting[k]}
  /\ UNCHANGED ended

\* A natively cancelled call raises at its next step.
Proceeds(c, place) == req[c].place = place /\ req[c].cancel # "native"

Pruned(c) ==
  /\ Proceeds(c, "pruning")
  /\ Goes(c, "running", req[c].proc)
  /\ UNCHANGED <<proc, workers, resting, stray, ended>>

\* No worker is left: a process is started.
StartWorker(c) ==
  /\ Admitted(c)
  /\ \A i \in DOMAIN resting : proc[resting[i]] = "noticed"
  /\ workers' = workers \ Members(resting) /\ resting' = <<>>
  /\ \E p \in Proc : /\ proc[p] = "new"
                     /\ proc' = [proc EXCEPT ![p] = "alive"]
                     /\ Goes(c, "starting", p)
  /\ UNCHANGED <<stray, ended>>

\* READY arrives, and then the answer to `init`, which makes it a worker.
Started(c) ==
  /\ req[c].place \in {"starting", "initialising"} /\ proc[req[c].proc] = "alive"
  /\ \/ Proceeds(c, "starting") /\ Goes(c, "initialising", req[c].proc) /\ UNCHANGED workers
     \/ /\ Proceeds(c, "initialising") /\ Goes(c, "running", req[c].proc)
        /\ workers' = workers \union {req[c].proc}
  /\ UNCHANGED <<proc, resting, stray, ended>>

-----------------------------------------------------------------------------
\* The response, a value or an exception of the function: the worker rests.
Respond(c) ==
  /\ Proceeds(c, "running") /\ proc[req[c].proc] = "alive"
  /\ Goes(c, "done", NoProc)
  /\ resting' = Append(resting, req[c].proc)
  /\ UNCHANGED <<proc, workers, stray, ended>>

\* Mutants: the handler leaves the worker in the pool; it does not kill it.
StaysWorker(p) == workers
KilledNever(p) == proc

\* The handler in send_raw_command: out of the pool, killed, waited for.
NoWorker(p) == workers \ {p}
KilledNow(p) == Killed({p})

GiveUp(c) ==
  /\ workers' = NoWorker(req[c].proc)
  /\ proc' = KilledNow(req[c].proc)
  /\ Goes(c, "closing", req[c].proc)
  /\ UNCHANGED <<resting, stray, ended>>

\* READY does not come in 20 seconds, or the pipe breaks, or the answer to `init` is
\* an exception: killed, not waited for.
StartFails(c) ==
  /\ Proceeds(c, "starting") \/ Proceeds(c, "initialising")
  /\ Goes(c, "done", NoProc)
  /\ proc' = Killed({req[c].proc})
  /\ UNCHANGED <<workers, resting, stray, ended>>

\* The first message is not READY: the error is raised past the kill().
NotReady(c) ==
  /\ Proceeds(c, "starting")
  /\ Goes(c, "done", NoProc)
  /\ stray' = stray \union {req[c].proc}
  /\ UNCHANGED <<proc, workers, resting, ended>>

\* The pipe breaks under a command, or the answer makes no sense.
Broken(c) ==
  /\ req[c].place \in {"initialising", "running"}
  /\ GiveUp(c)

\* The end of the handler; a worker that it left in the pool would rest, too.
Closed(c) ==
  /\ req[c].place = "closing"
  /\ Goes(c, "done", NoProc)
  /\ resting' = IF req[c].proc \in workers THEN Append(resting, req[c].proc) ELSE resting
  /\ UNCHANGED <<proc, workers, stray, ended>>

\* A cancelled scope around the call: while the process starts nothing is done
\* about it; with `cancellable` the wait for the response is given up.
CancelRequest(c) ==
  /\ req[c].place \notin {"idle", "done"} /\ req[c].cancel = "no"
  /\ req' = [req EXCEPT ![c].cancel = "scope"]
  /\ UNCHANGED <<proc, workers, resting, stray, ended>>

CancellationReaches(c) ==
  LET native == req[c].cancel = "native" IN
  /\ req[c].cancel # "no"
  /\ \/ /\ req[c].place = "starting" \/ (native /\ req[c].place = "pruning")
        /\ Goes(c, "done", NoProc)
        /\ stray' = stray \union {req[c].proc}
        /\ UNCHANGED <<proc, workers, resting, ended>>
     \/ /\ \/ req[c].place = "initialising"
           \/ req[c].place = "running" /\ (c \in Cancellable \/ native)
        /\ GiveUp(c)

\* The loop is about to be closed: every task is cancelled with asyncio's own
\* cancel(), the calls and the task that then kills the workers.
LoopEnding ==
  /\ ended = "no" /\ ended' = "ending"
  /\ req' = [c \in Request |-> IF c \in Busy THEN [req[c] EXCEPT !.cancel = "native"] ELSE req[c]]
  /\ UNCHANGED <<proc, workers, resting, stray>>

ShutDownPool ==
  /\ ended = "ending" /\ ended' = "shut"
  /\ proc' = Killed(workers)
  /\ UNCHANGED <<req, workers, resting, stray>>

\* A process dies, and the loop finds out.
Dies(p) ==
  /\ proc[p] \in {"alive", "dead"}
  /\ proc' = [proc EXCEPT ![p] = IF @ = "alive" THEN "dead" ELSE "noticed"]
  /\ UNCHANGED <<req, workers, resting, stray, ended>>

PoolNext ==
  \/ \E c \in Request :
       \/ TakeWorker(c) \/ TakeWorkerFails(c) \/ Pruned(c) \/ StartWorker(c) \/ Started(c)
       \/ Respond(c) \/ StartFails(c) \/ NotReady(c) \/ Broken(c) \/ Closed(c) \/ CancelRequest(c) \/ CancellationReaches(c)
  \/ \E p \in Proc : Dies(p)
  \/ LoopEnding \/ ShutDownPool

-----------------------------------------------------------------------------
\* A worker process answers one call at a time, and after a call that was broken
\* or cancelled nobody gets it: a response that is still under way would be taken
\* for that of the next request.  What lives is idle, in use, or was let go of
\* by a call that was cancelled while it started a process, by one whose process
\* said something else than READY, or by a failed pruning; nobody gets such a
\* process again.  After the end of the loop no worker lives.
ProcessesInOnePlace ==
  LET hands == {req[c].proc : c \in Busy} IN
  /\ IsInjective(resting) /\ Members(resting) \subseteq workers
  /\ Members(resting) \intersect hands = {}
  /\ \A c, d \in Busy : c # d => req[c].proc # req[d].proc
  /\ \A c \in Busy : req[c].place = "closing" => /\ req[c].proc \notin workers
                                                 /\ proc[req[c].proc] # "alive"
  /\ \A p \in Proc : proc[p] = "alive" => p \in Members(resting) \union hands \union stray
  /\ stray \intersect (Members(resting) \union hands) = {}
  /\ ended = "shut" => \A p \in workers : proc[p] # "alive"
=============================================================================
