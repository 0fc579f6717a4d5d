--------------------------- MODULE WorkerThreads ---------------------------
(***************************************************************************)
(* to_thread.run_sync() of the asyncio backend: calls that borrow a token  *)
(* of a limiter, take an idle worker thread or start one, and await a      *)
(* future; threads that work off their queue and report to the loop; the   *)
(* calls a thread makes back into the loop, and its check_cancelled().     *)
(***************************************************************************)
EXTENDS Naturals, FiniteSets, Sequences, Functions

CONSTANTS
  Call,          \* the calls of run_sync(), each once and in a task of its own
  Abandoning,    \* those with abandon_on_cancel
  NativeCall,    \* those that asyncio's own Task.cancel() may hit
  Worker,        \* the threads that can be started
  TotalTokens,   \* of the limiter
  Stop,          \* None in a queue: the shutdown command
  NoCall

VARIABLES
  call,       \* the calls
  worker,     \* the threads
  idle,       \* _threadpool_idle_workers
  reports,    \* _report_result callbacks handed to the loop, in order
  rootDone,   \* the root task has ended
  clock       \* current_time(), as far as reports can tell: each is later than the last

threadVars == <<call, worker, idle, reports, rootDone, clock>>

ThreadInit ==
  /\ call = [c \in Call |->
       [place |-> "idle",       \* idle, limiter, borrowed, awaiting, done
        future |-> "none",      \* pending, result, error or cancelled
        scopeOff |-> FALSE]]    \* a scope around the call is cancelled
  /\ worker = [w \in Worker |->
       [place |-> "new",        \* new, waiting, running, asking the loop, dead
        queue |-> <<>>,
        item |-> NoCall,        \* the call whose function it runs
        since |-> 0,            \* idle_since
        stopping |-> FALSE,
        skipped |-> FALSE]]     \* history: it passed over a cancelled item
  /\ idle = <<>>
  /\ reports = <<>>
  /\ rootDone = FALSE
  /\ clock = 0

Borrowers == {c \in Call : call[c].place \in {"borrowed", "awaiting"}}
Places(c, place) == call' = [call EXCEPT ![c].place = place]
Expired(ws) == {ws[i] : i \in DOMAIN ws}

-----------------------------------------------------------------------------
(* The loop *)

\* run_sync() up to the limiter; the token is borrowed there or later, and its
\* own checkpoint comes after.
Enter(c) ==
  /\ call[c].place = "idle" /\ Places(c, "limiter")
  /\ UNCHANGED <<worker, idle, reports, rootDone, clock>>

Borrow(c) ==
  /\ call[c].place = "limiter" /\ Cardinality(Borrowers) < TotalTokens
  /\ Places(c, "borrowed")
  /\ UNCHANGED <<worker, idle, reports, rootDone, clock>>

\* stop(), for several workers
Stopped(ws) ==
  [w \in Worker |->
     IF w \in ws
     THEN [worker[w] EXCEPT !.stopping = TRUE, !.queue = Append(@, Stop)]
     ELSE worker[w]]

\* What is left of the idle workers: the last one is taken, the n that have
\* idled longest are pruned.
RemainingIdle(n) == SubSeq(idle, n + 1, Len(idle) - 1)

\* The token is there: an idle worker gets the item, or a new one.
Dispatch(c) ==
  /\ call[c].place = "borrowed" /\ ~rootDone
  /\ call' = [call EXCEPT ![c].place = "awaiting", ![c].future = "pending"]
  /\ \/ /\ idle = <<>>
        /\ LET fresh == {w \in Worker : worker[w].place = "new"} IN
           /\ fresh # {}
           /\ LET w == CHOOSE x \in fresh : TRUE IN
              worker' = [worker EXCEPT ![w].place = "waiting", ![w].queue = <<c>>]
        /\ UNCHANGED idle
     \/ /\ idle # <<>>
        /\ \E n \in 0..(Len(idle) - 1) :
             /\ worker' = [Stopped(Expired(SubSeq(idle, 1, n)))
                             EXCEPT ![idle[Len(idle)]].queue = Append(@, c)]
             /\ idle' = RemainingIdle(n)
  /\ UNCHANGED <<reports, rootDone, clock>>

\* A mutant: the worker is put at the end of those that have idled longest.
Requeued(w) == <<w>> \o idle
\* The worker is idle again.
Rests(w) == Append(idle, w)

\* _report_result
Report ==
  /\ reports # <<>>
  /\ LET r == Head(reports) IN
     /\ worker' = [worker EXCEPT ![r.worker].since = clock + 1]
     /\ idle' = IF worker[r.worker].stopping THEN idle ELSE Rests(r.worker)
     /\ call' = [call EXCEPT ![r.call].future =
                               IF @ = "cancelled" THEN @ ELSE r.outcome]
  /\ reports' = Tail(reports)
  /\ clock' = clock + 1
  /\ UNCHANGED rootDone

Return(c) ==
  /\ call[c].place = "awaiting" /\ call[c].future # "pending"
  /\ Places(c, "done")
  /\ UNCHANGED <<worker, idle, reports, rootDone, clock>>

\* The root task ends: stop() is called on every worker that was not pruned.
RootEnds ==
  /\ ~rootDone /\ rootDone' = TRUE
  /\ worker' = Stopped({w \in Worker : /\ worker[w].place \notin {"new", "dead"}
                                       /\ ~worker[w].stopping})
  /\ idle' = <<>>
  /\ UNCHANGED <<call, reports, clock>>

-----------------------------------------------------------------------------
(* Cancellation *)

\* A mutant: the scope around the future is never shielded.
AnyReached(c) == call[c].place = "awaiting" /\ call[c].future = "pending"

\* The await of the future is within reach of a cancelled scope.
Reached(c) ==
  c \in Abandoning /\ call[c].place = "awaiting" /\ call[c].future = "pending"

CancelCall(c) ==
  /\ \/ ~call[c].scopeOff /\ call[c].place \notin {"idle", "done"}
     \/ call[c].scopeOff /\ Reached(c)
  /\ call' = [call EXCEPT
       ![c] = [call[c] EXCEPT !.scopeOff = TRUE,
                              !.future = IF Reached(c) THEN "cancelled" ELSE @,
                              !.place = IF @ = "limiter" THEN "done" ELSE @]]
  /\ UNCHANGED <<worker, idle, reports, rootDone, clock>>

NativeCancelCall(c) ==
  /\ c \in NativeCall /\ call[c].place = "awaiting" /\ call[c].future = "pending"
  /\ call' = [call EXCEPT ![c].future = "cancelled"]
  /\ UNCHANGED <<worker, idle, reports, rootDone, clock>>

-----------------------------------------------------------------------------
(* The threads *)

\* queue.get() in run(): the shutdown command, an item that has been cancelled,
\* which is dropped without a report, or one to work on.
Get(w) ==
  /\ worker[w].place = "waiting" /\ worker[w].queue # <<>>
  /\ LET item == Head(worker[w].queue)
         r == [worker[w] EXCEPT !.queue = Tail(@)]
     IN worker' = [worker EXCEPT ![w] =
          IF item = Stop THEN [r EXCEPT !.place = "dead"]
          ELSE IF call[item].future = "cancelled" THEN [r EXCEPT !.skipped = TRUE]
          ELSE [r EXCEPT !.place = "running", !.item = item]]
  /\ UNCHANGED <<call, idle, reports, rootDone, clock>>

\* The function returns, raises, or finds itself cancelled in check_cancelled().
FinishFunction(w, outcome) ==
  /\ worker[w].place = "running"
  /\ LET c == worker[w].item IN
     /\ outcome = "checked" => call[c].scopeOff
     /\ reports' = Append(reports, [worker |-> w, call |-> c,
                      outcome |-> IF outcome = "result" THEN "result" ELSE "error"])
  /\ worker' = [worker EXCEPT ![w].place = "waiting", ![w].item = NoCall]
  /\ UNCHANGED <<call, idle, rootDone, clock>>

\* from_thread.run() and run_sync(): the thread blocks until the loop has run the
\* task or the function; a cancelled scope makes run() raise in the thread.
Ask(w) ==
  /\ worker[w].place = "running" /\ ~rootDone
  /\ worker' = [worker EXCEPT ![w].place = "asking"]
  /\ UNCHANGED <<call, idle, reports, rootDone, clock>>

Answer(w) ==
  /\ worker[w].place = "asking"
  /\ worker' = [worker EXCEPT ![w].place = "running"]
  /\ UNCHANGED <<call, idle, reports, rootDone, clock>>

WorkerStep(w) ==
  Get(w) \/ Ask(w) \/ Answer(w)
  \/ \E o \in {"result", "error", "checked"} : FinishFunction(w, o)

ThreadNext ==
  \/ \E c \in Call : \/ Enter(c) \/ Borrow(c) \/ Dispatch(c) \/ Return(c)
                     \/ CancelCall(c) \/ NativeCancelCall(c)
  \/ \E w \in Worker : WorkerStep(w)
  \/ Report \/ RootEnds

-----------------------------------------------------------------------------
Reporting(w) == \E i \in DOMAIN reports : reports[i].worker = w

\* A worker is in one place: one that is idle has nothing to do, nothing to
\* report and no order to stop, so that it may be given an item; its queue never
\* overflows, whichever of pruning, reports and the end of the root comes first;
\* and all who have nothing to do are idle, but for those that a cancelled item
\* put out of use.  The idle workers stand in the order of idle_since: the scan
\* for expired ones may end at the first that is not, and the one that is taken
\* idled for the shortest time.
PoolConsistent ==
  /\ \A i, j \in DOMAIN idle : i < j => worker[idle[i]].since < worker[idle[j]].since
  /\ \A w \in Worker :
       LET free == /\ worker[w].place = "waiting" /\ worker[w].queue = <<>>
                   /\ ~Reporting(w) /\ ~worker[w].stopping
       IN /\ w \in Range(idle) => free
          /\ free => w \in Range(idle) \/ worker[w].skipped
          /\ Len(worker[w].queue) <= 2

\* docs/threads.rst: "tasks are shielded from cancellation while they are waiting
\* for a worker thread to finish": a function that was not to be abandoned never
\* runs on behind its caller's back, and it runs on a token.
ShieldHolds ==
  \A w \in Worker :
    worker[w].item # NoCall /\ worker[w].item \notin Abandoning \union NativeCall
      => worker[w].item \in Borrowers
=============================================================================
