----------------------------- MODULE Components -----------------------------
(***************************************************************************)
(* The other components: threads, processes, portals, runners, timers and  *)
(* settings; and the composition of all.  A behaviour is one of a single   *)
(* component, of here or of SocketComponents.                              *)
(***************************************************************************)
EXTENDS SocketComponents

\* The parameters of the components, by the names they have there
CONSTANTS
  Caller, NativeCaller,                          \* GroupStart
  Call, Abandoning, NativeCall, Worker, TotalTokens, Stop, NoCall,  \* WorkerThreads
  PortalCall, StartTask, NoPortalCall,           \* BlockingPortal
  Context,                                       \* PortalContext
  User, NoUser, MaxPortals, MaxLeases,           \* PortalProvider
  Request, Cancellable, Proc, NoProc, ProcessTokens,  \* ProcessPool
  Outputs, MaxInput, MaxOutput, PipeSize,        \* Subprocess
  MaxCalls, MaxErrors,                           \* TestRunner
  Scope, MaxTime, MaxDelay, Resolution,          \* Deadline
  Background, MaxInterrupts, MaxRequests,        \* RunLoop
  Item, Backend, NoBackend, MaxRunners,          \* PluginRunner
  MaxLevel, MaxLoops,                            \* Adapters
  Var, RunLoop, Value, NoValue, MaxTokens        \* RunVars

\* The shutdown command and None are no calls.
ASSUME ThreadAssumption == Stop \notin Call /\ NoCall \notin Call

\* None is no thread, and the portals are numbered.
ASSUME ProviderAssumption == NoUser \notin User /\ MaxPortals \in Nat

\* The clock and the delays are counted in ticks.
ASSUME TimerAssumption == MaxTime \in Nat /\ MaxDelay \in Nat

Start == INSTANCE GroupStart WITH
  call <- a, groupOff <- b, recorded <- c
Threads == INSTANCE WorkerThreads WITH
  call <- a, worker <- b, idle <- c, reports <- d, rootDone <- e, clock <- f
Portal == INSTANCE BlockingPortal WITH
  pcall <- a, posted <- b, line <- c, portal <- d, groupOff <- e
Provider == INSTANCE PortalProvider WITH
  user <- a, lock <- b, leases <- c, cm <- d, given <- e, loop <- f
Processes == INSTANCE ProcessPool WITH
  req <- a, proc <- b, workers <- c, resting <- d, stray <- e, ended <- f
Entered == INSTANCE PortalContext WITH
  block <- a, body <- b, told <- c, hub <- d, hubOff <- e
Child == INSTANCE Subprocess WITH
  running <- a, child <- b, feed <- c, drains <- d
Tests == INSTANCE TestRunner WITH
  calls <- a, awaited <- b, runner <- c, line <- d, caught <- e, errors <- f
Timers == INSTANCE Deadline WITH
  now <- a, scopes <- b, chain <- c, timers <- d, cut <- e
Run == INSTANCE RunLoop WITH
  run <- a, handler <- b, main <- c, background <- d, executor <- e
Plugin == INSTANCE PluginRunner WITH
  items <- a, runners <- b, current <- c, leases <- d, stack <- e, library <- f
Adapter == INSTANCE Adapters WITH
  adapter <- a, inner <- b, loop <- c, ideal <- d
Vars == INSTANCE RunVars WITH
  runVarsOf <- a, tokens <- b, strays <- c

Init ==
  \/ component = "Start" /\ Start!StartInit /\ BlankD
  \/ component = "Threads" /\ Threads!ThreadInit /\ BlankG
  \/ component = "Portal" /\ Portal!PortalInit /\ BlankF
  \/ component = "Context" /\ Entered!ContextInit /\ BlankF
  \/ component = "Provider" /\ Provider!ProviderInit /\ BlankG
  \/ component = "Processes" /\ Processes!PoolInit /\ BlankG
  \/ component = "Subprocess" /\ Child!ProcessInit /\ BlankE
  \/ component = "Tests" /\ Tests!RunnerInit /\ BlankG
  \/ component = "Timers" /\ Timers!DeadlineInit /\ BlankF
  \/ component = "Run" /\ Run!RunInit /\ BlankF
  \/ component = "Plugin" /\ Plugin!PluginInit /\ BlankG
  \/ component = "Adapter" /\ Adapter!AdapterInit /\ BlankE
  \/ component = "Vars" /\ Vars!RunVarInit /\ BlankD

Next ==
  \/ component = "Start" /\ Start!StartNext /\ UNCHANGED <<component, d, e, f, g>>
  \/ component = "Threads" /\ Threads!ThreadNext /\ UNCHANGED <<component, g>>
  \/ component = "Portal" /\ Portal!PortalNext /\ UNCHANGED <<component, f, g>>
  \/ component = "Context" /\ Entered!ContextNext /\ UNCHANGED <<component, f, g>>
  \/ component = "Provider" /\ Provider!ProviderNext /\ UNCHANGED <<component, g>>
  \/ component = "Processes" /\ Processes!PoolNext /\ UNCHANGED <<component, g>>
  \/ component = "Subprocess" /\ Child!ProcessNext /\ UNCHANGED <<component, e, f, g>>
  \/ component = "Tests" /\ Tests!RunnerNext /\ UNCHANGED <<component, g>>
  \/ component = "Timers" /\ Timers!DeadlineNext /\ UNCHANGED <<component, f, g>>
  \/ component = "Run" /\ Run!RunNext /\ UNCHANGED <<component, f, g>>
  \/ component = "Plugin" /\ Plugin!PluginNext /\ UNCHANGED <<component, g>>
  \/ component = "Adapter" /\ Adapter!AdapterNext /\ UNCHANGED <<component, e, f, g>>
  \/ component = "Vars" /\ Vars!RunVarNext /\ UNCHANGED <<component, d, e, f, g>>

Spec == Init /\ [][Next]_allVars

\* Every component, of here and of SocketComponents
EveryInit == Init \/ SocketInit
EveryNext == Next \/ SocketNext
EverySpec == EveryInit /\ [][EveryNext]_allVars

-----------------------------------------------------------------------------
\* TaskGroup.start(): the exception of a child comes out once, of start() or of the
\* group, and no child is left behind by a caller that was cancelled.  TestRunner: the
\* exception of a callback comes out once, of the call during which it came up or the
\* first one after it that lets it out.  run(): an interrupt comes out, and leaves no
\* task, job or signal handler behind.
ExceptionsComeOut ==
  /\ component = "Start" => Start!ChildErrorOnce /\ Start!NoChildLeft
  /\ component = "Tests" => Tests!ErrorsSurface
  /\ component = "Run" => Run!RunLeavesNothing

\* to_thread.run_sync(): the idle workers are alive, have nothing to do and stand in
\* the order in which they became idle, and no worker that was pruned has work left.
WorkersHold == component = "Threads" => Threads!PoolConsistent

\* to_thread.run_sync(): no function that may not be abandoned runs on behind its
\* caller's back, and it runs on a token.
CallsShielded == component = "Threads" => Threads!ShieldHolds

\* CancelScope.deadline, fail_after(), current_effective_deadline(): a scope is
\* cancelled at its deadline, wherever that was moved to, not before and not for an
\* earlier one.
TimersFollowDeadlines == component = "Timers" => Timers!TimersFollowDeadlines

\* The adapters and RunVar: a setting that was made before its loop is found in the
\* loop, but for fast_acquire of a semaphore; and a value that was set in one loop is
\* found in no other, but for tokens that are used in the wrong loop or order.
SettingsKept ==
  /\ component = "Adapter" => Adapter!AdapterTransparent
  /\ component = "Vars" => Vars!VariablesPerLoop

\* from_thread: a thread that waits for a portal is answered, whenever the portal
\* stops and whoever cancels, unless the loop ends before it has taken the call; a
\* context it entered is exited.
ThreadsAnswered ==
  /\ component = "Portal" => Portal!ThreadsAnswered
  /\ component = "Context" => Entered!ContextsExited

\* BlockingPortalProvider and the pytest plugin: nobody who is inside has a portal or
\* a runner that another one's leaving stops; a portal may stop by itself, or a runner
\* fail to close.
LeasesHold ==
  /\ component = "Provider" => Provider!LeasedPortalRuns
  /\ component = "Plugin" => Plugin!RunnerShared

\* to_process.run_sync() and run_process(): every process is idle, in the hands of
\* one call, killed, or let go of for good by a call that failed to start it or to
\* prune; and run_process() leaves none behind.
ProcessesInOnePlace ==
  /\ component = "Processes" => Processes!ProcessesInOnePlace
  /\ component = "Subprocess" => Child!ProcessReaped
=============================================================================
