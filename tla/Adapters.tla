------------------------------ MODULE Adapters ------------------------------
(***************************************************************************)
(* EventAdapter, LockAdapter, SemaphoreAdapter and CapacityLimiterAdapter: *)
(* a primitive that was made while no event loop ran makes the one of the  *)
(* backend when it is first used in a loop.  The module keeps beside it    *)
(* what a primitive that had existed from the start would hold, for the    *)
(* operations that get past the adapter.  Waiting is the matter of Lock,   *)
(* Semaphore and CapacityLimiter; a call that would wait is not made.      *)
(***************************************************************************)
EXTENDS Naturals

CONSTANTS
  MaxLevel,   \* bound: values, tokens
  MaxLoops    \* bound: event loops, one after the other

VARIABLES
  adapter,   \* its kind and the settings it keeps for later
  inner,     \* the primitive of the backend, or None
  loop,      \* whether an event loop runs, and the number of them so far
  ideal      \* history: what a primitive made at once would hold

adapterVars == <<adapter, inner, loop, ideal>>

None == [level |-> MaxLevel + 1, limit |-> 0, fast |-> FALSE]

\* `fast` is fast_acquire.  Semaphore.__new__ does not give it to the adapter.
AdapterInit ==
  /\ \E kind \in {"event", "lock", "semaphore", "limiter"}, setting \in 1..MaxLevel,
        fast \in BOOLEAN :
       /\ kind \in {"event", "lock"} => setting = 1
       /\ kind \in {"event", "limiter"} => ~fast
       /\ adapter = [kind |-> kind, setting |-> setting, fast |-> fast /\ kind # "semaphore"]
       /\ ideal = [level |-> IF kind = "semaphore" THEN setting ELSE 0, limit |-> setting,
                   fast |-> fast]
  /\ inner = None
  /\ loop = [runs |-> FALSE, count |-> 0]

\* A mutant: a new primitive on each use.
AlwaysNew == [level |-> IF adapter.kind = "semaphore" THEN adapter.setting ELSE 0,
              limit |-> adapter.setting, fast |-> adapter.fast]
\* The properties _event, _lock, _semaphore and _limiter
Inner == IF inner = None THEN AlwaysNew ELSE inner

LoopStarts ==
  /\ ~loop.runs /\ loop.count < MaxLoops
  /\ loop' = [runs |-> TRUE, count |-> loop.count + 1]
  /\ UNCHANGED <<adapter, inner, ideal>>

LoopEnds ==
  /\ loop.runs
  /\ loop' = [loop EXCEPT !.runs = FALSE]
  /\ UNCHANGED <<adapter, inner, ideal>>

\* The calls that use the primitive: outside of a loop they raise an error until there
\* is one.
MayUse == loop.runs \/ inner # None

\* A call that changes the level, here and in the ideal
Moves(here, there) ==
  /\ MayUse
  /\ inner' = [Inner EXCEPT !.level = here]
  /\ ideal' = [ideal EXCEPT !.level = there]
  /\ UNCHANGED <<adapter, loop>>

Up == Moves(Inner.level + 1, ideal.level + 1)
Down == Inner.level > 0 /\ Moves(Inner.level - 1, ideal.level - 1)

\* EventAdapter.set()
EventSet == adapter.kind = "event" /\ Moves(1, 1)

\* LockAdapter: acquire() and acquire_nowait() of a free lock, release() of a held one,
\* "async with"
LockCall ==
  /\ adapter.kind = "lock"
  /\ (Inner.level = 0 /\ Up) \/ Down

\* SemaphoreAdapter: acquire() counts down, release() up, here as far as the bound.
SemaphoreCall ==
  /\ adapter.kind = "semaphore"
  /\ Down \/ (Inner.level < MaxLevel /\ Up)

\* A mutant: the adapter keeps the setting, and the primitive never hears of it.
SettingKept(n) == adapter' = [adapter EXCEPT !.setting = n] /\ UNCHANGED inner
\* The setter of total_tokens: for the primitive that is still to come, or for the one
\* that is there, in a loop or not.
SetTotal(n) ==
  IF inner = None THEN adapter' = [adapter EXCEPT !.setting = n] /\ UNCHANGED inner
  ELSE inner' = [inner EXCEPT !.limit = n] /\ UNCHANGED adapter

\* CapacityLimiterAdapter: a token borrowed, a token given back, and total_tokens, which
\* may be set below the number of tokens that are out
LimiterCall ==
  /\ adapter.kind = "limiter"
  /\ \/ Inner.level < Inner.limit /\ Up
     \/ Down
     \/ \E n \in 1..MaxLevel :
          SetTotal(n) /\ ideal' = [ideal EXCEPT !.limit = n] /\ UNCHANGED loop

AdapterNext ==
  \/ LoopStarts \/ LoopEnds
  \/ EventSet \/ LockCall \/ SemaphoreCall \/ LimiterCall

-----------------------------------------------------------------------------
\* is_set(), statistics().locked, value, borrowed_tokens
ShownLevel ==
  IF inner # None THEN inner.level
  ELSE IF adapter.kind = "semaphore" THEN adapter.setting ELSE 0
\* max_value aside: total_tokens
ShownLimit == IF inner # None THEN inner.limit ELSE adapter.setting
\* Whether an uncontended acquire() yields to the loop
ShownFast == IF inner # None THEN inner.fast ELSE adapter.fast

\* An adapter shows at any time, in a loop or not, what a primitive made at once would
\* show: nothing that was set is forgotten when the primitive appears, and nothing that
\* was done with it when its first loop ends.  Only a semaphore loses a setting: it
\* never acquires fast, whatever it was made with.
AdapterTransparent ==
  /\ ShownLevel = ideal.level /\ ShownLimit = ideal.limit
  /\ ShownFast = (ideal.fast /\ adapter.kind # "semaphore")
=============================================================================
