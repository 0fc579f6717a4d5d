----------------------------- MODULE TestRunner -----------------------------
(***************************************************************************)
(* TestRunner of the asyncio backend.  pytest makes one call after the     *)
(* other, a fixture or a test; each is put into a stream of one item for   *)
(* the runner task, and the loop runs until its future is done.  The       *)
(* exceptions of callbacks reach the loop's handler at any time the loop   *)
(* runs.  A KeyboardInterrupt ends the wait of pytest, not the call.       *)
(***************************************************************************)
EXTENDS Naturals, FiniteSets, Sequences, Functions

CONSTANTS
  MaxCalls,    \* bound: the calls that pytest makes
  MaxErrors    \* bound: the exceptions of callbacks

VARIABLES
  calls,       \* of each call made: its kind, its answer, and what pytest saw of it
  awaited,     \* the call that run_until_complete() waits for, or 0
  runner,      \* the runner task: its state, and the call it runs, or 0
  line,        \* the items of the stream, one that was handed over included
  caught,      \* _exceptions
  errors       \* history: of each error of a callback, the call during which it came up,
               \* and the call that it came out of, or 0

runnerVars == <<calls, awaited, runner, line, caught, errors>>

RunnerInit ==
  /\ calls = <<>> /\ awaited = 0 /\ line = <<>> /\ caught = <<>> /\ errors = <<>>
  /\ runner = [state |-> "none", call |-> 0]   \* none, new, waiting, busy, dead

\* Items the stream takes: its buffer, and the hand of a receiver that waits
Accepts == Len(line) < IF runner.state = "waiting" THEN 2 ELSE 1

\* send_nowait() raises once the runner has died, or over a call that still runs.
MakeCall(kind) ==
  /\ awaited = 0 /\ Len(calls) < MaxCalls
  /\ LET id == Len(calls) + 1
         taken == runner.state # "dead" /\ Accepts
     IN /\ calls' = Append(calls, [kind |-> kind, seen |-> "awaits",
                                   answer |-> IF taken THEN "pending" ELSE "refused"])
        /\ awaited' = id
        /\ line' = IF taken THEN Append(line, id) ELSE line
  /\ runner' = IF runner.state = "none" THEN [runner EXCEPT !.state = "new"] ELSE runner
  /\ UNCHANGED <<caught, errors>>

-----------------------------------------------------------------------------
(* The loop, which runs while pytest waits *)

RunnerWaits ==
  /\ awaited # 0 /\ runner.state = "new" /\ line = <<>>
  /\ runner' = [runner EXCEPT !.state = "waiting"]
  /\ UNCHANGED <<calls, awaited, line, caught, errors>>

RunnerTakes ==
  /\ awaited # 0 /\ runner.state \in {"new", "waiting"} /\ line # <<>>
  /\ runner' = [state |-> "busy", call |-> Head(line)]
  /\ line' = Tail(line)
  /\ UNCHANGED <<calls, awaited, caught, errors>>

\* A mutant: an OutcomeException ends the runner, as other BaseExceptions do.
DeadlyAll == {"outcome", "cancelled", "exit"}
\* What ends the runner as well as the call: no Exception of a test does, and neither
\* does an OutcomeException.
Deadly == {"cancelled", "exit"}

\* The coroutine ends: with a value (the teardown of a generator, if that yields once
\* more) or, at the end of a generator, StopAsyncIteration; with an Exception; with
\* the OutcomeException of pytest.skip() and the like, which is none; with a
\* CancelledError; with a SystemExit or the like, which goes through the loop to
\* pytest as well.
CallEnds(answer) ==
  /\ awaited # 0 /\ runner.state = "busy"
  /\ calls[runner.call].kind # "teardown" => answer # "stop"
  /\ calls' = [id \in DOMAIN calls |->
       [calls[id] EXCEPT !.answer = IF id = runner.call THEN answer ELSE @,
                         !.seen = IF id = awaited /\ answer = "exit" THEN "interrupted" ELSE @]]
  /\ awaited' = IF answer = "exit" THEN 0 ELSE awaited
  /\ runner' = [state |-> IF answer \in Deadly THEN "dead" ELSE "new", call |-> 0]
  /\ line' = IF answer \in Deadly THEN <<>> ELSE line
  /\ UNCHANGED <<caught, errors>>

\* _exception_handler()
CallbackFails ==
  /\ awaited # 0 /\ Len(errors) < MaxErrors
  /\ errors' = Append(errors, [during |-> awaited, outOf |-> 0])
  /\ caught' = Append(caught, Len(errors) + 1)
  /\ UNCHANGED <<calls, awaited, runner, line>>

-----------------------------------------------------------------------------
\* A mutant: errors are kept for the next call.
KeptOnFailure(id) == calls[id].answer \in {"value", "stop"}
\* Whether _raise_async_exceptions() is reached: run_test() gets there after any
\* Exception, a fixture only if it did not fail.
Raises(id) ==
  LET answer == calls[id].answer IN
  CASE calls[id].kind = "test" -> answer \in {"value", "error", "refused"}
    [] calls[id].kind = "fixture" -> answer = "value"
    [] calls[id].kind = "teardown" -> answer = "stop"

\* pytest goes on, having seen what came of the call.
Sees(what) ==
  /\ calls' = [calls EXCEPT ![awaited] = [calls[awaited] EXCEPT !.seen = what]]
  /\ awaited' = 0

\* An error that was caught comes out of the call.
Surfaced(n) == [errors[n] EXCEPT !.outOf = IF n \in Range(caught) THEN awaited ELSE errors[n].outOf]

\* A generator that yielded once more in its teardown
YieldsAgain(id) == calls[id].kind = "teardown" /\ calls[id].answer = "value"

\* The future is done, and pytest goes on; everything caught comes out at once.
CallReturns ==
  /\ awaited # 0 /\ calls[awaited].answer # "pending" /\ ~YieldsAgain(awaited)
  /\ IF Raises(awaited)
     THEN /\ errors' = [n \in DOMAIN errors |-> Surfaced(n)]
          /\ caught' = <<>>
          /\ Sees(IF calls[awaited].answer \notin {"error", "refused"} /\ caught = <<>>
                  THEN "passed" ELSE "failed")
     ELSE Sees("failed") /\ UNCHANGED <<caught, errors>>
  /\ UNCHANGED <<runner, line>>

\* That generator is closed, outside of the runner task; then there is a RuntimeError.
GeneratorClosed ==
  /\ awaited # 0 /\ YieldsAgain(awaited)
  /\ Sees("failed")
  /\ UNCHANGED <<runner, line, caught, errors>>

\* KeyboardInterrupt
Interrupt ==
  /\ awaited # 0
  /\ Sees("interrupted")
  /\ UNCHANGED <<runner, line, caught, errors>>

RunnerNext ==
  \/ \E kind \in {"fixture", "test", "teardown"} : MakeCall(kind)
  \/ RunnerWaits \/ RunnerTakes
  \/ \E answer \in {"value", "stop", "error", "outcome", "cancelled", "exit"} : CallEnds(answer)
  \/ CallbackFails \/ CallReturns \/ GeneratorClosed \/ Interrupt

-----------------------------------------------------------------------------
\* The ends of a call that let no error of a callback out
Withheld(kind) ==
  {"cancelled", "outcome"} \union
    CASE kind = "test" -> {} [] kind = "fixture" -> {"error", "refused"}
      [] kind = "teardown" -> {"value", "error", "refused"}

\* An error of a callback comes out once, of the call during which it came up or of
\* the first one after it that does not withhold it: those do whose end pytest did
\* not see, tests that were cancelled or skipped, and fixtures that failed.  Until
\* then no call passes.  And no Exception of a call, nor an OutcomeException, makes
\* the runner refuse the calls after it.
ErrorsSurface ==
  /\ \A n \in DOMAIN errors :
       LET e == errors[n] IN
       /\ e.outOf = 0 <=> n \in Range(caught)
       /\ e.outOf # 0 => e.during <= e.outOf
       /\ \A id \in DOMAIN calls :
            e.during <= id /\ (id < e.outOf \/ e.outOf = 0) =>
              /\ calls[id].seen # "passed"
              /\ calls[id].seen = "failed" => calls[id].answer \in Withheld(calls[id].kind)
  /\ (\A id \in DOMAIN calls : calls[id].seen # "interrupted" /\ calls[id].answer # "cancelled")
     => runner.state # "dead" /\ \A id \in DOMAIN calls : calls[id].answer # "refused"
=============================================================================
