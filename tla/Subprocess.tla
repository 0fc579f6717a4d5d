----------------------------- MODULE Subprocess -----------------------------
(***************************************************************************)
(* run_process(), and aclose() of the Process it opens: two tasks drain    *)
(* the output of the process while the caller writes the input and waits.  *)
(* The process reads and writes as it likes and ends at any time.  The     *)
(* scope around the call may be cancelled at any time.                     *)
(***************************************************************************)
EXTENDS Naturals

CONSTANTS
  Outputs,     \* stdout and stderr
  MaxInput,    \* bound: what the call has to write
  MaxOutput,   \* bound: what the process writes to each output
  PipeSize     \* what an output holds until it is drained

VARIABLES
  running,   \* the call: its place, what it raises, whether it is cancelled
  child,     \* the process: whether it runs, reads, was killed, and what it wrote
  feed,      \* input that the process has not read
  drains     \* drain_stream() of each output: its state, and what it got

processVars == <<running, child, feed, drains>>

\* A mutant: the output is drained after the input has been written.
DrainsLater == [o \in Outputs |-> [state |-> IF MaxInput > 0 THEN "none" ELSE "running", got |-> 0]]
DrainsStarted == [o \in Outputs |-> [state |-> "running", got |-> 0]]

ProcessInit ==
  /\ running = [place |-> IF MaxInput > 0 THEN "sending" ELSE "waiting",
                raises |-> "nothing", off |-> FALSE]
  /\ child = [runs |-> TRUE, reads |-> TRUE, killed |-> FALSE, wrote |-> [o \in Outputs |-> 0]]
  /\ feed = MaxInput
  /\ drains = DrainsStarted

GoTo(place) == running' = [running EXCEPT !.place = place]
Fail(place, how) == running' = [running EXCEPT !.place = place, !.raises = how]
Unread(o) == child.wrote[o] - drains[o].got

-----------------------------------------------------------------------------
(* The process *)

\* The process reads, or closes its end of the pipe.
ChildReads ==
  /\ child.runs /\ child.reads /\ ~child.killed
  /\ \/ feed > 0 /\ feed' = feed - 1 /\ UNCHANGED child
     \/ child' = [child EXCEPT !.reads = FALSE] /\ UNCHANGED feed
  /\ UNCHANGED <<running, drains>>

ChildWrites(o) ==
  /\ child.runs /\ ~child.killed /\ child.wrote[o] < MaxOutput /\ Unread(o) < PipeSize
  /\ child' = [child EXCEPT !.wrote[o] = @ + 1]
  /\ UNCHANGED <<running, feed, drains>>

ChildEnds ==
  /\ child.runs
  /\ child' = [child EXCEPT !.runs = FALSE]
  /\ UNCHANGED <<running, feed, drains>>

-----------------------------------------------------------------------------
(* The task group of the call *)

Drain(o) ==
  /\ drains[o].state = "running" /\ Unread(o) > 0
  /\ drains' = [drains EXCEPT ![o].got = @ + 1]
  /\ UNCHANGED <<running, child, feed>>

\* EndOfStream, or a cancellation once the body of the group has raised
DrainEnds(o) ==
  /\ drains[o].state = "running"
  /\ \/ ~child.runs /\ Unread(o) = 0
     \/ running.place = "joining" /\ running.raises # "nothing"
  /\ drains' = [drains EXCEPT ![o].state = "ended"]
  /\ UNCHANGED <<running, child, feed>>

\* send(): drain() waits until the process has read, and fails once it reads no more.
SendsInput ==
  /\ running.place = "sending"
  /\ \/ feed < MaxInput /\ GoTo("closing input")
     \/ ~(child.runs /\ child.reads) /\ Fail("joining", "error")
  /\ drains' = [o \in Outputs |->
       IF drains[o].state = "none" THEN [drains[o] EXCEPT !.state = "running"] ELSE drains[o]]
  /\ UNCHANGED <<child, feed>>

\* The checkpoint of aclose() of the input
InputClosed ==
  /\ running.place = "closing input" /\ GoTo("waiting")
  /\ UNCHANGED <<child, feed, drains>>

ChildAwaited ==
  /\ running.place = "waiting" /\ ~child.runs /\ GoTo("joining")
  /\ UNCHANGED <<child, feed, drains>>

BodyCancelled ==
  /\ running.off /\ running.place \in {"sending", "closing input", "waiting"}
  /\ Fail("joining", "cancelled")
  /\ UNCHANGED <<child, feed, drains>>

\* __aexit__ of the group is interrupted as well.
JoinCancelled ==
  /\ running.off /\ running.place = "joining" /\ running.raises = "nothing"
  /\ Fail("joining", "cancelled")
  /\ UNCHANGED <<child, feed, drains>>

\* A mutant: the process has ended, so there is nothing more to read.
JoinedByExit == ~child.runs
Joined == \A o \in Outputs : drains[o].state # "running"

\* The group closes and aclose() begins, under its shield.
GroupJoined ==
  /\ running.place = "joining" /\ Joined
  /\ GoTo("closing")
  /\ UNCHANGED <<child, feed, drains>>

-----------------------------------------------------------------------------
(* Process.aclose() *)

\* The streams are closed, and the shield is taken away for wait().
StreamsClosed ==
  /\ running.place = "closing"
  /\ GoTo("last wait")
  /\ UNCHANGED <<child, feed, drains>>

\* A mutant: kill() is enough.
KilledAndGone == "done"
KilledAndAwaited == "killed"

\* wait() is cancelled: the process is killed and awaited under the shield.
LastWaitCancelled ==
  /\ running.place = "last wait" /\ running.off /\ child.runs
  /\ Fail(KilledAndAwaited, "cancelled")
  /\ child' = [child EXCEPT !.killed = TRUE]
  /\ UNCHANGED <<feed, drains>>

CallOver ==
  /\ running.place \in {"last wait", "killed"} /\ ~child.runs /\ GoTo("done")
  /\ UNCHANGED <<child, feed, drains>>

ScopeOff ==
  /\ ~running.off /\ running.place # "done"
  /\ running' = [running EXCEPT !.off = TRUE]
  /\ UNCHANGED <<child, feed, drains>>

ProcessNext ==
  \/ ChildReads \/ ChildEnds
  \/ \E o \in Outputs : ChildWrites(o) \/ Drain(o) \/ DrainEnds(o)
  \/ SendsInput \/ InputClosed \/ ChildAwaited \/ BodyCancelled \/ JoinCancelled \/ GroupJoined
  \/ StreamsClosed \/ LastWaitCancelled \/ CallOver \/ ScopeOff

-----------------------------------------------------------------------------
\* run_process() leaves no process behind, however it ends; it returns the whole
\* output; and while it waits for a live process both outputs are being drained, so
\* that neither waits for the other.
ProcessReaped ==
  /\ running.place = "done" =>
       /\ ~child.runs
       /\ running.raises = "nothing" => \A o \in Outputs : drains[o].got = child.wrote[o]
  /\ running.place \in {"sending", "closing input", "waiting"} /\ child.runs =>
       \A o \in Outputs : drains[o].state = "running"
=============================================================================
