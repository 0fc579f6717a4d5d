---------------------------- MODULE PortalContext ----------------------------
(***************************************************************************)
(* wrap_async_context_manager() of a BlockingPortal: a task in the portal  *)
(* enters an asynchronous context manager, waits for the thread to leave   *)
(* the block, and exits it.  Each context has a thread of its own; the     *)
(* group of the portal may be cancelled at any time.  (BlockingPortal has   *)
(* the calls themselves.)                                                  *)
(***************************************************************************)
EXTENDS Naturals

CONSTANT Context

VARIABLES
  block,     \* the threads: where each is, and the exception it leaves the block with
  body,      \* run_async_cm of each: its place, and what __aexit__ was given
  told,      \* _exit_event is set
  hub,       \* the portal: open, stopping; waiting or checkpoint, in which its group
             \* is left; closed, and gone with its loop
  hubOff     \* its group is cancelled

contextVars == <<block, body, told, hub, hubOff>>

ContextInit ==
  /\ block = [c \in Context |->
       [place |-> "out",      \* out, asking, entering, inside, telling, posted, leaving, left,
                              \* refused
        exc |-> "none"]]      \* _exit_exc_info
  /\ body = [c \in Context |->
       [place |-> "none",     \* none, entering, waiting, exiting, over
        entered |-> "pending",    \* _enter_future
        given |-> "nothing",
        late |-> FALSE]]          \* history: spawned during the last checkpoint
  /\ told = {} /\ hub = "open" /\ hubOff = FALSE

BlockGoes(c, place) == block' = [block EXCEPT ![c].place = place]
BodyGoes(c, place) == body' = [body EXCEPT ![c].place = place]
Active == hub \notin {"closed", "gone"}   \* the group takes new tasks

-----------------------------------------------------------------------------
(* The thread *)

\* __enter__ up to the wait for the loop; a portal that has stopped refuses.
EnterBlock(c) ==
  /\ block[c].place = "out"
  /\ BlockGoes(c, IF hub = "open" THEN "asking" ELSE "refused")
  /\ UNCHANGED <<body, told, hub, hubOff>>

InsideBlock(c) ==
  /\ block[c].place = "entering" /\ body[c].entered # "pending"
  /\ BlockGoes(c, IF body[c].entered = "value" THEN "inside" ELSE "left")
  /\ UNCHANGED <<body, told, hub, hubOff>>

\* __exit__: the exception of the block is noted, then the portal is called, which
\* refuses once it has stopped, and the end of the task is waited for.
ExitBlock(c) ==
  /\ block[c].place = "inside"
  /\ \E exc \in {"none", "error"} :
       block' = [block EXCEPT ![c] = [place |-> "telling", exc |-> exc]]
  /\ UNCHANGED <<body, told, hub, hubOff>>

TellBody(c) ==
  /\ block[c].place = "telling"
  /\ BlockGoes(c, IF hub = "open" THEN "posted" ELSE "refused")
  /\ UNCHANGED <<body, told, hub, hubOff>>

LeaveBlock(c) ==
  /\ block[c].place = "leaving" /\ body[c].place = "over"
  /\ BlockGoes(c, "left")
  /\ UNCHANGED <<body, told, hub, hubOff>>

-----------------------------------------------------------------------------
(* The loop *)

\* The posted call: it spawns run_async_cm, which raises in a group that is closed;
\* a loop that is gone runs it no more.
BodySpawned(c) ==
  /\ block[c].place = "asking" /\ hub # "gone"
  /\ IF Active
     THEN /\ BlockGoes(c, "entering")
          /\ body' = [body EXCEPT ![c].place = "entering", ![c].late = (hub = "checkpoint")]
     ELSE BlockGoes(c, "refused") /\ UNCHANGED body
  /\ UNCHANGED <<told, hub, hubOff>>

\* The posted set() of the event, a task as well
EventSet(c) ==
  /\ block[c].place = "posted" /\ hub # "gone"
  /\ IF Active THEN told' = told \union {c} /\ BlockGoes(c, "leaving")
     ELSE BlockGoes(c, "refused") /\ UNCHANGED told
  /\ UNCHANGED <<body, hub, hubOff>>

\* __aenter__() ends, with a value, in an error, or cancelled.
BodyEntered(c) ==
  /\ body[c].place = "entering"
  /\ \/ body' = [body EXCEPT ![c].place = "waiting", ![c].entered = "value"]
     \/ body' = [body EXCEPT ![c].place = "over", ![c].entered = "error"]
  /\ UNCHANGED <<block, told, hub, hubOff>>

\* A mutant: a wait that is cancelled ends the task.
GivenIfTold(c) == IF c \in told THEN block[c].exc ELSE "nothing"
\* The exception that __aexit__() is given, whatever has ended the wait
Given(c) == block[c].exc

\* The wait for the event is over, or cancelled, by the group or by the loop that is
\* about to end.
BodyExits(c) ==
  /\ body[c].place = "waiting" /\ (c \in told \/ hubOff \/ hub = "closed")
  /\ body' = [body EXCEPT ![c].place = "exiting", ![c].given = Given(c)]
  /\ UNCHANGED <<block, told, hub, hubOff>>

BodyOver(c) ==
  /\ body[c].place = "exiting"
  /\ BodyGoes(c, "over")
  /\ UNCHANGED <<block, told, hub, hubOff>>

StopHub(cancelRemaining) ==
  /\ hub = "open" /\ hub' = "stopping"
  /\ hubOff' = (hubOff \/ cancelRemaining)
  /\ UNCHANGED <<block, body, told>>

\* __aexit__ of the portal, which waits for the tasks that it finds, or runs a
\* checkpoint when it finds none; and the end of the loop.
CloseHub ==
  LET idle == \A c \in Context : body[c].place \in {"none", "over"} IN
  /\ \/ hub = "stopping" /\ \E next \in {"waiting", "checkpoint"} :
          (next = "checkpoint" => idle) /\ hub' = next
     \/ hub \in {"waiting", "closed"} /\ idle
        /\ hub' = IF hub = "waiting" THEN "closed" ELSE "gone"
     \/ hub = "checkpoint" /\ hub' = "closed"
  /\ UNCHANGED <<block, body, told, hubOff>>

\* Another task of the portal fails.
HubFails ==
  /\ Active /\ ~hubOff /\ hubOff' = TRUE
  /\ UNCHANGED <<block, body, told, hub>>

ContextNext ==
  \/ \E c \in Context :
       \/ EnterBlock(c) \/ InsideBlock(c) \/ ExitBlock(c) \/ TellBody(c) \/ LeaveBlock(c)
       \/ BodySpawned(c) \/ EventSet(c) \/ BodyEntered(c) \/ BodyExits(c) \/ BodyOver(c)
  \/ \E cancelRemaining \in BOOLEAN : StopHub(cancelRemaining)
  \/ CloseHub \/ HubFails

-----------------------------------------------------------------------------
\* A context that was entered is exited before its task is over, with the exception
\* of the block unless a cancellation was faster; a thread in __enter__ or __exit__
\* that the loop has answered waits for a task that is to give it more, and no task
\* outlives the portal but one that was spawned in its last checkpoint.  A thread
\* whose call was posted to a loop that ended before it ran it waits for ever; this
\* is the code's.
ContextsExited ==
  /\ \A c \in Context :
       /\ body[c].place = "over" /\ body[c].entered = "value" => body[c].given # "nothing"
       /\ body[c].given # "nothing" /\ ~hubOff /\ ~body[c].late =>
            body[c].given = block[c].exc /\ c \in told
       /\ block[c].place = "left" => body[c].place = "over"
       /\ block[c].place = "entering" => body[c].place # "none"
       /\ block[c].place = "entering" /\ body[c].place = "over" => body[c].entered # "pending"
       /\ block[c].place = "leaving" => c \in told /\ body[c].entered = "value"
  /\ ~Active => \A c \in Context : body[c].place \in {"none", "over"} \/ body[c].late
=============================================================================
