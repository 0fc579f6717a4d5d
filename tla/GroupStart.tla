----------------------------- MODULE GroupStart -----------------------------
(***************************************************************************)
(* TaskGroup.start(): a caller spawns a child into a group that is active  *)
(* throughout, and waits on a future until the child calls started(), ends *)
(* or fails.  A cancelled caller cancels the child and waits for its end.  *)
(* Each call is named by its caller.                                       *)
(***************************************************************************)
EXTENDS Naturals

CONSTANTS
  Caller,         \* the tasks that call start(), each once
  NativeCaller    \* those that asyncio's own Task.cancel() is called on

VARIABLES
  call,       \* each call: its place, future, child and outcome
  groupOff,   \* the scope of the group is cancelled
  recorded    \* the calls whose child is in _exceptions

startVars == <<call, groupOff, recorded>>

StartInit ==
  /\ call = [c \in Caller |->
       [place |-> "idle",      \* idle, awaiting the future, joining the child, done
        future |-> "pending",  \* result, error, cancelError or, itself, cancelled
        must |-> FALSE,        \* the next step of the caller throws
        child |-> "none",      \* new, suspended, ended, gone once task_done has run
        childMust |-> FALSE,   \* the next step of the child throws
        exc |-> "none",        \* what the child ended in
        outcome |-> "none"]]   \* what start() returned or raised
  /\ groupOff = FALSE
  /\ recorded = {}

Ended(r) == r.child \in {"ended", "gone"}

Begin(c) ==
  /\ call[c].place = "idle"
  /\ call' = [call EXCEPT ![c].place = "awaiting", ![c].child = "new"]
  /\ UNCHANGED <<groupOff, recorded>>

-----------------------------------------------------------------------------
\* started() on the future; the second call raises in the child.
Started(future) == IF future = "pending" THEN "result" ELSE future
StartedFails(future) == future \notin {"pending", "cancelled"}

\* One step of the child, which may call started() and then suspend or end with
\* no switch in between.  A cancelled child cleans up and ends, in an error of
\* its own perhaps; one that is cancelled before its first step never runs.
ChildStep(c, callsStarted, end) ==
  LET r == call[c]
      fails == callsStarted /\ StartedFails(r.future)
  IN /\ r.child \in {"new", "suspended"}
     /\ r.childMust => end # "none"
     /\ r.childMust /\ r.child = "new" => ~callsStarted /\ end = "cancelled"
     /\ end = "cancelled" => r.childMust
     /\ fails => end = "error"
     /\ call' = [call EXCEPT ![c] =
          [r EXCEPT !.child = IF end = "suspend" THEN "suspended" ELSE "ended",
                    !.childMust = FALSE,
                    !.exc = IF end = "suspend" THEN "none" ELSE end,
                    !.future = IF callsStarted THEN Started(@) ELSE @]]
     /\ UNCHANGED <<groupOff, recorded>>

\* A mutant: the future is looked at only for being done.
CallerThere(future) == FALSE

\* The caller has been cancelled and takes care of the child itself.
CallerGone(future) == future = "cancelled"

\* task_done with a status future: before started() the exception belongs to the
\* caller, after it to the group, which it cancels.
StartTaskDone(c) ==
  LET r == call[c]
      toGroup == r.exc # "ok" /\ ~CallerGone(r.future) /\ r.future # "pending"
  IN /\ r.child = "ended"
     /\ call' = [call EXCEPT ![c].child = "gone",
                             ![c].future =
          IF r.future # "pending" THEN r.future
          ELSE IF r.exc = "cancelled" THEN "cancelError" ELSE "error"]
     /\ recorded' = IF toGroup /\ r.exc = "error" THEN recorded \union {c} ELSE recorded
     /\ groupOff' = (groupOff \/ toGroup)

-----------------------------------------------------------------------------
\* A mutant: the handler cancels the child and does not wait for it.
CancelOnly(r) ==
  [r EXCEPT !.place = "done", !.must = FALSE, !.outcome = "cancelled", !.childMust = ~Ended(r)]

\* The CancelledError of the caller: cancel the child and wait until it has ended;
\* its error takes the place of the cancellation.
CancelAndJoin(r) ==
  IF Ended(r)
  THEN [r EXCEPT !.place = "done", !.must = FALSE,
                 !.outcome = IF r.exc = "error" THEN "error" ELSE "cancelled"]
  ELSE [r EXCEPT !.place = "joining", !.must = FALSE, !.childMust = TRUE]

AwaitStepped(c) ==
  LET r == call[c] IN
  /\ r.place = "awaiting" /\ r.future # "pending"
  /\ call' = [call EXCEPT ![c] =
       IF r.must \/ r.future \in {"cancelled", "cancelError"} THEN CancelAndJoin(r)
       ELSE [r EXCEPT !.place = "done",
                      !.outcome = IF r.future = "result" THEN "value" ELSE "error"]]
  /\ UNCHANGED <<groupOff, recorded>>

\* The caller is woken after task_done; a cancellation that arrives in between
\* is suppressed, and the error of the child with it.
JoinStepped(c) ==
  LET r == call[c] IN
  /\ r.place = "joining" /\ r.child = "gone"
  /\ call' = [call EXCEPT ![c] =
       [r EXCEPT !.place = "done", !.must = FALSE,
                 !.outcome = IF r.exc = "error" /\ ~r.must THEN "error" ELSE "cancelled"]]
  /\ UNCHANGED <<groupOff, recorded>>

-----------------------------------------------------------------------------
\* A scope around the caller is cancelled: the group's, or one of its own; what
\* is awaited is the future itself.  A done future keeps the cancellation off,
\* and the shield does while the caller joins.
CancelCaller(c) ==
  /\ call[c].place = "awaiting" /\ call[c].future = "pending"
  /\ call' = [call EXCEPT ![c].future = "cancelled"]
  /\ UNCHANGED <<groupOff, recorded>>

CancelGroup ==
  /\ ~groupOff
  /\ groupOff' = TRUE
  /\ UNCHANGED <<call, recorded>>

DeliverToChild(c) ==
  /\ groupOff /\ call[c].child = "suspended" /\ ~call[c].childMust
  /\ call' = [call EXCEPT ![c].childMust = TRUE]
  /\ UNCHANGED <<groupOff, recorded>>

\* Task.cancel() on the caller cancels what it awaits: the future, or the child.
NativeCancelCaller(c) ==
  LET r == call[c] IN
  /\ c \in NativeCaller /\ r.place \in {"awaiting", "joining"}
  /\ call' = [call EXCEPT ![c] =
       CASE r.place = "awaiting" /\ r.future = "pending" -> [r EXCEPT !.future = "cancelled"]
         [] r.place = "joining" /\ ~Ended(r) -> [r EXCEPT !.childMust = TRUE]
         [] OTHER -> [r EXCEPT !.must = TRUE]]
  /\ UNCHANGED <<groupOff, recorded>>

StartNext ==
  \/ CancelGroup
  \/ \E c \in Caller :
       \/ Begin(c) \/ StartTaskDone(c) \/ AwaitStepped(c) \/ JoinStepped(c)
       \/ CancelCaller(c) \/ DeliverToChild(c) \/ NativeCancelCaller(c)
       \/ \E s \in BOOLEAN, e \in {"suspend", "ok", "error", "cancelled"} : ChildStep(c, s, e)

-----------------------------------------------------------------------------
\* The error of a child comes out once: of start() if the child had not called
\* started(), of the group if it had; a caller that is cancelled meanwhile takes
\* it over.  Asyncio's own cancel() may drop or repeat it.
ChildErrorOnce ==
  \A c \in Caller \ NativeCaller :
    call[c].child = "gone" /\ call[c].exc = "error" /\ call[c].place = "done"
      => (c \in recorded <=> call[c].outcome # "error")

\* start() that does not return a value leaves no child behind, whoever cancels
\* the caller and when.
NoChildLeft ==
  \A c \in Caller :
    call[c].place = "done" /\ call[c].outcome # "value" => Ended(call[c])
=============================================================================
