------------------------------ MODULE Deadline ------------------------------
(***************************************************************************)
(* The deadlines of the cancel scopes of one task: fail_after(),           *)
(* move_on_after(), the timers of the scopes, and the effective deadline.  *)
(* The loop calls a timer when its time is less than a clock resolution    *)
(* away, so that _timeout() may be called too early.  How a cancellation   *)
(* reaches the task is the matter of CancelScope.                          *)
(***************************************************************************)
EXTENDS Integers, FiniteSets, Sequences

CONSTANTS
  Scope,
  MaxTime,      \* bound: the clock
  MaxDelay,     \* bound: the delays and how far a deadline is moved
  Resolution    \* of the clock of the loop

VARIABLES
  now,
  scopes,   \* of each: state, deadline, shield, cancel_called, _timeout_handle, ...
  chain,    \* the scopes that the task is in, the innermost one last
  timers,   \* the timers in the loop that are not cancelled
  cut       \* whether a CancelledError is on its way out of the scopes

deadlineVars == <<now, scopes, chain, timers, cut>>

Never == MaxTime + MaxDelay + 1     \* math.inf
Cancelled == -1                     \* -math.inf
NoTimer == [scope |-> "none", at |-> Never]

DeadlineInit ==
  /\ now = 0 /\ chain = <<>> /\ timers = {} /\ cut = FALSE
  /\ scopes = [s \in Scope |->
       [state |-> "none", kind |-> "plain", deadline |-> Never, shield |-> FALSE,
        called |-> FALSE, handle |-> NoTimer, expired |-> FALSE, early |-> FALSE,
        caught |-> FALSE, raised |-> FALSE]]

\* cancel() by a timer or by _timeout(), when it is not too late for it
Expire(r) ==
  IF r.called THEN r
  ELSE [r EXCEPT !.called = TRUE, !.handle = NoTimer, !.expired = TRUE,
                 !.early = now < r.deadline]

\* A mutant: the timer is trusted to come at its time.
TimeoutUnchecked(r, id) ==
  IF r.deadline = Never THEN r
  ELSE IF r.handle # NoTimer \/ now >= r.deadline THEN Expire(r)
       ELSE [r EXCEPT !.handle = [scope |-> id, at |-> r.deadline]]
\* _timeout(): cancel() once the deadline has passed, or else a timer.
Timeout(r, id) ==
  IF r.deadline = Never THEN r
  ELSE IF now >= r.deadline THEN Expire(r)
       ELSE [r EXCEPT !.handle = [scope |-> id, at |-> r.deadline]]

\* The timers once the scope has gone from its old state to r
TimersAfter(id, r) ==
  (timers \ {scopes[id].handle}) \cup (IF r.handle = NoTimer THEN {} ELSE {r.handle})

\* __enter__()
Enter(s, r) ==
  LET entered == [Timeout(r, s) EXCEPT !.state = "active"]
  IN /\ scopes' = [scopes EXCEPT ![s] = entered]
     /\ timers' = TimersAfter(s, entered)
     /\ chain' = Append(chain, s)

\* The deadline is counted from this call; fail_after() enters the scope at once.
Create(s, kind, delay, shield) ==
  /\ scopes[s].state = "none" /\ ~cut
  /\ LET made == [scopes[s] EXCEPT !.state = "made", !.kind = kind, !.shield = shield,
                    !.deadline = IF delay = Never THEN Never ELSE now + delay]
     IN IF kind = "fail_after" THEN Enter(s, made)
        ELSE scopes' = [scopes EXCEPT ![s] = made] /\ UNCHANGED <<chain, timers>>
  /\ UNCHANGED <<now, cut>>

\* A scope that was left may be entered again: only _active is tested.
EnterScope(s) ==
  /\ scopes[s].kind = "move_on_after" /\ scopes[s].state \in {"made", "left"} /\ ~cut
  /\ Enter(s, scopes[s])
  /\ UNCHANGED <<now, cut>>

\* A mutant: the timer for the earlier deadline stays.
TimerKept(r) == r
TimerOff(r) == [r EXCEPT !.handle = NoTimer]

\* The setter of deadline
SetDeadline(s, deadline) ==
  /\ scopes[s].state # "none" /\ ~cut
  /\ LET moved == TimerOff([scopes[s] EXCEPT !.deadline = deadline, !.expired = FALSE])
         r == IF moved.state = "active" /\ ~moved.called THEN Timeout(moved, s) ELSE moved
     IN scopes' = [scopes EXCEPT ![s] = r] /\ timers' = TimersAfter(s, r)
  /\ UNCHANGED <<now, chain, cut>>

Cancel(s) ==
  /\ scopes[s].state # "none" /\ ~scopes[s].called
  /\ LET r == [scopes[s] EXCEPT !.called = TRUE, !.handle = NoTimer]
     IN scopes' = [scopes EXCEPT ![s] = r] /\ timers' = TimersAfter(s, r)
  /\ UNCHANGED <<now, chain, cut>>

TimerFires(t) ==
  /\ t \in timers /\ t.at <= now + Resolution
  /\ LET r == Timeout(scopes[t.scope], t.scope)
     IN /\ scopes' = [scopes EXCEPT ![t.scope] = r]
        /\ timers' = (timers \ {t}) \cup
                       (IF r.handle = NoTimer \/ now >= r.deadline THEN {} ELSE {r.handle})
  /\ UNCHANGED <<now, chain, cut>>

Tick ==
  /\ now < MaxTime
  /\ now' = now + 1
  /\ UNCHANGED <<scopes, chain, timers, cut>>

-----------------------------------------------------------------------------
\* The scopes, up to the first shield, whose cancellation the task sees in the first n
\* scopes of the chain
Visible(n) ==
  {i \in 1..n : \A j \in (i+1)..n : ~scopes[chain[j]].shield}

EffectivelyCancelled(n) == \E i \in Visible(n) : scopes[chain[i]].called

\* current_effective_deadline(), from the innermost scope outwards
EffectiveDeadline ==
  LET over[n \in 0..Len(chain)] ==
        IF n = 0 THEN Never
        ELSE LET r == scopes[chain[n]]
                 outer == IF r.shield THEN Never ELSE over[n - 1]
             IN IF r.called THEN Cancelled
                ELSE IF r.deadline < outer THEN r.deadline ELSE outer
  IN over[Len(chain)]

\* __exit__(), with or without a CancelledError of the scopes, and what fail_after()
\* does after it
ExitScope(cutHere) ==
  /\ chain # <<>>
  /\ cut => cutHere
  /\ cutHere => EffectivelyCancelled(Len(chain))
  /\ LET s == chain[Len(chain)]
         parents == ~scopes[s].shield /\ EffectivelyCancelled(Len(chain) - 1)
         caught == cutHere /\ scopes[s].called /\ ~parents
         r == [TimerOff(scopes[s]) EXCEPT !.state = "left", !.caught = caught,
                 !.raised = scopes[s].kind = "fail_after" /\ caught /\ now >= scopes[s].deadline]
     IN /\ scopes' = [scopes EXCEPT ![s] = r]
        /\ timers' = TimersAfter(s, r)
        /\ cut' = (cutHere /\ ~caught)
  /\ chain' = SubSeq(chain, 1, Len(chain) - 1)
  /\ UNCHANGED now

DeadlineNext ==
  \/ \E s \in Scope, kind \in {"fail_after", "move_on_after"},
          delay \in 0..MaxDelay \cup {Never}, shield \in BOOLEAN : Create(s, kind, delay, shield)
  \/ \E s \in Scope : EnterScope(s) \/ Cancel(s)
  \/ \E s \in Scope, deadline \in 0..(MaxTime + MaxDelay) \cup {Never} : SetDeadline(s, deadline)
  \/ \E t \in timers : TimerFires(t)
  \/ \E cutHere \in BOOLEAN : ExitScope(cutHere)
  \/ Tick

-----------------------------------------------------------------------------
\* A scope has a timer, for its present deadline, while the task is in it and it may
\* still be cancelled, and none once it was left; it is never cancelled before its
\* deadline but by a call; fail_after() raises TimeoutError whenever its deadline, and
\* nothing around it, cut its block; and no cancellation reaches the task before the
\* effective deadline.
TimersFollowDeadlines ==
  /\ \A s \in Scope :
       /\ LET live == {t.at : t \in {u \in timers : u.scope = s}}
          IN /\ live \subseteq (IF scopes[s].state = "active" THEN {scopes[s].deadline} ELSE {})
             /\ scopes[s].state = "active" /\ ~scopes[s].called /\ live = {} =>
                  scopes[s].deadline = Never
       /\ ~scopes[s].early
       /\ scopes[s].state = "left" /\ scopes[s].kind = "fail_after" =>
            (scopes[s].caught /\ scopes[s].expired => scopes[s].raised)
  /\ EffectivelyCancelled(Len(chain)) <=> EffectiveDeadline = Cancelled
  /\ \A i \in Visible(Len(chain)) : EffectiveDeadline <= scopes[chain[i]].deadline
=============================================================================
