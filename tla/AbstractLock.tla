---------------------------- MODULE AbstractLock ----------------------------
(***************************************************************************)
(* What a lock promises: at most one holder; a lock that is given up goes  *)
(* to the contender that has stood in line longest; nobody passes a line.  *)
(* The line is the order of its contenders: <<t, u>> is in it when t and u *)
(* stand in line and u does not stand before t.                            *)
(***************************************************************************)
CONSTANTS Task, NoTask

VARIABLES holder, line
vars == <<holder, line>>

Init == holder = NoTask /\ line = {}

InLine == {t \in Task : <<t, t>> \in line}

\* The line without t
Left(t) == {p \in line : p[1] # t /\ p[2] # t}

\* Take a free lock that nobody stands in line for.
Take(t) ==
  /\ holder = NoTask /\ InLine = {}
  /\ holder' = t
  /\ UNCHANGED line

Join(t) ==
  /\ holder # t /\ t \notin InLine
  /\ line' = line \union (InLine \X {t}) \union {<<t, t>>}
  /\ UNCHANGED holder

Abandon(t) ==
  /\ t \in InLine
  /\ line' = Left(t)
  /\ UNCHANGED holder

\* The holder, and nobody else, gives the lock up.
GiveUp ==
  /\ holder # NoTask
  /\ \/ InLine = {} /\ holder' = NoTask /\ UNCHANGED line
     \/ \E t \in InLine :
          /\ \A u \in InLine : <<t, u>> \in line
          /\ holder' = t
          /\ line' = Left(t)

Next == GiveUp \/ \E t \in Task : Take(t) \/ Join(t) \/ Abandon(t)

Spec == Init /\ [][Next]_vars
=============================================================================
