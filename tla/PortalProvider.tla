--------------------------- MODULE PortalProvider ---------------------------
(***************************************************************************)
(* BlockingPortalProvider and start_blocking_portal(): threads that enter  *)
(* share one portal, which the first one starts in a loop thread of its    *)
(* own and the last one stops, after it has let go of the lock.  The loop  *)
(* may end before: a user calls portal.stop(), or a call raises a          *)
(* BaseException.  A portal is a number.                                   *)
(***************************************************************************)
EXTENDS Integers, FiniteSets

CONSTANTS
  User,         \* the threads that enter the provider, any number of times
  NoUser,
  MaxPortals,   \* bound: the portals that are ever started
  MaxLeases     \* bound: the leases, which failed entries pile up

VARIABLES
  user,      \* where each thread is, and the portal it was given or is stopping
  lock,      \* the thread that holds _lock
  leases,    \* _leases
  cm,        \* _portal_cm: the portal, or 0
  given,     \* _portal, or 0 when the attribute is missing
  loop       \* the loop thread of each portal

providerVars == <<user, lock, leases, cm, given, loop>>

ProviderInit ==
  /\ user = [u \in User |-> [place |-> "out", portal |-> 0]]
  /\ lock = NoUser /\ leases = 0 /\ cm = 0 /\ given = 0
  /\ loop = [p \in 1..MaxPortals |-> "new"]   \* starting, running, failed; stopping and
                  \* gone by the last user; dying and dead by something else

At(u, place, p) == user' = [user EXCEPT ![u] = [place |-> place, portal |-> p]]
LoopIs(p, state) == loop' = [loop EXCEPT ![p] = state]

\* `with self._lock`, on the way in and on the way out
TakeLock(u) ==
  /\ lock = NoUser /\ user[u].place \in {"out", "inside"}
  /\ lock' = u
  /\ At(u, IF user[u].place = "out" THEN "entering" ELSE "leaving", user[u].portal)
  /\ UNCHANGED <<leases, cm, given, loop>>

\* The first one makes a context manager, notes it, and enters it: it waits,
\* lock in hand, for the new loop thread to say that its portal runs.
StartPortal(u) ==
  /\ user[u].place = "entering" /\ cm = 0
  /\ \E p \in 1..MaxPortals :
       /\ loop[p] = "new" /\ \A q \in 1..(p - 1) : loop[q] # "new"
       /\ cm' = p /\ LoopIs(p, "starting")
       /\ At(u, "starting", p)
  /\ UNCHANGED <<lock, leases, given>>

LoopStarts(p) ==
  /\ loop[p] = "starting"
  /\ \E state \in {"running", "failed"} : LoopIs(p, state)
  /\ UNCHANGED <<user, lock, leases, cm, given>>

\* The lease, for a portal that was there or has just been started; a missing
\* attribute raises after the lease has been counted.
Lease(u, p) ==
  /\ leases < MaxLeases /\ leases' = leases + 1
  /\ given' = p
  /\ IF p = 0 THEN At(u, "out", 0) ELSE At(u, "inside", p)
  /\ lock' = NoUser

EnterProvider(u) ==
  /\ \/ user[u].place = "entering" /\ cm # 0 /\ Lease(u, given)
     \/ /\ user[u].place = "starting" /\ loop[user[u].portal] \in {"running", "dying", "dead"}
        /\ Lease(u, user[u].portal)
  /\ UNCHANGED <<cm, loop>>

\* The loop did not start: the exception leaves the provider with a context
\* manager and without a portal.
StartFails(u) ==
  /\ user[u].place = "starting" /\ loop[user[u].portal] = "failed"
  /\ At(u, "out", 0) /\ lock' = NoUser
  /\ UNCHANGED <<leases, cm, given, loop>>

\* A mutant: the last but one stops the portal.
LastButOne(n) == n <= 2
LastLease(n) == n = 1

\* __exit__: the last one takes the portal along, out of the lock.
ReturnLease(u) ==
  /\ user[u].place = "leaving"
  /\ leases' = leases - 1
  /\ IF LastLease(leases)
     THEN At(u, "stopping", cm) /\ cm' = 0 /\ given' = 0
     ELSE At(u, "out", 0) /\ UNCHANGED <<cm, given>>
  /\ lock' = NoUser
  /\ UNCHANGED loop

\* portal.call(portal.stop): refused, which is ignored, by a portal that has stopped;
\* posted otherwise, and run, unless the loop ends before.
CallStop(u) ==
  /\ user[u].place = "stopping"
  /\ At(u, IF loop[user[u].portal] = "running" THEN "posted" ELSE "joining", user[u].portal)
  /\ UNCHANGED <<lock, leases, cm, given, loop>>

StopLoop(u) ==
  LET p == user[u].portal IN
  /\ user[u].place = "posted" /\ loop[p] \in {"running", "dying"}
  /\ IF loop[p] = "running" THEN LoopIs(p, "stopping") ELSE UNCHANGED loop
  /\ At(u, "joining", p)
  /\ UNCHANGED <<lock, leases, cm, given>>

\* A user stops the portal, or a call raises a BaseException, which fails its group.
LoopDies(p) ==
  /\ loop[p] = "running" /\ LoopIs(p, "dying")
  /\ UNCHANGED <<user, lock, leases, cm, given>>

LoopEnds(p) ==
  /\ \/ loop[p] = "stopping" /\ LoopIs(p, "gone")
     \/ loop[p] = "dying" /\ LoopIs(p, "dead")
  /\ UNCHANGED <<user, lock, leases, cm, given>>

\* The wait for the loop thread is over.
Join(u) ==
  /\ user[u].place = "joining" /\ loop[user[u].portal] \in {"gone", "dead"}
  /\ At(u, "out", 0)
  /\ UNCHANGED <<lock, leases, cm, given, loop>>

ProviderNext ==
  \/ \E u \in User : \/ TakeLock(u) \/ StartPortal(u) \/ EnterProvider(u) \/ StartFails(u)
                     \/ ReturnLease(u) \/ CallStop(u) \/ StopLoop(u) \/ Join(u)
  \/ \E p \in 1..MaxPortals : LoopStarts(p) \/ LoopDies(p) \/ LoopEnds(p)

-----------------------------------------------------------------------------
\* A thread between __enter__ and __exit__ has the same portal as all others there,
\* and the provider does not stop it: the last one out stops a portal that nobody
\* uses and that nobody can be given any more, although it does so outside of the
\* lock.  It is a portal that has stopped only if a user or a failing call stopped
\* it; the provider then hands it out still.  And no other loop runs than that of
\* this portal and those that somebody is about to stop.
LeasedPortalRuns ==
  /\ \A u \in User :
       user[u].place \in {"inside", "leaving"} =>
         user[u].portal = cm /\ loop[cm] \in {"running", "dying", "dead"}
  /\ \A p \in 1..MaxPortals :
       loop[p] \in {"starting", "running"} =>
         p = cm \/ \E u \in User : user[u].place \in {"stopping", "posted"} /\ user[u].portal = p
=============================================================================
