--------------------------- MODULE ComponentProofs ---------------------------
(***************************************************************************)
(* Proofs about the components of Components, for any values of their      *)
(* parameters.  Each section gives the variables the names they have in    *)
(* the module of the component, states its inductive invariant, and proves *)
(* that the steps of the component keep it; the theorems at the end put    *)
(* these together.                                                         *)
(***************************************************************************)
EXTENDS Components, QueueLemmas, FiniteSetTheorems, WellFoundedInduction

-----------------------------------------------------------------------------
(* BlockingPortalProvider: the count of leases is never below the number of  *)
(* threads that are inside, so the thread that brings it to zero is alone;   *)
(* and a portal that is being stopped is not the one that is given out,      *)
(* although it is stopped outside of the lock; a loop that runs is that of   *)
(* the portal that is given out or of one that somebody is about to stop.    *)

user == a
lock == b
leases == c
cm == d
given == e
loop == f

USE DEF user, lock, leases, cm, given, loop

UserState ==
  [place : {"out", "entering", "starting", "inside", "leaving", "stopping", "posted", "joining"},
   portal : Nat]
LoopState ==
  {"new", "starting", "running", "failed", "stopping", "gone", "dying", "dead"}

\* A loop that has started and that no leaver stops, and the places of a last leaver
Given == {"running", "dying", "dead"}
Stopping == {"stopping", "posted"}
Outside == Stopping \union {"joining"}

ProviderTypeOK ==
  /\ user \in [User -> UserState] /\ lock \in User \union {NoUser}
  /\ leases \in Nat /\ cm \in 0..MaxPortals /\ given \in 0..MaxPortals
  /\ loop \in [1..MaxPortals -> LoopState]

\* The threads that have a lease
Inside == {u \in User : user[u].place \in {"inside", "leaving"}}

\* Failed entries leave a lease behind: the count may be too high, never too low.
LeasesCounted == IsFiniteSet(Inside) /\ Cardinality(Inside) <= leases

\* What is given out is not stopped, and a starting portal is the one that was noted.
GivenRuns ==
  /\ given # 0 => given = cm /\ loop[given] \in Given
  /\ \A u \in User :
       /\ u \in Inside => user[u].portal = given /\ given # 0
       /\ user[u].place \in {"entering", "starting", "leaving"} <=> lock = u
       /\ user[u].place = "starting" => /\ cm # 0 /\ user[u].portal = cm /\ given = 0
                                        /\ loop[cm] \in Given \union {"starting", "failed"}
       /\ user[u].place \in Outside =>
            /\ user[u].portal \in 1..MaxPortals /\ user[u].portal # cm
            /\ loop[user[u].portal] \notin {"new", "starting", "failed"}

LoopsOwned ==
  \A p \in 1..MaxPortals :
    loop[p] \in {"starting", "running"} =>
      p = cm \/ \E u \in User : user[u].place \in Stopping /\ user[u].portal = p

PPInv == ProviderTypeOK /\ LeasesCounted /\ GivenRuns /\ LoopsOwned

\* At first nobody is inside.
LEMMA InitPPInv ==
  ASSUME Provider!ProviderInit
  PROVE  PPInv
<1> USE ProviderAssumption
<1>1. Inside = {}
  BY DEF Provider!ProviderInit, Inside
<1>2. ProviderTypeOK
  BY DEF Provider!ProviderInit, ProviderTypeOK, UserState, LoopState
<1>3. LeasesCounted
  BY <1>1, FS_EmptySet DEF Provider!ProviderInit, LeasesCounted
<1>4. GivenRuns
  BY <1>1 DEF Provider!ProviderInit, GivenRuns, Outside, Stopping
<1>5. LoopsOwned
  BY DEF Provider!ProviderInit, LoopsOwned
<1> QED
  BY <1>2, <1>3, <1>4, <1>5 DEF PPInv

\* What Provider!At() does to one thread, and to the set of those inside
LEMMA AtFacts ==
  ASSUME user \in [User -> UserState], NEW u \in User,
         NEW place \in {"out", "entering", "starting", "inside", "leaving", "stopping", "posted",
                       "joining"},
         NEW p \in Nat, Provider!At(u, place, p)
  PROVE  /\ user' \in [User -> UserState]
         /\ user'[u].place = place /\ user'[u].portal = p
         /\ \A v \in User \ {u} : user'[v] = user[v]
         /\ Inside' = IF place \in {"inside", "leaving"} THEN Inside \union {u} ELSE Inside \ {u}
<1>1. /\ user' = [user EXCEPT ![u] = [place |-> place, portal |-> p]]
  BY DEF Provider!At
<1>2. [place |-> place, portal |-> p] \in UserState
  BY DEF UserState
<1>3. /\ user' \in [User -> UserState] /\ user'[u] = [place |-> place, portal |-> p]
      /\ \A v \in User \ {u} : user'[v] = user[v]
  BY <1>1, <1>2
<1> QED
  BY <1>3 DEF Inside

\* Everybody but the holder of the lock is outside of the code it protects.
LEMMA AloneInLock ==
  ASSUME PPInv, NEW u \in User,
         user[u].place \in {"entering", "starting", "leaving"}
  PROVE  /\ lock = u
         /\ \A v \in User \ {u} : user[v].place \in {"out", "inside"} \union Outside
BY ProviderAssumption DEF PPInv, GivenRuns, ProviderTypeOK, UserState, Outside, Stopping

\* A step that moves a thread in or out changes the count with the set.
LEMMA CountKept ==
  ASSUME LeasesCounted, leases \in Nat, NEW u,
         \/ /\ leases' = leases + 1
            /\ Inside' \in {Inside \union {u}, Inside \ {u}}
         \/ u \in Inside /\ leases' = leases - 1 /\ Inside' = Inside \ {u}
  PROVE  LeasesCounted' /\ leases' \in Nat
<1> DEFINE n == Cardinality(Inside)
           m == Cardinality(Inside')
<1>1. IsFiniteSet(Inside) /\ n \in Nat /\ n <= leases
  BY FS_CardinalityType DEF LeasesCounted
<1>2. /\ IsFiniteSet(Inside \union {u}) /\ IsFiniteSet(Inside \ {u})
      /\ Cardinality(Inside \union {u}) \in {n, n + 1}
      /\ Cardinality(Inside \ {u}) = IF u \in Inside THEN n - 1 ELSE n
  BY <1>1, FS_AddElement, FS_RemoveElement
<1>3. /\ IsFiniteSet(Inside')
      /\ \/ leases' = leases + 1 /\ m \in {n - 1, n, n + 1}
         \/ leases' = leases - 1 /\ m = n - 1
  BY <1>2
<1>4. m \in Nat
  BY <1>3, FS_CardinalityType
<1> HIDE DEF n, m
<1>5. leases' \in Nat /\ m <= leases'
  BY <1>1, <1>3, <1>4
<1> QED
  BY <1>3, <1>5 DEF LeasesCounted, m

\* With one lease there is nobody else inside.
LEMMA LastIsAlone ==
  ASSUME LeasesCounted, leases = 1, NEW u \in Inside
  PROVE  Inside = {u}
<1>1. /\ IsFiniteSet(Inside) /\ Cardinality(Inside) \in Nat /\ Cardinality(Inside) <= 1
      /\ Cardinality(Inside) # 0
  BY FS_CardinalityType, FS_EmptySet DEF LeasesCounted
<1>2. Cardinality(Inside) = 1
  BY <1>1
<1> QED
  BY <1>1, <1>2, FS_Singleton

\* A thread that was not about to stop a portal takes no loop from its owner.
LEMMA OwnersStay ==
  ASSUME LoopsOwned, loop' = loop, NEW u \in User,
         \A v \in User \ {u} : user'[v] = user[v],
         \/ cm' = cm
         \/ cm' = 0 /\ user'[u].place \in Stopping /\ user'[u].portal = cm,
         \/ user[u].place \notin Stopping
         \/ user'[u].place \in Stopping /\ user'[u].portal = user[u].portal
         \/ user[u].portal \in 1..MaxPortals /\ loop[user[u].portal] \notin {"starting", "running"}
  PROVE  LoopsOwned'
<1> SUFFICES ASSUME NEW p \in 1..MaxPortals, loop[p] \in {"starting", "running"}
             PROVE  p = cm' \/ \E w \in User : user'[w].place \in Stopping /\ user'[w].portal = p
  BY DEF LoopsOwned
<1>1. p = cm \/ \E w \in User : user[w].place \in Stopping /\ user[w].portal = p
  BY DEF LoopsOwned
<1>2. CASE p = cm
  BY <1>2
<1>3. ASSUME NEW w \in User, user[w].place \in Stopping, user[w].portal = p
      PROVE  \E v \in User : user'[v].place \in Stopping /\ user'[v].portal = p
  <2>1. CASE w # u
    BY <1>3, <2>1
  <2>2. CASE w = u
    BY <1>3, <2>2
  <2> QED
    BY <2>1, <2>2
<1> QED
  BY <1>1, <1>2, <1>3

\* Steps of the loop threads
LEMMA LoopStep ==
  ASSUME PPInv, NEW p \in 1..MaxPortals,
         NEW state \in {"running", "failed", "gone", "dying", "dead"}, Provider!LoopIs(p, state),
         \/ loop[p] = "starting" /\ state \in {"running", "failed"}
         \/ loop[p] = "stopping" /\ state = "gone"
         \/ loop[p] \in {"running", "dying"} /\ state \in {"dying", "dead"},
         UNCHANGED <<user, lock, leases, cm, given>>
  PROVE  PPInv'
<1>0. ProviderTypeOK /\ LeasesCounted /\ GivenRuns /\ LoopsOwned
  BY DEF PPInv
<1>1. /\ loop' \in [1..MaxPortals -> LoopState]
      /\ loop'[p] = state /\ \A q \in (1..MaxPortals) \ {p} : loop'[q] = loop[q]
  BY <1>0 DEF Provider!LoopIs, ProviderTypeOK, LoopState
<1>2. Inside' = Inside
  BY DEF Inside
<1>3. ProviderTypeOK' /\ LeasesCounted'
  BY <1>0, <1>1, <1>2 DEF ProviderTypeOK, LeasesCounted
<1>4. cm \in 0..MaxPortals /\ (given # 0 => given \in 1..MaxPortals)
  BY <1>0 DEF ProviderTypeOK
<1>5. cm # 0 => cm \in 1..MaxPortals
  BY <1>4
<1>6. GivenRuns'
  <2>1. \A q \in 1..MaxPortals : loop[q] \in Given => loop'[q] \in Given
    BY <1>1 DEF Given
  <2>2. \A q \in 1..MaxPortals : loop[q] \in Given \union {"starting", "failed"} =>
          loop'[q] \in Given \union {"starting", "failed"}
    BY <1>1 DEF Given
  <2>3. \A q \in 1..MaxPortals : loop[q] \notin {"new", "starting", "failed"} =>
          loop'[q] \notin {"new", "starting", "failed"}
    BY <1>1
  <2> QED
    BY <1>0, <1>2, <1>4, <1>5, <2>1, <2>2, <2>3 DEF GivenRuns
<1>7. LoopsOwned'
  BY <1>0, <1>1 DEF LoopsOwned
<1> QED
  BY <1>3, <1>6, <1>7 DEF PPInv

\* A last leaver, on his way from the lock to the end of the loop
LEMMA LeaverStep ==
  ASSUME PPInv, NEW u \in User, user[u].place \in Outside,
         NEW place \in Outside \union {"out"}, NEW p \in Nat, Provider!At(u, place, p),
         place # "out" => p = user[u].portal,
         UNCHANGED <<lock, leases, cm, given>>,
         \/ loop' = loop
         \/ /\ place = "joining" /\ loop[p] = "running" /\ Provider!LoopIs(p, "stopping"),
         user[u].place \in Stopping /\ place \notin Stopping =>
           loop'[user[u].portal] \notin {"starting", "running"}
  PROVE  PPInv'
<1>0. /\ ProviderTypeOK /\ LeasesCounted /\ GivenRuns /\ LoopsOwned
      /\ user \in [User -> UserState] /\ loop \in [1..MaxPortals -> LoopState]
  BY DEF PPInv, ProviderTypeOK
<1> DEFINE q == user[u].portal
<1>1. q \in 1..MaxPortals /\ q # cm /\ loop[q] \notin {"new", "starting", "failed"} /\ lock # u
  BY <1>0 DEF GivenRuns, Outside, Stopping
<1>2. /\ user' \in [User -> UserState] /\ user'[u].place = place /\ user'[u].portal = p
      /\ \A v \in User \ {u} : user'[v] = user[v]
      /\ Inside' = Inside \ {u}
  BY <1>0, AtFacts DEF Outside, Stopping
<1>3. Inside' = Inside
  BY <1>2 DEF Inside, Outside, Stopping
<1>4. /\ loop' \in [1..MaxPortals -> LoopState]
      /\ \A r \in (1..MaxPortals) \ {q} : loop'[r] = loop[r]
      /\ loop'[q] \notin {"new", "starting", "failed"}
      /\ loop'[q] = "running" => loop[q] = "running"
  <2>1. CASE loop' = loop
    BY <1>0, <1>1, <2>1
  <2>2. CASE place = "joining" /\ Provider!LoopIs(p, "stopping")
    BY <1>0, <1>1, <2>2 DEF Provider!LoopIs, LoopState
  <2> QED
    BY <2>1, <2>2
<1>5. ProviderTypeOK' /\ LeasesCounted'
  BY <1>0, <1>2, <1>3, <1>4 DEF ProviderTypeOK, LeasesCounted
<1>6. cm \in 0..MaxPortals /\ (given # 0 => given = cm /\ cm \in 1..MaxPortals)
  BY <1>0 DEF ProviderTypeOK, GivenRuns
<1>7. GivenRuns'
  <2>1. given # 0 => loop'[given] = loop[given]
    BY <1>1, <1>4, <1>6
  <2>2. cm # 0 => loop'[cm] = loop[cm]
    BY <1>1, <1>4, <1>6
  <2>3. \A v \in User : user'[v].place \in Outside =>
          /\ user'[v].portal \in 1..MaxPortals /\ user'[v].portal # cm
          /\ loop'[user'[v].portal] \notin {"new", "starting", "failed"}
    <3> SUFFICES ASSUME NEW v \in User, user'[v].place \in Outside
                 PROVE  /\ user'[v].portal \in 1..MaxPortals /\ user'[v].portal # cm
                        /\ loop'[user'[v].portal] \notin {"new", "starting", "failed"}
      OBVIOUS
    <3>1. CASE v = u
      BY <1>1, <1>2, <1>4, <3>1 DEF Outside, Stopping
    <3>2. CASE v # u
      <4>1. /\ user[v].portal \in 1..MaxPortals /\ user[v].portal # cm
            /\ loop[user[v].portal] \notin {"new", "starting", "failed"} /\ user'[v] = user[v]
        BY <1>0, <1>2, <3>2 DEF GivenRuns
      <4> QED
        BY <1>4, <4>1
    <3> QED
      BY <3>1, <3>2
  <2>4. \A v \in User : user'[v].place \in {"entering", "starting", "leaving"} <=> lock' = v
    BY <1>0, <1>1, <1>2 DEF GivenRuns, Outside, Stopping
  <2>5. \A v \in Inside' : v # u
    BY <1>2
  <2>6. \A v \in User : user'[v].place = "starting" => v # u
    BY <1>2 DEF Outside, Stopping
  <2> QED
    BY <1>0, <1>2, <1>3, <2>1, <2>2, <2>3, <2>4, <2>5, <2>6 DEF GivenRuns
<1>8. LoopsOwned'
  <2> SUFFICES ASSUME NEW r \in 1..MaxPortals, loop'[r] \in {"starting", "running"}
               PROVE  r = cm \/ \E w \in User : user'[w].place \in Stopping /\ user'[w].portal = r
    BY DEF LoopsOwned
  <2>1. loop[r] \in {"starting", "running"}
    BY <1>1, <1>4
  <2>2. r = cm \/ \E w \in User : user[w].place \in Stopping /\ user[w].portal = r
    BY <1>0, <2>1 DEF LoopsOwned
  <2>3. ASSUME NEW w \in User, user[w].place \in Stopping, user[w].portal = r
        PROVE  \E v \in User : user'[v].place \in Stopping /\ user'[v].portal = r
    <3>1. CASE w # u
      BY <1>2, <2>3, <3>1
    <3>2. CASE w = u
      <4>1. place \in Stopping
        BY <2>3, <3>2
      <4> QED
        BY <1>2, <2>3, <3>2, <4>1 DEF Stopping
    <3> QED
      BY <3>1, <3>2
  <2> QED
    BY <2>2, <2>3
<1> QED
  BY <1>5, <1>7, <1>8 DEF PPInv

\* Every step keeps what is given out running, and the count.
LEMMA NextPPInv ==
  ASSUME PPInv, [Provider!ProviderNext]_(Provider!providerVars)
  PROVE  PPInv'
<1> USE ProviderAssumption
<1>0. /\ ProviderTypeOK /\ LeasesCounted /\ GivenRuns /\ LoopsOwned
      /\ user \in [User -> UserState] /\ leases \in Nat
      /\ \A u \in User : user[u].portal \in Nat
  BY DEF PPInv, ProviderTypeOK, UserState
<1>1. CASE UNCHANGED Provider!providerVars
  BY <1>0, <1>1 DEF Provider!providerVars, PPInv, ProviderTypeOK, LeasesCounted, GivenRuns, Inside, LoopsOwned
<1>2. ASSUME NEW u \in User, Provider!TakeLock(u) PROVE PPInv'
  <2> DEFINE place == IF user[u].place = "out" THEN "entering" ELSE "leaving"
  <2>1. /\ lock = NoUser /\ user[u].place \in {"out", "inside"} /\ lock' = u
        /\ Provider!At(u, place, user[u].portal)
        /\ UNCHANGED <<leases, cm, given, loop>>
    BY <1>2 DEF Provider!TakeLock
  <2>2. /\ user' \in [User -> UserState]
        /\ user'[u].place = place /\ user'[u].portal = user[u].portal
        /\ \A v \in User \ {u} : user'[v] = user[v]
        /\ Inside' = IF place = "leaving" THEN Inside \union {u} ELSE Inside \ {u}
    BY <1>0, <2>1, AtFacts
  <2>3. u \in Inside <=> place = "leaving"
    BY <2>1 DEF Inside
  <2>4. Inside' = Inside
    BY <2>2, <2>3
  <2>5. ProviderTypeOK' /\ LeasesCounted'
    BY <1>0, <2>1, <2>2, <2>4 DEF ProviderTypeOK, LeasesCounted
  <2>6. GivenRuns'
    BY <1>0, <2>1, <2>2, <2>4 DEF GivenRuns, Outside, Stopping
  <2>7. LoopsOwned'
    BY <1>0, <2>1, <2>2, OwnersStay DEF Stopping
  <2> QED
    BY <2>5, <2>6, <2>7 DEF PPInv
<1>3. ASSUME NEW u \in User, Provider!StartPortal(u) PROVE PPInv'
  <2>1. PICK p \in 1..MaxPortals : /\ loop[p] = "new" /\ cm' = p /\ Provider!LoopIs(p, "starting")
                                   /\ Provider!At(u, "starting", p)
    BY <1>3 DEF Provider!StartPortal
  <2>2. user[u].place = "entering" /\ cm = 0 /\ UNCHANGED <<lock, leases, given>>
    BY <1>3 DEF Provider!StartPortal
  <2>3. /\ user' \in [User -> UserState] /\ user'[u].place = "starting" /\ user'[u].portal = p
        /\ \A v \in User \ {u} : user'[v] = user[v]
        /\ Inside' = Inside \ {u}
    BY <1>0, <2>1, AtFacts
  <2>4. given = 0 /\ Inside = {} /\ Inside' = {}
    BY <1>0, <2>2, <2>3 DEF GivenRuns, Inside
  <2>5. /\ loop' \in [1..MaxPortals -> LoopState]
        /\ loop'[p] = "starting" /\ \A q \in (1..MaxPortals) \ {p} : loop'[q] = loop[q]
    BY <1>0, <2>1 DEF Provider!LoopIs, ProviderTypeOK, LoopState
  <2>6. ProviderTypeOK' /\ LeasesCounted'
    BY <1>0, <2>1, <2>2, <2>3, <2>4, <2>5 DEF ProviderTypeOK, LeasesCounted
  <2>7. GivenRuns'
    <3>1. lock = u /\ \A v \in User \ {u} : user[v].place \in {"out", "inside"} \union Outside
      BY <2>2, AloneInLock
    <3>2. p # 0
      BY <2>1
    <3>3. ASSUME NEW v \in User \ {u}, user[v].place \in Outside
          PROVE  /\ user[v].portal \in (1..MaxPortals) \ {p}
                 /\ loop'[user[v].portal] \notin {"new", "starting", "failed"}
      BY <1>0, <2>1, <2>5, <3>3 DEF GivenRuns
    <3> QED
      BY <2>1, <2>2, <2>3, <2>4, <2>5, <3>1, <3>2, <3>3 DEF GivenRuns, Outside, Stopping
  <2>8. LoopsOwned'
    <3> SUFFICES ASSUME NEW q \in 1..MaxPortals, q # p, loop'[q] \in {"starting", "running"}
                 PROVE  \E w \in User : user'[w].place \in Stopping /\ user'[w].portal = q
      BY <2>1 DEF LoopsOwned
    <3>1. PICK w \in User : user[w].place \in Stopping /\ user[w].portal = q
      BY <1>0, <2>2, <2>5 DEF LoopsOwned
    <3>2. w # u
      BY <2>2, <3>1 DEF Stopping
    <3> QED
      BY <2>3, <3>1, <3>2
  <2> QED
    BY <2>6, <2>7, <2>8 DEF PPInv
<1>4. ASSUME NEW u \in User, Provider!EnterProvider(u) PROVE PPInv'
  <2>1. PICK p \in Nat :
          /\ lock' = NoUser /\ leases' = leases + 1 /\ given' = p
          /\ Provider!At(u, IF p = 0 THEN "out" ELSE "inside", p)
          /\ UNCHANGED <<cm, loop>>
          /\ user[u].place \in {"entering", "starting"}
          /\ p \in 0..MaxPortals
          /\ p = given \/ (given = 0 /\ p = cm /\ loop[p] \in Given /\ p # 0)
    BY <1>0, <1>4 DEF Provider!EnterProvider, Provider!Lease, GivenRuns, ProviderTypeOK, Given
  <2>2. /\ user' \in [User -> UserState] /\ user'[u].portal = p
        /\ user'[u].place = (IF p = 0 THEN "out" ELSE "inside")
        /\ \A v \in User \ {u} : user'[v] = user[v]
        /\ Inside' = IF p # 0 THEN Inside \union {u} ELSE Inside \ {u}
    BY <1>0, <2>1, AtFacts
  <2>3. u \notin Inside
    BY <2>1 DEF Inside
  <2>4. LeasesCounted' /\ leases' \in Nat
    BY <1>0, <2>1, <2>2, <2>3, CountKept
  <2>5. ProviderTypeOK'
    BY <1>0, <2>1, <2>2, <2>4 DEF ProviderTypeOK
  <2>6. GivenRuns'
    <3>1. lock = u /\ \A v \in User \ {u} : user[v].place \in {"out", "inside"} \union Outside
      BY <2>1, AloneInLock
    <3>2. \A v \in Inside' : v # u => v \in Inside /\ given # 0
      BY <1>0, <2>2 DEF GivenRuns, Inside
    <3>3. given' # 0 => given' = cm' /\ loop'[given'] \in Given
      BY <1>0, <2>1 DEF GivenRuns
    <3>4. \A v \in Inside' : user'[v].portal = given' /\ given' # 0
      BY <1>0, <2>1, <2>2, <2>3, <3>2 DEF GivenRuns, Inside
    <3> QED
      BY <1>0, <2>1, <2>2, <3>1, <3>3, <3>4 DEF GivenRuns, Outside, Stopping
  <2>7. LoopsOwned'
    BY <1>0, <2>1, <2>2, OwnersStay DEF Stopping
  <2> QED
    BY <2>4, <2>5, <2>6, <2>7 DEF PPInv
<1>5. ASSUME NEW u \in User, Provider!StartFails(u) PROVE PPInv'
  <2>1. /\ user[u].place = "starting" /\ Provider!At(u, "out", 0) /\ lock' = NoUser
        /\ UNCHANGED <<leases, cm, given, loop>>
    BY <1>5 DEF Provider!StartFails
  <2>2. /\ user' \in [User -> UserState] /\ user'[u].place = "out"
        /\ \A v \in User \ {u} : user'[v] = user[v]
        /\ Inside' = Inside \ {u}
    BY <1>0, <2>1, AtFacts
  <2>3. Inside' = Inside
    BY <2>1, <2>2 DEF Inside
  <2>4. ProviderTypeOK' /\ LeasesCounted'
    BY <1>0, <2>1, <2>2, <2>3 DEF ProviderTypeOK, LeasesCounted
  <2>5. GivenRuns'
    <3>1. lock = u /\ \A v \in User \ {u} : user[v].place \in {"out", "inside"} \union Outside
      BY <2>1, AloneInLock
    <3> QED
      BY <1>0, <2>1, <2>2, <2>3, <3>1 DEF GivenRuns, Outside, Stopping
  <2>6. LoopsOwned'
    BY <1>0, <2>1, <2>2, OwnersStay DEF Stopping
  <2> QED
    BY <2>4, <2>5, <2>6 DEF PPInv
<1>6. ASSUME NEW u \in User, Provider!ReturnLease(u) PROVE PPInv'
  <2>0. /\ user[u].place = "leaving" /\ u \in Inside /\ leases' = leases - 1
        /\ lock' = NoUser /\ loop' = loop /\ given # 0 /\ given = cm /\ loop[cm] \in Given
        /\ cm \in 1..MaxPortals
    BY <1>0, <1>6 DEF Provider!ReturnLease, Inside, GivenRuns, ProviderTypeOK
  <2>1. lock = u /\ \A v \in User \ {u} : user[v].place \in {"out", "inside"} \union Outside
    BY <2>0, AloneInLock
  <2>2. CASE leases = 1
    <3>1. Provider!At(u, "stopping", cm) /\ cm' = 0 /\ given' = 0
      BY <1>6, <2>2 DEF Provider!ReturnLease, Provider!LastLease
    <3>2. /\ user' \in [User -> UserState]
          /\ user'[u].place = "stopping" /\ user'[u].portal = cm
          /\ \A v \in User \ {u} : user'[v] = user[v]
          /\ Inside' = Inside \ {u}
      BY <1>0, <2>0, <3>1, AtFacts
    <3>3. Inside' = {}
      BY <1>0, <2>0, <2>2, <3>2, LastIsAlone
    <3>4. LeasesCounted' /\ leases' \in Nat
      BY <1>0, <2>0, <3>2, CountKept
    <3>5. ProviderTypeOK'
      BY <1>0, <2>0, <3>1, <3>2, <3>4 DEF ProviderTypeOK
    <3>6. GivenRuns'
      BY <1>0, <2>0, <2>1, <3>1, <3>2, <3>3 DEF GivenRuns, Outside, Stopping, Given
    <3>7. LoopsOwned'
      BY <1>0, <2>0, <3>1, <3>2, OwnersStay DEF Stopping
    <3> QED
      BY <3>4, <3>5, <3>6, <3>7 DEF PPInv
  <2>3. CASE leases # 1
    <3>1. Provider!At(u, "out", 0) /\ cm' = cm /\ given' = given
      BY <1>6, <2>3 DEF Provider!ReturnLease, Provider!LastLease
    <3>2. /\ user' \in [User -> UserState] /\ user'[u].place = "out"
          /\ \A v \in User \ {u} : user'[v] = user[v]
          /\ Inside' = Inside \ {u}
      BY <1>0, <3>1, AtFacts
    <3>3. LeasesCounted' /\ leases' \in Nat
      BY <1>0, <2>0, <3>2, CountKept
    <3>4. ProviderTypeOK'
      BY <1>0, <2>0, <3>1, <3>2, <3>3 DEF ProviderTypeOK
    <3>5. GivenRuns'
      BY <1>0, <2>0, <2>1, <3>1, <3>2 DEF GivenRuns, Outside, Stopping
    <3>6. LoopsOwned'
      BY <1>0, <2>0, <3>1, <3>2, OwnersStay DEF Stopping
    <3> QED
      BY <3>3, <3>4, <3>5, <3>6 DEF PPInv
  <2> QED
    BY <2>2, <2>3
<1>7. ASSUME NEW u \in User, Provider!CallStop(u) PROVE PPInv'
  <2> DEFINE place == IF loop[user[u].portal] = "running" THEN "posted" ELSE "joining"
  <2>1. /\ user[u].place = "stopping" /\ Provider!At(u, place, user[u].portal)
        /\ UNCHANGED <<lock, leases, cm, given, loop>>
    BY <1>7 DEF Provider!CallStop
  <2>2. /\ user[u].place \in Outside /\ place \in Outside /\ user[u].portal \in Nat
        /\ loop[user[u].portal] \notin {"new", "starting", "failed"}
        /\ place \notin Stopping => loop[user[u].portal] # "running"
    BY <1>0, <2>1 DEF Outside, Stopping, GivenRuns
  <2> HIDE DEF place
  <2> QED
    BY <2>1, <2>2, LeaverStep DEF Outside
<1>8. ASSUME NEW u \in User, Provider!StopLoop(u) PROVE PPInv'
  <2> DEFINE p == user[u].portal
  <2>1. /\ user[u].place = "posted" /\ Provider!At(u, "joining", p)
        /\ UNCHANGED <<lock, leases, cm, given>>
        /\ IF loop[p] = "running" THEN Provider!LoopIs(p, "stopping")
           ELSE loop[p] = "dying" /\ loop' = loop
    BY <1>8 DEF Provider!StopLoop
  <2>2. /\ user[u].place \in Outside /\ "joining" \in Outside \union {"out"} /\ p \in Nat
        /\ p \in 1..MaxPortals
    BY <1>0, <2>1 DEF Outside, Stopping, GivenRuns
  <2>3. loop'[p] \notin {"starting", "running"}
    BY <1>0, <2>1, <2>2 DEF Provider!LoopIs, ProviderTypeOK
  <2> HIDE DEF p
  <2>4. p = user[u].portal
    BY DEF p
  <2> QED
    BY <2>1, <2>2, <2>3, <2>4, LeaverStep
<1>9. ASSUME NEW u \in User, Provider!Join(u) PROVE PPInv'
  <2>1. user[u].place = "joining" /\ Provider!At(u, "out", 0) /\ UNCHANGED <<lock, leases, cm, given, loop>>
    BY <1>9 DEF Provider!Join
  <2>2. user[u].place \in Outside /\ "out" \in Outside \union {"out"} /\ 0 \in Nat /\ user[u].place \notin Stopping
    BY <2>1 DEF Outside, Stopping
  <2> QED
    BY <2>1, <2>2, LeaverStep
<1>10. ASSUME NEW p \in 1..MaxPortals,
              Provider!LoopStarts(p) \/ Provider!LoopDies(p) \/ Provider!LoopEnds(p)
       PROVE  PPInv'
  <2>1. PICK state \in {"running", "failed", "gone", "dying", "dead"} :
          /\ Provider!LoopIs(p, state) /\ UNCHANGED <<user, lock, leases, cm, given>>
          /\ \/ loop[p] = "starting" /\ state \in {"running", "failed"}
             \/ loop[p] = "stopping" /\ state = "gone"
             \/ loop[p] \in {"running", "dying"} /\ state \in {"dying", "dead"}
    BY <1>10 DEF Provider!LoopStarts, Provider!LoopDies, Provider!LoopEnds
  <2> QED
    BY <2>1, LoopStep
<1> QED
  BY <1>1, <1>2, <1>3, <1>4, <1>5, <1>6, <1>7, <1>8, <1>9, <1>10 DEF Provider!ProviderNext

LEMMA ProviderHolds == PPInv => Provider!LeasedPortalRuns
BY DEF PPInv, GivenRuns, LoopsOwned, Given, Stopping, Provider!LeasedPortalRuns, Inside
-----------------------------------------------------------------------------
(* The runner of the pytest plugin: a runner that is open is the current     *)
(* one, the current one is open or failed to close, and whoever is inside    *)
(* was given it.                                                             *)

items == a
runners == b
current == c
runnerLeases == d
stack == e
library == f

USE DEF items, runners, current, runnerLeases, stack, library

\* The tests and fixtures that hold a lease
Holders == {i \in Item : items[i].inside}

RunnerState == [backend : Backend, open : BOOLEAN, failed : BOOLEAN]

PluginTypeOK ==
  /\ items \in [Item -> [inside : BOOLEAN, given : Nat]]
  /\ runners \in Seq(RunnerState)
  /\ current \in 0..Len(runners)
  /\ IsFiniteSet(Holders)

PluginIInv ==
  /\ PluginTypeOK
  /\ runnerLeases = Cardinality(Holders)
  /\ \A i \in Item : items[i].inside => items[i].given = current
  /\ \A r \in DOMAIN runners : runners[r].open => r = current /\ runnerLeases > 0
  /\ current # 0 => runners[current].open \/ runners[current].failed
  /\ current = 0 => runnerLeases = 0

\* At first there is no runner and no lease.
LEMMA InitPlugin == Plugin!PluginInit => PluginIInv
<1> SUFFICES ASSUME Plugin!PluginInit PROVE PluginIInv
  OBVIOUS
<1> USE DEF Plugin!PluginInit
<1>1. Holders = {}
  BY DEF Holders
<1>2. runners \in Seq(RunnerState) /\ Len(runners) = 0 /\ DOMAIN runners = {}
  BY EmptySeq
<1>3. IsFiniteSet(Holders) /\ Cardinality(Holders) = 0
  BY <1>1, FS_EmptySet
<1> QED
  BY <1>1, <1>2, <1>3 DEF PluginIInv, PluginTypeOK

\* A lease more
LEMMA BorrowStep ==
  ASSUME PluginIInv, NEW i \in Item, NEW backend \in Backend, Plugin!Borrow(i, backend)
  PROVE  PluginIInv'
<1>0. PluginTypeOK /\ runnerLeases = Cardinality(Holders) /\ runnerLeases \in Nat
  BY FS_CardinalityType DEF PluginIInv, PluginTypeOK
<1>1. /\ ~items[i].inside /\ runnerLeases' = runnerLeases + 1
      /\ items' = [items EXCEPT ![i] = [inside |-> TRUE, given |-> current']]
  BY DEF Plugin!Borrow
<1>2. /\ runners' \in Seq(RunnerState) /\ current' \in 1..Len(runners')
      /\ current # 0 => current' = current
      /\ \A r \in DOMAIN runners' : runners'[r].open => r = current'
      /\ runners'[current'].open \/ runners'[current'].failed
  <2>1. CASE current # 0
    <3>1. runners' = runners /\ current' = current
      BY <2>1 DEF Plugin!Borrow
    <3> QED
      BY <2>1, <3>1 DEF PluginIInv, PluginTypeOK
  <2>2. CASE current = 0
    <3> DEFINE new == [backend |-> backend, open |-> TRUE, failed |-> FALSE]
    <3>1. runners' = Append(runners, new) /\ current' = Len(runners) + 1
      BY <2>2 DEF Plugin!Borrow
    <3>2. new \in RunnerState /\ new.open
      BY DEF RunnerState
    <3> HIDE DEF new
    <3>3. /\ runners' \in Seq(RunnerState) /\ Len(runners') = Len(runners) + 1
          /\ \A r \in 1..Len(runners) : runners'[r] = runners[r]
          /\ runners'[Len(runners) + 1] = new
      BY <1>0, <3>1, <3>2, AppendProperties DEF PluginTypeOK
    <3>4. /\ Len(runners) \in Nat /\ DOMAIN runners = 1..Len(runners)
          /\ DOMAIN runners' = 1..(Len(runners) + 1)
      BY <1>0, <3>3, LenProperties DEF PluginTypeOK
    <3>5. \A r \in 1..Len(runners) : ~runners[r].open
      BY <2>2, <3>4 DEF PluginIInv
    <3> QED
      BY <2>2, <3>1, <3>2, <3>3, <3>4, <3>5
  <2> QED
    BY <2>1, <2>2
<1>3. /\ current' \in Nat /\ current' # 0
      /\ items' \in [Item -> [inside : BOOLEAN, given : Nat]]
      /\ items'[i].inside /\ items'[i].given = current'
      /\ \A j \in Item \ {i} : items'[j] = items[j]
  BY <1>0, <1>1, <1>2, LenProperties DEF PluginTypeOK
<1>4. Holders' = Holders \union {i} /\ i \notin Holders
  BY <1>1, <1>3 DEF Holders
<1>5. IsFiniteSet(Holders') /\ Cardinality(Holders') = Cardinality(Holders) + 1
  BY <1>0, <1>4, FS_AddElement DEF PluginTypeOK
<1>6. \A j \in Item : items'[j].inside => items'[j].given = current'
  <2> SUFFICES ASSUME NEW j \in Item, j # i, items[j].inside PROVE items[j].given = current'
    BY <1>3
  <2>1. j \in Holders
    BY DEF Holders
  <2>2. Cardinality(Holders) # 0
    BY <1>0, <2>1, FS_EmptySet DEF PluginTypeOK
  <2> QED
    BY <1>0, <1>2, <2>2 DEF PluginIInv
<1>7. runnerLeases' > 0
  BY <1>0, <1>1
<1> QED
  BY <1>0, <1>1, <1>2, <1>3, <1>5, <1>6, <1>7 DEF PluginIInv, PluginTypeOK

\* A lease less: the one who brings the count to zero is the last one inside.
LEMMA GiveBackStep ==
  ASSUME PluginIInv, NEW i \in Item, NEW raises \in BOOLEAN, Plugin!GiveBack(i, raises)
  PROVE  PluginIInv'
<1>0. PluginTypeOK /\ runnerLeases = Cardinality(Holders) /\ runnerLeases \in Nat
  BY FS_CardinalityType DEF PluginIInv, PluginTypeOK
<1>1. /\ items[i].inside /\ runnerLeases' = runnerLeases - 1
      /\ items' = [items EXCEPT ![i] = [inside |-> FALSE, given |-> 0]]
  BY DEF Plugin!GiveBack
<1>2. /\ items' \in [Item -> [inside : BOOLEAN, given : Nat]]
      /\ ~items'[i].inside
      /\ \A j \in Item \ {i} : items'[j] = items[j]
  BY <1>0, <1>1 DEF PluginTypeOK
<1>3. Holders' = Holders \ {i} /\ i \in Holders
  BY <1>1, <1>2 DEF Holders
<1>4. IsFiniteSet(Holders') /\ Cardinality(Holders') = Cardinality(Holders) - 1
  BY <1>0, <1>3, FS_RemoveElement DEF PluginTypeOK
<1>5. runnerLeases > 0 /\ current # 0
  <2>1. Cardinality(Holders') \in Nat
    BY <1>4, FS_CardinalityType
  <2> QED
    BY <1>0, <1>4, <2>1 DEF PluginIInv
<1>6. /\ runners' \in Seq(RunnerState) /\ current' \in 0..Len(runners')
      /\ IF runnerLeases = 1 THEN \A r \in DOMAIN runners' : ~runners'[r].open
         ELSE current' = current /\ \A r \in DOMAIN runners' : runners'[r].open => r = current'
      /\ current' # 0 => runners'[current'].open \/ runners'[current'].failed
      /\ current' = 0 => runnerLeases = 1
  <2>1. CASE runnerLeases # 1
    <3>1. runners' = runners /\ current' = current
      BY <2>1 DEF Plugin!GiveBack, Plugin!LastOne
    <3> QED
      BY <1>5, <2>1, <3>1 DEF PluginIInv, PluginTypeOK
  <2>2. CASE runnerLeases = 1
    <3> DEFINE f2 == runners[current].failed \/ raises
               new == [runners[current] EXCEPT !.open = FALSE, !.failed = f2]
    <3>1. /\ runners' = [runners EXCEPT ![current].open = FALSE, ![current].failed = @ \/ raises]
          /\ current' = IF raises THEN current ELSE 0
      BY <2>2 DEF Plugin!GiveBack, Plugin!LastOne
    <3>2. Len(runners) \in Nat /\ DOMAIN runners = 1..Len(runners) /\ current \in 1..Len(runners)
      BY <1>0, <1>5, LenProperties DEF PluginTypeOK
    <3>3. runners[current] \in RunnerState
      BY <1>0, <3>2, ElementOfSeq DEF PluginTypeOK
    <3>4. f2 \in BOOLEAN /\ (raises => f2)
      OBVIOUS
    <3>5. runners' = [runners EXCEPT ![current] = new]
      BY <3>1, <3>2, <3>3 DEF RunnerState
    <3> HIDE DEF f2
    <3>6. new \in RunnerState /\ ~new.open /\ (raises => new.failed)
      BY <3>3, <3>4 DEF RunnerState
    <3> HIDE DEF new
    <3>7. /\ runners' \in Seq(RunnerState) /\ Len(runners') = Len(runners)
          /\ DOMAIN runners' = 1..Len(runners) /\ runners'[current] = new
          /\ \A r \in 1..Len(runners) : r # current => runners'[r] = runners[r]
      BY <1>0, <3>2, <3>5, <3>6, ExceptSeq DEF PluginTypeOK
    <3>8. \A r \in 1..Len(runners) : r # current => ~runners[r].open
      BY <3>2 DEF PluginIInv
    <3> QED
      BY <2>2, <3>1, <3>2, <3>6, <3>7, <3>8
  <2> QED
    BY <2>1, <2>2
<1>7. \A j \in Item : items'[j].inside => items'[j].given = current'
  <2> SUFFICES ASSUME NEW j \in Item, j # i, items[j].inside PROVE items[j].given = current'
    BY <1>2
  <2>1. j \in Holders'
    BY <1>2, <1>3 DEF Holders
  <2>2. Cardinality(Holders') # 0
    BY <1>4, <2>1, FS_EmptySet
  <2>3. runnerLeases # 1
    BY <1>0, <1>4, <2>2
  <2> QED
    BY <1>6, <2>3 DEF PluginIInv
<1>8. IF runnerLeases = 1 THEN runnerLeases' = 0 ELSE runnerLeases' > 0
  BY <1>0, <1>1, <1>5
<1>9. \A r \in DOMAIN runners' : runners'[r].open => r = current' /\ runnerLeases' > 0
  BY <1>6, <1>8
<1> QED
  BY <1>0, <1>1, <1>2, <1>4, <1>6, <1>7, <1>8, <1>9 DEF PluginIInv, PluginTypeOK

\* Every step leaves one runner open at most, for those who hold a lease.
LEMMA NextPlugin == PluginIInv /\ [Plugin!PluginNext]_(Plugin!pluginVars) => PluginIInv'
<1> SUFFICES ASSUME PluginIInv, [Plugin!PluginNext]_(Plugin!pluginVars) PROVE PluginIInv'
  OBVIOUS
<1>1. ASSUME items' = items, runners' = runners, current' = current, runnerLeases' = runnerLeases
      PROVE  PluginIInv'
  <2>1. Holders' = Holders
    BY <1>1 DEF Holders
  <2> QED
    BY <1>1, <2>1 DEF PluginIInv, PluginTypeOK
<1>2. ASSUME NEW i \in Item, NEW backend \in Backend, Plugin!RunnerFails(i, backend)
      PROVE  PluginIInv'
  BY <1>1, <1>2 DEF Plugin!RunnerFails
<1>3. CASE UNCHANGED Plugin!pluginVars
  BY <1>1, <1>3 DEF Plugin!pluginVars
<1> QED
  BY <1>2, <1>3, BorrowStep, GiveBackStep DEF Plugin!PluginNext

LEMMA PluginHolds == PluginIInv => Plugin!RunnerShared
<1> SUFFICES ASSUME PluginIInv PROVE Plugin!RunnerShared
  OBVIOUS
<1>1. /\ IsFiniteSet(Holders) /\ Len(runners) \in Nat /\ DOMAIN runners = 1..Len(runners)
      /\ current \in 0..Len(runners)
  BY LenProperties DEF PluginIInv, PluginTypeOK
<1>2. \A i \in Item : items[i].inside => current # 0
  <2> SUFFICES ASSUME NEW i \in Item, items[i].inside PROVE current # 0
    OBVIOUS
  <2>1. i \in Holders
    BY DEF Holders
  <2>2. Cardinality(Holders) \in Nat /\ Cardinality(Holders) # 0
    BY <1>1, <2>1, FS_EmptySet, FS_CardinalityType
  <2> QED
    BY <2>2 DEF PluginIInv
<1>3. \A i \in Item : items[i].inside => current \in DOMAIN runners
  BY <1>1, <1>2
<1>4. Plugin!Cardinality(Holders) = Cardinality(Holders)
  BY DEF Plugin!Cardinality, Plugin!IsFiniteSet, Cardinality, IsFiniteSet
<1> QED
  BY <1>1, <1>3, <1>4 DEF PluginIInv, Plugin!RunnerShared, Holders
-----------------------------------------------------------------------------
(* The adapters: until the primitive is there the settings are those of the  *)
(* ideal one, from then on the primitive is the ideal one; but for           *)
(* fast_acquire, which a semaphore does not keep.                            *)

adapter == a
inner == b
adapterLoop == c
ideal == d

USE DEF adapter, inner, adapterLoop, ideal

Primitive == [level : Nat, limit : 1..MaxLevel, fast : BOOLEAN]
AdapterState ==
  [kind : {"event", "lock", "semaphore", "limiter"}, setting : 1..MaxLevel, fast : BOOLEAN]

FirstLevel == IF adapter.kind = "semaphore" THEN adapter.setting ELSE 0
FastKept == ideal.fast /\ adapter.kind # "semaphore"

AdapterInv ==
  /\ adapter \in AdapterState /\ ideal \in Primitive
  /\ adapter.fast <=> FastKept
  /\ IF inner = Adapter!None
     THEN ideal.level = FirstLevel /\ ideal.limit = adapter.setting
     ELSE /\ inner \in Primitive
          /\ inner.level = ideal.level /\ inner.limit = ideal.limit
          /\ inner.fast <=> FastKept

LEMMA InitAdapter == Adapter!AdapterInit => AdapterInv
<1> SUFFICES ASSUME Adapter!AdapterInit PROVE AdapterInv
  OBVIOUS
<1>1. PICK kind \in {"event", "lock", "semaphore", "limiter"}, setting \in 1..MaxLevel,
           fast \in BOOLEAN :
        /\ adapter = [kind |-> kind, setting |-> setting, fast |-> fast /\ kind # "semaphore"]
        /\ ideal = [level |-> IF kind = "semaphore" THEN setting ELSE 0, limit |-> setting,
                    fast |-> fast]
        /\ inner = Adapter!None
  BY DEF Adapter!AdapterInit
<1>2. /\ adapter.kind = kind /\ adapter.setting = setting
      /\ adapter.fast = (fast /\ kind # "semaphore") /\ adapter \in AdapterState
  BY <1>1 DEF AdapterState
<1>3. /\ ideal.limit = setting /\ ideal.fast = fast /\ ideal \in Primitive
      /\ ideal.level = IF kind = "semaphore" THEN setting ELSE 0
  BY <1>1 DEF Primitive
<1> QED
  BY <1>1, <1>2, <1>3 DEF AdapterInv, FirstLevel, FastKept

\* No primitive is None.
LEMMA NotNone == \A p \in Primitive : p # Adapter!None
<1> SUFFICES ASSUME NEW p \in Primitive, p = Adapter!None PROVE FALSE
  OBVIOUS
<1>1. p.limit \in 1..MaxLevel
  BY DEF Primitive
<1>2. p.limit = 0
  BY DEF Adapter!None
<1> QED
  BY <1>1, <1>2

\* The primitive that a call finds or makes is the ideal one.
LEMMA InnerIsIdeal ==
  ASSUME AdapterInv
  PROVE  /\ Adapter!Inner \in Primitive
         /\ Adapter!Inner.level = ideal.level /\ Adapter!Inner.limit = ideal.limit
         /\ Adapter!Inner.fast <=> FastKept
<1>1. CASE inner = Adapter!None
  <2> DEFINE new == Adapter!AlwaysNew
  <2>1. Adapter!Inner = new
    BY <1>1 DEF Adapter!Inner
  <2>2. /\ new.level = FirstLevel /\ new.limit = adapter.setting /\ new.fast = adapter.fast
        /\ new = [level |-> new.level, limit |-> new.limit, fast |-> new.fast]
    BY DEF Adapter!AlwaysNew, FirstLevel
  <2>3. /\ adapter.setting \in 1..MaxLevel /\ adapter.fast \in BOOLEAN /\ FirstLevel \in Nat
        /\ ideal.level = FirstLevel /\ ideal.limit = adapter.setting
        /\ adapter.fast <=> FastKept
    BY <1>1 DEF AdapterInv, AdapterState, FirstLevel
  <2> HIDE DEF new
  <2>4. new \in Primitive
    <3>1. new.level \in Nat /\ new.limit \in 1..MaxLevel /\ new.fast \in BOOLEAN
      BY <2>2, <2>3
    <3> QED
      BY <2>2, <3>1, Zenon DEF Primitive
  <2> QED
    BY <2>1, <2>2, <2>3, <2>4
<1>2. CASE inner # Adapter!None
  BY <1>2 DEF AdapterInv, Adapter!Inner
<1> QED
  BY <1>1, <1>2

\* A call that moves both levels to the same place
LEMMA MovesStep ==
  ASSUME AdapterInv, NEW here \in Nat, Adapter!Moves(here, here)
  PROVE  AdapterInv'
<1> DEFINE p == Adapter!Inner
<1>1. p \in Primitive /\ p.limit = ideal.limit /\ (p.fast <=> FastKept)
  BY InnerIsIdeal
<1>2. /\ inner' = [p EXCEPT !.level = here]
      /\ ideal' = [ideal EXCEPT !.level = here] /\ adapter' = adapter
  BY DEF Adapter!Moves
<1>3. ideal \in Primitive
  BY DEF AdapterInv
<1> HIDE DEF p
<1>4. /\ inner' \in Primitive /\ inner'.level = here /\ inner'.limit = p.limit
      /\ inner'.fast = p.fast
  BY <1>1, <1>2 DEF Primitive
<1>5. /\ ideal' \in Primitive /\ ideal'.level = here /\ ideal'.limit = ideal.limit
      /\ ideal'.fast = ideal.fast
  BY <1>2, <1>3 DEF Primitive
<1>6. FastKept' = FastKept
  BY <1>2, <1>5 DEF FastKept
<1>7. inner' # Adapter!None'
  BY <1>4, NotNone DEF Adapter!None
<1>8. adapter' \in AdapterState /\ (adapter'.fast <=> FastKept)
  BY <1>2 DEF AdapterInv
<1> QED
  BY <1>1, <1>4, <1>5, <1>6, <1>7, <1>8 DEF AdapterInv, Primitive, AdapterState

\* The setter of total_tokens
LEMMA SetterStep ==
  ASSUME AdapterInv, NEW n \in 1..MaxLevel, adapter.kind = "limiter", Adapter!SetTotal(n),
         ideal' = [ideal EXCEPT !.limit = n]
  PROVE  AdapterInv'
<1>0. adapter \in AdapterState /\ ideal \in Primitive
  BY DEF AdapterInv
<1>1. /\ ideal' \in Primitive /\ ideal'.limit = n /\ ideal'.level = ideal.level
      /\ ideal'.fast = ideal.fast
  BY <1>0 DEF Primitive
<1>2. CASE inner = Adapter!None
  <2>1. adapter' = [adapter EXCEPT !.setting = n] /\ inner' = Adapter!None'
    BY <1>2 DEF Adapter!SetTotal, Adapter!None
  <2>2. /\ adapter' \in AdapterState /\ adapter'.setting = n /\ adapter'.kind = adapter.kind
        /\ adapter'.fast = adapter.fast
    BY <1>0, <2>1 DEF AdapterState
  <2>3. ideal.level = 0 /\ (adapter.fast <=> FastKept)
    BY <1>2 DEF AdapterInv, FirstLevel
  <2>4. FastKept' = FastKept /\ FirstLevel' = 0
    BY <1>1, <2>2 DEF FastKept, FirstLevel
  <2> QED
    BY <1>1, <2>1, <2>2, <2>3, <2>4 DEF AdapterInv, Primitive, AdapterState
<1>3. CASE inner # Adapter!None
  <2>1. adapter' = adapter /\ inner' = [inner EXCEPT !.limit = n]
    BY <1>3 DEF Adapter!SetTotal
  <2>2. /\ inner \in Primitive /\ inner.level = ideal.level /\ (inner.fast <=> FastKept)
        /\ adapter.fast <=> FastKept
    BY <1>3 DEF AdapterInv
  <2>3. /\ inner' \in Primitive /\ inner'.limit = n /\ inner'.level = inner.level
        /\ inner'.fast = inner.fast
    BY <2>1, <2>2 DEF Primitive
  <2>4. FastKept' = FastKept
    BY <1>1, <2>1 DEF FastKept
  <2>5. inner' # Adapter!None'
    BY <2>3, NotNone DEF Adapter!None
  <2>6. adapter' \in AdapterState /\ (adapter'.fast <=> FastKept)
    BY <1>0, <2>1, <2>2
  <2> QED
    BY <1>1, <2>2, <2>3, <2>4, <2>5, <2>6 DEF AdapterInv, Primitive, AdapterState
<1> QED
  BY <1>2, <1>3

\* Every step keeps the primitive, or what it will be, equal to the ideal one.
LEMMA NextAdapter == AdapterInv /\ [Adapter!AdapterNext]_(Adapter!adapterVars) => AdapterInv'
<1> SUFFICES ASSUME AdapterInv, [Adapter!AdapterNext]_(Adapter!adapterVars) PROVE AdapterInv'
  OBVIOUS
<1>0. Adapter!Inner.level = ideal.level /\ ideal.level \in Nat
  BY InnerIsIdeal DEF AdapterInv, Primitive
<1>1. ASSUME UNCHANGED <<adapter, inner, ideal>> PROVE AdapterInv'
  BY <1>1 DEF AdapterInv, FirstLevel, FastKept, Primitive, AdapterState, Adapter!None
<1>2. CASE Adapter!Up
  BY <1>0, <1>2, MovesStep DEF Adapter!Up
<1>3. CASE Adapter!Down
  BY <1>0, <1>3, MovesStep DEF Adapter!Down
<1>4. CASE Adapter!EventSet
  BY <1>4, MovesStep DEF Adapter!EventSet
<1>6. CASE Adapter!LoopStarts \/ Adapter!LoopEnds \/ UNCHANGED Adapter!adapterVars
  BY <1>1, <1>6 DEF Adapter!LoopStarts, Adapter!LoopEnds, Adapter!adapterVars
<1> QED
  BY <1>2, <1>3, <1>4, <1>6, SetterStep
     DEF Adapter!AdapterNext, Adapter!LockCall, Adapter!SemaphoreCall, Adapter!LimiterCall

LEMMA AdapterHolds == AdapterInv => Adapter!AdapterTransparent
<1> SUFFICES ASSUME AdapterInv PROVE Adapter!AdapterTransparent
  OBVIOUS
<1>1. Adapter!ShownLevel = ideal.level /\ Adapter!ShownLimit = ideal.limit
  BY DEF AdapterInv, FirstLevel, Adapter!ShownLevel, Adapter!ShownLimit
<1>2. Adapter!ShownFast \in BOOLEAN /\ (Adapter!ShownFast <=> FastKept)
  BY DEF AdapterInv, AdapterState, Primitive, Adapter!ShownFast
<1> QED
  BY <1>1, <1>2 DEF Adapter!AdapterTransparent, FastKept
-----------------------------------------------------------------------------
(* RunVar: the tokens of a variable in a loop that are not redeemed are a    *)
(* stack, each of which holds the value under it; but for a variable for     *)
(* which a token was used out of order, or in another loop.                  *)

runVarsOf == a
tokens == b
strays == c

USE DEF runVarsOf, tokens, strays

Token ==
  [var : Var, loop : RunLoop, before : Value \union {NoValue}, after : Value, redeemed : BOOLEAN,
   gone : BOOLEAN]

RunVarTypeOK ==
  /\ runVarsOf \in [RunLoop -> [known : BOOLEAN, values : [Var -> Value \union {NoValue}]]]
  /\ tokens \in Seq(Token) /\ strays \in [RunLoop -> SUBSET Var]

\* x is what the latest of the tokens in S has set.
LatestSet(S, x) ==
  \/ S = {} /\ x = NoValue
  \/ \E i \in S : (\A j \in S : j <= i) /\ x = tokens[i].after

Under(l, v, i) == {j \in Vars!Open(l, v) : j < i}

Stacked ==
  \A l \in RunLoop, v \in Var : v \notin strays[l] =>
    /\ LatestSet(Vars!Open(l, v), runVarsOf[l].values[v])
    /\ \A i \in Vars!Open(l, v) : LatestSet(Under(l, v, i), tokens[i].before)

RunVarIInv == RunVarTypeOK /\ Stacked

\* At first nothing is set.
LEMMA InitVars == Vars!RunVarInit => RunVarIInv
<1> SUFFICES ASSUME Vars!RunVarInit PROVE RunVarIInv
  OBVIOUS
<1>1. tokens \in Seq(Token) /\ DOMAIN tokens = {}
  BY EmptySeq DEF Vars!RunVarInit
<1>2. \A l, v : Vars!Open(l, v) = {}
  BY <1>1 DEF Vars!Open
<1> QED
  BY <1>1, <1>2 DEF Vars!RunVarInit, RunVarIInv, RunVarTypeOK, Stacked, LatestSet

\* A step that leaves the tokens alone, and the values
LEMMA VarsStutter ==
  ASSUME RunVarIInv, tokens' = tokens, strays' = strays, NEW r, runVarsOf' = r,
         r \in [RunLoop -> [known : BOOLEAN, values : [Var -> Value \union {NoValue}]]],
         \A l \in RunLoop, v \in Var : r[l].values[v] = runVarsOf[l].values[v]
  PROVE  RunVarIInv'
<1>1. \A l, v : Vars!Open(l, v)' = Vars!Open(l, v)
  BY DEF Vars!Open
<1>2. \A l, v, i : Under(l, v, i)' = Under(l, v, i)
  BY <1>1 DEF Under
<1>3. \A S, x : LatestSet(S, x)' <=> LatestSet(S, x)
  BY DEF LatestSet
<1> QED
  BY <1>1, <1>2, <1>3 DEF RunVarIInv, RunVarTypeOK, Stacked

\* Tokens that keep what they have set and where keep their place in the stacks.
LEMMA SetStep ==
  ASSUME RunVarIInv, NEW l \in RunLoop, NEW v \in Var, NEW value \in Value,
         Vars!Set(l, v, value)
  PROVE  RunVarIInv'
<1> DEFINE new == [var |-> v, loop |-> l, before |-> runVarsOf[l].values[v],
                   after |-> value, redeemed |-> FALSE, gone |-> FALSE]
<1> PICK n : n = Len(tokens)
  OBVIOUS
<1>0. RunVarTypeOK /\ Stacked
  BY DEF RunVarIInv
<1>1. new \in Token
  BY <1>0 DEF RunVarTypeOK, Token
<1>2. tokens' = Append(tokens, new) /\ strays' = strays
  BY DEF Vars!Set
<1>3. /\ tokens' \in Seq(Token) /\ n \in Nat /\ DOMAIN tokens = 1..n /\ DOMAIN tokens' = 1..(n + 1)
      /\ \A i \in 1..n : tokens'[i] = tokens[i]
      /\ tokens'[n + 1] = new
  <2>1. tokens \in Seq(Token)
    BY <1>0 DEF RunVarTypeOK
  <2> HIDE DEF new
  <2>2. /\ Append(tokens, new) \in Seq(Token) /\ Len(Append(tokens, new)) = Len(tokens) + 1
        /\ \A i \in 1..Len(tokens) : Append(tokens, new)[i] = tokens[i]
        /\ Append(tokens, new)[Len(tokens) + 1] = new
    BY <1>1, <2>1, AppendProperties
  <2> QED
    BY <1>2, <2>1, <2>2, LenProperties
<1>4. /\ runVarsOf' \in [RunLoop -> [known : BOOLEAN, values : [Var -> Value \union {NoValue}]]]
      /\ \A k \in RunLoop, w \in Var :
           runVarsOf'[k].values[w] = IF k = l /\ w = v THEN value ELSE runVarsOf[k].values[w]
  BY <1>0 DEF Vars!Set, Vars!CurrentVars, RunVarTypeOK
<1>5. new.loop = l /\ new.var = v /\ ~new.redeemed /\ ~new.gone /\ new.after = value
      /\ new.before = runVarsOf[l].values[v]
  OBVIOUS
<1> HIDE DEF new
<1>6. ASSUME NEW k \in RunLoop, NEW w \in Var
      PROVE  /\ k = l /\ w = v => Vars!Open(k, w)' = Vars!Open(k, w) \union {n + 1}
             /\ ~(k = l /\ w = v) => Vars!Open(k, w)' = Vars!Open(k, w)
  BY <1>3, <1>5 DEF Vars!Open
<1>7. \A k, w : Vars!Open(k, w) \subseteq 1..n
  BY <1>3 DEF Vars!Open
<1>8. ASSUME NEW S \in SUBSET (1..n), NEW x, LatestSet(S, x) PROVE LatestSet(S, x)'
  BY <1>3, <1>8 DEF LatestSet
<1>9. ASSUME NEW k \in RunLoop, NEW w \in Var, w \notin strays[k]
      PROVE  /\ LatestSet(Vars!Open(k, w), runVarsOf[k].values[w])'
             /\ \A i \in Vars!Open(k, w)' : LatestSet(Under(k, w, i), tokens[i].before)'
  <2>0. /\ LatestSet(Vars!Open(k, w), runVarsOf[k].values[w])
        /\ \A i \in Vars!Open(k, w) : LatestSet(Under(k, w, i), tokens[i].before)
    BY <1>0, <1>9 DEF Stacked
  <2>1. ASSUME NEW i \in Vars!Open(k, w)
        PROVE  LatestSet(Under(k, w, i), tokens[i].before)'
    <3>1. i \in 1..n /\ tokens'[i] = tokens[i] /\ Under(k, w, i) \subseteq 1..n
      BY <1>3, <1>7 DEF Under
    <3>2. \A j : j < i => (j \in Vars!Open(k, w)' <=> j \in Vars!Open(k, w))
      BY <1>3, <1>6, <3>1
    <3>3. Under(k, w, i)' = Under(k, w, i)
      BY <3>2 DEF Under
    <3>4. LatestSet(Under(k, w, i), tokens[i].before)
      BY <2>0
    <3> QED
      BY <1>3, <3>1, <3>3, <3>4 DEF LatestSet
  <2>2. CASE k = l /\ w = v
    <3>1. Vars!Open(k, w)' = Vars!Open(k, w) \union {n + 1}
      BY <1>6, <2>2
    <3>2. \A j \in Vars!Open(k, w)' : j <= n + 1
      BY <1>3, <1>7, <3>1
    <3>3. LatestSet(Vars!Open(k, w), runVarsOf[k].values[w])'
      BY <1>3, <1>4, <1>5, <2>2, <3>1, <3>2 DEF LatestSet
    <3>4. Under(k, w, n + 1)' = Vars!Open(k, w)
      <4>1. \A j : j \in Vars!Open(k, w)' /\ j < n + 1 <=> j \in Vars!Open(k, w)
        BY <1>3, <1>7, <3>1
      <4> QED
        BY <4>1 DEF Under
    <3>5. tokens'[n + 1].before = runVarsOf[k].values[w]
      BY <1>3, <1>5, <2>2
    <3>6. LatestSet(Under(k, w, n + 1), tokens[n + 1].before)'
      <4>1. LatestSet(Vars!Open(k, w), runVarsOf[k].values[w]) /\ Vars!Open(k, w) \subseteq 1..n
        BY <1>7, <2>0
      <4> QED
        BY <1>3, <3>4, <3>5, <4>1 DEF LatestSet
    <3> QED
      <4>1. ASSUME NEW i \in Vars!Open(k, w)' PROVE LatestSet(Under(k, w, i), tokens[i].before)'
        <5>1. CASE i = n + 1
          BY <3>6, <5>1
        <5>2. CASE i \in Vars!Open(k, w)
          BY <2>1, <5>2
        <5> QED
          BY <3>1, <5>1, <5>2
      <4> QED
        BY <3>3, <4>1
  <2>3. CASE ~(k = l /\ w = v)
    <3>1. Vars!Open(k, w)' = Vars!Open(k, w)
      BY <1>6, <2>3
    <3>2. runVarsOf'[k].values[w] = runVarsOf[k].values[w]
      BY <1>4, <2>3
    <3>3. LatestSet(Vars!Open(k, w), runVarsOf[k].values[w])'
      BY <1>3, <1>7, <2>0, <3>1, <3>2 DEF LatestSet
    <3> QED
      BY <2>1, <3>1, <3>3
  <2> QED
    BY <2>2, <2>3
<1> QED
  BY <1>0, <1>2, <1>3, <1>4, <1>9 DEF RunVarIInv, RunVarTypeOK, Stacked

\* Tokens that are redeemed in order leave the stacks from above; those of a loop that
\* is gone leave all at once.
LEMMA RedeemStep ==
  ASSUME RunVarIInv, NEW l \in RunLoop,
         runVarsOf' \in [RunLoop -> [known : BOOLEAN, values : [Var -> Value \union {NoValue}]]],
         tokens' \in Seq(Token), DOMAIN tokens' = DOMAIN tokens,
         strays' \in [RunLoop -> SUBSET Var],
         \A i \in DOMAIN tokens :
           /\ tokens'[i].loop = tokens[i].loop /\ tokens'[i].var = tokens[i].var
           /\ tokens'[i].before = tokens[i].before /\ tokens'[i].after = tokens[i].after,
         \A k \in RunLoop, w \in Var : w \notin strays'[k] =>
           \/ /\ Vars!Open(k, w)' = Vars!Open(k, w) /\ w \notin strays[k]
              /\ runVarsOf'[k].values[w] = runVarsOf[k].values[w]
           \/ /\ Vars!Open(k, w)' = {}
              /\ runVarsOf'[k].values[w] = NoValue
           \/ \E i \in Vars!Open(k, w) :
                /\ Vars!Open(k, w)' = Under(k, w, i) /\ w \notin strays[k]
                /\ runVarsOf'[k].values[w] = tokens[i].before
  PROVE  RunVarIInv'
<1>0. Stacked /\ tokens \in Seq(Token) /\ DOMAIN tokens \subseteq Nat
  BY LenProperties DEF RunVarIInv, RunVarTypeOK
<1>1. \A k, w : Vars!Open(k, w) \subseteq DOMAIN tokens
  BY DEF Vars!Open
<1>2. ASSUME NEW S \in SUBSET (DOMAIN tokens), NEW x, LatestSet(S, x) PROVE LatestSet(S, x)'
  BY <1>2 DEF LatestSet
<1>3. ASSUME NEW k \in RunLoop, NEW w \in Var, w \notin strays'[k]
      PROVE  /\ LatestSet(Vars!Open(k, w), runVarsOf[k].values[w])'
             /\ \A i \in Vars!Open(k, w)' : LatestSet(Under(k, w, i), tokens[i].before)'
  <2>0. w \notin strays[k] =>
        /\ LatestSet(Vars!Open(k, w), runVarsOf[k].values[w])
        /\ \A i \in Vars!Open(k, w) : LatestSet(Under(k, w, i), tokens[i].before)
    BY <1>0 DEF Stacked
  <2>1. \A j : Under(k, w, j) \subseteq DOMAIN tokens
    BY <1>1 DEF Under
  <2>2. ASSUME Vars!Open(k, w)' = {}, runVarsOf'[k].values[w] = NoValue
        PROVE  LatestSet(Vars!Open(k, w), runVarsOf[k].values[w])'
    BY <2>2 DEF LatestSet
  <2>3. ASSUME Vars!Open(k, w)' = Vars!Open(k, w), w \notin strays[k],
               runVarsOf'[k].values[w] = runVarsOf[k].values[w]
        PROVE  LatestSet(Vars!Open(k, w), runVarsOf[k].values[w])'
    BY <1>1, <1>2, <2>0, <2>3 DEF LatestSet
  <2>4. ASSUME NEW i \in Vars!Open(k, w), Vars!Open(k, w)' = Under(k, w, i), w \notin strays[k],
               runVarsOf'[k].values[w] = tokens[i].before
        PROVE  LatestSet(Vars!Open(k, w), runVarsOf[k].values[w])'
    BY <1>2, <2>0, <2>1, <2>4 DEF LatestSet
  <2>5. \/ Vars!Open(k, w)' = Vars!Open(k, w) /\ w \notin strays[k]
        \/ Vars!Open(k, w)' = {}
        \/ (\E i \in Vars!Open(k, w) : Vars!Open(k, w)' = Under(k, w, i)) /\ w \notin strays[k]
    BY <1>3
  <2>6. ASSUME NEW j \in Vars!Open(k, w)'
        PROVE  j \in Vars!Open(k, w) /\ Under(k, w, j)' = Under(k, w, j) /\ w \notin strays[k]
    BY <1>0, <1>1, <2>5, <2>6 DEF Under
  <2>7. ASSUME NEW j \in Vars!Open(k, w)'
        PROVE  LatestSet(Under(k, w, j), tokens[j].before)'
    <3>1. /\ j \in Vars!Open(k, w) /\ j \in DOMAIN tokens /\ w \notin strays[k]
          /\ Under(k, w, j)' = Under(k, w, j) /\ tokens'[j].before = tokens[j].before
      BY <1>1, <2>6, <2>7
    <3> QED
      BY <1>2, <2>0, <2>1, <3>1 DEF LatestSet
  <2> QED
    BY <1>3, <2>2, <2>3, <2>4, <2>7
<1> QED
  BY <1>3 DEF RunVarIInv, RunVarTypeOK, Stacked

LEMMA ResetStep ==
  ASSUME RunVarIInv, NEW l \in RunLoop, NEW v \in Var, NEW i \in DOMAIN tokens,
         Vars!Reset(l, v, i)
  PROVE  RunVarIInv'
<1>0. RunVarTypeOK /\ Stacked
  BY DEF RunVarIInv
<1>1. /\ tokens[i].var = v /\ ~tokens[i].redeemed
      /\ runVarsOf' = [runVarsOf EXCEPT
            ![l] = [Vars!CurrentVars(l) EXCEPT !.values[v] = tokens[i].before]]
      /\ tokens' = [tokens EXCEPT ![i].redeemed = TRUE]
  BY DEF Vars!Reset, Vars!MayRedeem
<1> DEFINE new == [tokens[i] EXCEPT !.redeemed = TRUE]
<1>2. tokens[i] \in Token /\ DOMAIN tokens = 1..Len(tokens)
  BY <1>0, ElementOfSeq, LenProperties DEF RunVarTypeOK
<1>3. /\ new \in Token /\ tokens' = [tokens EXCEPT ![i] = new]
      /\ new.loop = tokens[i].loop /\ new.var = v /\ new.redeemed
      /\ new.before = tokens[i].before /\ new.after = tokens[i].after
  BY <1>1, <1>2 DEF Token
<1> HIDE DEF new
<1>4. /\ tokens' \in Seq(Token) /\ DOMAIN tokens' = DOMAIN tokens /\ tokens'[i] = new
      /\ \A j \in DOMAIN tokens : j # i => tokens'[j] = tokens[j]
  BY <1>0, <1>2, <1>3, ExceptSeq DEF RunVarTypeOK
<1>5. /\ runVarsOf' \in [RunLoop -> [known : BOOLEAN, values : [Var -> Value \union {NoValue}]]]
      /\ \A k \in RunLoop, w \in Var :
           runVarsOf'[k].values[w]
           = IF k = l /\ w = v THEN tokens[i].before ELSE runVarsOf[k].values[w]
  BY <1>0, <1>1, <1>2, ZenonT(40) DEF Vars!CurrentVars, RunVarTypeOK, Token
<1>6. /\ strays' \in [RunLoop -> SUBSET Var]
      /\ \A k \in RunLoop :
           strays'[k] = IF ~Vars!Latest(l, v, i) /\ (k = l \/ i \in Vars!Open(k, v))
                        THEN strays[k] \union {v} ELSE strays[k]
  BY <1>0 DEF RunVarTypeOK, Vars!Reset
<1>7. \A k \in RunLoop, w \in Var : Vars!Open(k, w)' = Vars!Open(k, w) \ {i}
  BY <1>3, <1>4 DEF Vars!Open
<1>8. Vars!Latest(l, v, i) => i \in Vars!Open(l, v) /\ Vars!Open(l, v)' = Under(l, v, i)
  BY <1>0, <1>2, <1>7 DEF Under, Vars!Open, Vars!Latest
<1>9. ASSUME NEW k \in RunLoop, NEW w \in Var, w \notin strays'[k]
      PROVE  \/ /\ Vars!Open(k, w)' = Vars!Open(k, w) /\ w \notin strays[k]
                /\ runVarsOf'[k].values[w] = runVarsOf[k].values[w]
             \/ \E m \in Vars!Open(k, w) :
                  /\ Vars!Open(k, w)' = Under(k, w, m) /\ w \notin strays[k]
                  /\ runVarsOf'[k].values[w] = tokens[m].before
  <2>0. w \notin strays[k]
    BY <1>6, <1>9
  <2>1. CASE k = l /\ w = v
    <3>1. Vars!Latest(l, v, i)
      BY <1>6, <1>9, <2>1
    <3> QED
      BY <1>5, <1>8, <2>0, <2>1, <3>1
  <2>2. CASE ~(k = l /\ w = v)
    <3>1. i \notin Vars!Open(k, w)
      <4>1. CASE w # v
        BY <1>1, <4>1 DEF Vars!Open
      <4>2. CASE w = v /\ i \in Vars!Open(k, v)
        <5>1. k # l /\ ~Vars!Latest(l, v, i)
          BY <2>2, <4>2 DEF Vars!Latest, Vars!Open
        <5>2. v \in strays'[k]
          BY <1>6, <4>2, <5>1
        <5> QED
          BY <1>9, <4>2, <5>2
      <4> QED
        BY <4>1, <4>2
    <3>2. Vars!Open(k, w)' = Vars!Open(k, w)
      <4>1. Vars!Open(k, w)' = Vars!Open(k, w) \ {i}
        BY <1>7
      <4> QED
        BY <3>1, <4>1
    <3>3. runVarsOf'[k].values[w] = runVarsOf[k].values[w]
      BY <1>5, <2>2
    <3> QED
      BY <2>0, <3>2, <3>3
  <2> QED
    BY <2>1, <2>2
<1>10. \A j \in DOMAIN tokens :
         /\ tokens'[j].loop = tokens[j].loop /\ tokens'[j].var = tokens[j].var
         /\ tokens'[j].before = tokens[j].before /\ tokens'[j].after = tokens[j].after
  BY <1>1, <1>3, <1>4
<1> QED
  BY <1>4, <1>5, <1>6, <1>9, <1>10, RedeemStep

LEMMA GoneStep ==
  ASSUME RunVarIInv, NEW l \in RunLoop, Vars!LoopGone(l)
  PROVE  RunVarIInv'
<1>0. RunVarTypeOK /\ DOMAIN tokens = 1..Len(tokens) /\ Len(tokens) \in Nat
      /\ \A i \in DOMAIN tokens : tokens[i] \in Token
  BY ElementOfSeq, LenProperties DEF RunVarIInv, RunVarTypeOK
<1> DEFINE new(i) == [tokens[i] EXCEPT !.gone = @ \/ tokens[i].loop = l]
<1>1. \A i \in DOMAIN tokens :
        /\ new(i) \in Token
        /\ new(i).loop = tokens[i].loop /\ new(i).var = tokens[i].var
        /\ new(i).before = tokens[i].before /\ new(i).after = tokens[i].after
        /\ new(i).redeemed = tokens[i].redeemed
        /\ new(i).gone <=> tokens[i].gone \/ tokens[i].loop = l
  BY <1>0 DEF Token
<1>2. tokens' = [i \in DOMAIN tokens |-> new(i)]
  BY DEF Vars!LoopGone
<1> HIDE DEF new
<1>3. /\ tokens' \in Seq(Token) /\ DOMAIN tokens' = DOMAIN tokens
      /\ \A i \in DOMAIN tokens : tokens'[i] = new(i)
  BY <1>0, <1>1, <1>2, IsASeq
<1>4. /\ runVarsOf' \in [RunLoop -> [known : BOOLEAN, values : [Var -> Value \union {NoValue}]]]
      /\ \A k \in RunLoop, w \in Var :
           runVarsOf'[k].values[w] = IF k = l THEN NoValue ELSE runVarsOf[k].values[w]
  BY <1>0 DEF Vars!LoopGone, RunVarTypeOK
<1>5. \A k \in RunLoop, w \in Var :
        Vars!Open(k, w)' = IF k = l THEN {} ELSE Vars!Open(k, w)
  BY <1>1, <1>3 DEF Vars!Open
<1>s. /\ strays' \in [RunLoop -> SUBSET Var]
      /\ \A k \in RunLoop : k # l => strays'[k] = strays[k]
  BY <1>0 DEF Vars!LoopGone, RunVarTypeOK
<1>6. ASSUME NEW k \in RunLoop, NEW w \in Var, w \notin strays'[k]
      PROVE  \/ /\ Vars!Open(k, w)' = Vars!Open(k, w) /\ w \notin strays[k]
                /\ runVarsOf'[k].values[w] = runVarsOf[k].values[w]
             \/ /\ Vars!Open(k, w)' = {}
                /\ runVarsOf'[k].values[w] = NoValue
  BY <1>4, <1>5, <1>6, <1>s
<1>7. \A i \in DOMAIN tokens :
        /\ tokens'[i].loop = tokens[i].loop /\ tokens'[i].var = tokens[i].var
        /\ tokens'[i].before = tokens[i].before /\ tokens'[i].after = tokens[i].after
  BY <1>1, <1>3
<1> QED
  BY <1>3, <1>4, <1>6, <1>7, <1>s, RedeemStep

\* Every step keeps the stacks.
LEMMA NextVars == RunVarIInv /\ [Vars!RunVarNext]_(Vars!runVarVars) => RunVarIInv'
<1> SUFFICES ASSUME RunVarIInv, [Vars!RunVarNext]_(Vars!runVarVars) PROVE RunVarIInv'
  OBVIOUS
<1>0. RunVarTypeOK
  BY DEF RunVarIInv
<1>1. CASE UNCHANGED Vars!runVarVars
  <2> DEFINE r == runVarsOf
  <2>1. /\ tokens' = tokens /\ strays' = strays /\ runVarsOf' = r
        /\ r \in [RunLoop -> [known : BOOLEAN, values : [Var -> Value \union {NoValue}]]]
        /\ \A l \in RunLoop, v \in Var : r[l].values[v] = runVarsOf[l].values[v]
    BY <1>0, <1>1 DEF Vars!runVarVars, RunVarTypeOK
  <2> HIDE DEF r
  <2> QED
    BY <2>1, VarsStutter
<1>2. ASSUME NEW l \in RunLoop, NEW v \in Var, Vars!Get(l, v) PROVE RunVarIInv'
  <2> DEFINE r == [runVarsOf EXCEPT ![l] = Vars!CurrentVars(l)]
  <2>1. /\ tokens' = tokens /\ strays' = strays /\ runVarsOf' = r
        /\ r \in [RunLoop -> [known : BOOLEAN, values : [Var -> Value \union {NoValue}]]]
        /\ \A k \in RunLoop, w \in Var : r[k].values[w] = runVarsOf[k].values[w]
    BY <1>0, <1>2 DEF Vars!Get, Vars!CurrentVars, RunVarTypeOK
  <2> HIDE DEF r
  <2> QED
    BY <2>1, VarsStutter
<1> QED
  BY <1>1, <1>2, SetStep, ResetStep, GoneStep DEF Vars!RunVarNext

LEMMA VarsHold == RunVarIInv => Vars!VariablesPerLoop
<1> SUFFICES ASSUME RunVarIInv, NEW l \in RunLoop, NEW v \in Var, v \notin strays[l]
             PROVE  runVarsOf[l].values[v]
                    = IF Vars!Open(l, v) = {} THEN NoValue
                      ELSE tokens[CHOOSE i \in Vars!Open(l, v) :
                                    \A j \in Vars!Open(l, v) : j <= i].after
  BY DEF Vars!VariablesPerLoop
<1>1. LatestSet(Vars!Open(l, v), runVarsOf[l].values[v])
  BY DEF RunVarIInv, Stacked
<1>2. Vars!Open(l, v) \subseteq Nat
  BY LenProperties DEF Vars!Open, RunVarIInv, RunVarTypeOK
<1>3. \A i, k \in Vars!Open(l, v) :
        (\A j \in Vars!Open(l, v) : j <= i) /\ (\A j \in Vars!Open(l, v) : j <= k) => i = k
  BY <1>2
<1> QED
  BY <1>1, <1>3 DEF LatestSet
-----------------------------------------------------------------------------
(* wrap_async_context_manager(): how far a thread is and how far its task in *)
(* the portal is go together, and what is left of the tasks once the group   *)
(* of the portal may close at any time was spawned late.                     *)

block == a
body == b
told == c
hub == d
hubOff == e

USE DEF block, body, told, hub, hubOff

BlockState ==
  [place : {"out", "asking", "entering", "inside", "telling", "posted", "leaving", "left", "refused"},
   exc : {"none", "error"}]
BodyState ==
  [place : {"none", "entering", "waiting", "exiting", "over"},
   entered : {"pending", "value", "error"}, given : {"nothing", "none", "error"},
   late : BOOLEAN]

HubLeft == hub \in {"checkpoint", "closed", "gone"}

\* The state w of a thread, the state y of its task, and whether the event is set
Together(w, y, isTold) ==
  /\ w.place \in {"out", "asking"} => y.place = "none"
  /\ w.place = "entering" => y.place # "none"
  /\ w.place \in {"inside", "telling", "posted", "leaving"} => y.entered = "value"
  /\ w.place = "leaving" => isTold
  /\ w.place = "left" => y.place = "over"
  /\ isTold => w.place \in {"leaving", "left"}
  /\ y.entered = "pending" <=> y.place \in {"none", "entering"}
  /\ y.entered = "error" => y.place = "over"
  /\ y.given # "nothing" <=> y.entered = "value" /\ y.place \in {"exiting", "over"}
  /\ y.given # "nothing" /\ ~hubOff => y.late \/ (y.given = w.exc /\ isTold)
  /\ HubLeft => y.place \in {"none", "over"} \/ y.late

EnteredInv ==
  /\ block \in [Context -> BlockState] /\ body \in [Context -> BodyState]
  /\ hubOff \in BOOLEAN
  /\ \A x \in Context : Together(block[x], body[x], x \in told)

\* No thread has entered anything.
LEMMA InitEntered == Entered!ContextInit => EnteredInv
<1> SUFFICES ASSUME Entered!ContextInit PROVE EnteredInv
  OBVIOUS
<1>1. /\ block = [x \in Context |-> [place |-> "out", exc |-> "none"]]
      /\ body = [x \in Context |-> [place |-> "none", entered |-> "pending", given |-> "nothing",
                                 late |-> FALSE]]
      /\ told = {} /\ hubOff = FALSE
  BY DEF Entered!ContextInit
<1>2. /\ block \in [Context -> BlockState] /\ body \in [Context -> BodyState]
  BY <1>1 DEF BlockState, BodyState
<1> QED
  BY <1>1, <1>2 DEF EnteredInv, Together

\* A step of the thread, or the task, of x
LEMMA EnteredStep ==
  ASSUME EnteredInv, NEW x \in Context, NEW w \in BlockState, NEW y \in BodyState,
         block' = [block EXCEPT ![x] = w], body' = [body EXCEPT ![x] = y],
         hubOff' = hubOff, hub' = hub, told' \ {x} = told \ {x}, Together(w, y, x \in told')
  PROVE  EnteredInv'
<1>1. /\ block \in [Context -> BlockState] /\ body \in [Context -> BodyState]
      /\ hubOff \in BOOLEAN
      /\ \A z \in Context : Together(block[z], body[z], z \in told)
  BY DEF EnteredInv
<1>2. /\ block' \in [Context -> BlockState] /\ body' \in [Context -> BodyState]
      /\ block'[x] = w /\ body'[x] = y
      /\ \A z \in Context \ {x} : /\ block'[z] = block[z] /\ body'[z] = body[z]
                                  /\ z \in told' <=> z \in told
  BY <1>1
<1>3. \A z \in Context : Together(block[z], body[z], z \in told)'
  BY <1>1, <1>2 DEF Together, HubLeft
<1> QED
  BY <1>1, <1>2, <1>3 DEF EnteredInv

LEMMA NextEntered == EnteredInv /\ [Entered!ContextNext]_(Entered!contextVars) => EnteredInv'
<1> SUFFICES ASSUME EnteredInv, [Entered!ContextNext]_(Entered!contextVars)
             PROVE  EnteredInv'
  OBVIOUS
<1> USE DEF Entered!BlockGoes, Entered!BodyGoes
<1>0. /\ block \in [Context -> BlockState] /\ body \in [Context -> BodyState]
      /\ \A x \in Context : /\ Together(block[x], body[x], x \in told)
                            /\ block[x] \in BlockState /\ body[x] \in BodyState
                            /\ block = [block EXCEPT ![x] = block[x]]
                            /\ body = [body EXCEPT ![x] = body[x]]
  BY DEF EnteredInv
<1>1. CASE UNCHANGED Entered!contextVars
  BY <1>1 DEF Entered!contextVars, EnteredInv, Together, HubLeft
<1>2. ASSUME NEW x \in Context,
             \/ Entered!EnterBlock(x) \/ Entered!InsideBlock(x) \/ Entered!ExitBlock(x)
             \/ Entered!TellBody(x) \/ Entered!LeaveBlock(x) \/ Entered!EventSet(x)
             \/ Entered!BodySpawned(x) /\ ~Entered!Active
      PROVE  EnteredInv'
  <2>1. \E w \in BlockState : block' = [block EXCEPT ![x] = w]
    <3>1. ASSUME NEW place, block' = [block EXCEPT ![x].place = place],
                 place \in {"asking", "refused", "inside", "left", "posted", "leaving"}
          PROVE  \E w \in BlockState : block' = [block EXCEPT ![x] = w]
      <4> DEFINE w == [block[x] EXCEPT !.place = place]
      <4>1. w \in BlockState /\ block' = [block EXCEPT ![x] = w]
        BY <1>0, <3>1 DEF BlockState
      <4> QED
        BY <4>1
    <3>2. CASE \E exc \in {"none", "error"} :
                 block' = [block EXCEPT ![x] = [place |-> "telling", exc |-> exc]]
      BY <3>2 DEF BlockState
    <3> QED
      BY <1>2, <3>1, <3>2 DEF Entered!EnterBlock, Entered!InsideBlock, Entered!ExitBlock,
         Entered!TellBody, Entered!LeaveBlock, Entered!EventSet, Entered!BodySpawned
  <2>2. PICK w \in BlockState : block' = [block EXCEPT ![x] = w]
    BY <2>1
  <2>3. /\ block'[x] = w /\ Together(block[x], body[x], x \in told)
        /\ block[x] \in BlockState /\ body[x] \in BodyState
    BY <1>0, <2>2
  <2>4. body' = body /\ hub' = hub /\ hubOff' = hubOff /\ told' \ {x} = told \ {x}
    BY <1>2 DEF Entered!EnterBlock, Entered!InsideBlock, Entered!ExitBlock,
       Entered!TellBody, Entered!LeaveBlock, Entered!EventSet, Entered!BodySpawned
  <2>5. Together(w, body[x], x \in told')
    <3>1. CASE \/ Entered!EnterBlock(x) \/ Entered!InsideBlock(x) \/ Entered!TellBody(x)
               \/ Entered!LeaveBlock(x) \/ (Entered!BodySpawned(x) /\ ~Entered!Active)
      BY <1>0, <2>3, <2>4, <3>1 DEF Together, BlockState, BodyState, Entered!EnterBlock,
         Entered!InsideBlock, Entered!TellBody, Entered!LeaveBlock, Entered!BodySpawned
    <3>2. CASE Entered!ExitBlock(x)
      BY <1>0, <2>3, <2>4, <3>2 DEF Together, BlockState, BodyState, Entered!ExitBlock
    <3>3. CASE Entered!EventSet(x)
      BY <1>0, <2>3, <2>4, <3>3 DEF Together, BlockState, BodyState, Entered!EventSet
    <3> QED
      BY <1>2, <3>1, <3>2, <3>3
  <2>6. body' = [body EXCEPT ![x] = body[x]]
    BY <1>0, <2>4
  <2> QED
    BY <2>2, <2>3, <2>4, <2>5, <2>6, EnteredStep
<1>5. ASSUME NEW x \in Context, Entered!BodySpawned(x), Entered!Active
      PROVE  EnteredInv'
  <2>0. /\ block[x].place = "asking" /\ told' = told /\ hub' = hub /\ hubOff' = hubOff
        /\ block' = [block EXCEPT ![x].place = "entering"]
        /\ body' = [body EXCEPT ![x].place = "entering", ![x].late = (hub = "checkpoint")]
    BY <1>5 DEF Entered!BodySpawned
  <2> DEFINE w == [block[x] EXCEPT !.place = "entering"]
             y == [body[x] EXCEPT !.place = "entering", !.late = (hub = "checkpoint")]
  <2>1. /\ w \in BlockState /\ block' = [block EXCEPT ![x] = w]
        /\ w.place = "entering" /\ w.exc = block[x].exc
    BY <1>0, <2>0 DEF BlockState
  <2>2. /\ y \in BodyState /\ body' = [body EXCEPT ![x] = y]
        /\ y.place = "entering" /\ y.late = (hub = "checkpoint")
        /\ y.entered = body[x].entered /\ y.given = body[x].given
    BY <1>0, <2>0 DEF BodyState
  <2>3. body[x].place = "none" /\ x \notin told /\ Together(block[x], body[x], x \in told)
    BY <1>0, <2>0 DEF Together
  <2> HIDE DEF w, y
  <2>4. Together(w, y, x \in told')
    BY <1>5, <2>0, <2>1, <2>2, <2>3 DEF Together, HubLeft, Entered!Active
  <2> QED
    BY <2>0, <2>1, <2>2, <2>4, EnteredStep
<1>3. ASSUME NEW x \in Context,
             Entered!BodyEntered(x) \/ Entered!BodyExits(x) \/ Entered!BodyOver(x)
      PROVE  EnteredInv'
  <2>1. /\ Together(block[x], body[x], x \in told)
        /\ block[x] \in BlockState /\ body[x] \in BodyState
        /\ block' = [block EXCEPT ![x] = block[x]] /\ told' = told /\ hubOff' = hubOff
        /\ hub' = hub
    BY <1>0, <1>3 DEF Entered!BodyEntered, Entered!BodyExits, Entered!BodyOver
  <2>2. \E y \in BodyState :
          body' = [body EXCEPT ![x] = y] /\ Together(block[x], y, x \in told)
    <3>1. CASE Entered!BodyEntered(x)
      <4> DEFINE y1 == [body[x] EXCEPT !.place = "waiting", !.entered = "value"]
                 y2 == [body[x] EXCEPT !.place = "over", !.entered = "error"]
      <4>1. y1 \in BodyState /\ y2 \in BodyState
        BY <2>1 DEF BodyState
      <4>2. body' = [body EXCEPT ![x] = y1] \/ body' = [body EXCEPT ![x] = y2]
        BY <3>1 DEF Entered!BodyEntered
      <4>3. /\ y1.place = "waiting" /\ y1.entered = "value" /\ y1.given = body[x].given
            /\ y1.late = body[x].late /\ y2.place = "over" /\ y2.entered = "error"
            /\ y2.given = body[x].given /\ y2.late = body[x].late
            /\ body[x].place = "entering"
        BY <2>1, <3>1 DEF BodyState, Entered!BodyEntered
      <4> HIDE DEF y1, y2
      <4>4. Together(block[x], y1, x \in told) /\ Together(block[x], y2, x \in told)
        BY <2>1, <4>3 DEF Together
      <4> QED
        BY <4>1, <4>2, <4>4
    <3>2. CASE Entered!BodyExits(x)
      <4> DEFINE y == [body[x] EXCEPT !.place = "exiting", !.given = block[x].exc]
      <4>1. y \in BodyState
        BY <2>1 DEF BodyState, BlockState
      <4>2. body' = [body EXCEPT ![x] = y]
        BY <3>2 DEF Entered!BodyExits, Entered!Given
      <4>3. /\ y.place = "exiting" /\ y.given = block[x].exc /\ y.entered = body[x].entered
            /\ y.late = body[x].late /\ body[x].place = "waiting" /\ block[x].exc # "nothing"
            /\ x \in told \/ hubOff \/ HubLeft
            /\ hubOff \in BOOLEAN /\ body[x].late \in BOOLEAN
        BY <2>1, <3>2 DEF Entered!BodyExits, BodyState, BlockState, HubLeft, EnteredInv
      <4> HIDE DEF y
      <4>4. /\ y.given # "nothing" /\ ~hubOff =>
                 y.late \/ (y.given = block[x].exc /\ x \in told)
            /\ HubLeft => y.place \in {"none", "over"} \/ y.late
        BY <2>1, <4>3, Zenon DEF Together
      <4>5. body[x].entered = "value"
        BY <2>1, <4>3 DEF Together, BodyState
      <4>6. Together(block[x], y, x \in told)
        BY <2>1, <4>3, <4>4, <4>5 DEF Together
      <4> QED
        BY <4>1, <4>2, <4>6
    <3>3. CASE Entered!BodyOver(x)
      <4> DEFINE y == [body[x] EXCEPT !.place = "over"]
      <4>1. y \in BodyState
        BY <2>1 DEF BodyState
      <4>2. body' = [body EXCEPT ![x] = y]
        BY <3>3 DEF Entered!BodyOver
      <4>3. Together(block[x], y, x \in told)
        BY <2>1, <3>3 DEF Entered!BodyOver, Together, BodyState
      <4> HIDE DEF y
      <4> QED
        BY <4>1, <4>2, <4>3
    <3> QED
      BY <1>3, <3>1, <3>2, <3>3
  <2>3. PICK y \in BodyState :
          body' = [body EXCEPT ![x] = y] /\ Together(block[x], y, x \in told)
    BY <2>2
  <2>4. Together(block[x], y, x \in told')
    BY <2>1, <2>3
  <2>5. told' \ {x} = told \ {x}
    BY <2>1
  <2> QED
    BY <2>1, <2>3, <2>4, <2>5, EnteredStep
<1>4. CASE (\E cancelRemaining \in BOOLEAN : Entered!StopHub(cancelRemaining))
           \/ Entered!CloseHub \/ Entered!HubFails
  <2>1. block' = block /\ body' = body /\ told' = told
    BY <1>4 DEF Entered!StopHub, Entered!CloseHub, Entered!HubFails
  <2>2. hubOff \in BOOLEAN
    BY DEF EnteredInv
  <2>3. hubOff' \in BOOLEAN /\ (hubOff => hubOff')
    <3>1. ASSUME NEW more \in BOOLEAN, Entered!StopHub(more)
          PROVE  hubOff' \in BOOLEAN /\ (hubOff => hubOff')
      <4>1. hubOff' = (hubOff \/ more)
        BY <3>1 DEF Entered!StopHub
      <4> QED
        BY <2>2, <4>1, SMT
    <3>2. CASE Entered!CloseHub \/ Entered!HubFails
      BY <2>2, <3>2 DEF Entered!CloseHub, Entered!HubFails
    <3> QED
      BY <1>4, <3>1, <3>2
  <2>4. HubLeft' => HubLeft \/ \A x \in Context : body[x].place \in {"none", "over"}
    BY <1>4 DEF Entered!StopHub, Entered!CloseHub, Entered!HubFails, HubLeft
  <2> QED
    BY <2>1, <2>3, <2>4 DEF EnteredInv, Together
<1> QED
  BY <1>1, <1>2, <1>3, <1>4, <1>5 DEF Entered!ContextNext

LEMMA EnteredHolds == EnteredInv => Entered!ContextsExited
BY DEF EnteredInv, Together, HubLeft, BodyState, Entered!ContextsExited, Entered!Active
-----------------------------------------------------------------------------
(* BlockingPortal: a thread that waits has a task, a task that has ended has *)
(* resolved the futures, and a task that has not keeps the group active,     *)
(* unless it came late; what a thread has posted is in the queue.            *)

pcall == a
posted == b
line == c
portal == d
groupOff == e

USE DEF pcall, posted, line, portal, groupOff

PortalCallState ==
  [thread : {"idle", "checked", "posted", "starting", "waiting", "done"},
   future : {"pending", "result", "error", "cancelled"},
   status : {"pending", "started", "failed"},
   task : {"none", "new", "tested", "suspended", "ending", "ended"},
   ending : {"none", "result", "error", "base"},
   late : BOOLEAN, scopeOff : BOOLEAN, callback : BOOLEAN, cancel : {"none", "called", "posted", "over"}]

\* What the state y of call x says by itself, and that the group takes and keeps tasks
Resolves(x, y) ==
  /\ y.thread \in {"starting", "waiting"} => y.task # "none"
  /\ y.thread = "starting" => x \in StartTask
  /\ y.task = "ended" => /\ y.future # "pending"
                         /\ x \in StartTask => y.status # "pending"
Keeps(y) ==
  y.task \notin {"none", "ended"} => portal \in {"open", "stopping", "waiting"} \/ y.late

\* What call x has posted is in q, unless the loop has gone.
Entries == [kind : {"spawn", "cancel"}, call : PortalCall]
Entry(word, x) == [kind |-> word, call |-> x]
Asks(x, y, q) ==
  \/ portal = "gone"
  \/ /\ y.thread = "posted" => Entry("spawn", x) \in Portal!Range(q)
     /\ y.cancel = "posted" => Entry("cancel", x) \in Portal!Range(q)

PortalInv ==
  /\ pcall \in [PortalCall -> PortalCallState]
  /\ posted \in Seq(Entries)
  /\ portal \in {"open", "stopping", "waiting", "checkpoint", "closed", "gone"}
  /\ \A x \in PortalCall : Resolves(x, pcall[x]) /\ Keeps(pcall[x]) /\ Asks(x, pcall[x], posted)

\* Nothing leaves a queue that grows, and nothing but its head one that is worked off.
LEMMA QueueGrows ==
  ASSUME NEW q \in Seq(Entries), NEW entry \in Entries
  PROVE  /\ Append(q, entry) \in Seq(Entries) /\ entry \in Portal!Range(Append(q, entry))
         /\ Portal!Range(q) \subseteq Portal!Range(Append(q, entry))
<1>1. /\ Append(q, entry) \in Seq(Entries) /\ Len(Append(q, entry)) = Len(q) + 1
      /\ \A k \in 1..Len(q) : Append(q, entry)[k] = q[k]
      /\ Append(q, entry)[Len(q) + 1] = entry
  BY AppendProperties
<1>2. Len(q) \in Nat /\ DOMAIN q = 1..Len(q) /\ DOMAIN Append(q, entry) = 1..(Len(q) + 1)
  BY <1>1, LenProperties
<1>3. /\ \A k \in 1..Len(q) : k \in 1..(Len(q) + 1)
      /\ Len(q) + 1 \in 1..(Len(q) + 1)
  BY <1>2
<1> QED
  BY <1>1, <1>2, <1>3 DEF Portal!Range

LEMMA QueueShrinks ==
  ASSUME NEW q \in Seq(Entries), q # <<>>, NEW entry \in Portal!Range(q), entry # Head(q)
  PROVE  entry \in Portal!Range(Tail(q))
<1>1. /\ Head(q) = q[1] /\ Tail(q) \in Seq(Entries) /\ Len(Tail(q)) = Len(q) - 1
      /\ \A k \in 1..Len(Tail(q)) : Tail(q)[k] = q[k + 1]
  BY HeadTailProperties
<1>2. Len(q) \in Nat /\ DOMAIN q = 1..Len(q) /\ DOMAIN Tail(q) = 1..Len(Tail(q))
  BY <1>1, LenProperties
<1>3. PICK k \in 1..Len(q) : q[k] = entry
  BY <1>2 DEF Portal!Range
<1>4. k # 1
  BY <1>1, <1>3
<1>5. k - 1 \in 1..Len(Tail(q)) /\ (k - 1) + 1 = k
  BY <1>1, <1>2, <1>3, <1>4
<1>6. Tail(q)[k - 1] = entry
  BY <1>1, <1>3, <1>5
<1> QED
  BY <1>2, <1>5, <1>6 DEF Portal!Range

\* No thread has called.
LEMMA InitPortal == Portal!PortalInit => PortalInv
<1> SUFFICES ASSUME Portal!PortalInit PROVE PortalInv
  OBVIOUS
<1>1. posted \in Seq(Entries)
  BY EmptySeq DEF Portal!PortalInit
<1>2. pcall \in [PortalCall -> PortalCallState]
  BY DEF Portal!PortalInit, PortalCallState
<1> QED
  BY <1>1, <1>2 DEF Portal!PortalInit, PortalInv, Resolves, Keeps, Asks

\* A step of one call, whose state is then y; what the others have posted stays posted.
LEMMA PortalStep ==
  ASSUME PortalInv, NEW x \in PortalCall, NEW y \in PortalCallState,
         pcall' = [pcall EXCEPT ![x] = y], Resolves(x, y), portal' = portal, Keeps(y),
         posted' \in Seq(Entries), Asks(x, y, posted'),
         \A z \in PortalCall \ {x}, word \in {"spawn", "cancel"} :
           Entry(word, z) \in Portal!Range(posted) => Entry(word, z) \in Portal!Range(posted')
  PROVE  PortalInv'
<1>1. /\ pcall \in [PortalCall -> PortalCallState]
      /\ portal \in {"open", "stopping", "waiting", "checkpoint", "closed", "gone"}
      /\ \A z \in PortalCall : Resolves(z, pcall[z]) /\ Keeps(pcall[z]) /\ Asks(z, pcall[z], posted)
  BY DEF PortalInv
<1>2. /\ pcall' \in [PortalCall -> PortalCallState] /\ pcall'[x] = y
      /\ \A z \in PortalCall \ {x} : pcall'[z] = pcall[z]
  BY <1>1
<1>3. \A z \in PortalCall : Resolves(z, pcall'[z]) /\ (Keeps(pcall[z]))'
  BY <1>1, <1>2 DEF Keeps
<1>4. \A z \in PortalCall : (Asks(z, pcall[z], posted))'
  BY <1>1, <1>2 DEF Asks
<1> QED
  BY <1>1, <1>2, <1>3, <1>4 DEF PortalInv, Resolves

\* The calling thread: it asks, posts, is answered, and cancels.
LEMMA ThreadCalls ==
  ASSUME PortalInv, NEW x \in PortalCall,
         \/ Portal!Check(x) \/ Portal!Post(x) \/ Portal!Answered(x)
         \/ Portal!CancelFuture(x) \/ Portal!Callback(x)
  PROVE  PortalInv'
<1>1. /\ pcall[x] \in PortalCallState /\ Resolves(x, pcall[x]) /\ Keeps(pcall[x])
      /\ posted \in Seq(Entries) /\ Asks(x, pcall[x], posted)
  BY DEF PortalInv
<1>2. portal' = portal
  BY DEF Portal!Check, Portal!Post, Portal!Answered, Portal!CancelFuture, Portal!Callback
<1> DEFINE Stays(y) ==
      /\ pcall' = [pcall EXCEPT ![x] = y] /\ Resolves(x, y) /\ Keeps(y)
      /\ posted' \in Seq(Entries) /\ Asks(x, y, posted')
      /\ Portal!Range(posted) \subseteq Portal!Range(posted')
<1>3. ASSUME NEW place \in {"checked", "posted", "waiting", "done"},
             pcall' = [pcall EXCEPT ![x].thread = place],
             place = "waiting" => pcall[x].thread = "starting",
             IF place = "posted" THEN posted' = Append(posted, Entry("spawn", x))
             ELSE posted' = posted
      PROVE  \E y \in PortalCallState : Stays(y)
  <2> DEFINE y == [pcall[x] EXCEPT !.thread = place]
  <2>1. y \in PortalCallState /\ pcall' = [pcall EXCEPT ![x] = y]
    BY <1>1, <1>3 DEF PortalCallState
  <2>2. /\ y.thread = place /\ y.cancel = pcall[x].cancel /\ y.task = pcall[x].task
        /\ y.late = pcall[x].late /\ y.future = pcall[x].future /\ y.status = pcall[x].status
    BY <1>1 DEF PortalCallState
  <2>3. Entry("spawn", x) \in Entries
    BY DEF Entry, Entries
  <2>4. /\ posted' \in Seq(Entries) /\ Portal!Range(posted) \subseteq Portal!Range(posted')
        /\ place = "posted" => Entry("spawn", x) \in Portal!Range(posted')
    BY <1>1, <1>3, <2>3, QueueGrows
  <2> HIDE DEF y
  <2>5. Resolves(x, y) /\ Keeps(y) /\ Asks(x, y, posted')
    BY <1>1, <1>3, <2>2, <2>4 DEF Resolves, Keeps, Asks
  <2> QED
    BY <2>1, <2>4, <2>5
<1>4. ASSUME NEW word \in {"posted", "over"}, pcall' = [pcall EXCEPT ![x].cancel = word],
             IF word = "posted" THEN posted' = Append(posted, Entry("cancel", x))
             ELSE posted' = posted
      PROVE  \E y \in PortalCallState : Stays(y)
  <2> DEFINE y == [pcall[x] EXCEPT !.cancel = word]
  <2>1. y \in PortalCallState /\ pcall' = [pcall EXCEPT ![x] = y]
    BY <1>1, <1>4 DEF PortalCallState
  <2>2. /\ y.thread = pcall[x].thread /\ y.cancel = word /\ y.task = pcall[x].task
        /\ y.late = pcall[x].late /\ y.future = pcall[x].future /\ y.status = pcall[x].status
    BY <1>1 DEF PortalCallState
  <2>3. Entry("cancel", x) \in Entries
    BY DEF Entry, Entries
  <2>4. /\ posted' \in Seq(Entries) /\ Portal!Range(posted) \subseteq Portal!Range(posted')
        /\ word = "posted" => Entry("cancel", x) \in Portal!Range(posted')
    BY <1>1, <1>4, <2>3, QueueGrows
  <2> HIDE DEF y
  <2>5. Resolves(x, y) /\ Keeps(y) /\ Asks(x, y, posted')
    BY <1>1, <1>4, <2>2, <2>4 DEF Resolves, Keeps, Asks
  <2> QED
    BY <2>1, <2>4, <2>5
<1>5. \E y \in PortalCallState : Stays(y)
  <2>1. CASE Portal!CancelFuture(x)
    <3> DEFINE w == IF pcall[x].callback THEN "called" ELSE "over"
               y == [pcall[x] EXCEPT !.future = "cancelled", !.cancel = w]
    <3>1. pcall' = [pcall EXCEPT ![x] = y] /\ posted' = posted
      BY <2>1 DEF Portal!CancelFuture
    <3>2. w \in {"called", "over"}
      OBVIOUS
    <3> HIDE DEF w
    <3>3. /\ y \in PortalCallState /\ y.thread = pcall[x].thread /\ y.cancel # "posted"
          /\ y.task = pcall[x].task /\ y.late = pcall[x].late /\ y.future = "cancelled"
          /\ y.status = pcall[x].status
      BY <1>1, <3>2, ZenonT(40) DEF PortalCallState
    <3> HIDE DEF y
    <3>4. Resolves(x, y) /\ Keeps(y) /\ Asks(x, y, posted')
      BY <1>1, <3>1, <3>3 DEF Resolves, Keeps, Asks
    <3> QED
      BY <1>1, <3>1, <3>3, <3>4
  <2>2. CASE Portal!Callback(x)
    BY <1>4, <2>2 DEF Portal!Callback, Entry
  <2>3. CASE Portal!Check(x) \/ Portal!Post(x) \/ Portal!Answered(x)
    BY <1>3, <2>3 DEF Portal!Check, Portal!Post, Portal!Answered, Entry
  <2> QED
    BY <2>1, <2>2, <2>3
<1>6. PICK y \in PortalCallState : Stays(y)
  BY <1>5
<1> QED
  BY <1>2, <1>6, PortalStep

\* The task of a call: whatever ends it resolves its futures.
LEMMA TaskOfCall ==
  ASSUME PortalInv, NEW x \in PortalCall,
         \/ Portal!StartCall(x) \/ Portal!Watch(x) \/ Portal!CallStarted(x)
         \/ Portal!CallCancelled(x) \/ Portal!SetFuture(x)
         \/ \E how \in {"result", "error", "base"} : Portal!CallEnds(x, how)
  PROVE  PortalInv'
<1> USE DEF Portal!StartCall, Portal!Watch, Portal!CallStarted, Portal!CallCancelled,
            Portal!SetFuture, Portal!CallEnds
<1> DEFINE Kept(y) == Resolves(x, y) /\ Keeps(y) /\ Asks(x, y, posted)
<1>1. /\ pcall[x] \in PortalCallState /\ Resolves(x, pcall[x]) /\ Keeps(pcall[x])
      /\ posted \in Seq(Entries) /\ Asks(x, pcall[x], posted)
  BY DEF PortalInv
<1>2. portal' = portal /\ posted' = posted /\ pcall[x].task \notin {"none", "ended"}
  OBVIOUS
<1>3. ASSUME NEW future \in {"result", "error", "cancelled"}, Portal!Resolved(x, future)
      PROVE  \E y \in PortalCallState :
               pcall' = [pcall EXCEPT ![x] = y] /\ Kept(y)
  <2> DEFINE st == Portal!StatusAfter(x, future)
             y == [pcall[x] EXCEPT !.task = "ended", !.future = future, !.status = st]
  <2>1. pcall' = [pcall EXCEPT ![x] = y]
    BY <1>3 DEF Portal!Resolved
  <2>2. st \in {"pending", "started", "failed"} /\ (x \in StartTask => st # "pending")
    BY <1>1, <1>3 DEF Portal!StatusAfter, PortalCallState
  <2> HIDE DEF st
  <2>3. /\ y \in PortalCallState /\ y.task = "ended" /\ y.future = future /\ y.status = st
        /\ y.thread = pcall[x].thread /\ y.cancel = pcall[x].cancel
    BY <1>1, <1>3, <2>2, ZenonT(40) DEF PortalCallState
  <2>4. Kept(y)
    BY <1>1, <1>3, <2>2, <2>3 DEF Resolves, Keeps, Asks
  <2> HIDE DEF y
  <2> QED
    BY <2>1, <2>3, <2>4
<1>4. ASSUME NEW y \in PortalCallState, pcall' = [pcall EXCEPT ![x] = y],
             y.task \in {"tested", "suspended", "ending"}, y.thread = pcall[x].thread,
             y.cancel = pcall[x].cancel, y.late = pcall[x].late
      PROVE  \E z \in PortalCallState :
               pcall' = [pcall EXCEPT ![x] = z] /\ Kept(z)
  BY <1>1, <1>2, <1>4 DEF Resolves, Keeps, Asks
<1>5. CASE Portal!StartCall(x)
  <2> DEFINE y1 == [pcall[x] EXCEPT !.task = "suspended", !.scopeOff = TRUE]
             y2 == [pcall[x] EXCEPT !.task = "tested"]
  <2>1. pcall' = [pcall EXCEPT ![x] = y1] \/ pcall' = [pcall EXCEPT ![x] = y2]
    BY <1>5
  <2>2. /\ y1 \in PortalCallState /\ y2 \in PortalCallState
        /\ y1.task = "suspended" /\ y2.task = "tested"
        /\ y1.thread = pcall[x].thread /\ y2.thread = pcall[x].thread
        /\ y1.cancel = pcall[x].cancel /\ y2.cancel = pcall[x].cancel
        /\ y1.late = pcall[x].late /\ y2.late = pcall[x].late
    BY <1>1 DEF PortalCallState
  <2> HIDE DEF y1, y2
  <2>3. \E y \in PortalCallState :
          pcall' = [pcall EXCEPT ![x] = y] /\ Kept(y)
    BY <1>4, <2>1, <2>2
  <2>4. PICK y \in PortalCallState :
          pcall' = [pcall EXCEPT ![x] = y] /\ Kept(y)
    BY <2>3
  <2> QED
    BY <1>1, <1>2, <2>4, PortalStep
<1>6. CASE Portal!Watch(x)
  <2> DEFINE w == (pcall[x].future = "pending")
             y == [pcall[x] EXCEPT !.task = "suspended", !.callback = w]
  <2>1. pcall' = [pcall EXCEPT ![x] = y]
    BY <1>6
  <2>2. w \in BOOLEAN
    OBVIOUS
  <2> HIDE DEF w
  <2>3. /\ y \in PortalCallState /\ y.task = "suspended" /\ y.thread = pcall[x].thread
        /\ y.cancel = pcall[x].cancel /\ y.late = pcall[x].late
    BY <1>1, <2>2 DEF PortalCallState
  <2> HIDE DEF y
  <2>4. \E z \in PortalCallState :
          pcall' = [pcall EXCEPT ![x] = z] /\ Kept(z)
    BY <1>4, <2>1, <2>3
  <2>5. PICK z \in PortalCallState :
          pcall' = [pcall EXCEPT ![x] = z] /\ Kept(z)
    BY <2>4
  <2> QED
    BY <1>1, <1>2, <2>5, PortalStep
<1>7. CASE Portal!CallStarted(x)
  <2> DEFINE y == [pcall[x] EXCEPT !.status = "started"]
  <2>1. pcall' = [pcall EXCEPT ![x] = y]
    BY <1>7
  <2>2. y \in PortalCallState /\ Kept(y)
    BY <1>1, <1>2 DEF PortalCallState, Resolves, Keeps, Asks
  <2> HIDE DEF y
  <2> QED
    BY <1>1, <1>2, <2>1, <2>2, PortalStep
<1>8. ASSUME NEW how \in {"result", "error", "base"}, Portal!CallEnds(x, how)
      PROVE  PortalInv'
  <2>1. CASE pcall[x].future = "cancelled"
    <3>1. Portal!Resolved(x, "cancelled")
      BY <1>8, <2>1
    <3>2. PICK y \in PortalCallState :
            pcall' = [pcall EXCEPT ![x] = y] /\ Kept(y)
      BY <1>3, <3>1
    <3> QED
      BY <1>1, <1>2, <3>2, PortalStep
  <2>2. CASE pcall[x].future # "cancelled"
    <3> DEFINE y == [pcall[x] EXCEPT !.task = "ending", !.ending = how]
    <3>1. pcall' = [pcall EXCEPT ![x] = y]
      BY <1>8, <2>2
    <3>2. /\ y \in PortalCallState /\ y.task = "ending" /\ y.thread = pcall[x].thread
          /\ y.cancel = pcall[x].cancel /\ y.late = pcall[x].late
      BY <1>1 DEF PortalCallState
    <3> HIDE DEF y
    <3>3. PICK z \in PortalCallState :
            pcall' = [pcall EXCEPT ![x] = z] /\ Kept(z)
      BY <1>4, <3>1, <3>2
    <3> QED
      BY <1>1, <1>2, <3>3, PortalStep
  <2> QED
    BY <2>1, <2>2
<1>9. CASE Portal!CallCancelled(x) \/ Portal!SetFuture(x)
  <2>1. \E future \in {"result", "error", "cancelled"} : Portal!Resolved(x, future)
    <3>1. pcall[x].future \in {"pending", "result", "error", "cancelled"}
      BY <1>1 DEF PortalCallState
    <3> QED
      BY <1>9, <3>1 DEF Portal!AfterCancellation
  <2>2. PICK future \in {"result", "error", "cancelled"} : Portal!Resolved(x, future)
    BY <2>1
  <2>3. PICK y \in PortalCallState :
          pcall' = [pcall EXCEPT ![x] = y] /\ Kept(y)
    BY <1>3, <2>2
  <2> QED
    BY <1>1, <1>2, <2>3, PortalStep
<1> QED
  BY <1>5, <1>6, <1>7, <1>8, <1>9

\* The loop works off what was posted: a task is spawned while the group takes tasks.
LEMMA PostedRuns ==
  ASSUME PortalInv, Portal!RunPosted
  PROVE  PortalInv'
<1>1. posted \in Seq(Entries) /\ posted # <<>> /\ posted' = Tail(posted) /\ portal' = portal
  BY DEF PortalInv, Portal!RunPosted
<1>2. Head(posted) \in Entries /\ posted' \in Seq(Entries)
  BY <1>1, HeadTailProperties
<1>3. PICK p \in Entries : p = Head(posted)
  BY <1>2
<1> DEFINE x == p.call
<1>4. x \in PortalCall /\ p.kind \in {"spawn", "cancel"} /\ p = Entry(p.kind, x)
  BY <1>3 DEF Entries, Entry
<1>5. /\ pcall[x] \in PortalCallState /\ Resolves(x, pcall[x]) /\ Keeps(pcall[x])
      /\ Asks(x, pcall[x], posted)
      /\ portal \in {"open", "stopping", "waiting", "checkpoint", "closed", "gone"}
  BY <1>4 DEF PortalInv
<1>a. \A z \in PortalCall, word \in {"spawn", "cancel"} :
         Entry(word, z) \in Portal!Range(posted) /\ (z # x \/ word # p.kind)
         => Entry(word, z) \in Portal!Range(posted')
  <2> SUFFICES ASSUME NEW z \in PortalCall, NEW word \in {"spawn", "cancel"},
                      Entry(word, z) \in Portal!Range(posted), z # x \/ word # p.kind
               PROVE  Entry(word, z) \in Portal!Range(posted')
    OBVIOUS
  <2>1. Entry(word, z) # p
    BY DEF Entry
  <2> QED
    BY <1>1, <1>3, <2>1, QueueShrinks
<1> DEFINE w == pcall[x].scopeOff \/ (Portal!Active /\ pcall[x].task # "ended")
           l == (portal = "checkpoint")
           th == IF x \in StartTask THEN "starting" ELSE "waiting"
           y1 == [pcall[x] EXCEPT !.cancel = "over", !.scopeOff = w]
           y2 == [pcall[x] EXCEPT !.task = "new", !.late = l, !.thread = th]
           y3 == [pcall[x] EXCEPT !.thread = "done"]
<1>6. \/ p.kind = "cancel" /\ pcall' = [pcall EXCEPT ![x] = y1]
      \/ p.kind # "cancel" /\ Portal!Active /\ pcall' = [pcall EXCEPT ![x] = y2]
      \/ p.kind # "cancel" /\ pcall' = [pcall EXCEPT ![x] = y3]
  BY <1>3 DEF Portal!RunPosted
<1>7. w \in BOOLEAN
  OBVIOUS
<1> HIDE DEF w
<1>8. y1 \in PortalCallState /\ Resolves(x, y1) /\ Keeps(y1) /\ (p.kind = "cancel" => Asks(x, y1, posted'))
  <2> HIDE DEF x
  <2>1. y1 \in PortalCallState
    BY <1>5, <1>7, ZenonT(40) DEF PortalCallState
  <2>2. /\ y1.task = pcall[x].task /\ y1.thread = pcall[x].thread
        /\ y1.future = pcall[x].future /\ y1.status = pcall[x].status
        /\ y1.cancel = "over" /\ y1.late = pcall[x].late
    BY <1>5 DEF PortalCallState
  <2> HIDE DEF y1
  <2> QED
    BY <1>4, <1>5, <1>a, <2>1, <2>2 DEF Resolves, Keeps, Asks
<1>9. /\ y2 \in PortalCallState /\ Resolves(x, y2) /\ (Portal!Active => Keeps(y2))
      /\ p.kind # "cancel" => Asks(x, y2, posted')
  <2>1. l \in BOOLEAN /\ th \in {"starting", "waiting"} /\ (th = "starting" => x \in StartTask)
    OBVIOUS
  <2>2. Portal!Active => portal \in {"open", "stopping", "waiting"} \/ l
    BY <1>5 DEF Portal!Active
  <2> HIDE DEF l, th, x
  <2>3. y2 \in PortalCallState
    BY <1>5, <2>1, ZenonT(40) DEF PortalCallState
  <2>4. /\ y2.task = "new" /\ y2.thread = th /\ y2.late = l /\ y2.cancel = pcall[x].cancel
    BY <1>5 DEF PortalCallState
  <2> HIDE DEF y2
  <2>5. Resolves(x, y2) /\ (Portal!Active => Keeps(y2))
    BY <2>1, <2>2, <2>4 DEF Resolves, Keeps
  <2>6. p.kind # "cancel" => Asks(x, y2, posted')
    BY <1>4, <1>5, <1>a, <2>1, <2>4 DEF Asks
  <2> QED
    BY <2>3, <2>5, <2>6
<1>10. /\ y3 \in PortalCallState /\ Resolves(x, y3) /\ Keeps(y3)
       /\ p.kind # "cancel" => Asks(x, y3, posted')
  <2> HIDE DEF x
  <2>1. /\ y3 \in PortalCallState /\ y3.thread = "done" /\ y3.cancel = pcall[x].cancel
        /\ y3.task = pcall[x].task /\ y3.late = pcall[x].late
        /\ y3.future = pcall[x].future /\ y3.status = pcall[x].status
    BY <1>5 DEF PortalCallState
  <2> HIDE DEF y3
  <2> QED
    BY <1>4, <1>5, <1>a, <2>1 DEF Resolves, Keeps, Asks
<1> HIDE DEF y1, y2, y3, l, th
<1>11. PICK y \in PortalCallState :
         /\ pcall' = [pcall EXCEPT ![x] = y] /\ Resolves(x, y) /\ Keeps(y)
         /\ Asks(x, y, posted')
  BY <1>6, <1>8, <1>9, <1>10
<1>12. \A z \in PortalCall \ {x}, word \in {"spawn", "cancel"} :
         Entry(word, z) \in Portal!Range(posted) => Entry(word, z) \in Portal!Range(posted')
  BY <1>a
<1> HIDE DEF x
<1> QED
  BY <1>1, <1>2, <1>4, <1>11, <1>12, PortalStep

LEMMA NextPortal == PortalInv /\ [Portal!PortalNext]_(Portal!portalVars) => PortalInv'
<1> SUFFICES ASSUME PortalInv, [Portal!PortalNext]_(Portal!portalVars) PROVE PortalInv'
  OBVIOUS
<1>0. /\ pcall \in [PortalCall -> PortalCallState] /\ posted \in Seq(Entries)
      /\ portal \in {"open", "stopping", "waiting", "checkpoint", "closed", "gone"}
      /\ \A x \in PortalCall : /\ Resolves(x, pcall[x]) /\ Keeps(pcall[x])
                               /\ Asks(x, pcall[x], posted)
  BY DEF PortalInv
<1>1. CASE UNCHANGED Portal!portalVars
  BY <1>1 DEF Portal!portalVars, PortalInv, Resolves, Keeps, Asks
<1>2. CASE \E cancelRemaining \in BOOLEAN : Portal!StopPortal(cancelRemaining)
  <2>1. pcall' = pcall /\ posted' = posted /\ portal' = "stopping" /\ portal = "open"
    BY <1>2 DEF Portal!StopPortal, Portal!Accepting
  <2> QED
    BY <1>0, <2>1 DEF PortalInv, Resolves, Keeps, Asks
<1>3. CASE Portal!ClosePortal
  <2>1. pcall' = pcall
    BY <1>3 DEF Portal!ClosePortal
  <2>2. posted' \in Seq(Entries)
    BY <1>0, <1>3, EmptySeq DEF Portal!ClosePortal
  <2>3. /\ portal' \in {"waiting", "checkpoint", "closed", "gone"}
        /\ portal' # "gone" => posted' = posted /\ portal # "gone"
    BY <1>3 DEF Portal!ClosePortal
  <2>4. \A x \in PortalCall : pcall[x].task \notin {"none", "ended"} =>
          portal' = "waiting" \/ pcall[x].late
    BY <1>0, <1>3 DEF Portal!ClosePortal, Portal!Unfinished, Portal!AllEnded, Keeps
  <2>5. \A x \in PortalCall : (Keeps(pcall[x]) /\ Asks(x, pcall[x], posted))'
    BY <1>0, <2>1, <2>3, <2>4 DEF Keeps, Asks
  <2> QED
    BY <1>0, <2>1, <2>2, <2>3, <2>5 DEF PortalInv, Resolves
<1> QED
  BY <1>1, <1>2, <1>3, ThreadCalls, TaskOfCall, PostedRuns DEF Portal!PortalNext

LEMMA PortalHolds == PortalInv => Portal!ThreadsAnswered
BY DEF PortalInv, Resolves, Keeps, Asks, Entry, Portal!ThreadsAnswered, Portal!Forgotten,
       Portal!Unfinished, Portal!Active
-----------------------------------------------------------------------------
(* Worker threads: what a worker may have in its queue, by its place, and    *)
(* that a call is in the hands of one worker or in one report; a call that   *)
(* may not be abandoned awaits its future as long as it is in their hands;   *)
(* and the idle workers stand in the order in which they became idle.        *)

call == a
worker == b
idle == c
reports == d
rootDone == e
clock == f

USE DEF call, worker, idle, reports, rootDone, clock

ThreadCall ==
  [place : {"idle", "limiter", "borrowed", "awaiting", "done"},
   future : {"none", "pending", "result", "error", "cancelled"}, scopeOff : BOOLEAN]

ThreadState ==
  [place : {"new", "waiting", "running", "asking", "dead"}, queue : Seq(Call \union {Stop}),
   item : Call \union {NoCall}, since : Nat, stopping : BOOLEAN, skipped : BOOLEAN]

ThreadReport == [worker : Worker, call : Call, outcome : {"result", "error"}]

ThreadTypeOK ==
  /\ call \in [Call -> ThreadCall] /\ worker \in [Worker -> ThreadState]
  /\ idle \in Seq(Worker) /\ reports \in Seq(ThreadReport)

IdleWorkers == {idle[i] : i \in DOMAIN idle}
ReportingWorkers == {reports[i].worker : i \in DOMAIN reports}
Reported == {reports[i].call : i \in DOMAIN reports}

\* What the state x of worker w can be, when I are idle and R have something to report
WorkerOK(w, x, I, R) ==
  /\ x.stopping =>
       \/ x.place = "dead" /\ Len(x.queue) = 0
       \/ /\ x.place \notin {"new", "dead"}
          /\ \/ Len(x.queue) = 1 /\ x.queue[1] = Stop
             \/ Len(x.queue) = 2 /\ x.queue[1] \in Call /\ x.queue[2] = Stop
  /\ ~x.stopping =>
       x.place # "dead" /\ (Len(x.queue) = 0 \/ (Len(x.queue) = 1 /\ x.queue[1] \in Call))
  /\ Len(x.queue) > 0 /\ x.queue[1] \in Call => x.place = "waiting" /\ w \notin I /\ w \notin R
  /\ IF x.place \in {"running", "asking"}
     THEN x.item \in Call /\ w \notin I /\ w \notin R
     ELSE x.item = NoCall
  /\ x.place = "new" => w \notin I /\ w \notin R
  /\ w \in I => x.place = "waiting" /\ Len(x.queue) = 0 /\ ~x.stopping /\ w \notin R
  /\ x.place = "waiting" /\ Len(x.queue) = 0 /\ ~x.stopping /\ w \notin R
       => w \in I \/ x.skipped

\* The worker whose state is x has call k to work on.
Has(x, k) == x.item = k \/ (Len(x.queue) > 0 /\ x.queue[1] = k)

Pending(k) ==
  /\ call[k].place \in {"awaiting", "done"}
  /\ k \notin Abandoning \union NativeCall => call[k].place = "awaiting" /\ call[k].future = "pending"

WorkersOK ==
  /\ \A i, j \in DOMAIN idle : idle[i] = idle[j] => i = j
  /\ \A i, j \in DOMAIN reports : reports[i].worker = reports[j].worker => i = j
  /\ \A w \in Worker : WorkerOK(w, worker[w], IdleWorkers, ReportingWorkers)

CallsOK ==
  /\ \A k \in Call, w \in Worker : Has(worker[w], k) =>
       /\ Pending(k) /\ k \notin Reported
       /\ \A v \in Worker : Has(worker[v], k) => v = w
  /\ \A k \in Reported : call[k].place \in {"awaiting", "done"}

\* No worker became idle in the future, and those that idle longest come first.
IdleInOrder ==
  /\ clock \in Nat /\ \A w \in Worker : worker[w].since <= clock
  /\ \A i, j \in DOMAIN idle : i < j => worker[idle[i]].since < worker[idle[j]].since

ThreadInv == ThreadTypeOK /\ WorkersOK /\ CallsOK
WorkersInv == ThreadInv /\ IdleInOrder

\* At first no thread is started.
LEMMA InitThreads == Threads!ThreadInit => WorkersInv
<1> SUFFICES ASSUME Threads!ThreadInit PROVE WorkersInv
  OBVIOUS
<1> USE ThreadAssumption DEF Threads!ThreadInit
<1>1. /\ idle \in Seq(Worker) /\ reports \in Seq(ThreadReport)
      /\ DOMAIN idle = {} /\ DOMAIN reports = {}
  BY EmptySeq
<1>2. /\ \A w \in Worker : worker[w].place = "new" /\ Len(worker[w].queue) = 0
                           /\ ~worker[w].stopping /\ worker[w].item = NoCall
      /\ IdleWorkers = {} /\ ReportingWorkers = {} /\ Reported = {}
  BY <1>1, EmptySeq DEF IdleWorkers, ReportingWorkers, Reported
<1>3. ThreadTypeOK
  <2>1. <<>> \in Seq(Call \union {Stop})
    BY EmptySeq
  <2>2. worker \in [Worker -> ThreadState]
    BY <2>1 DEF ThreadState
  <2>3. call \in [Call -> ThreadCall]
    BY DEF ThreadCall
  <2> QED
    BY <1>1, <2>2, <2>3 DEF ThreadTypeOK
<1>4. WorkersOK
  BY <1>1, <1>2 DEF WorkersOK, WorkerOK
<1>5. CallsOK
  BY <1>2 DEF CallsOK, Has
<1>6. IdleInOrder
  BY <1>1 DEF IdleInOrder
<1> QED
  BY <1>3, <1>4, <1>5, <1>6 DEF ThreadInv, WorkersInv

\* Steps of the loop that leave the threads alone
LEMMA CallStep ==
  ASSUME ThreadInv, UNCHANGED <<worker, idle, reports>>,
         call' \in [Call -> ThreadCall],
         \A k \in Call : call[k].place \in {"awaiting", "done"} =>
           /\ call'[k].place \in {"awaiting", "done"}
           /\ k \notin Abandoning \union NativeCall /\ call[k].place = "awaiting"
              /\ call[k].future = "pending"
                => call'[k].place = "awaiting" /\ call'[k].future = "pending"
  PROVE  ThreadInv'
<1>1. IdleWorkers' = IdleWorkers /\ ReportingWorkers' = ReportingWorkers /\ Reported' = Reported
  BY DEF IdleWorkers, ReportingWorkers, Reported
<1>2. Reported \subseteq Call
  <2>1. \A i \in DOMAIN reports : reports[i] \in ThreadReport
    BY ElementOfSeq, LenProperties DEF ThreadInv, ThreadTypeOK
  <2> QED
    BY <2>1 DEF Reported, ThreadReport
<1>3. ThreadTypeOK'
  BY DEF ThreadInv, ThreadTypeOK
<1>4. WorkersOK'
  BY <1>1 DEF ThreadInv, WorkersOK
<1>5. ASSUME NEW k \in Call, Pending(k) PROVE Pending(k)'
  BY <1>5 DEF Pending
<1>6. CallsOK'
  BY <1>1, <1>2, <1>5 DEF ThreadInv, CallsOK
<1> QED
  BY <1>3, <1>4, <1>6 DEF ThreadInv

\* What a thread does with its queue and its item, when it gets no call that it did
\* not have
LEMMA WorkerStepFacts ==
  ASSUME ThreadInv, UNCHANGED <<call, idle, reports>>,
         NEW w \in Worker, NEW x \in ThreadState, worker' = [worker EXCEPT ![w] = x],
         WorkerOK(w, x, IdleWorkers, ReportingWorkers),
         \A k \in Call : Has(x, k) => Has(worker[w], k)
  PROVE  ThreadInv'
<1>1. IdleWorkers' = IdleWorkers /\ ReportingWorkers' = ReportingWorkers /\ Reported' = Reported
  BY DEF IdleWorkers, ReportingWorkers, Reported
<1>2. /\ worker' \in [Worker -> ThreadState] /\ worker'[w] = x
      /\ \A v \in Worker \ {w} : worker'[v] = worker[v]
  BY DEF ThreadInv, ThreadTypeOK
<1>3. ThreadTypeOK'
  BY <1>2 DEF ThreadInv, ThreadTypeOK
<1>4. WorkersOK'
  BY <1>1, <1>2 DEF ThreadInv, WorkersOK
<1>5. \A k \in Call, v \in Worker : Has(worker'[v], k) => Has(worker[v], k)
  BY <1>2
<1>6. \A k : Pending(k)' <=> Pending(k)
  BY DEF Pending
<1>7. CallsOK'
  BY <1>1, <1>5, <1>6 DEF ThreadInv, CallsOK
<1> QED
  BY <1>3, <1>4, <1>7 DEF ThreadInv

\* queue.get()
LEMMA GetStep ==
  ASSUME ThreadInv, NEW w \in Worker, Threads!Get(w)
  PROVE  ThreadInv'
<1> USE ThreadAssumption
<1> DEFINE q == worker[w].queue
           r == [worker[w] EXCEPT !.queue = Tail(q)]
           x == worker'[w]
<1>0. /\ worker[w] \in ThreadState /\ worker[w].place = "waiting" /\ q # <<>>
      /\ UNCHANGED <<call, idle, reports>> /\ worker' = [worker EXCEPT ![w] = x]
      /\ WorkerOK(w, worker[w], IdleWorkers, ReportingWorkers)
  BY DEF Threads!Get, ThreadInv, ThreadTypeOK, WorkersOK
<1>1. q \in Seq(Call \union {Stop}) /\ Len(q) \in Nat /\ Len(q) # 0
  BY <1>0, LenProperties, EmptySeq DEF ThreadState
<1>2. /\ Head(q) = q[1] /\ Head(q) \in Call \union {Stop}
      /\ Tail(q) \in Seq(Call \union {Stop}) /\ Len(Tail(q)) = Len(q) - 1
      /\ Len(q) = 2 => Tail(q)[1] = q[2]
  <2>1. q # <<>>
    BY <1>0
  <2> HIDE DEF q
  <2> QED
    BY <1>1, <2>1, HeadTailProperties, ElementOfSeq
<1>3. /\ r \in ThreadState /\ r.queue = Tail(q) /\ r.place = "waiting" /\ r.item = worker[w].item
      /\ r.stopping = worker[w].stopping /\ r.skipped = worker[w].skipped
  BY <1>0, <1>2 DEF ThreadState
<1>4. /\ x \in ThreadState /\ x.queue = Tail(q) /\ x.stopping = worker[w].stopping
      /\ Head(q) = Stop => x.place = "dead" /\ x.item = worker[w].item
      /\ Head(q) # Stop =>
           \/ x.place = "waiting" /\ x.skipped /\ x.item = worker[w].item
           \/ x.place = "running" /\ x.item = Head(q)
  <2>1. x = IF Head(q) = Stop THEN [r EXCEPT !.place = "dead"]
            ELSE IF call[Head(q)].future = "cancelled" THEN [r EXCEPT !.skipped = TRUE]
            ELSE [r EXCEPT !.place = "running", !.item = Head(q)]
    BY <1>0 DEF Threads!Get, ThreadInv, ThreadTypeOK
  <2> HIDE DEF r, q, x
  <2>2. CASE Head(q) = Stop
    BY <1>3, <2>1, <2>2 DEF ThreadState
  <2>3. CASE Head(q) # Stop /\ call[Head(q)].future = "cancelled"
    BY <1>3, <2>1, <2>3 DEF ThreadState
  <2>4. CASE Head(q) # Stop /\ call[Head(q)].future # "cancelled"
    BY <1>2, <1>3, <2>1, <2>4 DEF ThreadState
  <2> QED
    BY <2>2, <2>3, <2>4
<1> HIDE DEF x, r
<1>5. WorkerOK(w, x, IdleWorkers, ReportingWorkers)
  BY <1>0, <1>1, <1>2, <1>4 DEF WorkerOK
<1>6. \A k \in Call : Has(x, k) => Has(worker[w], k)
  BY <1>0, <1>1, <1>2, <1>4 DEF WorkerOK, Has
<1> QED
  BY <1>0, <1>4, <1>5, <1>6, WorkerStepFacts

\* The thread asks the loop for something, and is answered.
LEMMA AskStep ==
  ASSUME ThreadInv, NEW w \in Worker, Threads!Ask(w) \/ Threads!Answer(w)
  PROVE  ThreadInv'
<1>1. /\ worker[w] \in ThreadState
      /\ WorkerOK(w, worker[w], IdleWorkers, ReportingWorkers)
  BY DEF ThreadInv, ThreadTypeOK, WorkersOK
<1>2. PICK place \in {"running", "asking"} :
        /\ worker[w].place \in {"running", "asking"}
        /\ worker' = [worker EXCEPT ![w].place = place]
        /\ UNCHANGED <<call, idle, reports>>
  BY DEF Threads!Ask, Threads!Answer
<1> DEFINE x == [worker[w] EXCEPT !.place = place]
<1>3. x \in ThreadState /\ worker' = [worker EXCEPT ![w] = x]
  BY <1>1, <1>2 DEF ThreadState
<1>4. WorkerOK(w, x, IdleWorkers, ReportingWorkers)
  BY <1>1, <1>2 DEF WorkerOK, ThreadState
<1>5. \A k \in Call : Has(x, k) => Has(worker[w], k)
  BY <1>1 DEF Has, ThreadState
<1> HIDE DEF x
<1> QED
  BY <1>2, <1>3, <1>4, <1>5, WorkerStepFacts

\* The function ends: the call goes from the thread into a report.
LEMMA FinishStep ==
  ASSUME ThreadInv, NEW w \in Worker, NEW outcome \in {"result", "error", "checked"},
         Threads!FinishFunction(w, outcome)
  PROVE  ThreadInv'
<1> USE ThreadAssumption
<1> DEFINE k == worker[w].item
           n == [worker |-> w, call |-> k,
                 outcome |-> IF outcome = "result" THEN "result" ELSE "error"]
           x == [worker[w] EXCEPT !.place = "waiting", !.item = NoCall]
<1>1. /\ worker[w] \in ThreadState /\ worker[w].place = "running"
      /\ WorkerOK(w, worker[w], IdleWorkers, ReportingWorkers)
      /\ reports' = Append(reports, n) /\ worker' = [worker EXCEPT ![w] = x]
      /\ call' = call /\ idle' = idle
  BY DEF Threads!FinishFunction, ThreadInv, ThreadTypeOK, WorkersOK
<1>2. k \in Call /\ w \notin IdleWorkers /\ w \notin ReportingWorkers
  BY <1>1 DEF WorkerOK
<1>3. n \in ThreadReport /\ n.worker = w /\ n.call = k
  BY <1>2 DEF ThreadReport
<1>4. /\ x \in ThreadState /\ x.place = "waiting" /\ x.item = NoCall
      /\ x.queue = worker[w].queue /\ x.stopping = worker[w].stopping
  BY <1>1 DEF ThreadState
<1> HIDE DEF n, x
<1>5. /\ reports' \in Seq(ThreadReport) /\ Len(reports) \in Nat
      /\ DOMAIN reports = 1..Len(reports) /\ DOMAIN reports' = 1..(Len(reports) + 1)
      /\ \A i \in 1..Len(reports) : reports'[i] = reports[i]
      /\ reports'[Len(reports) + 1] = n
  BY <1>1, <1>3, AppendProperties, LenProperties DEF ThreadInv, ThreadTypeOK
<1>6. /\ IdleWorkers' = IdleWorkers
      /\ ReportingWorkers' = ReportingWorkers \union {w} /\ Reported' = Reported \union {k}
  BY <1>1, <1>3, <1>5 DEF IdleWorkers, ReportingWorkers, Reported
<1>7. /\ worker' \in [Worker -> ThreadState] /\ worker'[w] = x
      /\ \A v \in Worker \ {w} : worker'[v] = worker[v]
  BY <1>1, <1>4 DEF ThreadInv, ThreadTypeOK
<1>8. ThreadTypeOK'
  BY <1>1, <1>5, <1>7 DEF ThreadInv, ThreadTypeOK
<1>9. WorkersOK'
  <2>1. \A i, j \in DOMAIN idle' : idle'[i] = idle'[j] => i = j
    BY <1>1 DEF ThreadInv, WorkersOK
  <2>2. \A i, j \in DOMAIN reports' : reports'[i].worker = reports'[j].worker => i = j
    BY <1>2, <1>3, <1>5 DEF ThreadInv, WorkersOK, ReportingWorkers
  <2>3. WorkerOK(w, worker'[w], IdleWorkers', ReportingWorkers')
    BY <1>1, <1>2, <1>4, <1>6, <1>7 DEF WorkerOK
  <2>4. ASSUME NEW v \in Worker \ {w}
        PROVE  WorkerOK(v, worker'[v], IdleWorkers', ReportingWorkers')
    <3>1. WorkerOK(v, worker[v], IdleWorkers, ReportingWorkers)
      BY DEF ThreadInv, WorkersOK
    <3> QED
      BY <1>6, <1>7, <3>1 DEF WorkerOK
  <2> QED
    BY <2>1, <2>2, <2>3, <2>4 DEF WorkersOK
<1>10. CallsOK'
  <2>0. CallsOK /\ Has(worker[w], k)
    BY DEF ThreadInv, Has
  <2>1. \A m : Pending(m)' <=> Pending(m)
    BY <1>1 DEF Pending
  <2>2. \A m \in Call : ~Has(worker'[w], m)
    BY <1>1, <1>4, <1>7 DEF Has, WorkerOK
  <2>3. \A m \in Call, v \in Worker : Has(worker'[v], m) => Has(worker[v], m) /\ m # k
    BY <1>7, <2>0, <2>2, <1>2 DEF CallsOK
  <2>4. Pending(k)
    BY <1>2, <2>0 DEF CallsOK
  <2>5. \A m \in Reported' : call'[m].place \in {"awaiting", "done"}
    BY <1>1, <1>6, <2>0, <2>4 DEF CallsOK, Pending
  <2> QED
    BY <1>6, <2>0, <2>1, <2>3, <2>5 DEF CallsOK
<1> QED
  BY <1>8, <1>9, <1>10 DEF ThreadInv

\* What stop() does to the threads it is called on: their queue ends with None.
LEMMA StoppedFacts ==
  ASSUME ThreadTypeOK, NEW ws
  PROVE  LET s == Threads!Stopped(ws) IN
         /\ s \in [Worker -> ThreadState]
         /\ \A w \in Worker : w \notin ws => s[w] = worker[w]
         /\ \A w \in Worker \intersect ws :
              /\ s[w].place = worker[w].place /\ s[w].item = worker[w].item
              /\ s[w].skipped = worker[w].skipped /\ s[w].stopping
              /\ s[w].queue = Append(worker[w].queue, Stop)
         /\ \A w \in Worker : s[w].since = worker[w].since
<1> DEFINE new(w) == [worker[w] EXCEPT !.stopping = TRUE, !.queue = Append(worker[w].queue, Stop)]
<1>1. ASSUME NEW w \in Worker
      PROVE  /\ new(w) \in ThreadState
             /\ new(w).place = worker[w].place /\ new(w).item = worker[w].item
             /\ new(w).skipped = worker[w].skipped /\ new(w).stopping
             /\ new(w).since = worker[w].since
             /\ new(w).queue = Append(worker[w].queue, Stop)
  <2>1. worker[w] \in ThreadState
    BY DEF ThreadTypeOK
  <2>2. Append(worker[w].queue, Stop) \in Seq(Call \union {Stop})
    BY <2>1, AppendProperties DEF ThreadState
  <2> QED
    BY <2>1, <2>2 DEF ThreadState
<1>2. Threads!Stopped(ws) = [w \in Worker |-> IF w \in ws THEN new(w) ELSE worker[w]]
  BY DEF Threads!Stopped
<1> HIDE DEF new
<1> QED
  BY <1>1, <1>2 DEF ThreadTypeOK

\* A queue with an element more
LEMMA LongerQueue ==
  ASSUME NEW w \in Worker, ThreadTypeOK, NEW k \in Call \union {Stop}
  PROVE  LET q == worker[w].queue
             r == Append(q, k) IN
         /\ r \in Seq(Call \union {Stop}) /\ Len(q) \in Nat /\ Len(r) = Len(q) + 1
         /\ r[Len(q) + 1] = k /\ (Len(q) > 0 => r[1] = q[1])
BY AppendProperties, LenProperties DEF ThreadTypeOK, ThreadState

\* A thread that is told to stop does what it has to do before.
LEMMA StoppedWorker ==
  ASSUME ThreadTypeOK, NEW w \in Worker, NEW I, NEW R, NEW J,
         WorkerOK(w, worker[w], I, R), ~worker[w].stopping, worker[w].place # "new",
         w \notin J, NEW x, x.place = worker[w].place, x.item = worker[w].item, x.stopping,
         x.queue = Append(worker[w].queue, Stop)
  PROVE  WorkerOK(w, x, J, R) /\ \A k \in Call : Has(x, k) => Has(worker[w], k)
<1> USE ThreadAssumption
<1> DEFINE q == worker[w].queue
<1>1. /\ Len(q) \in Nat /\ Len(x.queue) = Len(q) + 1 /\ x.queue[Len(q) + 1] = Stop
      /\ Len(q) > 0 => x.queue[1] = q[1]
  BY LongerQueue
<1>2. /\ worker[w].place # "dead" /\ (Len(q) = 0 \/ (Len(q) = 1 /\ q[1] \in Call))
      /\ Len(q) > 0 /\ q[1] \in Call => x.place = "waiting" /\ w \notin I /\ w \notin R
      /\ IF x.place \in {"running", "asking"}
         THEN x.item \in Call /\ w \notin I /\ w \notin R
         ELSE x.item = NoCall
  BY DEF WorkerOK
<1> HIDE DEF q
<1>3. CASE Len(q) = 0
  <2>1. Len(x.queue) = 1 /\ x.queue[1] = Stop
    BY <1>1, <1>3
  <2> QED
    BY <1>2, <2>1 DEF WorkerOK, Has
<1>4. CASE Len(q) = 1 /\ q[1] \in Call
  <2>1. Len(x.queue) = 2 /\ x.queue[2] = Stop /\ x.queue[1] = q[1]
    BY <1>1, <1>4
  <2> QED
    BY <1>2, <1>4, <2>1 DEF WorkerOK, Has, q
<1> QED
  BY <1>2, <1>3, <1>4

\* The root task ends: the threads that are not to stop yet are told to.
LEMMA RootStep ==
  ASSUME ThreadInv, Threads!RootEnds
  PROVE  ThreadInv'
<1> DEFINE ws == {w \in Worker : worker[w].place \notin {"new", "dead"} /\ ~worker[w].stopping}
<1>0. ThreadTypeOK /\ WorkersOK /\ CallsOK
  BY DEF ThreadInv
<1>1. worker' = Threads!Stopped(ws) /\ idle' = <<>> /\ call' = call /\ reports' = reports
  BY DEF Threads!RootEnds
<1>2. /\ worker' \in [Worker -> ThreadState]
      /\ \A w \in Worker : w \notin ws => worker'[w] = worker[w]
      /\ \A w \in Worker \intersect ws :
           /\ worker'[w].place = worker[w].place /\ worker'[w].item = worker[w].item
           /\ worker'[w].skipped = worker[w].skipped /\ worker'[w].stopping
           /\ worker'[w].queue = Append(worker[w].queue, Stop)
  <2> HIDE DEF ws
  <2> QED
    BY <1>0, <1>1, StoppedFacts
<1>3. idle' \in Seq(Worker) /\ DOMAIN idle' = {}
  BY <1>1, EmptySeq
<1>4. IdleWorkers' = {} /\ ReportingWorkers' = ReportingWorkers /\ Reported' = Reported
  BY <1>1, <1>3 DEF IdleWorkers, ReportingWorkers, Reported
<1>5. ThreadTypeOK'
  BY <1>0, <1>1, <1>2, <1>3 DEF ThreadTypeOK
<1>6. ASSUME NEW w \in Worker
      PROVE  /\ WorkerOK(w, worker'[w], {}, ReportingWorkers)
             /\ \A k \in Call : Has(worker'[w], k) => Has(worker[w], k)
  <2>1. WorkerOK(w, worker[w], IdleWorkers, ReportingWorkers)
    BY <1>0 DEF WorkersOK
  <2>2. CASE w \in ws
    <3> DEFINE none == {}
    <3>1. /\ ~worker[w].stopping /\ worker[w].place # "new" /\ w \notin none
          /\ worker'[w].place = worker[w].place /\ worker'[w].item = worker[w].item
          /\ worker'[w].stopping /\ worker'[w].queue = Append(worker[w].queue, Stop)
      BY <1>2, <2>2
    <3> HIDE DEF none, ws
    <3>2. WorkerOK(w, worker'[w], none, ReportingWorkers)
          /\ \A k \in Call : Has(worker'[w], k) => Has(worker[w], k)
      BY <1>0, <2>1, <3>1, StoppedWorker
    <3> QED
      BY <3>2 DEF none
  <2>3. CASE w \notin ws
    <3>1. worker'[w] = worker[w]
      BY <1>2, <2>3
    <3> QED
      BY <2>1, <2>3, <3>1 DEF WorkerOK
  <2> QED
    BY <2>2, <2>3
<1>7. WorkersOK'
  BY <1>0, <1>1, <1>3, <1>4, <1>6 DEF WorkersOK
<1>8. \A k : Pending(k)' <=> Pending(k)
  BY <1>1 DEF Pending
<1>9. CallsOK'
  BY <1>0, <1>1, <1>4, <1>6, <1>8 DEF CallsOK
<1> QED
  BY <1>5, <1>7, <1>9 DEF ThreadInv

\* _report_result: the thread is idle again, unless it is to stop.
LEMMA ReportStep ==
  ASSUME ThreadInv, clock \in Nat, Threads!Report
  PROVE  ThreadInv'
<1> DEFINE r == Head(reports)
           w == r.worker
           k == r.call
           new == IF call[k].future = "cancelled" THEN call[k].future ELSE r.outcome
<1>0. ThreadTypeOK /\ WorkersOK /\ CallsOK /\ reports \in Seq(ThreadReport) /\ reports # <<>>
  BY DEF ThreadInv, ThreadTypeOK, Threads!Report
<1>1. /\ r \in ThreadReport /\ r = reports[1] /\ 1 \in DOMAIN reports
      /\ reports' \in Seq(ThreadReport)
      /\ Len(reports) \in Nat /\ Len(reports) >= 1 /\ DOMAIN reports = 1..Len(reports)
      /\ DOMAIN reports' = 1..(Len(reports) - 1)
      /\ \A i \in 1..(Len(reports) - 1) : reports'[i] = reports[i + 1]
  <2>1. reports' = Tail(reports)
    BY DEF Threads!Report
  <2> QED
    BY <1>0, <2>1, TailFacts, LenProperties
<1>2. /\ w \in Worker /\ k \in Call /\ w \in ReportingWorkers /\ k \in Reported
      /\ r.outcome \in {"result", "error"}
  BY <1>1 DEF ThreadReport, ReportingWorkers, Reported
<1>3. /\ worker' = [worker EXCEPT ![w].since = clock + 1]
      /\ call' = [call EXCEPT ![k].future = new]
      /\ idle' = IF worker[w].stopping THEN idle ELSE Append(idle, w)
  BY DEF Threads!Report, Threads!Rests
<1>s. /\ worker' \in [Worker -> ThreadState]
      /\ \A v \in Worker :
           /\ worker'[v].place = worker[v].place /\ worker'[v].queue = worker[v].queue
           /\ worker'[v].item = worker[v].item /\ worker'[v].stopping = worker[v].stopping
           /\ worker'[v].skipped = worker[v].skipped
  <2>1. worker \in [Worker -> ThreadState] /\ clock + 1 \in Nat
    BY <1>0 DEF ThreadTypeOK
  <2> QED
    BY <1>2, <1>3, <2>1 DEF ThreadState
<1>4. WorkerOK(w, worker[w], IdleWorkers, ReportingWorkers)
  BY <1>0, <1>2 DEF WorkersOK
<1> HIDE DEF r, w, k, new
<1>5. /\ ReportingWorkers' = ReportingWorkers \ {w}
      /\ \A m \in Reported' : m \in Reported
      /\ \A i, j \in DOMAIN reports' : reports'[i].worker = reports'[j].worker => i = j
  <2>1. w = reports[1].worker /\ \A i, j \in DOMAIN reports : reports[i].worker = reports[j].worker => i = j
    BY <1>0, <1>1 DEF WorkersOK, w
  <2>2. \A v : v \in ReportingWorkers <=> \E i \in 1..Len(reports) : reports[i].worker = v
    BY <1>1 DEF ReportingWorkers
  <2>3. \A v : v \in ReportingWorkers' <=> \E i \in 1..(Len(reports) - 1) : reports[i + 1].worker = v
    BY <1>1 DEF ReportingWorkers
  <2>4. ASSUME NEW v, v \in ReportingWorkers, v # w PROVE v \in ReportingWorkers'
    <3>1. PICK i \in 1..Len(reports) : reports[i].worker = v /\ i # 1
      BY <2>1, <2>2, <2>4
    <3>2. i - 1 \in 1..(Len(reports) - 1) /\ (i - 1) + 1 = i
      BY <1>1, <3>1
    <3> QED
      BY <2>3, <3>1, <3>2
  <2>5. ASSUME NEW v, v \in ReportingWorkers' PROVE v \in ReportingWorkers /\ v # w
    <3>1. PICK i \in 1..(Len(reports) - 1) : reports[i + 1].worker = v
      BY <2>3, <2>5
    <3>2. i + 1 \in 1..Len(reports) /\ i + 1 # 1
      BY <1>1, <3>1
    <3> QED
      BY <1>1, <2>1, <2>2, <3>1, <3>2
  <2>6. \A m \in Reported' : m \in Reported
    BY <1>1, SMTT(30) DEF Reported
  <2>7. ASSUME NEW i \in DOMAIN reports', NEW j \in DOMAIN reports',
               reports'[i].worker = reports'[j].worker
        PROVE  i = j
    <3>1. /\ i \in 1..(Len(reports) - 1) /\ j \in 1..(Len(reports) - 1)
          /\ i + 1 \in DOMAIN reports /\ j + 1 \in DOMAIN reports
      BY <1>1, <2>7
    <3>2. reports[i + 1].worker = reports[j + 1].worker
      BY <1>1, <2>7, <3>1
    <3>3. i + 1 = j + 1
      BY <2>1, <3>1, <3>2
    <3> QED
      BY <1>1, <3>1, <3>3
  <2> QED
    BY <2>4, <2>5, <2>6, <2>7
<1>6. /\ idle' \in Seq(Worker)
      /\ IdleWorkers' = IF worker[w].stopping THEN IdleWorkers ELSE IdleWorkers \union {w}
      /\ \A i, j \in DOMAIN idle' : idle'[i] = idle'[j] => i = j
  <2>0. /\ idle \in Seq(Worker) /\ Len(idle) \in Nat /\ DOMAIN idle = 1..Len(idle)
        /\ \A i, j \in DOMAIN idle : idle[i] = idle[j] => i = j
    BY <1>0, LenProperties DEF ThreadTypeOK, WorkersOK
  <2>1. CASE worker[w].stopping
    BY <1>3, <2>0, <2>1 DEF IdleWorkers
  <2>2. CASE ~worker[w].stopping
    <3>1. /\ idle' \in Seq(Worker) /\ DOMAIN idle' = 1..(Len(idle) + 1)
          /\ \A i \in 1..Len(idle) : idle'[i] = idle[i]
          /\ idle'[Len(idle) + 1] = w
      BY <1>2, <1>3, <2>0, <2>2, AppendProperties, LenProperties
    <3>2. \A i \in 1..Len(idle) : idle[i] # w
      BY <1>2, <1>4, <2>0 DEF WorkerOK, IdleWorkers
    <3>3. IdleWorkers' = IdleWorkers \union {w}
      BY <2>0, <3>1 DEF IdleWorkers
    <3> QED
      BY <2>0, <2>2, <3>1, <3>2, <3>3
  <2> QED
    BY <2>1, <2>2
<1>7. /\ call' \in [Call -> ThreadCall]
      /\ \A m \in Call : call'[m].place = call[m].place
      /\ \A m \in Call \ {k} : call'[m] = call[m]
  <2>1. call \in [Call -> ThreadCall]
    BY <1>0 DEF ThreadTypeOK
  <2>2. new \in {"result", "error", "cancelled"}
    BY <1>2 DEF new
  <2> QED
    BY <1>2, <1>3, <2>1, <2>2 DEF ThreadCall
<1>8. ThreadTypeOK'
  BY <1>0, <1>1, <1>s, <1>6, <1>7 DEF ThreadTypeOK
<1>9. WorkersOK'
  <2>1. WorkerOK(w, worker'[w], IdleWorkers', ReportingWorkers')
    <3>1. CASE worker[w].stopping
      BY <1>2, <1>s, <1>4, <1>5, <1>6, <3>1 DEF WorkerOK
    <3>2. CASE ~worker[w].stopping
      <4>1. worker[w].place = "waiting" /\ Len(worker[w].queue) = 0
        BY <1>2, <1>4, <3>2, <1>0 DEF WorkerOK, ThreadTypeOK, ThreadState
      <4> QED
        BY <1>2, <1>s, <1>4, <1>5, <1>6, <3>2, <4>1 DEF WorkerOK
    <3> QED
      BY <3>1, <3>2
  <2>2. ASSUME NEW v \in Worker, v # w
        PROVE  WorkerOK(v, worker'[v], IdleWorkers', ReportingWorkers')
    <3>1. WorkerOK(v, worker[v], IdleWorkers, ReportingWorkers)
      BY <1>0 DEF WorkersOK
    <3>2. (v \in IdleWorkers' <=> v \in IdleWorkers) /\ (v \in ReportingWorkers' <=> v \in ReportingWorkers)
      BY <1>5, <1>6, <2>2
    <3> QED
      BY <1>s, <3>1, <3>2 DEF WorkerOK
  <2> QED
    BY <1>2, <1>5, <1>6, <2>1, <2>2 DEF WorkersOK
<1>10. CallsOK'
  <2>1. \A m \in Call \ {k} : Pending(m) => Pending(m)'
    BY <1>7 DEF Pending
  <2>2. \A m \in Call, v \in Worker : Has(worker[v], m) => m # k
    BY <1>0, <1>2 DEF CallsOK
  <2>3. Reported \subseteq Call
    <3>1. \A i \in DOMAIN reports : reports[i] \in ThreadReport
      BY <1>0, ElementOfSeq, LenProperties
    <3> QED
      BY <3>1 DEF Reported, ThreadReport
  <2>4. \A m \in Call, v \in Worker : Has(worker'[v], m) <=> Has(worker[v], m)
    BY <1>s DEF Has
  <2> QED
    BY <1>0, <1>5, <1>7, <2>1, <2>2, <2>3, <2>4, Zenon DEF CallsOK
<1> QED
  BY <1>8, <1>9, <1>10 DEF ThreadInv

\* A call is given to a thread that has nothing to do.
LEMMA GivenStep ==
  ASSUME ThreadInv, NEW k \in Call, call[k].place = "borrowed",
         call' \in [Call -> ThreadCall],
         call'[k].place = "awaiting", call'[k].future = "pending",
         \A m \in Call \ {k} : call'[m] = call[m],
         reports' = reports, idle' \in Seq(Worker),
         \A i, j \in DOMAIN idle' : idle'[i] = idle'[j] => i = j,
         NEW w \in Worker, worker' \in [Worker -> ThreadState],
         w \notin IdleWorkers', w \notin ReportingWorkers,
         worker'[w].place = "waiting", Len(worker'[w].queue) = 1, worker'[w].queue[1] = k,
         worker'[w].item = NoCall, ~worker'[w].stopping,
         \A v \in Worker \ {w} :
           /\ WorkerOK(v, worker'[v], IdleWorkers', ReportingWorkers)
           /\ \A m \in Call : Has(worker'[v], m) => Has(worker[v], m)
  PROVE  ThreadInv'
<1> USE ThreadAssumption
<1>0. ThreadTypeOK /\ WorkersOK /\ CallsOK
  BY DEF ThreadInv
<1>1. ReportingWorkers' = ReportingWorkers /\ Reported' = Reported /\ Reported \subseteq Call
  <2>1. \A i \in DOMAIN reports : reports[i] \in ThreadReport
    BY <1>0, ElementOfSeq, LenProperties DEF ThreadTypeOK
  <2> QED
    BY <2>1 DEF ReportingWorkers, Reported, ThreadReport
<1>2. ThreadTypeOK'
  BY <1>0 DEF ThreadTypeOK
<1>3. WorkersOK'
  <2>1. WorkerOK(w, worker'[w], IdleWorkers', ReportingWorkers)
    BY DEF WorkerOK
  <2> QED
    BY <1>0, <1>1, <2>1 DEF WorkersOK
<1>4. /\ \A m \in Call : Has(worker'[w], m) => m = k
      /\ \A v \in Worker : ~Has(worker[v], k)
      /\ k \notin Reported
  BY <1>0 DEF Has, CallsOK, Pending
<1>5. /\ Pending(k)'
      /\ \A m \in Call \ {k} : Pending(m) => Pending(m)'
  BY DEF Pending
<1>6. CallsOK'
  BY <1>0, <1>1, <1>4, <1>5 DEF CallsOK
<1> QED
  BY <1>2, <1>3, <1>6 DEF ThreadInv

\* The token is there: the call goes to a new thread or to one that is idle.
LEMMA DispatchStep ==
  ASSUME ThreadInv, NEW k \in Call, Threads!Dispatch(k)
  PROVE  ThreadInv'
<1> USE ThreadAssumption
<1>0. ThreadTypeOK /\ WorkersOK /\ CallsOK
  BY DEF ThreadInv
<1>1. /\ call[k].place = "borrowed" /\ reports' = reports
      /\ call' \in [Call -> ThreadCall]
      /\ call'[k].place = "awaiting" /\ call'[k].future = "pending"
      /\ \A m \in Call \ {k} : call'[m] = call[m]
  <2>1. /\ call[k].place = "borrowed" /\ reports' = reports /\ call \in [Call -> ThreadCall]
        /\ call' = [call EXCEPT ![k].place = "awaiting", ![k].future = "pending"]
    BY <1>0 DEF Threads!Dispatch, ThreadTypeOK
  <2> QED
    BY <2>1 DEF ThreadCall
<1>2. ASSUME NEW w \in Worker, worker[w].place = "new", idle' = idle,
             worker' = [worker EXCEPT ![w].place = "waiting", ![w].queue = <<k>>]
      PROVE  ThreadInv'
  <2>0. worker[w] \in ThreadState /\ WorkerOK(w, worker[w], IdleWorkers, ReportingWorkers)
    BY <1>0 DEF ThreadTypeOK, WorkersOK
  <2> DEFINE q == <<k>>
             x == [worker[w] EXCEPT !.place = "waiting", !.queue = q]
  <2>1. q \in Seq(Call \union {Stop}) /\ Len(q) = 1 /\ q[1] = k
    OBVIOUS
  <2>2. worker' = [worker EXCEPT ![w] = x]
    BY <1>2
  <2> HIDE DEF q
  <2>3. /\ x \in ThreadState /\ x.place = "waiting" /\ x.queue = q /\ x.item = worker[w].item
        /\ x.stopping = worker[w].stopping
    BY <2>0, <2>1 DEF ThreadState
  <2> HIDE DEF x
  <2>4. /\ worker' \in [Worker -> ThreadState] /\ worker'[w] = x
        /\ \A v \in Worker \ {w} : worker'[v] = worker[v]
    BY <1>0, <2>2, <2>3 DEF ThreadTypeOK
  <2>5. IdleWorkers' = IdleWorkers
    BY <1>2 DEF IdleWorkers
  <2>6. /\ w \notin IdleWorkers' /\ w \notin ReportingWorkers
        /\ worker'[w].place = "waiting" /\ Len(worker'[w].queue) = 1 /\ worker'[w].queue[1] = k
        /\ worker'[w].item = NoCall /\ ~worker'[w].stopping
    BY <1>2, <2>0, <2>1, <2>3, <2>4, <2>5 DEF WorkerOK, ThreadState
  <2>7. \A v \in Worker \ {w} :
           /\ WorkerOK(v, worker'[v], IdleWorkers', ReportingWorkers)
           /\ \A m \in Call : Has(worker'[v], m) => Has(worker[v], m)
    BY <1>0, <2>4, <2>5 DEF WorkersOK
  <2>8. /\ idle' \in Seq(Worker)
        /\ \A i, j \in DOMAIN idle' : idle'[i] = idle'[j] => i = j
    BY <1>0, <1>2 DEF ThreadTypeOK, WorkersOK
  <2> QED
    BY <1>1, <2>4, <2>6, <2>7, <2>8, GivenStep
<1>3. ASSUME idle # <<>>, NEW n \in 0..(Len(idle) - 1),
             worker' = [Threads!Stopped(Threads!Expired(SubSeq(idle, 1, n)))
                          EXCEPT ![idle[Len(idle)]].queue = Append(@, k)],
             idle' = Threads!RemainingIdle(n)
      PROVE  ThreadInv'
  <2> DEFINE w == idle[Len(idle)]
             ws == Threads!Expired(SubSeq(idle, 1, n))
             s == Threads!Stopped(ws)
             q == Append(worker[w].queue, k)
  <2>1. /\ idle \in Seq(Worker) /\ Len(idle) \in Nat /\ Len(idle) >= 1
        /\ DOMAIN idle = 1..Len(idle) /\ \A i \in 1..Len(idle) : idle[i] \in Worker
        /\ \A i, j \in 1..Len(idle) : idle[i] = idle[j] => i = j
    BY <1>0, <1>3, LenProperties, EmptySeq, ElementOfSeq DEF ThreadTypeOK, WorkersOK
  <2>n. n \in Nat /\ n <= Len(idle) - 1
    BY <2>1
  <2>2. /\ idle' \in Seq(Worker) /\ DOMAIN idle' = 1..(Len(idle) - 1 - n)
        /\ \A i \in 1..(Len(idle) - 1 - n) : idle'[i] = idle[n + i]
    <3>1. idle' = SubSeq(idle, n + 1, Len(idle) - 1)
      BY <1>3 DEF Threads!RemainingIdle
    <3>2. \A i \in (n + 1)..(Len(idle) - 1) : idle[i] \in Worker
      BY <2>1
    <3>3. /\ SubSeq(idle, n + 1, Len(idle) - 1) \in Seq(Worker)
          /\ Len(SubSeq(idle, n + 1, Len(idle) - 1))
               = IF n + 1 <= Len(idle) - 1 THEN (Len(idle) - 1) - (n + 1) + 1 ELSE 0
          /\ \A i \in 1..((Len(idle) - 1) - (n + 1) + 1) :
               SubSeq(idle, n + 1, Len(idle) - 1)[i] = idle[(n + 1) + i - 1]
      <4>1. n + 1 \in Int /\ Len(idle) - 1 \in Int
        BY <2>1
      <4> QED
        BY <3>2, <4>1, SubSeqProperties
    <3>4. Len(idle') = Len(idle) - 1 - n
      <4> DEFINE l == Len(idle)
                 r == SubSeq(idle, n + 1, l - 1)
      <4>1. l \in Nat /\ n \in 0..(l - 1) /\ idle' = r
            /\ Len(r) = IF n + 1 <= l - 1 THEN (l - 1) - (n + 1) + 1 ELSE 0
        BY <2>1, <3>1, <3>3
      <4> HIDE DEF l, r
      <4>2. Len(r) = l - 1 - n
        BY <4>1
      <4> QED
        BY <4>1, <4>2 DEF l
    <3>5. \A i \in 1..(Len(idle) - 1 - n) : idle'[i] = idle[n + i]
      BY <2>1, <3>1, <3>3
    <3> QED
      BY <3>1, <3>3, <3>4, <3>5, LenProperties
  <2>3. \A v : v \in ws <=> \E i \in 1..n : v = idle[i]
    <3>1. \A i \in 1..n : idle[i] \in Worker
      BY <2>1
    <3>2. /\ SubSeq(idle, 1, n) \in Seq(Worker)
          /\ Len(SubSeq(idle, 1, n)) = IF 1 <= n THEN n - 1 + 1 ELSE 0
          /\ \A i \in 1..(n - 1 + 1) : SubSeq(idle, 1, n)[i] = idle[1 + i - 1]
      BY <3>1, SubSeqProperties
    <3>3. /\ DOMAIN SubSeq(idle, 1, n) = 1..n
          /\ \A i \in 1..n : SubSeq(idle, 1, n)[i] = idle[i]
      BY <3>2, LenProperties
    <3> QED
      BY <3>3 DEF Threads!Expired
  <2>4. \A v : v \in IdleWorkers' <=> v \in IdleWorkers /\ v \notin ws /\ v # w
    <3>1. \A v : v \in IdleWorkers <=> \E i \in 1..Len(idle) : v = idle[i]
      BY <2>1 DEF IdleWorkers
    <3>2. \A v : v \in IdleWorkers' <=> \E i \in 1..(Len(idle) - 1 - n) : v = idle[n + i]
      BY <2>2 DEF IdleWorkers
    <3>3. ASSUME NEW v, v \in IdleWorkers'
          PROVE  v \in IdleWorkers /\ v \notin ws /\ v # w
      <4>1. PICK i \in 1..(Len(idle) - 1 - n) : v = idle[n + i]
        BY <3>2, <3>3
      <4> DEFINE m == n + i
      <4>2. m \in 1..Len(idle) /\ m # Len(idle) /\ m > n /\ v = idle[m]
        <5> DEFINE l == Len(idle)
        <5>1. l \in Nat /\ i \in 1..(l - 1 - n)
          BY <2>1, <4>1
        <5> HIDE DEF l
        <5>2. m \in 1..l /\ m # l /\ m > n
          BY <2>n, <5>1
        <5> QED
          BY <4>1, <5>2 DEF l
      <4> HIDE DEF m
      <4>3. v \in IdleWorkers
        BY <3>1, <4>2
      <4>4. Len(idle) \in 1..Len(idle)
        BY <2>1, SMTT(30)
      <4>5. v # w
        BY <2>1, <4>2, <4>4
      <4>6. ASSUME NEW j \in 1..n, v = idle[j] PROVE FALSE
        <5>1. j \in 1..Len(idle)
          BY <2>1, SMTT(30)
        <5>2. m = j
          BY <2>1, <4>2, <4>6, <5>1
        <5> QED
          BY <2>n, <4>2, <5>2
      <4> QED
        BY <2>3, <4>3, <4>5, <4>6
    <3>4. ASSUME NEW v, v \in IdleWorkers, v \notin ws, v # w
          PROVE  v \in IdleWorkers'
      <4>1. PICK i \in 1..Len(idle) : v = idle[i]
        BY <3>1, <3>4
      <4>2. i # Len(idle) /\ i \notin 1..n
        BY <2>3, <3>4, <4>1
      <4>3. i \in Nat /\ i > n /\ i < Len(idle)
        <5> DEFINE l == Len(idle)
        <5>1. l \in Nat /\ i \in 1..l /\ i # l /\ i \notin 1..n
          BY <2>1, <4>1, <4>2
        <5> HIDE DEF l
        <5>2. i \in Nat /\ i > n /\ i < l
          BY <2>n, <5>1
        <5> QED
          BY <5>2, SMTT(30) DEF l
      <4>4. i - n \in 1..(Len(idle) - 1 - n) /\ n + (i - n) = i
        BY <2>1, <2>n, <4>3
      <4> QED
        BY <3>2, <4>1, <4>4
    <3> QED
      BY <3>3, <3>4
  <2>5. /\ w \in Worker /\ w \in IdleWorkers /\ w \notin ws
        /\ \A v \in ws : v \in IdleWorkers /\ v \in Worker
    BY <2>1, <2>3 DEF IdleWorkers
  <2>6. \A i, j \in DOMAIN idle' : idle'[i] = idle'[j] => i = j
    <3> SUFFICES ASSUME NEW i \in DOMAIN idle', NEW j \in DOMAIN idle', idle'[i] = idle'[j]
                 PROVE  i = j
      OBVIOUS
    <3>1. /\ i \in 1..(Len(idle) - 1 - n) /\ j \in 1..(Len(idle) - 1 - n)
          /\ n + i \in 1..Len(idle) /\ n + j \in 1..Len(idle) /\ idle[n + i] = idle[n + j]
      BY <2>1, <2>2, SMTT(30)
    <3>2. n + i = n + j
      BY <2>1, <3>1
    <3> QED
      BY <2>1, <3>1, <3>2
  <2> HIDE DEF ws
  <2>7. /\ s \in [Worker -> ThreadState]
        /\ \A v \in Worker : v \notin ws => s[v] = worker[v]
        /\ \A v \in Worker \intersect ws :
             /\ s[v].place = worker[v].place /\ s[v].item = worker[v].item
             /\ s[v].skipped = worker[v].skipped /\ s[v].stopping
             /\ s[v].queue = Append(worker[v].queue, Stop)
    BY <1>0, StoppedFacts
  <2>8. /\ q \in Seq(Call \union {Stop}) /\ Len(worker[w].queue) \in Nat
        /\ Len(q) = Len(worker[w].queue) + 1 /\ q[Len(worker[w].queue) + 1] = k
    BY <1>0, <2>5, LongerQueue
  <2>9. /\ s[w] = worker[w] /\ worker[w] \in ThreadState
        /\ worker[w].place = "waiting" /\ Len(worker[w].queue) = 0 /\ ~worker[w].stopping
        /\ worker[w].item = NoCall /\ w \notin ReportingWorkers
    BY <1>0, <2>5, <2>7 DEF WorkersOK, WorkerOK, ThreadTypeOK
  <2> DEFINE x == [worker[w] EXCEPT !.queue = q]
  <2>10. worker' = [s EXCEPT ![w] = x]
    BY <1>3, <2>9 DEF ws
  <2> HIDE DEF q, s
  <2>11. /\ x \in ThreadState /\ x.place = worker[w].place /\ x.queue = q
         /\ x.item = worker[w].item /\ x.stopping = worker[w].stopping
    BY <2>8, <2>9 DEF ThreadState
  <2> HIDE DEF x
  <2>12. /\ worker' \in [Worker -> ThreadState] /\ worker'[w] = x
         /\ \A v \in Worker \ {w} : worker'[v] = s[v]
    BY <2>5, <2>7, <2>10, <2>11
  <2>13. /\ w \notin IdleWorkers' /\ w \notin ReportingWorkers
         /\ worker'[w].place = "waiting" /\ Len(worker'[w].queue) = 1
         /\ worker'[w].queue[1] = k /\ worker'[w].item = NoCall /\ ~worker'[w].stopping
    BY <2>4, <2>8, <2>9, <2>11, <2>12
  <2>14. ASSUME NEW v \in Worker \ {w}
         PROVE  /\ WorkerOK(v, worker'[v], IdleWorkers', ReportingWorkers)
                /\ \A m \in Call : Has(worker'[v], m) => Has(worker[v], m)
    <3>1. WorkerOK(v, worker[v], IdleWorkers, ReportingWorkers)
      BY <1>0 DEF WorkersOK
    <3>2. CASE v \in ws
      <4>1. /\ ~worker[v].stopping /\ worker[v].place # "new" /\ v \notin IdleWorkers'
            /\ worker'[v].place = worker[v].place /\ worker'[v].item = worker[v].item
            /\ worker'[v].stopping /\ worker'[v].queue = Append(worker[v].queue, Stop)
        BY <2>4, <2>5, <2>7, <2>12, <3>1, <3>2 DEF WorkerOK
      <4> QED
        BY <1>0, <3>1, <4>1, StoppedWorker
    <3>3. CASE v \notin ws
      <4>1. worker'[v] = worker[v] /\ (v \in IdleWorkers' <=> v \in IdleWorkers)
        BY <2>4, <2>7, <2>12, <3>3
      <4> QED
        BY <3>1, <4>1 DEF WorkerOK
    <3> QED
      BY <3>2, <3>3
  <2> HIDE DEF w
  <2> QED
    BY <1>1, <2>2, <2>5, <2>6, <2>12, <2>13, <2>14, GivenStep
<1> QED
  BY <1>2, <1>3 DEF Threads!Dispatch

\* Every step keeps the workers and the calls in order.
LEMMA NextThreads ==
  ASSUME WorkersInv, [Threads!ThreadNext]_(Threads!threadVars)
  PROVE  ThreadInv'
<1> USE DEF WorkersInv, IdleInOrder
<1>0. call \in [Call -> ThreadCall]
  BY DEF ThreadInv, ThreadTypeOK
<1>1. CASE UNCHANGED Threads!threadVars
  BY <1>0, <1>1, CallStep DEF Threads!threadVars
<1>2. ASSUME NEW k \in Call,
             \/ Threads!Enter(k) \/ Threads!Borrow(k) \/ Threads!Return(k)
             \/ Threads!CancelCall(k) \/ Threads!NativeCancelCall(k)
      PROVE  ThreadInv'
  <2>1. CASE Threads!Enter(k) \/ Threads!Borrow(k) \/ Threads!Return(k)
    <3>1. PICK place \in {"limiter", "borrowed", "done"} :
            /\ call' = [call EXCEPT ![k].place = place]
            /\ UNCHANGED <<worker, idle, reports>>
            /\ place # "done" => call[k].place \in {"idle", "limiter"}
            /\ place = "done" => call[k].future # "pending"
      BY <2>1 DEF Threads!Enter, Threads!Borrow, Threads!Return, Threads!Places
    <3>2. /\ call' \in [Call -> ThreadCall] /\ \A m \in Call \ {k} : call'[m] = call[m]
          /\ call'[k].place = place
      BY <1>0, <3>1 DEF ThreadCall
    <3> QED
      BY <3>1, <3>2, CallStep
  <2>2. CASE Threads!CancelCall(k)
    <3> DEFINE fut == IF Threads!Reached(k) THEN "cancelled" ELSE call[k].future
               p == IF call[k].place = "limiter" THEN "done" ELSE call[k].place
               x == [call[k] EXCEPT !.scopeOff = TRUE, !.future = fut, !.place = p]
    <3>1. call' = [call EXCEPT ![k] = x] /\ UNCHANGED <<worker, idle, reports>>
      BY <2>2 DEF Threads!CancelCall
    <3>2. call[k] \in ThreadCall
      BY <1>0
    <3>3. /\ fut \in {"none", "pending", "result", "error", "cancelled"}
          /\ p \in {"idle", "limiter", "borrowed", "awaiting", "done"}
          /\ call[k].place \in {"awaiting", "done"} => p = call[k].place
          /\ k \notin Abandoning => fut = call[k].future
      BY <3>2 DEF Threads!Reached, ThreadCall
    <3> HIDE DEF fut, p
    <3>4. x \in ThreadCall /\ x.place = p /\ x.future = fut
      BY <3>2, <3>3 DEF ThreadCall
    <3> HIDE DEF x
    <3>5. /\ call' \in [Call -> ThreadCall] /\ \A m \in Call \ {k} : call'[m] = call[m]
          /\ call'[k].place = p /\ call'[k].future = fut
      BY <1>0, <3>1, <3>4
    <3> QED
      BY <3>1, <3>3, <3>5, CallStep
  <2>3. CASE Threads!NativeCancelCall(k)
    <3>1. /\ call' = [call EXCEPT ![k].future = "cancelled"] /\ k \in NativeCall
          /\ UNCHANGED <<worker, idle, reports>>
      BY <2>3 DEF Threads!NativeCancelCall
    <3>2. /\ call' \in [Call -> ThreadCall] /\ \A m \in Call \ {k} : call'[m] = call[m]
          /\ call'[k].place = call[k].place
      BY <1>0, <3>1 DEF ThreadCall
    <3> QED
      BY <3>1, <3>2, CallStep
  <2> QED
    BY <1>2, <2>1, <2>2, <2>3
<1> QED
  BY <1>1, <1>2, DispatchStep, GetStep, AskStep, FinishStep, ReportStep, RootStep
     DEF Threads!ThreadNext, Threads!WorkerStep

\* The idle workers stay in order when the longest idle and the last one leave.
LEMMA OrderKept ==
  ASSUME IdleInOrder, clock' = clock,
         \A w \in Worker : worker'[w].since = worker[w].since,
         idle' \in Seq(Worker), NEW n \in Nat,
         \A i \in DOMAIN idle' : i \in Nat /\ n + i \in DOMAIN idle /\ idle'[i] = idle[n + i]
  PROVE  IdleInOrder'
<1>1. ASSUME NEW i \in DOMAIN idle', NEW j \in DOMAIN idle', i < j
      PROVE  worker'[idle'[i]].since < worker'[idle'[j]].since
  <2>1. i \in Nat /\ j \in Nat /\ n + i < n + j
    BY <1>1
  <2>2. idle'[i] \in Worker /\ idle'[j] \in Worker
    BY ElementOfSeq, LenProperties
  <2>3. worker[idle[n + i]].since < worker[idle[n + j]].since
    BY <2>1 DEF IdleInOrder
  <2> QED
    BY <2>2, <2>3
<1> QED
  BY <1>1 DEF IdleInOrder

\* What is left of the idle workers
LEMMA RemainingFacts ==
  ASSUME idle \in Seq(Worker), idle # <<>>, NEW n \in 0..(Len(idle) - 1)
  PROVE  LET r == Threads!RemainingIdle(n) IN
         /\ r \in Seq(Worker) /\ n \in Nat
         /\ \A i \in DOMAIN r : i \in Nat /\ n + i \in DOMAIN idle /\ r[i] = idle[n + i]
<1> DEFINE l == Len(idle)
           r == SubSeq(idle, n + 1, l - 1)
<1>1. l \in Nat /\ l >= 1 /\ DOMAIN idle = 1..l /\ \A i \in 1..l : idle[i] \in Worker
  BY LenProperties, EmptySeq, ElementOfSeq
<1>2. n \in Nat /\ n <= l - 1 /\ n + 1 \in Int /\ l - 1 \in Int
  BY <1>1
<1>3. \A i \in (n + 1)..(l - 1) : idle[i] \in Worker
  BY <1>1, <1>2
<1>4. /\ r \in Seq(Worker)
      /\ Len(r) = IF n + 1 <= l - 1 THEN (l - 1) - (n + 1) + 1 ELSE 0
      /\ \A i \in 1..((l - 1) - (n + 1) + 1) : r[i] = idle[(n + 1) + i - 1]
  BY <1>2, <1>3, SubSeqProperties
<1>5. DOMAIN r = 1..Len(r)
  BY <1>4, LenProperties
<1> HIDE DEF l, r
<1>6. Len(r) = l - 1 - n
  BY <1>1, <1>2, <1>4
<1>7. ASSUME NEW i \in DOMAIN r
      PROVE  i \in Nat /\ n + i \in DOMAIN idle /\ r[i] = idle[n + i]
  <2>1. i \in 1..(l - 1 - n)
    BY <1>5, <1>6
  <2>2. (n + 1) + i - 1 = n + i /\ n + i \in 1..l /\ i \in 1..((l - 1) - (n + 1) + 1)
    BY <1>1, <1>2, <2>1
  <2> QED
    BY <1>1, <1>4, <2>1, <2>2
<1> QED
  BY <1>2, <1>4, <1>7 DEF Threads!RemainingIdle, r, l

\* A worker that has reported is the one that became idle last.
LEMMA ReportOrder ==
  ASSUME WorkersInv, Threads!Report
  PROVE  IdleInOrder'
<1> DEFINE w == Head(reports).worker
<1>0. ThreadTypeOK /\ WorkersOK /\ IdleInOrder
  BY DEF WorkersInv, ThreadInv
<1>1. Head(reports) = reports[1] /\ 1 \in DOMAIN reports /\ Head(reports) \in ThreadReport
  BY <1>0, TailFacts, LenProperties, ElementOfSeq DEF ThreadTypeOK, Threads!Report
<1>2. /\ w \in Worker /\ w \in ReportingWorkers /\ worker \in [Worker -> ThreadState]
      /\ clock \in Nat /\ clock' = clock + 1
      /\ worker' = [worker EXCEPT ![w].since = clock + 1]
      /\ idle' = IF worker[w].stopping THEN idle ELSE Append(idle, w)
  BY <1>0, <1>1 DEF ThreadReport, ReportingWorkers, ThreadTypeOK, IdleInOrder, Threads!Report,
                    Threads!Rests
<1> HIDE DEF w
<1>3. /\ \A v \in Worker \ {w} : worker'[v] = worker[v]
      /\ worker'[w].since = clock + 1
      /\ \A v \in Worker : worker[v].since \in Nat /\ worker[v].since <= clock
  BY <1>0, <1>2 DEF ThreadState, IdleInOrder
<1>4. /\ idle \in Seq(Worker) /\ Len(idle) \in Nat /\ DOMAIN idle = 1..Len(idle)
      /\ \A i \in 1..Len(idle) : idle[i] \in Worker
  BY <1>0, LenProperties, ElementOfSeq DEF ThreadTypeOK
<1>5. \A i \in DOMAIN idle : idle[i] # w
  BY <1>0, <1>2 DEF WorkersOK, WorkerOK, IdleWorkers
<1>6. ASSUME NEW i \in DOMAIN idle, NEW j \in DOMAIN idle, i < j
      PROVE  worker'[idle[i]].since < worker'[idle[j]].since
  BY <1>0, <1>3, <1>4, <1>5, <1>6 DEF IdleInOrder
<1>7. \A v \in Worker : worker'[v].since <= clock'
  BY <1>2, <1>3
<1>8. CASE worker[w].stopping
  BY <1>2, <1>6, <1>7, <1>8 DEF IdleInOrder
<1>9. CASE ~worker[w].stopping
  <2>1. /\ DOMAIN idle' = 1..(Len(idle) + 1) /\ idle'[Len(idle) + 1] = w
        /\ \A i \in 1..Len(idle) : idle'[i] = idle[i]
    BY <1>2, <1>4, <1>9, AppendProperties, LenProperties
  <2>2. ASSUME NEW i \in DOMAIN idle', NEW j \in DOMAIN idle', i < j
        PROVE  worker'[idle'[i]].since < worker'[idle'[j]].since
    <3> DEFINE l == Len(idle)
    <3>1. l \in Nat /\ i \in 1..(l + 1) /\ j \in 1..(l + 1)
      BY <1>4, <2>1
    <3> HIDE DEF l
    <3>2. i \in 1..l /\ (j \in 1..l \/ j = l + 1)
      BY <2>2, <3>1
    <3>3. idle'[i] = idle[i] /\ idle[i] \in Worker /\ i \in DOMAIN idle
      BY <1>4, <2>1, <3>2 DEF l
    <3>4. CASE j \in 1..l
      <4>1. idle'[j] = idle[j] /\ j \in DOMAIN idle
        BY <1>4, <2>1, <3>4 DEF l
      <4> QED
        BY <1>6, <2>2, <3>3, <4>1
    <3>5. CASE j = l + 1
      <4>1. idle'[j] = w /\ worker'[idle[i]] = worker[idle[i]]
        BY <1>3, <1>5, <2>1, <3>3, <3>5 DEF l
      <4>2. worker[idle[i]].since \in Nat /\ worker[idle[i]].since <= clock
        BY <1>3, <3>3
      <4>3. /\ worker'[idle'[i]].since = worker[idle[i]].since
            /\ worker'[idle'[j]].since = clock + 1 /\ clock \in Nat
        BY <1>2, <1>3, <3>3, <4>1
      <4> QED
        BY <4>2, <4>3
    <3> QED
      BY <3>2, <3>4, <3>5
  <2> QED
    BY <1>2, <1>7, <2>2 DEF IdleInOrder
<1> QED
  BY <1>8, <1>9

\* No other step changes the time at which a worker became idle.
LEMMA SinceKept ==
  ASSUME WorkersInv, [Threads!ThreadNext]_(Threads!threadVars), ~Threads!Report
  PROVE  clock' = clock /\ \A w \in Worker : worker'[w].since = worker[w].since
<1>0. ThreadTypeOK /\ worker \in [Worker -> ThreadState]
  BY DEF WorkersInv, ThreadInv, ThreadTypeOK
<1>1. CASE UNCHANGED Threads!threadVars
  BY <1>1 DEF Threads!threadVars
<1>2. ASSUME NEW k \in Call, Threads!Dispatch(k)
      PROVE  clock' = clock /\ \A w \in Worker : worker'[w].since = worker[w].since
  <2>1. CASE idle = <<>>
    <3>1. /\ clock' = clock
          /\ \E v \in Worker :
               worker' = [worker EXCEPT ![v].place = "waiting", ![v].queue = <<k>>]
      BY <1>2, <2>1 DEF Threads!Dispatch
    <3> QED
      BY <1>0, <3>1 DEF ThreadState
  <2>2. CASE idle # <<>>
    <3>1. PICK n \in 0..(Len(idle) - 1) :
            worker' = [Threads!Stopped(Threads!Expired(SubSeq(idle, 1, n)))
                         EXCEPT ![idle[Len(idle)]].queue = Append(@, k)]
      BY <1>2, <2>2 DEF Threads!Dispatch
    <3> DEFINE ws == Threads!Expired(SubSeq(idle, 1, n))
               s == Threads!Stopped(ws)
    <3>2. s \in [Worker -> ThreadState] /\ \A w \in Worker : s[w].since = worker[w].since
      <4> HIDE DEF ws
      <4> QED
        BY <1>0, StoppedFacts
    <3>3. \A w \in Worker : worker'[w].since = s[w].since
      <4>1. worker' = [s EXCEPT ![idle[Len(idle)]].queue = Append(@, k)]
        BY <3>1
      <4> HIDE DEF s
      <4> QED
        BY <3>2, <4>1 DEF ThreadState
    <3>4. clock' = clock
      BY <1>2 DEF Threads!Dispatch
    <3> QED
      BY <3>2, <3>3, <3>4
  <2> QED
    BY <2>1, <2>2
<1>3. ASSUME NEW k \in Call,
             \/ Threads!Enter(k) \/ Threads!Borrow(k) \/ Threads!Return(k)
             \/ Threads!CancelCall(k) \/ Threads!NativeCancelCall(k)
      PROVE  clock' = clock /\ worker' = worker
  BY <1>3 DEF Threads!Enter, Threads!Borrow, Threads!Return, Threads!CancelCall,
              Threads!NativeCancelCall
<1>4. ASSUME NEW w \in Worker, Threads!WorkerStep(w)
      PROVE  clock' = clock /\ \A v \in Worker : worker'[v].since = worker[v].since
  <2>0. worker[w] \in ThreadState
    BY <1>0
  <2>1. CASE Threads!Get(w)
    <3> DEFINE q == worker[w].queue
               r == [worker[w] EXCEPT !.queue = Tail(q)]
               x == IF Head(q) = Stop THEN [r EXCEPT !.place = "dead"]
                    ELSE IF call[Head(q)].future = "cancelled" THEN [r EXCEPT !.skipped = TRUE]
                    ELSE [r EXCEPT !.place = "running", !.item = Head(q)]
    <3>1. clock' = clock /\ worker' = [worker EXCEPT ![w] = x]
      BY <2>1 DEF Threads!Get
    <3>2. x.since = worker[w].since
      <4>1. r.since = worker[w].since /\ DOMAIN r = DOMAIN worker[w] /\ "since" \in DOMAIN r
        BY <2>0 DEF ThreadState
      <4> HIDE DEF r
      <4>2. /\ [r EXCEPT !.place = "dead"].since = r.since
            /\ [r EXCEPT !.skipped = TRUE].since = r.since
            /\ [r EXCEPT !.place = "running", !.item = Head(q)].since = r.since
        BY <4>1
      <4> QED
        BY <4>1, <4>2
    <3> HIDE DEF x
    <3> QED
      BY <1>0, <3>1, <3>2
  <2>2. CASE Threads!Ask(w) \/ Threads!Answer(w)
    <3>1. PICK place \in {"running", "asking"} :
            clock' = clock /\ worker' = [worker EXCEPT ![w].place = place]
      BY <2>2 DEF Threads!Ask, Threads!Answer
    <3> QED
      BY <1>0, <3>1 DEF ThreadState
  <2>3. ASSUME NEW o \in {"result", "error", "checked"}, Threads!FinishFunction(w, o)
        PROVE  clock' = clock /\ \A v \in Worker : worker'[v].since = worker[v].since
    BY <1>0, <2>0, <2>3 DEF Threads!FinishFunction, ThreadState
  <2> QED
    BY <1>4, <2>1, <2>2, <2>3 DEF Threads!WorkerStep
<1>5. CASE Threads!RootEnds
  <2> DEFINE ws == {w \in Worker : worker[w].place \notin {"new", "dead"} /\ ~worker[w].stopping}
  <2>1. clock' = clock /\ worker' = Threads!Stopped(ws)
    BY <1>5 DEF Threads!RootEnds
  <2> HIDE DEF ws
  <2> QED
    BY <1>0, <2>1, StoppedFacts
<1> QED
  BY <1>1, <1>2, <1>3, <1>4, <1>5 DEF Threads!ThreadNext

\* What becomes of the idle workers in a step that is no report
LEMMA IdleLeft ==
  ASSUME WorkersInv, [Threads!ThreadNext]_(Threads!threadVars), ~Threads!Report
  PROVE  \/ idle' = idle \/ idle' = <<>>
         \/ idle # <<>> /\ \E n \in 0..(Len(idle) - 1) : idle' = Threads!RemainingIdle(n)
<1>1. ASSUME NEW k \in Call, Threads!Dispatch(k)
      PROVE  \/ idle' = idle
             \/ idle # <<>> /\ \E n \in 0..(Len(idle) - 1) : idle' = Threads!RemainingIdle(n)
  BY <1>1 DEF Threads!Dispatch
<1>2. ASSUME NEW k \in Call,
             \/ Threads!Enter(k) \/ Threads!Borrow(k) \/ Threads!Return(k)
             \/ Threads!CancelCall(k) \/ Threads!NativeCancelCall(k)
      PROVE  idle' = idle
  BY <1>2 DEF Threads!Enter, Threads!Borrow, Threads!Return, Threads!CancelCall,
              Threads!NativeCancelCall
<1>3. ASSUME NEW w \in Worker, Threads!WorkerStep(w) PROVE idle' = idle
  BY <1>3 DEF Threads!WorkerStep, Threads!Get, Threads!Ask, Threads!Answer, Threads!FinishFunction
<1>4. Threads!RootEnds => idle' = <<>>
  BY DEF Threads!RootEnds
<1>5. UNCHANGED Threads!threadVars => idle' = idle
  BY DEF Threads!threadVars
<1> QED
  BY <1>1, <1>2, <1>3, <1>4, <1>5 DEF Threads!ThreadNext

LEMMA NextWorkers == WorkersInv /\ [Threads!ThreadNext]_(Threads!threadVars) => WorkersInv'
<1> SUFFICES ASSUME WorkersInv, [Threads!ThreadNext]_(Threads!threadVars) PROVE IdleInOrder'
  BY NextThreads DEF WorkersInv
<1>0. IdleInOrder /\ idle \in Seq(Worker)
  BY DEF WorkersInv, ThreadInv, ThreadTypeOK
<1>1. CASE Threads!Report
  BY <1>1, ReportOrder
<1>2. CASE ~Threads!Report
  <2>1. clock' = clock /\ \A w \in Worker : worker'[w].since = worker[w].since
    BY <1>2, SinceKept
  <2>2. CASE idle' = idle
    <3>1. \A i \in DOMAIN idle' : i \in Nat /\ 0 + i \in DOMAIN idle /\ idle'[i] = idle[0 + i]
      <4>1. DOMAIN idle = 1..Len(idle) /\ Len(idle) \in Nat
        BY <1>0, LenProperties
      <4>2. \A i \in DOMAIN idle : i \in Nat /\ 0 + i = i
        BY <4>1
      <4> QED
        BY <2>2, <4>2
    <3> QED
      BY <1>0, <2>1, <2>2, <3>1, OrderKept
  <2>3. CASE idle' = <<>>
    <3>1. idle' \in Seq(Worker) /\ DOMAIN idle' = {}
      BY <2>3, EmptySeq
    <3> QED
      BY <1>0, <2>1, <3>1 DEF IdleInOrder
  <2>4. ASSUME idle # <<>>, NEW n \in 0..(Len(idle) - 1), idle' = Threads!RemainingIdle(n)
        PROVE  IdleInOrder'
    BY <1>0, <2>1, <2>4, RemainingFacts, OrderKept
  <2> QED
    BY <1>2, <2>2, <2>3, <2>4, IdleLeft
<1> QED
  BY <1>1, <1>2

LEMMA ThreadsHold == WorkersInv => Threads!PoolConsistent /\ Threads!ShieldHolds
<1> SUFFICES ASSUME WorkersInv PROVE Threads!PoolConsistent /\ Threads!ShieldHolds
  OBVIOUS
<1>0. ThreadTypeOK /\ WorkersOK /\ CallsOK
  BY DEF WorkersInv, ThreadInv
<1>1. \A i, j \in DOMAIN idle : i < j => worker[idle[i]].since < worker[idle[j]].since
  BY DEF WorkersInv, IdleInOrder
<1>2. ASSUME NEW w \in Worker
      PROVE  /\ w \in Threads!Range(idle) <=> w \in IdleWorkers
             /\ Threads!Reporting(w) <=> w \in ReportingWorkers
             /\ worker[w].queue = <<>> <=> Len(worker[w].queue) = 0
             /\ WorkerOK(w, worker[w], IdleWorkers, ReportingWorkers)
  <2>1. worker[w].queue \in Seq(Call \union {Stop})
    BY <1>0 DEF ThreadTypeOK, ThreadState
  <2>2. worker[w].queue = <<>> <=> Len(worker[w].queue) = 0
    BY <2>1, EmptySeq
  <2> QED
    BY <1>0, <2>2 DEF Threads!Range, Threads!Reporting, IdleWorkers, ReportingWorkers, WorkersOK
<1>3. Threads!PoolConsistent
  <2> SUFFICES ASSUME NEW w \in Worker
               PROVE  /\ w \in IdleWorkers =>
                           /\ worker[w].place = "waiting" /\ Len(worker[w].queue) = 0
                           /\ w \notin ReportingWorkers /\ ~worker[w].stopping
                      /\ worker[w].place = "waiting" /\ Len(worker[w].queue) = 0
                         /\ w \notin ReportingWorkers /\ ~worker[w].stopping
                           => w \in IdleWorkers \/ worker[w].skipped
                      /\ Len(worker[w].queue) <= 2
    BY <1>1, <1>2 DEF Threads!PoolConsistent
  <2>0. WorkerOK(w, worker[w], IdleWorkers, ReportingWorkers)
    BY <1>2
  <2>1. Len(worker[w].queue) <= 2
    <3> DEFINE l == Len(worker[w].queue)
    <3>1. l = 0 \/ l = 1 \/ l = 2
      BY <2>0 DEF WorkerOK
    <3> HIDE DEF l
    <3>2. l <= 2
      BY <3>1
    <3> QED
      BY <3>2 DEF l
  <2> QED
    BY <2>0, <2>1 DEF WorkerOK
<1>4. Threads!ShieldHolds
  <2> SUFFICES ASSUME NEW w \in Worker, worker[w].item # NoCall,
                      worker[w].item \notin Abandoning \union NativeCall
               PROVE  worker[w].item \in Threads!Borrowers
    BY DEF Threads!ShieldHolds
  <2>1. worker[w].item \in Call /\ Has(worker[w], worker[w].item)
    BY <1>0 DEF ThreadTypeOK, ThreadState, Has
  <2>2. call[worker[w].item].place = "awaiting"
    BY <1>0, <2>1 DEF CallsOK, Pending
  <2> QED
    BY <2>1, <2>2 DEF Threads!Borrowers
<1> QED
  BY <1>3, <1>4
-----------------------------------------------------------------------------
(* Worker processes: those that rest are workers without repetition, those   *)
(* in the hands of a call are not among them, a call that runs has a worker  *)
(* while one that was given up has none, and a process that was let go of is *)
(* neither at rest nor in the hands of a call.                               *)

req == a
proc == b
workers == c
resting == d
stray == e
ended == f

USE DEF req, proc, workers, resting, stray, ended

RequestState ==
  [place : {"idle", "pruning", "starting", "initialising", "running", "closing", "done"},
   proc : Proc \union {NoProc}, cancel : {"no", "scope", "native"}]

PoolTypeOK ==
  /\ req \in [Request -> RequestState]
  /\ proc \in [Proc -> {"new", "alive", "dead", "noticed"}]
  /\ workers \in SUBSET Proc /\ resting \in Seq(Proc)

Rest == Processes!Members(resting)
BusyRequests == {r \in Request : req[r].place \notin {"idle", "done"}}

\* What a busy request whose state is x has
HandOK(x) ==
  /\ x.proc \in Proc /\ x.proc \notin Rest /\ proc[x.proc] # "new"
  /\ x.place \in {"running", "pruning"} => x.proc \in workers
  /\ x.place = "closing" => x.proc \notin workers /\ proc[x.proc] # "alive"
  /\ ended # "no" => x.cancel = "native"

PoolInv ==
  /\ PoolTypeOK
  /\ IsInjective(resting) /\ Rest \subseteq workers
  /\ \A p \in workers : proc[p] # "new"
  /\ \A r \in BusyRequests :
       /\ HandOK(req[r])
       /\ \A s \in BusyRequests : req[s].proc = req[r].proc => s = r
  /\ \A p \in Proc : proc[p] = "alive" =>
       p \in Rest \/ p \in stray \/ \E r \in BusyRequests : p = req[r].proc
  /\ ended = "shut" => \A p \in workers : proc[p] # "alive"

\* A process that was let go of has no owner any more.
StraysOK ==
  /\ \A p \in stray : p \in Proc /\ proc[p] # "new" /\ p \notin Rest
  /\ \A r \in BusyRequests : req[r].proc \notin stray

ProcessesInv == PoolInv /\ StraysOK

\* At first there is no process.
LEMMA InitPool == Processes!PoolInit => ProcessesInv
<1> SUFFICES ASSUME Processes!PoolInit PROVE ProcessesInv
  OBVIOUS
<1> USE DEF Processes!PoolInit
<1>1. resting \in Seq(Proc) /\ DOMAIN resting = {}
  BY EmptySeq
<1>2. Rest = {} /\ BusyRequests = {} /\ IsInjective(resting)
  BY <1>1 DEF Rest, Processes!Members, BusyRequests, IsInjective
<1>3. PoolTypeOK
  BY <1>1 DEF PoolTypeOK, RequestState
<1> QED
  BY <1>2, <1>3 DEF PoolInv, StraysOK, ProcessesInv

\* What a step of request r, whose state is then x, has to leave: to the other requests
\* what they have, to r what it holds, and no process that is alive without an owner
OthersKeep(r) ==
  \A s \in BusyRequests \ {r} :
    /\ req[s].proc \notin Rest' /\ proc'[req[s].proc] # "new"
    /\ req[s].proc \in workers' <=> req[s].proc \in workers
    /\ proc[req[s].proc] # "alive" => proc'[req[s].proc] # "alive"

HandAfter(r, x) ==
  x.place \notin {"idle", "done"} =>
    /\ x.proc \in Proc /\ x.proc \notin Rest' /\ proc'[x.proc] # "new"
    /\ x.place \in {"running", "pruning"} => x.proc \in workers'
    /\ x.place = "closing" => x.proc \notin workers' /\ proc'[x.proc] # "alive"
    /\ ended # "no" => x.cancel = "native"
    /\ \A s \in BusyRequests \ {r} : req[s].proc # x.proc

AliveOwned(r, x) ==
  \A p \in Proc : proc'[p] = "alive" =>
    \/ p \in Rest' \/ p \in stray'
    \/ x.place \notin {"idle", "done"} /\ p = x.proc
    \/ \E s \in BusyRequests \ {r} : p = req[s].proc

PoolAfter ==
  /\ proc' \in [Proc -> {"new", "alive", "dead", "noticed"}]
  /\ workers' \in SUBSET Proc /\ resting' \in Seq(Proc) /\ IsInjective(resting')
  /\ Rest' \subseteq workers' /\ \A p \in workers' : proc'[p] # "new"
  /\ ended = "shut" => \A p \in workers' : proc'[p] # "alive"

LEMMA RequestStep ==
  ASSUME PoolInv, ended' = ended, NEW r \in Request, NEW x \in RequestState,
         req' = [req EXCEPT ![r] = x], PoolAfter, OthersKeep(r), HandAfter(r, x),
         AliveOwned(r, x)
  PROVE  PoolInv'
<1> USE DEF PoolAfter, OthersKeep, HandAfter, AliveOwned
<1>0. req \in [Request -> RequestState]
  BY DEF PoolInv, PoolTypeOK
<1>1. /\ req' \in [Request -> RequestState] /\ req'[r] = x
      /\ \A s \in Request \ {r} : req'[s] = req[s]
  BY <1>0
<1>2. /\ r \in BusyRequests' <=> x.place \notin {"idle", "done"}
      /\ \A s \in Request \ {r} : s \in BusyRequests' <=> s \in BusyRequests
      /\ \A s \in BusyRequests' : s \in Request
  BY <1>1 DEF BusyRequests
<1>3. PoolTypeOK'
  BY <1>1 DEF PoolTypeOK
<1>4. ASSUME NEW s \in BusyRequests' PROVE HandOK(req[s])'
  <2>1. CASE s = r
    BY <1>1, <1>2, <1>4, <2>1 DEF HandOK
  <2>2. CASE s # r
    <3>1. HandOK(req[s]) /\ req'[s] = req[s] /\ s \in BusyRequests \ {r}
      BY <1>1, <1>2, <1>4, <2>2 DEF PoolInv
    <3> QED
      BY <3>1 DEF HandOK
  <2> QED
    BY <2>1, <2>2
<1>5. ASSUME NEW s \in BusyRequests', NEW t \in BusyRequests', req'[s].proc = req'[t].proc
      PROVE  s = t
  BY <1>1, <1>2, <1>5 DEF PoolInv
<1>6. ASSUME NEW p \in Proc, proc'[p] = "alive"
      PROVE  p \in Rest' \/ p \in stray' \/ \E s \in BusyRequests' : p = req'[s].proc
  <2>1. \A s \in BusyRequests \ {r} : s \in BusyRequests' /\ req'[s] = req[s]
    BY <1>1, <1>2 DEF BusyRequests
  <2> QED
    BY <1>1, <1>2, <1>6, <2>1
<1> QED
  BY <1>3, <1>4, <1>5, <1>6 DEF PoolInv

\* The calls of Goes(), as an update of one record
LEMMA GoesFacts ==
  ASSUME PoolTypeOK, NEW r \in Request, NEW p \in Proc \union {NoProc},
         NEW place \in {"pruning", "starting", "initialising", "running", "closing", "done"},
         Processes!Goes(r, place, p)
  PROVE  \E x \in RequestState :
           /\ req' = [req EXCEPT ![r] = x]
           /\ x.place = place /\ x.proc = p /\ x.cancel = req[r].cancel
<1> DEFINE x == [req[r] EXCEPT !.place = place, !.proc = p]
<1>1. req[r] \in RequestState
  BY DEF PoolTypeOK
<1>2. x \in RequestState /\ x.place = place /\ x.proc = p /\ x.cancel = req[r].cancel
  BY <1>1 DEF RequestState
<1>3. req' = [req EXCEPT ![r] = x]
  BY DEF Processes!Goes
<1> HIDE DEF x
<1> QED
  BY <1>2, <1>3

\* What kill() does
LEMMA KilledFacts ==
  ASSUME PoolTypeOK, NEW ps
  PROVE  LET k == Processes!Killed(ps) IN
         /\ k \in [Proc -> {"new", "alive", "dead", "noticed"}]
         /\ \A p \in Proc : /\ k[p] = "new" <=> proc[p] = "new"
                            /\ k[p] = "alive" <=> proc[p] = "alive" /\ p \notin ps
BY DEF PoolTypeOK, Processes!Killed

\* The idle workers, cut at the n-th and the k-th: the oldest, those that stay, the one
\* that is taken, and the last ones, which are known to have exited.
Oldest(n) == Processes!Members(SubSeq(resting, 1, n))
Left(n, k) == SubSeq(resting, n + 1, k - 1)

LEMMA RestParts ==
  ASSUME PoolInv, NEW k \in DOMAIN resting, NEW n \in 0..Len(resting), n < k,
         Processes!LastUsable(k)
  PROVE  /\ Left(n, k) \in Seq(Proc) /\ IsInjective(Left(n, k))
         /\ Processes!Members(Left(n, k))
              = Rest \ (Oldest(n) \union {resting[k]} \union Processes!Dropped(k))
         /\ Oldest(n) \subseteq Rest /\ Processes!Dropped(k) \subseteq Rest
         /\ resting[k] \in Rest /\ resting[k] \in Proc
         /\ resting[k] \notin Oldest(n) /\ resting[k] \notin Processes!Dropped(k)
         /\ \A p \in Processes!Dropped(k) : proc[p] = "noticed"
<1> DEFINE old == SubSeq(resting, 1, n)
           left == SubSeq(resting, n + 1, k - 1)
           last == SubSeq(resting, k + 1, Len(resting))
           l == Len(resting)
<1>0. /\ resting \in Seq(Proc) /\ IsInjective(resting) /\ l \in Nat /\ DOMAIN resting = 1..l
      /\ \A i \in 1..l : resting[i] \in Proc
  BY LenProperties, ElementOfSeq DEF PoolInv, PoolTypeOK
<1>1. n \in Nat /\ k \in Nat /\ n <= l /\ k <= l /\ k - 1 \in Nat /\ n + 1 \in Nat \ {0}
      /\ k + 1 \in Nat \ {0}
  BY <1>0
<1>2. Range(old) = Between(resting, 1, n)
  <2>1. resting \in Seq(Proc) /\ 1 \in Nat /\ 1 # 0 /\ n \in Nat /\ n <= Len(resting)
    BY <1>0, <1>1
  <2> HIDE DEF l
  <2> QED
    BY <2>1, SliceFacts
<1>3. /\ left \in Seq(Proc) /\ IsInjective(left)
      /\ Range(left) = Between(resting, n + 1, k - 1)
  <2> DEFINE m == n + 1
             h == k - 1
  <2>1. resting \in Seq(Proc) /\ m \in Nat /\ m # 0 /\ h \in Nat /\ h <= Len(resting)
    BY <1>0, <1>1
  <2>2. left = SubSeq(resting, m, h) /\ IsInjective(resting)
    BY <1>0
  <2> HIDE DEF l, m, h, left
  <2>3. /\ left \in Seq(Proc) /\ IsInjective(left)
        /\ Range(left) = Between(resting, m, h)
    BY <2>1, <2>2, SliceFacts
  <2> QED
    BY <2>3 DEF m, h
<1>4. Range(last) = Between(resting, k + 1, l)
  <2> DEFINE m == k + 1
  <2>1. resting \in Seq(Proc) /\ m \in Nat /\ m # 0 /\ l \in Nat /\ l <= Len(resting)
    BY <1>0, <1>1
  <2>2. last = SubSeq(resting, m, l)
    OBVIOUS
  <2> HIDE DEF l, m, last
  <2>3. Range(last) = Between(resting, m, l)
    BY <2>1, <2>2, SliceFacts
  <2> QED
    BY <2>3 DEF m
<1> HIDE DEF old, left, last
<1>5. \A x : /\ x \in Rest <=> \E j \in 1..l : x = resting[j]
             /\ x \in Processes!Members(old) <=> \E j \in 1..n : x = resting[j]
             /\ x \in Processes!Members(left) <=> \E j \in (n + 1)..(k - 1) : x = resting[j]
             /\ x \in Processes!Members(last) <=> \E j \in (k + 1)..l : x = resting[j]
  BY <1>0, <1>2, <1>3, <1>4 DEF Processes!Members, Rest, Range, Between
<1>6. Processes!Dropped(k) = Processes!Members(last)
  BY DEF Processes!Dropped, last
<1>7. \A i, j \in 1..l : resting[i] = resting[j] => i = j
  BY <1>0 DEF IsInjective
<1> HIDE DEF l
<1>8. \A j : /\ j \in 1..n => j \in 1..l /\ j # k
             /\ j \in (n + 1)..(k - 1) => j \in 1..l /\ j # k /\ j \notin 1..n /\ j \notin (k + 1)..l
             /\ j \in (k + 1)..l => j \in 1..l /\ j # k
             /\ j \in 1..l => j \in 1..n \/ j \in (n + 1)..(k - 1) \/ j = k \/ j \in (k + 1)..l
  BY <1>0, <1>1
<1>9. k \in 1..l
  BY <1>0
<1>10. ASSUME NEW p, p \in Processes!Members(left)
       PROVE  p \in Rest /\ p \notin Processes!Members(old) /\ p # resting[k]
              /\ p \notin Processes!Members(last)
  <2>1. PICK j \in (n + 1)..(k - 1) : p = resting[j]
    BY <1>5, <1>10
  <2>2. j \in 1..l /\ j # k /\ j \notin 1..n /\ j \notin (k + 1)..l
    BY <1>8, <2>1
  <2>3. \A i \in 1..l : p = resting[i] => i = j
    BY <1>7, <2>1, <2>2
  <2>4. \A i : (i \in 1..n \/ i = k \/ i \in (k + 1)..l) => p # resting[i]
    BY <1>8, <1>9, <2>2, <2>3
  <2> QED
    BY <1>5, <2>1, <2>2, <2>4
<1>11. ASSUME NEW p, p \in Rest, p \notin Processes!Members(old), p # resting[k],
              p \notin Processes!Members(last)
       PROVE  p \in Processes!Members(left)
  <2>1. PICK j \in 1..l : p = resting[j]
    BY <1>5, <1>11
  <2> QED
    BY <1>5, <1>8, <1>11, <2>1
<1>12. /\ Processes!Members(old) \subseteq Rest /\ Processes!Members(last) \subseteq Rest
       /\ resting[k] \in Rest /\ resting[k] \in Proc
       /\ resting[k] \notin Processes!Members(old) /\ resting[k] \notin Processes!Members(last)
  BY <1>0, <1>5, <1>7, <1>8, <1>9
<1>13. \A p \in Processes!Members(last) : proc[p] = "noticed"
  <2>1. \A j \in (k + 1)..l : proc[resting[j]] = "noticed"
    BY DEF Processes!LastUsable, l
  <2> QED
    BY <1>5, <2>1
<1> QED
  BY <1>3, <1>6, <1>10, <1>11, <1>12, <1>13 DEF old, left, Oldest, Left

\* A worker is taken, and the oldest ones are killed.
LEMMA TakeStep ==
  ASSUME PoolInv, NEW r \in Request, Processes!TakeWorker(r)
  PROVE  PoolInv'
<1>0. PoolTypeOK /\ req[r].place = "idle" /\ ended = "no" /\ stray' = stray /\ ended' = ended
  BY DEF PoolInv, Processes!TakeWorker, Processes!Admitted
<1>1. PICK k \in DOMAIN resting, n \in 0..Len(resting) :
        /\ Processes!LastUsable(k) /\ n < k
        /\ Processes!Goes(r, IF n > 0 THEN "pruning" ELSE "running", resting[k])
        /\ proc' = Processes!Killed(Oldest(n))
        /\ workers' = workers \ (Oldest(n) \union Processes!Dropped(k))
        /\ resting' = Left(n, k)
  BY DEF Processes!TakeWorker, Processes!RestingAfter, Oldest, Left
<1> DEFINE old == Oldest(n)
           last == Processes!Dropped(k)
           p == resting[k]
<1>2. /\ resting' \in Seq(Proc) /\ IsInjective(resting')
      /\ \A q : q \in Rest' <=> q \in Rest /\ q \notin old /\ q # p /\ q \notin last
      /\ old \subseteq Rest /\ last \subseteq Rest /\ p \in Rest /\ p \in Proc
      /\ p \notin old /\ p \notin last /\ \A q \in last : proc[q] = "noticed"
  <2>1. /\ Left(n, k) \in Seq(Proc) /\ IsInjective(Left(n, k))
        /\ Processes!Members(Left(n, k)) = Rest \ (old \union {p} \union last)
        /\ old \subseteq Rest /\ last \subseteq Rest /\ p \in Rest /\ p \in Proc
        /\ p \notin old /\ p \notin last /\ \A q \in last : proc[q] = "noticed"
    BY <1>1, RestParts
  <2>2. Rest' = Processes!Members(Left(n, k))
    BY <1>1 DEF Rest, Processes!Members
  <2> QED
    BY <1>1, <2>1, <2>2
<1>3. /\ proc' \in [Proc -> {"new", "alive", "dead", "noticed"}]
      /\ \A q \in Proc : /\ proc'[q] = "new" <=> proc[q] = "new"
                         /\ proc'[q] = "alive" <=> proc[q] = "alive" /\ q \notin old
  BY <1>0, <1>1, KilledFacts
<1> HIDE DEF old, last
<1>4. PICK x \in RequestState :
        /\ req' = [req EXCEPT ![r] = x]
        /\ x.place \in {"pruning", "running"} /\ x.proc = p /\ x.cancel = req[r].cancel
  <2>1. (IF n > 0 THEN "pruning" ELSE "running") \in
          {"pruning", "starting", "initialising", "running", "closing", "done"}
    OBVIOUS
  <2>2. p \in Proc \union {NoProc}
    BY <1>2
  <2> HIDE DEF p
  <2>3. Processes!Goes(r, IF n > 0 THEN "pruning" ELSE "running", p)
    BY <1>1 DEF p
  <2>4. \E x \in RequestState :
           /\ req' = [req EXCEPT ![r] = x]
           /\ x.place = (IF n > 0 THEN "pruning" ELSE "running")
           /\ x.proc = p /\ x.cancel = req[r].cancel
    BY <1>0, <2>1, <2>2, <2>3, GoesFacts
  <2> QED
    BY <2>4
<1> HIDE DEF p
<1>5. /\ workers' = workers \ (old \union last) /\ Rest \subseteq workers
      /\ workers \in SUBSET Proc
      /\ \A q \in workers : proc[q] # "new"
      /\ \A s \in BusyRequests : req[s].proc \notin Rest /\ req[s].proc \in Proc
                                 /\ proc[req[s].proc] # "new"
      /\ \A q \in Proc : proc[q] = "alive" =>
           q \in Rest \/ q \in stray \/ \E s \in BusyRequests : q = req[s].proc
  BY <1>1 DEF old, last, PoolInv, PoolTypeOK, HandOK
<1>6. r \notin BusyRequests
  BY <1>0 DEF BusyRequests
<1>7. /\ workers' \in SUBSET Proc /\ Rest' \subseteq workers'
      /\ \A q \in workers' : proc'[q] # "new"
      /\ p \in workers' /\ p \notin Rest' /\ proc'[p] # "new"
  BY <1>2, <1>3, <1>5
<1>8. \A s \in BusyRequests \ {r} :
        /\ req[s].proc \notin Rest' /\ proc'[req[s].proc] # "new"
        /\ req[s].proc \in workers' <=> req[s].proc \in workers
        /\ proc[req[s].proc] # "alive" => proc'[req[s].proc] # "alive"
        /\ req[s].proc # p
  BY <1>2, <1>3, <1>5
<1>9. AliveOwned(r, x)
  BY <1>0, <1>2, <1>3, <1>4, <1>5, <1>6 DEF AliveOwned
<1>10. HandAfter(r, x)
  BY <1>0, <1>2, <1>4, <1>7, <1>8 DEF HandAfter
<1>11. PoolAfter /\ OthersKeep(r)
  BY <1>0, <1>2, <1>3, <1>7, <1>8 DEF PoolAfter, OthersKeep
<1> QED
  BY <1>0, <1>4, <1>9, <1>10, <1>11, RequestStep

\* The pruning fails: the worker that was taken is let go of.
LEMMA TakeFailsStep ==
  ASSUME PoolInv, NEW r \in Request, Processes!TakeWorkerFails(r)
  PROVE  PoolInv'
<1>0. PoolTypeOK /\ req[r].place = "idle" /\ ended = "no" /\ ended' = ended
  BY DEF PoolInv, Processes!TakeWorkerFails, Processes!Admitted
<1>1. PICK k \in DOMAIN resting, n \in 1..Len(resting) :
        /\ Processes!LastUsable(k) /\ n < k /\ proc[resting[n]] = "noticed"
        /\ Processes!Goes(r, "done", NoProc)
        /\ proc' = Processes!Killed(Oldest(n - 1))
        /\ workers' = workers \ (Oldest(n - 1) \union Processes!Dropped(k))
        /\ resting' = Left(n, k)
        /\ stray' = stray \union {resting[k]}
  BY DEF Processes!TakeWorkerFails, Oldest, Left
<1> DEFINE old == Oldest(n - 1)
           old1 == Oldest(n)
           last == Processes!Dropped(k)
           p == resting[k]
<1>2. /\ resting' \in Seq(Proc) /\ IsInjective(resting')
      /\ \A q : q \in Rest' <=> q \in Rest /\ q \notin old1 /\ q # p /\ q \notin last
      /\ old1 \subseteq Rest /\ last \subseteq Rest /\ p \in Rest /\ p \in Proc
      /\ p \notin old1 /\ p \notin last /\ \A q \in last : proc[q] = "noticed"
  <2>0. n \in 0..Len(resting) /\ n < k /\ Processes!LastUsable(k)
    BY <1>1
  <2>1. /\ Left(n, k) \in Seq(Proc) /\ IsInjective(Left(n, k))
        /\ Processes!Members(Left(n, k)) = Rest \ (old1 \union {p} \union last)
        /\ old1 \subseteq Rest /\ last \subseteq Rest /\ p \in Rest /\ p \in Proc
        /\ p \notin old1 /\ p \notin last /\ \A q \in last : proc[q] = "noticed"
    BY <2>0, RestParts
  <2>2. Rest' = Processes!Members(Left(n, k))
    BY <1>1 DEF Rest, Processes!Members
  <2> QED
    BY <1>1, <2>1, <2>2
<1>3. \A q : q \in old1 <=> q \in old \/ q = resting[n]
  <2>1. /\ resting \in Seq(Proc) /\ 1 \in Nat /\ 1 # 0 /\ n \in Nat /\ n <= Len(resting)
        /\ n - 1 \in Nat /\ n - 1 <= Len(resting)
    BY <1>0, LenProperties DEF PoolTypeOK
  <2>2. Range(SubSeq(resting, 1, n)) = Between(resting, 1, n)
    BY <2>1, SliceFacts
  <2> DEFINE h == n - 1
  <2>3. Range(SubSeq(resting, 1, h)) = Between(resting, 1, h)
    <3>1. h \in Nat /\ h <= Len(resting)
      BY <2>1
    <3> HIDE DEF h
    <3> QED
      BY <2>1, <3>1, SliceFacts
  <2>4. \A i : i \in 1..n <=> i \in 1..(n - 1) \/ i = n
    BY <2>1
  <2>5. old1 = Between(resting, 1, n) /\ old = Between(resting, 1, n - 1)
    BY <2>2, <2>3 DEF Range, Processes!Members, Oldest
  <2> QED
    BY <2>4, <2>5 DEF Between
<1>4. /\ proc' \in [Proc -> {"new", "alive", "dead", "noticed"}]
      /\ \A q \in Proc : /\ proc'[q] = "new" <=> proc[q] = "new"
                         /\ proc'[q] = "alive" <=> proc[q] = "alive" /\ q \notin old
  BY <1>0, <1>1, KilledFacts
<1> HIDE DEF old, old1, last, p
<1>5. PICK x \in RequestState :
        req' = [req EXCEPT ![r] = x] /\ x.place = "done" /\ x.proc = NoProc
  <2>1. \E x \in RequestState :
           /\ req' = [req EXCEPT ![r] = x]
           /\ x.place = "done" /\ x.proc = NoProc /\ x.cancel = req[r].cancel
    BY <1>0, <1>1, GoesFacts
  <2> QED
    BY <2>1
<1>6. /\ workers' = workers \ (old \union last) /\ Rest \subseteq workers
      /\ workers \in SUBSET Proc
      /\ \A q \in workers : proc[q] # "new"
      /\ \A s \in BusyRequests : req[s].proc \notin Rest /\ req[s].proc \in Proc
                                 /\ proc[req[s].proc] # "new"
      /\ \A q \in Proc : proc[q] = "alive" =>
           q \in Rest \/ q \in stray \/ \E s \in BusyRequests : q = req[s].proc
  BY <1>1 DEF old, last, PoolInv, PoolTypeOK, HandOK
<1>7. r \notin BusyRequests
  BY <1>0 DEF BusyRequests
<1>8. /\ workers' \in SUBSET Proc /\ Rest' \subseteq workers'
      /\ \A q \in workers' : proc'[q] # "new"
  BY <1>2, <1>3, <1>4, <1>6
<1>9. \A s \in BusyRequests \ {r} :
        /\ req[s].proc \notin Rest' /\ proc'[req[s].proc] # "new"
        /\ req[s].proc \in workers' <=> req[s].proc \in workers
        /\ proc[req[s].proc] # "alive" => proc'[req[s].proc] # "alive"
  BY <1>2, <1>3, <1>4, <1>6
<1>10. AliveOwned(r, x)
  <2>1. p \in stray' /\ stray \subseteq stray' /\ proc[resting[n]] = "noticed"
    BY <1>1 DEF p
  <2> QED
    BY <1>2, <1>3, <1>4, <1>6, <1>7, <2>1 DEF AliveOwned
<1>11. PoolAfter /\ OthersKeep(r)
  BY <1>0, <1>2, <1>4, <1>8, <1>9 DEF PoolAfter, OthersKeep
<1>12. HandAfter(r, x)
  BY <1>5 DEF HandAfter
<1> QED
  BY <1>0, <1>5, <1>10, <1>11, <1>12, RequestStep

\* A process is started when no usable one is left.
LEMMA StartStep ==
  ASSUME PoolInv, NEW r \in Request, Processes!StartWorker(r)
  PROVE  PoolInv'
<1>0. PoolTypeOK /\ req[r].place = "idle" /\ ended = "no" /\ stray' = stray /\ ended' = ended
  BY DEF PoolInv, Processes!StartWorker, Processes!Admitted
<1>1. PICK p \in Proc : /\ proc[p] = "new" /\ proc' = [proc EXCEPT ![p] = "alive"]
                        /\ Processes!Goes(r, "starting", p)
  BY DEF Processes!StartWorker
<1>2. /\ resting' \in Seq(Proc) /\ DOMAIN resting' = {} /\ workers' = workers \ Rest
      /\ \A q \in Rest : proc[q] = "noticed"
  <2>1. resting' = <<>> /\ workers' = workers \ Rest
    BY DEF Processes!StartWorker, Rest
  <2>2. \A q \in Rest : proc[q] = "noticed"
    BY DEF Processes!StartWorker, Rest, Processes!Members
  <2> QED
    BY <2>1, <2>2, EmptySeq
<1>3. Rest' = {} /\ IsInjective(resting')
  BY <1>2 DEF Rest, Processes!Members, IsInjective
<1>4. /\ proc' \in [Proc -> {"new", "alive", "dead", "noticed"}]
      /\ proc'[p] = "alive" /\ \A q \in Proc \ {p} : proc'[q] = proc[q]
  BY <1>0, <1>1 DEF PoolTypeOK
<1>5. PICK x \in RequestState :
        req' = [req EXCEPT ![r] = x] /\ x.place = "starting" /\ x.proc = p
  BY <1>0, <1>1, GoesFacts
<1>6. /\ workers \in SUBSET Proc /\ \A q \in workers : proc[q] # "new"
      /\ \A s \in BusyRequests : req[s].proc \notin Rest /\ req[s].proc \in Proc
                                 /\ proc[req[s].proc] # "new"
      /\ \A q \in Proc : proc[q] = "alive" =>
           q \in Rest \/ q \in stray \/ \E s \in BusyRequests : q = req[s].proc
  BY DEF PoolInv, PoolTypeOK, HandOK
<1>7. r \notin BusyRequests
  BY <1>0 DEF BusyRequests
<1>8. /\ workers' \in SUBSET Proc /\ Rest' \subseteq workers'
      /\ \A q \in workers' : proc'[q] # "new"
  BY <1>1, <1>2, <1>3, <1>4, <1>6
<1>9. \A s \in BusyRequests \ {r} :
        /\ req[s].proc \notin Rest' /\ proc'[req[s].proc] # "new"
        /\ req[s].proc \in workers' <=> req[s].proc \in workers
        /\ proc[req[s].proc] # "alive" => proc'[req[s].proc] # "alive"
        /\ req[s].proc # p
  BY <1>1, <1>2, <1>3, <1>4, <1>6
<1>10. AliveOwned(r, x)
  BY <1>0, <1>2, <1>4, <1>5, <1>6, <1>7 DEF AliveOwned
<1>11. HandAfter(r, x)
  BY <1>0, <1>3, <1>4, <1>5, <1>9 DEF HandAfter
<1>12. PoolAfter /\ OthersKeep(r)
  BY <1>0, <1>2, <1>3, <1>4, <1>8, <1>9 DEF PoolAfter, OthersKeep
<1> QED
  BY <1>0, <1>5, <1>10, <1>11, <1>12, RequestStep

\* What a step of a busy request leaves to its own process; x is its state then.
OwnAfter(r, x) ==
  LET p == req[r].proc IN
  /\ proc' \in [Proc -> {"new", "alive", "dead", "noticed"}]
  /\ \A q \in Proc \ {p} : proc'[q] = proc[q] /\ (q \in workers' <=> q \in workers)
  /\ proc'[p] # "new" /\ (proc'[p] = "alive" => proc[p] = "alive")
  /\ workers' \in SUBSET Proc /\ resting' = resting /\ stray \subseteq stray'
  /\ p \in workers' /\ proc'[p] = "alive" => p \in workers \/ ended = "no"
  /\ proc'[p] = "alive" => p \in stray' \/ x.place \notin {"idle", "done"}

\* The calls that go on, x being their state: they keep their process.
KeepsOwn(r, x) ==
  x.place \notin {"idle", "done"} =>
    /\ x.proc = req[r].proc
    /\ x.place \in {"running", "pruning"} => x.proc \in workers'
    /\ x.place = "closing" => x.proc \notin workers' /\ proc'[x.proc] # "alive"
    /\ ended # "no" => x.cancel = "native"

LEMMA OwnStep ==
  ASSUME PoolInv, ended' = ended, NEW r \in BusyRequests, NEW x \in RequestState,
         req' = [req EXCEPT ![r] = x], OwnAfter(r, x), KeepsOwn(r, x)
  PROVE  PoolInv'
<1> DEFINE p == req[r].proc
<1>1. /\ PoolTypeOK /\ IsInjective(resting) /\ Rest \subseteq workers
      /\ \A q \in workers : proc[q] # "new"
      /\ r \in Request /\ p \in Proc /\ p \notin Rest
      /\ \A s \in BusyRequests :
           /\ req[s].proc \in Proc /\ req[s].proc \notin Rest /\ proc[req[s].proc] # "new"
           /\ req[s].proc = p => s = r
      /\ \A q \in Proc : proc[q] = "alive" =>
           q \in Rest \/ q \in stray \/ \E s \in BusyRequests : q = req[s].proc
      /\ ended = "shut" => \A q \in workers : proc[q] # "alive"
  BY DEF PoolInv, HandOK, BusyRequests
<1>2. /\ proc' \in [Proc -> {"new", "alive", "dead", "noticed"}]
      /\ \A q \in Proc \ {p} : proc'[q] = proc[q] /\ (q \in workers' <=> q \in workers)
      /\ proc'[p] # "new" /\ (proc'[p] = "alive" => proc[p] = "alive")
      /\ workers' \in SUBSET Proc /\ resting' = resting /\ stray \subseteq stray'
      /\ p \in workers' /\ proc'[p] = "alive" => p \in workers \/ ended = "no"
      /\ proc'[p] = "alive" => p \in stray' \/ x.place \notin {"idle", "done"}
  BY DEF OwnAfter
<1>3. Rest' = Rest
  BY <1>2 DEF Rest, Processes!Members
<1>4. /\ x.place \notin {"idle", "done"} => x.proc = p
  BY DEF KeepsOwn
<1> HIDE DEF p
<1>5. resting' \in Seq(Proc) /\ IsInjective(resting') /\ Rest' \subseteq workers'
  BY <1>1, <1>2, <1>3 DEF PoolTypeOK
<1>6. \A q \in workers' : proc'[q] # "new" /\ (ended = "shut" => proc'[q] # "alive")
  BY <1>1, <1>2
<1>7. PoolAfter
  BY <1>2, <1>5, <1>6 DEF PoolAfter
<1>8. OthersKeep(r)
  BY <1>1, <1>2, <1>3 DEF OthersKeep
<1>9. AliveOwned(r, x)
  BY <1>1, <1>2, <1>3, <1>4 DEF AliveOwned, p
<1>10. HandAfter(r, x)
  BY <1>1, <1>2, <1>3, <1>4 DEF HandAfter, KeepsOwn, p
<1> QED
  BY <1>1, <1>7, <1>8, <1>9, <1>10, RequestStep

\* What a busy request has, in the words of the steps
LEMMA BusyHas ==
  ASSUME PoolInv, NEW r \in BusyRequests
  PROVE  /\ PoolTypeOK /\ r \in Request /\ req[r] \in RequestState
         /\ req[r].proc \in Proc /\ proc[req[r].proc] # "new"
         /\ req[r].place \in {"running", "pruning"} => req[r].proc \in workers
         /\ req[r].place = "closing" => /\ req[r].proc \notin workers
                                        /\ proc[req[r].proc] # "alive"
         /\ ended # "no" => req[r].cancel = "native"
         /\ proc \in [Proc -> {"new", "alive", "dead", "noticed"}]
         /\ workers \in SUBSET Proc
BY DEF PoolInv, PoolTypeOK, HandOK, BusyRequests

\* The worker is in use, or one command further.
LEMMA GoOnStep ==
  ASSUME PoolInv, NEW r \in Request, Processes!Pruned(r) \/ Processes!Started(r)
  PROVE  PoolInv'
<1>1. r \in BusyRequests
  BY DEF BusyRequests, Processes!Pruned, Processes!Started, Processes!Proceeds
<1> DEFINE p == req[r].proc
<1>2. /\ PoolTypeOK /\ p \in Proc /\ proc[p] # "new" /\ req[r] \in RequestState
      /\ req[r].place \in {"running", "pruning"} => p \in workers
      /\ ended # "no" => req[r].cancel = "native"
      /\ proc \in [Proc -> {"new", "alive", "dead", "noticed"}]
      /\ workers \in SUBSET Proc
  BY <1>1, BusyHas
<1>3. /\ req[r].cancel # "native" /\ proc' = proc /\ resting' = resting
      /\ stray' = stray /\ ended' = ended
      /\ \E place \in {"initialising", "running"} :
           /\ Processes!Goes(r, place, p)
           /\ \/ workers' = workers /\ (place = "running" => req[r].place = "pruning")
              \/ workers' = workers \union {p}
  BY DEF Processes!Pruned, Processes!Started, Processes!Proceeds
<1>4. PICK place \in {"initialising", "running"} :
           /\ Processes!Goes(r, place, p)
           /\ \/ workers' = workers /\ (place = "running" => req[r].place = "pruning")
              \/ workers' = workers \union {p}
  BY <1>3
<1> HIDE DEF p
<1>5. PICK x \in RequestState :
        /\ req' = [req EXCEPT ![r] = x]
        /\ x.place = place /\ x.proc = p /\ x.cancel = req[r].cancel
  BY <1>2, <1>4, GoesFacts
<1>6. ended = "no"
  BY <1>2, <1>3
<1>7. OwnAfter(r, x)
  BY <1>2, <1>3, <1>4, <1>5, <1>6 DEF OwnAfter, p
<1>8. KeepsOwn(r, x)
  BY <1>2, <1>4, <1>5, <1>6 DEF KeepsOwn, p
<1> QED
  BY <1>1, <1>3, <1>5, <1>7, <1>8, OwnStep

\* The handler: the worker leaves the pool and is killed.
LEMMA GiveUpStep ==
  ASSUME PoolInv, NEW r \in BusyRequests, Processes!GiveUp(r)
  PROVE  PoolInv'
<1> DEFINE p == req[r].proc
<1>1. /\ PoolTypeOK /\ p \in Proc /\ proc[p] # "new" /\ req[r] \in RequestState
      /\ r \in Request /\ (ended # "no" => req[r].cancel = "native")
      /\ workers \in SUBSET Proc
  BY BusyHas
<1>2. /\ workers' = workers \ {p} /\ proc' = Processes!Killed({p})
      /\ Processes!Goes(r, "closing", p)
      /\ resting' = resting /\ stray' = stray /\ ended' = ended
  BY DEF Processes!GiveUp, Processes!NoWorker, Processes!KilledNow
<1> HIDE DEF p
<1>3. /\ proc' \in [Proc -> {"new", "alive", "dead", "noticed"}]
      /\ \A q \in Proc : /\ q # p => proc'[q] = proc[q]
                         /\ proc'[q] = "new" <=> proc[q] = "new"
                         /\ proc'[q] = "alive" <=> proc[q] = "alive" /\ q # p
  BY <1>1, <1>2 DEF PoolTypeOK, Processes!Killed
<1>4. PICK x \in RequestState :
        /\ req' = [req EXCEPT ![r] = x]
        /\ x.place = "closing" /\ x.proc = p /\ x.cancel = req[r].cancel
  BY <1>1, <1>2, GoesFacts
<1>5. OwnAfter(r, x)
  BY <1>1, <1>2, <1>3, <1>4 DEF OwnAfter, p
<1>6. KeepsOwn(r, x)
  BY <1>1, <1>2, <1>3, <1>4 DEF KeepsOwn, p
<1> QED
  BY <1>2, <1>4, <1>5, <1>6, OwnStep

\* The pipe breaks, or the cancellation makes the call give its worker up.
LEMMA BrokenStep ==
  ASSUME PoolInv, NEW r \in Request, Processes!Broken(r)
  PROVE  PoolInv'
<1>1. r \in BusyRequests /\ Processes!GiveUp(r)
  BY DEF BusyRequests, Processes!Broken
<1> QED
  BY <1>1, GiveUpStep

\* READY does not come, or the answer to `init` is an exception.
LEMMA StartFailsStep ==
  ASSUME PoolInv, NEW r \in Request, Processes!StartFails(r)
  PROVE  PoolInv'
<1> DEFINE p == req[r].proc
<1>0. r \in BusyRequests
  BY DEF BusyRequests, Processes!StartFails, Processes!Proceeds
<1>1. /\ PoolTypeOK /\ p \in Proc /\ proc[p] # "new" /\ workers \in SUBSET Proc
  BY <1>0, BusyHas
<1>2. /\ workers' = workers /\ proc' = Processes!Killed({p})
      /\ Processes!Goes(r, "done", NoProc)
      /\ resting' = resting /\ stray' = stray /\ ended' = ended
  BY DEF Processes!StartFails
<1> HIDE DEF p
<1>3. /\ proc' \in [Proc -> {"new", "alive", "dead", "noticed"}]
      /\ \A q \in Proc : /\ q # p => proc'[q] = proc[q]
                         /\ proc'[q] = "new" <=> proc[q] = "new"
                         /\ proc'[q] = "alive" <=> proc[q] = "alive" /\ q # p
  BY <1>1, <1>2 DEF PoolTypeOK, Processes!Killed
<1>4. PICK x \in RequestState : req' = [req EXCEPT ![r] = x] /\ x.place = "done"
  BY <1>1, <1>2, GoesFacts
<1>5. OwnAfter(r, x)
  BY <1>1, <1>2, <1>3, <1>4 DEF OwnAfter, p
<1>6. KeepsOwn(r, x)
  BY <1>4 DEF KeepsOwn
<1> QED
  BY <1>0, <1>2, <1>4, <1>5, <1>6, OwnStep

\* A call ends and lets go of its process.
LEMMA LetGoStep ==
  ASSUME PoolInv, NEW r \in BusyRequests, Processes!Goes(r, "done", NoProc),
         stray' = stray \union {req[r].proc}, UNCHANGED <<proc, workers, resting, ended>>
  PROVE  PoolInv'
<1> DEFINE p == req[r].proc
<1>1. /\ PoolTypeOK /\ p \in Proc /\ proc[p] # "new" /\ workers \in SUBSET Proc
      /\ proc \in [Proc -> {"new", "alive", "dead", "noticed"}] /\ r \in Request
  BY BusyHas
<1>2. stray' = stray \union {p}
  OBVIOUS
<1> HIDE DEF p
<1>3. PICK x \in RequestState : req' = [req EXCEPT ![r] = x] /\ x.place = "done"
  BY <1>1, GoesFacts
<1>4. OwnAfter(r, x)
  BY <1>1, <1>2, <1>3 DEF OwnAfter, p
<1>5. KeepsOwn(r, x)
  BY <1>3 DEF KeepsOwn
<1> QED
  BY <1>2, <1>3, <1>4, <1>5, OwnStep

\* The first message is not READY.
LEMMA NotReadyStep ==
  ASSUME PoolInv, NEW r \in Request, Processes!NotReady(r)
  PROVE  PoolInv'
<1>1. r \in BusyRequests
  BY DEF BusyRequests, Processes!NotReady, Processes!Proceeds
<1> QED
  BY <1>1, LetGoStep DEF Processes!NotReady

\* A killed worker has been waited for: it is not in the pool and does not rest again.
LEMMA ClosedStep ==
  ASSUME PoolInv, NEW r \in Request, Processes!Closed(r)
  PROVE  PoolInv'
<1> DEFINE p == req[r].proc
<1>0. r \in BusyRequests
  BY DEF BusyRequests, Processes!Closed
<1>1. /\ PoolTypeOK /\ p \in Proc /\ proc[p] # "new" /\ workers \in SUBSET Proc
      /\ p \notin workers /\ proc[p] # "alive"
      /\ proc \in [Proc -> {"new", "alive", "dead", "noticed"}]
  BY <1>0, BusyHas DEF Processes!Closed
<1>2. /\ workers' = workers /\ proc' = proc /\ resting' = resting
      /\ Processes!Goes(r, "done", NoProc) /\ stray' = stray /\ ended' = ended
  BY <1>1 DEF Processes!Closed
<1> HIDE DEF p
<1>4. PICK x \in RequestState : req' = [req EXCEPT ![r] = x] /\ x.place = "done"
  BY <1>1, <1>2, GoesFacts
<1>5. OwnAfter(r, x)
  BY <1>1, <1>2, <1>4 DEF OwnAfter, p
<1>6. KeepsOwn(r, x)
  BY <1>4 DEF KeepsOwn
<1> QED
  BY <1>0, <1>2, <1>4, <1>5, <1>6, OwnStep

\* A scope around the call is cancelled.
LEMMA CancelRequestStep ==
  ASSUME PoolInv, NEW r \in Request, Processes!CancelRequest(r)
  PROVE  PoolInv'
<1> DEFINE p == req[r].proc
<1>0. r \in BusyRequests /\ req[r].cancel = "no"
  BY DEF BusyRequests, Processes!CancelRequest
<1>1. /\ PoolTypeOK /\ p \in Proc /\ proc[p] # "new" /\ workers \in SUBSET Proc
      /\ req[r] \in RequestState /\ ended = "no"
      /\ proc \in [Proc -> {"new", "alive", "dead", "noticed"}]
      /\ req[r].place \in {"running", "pruning"} => p \in workers
      /\ req[r].place = "closing" => p \notin workers /\ proc[p] # "alive"
  BY <1>0, BusyHas
<1>2. /\ workers' = workers /\ proc' = proc /\ resting' = resting
      /\ req' = [req EXCEPT ![r].cancel = "scope"] /\ stray' = stray /\ ended' = ended
  BY DEF Processes!CancelRequest
<1> DEFINE x == [req[r] EXCEPT !.cancel = "scope"]
<1>3. /\ x \in RequestState /\ req' = [req EXCEPT ![r] = x]
      /\ x.place = req[r].place /\ x.proc = p
  BY <1>1, <1>2 DEF RequestState
<1>4. x.place \notin {"idle", "done"}
  BY <1>0, <1>3 DEF BusyRequests
<1> HIDE DEF p, x
<1>5. OwnAfter(r, x)
  BY <1>1, <1>2, <1>4 DEF OwnAfter, p
<1>6. KeepsOwn(r, x)
  BY <1>1, <1>2, <1>3 DEF KeepsOwn, p
<1> QED
  BY <1>0, <1>2, <1>3, <1>5, <1>6, OwnStep

\* The cancellation arrives: a worker that was being started or taken is let go of.
LEMMA CancelledStep ==
  ASSUME PoolInv, NEW r \in Request, Processes!CancellationReaches(r)
  PROVE  PoolInv'
<1>0. r \in BusyRequests
  BY DEF BusyRequests, Processes!CancellationReaches
<1>1. CASE Processes!GiveUp(r)
  BY <1>0, <1>1, GiveUpStep
<1>2. CASE ~Processes!GiveUp(r)
  BY <1>0, <1>2, LetGoStep DEF Processes!CancellationReaches
<1> QED
  BY <1>1, <1>2

\* The calls are cancelled, and the pool is shut down.
LEMMA LoopEndingStep ==
  ASSUME PoolInv, Processes!LoopEnding
  PROVE  PoolInv'
<1> USE DEF Processes!LoopEnding, Processes!Busy
<1>1. /\ ended' = "ending" /\ proc' = proc /\ workers' = workers /\ resting' = resting
      /\ stray' = stray /\ Rest' = Rest
  BY DEF Rest, Processes!Members
<1>2. req \in [Request -> RequestState]
  BY DEF PoolInv, PoolTypeOK
<1>3. \A r \in Request :
        /\ req'[r] \in RequestState
        /\ req'[r].place = req[r].place /\ req'[r].proc = req[r].proc
        /\ req[r].place \notin {"idle", "done"} => req'[r].cancel = "native"
  BY <1>2 DEF RequestState
<1>4. req' \in [Request -> RequestState]
  BY <1>2, <1>3
<1>5. BusyRequests' = BusyRequests
  BY <1>3 DEF BusyRequests
<1>6. PoolTypeOK'
  BY <1>1, <1>4 DEF PoolInv, PoolTypeOK
<1>7. \A r \in BusyRequests' : HandOK(req[r])'
  <2>1. \A r \in BusyRequests : HandOK(req[r]) /\ r \in Request
    BY DEF PoolInv, BusyRequests
  <2> QED
    BY <1>1, <1>3, <1>5, <2>1 DEF HandOK, BusyRequests
<1> QED
  BY <1>1, <1>3, <1>5, <1>6, <1>7 DEF PoolInv, BusyRequests

\* kill() and the end of a process leave the owners as they are.
LEMMA FewerAlive ==
  ASSUME PoolInv, proc' \in [Proc -> {"new", "alive", "dead", "noticed"}],
         \A p \in Proc : /\ proc'[p] = "new" <=> proc[p] = "new"
                         /\ proc'[p] = "alive" => proc[p] = "alive",
         req' = req, workers' = workers, resting' = resting, stray' = stray,
         \/ ended' = ended
         \/ /\ ended = "ending" /\ ended' = "shut"
            /\ \A p \in workers : proc'[p] # "alive"
  PROVE  PoolInv'
<1>1. Rest' = Rest /\ BusyRequests' = BusyRequests
  BY DEF Rest, Processes!Members, BusyRequests
<1>2. PoolTypeOK'
  BY DEF PoolInv, PoolTypeOK
<1>3. \A r \in BusyRequests' : HandOK(req[r])'
  BY <1>1 DEF PoolInv, HandOK
<1>4. workers \in SUBSET Proc
  BY DEF PoolInv, PoolTypeOK
<1> QED
  BY <1>1, <1>2, <1>3, <1>4 DEF PoolInv

LEMMA ShutDownStep ==
  ASSUME PoolInv, Processes!ShutDownPool
  PROVE  PoolInv'
<1>1. PoolTypeOK /\ workers \in SUBSET Proc
  BY DEF PoolInv, PoolTypeOK
<1>2. /\ proc' = Processes!Killed(workers) /\ ended = "ending" /\ ended' = "shut"
      /\ req' = req /\ workers' = workers /\ resting' = resting /\ stray' = stray
  BY DEF Processes!ShutDownPool
<1>3. /\ proc' \in [Proc -> {"new", "alive", "dead", "noticed"}]
      /\ \A p \in Proc : /\ proc'[p] = "new" <=> proc[p] = "new"
                         /\ proc'[p] = "alive" <=> proc[p] = "alive" /\ p \notin workers
  BY <1>1, <1>2 DEF PoolTypeOK, Processes!Killed
<1> QED
  BY <1>1, <1>2, <1>3, FewerAlive

LEMMA DiesStep ==
  ASSUME PoolInv, NEW p \in Proc, Processes!Dies(p)
  PROVE  PoolInv'
<1>1. proc \in [Proc -> {"new", "alive", "dead", "noticed"}]
  BY DEF PoolInv, PoolTypeOK
<1>2. /\ req' = req /\ workers' = workers /\ resting' = resting /\ stray' = stray
      /\ ended' = ended /\ proc[p] \in {"alive", "dead"}
      /\ \E y \in {"dead", "noticed"} : proc' = [proc EXCEPT ![p] = y]
  BY DEF Processes!Dies
<1>3. PICK y \in {"dead", "noticed"} : proc' = [proc EXCEPT ![p] = y]
  BY <1>2
<1>4. /\ proc' \in [Proc -> {"new", "alive", "dead", "noticed"}]
      /\ \A q \in Proc : /\ proc'[q] = "new" <=> proc[q] = "new"
                         /\ proc'[q] = "alive" => proc[q] = "alive"
  BY <1>1, <1>2, <1>3
<1> QED
  BY <1>2, <1>4, FewerAlive

\* The response: the worker rests again.
LEMMA RespondStep ==
  ASSUME PoolInv, NEW r \in Request, Processes!Respond(r)
  PROVE  PoolInv'
<1> DEFINE p == req[r].proc
<1>0. r \in BusyRequests
  BY DEF BusyRequests, Processes!Respond, Processes!Proceeds
<1>1. /\ PoolTypeOK /\ p \in Proc /\ proc[p] # "new" /\ workers \in SUBSET Proc
      /\ p \in workers /\ (ended # "no" => req[r].cancel = "native")
      /\ proc \in [Proc -> {"new", "alive", "dead", "noticed"}]
  BY <1>0, BusyHas DEF Processes!Respond, Processes!Proceeds
<1>2. /\ workers' = workers /\ proc' = proc /\ resting' = Append(resting, p)
      /\ Processes!Goes(r, "done", NoProc) /\ stray' = stray /\ ended' = ended
      /\ req[r].cancel # "native"
  BY DEF Processes!Respond, Processes!Proceeds
<1>3. /\ resting \in Seq(Proc) /\ IsInjective(resting) /\ Rest \subseteq workers
      /\ p \notin Rest /\ \A q \in workers : proc[q] # "new"
      /\ \A s \in BusyRequests :
           /\ req[s].proc \in Proc /\ req[s].proc \notin Rest /\ proc[req[s].proc] # "new"
           /\ req[s].proc = p => s = r
      /\ \A q \in Proc : proc[q] = "alive" =>
           q \in Rest \/ q \in stray \/ \E s \in BusyRequests : q = req[s].proc
  BY <1>0 DEF PoolInv, PoolTypeOK, HandOK
<1> HIDE DEF p
<1>4. PICK x \in RequestState : req' = [req EXCEPT ![r] = x] /\ x.place = "done"
  BY <1>1, <1>2, GoesFacts
<1>5. /\ resting' \in Seq(Proc) /\ IsInjective(resting')
      /\ \A q : q \in Rest' <=> q \in Rest \/ q = p
  <2> DEFINE l == Len(resting)
  <2>1. /\ l \in Nat /\ DOMAIN resting = 1..l /\ resting' \in Seq(Proc)
        /\ DOMAIN resting' = 1..(l + 1) /\ resting'[l + 1] = p
        /\ \A i \in 1..l : resting'[i] = resting[i]
    BY <1>1, <1>2, <1>3, LenProperties, AppendProperties
  <2> HIDE DEF l
  <2>2. \A i : i \in 1..(l + 1) <=> i \in 1..l \/ i = l + 1
    BY <2>1
  <2>3. \A q : q \in Rest' <=> q \in Rest \/ q = p
    BY <2>1, <2>2 DEF Rest, Processes!Members
  <2>4. IsInjective(resting')
    BY <1>3, <2>1, <2>2 DEF IsInjective, Rest, Processes!Members
  <2> QED
    BY <2>1, <2>3, <2>4
<1>6. ended = "no"
  BY <1>1, <1>2
<1>7. PoolAfter
  BY <1>1, <1>2, <1>3, <1>5, <1>6 DEF PoolAfter
<1>8. OthersKeep(r)
  BY <1>2, <1>3, <1>5 DEF OthersKeep
<1>9. AliveOwned(r, x)
  BY <1>0, <1>2, <1>3, <1>5 DEF AliveOwned, p
<1>10. HandAfter(r, x)
  BY <1>4 DEF HandAfter
<1> QED
  BY <1>2, <1>4, <1>7, <1>8, <1>9, <1>10, RequestStep

LEMMA NextPool == PoolInv /\ [Processes!PoolNext]_(Processes!poolVars) => PoolInv'
<1> SUFFICES ASSUME PoolInv, [Processes!PoolNext]_(Processes!poolVars) PROVE PoolInv'
  OBVIOUS
<1>1. CASE UNCHANGED Processes!poolVars
  <2>1. /\ proc' = proc /\ req' = req /\ workers' = workers /\ resting' = resting
        /\ stray' = stray /\ ended' = ended
    BY <1>1 DEF Processes!poolVars
  <2>2. proc \in [Proc -> {"new", "alive", "dead", "noticed"}]
    BY DEF PoolInv, PoolTypeOK
  <2> QED
    BY <2>1, <2>2, FewerAlive
<1>2. ASSUME NEW r \in Request,
             \/ Processes!TakeWorker(r) \/ Processes!TakeWorkerFails(r)
             \/ Processes!Pruned(r) \/ Processes!StartWorker(r) \/ Processes!Started(r)
             \/ Processes!Respond(r) \/ Processes!StartFails(r) \/ Processes!NotReady(r)
             \/ Processes!Broken(r) \/ Processes!Closed(r) \/ Processes!CancelRequest(r)
             \/ Processes!CancellationReaches(r)
      PROVE  PoolInv'
  BY <1>2, TakeStep, TakeFailsStep, GoOnStep, StartStep, RespondStep, StartFailsStep,
     NotReadyStep, BrokenStep, ClosedStep, CancelRequestStep, CancelledStep
<1>3. CASE (\E p \in Proc : Processes!Dies(p)) \/ Processes!LoopEnding
           \/ Processes!ShutDownPool
  BY <1>3, DiesStep, LoopEndingStep, ShutDownStep
<1> QED
  BY <1>1, <1>2, <1>3 DEF Processes!PoolNext

\* Nobody takes a process that was let go of, if a step gives the calls and the idle
\* workers only processes that one of them had, or new ones.
Hands == {req[r].proc : r \in BusyRequests}

LEMMA StraysKept ==
  ASSUME PoolInv, StraysOK,
         \A p \in Proc : proc[p] # "new" => proc'[p] # "new",
         \A p \in Rest' : p \in Rest \/ p \in Hands,
         \A p \in Hands' : p \in Rest \/ p \in Hands \/ proc[p] = "new",
         \A p \in stray' : p \in stray \/
           (p \in Proc /\ proc[p] # "new" /\ p \notin Rest' /\ p \notin Hands')
  PROVE  StraysOK'
<1>1. ASSUME NEW p \in stray' PROVE p \in Proc /\ proc'[p] # "new" /\ p \notin Rest' /\ p \notin Hands'
  BY DEF StraysOK, Hands
<1> QED
  BY <1>1 DEF StraysOK, Hands

\* What the calls have after Goes()
LEMMA HandsAfter ==
  ASSUME PoolInv, NEW r \in Request, NEW p \in Proc \union {NoProc},
         NEW place \in {"pruning", "starting", "initialising", "running", "closing", "done"},
         Processes!Goes(r, place, p)
  PROVE  /\ \A q \in Hands' : q \in Hands \/ (place # "done" /\ q = p)
         /\ place = "done" /\ r \in BusyRequests => req[r].proc \notin Hands'
<1>0. PoolTypeOK /\ req \in [Request -> RequestState]
  BY DEF PoolInv, PoolTypeOK
<1>1. PICK x \in RequestState : req' = [req EXCEPT ![r] = x] /\ x.place = place /\ x.proc = p
  BY <1>0, GoesFacts
<1>2. /\ \A s \in Request \ {r} : req'[s] = req[s] /\ (s \in BusyRequests' <=> s \in BusyRequests)
      /\ req'[r] = x /\ (r \in BusyRequests' => place # "done")
      /\ \A s \in BusyRequests' : s \in Request
  BY <1>0, <1>1 DEF BusyRequests
<1>3. \A s \in BusyRequests, t \in BusyRequests : req[s].proc = req[t].proc => s = t
  BY DEF PoolInv
<1>4. \A s \in BusyRequests' : \/ s = r /\ place # "done" /\ req'[s].proc = p
                               \/ s \in BusyRequests /\ s # r /\ req'[s].proc = req[s].proc
  BY <1>1, <1>2
<1> QED
  BY <1>3, <1>4 DEF Hands

\* Calls that take or start a process
LEMMA StraysTaken ==
  ASSUME PoolInv, StraysOK, NEW r \in Request,
         Processes!TakeWorker(r) \/ Processes!TakeWorkerFails(r) \/ Processes!StartWorker(r)
  PROVE  StraysOK'
<1>0. PoolTypeOK /\ proc \in [Proc -> {"new", "alive", "dead", "noticed"}]
  BY DEF PoolInv, PoolTypeOK
<1>1. CASE Processes!TakeWorker(r)
  <2>1. PICK k \in DOMAIN resting, n \in 0..Len(resting) :
          /\ Processes!LastUsable(k) /\ n < k
          /\ Processes!Goes(r, IF n > 0 THEN "pruning" ELSE "running", resting[k])
          /\ proc' = Processes!Killed(Oldest(n))
          /\ resting' = Left(n, k) /\ stray' = stray
    BY <1>1 DEF Processes!TakeWorker, Processes!RestingAfter, Oldest, Left
  <2> DEFINE p == resting[k]
             place == IF n > 0 THEN "pruning" ELSE "running"
  <2>2. Rest' \subseteq Rest /\ p \in Rest /\ p \in Proc
    <3>1. Rest' = Processes!Members(Left(n, k))
      BY <2>1 DEF Rest, Processes!Members
    <3> QED
      BY <2>1, <3>1, RestParts
  <2>3. \A q \in Proc : proc[q] # "new" => proc'[q] # "new"
    BY <1>0, <2>1, KilledFacts
  <2>4. Processes!Goes(r, place, p) /\ place \in {"pruning", "running"}
    BY <2>1
  <2> HIDE DEF p, place
  <2>5. \A q \in Hands' : q \in Hands \/ q = p
    BY <2>2, <2>4, HandsAfter
  <2> QED
    BY <2>1, <2>2, <2>3, <2>5, StraysKept
<1>2. CASE Processes!TakeWorkerFails(r)
  <2>1. PICK k \in DOMAIN resting, n \in 1..Len(resting) :
          /\ Processes!LastUsable(k) /\ n < k
          /\ Processes!Goes(r, "done", NoProc)
          /\ proc' = Processes!Killed(Oldest(n - 1))
          /\ resting' = Left(n, k) /\ stray' = stray \union {resting[k]}
    BY <1>2 DEF Processes!TakeWorkerFails, Oldest, Left
  <2> DEFINE p == resting[k]
  <2>2. Rest' \subseteq Rest /\ p \in Rest /\ p \in Proc /\ p \notin Rest'
    <3>0. n \in 0..Len(resting) /\ n < k /\ Processes!LastUsable(k)
      BY <2>1
    <3>1. Rest' = Processes!Members(Left(n, k))
      BY <2>1 DEF Rest, Processes!Members
    <3> QED
      BY <3>0, <3>1, RestParts
  <2>3. \A q \in Proc : proc[q] # "new" => proc'[q] # "new"
    BY <1>0, <2>1, KilledFacts
  <2>4. \A q \in Hands' : q \in Hands
    BY <2>1, HandsAfter
  <2>5. p \notin Hands /\ proc[p] # "new"
    BY <2>2 DEF PoolInv, HandOK, Hands
  <2> QED
    BY <2>1, <2>2, <2>3, <2>4, <2>5, StraysKept
<1>3. CASE Processes!StartWorker(r)
  <2>1. PICK p \in Proc : /\ proc[p] = "new" /\ proc' = [proc EXCEPT ![p] = "alive"]
                          /\ Processes!Goes(r, "starting", p)
    BY <1>3 DEF Processes!StartWorker
  <2>2. Rest' = {} /\ stray' = stray
    <3>1. resting' = <<>> /\ stray' = stray
      BY <1>3 DEF Processes!StartWorker
    <3> QED
      BY <3>1, EmptySeq DEF Rest, Processes!Members
  <2>3. \A q \in Proc : proc[q] # "new" => proc'[q] # "new"
    BY <1>0, <2>1
  <2>4. \A q \in Hands' : q \in Hands \/ q = p
    BY <2>1, HandsAfter
  <2> QED
    BY <2>1, <2>2, <2>3, <2>4, StraysKept
<1> QED
  BY <1>1, <1>2, <1>3

\* Calls that go on with their process, or are done with it
LEMMA StraysLeft ==
  ASSUME PoolInv, StraysOK, NEW r \in Request,
         \/ Processes!Pruned(r) \/ Processes!Started(r) \/ Processes!Respond(r)
         \/ Processes!StartFails(r) \/ Processes!NotReady(r) \/ Processes!Broken(r)
         \/ Processes!Closed(r) \/ Processes!CancellationReaches(r)
  PROVE  StraysOK'
<1> DEFINE p == req[r].proc
<1>0. r \in BusyRequests
  BY DEF BusyRequests, Processes!Pruned, Processes!Started, Processes!Respond,
         Processes!StartFails, Processes!NotReady, Processes!Broken, Processes!Closed,
         Processes!CancellationReaches, Processes!Proceeds
<1>1. /\ PoolTypeOK /\ p \in Proc /\ proc[p] # "new" /\ p \notin Rest /\ p \in Hands
      /\ proc \in [Proc -> {"new", "alive", "dead", "noticed"}] /\ resting \in Seq(Proc)
      /\ req[r].place = "closing" => p \notin workers
  BY <1>0 DEF PoolInv, PoolTypeOK, HandOK, Hands
<1>2. \/ proc' = proc \/ proc' = Processes!Killed({p})
  BY DEF Processes!Pruned, Processes!Started, Processes!Respond, Processes!StartFails,
         Processes!NotReady, Processes!Broken, Processes!Closed,
         Processes!CancellationReaches, Processes!GiveUp, Processes!KilledNow
<1>3. \/ /\ resting' = resting /\ stray' = stray
         /\ \E place \in {"initialising", "running", "closing"} : Processes!Goes(r, place, p)
      \/ /\ resting' = resting \/ resting' = Append(resting, p)
         /\ stray' = stray /\ Processes!Goes(r, "done", NoProc)
      \/ /\ resting' = resting /\ stray' = stray \union {p} /\ Processes!Goes(r, "done", NoProc)
  BY <1>1 DEF Processes!Pruned, Processes!Started, Processes!Respond, Processes!StartFails,
         Processes!NotReady, Processes!Broken, Processes!Closed,
         Processes!CancellationReaches, Processes!GiveUp
<1> HIDE DEF p
<1>4. \A q \in Proc : proc[q] # "new" => proc'[q] # "new"
  BY <1>1, <1>2, KilledFacts
<1>5. resting' = resting => Rest' = Rest
  BY DEF Rest, Processes!Members
<1>6. ASSUME resting' = resting, stray' = stray,
             NEW place \in {"initialising", "running", "closing"}, Processes!Goes(r, place, p)
      PROVE  StraysOK'
  <2>1. \A q \in Hands' : q \in Hands
    BY <1>1, <1>6, HandsAfter
  <2> QED
    BY <1>4, <1>5, <1>6, <2>1, StraysKept
<1>7. ASSUME resting' = resting \/ resting' = Append(resting, p), Processes!Goes(r, "done", NoProc),
             stray' = stray \/ (resting' = resting /\ stray' = stray \union {p})
      PROVE  StraysOK'
  <2>1. (\A q \in Hands' : q \in Hands) /\ p \notin Hands'
    BY <1>0, <1>7, HandsAfter DEF p
  <2>2. ASSUME NEW q \in Rest' PROVE q \in Rest \/ q = p
    <3>1. CASE resting' = resting
      BY <1>5, <2>2, <3>1
    <3>2. CASE resting' = Append(resting, p)
      <4>1. /\ DOMAIN resting = 1..Len(resting) /\ DOMAIN resting' = 1..(Len(resting) + 1)
            /\ Len(resting) \in Nat /\ resting'[Len(resting) + 1] = p
            /\ \A i \in 1..Len(resting) : resting'[i] = resting[i]
        BY <1>1, <3>2, AppendProperties, LenProperties
      <4>2. \A i \in DOMAIN resting' : i \in DOMAIN resting \/ i = Len(resting) + 1
        BY <4>1
      <4> QED
        BY <2>2, <4>1, <4>2 DEF Rest, Processes!Members
    <3> QED
      BY <1>7, <3>1, <3>2
  <2> QED
    BY <1>1, <1>4, <1>5, <1>7, <2>1, <2>2, StraysKept
<1> QED
  BY <1>3, <1>6, <1>7

LEMMA NextProcesses ==
  ProcessesInv /\ [Processes!PoolNext]_(Processes!poolVars) => ProcessesInv'
<1> SUFFICES ASSUME PoolInv, StraysOK, [Processes!PoolNext]_(Processes!poolVars)
             PROVE  StraysOK'
  BY NextPool DEF ProcessesInv
<1>0. /\ PoolTypeOK /\ proc \in [Proc -> {"new", "alive", "dead", "noticed"}]
      /\ req \in [Request -> RequestState]
  BY DEF PoolInv, PoolTypeOK
<1>1. ASSUME resting' = resting, stray' = stray, Hands' = Hands,
             \A p \in Proc : proc[p] # "new" => proc'[p] # "new"
      PROVE  StraysOK'
  <2>1. Rest' = Rest
    BY <1>1 DEF Rest, Processes!Members
  <2> QED
    BY <1>1, <2>1, StraysKept
<1>2. CASE UNCHANGED Processes!poolVars
  BY <1>1, <1>2 DEF Processes!poolVars, Hands, BusyRequests
<1>3. ASSUME NEW p \in Proc, Processes!Dies(p) PROVE StraysOK'
  BY <1>0, <1>1, <1>3 DEF Processes!Dies, Hands, BusyRequests
<1>4. CASE Processes!ShutDownPool
  BY <1>0, <1>1, <1>4, KilledFacts DEF Processes!ShutDownPool, Hands, BusyRequests
<1>5. CASE Processes!LoopEnding \/ \E r \in Request : Processes!CancelRequest(r)
  <2>1. \A r \in Request : req'[r].place = req[r].place /\ req'[r].proc = req[r].proc
    BY <1>0, <1>5 DEF Processes!LoopEnding, Processes!CancelRequest, RequestState
  <2>2. Hands' = Hands
    BY <2>1 DEF Hands, BusyRequests
  <2> QED
    BY <1>1, <1>5, <2>2 DEF Processes!LoopEnding, Processes!CancelRequest
<1> QED
  BY <1>2, <1>3, <1>4, <1>5, StraysTaken, StraysLeft DEF Processes!PoolNext

LEMMA PoolHolds == ProcessesInv => Processes!ProcessesInOnePlace
<1> SUFFICES ASSUME ProcessesInv PROVE Processes!ProcessesInOnePlace
  OBVIOUS
<1> USE DEF ProcessesInv
<1>1. Processes!IsInjective(resting)
  BY DEF PoolInv, IsInjective, Processes!IsInjective
<1>2. Processes!Members(resting) = Rest /\ Processes!Busy = BusyRequests
  BY DEF Rest, Processes!Busy, BusyRequests
<1>3. \A r \in BusyRequests :
        /\ req[r].proc \notin Rest
        /\ req[r].place = "closing" => /\ req[r].proc \notin workers
                                       /\ proc[req[r].proc] # "alive"
        /\ \A s \in BusyRequests : req[s].proc = req[r].proc => s = r
  BY DEF PoolInv, HandOK
<1>4. Rest \subseteq workers
  BY DEF PoolInv
<1>5. \A p \in Proc : proc[p] = "alive" =>
        p \in Rest \union {req[r].proc : r \in BusyRequests} \union stray
  BY DEF PoolInv
<1>6. ended = "shut" => \A p \in workers : proc[p] # "alive"
  BY DEF PoolInv
<1>7. Rest \intersect {req[r].proc : r \in BusyRequests} = {}
  BY <1>3
<1>8. stray \intersect (Rest \union {req[r].proc : r \in BusyRequests}) = {}
  BY DEF StraysOK
<1> QED
  BY <1>1, <1>2, <1>3, <1>4, <1>5, <1>6, <1>7, <1>8 DEF Processes!ProcessesInOnePlace
-----------------------------------------------------------------------------
(* Subprocesses: while nothing has failed, a drain that has ended has read   *)
(* all that the process wrote, and the process does not run any more.        *)

running == a
child == b
drains == d

USE DEF running, child, drains

DrainState == [state : {"running", "ended"}, got : Nat]
ChildState == [runs : BOOLEAN, reads : BOOLEAN, killed : BOOLEAN, wrote : [Outputs -> Nat]]
CallState ==
  [place : {"sending", "closing input", "waiting", "joining", "closing", "last wait",
            "killed", "done"},
   raises : {"nothing", "error", "cancelled"}, off : BOOLEAN]

DrainDone(o) ==
  drains[o].state = "ended" /\ running.raises = "nothing" =>
    ~child.runs /\ drains[o].got = child.wrote[o]

ChildInv ==
  /\ running \in CallState /\ child \in ChildState /\ drains \in [Outputs -> DrainState]
  /\ \A o \in Outputs : DrainDone(o)
  /\ running.place \in {"sending", "closing input", "waiting"} => running.raises = "nothing"
  /\ running.place \in {"closing", "last wait", "killed", "done"} =>
       \A o \in Outputs : drains[o].state = "ended"
  /\ running.place = "done" => ~child.runs

\* The process runs and both outputs are drained.
LEMMA InitChild == Child!ProcessInit => ChildInv
BY DEF Child!ProcessInit, Child!DrainsStarted, ChildInv, CallState, ChildState, DrainState,
       DrainDone

\* A step of the call: its new place and what it raises
LEMMA RunningStep ==
  ASSUME ChildInv, running' \in CallState, drains' = drains,
         child' \in ChildState, child'.wrote = child.wrote, child.runs = child'.runs,
         running'.raises = running.raises \/ running'.raises # "nothing",
         running'.place \in {"sending", "closing input", "waiting"} =>
           running'.raises = "nothing",
         running'.place \in {"closing", "last wait", "killed", "done"} =>
           \A o \in Outputs : drains[o].state = "ended",
         running'.place = "done" => ~child.runs
  PROVE  ChildInv'
<1>1. \A o \in Outputs : DrainDone(o)'
  BY DEF ChildInv, DrainDone
<1> QED
  BY <1>1 DEF ChildInv

\* A step of the process: it writes only while it runs, and ends once.
LEMMA ChildStep ==
  ASSUME ChildInv, running' = running, drains' = drains, child' \in ChildState, child.runs,
         child'.wrote = child.wrote \/ child'.runs
  PROVE  ChildInv'
<1>1. \A o \in Outputs : DrainDone(o)'
  BY DEF ChildInv, DrainDone
<1> QED
  BY <1>1 DEF ChildInv, CallState

LEMMA NextChild == ChildInv /\ [Child!ProcessNext]_(Child!processVars) => ChildInv'
<1> SUFFICES ASSUME ChildInv, [Child!ProcessNext]_(Child!processVars) PROVE ChildInv'
  OBVIOUS
<1> USE DEF Child!GoTo, Child!Fail
<1>0. /\ running \in CallState /\ child \in ChildState
      /\ drains \in [Outputs -> DrainState]
      /\ running.place \in {"sending", "closing input", "waiting"} => running.raises = "nothing"
      /\ running.place \in {"closing", "last wait", "killed", "done"} =>
           \A o \in Outputs : drains[o].state = "ended"
      /\ running.place = "done" => ~child.runs
  BY DEF ChildInv
<1>1. CASE UNCHANGED Child!processVars
  BY <1>0, <1>1, RunningStep DEF Child!processVars, CallState
<1>2. CASE Child!ChildReads
  <2>1. running' = running /\ drains' = drains /\ child.runs
    BY <1>2 DEF Child!ChildReads
  <2>2. child' \in ChildState /\ child'.wrote = child.wrote
    BY <1>0, <1>2 DEF Child!ChildReads, ChildState
  <2> QED
    BY <2>1, <2>2, ChildStep
<1>3. CASE Child!ChildEnds
  <2>1. running' = running /\ drains' = drains /\ child.runs
    BY <1>3 DEF Child!ChildEnds
  <2>2. child' \in ChildState /\ child'.wrote = child.wrote
    BY <1>0, <1>3 DEF Child!ChildEnds, ChildState
  <2> QED
    BY <2>1, <2>2, ChildStep
<1>4. ASSUME NEW o \in Outputs, Child!ChildWrites(o) PROVE ChildInv'
  <2>1. running' = running /\ drains' = drains /\ child.runs
    BY <1>4 DEF Child!ChildWrites
  <2> DEFINE new == [child.wrote EXCEPT ![o] = child.wrote[o] + 1]
  <2>2. child.wrote \in [Outputs -> Nat]
    BY <1>0 DEF ChildState
  <2>3. new \in [Outputs -> Nat]
    BY <2>2
  <2>4. child' = [child EXCEPT !.wrote = new]
    BY <1>4 DEF Child!ChildWrites
  <2> HIDE DEF new
  <2>5. child' \in ChildState /\ child'.runs
    BY <1>0, <2>1, <2>3, <2>4 DEF ChildState
  <2> QED
    BY <2>1, <2>5, ChildStep
<1>5. ASSUME NEW o \in Outputs, Child!Drain(o) \/ Child!DrainEnds(o) PROVE ChildInv'
  <2>1. running' = running /\ child' = child /\ drains[o].state = "running"
    BY <1>5 DEF Child!Drain, Child!DrainEnds
  <2>2. running.place \notin {"closing", "last wait", "killed", "done"}
    BY <1>0, <2>1
  <2>3. /\ drains' \in [Outputs -> DrainState]
        /\ \A r \in Outputs \ {o} : drains'[r] = drains[r]
        /\ \/ drains'[o].state = "running"
           \/ /\ drains'[o].state = "ended" /\ drains'[o].got = drains[o].got
              /\ \/ ~child.runs /\ Child!Unread(o) = 0
                 \/ running.raises # "nothing"
    <3>1. drains[o] \in DrainState
      BY <1>0
    <3>2. CASE Child!Drain(o)
      <4> DEFINE x == [drains[o] EXCEPT !.got = drains[o].got + 1]
      <4>1. drains' = [drains EXCEPT ![o] = x]
        BY <3>2 DEF Child!Drain
      <4>2. x \in DrainState /\ x.state = "running"
        BY <3>1, <2>1 DEF DrainState
      <4> HIDE DEF x
      <4> QED
        BY <1>0, <4>1, <4>2
    <3>3. CASE Child!DrainEnds(o)
      <4> DEFINE x == [drains[o] EXCEPT !.state = "ended"]
      <4>1. drains' = [drains EXCEPT ![o] = x]
        BY <3>3 DEF Child!DrainEnds
      <4>2. x \in DrainState /\ x.state = "ended" /\ x.got = drains[o].got
        BY <3>1 DEF DrainState
      <4>3. \/ ~child.runs /\ Child!Unread(o) = 0
            \/ running.raises # "nothing"
        BY <3>3 DEF Child!DrainEnds
      <4> HIDE DEF x
      <4> QED
        BY <1>0, <4>1, <4>2, <4>3
    <3> QED
      BY <1>5, <3>2, <3>3
  <2>4. ASSUME Child!Unread(o) = 0 PROVE drains[o].got = child.wrote[o]
    <3>1. drains[o].got \in Nat /\ child.wrote[o] \in Nat
      BY <1>0 DEF DrainState, ChildState
    <3> QED
      BY <2>4, <3>1 DEF Child!Unread
  <2>5. \A r \in Outputs : DrainDone(r)'
    BY <2>1, <2>3, <2>4 DEF DrainDone, ChildInv
  <2> QED
    BY <1>0, <2>1, <2>2, <2>3, <2>5 DEF ChildInv
<1>6. CASE Child!SendsInput
  <2>1. child' = child
    BY <1>6 DEF Child!SendsInput
  <2>2. drains' = drains
    BY <1>0, <1>6 DEF Child!SendsInput, DrainState
  <2> QED
    BY <1>0, <1>6, <2>1, <2>2, RunningStep DEF Child!SendsInput, CallState
<1>7. CASE \/ Child!InputClosed \/ Child!ChildAwaited \/ Child!BodyCancelled
           \/ Child!JoinCancelled \/ Child!StreamsClosed \/ Child!CallOver \/ Child!ScopeOff
  <2>1. child' = child /\ drains' = drains
    BY <1>7 DEF Child!InputClosed, Child!ChildAwaited, Child!BodyCancelled,
       Child!JoinCancelled, Child!StreamsClosed, Child!CallOver, Child!ScopeOff
  <2> QED
    BY <1>0, <1>7, <2>1, RunningStep DEF CallState, Child!InputClosed, Child!ChildAwaited,
       Child!BodyCancelled, Child!JoinCancelled, Child!StreamsClosed, Child!CallOver,
       Child!ScopeOff
<1>8. CASE Child!GroupJoined
  <2>1. \A o \in Outputs : drains[o].state = "ended"
    BY <1>0, <1>8 DEF Child!GroupJoined, Child!Joined, DrainState
  <2> QED
    BY <1>0, <1>8, <2>1, RunningStep DEF Child!GroupJoined, CallState
<1>9. CASE Child!LastWaitCancelled
  <2>1. child' \in ChildState /\ child'.wrote = child.wrote /\ child'.runs = child.runs
    BY <1>0, <1>9 DEF Child!LastWaitCancelled, ChildState
  <2> QED
    BY <1>0, <1>9, <2>1, RunningStep DEF Child!LastWaitCancelled, Child!KilledAndAwaited, CallState
<1> QED
  BY <1>1, <1>2, <1>3, <1>4, <1>5, <1>6, <1>7, <1>8, <1>9 DEF Child!ProcessNext

LEMMA ChildHolds == ChildInv => Child!ProcessReaped
<1> SUFFICES ASSUME ChildInv PROVE Child!ProcessReaped
  OBVIOUS
<1>1. /\ \A o \in Outputs : DrainDone(o) /\ drains[o].state \in {"running", "ended"}
      /\ running.place \in {"sending", "closing input", "waiting"} => running.raises = "nothing"
      /\ running.place = "done" =>
           ~child.runs /\ \A o \in Outputs : drains[o].state = "ended"
  BY DEF ChildInv, DrainState
<1> QED
  BY <1>1 DEF Child!ProcessReaped, DrainDone
-----------------------------------------------------------------------------
(* TaskGroup.start(): what the future of a call says fits what has become of *)
(* the child, and what start() returned or raised fits the future.           *)

\* call has its name already.
recorded == c

USE DEF recorded

StartState ==
  [place : {"idle", "awaiting", "joining", "done"},
   future : {"pending", "result", "error", "cancelError", "cancelled"},
   must : BOOLEAN, child : {"none", "new", "suspended", "ended", "gone"},
   childMust : BOOLEAN, exc : {"none", "ok", "error", "cancelled"},
   outcome : {"none", "value", "error", "cancelled"}]

\* The future of x and its child; isRecorded: whether the group has its error
ChildAndFuture(y, isRecorded) ==
  /\ y.place = "idle" => y.child = "none"
  /\ y.child = "none" => y.place = "idle"
  /\ y.child \in {"none", "new", "suspended"} => y.exc = "none"
  /\ y.child # "gone" => y.future \in {"pending", "result", "cancelled"} /\ ~isRecorded
  /\ y.child = "gone" => y.future # "pending"
  /\ y.future = "cancelError" => y.exc # "error"
  /\ isRecorded => y.future = "result"
  /\ y.child = "gone" /\ y.future = "result" /\ y.exc = "error" => isRecorded

\* What start() has come to, without asyncio's own cancel() and with it
OutcomeFits(y) ==
  /\ ~y.must
  /\ y.place = "joining" => y.future = "cancelled"
  /\ y.place = "done" =>
       \/ y.future = "result" /\ y.outcome = "value"
       \/ y.future = "error" /\ y.outcome = "error"
       \/ /\ y.future \in {"cancelled", "cancelError"} /\ y.child \in {"ended", "gone"}
          /\ y.outcome = (IF y.exc = "error" THEN "error" ELSE "cancelled")
NoneLeft(y) == y.place = "done" /\ y.outcome # "value" => y.child \in {"ended", "gone"}
Settled(y) == y.place = "done" => y.future # "pending"

CallFits(x, y, isRecorded) ==
  /\ ChildAndFuture(y, isRecorded) /\ NoneLeft(y) /\ Settled(y)
  /\ x \notin NativeCaller => OutcomeFits(y)

StartInv ==
  /\ call \in [Caller -> StartState]
  /\ \A x \in Caller : CallFits(x, call[x], x \in recorded)

\* No call has begun.
LEMMA InitStart == Start!StartInit => StartInv
<1> SUFFICES ASSUME Start!StartInit PROVE StartInv
  OBVIOUS
<1>1. call \in [Caller -> StartState] /\ recorded = {}
  BY DEF Start!StartInit, StartState
<1>2. \A x \in Caller : /\ call[x].place = "idle" /\ call[x].future = "pending"
                        /\ call[x].must = FALSE /\ call[x].child = "none"
                        /\ call[x].exc = "none"
  BY DEF Start!StartInit
<1> QED
  BY <1>1, <1>2 DEF StartInv, CallFits, ChildAndFuture, NoneLeft, Settled, OutcomeFits

\* A step of one call, whose state is then y
LEMMA StartCallStep ==
  ASSUME StartInv, NEW x \in Caller, NEW y \in StartState, call' = [call EXCEPT ![x] = y],
         recorded' \ {x} = recorded \ {x}, CallFits(x, y, x \in recorded')
  PROVE  StartInv'
<1>1. call \in [Caller -> StartState] /\ \A z \in Caller : CallFits(z, call[z], z \in recorded)
  BY DEF StartInv
<1>2. /\ call' \in [Caller -> StartState] /\ call'[x] = y
      /\ \A z \in Caller \ {x} : call'[z] = call[z] /\ (z \in recorded' <=> z \in recorded)
  BY <1>1
<1>3. \A z \in Caller : CallFits(z, call[z], z \in recorded)'
  BY <1>1, <1>2 DEF CallFits, ChildAndFuture, NoneLeft, Settled, OutcomeFits
<1> QED
  BY <1>2, <1>3 DEF StartInv

\* The child takes a step: its first started() is the answer, if the caller is there.
LEMMA ChildSteps ==
  ASSUME StartInv, NEW x \in Caller, NEW says \in BOOLEAN,
         NEW end \in {"suspend", "ok", "error", "cancelled"}, Start!ChildStep(x, says, end)
  PROVE  StartInv'
<1>1. /\ call[x] \in StartState /\ CallFits(x, call[x], x \in recorded)
      /\ call[x].child \in {"new", "suspended"} /\ recorded' = recorded
  BY DEF StartInv, Start!ChildStep
<1> DEFINE future == IF says THEN Start!Started(call[x].future) ELSE call[x].future
           goesTo == IF end = "suspend" THEN "suspended" ELSE "ended"
           exc == IF end = "suspend" THEN "none" ELSE end
           y == [call[x] EXCEPT !.child = goesTo, !.childMust = FALSE, !.exc = exc,
                                !.future = future]
<1>2. call' = [call EXCEPT ![x] = y]
  BY DEF Start!ChildStep
<1>3. /\ future \in {"pending", "result", "cancelled"}
      /\ call[x].future # "pending" => future = call[x].future
      /\ goesTo \in {"suspended", "ended"} /\ exc \in {"none", "ok", "error", "cancelled"}
      /\ goesTo = "suspended" => exc = "none"
  BY <1>1 DEF Start!Started, CallFits, ChildAndFuture, StartState
<1> HIDE DEF future, goesTo, exc
<1>4. /\ y \in StartState /\ y.future = future /\ y.child = goesTo /\ y.exc = exc
      /\ y.place = call[x].place /\ y.must = call[x].must /\ y.outcome = call[x].outcome
  BY <1>1, <1>3, ZenonT(40) DEF StartState
<1> HIDE DEF y
<1>5. CallFits(x, y, x \in recorded')
  <2>1. ChildAndFuture(y, x \in recorded')
    BY <1>1, <1>3, <1>4 DEF CallFits, ChildAndFuture
  <2>2. NoneLeft(y) /\ Settled(y)
    BY <1>1, <1>3, <1>4 DEF CallFits, NoneLeft, Settled
  <2>3. x \notin NativeCaller => OutcomeFits(y)
    BY <1>1, <1>3, <1>4 DEF CallFits, OutcomeFits, Settled
  <2> QED
    BY <2>1, <2>2, <2>3 DEF CallFits
<1> QED
  BY <1>1, <1>2, <1>4, <1>5, StartCallStep

\* task_done: the error goes to the caller that waits, or to the group.
LEMMA DoneStep ==
  ASSUME StartInv, NEW x \in Caller, Start!StartTaskDone(x)
  PROVE  StartInv'
<1>1. /\ call[x] \in StartState /\ CallFits(x, call[x], x \in recorded)
      /\ call[x].child = "ended"
  BY DEF StartInv, Start!StartTaskDone
<1> DEFINE future == IF call[x].future # "pending" THEN call[x].future
                     ELSE IF call[x].exc = "cancelled" THEN "cancelError" ELSE "error"
           y == [call[x] EXCEPT !.child = "gone", !.future = future]
<1>2. call' = [call EXCEPT ![x] = y]
  BY DEF Start!StartTaskDone
<1>3. /\ future \in {"result", "cancelled", "cancelError", "error"}
      /\ call[x].future # "pending" => future = call[x].future
      /\ future = "cancelError" => call[x].exc = "cancelled"
  BY <1>1 DEF CallFits, ChildAndFuture, StartState
<1>4. /\ recorded' = recorded \/ recorded' = recorded \union {x}
      /\ x \in recorded' <=> call[x].exc = "error" /\ call[x].future = "result"
  BY <1>1 DEF Start!StartTaskDone, Start!CallerGone, CallFits, ChildAndFuture, StartState
<1>5. future = "result" <=> call[x].future = "result"
  BY <1>1 DEF CallFits, ChildAndFuture, StartState
<1> HIDE DEF future
<1>6. /\ y \in StartState /\ y.future = future /\ y.child = "gone" /\ y.exc = call[x].exc
      /\ y.place = call[x].place /\ y.must = call[x].must /\ y.outcome = call[x].outcome
  BY <1>1, <1>3 DEF StartState
<1> HIDE DEF y
<1>7. CallFits(x, y, x \in recorded')
  <2>1. ChildAndFuture(y, x \in recorded')
    BY <1>1, <1>3, <1>4, <1>5, <1>6 DEF CallFits, ChildAndFuture
  <2>2. NoneLeft(y) /\ Settled(y)
    BY <1>1, <1>3, <1>6 DEF CallFits, NoneLeft, Settled
  <2>3. x \notin NativeCaller => OutcomeFits(y)
    BY <1>1, <1>3, <1>6 DEF CallFits, OutcomeFits, Settled
  <2> QED
    BY <2>1, <2>2, <2>3 DEF CallFits
<1>8. recorded' \ {x} = recorded \ {x}
  BY <1>4
<1> QED
  BY <1>2, <1>6, <1>7, <1>8, StartCallStep

\* The caller is stepped, and joins the child, returns or raises.
LEMMA CallerStep ==
  ASSUME StartInv, NEW x \in Caller, Start!AwaitStepped(x) \/ Start!JoinStepped(x)
  PROVE  StartInv'
<1>1. /\ call[x] \in StartState /\ CallFits(x, call[x], x \in recorded)
      /\ recorded' = recorded /\ call[x].place \in {"awaiting", "joining"}
  BY DEF StartInv, Start!AwaitStepped, Start!JoinStepped
<1>2. ASSUME NEW y \in StartState, call' = [call EXCEPT ![x] = y],
             y.future = call[x].future, y.child = call[x].child, y.exc = call[x].exc,
             y.place \in {"joining", "done"}, NoneLeft(y), Settled(y),
             x \notin NativeCaller => OutcomeFits(y)
      PROVE  StartInv'
  <2>1. ChildAndFuture(y, x \in recorded')
    BY <1>1, <1>2 DEF CallFits, ChildAndFuture
  <2>2. CallFits(x, y, x \in recorded')
    BY <1>2, <2>1 DEF CallFits
  <2> QED
    BY <1>1, <1>2, <2>2, StartCallStep
<1>3. CASE Start!AwaitStepped(x) /\ (call[x].must \/ call[x].future \in {"cancelled", "cancelError"})
  <2> DEFINE y == Start!CancelAndJoin(call[x])
  <2>1. call' = [call EXCEPT ![x] = y] /\ call[x].future # "pending"
    BY <1>3 DEF Start!AwaitStepped
  <2>2. /\ y \in StartState /\ y.future = call[x].future /\ y.child = call[x].child
        /\ y.exc = call[x].exc /\ y.must = FALSE
        /\ \/ y.place = "joining"
           \/ /\ y.place = "done" /\ y.child \in {"ended", "gone"}
              /\ y.outcome = (IF y.exc = "error" THEN "error" ELSE "cancelled")
    BY <1>1 DEF Start!CancelAndJoin, Start!Ended, StartState
  <2>3. y.place = "joining" => call[x].child # "gone"
    BY <1>1 DEF Start!CancelAndJoin, Start!Ended, StartState
  <2> HIDE DEF y
  <2>4. NoneLeft(y) /\ Settled(y)
    BY <2>1, <2>2 DEF NoneLeft, Settled
  <2>5. x \notin NativeCaller => OutcomeFits(y)
    BY <1>1, <1>3, <2>2, <2>3 DEF CallFits, OutcomeFits, ChildAndFuture
  <2> QED
    BY <1>2, <2>1, <2>2, <2>4, <2>5
<1>4. CASE Start!AwaitStepped(x) /\ ~(call[x].must \/ call[x].future \in {"cancelled", "cancelError"})
  <2> DEFINE y == [call[x] EXCEPT !.place = "done",
                     !.outcome = IF call[x].future = "result" THEN "value" ELSE "error"]
  <2>1. call' = [call EXCEPT ![x] = y] /\ call[x].future # "pending"
    BY <1>4 DEF Start!AwaitStepped
  <2>2. /\ y \in StartState /\ y.future = call[x].future /\ y.child = call[x].child
        /\ y.exc = call[x].exc /\ y.must = call[x].must /\ y.place = "done"
        /\ y.outcome = (IF call[x].future = "result" THEN "value" ELSE "error")
    BY <1>1 DEF StartState
  <2>3. call[x].future \in {"result", "error"}
    BY <1>1, <1>4, <2>1 DEF StartState
  <2> HIDE DEF y
  <2>4. NoneLeft(y) /\ Settled(y)
    BY <1>1, <2>1, <2>2, <2>3 DEF NoneLeft, Settled, CallFits, ChildAndFuture
  <2>5. x \notin NativeCaller => OutcomeFits(y)
    BY <1>1, <2>2, <2>3 DEF CallFits, OutcomeFits
  <2> QED
    BY <1>2, <2>1, <2>2, <2>4, <2>5
<1>5. CASE Start!JoinStepped(x)
  <2> DEFINE y == [call[x] EXCEPT !.place = "done", !.must = FALSE,
                     !.outcome = IF call[x].exc = "error" /\ ~call[x].must THEN "error"
                                 ELSE "cancelled"]
  <2>1. call' = [call EXCEPT ![x] = y] /\ call[x].child = "gone" /\ call[x].place = "joining"
    BY <1>5 DEF Start!JoinStepped
  <2>2. /\ y \in StartState /\ y.future = call[x].future /\ y.child = call[x].child
        /\ y.exc = call[x].exc /\ y.must = FALSE /\ y.place = "done"
        /\ y.outcome = (IF call[x].exc = "error" /\ ~call[x].must THEN "error" ELSE "cancelled")
    BY <1>1 DEF StartState
  <2> HIDE DEF y
  <2>4. NoneLeft(y) /\ Settled(y)
    BY <1>1, <2>1, <2>2 DEF NoneLeft, Settled, CallFits, ChildAndFuture
  <2>5. x \notin NativeCaller => OutcomeFits(y)
    BY <1>1, <2>1, <2>2 DEF CallFits, OutcomeFits
  <2> QED
    BY <1>2, <2>1, <2>2, <2>4, <2>5
<1> QED
  BY <1>3, <1>4, <1>5

\* A call begins; caller or child is cancelled.
LEMMA CancelsStep ==
  ASSUME StartInv, NEW x \in Caller,
         \/ Start!Begin(x) \/ Start!CancelCaller(x) \/ Start!DeliverToChild(x)
         \/ Start!NativeCancelCaller(x)
  PROVE  StartInv'
<1>1. /\ call[x] \in StartState /\ CallFits(x, call[x], x \in recorded)
      /\ recorded' = recorded
  BY DEF StartInv, Start!Begin, Start!CancelCaller, Start!DeliverToChild,
     Start!NativeCancelCaller
<1>2. ASSUME NEW y \in StartState, call' = [call EXCEPT ![x] = y],
             CallFits(x, y, x \in recorded)
      PROVE  StartInv'
  <2>1. CallFits(x, y, x \in recorded')
    BY <1>1, <1>2
  <2> QED
    BY <1>1, <1>2, <2>1, StartCallStep
<1> USE DEF CallFits, ChildAndFuture, NoneLeft, Settled, OutcomeFits
<1>3. CASE Start!Begin(x)
  <2> DEFINE y == [call[x] EXCEPT !.place = "awaiting", !.child = "new"]
  <2>1. call' = [call EXCEPT ![x] = y]
    BY <1>3 DEF Start!Begin
  <2>2. y \in StartState /\ CallFits(x, y, x \in recorded)
    BY <1>1, <1>3 DEF Start!Begin, StartState
  <2> HIDE DEF y
  <2> QED
    BY <1>2, <2>1, <2>2
<1>4. ASSUME call[x].place = "awaiting", call[x].future = "pending",
             call' = [call EXCEPT ![x] = [call[x] EXCEPT !.future = "cancelled"]]
      PROVE  StartInv'
  <2> DEFINE y == [call[x] EXCEPT !.future = "cancelled"]
  <2>1. y \in StartState /\ CallFits(x, y, x \in recorded)
    BY <1>1, <1>4 DEF StartState
  <2> HIDE DEF y
  <2> QED
    BY <1>2, <1>4, <2>1 DEF y
<1>5. ASSUME call' = [call EXCEPT ![x] = [call[x] EXCEPT !.childMust = TRUE]]
      PROVE  StartInv'
  <2> DEFINE y == [call[x] EXCEPT !.childMust = TRUE]
  <2>1. /\ y \in StartState
        /\ y.place = call[x].place /\ y.future = call[x].future
        /\ y.must = call[x].must /\ y.child = call[x].child
        /\ y.exc = call[x].exc /\ y.outcome = call[x].outcome
    BY <1>1 DEF StartState
  <2>2. call' = [call EXCEPT ![x] = y]
    BY <1>5
  <2> HIDE DEF y
  <2>3. CallFits(x, y, x \in recorded)
    BY <1>1, <2>1
  <2> QED
    BY <1>2, <2>1, <2>2, <2>3
<1>6. ASSUME x \in NativeCaller, call' = [call EXCEPT ![x] = [call[x] EXCEPT !.must = TRUE]]
      PROVE  StartInv'
  <2> DEFINE y == [call[x] EXCEPT !.must = TRUE]
  <2>1. y \in StartState /\ CallFits(x, y, x \in recorded)
    BY <1>1, <1>6, ZenonT(40) DEF StartState
  <2> HIDE DEF y
  <2> QED
    BY <1>2, <1>6, <2>1 DEF y
<1>7. CASE Start!CancelCaller(x)
  BY <1>4, <1>7 DEF Start!CancelCaller
<1>8. CASE Start!DeliverToChild(x)
  BY <1>5, <1>8 DEF Start!DeliverToChild
<1>9. CASE Start!NativeCancelCaller(x)
  BY <1>4, <1>5, <1>6, <1>9 DEF Start!NativeCancelCaller
<1> QED
  BY <1>3, <1>7, <1>8, <1>9

LEMMA NextStart == StartInv /\ [Start!StartNext]_(Start!startVars) => StartInv'
<1> SUFFICES ASSUME StartInv, [Start!StartNext]_(Start!startVars) PROVE StartInv'
  OBVIOUS
<1>1. CASE Start!CancelGroup \/ UNCHANGED Start!startVars
  <2>1. call' = call /\ recorded' = recorded
    BY <1>1 DEF Start!CancelGroup, Start!startVars
  <2> QED
    BY <2>1 DEF StartInv
<1> QED
  BY <1>1, ChildSteps, DoneStep, CallerStep, CancelsStep DEF Start!StartNext

LEMMA StartHolds == StartInv => Start!ChildErrorOnce /\ Start!NoChildLeft
<1> SUFFICES ASSUME StartInv PROVE Start!ChildErrorOnce /\ Start!NoChildLeft
  OBVIOUS
<1>1. \A x \in Caller : call[x] \in StartState /\ CallFits(x, call[x], x \in recorded)
  BY DEF StartInv
<1>2. Start!NoChildLeft
  BY <1>1 DEF Start!NoChildLeft, Start!Ended, CallFits, NoneLeft
<1>3. Start!ChildErrorOnce
  BY <1>1 DEF Start!ChildErrorOnce, CallFits, ChildAndFuture, OutcomeFits, StartState
<1> QED
  BY <1>2, <1>3
-----------------------------------------------------------------------------
(* TestRunner: a call that pytest does not wait for any more and that has no *)
(* answer was interrupted, what the loop's handler caught is exactly what    *)
(* has not come out of a call yet, and no call since then could let it out.  *)

calls == a
awaited == b
runner == c
queued == d
caught == e
errors == f

USE DEF calls, awaited, runner, queued, caught, errors

TestCall ==
  [kind : {"fixture", "test", "teardown"},
   answer : {"pending", "refused", "value", "stop", "error", "outcome", "cancelled", "exit"},
   seen : {"awaits", "passed", "failed", "interrupted"}]
CallbackError == [during : Nat, outOf : Nat]

CallsFit ==
  /\ calls \in Seq(TestCall) /\ awaited \in {0, Len(calls)}
  /\ \A x \in DOMAIN calls : calls[x].seen = "awaits" <=> x = awaited
  /\ \A x \in DOMAIN calls :
       calls[x].answer = "pending" => calls[x].seen \in {"awaits", "interrupted"}
  /\ \A x \in DOMAIN calls : calls[x].kind # "teardown" => calls[x].answer # "stop"
  /\ awaited # 0 => calls[awaited].answer # "exit"

\* The runner has to answer x.
Unanswered(x) == x \in DOMAIN calls /\ calls[x].answer = "pending"

Mishap == \E x \in DOMAIN calls : calls[x].seen = "interrupted" \/ calls[x].answer = "cancelled"
SomeRefused == \E x \in DOMAIN calls : calls[x].answer = "refused"

RunnerFits ==
  /\ runner \in [state : {"none", "new", "waiting", "busy", "dead"}, call : Nat]
  /\ queued \in Seq(Nat) /\ IsInjective(queued)
  /\ \A i \in DOMAIN queued : Unanswered(queued[i])
  /\ runner.state = "busy" => Unanswered(runner.call)
  /\ runner.state = "busy" => \A i \in DOMAIN queued : queued[i] # runner.call
  /\ runner.state = "dead" \/ SomeRefused => Mishap

\* Call x lets no error out that comes up during it or before it.
Withholds(x) ==
  /\ calls[x].seen # "passed"
  /\ calls[x].seen = "failed" => calls[x].answer \in Tests!Withheld(calls[x].kind)

ErrorFits(x) ==
  /\ x.during \in DOMAIN calls /\ x.outOf \in DOMAIN calls \union {0}
  /\ x.outOf # 0 => calls[x.outOf].seen = "failed" /\ x.during <= x.outOf
  /\ \A id \in DOMAIN calls :
       x.during <= id /\ (id < x.outOf \/ x.outOf = 0) => Withholds(id)

ErrorsFit ==
  /\ errors \in Seq(CallbackError)
  /\ caught \in Seq(Nat) /\ Tests!Range(caught) \subseteq DOMAIN errors
  /\ \A n \in DOMAIN errors : ErrorFits(errors[n])
  /\ \A n \in DOMAIN errors : errors[n].outOf = 0 <=> n \in Tests!Range(caught)

TestInv == CallsFit /\ RunnerFits /\ ErrorsFit

\* No call has been made.
LEMMA InitTests == Tests!RunnerInit => TestInv
<1> SUFFICES ASSUME Tests!RunnerInit PROVE TestInv
  OBVIOUS
<1>1. /\ calls = <<>> /\ awaited = 0 /\ queued = <<>> /\ caught = <<>> /\ errors = <<>>
      /\ runner = [state |-> "none", call |-> 0]
  BY DEF Tests!RunnerInit
<1>2. /\ calls \in Seq(TestCall) /\ queued \in Seq(Nat) /\ caught \in Seq(Nat)
      /\ errors \in Seq(CallbackError)
      /\ DOMAIN calls = {} /\ DOMAIN queued = {} /\ DOMAIN errors = {} /\ DOMAIN caught = {}
  BY <1>1, EmptySeq
<1>3. CallsFit
  BY <1>1, <1>2 DEF CallsFit
<1>4. RunnerFits
  BY <1>1, <1>2 DEF RunnerFits, IsInjective, SomeRefused
<1>5. ErrorsFit
  BY <1>2 DEF ErrorsFit, Tests!Range
<1> QED
  BY <1>3, <1>4, <1>5 DEF TestInv

\* Each call that has been seen to end stays as it is.
CallsGoOn ==
  /\ \A x \in DOMAIN calls :
       /\ x \in DOMAIN calls' /\ calls'[x].kind = calls[x].kind
       /\ calls[x].seen \in {"passed", "failed"} => calls'[x] = calls[x]
       /\ calls[x].seen = "interrupted" => calls'[x].seen = "interrupted"
       /\ calls[x].answer = "cancelled" => calls'[x].answer = "cancelled"

\* The errors fit as long as no call is seen to end.
LEMMA ErrorsKept ==
  ASSUME CallsFit, ErrorsFit, CallsGoOn, errors' = errors, caught' = caught,
         \A x \in DOMAIN calls' :
           calls'[x].seen \in {"passed", "failed"} =>
             x \in DOMAIN calls /\ calls[x].seen \in {"passed", "failed"}
  PROVE  ErrorsFit'
<1>1. ASSUME NEW n \in DOMAIN errors PROVE ErrorFits(errors[n])'
  <2> DEFINE x == errors[n]
  <2>1. ErrorFits(x)
    BY DEF ErrorsFit
  <2>2. errors'[n] = x
    OBVIOUS
  <2> HIDE DEF x
  <2>3. x.during \in DOMAIN calls' /\ x.outOf \in DOMAIN calls' \union {0}
    BY <2>1 DEF ErrorFits, CallsGoOn
  <2>4. x.outOf # 0 => calls'[x.outOf].seen = "failed" /\ x.during <= x.outOf
    BY <2>1 DEF ErrorFits, CallsGoOn
  <2>5. ASSUME NEW id \in DOMAIN calls',
               x.during <= id /\ (id < x.outOf \/ x.outOf = 0)
        PROVE  Withholds(id)'
    <3>1. CASE calls'[id].seen \in {"passed", "failed"}
      <4>1. id \in DOMAIN calls /\ calls'[id] = calls[id]
        BY <3>1 DEF CallsGoOn
      <4>2. Withholds(id)
        BY <4>1, <2>1, <2>5 DEF ErrorFits
      <4> QED
        BY <4>1, <4>2 DEF Withholds
    <3>2. CASE calls'[id].seen \notin {"passed", "failed"}
      BY <3>2 DEF Withholds
    <3> QED
      BY <3>1, <3>2
  <2> QED
    BY <2>2, <2>3, <2>4, <2>5 DEF ErrorFits
<1> QED
  BY <1>1 DEF ErrorsFit

\* A mishap stays one.
LEMMA MishapStays ==
  ASSUME CallsGoOn, Mishap
  PROVE  Mishap'
BY DEF CallsGoOn, Mishap

\* A call of pytest's: its item goes into the line, or is refused.
LEMMA MakeCallStep ==
  ASSUME TestInv, NEW kind \in {"fixture", "test", "teardown"}, Tests!MakeCall(kind)
  PROVE  TestInv'
<1> USE DEF TestInv
<1> DEFINE id == Len(calls) + 1
           taken == runner.state # "dead" /\ Tests!Accepts
           new == [kind |-> kind, seen |-> "awaits",
                   answer |-> IF taken THEN "pending" ELSE "refused"]
<1>1. /\ awaited = 0
      /\ calls' = Append(calls, new)
      /\ awaited' = id
      /\ queued' = IF taken THEN Append(queued, id) ELSE queued
      /\ runner' = IF runner.state = "none" THEN [runner EXCEPT !.state = "new"] ELSE runner
      /\ caught' = caught /\ errors' = errors
  BY DEF Tests!MakeCall
<1>2. /\ new \in TestCall /\ new.seen = "awaits"
      /\ new.answer = (IF taken THEN "pending" ELSE "refused")
  BY DEF TestCall
<1>3. calls \in Seq(TestCall) /\ Len(calls) \in Nat /\ DOMAIN calls = 1..Len(calls)
  BY LenProperties DEF CallsFit
<1>4. ~taken => runner.state = "dead" \/ \E i \in DOMAIN queued : TRUE
  <2>1. queued \in Seq(Nat) /\ DOMAIN queued = 1..Len(queued) /\ Len(queued) \in Nat
    BY LenProperties DEF RunnerFits
  <2>2. ~Tests!Accepts => Len(queued) >= 1
    BY <2>1 DEF Tests!Accepts
  <2> QED
    BY <2>1, <2>2
<1> HIDE DEF new, taken
<1>5. /\ calls' \in Seq(TestCall) /\ Len(calls') = id /\ calls'[id] = new
      /\ DOMAIN calls' = 1..id /\ \A x \in DOMAIN calls : calls'[x] = calls[x]
      /\ id \notin DOMAIN calls /\ id # 0 /\ id \in Nat
  BY <1>1, <1>2, <1>3, AppendProperties
<1> HIDE DEF id
<1>6. /\ id \in DOMAIN calls' /\ \A x \in DOMAIN calls : x \in DOMAIN calls'
      /\ \A x \in DOMAIN calls' : x \in DOMAIN calls \/ x = id
  BY <1>3, <1>5 DEF id
<1>7. CallsFit'
  BY <1>1, <1>2, <1>3, <1>5, <1>6 DEF CallsFit
<1>8. CallsGoOn
  BY <1>5, <1>6 DEF CallsGoOn
<1>9. ErrorsFit'
  BY <1>1, <1>2, <1>5, <1>6, <1>8, ErrorsKept
<1>10. /\ runner' \in [state : {"none", "new", "waiting", "busy", "dead"}, call : Nat]
       /\ runner'.state = "busy" => runner.state = "busy" /\ runner'.call = runner.call
       /\ runner'.state = "dead" <=> runner.state = "dead"
  BY <1>1 DEF RunnerFits
<1>11. /\ queued' \in Seq(Nat) /\ IsInjective(queued')
       /\ \A i \in DOMAIN queued' :
            (taken /\ queued'[i] = id) \/ \E j \in DOMAIN queued : queued'[i] = queued[j]
  <2>1. \A i \in DOMAIN queued : queued[i] # id
    BY <1>5 DEF RunnerFits, Unanswered
  <2>2. queued \in Seq(Nat) /\ IsInjective(queued) /\ ~Contains(queued, id)
    BY <2>1, LenProperties DEF RunnerFits, Contains
  <2>3. CASE taken
    <3>1. /\ Append(queued, id) \in Seq(Nat) /\ IsInjective(Append(queued, id))
      BY <1>5, <2>2, AppendFacts
    <3>2. \A i \in DOMAIN Append(queued, id) :
            Append(queued, id)[i] = id \/ \E j \in DOMAIN queued : Append(queued, id)[i] = queued[j]
      BY <1>5, <2>2, AppendProperties, LenProperties
    <3> QED
      BY <1>1, <2>3, <3>1, <3>2
  <2>4. CASE ~taken
    BY <1>1, <2>2, <2>4
  <2> QED
    BY <2>3, <2>4
<1>12. \A x : Unanswered(x) => Unanswered(x)' /\ x # id
  BY <1>5, <1>6 DEF Unanswered
<1>13. taken => id \in DOMAIN calls' /\ calls'[id].answer = "pending"
  BY <1>2, <1>5, <1>6
<1>14. runner'.state = "dead" \/ SomeRefused' => Mishap'
  <2>1. CASE runner.state = "dead" \/ SomeRefused
    BY <2>1, <1>8, MishapStays DEF RunnerFits
  <2>2. CASE ~taken /\ runner.state # "dead"
    <3>1. PICK i \in DOMAIN queued : TRUE
      BY <1>4, <2>2
    <3>2. Unanswered(queued[i])
      BY DEF RunnerFits
    <3>3. calls[queued[i]].seen = "interrupted" /\ queued[i] \in DOMAIN calls
      BY <1>1, <1>3, <3>2 DEF Unanswered, CallsFit
    <3> QED
      BY <3>3, <1>8, MishapStays DEF Mishap
  <2>3. CASE taken /\ runner.state # "dead" /\ ~SomeRefused
    BY <2>3, <1>2, <1>5, <1>6, <1>10 DEF SomeRefused
  <2> QED
    BY <2>1, <2>2, <2>3
<1>15. RunnerFits'
  <2>1. \A i \in DOMAIN queued' : Unanswered(queued[i])'
    BY <1>11, <1>12, <1>13 DEF RunnerFits, Unanswered
  <2>2. runner'.state = "busy" => Unanswered(runner.call)'
    BY <1>10, <1>12 DEF RunnerFits, Unanswered
  <2>3. runner'.state = "busy" => \A i \in DOMAIN queued' : queued'[i] # runner'.call
    BY <1>10, <1>11, <1>12 DEF RunnerFits
  <2> QED
    BY <1>10, <1>11, <1>14, <2>1, <2>2, <2>3 DEF RunnerFits
<1> QED
  BY <1>7, <1>9, <1>15

\* The runner waits for a call, or takes the next one.
LEMMA RunnerSteps ==
  ASSUME TestInv, Tests!RunnerWaits \/ Tests!RunnerTakes
  PROVE  TestInv'
<1> USE DEF TestInv
<1>1. calls' = calls /\ awaited' = awaited /\ caught' = caught /\ errors' = errors
  BY DEF Tests!RunnerWaits, Tests!RunnerTakes
<1>2. CallsFit' /\ ErrorsFit'
  BY <1>1 DEF CallsFit, ErrorsFit, ErrorFits, Withholds
<1>3. (Mishap' <=> Mishap) /\ (SomeRefused' <=> SomeRefused) /\ \A x : Unanswered(x)' <=> Unanswered(x)
  BY <1>1 DEF Mishap, SomeRefused, Unanswered
<1>4. CASE Tests!RunnerWaits
  <2>1. runner' = [runner EXCEPT !.state = "waiting"] /\ queued' = queued
    BY <1>4 DEF Tests!RunnerWaits
  <2>2. /\ runner' \in [state : {"none", "new", "waiting", "busy", "dead"}, call : Nat]
        /\ runner'.state = "waiting"
    BY <2>1 DEF RunnerFits
  <2> QED
    BY <1>2, <1>3, <2>1, <2>2 DEF RunnerFits
<1>5. CASE Tests!RunnerTakes
  <2>1. /\ queued # <<>> /\ runner' = [state |-> "busy", call |-> Head(queued)]
        /\ queued' = Tail(queued) /\ queued \in Seq(Nat) /\ IsInjective(queued)
    BY <1>5 DEF Tests!RunnerTakes, RunnerFits
  <2>2. /\ Head(queued) \in Nat /\ Head(queued) = queued[1] /\ 1 \in DOMAIN queued
        /\ Tail(queued) \in Seq(Nat) /\ IsInjective(Tail(queued))
        /\ \A i \in DOMAIN Tail(queued) : i + 1 \in DOMAIN queued /\ Tail(queued)[i] = queued[i + 1]
    BY <2>1, TailFacts
  <2>3. \A i \in DOMAIN Tail(queued) : Tail(queued)[i] # queued[1]
    <3>1. \A i \in DOMAIN Tail(queued) : i \in Nat /\ i >= 1
      BY <2>2, LenProperties
    <3> QED
      BY <2>1, <2>2, <3>1 DEF IsInjective
  <2>4. \A i \in DOMAIN queued : Unanswered(queued[i])
    BY DEF RunnerFits
  <2>5. SomeRefused => Mishap
    BY DEF RunnerFits
  <2>6. /\ runner' \in [state : {"none", "new", "waiting", "busy", "dead"}, call : Nat]
        /\ runner'.state = "busy" /\ runner'.call = queued[1]
    BY <2>1, <2>2
  <2> QED
    BY <1>2, <1>3, <2>1, <2>2, <2>3, <2>4, <2>5, <2>6 DEF RunnerFits
<1> QED
  BY <1>4, <1>5

\* The call that the runner has ends.
LEMMA CallEndsStep ==
  ASSUME TestInv,
         NEW answer \in {"value", "stop", "error", "outcome", "cancelled", "exit"},
         Tests!CallEnds(answer)
  PROVE  TestInv'
<1> USE DEF TestInv
<1> DEFINE id == runner.call
<1>1. /\ awaited # 0 /\ runner.state = "busy"
      /\ calls[id].kind # "teardown" => answer # "stop"
      /\ calls' = [x \in DOMAIN calls |->
           [calls[x] EXCEPT !.answer = IF x = id THEN answer ELSE @,
                            !.seen = IF x = awaited /\ answer = "exit" THEN "interrupted" ELSE @]]
      /\ awaited' = IF answer = "exit" THEN 0 ELSE awaited
      /\ runner' = [state |-> IF answer \in Tests!Deadly THEN "dead" ELSE "new", call |-> 0]
      /\ queued' = IF answer \in Tests!Deadly THEN <<>> ELSE queued
      /\ caught' = caught /\ errors' = errors
  BY DEF Tests!CallEnds
<1>2. Unanswered(id)
  BY <1>1 DEF RunnerFits
<1> HIDE DEF id
<1>3. calls \in Seq(TestCall) /\ Len(calls) \in Nat /\ DOMAIN calls = 1..Len(calls)
  BY LenProperties DEF CallsFit
<1>4. ASSUME NEW x \in DOMAIN calls
      PROVE  /\ calls'[x] \in TestCall /\ calls'[x].kind = calls[x].kind
             /\ calls'[x].answer = IF x = id THEN answer ELSE calls[x].answer
             /\ calls'[x].seen = IF x = awaited /\ answer = "exit" THEN "interrupted"
                                 ELSE calls[x].seen
             /\ (x # id /\ x # awaited) => calls'[x] = calls[x]
  <2> DEFINE ans == IF x = id THEN answer ELSE calls[x].answer
             saw == IF x = awaited /\ answer = "exit" THEN "interrupted" ELSE calls[x].seen
             old == calls[x]
  <2>1. calls'[x] = [old EXCEPT !.answer = ans, !.seen = saw]
    BY <1>1
  <2>2. old \in TestCall
    BY <1>3, ElementOfSeq
  <2>3. /\ ans \in {"pending", "refused", "value", "stop", "error", "outcome", "cancelled",
                   "exit"}
        /\ saw \in {"awaits", "passed", "failed", "interrupted"}
    BY <2>2 DEF TestCall
  <2>4. (x # id /\ x # awaited) => ans = old.answer /\ saw = old.seen
    OBVIOUS
  <2>7. ans = (IF x = id THEN answer ELSE calls[x].answer)
        /\ saw = (IF x = awaited /\ answer = "exit" THEN "interrupted" ELSE calls[x].seen)
        /\ old = calls[x]
    OBVIOUS
  <2> HIDE DEF ans, saw, old
  <2>5. [old EXCEPT !.answer = ans, !.seen = saw] \in TestCall
    BY <2>2, <2>3 DEF TestCall
  <2>6. (ans = old.answer /\ saw = old.seen) => [old EXCEPT !.answer = ans, !.seen = saw] = old
    BY <2>2 DEF TestCall
  <2>8. /\ [old EXCEPT !.answer = ans, !.seen = saw].kind = old.kind
        /\ [old EXCEPT !.answer = ans, !.seen = saw].answer = ans
        /\ [old EXCEPT !.answer = ans, !.seen = saw].seen = saw
    BY <2>2, SMTT(30) DEF TestCall
  <2> QED
    BY <2>1, <2>4, <2>5, <2>6, <2>7, <2>8
<1>5. DOMAIN calls' = DOMAIN calls /\ calls' \in [1..Len(calls) -> TestCall]
  BY <1>1, <1>3, <1>4
<1>6. calls' \in Seq(TestCall) /\ Len(calls') = Len(calls)
  <2>1. calls' \in Seq(TestCall)
    BY <1>3, <1>5, SeqDef
  <2> QED
    BY <2>1, <1>3, <1>5, LenProperties
<1>7. calls[id].answer = "pending" /\ calls[id].seen \in {"awaits", "interrupted"}
      /\ id \in DOMAIN calls
  BY <1>2 DEF Unanswered, CallsFit
<1>8. awaited \in DOMAIN calls /\ calls[awaited].seen = "awaits" /\ calls[awaited].answer # "exit"
  <2>1. awaited = Len(calls)
    BY <1>1 DEF CallsFit
  <2>3. awaited # 0
    BY <1>1
  <2>2. awaited \in DOMAIN calls
    BY <1>3, <2>1, <2>3
  <2> QED
    BY <1>1, <2>2 DEF CallsFit
<1>9. CallsGoOn
  <2>1. ASSUME NEW x \in DOMAIN calls
        PROVE  /\ calls[x].seen \in {"passed", "failed"} => calls'[x] = calls[x]
               /\ calls[x].seen = "interrupted" => calls'[x].seen = "interrupted"
               /\ calls[x].answer = "cancelled" => calls'[x].answer = "cancelled"
    BY <1>4, <1>7, <1>8, SMTT(30)
  <2> QED
    BY <1>4, <1>5, <2>1 DEF CallsGoOn
<1>10. CallsFit'
  <2>1. awaited' \in {0, Len(calls')}
    BY <1>1, <1>6 DEF CallsFit
  <2>2. ASSUME NEW x \in DOMAIN calls
        PROVE  /\ calls'[x].seen = "awaits" <=> x = awaited'
               /\ calls'[x].answer = "pending" =>
                    calls'[x].seen \in {"awaits", "interrupted"}
    <3>1. /\ calls[x].seen = "awaits" <=> x = awaited
          /\ calls[x].answer = "pending" =>
               calls[x].seen \in {"awaits", "interrupted"}
      BY DEF CallsFit
    <3>2. x # 0
      BY <1>3
    <3>3. calls'[x].answer = "pending" => calls[x].answer = "pending"
      BY <1>4
    <3>4. CASE x = awaited /\ answer = "exit"
      <4>1. calls'[x].seen = "interrupted"
        BY <1>4, <3>4
      <4>2. awaited' = 0
        BY <1>1, <3>4
      <4> QED
        BY <3>2, <4>1, <4>2
    <3>5. CASE x # awaited \/ answer # "exit"
      <4>1. calls'[x].seen = calls[x].seen
        BY <1>4, <3>5
      <4>2. x = awaited' <=> x = awaited
        BY <1>1, <1>8, <3>2, <3>5
      <4> QED
        BY <3>1, <3>3, <4>1, <4>2
    <3> QED
      BY <3>4, <3>5
  <2>3. awaited' # 0 => calls'[awaited'].answer # "exit"
    BY <1>1, <1>4, <1>8, ZenonT(40)
  <2>4. ASSUME NEW x \in DOMAIN calls PROVE calls'[x].kind # "teardown" => calls'[x].answer # "stop"
    <3>1. calls[x].kind # "teardown" => calls[x].answer # "stop"
      BY DEF CallsFit
    <3> QED
      BY <3>1, <1>1, <1>4
  <2> QED
    BY <1>5, <1>6, <2>1, <2>2, <2>3, <2>4 DEF CallsFit
<1>11. ErrorsFit'
  <2>1. \A x \in DOMAIN calls :
          calls'[x].seen \in {"passed", "failed"} => calls[x].seen \in {"passed", "failed"}
    BY <1>4
  <2> QED
    BY <1>1, <1>5, <1>9, <2>1, ErrorsKept
<1>12. runner' \in [state : {"none", "new", "waiting", "busy", "dead"}, call : Nat]
       /\ runner'.state \in {"dead", "new"}
       /\ (runner'.state = "dead" <=> answer \in Tests!Deadly)
  BY <1>1
<1>13. runner'.state = "dead" \/ SomeRefused' => Mishap'
  <2>1. CASE SomeRefused'
    <3>1. SomeRefused
      BY <2>1, <1>4, <1>5 DEF SomeRefused
    <3> QED
      BY <3>1, <1>9, MishapStays DEF RunnerFits
  <2>2. CASE answer = "cancelled"
    BY <2>2, <1>4, <1>5, <1>7 DEF Mishap
  <2>3. CASE answer = "exit"
    BY <2>3, <1>4, <1>5, <1>8 DEF Mishap
  <2> QED
    BY <2>1, <2>2, <2>3, <1>12 DEF Tests!Deadly
<1>14. queued' \in Seq(Nat) /\ IsInjective(queued') /\ \A i \in DOMAIN queued' : Unanswered(queued[i])'
  <2>1. CASE answer \in Tests!Deadly
    <3>1. queued' = <<>>
      BY <1>1, <2>1
    <3>2. queued' \in Seq(Nat) /\ DOMAIN queued' = {}
      BY <3>1, EmptySeq
    <3> QED
      BY <3>2 DEF IsInjective
  <2>2. CASE answer \notin Tests!Deadly
    <3>1. queued' = queued /\ queued \in Seq(Nat) /\ IsInjective(queued)
      BY <1>1, <2>2 DEF RunnerFits
    <3>2. \A i \in DOMAIN queued : Unanswered(queued[i]) /\ queued[i] # id
      BY <1>1 DEF RunnerFits, id
    <3>3. \A x : Unanswered(x) /\ x # id => Unanswered(x)'
      BY <1>4, <1>5 DEF Unanswered
    <3> QED
      BY <3>1, <3>2, <3>3 DEF Unanswered
  <2> QED
    BY <2>1, <2>2
<1>15. RunnerFits'
  BY <1>12, <1>13, <1>14 DEF RunnerFits
<1> QED
  BY <1>10, <1>11, <1>15

\* An exception of a callback is caught.
LEMMA CallbackStep ==
  ASSUME TestInv, Tests!CallbackFails
  PROVE  TestInv'
<1> USE DEF TestInv
<1> DEFINE new == [during |-> awaited, outOf |-> 0]
           n == Len(errors) + 1
<1>1. /\ awaited # 0 /\ errors' = Append(errors, new) /\ caught' = Append(caught, n)
      /\ calls' = calls /\ awaited' = awaited /\ runner' = runner /\ queued' = queued
  BY DEF Tests!CallbackFails
<1>2. CallsFit' /\ RunnerFits'
  BY <1>1 DEF CallsFit, RunnerFits, Unanswered, Mishap, SomeRefused
<1>3. /\ awaited \in DOMAIN calls /\ awaited \in Nat /\ calls[awaited].seen = "awaits"
      /\ \A id \in DOMAIN calls : awaited <= id => id = awaited
  <2>1. calls \in Seq(TestCall) /\ Len(calls) \in Nat /\ DOMAIN calls = 1..Len(calls)
    BY LenProperties DEF CallsFit
  <2>2. awaited = Len(calls)
    BY <1>1 DEF CallsFit
  <2> QED
    BY <1>1, <2>1, <2>2 DEF CallsFit
<1>4. new \in CallbackError /\ new.outOf = 0 /\ new.during = awaited
  BY <1>3 DEF CallbackError
<1>5. /\ errors \in Seq(CallbackError) /\ DOMAIN errors = 1..Len(errors) /\ Len(errors) \in Nat
      /\ caught \in Seq(Nat) /\ DOMAIN caught = 1..Len(caught) /\ Len(caught) \in Nat
      /\ Tests!Range(caught) \subseteq DOMAIN errors
  BY LenProperties DEF ErrorsFit
<1>6. ErrorFits(new)
  <2>1. Withholds(awaited)
    BY <1>3 DEF Withholds
  <2> HIDE DEF new
  <2> QED
    BY <1>3, <1>4, <2>1 DEF ErrorFits
<1> HIDE DEF new
<1>7. /\ errors' \in Seq(CallbackError) /\ errors'[n] = new /\ DOMAIN errors' = 1..n
      /\ \A i \in DOMAIN errors : errors'[i] = errors[i]
      /\ n \in Nat /\ n \notin DOMAIN errors
  BY <1>1, <1>4, <1>5, AppendProperties
<1>8. /\ caught' \in Seq(Nat) /\ DOMAIN caught' = 1..(Len(caught) + 1)
      /\ caught'[Len(caught) + 1] = n /\ \A i \in DOMAIN caught : caught'[i] = caught[i]
  BY <1>1, <1>5, <1>7, AppendProperties
<1>9. DOMAIN errors' = DOMAIN errors \union {n}
  BY <1>5, <1>7
<1> HIDE DEF n
<1>10. Tests!Range(caught') = Tests!Range(caught) \union {n}
  <2>1. DOMAIN caught' = DOMAIN caught \union {Len(caught) + 1}
    BY <1>5, <1>8
  <2> QED
    BY <1>8, <2>1, ZenonT(40) DEF Tests!Range
<1>11. \A i \in DOMAIN errors' : ErrorFits(errors'[i])
  BY <1>6, <1>7, <1>9 DEF ErrorsFit
<1>12. \A i \in DOMAIN errors' : ErrorFits(errors[i])'
  BY <1>1, <1>11 DEF ErrorFits, Withholds
<1>13. \A i \in DOMAIN errors' : errors'[i].outOf = 0 <=> i \in Tests!Range(caught')
  BY <1>4, <1>5, <1>7, <1>9, <1>10 DEF ErrorsFit
<1> QED
  BY <1>2, <1>5, <1>7, <1>8, <1>9, <1>10, <1>12, <1>13 DEF ErrorsFit

\* pytest goes on: the call that it awaited is seen to end, or to be interrupted.
LEMMA SeesFacts ==
  ASSUME TestInv, NEW what \in {"passed", "failed", "interrupted"}, Tests!Sees(what),
         awaited # 0, runner' = runner, queued' = queued,
         calls[awaited].answer # "pending" \/ what = "interrupted"
  PROVE  /\ CallsFit' /\ RunnerFits' /\ CallsGoOn
         /\ DOMAIN calls' = DOMAIN calls
         /\ calls'[awaited] = [calls[awaited] EXCEPT !.seen = what]
         /\ calls'[awaited].answer = calls[awaited].answer
         /\ calls'[awaited].seen = what /\ awaited \in DOMAIN calls
         /\ \A x \in DOMAIN calls : x # awaited => calls'[x] = calls[x]
<1> USE DEF TestInv
<1> DEFINE y == [calls[awaited] EXCEPT !.seen = what]
           old == calls[awaited]
<1>1. calls' = [calls EXCEPT ![awaited] = y] /\ awaited' = 0
  BY DEF Tests!Sees
<1>2. calls \in Seq(TestCall) /\ Len(calls) \in Nat /\ DOMAIN calls = 1..Len(calls)
  BY LenProperties DEF CallsFit
<1>3. awaited \in DOMAIN calls /\ old.seen = "awaits" /\ old \in TestCall
  <2>1. awaited = Len(calls)
    BY DEF CallsFit
  <2>2. awaited \in DOMAIN calls
    BY <1>2, <2>1
  <2>3. calls[awaited].seen = "awaits"
    BY <2>2 DEF CallsFit
  <2> QED
    BY <1>2, <2>2, <2>3, ElementOfSeq
<1>4. y \in TestCall /\ y.kind = old.kind /\ y.answer = old.answer /\ y.seen = what
  <2> HIDE DEF old
  <2>1. y = [old EXCEPT !.seen = what]
    BY DEF old
  <2> HIDE DEF y
  <2> QED
    BY <1>3, <2>1 DEF TestCall
<1>10. y = [calls[awaited] EXCEPT !.seen = what]
  OBVIOUS
<1> HIDE DEF y
<1>5. /\ calls' \in Seq(TestCall) /\ Len(calls') = Len(calls) /\ DOMAIN calls' = DOMAIN calls
      /\ calls'[awaited] = y /\ \A x \in DOMAIN calls : x # awaited => calls'[x] = calls[x]
  BY <1>1, <1>2, <1>3, <1>4, ExceptSeq
<1>6. CallsFit'
  <2>1. ASSUME NEW x \in DOMAIN calls
        PROVE  /\ calls'[x].seen = "awaits" <=> x = awaited'
               /\ calls'[x].answer = "pending" =>
                    calls'[x].seen \in {"awaits", "interrupted"}
    <3>1. x # 0
      BY <1>2
    <3>2. CASE x = awaited
      BY <1>1, <1>4, <1>5, <3>1, <3>2, SMTT(30)
    <3>3. CASE x # awaited
      BY <1>1, <1>5, <3>1, <3>3 DEF CallsFit
    <3> QED
      BY <3>2, <3>3
  <2>2. \A x \in DOMAIN calls' : calls'[x].kind # "teardown" => calls'[x].answer # "stop"
    BY <1>3, <1>4, <1>5 DEF CallsFit
  <2> QED
    BY <1>1, <1>5, <2>1, <2>2 DEF CallsFit
<1>7. CallsGoOn
  BY <1>3, <1>4, <1>5 DEF CallsGoOn
<1>8. /\ \A x : Unanswered(x) => Unanswered(x)'
      /\ SomeRefused' => SomeRefused
  BY <1>3, <1>4, <1>5 DEF Unanswered, SomeRefused
<1>9. RunnerFits'
  BY <1>7, <1>8, MishapStays DEF RunnerFits
<1> QED
  BY <1>3, <1>4, <1>5, <1>6, <1>7, <1>9, <1>10

\* KeyboardInterrupt ends the wait of pytest.
LEMMA InterruptStep ==
  ASSUME TestInv, Tests!Interrupt
  PROVE  TestInv'
<1>1. /\ awaited # 0 /\ Tests!Sees("interrupted") /\ runner' = runner /\ queued' = queued
      /\ caught' = caught /\ errors' = errors /\ awaited' = 0
  BY DEF Tests!Interrupt, Tests!Sees
<1>2. /\ CallsFit' /\ RunnerFits' /\ CallsGoOn /\ DOMAIN calls' = DOMAIN calls
      /\ calls'[awaited].seen = "interrupted" /\ awaited \in DOMAIN calls
      /\ \A x \in DOMAIN calls : x # awaited => calls'[x] = calls[x]
  BY <1>1, SeesFacts
<1>3. ErrorsFit'
  BY <1>1, <1>2, ErrorsKept DEF TestInv
<1> QED
  BY <1>2, <1>3 DEF TestInv

\* pytest sees the end of a call that let nothing out, and what was caught is kept.
LEMMA KeptStep ==
  ASSUME TestInv, awaited # 0, calls[awaited].answer # "pending", Tests!Sees("failed"),
         calls[awaited].answer \in Tests!Withheld(calls[awaited].kind),
         runner' = runner, queued' = queued, caught' = caught, errors' = errors
  PROVE  TestInv'
<1>1. /\ CallsFit' /\ RunnerFits' /\ CallsGoOn /\ DOMAIN calls' = DOMAIN calls
      /\ calls'[awaited] = [calls[awaited] EXCEPT !.seen = "failed"]
      /\ calls'[awaited].answer = calls[awaited].answer /\ awaited \in DOMAIN calls
      /\ calls'[awaited].seen = "failed"
      /\ \A x \in DOMAIN calls : x # awaited => calls'[x] = calls[x]
  BY SeesFacts
<1>2. calls'[awaited].kind = calls[awaited].kind
  BY <1>1 DEF CallsGoOn
<1>4. ASSUME NEW id \in DOMAIN calls, Withholds(id) \/ id = awaited PROVE Withholds(id)'
  <2>1. CASE id = awaited
    BY <1>1, <1>2, <2>1 DEF Withholds
  <2>2. CASE id # awaited
    BY <1>1, <1>4, <2>2 DEF Withholds
  <2> QED
    BY <2>1, <2>2
<1>5. ASSUME NEW n \in DOMAIN errors PROVE ErrorFits(errors[n])'
  <2> DEFINE x == errors[n]
  <2>1. ErrorFits(x)
    BY DEF TestInv, ErrorsFit
  <2>2. errors'[n] = x
    OBVIOUS
  <2> HIDE DEF x
  <2>3. x.outOf # 0 => calls'[x.outOf].seen = "failed" /\ x.during <= x.outOf
    BY <1>1, <2>1 DEF ErrorFits, CallsGoOn
  <2>4. \A id \in DOMAIN calls' :
          x.during <= id /\ (id < x.outOf \/ x.outOf = 0) => Withholds(id)'
    BY <1>1, <1>4, <2>1 DEF ErrorFits
  <2> QED
    BY <1>1, <2>1, <2>2, <2>3, <2>4 DEF ErrorFits
<1> QED
  BY <1>1, <1>5 DEF TestInv, ErrorsFit

\* A call returns to pytest, and what was caught comes out of it, or is kept.
LEMMA ReturnStep ==
  ASSUME TestInv, Tests!CallReturns
  PROVE  TestInv'
<1>1. /\ awaited # 0 /\ calls[awaited].answer # "pending" /\ runner' = runner
      /\ queued' = queued
  BY DEF Tests!CallReturns
<1>2. /\ errors \in Seq(CallbackError) /\ DOMAIN errors = 1..Len(errors) /\ Len(errors) \in Nat
      /\ \A n \in DOMAIN errors : errors[n] \in CallbackError
      /\ \A n \in DOMAIN errors : ErrorFits(errors[n])
      /\ \A n \in DOMAIN errors : errors[n].outOf = 0 <=> n \in Tests!Range(caught)
      /\ Tests!Range(caught) \subseteq DOMAIN errors
  BY LenProperties, ElementOfSeq DEF TestInv, ErrorsFit
<1>3. /\ calls \in Seq(TestCall) /\ Len(calls) \in Nat /\ DOMAIN calls = 1..Len(calls)
      /\ 0 \notin DOMAIN calls /\ awaited = Len(calls) /\ awaited \in DOMAIN calls
      /\ calls[awaited] \in TestCall /\ calls[awaited].seen = "awaits"
      /\ calls[awaited].answer # "exit"
      /\ calls[awaited].kind # "teardown" => calls[awaited].answer # "stop"
  <2>1. calls \in Seq(TestCall) /\ Len(calls) \in Nat /\ DOMAIN calls = 1..Len(calls)
    BY LenProperties DEF TestInv, CallsFit
  <2>2. awaited = Len(calls) /\ awaited \in DOMAIN calls
    BY <1>1, <2>1 DEF TestInv, CallsFit
  <2> QED
    BY <1>1, <2>1, <2>2, ElementOfSeq DEF TestInv, CallsFit
<1>4. CASE ~Tests!Raises(awaited)
  <2>1. Tests!Sees("failed") /\ caught' = caught /\ errors' = errors
    BY <1>4 DEF Tests!CallReturns
  <2>2. calls[awaited].answer \in Tests!Withheld(calls[awaited].kind)
    BY <1>1, <1>3, <1>4 DEF Tests!Raises, Tests!Withheld, TestCall
  <2> QED
    BY <1>1, <2>1, <2>2, KeptStep
<1>5. CASE Tests!Raises(awaited)
  <2> DEFINE what == IF calls[awaited].answer \notin {"error", "refused"} /\ caught = <<>>
                     THEN "passed" ELSE "failed"
  <2>1. /\ Tests!Sees(what) /\ caught' = <<>>
        /\ errors' = [n \in DOMAIN errors |-> Tests!Surfaced(n)]
    BY <1>5 DEF Tests!CallReturns
  <2>2. what \in {"passed", "failed"} /\ (Tests!Range(caught) # {} => what = "failed")
    BY DEF Tests!Range
  <2> HIDE DEF what
  <2>3. /\ CallsFit' /\ RunnerFits' /\ CallsGoOn /\ DOMAIN calls' = DOMAIN calls
        /\ calls'[awaited].answer = calls[awaited].answer /\ calls'[awaited].seen = what
        /\ \A x \in DOMAIN calls : x # awaited => calls'[x] = calls[x]
    BY <1>1, <2>1, <2>2, SeesFacts
  <2>4. caught' \in Seq(Nat) /\ Tests!Range(caught') = {}
    BY <2>1, EmptySeq DEF Tests!Range
  <2>5. ASSUME NEW n \in DOMAIN errors
        PROVE  /\ errors'[n] \in CallbackError /\ errors'[n].outOf # 0
               /\ ErrorFits(errors[n])'
    <3> DEFINE out == IF n \in Tests!Range(caught) THEN awaited ELSE errors[n].outOf
               old == errors[n]
    <3>1. errors'[n] = [old EXCEPT !.outOf = out]
      <4>1. errors'[n] = Tests!Surfaced(n)
        BY <2>1
      <4>2. Tests!Surfaced(n) = [old EXCEPT !.outOf = out]
        BY DEF Tests!Surfaced
      <4> QED
        BY <4>1, <4>2
    <3>2. out \in Nat /\ out # 0 /\ old \in CallbackError /\ ErrorFits(old)
      BY <1>1, <1>2, <1>3 DEF CallbackError
    <3>3. \/ Tests!Range(caught) # {} /\ old.outOf = 0 /\ out = awaited
          \/ old.outOf # 0 /\ out = old.outOf
      BY <1>2
    <3> HIDE DEF out, old
    <3>4. /\ errors'[n] \in CallbackError /\ errors'[n].outOf = out
          /\ errors'[n].during = old.during /\ old.during \in Nat
      BY <3>1, <3>2 DEF CallbackError
    <3>5. out \in DOMAIN calls /\ out <= awaited /\ old.during <= out /\ old.during \in DOMAIN calls
      BY <1>3, <3>2, <3>3, <3>4 DEF ErrorFits
    <3>6. calls'[out].seen = "failed"
      <4>1. CASE old.outOf # 0 /\ out = old.outOf
        BY <4>1, <3>2, <3>5, <2>3 DEF ErrorFits, CallsGoOn
      <4> QED
        BY <4>1, <2>2, <2>3, <3>3
    <3>7. ASSUME NEW id \in DOMAIN calls, old.during <= id, id < out
          PROVE  Withholds(id)'
      <4>1. Withholds(id)
        BY <3>2, <3>3, <3>7 DEF ErrorFits
      <4>2. id # awaited
        BY <1>3, <3>5, <3>7
      <4> QED
        BY <4>1, <4>2, <2>3 DEF Withholds
    <3>8. (errors'[n].during <= errors'[n].outOf) /\ errors'[n].outOf # 0
      BY <3>2, <3>4, <3>5
    <3> QED
      BY <2>3, <3>4, <3>5, <3>6, <3>7, <3>8 DEF ErrorFits
  <2>6. errors' \in Seq(CallbackError) /\ DOMAIN errors' = DOMAIN errors
    <3>1. errors' \in [1..Len(errors) -> CallbackError]
      BY <1>2, <2>1, <2>5
    <3> QED
      BY <1>2, <2>1, <3>1, SeqDef
  <2>7. ErrorsFit'
    BY <2>4, <2>5, <2>6 DEF ErrorsFit
  <2> QED
    BY <2>3, <2>7 DEF TestInv
<1> QED
  BY <1>4, <1>5

\* The generator that yielded once more is closed.
LEMMA GeneratorStep ==
  ASSUME TestInv, Tests!GeneratorClosed
  PROVE  TestInv'
<1>1. /\ awaited # 0 /\ Tests!Sees("failed") /\ runner' = runner /\ queued' = queued
      /\ caught' = caught /\ errors' = errors
      /\ calls[awaited].kind = "teardown" /\ calls[awaited].answer = "value"
  BY DEF Tests!GeneratorClosed, Tests!YieldsAgain
<1>2. /\ calls[awaited].answer # "pending"
      /\ calls[awaited].answer \in Tests!Withheld(calls[awaited].kind)
  BY <1>1 DEF Tests!Withheld
<1> QED
  BY <1>1, <1>2, KeptStep

LEMMA NextTests == TestInv /\ [Tests!RunnerNext]_(Tests!runnerVars) => TestInv'
<1> SUFFICES ASSUME TestInv, [Tests!RunnerNext]_(Tests!runnerVars) PROVE TestInv'
  OBVIOUS
<1>1. CASE UNCHANGED Tests!runnerVars
  BY <1>1 DEF Tests!runnerVars, TestInv, CallsFit, RunnerFits, ErrorsFit, ErrorFits,
              Withholds, Unanswered, Mishap, SomeRefused
<1> QED
  BY <1>1, MakeCallStep, RunnerSteps, CallEndsStep, CallbackStep, InterruptStep, ReturnStep,
     GeneratorStep
     DEF Tests!RunnerNext

LEMMA TestsHold == TestInv => Tests!ErrorsSurface
<1> SUFFICES ASSUME TestInv PROVE Tests!ErrorsSurface
  OBVIOUS
<1>1. ASSUME NEW n \in DOMAIN errors
      PROVE  LET x == errors[n] IN
             /\ x.outOf = 0 <=> n \in Tests!Range(caught)
             /\ x.outOf # 0 => x.during <= x.outOf
             /\ \A id \in DOMAIN calls :
                  x.during <= id /\ (id < x.outOf \/ x.outOf = 0) =>
                    /\ calls[id].seen # "passed"
                    /\ calls[id].seen = "failed" => calls[id].answer \in Tests!Withheld(calls[id].kind)
  <2> DEFINE y == errors[n]
  <2>1. ErrorFits(y) /\ (y.outOf = 0 <=> n \in Tests!Range(caught))
    BY DEF TestInv, ErrorsFit
  <2> HIDE DEF y
  <2>2. /\ y.outOf = 0 <=> n \in Tests!Range(caught)
        /\ y.outOf # 0 => y.during <= y.outOf
        /\ \A id \in DOMAIN calls :
             y.during <= id /\ (id < y.outOf \/ y.outOf = 0) =>
               /\ calls[id].seen # "passed"
               /\ calls[id].seen = "failed" => calls[id].answer \in Tests!Withheld(calls[id].kind)
    BY <2>1 DEF ErrorFits, Withholds
  <2> QED
    BY <2>2 DEF y
<1>2. runner.state = "dead" \/ SomeRefused => Mishap
  BY DEF TestInv, RunnerFits
<1>3. (\A id \in DOMAIN calls : calls[id].seen # "interrupted" /\ calls[id].answer # "cancelled")
      => runner.state # "dead" /\ \A id \in DOMAIN calls : calls[id].answer # "refused"
  BY <1>2 DEF Mishap, SomeRefused
<1> QED
  BY <1>1, <1>3 DEF Tests!ErrorsSurface
-----------------------------------------------------------------------------
(* Deadlines: the handle of a scope is its only timer, of its present        *)
(* deadline; and the recursion of current_effective_deadline() along the     *)
(* scopes of the task finds what the shields let through.                    *)

now == a
timed == b
chain == c
timers == d
cut == e

USE DEF now, timed, chain, timers, cut

Never == Timers!Never
NoTimer == Timers!NoTimer

TimedScope ==
  [state : {"none", "made", "active", "left"}, kind : {"plain", "fail_after", "move_on_after"},
   deadline : 0..Never, shield : BOOLEAN, called : BOOLEAN,
   handle : [scope : Scope \union {"none"}, at : Nat],
   expired : BOOLEAN, early : BOOLEAN, caught : BOOLEAN, raised : BOOLEAN]

TimerOf(s, r) == [scope |-> s, at |-> r.deadline]

\* The scope s, whose state is r, at the time x, when the timers are T
TimerFits(s, r, x, T) ==
  /\ r.early = FALSE /\ (r.state = "none" => r.expired = FALSE)
  /\ r.handle # NoTimer => r.state = "active" /\ r.deadline # Never /\ r.handle = TimerOf(s, r)
  /\ r.state = "active" /\ ~r.called /\ r.deadline # Never => r.handle # NoTimer /\ r.handle \in T
  /\ r.expired => x >= r.deadline
  /\ r.state = "left" /\ r.kind = "fail_after" /\ r.caught /\ r.expired => r.raised

TimersFit ==
  /\ \A s \in Scope : TimerFits(s, timed[s], now, timers)
  /\ \A t \in timers : t.scope \in Scope /\ t = timed[t.scope].handle /\ t # NoTimer

ChainFits ==
  /\ chain \in Seq(Scope)
  /\ \A i, j \in 1..Len(chain) : chain[i] = chain[j] => i = j
  /\ \A s \in Scope : timed[s].state = "active" <=> \E i \in 1..Len(chain) : chain[i] = s

TimerInv ==
  /\ now \in 0..MaxTime /\ timed \in [Scope -> TimedScope] /\ cut \in BOOLEAN
  /\ TimersFit /\ ChainFits

LEMMA NeverFacts ==
  /\ Never \in Nat /\ Never = MaxTime + MaxDelay + 1
  /\ NoTimer \in [scope : Scope \union {"none"}, at : Nat]
  /\ NoTimer.at = Never
BY TimerAssumption DEF Never, NoTimer, Timers!Never, Timers!NoTimer

\* A timer of a scope is not the one that stands for none.
LEMMA TimerOfFacts ==
  ASSUME NEW s \in Scope, NEW r \in TimedScope
  PROVE  /\ TimerOf(s, r) \in [scope : Scope \union {"none"}, at : Nat]
         /\ TimerOf(s, r).scope = s /\ TimerOf(s, r).at = r.deadline
         /\ r.deadline # Never => TimerOf(s, r) # NoTimer
<1>1. r.deadline \in Nat
  BY NeverFacts DEF TimedScope
<1> QED
  BY <1>1, NeverFacts DEF TimerOf

\* No scope has been made.
LEMMA InitTimers == Timers!DeadlineInit => TimerInv
<1> SUFFICES ASSUME Timers!DeadlineInit PROVE TimerInv
  OBVIOUS
<1>1. now \in 0..MaxTime /\ cut \in BOOLEAN /\ timers = {} /\ chain = <<>>
  <2>1. now = 0 /\ cut = FALSE /\ timers = {} /\ chain = <<>>
    BY DEF Timers!DeadlineInit
  <2>2. 0 \in 0..MaxTime
    BY TimerAssumption
  <2> QED
    BY <2>1, <2>2
<1> DEFINE r == [state |-> "none", kind |-> "plain", deadline |-> Never, shield |-> FALSE,
                 called |-> FALSE, handle |-> NoTimer, expired |-> FALSE, early |-> FALSE,
                 caught |-> FALSE, raised |-> FALSE]
<1>2. timed = [s \in Scope |-> r]
  BY DEF Timers!DeadlineInit, Never, NoTimer
<1>3. /\ r \in TimedScope /\ r.state = "none" /\ r.handle = NoTimer /\ r.expired = FALSE
      /\ r.early = FALSE
  BY NeverFacts DEF TimedScope
<1> HIDE DEF r
<1>4. timed \in [Scope -> TimedScope] /\ \A s \in Scope : timed[s] = r
  BY <1>2, <1>3
<1>5. TimersFit
  BY <1>1, <1>3, <1>4 DEF TimersFit, TimerFits
<1>6. ChainFits
  BY <1>1, <1>3, <1>4, EmptySeq DEF ChainFits
<1> QED
  BY <1>1, <1>4, <1>5, <1>6 DEF TimerInv

\* What _timeout() makes of r: nothing, a scope that has expired, or one with a timer
TimedOut(s, r, x) ==
  /\ x \in TimedScope
  /\ x.state = r.state /\ x.kind = r.kind /\ x.deadline = r.deadline
  /\ x.shield = r.shield /\ x.caught = r.caught /\ x.raised = r.raised
  /\ x.early = FALSE
  /\ \/ /\ r.deadline = Never \/ (now >= r.deadline /\ r.called)
        /\ x.handle = r.handle /\ x.called = r.called /\ x.expired = r.expired
     \/ /\ r.deadline # Never /\ now >= r.deadline /\ ~r.called
        /\ x.handle = NoTimer /\ x.called = TRUE /\ x.expired = TRUE
     \/ /\ r.deadline # Never /\ now < r.deadline
        /\ x.handle = TimerOf(s, r) /\ x.called = r.called /\ x.expired = r.expired

\* _timeout(), of a scope that has no timer or whose timer has fired
LEMMA TimeoutFacts ==
  ASSUME now \in Nat, NEW s \in Scope, NEW r \in TimedScope, r.early = FALSE
  PROVE  TimedOut(s, r, Timers!Timeout(r, s))
<1> DEFINE x == Timers!Timeout(r, s)
<1>0. r.deadline \in Nat /\ r.called \in BOOLEAN
  BY NeverFacts DEF TimedScope
<1>1. ASSUME r.deadline = Never \/ (now >= r.deadline /\ r.called) PROVE TimedOut(s, r, x)
  <2>1. x = r
    BY <1>1 DEF Timers!Timeout, Timers!Expire, Never
  <2> HIDE DEF x
  <2> QED
    BY <1>1, <2>1 DEF TimedOut
<1>2. ASSUME r.deadline # Never, now >= r.deadline, ~r.called PROVE TimedOut(s, r, x)
  <2> DEFINE early == now < r.deadline
  <2>1. early = FALSE
    BY <1>0, <1>2
  <2>2. x = [r EXCEPT !.called = TRUE, !.handle = NoTimer, !.expired = TRUE, !.early = early]
    BY <1>2 DEF Timers!Timeout, Timers!Expire, Never, NoTimer
  <2> HIDE DEF early, x
  <2>3. x = [r EXCEPT !.called = TRUE, !.handle = NoTimer, !.expired = TRUE, !.early = FALSE]
    BY <2>1, <2>2
  <2>4. /\ x \in TimedScope
        /\ x.state = r.state /\ x.kind = r.kind /\ x.deadline = r.deadline
        /\ x.shield = r.shield /\ x.caught = r.caught /\ x.raised = r.raised
        /\ x.early = FALSE /\ x.handle = NoTimer /\ x.called = TRUE /\ x.expired = TRUE
    BY <2>3, NeverFacts DEF TimedScope
  <2> QED
    BY <1>2, <2>4 DEF TimedOut
<1>3. ASSUME r.deadline # Never, now < r.deadline PROVE TimedOut(s, r, x)
  <2>1. ~(now >= r.deadline)
    BY <1>0, <1>3
  <2>2. x = [r EXCEPT !.handle = TimerOf(s, r)]
    BY <1>3, <2>1 DEF Timers!Timeout, Never, TimerOf
  <2> HIDE DEF x
  <2>3. TimerOf(s, r) \in [scope : Scope \union {"none"}, at : Nat]
    BY TimerOfFacts
  <2>4. /\ x \in TimedScope
        /\ x.state = r.state /\ x.kind = r.kind /\ x.deadline = r.deadline
        /\ x.shield = r.shield /\ x.caught = r.caught /\ x.raised = r.raised
        /\ x.early = r.early /\ x.handle = TimerOf(s, r) /\ x.called = r.called
        /\ x.expired = r.expired
    BY <2>2, <2>3 DEF TimedScope
  <2> QED
    BY <1>3, <2>4 DEF TimedOut
<1> HIDE DEF x
<1>4. now >= r.deadline \/ now < r.deadline
  BY <1>0
<1>5. TimedOut(s, r, x)
  BY <1>1, <1>2, <1>3, <1>4
<1> QED
  BY <1>5 DEF x

\* No timer stands for none.
LEMMA NoTimerIsNone ==
  ASSUME TimerInv
  PROVE  NoTimer \notin timers
BY DEF TimerInv, TimersFit

\* A scope goes to r, and its timers with it.
LEMMA TimersStep ==
  ASSUME TimerInv, NEW s \in Scope, NEW r \in TimedScope,
         timed' = [timed EXCEPT ![s] = r], timers' = Timers!TimersAfter(s, r), now' = now,
         r.handle # NoTimer => r.handle = TimerOf(s, r),
         TimerFits(s, r, now, {r.handle})
  PROVE  timed' \in [Scope -> TimedScope] /\ timed'[s] = r /\ TimersFit'
         /\ \A u \in Scope \ {s} : timed'[u] = timed[u]
<1>1. /\ timed \in [Scope -> TimedScope] /\ TimersFit
  BY DEF TimerInv
<1>2. /\ timed' \in [Scope -> TimedScope] /\ timed'[s] = r
      /\ \A u \in Scope : u # s => timed'[u] = timed[u]
  BY <1>1
<1>3. timers' = (timers \ {timed[s].handle}) \union (IF r.handle = NoTimer THEN {} ELSE {r.handle})
  BY DEF Timers!TimersAfter, NoTimer
<1>4. ASSUME NEW u \in Scope PROVE TimerFits(u, timed'[u], now, timers')
  <2>1. CASE u = s
    BY <2>1, <1>2, <1>3 DEF TimerFits
  <2>2. CASE u # s
    <3>1. timed'[u] = timed[u] /\ TimerFits(u, timed[u], now, timers)
      BY <1>1, <1>2, <2>2 DEF TimersFit
    <3>2. ASSUME timed[u].handle # NoTimer, timed[u].handle \in timers
          PROVE  timed[u].handle \in timers'
      <4>1. timed[u].handle.scope = u
        BY <1>1, <3>1, <3>2, TimerOfFacts DEF TimerFits
      <4>2. timed[s].handle # NoTimer => timed[s].handle.scope = s
        BY <1>1, TimerOfFacts DEF TimerFits, TimersFit
      <4> QED
        BY <1>3, <2>2, <3>2, <4>1, <4>2
    <3> QED
      BY <3>1, <3>2 DEF TimerFits
  <2> QED
    BY <2>1, <2>2
<1>5. ASSUME NEW t \in timers'
      PROVE  t.scope \in Scope /\ t = timed'[t.scope].handle /\ t # NoTimer
  <2>1. CASE t \in timers /\ t # timed[s].handle
    BY <1>1, <1>2, <2>1 DEF TimersFit
  <2>2. CASE t = r.handle /\ r.handle # NoTimer
    BY <1>2, <2>2, TimerOfFacts
  <2> QED
    BY <1>3, <2>1, <2>2
<1> QED
  BY <1>2, <1>4, <1>5 DEF TimersFit

\* As long as no scope becomes active or inactive, the chain fits.
LEMMA ChainKept ==
  ASSUME ChainFits, chain' = chain,
         \A s \in Scope : timed'[s].state = "active" <=> timed[s].state = "active"
  PROVE  ChainFits'
BY DEF ChainFits

\* __enter__() of s, that is r when it begins
LEMMA EnterStep ==
  ASSUME TimerInv, NEW s \in Scope, NEW r \in TimedScope, Timers!Enter(s, r),
         timed[s].state # "active", r.handle = NoTimer, r.state # "active", r.early = FALSE,
         r.expired => now >= r.deadline, now' = now, cut' = cut
  PROVE  TimerInv'
<1>1. now \in Nat /\ timed \in [Scope -> TimedScope] /\ ChainFits
  BY TimerAssumption DEF TimerInv
<1> DEFINE x == Timers!Timeout(r, s)
           y == [x EXCEPT !.state = "active"]
<1>2. timed' = [timed EXCEPT ![s] = y] /\ timers' = Timers!TimersAfter(s, y) /\ chain' = Append(chain, s)
  BY DEF Timers!Enter
<1>3. TimedOut(s, r, x) /\ x \in TimedScope
  BY <1>1, TimeoutFacts DEF TimedOut
<1> HIDE DEF x
<1>4. /\ y \in TimedScope /\ y.state = "active" /\ y.deadline = x.deadline
      /\ y.early = FALSE /\ y.handle = x.handle /\ y.called = x.called
      /\ y.expired = x.expired /\ x.deadline = r.deadline
  BY <1>3 DEF TimedScope, TimedOut
<1> HIDE DEF y
<1>5. TimerOf(s, y) = TimerOf(s, r)
  BY <1>3, <1>4 DEF TimerOf
<1>6. TimerFits(s, y, now, {y.handle}) /\ (y.handle # NoTimer => y.handle = TimerOf(s, y))
  <2>1. r.deadline # Never => TimerOf(s, r) # NoTimer
    BY TimerOfFacts
  <2> QED
    BY <1>3, <1>4, <1>5, <2>1 DEF TimerFits, TimedOut
<1>7. /\ timed' \in [Scope -> TimedScope] /\ timed'[s] = y /\ TimersFit'
      /\ \A u \in Scope \ {s} : timed'[u] = timed[u]
  BY <1>2, <1>4, <1>6, TimersStep
<1>8. ChainFits'
  <2>1. /\ chain \in Seq(Scope) /\ Len(chain) \in Nat
        /\ chain' \in Seq(Scope) /\ Len(chain') = Len(chain) + 1
        /\ chain'[Len(chain) + 1] = s /\ \A i \in 1..Len(chain) : chain'[i] = chain[i]
    BY <1>1, <1>2, AppendProperties, LenProperties DEF ChainFits
  <2>2. \A i \in 1..Len(chain) : chain[i] # s
    BY <1>1 DEF ChainFits
  <2>3. 1..Len(chain') = 1..Len(chain) \union {Len(chain) + 1}
    BY <2>1
  <2>4. \A i, j \in 1..Len(chain') : chain'[i] = chain'[j] => i = j
    <3>1. \A i, j \in 1..Len(chain) : chain[i] = chain[j] => i = j
      BY <1>1 DEF ChainFits
    <3>2. ASSUME NEW i \in 1..Len(chain'), NEW j \in 1..Len(chain'), chain'[i] = chain'[j]
          PROVE  i = j
      <4>1. CASE i \in 1..Len(chain) /\ j \in 1..Len(chain)
        BY <2>1, <3>1, <3>2, <4>1
      <4>2. CASE i = Len(chain) + 1 \/ j = Len(chain) + 1
        BY <2>1, <2>2, <2>3, <3>2, <4>2
      <4> QED
        BY <2>3, <4>1, <4>2
    <3> QED
      BY <3>2
  <2>5. \A u \in Scope : timed'[u].state = "active" <=> \E i \in 1..Len(chain') : chain'[i] = u
    <3>1. ASSUME NEW u \in Scope, u # s
          PROVE  (\E i \in 1..Len(chain') : chain'[i] = u) <=> \E i \in 1..Len(chain) : chain[i] = u
      BY <2>1, <2>3, <3>1
    <3> QED
      BY <1>1, <1>4, <1>7, <2>1, <2>3, <3>1 DEF ChainFits
  <2> QED
    BY <2>1, <2>4, <2>5 DEF ChainFits
<1> QED
  BY <1>7, <1>8 DEF TimerInv

\* fail_after() and move_on_after() make a scope; a scope that was left is entered again.
LEMMA CreateSteps ==
  ASSUME TimerInv, NEW s \in Scope,
         \/ \E kind \in {"fail_after", "move_on_after"}, delay \in 0..MaxDelay \union {Timers!Never},
               shield \in BOOLEAN : Timers!Create(s, kind, delay, shield)
         \/ Timers!EnterScope(s)
  PROVE  TimerInv'
<1>1. /\ timed[s] \in TimedScope /\ TimerFits(s, timed[s], now, timers)
      /\ now \in 0..MaxTime
  BY DEF TimerInv, TimersFit
<1>2. ASSUME NEW kind \in {"fail_after", "move_on_after"}, NEW delay \in 0..MaxDelay \union {Never},
             NEW shield \in BOOLEAN, Timers!Create(s, kind, delay, shield)
      PROVE  TimerInv'
  <2> DEFINE due == IF delay = Never THEN Never ELSE now + delay
             made == [timed[s] EXCEPT !.state = "made", !.kind = kind, !.shield = shield,
                        !.deadline = due]
  <2>1. /\ timed[s].state = "none" /\ now' = now /\ cut' = cut
        /\ IF kind = "fail_after" THEN Timers!Enter(s, made)
           ELSE timed' = [timed EXCEPT ![s] = made] /\ UNCHANGED <<chain, timers>>
    BY <1>2 DEF Timers!Create, Never
  <2>2. due \in 0..Never
    BY <1>1, NeverFacts, TimerAssumption
  <2> HIDE DEF due
  <2>3. /\ made \in TimedScope /\ made.state = "made" /\ made.handle = timed[s].handle
        /\ made.early = timed[s].early /\ made.expired = timed[s].expired
        /\ made.deadline = due
    BY <1>1, <2>2 DEF TimedScope
  <2>4. made.handle = NoTimer /\ made.early = FALSE
    BY <1>1, <2>1, <2>3 DEF TimerFits
  <2>5. made.expired = FALSE
    BY <1>1, <2>1, <2>3 DEF TimerFits
  <2> HIDE DEF made
  <2>6. CASE kind = "fail_after"
    BY <2>1, <2>3, <2>4, <2>5, <2>6, EnterStep
  <2>7. CASE kind # "fail_after"
    <3>1. timed' = [timed EXCEPT ![s] = made] /\ chain' = chain /\ timers' = timers
      BY <2>1, <2>7
    <3>2. timers' = Timers!TimersAfter(s, made)
      BY <2>3, <2>4, <3>1, NoTimerIsNone DEF Timers!TimersAfter, NoTimer
    <3>3. TimerFits(s, made, now, {made.handle})
      BY <2>3, <2>4, <2>5 DEF TimerFits
    <3>4. /\ timed' \in [Scope -> TimedScope] /\ timed'[s] = made /\ TimersFit'
          /\ \A u \in Scope \ {s} : timed'[u] = timed[u]
      BY <2>1, <2>3, <2>4, <3>1, <3>2, <3>3, TimersStep
    <3>5. ChainFits'
      BY <2>1, <2>3, <3>1, <3>4, ChainKept DEF TimerInv
    <3> QED
      BY <2>1, <3>4, <3>5 DEF TimerInv
  <2> QED
    BY <2>6, <2>7
<1>3. CASE Timers!EnterScope(s)
  <2>1. /\ timed[s].state \in {"made", "left"} /\ Timers!Enter(s, timed[s]) /\ now' = now
        /\ cut' = cut
    BY <1>3 DEF Timers!EnterScope
  <2> QED
    BY <1>1, <2>1, EnterStep DEF TimerFits
<1> QED
  BY <1>2, <1>3 DEF Never

\* The setter of deadline moves the timer of a scope that is active; cancel() drops it.
LEMMA MoveSteps ==
  ASSUME TimerInv, NEW s \in Scope,
         \/ \E deadline \in 0..(MaxTime + MaxDelay) \union {Timers!Never} :
               Timers!SetDeadline(s, deadline)
         \/ Timers!Cancel(s)
  PROVE  TimerInv'
<1>1. /\ timed[s] \in TimedScope /\ TimerFits(s, timed[s], now, timers)
      /\ now \in 0..MaxTime /\ now \in Nat
  BY TimerAssumption DEF TimerInv, TimersFit
<1>2. ASSUME NEW r \in TimedScope, timed' = [timed EXCEPT ![s] = r],
             timers' = Timers!TimersAfter(s, r), r.state = timed[s].state,
             r.handle # NoTimer => r.handle = TimerOf(s, r),
             TimerFits(s, r, now, {r.handle}), now' = now, chain' = chain, cut' = cut
      PROVE  TimerInv'
  <2>1. /\ timed' \in [Scope -> TimedScope] /\ timed'[s] = r /\ TimersFit'
        /\ \A u \in Scope \ {s} : timed'[u] = timed[u]
    BY <1>2, TimersStep
  <2>2. ChainFits'
    BY <1>2, <2>1, ChainKept DEF TimerInv
  <2> QED
    BY <1>2, <2>1, <2>2 DEF TimerInv
<1>3. ASSUME NEW deadline \in 0..(MaxTime + MaxDelay) \union {Never},
             Timers!SetDeadline(s, deadline)
      PROVE  TimerInv'
  <2> DEFINE at == [timed[s] EXCEPT !.deadline = deadline, !.expired = FALSE]
             moved == [at EXCEPT !.handle = NoTimer]
             x == Timers!Timeout(moved, s)
             r == IF moved.state = "active" /\ ~moved.called THEN x ELSE moved
  <2>1. /\ timed' = [timed EXCEPT ![s] = r] /\ timers' = Timers!TimersAfter(s, r)
        /\ now' = now /\ chain' = chain /\ cut' = cut /\ timed[s].state # "none"
    BY <1>3 DEF Timers!SetDeadline, Timers!TimerOff, NoTimer
  <2>2. deadline \in 0..Never
    BY <1>3, NeverFacts, TimerAssumption
  <2>3. /\ at \in TimedScope /\ at.state = timed[s].state /\ at.kind = timed[s].kind
        /\ at.deadline = deadline /\ at.called = timed[s].called /\ at.expired = FALSE
        /\ at.early = timed[s].early /\ at.caught = timed[s].caught /\ at.raised = timed[s].raised
    BY <1>1, <2>2 DEF TimedScope
  <2> HIDE DEF at
  <2>4. /\ moved \in TimedScope /\ moved.state = timed[s].state /\ moved.kind = timed[s].kind
        /\ moved.deadline = deadline /\ moved.called = timed[s].called /\ moved.expired = FALSE
        /\ moved.early = FALSE /\ moved.caught = timed[s].caught
        /\ moved.raised = timed[s].raised /\ moved.handle = NoTimer
    BY <1>1, <2>3, NeverFacts DEF TimedScope, TimerFits
  <2> HIDE DEF moved
  <2>5. TimedOut(s, moved, x) /\ x \in TimedScope /\ x.state = moved.state
        /\ x.deadline = moved.deadline
    BY <1>1, <2>4, TimeoutFacts DEF TimedOut
  <2> HIDE DEF x
  <2>6. TimerOf(s, x) = TimerOf(s, moved) /\ (moved.deadline # Never => TimerOf(s, moved) # NoTimer)
    BY <2>4, <2>5, TimerOfFacts DEF TimerOf
  <2>7. CASE moved.state = "active" /\ ~moved.called
    <3>1. r = x
      BY <2>7
    <3> HIDE DEF r
    <3>2. TimerFits(s, x, now, {x.handle}) /\ (x.handle # NoTimer => x.handle = TimerOf(s, x))
      BY <2>4, <2>5, <2>6, <2>7 DEF TimerFits, TimedOut
    <3> QED
      BY <1>2, <2>1, <2>4, <2>5, <3>1, <3>2
  <2>8. CASE ~(moved.state = "active" /\ ~moved.called)
    <3>1. r = moved
      BY <2>8
    <3> HIDE DEF r
    <3>2. TimerFits(s, moved, now, {moved.handle})
      BY <2>1, <2>4, <2>8 DEF TimerFits
    <3> QED
      BY <1>2, <2>1, <2>4, <3>1, <3>2
  <2> QED
    BY <2>7, <2>8
<1>4. CASE Timers!Cancel(s)
  <2> DEFINE r == [timed[s] EXCEPT !.called = TRUE, !.handle = NoTimer]
  <2>1. /\ timed' = [timed EXCEPT ![s] = r] /\ timers' = Timers!TimersAfter(s, r)
        /\ now' = now /\ chain' = chain /\ cut' = cut /\ timed[s].state # "none"
    BY <1>4 DEF Timers!Cancel, NoTimer
  <2>2. /\ r \in TimedScope /\ r.state = timed[s].state /\ r.kind = timed[s].kind
        /\ r.deadline = timed[s].deadline /\ r.called = TRUE /\ r.expired = timed[s].expired
        /\ r.early = timed[s].early /\ r.caught = timed[s].caught /\ r.raised = timed[s].raised
        /\ r.handle = NoTimer
    BY <1>1, NeverFacts DEF TimedScope
  <2> HIDE DEF r
  <2>3. TimerFits(s, r, now, {r.handle})
    BY <1>1, <2>1, <2>2 DEF TimerFits
  <2> QED
    BY <1>2, <2>1, <2>2, <2>3
<1> QED
  BY <1>3, <1>4 DEF Never

\* The loop calls _timeout(), too early or not.
LEMMA FireStep ==
  ASSUME TimerInv, NEW t \in timers, Timers!TimerFires(t)
  PROVE  TimerInv'
<1> DEFINE s == t.scope
           x == Timers!Timeout(timed[s], s)
<1>1. /\ s \in Scope /\ t = timed[s].handle /\ t # NoTimer
      /\ timed \in [Scope -> TimedScope] /\ timed[s] \in TimedScope
      /\ TimerFits(s, timed[s], now, timers) /\ now \in Nat
  BY TimerAssumption DEF TimerInv, TimersFit
<1>2. /\ timed' = [timed EXCEPT ![s] = x]
      /\ timers' = (timers \ {t}) \union
                      (IF x.handle = NoTimer \/ now >= x.deadline THEN {} ELSE {x.handle})
      /\ now' = now /\ chain' = chain /\ cut' = cut
  BY DEF Timers!TimerFires, NoTimer
<1> HIDE DEF s
<1>3. /\ x \in TimedScope /\ x.state = timed[s].state /\ x.deadline = timed[s].deadline
      /\ TimedOut(s, timed[s], x)
  BY <1>1, TimeoutFacts DEF TimerFits, TimedOut
<1> HIDE DEF x
<1>4. /\ timed[s].state = "active" /\ timed[s].deadline # Never /\ t = TimerOf(s, timed[s])
      /\ t.scope = s /\ t.at = timed[s].deadline
  BY <1>1, TimerOfFacts DEF TimerFits
<1>5. x.deadline \in Nat /\ TimerOf(s, x) = TimerOf(s, timed[s])
  BY <1>3, NeverFacts DEF TimedScope, TimerOf
<1>6. \/ x.handle = NoTimer /\ x.called = TRUE /\ timers' = timers \ {t}
      \/ x.handle = t /\ x.called = TRUE /\ timers' = timers \ {t}
      \/ x.handle = t /\ now < x.deadline /\ timers' = timers
  <2>1. timed[s].called \in BOOLEAN
    BY <1>1 DEF TimedScope
  <2>2. CASE now >= timed[s].deadline
    BY <1>1, <1>2, <1>3, <1>4, <1>5, <2>1, <2>2 DEF TimedOut
  <2>3. CASE now < timed[s].deadline
    BY <1>1, <1>2, <1>3, <1>4, <1>5, <2>3 DEF TimedOut
  <2>4. now >= timed[s].deadline \/ now < timed[s].deadline
    BY <1>1, <1>3, <1>5
  <2> QED
    BY <2>2, <2>3, <2>4
<1>7. TimerFits(s, x, now, timers')
  BY <1>1, <1>3, <1>4, <1>5, <1>6 DEF TimerFits, TimedOut
<1>8. /\ timed' \in [Scope -> TimedScope] /\ timed'[s] = x
      /\ \A u \in Scope : u # s => timed'[u] = timed[u]
  BY <1>1, <1>2, <1>3
<1>9. ASSUME NEW u \in Scope PROVE TimerFits(u, timed'[u], now, timers')
  <2>1. CASE u = s
    BY <1>7, <1>8, <2>1
  <2>2. CASE u # s
    <3>1. timed'[u] = timed[u] /\ TimerFits(u, timed[u], now, timers) /\ timed[u] \in TimedScope
      BY <1>1, <1>8, <2>2 DEF TimerInv, TimersFit
    <3>2. timed[u].handle # NoTimer => timed[u].handle.scope = u
      BY <3>1, TimerOfFacts DEF TimerFits
    <3>3. timed[u].handle # NoTimer /\ timed[u].handle \in timers => timed[u].handle \in timers'
      BY <1>4, <1>6, <2>2, <3>2
    <3> QED
      BY <3>1, <3>3 DEF TimerFits
  <2> QED
    BY <2>1, <2>2
<1>10. ASSUME NEW v \in timers'
       PROVE  v.scope \in Scope /\ v = timed'[v.scope].handle /\ v # NoTimer
  <2>1. v \in timers
    BY <1>6
  <2>2. v.scope \in Scope /\ v = timed[v.scope].handle /\ v # NoTimer
    BY <2>1 DEF TimerInv, TimersFit
  <2>3. CASE v.scope = s
    <3>1. v = t
      BY <1>1, <2>2, <2>3
    <3>2. x.handle = t
      BY <1>6, <3>1
    <3> QED
      BY <1>8, <2>2, <2>3, <3>1, <3>2
  <2>4. CASE v.scope # s
    BY <1>8, <2>2, <2>4
  <2> QED
    BY <2>3, <2>4
<1>11. TimersFit'
  BY <1>2, <1>9, <1>10 DEF TimersFit
<1>12. ChainFits'
  BY <1>2, <1>3, <1>8, ChainKept DEF TimerInv
<1> QED
  BY <1>2, <1>8, <1>11, <1>12 DEF TimerInv

\* Time goes by.
LEMMA TickStep ==
  ASSUME TimerInv, Timers!Tick
  PROVE  TimerInv'
<1>1. /\ now < MaxTime /\ now' = now + 1 /\ timed' = timed /\ chain' = chain
      /\ timers' = timers /\ cut' = cut
  BY DEF Timers!Tick
<1>2. now' \in 0..MaxTime /\ now \in Nat
  BY <1>1, TimerAssumption DEF TimerInv
<1>3. ASSUME NEW s \in Scope PROVE TimerFits(s, timed[s], now', timers)
  <2>1. timed[s].deadline \in Nat
    BY NeverFacts DEF TimerInv, TimedScope
  <2>2. TimerFits(s, timed[s], now, timers)
    BY DEF TimerInv, TimersFit
  <2>3. now >= timed[s].deadline => now' >= timed[s].deadline
    BY <1>1, <1>2, <2>1
  <2> QED
    BY <2>2, <2>3 DEF TimerFits
<1>4. TimersFit'
  BY <1>1, <1>3 DEF TimersFit, TimerInv
<1>5. ChainFits'
  BY <1>1 DEF ChainFits, TimerInv
<1> QED
  BY <1>1, <1>2, <1>4, <1>5 DEF TimerInv

\* __exit__() of the innermost scope
LEMMA ExitStep ==
  ASSUME TimerInv, NEW cutHere \in BOOLEAN, Timers!ExitScope(cutHere)
  PROVE  TimerInv'
<1> DEFINE s == chain[Len(chain)]
           parents == ~timed[s].shield /\ Timers!EffectivelyCancelled(Len(chain) - 1)
           caughtHere == cutHere /\ timed[s].called /\ ~parents
           raised == timed[s].kind = "fail_after" /\ caughtHere /\ now >= timed[s].deadline
           off == [timed[s] EXCEPT !.handle = NoTimer]
           r == [off EXCEPT !.state = "left", !.caught = caughtHere, !.raised = raised]
<1>1. /\ chain # <<>> /\ timed' = [timed EXCEPT ![s] = r]
      /\ timers' = Timers!TimersAfter(s, r) /\ cut' = (cutHere /\ ~caughtHere)
      /\ chain' = SubSeq(chain, 1, Len(chain) - 1) /\ now' = now
  BY DEF Timers!ExitScope, Timers!TimerOff, NoTimer
<1>2. /\ chain \in Seq(Scope) /\ Len(chain) \in Nat /\ Len(chain) > 0
      /\ \A i, j \in 1..Len(chain) : chain[i] = chain[j] => i = j
      /\ \A u \in Scope : timed[u].state = "active" <=> \E i \in 1..Len(chain) : chain[i] = u
      /\ timed \in [Scope -> TimedScope] /\ now \in Nat
  BY <1>1, TimerAssumption, EmptySeq, LenProperties DEF TimerInv, ChainFits
<1>3. s \in Scope /\ timed[s] \in TimedScope
  BY <1>2, ElementOfSeq
<1>4. caughtHere \in BOOLEAN /\ raised \in BOOLEAN
  OBVIOUS
<1>5. TimerFits(s, timed[s], now, timers)
  BY <1>3 DEF TimerInv, TimersFit
<1>6. timed[s].kind = "fail_after" /\ caughtHere /\ now >= timed[s].deadline => raised
  OBVIOUS
<1> HIDE DEF caughtHere, raised, s
<1>7. /\ off \in TimedScope /\ off.kind = timed[s].kind /\ off.deadline = timed[s].deadline
      /\ off.early = timed[s].early /\ off.expired = timed[s].expired /\ off.handle = NoTimer
  BY <1>3, NeverFacts DEF TimedScope
<1> HIDE DEF off
<1>8. /\ r \in TimedScope /\ r.state = "left" /\ r.handle = NoTimer /\ r.kind = timed[s].kind
      /\ r.deadline = timed[s].deadline /\ r.early = timed[s].early
      /\ r.expired = timed[s].expired /\ r.caught = caughtHere /\ r.raised = raised
  BY <1>4, <1>7 DEF TimedScope
<1> HIDE DEF r
<1>9. TimerFits(s, r, now, {r.handle})
  BY <1>5, <1>6, <1>8 DEF TimerFits
<1>10. /\ timed' \in [Scope -> TimedScope] /\ timed'[s] = r /\ TimersFit'
       /\ \A u \in Scope \ {s} : timed'[u] = timed[u]
  BY <1>1, <1>3, <1>8, <1>9, TimersStep
<1>11. /\ chain' \in Seq(Scope) /\ Len(chain') = Len(chain) - 1
       /\ \A i \in 1..(Len(chain) - 1) : chain'[i] = chain[i]
  <2> DEFINE n == Len(chain) - 1
  <2>1. n \in Nat /\ n = n - 1 + 1 /\ 1 \in Int /\ n \in Int
    BY <1>2
  <2>2. \A i \in 1..n : chain[i] \in Scope
    BY <1>2, ElementOfSeq
  <2> HIDE DEF n
  <2>3. /\ SubSeq(chain, 1, n) \in Seq(Scope)
        /\ Len(SubSeq(chain, 1, n)) = IF 1 <= n THEN n - 1 + 1 ELSE 0
        /\ \A i \in 1..(n - 1 + 1) : SubSeq(chain, 1, n)[i] = chain[1 + i - 1]
    BY <2>1, <2>2, SubSeqProperties
  <2>4. Len(SubSeq(chain, 1, n)) = n
    BY <2>1, <2>3
  <2>5. \A i \in 1..n : SubSeq(chain, 1, n)[i] = chain[i]
    BY <2>1, <2>3
  <2> QED
    BY <1>1, <2>3, <2>4, <2>5 DEF n
<1>12. \A u \in Scope \ {s} : (\E i \in 1..Len(chain') : chain'[i] = u)
                              <=> \E i \in 1..Len(chain) : chain[i] = u
  BY <1>2, <1>11 DEF s
<1>13. \A i \in 1..Len(chain') : chain'[i] # s
  BY <1>2, <1>11 DEF s
<1>14. ChainFits'
  <2>1. \A i, j \in 1..Len(chain') : chain'[i] = chain'[j] => i = j
    BY <1>2, <1>11
  <2>2. \A u \in Scope : timed'[u].state = "active" <=> \E i \in 1..Len(chain') : chain'[i] = u
    BY <1>2, <1>8, <1>10, <1>12, <1>13
  <2> QED
    BY <1>11, <2>1, <2>2 DEF ChainFits
<1>15. cut' \in BOOLEAN
  BY <1>1
<1> QED
  BY <1>1, <1>10, <1>14, <1>15 DEF TimerInv

LEMMA NextTimers == TimerInv /\ [Timers!DeadlineNext]_(Timers!deadlineVars) => TimerInv'
<1> SUFFICES ASSUME TimerInv, [Timers!DeadlineNext]_(Timers!deadlineVars) PROVE TimerInv'
  OBVIOUS
<1>1. CASE UNCHANGED Timers!deadlineVars
  BY <1>1 DEF Timers!deadlineVars, TimerInv, TimersFit, ChainFits
<1> QED
  BY <1>1, CreateSteps, MoveSteps, FireStep, TickStep, ExitStep DEF Timers!DeadlineNext, Never

\* A set of deadlines and of -math.inf has a least one.
LEMMA EarliestFacts ==
  ASSUME NEW S, S # {}, \A x \in S : x \in Nat \/ x = -1
  PROVE  \E x \in S : \A y \in S : x <= y
<1> DEFINE T == {x + 1 : x \in S}
<1>1. T \subseteq Nat /\ T # {}
  OBVIOUS
<1>2. PICK m \in T : \A n \in T : ~(<<n, m>> \in OpToRel(<, Nat))
  BY <1>1, WFMin, NatLessThanWellFounded
<1>3. \A n \in T : ~(n < m)
  BY <1>1, <1>2 DEF OpToRel
<1>4. PICK x \in S : m = x + 1
  BY <1>2
<1>5. \A y \in S : x <= y
  <2>1. ASSUME NEW y \in S PROVE x <= y
    <3>1. y + 1 \in T
      OBVIOUS
    <3>2. ~(y + 1 < x + 1)
      BY <1>3, <1>4, <3>1
    <3> QED
      BY <1>4, <3>2
  <2> QED
    BY <2>1
<1> QED
  BY <1>5

Earliest(S) == CHOOSE x \in S : \A y \in S : x <= y

\* What the i-th scope of the chain says, and what is seen from the n-th one
Due(i) == IF timed[chain[i]].called THEN -1 ELSE timed[chain[i]].deadline
Seen(n) == {Never} \union {Due(i) : i \in Timers!Visible(n)}

LEMMA DueFacts ==
  ASSUME TimerInv, NEW i \in 1..Len(chain)
  PROVE  /\ Due(i) \in Nat \/ Due(i) = -1
         /\ Due(i) = -1 <=> timed[chain[i]].called
         /\ Due(i) <= timed[chain[i]].deadline
         /\ timed[chain[i]].deadline \in Nat
<1>1. chain[i] \in Scope
  BY ElementOfSeq DEF TimerInv, ChainFits
<1>2. timed[chain[i]].deadline \in Nat /\ timed[chain[i]].called \in BOOLEAN
  BY <1>1, NeverFacts DEF TimerInv, TimedScope
<1> QED
  BY <1>2 DEF Due

\* A scope is seen from the n-th one if it is the n-th one, or seen from the one before
\* and the n-th is no shield.
LEMMA SeenFacts ==
  ASSUME TimerInv
  PROVE  /\ Timers!Visible(0) = {} /\ Seen(0) = {Never}
         /\ \A n \in 1..Len(chain) :
              /\ Timers!Visible(n) = {n} \union (IF timed[chain[n]].shield THEN {}
                                                ELSE Timers!Visible(n - 1))
              /\ Seen(n) = {Due(n)} \union (IF timed[chain[n]].shield THEN {Never} ELSE Seen(n - 1))
         /\ \A n \in 0..Len(chain) :
              /\ Timers!Visible(n) \subseteq 1..Len(chain)
              /\ Seen(n) # {} /\ \A x \in Seen(n) : x \in Nat \/ x = -1
<1>0. Len(chain) \in Nat
  BY LenProperties DEF TimerInv, ChainFits
<1>1. Timers!Visible(0) = {}
  BY DEF Timers!Visible
<1>2. ASSUME NEW n \in 1..Len(chain)
      PROVE  Timers!Visible(n) = {n} \union (IF timed[chain[n]].shield THEN {}
                                             ELSE Timers!Visible(n - 1))
  <2>1. n \in Nat /\ n >= 1 /\ n \in Int /\ n - 1 \in Int
    BY <1>0
  <2>2. n \in Timers!Visible(n)
    BY <2>1 DEF Timers!Visible
  <2>3. ASSUME NEW i \in 1..(n - 1)
        PROVE  i \in Timers!Visible(n) <=> ~timed[chain[n]].shield /\ i \in Timers!Visible(n - 1)
    <3>1. i \in 1..n /\ (i + 1)..n = ((i + 1)..(n - 1)) \union {n}
      BY <2>1
    <3> QED
      BY <3>1 DEF Timers!Visible
  <2>4. \A i : i \in Timers!Visible(n) => i = n \/ i \in 1..(n - 1)
    BY <2>1 DEF Timers!Visible
  <2>5. \A i : i \in Timers!Visible(n - 1) => i \in 1..(n - 1)
    BY DEF Timers!Visible
  <2> QED
    BY <2>2, <2>3, <2>4, <2>5
<1>3. \A n \in 1..Len(chain) :
        Seen(n) = {Due(n)} \union (IF timed[chain[n]].shield THEN {Never} ELSE Seen(n - 1))
  BY <1>2 DEF Seen
<1>4. ASSUME NEW n \in 0..Len(chain)
      PROVE  /\ Timers!Visible(n) \subseteq 1..Len(chain)
             /\ Seen(n) # {} /\ \A x \in Seen(n) : x \in Nat \/ x = -1
  <2>1. Timers!Visible(n) \subseteq 1..Len(chain)
    BY <1>0 DEF Timers!Visible
  <2> QED
    BY <2>1, NeverFacts, DueFacts DEF Seen
<1> QED
  BY <1>1, <1>2, <1>3, <1>4 DEF Seen

\* The recursive function of current_effective_deadline(): one that satisfies its
\* equation is exhibited, and each of them is that one.
LEMMA EffectiveDeadlineIs ==
  ASSUME TimerInv
  PROVE  Timers!EffectiveDeadline = Earliest(Seen(Len(chain)))
<1> DEFINE L == Len(chain)
           Outer(fn, n) == IF timed[chain[n]].shield THEN Never ELSE fn[n - 1]
           Here(fn, n) == IF timed[chain[n]].called THEN -1
                         ELSE IF timed[chain[n]].deadline < Outer(fn, n)
                              THEN timed[chain[n]].deadline ELSE Outer(fn, n)
           Next1(fn) == [n \in 0..L |-> IF n = 0 THEN Never ELSE Here(fn, n)]
           w == [n \in 0..L |-> Earliest(Seen(n))]
           over == CHOOSE fn : fn = Next1(fn)
<1>0. L \in Nat
  BY LenProperties DEF TimerInv, ChainFits
<1>1. ASSUME NEW n \in 0..L
      PROVE  /\ w[n] = Earliest(Seen(n)) /\ w[n] \in Seen(n) /\ \A y \in Seen(n) : w[n] <= y
             /\ w[n] \in Nat \/ w[n] = -1
  <2>1. Seen(n) # {} /\ \A x \in Seen(n) : x \in Nat \/ x = -1
    BY SeenFacts
  <2>2. \E x \in Seen(n) : \A y \in Seen(n) : x <= y
    BY <2>1, EarliestFacts
  <2>3. Earliest(Seen(n)) \in Seen(n) /\ \A y \in Seen(n) : Earliest(Seen(n)) <= y
    BY <2>2 DEF Earliest
  <2> QED
    BY <2>1, <2>3
<1>2. w[0] = Never
  <2>1. 0 \in 0..L
    BY <1>0
  <2> QED
    BY <1>1, <2>1, SeenFacts
<1>3. ASSUME NEW n \in 1..L, NEW fn, fn[n - 1] = w[n - 1]
      PROVE  w[n] = Here(fn, n)
  <2>1. n \in 0..L /\ n - 1 \in 0..L
    BY <1>0
  <2>2. Seen(n) = {Due(n)} \union (IF timed[chain[n]].shield THEN {Never} ELSE Seen(n - 1))
    BY SeenFacts
  <2> DEFINE out == Outer(fn, n)
  <2>3. /\ out \in Seen(n) /\ (out \in Nat \/ out = -1)
        /\ \A y \in Seen(n) : y = Due(n) \/ out <= y
    BY <1>1, <1>3, <2>1, <2>2, NeverFacts
  <2>4. /\ w[n] \in Seen(n) /\ (\A y \in Seen(n) : w[n] <= y) /\ Due(n) \in Seen(n)
        /\ (w[n] \in Nat \/ w[n] = -1)
    BY <1>1, <2>1, <2>2
  <2>5. /\ Here(fn, n) = IF timed[chain[n]].called THEN -1
                        ELSE IF timed[chain[n]].deadline < out THEN timed[chain[n]].deadline ELSE out
    OBVIOUS
  <2>6. /\ Due(n) \in Nat \/ Due(n) = -1
        /\ Due(n) = IF timed[chain[n]].called THEN -1 ELSE timed[chain[n]].deadline
    BY DueFacts DEF Due
  <2> DEFINE x == w[n]
             isCalled == timed[chain[n]].called
             at == timed[chain[n]].deadline
             due == Due(n)
             h == Here(fn, n)
  <2>7. /\ x = due \/ out <= x
        /\ x <= out /\ x <= due
        /\ x \in Nat \/ x = -1
        /\ out \in Nat \/ out = -1
        /\ due \in Nat \/ due = -1
        /\ due = IF isCalled THEN -1 ELSE at
        /\ h = IF isCalled THEN -1 ELSE IF at < out THEN at ELSE out
    BY <2>3, <2>4, <2>5, <2>6
  <2> HIDE DEF x, isCalled, at, due, h, out
  <2>8. x = h
    BY <2>7
  <2> QED
    BY <2>8 DEF x, h
<1> HIDE DEF w
<1>4. w = Next1(w)
  <2>1. \A n \in 0..L : w[n] = Next1(w)[n]
    <3>1. ASSUME NEW n \in 0..L PROVE w[n] = Next1(w)[n]
      <4>1. CASE n = 0
        BY <1>2, <4>1
      <4>2. CASE n # 0
        <5>1. n \in 1..L
          BY <1>0, <4>2
        <5>2. w[n] = Here(w, n)
          BY <1>3, <5>1, SMTT(30)
        <5> QED
          BY <4>2, <5>2
      <4> QED
        BY <4>1, <4>2
    <3> QED
      BY <3>1
  <2> QED
    BY <2>1 DEF w
<1>5. over = Next1(over)
  BY <1>4
<1>6. Timers!EffectiveDeadline = over[L]
  BY DEF Timers!EffectiveDeadline, Timers!Cancelled, Never
<1> HIDE DEF over
<1> DEFINE Bad == {n \in 0..L : over[n] # w[n]}
<1>10. Bad \subseteq 0..L /\ \A n \in 0..L : n \in Bad <=> over[n] # w[n]
  OBVIOUS
<1> HIDE DEF Bad
<1>7. Bad = {}
  <2> SUFFICES ASSUME Bad # {} PROVE FALSE
    OBVIOUS
  <2>1. PICK m \in Bad : \A y \in Bad : m <= y
    <3>1. \A y \in Bad : y \in Nat \/ y = -1
      BY <1>0, <1>10
    <3> QED
      BY <3>1, EarliestFacts
  <2>7. m \in 0..L /\ over[m] # w[m]
    BY <1>10
  <2>2. m # 0
    BY <1>0, <1>2, <1>5, <2>7
  <2>3. m \in 1..L /\ m - 1 \in 0..L
    BY <1>0, <2>2, <2>7
  <2>4. over[m - 1] = w[m - 1]
    <3>1. m - 1 \notin Bad
      BY <1>0, <2>1, <2>3
    <3> QED
      BY <1>10, <2>3, <3>1
  <2>5. w[m] = Here(over, m)
    BY <1>3, <2>3, <2>4
  <2>6. over[m] = Here(over, m)
    <3>1. over[m] = Next1(over)[m]
      BY <1>5
    <3>2. Next1(over)[m] = Here(over, m)
      BY <2>2, <2>7
    <3> QED
      BY <3>1, <3>2, SMTT(30)
  <2> QED
    BY <2>5, <2>6, <2>7
<1>8. L \in 0..L
  BY <1>0
<1>9. over[L] = w[L]
  BY <1>7, <1>8, <1>10
<1> QED
  BY <1>1, <1>6, <1>8, <1>9

LEMMA TimersHold == TimerInv => Timers!TimersFollowDeadlines
<1> SUFFICES ASSUME TimerInv PROVE Timers!TimersFollowDeadlines
  OBVIOUS
<1> DEFINE L == Len(chain)
           least == Timers!EffectiveDeadline
<1>1. L \in Nat /\ L \in 0..L
  BY LenProperties DEF TimerInv, ChainFits
<1>2. /\ Timers!Visible(L) \subseteq 1..L /\ Seen(L) # {}
      /\ \A x \in Seen(L) : x \in Nat \/ x = -1
  BY <1>1, SeenFacts
<1>3. least \in Seen(L) /\ \A y \in Seen(L) : least <= y
  BY <1>2, EarliestFacts, EffectiveDeadlineIs DEF Earliest
<1> HIDE DEF least, L
<1>4. ASSUME NEW i \in Timers!Visible(L)
      PROVE  /\ Due(i) \in Seen(L) /\ (Due(i) = -1 <=> timed[chain[i]].called)
             /\ Due(i) <= timed[chain[i]].deadline /\ timed[chain[i]].deadline \in Nat
             /\ (Due(i) \in Nat \/ Due(i) = -1)
  BY <1>2, DueFacts DEF Seen, L
<1>5. Timers!EffectivelyCancelled(L) <=> -1 \in Seen(L)
  <2>1. Never # -1
    BY NeverFacts
  <2> QED
    BY <1>4, <2>1 DEF Timers!EffectivelyCancelled, Seen
<1>6. -1 \in Seen(L) <=> least = -1
  BY <1>2, <1>3
<1>7. \A i \in Timers!Visible(L) : least <= timed[chain[i]].deadline
  <2>1. least \in Nat \/ least = -1
    BY <1>2, <1>3
  <2> QED
    BY <1>3, <1>4, <2>1
<1>8. ASSUME NEW s \in Scope
      PROVE  LET live == {t.at : t \in {u \in timers : u.scope = s}}
             IN /\ live \subseteq (IF timed[s].state = "active" THEN {timed[s].deadline} ELSE {})
                /\ timed[s].state = "active" /\ ~timed[s].called /\ live = {} =>
                     timed[s].deadline = Never
  <2> DEFINE live == {t.at : t \in {u \in timers : u.scope = s}}
  <2>1. TimerFits(s, timed[s], now, timers) /\ timed[s] \in TimedScope
    BY DEF TimerInv, TimersFit
  <2>2. timed[s].handle # NoTimer =>
          timed[s].handle.scope = s /\ timed[s].handle.at = timed[s].deadline
    BY <2>1, TimerOfFacts DEF TimerFits
  <2>3. \A t \in timers : t.scope = s => t = timed[s].handle /\ t # NoTimer
    BY DEF TimerInv, TimersFit
  <2>4. live \subseteq (IF timed[s].state = "active" THEN {timed[s].deadline} ELSE {})
    BY <2>1, <2>2, <2>3 DEF TimerFits
  <2>5. ASSUME timed[s].state = "active", ~timed[s].called, timed[s].deadline # Never
        PROVE  live # {}
    <3>1. timed[s].handle \in timers /\ timed[s].handle.scope = s
      BY <2>1, <2>2, <2>5 DEF TimerFits
    <3> QED
      BY <3>1
  <2> QED
    BY <2>4, <2>5
<1>9. ASSUME NEW s \in Scope
      PROVE  /\ ~timed[s].early
             /\ timed[s].state = "left" /\ timed[s].kind = "fail_after" =>
                  (timed[s].caught /\ timed[s].expired => timed[s].raised)
  BY DEF TimerInv, TimersFit, TimerFits
<1> QED
  BY <1>5, <1>6, <1>7, <1>8, <1>9 DEF Timers!TimersFollowDeadlines, Timers!Cancelled, L, least, Never
-----------------------------------------------------------------------------
(* run(): what the Runner's handler of SIGINT has counted, and what the main *)
(* task has come to, at each stage of the run.                               *)

run == a
handler == b
main == c
background == d
executor == e

USE DEF run, handler, main, background, executor

RunState ==
  [phase : {"none", "running", "closing", "executor", "over"},
   inMainThread : BOOLEAN, uncancels : BOOLEAN,
   library : {"none", "asyncio"}, before : {"none", "asyncio"},
   interrupts : Nat, sigints : Nat, replaced : BOOLEAN, cutShort : BOOLEAN,
   outcome : {"none", "refused", "interrupt", "value", "error", "cancelled"}]
MainState ==
  [state : {"none", "pending", "value", "error", "cancelled"},
   due : BOOLEAN, requests : Nat, byOthers : Nat]

RunTypeOK ==
  /\ run \in RunState /\ main \in MainState
  /\ handler \in {"default", "custom", "runner"}
  /\ background \in [Background -> {"none", "pending", "cancelling", "done"}]
  /\ executor \in {"idle", "busy"}

\* close() has gathered the tasks.
TasksEnded == main.state # "pending" /\ \A t \in Background : background[t] # "cancelling"

\* The call has been through with what it does, and was not interrupted in close().
WellOver == run.phase = "over" /\ run.outcome # "refused" /\ ~run.cutShort

StagesFit ==
  /\ run.phase = "none" =>
       /\ handler # "runner" /\ run.library = run.before
       /\ main.state = "none" /\ main.due = FALSE /\ run.sigints = 0 /\ run.interrupts = 0
  /\ handler = "runner" => run.phase = "running" /\ run.sigints = run.interrupts
  /\ run.phase = "over" => run.library = run.before
  /\ run.phase = "executor" \/ WellOver => TasksEnded
  /\ WellOver => executor = "idle"

\* Whose requests the main task has, and what the run has come to if it is cancelled
RequestsFit ==
  /\ run.interrupts <= 1
  /\ main.requests <= run.interrupts + main.byOthers
  /\ run.phase = "running" /\ main.due => run.interrupts > 0 \/ main.byOthers > 0
  /\ run.phase = "running" /\ main.state = "cancelled" /\ main.byOthers = 0 =>
       run.interrupts > 0
  /\ run.phase = "closing" /\ main.state = "pending" => run.outcome = "interrupt"
  /\ /\ run.phase \in {"closing", "executor", "over"} /\ main.state = "cancelled"
     /\ main.byOthers = 0 /\ run.uncancels
     => run.outcome = "interrupt"

RunInv == RunTypeOK /\ StagesFit /\ RequestsFit

\* The run has not begun.
LEMMA InitRun == Run!RunInit => RunInv
<1> SUFFICES ASSUME Run!RunInit PROVE RunInv
  OBVIOUS
<1>1. /\ run \in RunState /\ run.phase = "none" /\ run.library = run.before
      /\ run.interrupts = 0 /\ run.sigints = 0
  BY DEF Run!RunInit, RunState
<1>2. /\ main \in MainState /\ main.state = "none" /\ main.due = FALSE
      /\ main.requests = 0 /\ main.byOthers = 0
  BY DEF Run!RunInit, MainState
<1>3. handler \in {"default", "custom"} /\ executor = "idle"
  BY DEF Run!RunInit
<1>4. background \in [Background -> {"none", "pending", "cancelling", "done"}]
  BY DEF Run!RunInit
<1> QED
  BY <1>1, <1>2, <1>3, <1>4 DEF RunInv, RunTypeOK, StagesFit, WellOver, RequestsFit

\* _cancel_all_tasks() leaves each task in one of its states.
LEMMA ToCancelType ==
  ASSUME RunInv
  PROVE  Run!ToCancel \in [Background -> {"none", "pending", "cancelling", "done"}]
<1>1. background \in [Background -> {"none", "pending", "cancelling", "done"}]
  BY DEF RunInv, RunTypeOK
<1> QED
  BY <1>1 DEF Run!ToCancel

\* A step of the main task: how its state and its requests may change
LEMMA MainStep ==
  ASSUME RunInv, main' \in MainState, run' = run, handler' = handler,
         background' = background, executor' = executor,
         Run!Alive, main.state = "pending",
         main'.requests <= run.interrupts + main'.byOthers,
         main'.byOthers = main.byOthers \/ main'.byOthers > 0,
         main'.due => main.due \/ main'.byOthers > 0,
         main'.state = "cancelled" => main.due
  PROVE  RunInv'
<1> USE DEF RunInv, RunTypeOK
<1>1. RunTypeOK'
  OBVIOUS
<1>2. run.phase \in {"running", "closing"}
  BY DEF Run!Alive, StagesFit, TasksEnded
<1>3. StagesFit'
  BY <1>2 DEF StagesFit, WellOver
<1>4. RequestsFit'
  BY <1>2 DEF RequestsFit, MainState
<1> QED
  BY <1>1, <1>3, <1>4

\* KeyboardInterrupt comes out of run_until_complete().
LEMMA InterruptedStep ==
  ASSUME RunInv, Run!Alive, NEW inMain \in BOOLEAN, Run!Interrupted(inMain),
         executor' = executor
  PROVE  RunInv'
<1> USE DEF RunInv, RunTypeOK
<1> DEFINE next == IF run.phase = "running" THEN "closing" ELSE "over"
           late == run.phase # "running"
           lib == IF run.phase = "running" THEN run.library ELSE run.before
           seen == run.sigints + 1
           isDue == main.due \/ (run.phase = "running" /\ main.state = "pending")
<1>1. /\ next \in {"closing", "over"} /\ lib \in {"none", "asyncio"}
      /\ late \in BOOLEAN /\ isDue \in BOOLEAN /\ seen \in Nat
      /\ next = "over" => late = TRUE /\ lib = run.before
  BY DEF RunState, MainState
<1>2. run' = [run EXCEPT !.phase = next, !.cutShort = late, !.library = lib,
                         !.sigints = seen, !.outcome = "interrupt"]
  BY DEF Run!Interrupted
<1>3. main' = IF inMain THEN [main EXCEPT !.state = "error", !.due = FALSE]
              ELSE [main EXCEPT !.due = isDue]
  BY DEF Run!Interrupted
<1>4. /\ background' \in [Background -> {"none", "pending", "cancelling", "done"}]
      /\ handler' \in {"default", "custom"}
  BY ToCancelType DEF Run!Interrupted, Run!HandlerBack
<1> HIDE DEF next, late, lib, seen, isDue
<1>5. /\ run' \in RunState /\ run'.phase \in {"closing", "over"} /\ run'.outcome = "interrupt"
      /\ run'.interrupts = run.interrupts
      /\ run'.phase = "over" => run'.cutShort = TRUE /\ run'.library = run'.before
  BY <1>1, <1>2 DEF RunState
<1>6. /\ main' \in MainState /\ main'.requests = main.requests
      /\ main'.byOthers = main.byOthers
  BY <1>1, <1>3 DEF MainState
<1>7. RunTypeOK' /\ StagesFit'
  BY <1>4, <1>5, <1>6 DEF StagesFit, WellOver
<1>8. RequestsFit'
  BY <1>5, <1>6 DEF RequestsFit
<1> QED
  BY <1>7, <1>8

\* A SIGINT: the handler of the runner cancels the main task once.
LEMMA SigintStep ==
  ASSUME RunInv, Run!Sigint
  PROVE  RunInv'
<1> USE DEF RunInv, RunTypeOK
<1>1. Run!Alive /\ executor' = executor
  BY DEF Run!Sigint
<1>2. CASE /\ handler = "runner" /\ Run!MayCancel
           /\ run' = [run EXCEPT !.interrupts = @ + 1, !.sigints = @ + 1]
           /\ main' = [main EXCEPT !.due = TRUE, !.requests = @ + 1]
           /\ UNCHANGED <<handler, background>>
  <2>1. run.interrupts = 0 /\ main.state = "pending" /\ run.phase = "running" /\ run.sigints = 0
    BY <1>2 DEF Run!MayCancel, StagesFit
  <2>8. run' = [run EXCEPT !.interrupts = 1, !.sigints = 1]
    BY <1>2, <2>1
  <2>2. run' \in RunState /\ run'.phase = "running" /\ run'.interrupts = 1 /\ run'.sigints = 1
    BY <2>1, <2>8 DEF RunState
  <2> DEFINE all == main.requests + 1
  <2>6. main' = [main EXCEPT !.due = TRUE, !.requests = all] /\ all \in Nat
    BY <1>2 DEF MainState
  <2>7. all <= 1 + main.byOthers
    BY <2>1 DEF RequestsFit, MainState
  <2> HIDE DEF all
  <2>3. /\ main' \in MainState /\ main'.requests = all
        /\ main'.byOthers = main.byOthers /\ main'.state = main.state
    BY <2>6 DEF MainState
  <2>4. RunTypeOK' /\ StagesFit'
    BY <1>1, <1>2, <2>2, <2>3 DEF StagesFit, WellOver
  <2>5. RequestsFit'
    BY <2>1, <2>2, <2>3, <2>7 DEF RequestsFit
  <2> QED
    BY <2>4, <2>5
<1>3. ASSUME NEW inMain \in BOOLEAN, Run!Interrupted(inMain) PROVE RunInv'
  BY <1>1, <1>3, InterruptedStep
<1> QED
  BY <1>2, <1>3 DEF Run!Sigint

\* The main task is cancelled, catches it, or ends.
LEMMA MainSteps ==
  ASSUME RunInv,
         \/ Run!CancelMain
         \/ \E undo \in BOOLEAN : Run!MainGoesOn(undo)
         \/ \E state \in {"value", "error", "cancelled"} : Run!MainEnds(state)
  PROVE  RunInv'
<1>0. /\ main \in MainState /\ main.requests <= run.interrupts + main.byOthers
      /\ run.interrupts \in Nat
  BY DEF RunInv, RunTypeOK, RequestsFit, RunState
<1>1. CASE Run!CancelMain
  <2> DEFINE all == main.requests + 1
             theirs == main.byOthers + 1
  <2>0. all \in Nat /\ theirs \in Nat /\ theirs > 0 /\ all <= run.interrupts + theirs
    BY <1>0 DEF MainState
  <2>4. main' = [main EXCEPT !.due = TRUE, !.requests = all, !.byOthers = theirs]
    BY <1>1 DEF Run!CancelMain
  <2> HIDE DEF all, theirs
  <2>1. /\ main' \in MainState /\ main'.state = main.state
        /\ main'.requests = all /\ main'.byOthers = theirs
    BY <1>0, <2>0, <2>4 DEF MainState
  <2>5. main.state = "pending"
    BY <1>1 DEF Run!CancelMain
  <2>2. /\ Run!Alive /\ run' = run /\ handler' = handler /\ background' = background
        /\ executor' = executor
    BY <1>1 DEF Run!CancelMain, Run!Alive
  <2>3. main'.requests <= run.interrupts + main'.byOthers /\ main'.byOthers > 0
    BY <2>0, <2>1
  <2> QED
    BY <2>1, <2>2, <2>3, <2>5, MainStep
<1>2. ASSUME NEW undo \in BOOLEAN, Run!MainGoesOn(undo) PROVE RunInv'
  <2> DEFINE left == IF undo THEN main.requests - 1 ELSE main.requests
  <2>6. main.requests \in Nat /\ (undo => main.requests > 0)
    BY <1>0, <1>2 DEF Run!MainGoesOn, MainState
  <2>1. left \in Nat /\ left <= main.requests
    BY <2>6
  <2>2. main' = [main EXCEPT !.due = FALSE, !.requests = left]
    BY <1>2 DEF Run!MainGoesOn
  <2> HIDE DEF left
  <2>3. /\ main' \in MainState /\ main'.requests = left /\ main'.byOthers = main.byOthers
        /\ main'.due = FALSE /\ main'.state = main.state
    BY <1>0, <2>1, <2>2 DEF MainState
  <2>4. /\ Run!Alive /\ main.state = "pending" /\ run' = run /\ handler' = handler
        /\ background' = background /\ executor' = executor
    BY <1>2 DEF Run!MainGoesOn
  <2>5. main'.requests <= run.interrupts + main'.byOthers
    BY <1>0, <2>1, <2>3 DEF MainState
  <2> QED
    BY <2>3, <2>4, <2>5, MainStep
<1>3. ASSUME NEW state \in {"value", "error", "cancelled"}, Run!MainEnds(state) PROVE RunInv'
  <2>1. /\ main' \in MainState /\ main'.requests = main.requests
        /\ main'.byOthers = main.byOthers /\ main'.due = FALSE /\ main'.state = state
    BY <1>0, <1>3 DEF Run!MainEnds, MainState
  <2>2. /\ Run!Alive /\ main.state = "pending" /\ run' = run /\ handler' = handler
        /\ background' = background /\ executor' = executor
        /\ main.due <=> state = "cancelled"
    BY <1>3 DEF Run!MainEnds
  <2> QED
    BY <1>0, <2>1, <2>2, MainStep
<1> QED
  BY <1>1, <1>2, <1>3

\* The other tasks and the executor step.
LEMMA OtherSteps ==
  ASSUME RunInv, Run!ExecutorSteps \/ \E t \in Background : Run!BackgroundSteps(t)
  PROVE  RunInv'
<1> USE DEF RunInv, RunTypeOK
<1>1. run' = run /\ main' = main /\ handler' = handler /\ Run!Alive
  BY DEF Run!ExecutorSteps, Run!BackgroundSteps
<1>2. run.phase # "over"
  BY <1>1 DEF Run!Alive
<1>3. /\ executor' \in {"idle", "busy"}
      /\ background' \in [Background -> {"none", "pending", "cancelling", "done"}]
      /\ \A t \in Background : background'[t] = "cancelling" => background[t] = "cancelling"
  BY DEF Run!ExecutorSteps, Run!BackgroundSteps
<1>4. StagesFit'
  BY <1>1, <1>2, <1>3 DEF StagesFit, WellOver, TasksEnded
<1>5. RequestsFit'
  BY <1>1 DEF RequestsFit
<1> QED
  BY <1>1, <1>3, <1>4, <1>5

\* The stages of the call
LEMMA StageSteps ==
  ASSUME RunInv,
         \/ Run!CallRun \/ Run!RunEnds \/ Run!TasksGone \/ Run!LoopCloses
         \/ \E new \in {"default", "custom"} : Run!SetHandler(new)
  PROVE  RunInv'
<1> USE DEF RunInv, RunTypeOK
<1>1. CASE Run!CallRun
  <2>1. CASE Run!Refused
    <3>1. /\ run' \in RunState /\ run'.phase = "over" /\ run'.outcome = "refused"
          /\ run'.library = run.library /\ run'.before = run.before
          /\ run'.interrupts = run.interrupts
          /\ main' = main /\ handler' = handler /\ background' = background
          /\ executor' = executor /\ run.phase = "none"
      BY <1>1, <2>1, ZenonT(40) DEF Run!CallRun, RunState
    <3> QED
      BY <3>1 DEF StagesFit, WellOver, RequestsFit
  <2>2. CASE ~Run!Refused
    <3>1. /\ run' \in RunState /\ run'.phase = "running" /\ run'.sigints = run.sigints
          /\ run'.interrupts = run.interrupts
          /\ background' = background /\ executor' = executor /\ run.phase = "none"
          /\ handler' \in {"default", "custom", "runner"}
      BY <1>1, <2>2, ZenonT(40) DEF Run!CallRun, RunState
    <3>2. /\ main' \in MainState /\ main'.state = "pending" /\ main'.due = main.due
          /\ main'.requests = main.requests /\ main'.byOthers = main.byOthers
      BY <1>1, <2>2 DEF Run!CallRun, MainState
    <3> QED
      BY <3>1, <3>2 DEF StagesFit, WellOver, RequestsFit
  <2> QED
    BY <2>1, <2>2
<1>2. CASE Run!RunEnds
  <2>1. /\ run.phase = "running" /\ main.state # "pending" /\ main' = main
        /\ executor' = executor /\ handler' \in {"default", "custom"}
        /\ run' = [run EXCEPT !.phase = "closing", !.outcome = Run!Outcome]
        /\ background' \in [Background -> {"none", "pending", "cancelling", "done"}]
    BY <1>2, ToCancelType DEF Run!RunEnds, Run!Closing, Run!HandlerBack
  <2>2. Run!Outcome \in {"none", "interrupt", "value", "error", "cancelled"}
    BY <2>1 DEF Run!Outcome, MainState
  <2>3. main.state = "cancelled" /\ main.byOthers = 0 /\ run.uncancels => Run!Outcome = "interrupt"
    BY <2>1 DEF Run!Outcome, RequestsFit, MainState, RunState
  <2>4. /\ run' \in RunState /\ run'.phase = "closing" /\ run'.outcome = Run!Outcome
        /\ run'.interrupts = run.interrupts /\ run'.uncancels = run.uncancels
    BY <2>1, <2>2 DEF RunState
  <2> QED
    BY <2>1, <2>3, <2>4 DEF StagesFit, WellOver, RequestsFit
<1>3. CASE Run!TasksGone
  <2>1. /\ run' \in RunState /\ run'.phase = "executor" /\ run'.outcome = run.outcome
        /\ run'.interrupts = run.interrupts /\ run'.uncancels = run.uncancels
        /\ main' = main /\ handler' = handler /\ background' = background
        /\ executor' = executor /\ TasksEnded /\ run.phase = "closing"
    BY <1>3 DEF Run!TasksGone, Run!Gathered, TasksEnded, RunState
  <2> QED
    BY <2>1 DEF StagesFit, WellOver, RequestsFit, TasksEnded
<1>4. CASE Run!LoopCloses
  <2>1. /\ run' \in RunState /\ run'.phase = "over" /\ run'.outcome = run.outcome
        /\ run'.library = run'.before
        /\ run'.interrupts = run.interrupts /\ run'.uncancels = run.uncancels
        /\ main' = main /\ handler' = handler /\ background' = background
        /\ executor' = executor /\ executor = "idle" /\ run.phase = "executor"
    BY <1>4 DEF Run!LoopCloses, Run!ExecutorShutDown, RunState
  <2> QED
    BY <2>1 DEF StagesFit, WellOver, RequestsFit, TasksEnded
<1>5. ASSUME NEW new \in {"default", "custom"}, Run!SetHandler(new) PROVE RunInv'
  <2>1. /\ run' \in RunState /\ run'.phase = "running" /\ run.phase = "running"
        /\ run'.outcome = run.outcome
        /\ run'.interrupts = run.interrupts /\ run'.uncancels = run.uncancels
        /\ main' = main /\ handler' = new /\ background' = background
        /\ executor' = executor
    BY <1>5 DEF Run!SetHandler, RunState
  <2> QED
    BY <2>1 DEF StagesFit, WellOver, RequestsFit
<1> QED
  BY <1>1, <1>2, <1>3, <1>4, <1>5

LEMMA NextRun == RunInv /\ [Run!RunNext]_(Run!runVars) => RunInv'
<1> SUFFICES ASSUME RunInv, [Run!RunNext]_(Run!runVars) PROVE RunInv'
  OBVIOUS
<1>1. CASE UNCHANGED Run!runVars
  BY <1>1 DEF Run!runVars, RunInv, RunTypeOK, StagesFit, RequestsFit, WellOver, TasksEnded
<1> QED
  BY <1>1, SigintStep, MainSteps, OtherSteps, StageSteps DEF Run!RunNext

LEMMA RunHolds == RunInv => Run!RunLeavesNothing
<1> SUFFICES ASSUME RunInv PROVE Run!RunLeavesNothing
  OBVIOUS
<1>1. run.phase = "running" /\ handler = "runner" => run.sigints <= 1
  BY DEF RunInv, StagesFit, RequestsFit
<1> QED
  BY <1>1 DEF RunInv, Run!RunLeavesNothing, StagesFit, WellOver, TasksEnded, RequestsFit
-----------------------------------------------------------------------------
(* A behaviour is one of the component that its initial state has chosen.    *)

ComponentInv ==
  /\ component = "Provider" => PPInv
  /\ component = "Plugin" => PluginIInv
  /\ component = "Adapter" => AdapterInv
  /\ component = "Vars" => RunVarIInv
  /\ component = "Context" => EnteredInv
  /\ component = "Portal" => PortalInv
  /\ component = "Threads" => WorkersInv
  /\ component = "Processes" => ProcessesInv
  /\ component = "Subprocess" => ChildInv
  /\ component = "Start" => StartInv
  /\ component = "Tests" => TestInv
  /\ component = "Timers" => TimerInv
  /\ component = "Run" => RunInv

\* The first state is one of the component.
LEMMA InitComponent == Init => ComponentInv
<1> SUFFICES ASSUME Init PROVE ComponentInv
  OBVIOUS
<1>1. component = "Provider" => PPInv
  <2>1. component = "Provider" => Provider!ProviderInit
    BY DEF Init
  <2> QED
    BY <2>1, InitPPInv
<1>2. component = "Plugin" => PluginIInv
  <2>1. component = "Plugin" => Plugin!PluginInit
    BY DEF Init
  <2> QED
    BY <2>1, InitPlugin
<1>3. component = "Adapter" => AdapterInv
  <2>1. component = "Adapter" => Adapter!AdapterInit
    BY DEF Init
  <2> QED
    BY <2>1, InitAdapter
<1>4. component = "Vars" => RunVarIInv
  <2>1. component = "Vars" => Vars!RunVarInit
    BY DEF Init
  <2> QED
    BY <2>1, InitVars
<1>5. component = "Context" => EnteredInv
  <2>1. component = "Context" => Entered!ContextInit
    BY DEF Init
  <2> QED
    BY <2>1, InitEntered
<1>6. component = "Portal" => PortalInv
  <2>1. component = "Portal" => Portal!PortalInit
    BY DEF Init
  <2> QED
    BY <2>1, InitPortal
<1>7. component = "Threads" => WorkersInv
  <2>1. component = "Threads" => Threads!ThreadInit
    BY DEF Init
  <2> QED
    BY <2>1, InitThreads
<1>8. component = "Processes" => ProcessesInv
  <2>1. component = "Processes" => Processes!PoolInit
    BY DEF Init
  <2> QED
    BY <2>1, InitPool
<1>9. component = "Subprocess" => ChildInv
  <2>1. component = "Subprocess" => Child!ProcessInit
    BY DEF Init
  <2> QED
    BY <2>1, InitChild
<1>10. component = "Start" => StartInv
  <2>1. component = "Start" => Start!StartInit
    BY DEF Init
  <2> QED
    BY <2>1, InitStart
<1>11. component = "Tests" => TestInv
  <2>1. component = "Tests" => Tests!RunnerInit
    BY DEF Init
  <2> QED
    BY <2>1, InitTests
<1>12. component = "Timers" => TimerInv
  <2>1. component = "Timers" => Timers!DeadlineInit
    BY DEF Init
  <2> QED
    BY <2>1, InitTimers
<1>13. component = "Run" => RunInv
  <2>1. component = "Run" => Run!RunInit
    BY DEF Init
  <2> QED
    BY <2>1, InitRun
<1> QED
  BY <1>1, <1>2, <1>3, <1>4, <1>5, <1>6, <1>7, <1>8, <1>9, <1>10, <1>11, <1>12, <1>13 DEF ComponentInv

\* Every step is a step of the component, or leaves it alone.
LEMMA NextComponent == ComponentInv /\ [Next]_allVars => ComponentInv'
<1> SUFFICES ASSUME ComponentInv, [Next]_allVars PROVE ComponentInv'
  OBVIOUS
<1>0. component' = component
  BY DEF Next, allVars
<1>1. component = "Provider" => PPInv'
  <2>1. component = "Provider" => PPInv /\ [Provider!ProviderNext]_(Provider!providerVars)
    BY DEF Next, allVars, Provider!providerVars, ComponentInv
  <2> QED
    BY <2>1, NextPPInv
<1>2. component = "Plugin" => PluginIInv'
  <2>1. component = "Plugin" => PluginIInv /\ [Plugin!PluginNext]_(Plugin!pluginVars)
    BY DEF Next, allVars, Plugin!pluginVars, ComponentInv
  <2> QED
    BY <2>1, NextPlugin
<1>3. component = "Adapter" => AdapterInv'
  <2>1. component = "Adapter" => AdapterInv /\ [Adapter!AdapterNext]_(Adapter!adapterVars)
    BY DEF Next, allVars, Adapter!adapterVars, ComponentInv
  <2> QED
    BY <2>1, NextAdapter
<1>4. component = "Vars" => RunVarIInv'
  <2>1. component = "Vars" => RunVarIInv /\ [Vars!RunVarNext]_(Vars!runVarVars)
    BY DEF Next, allVars, Vars!runVarVars, ComponentInv
  <2> QED
    BY <2>1, NextVars
<1>5. component = "Context" => EnteredInv'
  <2>1. component = "Context" => EnteredInv /\ [Entered!ContextNext]_(Entered!contextVars)
    BY DEF Next, allVars, Entered!contextVars, ComponentInv
  <2> QED
    BY <2>1, NextEntered
<1>6. component = "Portal" => PortalInv'
  <2>1. component = "Portal" => PortalInv /\ [Portal!PortalNext]_(Portal!portalVars)
    BY DEF Next, allVars, Portal!portalVars, ComponentInv
  <2> QED
    BY <2>1, NextPortal
<1>7. component = "Threads" => WorkersInv'
  <2>1. component = "Threads" => WorkersInv /\ [Threads!ThreadNext]_(Threads!threadVars)
    BY DEF Next, allVars, Threads!threadVars, ComponentInv
  <2> QED
    BY <2>1, NextWorkers
<1>8. component = "Processes" => ProcessesInv'
  <2>1. component = "Processes" => ProcessesInv /\ [Processes!PoolNext]_(Processes!poolVars)
    BY DEF Next, allVars, Processes!poolVars, ComponentInv
  <2> QED
    BY <2>1, NextProcesses
<1>9. component = "Subprocess" => ChildInv'
  <2>1. component = "Subprocess" => ChildInv /\ [Child!ProcessNext]_(Child!processVars)
    BY DEF Next, allVars, Child!processVars, ComponentInv
  <2> QED
    BY <2>1, NextChild
<1>10. component = "Start" => StartInv'
  <2>1. component = "Start" => StartInv /\ [Start!StartNext]_(Start!startVars)
    BY DEF Next, allVars, Start!startVars, ComponentInv
  <2> QED
    BY <2>1, NextStart
<1>11. component = "Tests" => TestInv'
  <2>1. component = "Tests" => TestInv /\ [Tests!RunnerNext]_(Tests!runnerVars)
    BY DEF Next, allVars, Tests!runnerVars, ComponentInv
  <2> QED
    BY <2>1, NextTests
<1>12. component = "Timers" => TimerInv'
  <2>1. component = "Timers" => TimerInv /\ [Timers!DeadlineNext]_(Timers!deadlineVars)
    BY DEF Next, allVars, Timers!deadlineVars, ComponentInv
  <2> QED
    BY <2>1, NextTimers
<1>13. component = "Run" => RunInv'
  <2>1. component = "Run" => RunInv /\ [Run!RunNext]_(Run!runVars)
    BY DEF Next, allVars, Run!runVars, ComponentInv
  <2> QED
    BY <2>1, NextRun
<1> QED
  BY <1>0, <1>1, <1>2, <1>3, <1>4, <1>5, <1>6, <1>7, <1>8, <1>9, <1>10, <1>11, <1>12, <1>13 DEF ComponentInv

LEMMA ComponentInvHolds == Spec => []ComponentInv
BY InitComponent, NextComponent, PTL DEF Spec

\* A user of a portal, or a test, that is inside a lease has the portal, or the runner,
\* that the lease gave it, and no one who leaves before it stops that; the portal may
\* stop only because its own loop ends or a call stops it, and the runner may fail to
\* close (BlockingPortalProvider.__exit__, TestRunner of the pytest plugin).
THEOREM LeasedOnesRun == Spec => []LeasesHold
<1>1. ComponentInv => LeasesHold
  BY ProviderHolds, PluginHolds DEF ComponentInv, LeasesHold
<1> QED
  BY <1>1, ComponentInvHolds, PTL

\* An adapter shows what a primitive made at once would show, before, in and after its
\* first loop, but for the fast_acquire of a semaphore; a RunVar has in each loop what
\* was set there last and not reset, as long as its tokens are used in their own loop
\* and the newest first (RunVar.set(), RunVar.reset()).
THEOREM NoSettingLost == Spec => []SettingsKept
<1>1. ComponentInv => SettingsKept
  BY AdapterHolds, VarsHold DEF ComponentInv, SettingsKept
<1> QED
  BY <1>1, ComponentInvHolds, PTL

\* The idle threads of to_thread.run_sync() are alive, have nothing to do and stand in
\* the order in which they became idle, so that those at the end have rested least; and
\* a thread that was pruned has no work left.
THEOREM WorkersInOrder == Spec => []WorkersHold
<1>1. ComponentInv => WorkersHold
  BY ThreadsHold DEF ComponentInv, WorkersHold
<1> QED
  BY <1>1, ComponentInvHolds, PTL

\* A function that may not be abandoned does not run on after its caller has gone on,
\* and it holds a token while it runs (to_thread.run_sync(), its shielded scope).
THEOREM CallsStayShielded == Spec => []CallsShielded
<1>1. ComponentInv => CallsShielded
  BY ThreadsHold DEF ComponentInv, CallsShielded
<1> QED
  BY <1>1, ComponentInvHolds, PTL

\* to_process.run_sync(): a live worker process rests, is in the hands of exactly one
\* call, or is one that a call let go of for good, when it could not start it or was
\* cancelled while it pruned; a call that gave up a worker that worked has killed it;
\* run_process() returns or raises with its process reaped and its output whole.
THEOREM EveryProcessHasAPlace == Spec => []ProcessesInOnePlace
<1>1. ComponentInv => ProcessesInOnePlace
  BY PoolHolds, ChildHolds DEF ComponentInv, ProcessesInOnePlace
<1> QED
  BY <1>1, ComponentInvHolds, PTL

\* from_thread: the call of a thread that waits is with the loop or has a task of the
\* portal that is to answer it, unless the loop ended before it took the call; no such
\* task outlives the portal but one that was spawned in its last checkpoint; and a
\* context that a thread has entered through the portal is exited (BlockingPortal,
\* _BlockingAsyncContextManager).
THEOREM EveryThreadAnswered == Spec => []ThreadsAnswered
<1>1. ComponentInv => ThreadsAnswered
  BY PortalHolds, EnteredHolds DEF ComponentInv, ThreadsAnswered
<1> QED
  BY <1>1, ComponentInvHolds, PTL

\* TaskGroup.start(): the exception of a child comes out once, and no child is left to a
\* caller that is gone; TestRunner: an exception of a callback comes out once, of the
\* first call then or later whose end lets it out, and no call passes before; run(): an
\* interrupt comes out, and no task, job or signal handler is left behind.
THEOREM EveryExceptionComesOut == Spec => []ExceptionsComeOut
<1>1. ComponentInv => ExceptionsComeOut
  BY StartHolds, TestsHold, RunHolds DEF ComponentInv, ExceptionsComeOut
<1> QED
  BY <1>1, ComponentInvHolds, PTL

\* CancelScope.deadline, fail_after(), current_effective_deadline(): a scope that a task
\* is in has the timer of its present deadline and no other, it is not cancelled by a
\* timer before that deadline, fail_after() raises TimeoutError whenever its deadline,
\* and nothing around it, cut its block, and the effective deadline is -math.inf exactly
\* when a cancellation is seen.
THEOREM DeadlinesAreKept == Spec => []TimersFollowDeadlines
<1>1. ComponentInv => TimersFollowDeadlines
  BY TimersHold DEF ComponentInv, TimersFollowDeadlines
<1> QED
  BY <1>1, ComponentInvHolds, PTL
=============================================================================
