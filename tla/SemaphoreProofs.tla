-------------------------- MODULE SemaphoreProofs --------------------------
(***************************************************************************)
(* Proofs about Semaphore for any set of tasks and any values: tokens are  *)
(* neither lost nor made up, and are served in order.  That the counter    *)
(* and the tokens of the tasks add up needs the agreement of the deque and *)
(* the futures: a cancelled waiter gives a token back exactly when it was  *)
(* given one.                                                              *)
(***************************************************************************)
EXTENDS Semaphore, QueueLemmas, FiniteSetTheorems

Counted == IsFiniteSet(Holders) /\ Conservation

IInv == TypeOK /\ QueueAgrees /\ Counted

\* The three ways in which the set of holders changes, and what becomes of its size.
LEMMA HolderJoins ==
  ASSUME IsFiniteSet(Holders), NEW w, w \notin Holders, Holders' = Holders \cup {w}
  PROVE  IsFiniteSet(Holders') /\ Cardinality(Holders') = Cardinality(Holders) + 1
BY FS_AddElement

LEMMA HolderLeaves ==
  ASSUME IsFiniteSet(Holders), NEW t, t \in Holders, Holders' = Holders \ {t}
  PROVE  /\ IsFiniteSet(Holders') /\ Cardinality(Holders') = Cardinality(Holders) - 1
         /\ Cardinality(Holders) \in Nat /\ Cardinality(Holders) > 0
<1>1. Cardinality(Holders) \in Nat /\ Cardinality(Holders) # 0
  BY FS_CardinalityType, FS_EmptySet
<1> QED
  BY <1>1, FS_RemoveElement

LEMMA HolderReplaced ==
  ASSUME IsFiniteSet(Holders), NEW t, NEW w, t \in Holders, w \notin Holders,
         Holders' = (Holders \ {t}) \cup {w}
  PROVE  IsFiniteSet(Holders') /\ Cardinality(Holders') = Cardinality(Holders)
<1>1. /\ IsFiniteSet(Holders \ {t})
      /\ Cardinality(Holders \ {t}) = Cardinality(Holders) - 1
      /\ Cardinality(Holders) \in Nat
  BY FS_RemoveElement, FS_CardinalityType
<1>2. /\ IsFiniteSet(Holders')
      /\ Cardinality(Holders') = Cardinality(Holders \ {t}) + 1
  BY <1>1, FS_AddElement
<1> QED
  BY <1>1, <1>2

\* In an injective queue the entry at a position is the only one of its task.
LEMMA RemoveAtFacts ==
  ASSUME NEW s \in Seq(Task), NEW k \in DOMAIN s, IsInjective(s)
  PROVE  /\ RemoveAt(s, k) \in Seq(Task)
         /\ IsInjective(RemoveAt(s, k))
         /\ \A x : Contains(RemoveAt(s, k), x) <=> Contains(s, x) /\ x # s[k]
<1>1. RemoveFirst(s, s[k]) = RemoveAt(s, k)
  BY FirstPosition
<1>2. Contains(s, s[k])
  BY LenProperties DEF Contains
<1> QED
  BY <1>1, <1>2, RemoveFirstFacts

\* What release() does to the deque and the counter, called with f for the futures: one
\* live waiter gets the token and leaves the deque, or the counter goes up.
LEMMA PassFacts ==
  ASSUME TypeOK, QueueAgrees, NEW f \in [Task -> FutureState],
         \A w \in Task : Contains(waiters, w) => f[w] = fut[w],
         Pass(f)
  PROVE  \/ value' = value + 1 /\ fut' = f /\ waiters' = waiters
         \/ \E w \in Task :
              /\ pc[w] = "queued" /\ fut[w] = "pending" /\ f[w] = "pending"
              /\ fut' = [f EXCEPT ![w] = "result"]
              /\ waiters' \in Seq(Task) /\ IsInjective(waiters')
              /\ \A x : Contains(waiters', x) <=> Contains(waiters, x) /\ x # w
              /\ value' = value
<1>1. CASE \E i \in DOMAIN waiters : f[waiters[i]] # "cancelled"
  <2>1. PICK i \in DOMAIN waiters :
          /\ f[waiters[i]] # "cancelled"
          /\ fut' = [f EXCEPT ![waiters[i]] = "result"]
          /\ waiters' = RemoveAt(waiters, i)
          /\ value' = value
    BY <1>1 DEF Pass
  <2>2. waiters[i] \in Task /\ Contains(waiters, waiters[i])
    BY LenProperties, ElementOfSeq DEF TypeOK, Contains
  <2>3. /\ pc[waiters[i]] = "queued" /\ fut[waiters[i]] \in {"pending", "cancelled"}
        /\ f[waiters[i]] = fut[waiters[i]]
    BY <2>2 DEF QueueAgrees
  <2>4. /\ waiters' \in Seq(Task) /\ IsInjective(waiters')
        /\ \A x : Contains(waiters', x) <=> Contains(waiters, x) /\ x # waiters[i]
    BY <2>1, RemoveAtFacts DEF TypeOK, QueueAgrees
  <2> QED
    BY <2>1, <2>2, <2>3, <2>4
<1>2. CASE ~\E i \in DOMAIN waiters : f[waiters[i]] # "cancelled"
  BY <1>2 DEF Pass
<1> QED
  BY <1>1, <1>2

\* At first the tokens are in the counter.
LEMMA InitIInv == Init => IInv
<1> SUFFICES ASSUME Init PROVE IInv
  OBVIOUS
<1> USE DEF Init, TaskInit
<1>1. TypeOK
  BY EmptySeq, SemaphoreAssumption DEF TypeOK, TaskTypeOK, Places, FutureState
<1>2. QueueAgrees
  BY DEF QueueAgrees, Contains, IsInjective
<1>3. Holders = {}
  BY DEF Holders
<1>4. Counted
  BY <1>3, FS_EmptySet, SemaphoreAssumption DEF Counted, Conservation
<1> QED
  BY <1>1, <1>2, <1>4 DEF IInv

\* Who is counted depends on where the tasks are and on their futures only.
LEMMA HoldersFacts ==
  /\ \A u : u \in Holders <=> /\ u \in Task
                              /\ \/ pc[u] \in {"hold", "yield"}
                                 \/ pc[u] = "queued" /\ fut[u] = "result"
  /\ \A u : u \in Holders' <=> /\ u \in Task
                               /\ \/ pc'[u] \in {"hold", "yield"}
                                  \/ pc'[u] = "queued" /\ fut'[u] = "result"
BY DEF Holders

\* A task that has a token ends in release(), with f for the futures: the token goes
\* to a waiter, into the counter, or out of circulation.
LEMMA GivingStep ==
  ASSUME IInv, NEW t \in Task, t \in Holders, NEW f \in [Task -> FutureState],
         f[t] = "none", \A u \in Task \ {t} : f[u] = fut[u],
         GiveBack(f), Move(t, "idle"),
         mustCancel' \in [Task -> BOOLEAN], scope' \in [Task -> {"open", "cancelled"}]
  PROVE  IInv'
<1>0. TypeOK /\ QueueAgrees /\ IsFiniteSet(Holders) /\ Conservation
  BY DEF IInv, Counted
<1>1. \A u \in Task : pc'[u] = IF u = t THEN "idle" ELSE pc[u]
  BY <1>0 DEF Move, TypeOK, TaskTypeOK
<1>2. pc' \in [Task -> Places]
  BY <1>0 DEF Move, TypeOK, TaskTypeOK, Places
<1>3. ~Contains(waiters, t)
  BY <1>0, HoldersFacts DEF QueueAgrees
<1>4. CASE \E w \in Task :
             /\ pc[w] = "queued" /\ fut[w] = "pending" /\ f[w] = "pending"
             /\ fut' = [f EXCEPT ![w] = "result"]
             /\ waiters' \in Seq(Task) /\ IsInjective(waiters')
             /\ \A x : Contains(waiters', x) <=> Contains(waiters, x) /\ x # w
             /\ value' = value /\ issued' = issued
  <2>1. PICK w \in Task :
             /\ pc[w] = "queued" /\ fut[w] = "pending" /\ f[w] = "pending"
             /\ fut' = [f EXCEPT ![w] = "result"]
             /\ waiters' \in Seq(Task) /\ IsInjective(waiters')
             /\ \A x : Contains(waiters', x) <=> Contains(waiters, x) /\ x # w
             /\ value' = value /\ issued' = issued
    BY <1>4
  <2>2. w # t /\ w \notin Holders
    BY <2>1, HoldersFacts
  <2>3. \A u \in Task : fut'[u] = IF u = w THEN "result" ELSE IF u = t THEN "none" ELSE fut[u]
    BY <2>1, <2>2
  <2>4. TypeOK'
    BY <2>1, <1>0, <1>2 DEF TypeOK, TaskTypeOK, FutureState
  <2>5. QueueAgrees'
    BY <2>1, <2>2, <2>3, <1>0, <1>1, <1>3 DEF QueueAgrees
  <2>6. Holders' = (Holders \ {t}) \cup {w}
    BY <2>1, <2>2, <2>3, <1>1, HoldersFacts
  <2>7. Counted'
    BY <2>1, <2>2, <2>6, <1>0, HolderReplaced DEF Counted, Conservation
  <2> QED
    BY <2>4, <2>5, <2>7 DEF IInv
<1>5. CASE /\ fut' = f /\ waiters' = waiters
           /\ \/ value' = value + 1 /\ issued' = issued
              \/ value' = value /\ issued' = issued - 1
  <2>1. \A u \in Task : fut'[u] = IF u = t THEN "none" ELSE fut[u]
    BY <1>5
  <2>2. QueueAgrees'
    BY <1>5, <2>1, <1>0, <1>1, <1>3 DEF QueueAgrees
  <2>3. Holders' = Holders \ {t}
    BY <2>1, <1>1, HoldersFacts
  <2>4. /\ IsFiniteSet(Holders') /\ Cardinality(Holders') = Cardinality(Holders) - 1
        /\ Cardinality(Holders) \in Nat /\ Cardinality(Holders) > 0
    BY <2>3, <1>0, HolderLeaves
  <2>5. value' \in Nat /\ issued' \in Nat /\ Counted'
    BY <1>5, <2>4, <1>0 DEF Counted, Conservation, TypeOK
  <2>6. TypeOK'
    BY <1>5, <2>5, <1>0, <1>2 DEF TypeOK, TaskTypeOK
  <2> QED
    BY <2>2, <2>5, <2>6 DEF IInv
<1>6. CASE Pass(f) /\ issued' = issued
  <2>1. \A w \in Task : Contains(waiters, w) => f[w] = fut[w]
    BY <1>3
  <2> QED
    BY <2>1, <1>0, <1>4, <1>5, <1>6, PassFacts
<1> QED
  BY <1>5, <1>6 DEF GiveBack

\* A step that takes no future from the deque and puts none into it, and that gives t a
\* token out of the counter or leaves the tokens alone.
LEMMA OutsideQueue ==
  ASSUME IInv, NEW t \in Task, NEW place \in Places \ {"queued"},
         pc[t] # "queued", Move(t, place),
         fut' = fut, waiters' = waiters, issued' = issued,
         mustCancel' \in [Task -> BOOLEAN], scope' \in [Task -> {"open", "cancelled"}],
         \/ value' = value /\ (pc[t] \in {"hold", "yield"} <=> place \in {"hold", "yield"})
         \/ /\ value # 0 /\ value' = value - 1
            /\ pc[t] \notin {"hold", "yield"} /\ place \in {"hold", "yield"}
  PROVE  IInv'
<1>0. TypeOK /\ QueueAgrees /\ IsFiniteSet(Holders) /\ Conservation
  BY DEF IInv, Counted
<1>1. \A u \in Task : pc'[u] = IF u = t THEN place ELSE pc[u]
  BY <1>0 DEF Move, TypeOK, TaskTypeOK
<1>2. TypeOK'
  BY <1>0 DEF Move, TypeOK, TaskTypeOK
<1>3. QueueAgrees'
  BY <1>0, <1>1 DEF QueueAgrees
<1>4. CASE value' = value /\ (pc[t] \in {"hold", "yield"} <=> place \in {"hold", "yield"})
  <2>1. Holders' = Holders
    BY <1>1, <1>4, HoldersFacts
  <2> QED
    BY <2>1, <1>0, <1>2, <1>3, <1>4 DEF IInv, Counted, Conservation
<1>5. CASE /\ value # 0 /\ value' = value - 1
           /\ pc[t] \notin {"hold", "yield"} /\ place \in {"hold", "yield"}
  <2>1. t \notin Holders /\ Holders' = Holders \cup {t}
    BY <1>1, <1>5, HoldersFacts
  <2>2. /\ IsFiniteSet(Holders') /\ Cardinality(Holders') = Cardinality(Holders) + 1
        /\ Cardinality(Holders) \in Nat
    BY <2>1, <1>0, HolderJoins, FS_CardinalityType
  <2>3. Counted'
    BY <2>2, <1>0, <1>5 DEF Counted, Conservation, TypeOK
  <2> QED
    BY <2>3, <1>2, <1>3 DEF IInv
<1> QED
  BY <1>4, <1>5

\* Cancellation changes a future only from "pending" to "cancelled", which neither the
\* deque nor the tokens depend on.
LEMMA CancellingStep ==
  ASSUME IInv, NEW t \in Task, Cancelling(t)
  PROVE  IInv'
<1>0. TypeOK /\ QueueAgrees /\ IsFiniteSet(Holders) /\ Conservation
  BY DEF IInv, Counted
<1>1. /\ pc' = pc /\ value' = value /\ waiters' = waiters /\ issued' = issued
      /\ mustCancel' \in [Task -> BOOLEAN] /\ scope' \in [Task -> {"open", "cancelled"}]
      /\ \/ fut' = fut
         \/ fut[t] = "pending" /\ fut' = [fut EXCEPT ![t] = "cancelled"]
  BY <1>0 DEF Cancelling, ScopeCancel, Redeliver, NativeCancel, LeaveScope, TaskCancel,
              TypeOK, TaskTypeOK
<1>2. TypeOK'
  BY <1>0, <1>1 DEF TypeOK, TaskTypeOK, FutureState
<1>3. QueueAgrees'
  BY <1>0, <1>1 DEF QueueAgrees, TypeOK, TaskTypeOK
<1>4. Holders' = Holders
  <2>1. \A u \in Task : fut'[u] = "result" <=> fut[u] = "result"
    BY <1>0, <1>1 DEF TypeOK, TaskTypeOK
  <2> QED
    BY <1>1, <2>1, HoldersFacts
<1> QED
  BY <1>0, <1>1, <1>2, <1>3, <1>4 DEF IInv, Counted, Conservation

\* A waiter is stepped: it has a token already, is given none, or gives it back.
LEMMA QueuedStep ==
  ASSUME IInv, NEW t \in Task, ResumeQueued(t)
  PROVE  IInv'
<1>0. TypeOK /\ QueueAgrees /\ IsFiniteSet(Holders) /\ Conservation
  BY DEF IInv, Counted
<1>1. pc[t] = "queued" /\ fut[t] \in {"result", "cancelled"}
  BY <1>0 DEF ResumeQueued, Runnable, QueueAgrees, TypeOK, TaskTypeOK, FutureState
<1>2. /\ Stepped(t) \in [Task -> FutureState] /\ Stepped(t)[t] = "none"
      /\ \A u \in Task \ {t} : Stepped(t)[u] = fut[u]
  BY <1>0 DEF Stepped, TypeOK, TaskTypeOK, FutureState
<1>3. CASE /\ ~Raises(t) /\ Move(t, "hold") /\ fut' = Stepped(t)
           /\ UNCHANGED <<mustCancel, scope, value, waiters, issued>>
  <2>1. fut[t] = "result"
    BY <1>1, <1>3 DEF Raises
  <2>2. \A u \in Task : pc'[u] = IF u = t THEN "hold" ELSE pc[u]
    BY <1>0, <1>3 DEF Move, TypeOK, TaskTypeOK
  <2>3. TypeOK'
    BY <1>0, <1>2, <1>3 DEF Move, TypeOK, TaskTypeOK, Places
  <2>4. QueueAgrees'
    BY <1>0, <1>1, <1>2, <1>3, <2>1, <2>2 DEF QueueAgrees
  <2>5. Holders' = Holders
    BY <1>1, <1>2, <1>3, <2>1, <2>2, HoldersFacts
  <2> QED
    BY <1>0, <1>3, <2>3, <2>4, <2>5 DEF IInv, Counted, Conservation
<1>4. CASE Raises(t) /\ Withdraw(t) /\ Move(t, "idle") /\ Unwind(t)
  <2>1. mustCancel' \in [Task -> BOOLEAN] /\ scope' \in [Task -> {"open", "cancelled"}]
    BY <1>0, <1>4 DEF Unwind, TypeOK, TaskTypeOK
  <2>2. CASE Contains(waiters, t)
    <3>1. /\ waiters' = RemoveFirst(waiters, t) /\ fut' = Stepped(t)
          /\ value' = value /\ issued' = issued
      BY <1>4, <2>2 DEF Withdraw
    <3>2. /\ waiters' \in Seq(Task) /\ IsInjective(waiters')
          /\ \A x : Contains(waiters', x) <=> Contains(waiters, x) /\ x # t
      BY <1>0, <2>2, <3>1, RemoveFirstFacts DEF TypeOK, QueueAgrees
    <3>3. \A u \in Task : pc'[u] = IF u = t THEN "idle" ELSE pc[u]
      BY <1>0, <1>4 DEF Move, TypeOK, TaskTypeOK
    <3>4. TypeOK'
      BY <1>0, <1>2, <1>4, <2>1, <3>1, <3>2 DEF Move, TypeOK, TaskTypeOK, Places
    <3>5. QueueAgrees'
      BY <1>0, <1>2, <3>1, <3>2, <3>3 DEF QueueAgrees
    <3>6. t \notin Holders /\ Holders' = Holders
      BY <1>0, <1>1, <1>2, <2>2, <3>1, <3>3, HoldersFacts DEF QueueAgrees
    <3> QED
      BY <1>0, <3>1, <3>4, <3>5, <3>6 DEF IInv, Counted, Conservation
  <2>3. CASE ~Contains(waiters, t)
    <3>1. t \in Holders
      BY <1>0, <1>1, <2>3, HoldersFacts DEF QueueAgrees
    <3> QED
      BY <1>2, <1>4, <2>1, <2>3, <3>1, GivingStep DEF Withdraw
  <2> QED
    BY <2>2, <2>3
<1> QED
  BY <1>3, <1>4 DEF ResumeQueued

\* release() by a task without a token makes one.
LEMMA IssuingStep ==
  ASSUME IInv, NEW t \in Task, Issue(t)
  PROVE  IInv'
<1>0. TypeOK /\ QueueAgrees /\ IsFiniteSet(Holders) /\ Conservation
  BY DEF IInv, Counted
<1>1. /\ pc' = pc /\ mustCancel' = mustCancel /\ scope' = scope
      /\ issued' = issued + 1 /\ Pass(fut)
  BY DEF Issue
<1>2. \/ value' = value + 1 /\ fut' = fut /\ waiters' = waiters
      \/ \E w \in Task :
           /\ pc[w] = "queued" /\ fut[w] = "pending"
           /\ fut' = [fut EXCEPT ![w] = "result"]
           /\ waiters' \in Seq(Task) /\ IsInjective(waiters')
           /\ \A x : Contains(waiters', x) <=> Contains(waiters, x) /\ x # w
           /\ value' = value
  BY <1>0, <1>1, PassFacts DEF TypeOK, TaskTypeOK
<1>3. CASE value' = value + 1 /\ fut' = fut /\ waiters' = waiters
  <2>1. Holders' = Holders /\ Cardinality(Holders) \in Nat
    BY <1>0, <1>1, <1>3, HoldersFacts, FS_CardinalityType
  <2>2. TypeOK' /\ QueueAgrees'
    BY <1>0, <1>1, <1>3 DEF TypeOK, TaskTypeOK, QueueAgrees
  <2>3. Counted'
    BY <2>1, <1>0, <1>1, <1>3 DEF Counted, Conservation, TypeOK
  <2> QED
    BY <2>2, <2>3 DEF IInv
<1>4. ASSUME NEW w \in Task,
             pc[w] = "queued", fut[w] = "pending",
             fut' = [fut EXCEPT ![w] = "result"],
             waiters' \in Seq(Task), IsInjective(waiters'),
             \A x : Contains(waiters', x) <=> Contains(waiters, x) /\ x # w,
             value' = value
      PROVE  IInv'
  <2>1. \A u \in Task : fut'[u] = IF u = w THEN "result" ELSE fut[u]
    BY <1>0, <1>4 DEF TypeOK, TaskTypeOK
  <2>2. TypeOK'
    BY <1>0, <1>1, <1>4 DEF TypeOK, TaskTypeOK, FutureState
  <2>3. QueueAgrees'
    BY <1>0, <1>1, <1>4, <2>1 DEF QueueAgrees
  <2>4. w \notin Holders /\ Holders' = Holders \cup {w}
    BY <1>1, <1>4, <2>1, HoldersFacts
  <2>5. /\ IsFiniteSet(Holders') /\ Cardinality(Holders') = Cardinality(Holders) + 1
        /\ Cardinality(Holders) \in Nat
    BY <1>0, <2>4, HolderJoins, FS_CardinalityType
  <2>6. Counted'
    BY <2>5, <1>0, <1>1, <1>4 DEF Counted, Conservation, TypeOK
  <2> QED
    BY <2>2, <2>3, <2>6 DEF IInv
<1> QED
  BY <1>2, <1>3, <1>4

\* acquire() that joins the deque
LEMMA JoiningStep ==
  ASSUME IInv, NEW t \in Task, AcquireSlow(t)
  PROVE  IInv'
<1>0. TypeOK /\ QueueAgrees /\ IsFiniteSet(Holders) /\ Conservation
  BY DEF IInv, Counted
<1>1. /\ pc[t] = "idle" /\ waiters' = Append(waiters, t)
      /\ \A u \in Task : /\ pc'[u] = IF u = t THEN "queued" ELSE pc[u]
                         /\ fut'[u] = IF u = t THEN "pending" ELSE fut[u]
      /\ value' = value /\ issued' = issued
  BY <1>0 DEF AcquireSlow, Move, TypeOK, TaskTypeOK
<1>2. /\ waiters' \in Seq(Task) /\ IsInjective(waiters')
      /\ \A u : Contains(waiters', u) <=> Contains(waiters, u) \/ u = t
  <2>1. ~Contains(waiters, t)
    BY <1>0, <1>1 DEF QueueAgrees
  <2> QED
    BY <2>1, <1>0, <1>1, AppendFacts DEF TypeOK, QueueAgrees
<1>3. TypeOK'
  BY <1>0, <1>2 DEF AcquireSlow, Move, TypeOK, TaskTypeOK, Places, FutureState
<1>4. QueueAgrees'
  BY <1>0, <1>1, <1>2 DEF QueueAgrees
<1>5. Holders' = Holders
  BY <1>1, HoldersFacts
<1> QED
  BY <1>0, <1>1, <1>3, <1>4, <1>5 DEF IInv, Counted, Conservation

\* Every step of every call keeps the tokens, the deque and the futures in agreement.
LEMMA NextIInv == IInv /\ [Next]_vars => IInv'
<1> SUFFICES ASSUME IInv, [Next]_vars PROVE IInv'
  OBVIOUS
<1>0. TypeOK /\ QueueAgrees /\ Counted
  BY DEF IInv
<1>1. CASE UNCHANGED vars
  <2>1. Holders' = Holders
    BY <1>1 DEF Holders, vars, taskVars
  <2> QED
    BY <1>0, <1>1, <2>1
       DEF IInv, TypeOK, TaskTypeOK, QueueAgrees, Counted, Conservation, vars, taskVars
<1>2. ASSUME NEW t \in Task, AcquireFast(t) PROVE IInv'
  BY <1>2, <1>0, OutsideQueue DEF AcquireFast, Move, Places, TypeOK, TaskTypeOK
<1>3. ASSUME NEW t \in Task, AcquireNowait(t) PROVE IInv'
  BY <1>3, <1>0, OutsideQueue DEF AcquireNowait, Places, TypeOK, TaskTypeOK
<1>4. ASSUME NEW t \in Task, ResumeCheck(t) PROVE IInv'
  BY <1>4, <1>0, OutsideQueue DEF ResumeCheck, Unwind, Places, TypeOK, TaskTypeOK
<1>5. ASSUME NEW t \in Task, GiveBack(fut), Move(t, "idle"), pc[t] \in {"hold", "yield"},
             mustCancel' \in [Task -> BOOLEAN], scope' \in [Task -> {"open", "cancelled"}]
      PROVE  IInv'
  <2>1. t \in Holders /\ fut[t] = "none" /\ fut \in [Task -> FutureState]
    BY <1>0, <1>5, HoldersFacts DEF QueueAgrees, TypeOK, TaskTypeOK
  <2> QED
    BY <1>5, <2>1, GivingStep
<1>6. ASSUME NEW t \in Task, Release(t) PROVE IInv'
  BY <1>6, <1>5, <1>0 DEF Release, TypeOK, TaskTypeOK
<1>7. ASSUME NEW t \in Task, ResumeYield(t) PROVE IInv'
  <2>1. CASE /\ Move(t, "hold") /\ pc[t] = "yield"
             /\ UNCHANGED <<fut, mustCancel, scope, value, waiters, issued>>
    BY <2>1, <1>0, OutsideQueue DEF Places, TypeOK, TaskTypeOK
  <2>2. CASE GiveBack(fut) /\ Move(t, "idle") /\ Unwind(t) /\ pc[t] = "yield"
    BY <2>2, <1>5, <1>0 DEF Unwind, TypeOK, TaskTypeOK
  <2> QED
    BY <1>7, <2>1, <2>2 DEF ResumeYield
<1> QED
  BY <1>1, <1>2, <1>3, <1>4, <1>6, <1>7,
     JoiningStep, QueuedStep, IssuingStep, CancellingStep DEF Next, Resume

\* release() passes over no waiter: the one it serves is the first that is not cancelled.
LEMMA FirstIsServed ==
  ASSUME IInv, NEW f \in [Task -> FutureState], Pass(f),
         \A w \in Task : Contains(waiters, w) => f[w] = fut[w],
         NEW i \in DOMAIN waiters, NEW j \in DOMAIN waiters, i < j,
         fut[waiters[i]] = "pending", fut[waiters[j]] = "pending"
  PROVE  fut'[waiters[j]] # "result"
<1>0. /\ waiters \in Seq(Task) /\ IsInjective(waiters) /\ DOMAIN waiters = 1..Len(waiters)
      /\ Len(waiters) \in Nat
  BY LenProperties DEF IInv, TypeOK, QueueAgrees
<1>1. \A k \in DOMAIN waiters : waiters[k] \in Task /\ f[waiters[k]] = fut[waiters[k]]
  <2> SUFFICES ASSUME NEW k \in DOMAIN waiters
               PROVE  waiters[k] \in Task /\ f[waiters[k]] = fut[waiters[k]]
    OBVIOUS
  <2>1. waiters[k] \in Task /\ Contains(waiters, waiters[k])
    BY <1>0, ElementOfSeq DEF Contains
  <2> QED
    BY <2>1
<1>2. PICK k \in DOMAIN waiters :
        /\ \A n \in 1..(k - 1) : f[waiters[n]] = "cancelled"
        /\ fut' = [f EXCEPT ![waiters[k]] = "result"]
  <2>1. f[waiters[i]] # "cancelled"
    BY <1>1
  <2> QED
    BY <2>1 DEF Pass
<1>3. k <= i
  BY <1>0, <1>1, <1>2
<1>4. waiters[k] # waiters[j]
  BY <1>0, <1>3 DEF IsInjective
<1> QED
  BY <1>1, <1>2, <1>4

\* No step gives the token to a waiter that stands behind a live one.
LEMMA StepServesFirst ==
  ASSUME IInv, NEW t \in Task,
         \/ AcquireFast(t) \/ AcquireSlow(t) \/ AcquireNowait(t) \/ Release(t) \/ Issue(t)
         \/ Resume(t) \/ Cancelling(t),
         NEW i \in DOMAIN waiters, NEW j \in DOMAIN waiters, i < j,
         fut[waiters[i]] = "pending", fut[waiters[j]] = "pending"
  PROVE  fut'[waiters[j]] # "result"
<1>0. TypeOK /\ QueueAgrees
  BY DEF IInv
<1>1. waiters[j] \in Task /\ fut \in [Task -> FutureState]
  BY <1>0, ElementOfSeq, LenProperties DEF TypeOK, TaskTypeOK
<1>2. CASE fut' = fut
  BY <1>2
<1>3. CASE Pass(fut)
  BY <1>1, <1>3, FirstIsServed
<1>4. CASE ResumeQueued(t)
  <2>1. /\ Stepped(t) \in [Task -> FutureState] /\ Stepped(t)[waiters[j]] # "result"
        /\ \A u \in Task \ {t} : Stepped(t)[u] = fut[u]
    BY <1>1 DEF Stepped, FutureState
  <2>2. CASE fut' = Stepped(t)
    BY <2>1, <2>2
  <2>3. CASE ~Contains(waiters, t) /\ Pass(Stepped(t))
    BY <2>1, <2>3, FirstIsServed
  <2> QED
    BY <1>4, <2>2, <2>3 DEF ResumeQueued, Withdraw, GiveBack
<1>5. CASE AcquireSlow(t) \/ Cancelling(t)
  BY <1>0, <1>1, <1>5 DEF AcquireSlow, Cancelling, ScopeCancel, Redeliver, NativeCancel,
     LeaveScope, TaskCancel
<1> QED
  BY <1>2, <1>3, <1>4, <1>5
     DEF AcquireFast, AcquireNowait, Release, Issue, Resume, ResumeCheck, ResumeYield, GiveBack

\* A token is neither lost nor made up, by whatever cancellation at whatever point: the
\* counter and the tokens of the tasks, those on their way included, are all there are.
THEOREM TokensConserved == Spec => []Conservation
<1>1. Init => IInv
  BY InitIInv
<1>2. IInv /\ [Next]_vars => IInv'
  BY NextIInv
<1>3. IInv => Conservation
  BY DEF IInv, Counted
<1> QED
  BY <1>1, <1>2, <1>3, PTL DEF Spec

\* The deque holds the futures of the waiters that were given nothing, each once, so that
\* a cancelled waiter that misses its future there has a token to give back.
THEOREM DequeCorrect == Spec => []QueueAgrees
<1>1. Init => IInv
  BY InitIInv
<1>2. IInv /\ [Next]_vars => IInv'
  BY NextIInv
<1>3. IInv => QueueAgrees
  BY DEF IInv
<1> QED
  BY <1>1, <1>2, <1>3, PTL DEF Spec

\* release() serves the waiter that has waited longest of those that are not cancelled.
THEOREM OrderOfService == Spec => ServedInOrder
<1> DEFINE InOrder == \A i, j \in DOMAIN waiters :
                        i < j /\ fut[waiters[i]] = "pending" /\ fut[waiters[j]] = "pending"
                        => fut'[waiters[j]] # "result"
<1>1. Init => IInv
  BY InitIInv
<1>2. IInv /\ [Next]_vars => IInv'
  BY NextIInv
<1>3. IInv /\ [Next]_vars => [InOrder]_vars
  BY StepServesFirst DEF Next
<1> QED
  BY <1>1, <1>2, <1>3, PTL DEF Spec, ServedInOrder
=============================================================================
