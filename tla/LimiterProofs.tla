--------------------------- MODULE LimiterProofs ---------------------------
(***************************************************************************)
(* Proofs about CapacityLimiter for any tasks, borrowers and totals.       *)
(* First: each task has its token for exactly as long as it is inside.     *)
(* That holds where no two tasks borrow for the same object, and where     *)
(* asyncio's own cancel() hits only tasks that borrow for themselves: the  *)
(* handler of an interrupted acquire_on_behalf_of() releases for the       *)
(* current task. Second: tokens are handed on. While no notification was   *)
(* wasted, borrowers queue only when as many tasks are due a token as      *)
(* there are tokens (LQInv).                                               *)
(***************************************************************************)
EXTENDS CapacityLimiter, QueueLemmas, FiniteSetTheorems

OwnBorrowers ==
  /\ \A t, u \in Task : BorrowerOf[t] = BorrowerOf[u] => t = u
  /\ \A t \in Native : BorrowerOf[t] = t

\* Nobody is thrown a cancellation in user code, and only asyncio's own reaches past the
\* shield of the checkpoint that follows a fast acquire.
Hittable(t) == pc[t] \in {"check", "wait"} \/ (pc[t] = "yield" /\ t \in Native)

CancelledWhileSuspended ==
  \A t \in Task :
    /\ pc[t] # "wait" => fut[t] = "none"
    /\ mustCancel[t] => Hittable(t)

LIInv ==
  /\ TaskTypeOK(Places) /\ borrowers \subseteq Borrower
  /\ CancelledWhileSuspended /\ TokensHeld

\* At first nobody has a token.
LEMMA InitLIInv == Init => LIInv
BY LimiterAssumption
   DEF Init, TaskInit, LIInv, TaskTypeOK, Places, FutureState, CancelledWhileSuspended, Hittable, TokensHeld, Holds

\* Setting events ends waits, and touches nobody else.
LEMMA NotifyFacts ==
  ASSUME NEW n, NEW f \in [Task -> FutureState], Notify(n, f)
  PROVE  /\ fut' \in [Task -> FutureState]
         /\ \A t \in Task : f[t] = "none" => fut'[t] = "none"
BY DEF Notify, FutureState

\* release_on_behalf_of() takes the token of b, if it has one, and no other.
LEMMA ReturnFacts ==
  ASSUME NEW b, NEW f \in [Task -> FutureState], ReturnIfHeld(b, f)
  PROVE  /\ borrowers' = borrowers \ {b}
         /\ fut' \in [Task -> FutureState]
         /\ \A t \in Task : f[t] = "none" => fut'[t] = "none"
<1>1. CASE b \in borrowers /\ Return(b, f)
  BY <1>1, NotifyFacts DEF Return
<1>2. CASE b \notin borrowers /\ fut' = f /\ UNCHANGED <<borrowers, queue, wasted>>
  BY <1>2
<1> QED
  BY <1>1, <1>2 DEF ReturnIfHeld

\* A step of t that gets or gives back its token, and leaves everybody else as it is
LEMMA TokensFollow ==
  ASSUME OwnBorrowers, TokensHeld, NEW t \in Task,
         \A u \in Task \ {t} : pc'[u] = pc[u],
         \/ Holds(t)' /\ borrowers' = borrowers \union {BorrowerOf[t]}
         \/ ~Holds(t)' /\ borrowers' = borrowers \ {BorrowerOf[t]}
  PROVE  TokensHeld'
BY DEF OwnBorrowers, TokensHeld, Holds

\* Every step keeps the tokens with the tasks that hold them.
LEMMA NextLIInv == OwnBorrowers /\ LIInv /\ [Next]_vars => LIInv'
<1> SUFFICES ASSUME OwnBorrowers, LIInv, [Next]_vars PROVE LIInv'
  OBVIOUS
<1>0. /\ pc \in [Task -> Places] /\ fut \in [Task -> FutureState]
      /\ mustCancel \in [Task -> BOOLEAN] /\ scope \in [Task -> {"open", "cancelled"}]
      /\ borrowers \subseteq Borrower /\ CancelledWhileSuspended /\ TokensHeld
  BY DEF LIInv, TaskTypeOK
<1>1. \A t \in Task : BorrowerOf[t] \in Borrower /\ t \in Borrower
  BY LimiterAssumption
<1>2. CASE UNCHANGED vars
  BY <1>0, <1>2 DEF vars, taskVars, limiterVars, LIInv, TaskTypeOK, CancelledWhileSuspended, Hittable,
     TokensHeld, Holds
<1>3. CASE SetTotal
  <2>1. /\ UNCHANGED <<pc, mustCancel, scope, borrowers>>
        /\ fut' \in [Task -> FutureState] /\ \A t \in Task : fut[t] = "none" => fut'[t] = "none"
    BY <1>0, <1>3, NotifyFacts DEF SetTotal
  <2> QED
    BY <1>0, <2>1 DEF LIInv, TaskTypeOK, CancelledWhileSuspended, Hittable, TokensHeld, Holds
<1>4. ASSUME NEW t \in Task, Acquire(t) \/ AcquireNowait(t) PROVE LIInv'
  <2>1. PICK place \in {"check", "yield", "wait", "hold"} :
          /\ pc[t] = "idle" /\ pc' = [pc EXCEPT ![t] = place]
          /\ fut' = IF place = "wait" THEN [fut EXCEPT ![t] = "pending"] ELSE fut
          /\ borrowers' = IF place \in {"yield", "hold"} THEN borrowers \union {BorrowerOf[t]}
                          ELSE borrowers
          /\ UNCHANGED <<mustCancel, scope>>
    BY <1>4 DEF Acquire, AcquireNowait, Move
  <2>2. /\ pc' \in [Task -> Places] /\ pc'[t] = place /\ fut' \in [Task -> FutureState]
        /\ \A u \in Task \ {t} : pc'[u] = pc[u] /\ fut'[u] = fut[u]
        /\ place # "wait" => fut'[t] = fut[t]
    BY <1>0, <2>1 DEF Places, FutureState
  <2>3. BorrowerOf[t] \notin borrowers
    BY <1>0, <2>1 DEF OwnBorrowers, TokensHeld, Holds
  <2>4. TokensHeld'
    BY <1>0, <2>1, <2>2, <2>3, TokensFollow DEF Holds
  <2>5. CancelledWhileSuspended'
    BY <1>0, <2>1, <2>2 DEF CancelledWhileSuspended, Hittable
  <2> QED
    BY <1>0, <1>1, <2>1, <2>2, <2>4, <2>5 DEF LIInv, TaskTypeOK
<1>5. ASSUME NEW t \in Task, Release(t) PROVE LIInv'
  <2>1. /\ borrowers' = borrowers \ {BorrowerOf[t]} /\ fut' \in [Task -> FutureState]
        /\ \A u \in Task : fut[u] = "none" => fut'[u] = "none"
        /\ pc[t] = "hold" /\ pc' = [pc EXCEPT ![t] = "idle"]
        /\ UNCHANGED <<mustCancel, scope>>
    BY <1>0, <1>5, ReturnFacts DEF Release, Move
  <2>2. TokensHeld'
    BY <1>0, <2>1, TokensFollow DEF Holds
  <2>3. CancelledWhileSuspended'
    BY <1>0, <2>1 DEF CancelledWhileSuspended, Hittable
  <2> QED
    BY <1>0, <2>1, <2>2, <2>3 DEF LIInv, TaskTypeOK, Places
<1>6. ASSUME NEW t \in Task, Resume(t) PROVE LIInv'
  <2>1. PICK place \in {"idle", "hold"} :
          /\ pc' = [pc EXCEPT ![t] = place]
          /\ borrowers' = IF place = "hold" THEN borrowers \union {BorrowerOf[t]}
                          ELSE borrowers \ {BorrowerOf[t]}
          /\ fut' \in [Task -> FutureState] /\ fut'[t] = "none"
          /\ \A u \in Task \ {t} : fut[u] = "none" => fut'[u] = "none"
          /\ mustCancel' = [mustCancel EXCEPT ![t] = FALSE]
          /\ scope' \in [Task -> {"open", "cancelled"}]
    <3>1. CASE ResumeCheck(t)
      <4>1. BorrowerOf[t] \notin borrowers /\ fut[t] = "none"
        BY <1>0, <3>1 DEF ResumeCheck, OwnBorrowers, TokensHeld, Holds, CancelledWhileSuspended, Hittable
      <4> QED
        BY <1>0, <3>1, <4>1 DEF ResumeCheck, Move, Unwind, limiterVars
    <3>2. CASE ResumeYield(t) /\ ~Raises(t)
      <4>1. /\ BorrowerOf[t] \in borrowers /\ fut[t] = "none"
            /\ mustCancel = [mustCancel EXCEPT ![t] = FALSE]
        BY <1>0, <3>2
           DEF ResumeYield, Raises, TokensHeld, Holds, CancelledWhileSuspended, Hittable
      <4>2. borrowers = borrowers \union {BorrowerOf[t]}
        BY <4>1
      <4> QED
        BY <1>0, <3>2, <4>1, <4>2 DEF ResumeYield, Move
    <3>3. CASE ResumeYield(t) /\ Raises(t)
      <4>1. fut[t] = "none" /\ BorrowerOf[t] = t
        BY <1>0, <3>3 DEF ResumeYield, Raises, CancelledWhileSuspended, Hittable, OwnBorrowers
      <4>2. ReturnIfHeld(t, fut)
        BY <3>3 DEF ResumeYield
      <4>3. /\ borrowers' = borrowers \ {t} /\ fut' \in [Task -> FutureState]
            /\ \A u \in Task : fut[u] = "none" => fut'[u] = "none"
        BY <1>0, <4>2, ReturnFacts
      <4> QED
        BY <1>0, <3>3, <4>1, <4>3 DEF ResumeYield, Move, Unwind
    <3>4. CASE ResumeWait(t) /\ ~Raises(t)
      BY <1>0, <3>4 DEF ResumeWait, Raises, Move, Stepped, FutureState
    <3>5. CASE ResumeWait(t) /\ Raises(t)
      <4>1. borrowers \ {BorrowerOf[t]} = borrowers
        BY <1>0, <3>5 DEF ResumeWait, OwnBorrowers, TokensHeld, Holds
      <4> QED
        BY <1>0, <3>5, <4>1 DEF ResumeWait, Move, Unwind, Stepped, FutureState
    <3> QED
      BY <1>6, <3>1, <3>2, <3>3, <3>4, <3>5 DEF Resume
  <2>2. TokensHeld'
    BY <1>0, <2>1, TokensFollow DEF Holds
  <2>3. CancelledWhileSuspended'
    BY <1>0, <2>1 DEF CancelledWhileSuspended, Hittable
  <2>4. TaskTypeOK(Places)'
    BY <1>0, <2>1 DEF TaskTypeOK, Places
  <2>5. borrowers' \subseteq Borrower
    BY <1>0, <1>1, <2>1
  <2> QED
    BY <2>2, <2>3, <2>4, <2>5 DEF LIInv
<1>7. ASSUME NEW t \in Task, Cancelling(t) PROVE LIInv'
  <2>1. /\ UNCHANGED <<pc, borrowers>> /\ scope' \in [Task -> {"open", "cancelled"}]
        /\ \/ fut' = fut
           \/ fut[t] = "pending" /\ fut' = [fut EXCEPT ![t] = "cancelled"]
        /\ \/ mustCancel' = mustCancel
           \/ mustCancel' = [mustCancel EXCEPT ![t] = TRUE] /\ Hittable(t)
    <3>1. UNCHANGED <<pc, borrowers>> /\ scope' \in [Task -> {"open", "cancelled"}]
      BY <1>0, <1>7 DEF Cancelling, ScopeCancel, Redeliver, NativeCancel, LeaveScope, limiterVars
    <3>2. \/ UNCHANGED <<fut, mustCancel>>
          \/ TaskCancel(t) /\ Hittable(t)
      BY <1>7 DEF Cancelling, ScopeCancel, Redeliver, NativeCancel, LeaveScope, Exposed, Suspended,
         Hittable
    <3> QED
      BY <3>1, <3>2 DEF TaskCancel
  <2>2. TokensHeld'
    BY <1>0, <2>1 DEF TokensHeld, Holds
  <2>3. CancelledWhileSuspended'
    BY <1>0, <2>1 DEF CancelledWhileSuspended, Hittable
  <2> QED
    BY <1>0, <2>1, <2>2, <2>3 DEF LIInv, TaskTypeOK, FutureState
<1> QED
  BY <1>2, <1>3, <1>4, <1>5, <1>6, <1>7 DEF Next

\* A call that raised has left no token behind, and no release took another's.
THEOREM TokensStayWithTasks ==
  ASSUME OwnBorrowers
  PROVE  Spec => []TokensHeld
<1>1. Init => LIInv
  BY InitLIInv
<1>2. LIInv /\ [Next]_vars => LIInv'
  BY NextLIInv
<1>3. LIInv => TokensHeld
  BY DEF LIInv
<1> QED
  BY <1>1, <1>2, <1>3, PTL DEF Spec

-----------------------------------------------------------------------------
(* Whether a token is lost.  What is counted is the tasks that are due one:  *)
(* those that are inside, and those whose Event was set and that were not    *)
(* stepped yet.  While no notification was wasted, borrowers queue only when *)
(* as many tasks are due a token as there are tokens.                        *)

DueIn(p, f) == {t \in Task : p[t] \in {"hold", "yield"} \/ (p[t] = "wait" /\ f[t] = "result")}
Due == DueIn(pc, fut)

Entry(t) == <<BorrowerOf[t], t>>

\* Each waiter queues for its own borrower, once, until it is notified.
QueuedIn(q, p, f) ==
  /\ q \in Seq({Entry(t) : t \in Task})
  /\ IsInjective(q)
  /\ \A t \in Task : Contains(q, Entry(t)) => p[t] = "wait" /\ f[t] # "result"
Queued == QueuedIn(queue, pc, fut)

\* A waiter awaits its Event.
AwaitsEvent == \A t \in Task : pc[t] = "wait" => fut[t] # "none"

AllGivenOut == wasted \/ queue = <<>> \/ Cardinality(Due) >= total

LQInv ==
  /\ Queued /\ AwaitsEvent /\ total \in Totals /\ wasted \in BOOLEAN
  /\ IsFiniteSet(Due) /\ AllGivenOut

\* total_tokens has a first value.
LEMMA FirstTotal == Min(Totals) \in Totals
<1>1. PICK m \in Totals : \A n \in Totals : ~ (<<n, m>> \in OpToRel(<, Nat))
  BY LimiterAssumption, WFMin, NatLessThanWellFounded
<1>2. \A n \in Totals : ~(n < m)
  BY <1>1, LimiterAssumption DEF OpToRel
<1>3. \A n \in Totals : m <= n
  BY <1>2, LimiterAssumption
<1> QED
  BY <1>3 DEF Min

LEMMA InitLQInv == Init => LQInv
<1> SUFFICES ASSUME Init PROVE LQInv
  OBVIOUS
<1>1. queue = <<>> /\ total \in Totals /\ wasted = FALSE
  BY FirstTotal DEF Init
<1>2. Due = {}
  BY DEF Init, TaskInit, Due, DueIn
<1>3. Queued
  BY <1>1, EmptySeq DEF Queued, QueuedIn, IsInjective, Contains
<1>4. AwaitsEvent
  BY DEF Init, TaskInit, AwaitsEvent
<1> QED
  BY <1>1, <1>2, <1>3, <1>4, FS_EmptySet DEF LQInv, AllGivenOut

\* Nobody borrows for another's borrower: there are no more borrowers than tasks
\* that are due a token.
LEMMA InsideIsDue ==
  ASSUME OwnBorrowers, NEW I, NEW D, I \subseteq D, D \subseteq Task, IsFiniteSet(D),
         NEW B, B = {BorrowerOf[t] : t \in I}
  PROVE  /\ Cardinality(B) \in Nat /\ Cardinality(D) \in Nat
         /\ Cardinality(B) <= Cardinality(D)
<1> DEFINE f == [t \in I |-> BorrowerOf[t]]
<1>1. f \in Surjection(I, B)
  BY DEF Surjection
<1> HIDE DEF f
<1>2. IsFiniteSet(I) /\ Cardinality(I) <= Cardinality(D)
  BY FS_Subset
<1>3. IsFiniteSet(B) /\ Cardinality(B) <= Cardinality(I)
  BY <1>1, <1>2, FS_Surjection
<1>4. Cardinality(B) \in Nat /\ Cardinality(I) \in Nat /\ Cardinality(D) \in Nat
  BY <1>2, <1>3, FS_CardinalityType
<1> QED
  BY <1>2, <1>3, <1>4

\* The entries of the queue, the waiters that made them
LEMMA QueueEntries ==
  ASSUME NEW q, NEW p, NEW f, QueuedIn(q, p, f), NEW i \in DOMAIN q
  PROVE  /\ q[i][2] \in Task /\ q[i] = Entry(q[i][2])
         /\ p[q[i][2]] = "wait" /\ f[q[i][2]] # "result"
         /\ Len(q) \in Nat /\ DOMAIN q = 1..Len(q)
<1>1. Len(q) \in Nat /\ DOMAIN q = 1..Len(q) /\ q[i] \in {Entry(t) : t \in Task}
  BY LenProperties, ElementOfSeq DEF QueuedIn
<1>2. PICK t \in Task : q[i] = Entry(t)
  BY <1>1
<1>3. q[i][2] = t /\ Contains(q, Entry(t))
  BY <1>1, <1>2 DEF Entry, Contains
<1> QED
  BY <1>1, <1>2, <1>3 DEF QueuedIn

\* Setting n Events makes n more tasks due a token, unless a waiter was being
\* cancelled; and the others stay queued.
LEMMA NotifyServes ==
  ASSUME NEW p, NEW f \in [Task -> FutureState], QueuedIn(queue, p, f),
         IsFiniteSet(DueIn(p, f)), NEW n \in 0..Len(queue), Notify(n, f), pc' = p,
         wasted \in BOOLEAN
  PROVE  /\ Queued' /\ IsFiniteSet(Due') /\ wasted' \in BOOLEAN /\ (wasted => wasted')
         /\ wasted' \/ Cardinality(Due') = Cardinality(DueIn(p, f)) + n
<1> DEFINE N == {queue[i][2] : i \in 1..n}
<1>0. Len(queue) \in Nat /\ DOMAIN queue = 1..Len(queue)
  BY LenProperties DEF QueuedIn
<1>1. ASSUME NEW i \in 1..n
      PROVE  /\ i \in DOMAIN queue /\ queue[i][2] \in Task /\ queue[i] = Entry(queue[i][2])
             /\ p[queue[i][2]] = "wait" /\ f[queue[i][2]] # "result"
  <2>1. i \in DOMAIN queue
    BY <1>0
  <2> QED
    BY <2>1, QueueEntries
<1>2. /\ \A t \in Task : fut'[t] = IF t \in N /\ f[t] = "pending" THEN "result" ELSE f[t]
      /\ queue' = SubSeq(queue, n + 1, Len(queue))
      /\ wasted' = (wasted \/ \E t \in N : f[t] # "pending")
  BY DEF Notify
<1>3. Queued'
  <2> DEFINE S == {Entry(t) : t \in Task}
             r == SubSeq(queue, n + 1, Len(queue))
  <2>1. queue \in Seq(S) /\ IsInjective(queue)
    BY DEF QueuedIn
  <2> HIDE DEF S
  <2>2. /\ r \in Seq(S) /\ IsInjective(r)
        /\ \A x : Contains(r, x) <=> Contains(queue, x) /\ x \notin {queue[i] : i \in 1..n}
    BY <2>1, DropFacts
  <2> HIDE DEF r
  <2>3. ASSUME NEW t \in Task, Contains(r, Entry(t))
        PROVE  p[t] = "wait" /\ fut'[t] # "result"
    <3>1. Contains(queue, Entry(t)) /\ t \notin N
      BY <2>2, <2>3, <1>1
    <3> QED
      BY <3>1, <1>2 DEF QueuedIn
  <2> QED
    BY <1>2, <2>2, <2>3 DEF Queued, QueuedIn, r, S
<1>4. IsFiniteSet(N) /\ Cardinality(N) = n
  <2> DEFINE g == [i \in 1..n |-> queue[i][2]]
  <2>1. g \in Bijection(1..n, N)
    BY <1>1 DEF QueuedIn, IsInjective, Bijection, Injection, Surjection
  <2> HIDE DEF g, N
  <2>2. ExistsBijection(1..n, N)
    BY <2>1 DEF ExistsBijection
  <2>3. IsFiniteSet(1..n) /\ Cardinality(1..n) = n
    BY <1>0, FS_Interval
  <2> QED
    BY <2>2, <2>3, FS_Bijection
<1>5. N \cap DueIn(p, f) = {} /\ N \subseteq Task
  BY <1>1 DEF DueIn
<1>6. Due' \subseteq DueIn(p, f) \union N
  BY <1>2 DEF Due, DueIn
<1>7. wasted' \/ Due' = DueIn(p, f) \union N
  <2> SUFFICES ASSUME ~wasted' PROVE Due' = DueIn(p, f) \union N
    OBVIOUS
  <2>1. \A t \in N : t \in Task /\ p[t] = "wait" /\ f[t] = "pending"
    <3>1. \A t \in N : f[t] = "pending"
      BY <1>2
    <3> QED
      BY <1>1, <3>1
  <2> HIDE DEF N
  <2>2. \A t \in Task : fut'[t] = IF t \in N THEN "result" ELSE f[t]
    BY <1>2, <2>1
  <2> QED
    BY <2>1, <2>2 DEF Due, DueIn
<1> HIDE DEF N
<1> DEFINE D == DueIn(p, f)
<1>8. IsFiniteSet(D) /\ Cardinality(D) \in Nat
  BY FS_CardinalityType
<1> HIDE DEF D
<1>9. IsFiniteSet(D \union N) /\ Cardinality(D \union N) = Cardinality(D) + Cardinality(N) - Cardinality(D \cap N)
  BY <1>4, <1>8, FS_Union
<1>10. D \cap N = {} /\ Cardinality(D \cap N) = 0
  BY <1>5, FS_EmptySet DEF D
<1>11. Cardinality(D \union N) = Cardinality(D) + n
  BY <1>4, <1>8, <1>9, <1>10, <1>0
<1>12. IsFiniteSet(Due')
  BY <1>6, <1>9, FS_Subset DEF D
<1> QED
  BY <1>2, <1>3, <1>7, <1>11, <1>12 DEF D

\* Whoever is inside is due a token.
LEMMA BorrowersAreDue ==
  ASSUME OwnBorrowers, LIInv, IsFiniteSet(Due)
  PROVE  /\ Cardinality(borrowers) \in Nat /\ Cardinality(Due) \in Nat
         /\ Cardinality(borrowers) <= Cardinality(Due)
<1> DEFINE I == {t \in Task : Holds(t)}
<1>1. I \subseteq Due /\ Due \subseteq Task /\ borrowers = {BorrowerOf[t] : t \in I}
  BY DEF Due, DueIn, Holds, LIInv, TokensHeld
<1> HIDE DEF I
<1> QED
  BY <1>1, InsideIsDue

\* A token that is given back goes to a waiter, unless as many as there are tokens
\* have theirs.
LEMMA ReturnServes ==
  ASSUME OwnBorrowers, LIInv, LIInv', LQInv, NEW t \in Task,
         pc[t] \in {"hold", "yield"}, pc' = [pc EXCEPT ![t] = "idle"],
         ReturnIfHeld(BorrowerOf[t], fut), total' = total
  PROVE  LQInv'
<1>0. /\ pc \in [Task -> Places] /\ fut \in [Task -> FutureState]
      /\ Queued /\ total \in Nat /\ total \in Totals /\ wasted \in BOOLEAN /\ IsFiniteSet(Due) /\ AllGivenOut
      /\ Queued /\ AwaitsEvent
  BY LimiterAssumption DEF LIInv, TaskTypeOK, LQInv
<1>1. Return(BorrowerOf[t], fut)
  BY <1>0 DEF LIInv, TokensHeld, Holds, ReturnIfHeld
<1> DEFINE D == DueIn(pc', fut)
<1>2. D = Due \ {t} /\ t \in Due
  BY <1>0 DEF Due, DueIn
<1>3. /\ IsFiniteSet(D) /\ Cardinality(D) = Cardinality(Due) - 1 /\ Cardinality(Due) \in Nat
  <2> HIDE DEF D
  <2>1. IsFiniteSet(Due) /\ t \in Due
    BY <1>0, <1>2
  <2>2. IsFiniteSet(Due \ {t}) /\ Cardinality(Due \ {t}) = Cardinality(Due) - 1
    BY <2>1, FS_RemoveElement
  <2> QED
    BY <1>2, <2>1, <2>2, FS_CardinalityType
<1>4. QueuedIn(queue, pc', fut)
  BY <1>0 DEF Queued, QueuedIn
<1>5. CASE queue # <<>> /\ Cardinality(borrowers') < total
  <2>1. Notify(1, fut)
    BY <1>1, <1>5 DEF Return
  <2>2. 1 \in 0..Len(queue)
    BY <1>0, <1>5, EmptySeq, LenProperties DEF Queued, QueuedIn
  <2>3. PICK p : p = pc'
    OBVIOUS
  <2>4. PICK f \in [Task -> FutureState] : f = fut
    BY <1>0
  <2>5. /\ QueuedIn(queue, p, f) /\ IsFiniteSet(DueIn(p, f)) /\ Notify(1, f) /\ pc' = p
        /\ wasted \in BOOLEAN
    BY <1>0, <1>3, <1>4, <2>1, <2>3, <2>4
  <2>6. /\ Queued' /\ IsFiniteSet(Due') /\ wasted' \in BOOLEAN /\ (wasted => wasted')
        /\ wasted' \/ Cardinality(Due') = Cardinality(DueIn(p, f)) + 1
    BY <2>2, <2>5, NotifyServes
  <2>7. AllGivenOut'
    BY <1>0, <1>3, <1>5, <2>3, <2>4, <2>6 DEF AllGivenOut
  <2>8. AwaitsEvent'
    BY <1>0, <2>1 DEF AwaitsEvent, Notify
  <2> QED
    BY <1>0, <2>6, <2>7, <2>8 DEF LQInv
<1>6. CASE ~(queue # <<>> /\ Cardinality(borrowers') < total)
  <2>1. fut' = fut /\ UNCHANGED <<queue, wasted>>
    BY <1>1, <1>6 DEF Return
  <2>2. Due' = D /\ Queued' /\ AwaitsEvent'
    BY <1>0, <1>4, <2>1 DEF Due, Queued, QueuedIn, AwaitsEvent
  <2>3. /\ Cardinality(borrowers') \in Nat /\ Cardinality(Due') \in Nat
        /\ Cardinality(borrowers') <= Cardinality(Due')
    <3>1. IsFiniteSet(Due')
      BY <1>3, <2>2
    <3> DEFINE I == {u \in Task : Holds(u)'}
    <3>2. /\ I \subseteq Due' /\ Due' \subseteq Task
          /\ borrowers' = {BorrowerOf[u] : u \in I}
      BY DEF Due, DueIn, Holds, LIInv, TokensHeld
    <3> HIDE DEF I
    <3> QED
      BY <3>1, <3>2, InsideIsDue
  <2>4. AllGivenOut'
    BY <1>0, <1>6, <2>1, <2>3 DEF AllGivenOut
  <2> QED
    BY <1>0, <1>3, <2>1, <2>2, <2>4 DEF LQInv
<1> QED
  BY <1>5, <1>6

\* As many borrowers as tasks inside
LEMMA BorrowersCounted ==
  ASSUME OwnBorrowers, TokensHeld, NEW I, I = {t \in Task : Holds(t)}, IsFiniteSet(I)
  PROVE  IsFiniteSet(borrowers) /\ Cardinality(borrowers) = Cardinality(I)
<1> DEFINE f == [t \in I |-> BorrowerOf[t]]
<1>1. f \in Bijection(I, borrowers)
  <2>1. f \in [I -> borrowers] /\ \A t \in I : f[t] = BorrowerOf[t] /\ t \in Task
    BY DEF TokensHeld
  <2>2. \A t, u \in I : f[t] = f[u] => t = u
    BY <2>1 DEF OwnBorrowers
  <2>3. \A b \in borrowers : \E t \in I : f[t] = b
    BY <2>1 DEF TokensHeld
  <2> HIDE DEF f
  <2> QED
    BY <2>1, <2>2, <2>3 DEF Bijection, Injection, Surjection, IsInjective
<1> HIDE DEF f
<1>2. ExistsBijection(I, borrowers)
  BY <1>1 DEF ExistsBijection
<1> QED
  BY <1>2, FS_Bijection

\* A borrower that queues anew is put at the end.
LEMMA EnqueueAppends ==
  ASSUME OwnBorrowers, Queued, NEW t \in Task, pc[t] # "wait"
  PROVE  /\ Enqueue(BorrowerOf[t], t) = Append(queue, Entry(t))
         /\ ~Contains(queue, Entry(t))
<1>1. ~Contains(queue, Entry(t))
  BY DEF Queued, QueuedIn
<1>2. ASSUME NEW i \in DOMAIN queue, queue[i][1] = BorrowerOf[t] PROVE FALSE
  <2>1. queue[i][2] \in Task /\ queue[i] = Entry(queue[i][2]) /\ pc[queue[i][2]] = "wait"
    BY QueueEntries DEF Queued
  <2>2. BorrowerOf[queue[i][2]] = BorrowerOf[t]
    BY <1>2, <2>1 DEF Entry
  <2> QED
    BY <2>1, <2>2 DEF OwnBorrowers
<1> QED
  BY <1>1, <1>2 DEF Enqueue, Entry

\* pop() of a borrower takes out what its task put in.
LEMMA WithoutEntry ==
  ASSUME OwnBorrowers, Queued, NEW t \in Task
  PROVE  Without(BorrowerOf[t]) = RemoveFirst(queue, Entry(t))
<1>1. ASSUME NEW i \in 1..Len(queue)
      PROVE  queue[i][1] = BorrowerOf[t] <=> queue[i] = Entry(t)
  <2>1. i \in DOMAIN queue
    BY LenProperties DEF Queued, QueuedIn
  <2>2. queue[i][2] \in Task /\ queue[i] = Entry(queue[i][2])
    BY <2>1, QueueEntries DEF Queued
  <2> QED
    BY <2>2 DEF Entry, OwnBorrowers
<1>2. {i \in 1..Len(queue) : queue[i][1] = BorrowerOf[t]} = {i \in 1..Len(queue) : queue[i] = Entry(t)}
  BY <1>1
<1>3. SelectInSeq(queue, LAMBDA e : e[1] = BorrowerOf[t]) = SelectInSeq(queue, LAMBDA v : v = Entry(t))
  BY <1>2 DEF SelectInSeq
<1> QED
  BY <1>1, <1>3 DEF Without, RemoveFirstMatch, RemoveFirst

\* Every step keeps borrowers from queueing for tokens that nobody is due.
LEMMA NextLQInv == OwnBorrowers /\ LIInv /\ LIInv' /\ LQInv /\ [Next]_vars => LQInv'
<1> SUFFICES ASSUME OwnBorrowers, LIInv, LIInv', LQInv, [Next]_vars PROVE LQInv'
  OBVIOUS
<1>0. /\ pc \in [Task -> Places] /\ fut \in [Task -> FutureState]
      /\ mustCancel \in [Task -> BOOLEAN] /\ fut' \in [Task -> FutureState]
      /\ Queued /\ AwaitsEvent /\ total \in Totals /\ total \in Nat /\ wasted \in BOOLEAN
      /\ IsFiniteSet(Due) /\ AllGivenOut
  BY LimiterAssumption DEF LIInv, TaskTypeOK, LQInv
<1>1. /\ Cardinality(borrowers) \in Nat /\ Cardinality(Due) \in Nat
      /\ Cardinality(borrowers) <= Cardinality(Due)
  BY <1>0, BorrowersAreDue
<1>2. ASSUME Due' = Due, UNCHANGED <<queue, total, wasted>>, Queued', AwaitsEvent'
      PROVE  LQInv'
  BY <1>0, <1>2 DEF LQInv, AllGivenOut
<1>3. CASE UNCHANGED vars
  BY <1>0, <1>2, <1>3 DEF vars, taskVars, limiterVars, Due, DueIn, Queued, QueuedIn, AwaitsEvent
<1>4. CASE SetTotal
  <2>1. PICK n \in Totals \ {total} :
          /\ total' = n /\ pc' = pc
          /\ Notify(IF n > total THEN Min({n - total, Len(queue)}) ELSE 0, fut)
    BY <1>4 DEF SetTotal
  <2>2. Len(queue) \in Nat /\ n \in Nat
    BY LenProperties, LimiterAssumption, <1>0 DEF Queued, QueuedIn
  <2>3. PICK k \in 0..Len(queue) :
          /\ Notify(k, fut)
          /\ n > total => k = n - total \/ k = Len(queue)
    <3>1. CASE n > total
      <4>1. n - total \in Nat
        BY <1>0, <2>2, <3>1
      <4>2. \A a, b \in Nat : Min({a, b}) = IF a <= b THEN a ELSE b
        BY DEF Min
      <4>3. Min({n - total, Len(queue)}) \in 0..Len(queue)
            /\ Min({n - total, Len(queue)}) \in {n - total, Len(queue)}
        BY <2>2, <4>1, <4>2
      <4> QED
        BY <2>1, <3>1, <4>3
    <3>2. CASE ~(n > total)
      BY <2>1, <2>2, <3>2
    <3> QED
      BY <3>1, <3>2
  <2>4. PICK p : p = pc
    OBVIOUS
  <2>5. PICK f \in [Task -> FutureState] : f = fut
    BY <1>0
  <2>6. /\ QueuedIn(queue, p, f) /\ IsFiniteSet(DueIn(p, f)) /\ Notify(k, f) /\ pc' = p
        /\ wasted \in BOOLEAN /\ DueIn(p, f) = Due
    BY <1>0, <2>1, <2>3, <2>4, <2>5 DEF Queued, Due
  <2>7. /\ Queued' /\ IsFiniteSet(Due') /\ wasted' \in BOOLEAN /\ (wasted => wasted')
        /\ wasted' \/ Cardinality(Due') = Cardinality(DueIn(p, f)) + k
    BY <2>3, <2>6, NotifyServes
  <2>8. AwaitsEvent'
    BY <1>0, <2>1, <2>3 DEF AwaitsEvent, Notify
  <2>9. AllGivenOut'
    <3>1. CASE k = Len(queue)
      <4>1. queue' = SubSeq(queue, Len(queue) + 1, Len(queue))
        BY <2>3, <3>1 DEF Notify
      <4>2. queue' = <<>>
        BY <4>1, <2>2, SubSeqProperties, EmptySeq, <1>0 DEF Queued, QueuedIn
      <4> QED
        BY <4>2 DEF AllGivenOut
    <3>2. CASE k # Len(queue)
      <4>1. queue # <<>>
        BY <2>2, <2>3, <3>2, EmptySeq
      <4>2. wasted' \/ Cardinality(Due) >= total
        BY <1>0, <2>7, <4>1 DEF AllGivenOut
      <4> QED
        BY <1>0, <1>1, <2>1, <2>2, <2>3, <2>6, <2>7, <3>2, <4>2 DEF AllGivenOut
    <3> QED
      BY <3>1, <3>2
  <2> QED
    BY <2>1, <2>7, <2>8, <2>9 DEF LQInv
<1> DEFINE Gains(t) == /\ pc[t] \in {"idle", "wait"} /\ queue' = queue /\ wasted' = wasted /\ total' = total
                       /\ pc'[t] \in {"hold", "yield"}
                       /\ \A u \in Task \ {t} : pc'[u] = pc[u] /\ fut'[u] = fut[u]
<1>5. ASSUME NEW t \in Task, Gains(t), ~Contains(queue, Entry(t)) PROVE LQInv'
  <2>1. Due' = Due \union {t}
    BY <1>5 DEF Due, DueIn
  <2>2. IsFiniteSet(Due') /\ Cardinality(Due') >= Cardinality(Due) /\ Cardinality(Due') \in Nat
    <3>1. /\ IsFiniteSet(Due \union {t})
          /\ Cardinality(Due \union {t}) = IF t \in Due THEN Cardinality(Due) ELSE Cardinality(Due) + 1
      BY <1>0, FS_AddElement
    <3> QED
      BY <1>1, <2>1, <3>1
  <2>3. Queued' /\ AwaitsEvent'
    BY <1>0, <1>5 DEF Queued, QueuedIn, AwaitsEvent
  <2>4. AllGivenOut'
    BY <1>0, <1>1, <1>5, <2>2 DEF AllGivenOut
  <2> QED
    BY <1>0, <1>5, <2>2, <2>3, <2>4 DEF LQInv
<1> HIDE DEF Gains
<1>6. ASSUME NEW t \in Task, Acquire(t) \/ AcquireNowait(t) PROVE LQInv'
  <2>1. CASE /\ pc[t] = "idle" /\ Move(t, "check")
             /\ UNCHANGED <<fut, queue, total, wasted>>
    <3>1. Due' = Due /\ Queued' /\ AwaitsEvent'
      BY <1>0, <2>1 DEF Due, DueIn, Queued, QueuedIn, AwaitsEvent, Move
    <3> QED
      BY <1>2, <2>1, <3>1
  <2>2. CASE /\ pc[t] = "idle" /\ (Move(t, "yield") \/ Move(t, "hold"))
             /\ UNCHANGED <<fut, queue, total, wasted>>
    <3>1. Gains(t) /\ ~Contains(queue, Entry(t))
      BY <1>0, <2>2 DEF Gains, Move, Queued, QueuedIn
    <3> QED
      BY <1>5, <3>1
  <2>3. CASE /\ pc[t] = "idle" /\ ~Available /\ Move(t, "wait")
             /\ queue' = Enqueue(BorrowerOf[t], t)
             /\ fut' = [fut EXCEPT ![t] = "pending"]
             /\ UNCHANGED <<total, wasted>>
    <3>1. Due' = Due /\ AwaitsEvent'
      BY <1>0, <2>3 DEF Due, DueIn, AwaitsEvent, Move
    <3>2. queue' = Append(queue, Entry(t)) /\ ~Contains(queue, Entry(t))
      BY <1>0, <2>3, EnqueueAppends
    <3>3. Queued'
      <4> DEFINE S == {Entry(u) : u \in Task}
      <4>1. queue \in Seq(S) /\ IsInjective(queue) /\ Entry(t) \in S
        BY <1>0 DEF Queued, QueuedIn
      <4> HIDE DEF S
      <4>2. /\ queue' \in Seq(S) /\ IsInjective(queue')
            /\ \A x : Contains(queue', x) <=> Contains(queue, x) \/ x = Entry(t)
        BY <3>2, <4>1, AppendFacts
      <4>3. ASSUME NEW u \in Task, Contains(queue', Entry(u))
            PROVE  pc'[u] = "wait" /\ fut'[u] # "result"
        <5>1. CASE u = t
          BY <1>0, <2>3, <5>1 DEF Move
        <5>2. CASE u # t
          <6>1. Contains(queue, Entry(u))
            BY <4>2, <4>3, <5>2 DEF Entry
          <6> QED
            BY <1>0, <2>3, <5>2, <6>1 DEF Move, Queued, QueuedIn
        <5> QED
          BY <5>1, <5>2
      <4> QED
        BY <4>2, <4>3 DEF Queued, QueuedIn, S
    <3>4. AllGivenOut'
      BY <1>0, <1>1, <2>3, <3>1 DEF AllGivenOut, Available
    <3> QED
      BY <1>0, <2>3, <3>1, <3>3, <3>4 DEF LQInv
  <2> QED
    BY <1>6, <2>1, <2>2, <2>3 DEF Acquire, AcquireNowait
<1>7. ASSUME NEW t \in Task, Release(t) PROVE LQInv'
  <2>1. /\ pc[t] \in {"hold", "yield"} /\ pc' = [pc EXCEPT ![t] = "idle"]
        /\ ReturnIfHeld(BorrowerOf[t], fut) /\ total' = total
    BY <1>7 DEF Release, Move
  <2> QED
    BY <2>1, ReturnServes
<1>8. ASSUME NEW t \in Task, ResumeCheck(t) PROVE LQInv'
  <2>1. Due' = Due /\ Queued' /\ AwaitsEvent' /\ UNCHANGED <<queue, total, wasted>>
    BY <1>0, <1>8 DEF ResumeCheck, Move, limiterVars, Due, DueIn, Queued, QueuedIn, AwaitsEvent
  <2> QED
    BY <1>2, <2>1
<1>9. ASSUME NEW t \in Task, ResumeYield(t) PROVE LQInv'
  <2>1. CASE ~Raises(t)
    <3>1. Due' = Due /\ Queued' /\ AwaitsEvent' /\ UNCHANGED <<queue, total, wasted>>
      BY <1>0, <1>9, <2>1 DEF ResumeYield, Move, Due, DueIn, Queued, QueuedIn, AwaitsEvent
    <3> QED
      BY <1>2, <3>1
  <2>2. CASE Raises(t)
    <3>1. BorrowerOf[t] = t
      BY <1>0, <1>9, <2>2
         DEF ResumeYield, Raises, LIInv, CancelledWhileSuspended, Hittable, OwnBorrowers
    <3>2. /\ pc[t] \in {"hold", "yield"} /\ pc' = [pc EXCEPT ![t] = "idle"]
          /\ ReturnIfHeld(t, fut) /\ total' = total
      BY <1>9, <2>2 DEF ResumeYield, Move
    <3>3. ReturnIfHeld(BorrowerOf[t], fut)
      BY <3>1, <3>2
    <3> QED
      BY <3>2, <3>3, ReturnServes
  <2> QED
    BY <2>1, <2>2
<1>10. ASSUME NEW t \in Task, ResumeWait(t) PROVE LQInv'
  <2>1. fut[t] \in {"result", "cancelled"} /\ pc[t] = "wait"
    BY <1>0, <1>10 DEF ResumeWait, Runnable, AwaitsEvent, FutureState
  <2>2. CASE ~Raises(t)
    <3>1. fut[t] = "result"
      BY <2>1, <2>2 DEF Raises
    <3>2. Gains(t) /\ ~Contains(queue, Entry(t))
      BY <1>0, <1>10, <2>2, <3>1 DEF ResumeWait, Gains, Move, Stepped, Queued, QueuedIn
    <3> QED
      BY <1>5, <3>2
  <2>3. CASE Raises(t)
    <3>1. /\ pc' = [pc EXCEPT ![t] = "idle"] /\ fut' = [fut EXCEPT ![t] = "none"]
          /\ queue' = RemoveFirst(queue, Entry(t)) /\ total' = total
          /\ wasted' = (wasted \/ fut[t] = "result")
      BY <1>0, <1>10, <2>3, WithoutEntry DEF ResumeWait, Move, Stepped
    <3>2. Due' = Due \ {t} /\ AwaitsEvent'
      BY <1>0, <2>1, <3>1 DEF Due, DueIn, AwaitsEvent
    <3>3. IsFiniteSet(Due')
      BY <1>0, <3>2, FS_RemoveElement
    <3>4. fut[t] # "result" => Due' = Due
      BY <2>1, <3>2 DEF Due, DueIn
    <3>5. Queued' /\ (queue' # <<>> => queue # <<>>)
      <4> DEFINE S == {Entry(u) : u \in Task}
      <4>1. queue \in Seq(S) /\ IsInjective(queue)
        BY <1>0 DEF Queued, QueuedIn
      <4> HIDE DEF S
      <4>2. /\ queue' \in Seq(S) /\ IsInjective(queue')
            /\ \A x : Contains(queue', x) <=> Contains(queue, x) /\ x # Entry(t)
        BY <3>1, <4>1, WithdrawFacts
      <4>3. ASSUME NEW u \in Task, Contains(queue', Entry(u))
            PROVE  pc'[u] = "wait" /\ fut'[u] # "result"
        <5>1. Contains(queue, Entry(u)) /\ u # t
          BY <4>2, <4>3
        <5> QED
          BY <1>0, <3>1, <5>1 DEF Queued, QueuedIn
      <4>4. queue = <<>> => queue' = <<>>
        BY <3>1 DEF RemoveFirst
      <4> QED
        BY <4>2, <4>3, <4>4 DEF Queued, QueuedIn, S
    <3>6. AllGivenOut'
      BY <1>0, <3>1, <3>4, <3>5 DEF AllGivenOut
    <3> QED
      BY <1>0, <3>1, <3>2, <3>3, <3>5, <3>6 DEF LQInv
  <2> QED
    BY <2>2, <2>3
<1>11. ASSUME NEW t \in Task, Cancelling(t) PROVE LQInv'
  <2>1. /\ UNCHANGED <<pc, queue, total, wasted>>
        /\ fut' = fut \/ (fut[t] = "pending" /\ fut' = [fut EXCEPT ![t] = "cancelled"])
    BY <1>11 DEF Cancelling, ScopeCancel, Redeliver, NativeCancel, LeaveScope, TaskCancel, limiterVars
  <2>2. Due' = Due /\ Queued' /\ AwaitsEvent'
    BY <1>0, <2>1 DEF Due, DueIn, Queued, QueuedIn, AwaitsEvent
  <2> QED
    BY <1>2, <2>1, <2>2
<1> QED
  BY <1>3, <1>4, <1>6, <1>7, <1>8, <1>9, <1>10, <1>11 DEF Next, Resume

\* A free token, a borrower that queues for one and nobody on the way to it: that comes
\* about only where a notification went to a waiter that was being cancelled.
THEOREM TokensAreHandedOn ==
  ASSUME OwnBorrowers
  PROVE  Spec => []TokenLostToCancelledWaiter
<1>1. Init => LIInv /\ LQInv
  BY InitLIInv, InitLQInv
<1>2. LIInv /\ LQInv /\ [Next]_vars => LIInv' /\ LQInv'
  BY NextLIInv, NextLQInv
<1>3. ASSUME LIInv, LQInv PROVE TokenLostToCancelledWaiter
  <2> SUFFICES ASSUME TokenLost, ~wasted PROVE FALSE
    BY DEF TokenLostToCancelledWaiter
  <2>1. queue # <<>> /\ Cardinality(Due) >= total /\ total \in Nat /\ IsFiniteSet(Due)
    BY <1>3, LimiterAssumption DEF LQInv, AllGivenOut, TokenLost
  <2>2. Due = {t \in Task : Holds(t)}
    BY DEF Due, DueIn, Holds, TokenLost
  <2>3. IsFiniteSet(borrowers) /\ Cardinality(borrowers) = Cardinality(Due)
    BY <1>3, <2>1, <2>2, BorrowersCounted DEF LIInv
  <2>4. Cardinality(Due) \in Nat /\ Cardinality(Due) < total
    BY <2>1, <2>3, FS_CardinalityType DEF TokenLost
  <2> QED
    BY <2>1, <2>4
<1> QED
  BY <1>1, <1>2, <1>3, PTL DEF Spec
=============================================================================
