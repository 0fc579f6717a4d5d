----------------------------- MODULE GroupProofs -----------------------------
(***************************************************************************)
(* Proofs about CancelScope and TaskGroup, for any tasks, scopes and       *)
(* groups.                                                                 *)
(*                                                                         *)
(* First, the scopes alone. Nearest() and Visited() are recursive          *)
(* functions.  That they satisfy their equations follows from the finite   *)
(* walks along the parents; what they find follows by induction on the     *)
(* depth of a scope.  The invariant ScopeInv has one named part per        *)
(* argument: the scopes that a task hosts form a stack (Stacked);          *)
(* Task.cancelling() counts the requests of the scopes on it one by one,   *)
(* and the count at the entry of a scope no more than those of the scopes  *)
(* around it (Counted), so that __exit__ takes back exactly its own; a     *)
(* cancellation in flight has a cancelled scope on the stack (Traced), so  *)
(* that some __exit__ swallows it; and the closest cancelled scope of      *)
(* every task has a delivery scheduled (ArmedBut).  There is a lemma for   *)
(* every method, and the steps follow from them.                           *)
(*                                                                         *)
(* Second, the host of a group is never left waiting for nobody. The walks *)
(* over the scopes do not matter to it: whatever a delivery of a           *)
(* cancellation visits, it only takes futures away, and moves no task to   *)
(* another scope.                                                          *)
(*                                                                         *)
(* Third, where cancellations go: a failure leaves the group in a          *)
(* cancelled scope, and whoever waits in a cancelled scope is sent the     *)
(* cancellation. The scopes of all tasks form a forest there, with a depth *)
(* for each; the invariant CInv says that each cancelled scope that a task *)
(* finds has a delivery, or waits for one further down to be left.         *)
(***************************************************************************)
EXTENDS TaskGroup, FiniteSetTheorems, WellFoundedInduction, TLAPS

Ends(sc, x) == x = NoScope \/ sc[x].called \/ sc[x].shield
Upward(sc) == \A x \in Scope : sc[x].parent \in Scope \union {NoScope}

\* The walk up from x in n steps
Walk(sc, x, n, p) ==
  /\ p \in [0..n -> Scope \union {NoScope}] /\ p[0] = x /\ Ends(sc, p[n])
  /\ \A i \in 0..(n - 1) : ~Ends(sc, p[i]) /\ p[i + 1] = sc[p[i]].parent

EndOf(sc, x) == IF x = NoScope \/ sc[x].called THEN x ELSE NoScope

ReachedFrom(sc, x) == {y \in Scope \union {NoScope} :
  \E n \in Nat : \E p \in [0..n -> Scope \union {NoScope}] : Walk(sc, x, n, p) /\ y = EndOf(sc, p[n])}

LEMMA ReachedAtOnce ==
  ASSUME NEW sc, Upward(sc), NEW x \in Scope \union {NoScope}, Ends(sc, x)
  PROVE  ReachedFrom(sc, x) = {EndOf(sc, x)}
<1>1. EndOf(sc, x) \in Scope \union {NoScope}
  BY DEF EndOf
<1>2. EndOf(sc, x) \in ReachedFrom(sc, x)
  <2> DEFINE p == [i \in 0..0 |-> x]
  <2>1. p \in [0..0 -> Scope \union {NoScope}] /\ p[0] = x
    OBVIOUS
  <2>2. Walk(sc, x, 0, p)
    BY <2>1 DEF Walk
  <2> QED
    BY <1>1, <2>1, <2>2 DEF ReachedFrom
<1>3. ASSUME NEW n \in Nat, NEW p, Walk(sc, x, n, p)
      PROVE  p[n] = x
  BY <1>3 DEF Walk
<1> QED
  BY <1>2, <1>3 DEF ReachedFrom

LEMMA ReachedFromParent ==
  ASSUME NEW sc, Upward(sc), NEW x \in Scope \union {NoScope}, ~Ends(sc, x)
  PROVE  ReachedFrom(sc, x) = ReachedFrom(sc, sc[x].parent)
<1> DEFINE up == sc[x].parent
           S == Scope \union {NoScope}
<1>0. x \in Scope /\ up \in S
  BY DEF Upward, Ends
<1>1. ASSUME NEW n \in Nat, NEW p \in [0..n -> S], Walk(sc, x, n, p)
      PROVE  \E m \in Nat : \E q \in [0..m -> S] : Walk(sc, up, m, q) /\ q[m] = p[n]
  <2>1. n # 0
    BY <1>1 DEF Walk
  <2> DEFINE q == [i \in 0..(n - 1) |-> p[i + 1]]
  <2>2. n - 1 \in Nat /\ q \in [0..(n - 1) -> S] /\ q[n - 1] = p[n] /\ q[0] = p[1]
    BY <2>1
  <2>3. q[0] = up
    BY <1>1, <2>1, <2>2 DEF Walk
  <2>4. \A i \in 0..(n - 1 - 1) : ~Ends(sc, q[i]) /\ q[i + 1] = sc[q[i]].parent
    BY <1>1, <2>1 DEF Walk
  <2> HIDE DEF q
  <2>5. Walk(sc, up, n - 1, q)
    BY <1>1, <2>2, <2>3, <2>4 DEF Walk
  <2> QED
    BY <2>2, <2>5
<1>2. ASSUME NEW n \in Nat, NEW p \in [0..n -> S], Walk(sc, up, n, p)
      PROVE  \E m \in Nat : \E q \in [0..m -> S] : Walk(sc, x, m, q) /\ q[m] = p[n]
  <2> DEFINE q == [i \in 0..(n + 1) |-> IF i = 0 THEN x ELSE p[i - 1]]
  <2>2. n + 1 \in Nat /\ q \in [0..(n + 1) -> S] /\ q[n + 1] = p[n] /\ q[0] = x
    BY <1>0
  <2>4. \A i \in 0..(n + 1 - 1) : ~Ends(sc, q[i]) /\ q[i + 1] = sc[q[i]].parent
    <3> SUFFICES ASSUME NEW i \in 0..(n + 1 - 1)
                 PROVE  ~Ends(sc, q[i]) /\ q[i + 1] = sc[q[i]].parent
      OBVIOUS
    <3>1. CASE i = 0
      BY <1>2, <3>1 DEF Walk
    <3>2. CASE i # 0
      <4>1. i - 1 \in 0..(n - 1) /\ q[i] = p[i - 1] /\ q[i + 1] = p[i - 1 + 1]
        BY <3>2
      <4> QED
        BY <1>2, <4>1 DEF Walk
    <3> QED
      BY <3>1, <3>2
  <2> HIDE DEF q
  <2>5. Walk(sc, x, n + 1, q)
    BY <1>2, <2>2, <2>4 DEF Walk
  <2> QED
    BY <2>2, <2>5
<1> QED
  BY <1>1, <1>2 DEF ReachedFrom

\* Nearest() is defined by a recursive function; the walks show that there is one
\* that satisfies the equation, so that it holds of the one that is chosen.
LEMMA NearestUnrolls ==
  ASSUME NEW sc, Upward(sc), NEW x \in Scope \union {NoScope}
  PROVE  Nearest(sc, x) = IF x = NoScope \/ sc[x].called THEN x
                          ELSE IF sc[x].shield THEN NoScope
                          ELSE Nearest(sc, sc[x].parent)
<1> DEFINE S == Scope \union {NoScope}
           Next1(g) == [y \in S |-> IF y = NoScope \/ sc[y].called THEN y
                                    ELSE IF sc[y].shield THEN NoScope
                                    ELSE g[sc[y].parent]]
           pick(R) == CHOOSE z : z \in R
           f == [y \in S |-> pick(ReachedFrom(sc, y))]
           near == CHOOSE g : g = Next1(g)
<1>1. \A y \in S : Ends(sc, y) => pick(ReachedFrom(sc, y)) = EndOf(sc, y)
  BY ReachedAtOnce
<1>2. \A y \in S : ~Ends(sc, y) => /\ sc[y].parent \in S
                                   /\ pick(ReachedFrom(sc, y)) = pick(ReachedFrom(sc, sc[y].parent))
  BY ReachedFromParent DEF Upward, Ends
<1> HIDE DEF pick
<1>3. f = Next1(f)
  <2>1. \A y \in S : f[y] = Next1(f)[y]
    BY <1>1, <1>2 DEF Ends, EndOf
  <2> QED
    BY <2>1
<1> HIDE DEF f
<1>4. near = Next1(near)
  BY <1>3
<1>5. \A y \in S : Nearest(sc, y) = near[y]
  BY DEF Nearest
<1> HIDE DEF near
<1>6. near[x] = Next1(near)[x]
  BY <1>4
<1>7. x = NoScope \/ sc[x].parent \in S
  BY DEF Upward
<1> QED
  BY <1>5, <1>6, <1>7

\* The walk up from x to the origin o of a delivery, through scopes it visits
Passes(sc, x) == sc[x].active /\ ~sc[x].shield /\ ~sc[x].called

Descent(sc, o, x, n, p) ==
  /\ p \in [0..n -> Scope] /\ p[0] = x /\ p[n] = o
  /\ \A i \in 0..(n - 1) : Passes(sc, p[i]) /\ p[i + 1] = sc[p[i]].parent

Below(sc, o, x) == \E n \in Nat : \E p \in [0..n -> Scope] : Descent(sc, o, x, n, p)

LEMMA BelowParent ==
  ASSUME NEW sc, NEW o \in Scope, NEW x \in Scope
  PROVE  Below(sc, o, x) <=> x = o \/ (Passes(sc, x) /\ sc[x].parent \in Scope /\ Below(sc, o, sc[x].parent))
<1> DEFINE up == sc[x].parent
<1>1. Below(sc, o, o)
  <2> DEFINE p == [i \in 0..0 |-> o]
  <2>1. p \in [0..0 -> Scope] /\ Descent(sc, o, o, 0, p)
    BY DEF Descent
  <2> QED
    BY <2>1 DEF Below
<1>2. ASSUME NEW n \in Nat, NEW p \in [0..n -> Scope], Descent(sc, o, x, n, p), x # o
      PROVE  Passes(sc, x) /\ up \in Scope /\ Below(sc, o, up)
  <2>1. n # 0
    BY <1>2 DEF Descent
  <2> DEFINE q == [i \in 0..(n - 1) |-> p[i + 1]]
  <2>2. n - 1 \in Nat /\ q \in [0..(n - 1) -> Scope] /\ q[n - 1] = p[n] /\ q[0] = p[1]
    BY <2>1
  <2>3. q[0] = up /\ Passes(sc, x) /\ q[n - 1] = o
    BY <1>2, <2>1, <2>2 DEF Descent
  <2>4. \A i \in 0..(n - 1 - 1) : Passes(sc, q[i]) /\ q[i + 1] = sc[q[i]].parent
    BY <1>2, <2>1 DEF Descent
  <2> HIDE DEF q
  <2>5. Descent(sc, o, up, n - 1, q)
    BY <2>2, <2>3, <2>4 DEF Descent
  <2>6. up \in Scope
    BY <2>1, <2>2, <2>3
  <2> QED
    BY <2>2, <2>3, <2>5, <2>6 DEF Below
<1>3. ASSUME NEW n \in Nat, NEW p \in [0..n -> Scope], Passes(sc, x), Descent(sc, o, up, n, p)
      PROVE  Below(sc, o, x)
  <2> DEFINE q == [i \in 0..(n + 1) |-> IF i = 0 THEN x ELSE p[i - 1]]
  <2>2. n + 1 \in Nat /\ q \in [0..(n + 1) -> Scope] /\ q[n + 1] = p[n] /\ q[0] = x
    OBVIOUS
  <2>4. \A i \in 0..(n + 1 - 1) : Passes(sc, q[i]) /\ q[i + 1] = sc[q[i]].parent
    <3> SUFFICES ASSUME NEW i \in 0..(n + 1 - 1)
                 PROVE  Passes(sc, q[i]) /\ q[i + 1] = sc[q[i]].parent
      OBVIOUS
    <3>1. CASE i = 0
      BY <1>3, <3>1 DEF Descent
    <3>2. CASE i # 0
      <4>1. i - 1 \in 0..(n - 1) /\ q[i] = p[i - 1] /\ q[i + 1] = p[i - 1 + 1]
        BY <3>2
      <4> QED
        BY <1>3, <4>1 DEF Descent
    <3> QED
      BY <3>1, <3>2
  <2> HIDE DEF q
  <2>5. Descent(sc, o, x, n + 1, q)
    BY <1>3, <2>2, <2>4 DEF Descent
  <2> QED
    BY <2>2, <2>5 DEF Below
<1> QED
  BY <1>1, <1>2, <1>3 DEF Below

\* The same for the walk down: a delivery visits its origin, and what passes on to
\* a scope that it visits.
LEMMA VisitedUnrolls ==
  ASSUME NEW sc, Upward(sc), NEW o \in Scope, NEW x \in Scope
  PROVE  x \in Visited(sc, o)
           <=> x = o \/ (Passes(sc, x) /\ sc[x].parent \in Visited(sc, o))
<1> DEFINE S == Scope \union {NoScope}
           Next1(g) == [y \in S |-> y = o \/ /\ y # NoScope
                                              /\ sc[y].active /\ ~sc[y].shield /\ ~sc[y].called
                                              /\ g[sc[y].parent]]
           f == [y \in S |-> y # NoScope /\ Below(sc, o, y)]
           below == CHOOSE g : g = Next1(g)
<1>0. NoScope \notin Scope
  BY ScopeAssumption
<1>1. f = Next1(f)
  <2>1. \A y \in S : f[y] = Next1(f)[y]
    <3> SUFFICES ASSUME NEW y \in S
                 PROVE  f[y] <=> Next1(f)[y]
      OBVIOUS
    <3>1. CASE y = NoScope
      BY <3>1, <1>0
    <3>2. CASE y \in Scope
      <4>1. sc[y].parent \in S
        BY <3>2 DEF Upward
      <4>2. f[sc[y].parent] <=> sc[y].parent \in Scope /\ Below(sc, o, sc[y].parent)
        BY <4>1, <1>0
      <4>3. f[y] <=> Below(sc, o, y)
        BY <3>2, <1>0
      <4>4. Below(sc, o, y) <=> y = o \/ (Passes(sc, y) /\ f[sc[y].parent])
        BY <3>2, <4>2, BelowParent
      <4> HIDE DEF f
      <4>5. Next1(f)[y] <=> y = o \/ (Passes(sc, y) /\ f[sc[y].parent])
        BY <3>2, <1>0 DEF Passes
      <4> QED
        BY <4>3, <4>4, <4>5
    <3> QED
      BY <3>1, <3>2
  <2> QED
    BY <2>1
<1> HIDE DEF f
<1>4. below = Next1(below)
  BY <1>1
<1>5. Visited(sc, o) = {y \in Scope : below[y]}
  BY DEF Visited
<1> HIDE DEF below
<1>6. \A y \in S : below[y] = Next1(below)[y]
  BY <1>4
<1>7. sc[x].parent \in S /\ (below[NoScope] <=> FALSE)
  BY <1>0, <1>6 DEF Upward
<1>8. sc[x].parent \in Visited(sc, o) <=> below[sc[x].parent]
  BY <1>5, <1>7, <1>0
<1>9. below[x] <=> x = o \/ (Passes(sc, x) /\ below[sc[x].parent])
  BY <1>6, <1>0 DEF Passes
<1> QED
  BY <1>5, <1>8, <1>9

-----------------------------------------------------------------------------
(* The scopes of each task form a stack: `d` is the depth of each scope.     *)

Typed(tk, sc) == tk \in [Task -> TaskState] /\ sc \in [Scope -> ScopeState]

Hosted(sc, t) == {s \in Scope : sc[s].host = t}

Stacked(tk, sc, d) ==
  \A t \in Task :
    /\ tk[t].cur \in Hosted(sc, t) \union {NoScope}
    /\ tk[t].cur = NoScope => Hosted(sc, t) = {}
    /\ \A s \in Hosted(sc, t) :
         /\ sc[s].active
         /\ sc[s].parent \in Hosted(sc, t) \union {NoScope}
         /\ d[s] = IF sc[s].parent = NoScope THEN 1 ELSE d[sc[s].parent] + 1
         /\ d[s] <= d[tk[t].cur]
         /\ \A x \in Hosted(sc, t) : d[x] = d[s] => x = s

LEMMA SmallestNumber ==
  ASSUME NEW S, S \subseteq Nat, S # {}
  PROVE  \E m \in S : \A n \in S : m <= n
<1>1. PICK m \in S : \A n \in S : ~ (<<n, m>> \in OpToRel(<, Nat))
  BY WFMin, NatLessThanWellFounded
<1>2. \A n \in S : ~(n < m)
  BY <1>1 DEF OpToRel
<1> QED
  BY <1>2

\* A set of hosted scopes, each with its parent or an element that is less deep,
\* is empty: how facts are proved along the stack of a task.
LEMMA AlongTheStack ==
  ASSUME NEW tk, NEW sc, NEW d \in [Scope -> Nat], Stacked(tk, sc, d), NEW t \in Task,
         NEW Bad, Bad \subseteq Hosted(sc, t),
         \A x \in Bad : sc[x].parent # NoScope /\ sc[x].parent \in Bad
  PROVE  Bad = {}
<1> SUFFICES ASSUME Bad # {} PROVE FALSE
  OBVIOUS
<1> DEFINE S == {d[x] : x \in Bad}
<1>1. S \subseteq Nat /\ S # {}
  BY DEF Hosted
<1>2. PICK m \in S : \A n \in S : m <= n
  BY <1>1, SmallestNumber
<1>3. PICK x \in Bad : m = d[x]
  OBVIOUS
<1>4. sc[x].parent \in Bad /\ d[x] = d[sc[x].parent] + 1 /\ x \in Scope /\ sc[x].parent \in Scope
  BY DEF Stacked, Hosted
<1>5. d[x] <= d[sc[x].parent]
  BY <1>2, <1>3, <1>4
<1> QED
  BY <1>4, <1>5

LEMMA TypedUpward ==
  ASSUME NEW tk, NEW sc, Typed(tk, sc)
  PROVE  Upward(sc)
BY DEF Typed, Upward, ScopeState

\* A delivery that reaches a task comes from a scope of the task; and the walk up
\* from where it reaches it finds that scope.
LEMMA VisitedHosted ==
  ASSUME NEW tk, NEW sc, NEW d \in [Scope -> Nat], Typed(tk, sc), Stacked(tk, sc, d),
         NEW t \in Task, NEW o \in Scope
  PROVE  \A x \in Hosted(sc, t) : x \in Visited(sc, o) =>
           o \in Hosted(sc, t) /\ (sc[o].called => Nearest(sc, x) = o)
<1> DEFINE Bad == {x \in Hosted(sc, t) : /\ x \in Visited(sc, o)
                                         /\ ~(o \in Hosted(sc, t) /\ (sc[o].called => Nearest(sc, x) = o))}
<1>1. ASSUME NEW x \in Bad PROVE sc[x].parent # NoScope /\ sc[x].parent \in Bad
  <2>1. x \in Scope /\ Upward(sc) /\ x # NoScope
    BY TypedUpward, ScopeAssumption DEF Hosted
  <2>2. Nearest(sc, o) = IF sc[o].called THEN o ELSE Nearest(sc, o)
    BY <2>1, NearestUnrolls
  <2>3. x # o
    BY <2>2
  <2>4. Passes(sc, x) /\ sc[x].parent \in Visited(sc, o)
    BY <2>1, <2>3, VisitedUnrolls
  <2>5. Nearest(sc, x) = Nearest(sc, sc[x].parent)
    BY <2>1, <2>4, NearestUnrolls DEF Passes
  <2>6. sc[x].parent \in Hosted(sc, t)
    BY <2>4, ScopeAssumption DEF Stacked, Visited
  <2> QED
    BY <2>1, <2>4, <2>5, <2>6, ScopeAssumption DEF Hosted
<1> HIDE DEF Bad
<1>2. Bad = {}
  <2>1. Bad \subseteq Hosted(sc, t)
    BY DEF Bad
  <2> QED
    BY <1>1, <2>1, AlongTheStack
<1> QED
  BY <1>2 DEF Bad

\* What the walk up finds is a cancelled scope of the same task, and a delivery from
\* there comes back down.
LEMMA NearestHosted ==
  ASSUME NEW tk, NEW sc, NEW d \in [Scope -> Nat], Typed(tk, sc), Stacked(tk, sc, d),
         NEW t \in Task
  PROVE  \A x \in Hosted(sc, t) \union {NoScope} :
           Nearest(sc, x) # NoScope => /\ Nearest(sc, x) \in Hosted(sc, t)
                                       /\ sc[Nearest(sc, x)].called
                                       /\ x \in Visited(sc, Nearest(sc, x))
<1> DEFINE Found(x) == LET c == Nearest(sc, x) IN
             c # NoScope => c \in Hosted(sc, t) /\ sc[c].called /\ x \in Visited(sc, c)
           Bad == {x \in Hosted(sc, t) : ~Found(x)}
<1>0. Found(NoScope) /\ Upward(sc)
  BY TypedUpward, NearestUnrolls
<1>1. ASSUME NEW x \in Bad PROVE sc[x].parent # NoScope /\ sc[x].parent \in Bad
  <2>1. x \in Scope /\ x # NoScope /\ sc[x].parent \in Hosted(sc, t) \union {NoScope}
    BY ScopeAssumption DEF Hosted, Stacked
  <2>2. Nearest(sc, x) = IF sc[x].called THEN x
                         ELSE IF sc[x].shield THEN NoScope
                         ELSE Nearest(sc, sc[x].parent)
    BY <1>0, <2>1, NearestUnrolls
  <2>3. x \in Visited(sc, x)
    BY <1>0, <2>1, VisitedUnrolls
  <2>4. ~sc[x].called /\ ~sc[x].shield /\ Nearest(sc, x) = Nearest(sc, sc[x].parent)
    BY <2>1, <2>2, <2>3
  <2>5. Passes(sc, x)
    BY <2>4 DEF Passes, Stacked, Hosted
  <2>6. ~Found(sc[x].parent)
    BY <2>1, <2>4, <2>5, <1>0, VisitedUnrolls DEF Hosted
  <2> QED
    BY <1>0, <2>1, <2>6
<1> HIDE DEF Bad
<1>2. Bad = {}
  <2>1. Bad \subseteq Hosted(sc, t)
    BY DEF Bad
  <2> QED
    BY <1>1, <2>1, AlongTheStack
<1> QED
  BY <1>0, <1>2 DEF Bad

SameWay(sc, n, t, s) ==
  \A x \in Hosted(sc, t) \ {s} : /\ n[x].parent = sc[x].parent
                                 /\ n[x].called = sc[x].called
                                 /\ n[x].shield = sc[x].shield

\* When nothing on the way changed but the scope s, the walk up finds what it found,
\* or it passes s, and passed it before.
LEMMA NearestExcept ==
  ASSUME NEW tk, NEW sc, NEW d \in [Scope -> Nat], Typed(tk, sc), Stacked(tk, sc, d),
         NEW t \in Task, NEW s, NEW n, Upward(n),
         SameWay(sc, n, t, s)
  PROVE  \A x \in Hosted(sc, t) \union {NoScope} :
           \/ Nearest(n, x) = Nearest(sc, x)
           \/ /\ Nearest(n, x) = Nearest(n, s) /\ Nearest(sc, x) = Nearest(sc, s)
              /\ s \in Hosted(sc, t)
<1> DEFINE Kept(x) == \/ Nearest(n, x) = Nearest(sc, x)
                      \/ /\ Nearest(n, x) = Nearest(n, s) /\ Nearest(sc, x) = Nearest(sc, s)
                         /\ s \in Hosted(sc, t)
           Bad == {x \in Hosted(sc, t) : ~Kept(x)}
<1>0. Kept(NoScope) /\ Upward(sc)
  BY TypedUpward, NearestUnrolls
<1>1. ASSUME NEW x \in Bad PROVE sc[x].parent # NoScope /\ sc[x].parent \in Bad
  <2>1. x \in Scope /\ x # NoScope /\ x # s /\ sc[x].parent \in Hosted(sc, t) \union {NoScope}
    BY ScopeAssumption DEF Hosted, Stacked
  <2>2. Nearest(sc, x) = IF sc[x].called THEN x
                         ELSE IF sc[x].shield THEN NoScope
                         ELSE Nearest(sc, sc[x].parent)
    BY <1>0, <2>1, NearestUnrolls
  <2>3. Nearest(n, x) = IF n[x].called THEN x
                        ELSE IF n[x].shield THEN NoScope
                        ELSE Nearest(n, n[x].parent)
    BY <2>1, NearestUnrolls
  <2>4. /\ n[x].parent = sc[x].parent /\ n[x].called = sc[x].called /\ n[x].shield = sc[x].shield
    BY <2>1 DEF SameWay
  <2>5. ~Kept(sc[x].parent)
    BY <2>2, <2>3, <2>4
  <2> QED
    BY <1>0, <2>1, <2>5
<1> HIDE DEF Bad
<1>2. Bad = {}
  <2>1. Bad \subseteq Hosted(sc, t)
    BY DEF Bad
  <2> QED
    BY <1>1, <2>1, AlongTheStack
<1> QED
  BY <1>0, <1>2 DEF Bad

-----------------------------------------------------------------------------
(* The methods *)

InsideOf(tk, sc, o) == {t \in Task : tk[t].cur \in Visited(sc, o)}

Hit(tk, sc, o, me) ==
  {t \in InsideOf(tk, sc, o) \ {me} : /\ tk[t].place = "started" /\ tk[t].must = "no"
                                      /\ tk[t].fut \in {"none", "pending"}}

\* A cancellation request changes the future or the flag, and is counted.
LEMMA CancelTaskFields ==
  ASSUME NEW r \in TaskState, NEW kind \in Kind
  PROVE  LET n == CancelTask(r, kind) IN
         /\ n \in TaskState
         /\ n.cur = r.cur /\ n.place = r.place /\ n.exc = r.exc /\ n.natives = r.natives
         /\ n.cancelling = r.cancelling + 1
         /\ n.fut \in {r.fut, kind} /\ n.must \in {r.must, kind}
<1> DEFINE f == IF r.fut = "pending" THEN kind ELSE r.fut
           m == IF r.fut = "pending" THEN r.must ELSE kind
<1>1. CancelTask(r, kind) = [r EXCEPT !.cancelling = r.cancelling + 1, !.fut = f, !.must = m]
  BY DEF CancelTask
<1>2. f \in {r.fut, kind} /\ m \in {r.must, kind}
  OBVIOUS
<1>3. /\ f \in {"none", "pending", "result"} \union Kind /\ m \in {"no"} \union Kind
      /\ r.cancelling + 1 \in Nat
  BY <1>2 DEF TaskState
<1> HIDE DEF f, m
<1> QED
  BY <1>1, <1>2, <1>3 DEF TaskState

\* What a delivery changes: the tasks it hits, and two fields of its origin
Delivers(st, n, o, me) ==
  /\ \A t \in Task : n.task[t] = IF t \in Hit(st.task, st.scope, o, me)
                                 THEN CancelTask(st.task[t], "anyio") ELSE st.task[t]
  /\ \A s \in Scope \ {o} : n.scope[s] = st.scope[s]
  /\ \A s \in Scope : /\ n.scope[s].parent = st.scope[s].parent
                      /\ n.scope[s].host = st.scope[s].host
                      /\ n.scope[s].active = st.scope[s].active
                      /\ n.scope[s].used = st.scope[s].used
                      /\ n.scope[s].called = st.scope[s].called
                      /\ n.scope[s].shield = st.scope[s].shield
                      /\ n.scope[s].before = st.scope[s].before
  /\ n.scope[o].handle <=> InsideOf(st.task, st.scope, o) # {}
  /\ n.scope[o].calls = st.scope[o].calls
       + (IF st.scope[o].host \in Hit(st.task, st.scope, o, me) THEN 1 ELSE 0)

LEMMA DeliverFields ==
  ASSUME NEW st, Typed(st.task, st.scope), NEW o \in Scope, NEW me
  PROVE  LET n == Deliver(st, o, me) IN Typed(n.task, n.scope) /\ Delivers(st, n, o, me)
<1> DEFINE n == Deliver(st, o, me)
           H == Hit(st.task, st.scope, o, me)
           handle == InsideOf(st.task, st.scope, o) # {}
           more == IF st.scope[o].host \in H THEN 1 ELSE 0
<1>1. n.task = [t \in Task |-> IF t \in H THEN CancelTask(st.task[t], "anyio") ELSE st.task[t]]
  BY DEF Deliver, Hit, InsideOf
<1>2. n.scope = [st.scope EXCEPT ![o].handle = handle, ![o].calls = st.scope[o].calls + more]
  BY DEF Deliver, Hit, InsideOf
<1>3. more \in Nat /\ handle \in BOOLEAN
  OBVIOUS
<1> HIDE DEF n, H, handle, more
<1>4. n.task \in [Task -> TaskState]
  <2>1. "anyio" \in Kind
    BY DEF Kind
  <2>2. \A t \in Task : n.task[t] \in TaskState
    BY <1>1, <2>1, CancelTaskFields DEF Typed
  <2> QED
    BY <1>1, <2>2
<1>5. n.scope \in [Scope -> ScopeState]
  BY <1>2, <1>3 DEF Typed, ScopeState
<1>6. /\ \A s \in Scope \ {o} : n.scope[s] = st.scope[s]
      /\ n.scope[o] = [st.scope[o] EXCEPT !.handle = handle, !.calls = st.scope[o].calls + more]
  BY <1>2 DEF Typed
<1>7. /\ n.scope[o].parent = st.scope[o].parent
      /\ n.scope[o].host = st.scope[o].host
      /\ n.scope[o].active = st.scope[o].active
      /\ n.scope[o].used = st.scope[o].used
      /\ n.scope[o].called = st.scope[o].called
      /\ n.scope[o].shield = st.scope[o].shield
      /\ n.scope[o].before = st.scope[o].before
      /\ n.scope[o].handle = handle
      /\ n.scope[o].calls = st.scope[o].calls + more
  BY <1>6 DEF Typed, ScopeState
<1> QED
  BY <1>1, <1>4, <1>5, <1>6, <1>7 DEF Typed, Delivers, n, H, handle, more

-----------------------------------------------------------------------------
(* The invariant.  `me` is the task that makes the call, or NoTask.          *)

Lives(tk, sc, me) ==
  /\ \A s \in Scope : /\ sc[s].host = NoTask \/ sc[s].used
                      /\ sc[s].active => sc[s].host # NoTask
                      /\ sc[s].handle => sc[s].called
                      /\ ~sc[s].used => sc[s].calls = 0
  /\ me \in Task => tk[me].fut = "none" /\ tk[me].must = "no"

\* The requests that the scopes of a task have made and not taken back, one by one, and
\* those of the scopes around s
Requests(sc, t) == {p \in Hosted(sc, t) \X Nat : 1 <= p[2] /\ p[2] <= sc[p[1]].calls}
Outer(sc, d, t, s) == {p \in Requests(sc, t) : d[p[1]] < d[s]}

\* Task.cancelling() counts them and the native ones; the count at the entry of a scope
\* is no more than what there is without the scope and those in it.
Counted(tk, sc, d) ==
  \A t \in Task :
    /\ IsFiniteSet(Requests(sc, t))
    /\ tk[t].cancelling = tk[t].natives + Cardinality(Requests(sc, t))
    /\ \A s \in Hosted(sc, t) :
         sc[s].before <= tk[t].natives + Cardinality(Outer(sc, d, t, s))

\* A cancellation by a scope, on its way or being handled, comes from a cancelled scope
\* that the task is still in.
ByScope(exc) == exc \in {"anyio", "chained"}
Marked(r) == "anyio" \in {r.fut, r.must} \/ ByScope(r.exc)
Traced(tk, sc) ==
  \A t \in Task : Marked(tk[t]) => \E s \in Hosted(sc, t) : sc[s].called

Sound(tk, sc, d, me) ==
  Typed(tk, sc) /\ Stacked(tk, sc, d) /\ Lives(tk, sc, me) /\ Counted(tk, sc, d) /\ Traced(tk, sc)

\* The delivery that is due at every scope that a task finds cancelled, but for o
ArmedBut(tk, sc, o) ==
  \A t \in Task : LET c == Nearest(sc, tk[t].cur) IN c \notin {NoScope, o} => sc[c].handle

\* The tasks of n that have got a cancellation by a scope are inside a cancelled scope.
Inside(tk, n) ==
  \A t \in Task : "anyio" \in {n.task[t].fut, n.task[t].must} \ {tk[t].fut, tk[t].must}
                  => EffectivelyCancelled(n.scope, n.task[t].cur)

SameWaits(tk, n) == \A t \in Task : n[t].fut = tk[t].fut /\ n[t].must = tk[t].must

LEMMA DeliverCounted ==
  ASSUME NEW st, NEW d \in [Scope -> Nat], NEW o \in Scope, NEW me, st.scope[o].called,
         Typed(st.task, st.scope), Stacked(st.task, st.scope, d), Counted(st.task, st.scope, d)
  PROVE  LET n == Deliver(st, o, me) IN
         /\ \A t \in Task : Hosted(n.scope, t) = Hosted(st.scope, t)
         /\ \A t \in Hit(st.task, st.scope, o, me) : o \in Hosted(st.scope, t)
         /\ Counted(n.task, n.scope, d)
<1> DEFINE n == Deliver(st, o, me)
           H == Hit(st.task, st.scope, o, me)
<1>1. Typed(n.task, n.scope) /\ Delivers(st, n, o, me)
  BY DeliverFields
<1> HIDE DEF n
<1>2. \A t \in Task : Hosted(n.scope, t) = Hosted(st.scope, t)
  BY <1>1 DEF Hosted, Delivers
<1>3. ASSUME NEW t \in H PROVE o \in Hosted(st.scope, t)
  <2>1. t \in Task /\ st.task[t].cur \in Visited(st.scope, o)
    BY DEF Hit, InsideOf
  <2>2. st.task[t].cur \in Hosted(st.scope, t)
    BY <2>1, ScopeAssumption DEF Stacked, Visited
  <2> QED
    BY <2>1, <2>2, VisitedHosted
<1>4. ASSUME NEW t \in Task
      PROVE  /\ IsFiniteSet(Requests(n.scope, t))
             /\ n.task[t].cancelling = n.task[t].natives + Cardinality(Requests(n.scope, t))
             /\ \A s \in Hosted(n.scope, t) :
                  n.scope[s].before <= n.task[t].natives + Cardinality(Outer(n.scope, d, t, s))
  <2> DEFINE R == Requests(st.scope, t)
             Q == Requests(n.scope, t)
             new == <<o, st.scope[o].calls + 1>>
  <2>1. /\ IsFiniteSet(R) /\ Cardinality(R) \in Nat
        /\ st.task[t].cancelling = st.task[t].natives + Cardinality(R)
        /\ st.task[t].cancelling \in Nat /\ st.task[t].natives \in Nat
        /\ st.task[t] \in TaskState
    BY FS_CardinalityType DEF Counted, Typed, TaskState
  <2>2. CASE t \notin H
    <3>1. \A s \in Hosted(st.scope, t) : n.scope[s].calls = st.scope[s].calls
      <4>1. st.scope[o].calls \in Nat
        BY DEF Typed, ScopeState
      <4> QED
        BY <1>1, <2>2, <4>1 DEF Hosted, Delivers
    <3>2. Q = R
      BY <1>2, <3>1 DEF Requests
    <3>3. n.task[t] = st.task[t]
      BY <1>1, <2>2 DEF Delivers
    <3>4. \A s : Outer(n.scope, d, t, s) = Outer(st.scope, d, t, s)
      BY <3>2 DEF Outer
    <3>5. \A s \in Hosted(n.scope, t) : n.scope[s].before = st.scope[s].before /\ s \in Hosted(st.scope, t)
      BY <1>1, <1>2 DEF Hosted, Delivers
    <3> QED
      BY <2>1, <3>2, <3>3, <3>4, <3>5 DEF Counted
  <2>3. CASE t \in H
    <3>1. o \in Hosted(st.scope, t) /\ st.scope[o].host = t /\ st.scope[o].calls \in Nat
      BY <1>3, <2>3 DEF Hosted, Typed, ScopeState
    <3>2. n.scope[o].calls = st.scope[o].calls + 1
      BY <1>1, <2>3, <3>1 DEF Delivers
    <3>3. Q = R \union {new}
      <4>1. \A s \in Hosted(st.scope, t) \ {o} : n.scope[s].calls = st.scope[s].calls
        BY <1>1 DEF Hosted, Delivers
      <4>2. Q \subseteq R \union {new}
        BY <1>2, <3>1, <3>2, <4>1 DEF Requests
      <4>3. R \union {new} \subseteq Q
        BY <1>2, <3>1, <3>2, <4>1 DEF Requests
      <4> QED
        BY <4>2, <4>3
    <3>4. new \notin R
      BY <3>1 DEF Requests
    <3>5. IsFiniteSet(Q) /\ Cardinality(Q) = Cardinality(R) + 1
      <4> HIDE DEF R, Q, new
      <4>1. IsFiniteSet(R)
        BY <2>1
      <4> QED
        BY <4>1, <3>3, <3>4, FS_AddElement
    <3>6. /\ n.task[t].cancelling = st.task[t].cancelling + 1
          /\ n.task[t].natives = st.task[t].natives
      BY <1>1, <2>1, <2>3, CancelTaskFields DEF Kind, Delivers
    <3>7. ASSUME NEW s \in Hosted(n.scope, t)
          PROVE  n.scope[s].before <= n.task[t].natives + Cardinality(Outer(n.scope, d, t, s))
      <4> DEFINE A == Outer(st.scope, d, t, s)
                 B == Outer(n.scope, d, t, s)
      <4>1. A \subseteq B /\ B \subseteq Q
        BY <3>3 DEF Outer
      <4>2. Cardinality(A) <= Cardinality(B) /\ Cardinality(A) \in Nat /\ Cardinality(B) \in Nat
        BY <3>5, <4>1, FS_Subset, FS_CardinalityType
      <4>3. st.scope[s].before <= st.task[t].natives + Cardinality(A)
        BY <1>2 DEF Counted
      <4>4. n.scope[s].before = st.scope[s].before /\ st.scope[s].before \in Nat
        BY <1>1 DEF Hosted, Typed, ScopeState, Delivers
      <4> HIDE DEF A, B
      <4> QED
        BY <2>1, <3>6, <4>2, <4>3, <4>4 DEF A, B
    <3> QED
      BY <2>1, <3>5, <3>6, <3>7
  <2> QED
    BY <2>2, <2>3
<1>5. Counted(n.task, n.scope, d)
  BY <1>4 DEF Counted
<1> QED
  BY <1>2, <1>3, <1>5 DEF n

LEMMA DeliverSound ==
  ASSUME NEW st, NEW d \in [Scope -> Nat], NEW o \in Scope, NEW me, st.scope[o].called,
         Sound(st.task, st.scope, d, me), ArmedBut(st.task, st.scope, o)
  PROVE  LET n == Deliver(st, o, me) IN
         Sound(n.task, n.scope, d, me) /\ ArmedBut(n.task, n.scope, NoScope) /\ Inside(st.task, n)
<1> DEFINE n == Deliver(st, o, me)
           H == Hit(st.task, st.scope, o, me)
<1>1. Typed(n.task, n.scope) /\ Delivers(st, n, o, me)
  <2>1. Typed(st.task, st.scope)
    BY DEF Sound
  <2> QED
    BY <2>1, DeliverFields
<1>2. /\ \A t \in Task : Hosted(n.scope, t) = Hosted(st.scope, t)
      /\ \A t \in H : o \in Hosted(st.scope, t)
      /\ Counted(n.task, n.scope, d)
  BY DeliverCounted DEF Sound
<1> HIDE DEF n
<1>3. \A t \in Task : /\ n.task[t].cur = st.task[t].cur /\ n.task[t].exc = st.task[t].exc
                      /\ t \notin H => n.task[t] = st.task[t]
  BY <1>1, CancelTaskFields DEF Kind, Sound, Typed, Delivers
<1>4. Stacked(n.task, n.scope, d)
  <2>1. ASSUME NEW t \in Task, NEW s \in Hosted(st.scope, t)
        PROVE  n.scope[s].parent = st.scope[s].parent /\ n.scope[s].active = st.scope[s].active
    BY <1>1 DEF Hosted, Delivers
  <2> QED
    BY <1>2, <1>3, <2>1 DEF Stacked, Sound
<1>5. Lives(n.task, n.scope, me)
  <2>1. me \notin H
    BY DEF Hit
  <2>2. st.scope[o].host \notin H \/ st.scope[o].used
    <3>1. NoTask \notin H
      BY ScopeAssumption DEF Hit, InsideOf
    <3> QED
      BY <3>1 DEF Sound, Lives
  <2>3. \A s \in Scope : n.scope[s].handle => n.scope[s].called
    BY <1>1 DEF Sound, Lives, Delivers
  <2>4. \A s \in Scope : ~n.scope[s].used => n.scope[s].calls = 0
    BY <1>1, <2>2 DEF Sound, Lives, Delivers
  <2> QED
    BY <1>1, <1>3, <2>1, <2>3, <2>4 DEF Sound, Lives, Delivers
<1>6. Traced(n.task, n.scope)
  BY <1>1, <1>2, <1>3 DEF Traced, Sound, Hosted, Delivers
<1>9. ASSUME NEW t \in Task
      PROVE  Nearest(n.scope, n.task[t].cur) = Nearest(st.scope, st.task[t].cur)
  <2>1. /\ st.task[t].cur \in Hosted(st.scope, t) \union {NoScope}
        /\ Upward(n.scope) /\ Upward(st.scope)
    BY <1>1, TypedUpward DEF Sound, Stacked, Delivers
  <2>2. SameWay(st.scope, n.scope, t, NoScope)
    BY <1>1 DEF Hosted, Delivers, SameWay
  <2>3. Nearest(n.scope, NoScope) = NoScope /\ Nearest(st.scope, NoScope) = NoScope
    BY <2>1, NearestUnrolls
  <2>4. Nearest(n.scope, st.task[t].cur) = Nearest(st.scope, st.task[t].cur)
    BY <2>1, <2>2, <2>3, NearestExcept DEF Sound
  <2> QED
    BY <1>3, <2>4
<1>7. ASSUME NEW t \in Task, NEW c, c = Nearest(n.scope, n.task[t].cur), c # NoScope
      PROVE  n.scope[c].handle
  <2>1. c = Nearest(st.scope, st.task[t].cur)
    BY <1>7, <1>9
  <2>2. c \in Hosted(st.scope, t) /\ st.task[t].cur \in Visited(st.scope, c)
    BY <1>7, <2>1, NearestHosted DEF Sound, Stacked
  <2>3. CASE c = o
    BY <1>1, <2>2, <2>3 DEF InsideOf, Delivers
  <2>4. CASE c # o
    BY <1>1, <1>7, <2>1, <2>2, <2>4 DEF ArmedBut, Hosted, Delivers
  <2> QED
    BY <2>3, <2>4
<1>8. ArmedBut(n.task, n.scope, NoScope)
  BY <1>7 DEF ArmedBut
<1>10. Inside(st.task, n)
  <2> SUFFICES ASSUME NEW t \in H PROVE Nearest(st.scope, st.task[t].cur) # NoScope
    BY <1>3, <1>9, SMTT(30) DEF Inside, EffectivelyCancelled, Hit, InsideOf
  <2>1. t \in Task /\ st.task[t].cur \in Visited(st.scope, o) /\ st.task[t].cur \in Scope
    BY DEF Hit, InsideOf, Visited
  <2>2. st.task[t].cur \in Hosted(st.scope, t)
    BY <2>1, ScopeAssumption DEF Sound, Stacked
  <2> QED
    BY <2>1, <2>2, VisitedHosted, ScopeAssumption DEF Sound
<1> QED
  BY <1>1, <1>2, <1>4, <1>5, <1>6, <1>8, <1>10 DEF Sound, n

\* Steps that leave the scopes alone: no request of a scope comes or goes, and no
\* cancellation by one.
Quiet(tk, n, t) ==
  /\ n[t].cur = tk[t].cur
  /\ n[t].natives - tk[t].natives \in Nat
  /\ n[t].cancelling = tk[t].cancelling + (n[t].natives - tk[t].natives)
  /\ Marked(n[t]) => Marked(tk[t])
AllQuiet(tk, n) == \A t \in Task : Quiet(tk, n, t)
Stepped(n, me) == me \in Task => n[me].fut = "none" /\ n[me].must = "no"

LEMMA TasksMove ==
  ASSUME NEW tk, NEW sc, NEW d \in [Scope -> Nat], NEW me, NEW n, NEW you,
         Sound(tk, sc, d, me), ArmedBut(tk, sc, NoScope), Typed(n, sc),
         AllQuiet(tk, n), Stepped(n, you)
  PROVE  Sound(n, sc, d, you) /\ ArmedBut(n, sc, NoScope)
<1> USE DEF AllQuiet, Quiet, Stepped
<1>1. Stacked(n, sc, d)
  BY DEF Sound, Stacked
<1>2. Lives(n, sc, you)
  BY DEF Sound, Lives
<1>3. Traced(n, sc)
  BY DEF Sound, Traced
<1>4. Counted(n, sc, d)
  <2> SUFFICES ASSUME NEW t \in Task
               PROVE  /\ n[t].cancelling = n[t].natives + Cardinality(Requests(sc, t))
                      /\ \A s \in Hosted(sc, t) :
                           sc[s].before <= n[t].natives + Cardinality(Outer(sc, d, t, s))
    BY DEF Sound, Counted
  <2>1. /\ tk[t].natives \in Nat /\ n[t].natives \in Nat /\ tk[t].cancelling \in Nat
        /\ \A s \in Scope : sc[s].before \in Nat
    BY DEF Sound, Typed, TaskState, ScopeState
  <2>2. /\ IsFiniteSet(Requests(sc, t))
        /\ tk[t].cancelling = tk[t].natives + Cardinality(Requests(sc, t))
        /\ \A s \in Hosted(sc, t) : sc[s].before <= tk[t].natives + Cardinality(Outer(sc, d, t, s))
    BY DEF Sound, Counted
  <2>3. \A s : Cardinality(Outer(sc, d, t, s)) \in Nat
    <3>1. \A s : Outer(sc, d, t, s) \subseteq Requests(sc, t)
      BY DEF Outer
    <3> QED
      BY <2>2, <3>1, FS_Subset, FS_CardinalityType
  <2>4. Cardinality(Requests(sc, t)) \in Nat
    BY <2>2, FS_CardinalityType
  <2> QED
    BY <2>1, <2>2, <2>3, <2>4 DEF Hosted
<1>5. ArmedBut(n, sc, NoScope)
  BY DEF ArmedBut
<1> QED
  BY <1>1, <1>2, <1>3, <1>4, <1>5 DEF Sound

\* Changes of `called`, `shield` and `handle` alone
SameButFlags(sc, n) ==
  \A s \in Scope : /\ n[s].parent = sc[s].parent /\ n[s].host = sc[s].host
                   /\ n[s].active = sc[s].active /\ n[s].used = sc[s].used
                   /\ n[s].calls = sc[s].calls /\ n[s].before = sc[s].before
                   /\ sc[s].called => n[s].called
                   /\ n[s].handle => n[s].called

LEMMA FlagsMove ==
  ASSUME NEW tk, NEW sc, NEW d \in [Scope -> Nat], NEW me, NEW n,
         Sound(tk, sc, d, me), Typed(tk, n), SameButFlags(sc, n)
  PROVE  Sound(tk, n, d, me)
<1> USE DEF SameButFlags
<1>1. \A t \in Task : Hosted(n, t) = Hosted(sc, t)
  BY DEF Hosted
<1>2. \A t \in Task : Requests(n, t) = Requests(sc, t)
  <2>1. \A t \in Task : \A s \in Hosted(sc, t) : n[s].calls = sc[s].calls
    BY DEF Hosted
  <2> QED
    BY <1>1, <2>1 DEF Requests
<1>3. Stacked(tk, n, d)
  <2>1. \A t \in Task : \A s \in Hosted(sc, t) : n[s].parent = sc[s].parent /\ n[s].active = sc[s].active
    BY DEF Hosted
  <2> QED
    BY <1>1, <2>1 DEF Sound, Stacked
<1>4. Lives(tk, n, me)
  BY DEF Sound, Lives
<1>5. Counted(tk, n, d)
  <2>1. \A t \in Task : \A s \in Hosted(sc, t) : n[s].before = sc[s].before
    BY DEF Hosted
  <2> QED
    BY <1>1, <1>2, <2>1 DEF Sound, Counted, Outer
<1>6. Traced(tk, n)
  <2>1. \A t \in Task : \A s \in Hosted(sc, t) : sc[s].called => n[s].called
    BY DEF Hosted
  <2> QED
    BY <1>1, <2>1 DEF Sound, Traced
<1> QED
  BY <1>3, <1>4, <1>5, <1>6 DEF Sound

LEMMA CancelSound ==
  ASSUME NEW st, NEW d \in [Scope -> Nat], NEW s \in Scope, NEW me,
         st = [task |-> st.task, scope |-> st.scope],
         Sound(st.task, st.scope, d, me), ArmedBut(st.task, st.scope, NoScope)
  PROVE  LET n == Cancel(st, s, me) IN
         Sound(n.task, n.scope, d, me) /\ ArmedBut(n.task, n.scope, NoScope) /\ Inside(st.task, n)
<1> DEFINE n == [st EXCEPT !.scope[s].called = TRUE]
<1>1. n.task = st.task /\ n.scope = [st.scope EXCEPT ![s].called = TRUE]
  OBVIOUS
<1>2. /\ Typed(n.task, n.scope) /\ n.scope[s].called
      /\ \A x \in Scope \ {s} : n.scope[x] = st.scope[x]
      /\ n.scope[s] = [st.scope[s] EXCEPT !.called = TRUE]
  <2> HIDE DEF n
  <2>1. st.task \in [Task -> TaskState] /\ st.scope \in [Scope -> ScopeState]
    BY DEF Sound, Typed
  <2>2. /\ \A x \in Scope \ {s} : n.scope[x] = st.scope[x]
        /\ n.scope[s] = [st.scope[s] EXCEPT !.called = TRUE]
    BY <1>1, <2>1
  <2>3. [st.scope[s] EXCEPT !.called = TRUE] \in ScopeState
    BY <2>1 DEF ScopeState
  <2>4. n.scope \in [Scope -> ScopeState] /\ n.scope[s].called
    BY <1>1, <2>1, <2>2, <2>3 DEF ScopeState
  <2> QED
    BY <1>1, <2>1, <2>2, <2>4 DEF Typed
<1> HIDE DEF n
<1>3. /\ SameButFlags(st.scope, n.scope)
      /\ \A x \in Scope : n.scope[x].handle = st.scope[x].handle
  <2>1. st.scope[s] \in ScopeState
    BY DEF Sound, Typed
  <2>2. \A x \in Scope : st.scope[x].handle => st.scope[x].called
    BY DEF Sound, Lives
  <2> QED
    BY <1>2, <2>1, <2>2 DEF SameButFlags, ScopeState
<1>4. Sound(n.task, n.scope, d, me)
  BY <1>1, <1>2, <1>3, FlagsMove
<1>8. ArmedBut(n.task, n.scope, s)
  <2> SUFFICES ASSUME NEW t \in Task, NEW c, c = Nearest(n.scope, st.task[t].cur), c # NoScope, c # s
               PROVE  n.scope[c].handle
    BY <1>1 DEF ArmedBut
  <2>1. Upward(n.scope) /\ Nearest(n.scope, s) = s
    BY <1>2, TypedUpward, NearestUnrolls
  <2>2. st.task[t].cur \in Hosted(st.scope, t) \union {NoScope}
    BY DEF Sound, Stacked
  <2>3. SameWay(st.scope, n.scope, t, s)
    BY <1>2 DEF Hosted, SameWay
  <2>4. Typed(st.task, st.scope) /\ Stacked(st.task, st.scope, d)
    BY DEF Sound
  <2>5. c = Nearest(st.scope, st.task[t].cur)
    BY <2>1, <2>2, <2>3, <2>4, NearestExcept
  <2>6. c \in Scope
    BY <2>2, <2>4, <2>5, NearestHosted DEF Hosted
  <2> QED
    BY <1>3, <2>5, <2>6 DEF ArmedBut
<1>5. CASE st.scope[s].called
  BY <1>5 DEF Cancel, Inside
<1>6. CASE ~st.scope[s].called /\ st.scope[s].host # NoTask
  <2>1. Cancel(st, s, me) = Deliver(n, s, me)
    BY <1>6 DEF Cancel, n
  <2>2. LET m == Deliver(n, s, me) IN
        Sound(m.task, m.scope, d, me) /\ ArmedBut(m.task, m.scope, NoScope) /\ Inside(n.task, m)
    BY <1>2, <1>4, <1>8, DeliverSound
  <2> QED
    BY <1>1, <2>1, <2>2
<1>7. CASE ~st.scope[s].called /\ st.scope[s].host = NoTask
  <2>1. Cancel(st, s, me) = n
    BY <1>7 DEF Cancel, n
  <2>2. ASSUME NEW t \in Task, Nearest(n.scope, n.task[t].cur) = s PROVE FALSE
    <3>1. n.task[t].cur \in Hosted(n.scope, t) \union {NoScope}
      BY <1>4 DEF Sound, Stacked
    <3>2. s \in Hosted(n.scope, t)
      BY <1>4, <2>2, <3>1, NearestHosted, ScopeAssumption DEF Sound
    <3> QED
      BY <1>3, <1>7, <3>2, ScopeAssumption DEF Hosted, SameButFlags
  <2>3. ArmedBut(n.task, n.scope, NoScope)
    BY <1>8, <2>2 DEF ArmedBut
  <2> QED
    BY <1>1, <1>4, <2>1, <2>3 DEF Inside
<1> QED
  BY <1>5, <1>6, <1>7

LEMMA RestartSound ==
  ASSUME NEW st, NEW d \in [Scope -> Nat], NEW s \in Scope, NEW me, NEW t \in Task,
         st.scope[s].parent \in Hosted(st.scope, t) \union {NoScope},
         Sound(st.task, st.scope, d, me),
         ArmedBut(st.task, st.scope, Nearest(st.scope, st.scope[s].parent))
  PROVE  LET n == RestartInParent(st, s, me) IN
         Sound(n.task, n.scope, d, me) /\ ArmedBut(n.task, n.scope, NoScope) /\ Inside(st.task, n)
<1> DEFINE c == Nearest(st.scope, st.scope[s].parent)
<1>1. c # NoScope => c \in Scope /\ st.scope[c].called
  BY NearestHosted DEF Sound, Hosted
<1>2. RestartInParent(st, s, me) =
        IF c # NoScope /\ ~st.scope[c].handle THEN Deliver(st, c, me) ELSE st
  BY DEF RestartInParent
<1> HIDE DEF c
<1>3. CASE c # NoScope /\ ~st.scope[c].handle
  BY <1>1, <1>2, <1>3, DeliverSound DEF c
<1>4. CASE ~(c # NoScope /\ ~st.scope[c].handle)
  <2>1. ArmedBut(st.task, st.scope, NoScope)
    BY <1>4 DEF ArmedBut, c
  <2> QED
    BY <1>2, <1>4, <2>1 DEF Inside
<1> QED
  BY <1>3, <1>4

LEMMA ShieldSound ==
  ASSUME NEW st, NEW d \in [Scope -> Nat], NEW s \in Scope, NEW value \in BOOLEAN, NEW me,
         st = [task |-> st.task, scope |-> st.scope],
         NEW u \in Task, s \in Hosted(st.scope, u),
         Sound(st.task, st.scope, d, me), ArmedBut(st.task, st.scope, NoScope),
         value # st.scope[s].shield
  PROVE  LET n == SetShield(st, s, value, me) IN
         Sound(n.task, n.scope, d, me) /\ ArmedBut(n.task, n.scope, NoScope) /\ Inside(st.task, n)
<1> DEFINE n == [st EXCEPT !.scope[s].shield = value]
<1>1. n.task = st.task /\ n.scope = [st.scope EXCEPT ![s].shield = value]
  OBVIOUS
<1>2. /\ Typed(n.task, n.scope) /\ n.scope[s].shield = value
      /\ \A x \in Scope \ {s} : n.scope[x] = st.scope[x]
      /\ n.scope[s] = [st.scope[s] EXCEPT !.shield = value]
  <2> HIDE DEF n
  <2>1. st.task \in [Task -> TaskState] /\ st.scope \in [Scope -> ScopeState]
    BY DEF Sound, Typed
  <2>2. /\ \A x \in Scope \ {s} : n.scope[x] = st.scope[x]
        /\ n.scope[s] = [st.scope[s] EXCEPT !.shield = value]
    BY <1>1, <2>1
  <2>3. [st.scope[s] EXCEPT !.shield = value] \in ScopeState
    BY <2>1 DEF ScopeState
  <2>4. n.scope \in [Scope -> ScopeState] /\ n.scope[s].shield = value
    BY <1>1, <2>1, <2>2, <2>3 DEF ScopeState
  <2> QED
    BY <1>1, <2>1, <2>2, <2>4 DEF Typed
<1> HIDE DEF n
<1>3. /\ SameButFlags(st.scope, n.scope)
      /\ \A x \in Scope : /\ n.scope[x].handle = st.scope[x].handle
                          /\ n.scope[x].called = st.scope[x].called
  <2>1. st.scope[s] \in ScopeState
    BY DEF Sound, Typed
  <2>2. \A x \in Scope : st.scope[x].handle => st.scope[x].called
    BY DEF Sound, Lives
  <2> QED
    BY <1>2, <2>1, <2>2 DEF SameButFlags, ScopeState
<1>4. Sound(n.task, n.scope, d, me)
  BY <1>1, <1>2, <1>3, FlagsMove
<1>5. Upward(n.scope) /\ Upward(st.scope) /\ s \in Scope
  BY <1>2, TypedUpward DEF Sound
<1>6. ASSUME NEW t \in Task, NEW c, c = Nearest(n.scope, n.task[t].cur), c # NoScope
      PROVE  \/ n.scope[c].handle
             \/ ~value /\ c = Nearest(n.scope, n.scope[s].parent)
  <2>1. st.task[t].cur \in Hosted(st.scope, t) \union {NoScope}
    BY DEF Sound, Stacked
  <2>2. SameWay(st.scope, n.scope, t, s)
    BY <1>2 DEF Hosted, SameWay
  <2>3. Typed(st.task, st.scope) /\ Stacked(st.task, st.scope, d)
    BY DEF Sound
  <2>4. \/ c = Nearest(st.scope, st.task[t].cur)
        \/ c = Nearest(n.scope, s) /\ Nearest(st.scope, st.task[t].cur) = Nearest(st.scope, s)
    BY <1>1, <1>5, <1>6, <2>1, <2>2, <2>3, NearestExcept
  <2>5. CASE c = Nearest(st.scope, st.task[t].cur)
    <3>1. c \in Scope
      BY <1>6, <2>1, <2>3, <2>5, NearestHosted DEF Hosted
    <3> QED
      BY <1>3, <1>6, <2>5, <3>1 DEF ArmedBut
  <2>6. CASE c # Nearest(st.scope, st.task[t].cur)
    <3>1. Nearest(n.scope, s) = IF n.scope[s].called THEN s
                                ELSE IF value THEN NoScope
                                ELSE Nearest(n.scope, n.scope[s].parent)
      BY <1>2, <1>5, NearestUnrolls, ScopeAssumption
    <3>2. st.scope[s].called => Nearest(st.scope, s) = s
      BY <1>5, NearestUnrolls
    <3> QED
      BY <1>3, <1>6, <2>4, <2>6, <3>1, <3>2
  <2> QED
    BY <2>5, <2>6
<1>7. CASE st.scope[s].shield /\ ~value
  <2>1. SetShield(st, s, value, me) = RestartInParent(n, s, me)
    BY <1>7 DEF SetShield, n
  <2>2. ArmedBut(n.task, n.scope, Nearest(n.scope, n.scope[s].parent))
    BY <1>6 DEF ArmedBut
  <2>3. n.scope[s].parent \in Hosted(n.scope, u) \union {NoScope}
    BY <1>3, <1>4 DEF SameButFlags, Hosted, Sound, Stacked
  <2>4. LET m == RestartInParent(n, s, me) IN
        Sound(m.task, m.scope, d, me) /\ ArmedBut(m.task, m.scope, NoScope) /\ Inside(n.task, m)
    BY <1>4, <2>2, <2>3, RestartSound
  <2> QED
    BY <1>1, <2>1, <2>4
<1>8. CASE ~(st.scope[s].shield /\ ~value)
  <2>1. SetShield(st, s, value, me) = n
    BY <1>8 DEF SetShield, n
  <2>2. value
    <3>1. st.scope[s].shield \in BOOLEAN
      BY DEF Sound, Typed, ScopeState
    <3> QED
      BY <1>8, <3>1
  <2>3. ArmedBut(n.task, n.scope, NoScope)
    BY <1>6, <2>2 DEF ArmedBut
  <2> QED
    BY <1>1, <1>4, <2>1, <2>3 DEF Inside
<1> QED
  BY <1>7, <1>8

\* A scope that is entered comes on top of the stack, with no requests of its own.
LEMMA EnterSound ==
  ASSUME NEW st, NEW d \in [Scope -> Nat], NEW s \in Scope, NEW t \in Task, NEW shield \in BOOLEAN,
         Sound(st.task, st.scope, d, t), ArmedBut(st.task, st.scope, NoScope),
         ~st.scope[s].used
  PROVE  LET n == Enter(st, s, t, shield) IN
         /\ \E e \in [Scope -> Nat] : Sound(n.task, n.scope, e, t) /\ ArmedBut(n.task, n.scope, NoScope)
         /\ Inside(st.task, n)
<1> DEFINE r == st.task[t]
           v == [st.scope[s] EXCEPT !.parent = r.cur, !.host = t, !.active = TRUE, !.used = TRUE,
                                    !.shield = shield, !.before = r.cancelling]
           n == [task |-> [st.task EXCEPT ![t].cur = s], scope |-> [st.scope EXCEPT ![s] = v]]
           e == [d EXCEPT ![s] = IF r.cur = NoScope THEN 1 ELSE d[r.cur] + 1]
<1>0. /\ Typed(st.task, st.scope) /\ Stacked(st.task, st.scope, d) /\ Lives(st.task, st.scope, t)
      /\ Counted(st.task, st.scope, d) /\ Traced(st.task, st.scope)
      /\ s # NoScope /\ NoTask \notin Task /\ NoScope \notin Scope
  BY ScopeAssumption DEF Sound
<1>1. /\ n.task = [st.task EXCEPT ![t].cur = s] /\ n.scope = [st.scope EXCEPT ![s] = v]
      /\ Enter(st, s, t, shield) = IF n.scope[s].called THEN Deliver(n, s, t) ELSE n
  BY DEF Enter
<1>2. /\ r \in TaskState /\ r.cur \in Scope \union {NoScope}
      /\ r.cancelling \in Nat /\ st.scope[s] \in ScopeState
  BY <1>0 DEF Typed, TaskState
<1>3. /\ v \in ScopeState /\ v.parent = r.cur /\ v.host = t /\ v.active /\ v.used
      /\ v.shield = shield /\ v.before = r.cancelling /\ v.calls = st.scope[s].calls
      /\ v.called = st.scope[s].called /\ v.handle = st.scope[s].handle
  BY <1>2 DEF ScopeState
<1>4. /\ e \in [Scope -> Nat] /\ e[s] = IF r.cur = NoScope THEN 1 ELSE d[r.cur] + 1
      /\ \A x \in Scope \ {s} : e[x] = d[x]
  BY <1>2
<1> HIDE DEF v, n, e
<1>5. /\ Typed(n.task, n.scope)
      /\ \A u \in Task : /\ n.task[u].cur = IF u = t THEN s ELSE st.task[u].cur
                         /\ n.task[u].fut = st.task[u].fut /\ n.task[u].must = st.task[u].must
                         /\ n.task[u].exc = st.task[u].exc /\ n.task[u].natives = st.task[u].natives
                         /\ n.task[u].cancelling = st.task[u].cancelling
      /\ n.scope[s] = v /\ \A x \in Scope \ {s} : n.scope[x] = st.scope[x]
  <2>1. [r EXCEPT !.cur = s] \in TaskState
    BY <1>2 DEF TaskState
  <2>2. n.task \in [Task -> TaskState] /\ n.task[t] = [r EXCEPT !.cur = s]
        /\ \A u \in Task \ {t} : n.task[u] = st.task[u]
    BY <1>0, <1>1, <2>1 DEF Typed
  <2>3. n.scope \in [Scope -> ScopeState] /\ n.scope[s] = v /\ \A x \in Scope \ {s} : n.scope[x] = st.scope[x]
    BY <1>0, <1>1, <1>3 DEF Typed
  <2> QED
    BY <1>2, <2>2, <2>3 DEF Typed, TaskState
<1>6. /\ \A u \in Task : s \notin Hosted(st.scope, u)
      /\ st.scope[s].calls = 0
      /\ Hosted(n.scope, t) = Hosted(st.scope, t) \union {s}
      /\ \A u \in Task \ {t} : Hosted(n.scope, u) = Hosted(st.scope, u)
  BY <1>0, <1>3, <1>5 DEF Lives, Hosted
<1>7. Stacked(n.task, n.scope, e)
  <2> SUFFICES ASSUME NEW u \in Task
               PROVE  /\ n.task[u].cur \in Hosted(n.scope, u) \union {NoScope}
                      /\ n.task[u].cur = NoScope => Hosted(n.scope, u) = {}
                      /\ \A x \in Hosted(n.scope, u) :
                           /\ n.scope[x].active
                           /\ n.scope[x].parent \in Hosted(n.scope, u) \union {NoScope}
                           /\ e[x] = IF n.scope[x].parent = NoScope THEN 1
                                     ELSE e[n.scope[x].parent] + 1
                           /\ e[x] <= e[n.task[u].cur]
                           /\ \A y \in Hosted(n.scope, u) : e[y] = e[x] => y = x
    BY DEF Stacked
  <2>1. \A x \in Hosted(st.scope, u) : x \in Scope \ {s} /\ n.scope[x] = st.scope[x] /\ e[x] = d[x] /\ d[x] \in Nat
    BY <1>4, <1>5, <1>6 DEF Hosted
  <2>2. CASE u # t
    BY <1>0, <1>4, <1>5, <1>6, <2>1, <2>2 DEF Stacked
  <2>3. CASE u = t
    <3>1. n.task[u].cur = s /\ e[s] \in Nat
      BY <1>4, <1>5, <2>3
    <3>2. \A x \in Hosted(st.scope, u) : d[x] < e[s]
      BY <1>0, <1>4, <2>1, <2>3, <3>1 DEF Stacked
    <3>3. \A x \in Hosted(st.scope, u) :
            /\ st.scope[x].active
            /\ st.scope[x].parent \in Hosted(st.scope, u) \union {NoScope}
            /\ d[x] = IF st.scope[x].parent = NoScope THEN 1 ELSE d[st.scope[x].parent] + 1
            /\ \A y \in Hosted(st.scope, u) : d[y] = d[x] => y = x
      BY <1>0 DEF Stacked
    <3>4. r.cur \in Hosted(st.scope, u) \union {NoScope}
      BY <1>0, <2>3 DEF Stacked
    <3>5. ASSUME NEW x \in Hosted(st.scope, u)
          PROVE  /\ n.scope[x].active
                 /\ n.scope[x].parent \in Hosted(n.scope, u) \union {NoScope}
                 /\ e[x] = IF n.scope[x].parent = NoScope THEN 1 ELSE e[n.scope[x].parent] + 1
                 /\ e[x] <= e[s]
                 /\ \A y \in Hosted(n.scope, u) : e[y] = e[x] => y = x
      BY <1>6, <2>1, <2>3, <3>1, <3>2, <3>3, <3>5
    <3>6. /\ n.scope[s].active
          /\ n.scope[s].parent \in Hosted(n.scope, u) \union {NoScope}
          /\ e[s] = IF n.scope[s].parent = NoScope THEN 1 ELSE e[n.scope[s].parent] + 1
          /\ \A y \in Hosted(n.scope, u) : e[y] = e[s] => y = s
      BY <1>3, <1>4, <1>5, <1>6, <2>1, <2>3, <3>1, <3>2, <3>4
    <3> QED
      BY <1>0, <1>6, <2>3, <3>1, <3>5, <3>6
  <2> QED
    BY <2>2, <2>3
<1>8. Lives(n.task, n.scope, t)
  BY <1>0, <1>3, <1>5 DEF Lives
<1>9. Traced(n.task, n.scope)
  <2>1. \A u \in Task : \A x \in Hosted(st.scope, u) : x \in Hosted(n.scope, u) /\ n.scope[x] = st.scope[x]
    BY <1>5, <1>6 DEF Hosted
  <2> QED
    BY <1>0, <1>5, <2>1 DEF Traced, Marked
<1>10. ASSUME NEW u \in Task
       PROVE  /\ Requests(n.scope, u) = Requests(st.scope, u)
              /\ \A x \in Hosted(st.scope, u) : Outer(n.scope, e, u, x) = Outer(st.scope, d, u, x)
              /\ u = t => Outer(n.scope, e, u, s) = Requests(st.scope, u)
  <2>1. \A x \in Hosted(st.scope, u) : x \in Scope \ {s} /\ n.scope[x] = st.scope[x] /\ e[x] = d[x] /\ d[x] \in Nat
    BY <1>4, <1>5, <1>6 DEF Hosted
  <2>2. Requests(n.scope, u) = Requests(st.scope, u)
    <3>1. n.scope[s].calls = 0
      BY <1>3, <1>5, <1>6
    <3>2. Hosted(st.scope, u) \subseteq Hosted(n.scope, u) /\ Hosted(n.scope, u) \subseteq Hosted(st.scope, u) \union {s}
      BY <1>6
    <3>3. Requests(n.scope, u) \subseteq Requests(st.scope, u)
      BY <2>1, <3>1, <3>2 DEF Requests
    <3>4. Requests(st.scope, u) \subseteq Requests(n.scope, u)
      BY <2>1, <3>2 DEF Requests
    <3> QED
      BY <3>3, <3>4
  <2>3. \A p \in Requests(st.scope, u) : p[1] \in Hosted(st.scope, u)
    BY DEF Requests
  <2>4. \A x \in Hosted(st.scope, u) : Outer(n.scope, e, u, x) = Outer(st.scope, d, u, x)
    BY <2>1, <2>2, <2>3 DEF Outer
  <2>5. ASSUME u = t PROVE \A x \in Hosted(st.scope, u) : e[x] < e[s]
    BY <1>0, <1>4, <2>1, <2>5 DEF Stacked
  <2>6. u = t => Outer(n.scope, e, u, s) = Requests(st.scope, u)
    BY <2>2, <2>3, <2>5 DEF Outer
  <2> QED
    BY <2>2, <2>4, <2>6
<1>11. Counted(n.task, n.scope, e)
  <2> SUFFICES ASSUME NEW u \in Task
               PROVE  /\ IsFiniteSet(Requests(n.scope, u))
                      /\ n.task[u].cancelling = n.task[u].natives + Cardinality(Requests(n.scope, u))
                      /\ \A x \in Hosted(n.scope, u) :
                           n.scope[x].before <= n.task[u].natives + Cardinality(Outer(n.scope, e, u, x))
    BY DEF Counted
  <2>1. /\ IsFiniteSet(Requests(st.scope, u))
        /\ st.task[u].cancelling = st.task[u].natives + Cardinality(Requests(st.scope, u))
        /\ \A x \in Hosted(st.scope, u) :
             st.scope[x].before <= st.task[u].natives + Cardinality(Outer(st.scope, d, u, x))
    BY <1>0 DEF Counted
  <2>2. \A x \in Hosted(st.scope, u) : n.scope[x] = st.scope[x]
    BY <1>5, <1>6 DEF Hosted
  <2>3. u = t => n.scope[s].before = st.task[u].cancelling
    BY <1>3, <1>5
  <2>4. st.task[u].cancelling \in Nat /\ n.task[u].natives = st.task[u].natives
        /\ n.task[u].cancelling = st.task[u].cancelling
    BY <1>0, <1>5 DEF Typed, TaskState
  <2>5. ASSUME NEW x \in Hosted(n.scope, u)
        PROVE  n.scope[x].before <= n.task[u].natives + Cardinality(Outer(n.scope, e, u, x))
    <3>1. CASE x \in Hosted(st.scope, u)
      BY <1>10, <2>1, <2>2, <2>4, <3>1
    <3>2. CASE x \notin Hosted(st.scope, u)
      <4>1. x = s /\ u = t
        BY <1>6, <3>2
      <4> QED
        BY <1>10, <2>1, <2>3, <2>4, <4>1
    <3> QED
      BY <3>1, <3>2
  <2> QED
    BY <1>10, <2>1, <2>4, <2>5
<1>12. Sound(n.task, n.scope, e, t)
  BY <1>5, <1>7, <1>8, <1>9, <1>11 DEF Sound
<1>13. ASSUME NEW u \in Task, NEW c, c = Nearest(n.scope, n.task[u].cur), c # NoScope, c # s
       PROVE  n.scope[c].handle
  <2>1. Upward(n.scope) /\ Upward(st.scope)
    BY <1>0, <1>5, TypedUpward
  <2>2. SameWay(st.scope, n.scope, u, s)
    BY <1>5 DEF Hosted, SameWay
  <2>3. \A x \in Hosted(st.scope, u) \union {NoScope} : Nearest(n.scope, x) = Nearest(st.scope, x)
    <3>1. Typed(st.task, st.scope) /\ Stacked(st.task, st.scope, d) /\ s \notin Hosted(st.scope, u)
      BY <1>0, <1>6
    <3>2. \A x \in Hosted(st.scope, u) \union {NoScope} :
            \/ Nearest(n.scope, x) = Nearest(st.scope, x)
            \/ /\ Nearest(n.scope, x) = Nearest(n.scope, s) /\ Nearest(st.scope, x) = Nearest(st.scope, s)
               /\ s \in Hosted(st.scope, u)
      BY <2>1, <2>2, <3>1, NearestExcept
    <3> QED
      BY <3>1, <3>2
  <2>4. st.task[u].cur \in Hosted(st.scope, u) \union {NoScope}
    BY <1>0 DEF Stacked
  <2>5. c = Nearest(st.scope, st.task[u].cur)
    <3>1. CASE u # t
      BY <1>5, <1>13, <2>3, <2>4, <3>1
    <3>2. CASE u = t
      <4>1. c = Nearest(n.scope, s)
        BY <1>5, <1>13, <3>2
      <4>2. c = Nearest(n.scope, r.cur)
        BY <1>3, <1>5, <1>13, <2>1, <4>1, NearestUnrolls
      <4> QED
        BY <2>3, <2>4, <3>2, <4>2
    <3> QED
      BY <3>1, <3>2
  <2>6. c \in Scope
    BY <1>0, <1>13, <2>4, <2>5, NearestHosted DEF Hosted
  <2> QED
    BY <1>5, <1>13, <2>5, <2>6 DEF ArmedBut
<1>14. CASE n.scope[s].called
  <2>1. ArmedBut(n.task, n.scope, s)
    BY <1>13 DEF ArmedBut
  <2> QED
    <3>1. Enter(st, s, t, shield) = Deliver(n, s, t)
      BY <1>1, <1>14
    <3>2. LET m == Deliver(n, s, t) IN
          Sound(m.task, m.scope, e, t) /\ ArmedBut(m.task, m.scope, NoScope) /\ Inside(n.task, m)
      BY <1>4, <1>12, <1>14, <2>1, DeliverSound
    <3>3. SameWaits(st.task, n.task)
      BY <1>5 DEF SameWaits
    <3>4. Inside(st.task, Deliver(n, s, t))
      BY <3>2, <3>3 DEF Inside, SameWaits
    <3> QED
      BY <1>4, <3>1, <3>2, <3>4
<1>15. CASE ~n.scope[s].called
  <2>1. ASSUME NEW u \in Task PROVE Nearest(n.scope, n.task[u].cur) # s
    <3>1. n.task[u].cur \in Hosted(n.scope, u) \union {NoScope}
      BY <1>7 DEF Stacked
    <3> QED
      BY <1>0, <1>4, <1>5, <1>7, <1>15, <3>1, NearestHosted
  <2>2. ArmedBut(n.task, n.scope, NoScope)
    BY <1>13, <2>1 DEF ArmedBut
  <2>3. Inside(st.task, n)
    BY <1>5 DEF Inside
  <2> QED
    BY <1>1, <1>4, <1>12, <1>15, <2>2, <2>3
<1> QED
  BY <1>14, <1>15

\* A host that has at least as many new requests as the scope made gives them all back.
LEMMA UncancelledAll ==
  ASSUME NEW calls \in Nat, NEW over \in Nat, calls <= over
  PROVE  Uncancelled(calls, over) = calls
<1>1. CASE calls = 0
  BY <1>1 DEF Uncancelled
<1>2. CASE calls # 0
  <2>1. Max({1, over}) = over
    BY <1>2 DEF Max
  <2>2. Min({calls, over}) = calls
    BY <1>2 DEF Min
  <2> QED
    BY <1>2, <2>1, <2>2 DEF Uncancelled
<1> QED
  BY <1>1, <1>2

LEMMA OwnRequests ==
  ASSUME NEW s, NEW calls \in Nat
  PROVE  IsFiniteSet({s} \X (1..calls)) /\ Cardinality({s} \X (1..calls)) = calls
<1> DEFINE one == {s}
           numbers == 1..calls
<1>1. IsFiniteSet(one) /\ Cardinality(one) = 1
  BY FS_Singleton
<1>2. IsFiniteSet(numbers) /\ Cardinality(numbers) = IF 1 > calls THEN 0 ELSE calls - 1 + 1
  BY FS_Interval
<1>3. Cardinality(numbers) = calls
  BY <1>2
<1> HIDE DEF one, numbers
<1>4. IsFiniteSet(one \X numbers) /\ Cardinality(one \X numbers) = Cardinality(one) * Cardinality(numbers)
  BY <1>1, <1>2, FS_Product
<1> QED
  BY <1>1, <1>3, <1>4 DEF one, numbers

\* The requests of the innermost scope are those that those around it have not made.
LEMMA InnermostRequests ==
  ASSUME NEW tk, NEW sc, NEW d \in [Scope -> Nat], Typed(tk, sc), Stacked(tk, sc, d),
         NEW t \in Task, NEW s \in Hosted(sc, t), tk[t].cur = s,
         IsFiniteSet(Requests(sc, t))
  PROVE  /\ Cardinality(Requests(sc, t)) = Cardinality(Outer(sc, d, t, s)) + sc[s].calls
         /\ IsFiniteSet(Outer(sc, d, t, s)) /\ Cardinality(Outer(sc, d, t, s)) \in Nat
<1> DEFINE own == {s} \X (1..sc[s].calls)
           around == Outer(sc, d, t, s)
           calls == sc[s].calls
<1>1. calls \in Nat
  BY DEF Hosted, Typed, ScopeState
<1>2. \A x \in Hosted(sc, t) \ {s} : d[x] < d[s]
  <2>1. \A x \in Hosted(sc, t) : d[x] \in Nat /\ d[x] <= d[s] /\ (d[x] = d[s] => x = s)
    BY DEF Hosted, Stacked
  <2> QED
    BY <2>1
<1>3. Requests(sc, t) = around \union own
  <2>1. \A p \in Requests(sc, t) : p \in around \/ p \in own
    <3> SUFFICES ASSUME NEW x \in Hosted(sc, t), NEW k \in Nat, 1 <= k, k <= sc[x].calls
                 PROVE  <<x, k>> \in Requests(sc, t) => <<x, k>> \in around \/ <<x, k>> \in own
      BY DEF Requests
    <3>1. CASE x = s
      BY <1>1, <3>1
    <3>2. CASE x # s
      BY <1>2, <3>2 DEF Outer
    <3> QED
      BY <3>1, <3>2
  <2>2. own \subseteq Requests(sc, t)
    BY <1>1 DEF Requests
  <2>3. around \subseteq Requests(sc, t)
    BY DEF Outer
  <2> QED
    BY <2>1, <2>2, <2>3
<1>4. around \cap own = {}
  <2>1. \A p \in around : d[p[1]] < d[s]
    BY DEF Outer
  <2>2. \A p \in own : p[1] = s
    OBVIOUS
  <2>3. d[s] \in Nat
    BY DEF Hosted
  <2> QED
    BY <2>1, <2>2, <2>3
<1>5. IsFiniteSet(around)
  <2>1. around \subseteq Requests(sc, t)
    BY DEF Outer
  <2> QED
    BY <2>1, FS_Subset
<1>6. IsFiniteSet(own) /\ Cardinality(own) = calls
  BY <1>1, OwnRequests
<1> HIDE DEF own, around
<1>7. Cardinality(Requests(sc, t)) = Cardinality(around) + Cardinality(own) - Cardinality(around \cap own)
  BY <1>3, <1>5, <1>6, FS_Union
<1>8. Cardinality(around \cap own) = 0 /\ Cardinality(around) \in Nat
  BY <1>4, <1>5, FS_EmptySet, FS_CardinalityType
<1> QED
  BY <1>1, <1>5, <1>6, <1>7, <1>8 DEF around

\* A scope that is left is the innermost one: with it go its requests, and the
\* cancellation that it has caused unless one comes from further out.
LEMMA ExitSound ==
  ASSUME NEW st, NEW d \in [Scope -> Nat], NEW t \in Task, NEW s \in Hosted(st.scope, t),
         st.task[t].cur = s,
         Sound(st.task, st.scope, d, t), ArmedBut(st.task, st.scope, NoScope)
  PROVE  LET n == Exit(st, s) IN
         Sound(n.task, n.scope, d, t) /\ ArmedBut(n.task, n.scope, NoScope) /\ Inside(st.task, n)
<1> DEFINE v == st.scope[s]
           r == st.task[t]
           over == IF r.cancelling > v.before THEN r.cancelling - v.before ELSE 0
           back == Uncancelled(v.calls, over)
           ends == Swallows(st.scope, s, r.exc)
           left == IF r.cancelling > back THEN r.cancelling - back ELSE 0
           exc == IF ends THEN "none" ELSE r.exc
           kept == v.calls - back
           r1 == [r EXCEPT !.cur = v.parent, !.cancelling = left, !.exc = exc]
           v1 == [v EXCEPT !.active = FALSE, !.host = NoTask, !.calls = kept, !.before = 0]
           n == [task |-> [st.task EXCEPT ![t] = r1], scope |-> [st.scope EXCEPT ![s] = v1]]
<1>0. /\ Typed(st.task, st.scope) /\ Stacked(st.task, st.scope, d) /\ Lives(st.task, st.scope, t)
      /\ Counted(st.task, st.scope, d) /\ Traced(st.task, st.scope)
      /\ s \in Scope /\ v.host = t /\ s # NoScope /\ NoTask \notin Task /\ NoScope \notin Scope
  BY ScopeAssumption DEF Sound, Hosted
<1>1. Exit(st, s) = RestartInParent(n, s, t)
  BY <1>0 DEF Exit
<1>2. n.task = [st.task EXCEPT ![t] = r1] /\ n.scope = [st.scope EXCEPT ![s] = v1]
  OBVIOUS
<1>3. /\ r \in TaskState /\ v \in ScopeState /\ v.calls \in Nat /\ v.before \in Nat
      /\ r.natives \in Nat /\ r.cancelling \in Nat /\ v.parent \in Scope \union {NoScope}
  BY <1>0 DEF Typed, TaskState, ScopeState
<1> DEFINE around == Cardinality(Outer(st.scope, d, t, s))
<1>4. around \in Nat /\ r.cancelling = r.natives + around + v.calls /\ v.before <= r.natives + around
  <2>1. /\ IsFiniteSet(Requests(st.scope, t))
        /\ r.cancelling = r.natives + Cardinality(Requests(st.scope, t))
        /\ v.before <= r.natives + around
    BY <1>0 DEF Counted
  <2>2. around \in Nat /\ Cardinality(Requests(st.scope, t)) = around + v.calls
    BY <1>0, <2>1, InnermostRequests
  <2> HIDE DEF around, r, v
  <2> QED
    BY <1>3, <2>1, <2>2
<1>5. back = v.calls
  <2>1. over \in Nat /\ v.calls <= over
    <3> HIDE DEF around, r, v
    <3> QED
      BY <1>3, <1>4
  <2> HIDE DEF over
  <2> QED
    BY <1>3, <2>1, UncancelledAll
<1>6. left = r.natives + around /\ left \in Nat /\ kept = 0
  <2> HIDE DEF around, r, v, back
  <2> QED
    BY <1>3, <1>4, <1>5
<1>7. /\ exc \in {"none", "error"} \union Cancellation
      /\ ByScope(exc) => ByScope(r.exc) /\ ~ends
  <2> HIDE DEF ends
  <2> QED
    BY <1>3 DEF TaskState, ByScope
<1> HIDE DEF around, back, left, exc, over, kept
<1>8. /\ r1 \in TaskState /\ r1.cur = v.parent /\ r1.cancelling = left /\ r1.exc = exc
      /\ r1.fut = r.fut /\ r1.must = r.must /\ r1.natives = r.natives
  BY <1>3, <1>6, <1>7 DEF TaskState
<1>9. /\ v1 \in ScopeState /\ v1.parent = v.parent /\ v1.called = v.called /\ v1.shield = v.shield
      /\ v1.handle = v.handle /\ v1.host = NoTask /\ ~v1.active /\ v1.used = v.used /\ v1.calls = 0
  BY <1>3, <1>6 DEF ScopeState
<1> HIDE DEF r1, v1, n, r, v, ends
<1>10. /\ Typed(n.task, n.scope)
       /\ n.task[t] = r1 /\ \A u \in Task \ {t} : n.task[u] = st.task[u]
       /\ n.scope[s] = v1 /\ \A x \in Scope \ {s} : n.scope[x] = st.scope[x]
  BY <1>0, <1>2, <1>8, <1>9 DEF Typed
<1>11. /\ Hosted(n.scope, t) = Hosted(st.scope, t) \ {s}
       /\ \A u \in Task \ {t} : Hosted(n.scope, u) = Hosted(st.scope, u) /\ s \notin Hosted(st.scope, u)
  BY <1>0, <1>9, <1>10 DEF Hosted, v
<1>12. \A x \in Hosted(st.scope, t) :
         /\ d[x] \in Nat /\ x # NoScope
         /\ x # s => d[x] < d[s] /\ st.scope[x].parent # s /\ n.scope[x] = st.scope[x]
  <2> SUFFICES ASSUME NEW x \in Hosted(st.scope, t)
               PROVE  /\ d[x] \in Nat /\ x # NoScope
                      /\ x # s => d[x] < d[s] /\ st.scope[x].parent # s /\ n.scope[x] = st.scope[x]
    OBVIOUS
  <2>1. x \in Scope /\ d[x] \in Nat /\ d[s] \in Nat
    BY <1>0 DEF Hosted
  <2>2. d[x] <= d[s] /\ (d[s] = d[x] => s = x) /\ (st.scope[x].parent = s => d[x] = d[s] + 1)
    BY <1>0 DEF Stacked
  <2> QED
    BY <1>0, <1>10, <2>1, <2>2
<1>13. /\ v.parent \in Hosted(n.scope, t) \union {NoScope}
       /\ v.parent = NoScope => d[s] = 1
       /\ v.parent # NoScope => d[s] = d[v.parent] + 1
  <2>1. /\ v.parent \in Hosted(st.scope, t) \union {NoScope}
        /\ d[s] = IF v.parent = NoScope THEN 1 ELSE d[v.parent] + 1
    BY <1>0 DEF Stacked, v
  <2>2. v.parent # s
    BY <1>0, <1>12, <2>1
  <2> QED
    BY <1>11, <2>1, <2>2
<1>14. Stacked(n.task, n.scope, d)
  <2> SUFFICES ASSUME NEW u \in Task
               PROVE  /\ n.task[u].cur \in Hosted(n.scope, u) \union {NoScope}
                      /\ n.task[u].cur = NoScope => Hosted(n.scope, u) = {}
                      /\ \A x \in Hosted(n.scope, u) :
                           /\ n.scope[x].active
                           /\ n.scope[x].parent \in Hosted(n.scope, u) \union {NoScope}
                           /\ d[x] = IF n.scope[x].parent = NoScope THEN 1
                                     ELSE d[n.scope[x].parent] + 1
                           /\ d[x] <= d[n.task[u].cur]
                           /\ \A y \in Hosted(n.scope, u) : d[y] = d[x] => y = x
    BY DEF Stacked
  <2>1. CASE u # t
    <3>1. n.task[u] = st.task[u] /\ Hosted(n.scope, u) = Hosted(st.scope, u)
      BY <1>10, <1>11, <2>1
    <3>2. \A x \in Hosted(st.scope, u) : n.scope[x] = st.scope[x]
      BY <1>10, <1>11, <2>1 DEF Hosted
    <3> QED
      BY <1>0, <3>1, <3>2 DEF Stacked
  <2>2. CASE u = t
    <3>1. n.task[u].cur = v.parent
      BY <1>8, <1>10, <2>2
    <3>2. \A x \in Hosted(st.scope, t) :
            /\ st.scope[x].active
            /\ st.scope[x].parent \in Hosted(st.scope, t) \union {NoScope}
            /\ d[x] = IF st.scope[x].parent = NoScope THEN 1 ELSE d[st.scope[x].parent] + 1
            /\ \A y \in Hosted(st.scope, t) : d[y] = d[x] => y = x
      BY <1>0 DEF Stacked
    <3>3. \A x \in Hosted(n.scope, t) : /\ x \in Hosted(st.scope, t) /\ n.scope[x] = st.scope[x]
                                        /\ d[x] < d[s] /\ st.scope[x].parent # s
      BY <1>11, <1>12
    <3>4. ASSUME NEW x \in Hosted(n.scope, t) PROVE v.parent # NoScope /\ d[x] <= d[v.parent]
      <4>1. d[x] \in Nat /\ d[x] >= 1
        <5>1. st.scope[x].parent # NoScope => d[st.scope[x].parent] \in Nat
          BY <1>12, <3>2, <3>3
        <5> QED
          BY <1>12, <3>2, <3>3, <5>1
      <4>2. v.parent # NoScope => d[v.parent] \in Nat
        BY <1>11, <1>12, <1>13
      <4> QED
        BY <1>13, <3>3, <4>1, <4>2
    <3>5. v.parent = NoScope => Hosted(n.scope, t) = {}
      BY <3>4
    <3>6. ASSUME NEW x \in Hosted(n.scope, t)
          PROVE  /\ n.scope[x].active
                 /\ n.scope[x].parent \in Hosted(n.scope, t) \union {NoScope}
                 /\ d[x] = IF n.scope[x].parent = NoScope THEN 1 ELSE d[n.scope[x].parent] + 1
                 /\ \A y \in Hosted(n.scope, t) : d[y] = d[x] => y = x
      BY <1>11, <3>2, <3>3
    <3> QED
      BY <1>13, <2>2, <3>1, <3>4, <3>5, <3>6
  <2> QED
    BY <2>1, <2>2
<1>15. Lives(n.task, n.scope, t)
  <2>1. st.task[t].fut = "none" /\ st.task[t].must = "no"
    BY <1>0 DEF Lives
  <2>2. \A x \in Scope : /\ st.scope[x].host = NoTask \/ st.scope[x].used
                         /\ st.scope[x].active => st.scope[x].host # NoTask
                         /\ st.scope[x].handle => st.scope[x].called
                         /\ ~st.scope[x].used => st.scope[x].calls = 0
    BY <1>0 DEF Lives
  <2>3. n.task[t].fut = "none" /\ n.task[t].must = "no"
    BY <1>8, <1>10, <2>1 DEF r
  <2>4. /\ n.scope[s].host = NoTask /\ ~n.scope[s].active /\ n.scope[s].calls = 0
        /\ n.scope[s].handle => n.scope[s].called
    BY <1>0, <1>9, <1>10, <2>2 DEF v
  <2> QED
    BY <1>10, <2>2, <2>3, <2>4 DEF Lives
<1>16. Counted(n.task, n.scope, d)
  <2> SUFFICES ASSUME NEW u \in Task
               PROVE  /\ IsFiniteSet(Requests(n.scope, u))
                      /\ n.task[u].cancelling = n.task[u].natives + Cardinality(Requests(n.scope, u))
                      /\ \A x \in Hosted(n.scope, u) :
                           n.scope[x].before <= n.task[u].natives + Cardinality(Outer(n.scope, d, u, x))
    BY DEF Counted
  <2>0. /\ IsFiniteSet(Requests(st.scope, u))
        /\ st.task[u].cancelling = st.task[u].natives + Cardinality(Requests(st.scope, u))
        /\ \A x \in Hosted(st.scope, u) :
             st.scope[x].before <= st.task[u].natives + Cardinality(Outer(st.scope, d, u, x))
    BY <1>0 DEF Counted
  <2>1. CASE u # t
    <3>1. n.task[u] = st.task[u] /\ Hosted(n.scope, u) = Hosted(st.scope, u)
      BY <1>10, <1>11, <2>1
    <3>2. \A x \in Hosted(st.scope, u) : n.scope[x] = st.scope[x]
      BY <1>10, <1>11, <2>1 DEF Hosted
    <3>3. Requests(n.scope, u) = Requests(st.scope, u)
      BY <3>1, <3>2 DEF Requests
    <3>4. \A x : Outer(n.scope, d, u, x) = Outer(st.scope, d, u, x)
      BY <3>3 DEF Outer
    <3> QED
      BY <2>0, <3>1, <3>2, <3>3, <3>4
  <2>2. CASE u = t
    <3>1. Requests(n.scope, t) = Outer(st.scope, d, t, s)
      <4>1. \A p : p \in Requests(n.scope, t) <=> p \in Outer(st.scope, d, t, s)
        <5> SUFFICES ASSUME NEW x \in Hosted(st.scope, t), NEW k \in Nat
                     PROVE  <<x, k>> \in Requests(n.scope, t) <=> <<x, k>> \in Outer(st.scope, d, t, s)
          BY <1>11 DEF Requests, Outer
        <5>1. x \in Hosted(n.scope, t) <=> x # s
          BY <1>11
        <5>2. d[x] < d[s] <=> x # s
          BY <1>0, <1>12
        <5>3. x # s => n.scope[x] = st.scope[x]
          BY <1>12
        <5> QED
          BY <5>1, <5>2, <5>3 DEF Requests, Outer
      <4> QED
        BY <4>1
    <3>2. ASSUME NEW x \in Hosted(n.scope, t)
          PROVE  Outer(n.scope, d, t, x) = Outer(st.scope, d, t, x)
      <4>1. x \in Hosted(st.scope, t) /\ d[x] < d[s] /\ d[x] \in Nat /\ d[s] \in Nat
        BY <1>11, <1>12
      <4>2. \A p \in Requests(st.scope, t) : d[p[1]] \in Nat
        BY <1>12 DEF Requests
      <4>3. Outer(n.scope, d, t, x) = {p \in Outer(st.scope, d, t, s) : d[p[1]] < d[x]}
        BY <3>1 DEF Outer
      <4> QED
        BY <4>1, <4>2, <4>3 DEF Outer
    <3>3. \A x \in Hosted(n.scope, t) : x \in Hosted(st.scope, t) /\ n.scope[x] = st.scope[x]
      BY <1>11, <1>12
    <3>4. n.task[t].natives = r.natives /\ n.task[t].cancelling = r.natives + Cardinality(Outer(st.scope, d, t, s))
      BY <1>6, <1>8, <1>10 DEF around
    <3>5. IsFiniteSet(Outer(st.scope, d, t, s))
      <4>1. Outer(st.scope, d, t, s) \subseteq Requests(st.scope, t)
        BY DEF Outer
      <4> QED
        BY <2>0, <2>2, <4>1, FS_Subset
    <3>6. \A x \in Hosted(n.scope, t) :
            n.scope[x].before <= n.task[t].natives + Cardinality(Outer(n.scope, d, t, x))
      BY <2>0, <2>2, <3>2, <3>3, <3>4 DEF r
    <3> QED
      BY <2>2, <3>1, <3>4, <3>5, <3>6
  <2> QED
    BY <2>1, <2>2
<1>17. Upward(st.scope) /\ Upward(n.scope)
  BY <1>0, <1>10, TypedUpward
<1>18. ASSUME NEW u \in Task
       PROVE  \A x \in Hosted(n.scope, u) \union {NoScope} : Nearest(n.scope, x) = Nearest(st.scope, x)
  <2>1. SameWay(n.scope, st.scope, u, s)
    BY <1>10 DEF SameWay, Hosted
  <2>2. s \notin Hosted(n.scope, u)
    BY <1>11
  <2> QED
    BY <1>10, <1>14, <1>17, <2>1, <2>2, NearestExcept
<1>19. Traced(n.task, n.scope)
  <2> SUFFICES ASSUME NEW u \in Task, Marked(n.task[u])
               PROVE  \E x \in Hosted(n.scope, u) : n.scope[x].called
    BY DEF Traced
  <2>1. CASE u # t
    <3>1. PICK x \in Hosted(st.scope, u) : st.scope[x].called
      BY <1>0, <1>10, <2>1 DEF Traced
    <3>2. x \in Hosted(n.scope, u) /\ n.scope[x] = st.scope[x]
      BY <1>10, <1>11, <2>1 DEF Hosted
    <3> QED
      BY <3>1, <3>2
  <2>2. CASE u = t
    <3>1. ByScope(r.exc) /\ ~ends
      <4>1. n.task[t].fut = "none" /\ n.task[t].must = "no"
        BY <1>15 DEF Lives
      <4> QED
        BY <1>7, <1>8, <1>10, <2>2, <4>1 DEF Marked
    <3>2. PICK x \in Hosted(st.scope, t) : st.scope[x].called
      BY <1>0, <3>1 DEF Traced, Marked, r
    <3>3. CASE x # s
      <4>1. x \in Hosted(n.scope, t) /\ n.scope[x] = st.scope[x]
        BY <1>11, <1>12, <3>3
      <4> QED
        BY <2>2, <3>2, <4>1
    <3>4. CASE x = s
      <4>1. Nearest(st.scope, v.parent) # NoScope
        BY <3>1, <3>2, <3>4
           DEF ByScope, ends, Swallows, ParentCancellationVisible, EffectivelyCancelled, v
      <4>2. Nearest(n.scope, v.parent) = Nearest(st.scope, v.parent)
        BY <1>13, <1>18
      <4> QED
        BY <1>10, <1>13, <1>14, <2>2, <4>1, <4>2, NearestHosted
    <3> QED
      BY <3>3, <3>4
  <2> QED
    BY <2>1, <2>2
<1>20. Sound(n.task, n.scope, d, t)
  BY <1>10, <1>14, <1>15, <1>16, <1>19 DEF Sound
<1>21. n.scope[s].parent = v.parent
  BY <1>9, <1>10
<1>22. ArmedBut(n.task, n.scope, Nearest(n.scope, n.scope[s].parent))
  <2> SUFFICES ASSUME NEW u \in Task, NEW c, c = Nearest(n.scope, n.task[u].cur), c # NoScope,
                      c # Nearest(n.scope, v.parent)
               PROVE  n.scope[c].handle
    BY <1>21 DEF ArmedBut
  <2>1. u # t
    BY <1>8, <1>10
  <2>2. n.task[u] = st.task[u] /\ n.task[u].cur \in Hosted(n.scope, u) \union {NoScope}
    BY <1>10, <1>14, <2>1 DEF Stacked
  <2>3. c \in Hosted(n.scope, u) /\ c = Nearest(st.scope, st.task[u].cur)
    BY <1>10, <1>14, <1>18, <2>2, NearestHosted
  <2>4. c \in Scope /\ c # s
    BY <1>11, <2>1, <2>3 DEF Hosted
  <2> QED
    BY <1>10, <2>3, <2>4 DEF ArmedBut
<1>23. LET m == RestartInParent(n, s, t) IN
       Sound(m.task, m.scope, d, t) /\ ArmedBut(m.task, m.scope, NoScope) /\ Inside(n.task, m)
  BY <1>0, <1>13, <1>20, <1>21, <1>22, RestartSound
<1>24. SameWaits(st.task, n.task)
  BY <1>8, <1>10 DEF SameWaits, r
<1>25. Inside(st.task, RestartInParent(n, s, t))
  BY <1>23, <1>24 DEF Inside, SameWaits
<1> QED
  BY <1>1, <1>23, <1>25

-----------------------------------------------------------------------------
(* The steps of the specification *)

ScopeInv ==
  /\ current \in Task \union {NoTask}
  /\ \E d \in [Scope -> Nat] : Sound(task, scope, d, current) /\ ArmedBut(task, scope, NoScope)

LEMMA ScopeInit ==
  ASSUME Init
  PROVE  ScopeInv
<1> DEFINE d == [s \in Scope |-> 0]
<1>0. NoTask \notin Task /\ NoScope \notin Scope
  BY ScopeAssumption
<1>1. /\ current = NoTask
      /\ \A t \in Task : task[t] = [NewTask EXCEPT !.place = "started"]
      /\ scope = [s \in Scope |-> NewScope]
      /\ task \in [Task -> {[NewTask EXCEPT !.place = "started"]}]
  BY DEF Init, InitWith
<1>2. \A t \in Task : /\ task[t] \in TaskState /\ task[t].cur = NoScope
                      /\ task[t].fut = "none" /\ task[t].must = "no" /\ task[t].exc = "none"
                      /\ task[t].cancelling = 0 /\ task[t].natives = 0
  BY <1>1 DEF NewTask, TaskState
<1>3. \A s \in Scope : /\ scope[s] \in ScopeState /\ scope[s].host = NoTask /\ ~scope[s].active
                       /\ ~scope[s].handle /\ scope[s].calls = 0 /\ ~scope[s].called
  BY <1>1 DEF NewScope, ScopeState
<1>4. Typed(task, scope)
  BY <1>1, <1>2, <1>3 DEF Typed
<1>5. \A t \in Task : Hosted(scope, t) = {}
  BY <1>0, <1>3 DEF Hosted
<1>6. Stacked(task, scope, d)
  BY <1>2, <1>5 DEF Stacked
<1>7. Lives(task, scope, current)
  BY <1>0, <1>1, <1>3 DEF Lives
<1>8. Counted(task, scope, d)
  <2>1. \A t \in Task : Requests(scope, t) = {}
    BY <1>5 DEF Requests
  <2> QED
    BY <1>2, <1>5, <2>1, FS_EmptySet DEF Counted
<1>9. Traced(task, scope)
  BY <1>2 DEF Traced, Marked, ByScope
<1>10. ArmedBut(task, scope, NoScope)
  <2>1. Nearest(scope, NoScope) = NoScope
    BY <1>4, TypedUpward, NearestUnrolls
  <2> QED
    BY <1>2, <2>1 DEF ArmedBut
<1>11. d \in [Scope -> Nat]
  OBVIOUS
<1> QED
  BY <1>1, <1>4, <1>6, <1>7, <1>8, <1>9, <1>10, <1>11 DEF ScopeInv, Sound

\* The steps in which the fields of one task change, and the scopes do not.
OneTask(t, tk, n, me) == Quiet(tk, n, t) /\ (me = t => Stepped(n, t))

LEMMA OneTaskMoves ==
  ASSUME ScopeInv, NEW t \in Task, NEW r \in TaskState, task' = [task EXCEPT ![t] = r],
         UNCHANGED scope, current' \in {current, t, NoTask},
         OneTask(t, task, task', current')
  PROVE  ScopeInv'
<1>1. PICK d \in [Scope -> Nat] : Sound(task, scope, d, current) /\ ArmedBut(task, scope, NoScope)
  BY DEF ScopeInv
<1>2. task \in [Task -> TaskState] /\ scope \in [Scope -> ScopeState]
  BY <1>1 DEF Sound, Typed
<1>3. Typed(task', scope)
  BY <1>2 DEF Typed
<1>4. \A u \in Task \ {t} : task'[u] = task[u]
  BY <1>2
<1>5. \A u \in Task : /\ task[u].natives \in Nat /\ task[u].cancelling \in Nat
  BY <1>2 DEF TaskState
<1>6. ASSUME NEW u \in Task
      PROVE  Quiet(task, task', u)
  <2>1. CASE u = t
    BY <2>1 DEF OneTask
  <2>2. CASE u # t
    BY <1>4, <1>5, <2>2 DEF Quiet
  <2> QED
    BY <2>1, <2>2
<1>7. Stepped(task', current')
  <2>1. CASE current' = t
    BY <2>1 DEF OneTask
  <2>2. CASE current' # t /\ current' \in Task
    <3>1. current' = current
      BY <2>2, ScopeAssumption
    <3> QED
      BY <1>1, <1>4, <2>2, <3>1 DEF Sound, Lives, Stepped
  <2> QED
    BY <2>1, <2>2 DEF Stepped
<1>10. AllQuiet(task, task')
  BY <1>6 DEF AllQuiet
<1>8. Sound(task', scope, d, current') /\ ArmedBut(task', scope, NoScope)
  BY <1>1, <1>3, <1>7, <1>10, TasksMove
<1>9. current' \in Task \union {NoTask}
  BY DEF ScopeInv
<1> QED
  BY <1>8, <1>9 DEF ScopeInv

LEMMA TaskSteps ==
  ASSUME ScopeInv, NEW t \in Task,
         Step(t) \/ Suspend(t) \/ Wake(t) \/ RaiseError(t) \/ NativeCancel(t) \/ Finish(t)
  PROVE  ScopeInv'
<1>1. task \in [Task -> TaskState] /\ task[t] \in TaskState
  BY DEF ScopeInv, Sound, Typed
<1>2. current \in Task => task[current].fut = "none" /\ task[current].must = "no"
  BY DEF ScopeInv, Sound, Lives
<1>0. t # NoTask
  BY ScopeAssumption
<1>3. CASE Step(t)
  <2> DEFINE exc == IF task[t].fut \in Kind THEN Thrown(task[t].exc, task[t].fut)
                    ELSE IF task[t].must # "no" THEN Thrown(task[t].exc, task[t].must)
                    ELSE task[t].exc
             r == [task[t] EXCEPT !.fut = "none", !.must = "no", !.exc = exc]
  <2>1. exc \in {"none", "error"} \union Cancellation /\ (ByScope(exc) => Marked(task[t]))
    BY <1>1 DEF TaskState, Cancellation, Kind, Thrown, ByScope, Marked
  <2>2. task' = [task EXCEPT ![t] = r]
    BY <1>3, <1>1 DEF Step
  <2> HIDE DEF exc
  <2>3. /\ r \in TaskState /\ r.fut = "none" /\ r.must = "no" /\ r.exc = exc /\ r.cur = task[t].cur
        /\ r.natives = task[t].natives /\ r.cancelling = task[t].cancelling
        /\ r.natives \in Nat /\ r.cancelling \in Nat
    BY <1>1, <2>1 DEF TaskState
  <2> HIDE DEF r
  <2>4. task'[t] = r
    BY <1>1, <2>2
  <2>5. OneTask(t, task, task', t)
    BY <2>1, <2>3, <2>4 DEF OneTask, Quiet, Stepped, Marked
  <2> QED
    BY <1>3, <2>2, <2>3, <2>5, OneTaskMoves DEF Step
<1>4. CASE Suspend(t)
  <2>1. PICK f \in {"none", "pending"} : task' = [task EXCEPT ![t].fut = f]
    BY <1>4 DEF Suspend
  <2> DEFINE r == [task[t] EXCEPT !.fut = f]
  <2>2. task' = [task EXCEPT ![t] = r]
    BY <2>1, <1>1
  <2>3. /\ r \in TaskState /\ r.fut = f /\ r.must = task[t].must /\ r.exc = task[t].exc /\ r.cur = task[t].cur
        /\ r.natives = task[t].natives /\ r.cancelling = task[t].cancelling
        /\ r.natives \in Nat /\ r.cancelling \in Nat
    BY <1>1, <2>1 DEF TaskState
  <2> HIDE DEF r
  <2>4. task'[t] = r
    BY <1>1, <2>2
  <2>5. OneTask(t, task, task', NoTask)
    BY <1>0, <2>1, <2>3, <2>4 DEF OneTask, Quiet, Stepped, Marked, ByScope
  <2> QED
    BY <1>4, <2>2, <2>3, <2>5, OneTaskMoves DEF Suspend
<1>5. CASE Wake(t)
  <2> DEFINE r == [task[t] EXCEPT !.fut = "result"]
  <2>2. task' = [task EXCEPT ![t] = r]
    BY <1>5, <1>1 DEF Wake
  <2>3. /\ r \in TaskState /\ r.fut = "result" /\ r.must = task[t].must /\ r.exc = task[t].exc /\ r.cur = task[t].cur
        /\ r.natives = task[t].natives /\ r.cancelling = task[t].cancelling
        /\ r.natives \in Nat /\ r.cancelling \in Nat
    BY <1>1 DEF TaskState
  <2> HIDE DEF r
  <2>4. task'[t] = r
    BY <1>1, <2>2
  <2>5. OneTask(t, task, task', NoTask)
    BY <1>0, <2>3, <2>4 DEF OneTask, Quiet, Stepped, Marked, ByScope
  <2> QED
    BY <1>5, <2>2, <2>3, <2>5, OneTaskMoves DEF Wake
<1>6. CASE RaiseError(t)
  <2> DEFINE r == [task[t] EXCEPT !.exc = "error"]
  <2>2. task' = [task EXCEPT ![t] = r]
    BY <1>6, <1>1 DEF RaiseError
  <2>3. /\ r \in TaskState /\ r.fut = task[t].fut /\ r.must = task[t].must /\ r.exc = "error" /\ r.cur = task[t].cur
        /\ r.natives = task[t].natives /\ r.cancelling = task[t].cancelling
        /\ r.natives \in Nat /\ r.cancelling \in Nat
    BY <1>1 DEF TaskState
  <2> HIDE DEF r
  <2>4. task'[t] = r
    BY <1>1, <2>2
  <2>5. current = t /\ current' = current /\ UNCHANGED scope
    BY <1>6 DEF RaiseError, Running
  <2>6. OneTask(t, task, task', current')
    BY <1>2, <2>3, <2>4, <2>5 DEF OneTask, Quiet, Stepped, Marked, ByScope
  <2> QED
    BY <2>2, <2>3, <2>5, <2>6, OneTaskMoves
<1>7. CASE NativeCancel(t)
  <2> DEFINE c == CancelTask(task[t], "native")
             r == [c EXCEPT !.natives = c.natives + 1]
  <2>0. "native" \in Kind
    BY DEF Kind
  <2>1. /\ c \in TaskState
        /\ c.cur = task[t].cur /\ c.place = task[t].place /\ c.exc = task[t].exc
        /\ c.natives = task[t].natives /\ c.cancelling = task[t].cancelling + 1
        /\ c.fut \in {task[t].fut, "native"} /\ c.must \in {task[t].must, "native"}
    BY <1>1, <2>0, CancelTaskFields
  <2>2. task' = [task EXCEPT ![t] = r]
    BY <1>7, <1>1 DEF NativeCancel
  <2> HIDE DEF c
  <2>3. /\ r \in TaskState /\ r.fut = c.fut /\ r.must = c.must /\ r.exc = c.exc /\ r.cur = c.cur
        /\ r.natives = c.natives + 1 /\ r.cancelling = c.cancelling
        /\ c.natives \in Nat /\ task[t].cancelling \in Nat
    BY <1>1, <2>1 DEF TaskState
  <2> HIDE DEF r
  <2>4. task'[t] = r
    BY <1>1, <2>2
  <2>5. current # t /\ current' = current /\ UNCHANGED scope
    BY <1>7 DEF NativeCancel, Suspended
  <2>6. OneTask(t, task, task', current')
    BY <2>1, <2>3, <2>4, <2>5 DEF OneTask, Quiet, Stepped, Marked, ByScope
  <2> QED
    BY <2>2, <2>3, <2>5, <2>6, OneTaskMoves
<1>8. CASE Finish(t)
  <2> DEFINE r == [task[t] EXCEPT !.place = "done"]
  <2>2. task' = [task EXCEPT ![t] = r]
    BY <1>8, <1>1 DEF Finish
  <2>3. /\ r \in TaskState /\ r.fut = task[t].fut /\ r.must = task[t].must /\ r.exc = task[t].exc
        /\ r.cur = task[t].cur /\ r.natives = task[t].natives /\ r.cancelling = task[t].cancelling
        /\ r.natives \in Nat /\ r.cancelling \in Nat
    BY <1>1 DEF TaskState
  <2> HIDE DEF r
  <2>4. task'[t] = r
    BY <1>1, <2>2
  <2>5. OneTask(t, task, task', NoTask)
    BY <1>0, <2>3, <2>4 DEF OneTask, Quiet, Stepped, Marked, ByScope
  <2> QED
    BY <1>8, <2>2, <2>3, <2>5, OneTaskMoves DEF Finish
<1> QED
  BY <1>3, <1>4, <1>5, <1>6, <1>7, <1>8

\* None of these steps is a cancellation by a scope.
LEMMA TaskWaits ==
  ASSUME ScopeInv, NEW t \in Task, NEW u \in Task,
         Step(t) \/ Suspend(t) \/ Wake(t) \/ RaiseError(t) \/ NativeCancel(t) \/ Finish(t)
  PROVE  "anyio" \notin {task'[u].fut, task'[u].must} \ {task[u].fut, task[u].must}
<1>1. task \in [Task -> TaskState] /\ task[t] \in TaskState
  BY DEF ScopeInv, Sound, Typed
<1>2. u # t => task'[u] = task[u]
  BY <1>1 DEF Step, Suspend, Wake, RaiseError, NativeCancel, Finish
<1>3. CASE NativeCancel(t)
  <2> DEFINE c == CancelTask(task[t], "native")
             r == [c EXCEPT !.natives = c.natives + 1]
  <2>1. c \in TaskState /\ c.fut \in {task[t].fut, "native"} /\ c.must \in {task[t].must, "native"}
    BY <1>1, CancelTaskFields DEF Kind
  <2>2. task' = [task EXCEPT ![t] = r]
    BY <1>1, <1>3 DEF NativeCancel
  <2> HIDE DEF c
  <2>3. r.fut = c.fut /\ r.must = c.must
    BY <2>1 DEF TaskState
  <2> QED
    BY <1>1, <1>2, <2>1, <2>2, <2>3
<1>4. CASE Step(t)
  <2>1. task'[t].fut = "none" /\ task'[t].must = "no"
    BY <1>1, <1>4 DEF Step, TaskState
  <2> QED
    BY <1>2, <2>1
<1>5. CASE Suspend(t) \/ Wake(t)
  <2>1. task'[t].fut \in {"none", "pending", "result"} /\ task'[t].must = task[t].must
    BY <1>1, <1>5 DEF Suspend, Wake, TaskState
  <2> QED
    BY <1>2, <2>1
<1>6. CASE RaiseError(t) \/ Finish(t)
  <2>1. task'[t].fut = task[t].fut /\ task'[t].must = task[t].must
    BY <1>1, <1>6 DEF RaiseError, Finish, TaskState
  <2> QED
    BY <1>2, <2>1
<1> QED
  BY <1>3, <1>4, <1>5, <1>6

LEMMA ScopeSteps ==
  ASSUME ScopeInv,
         \/ \E t \in Task : ExitScope(t) \/ \E s \in Scope : EnterScope(t, s)
         \/ \E s \in Scope : CancelScope(s) \/ ChangeShield(s) \/ Redeliver(s)
  PROVE  ScopeInv' /\ Inside(task, [task |-> task', scope |-> scope'])
<1>1. PICK d \in [Scope -> Nat] : Sound(task, scope, d, current) /\ ArmedBut(task, scope, NoScope)
  BY DEF ScopeInv
<1>2. State.task = task /\ State.scope = scope /\ State = [task |-> State.task, scope |-> State.scope]
  BY DEF State
<1>3. task \in [Task -> TaskState] /\ scope \in [Scope -> ScopeState]
  BY <1>1 DEF Sound, Typed
<1> HIDE DEF State
<1> SUFFICES ASSUME NEW n,
                    \E e \in [Scope -> Nat] : Sound(n.task, n.scope, e, current) /\ ArmedBut(n.task, n.scope, NoScope),
                    Becomes(n), Inside(task, n), UNCHANGED current
             PROVE  ScopeInv' /\ Inside(task, [task |-> task', scope |-> scope'])
  <2> DEFINE Good(n) ==
               /\ \E e \in [Scope -> Nat] :
                    Sound(n.task, n.scope, e, current) /\ ArmedBut(n.task, n.scope, NoScope)
               /\ Inside(task, n)
  <2>1. ASSUME NEW t \in Task, ExitScope(t)
        PROVE  UNCHANGED current /\ \E n : Good(n) /\ Becomes(n)
    <3>1. /\ current = t /\ task[t].cur # NoScope /\ scope[task[t].cur].host = t
          /\ Becomes(Exit(State, task[t].cur)) /\ UNCHANGED current
      BY <2>1 DEF ExitScope, Running
    <3>2. task[t].cur \in Hosted(scope, t)
      BY <1>1, <3>1 DEF Sound, Stacked
    <3>3. Good(Exit(State, task[t].cur))
      BY <1>1, <1>2, <3>1, <3>2, ExitSound
    <3> QED
      BY <3>1, <3>3
  <2>2. ASSUME NEW t \in Task, NEW s \in Scope, EnterScope(t, s)
        PROVE  UNCHANGED current /\ \E n : Good(n) /\ Becomes(n)
    <3>1. PICK shield \in BOOLEAN : Becomes(Enter(State, s, t, shield))
      BY <2>2 DEF EnterScope
    <3>2. current = t /\ ~scope[s].used /\ UNCHANGED current
      BY <2>2 DEF EnterScope, Running
    <3>3. Good(Enter(State, s, t, shield))
      BY <1>1, <1>2, <3>2, EnterSound
    <3> QED
      BY <3>1, <3>2, <3>3
  <2>3. ASSUME NEW s \in Scope, CancelScope(s)
        PROVE  UNCHANGED current /\ \E n : Good(n) /\ Becomes(n)
    <3>1. Good(Cancel(State, s, current))
      BY <1>1, <1>2, CancelSound
    <3> QED
      BY <2>3, <3>1 DEF CancelScope
  <2>4. ASSUME NEW s \in Scope, ChangeShield(s)
        PROVE  UNCHANGED current /\ \E n : Good(n) /\ Becomes(n)
    <3>1. scope[s].active /\ scope[s].shield \in BOOLEAN /\ scope[s].host \in Task \union {NoTask}
      BY <1>3, <2>4 DEF ChangeShield, ScopeState
    <3>2. scope[s].host \in Task /\ s \in Hosted(scope, scope[s].host)
      BY <1>1, <3>1 DEF Sound, Lives, Hosted
    <3> DEFINE value == ~scope[s].shield
    <3>3. value \in BOOLEAN /\ value # scope[s].shield
      <4>1. CASE scope[s].shield = TRUE
        BY <4>1
      <4>2. CASE scope[s].shield = FALSE
        BY <4>2
      <4> QED
        BY <3>1, <4>1, <4>2
    <3> HIDE DEF value
    <3>4. Good(SetShield(State, s, value, current))
      BY <1>1, <1>2, <3>2, <3>3, ShieldSound
    <3> QED
      BY <2>4, <3>4 DEF ChangeShield, value
  <2>5. ASSUME NEW s \in Scope, Redeliver(s)
        PROVE  UNCHANGED current /\ \E n : Good(n) /\ Becomes(n)
    <3>1. current = NoTask /\ scope[s].handle /\ Becomes(Deliver(State, s, NoTask)) /\ UNCHANGED current
      BY <2>5 DEF Redeliver
    <3>2. scope[s].called
      BY <1>1, <3>1 DEF Sound, Lives
    <3>3. ArmedBut(task, scope, s)
      BY <1>1 DEF ArmedBut
    <3>4. Good(Deliver(State, s, NoTask))
      BY <1>1, <1>2, <3>1, <3>2, <3>3, DeliverSound
    <3> QED
      BY <3>1, <3>4
  <2> QED
    BY <2>1, <2>2, <2>3, <2>4, <2>5
<1>4. PICK e \in [Scope -> Nat] : Sound(n.task, n.scope, e, current) /\ ArmedBut(n.task, n.scope, NoScope)
  OBVIOUS
<1>5. task' = n.task /\ scope' = n.scope /\ current' = current
  BY DEF Becomes
<1> QED
  BY <1>4, <1>5 DEF ScopeInv, Inside

LEMMA ScopeStays ==
  ASSUME ScopeInv, [Next]_vars
  PROVE  ScopeInv'
<1>1. CASE Next
  BY <1>1, TaskSteps, ScopeSteps DEF Next
<1>2. CASE UNCHANGED vars
  BY <1>2 DEF vars, ScopeInv
<1> QED
  BY <1>1, <1>2

LEMMA ScopeAlways == Spec => []ScopeInv
<1>1. Init => ScopeInv
  BY ScopeInit
<1>2. ScopeInv /\ [Next]_vars => ScopeInv'
  BY ScopeStays
<1> QED
  BY <1>1, <1>2, PTL DEF Spec

\* Every reachable state: the closest cancelled scope that a task finds from inside
\* has a delivery scheduled, whatever scopes are entered, left, cancelled, shielded and
\* unshielded (_deliver_cancellation() and _restart_cancellation_in_parent()).
THEOREM CancellationStaysArmed == Spec => []DeliveryArmed
<1>1. ScopeInv => DeliveryArmed
  BY DEF ScopeInv, ArmedBut, DeliveryArmed
<1> QED
  BY <1>1, ScopeAlways, PTL

\* No cancellation that a scope made gets past the outermost scope of its task: by
\* then some __exit__ has swallowed it, and with it a native one that hit the task while
\* that one unwound it.
THEOREM CancellationStaysInside == Spec => []NothingEscapes
<1>1. ScopeInv => NothingEscapes
  <2> SUFFICES ASSUME ScopeInv, NEW t \in Task, task[t].cur = NoScope
               PROVE  ~ByScope(task[t].exc)
    BY DEF NothingEscapes, ByScope
  <2>1. PICK d \in [Scope -> Nat] : Stacked(task, scope, d) /\ Traced(task, scope)
    BY DEF ScopeInv, Sound
  <2>2. Hosted(scope, t) = {}
    BY <2>1 DEF Stacked
  <2> QED
    BY <2>1, <2>2 DEF Traced, Marked
<1> QED
  BY <1>1, ScopeAlways, PTL

\* __exit__ takes back, by Task.uncancel(), as many requests as its scope made, and
\* none of those that others made.
THEOREM RequestsTakenBack == Spec => []RequestsBalance
<1>1. ScopeInv => RequestsBalance
  <2> SUFFICES ASSUME ScopeInv, NEW t \in Task, task[t].cur = NoScope
               PROVE  task[t].cancelling = task[t].natives
    BY DEF RequestsBalance
  <2>1. PICK d \in [Scope -> Nat] : /\ Stacked(task, scope, d) /\ Counted(task, scope, d)
                                    /\ Typed(task, scope)
    BY DEF ScopeInv, Sound
  <2>2. Requests(scope, t) = {}
    BY <2>1 DEF Stacked, Requests
  <2>3. task[t].cancelling = task[t].natives + 0 /\ task[t].natives \in Nat
    BY <2>1, <2>2, FS_EmptySet DEF Counted, Typed, TaskState
  <2> QED
    BY <2>3
<1> QED
  BY <1>1, ScopeAlways, PTL

\* A delivery reaches only tasks that the walk up from their own scope finds cancelled:
\* no shield and no other cancelled scope is in between.
THEOREM DeliveriesStayInside == Spec => DeliveredInside
<1> DEFINE Reached(t) == ("anyio" \in {task'[t].fut, task'[t].must} \ {task[t].fut, task[t].must})
                         => EffectivelyCancelled(scope', task'[t].cur)
<1>1. ASSUME ScopeInv, Next
      PROVE  \A t \in Task : Reached(t)
  <2>1. ASSUME NEW t \in Task,
               Step(t) \/ Suspend(t) \/ Wake(t) \/ RaiseError(t) \/ NativeCancel(t) \/ Finish(t)
        PROVE  \A u \in Task : "anyio" \notin {task'[u].fut, task'[u].must} \ {task[u].fut, task[u].must}
    BY <1>1, <2>1, TaskWaits
  <2>2. ASSUME \/ \E t \in Task : ExitScope(t) \/ \E s \in Scope : EnterScope(t, s)
               \/ \E s \in Scope : CancelScope(s) \/ ChangeShield(s) \/ Redeliver(s)
        PROVE  \A t \in Task : Reached(t)
    BY <1>1, <2>2, ScopeSteps DEF Inside
  <2> QED
    BY <1>1, <2>1, <2>2 DEF Next
<1>2. ASSUME ScopeInv, [Next]_vars
      PROVE  [\A t \in Task : Reached(t)]_vars
  BY <1>1, <1>2
<1> QED
  BY <1>2, ScopeAlways, PTL DEF Spec, DeliveredInside

-----------------------------------------------------------------------------
(* Second: groups *)

\* The shape of the state, without the ranges of the fields
Shaped(st) ==
  /\ DOMAIN st = {"task", "scope"}
  /\ DOMAIN st.task = Task /\ DOMAIN st.scope = Scope
  /\ \A t \in Task : DOMAIN st.task[t] = DOMAIN NewTask
  /\ \A s \in Scope : DOMAIN st.scope[s] = DOMAIN NewScope

\* From st to n no scope changes its host or its parent, no task moves, ends or handles
\* another exception, and no future is made.
Keeps(st, n) ==
  /\ Shaped(n)
  /\ \A s \in Scope :
       n.scope[s].host = st.scope[s].host /\ n.scope[s].parent = st.scope[s].parent
  /\ \A t \in Task :
       /\ n.task[t].cur = st.task[t].cur /\ n.task[t].place = st.task[t].place
       /\ n.task[t].exc = st.task[t].exc
       /\ n.task[t].fut = "pending" => st.task[t].fut = "pending"

LEMMA DeliverKeeps ==
  ASSUME NEW st, NEW o, NEW me, Shaped(st)
  PROVE  Keeps(st, Deliver(st, o, me))
<1> DEFINE n == Deliver(st, o, me)
<1>1. /\ DOMAIN n = {"task", "scope"}
      /\ DOMAIN n.task = Task /\ DOMAIN n.scope = Scope
  BY DEF Deliver, Shaped
<1>2. ASSUME NEW t \in Task
      PROVE  n.task[t] = st.task[t] \/ n.task[t] = CancelTask(st.task[t], "anyio")
  BY DEF Deliver
<1>3. ASSUME NEW t \in Task
      PROVE  /\ DOMAIN n.task[t] = DOMAIN NewTask
             /\ n.task[t].cur = st.task[t].cur /\ n.task[t].place = st.task[t].place
             /\ n.task[t].exc = st.task[t].exc
             /\ n.task[t].fut = "pending" => st.task[t].fut = "pending"
  BY <1>2, ZenonT(40) DEF CancelTask, Shaped, NewTask
<1>4. ASSUME NEW s \in Scope
      PROVE  /\ DOMAIN n.scope[s] = DOMAIN NewScope
             /\ n.scope[s].host = st.scope[s].host /\ n.scope[s].parent = st.scope[s].parent
  BY DEF Deliver, Shaped, NewScope
<1> QED
  BY <1>1, <1>3, <1>4 DEF Keeps, Shaped

LEMMA KeepsTwice ==
  ASSUME NEW a, NEW b, NEW c, Keeps(a, b), Keeps(b, c)
  PROVE  Keeps(a, c)
BY DEF Keeps

LEMMA CancelKeeps ==
  ASSUME NEW st, NEW s, NEW me, Shaped(st)
  PROVE  Keeps(st, Cancel(st, s, me))
<1> DEFINE n == [st EXCEPT !.scope[s].called = TRUE]
<1>1. Shaped(n) /\ Keeps(st, n)
  BY DEF Shaped, Keeps, NewScope
<1>2. Keeps(st, st)
  BY DEF Keeps
<1>3. Keeps(st, Deliver(n, s, me))
  BY <1>1, DeliverKeeps, KeepsTwice
<1> QED
  BY <1>1, <1>2, <1>3 DEF Cancel

LEMMA RestartKeeps ==
  ASSUME NEW st, NEW s, NEW me, Shaped(st)
  PROVE  Keeps(st, RestartInParent(st, s, me))
<1>1. Keeps(st, st)
  BY DEF Keeps
<1> QED
  BY <1>1, DeliverKeeps DEF RestartInParent

LEMMA ShieldKeeps ==
  ASSUME NEW st, NEW s, NEW value, NEW me, Shaped(st)
  PROVE  Keeps(st, SetShield(st, s, value, me))
<1> DEFINE n == [st EXCEPT !.scope[s].shield = value]
<1>1. Shaped(n) /\ Keeps(st, n)
  BY DEF Shaped, Keeps, NewScope
<1>2. Keeps(st, RestartInParent(n, s, me))
  BY <1>1, RestartKeeps, KeepsTwice
<1> QED
  BY <1>1, <1>2 DEF SetShield

\* __enter__ and __exit__ of a scope s concern s and its host t, which comes to stand in s
\* or in its parent; an error gets through.
Moves(st, n, s, t) ==
  /\ Shaped(n)
  /\ \A x \in Scope \ {s} :
       n.scope[x].host = st.scope[x].host /\ n.scope[x].parent = st.scope[x].parent
  /\ n.scope[s].parent \in {st.scope[s].parent, st.task[t].cur}
  /\ \A u \in Task :
       /\ u # t => n.task[u].cur = st.task[u].cur
       /\ u = t => n.task[u].cur \in {s, st.scope[s].parent}
       /\ st.task[u].exc = "error" => n.task[u].exc = "error"
       /\ n.task[u].place = st.task[u].place
       /\ n.task[u].fut = "pending" => st.task[u].fut = "pending"

LEMMA MovesThenKeeps ==
  ASSUME NEW a, NEW b, NEW c, NEW s \in Scope, NEW t, Moves(a, b, s, t), Keeps(b, c)
  PROVE  Moves(a, c, s, t)
BY DEF Moves, Keeps

LEMMA EnterMoves ==
  ASSUME NEW st, NEW s \in Scope, NEW t \in Task, NEW shield, Shaped(st)
  PROVE  /\ Moves(st, Enter(st, s, t, shield), s, t)
         /\ Enter(st, s, t, shield).scope[s].host = t
         /\ Enter(st, s, t, shield).task[t].cur = s
<1> DEFINE r == st.task[t]
           n == [task |-> [st.task EXCEPT ![t].cur = s],
                 scope |-> [st.scope EXCEPT
                              ![s] = [@ EXCEPT !.parent = r.cur, !.host = t,
                                               !.active = TRUE, !.used = TRUE,
                                               !.shield = shield, !.before = r.cancelling]]]
<1>1. n.task = [st.task EXCEPT ![t].cur = s]
  OBVIOUS
<1>2. Shaped(n)
  BY DEF Shaped, NewScope, NewTask
<1>3. Moves(st, n, s, t) /\ n.scope[s].host = t /\ n.task[t].cur = s
  BY <1>2 DEF Shaped, Moves, NewScope, NewTask
<1>4. Keeps(n, Deliver(n, s, t))
  BY <1>2, DeliverKeeps
<1>5. Enter(st, s, t, shield) \in {n, Deliver(n, s, t)}
  BY DEF Enter
<1>6. CASE Enter(st, s, t, shield) = n
  BY <1>3, <1>6
<1>7. CASE Enter(st, s, t, shield) = Deliver(n, s, t)
  <2> HIDE DEF n
  <2>1. Moves(st, Deliver(n, s, t), s, t)
    BY <1>3, <1>4, MovesThenKeeps
  <2> QED
    BY <1>3, <1>4, <1>7, <2>1 DEF Keeps
<1> QED
  BY <1>5, <1>6, <1>7

LEMMA ExitMoves ==
  ASSUME NEW st, NEW s \in Scope, Shaped(st)
  PROVE  /\ Moves(st, Exit(st, s), s, st.scope[s].host)
         /\ Exit(st, s).scope[s].parent = st.scope[s].parent
<1> DEFINE v == st.scope[s]
           t == v.host
           r == st.task[t]
           over == IF r.cancelling > v.before THEN r.cancelling - v.before ELSE 0
           back == Uncancelled(v.calls, over)
           ends == Swallows(st.scope, s, r.exc)
           n == [task |-> [st.task EXCEPT ![t] =
                             [r EXCEPT !.cur = v.parent,
                                       !.cancelling = IF @ > back THEN @ - back ELSE 0,
                                       !.exc = IF ends THEN "none" ELSE @]],
                 scope |-> [st.scope EXCEPT ![s] =
                             [v EXCEPT !.active = FALSE, !.host = NoTask,
                                       !.calls = @ - back, !.before = 0]]]
<1>1. Exit(st, s) = RestartInParent(n, s, t)
  BY DEF Exit
<1>0. ends => r.exc # "error"
  BY DEF Swallows
<1> HIDE DEF over, back, ends
<1>2. Shaped(n)
  BY DEF Shaped, NewScope, NewTask
<1>3. Moves(st, n, s, t) /\ n.scope[s].parent = st.scope[s].parent
  BY <1>0, <1>2, SMTT(30) DEF Shaped, Moves, NewScope, NewTask
<1>4. Keeps(n, RestartInParent(n, s, t))
  BY <1>2, RestartKeeps
<1> HIDE DEF n
<1>5. RestartInParent(n, s, t).scope[s].parent = st.scope[s].parent
  BY <1>3, <1>4 DEF Keeps
<1> QED
  BY <1>1, <1>3, <1>4, <1>5, MovesThenKeeps

-----------------------------------------------------------------------------
\* The host of a group that is left stands in the wait scope, which is its own, has not
\* ended, and has a child to wait for as long as its future is pending.
HostWaits(g) ==
  LET t == scope[g].host IN
  group[g].phase \in {"wait", "checkpoint"} =>
    /\ t \in Task /\ task[t].cur = WaitScope[g] /\ task[t].place = "started"
    /\ scope[WaitScope[g]].host = t
    /\ group[g].phase = "wait" /\ task[t].fut = "pending"
         => group[g].awaited # {} /\ group[g].awaited \subseteq group[g].tasks

GroupShaped ==
  /\ Shaped(State)
  /\ DOMAIN group = Group
  /\ \A g \in Group : DOMAIN group[g] = DOMAIN Closed(FALSE, {})
  /\ current # NoTask => current \in Task /\ task[current].place = "started"

\* Only the hosts of groups that are left stand in wait scopes, and nothing is entered there.
Placed ==
  /\ \A s \in Scope : scope[s].parent \notin WaitScopes
  /\ \A t \in Task, g \in Group :
       task[t].cur = WaitScope[g] => group[g].phase \in {"wait", "checkpoint"} /\ scope[g].host = t

\* An error that was seen is on record.
ErrorsRecorded ==
  \A g \in Group : /\ group[g].failed \in BOOLEAN /\ group[g].lost \in BOOLEAN
                   /\ group[g].lost => group[g].failed

GInv == GroupShaped /\ (\A g \in Group : HostWaits(g)) /\ Placed /\ ErrorsRecorded

LEMMA InitGInv == GroupInit => GInv
<1> SUFFICES ASSUME GroupInit PROVE GInv
  OBVIOUS
<1> USE DEF GroupInit, InitWith, NewTask, NewScope, Closed
<1>1. GroupShaped
  BY DEF GroupShaped, Shaped, State
<1>2. (\A g \in Group : HostWaits(g)) /\ ErrorsRecorded
  BY DEF HostWaits, ErrorsRecorded
<1>3. Placed
  <2>1. NoScope \notin WaitScopes
    BY ScopeAssumption, GroupAssumption DEF WaitScopes
  <2> QED
    BY <2>1 DEF Placed, WaitScopes
<1> QED
  BY <1>1, <1>2, <1>3 DEF GInv

\* t is left where it is, and given no future to wait for.
LeftAlone(t) ==
  /\ task'[t].cur = task[t].cur /\ task'[t].place = task[t].place
  /\ task'[t].fut = "pending" => task[t].fut = "pending"

\* What does not concern a group and its host
LEMMA OtherGroup ==
  ASSUME NEW g \in Group, HostWaits(g), scope'[g].host = scope[g].host,
         scope'[WaitScope[g]].host = scope[WaitScope[g]].host,
         group'[g].phase \in {"wait", "checkpoint"} =>
           /\ group'[g].phase = group[g].phase
           /\ group'[g].awaited = group[g].awaited
           /\ group[g].tasks \subseteq group'[g].tasks
           /\ LeftAlone(scope[g].host)
  PROVE  HostWaits(g)'
BY DEF HostWaits, LeftAlone

\* Steps that bring nobody into a wait scope
LEMMA PlacedStep ==
  ASSUME Placed,
         \A s \in Scope : scope'[s].parent \notin WaitScopes,
         \A t \in Task, g \in Group : task'[t].cur = WaitScope[g] =>
           /\ task[t].cur = WaitScope[g] /\ scope'[g].host = scope[g].host
           /\ group'[g].phase = group[g].phase
  PROVE  Placed'
BY DEF Placed, WaitScopes

\* Steps that leave the groups as they are, and the tasks that stand in wait scopes.
LEMMA QuietStep ==
  ASSUME GInv, group' = group, GroupShaped',
         \A s \in Group \union WaitScopes : scope'[s].host = scope[s].host,
         \A s \in Scope : scope'[s].parent \notin WaitScopes,
         \A t \in Task : task'[t].cur \in WaitScopes => task'[t].cur = task[t].cur,
         \A t \in Task : task[t].cur \in WaitScopes /\ task[t].place = "started" => LeftAlone(t)
  PROVE  GInv'
<1>1. ASSUME NEW g \in Group PROVE HostWaits(g)'
  <2>1. HostWaits(g)
    BY DEF GInv
  <2>2. group[g].phase \in {"wait", "checkpoint"} => LeftAlone(scope[g].host)
    BY <2>1 DEF HostWaits, WaitScopes
  <2> QED
    BY <2>1, <2>2, OtherGroup DEF WaitScopes
<1>2. Placed'
  BY PlacedStep DEF GInv, WaitScopes
<1>3. ErrorsRecorded'
  BY DEF GInv, ErrorsRecorded
<1> QED
  BY <1>1, <1>2, <1>3 DEF GInv

\* Steps that are a method of a scope which moves nobody
LEMMA KeepingStep ==
  ASSUME GInv, UNCHANGED <<current, group>>, NEW n, Keeps(State, n), Becomes(n)
  PROVE  GInv'
<1>1. Shaped(State)'
  BY DEF Keeps, Becomes, State, Shaped
<1>2. \A t \in Task : LeftAlone(t)
  BY DEF Keeps, Becomes, State, LeftAlone
<1>3. \A s \in Group \union WaitScopes : scope'[s].host = scope[s].host
  BY GroupAssumption DEF Keeps, Becomes, State, WaitScopes
<1>4. GroupShaped'
  BY <1>1, <1>2 DEF GInv, GroupShaped, LeftAlone
<1>5. /\ \A s \in Scope : scope'[s].parent \notin WaitScopes
      /\ \A t \in Task : task'[t].cur = task[t].cur
  BY DEF GInv, Placed, Keeps, Becomes, State
<1> QED
  BY <1>2, <1>3, <1>4, <1>5, QuietStep

\* Steps of the loop and of the tasks that touch no scope: one task r changes.
LEMMA TaskStep ==
  ASSUME GInv, UNCHANGED <<scope, group>>, NEW t \in Task, NEW r,
         task' = [task EXCEPT ![t] = r], DOMAIN r = DOMAIN NewTask,
         current' \in {NoTask, current, t},
         current' # NoTask => task'[current'].place = "started",
         r.cur = task[t].cur,
         task[t].cur \in WaitScopes /\ task[t].place = "started" =>
           /\ r.place = task[t].place
           /\ r.fut = "pending" => task[t].fut = "pending"
  PROVE  GInv'
<1>1. GroupShaped'
  BY ScopeAssumption DEF GInv, GroupShaped, Shaped, State
<1>2. \A u \in Task : task[u].cur \in WaitScopes /\ task[u].place = "started" => LeftAlone(u)
  BY DEF GInv, GroupShaped, Shaped, State, LeftAlone
<1>3. \A u \in Task : task'[u].cur = task[u].cur
  BY DEF GInv, GroupShaped, Shaped, State
<1>4. \A s \in Scope : scope'[s].parent \notin WaitScopes
  BY DEF GInv, Placed
<1> QED
  BY <1>1, <1>2, <1>3, <1>4, QuietStep

\* Steps of a task in user code that enters or leaves a scope of its own
LEMMA MovingStep ==
  ASSUME GInv, UNCHANGED <<current, group>>, NEW t \in Task, InUserCode(t),
         NEW s \in Plain, NEW n, Moves(State, n, s, t), Becomes(n)
  PROVE  GInv'
<1>1. GroupShaped'
  BY DEF Moves, Becomes, State, Shaped, GInv, GroupShaped
<1>2. \A x \in Group \union WaitScopes : scope'[x].host = scope[x].host
  BY GroupAssumption DEF Moves, Becomes, State, Plain, WaitScopes
<1>3. \A u \in Task : task[u].cur \in WaitScopes => LeftAlone(u)
  BY DEF Moves, Becomes, State, InUserCode, LeftAlone
<1>4. s \notin WaitScopes /\ s \in Scope
  BY DEF Plain
<1>5. \A x \in Scope : scope'[x].parent \notin WaitScopes
  BY <1>4 DEF Moves, Becomes, State, InUserCode, GInv, Placed
<1>6. \A u \in Task : task'[u].cur \in WaitScopes => task'[u].cur = task[u].cur
  BY <1>4 DEF Moves, Becomes, State, GInv, Placed
<1> QED
  BY <1>1, <1>2, <1>3, <1>5, <1>6, QuietStep

\* __aenter__ makes the group open; hosts of other groups do not come here.
LEMMA EnterGroupKeeps ==
  ASSUME GInv, NEW t \in Task, NEW g \in Group, EnterGroup(t, g)
  PROVE  GInv'
<1> DEFINE n == Enter(State, g, t, FALSE)
<1>1. Moves(State, n, g, t)
  BY GroupAssumption, EnterMoves DEF GInv, GroupShaped
<1>2. Becomes(n) /\ InUserCode(t) /\ current' = current
  BY DEF EnterGroup
<1>3. group' = [group EXCEPT ![g].phase = "open", ![g].active = TRUE]
  BY DEF EnterGroup
<1> HIDE DEF n
<1>4. GroupShaped'
  BY <1>1, <1>2, <1>3 DEF Moves, Becomes, State, Shaped, GInv, GroupShaped, Closed
<1>5. ASSUME NEW h \in Group PROVE HostWaits(h)'
  <2>1. CASE h = g
    BY <1>3, <2>1 DEF GInv, GroupShaped, Closed, HostWaits
  <2>2. CASE h # g
    <3>1. HostWaits(h) /\ group'[h] = group[h]
      BY <1>3, <2>2 DEF GInv, GroupShaped
    <3>2. scope'[h].host = scope[h].host /\ scope'[WaitScope[h]].host = scope[WaitScope[h]].host
      BY <1>1, <1>2, <2>2, GroupAssumption DEF Moves, Becomes, State
    <3>3. group[h].phase \in {"wait", "checkpoint"} => LeftAlone(scope[h].host)
      BY <1>1, <1>2, <3>1 DEF HostWaits, WaitScopes, InUserCode, Moves, Becomes, State, LeftAlone
    <3> QED
      BY <3>1, <3>2, <3>3, OtherGroup
  <2> QED
    BY <2>1, <2>2
<1>6. Placed'
  <2>1. g \in Scope /\ g \notin WaitScopes
    BY GroupAssumption DEF WaitScopes
  <2>2. \A s \in Scope : scope'[s].parent \notin WaitScopes
    BY <1>1, <1>2, <2>1 DEF Moves, Becomes, State, InUserCode, GInv, Placed
  <2>3. \A u \in Task : task'[u].cur \in WaitScopes => task'[u].cur = task[u].cur
    BY <1>1, <1>2, <2>1 DEF Moves, Becomes, State, GInv, Placed
  <2>4. ASSUME NEW u \in Task, NEW h \in Group, task'[u].cur = WaitScope[h]
        PROVE  /\ task[u].cur = WaitScope[h] /\ scope'[h].host = scope[h].host
               /\ group'[h].phase = group[h].phase
    <3>1. task[u].cur = WaitScope[h]
      BY <2>3, <2>4 DEF WaitScopes
    <3>2. group[h].phase \in {"wait", "checkpoint"} /\ h # g
      BY <3>1 DEF GInv, Placed, EnterGroup
    <3> QED
      BY <1>1, <1>2, <1>3, <3>1, <3>2, GroupAssumption DEF Moves, Becomes, State, GInv, GroupShaped
  <2> QED
    BY <2>2, <2>4, PlacedStep DEF GInv
<1>7. ErrorsRecorded'
  BY <1>3 DEF GInv, GroupShaped, Closed, ErrorsRecorded
<1> QED
  BY <1>4, <1>5, <1>6, <1>7 DEF GInv

\* A new child is no host, and joins the children.
LEMMA StartSoonKeeps ==
  ASSUME GInv, NEW t \in Task, NEW g \in Group, NEW c \in Task, StartSoon(t, g, c)
  PROVE  GInv'
<1>1. /\ task' = [task EXCEPT ![c].cur = g] /\ task[c].place = "new"
      /\ group' = [group EXCEPT ![g].tasks = @ \union {c}]
      /\ current' = current /\ scope' = scope
  BY DEF StartSoon
<1>2. GroupShaped'
  BY <1>1 DEF GInv, GroupShaped, Shaped, State, NewTask, Closed
<1>3. ASSUME NEW h \in Group PROVE HostWaits(h)'
  <2>1. HostWaits(h)
    BY DEF GInv
  <2>2. /\ group'[h].phase = group[h].phase /\ group'[h].awaited = group[h].awaited
        /\ group[h].tasks \subseteq group'[h].tasks
    BY <1>1 DEF GInv, GroupShaped, Closed
  <2>3. group[h].phase \in {"wait", "checkpoint"} => LeftAlone(scope[h].host)
    BY <1>1, <2>1 DEF HostWaits, GInv, GroupShaped, Shaped, State, LeftAlone
  <2> QED
    BY <1>1, <2>1, <2>2, <2>3, OtherGroup
<1>4. Placed'
  <2>1. g \notin WaitScopes
    BY GroupAssumption DEF WaitScopes
  <2>2. \A u \in Task : task'[u].cur \in WaitScopes => task'[u].cur = task[u].cur
    BY <1>1, <2>1 DEF GInv, GroupShaped, Shaped, State, NewTask
  <2>3. \A h \in Group : group'[h].phase = group[h].phase
    BY <1>1 DEF GInv, GroupShaped, Closed
  <2> QED
    BY <1>1, <2>2, <2>3, PlacedStep DEF GInv, Placed, WaitScopes
<1>5. ErrorsRecorded'
  BY <1>1 DEF GInv, GroupShaped, Closed, ErrorsRecorded
<1> QED
  BY <1>2, <1>3, <1>4, <1>5 DEF GInv

\* The callbacks of a child: the last one that is waited for wakes the host.
LEMMA TaskDoneKeeps ==
  ASSUME GInv, NEW c \in Task, NEW g \in Group, TaskDone(c, g)
  PROVE  GInv'
<1> DEFINE exc == task[c].exc
           left == group[g].awaited \ {c}
           host == scope[g].host
           m == [State EXCEPT !.task[c] = Gone]
           n == ChildEnded(m, g, exc)
           lastOne == c \in group[g].awaited
<1>1. Shaped(m) /\ m.scope = scope /\ \A u \in Task \ {c} : m.task[u] = task[u]
  BY DEF GInv, GroupShaped, Shaped, State, Gone, NewTask
<1>2. Keeps(m, n)
  <2>1. Keeps(m, m)
    BY <1>1 DEF Keeps
  <2> QED
    BY <1>1, <2>1, CancelKeeps DEF ChildEnded
<1>3. /\ scope' = n.scope /\ current = NoTask /\ current' = NoTask
      /\ c \in group[g].tasks /\ task[c].place = "done"
      /\ task' = IF lastOne THEN [n.task EXCEPT ![host] = Completed(left, @)] ELSE n.task
  BY DEF TaskDone
<1>4. /\ DOMAIN group' = Group
      /\ \A h \in Group : DOMAIN group'[h] = DOMAIN Closed(FALSE, {})
      /\ \A h \in Group \ {g} : group'[h] = group[h]
      /\ group'[g].phase = group[g].phase
      /\ group'[g].tasks = group[g].tasks \ {c} /\ group'[g].awaited = left
  BY DEF TaskDone, GInv, GroupShaped, Closed
<1> HIDE DEF m, n
<1>5. /\ DOMAIN task' = Task
      /\ \A u \in Task : task'[u] \in {n.task[u], [n.task[u] EXCEPT !.fut = "result"]}
  <2>1. DOMAIN n.task = Task
    BY <1>2 DEF Keeps, Shaped
  <2>2. Completed(left, n.task[host])
          \in {n.task[host], [n.task[host] EXCEPT !.fut = "result"]}
    BY DEF Completed
  <2> HIDE DEF left, host, lastOne
  <2> QED
    BY <1>3, <2>1, <2>2
<1>6. \A u \in Task :
        /\ DOMAIN task'[u] = DOMAIN NewTask
        /\ task'[u].cur = n.task[u].cur /\ task'[u].place = n.task[u].place
        /\ task'[u].fut = "pending" => n.task[u].fut = "pending"
  BY <1>2, <1>5 DEF Keeps, Shaped, NewTask
<1>7. /\ \A s \in Scope : scope'[s].host = scope[s].host
      /\ \A u \in Task \ {c} : LeftAlone(u)
  <2>1. \A s \in Scope : n.scope[s].host = m.scope[s].host
    BY <1>2 DEF Keeps
  <2>2. \A u \in Task :
          /\ n.task[u].cur = m.task[u].cur /\ n.task[u].place = m.task[u].place
          /\ n.task[u].fut = "pending" => m.task[u].fut = "pending"
    BY <1>2 DEF Keeps
  <2> HIDE DEF left, host, lastOne
  <2> QED
    BY <1>1, <1>3, <1>6, <2>1, <2>2 DEF LeftAlone
<1>8. GroupShaped'
  BY <1>2, <1>3, <1>4, <1>5, <1>6 DEF Keeps, Shaped, State, GroupShaped
<1>9. ASSUME NEW h \in Group, h # g PROVE HostWaits(h)'
  <2>1. HostWaits(h)
    BY DEF GInv
  <2>2. group[h].phase \in {"wait", "checkpoint"} => scope[h].host \in Task \ {c}
    BY <1>3, <2>1 DEF HostWaits
  <2> QED
    BY <1>4, <1>7, <1>9, <2>1, <2>2, OtherGroup, GroupAssumption
<1>10. HostWaits(g)'
  <2>1. SUFFICES ASSUME group[g].phase \in {"wait", "checkpoint"} PROVE HostWaits(g)'
    BY <1>4 DEF HostWaits
  <2>2. HostWaits(g) /\ host \in Task \ {c}
    BY <1>3, <2>1 DEF GInv, HostWaits
  <2>3. scope'[g].host = host /\ scope'[WaitScope[g]].host = scope[WaitScope[g]].host /\ LeftAlone(host)
    BY <1>7, <2>2, GroupAssumption
  <2>4. CASE ~lastOne
    BY <1>4, <2>1, <2>2, <2>3, <2>4 DEF HostWaits, LeftAlone
  <2>5. CASE lastOne /\ left = {}
    <3>1. task'[host].fut # "pending"
      BY <1>1, <1>2, <1>3, <2>2, <2>5 DEF Completed, Keeps, Shaped, NewTask
    <3> QED
      BY <1>4, <2>1, <2>2, <2>3, <3>1 DEF HostWaits, LeftAlone
  <2>6. CASE lastOne /\ left # {}
    BY <1>4, <2>1, <2>2, <2>3, <2>6 DEF HostWaits, LeftAlone
  <2> QED
    BY <2>4, <2>5, <2>6
<1>11. Placed'
  <2>1. NoScope \notin WaitScopes /\ g \in Scope
    BY ScopeAssumption, GroupAssumption DEF WaitScopes
  <2>2. m.task[c].cur = NoScope
    BY DEF m, GInv, GroupShaped, Shaped, State, Gone, NewTask
  <2>3. \A u \in Task : task'[u].cur \in WaitScopes => task'[u].cur = task[u].cur
    BY <1>1, <1>2, <1>6, <2>1, <2>2 DEF Keeps
  <2>4. \A s \in Scope : scope'[s].parent \notin WaitScopes
    BY <1>1, <1>2, <1>3 DEF Keeps, GInv, Placed
  <2>5. \A h \in Group : group'[h].phase = group[h].phase /\ scope'[h].host = scope[h].host
    BY <1>4, <1>7, GroupAssumption
  <2> QED
    BY <2>3, <2>4, <2>5, PlacedStep DEF GInv, WaitScopes
<1>12. ErrorsRecorded'
  <2> DEFINE seen == group[g].phase # "closed" /\ exc = "error"
  <2>1. group' = [group EXCEPT
                    ![g].tasks = group[g].tasks \ {c}, ![g].awaited = left,
                    ![g].failed = group[g].failed \/ seen, ![g].lost = group[g].lost \/ seen]
    BY DEF TaskDone, ChildFailed
  <2>2. seen \in BOOLEAN
    OBVIOUS
  <2> HIDE DEF seen, left
  <2>3. /\ group'[g].failed = (group[g].failed \/ seen)
        /\ group'[g].lost = (group[g].lost \/ seen)
    BY <2>1 DEF GInv, GroupShaped, Closed
  <2> QED
    BY <1>4, <2>2, <2>3 DEF GInv, ErrorsRecorded
<1> QED
  BY <1>8, <1>9, <1>10, <1>11, <1>12 DEF GInv

\* The host of g in its wait scope is the host of no other group that is left.
LEMMA OneWaitEach ==
  ASSUME GInv, NEW t \in Task, NEW g \in Group, NEW h \in Group, h # g,
         task[t].cur = WaitScope[g] \/ task[t].cur \notin WaitScopes
  PROVE  group[h].phase \in {"wait", "checkpoint"} => scope[h].host # t
BY GroupAssumption DEF GInv, HostWaits, WaitScopes

\* __aexit__ up to the first suspension
LEMMA ExitGroupKeeps ==
  ASSUME GInv, NEW t \in Task, NEW g \in Group, ExitGroup(t, g)
  PROVE  GInv'
<1> DEFINE exc == task[t].exc
           idle == group[g].tasks = {}
           phase == IF idle THEN "checkpoint" ELSE "wait"
           fut == IF idle THEN "none" ELSE "pending"
           W == WaitScope[g]
           n == IF exc # "none" THEN Cancel(State, g, t) ELSE State
           e == Enter(n, W, t, idle)
<1>1. InUserCode(t) /\ task[t].cur = g /\ scope[g].host = t /\ t = current /\ current' = NoTask
  BY ZenonT(40) DEF ExitGroup, InUserCode, Running, Await
<1>2. /\ task' = [e.task EXCEPT ![t].fut = fut, ![t].exc = "none"]
      /\ scope' = e.scope
  BY DEF ExitGroup, Await
<1>3. /\ DOMAIN group' = Group
      /\ \A h \in Group : DOMAIN group'[h] = DOMAIN Closed(FALSE, {})
      /\ \A h \in Group \ {g} : group'[h] = group[h]
      /\ group'[g].tasks = group[g].tasks /\ group'[g].awaited = group[g].tasks
      /\ group'[g].phase = phase
  <2> DEFINE failed == group[g].failed \/ exc = "error"
             lost == group[g].lost \/ exc = "error"
  <2>1. group' = [group EXCEPT ![g].phase = phase, ![g].awaited = group[g].tasks,
                    ![g].block = exc, ![g].excval = exc, ![g].failed = failed, ![g].lost = lost]
    BY DEF ExitGroup
  <2> HIDE DEF phase, failed, lost, exc
  <2> QED
    BY <2>1 DEF GInv, GroupShaped, Closed
<1>4. Shaped(State) /\ Keeps(State, n)
  <2>1. Shaped(State) /\ Keeps(State, State)
    BY DEF GInv, GroupShaped, Keeps
  <2> QED
    BY <2>1, CancelKeeps
<1>5. W \in Scope /\ W # g /\ g \in Scope
  BY GroupAssumption
<1> HIDE DEF n, W
<1>6. Moves(n, e, W, t) /\ e.scope[W].host = t /\ e.task[t].cur = W
  BY <1>4, <1>5, EnterMoves DEF Keeps
<1> HIDE DEF e
<1>7. GroupShaped'
  BY <1>1, <1>2, <1>3, <1>6 DEF Moves, Shaped, State, GroupShaped, NewTask
<1>8. /\ \A s \in Scope \ {W} : scope'[s].host = scope[s].host
      /\ \A u \in Task \ {t} : LeftAlone(u)
  BY <1>2, <1>4, <1>6 DEF Keeps, Moves, Shaped, State, LeftAlone
<1>9. /\ scope'[W].host = t /\ task'[t].cur = W /\ task'[t].place = "started"
      /\ task'[t].fut = fut
  <2>1. task[t].place = "started" /\ e.task[t].place = "started"
    BY <1>1, <1>4, <1>6, ScopeAssumption DEF Keeps, Moves, State, GInv, GroupShaped
  <2>2. DOMAIN e.task = Task /\ DOMAIN e.task[t] = DOMAIN NewTask
    BY <1>6 DEF Moves, Shaped
  <2> HIDE DEF fut
  <2>3. task'[t] = [e.task[t] EXCEPT !.fut = fut, !.exc = "none"]
    BY <1>2, <2>2
  <2>4. task'[t].cur = e.task[t].cur /\ task'[t].place = e.task[t].place /\ task'[t].fut = fut
    BY <2>2, <2>3 DEF NewTask
  <2> QED
    BY <1>2, <1>6, <2>1, <2>4
<1>10. HostWaits(g)'
  BY <1>1, <1>3, <1>5, <1>8, <1>9 DEF HostWaits, W
<1>11. ASSUME NEW h \in Group, h # g PROVE HostWaits(h)'
  <2>1. HostWaits(h)
    BY DEF GInv
  <2>2. group[h].phase \in {"wait", "checkpoint"} => scope[h].host \in Task \ {t}
    BY <1>1, <1>11, <2>1, OneWaitEach DEF HostWaits, InUserCode
  <2>3. h \in Scope \ {W} /\ WaitScope[h] \in Scope \ {W}
    BY <1>11, GroupAssumption DEF W
  <2> QED
    BY <1>3, <1>8, <1>11, <2>1, <2>2, <2>3, OtherGroup
<1>12. Placed'
  <2>1. g \notin WaitScopes
    BY GroupAssumption DEF WaitScopes
  <2>2. \A s \in Scope : scope'[s].parent \notin WaitScopes
    BY <1>1, <1>2, <1>4, <1>6, <2>1 DEF Keeps, Moves, State, GInv, Placed
  <2>3. ASSUME NEW u \in Task, NEW h \in Group, task'[u].cur = WaitScope[h]
        PROVE  group'[h].phase \in {"wait", "checkpoint"} /\ scope'[h].host = u
    <3>1. CASE u = t
      BY <1>1, <1>3, <1>5, <1>8, <1>9, <2>3, <3>1, GroupAssumption DEF W
    <3>2. CASE u # t
      <4>1. group[h].phase \in {"wait", "checkpoint"} /\ scope[h].host = u
        BY <1>8, <2>3, <3>2 DEF LeftAlone, GInv, Placed
      <4> QED
        BY <1>1, <1>3, <1>8, <3>2, <4>1, GroupAssumption DEF W
    <3> QED
      BY <3>1, <3>2
  <2> QED
    BY <2>2, <2>3 DEF Placed, WaitScopes
<1>13. ErrorsRecorded'
  <2> DEFINE error == exc = "error"
  <2>1. group' = [group EXCEPT ![g].phase = phase, ![g].awaited = group[g].tasks,
                    ![g].block = exc, ![g].excval = exc, ![g].failed = group[g].failed \/ error,
                    ![g].lost = group[g].lost \/ error]
    BY DEF ExitGroup
  <2>2. error \in BOOLEAN
    OBVIOUS
  <2> HIDE DEF error, phase, exc
  <2>3. /\ group'[g].failed = (group[g].failed \/ error)
        /\ group'[g].lost = (group[g].lost \/ error)
    BY <2>1 DEF GInv, GroupShaped, Closed
  <2> QED
    BY <1>3, <2>2, <2>3 DEF GInv, ErrorsRecorded
<1> QED
  BY <1>7, <1>10, <1>11, <1>12, <1>13, SMTT(30) DEF GInv

\* The last part of __aexit__ takes the host of g out of both scopes of the group; the
\* groups whose hosts stand elsewhere do not notice.
LEMMA LeaveKeeps ==
  ASSUME GInv, NEW t \in Task, NEW g \in Group, task[t].cur = WaitScope[g],
         group[g].phase \in {"wait", "checkpoint"},
         NEW st, NEW exc, Keeps(State, st), Leave(st, t, g, exc),
         NEW closed, DOMAIN closed = DOMAIN Closed(FALSE, {}), closed.phase = "closed",
         closed.failed = FALSE, closed.lost = FALSE,
         group' = [group EXCEPT ![g] = closed]
  PROVE  GInv'
<1> DEFINE W == WaitScope[g]
           host == scope[g].host
           a == Exit(st, W)
           b == [a EXCEPT !.task[t].exc = exc]
           n == Exit(b, g)
           out == Thrown(group[g].block, n.task[t].exc)
<1>1. W \in Scope /\ W # g /\ g \in Scope
  BY GroupAssumption
<1>2. host \in Task /\ st.scope[W].host = host /\ st.scope[g].host = host
  <2>1. scope[W].host = host /\ host \in Task
    BY DEF GInv, HostWaits
  <2> QED
    BY <1>1, <2>1 DEF Keeps, State
<1>3. task' = [n.task EXCEPT ![t].exc = out] /\ scope' = n.scope /\ current' = current
  BY DEF Leave, Becomes
<1> HIDE DEF W
<1>4. Moves(st, a, W, host) /\ a.scope[W].parent = st.scope[W].parent
  BY <1>1, <1>2, ExitMoves DEF Keeps
<1> HIDE DEF a
<1>5. /\ Shaped(b) /\ b.scope = a.scope
      /\ \A u \in Task : /\ b.task[u].cur = a.task[u].cur /\ b.task[u].place = a.task[u].place
                         /\ b.task[u].fut = a.task[u].fut
  BY <1>4 DEF Moves, Shaped, NewTask
<1> HIDE DEF b
<1>6. Moves(b, n, g, host) /\ n.scope[g].parent = b.scope[g].parent
  <2>1. b.scope[g].host = host
    BY <1>1, <1>2, <1>4, <1>5 DEF Moves
  <2> QED
    BY <1>1, <1>5, <2>1, ExitMoves
<1> HIDE DEF n, out
<1>12. /\ DOMAIN task' = Task
       /\ \A u \in Task : /\ DOMAIN task'[u] = DOMAIN NewTask
                          /\ task'[u].cur = n.task[u].cur /\ task'[u].place = n.task[u].place
                          /\ task'[u].fut = n.task[u].fut
  BY <1>3, <1>6 DEF Moves, Shaped, NewTask
<1>7. /\ \A s \in Scope \ {W, g} : scope'[s].host = scope[s].host
      /\ \A u \in Task \ {host} : LeftAlone(u)
      /\ \A u \in Task : task'[u].place = task[u].place
  <2>1. /\ \A s \in Scope \ {W} : a.scope[s].host = scope[s].host
        /\ \A u \in Task : /\ u # host => a.task[u].cur = task[u].cur
                           /\ a.task[u].place = task[u].place
                           /\ a.task[u].fut = "pending" => task[u].fut = "pending"
    BY <1>4 DEF Moves, Keeps, State
  <2> QED
    BY <1>3, <1>5, <1>6, <1>12, <2>1 DEF Moves, LeftAlone
<1>8. GroupShaped'
  BY <1>3, <1>6, <1>7, <1>12 DEF Moves, State, Shaped, GInv, GroupShaped
<1>9. ASSUME NEW h \in Group PROVE HostWaits(h)'
  <2>1. CASE h = g
    BY <2>1 DEF GInv, GroupShaped, HostWaits
  <2>2. CASE h # g
    <3>1. HostWaits(h) /\ group'[h] = group[h]
      BY <2>2 DEF GInv, GroupShaped
    <3>2. group[h].phase \in {"wait", "checkpoint"} => scope[h].host \in Task \ {host}
      BY <2>2, <3>1, GroupAssumption DEF GInv, HostWaits
    <3>3. h \in Scope \ {W, g} /\ WaitScope[h] \in Scope \ {W, g}
      BY <2>2, GroupAssumption DEF W
    <3> QED
      BY <1>7, <3>1, <3>2, <3>3, OtherGroup
  <2> QED
    BY <2>1, <2>2
<1>10. Placed'
  <2>1. g \notin WaitScopes
    BY GroupAssumption DEF WaitScopes
  <2>2. \A s \in Scope : n.scope[s].parent = scope[s].parent
    BY <1>4, <1>5, <1>6 DEF Moves, Keeps, State
  <2>3. \A s \in Scope : scope'[s].parent \notin WaitScopes
    BY <1>3, <2>2 DEF GInv, Placed
  <2>4. task'[host].cur \notin WaitScopes
    <3>1. n.task[host].cur \in {g, b.scope[g].parent}
      BY <1>2, <1>6 DEF Moves
    <3>2. b.scope[g].parent = scope[g].parent
      BY <1>1, <1>6, <2>2
    <3> QED
      BY <1>1, <1>2, <1>12, <2>1, <3>1, <3>2 DEF GInv, Placed
  <2>5. ASSUME NEW u \in Task, NEW h \in Group, task'[u].cur = WaitScope[h]
        PROVE  /\ task[u].cur = WaitScope[h] /\ scope'[h].host = scope[h].host
               /\ group'[h].phase = group[h].phase
    <3>1. u # host
      BY <2>4, <2>5 DEF WaitScopes
    <3>2. task[u].cur = WaitScope[h] /\ scope[h].host = u
      BY <1>7, <2>5, <3>1 DEF LeftAlone, GInv, Placed
    <3>3. h # g /\ h \in Scope \ {W, g}
      BY <3>1, <3>2, GroupAssumption DEF W
    <3>4. group'[h] = group[h]
      BY <3>3 DEF GInv, GroupShaped
    <3> QED
      BY <1>7, <3>2, <3>3, <3>4
  <2> QED
    BY <2>3, <2>5, PlacedStep DEF GInv
<1>11. ErrorsRecorded'
  BY DEF GInv, GroupShaped, ErrorsRecorded
<1> QED
  BY <1>8, <1>9, <1>10, <1>11 DEF GInv

LEMMA InterruptionKeeps ==
  ASSUME GInv, NEW t \in Task, NEW g \in Group
  PROVE  Keeps(State, Interruption(t, g))
<1> DEFINE m == [State EXCEPT !.scope[WaitScope[g]].shield = TRUE]
<1>1. Shaped(m) /\ Keeps(State, m)
  BY DEF GInv, GroupShaped, Shaped, Keeps, State, NewScope
<1>2. Keeps(m, Cancel(m, g, t))
  BY <1>1, CancelKeeps
<1>3. Keeps(State, State)
  BY DEF GInv, GroupShaped, Keeps
<1>4. Interruption(t, g) \in {State, Cancel(m, g, t)}
  BY DEF Interruption
<1> HIDE DEF m
<1> QED
  BY <1>1, <1>2, <1>3, <1>4, KeepsTwice

\* The host is stepped while it waits: it leaves, or waits for what is there now.
LEMMA WaitSteppedKeeps ==
  ASSUME GInv, NEW t \in Task, NEW g \in Group, WaitStepped(t, g)
  PROVE  GInv'
<1> DEFINE exc == task[t].exc
           old == group[g].excval
           excval == IF exc # "none" /\ (old = "none" \/ (IsCancelled(old) /\ exc = "native"))
                     THEN exc ELSE old
           n == Interruption(t, g)
           last == IF group[g].failed THEN "error" ELSE Raised(t, g, excval)
<1>1. t = current /\ task[t].cur = WaitScope[g] /\ group[g].phase = "wait"
  BY DEF WaitStepped, Running
<1>2. Keeps(State, n)
  BY InterruptionKeeps
<1>3. CASE Leave(n, t, g, last) /\ group' = [group EXCEPT ![g] = Closed(FALSE, group[g].tasks)]
  <2>1. /\ DOMAIN Closed(FALSE, group[g].tasks) = DOMAIN Closed(FALSE, {})
        /\ Closed(FALSE, group[g].tasks).phase = "closed"
        /\ Closed(FALSE, group[g].tasks).failed = FALSE /\ Closed(FALSE, group[g].tasks).lost = FALSE
    BY DEF Closed
  <2> HIDE DEF n, last
  <2> QED
    BY <1>1, <1>2, <1>3, <2>1, LeaveKeeps
<1>4. CASE /\ ~AllEnded(g) /\ Await(n, t, "pending")
           /\ group' = [group EXCEPT ![g].awaited = group[g].tasks, ![g].excval = excval]
  <2> HIDE DEF n, excval
  <2>1. /\ task' = [n.task EXCEPT ![t].fut = "pending", ![t].exc = "none"]
        /\ scope' = n.scope /\ current' = NoTask
    BY <1>4 DEF Await
  <2>2. /\ DOMAIN group' = Group
        /\ \A h \in Group : DOMAIN group'[h] = DOMAIN Closed(FALSE, {})
        /\ \A h \in Group \ {g} : group'[h] = group[h]
        /\ group'[g].phase = "wait" /\ group'[g].tasks = group[g].tasks
        /\ group'[g].awaited = group[g].tasks
        /\ group'[g].failed = group[g].failed /\ group'[g].lost = group[g].lost
    BY <1>1, <1>4 DEF GInv, GroupShaped, Closed
  <2>3. /\ \A s \in Scope : /\ scope'[s].host = scope[s].host
                            /\ scope'[s].parent = scope[s].parent
        /\ \A u \in Task \ {t} : LeftAlone(u)
        /\ \A u \in Task : task'[u].cur = task[u].cur /\ task'[u].place = task[u].place
        /\ DOMAIN task' = Task /\ \A u \in Task : DOMAIN task'[u] = DOMAIN NewTask
    BY <1>2, <2>1 DEF Keeps, Shaped, State, LeftAlone, NewTask
  <2>4. GroupShaped'
    BY <1>2, <2>1, <2>2, <2>3 DEF Keeps, Shaped, State, GroupShaped
  <2>5. ASSUME NEW h \in Group PROVE HostWaits(h)'
    <3>1. HostWaits(h)
      BY DEF GInv
    <3>2. h \in Scope /\ WaitScope[h] \in Scope
      BY GroupAssumption
    <3>3. CASE h = g
      BY <1>1, <1>4, <2>2, <2>3, <3>1, <3>2, <3>3 DEF HostWaits, AllEnded
    <3>4. CASE h # g
      <4>1. group[h].phase \in {"wait", "checkpoint"} => scope[h].host \in Task \ {t}
        BY <1>1, <3>1, <3>4, OneWaitEach DEF HostWaits
      <4> QED
        BY <2>2, <2>3, <3>1, <3>2, <3>4, <4>1, OtherGroup
    <3> QED
      BY <3>3, <3>4
  <2>6. Placed'
    BY <1>1, <2>2, <2>3, GroupAssumption, PlacedStep DEF GInv, Placed
  <2>7. ErrorsRecorded'
    BY <2>2 DEF GInv, ErrorsRecorded
  <2> QED
    BY <2>4, <2>5, <2>6, <2>7 DEF GInv
<1> QED
  BY <1>3, <1>4 DEF WaitStepped

\* The host is stepped in its checkpoint.
LEMMA CheckpointSteppedKeeps ==
  ASSUME GInv, NEW t \in Task, NEW g \in Group, CheckpointStepped(t, g)
  PROVE  GInv'
<1> DEFINE exc == task[t].exc
           last == IF group[g].failed THEN "error" ELSE group[g].excval
           final == IF exc = "none" THEN last ELSE exc
           closed == Closed(exc # "none", group[g].tasks)
<1>1. /\ task[t].cur = WaitScope[g] /\ group[g].phase = "checkpoint"
      /\ Leave(State, t, g, final) /\ group' = [group EXCEPT ![g] = closed]
  BY DEF CheckpointStepped
<1>2. /\ DOMAIN closed = DOMAIN Closed(FALSE, {}) /\ closed.phase = "closed"
      /\ closed.failed = FALSE /\ closed.lost = FALSE
  BY DEF Closed
<1>3. Keeps(State, State)
  BY DEF GInv, GroupShaped, Keeps
<1> HIDE DEF final, closed
<1> QED
  BY <1>1, <1>2, <1>3, LeaveKeeps

-----------------------------------------------------------------------------
\* Steps of one task that call no method of a scope
LEMMA OwnStepKeeps ==
  ASSUME GInv, UNCHANGED group, NEW t \in Task,
         \/ Step(t) \/ Wake(t) \/ NativeCancel(t) \/ StartChild(t) \/ FinishChild(t)
         \/ InUserCode(t) /\ (Suspend(t) \/ RaiseError(t) \/ Finish(t))
  PROVE  GInv'
<1>1. /\ DOMAIN task = Task /\ DOMAIN task[t] = DOMAIN NewTask
      /\ current # NoTask => current \in Task /\ task[current].place = "started"
  BY DEF GInv, GroupShaped, Shaped, State
<1>2. CASE Step(t)
  <2> DEFINE exc == IF task[t].fut \in Kind THEN Thrown(task[t].exc, task[t].fut)
                    ELSE IF task[t].must # "no" THEN Thrown(task[t].exc, task[t].must)
                    ELSE task[t].exc
             r == [task[t] EXCEPT !.fut = "none", !.must = "no", !.exc = exc]
  <2>1. /\ task' = [task EXCEPT ![t].fut = "none", ![t].must = "no", ![t].exc = exc]
        /\ current' = t /\ scope' = scope /\ task[t].place = "started"
    BY <1>2 DEF Step
  <2> HIDE DEF exc
  <2>2. task' = [task EXCEPT ![t] = r]
    BY <1>1, <2>1
  <2>3. DOMAIN r = DOMAIN NewTask /\ r.cur = task[t].cur /\ r.place = "started" /\ r.fut = "none"
    BY <1>1, <2>1 DEF NewTask
  <2>4. task'[t] = r
    BY <1>1, <2>2
  <2> HIDE DEF r
  <2> QED
    BY <2>1, <2>2, <2>3, <2>4, TaskStep
<1>3. CASE Wake(t)
  <2> DEFINE r == [task[t] EXCEPT !.fut = "result"]
  <2>1. task' = [task EXCEPT ![t] = r] /\ current' = current /\ current = NoTask /\ scope' = scope
    BY <1>1, <1>3 DEF Wake
  <2>2. DOMAIN r = DOMAIN NewTask /\ r.cur = task[t].cur /\ r.place = task[t].place
        /\ r.fut = "result"
    BY <1>1 DEF NewTask
  <2> HIDE DEF r
  <2> QED
    BY <2>1, <2>2, TaskStep
<1>4. CASE NativeCancel(t)
  <2> DEFINE c == CancelTask(task[t], "native")
             r == [c EXCEPT !.natives = c.natives + 1]
  <2>1. task' = [task EXCEPT ![t] = r] /\ current' = current /\ scope' = scope /\ current # t
    BY <1>4 DEF NativeCancel, Suspended
  <2>2. /\ DOMAIN c = DOMAIN NewTask /\ c.cur = task[t].cur /\ c.place = task[t].place
        /\ c.fut = "pending" => task[t].fut = "pending"
    BY <1>1 DEF CancelTask, NewTask
  <2> HIDE DEF c
  <2>3. /\ DOMAIN r = DOMAIN NewTask /\ r.cur = task[t].cur /\ r.place = task[t].place
        /\ r.fut = "pending" => task[t].fut = "pending"
    BY <2>2 DEF NewTask
  <2> HIDE DEF r
  <2>4. current' # NoTask => task'[current'].place = "started"
    BY <1>1, <2>1
  <2> QED
    BY <2>1, <2>3, <2>4, TaskStep
<1>5. CASE StartChild(t)
  <2>1. current = NoTask /\ task[t].place = "new" /\ scope' = scope
    BY <1>5 DEF StartChild
  <2>2. CASE current' = t /\ task' = [task EXCEPT ![t].place = "started"]
    <3> DEFINE r == [task[t] EXCEPT !.place = "started"]
    <3>1. /\ task' = [task EXCEPT ![t] = r] /\ DOMAIN r = DOMAIN NewTask
          /\ r.cur = task[t].cur /\ task'[t].place = "started"
      BY <1>1, <2>2 DEF NewTask
    <3> HIDE DEF r
    <3> QED
      BY <2>1, <2>2, <3>1, TaskStep
  <2>3. CASE /\ task' = [task EXCEPT ![t].place = "done", ![t].exc = task[t].must]
             /\ current' = current
    <3> DEFINE r == [task[t] EXCEPT !.place = "done", !.exc = task[t].must]
    <3>1. task' = [task EXCEPT ![t] = r] /\ DOMAIN r = DOMAIN NewTask /\ r.cur = task[t].cur
      BY <1>1, <2>3 DEF NewTask
    <3> HIDE DEF r
    <3> QED
      BY <2>1, <2>3, <3>1, TaskStep
  <2> QED
    BY <1>5, <2>2, <2>3 DEF StartChild
<1>6. CASE FinishChild(t) \/ (InUserCode(t) /\ Finish(t))
  <2> DEFINE r == [task[t] EXCEPT !.place = "done"]
  <2>1. /\ task' = [task EXCEPT ![t].place = "done"] /\ current' = NoTask /\ scope' = scope
        /\ task[t].cur \notin WaitScopes
    BY <1>6 DEF FinishChild, Finish, InUserCode
  <2>2. task' = [task EXCEPT ![t] = r] /\ DOMAIN r = DOMAIN NewTask /\ r.cur = task[t].cur
    BY <1>1, <2>1 DEF NewTask
  <2> HIDE DEF r
  <2> QED
    BY <2>1, <2>2, TaskStep
<1>7. CASE InUserCode(t) /\ Suspend(t)
  <2>1. PICK f \in {"none", "pending"} : task' = [task EXCEPT ![t].fut = f]
    BY <1>7 DEF Suspend
  <2> DEFINE r == [task[t] EXCEPT !.fut = f]
  <2>2. current' = NoTask /\ scope' = scope /\ task[t].cur \notin WaitScopes
    BY <1>7 DEF Suspend, InUserCode
  <2>3. task' = [task EXCEPT ![t] = r] /\ DOMAIN r = DOMAIN NewTask /\ r.cur = task[t].cur
    BY <1>1, <2>1 DEF NewTask
  <2> HIDE DEF r
  <2> QED
    BY <2>2, <2>3, TaskStep
<1>8. CASE InUserCode(t) /\ RaiseError(t)
  <2> DEFINE r == [task[t] EXCEPT !.exc = "error"]
  <2>1. /\ task' = [task EXCEPT ![t].exc = "error"] /\ current' = t /\ current = t
        /\ scope' = scope /\ task[t].cur \notin WaitScopes
    BY <1>8 DEF RaiseError, InUserCode, Running
  <2>2. /\ task' = [task EXCEPT ![t] = r] /\ DOMAIN r = DOMAIN NewTask /\ r.cur = task[t].cur
        /\ task'[t].place = "started"
    BY <1>1, <2>1, ScopeAssumption DEF NewTask
  <2> HIDE DEF r
  <2> QED
    BY <2>1, <2>2, TaskStep
<1> QED
  BY <1>2, <1>3, <1>4, <1>5, <1>6, <1>7, <1>8

LEMMA NextGInv == GInv /\ [GroupNext]_groupVars => GInv'
<1> SUFFICES ASSUME GInv, [GroupNext]_groupVars PROVE GInv'
  OBVIOUS
<1>0. Shaped(State)
  BY DEF GInv, GroupShaped
<1>1. CASE UNCHANGED groupVars
  <2>1. UNCHANGED <<current, task, scope, group>>
    BY <1>1 DEF groupVars, vars
  <2>2. \A t \in Task : LeftAlone(t)
    BY <2>1 DEF LeftAlone
  <2>3. GroupShaped'
    BY <2>1 DEF GInv, GroupShaped, Shaped, State
  <2> QED
    BY <2>1, <2>2, <2>3, QuietStep DEF GInv, Placed
<1>2. ASSUME NEW t \in Task, UNCHANGED group,
             \/ Step(t) \/ Wake(t) \/ NativeCancel(t) \/ StartChild(t) \/ FinishChild(t)
             \/ InUserCode(t) /\ (Suspend(t) \/ RaiseError(t) \/ Finish(t))
      PROVE  GInv'
  BY <1>2, OwnStepKeeps
<1>3. ASSUME NEW t \in Task, UNCHANGED group, InUserCode(t), task[t].cur \in Plain, ExitScope(t)
      PROVE  GInv'
  <2> DEFINE s == task[t].cur
             n == Exit(State, s)
  <2>1. Becomes(n) /\ current' = current /\ scope[s].host = t
    BY <1>3 DEF ExitScope
  <2>2. Moves(State, n, s, t)
    BY <1>0, <1>3, <2>1, ExitMoves DEF Plain, State
  <2> HIDE DEF s, n
  <2> QED
    BY <1>3, <2>1, <2>2, MovingStep DEF s
<1>4. ASSUME NEW t \in Task, UNCHANGED group, NEW s \in Plain, InUserCode(t), EnterScope(t, s)
      PROVE  GInv'
  <2>1. PICK shield \in BOOLEAN : Becomes(Enter(State, s, t, shield))
    BY <1>4 DEF EnterScope
  <2>2. Moves(State, Enter(State, s, t, shield), s, t) /\ current' = current
    BY <1>0, <1>4, EnterMoves DEF Plain, EnterScope
  <2> QED
    BY <1>4, <2>1, <2>2, MovingStep
<1>5. ASSUME UNCHANGED group, NEW s \in Scope,
             CancelScope(s) \/ ChangeShield(s) \/ Redeliver(s)
      PROVE  GInv'
  <2>1. CASE CancelScope(s)
    BY <1>0, <1>5, <2>1, CancelKeeps, KeepingStep DEF CancelScope
  <2>2. CASE ChangeShield(s)
    BY <1>0, <1>5, <2>2, ShieldKeeps, KeepingStep DEF ChangeShield
  <2>3. CASE Redeliver(s)
    BY <1>0, <1>5, <2>3, DeliverKeeps, KeepingStep DEF Redeliver
  <2> QED
    BY <1>5, <2>1, <2>2, <2>3
<1>6. ASSUME NEW t \in Task, NEW g \in Group,
             \/ EnterGroup(t, g) \/ ExitGroup(t, g) \/ WaitStepped(t, g)
             \/ CheckpointStepped(t, g) \/ TaskDone(t, g)
             \/ \E c \in Task : StartSoon(t, g, c)
      PROVE  GInv'
  BY <1>6, EnterGroupKeeps, ExitGroupKeeps, WaitSteppedKeeps, CheckpointSteppedKeeps,
     TaskDoneKeeps, StartSoonKeeps
<1>7. ASSUME NEW t \in Task, StartChild(t) \/ FinishChild(t) PROVE UNCHANGED group
  BY <1>7 DEF StartChild, FinishChild
<1>8. CASE GroupNext
  BY <1>2, <1>3, <1>4, <1>5, <1>6, <1>7, <1>8, GroupAssumption DEF GroupNext, Plain
<1> QED
  BY <1>1, <1>8

\* How a group is closed after a wait: a recorded error is what the host goes on with.
LEMMA ClosingStep ==
  ASSUME GInv, [GroupNext]_groupVars, NEW g \in Group,
         group[g].phase = "wait", group'[g].phase = "closed"
  PROVE  group[g].lost => task'[scope[g].host].exc = "error"
<1>1. DOMAIN group = Group /\ \A h \in Group : DOMAIN group[h] = DOMAIN Closed(FALSE, {})
  BY DEF GInv, GroupShaped
<1>2. PICK t \in Task : WaitStepped(t, g)
  <2>1. group' # group
    OBVIOUS
  <2>2. \A t \in Task, h \in Group : ~EnterGroup(t, h)
    BY <1>1 DEF EnterGroup, Closed
  <2>3. \A t \in Task, h \in Group : ~ExitGroup(t, h)
    <3> SUFFICES ASSUME NEW t \in Task, NEW h \in Group, ExitGroup(t, h) PROVE FALSE
      OBVIOUS
    <3> DEFINE phase == IF group[h].tasks = {} THEN "checkpoint" ELSE "wait"
               failed == group[h].failed \/ task[t].exc = "error"
               lost == group[h].lost \/ task[t].exc = "error"
    <3>1. group' = [group EXCEPT ![h].phase = phase, ![h].awaited = group[h].tasks,
                                 ![h].block = task[t].exc, ![h].excval = task[t].exc,
                                 ![h].failed = failed, ![h].lost = lost]
      BY DEF ExitGroup
    <3>2. phase # "closed"
      OBVIOUS
    <3> HIDE DEF phase, failed, lost
    <3> QED
      BY <1>1, <3>1, <3>2 DEF Closed
  <2>4. \A t \in Task, h \in Group : ~CheckpointStepped(t, h)
    BY <1>1 DEF CheckpointStepped
  <2>5. \A c \in Task, h \in Group : ~TaskDone(c, h)
    BY <1>1 DEF TaskDone, Closed
  <2>6. \A t, c \in Task, h \in Group : ~StartSoon(t, h, c)
    BY <1>1 DEF StartSoon, Closed
  <2>7. \A t \in Task, h \in Group : WaitStepped(t, h) => h = g
    BY <1>1 DEF WaitStepped, Closed
  <2>8. \A t \in Task : ~StartChild(t) /\ ~FinishChild(t)
    BY <2>1 DEF StartChild, FinishChild
  <2>9. GroupNext
    BY <2>1 DEF groupVars
  <2> QED
    BY <2>1, <2>2, <2>3, <2>4, <2>5, <2>6, <2>7, <2>8, <2>9 DEF GroupNext
<1>3. t = current /\ task[t].cur = WaitScope[g] /\ scope[g].host = t
  BY <1>2 DEF WaitStepped, Running, GInv, Placed
<1> DEFINE exc == task[t].exc
           old == group[g].excval
           excval == IF exc # "none" /\ (old = "none" \/ (IsCancelled(old) /\ exc = "native"))
                     THEN exc ELSE old
           n == Interruption(t, g)
           last == IF group[g].failed THEN "error" ELSE Raised(t, g, excval)
<1>4. /\ AllEnded(g) /\ Leave(n, t, g, last)
      /\ group' = [group EXCEPT ![g] = Closed(FALSE, group[g].tasks)]
  <2>1. ~(group' = [group EXCEPT ![g].awaited = group[g].tasks, ![g].excval = excval])
    <3> HIDE DEF excval
    <3> QED
      BY <1>1 DEF Closed
  <2> QED
    BY <1>2, <2>1 DEF WaitStepped
<1>6. ASSUME group[g].lost PROVE task'[t].exc = "error"
  <2>1. last = "error"
    BY <1>6 DEF GInv, ErrorsRecorded
  <2> DEFINE W == WaitScope[g]
             a == Exit(n, W)
             b == [a EXCEPT !.task[t].exc = last]
             e == Exit(b, g)
  <2>2. task' = [e.task EXCEPT ![t].exc = Thrown(group[g].block, e.task[t].exc)]
    BY <1>4 DEF Leave, Becomes
  <2>3. Shaped(n) /\ W \in Scope /\ g \in Scope
    BY InterruptionKeeps, GroupAssumption DEF Keeps
  <2> HIDE DEF n, W, last
  <2>4. Shaped(a)
    BY <2>3, ExitMoves DEF Moves
  <2> HIDE DEF a
  <2>5. Shaped(b) /\ b.task[t].exc = "error"
    BY <2>1, <2>4 DEF Shaped, NewTask
  <2> HIDE DEF b
  <2>6. Shaped(e) /\ e.task[t].exc = "error"
    BY <2>3, <2>5, ExitMoves DEF Moves
  <2>7. Thrown(group[g].block, e.task[t].exc) = "error"
    BY <2>6 DEF Thrown
  <2> HIDE DEF e
  <2> QED
    BY <2>2, <2>6, <2>7 DEF Shaped, NewTask
<1> QED
  BY <1>3, <1>6

\* No lost wakeup in _wait(): while the host's future is pending, a child that it waits for
\* has still to end, for any number of groups, children and cancellations.
THEOREM HostNeverWaitsForNobody == GroupSpec => []HostHasReasonToWait
<1>1. GroupInit => GInv
  BY InitGInv
<1>2. GInv /\ [GroupNext]_groupVars => GInv'
  BY NextGInv
<1>3. GInv => HostHasReasonToWait
  BY DEF GInv, HostWaits, HostHasReasonToWait
<1> QED
  BY <1>1, <1>2, <1>3, PTL DEF GroupSpec

\* The error of a child or of the block is what the host raises after the wait: neither
\* scope swallows it, and a cancellation that interrupts the wait does not hide it.
THEOREM ErrorsReachTheHost == GroupSpec => ErrorsComeOut
<1>1. GroupInit => GInv
  BY InitGInv
<1>2. GInv /\ [GroupNext]_groupVars => GInv'
  BY NextGInv
<1>3. GInv /\ [GroupNext]_groupVars =>
        [\A g \in Group :
           group[g].phase = "wait" /\ group'[g].phase = "closed" /\ group[g].lost
           => task'[scope[g].host].exc = "error"]_groupVars
  BY ClosingStep
<1> QED
  BY <1>1, <1>2, <1>3, PTL DEF GroupSpec, ErrorsComeOut

-----------------------------------------------------------------------------
(* Where cancellations go: the scopes of all tasks, which start with the     *)
(* group that a task was spawned into.  `d` is the depth of a scope.         *)

Used(sc) == {x \in Scope : sc[x].used}

Ordered(sc, d) ==
  \A x \in Scope :
    /\ sc[x].parent \in Scope \union {NoScope}
    /\ sc[x].used /\ sc[x].parent # NoScope => sc[x].parent \in Used(sc) /\ d[x] = d[sc[x].parent] + 1
    /\ sc[x].host # NoTask \/ sc[x].active => sc[x].used
    /\ sc[x].active => sc[x].host \in Task
    /\ sc[x].handle => sc[x].called

\* The scopes that a task hosts, one in the other and the innermost one its current one
OnStack(tk, sc, d) ==
  \A t \in Task :
    /\ tk[t].cur \in Used(sc) \union {NoScope}
    /\ Hosted(sc, t) # {} => tk[t].cur \in Hosted(sc, t)
    /\ \A x \in Hosted(sc, t) :
         /\ sc[x].active /\ d[x] <= d[tk[t].cur]
         /\ \A y \in Hosted(sc, t) : (d[y] = d[x] => y = x)
                                     /\ (d[y] < d[x] => sc[x].parent \in Hosted(sc, t))

Layout(tk, sc, d) == Ordered(sc, d) /\ OnStack(tk, sc, d)

\* Facts are proved along the parents: there is no set of scopes without a least deep one.
LEMMA AlongTheParents ==
  ASSUME NEW sc, NEW d \in [Scope -> Nat], Ordered(sc, d), NEW Bad, Bad \subseteq Used(sc),
         \A x \in Bad : sc[x].parent # NoScope /\ sc[x].parent \in Bad
  PROVE  Bad = {}
<1> SUFFICES ASSUME Bad # {} PROVE FALSE
  OBVIOUS
<1> DEFINE S == {d[x] : x \in Bad}
<1>1. S \subseteq Nat /\ S # {}
  BY DEF Used
<1>2. PICK m \in S : \A n \in S : m <= n
  BY <1>1, SmallestNumber
<1>3. PICK x \in Bad : m = d[x]
  OBVIOUS
<1>4. sc[x].parent \in Bad /\ d[x] = d[sc[x].parent] + 1 /\ x \in Scope /\ sc[x].parent \in Scope
  BY DEF Ordered, Used
<1>5. d[x] <= d[sc[x].parent]
  BY <1>2, <1>3, <1>4
<1> QED
  BY <1>4, <1>5

\* The same links upward from the scopes in X
SameLinks(sc, n, X) ==
  \A x \in X : n[x].parent = sc[x].parent /\ n[x].called = sc[x].called /\ n[x].shield = sc[x].shield

\* Scopes whose parents are among them
Closed1(sc, X) == X \subseteq Used(sc) /\ \A x \in X : sc[x].parent \in X \union {NoScope}

LEMMA SameWalk ==
  ASSUME NEW sc, NEW d \in [Scope -> Nat], Ordered(sc, d), NEW n, Upward(n),
         NEW X, Closed1(sc, X), SameLinks(sc, n, X)
  PROVE  \A x \in X \union {NoScope} : Nearest(n, x) = Nearest(sc, x)
<1> DEFINE Bad == {x \in X : Nearest(n, x) # Nearest(sc, x)}
<1>0. Nearest(n, NoScope) = NoScope /\ Nearest(sc, NoScope) = NoScope /\ Upward(sc)
  BY NearestUnrolls DEF Ordered, Upward
<1>1. ASSUME NEW x \in Bad PROVE sc[x].parent # NoScope /\ sc[x].parent \in Bad
  <2>1. x \in Scope /\ x # NoScope /\ sc[x].parent \in X \union {NoScope}
    BY ScopeAssumption DEF Closed1, Used
  <2>2. Nearest(sc, x) = IF sc[x].called THEN x
                         ELSE IF sc[x].shield THEN NoScope ELSE Nearest(sc, sc[x].parent)
    BY <1>0, <2>1, NearestUnrolls
  <2>3. Nearest(n, x) = IF n[x].called THEN x
                        ELSE IF n[x].shield THEN NoScope ELSE Nearest(n, n[x].parent)
    BY <2>1, NearestUnrolls
  <2> QED
    BY <1>0, <2>1, <2>2, <2>3 DEF SameLinks
<1> HIDE DEF Bad
<1>2. Bad = {}
  <2>1. Bad \subseteq Used(sc)
    BY DEF Bad, Closed1
  <2> QED
    BY <1>1, <2>1, AlongTheParents
<1> QED
  BY <1>0, <1>2 DEF Bad

\* When one scope s changes, a walk finds what it found, or it passes s and did so before.
LEMMA WalkExcept ==
  ASSUME NEW sc, NEW d \in [Scope -> Nat], Ordered(sc, d), NEW n, Upward(n),
         NEW s, SameLinks(sc, n, Used(sc) \ {s})
  PROVE  \A x \in Used(sc) \union {NoScope} :
           \/ Nearest(n, x) = Nearest(sc, x)
           \/ /\ Nearest(n, x) = Nearest(n, s) /\ Nearest(sc, x) = Nearest(sc, s)
              /\ s \in Used(sc)
<1> DEFINE Kept(x) == \/ Nearest(n, x) = Nearest(sc, x)
                      \/ /\ Nearest(n, x) = Nearest(n, s) /\ Nearest(sc, x) = Nearest(sc, s)
                         /\ s \in Used(sc)
           Bad == {x \in Used(sc) : ~Kept(x)}
<1>0. Kept(NoScope) /\ Upward(sc)
  BY NearestUnrolls DEF Ordered, Upward
<1>1. ASSUME NEW x \in Bad PROVE sc[x].parent # NoScope /\ sc[x].parent \in Bad
  <2>1. x \in Scope /\ x # NoScope /\ x # s /\ sc[x].parent \in Used(sc) \union {NoScope}
    BY ScopeAssumption DEF Used, Ordered
  <2>2. Nearest(sc, x) = IF sc[x].called THEN x
                         ELSE IF sc[x].shield THEN NoScope ELSE Nearest(sc, sc[x].parent)
    BY <1>0, <2>1, NearestUnrolls
  <2>3. Nearest(n, x) = IF n[x].called THEN x
                        ELSE IF n[x].shield THEN NoScope ELSE Nearest(n, n[x].parent)
    BY <2>1, NearestUnrolls
  <2>4. /\ n[x].parent = sc[x].parent /\ n[x].called = sc[x].called /\ n[x].shield = sc[x].shield
    BY <2>1 DEF SameLinks
  <2>5. ~Kept(sc[x].parent)
    BY <2>2, <2>3, <2>4
  <2> QED
    BY <1>0, <2>1, <2>5
<1> HIDE DEF Bad
<1>2. Bad = {}
  <2>1. Bad \subseteq Used(sc)
    BY DEF Bad
  <2> QED
    BY <1>1, <2>1, AlongTheParents
<1> QED
  BY <1>0, <1>2 DEF Bad

\* Above s it finds what it found.
LEMMA WalkAbove ==
  ASSUME NEW sc, NEW d \in [Scope -> Nat], Ordered(sc, d), NEW n, Upward(n),
         NEW s \in Used(sc), SameLinks(sc, n, Used(sc) \ {s})
  PROVE  Nearest(n, sc[s].parent) = Nearest(sc, sc[s].parent)
<1> DEFINE X == {x \in Used(sc) : d[x] < d[s]}
<1>1. Closed1(sc, X)
  <2>1. ASSUME NEW x \in X PROVE sc[x].parent \in X \union {NoScope}
    <3>1. x \in Scope /\ d[x] \in Nat /\ d[s] \in Nat /\ d[x] < d[s]
      BY DEF Used
    <3>2. CASE sc[x].parent # NoScope
      <4>1. sc[x].parent \in Used(sc) /\ d[x] = d[sc[x].parent] + 1 /\ d[sc[x].parent] \in Nat
        BY <3>1, <3>2 DEF Ordered, Used
      <4> QED
        BY <3>1, <4>1
    <3> QED
      BY <3>2
  <2> QED
    BY <2>1 DEF Closed1
<1>2. SameLinks(sc, n, X)
  <2>1. s \notin X
    BY DEF Used
  <2> QED
    BY <2>1 DEF SameLinks
<1>3. sc[s].parent \in X \union {NoScope}
  <2>1. s \in Scope /\ d[s] \in Nat
    BY DEF Used
  <2>2. CASE sc[s].parent # NoScope
    <3>1. sc[s].parent \in Used(sc) /\ d[s] = d[sc[s].parent] + 1 /\ d[sc[s].parent] \in Nat
      BY <2>1, <2>2 DEF Ordered, Used
    <3> QED
      BY <2>1, <3>1
  <2> QED
    BY <2>2
<1> HIDE DEF X
<1> QED
  BY <1>1, <1>2, <1>3, SameWalk

\* The walk up finds a cancelled scope.
LEMMA NearestCalled ==
  ASSUME NEW sc, NEW d \in [Scope -> Nat], Ordered(sc, d)
  PROVE  \A x \in Used(sc) \union {NoScope} :
           Nearest(sc, x) # NoScope => Nearest(sc, x) \in Used(sc) /\ sc[Nearest(sc, x)].called
<1> DEFINE Found(x) == Nearest(sc, x) # NoScope
                       => Nearest(sc, x) \in Used(sc) /\ sc[Nearest(sc, x)].called
           Bad == {x \in Used(sc) : ~Found(x)}
<1>0. Found(NoScope) /\ Upward(sc)
  BY NearestUnrolls DEF Ordered, Upward
<1>1. ASSUME NEW x \in Bad PROVE sc[x].parent # NoScope /\ sc[x].parent \in Bad
  <2>1. x \in Scope /\ x # NoScope /\ sc[x].parent \in Used(sc) \union {NoScope}
    BY ScopeAssumption DEF Used, Ordered
  <2>2. Nearest(sc, x) = IF sc[x].called THEN x
                         ELSE IF sc[x].shield THEN NoScope ELSE Nearest(sc, sc[x].parent)
    BY <1>0, <2>1, NearestUnrolls
  <2>3. Nearest(sc, x) = Nearest(sc, sc[x].parent)
    BY <2>2
  <2> QED
    BY <1>0, <2>1, <2>3
<1> HIDE DEF Bad
<1>2. Bad = {}
  <2>1. Bad \subseteq Used(sc)
    BY DEF Bad
  <2> QED
    BY <1>1, <2>1, AlongTheParents
<1> QED
  BY <1>0, <1>2 DEF Bad

\* From where a delivery comes down to, the walk up finds its origin.
LEMMA VisitedNearest ==
  ASSUME NEW sc, NEW d \in [Scope -> Nat], Ordered(sc, d), NEW o \in Scope, sc[o].called
  PROVE  \A x \in Used(sc) : x \in Visited(sc, o) => Nearest(sc, x) = o
<1> DEFINE Bad == {x \in Used(sc) : x \in Visited(sc, o) /\ Nearest(sc, x) # o}
<1>0. Upward(sc) /\ NoScope \notin Scope
  BY ScopeAssumption DEF Ordered, Upward
<1>1. ASSUME NEW x \in Bad PROVE sc[x].parent # NoScope /\ sc[x].parent \in Bad
  <2>1. x \in Scope /\ x # NoScope
    BY <1>0 DEF Used
  <2>2. Nearest(sc, x) = IF sc[x].called THEN x
                         ELSE IF sc[x].shield THEN NoScope ELSE Nearest(sc, sc[x].parent)
    BY <1>0, <2>1, NearestUnrolls
  <2>3. x # o
    BY <2>2
  <2>4. Passes(sc, x) /\ sc[x].parent \in Visited(sc, o)
    BY <1>0, <2>1, <2>3, VisitedUnrolls
  <2>5. sc[x].parent \in Scope
    BY <2>4 DEF Visited
  <2>6. sc[x].parent \in Used(sc)
    BY <1>0, <2>5 DEF Used, Ordered
  <2> QED
    BY <1>0, <2>2, <2>4, <2>5, <2>6 DEF Passes
<1> HIDE DEF Bad
<1>2. Bad = {}
  <2>1. Bad \subseteq Used(sc)
    BY DEF Bad
  <2> QED
    BY <1>1, <2>1, AlongTheParents
<1> QED
  BY <1>2 DEF Bad

\* A shield or a cancelled scope that keeps a delivery from c out
Blocked(sc, c) ==
  \E b \in Scope \ {c} : /\ sc[b].active /\ (sc[b].shield \/ sc[b].called)
                         /\ Nearest(sc, sc[b].parent) = c

\* A cancelled scope delivers, or is to be restarted when such a scope is left.
Covered(sc, c) == sc[c].active /\ sc[c].called => sc[c].handle \/ Blocked(sc, c)
CoveredBut(sc, o) == \A c \in Scope : c # o => Covered(sc, c)

\* A delivery reaches the host of its origin, unless something on the host's own stack
\* is in the way.
LEMMA HostReached ==
  ASSUME NEW tk, NEW sc, NEW d \in [Scope -> Nat], Layout(tk, sc, d),
         NEW o \in Scope, sc[o].called, sc[o].active, ~Blocked(sc, o)
  PROVE  InsideOf(tk, sc, o) # {}
<1> DEFINE t == sc[o].host
           Bad == {x \in Hosted(sc, t) : d[o] <= d[x] /\ x \notin Visited(sc, o)}
<1>0. /\ Ordered(sc, d) /\ OnStack(tk, sc, d) /\ t \in Task /\ o \in Hosted(sc, t)
      /\ Upward(sc) /\ NoScope \notin Scope /\ NoTask \notin Task
  BY ScopeAssumption DEF Layout, Ordered, Upward, Hosted
<1> HIDE DEF t
<1>1. ASSUME NEW x \in Bad PROVE sc[x].parent # NoScope /\ sc[x].parent \in Bad
  <2>1. x \in Scope /\ x \in Hosted(sc, t) /\ sc[x].active /\ d[x] \in Nat /\ d[o] \in Nat /\ x \in Used(sc)
    BY <1>0 DEF Hosted, OnStack, Ordered, Used
  <2>2. o \in Visited(sc, o)
    BY <1>0, VisitedUnrolls
  <2>3. d[o] < d[x]
    <3>1. d[o] = d[x] => o = x
      BY <1>0, <2>1 DEF OnStack
    <3> QED
      BY <2>1, <2>2, <3>1
  <2>4. sc[x].parent \in Hosted(sc, t)
    BY <1>0, <2>1, <2>3 DEF OnStack
  <2>5. sc[x].parent \in Scope /\ d[sc[x].parent] \in Nat /\ d[x] = d[sc[x].parent] + 1 /\ sc[x].parent \in Used(sc)
    BY <1>0, <2>1, <2>4 DEF Hosted, Ordered, Used
  <2>6. ASSUME sc[x].parent \in Visited(sc, o) PROVE FALSE
    <3>1. ~Passes(sc, x)
      BY <1>0, <2>1, <2>6, VisitedUnrolls
    <3>2. sc[x].shield \/ sc[x].called
      BY <2>1, <3>1 DEF Passes
    <3>3. Nearest(sc, sc[x].parent) = o
      BY <1>0, <2>5, <2>6, VisitedNearest
    <3>4. x # o
      BY <2>2
    <3> QED
      BY <2>1, <3>2, <3>3, <3>4 DEF Blocked
  <2> QED
    BY <1>0, <2>1, <2>3, <2>4, <2>5, <2>6
<1> HIDE DEF Bad
<1>2. Bad = {}
  <2>1. Bad \subseteq Used(sc)
    BY <1>0 DEF Bad, Hosted, Ordered, Used
  <2> QED
    BY <1>0, <1>1, <2>1, AlongTheParents
<1>3. tk[t].cur \in Hosted(sc, t) /\ d[o] <= d[tk[t].cur]
  BY <1>0 DEF OnStack
<1>4. tk[t].cur \in Visited(sc, o)
  BY <1>2, <1>3 DEF Bad
<1> QED
  BY <1>0, <1>4 DEF InsideOf

\* Scopes that were in cancelled ones stay there.
StayCancelled(sc, n, X) == \A x \in X : Nearest(sc, x) # NoScope => Nearest(n, x) # NoScope

\* Only `handle` and the counts of requests differ.
SameLayout(sc, n) ==
  \A x \in Scope : /\ n[x].parent = sc[x].parent /\ n[x].host = sc[x].host
                   /\ n[x].active = sc[x].active /\ n[x].used = sc[x].used
                   /\ n[x].called = sc[x].called /\ n[x].shield = sc[x].shield

SamePlaces(tk, n) == \A t \in Task : n[t].cur = tk[t].cur

LEMMA LayoutStays ==
  ASSUME NEW tk, NEW sc, NEW d \in [Scope -> Nat], Layout(tk, sc, d), NEW m, NEW n,
         SameLayout(sc, n), SamePlaces(tk, m), \A x \in Scope : n[x].handle => n[x].called
  PROVE  /\ Layout(m, n, d)
         /\ \A x \in Used(sc) \union {NoScope} : Nearest(n, x) = Nearest(sc, x)
         /\ \A c \in Scope : Blocked(n, c) <=> Blocked(sc, c)
<1>1. Used(n) = Used(sc) /\ \A t \in Task : Hosted(n, t) = Hosted(sc, t)
  BY DEF SameLayout, Used, Hosted
<1>2. Ordered(sc, d) /\ Ordered(n, d) /\ Upward(n)
  BY <1>1 DEF SameLayout, Layout, Ordered, Upward
<1>3. OnStack(m, n, d)
  <2>1. \A t \in Task : \A x \in Hosted(sc, t) : n[x].parent = sc[x].parent /\ n[x].active = sc[x].active
    BY DEF SameLayout, Hosted
  <2> QED
    BY <1>1, <2>1 DEF SamePlaces, Layout, OnStack
<1>4. Closed1(sc, Used(sc)) /\ SameLinks(sc, n, Used(sc))
  BY <1>2 DEF SameLayout, SameLinks, Closed1, Ordered, Used
<1>5. \A x \in Used(sc) \union {NoScope} : Nearest(n, x) = Nearest(sc, x)
  BY <1>2, <1>4, SameWalk
<1>6. \A b \in Scope : sc[b].active => /\ sc[b].parent \in Used(sc) \union {NoScope}
                                      /\ n[b].parent = sc[b].parent
  BY <1>2 DEF SameLayout, Ordered, Used
<1>7. \A b \in Scope : sc[b].active => Nearest(n, n[b].parent) = Nearest(sc, sc[b].parent)
  BY <1>5, <1>6
<1>8. \A c \in Scope : Blocked(n, c) <=> Blocked(sc, c)
  BY <1>7 DEF SameLayout, Blocked
<1> QED
  BY <1>2, <1>3, <1>5, <1>8 DEF Layout

LEMMA DeliverLayout ==
  ASSUME NEW st, NEW o \in Scope, NEW me, Shaped(st)
  PROVE  LET n == Deliver(st, o, me) IN
         /\ Keeps(st, n) /\ SamePlaces(st.task, n.task) /\ SameLayout(st.scope, n.scope)
         /\ \A x \in Scope \ {o} : n.scope[x].handle = st.scope[x].handle
         /\ n.scope[o].handle <=> InsideOf(st.task, st.scope, o) # {}
<1> DEFINE n == Deliver(st, o, me)
           handle == InsideOf(st.task, st.scope, o) # {}
           more == IF st.scope[o].host \in Hit(st.task, st.scope, o, me) THEN 1 ELSE 0
<1>1. n.scope = [st.scope EXCEPT ![o].handle = handle, ![o].calls = st.scope[o].calls + more]
  BY DEF Deliver, Hit, InsideOf
<1>2. Keeps(st, n)
  BY DeliverKeeps
<1> HIDE DEF n, handle, more
<1>3. /\ \A x \in Scope \ {o} : n.scope[x] = st.scope[x]
      /\ n.scope[o] = [st.scope[o] EXCEPT !.handle = handle, !.calls = st.scope[o].calls + more]
  BY <1>1 DEF Shaped
<1>4. /\ n.scope[o].parent = st.scope[o].parent /\ n.scope[o].host = st.scope[o].host
      /\ n.scope[o].active = st.scope[o].active /\ n.scope[o].used = st.scope[o].used
      /\ n.scope[o].called = st.scope[o].called /\ n.scope[o].shield = st.scope[o].shield
      /\ n.scope[o].handle = handle
  BY <1>3 DEF Shaped, NewScope
<1>5. SameLayout(st.scope, n.scope) /\ SamePlaces(st.task, n.task)
  BY <1>2, <1>3, <1>4 DEF SameLayout, SamePlaces, Keeps
<1> QED
  BY <1>2, <1>3, <1>4, <1>5 DEF n, handle

\* What the methods establish, which all end in deliveries
Delivered(st, n, d, X) ==
  /\ Keeps(st, n) /\ Layout(n.task, n.scope, d) /\ CoveredBut(n.scope, NoScope)
  /\ StayCancelled(st.scope, n.scope, X) /\ Used(st.scope) \subseteq Used(n.scope)

LEMMA DeliverCovers ==
  ASSUME NEW st, NEW d \in [Scope -> Nat], NEW o \in Scope, NEW me, Shaped(st),
         Layout(st.task, st.scope, d), st.scope[o].called, CoveredBut(st.scope, o)
  PROVE  LET n == Deliver(st, o, me) IN
         /\ Delivered(st, n, d, Used(st.scope)) /\ SameLayout(st.scope, n.scope)
<1> DEFINE n == Deliver(st, o, me)
<1>1. /\ Keeps(st, n) /\ SamePlaces(st.task, n.task) /\ SameLayout(st.scope, n.scope)
      /\ \A x \in Scope \ {o} : n.scope[x].handle = st.scope[x].handle
      /\ n.scope[o].handle <=> InsideOf(st.task, st.scope, o) # {}
  BY DeliverLayout
<1> HIDE DEF n
<1>2. /\ Layout(n.task, n.scope, d)
      /\ \A x \in Used(st.scope) \union {NoScope} : Nearest(n.scope, x) = Nearest(st.scope, x)
      /\ \A c \in Scope : Blocked(n.scope, c) <=> Blocked(st.scope, c)
  <2>1. \A x \in Scope : n.scope[x].handle => n.scope[x].called
    BY <1>1 DEF SameLayout, Layout, Ordered
  <2> QED
    BY <1>1, <2>1, LayoutStays
<1>3. ASSUME NEW c \in Scope PROVE Covered(n.scope, c)
  <2>1. n.scope[c].active = st.scope[c].active /\ n.scope[c].called = st.scope[c].called
    BY <1>1 DEF SameLayout
  <2>2. CASE c = o
    BY <1>1, <1>2, <2>1, <2>2, HostReached DEF Covered
  <2>3. CASE c # o
    BY <1>1, <1>2, <2>1, <2>3 DEF Covered, CoveredBut
  <2> QED
    BY <2>2, <2>3
<1>4. StayCancelled(st.scope, n.scope, Used(st.scope)) /\ Used(st.scope) \subseteq Used(n.scope)
  BY <1>1, <1>2 DEF StayCancelled, Used, SameLayout
<1> QED
  BY <1>1, <1>2, <1>3, <1>4 DEF CoveredBut, Delivered, n

LEMMA RestartCovers ==
  ASSUME NEW st, NEW d \in [Scope -> Nat], NEW s, NEW me, Shaped(st),
         Layout(st.task, st.scope, d), st.scope[s].parent \in Used(st.scope) \union {NoScope},
         CoveredBut(st.scope, Nearest(st.scope, st.scope[s].parent))
  PROVE  Delivered(st, RestartInParent(st, s, me), d, Used(st.scope))
<1> DEFINE c == Nearest(st.scope, st.scope[s].parent)
<1>1. c # NoScope => c \in Scope /\ st.scope[c].called
  BY NearestCalled DEF Layout, Used
<1>2. RestartInParent(st, s, me) =
        IF c # NoScope /\ ~st.scope[c].handle THEN Deliver(st, c, me) ELSE st
  BY DEF RestartInParent
<1> HIDE DEF c
<1>3. CASE c # NoScope /\ ~st.scope[c].handle
  BY <1>1, <1>2, <1>3, DeliverCovers DEF c
<1>4. CASE ~(c # NoScope /\ ~st.scope[c].handle)
  <2>1. CoveredBut(st.scope, NoScope)
    BY <1>4 DEF CoveredBut, Covered, c
  <2>2. Keeps(st, st)
    BY DEF Keeps
  <2> QED
    BY <1>2, <1>4, <2>1, <2>2 DEF Delivered, StayCancelled
<1> QED
  BY <1>3, <1>4

\* One scope s gets other flags.
Changed(sc, n, s) ==
  /\ \A x \in Scope \ {s} : n[x] = sc[x]
  /\ n[s].parent = sc[s].parent /\ n[s].host = sc[s].host /\ n[s].active = sc[s].active
  /\ n[s].used = sc[s].used /\ n[s].handle = sc[s].handle
  /\ sc[s].called => n[s].called

LEMMA ChangedLayout ==
  ASSUME NEW tk, NEW sc, NEW d \in [Scope -> Nat], Layout(tk, sc, d), NEW n, NEW s \in Scope,
         Changed(sc, n, s)
  PROVE  /\ Layout(tk, n, d) /\ Upward(n) /\ Upward(sc) /\ Ordered(sc, d) /\ Used(n) = Used(sc)
         /\ SameLinks(sc, n, Used(sc) \ {s})
<1>0. \A x \in Scope : /\ n[x].parent = sc[x].parent /\ n[x].host = sc[x].host
                       /\ n[x].active = sc[x].active /\ n[x].used = sc[x].used
                       /\ n[x].handle = sc[x].handle /\ (sc[x].called => n[x].called)
  BY DEF Changed
<1>1. Used(n) = Used(sc) /\ \A t \in Task : Hosted(n, t) = Hosted(sc, t)
  BY <1>0 DEF Used, Hosted
<1>2. Ordered(sc, d) /\ Ordered(n, d) /\ Upward(n) /\ Upward(sc)
  BY <1>0, <1>1 DEF Layout, Ordered, Upward
<1>3. OnStack(tk, n, d)
  <2>1. \A t \in Task : \A x \in Hosted(sc, t) : n[x].parent = sc[x].parent /\ n[x].active = sc[x].active
    BY <1>0 DEF Hosted
  <2> QED
    BY <1>1, <2>1 DEF Layout, OnStack
<1>4. SameLinks(sc, n, Used(sc) \ {s})
  BY DEF Changed, SameLinks, Used
<1> QED
  BY <1>1, <1>2, <1>3, <1>4 DEF Layout

\* The scope s is cancelled: it blocks what came through it, and has to deliver itself.
LEMMA CalledCovers ==
  ASSUME NEW tk, NEW sc, NEW d \in [Scope -> Nat], Layout(tk, sc, d), NEW n, NEW s \in Scope,
         Changed(sc, n, s), n[s].called, n[s].shield = sc[s].shield,
         sc[s].active \/ s \notin Used(sc) \/ Nearest(sc, s) = NoScope,
         CoveredBut(sc, NoScope)
  PROVE  /\ Layout(tk, n, d) /\ CoveredBut(n, s) /\ StayCancelled(sc, n, Used(sc))
         /\ Nearest(n, s) = s
<1>1. /\ Layout(tk, n, d) /\ Upward(n) /\ Upward(sc) /\ Ordered(sc, d) /\ Used(n) = Used(sc)
      /\ SameLinks(sc, n, Used(sc) \ {s})
  BY ChangedLayout
<1>2. /\ NoScope \notin Scope /\ Nearest(n, s) = s
      /\ s \in Used(sc) => Nearest(n, sc[s].parent) = Nearest(sc, sc[s].parent)
  BY <1>1, ScopeAssumption, NearestUnrolls, WalkAbove
<1>3. \A x \in Used(sc) \union {NoScope} :
        \/ Nearest(n, x) = Nearest(sc, x)
        \/ Nearest(n, x) = s /\ Nearest(sc, x) = Nearest(sc, s) /\ s \in Used(sc)
  BY <1>1, <1>2, WalkExcept
<1>4. ASSUME NEW c \in Scope, c # s, n[c].active, n[c].called, ~n[c].handle
      PROVE  Blocked(n, c)
  <2>1. n[c] = sc[c] /\ Blocked(sc, c)
    BY <1>2, <1>4 DEF Changed, CoveredBut, Covered
  <2>2. PICK b \in Scope \ {c} : /\ sc[b].active /\ (sc[b].shield \/ sc[b].called)
                                 /\ Nearest(sc, sc[b].parent) = c
    BY <2>1 DEF Blocked
  <2>3. /\ n[b].active /\ (n[b].shield \/ n[b].called) /\ n[b].parent = sc[b].parent
        /\ sc[b].parent \in Used(sc) \union {NoScope}
    BY <1>1, <2>2 DEF Changed, Ordered
  <2>4. CASE Nearest(n, sc[b].parent) = c
    BY <2>3, <2>4 DEF Blocked
  <2>5. CASE Nearest(n, sc[b].parent) # c
    <3>1. Nearest(sc, s) = c /\ s \in Used(sc) /\ c # NoScope
      BY <1>2, <1>3, <2>2, <2>3, <2>5
    <3>2. Nearest(sc, s) = IF sc[s].called THEN s
                           ELSE IF sc[s].shield THEN NoScope ELSE Nearest(sc, sc[s].parent)
      BY <1>1, <1>2, NearestUnrolls
    <3>3. Nearest(sc, sc[s].parent) = c
      BY <1>4, <3>1, <3>2
    <3>4. n[s].active /\ n[s].parent = sc[s].parent
      BY <3>1 DEF Changed
    <3> QED
      BY <1>2, <1>4, <3>1, <3>3, <3>4 DEF Blocked
  <2> QED
    BY <2>4, <2>5
<1>5. StayCancelled(sc, n, Used(sc))
  BY <1>2, <1>3 DEF StayCancelled
<1> QED
  BY <1>1, <1>2, <1>4, <1>5 DEF CoveredBut, Covered

\* A shield is raised: it blocks what came through it.
LEMMA RaisedCovers ==
  ASSUME NEW tk, NEW sc, NEW d \in [Scope -> Nat], Layout(tk, sc, d), NEW n, NEW s \in Scope,
         Changed(sc, n, s), n[s].shield, n[s].called = sc[s].called, sc[s].active,
         CoveredBut(sc, NoScope)
  PROVE  Layout(tk, n, d) /\ CoveredBut(n, NoScope)
<1>1. /\ Layout(tk, n, d) /\ Upward(n) /\ Upward(sc) /\ Ordered(sc, d) /\ Used(n) = Used(sc)
      /\ SameLinks(sc, n, Used(sc) \ {s})
  BY ChangedLayout
<1>2. /\ NoScope \notin Scope /\ s \in Used(sc)
      /\ Nearest(n, sc[s].parent) = Nearest(sc, sc[s].parent)
  <2>1. s \in Used(sc)
    BY <1>1 DEF Ordered, Used
  <2> QED
    BY <1>1, <2>1, ScopeAssumption, WalkAbove
<1>3. \A x \in Used(sc) \union {NoScope} :
        \/ Nearest(n, x) = Nearest(sc, x)
        \/ /\ Nearest(n, x) = Nearest(n, s) /\ Nearest(sc, x) = Nearest(sc, s)
           /\ s \in Used(sc)
  BY <1>1, WalkExcept
<1>4. ASSUME NEW c \in Scope, n[c].active, n[c].called, ~n[c].handle
      PROVE  Blocked(n, c)
  <2>1. /\ n[c].active = sc[c].active /\ n[c].called = sc[c].called /\ n[c].handle = sc[c].handle
    BY DEF Changed
  <2>6. Blocked(sc, c)
    BY <1>2, <1>4, <2>1 DEF CoveredBut, Covered
  <2>2. PICK b \in Scope \ {c} : /\ sc[b].active /\ (sc[b].shield \/ sc[b].called)
                                 /\ Nearest(sc, sc[b].parent) = c
    BY <2>6 DEF Blocked
  <2>3. /\ n[b].active /\ (n[b].shield \/ n[b].called) /\ n[b].parent = sc[b].parent
        /\ sc[b].parent \in Used(sc) \union {NoScope}
    BY <1>1, <2>2 DEF Changed, Ordered
  <2>4. CASE Nearest(n, sc[b].parent) = c
    BY <2>3, <2>4 DEF Blocked
  <2>5. CASE Nearest(n, sc[b].parent) # c
    <3>1. Nearest(sc, s) = c /\ Nearest(n, s) # c /\ c # NoScope
      BY <1>2, <1>3, <2>2, <2>3, <2>5
    <3>2. Nearest(sc, s) = IF sc[s].called THEN s
                           ELSE IF sc[s].shield THEN NoScope ELSE Nearest(sc, sc[s].parent)
      BY <1>1, <1>2, NearestUnrolls
    <3>3. n[s].called => Nearest(n, s) = s
      BY <1>1, <1>2, NearestUnrolls
    <3>4. s # c /\ Nearest(sc, sc[s].parent) = c
      BY <3>1, <3>2, <3>3, <1>4, <2>1
    <3>5. n[s].active /\ n[s].parent = sc[s].parent
      BY DEF Changed
    <3> QED
      BY <1>2, <3>4, <3>5 DEF Blocked
  <2> QED
    BY <2>4, <2>5
<1> QED
  BY <1>1, <1>4 DEF CoveredBut, Covered

\* A shield is lowered: what it blocked is to be restarted.
LEMMA LoweredCovers ==
  ASSUME NEW tk, NEW sc, NEW d \in [Scope -> Nat], Layout(tk, sc, d), NEW n, NEW s \in Scope,
         Changed(sc, n, s), ~n[s].shield, n[s].called = sc[s].called, sc[s].active,
         CoveredBut(sc, NoScope)
  PROVE  /\ Layout(tk, n, d) /\ CoveredBut(n, Nearest(n, n[s].parent))
         /\ StayCancelled(sc, n, Used(sc))
<1>1. /\ Layout(tk, n, d) /\ Upward(n) /\ Upward(sc) /\ Ordered(sc, d) /\ Used(n) = Used(sc)
      /\ SameLinks(sc, n, Used(sc) \ {s})
  BY ChangedLayout
<1>2. /\ NoScope \notin Scope /\ s \in Used(sc) /\ n[s].parent = sc[s].parent
      /\ Nearest(n, sc[s].parent) = Nearest(sc, sc[s].parent)
  <2>1. s \in Used(sc)
    BY <1>1 DEF Ordered, Used
  <2> QED
    BY <1>1, <2>1, ScopeAssumption, WalkAbove DEF Changed
<1>3. \A x \in Used(sc) \union {NoScope} :
        \/ Nearest(n, x) = Nearest(sc, x)
        \/ /\ Nearest(n, x) = Nearest(n, s) /\ Nearest(sc, x) = Nearest(sc, s)
           /\ s \in Used(sc)
  BY <1>1, WalkExcept
<1>4. Nearest(sc, s) # NoScope => Nearest(n, s) = Nearest(sc, s)
  <2>1. Nearest(sc, s) = IF sc[s].called THEN s
                         ELSE IF sc[s].shield THEN NoScope ELSE Nearest(sc, sc[s].parent)
    BY <1>1, <1>2, NearestUnrolls
  <2>2. Nearest(n, s) = IF n[s].called THEN s
                        ELSE IF n[s].shield THEN NoScope ELSE Nearest(n, n[s].parent)
    BY <1>1, <1>2, NearestUnrolls
  <2> QED
    BY <1>2, <2>1, <2>2
<1>5. \A x \in Used(sc) \union {NoScope} : Nearest(sc, x) # NoScope => Nearest(n, x) = Nearest(sc, x)
  BY <1>3, <1>4
<1>6. ASSUME NEW c \in Scope, n[c].active, n[c].called, ~n[c].handle, c # Nearest(n, n[s].parent)
      PROVE  Blocked(n, c)
  <2>1. /\ n[c].active = sc[c].active /\ n[c].called = sc[c].called /\ n[c].handle = sc[c].handle
    BY DEF Changed
  <2>2. Blocked(sc, c)
    BY <1>2, <1>6, <2>1 DEF CoveredBut, Covered
  <2>3. PICK b \in Scope \ {c} : /\ sc[b].active /\ (sc[b].shield \/ sc[b].called)
                                 /\ Nearest(sc, sc[b].parent) = c
    BY <2>2 DEF Blocked
  <2>4. b # s
    BY <1>2, <1>6, <2>3
  <2>5. /\ n[b] = sc[b] /\ sc[b].parent \in Used(sc) \union {NoScope}
    BY <1>1, <2>3, <2>4 DEF Changed, Ordered
  <2>6. Nearest(n, sc[b].parent) = c
    BY <1>2, <1>5, <2>3, <2>5
  <2> QED
    BY <2>3, <2>5, <2>6 DEF Blocked
<1> QED
  BY <1>1, <1>5, <1>6 DEF CoveredBut, Covered, StayCancelled

-----------------------------------------------------------------------------
(* The methods *)

LEMMA ThenDelivered ==
  ASSUME NEW st, NEW m, NEW n, NEW d, NEW X, X \subseteq Used(st.scope), Keeps(st, m),
         StayCancelled(st.scope, m.scope, X), Used(m.scope) = Used(st.scope),
         Delivered(m, n, d, Used(m.scope))
  PROVE  Delivered(st, n, d, X)
<1>1. Keeps(st, n)
  BY KeepsTwice DEF Delivered
<1> QED
  BY <1>1 DEF Delivered, StayCancelled

LEMMA CancelCovers ==
  ASSUME NEW st, NEW d \in [Scope -> Nat], NEW s \in Scope, NEW me, Shaped(st),
         Layout(st.task, st.scope, d), CoveredBut(st.scope, NoScope),
         st.scope[s].active \/ s \notin Used(st.scope) \/ Nearest(st.scope, s) = NoScope
  PROVE  LET n == Cancel(st, s, me) IN
         /\ Delivered(st, n, d, Used(st.scope)) /\ Nearest(n.scope, s) # NoScope
         /\ Used(n.scope) = Used(st.scope)
<1> DEFINE m == [st EXCEPT !.scope[s].called = TRUE]
<1>1. /\ Shaped(m) /\ Keeps(st, m) /\ m.task = st.task /\ Changed(st.scope, m.scope, s)
      /\ m.scope[s].called /\ m.scope[s].shield = st.scope[s].shield
  <2>1. m.task = st.task /\ m.scope = [st.scope EXCEPT ![s].called = TRUE] /\ DOMAIN m = {"task", "scope"}
    BY DEF Shaped
  <2> HIDE DEF m
  <2>2. /\ \A x \in Scope \ {s} : m.scope[x] = st.scope[x]
        /\ m.scope[s] = [st.scope[s] EXCEPT !.called = TRUE]
        /\ DOMAIN m.scope = Scope
    BY <2>1 DEF Shaped
  <2> QED
    BY <2>1, <2>2 DEF Shaped, Keeps, NewScope, Changed
<1> HIDE DEF m
<1>2. /\ Layout(m.task, m.scope, d) /\ CoveredBut(m.scope, s) /\ Used(m.scope) = Used(st.scope)
      /\ StayCancelled(st.scope, m.scope, Used(st.scope)) /\ Nearest(m.scope, s) = s
  <2>1. m.task = st.task /\ Layout(st.task, st.scope, d)
    BY <1>1
  <2>2. /\ Layout(st.task, m.scope, d) /\ CoveredBut(m.scope, s)
        /\ StayCancelled(st.scope, m.scope, Used(st.scope)) /\ Nearest(m.scope, s) = s
    <3>1. /\ Changed(st.scope, m.scope, s) /\ m.scope[s].called /\ m.scope[s].shield = st.scope[s].shield
      BY <1>1
    <3> QED
      BY <2>1, <3>1, CalledCovers
  <2>3. Used(m.scope) = Used(st.scope)
    BY <1>1, <2>1, ChangedLayout, ZenonT(40)
  <2> QED
    BY <2>1, <2>2, <2>3
<1>3. NoScope \notin Scope /\ NoTask \notin Task
  BY ScopeAssumption
<1>4. CASE st.scope[s].called
  <2>1. Cancel(st, s, me) = st
    BY <1>4 DEF Cancel
  <2>2. Nearest(st.scope, s) = s
    BY <1>4, NearestUnrolls DEF Layout, Ordered, Upward
  <2>3. Keeps(st, st)
    BY DEF Keeps
  <2> QED
    BY <1>3, <2>1, <2>2, <2>3 DEF Delivered, StayCancelled
<1>5. CASE ~st.scope[s].called /\ st.scope[s].host # NoTask
  <2>1. Cancel(st, s, me) = Deliver(m, s, me)
    BY <1>5 DEF Cancel, m
  <2> DEFINE n == Deliver(m, s, me)
  <2>2. Delivered(m, n, d, Used(m.scope)) /\ SameLayout(m.scope, n.scope)
    BY <1>1, <1>2, DeliverCovers
  <2>3. Delivered(st, n, d, Used(st.scope)) /\ Used(n.scope) = Used(st.scope)
    <3> HIDE DEF n
    <3>1. Delivered(st, n, d, Used(st.scope))
      BY <1>1, <1>2, <2>2, ThenDelivered
    <3>2. Used(n.scope) = Used(m.scope)
      BY <2>2 DEF SameLayout, Used
    <3> QED
      BY <1>2, <3>1, <3>2
  <2>4. Nearest(n.scope, s) # NoScope
    <3> HIDE DEF n
    <3>1. Upward(n.scope) /\ n.scope[s].called
      BY <1>1, <2>2, <2>3 DEF Delivered, Layout, Ordered, Upward, SameLayout
    <3> QED
      BY <1>3, <3>1, NearestUnrolls
  <2> QED
    BY <2>1, <2>3, <2>4
<1>6. CASE ~st.scope[s].called /\ st.scope[s].host = NoTask
  <2>1. Cancel(st, s, me) = m
    BY <1>6 DEF Cancel, m
  <2>2. ~m.scope[s].active
    BY <1>1, <1>3, <1>6 DEF Changed, Layout, Ordered
  <2>3. CoveredBut(m.scope, NoScope)
    BY <1>2, <2>2 DEF CoveredBut, Covered
  <2> QED
    BY <1>1, <1>2, <1>3, <2>1, <2>3 DEF Delivered
<1> QED
  BY <1>4, <1>5, <1>6

LEMMA RestartUses ==
  ASSUME NEW st, NEW s, NEW me, Shaped(st), Nearest(st.scope, st.scope[s].parent) \in Scope \union {NoScope}
  PROVE  Used(RestartInParent(st, s, me).scope) = Used(st.scope)
<1> DEFINE c == Nearest(st.scope, st.scope[s].parent)
           n == Deliver(st, c, me)
<1>1. RestartInParent(st, s, me) \in {st} \union (IF c # NoScope THEN {n} ELSE {})
  BY DEF RestartInParent
<1>2. ASSUME c # NoScope PROVE Used(n.scope) = Used(st.scope)
  <2>1. SameLayout(st.scope, n.scope)
    BY <1>2, DeliverLayout
  <2> QED
    BY <2>1 DEF SameLayout, Used
<1> QED
  BY <1>1, <1>2

\* The setter of shield on a scope that has been entered
LEMMA ShieldCovers ==
  ASSUME NEW st, NEW d \in [Scope -> Nat], NEW s \in Scope, NEW value, NEW me, Shaped(st),
         Layout(st.task, st.scope, d), CoveredBut(st.scope, NoScope), st.scope[s].active,
         value = TRUE \/ (value = FALSE /\ st.scope[s].shield)
  PROVE  LET n == SetShield(st, s, value, me) IN
         /\ Keeps(st, n) /\ Layout(n.task, n.scope, d) /\ CoveredBut(n.scope, NoScope)
         /\ Used(n.scope) = Used(st.scope)
         /\ value = FALSE => StayCancelled(st.scope, n.scope, Used(st.scope))
         /\ value = TRUE => n.scope[s].shield
<1> DEFINE m == [st EXCEPT !.scope[s].shield = value]
<1>1. /\ Shaped(m) /\ Keeps(st, m) /\ m.task = st.task /\ Changed(st.scope, m.scope, s)
      /\ m.scope[s].called = st.scope[s].called /\ m.scope[s].shield = value
  <2>1. m.task = st.task /\ m.scope = [st.scope EXCEPT ![s].shield = value] /\ DOMAIN m = {"task", "scope"}
    BY DEF Shaped
  <2> HIDE DEF m
  <2>2. /\ \A x \in Scope \ {s} : m.scope[x] = st.scope[x]
        /\ m.scope[s] = [st.scope[s] EXCEPT !.shield = value]
        /\ DOMAIN m.scope = Scope /\ DOMAIN st.scope[s] = DOMAIN NewScope
    BY <2>1 DEF Shaped
  <2>3. /\ m.scope[s].parent = st.scope[s].parent /\ m.scope[s].host = st.scope[s].host
        /\ m.scope[s].active = st.scope[s].active /\ m.scope[s].used = st.scope[s].used
        /\ m.scope[s].handle = st.scope[s].handle /\ m.scope[s].called = st.scope[s].called
        /\ m.scope[s].shield = value /\ m.scope[s].before = st.scope[s].before
        /\ m.scope[s].calls = st.scope[s].calls /\ DOMAIN m.scope[s] = DOMAIN NewScope
    BY <2>2, ZenonT(40) DEF NewScope
  <2>4. Shaped(m)
    BY <2>1, <2>2, <2>3 DEF Shaped
  <2>5. Changed(st.scope, m.scope, s)
    BY <2>2, <2>3 DEF Changed
  <2>6. Keeps(st, m)
    BY <2>1, <2>2, <2>3, <2>4 DEF Keeps
  <2> QED
    BY <2>1, <2>3, <2>4, <2>5, <2>6
<1> HIDE DEF m
<1>2. Used(m.scope) = Used(st.scope)
  BY <1>1, ChangedLayout
<1>3. CASE value = TRUE
  <2>1. SetShield(st, s, value, me) = m
    BY <1>3 DEF SetShield, m
  <2>2. Layout(m.task, m.scope, d) /\ CoveredBut(m.scope, NoScope)
    BY <1>1, <1>3, RaisedCovers
  <2> QED
    BY <1>1, <1>2, <1>3, <2>1, <2>2
<1>4. CASE value = FALSE /\ st.scope[s].shield
  <2>1. SetShield(st, s, value, me) = RestartInParent(m, s, me)
    BY <1>4 DEF SetShield, m
  <2>2. /\ Layout(m.task, m.scope, d) /\ CoveredBut(m.scope, Nearest(m.scope, m.scope[s].parent))
        /\ StayCancelled(st.scope, m.scope, Used(st.scope))
    BY <1>1, <1>4, LoweredCovers
  <2>3. m.scope[s].parent \in Used(m.scope) \union {NoScope}
    BY <1>1, <2>2 DEF Changed, Layout, Ordered
  <2>4. Delivered(m, RestartInParent(m, s, me), d, Used(m.scope))
    BY <1>1, <2>2, <2>3, RestartCovers
  <2>5. Delivered(st, RestartInParent(m, s, me), d, Used(st.scope))
    BY <1>1, <1>2, <2>2, <2>4, ThenDelivered
  <2>6. Nearest(m.scope, m.scope[s].parent) \in Scope \union {NoScope}
    BY <2>2, <2>3, NearestCalled DEF Layout, Used
  <2>7. Used(RestartInParent(m, s, me).scope) = Used(st.scope)
    BY <1>1, <1>2, <2>6, RestartUses
  <2> QED
    BY <1>4, <2>1, <2>5, <2>7 DEF Delivered
<1> QED
  BY <1>3, <1>4

LEMMA EnterCovers ==
  ASSUME NEW st, NEW d \in [Scope -> Nat], NEW s \in Scope, NEW t \in Task, NEW shield, Shaped(st),
         Layout(st.task, st.scope, d), CoveredBut(st.scope, NoScope), s \notin Used(st.scope)
  PROVE  LET n == Enter(st, s, t, shield) IN
         /\ \E e \in [Scope -> Nat] : Layout(n.task, n.scope, e) /\ CoveredBut(n.scope, NoScope)
         /\ StayCancelled(st.scope, n.scope, Used(st.scope))
         /\ Used(n.scope) = Used(st.scope) \union {s}
         /\ n.scope[s].parent = st.task[t].cur
<1> DEFINE r == st.task[t]
           v == [st.scope[s] EXCEPT !.parent = r.cur, !.host = t, !.active = TRUE, !.used = TRUE,
                                    !.shield = shield, !.before = r.cancelling]
           m == [task |-> [st.task EXCEPT ![t].cur = s], scope |-> [st.scope EXCEPT ![s] = v]]
           e == [d EXCEPT ![s] = IF r.cur = NoScope THEN 1 ELSE d[r.cur] + 1]
<1>0. /\ Ordered(st.scope, d) /\ OnStack(st.task, st.scope, d) /\ s # NoScope
      /\ NoTask \notin Task /\ NoScope \notin Scope
      /\ r.cur \in Used(st.scope) \union {NoScope} /\ Used(st.scope) \subseteq Scope
  BY ScopeAssumption DEF Layout, OnStack, Used
<1>1. /\ m.task = [st.task EXCEPT ![t].cur = s] /\ m.scope = [st.scope EXCEPT ![s] = v]
      /\ DOMAIN m = {"task", "scope"}
      /\ Enter(st, s, t, shield) = IF m.scope[s].called THEN Deliver(m, s, t) ELSE m
  BY DEF Enter
<1>2. /\ v.parent = r.cur /\ v.host = t /\ v.active /\ v.used /\ v.called = st.scope[s].called
      /\ v.handle = st.scope[s].handle /\ DOMAIN v = DOMAIN NewScope
  BY DEF Shaped, NewScope
<1>3. /\ e \in [Scope -> Nat] /\ e[s] = IF r.cur = NoScope THEN 1 ELSE d[r.cur] + 1
      /\ \A x \in Scope \ {s} : e[x] = d[x]
  BY <1>0
<1> HIDE DEF v, m, e
<1>4. /\ Shaped(m) /\ m.scope[s] = v /\ \A x \in Scope \ {s} : m.scope[x] = st.scope[x]
      /\ \A u \in Task : m.task[u].cur = IF u = t THEN s ELSE st.task[u].cur
  BY <1>1, <1>2 DEF Shaped, NewTask
<1>5. /\ Used(m.scope) = Used(st.scope) \union {s}
      /\ \A u \in Task : s \notin Hosted(st.scope, u)
      /\ Hosted(m.scope, t) = Hosted(st.scope, t) \union {s}
      /\ \A u \in Task \ {t} : Hosted(m.scope, u) = Hosted(st.scope, u)
      /\ \A u \in Task : \A x \in Hosted(st.scope, u) : x \in Used(st.scope)
  BY <1>0, <1>2, <1>4 DEF Used, Hosted, Ordered
<1>6. Ordered(m.scope, e)
  <2> SUFFICES ASSUME NEW x \in Scope
               PROVE  /\ m.scope[x].parent \in Scope \union {NoScope}
                      /\ m.scope[x].used /\ m.scope[x].parent # NoScope
                         => m.scope[x].parent \in Used(m.scope) /\ e[x] = e[m.scope[x].parent] + 1
                      /\ m.scope[x].host # NoTask \/ m.scope[x].active => m.scope[x].used
                      /\ m.scope[x].active => m.scope[x].host \in Task
                      /\ m.scope[x].handle => m.scope[x].called
    BY DEF Ordered
  <2>1. CASE x = s
    <3>1. st.scope[s].handle => st.scope[s].called
      BY <1>0 DEF Ordered
    <3> QED
      BY <1>0, <1>2, <1>3, <1>4, <1>5, <2>1, <3>1
  <2>2. CASE x # s
    <3>1. ASSUME x \in Used(st.scope) PROVE st.scope[x].parent # s
      <4>1. st.scope[x].used /\ s \notin Used(st.scope)
        BY <3>1 DEF Used
      <4>2. st.scope[x].parent # NoScope => st.scope[x].parent \in Used(st.scope)
        BY <1>0, <4>1 DEF Ordered
      <4> QED
        BY <1>0, <4>1, <4>2
    <3>2. st.scope[x].used <=> x \in Used(st.scope)
      BY DEF Used
    <3> QED
      BY <1>0, <1>3, <1>4, <1>5, <2>2, <3>1, <3>2 DEF Ordered
  <2> QED
    BY <2>1, <2>2
<1>7. OnStack(m.task, m.scope, e)
  <2> SUFFICES ASSUME NEW u \in Task
               PROVE  /\ m.task[u].cur \in Used(m.scope) \union {NoScope}
                      /\ Hosted(m.scope, u) # {} => m.task[u].cur \in Hosted(m.scope, u)
                      /\ \A x \in Hosted(m.scope, u) :
                           /\ m.scope[x].active /\ e[x] <= e[m.task[u].cur]
                           /\ \A y \in Hosted(m.scope, u) :
                                /\ e[y] = e[x] => y = x
                                /\ e[y] < e[x] => m.scope[x].parent \in Hosted(m.scope, u)
    BY DEF OnStack
  <2>1. \A x \in Hosted(st.scope, u) : x \in Scope \ {s} /\ m.scope[x] = st.scope[x] /\ e[x] = d[x] /\ d[x] \in Nat
    BY <1>3, <1>4, <1>5 DEF Hosted
  <2>2. /\ st.task[u].cur \in Used(st.scope) \union {NoScope}
        /\ Hosted(st.scope, u) # {} => st.task[u].cur \in Hosted(st.scope, u)
        /\ \A x \in Hosted(st.scope, u) :
             /\ st.scope[x].active /\ d[x] <= d[st.task[u].cur]
             /\ \A y \in Hosted(st.scope, u) :
                  /\ d[y] = d[x] => y = x
                  /\ d[y] < d[x] => st.scope[x].parent \in Hosted(st.scope, u)
    BY <1>0 DEF OnStack
  <2>3. CASE u # t
    BY <1>4, <1>5, <2>1, <2>2, <2>3
  <2>4. CASE u = t
    <3>1. m.task[u].cur = s /\ e[s] \in Nat
      BY <1>3, <1>4, <2>4
    <3>2. \A x \in Hosted(st.scope, u) : d[x] < e[s]
      <4>1. ASSUME NEW x \in Hosted(st.scope, u) PROVE d[x] < e[s]
        <5>1. r.cur \in Hosted(st.scope, u) /\ d[x] <= d[r.cur]
          BY <2>2, <2>4
        <5>2. r.cur \in Scope /\ d[r.cur] \in Nat /\ r.cur # NoScope
          BY <1>0, <5>1 DEF Hosted
        <5>3. e[s] = d[r.cur] + 1
          BY <1>3, <5>2
        <5> QED
          BY <2>1, <5>1, <5>2, <5>3
      <4> QED
        BY <4>1
    <3>3. Hosted(m.scope, u) = Hosted(st.scope, u) \union {s}
      BY <1>5, <2>4
    <3>4. ASSUME NEW x \in Hosted(st.scope, u)
          PROVE  /\ m.scope[x].active /\ e[x] <= e[s]
                 /\ \A y \in Hosted(m.scope, u) :
                      /\ e[y] = e[x] => y = x
                      /\ e[y] < e[x] => m.scope[x].parent \in Hosted(m.scope, u)
      BY <2>1, <2>2, <3>1, <3>2, <3>3
    <3>5. /\ m.scope[s].active
          /\ \A y \in Hosted(m.scope, u) :
               /\ e[y] = e[s] => y = s
               /\ e[y] < e[s] => m.scope[s].parent \in Hosted(m.scope, u)
      BY <1>2, <1>4, <2>1, <2>2, <2>4, <3>1, <3>2, <3>3
    <3> QED
      BY <1>5, <3>1, <3>3, <3>4, <3>5
  <2> QED
    BY <2>3, <2>4
<1>8. Layout(m.task, m.scope, e) /\ Upward(m.scope)
  BY <1>6, <1>7 DEF Layout, Ordered, Upward
<1>9. \A x \in Used(st.scope) \union {NoScope} : Nearest(m.scope, x) = Nearest(st.scope, x)
  <2>1. SameLinks(st.scope, m.scope, Used(st.scope)) /\ Closed1(st.scope, Used(st.scope))
    BY <1>0, <1>4 DEF SameLinks, Closed1, Ordered, Used
  <2> QED
    BY <1>0, <1>8, <2>1, SameWalk
<1>10. CoveredBut(m.scope, s)
  <2> SUFFICES ASSUME NEW c \in Scope \ {s}, m.scope[c].active, m.scope[c].called, ~m.scope[c].handle
               PROVE  Blocked(m.scope, c)
    BY DEF CoveredBut, Covered
  <2>1. Blocked(st.scope, c)
    BY <1>0, <1>4 DEF CoveredBut, Covered
  <2>2. PICK b \in Scope \ {c} : /\ st.scope[b].active /\ (st.scope[b].shield \/ st.scope[b].called)
                                 /\ Nearest(st.scope, st.scope[b].parent) = c
    BY <2>1 DEF Blocked
  <2>3. b \in Used(st.scope) /\ b # s /\ st.scope[b].parent \in Used(st.scope) \union {NoScope}
    BY <1>0, <2>2 DEF Ordered, Used
  <2> QED
    BY <1>4, <1>9, <2>2, <2>3 DEF Blocked
<1>11. m.scope[s].parent = r.cur
  BY <1>2, <1>4
<1>12. CASE m.scope[s].called
  <2>1. Enter(st, s, t, shield) = Deliver(m, s, t)
    BY <1>1, <1>12
  <2> DEFINE n == Deliver(m, s, t)
  <2>2. Delivered(m, n, e, Used(m.scope)) /\ SameLayout(m.scope, n.scope)
    BY <1>3, <1>4, <1>8, <1>10, <1>12, DeliverCovers
  <2> HIDE DEF n
  <2>3. Used(n.scope) = Used(m.scope) /\ n.scope[s].parent = r.cur
    BY <1>11, <2>2 DEF SameLayout, Used
  <2>4. StayCancelled(st.scope, n.scope, Used(st.scope))
    BY <1>5, <1>9, <2>2 DEF Delivered, StayCancelled
  <2>5. Layout(n.task, n.scope, e) /\ CoveredBut(n.scope, NoScope)
    BY <2>2 DEF Delivered
  <2> QED
    BY <1>3, <1>5, <2>1, <2>3, <2>4, <2>5 DEF n
<1>13. CASE ~m.scope[s].called
  <2>1. Enter(st, s, t, shield) = m
    BY <1>1, <1>13
  <2>2. CoveredBut(m.scope, NoScope)
    BY <1>10, <1>13 DEF CoveredBut, Covered
  <2>3. StayCancelled(st.scope, m.scope, Used(st.scope))
    BY <1>9 DEF StayCancelled
  <2> QED
    BY <1>3, <1>5, <1>8, <1>11, <2>1, <2>2, <2>3
<1> QED
  BY <1>12, <1>13

LEMMA ExitCovers ==
  ASSUME NEW st, NEW d \in [Scope -> Nat], NEW t \in Task, NEW s \in Hosted(st.scope, t), Shaped(st),
         Layout(st.task, st.scope, d), CoveredBut(st.scope, NoScope), st.task[t].cur = s
  PROVE  LET n == Exit(st, s) IN
         /\ Layout(n.task, n.scope, d) /\ CoveredBut(n.scope, NoScope)
         /\ StayCancelled(st.scope, n.scope, Used(st.scope))
         /\ Used(n.scope) = Used(st.scope)
         /\ n.scope[s].host = NoTask /\ n.task[t].cur = st.scope[s].parent
<1> DEFINE v == st.scope[s]
           r == st.task[t]
           over == IF r.cancelling > v.before THEN r.cancelling - v.before ELSE 0
           back == Uncancelled(v.calls, over)
           ends == Swallows(st.scope, s, r.exc)
           left == IF r.cancelling > back THEN r.cancelling - back ELSE 0
           exc == IF ends THEN "none" ELSE r.exc
           kept == v.calls - back
           r1 == [r EXCEPT !.cur = v.parent, !.cancelling = left, !.exc = exc]
           v1 == [v EXCEPT !.active = FALSE, !.host = NoTask, !.calls = kept, !.before = 0]
           m == [task |-> [st.task EXCEPT ![t] = r1], scope |-> [st.scope EXCEPT ![s] = v1]]
<1>0. /\ Ordered(st.scope, d) /\ OnStack(st.task, st.scope, d) /\ s \in Scope /\ s # NoScope /\ v.host = t
      /\ NoTask \notin Task /\ NoScope \notin Scope
      /\ s \in Used(st.scope) /\ v.parent \in Used(st.scope) \union {NoScope}
  BY ScopeAssumption DEF Layout, Ordered, Hosted, Used
<1>1. Exit(st, s) = RestartInParent(m, s, t)
  BY <1>0 DEF Exit
<1>2. /\ m.task = [st.task EXCEPT ![t] = r1] /\ m.scope = [st.scope EXCEPT ![s] = v1]
      /\ DOMAIN m = {"task", "scope"}
  OBVIOUS
<1> HIDE DEF over, back, ends, left, exc, kept
<1>3. /\ v1.parent = v.parent /\ v1.called = v.called /\ v1.shield = v.shield /\ v1.used = v.used
      /\ v1.handle = v.handle /\ v1.host = NoTask /\ ~v1.active /\ DOMAIN v1 = DOMAIN NewScope
      /\ r1.cur = v.parent /\ DOMAIN r1 = DOMAIN NewTask
  BY <1>0 DEF Shaped, NewScope, NewTask
<1> HIDE DEF r1, v1, m
<1>4. /\ Shaped(m) /\ m.scope[s] = v1 /\ \A x \in Scope \ {s} : m.scope[x] = st.scope[x]
      /\ m.task[t].cur = v.parent /\ \A u \in Task \ {t} : m.task[u] = st.task[u]
  BY <1>0, <1>2, <1>3 DEF Shaped
<1>5. /\ Used(m.scope) = Used(st.scope)
      /\ Hosted(m.scope, t) = Hosted(st.scope, t) \ {s}
      /\ \A u \in Task \ {t} : Hosted(m.scope, u) = Hosted(st.scope, u) /\ s \notin Hosted(st.scope, u)
  BY <1>0, <1>3, <1>4 DEF Used, Hosted
<1>6. Ordered(m.scope, d)
  BY <1>0, <1>3, <1>4, <1>5 DEF Ordered
<1>7. OnStack(m.task, m.scope, d)
  <2> SUFFICES ASSUME NEW u \in Task
               PROVE  /\ m.task[u].cur \in Used(m.scope) \union {NoScope}
                      /\ Hosted(m.scope, u) # {} => m.task[u].cur \in Hosted(m.scope, u)
                      /\ \A x \in Hosted(m.scope, u) :
                           /\ m.scope[x].active /\ d[x] <= d[m.task[u].cur]
                           /\ \A y \in Hosted(m.scope, u) :
                                /\ d[y] = d[x] => y = x
                                /\ d[y] < d[x] => m.scope[x].parent \in Hosted(m.scope, u)
    BY DEF OnStack
  <2>1. /\ st.task[u].cur \in Used(st.scope) \union {NoScope}
        /\ Hosted(st.scope, u) # {} => st.task[u].cur \in Hosted(st.scope, u)
        /\ \A x \in Hosted(st.scope, u) :
             /\ st.scope[x].active /\ d[x] <= d[st.task[u].cur]
             /\ \A y \in Hosted(st.scope, u) :
                  /\ d[y] = d[x] => y = x
                  /\ d[y] < d[x] => st.scope[x].parent \in Hosted(st.scope, u)
    BY <1>0 DEF OnStack
  <2>2. CASE u # t
    <3>1. \A x \in Hosted(st.scope, u) : m.scope[x] = st.scope[x]
      BY <1>4, <1>5, <2>2 DEF Hosted
    <3> QED
      BY <1>4, <1>5, <2>1, <2>2, <3>1
  <2>3. CASE u = t
    <3>1. \A x \in Hosted(m.scope, u) :
            /\ x \in Hosted(st.scope, u) /\ x # s /\ m.scope[x] = st.scope[x]
            /\ d[x] \in Nat /\ d[s] \in Nat /\ d[x] < d[s]
      <4>1. ASSUME NEW x \in Hosted(st.scope, u), x # s PROVE d[x] \in Nat /\ d[s] \in Nat /\ d[x] < d[s]
        <5>1. d[x] \in Nat /\ d[s] \in Nat
          BY <1>0 DEF Hosted
        <5>2. d[x] <= d[s] /\ d[x] # d[s]
          BY <2>1, <2>3, <4>1
        <5> QED
          BY <5>1, <5>2
      <4> QED
        BY <1>4, <1>5, <2>3, <4>1 DEF Hosted
    <3>2. ASSUME NEW x \in Hosted(m.scope, u)
          PROVE  v.parent \in Hosted(m.scope, u) /\ d[x] <= d[v.parent]
      <4>1. v.parent \in Hosted(st.scope, u)
        BY <2>1, <2>3, <3>1
      <4>2. d[s] = d[v.parent] + 1 /\ d[v.parent] \in Nat
        BY <1>0, <4>1 DEF Ordered, Hosted, Used
      <4>3. v.parent # s
        BY <4>2
      <4> QED
        BY <1>5, <2>3, <3>1, <4>1, <4>2, <4>3
    <3>3. ASSUME NEW x \in Hosted(m.scope, u), NEW y \in Hosted(m.scope, u), d[y] < d[x]
          PROVE  m.scope[x].parent \in Hosted(m.scope, u)
      <4>1. st.scope[x].parent \in Hosted(st.scope, u)
        BY <2>1, <3>1, <3>3
      <4>2. st.scope[x].parent # s
        <5>1. d[x] = d[st.scope[x].parent] + 1
          BY <1>0, <3>1, <4>1 DEF Ordered, Hosted, Used
        <5> QED
          BY <3>1, <5>1
      <4> QED
        BY <1>5, <2>3, <3>1, <4>1, <4>2
    <3> QED
      BY <1>0, <1>4, <1>5, <2>1, <2>3, <3>1, <3>2, <3>3
  <2> QED
    BY <2>2, <2>3
<1>8. Layout(m.task, m.scope, d) /\ Upward(m.scope)
  BY <1>6, <1>7 DEF Layout, Ordered, Upward
<1>9. \A x \in Used(st.scope) \union {NoScope} : Nearest(m.scope, x) = Nearest(st.scope, x)
  <2>1. SameLinks(st.scope, m.scope, Used(st.scope)) /\ Closed1(st.scope, Used(st.scope))
    BY <1>0, <1>3, <1>4 DEF SameLinks, Closed1, Ordered, Used
  <2> QED
    BY <1>0, <1>8, <2>1, SameWalk
<1>10. m.scope[s].parent = v.parent
  BY <1>3, <1>4
<1>11. CoveredBut(m.scope, Nearest(m.scope, m.scope[s].parent))
  <2> SUFFICES ASSUME NEW c \in Scope, m.scope[c].active, m.scope[c].called, ~m.scope[c].handle,
                      c # Nearest(st.scope, v.parent)
               PROVE  Blocked(m.scope, c)
    BY <1>0, <1>9, <1>10 DEF CoveredBut, Covered
  <2>1. c # s /\ Blocked(st.scope, c)
    BY <1>0, <1>3, <1>4 DEF CoveredBut, Covered
  <2>2. PICK b \in Scope \ {c} : /\ st.scope[b].active /\ (st.scope[b].shield \/ st.scope[b].called)
                                 /\ Nearest(st.scope, st.scope[b].parent) = c
    BY <2>1 DEF Blocked
  <2>3. b # s
    BY <2>2
  <2>4. m.scope[b] = st.scope[b] /\ st.scope[b].parent \in Used(st.scope) \union {NoScope}
    BY <1>0, <1>4, <2>2, <2>3 DEF Ordered, Used
  <2>5. Nearest(m.scope, m.scope[b].parent) = c
    BY <1>9, <2>2, <2>4
  <2> QED
    BY <2>2, <2>4, <2>5 DEF Blocked
<1> DEFINE n == RestartInParent(m, s, t)
<1>12. Delivered(m, n, d, Used(m.scope))
  BY <1>0, <1>4, <1>5, <1>8, <1>10, <1>11, RestartCovers
<1>13. n.task[t].cur = v.parent /\ n.scope[s].host = NoTask
  <2> HIDE DEF n
  <2> QED
    BY <1>0, <1>3, <1>4, <1>12 DEF Delivered, Keeps
<1>14. StayCancelled(st.scope, n.scope, Used(st.scope))
  <2> HIDE DEF n
  <2> QED
    BY <1>5, <1>9, <1>12 DEF Delivered, StayCancelled
<1>15. Used(n.scope) = Used(st.scope)
  <2>1. Nearest(m.scope, m.scope[s].parent) \in Scope \union {NoScope}
    BY <1>0, <1>5, <1>8, <1>10, NearestCalled DEF Layout, Used
  <2> QED
    BY <1>4, <1>5, <2>1, RestartUses
<1> QED
  BY <1>1, <1>12, <1>13, <1>14, <1>15 DEF Delivered

-----------------------------------------------------------------------------
(* The steps.  The depths of the scopes are what the program knows them by:  *)
(* they are fixed when a scope is entered, one more than its parent's.       *)

Cov == \E d \in [Scope -> Nat] : Layout(task, scope, d) /\ CoveredBut(scope, NoScope)

\* How far a group is, which of its scopes have been entered, and who is in them
GroupLinks(g) ==
  /\ group[g].phase \in {"new", "open", "wait", "checkpoint", "closed"}
  /\ group[g].phase = "new" =>
       ~scope[g].used /\ ~group[g].active /\ group[g].tasks = {} /\ ~group[g].failed
  /\ group[g].phase # "new" => scope[g].used
  /\ group[g].phase \in {"new", "open"} => ~scope[WaitScope[g]].used
  /\ group[g].phase = "closed" => scope[g].host = NoTask
  /\ group[g].phase \in {"wait", "checkpoint"} => scope[WaitScope[g]].parent = g
  /\ group[g].tasks \subseteq Task /\ \A c \in group[g].tasks : scope[g].host # c

\* Tasks that have not started, or have ended, host no scope.
HostsRun == \A t \in Task : task[t].place # "started" => Hosted(scope, t) = {}

Links == HostsRun /\ \A g \in Group : GroupLinks(g)

CInv == GInv /\ Cov /\ Links

\* What every step but the raising of a shield does
Onward == Cov' /\ Links' /\ StayCancelled(scope, scope', Used(scope) \ WaitScopes)

LEMMA InitCInv == GroupInit => Cov /\ Links
<1> SUFFICES ASSUME GroupInit PROVE Cov /\ Links
  OBVIOUS
<1> DEFINE d == [s \in Scope |-> 0]
<1>1. /\ NoTask \notin Task /\ NoScope \notin Scope
      /\ \A g \in Group : g \in Scope /\ WaitScope[g] \in Scope
  BY ScopeAssumption, GroupAssumption
<1>2. \A s \in Scope : scope[s] = NewScope
  BY DEF GroupInit, InitWith
<1>3. \A t \in Task : task[t].cur = NoScope
  BY DEF GroupInit, InitWith, NewTask
<1>4. Used(scope) = {} /\ \A t \in Task : Hosted(scope, t) = {}
  BY <1>1, <1>2 DEF Used, Hosted, NewScope
<1>5. Layout(task, scope, d) /\ CoveredBut(scope, NoScope)
  BY <1>2, <1>3, <1>4 DEF Layout, Ordered, OnStack, CoveredBut, Covered, NewScope
<1>6. \A g \in Group : GroupLinks(g)
  BY <1>1, <1>2 DEF GroupInit, GroupLinks, NewScope
<1> QED
  BY <1>4, <1>5, <1>6 DEF Cov, Links, HostsRun

LEMMA CovNext ==
  ASSUME NEW d \in [Scope -> Nat], NEW tk, NEW sc, Layout(tk, sc, d), CoveredBut(sc, NoScope),
         SamePlaces(tk, task'), scope' = sc
  PROVE  Cov'
<1>1. SameLayout(sc, sc) /\ \A x \in Scope : sc[x].handle => sc[x].called
  BY DEF SameLayout, Layout, Ordered
<1>2. Layout(task', scope', d) /\ CoveredBut(scope', NoScope)
  BY <1>1, LayoutStays
<1> QED
  BY <1>2 DEF Cov

\* Steps that leave the groups and their scopes as they are
LEMMA QuietLinks ==
  ASSUME Links, group' = group,
         \A x \in Group \union WaitScopes :
           /\ scope'[x].host = scope[x].host /\ scope'[x].used = scope[x].used
           /\ scope'[x].parent = scope[x].parent,
         \A t \in Task : task'[t].place # "started" => Hosted(scope', t) = {}
  PROVE  Links'
<1>1. HostsRun'
  BY DEF HostsRun
<1>2. ASSUME NEW g \in Group PROVE GroupLinks(g)'
  BY DEF Links, GroupLinks, WaitScopes
<1> QED
  BY <1>1, <1>2 DEF Links

\* Steps that touch no scope
LEMMA TaskCovers ==
  ASSUME CInv, UNCHANGED <<scope, group>>, SamePlaces(task, task'),
         \A t \in Task : task'[t].place # "started" => Hosted(scope, t) = {}
  PROVE  Onward
<1>1. Cov'
  BY CovNext DEF CInv, Cov
<1>2. Links'
  BY QuietLinks DEF CInv
<1> QED
  BY <1>1, <1>2 DEF Onward, StayCancelled

LEMMA OwnStepCovers ==
  ASSUME CInv, UNCHANGED group, NEW t \in Task,
         \/ Step(t) \/ Wake(t) \/ NativeCancel(t) \/ StartChild(t) \/ FinishChild(t)
         \/ InUserCode(t) /\ (Suspend(t) \/ RaiseError(t) \/ Finish(t))
  PROVE  Onward
<1>0. DOMAIN task = Task /\ \A u \in Task : DOMAIN task[u] = DOMAIN NewTask
  BY DEF CInv, GInv, GroupShaped, Shaped, State
<1>1. \A u \in Task : task[u].place # "started" => Hosted(scope, u) = {}
  BY DEF CInv, Links, HostsRun
<1>2. scope' = scope
  BY DEF Step, Wake, NativeCancel, StartChild, FinishChild, Suspend, RaiseError, Finish
<1>3. ASSUME \A u \in Task : task'[u].cur = task[u].cur /\ task'[u].place \in {task[u].place, "started"}
      PROVE  Onward
  BY <1>1, <1>2, <1>3, TaskCovers DEF SamePlaces
<1>4. CASE FinishChild(t) \/ (InUserCode(t) /\ Finish(t))
  <2>1. task' = [task EXCEPT ![t].place = "done"]
    BY <1>4 DEF FinishChild, Finish
  <2>2. \A u \in Task : task'[u].cur = task[u].cur /\ (u # t => task'[u] = task[u])
    BY <1>0, <2>1 DEF NewTask
  <2>3. Hosted(scope, t) = {}
    <3>1. ASSUME Hosted(scope, t) # {} PROVE task[t].cur \in Scope /\ scope[task[t].cur].host = t
      BY <3>1 DEF CInv, Cov, Layout, OnStack, Hosted
    <3>2. CASE FinishChild(t)
      BY <3>1, <3>2 DEF FinishChild, CInv, Links, GroupLinks
    <3>3. CASE Finish(t)
      BY <3>1, <3>3, ScopeAssumption DEF Finish
    <3> QED
      BY <1>4, <3>2, <3>3
  <2>4. \A u \in Task : task'[u].place # "started" => Hosted(scope, u) = {}
    BY <1>1, <2>2, <2>3
  <2> QED
    BY <1>2, <2>2, <2>4, TaskCovers DEF SamePlaces
<1>5. CASE Step(t)
  BY <1>0, <1>3, <1>5 DEF Step, NewTask
<1>6. CASE Wake(t)
  BY <1>0, <1>3, <1>6 DEF Wake, NewTask
<1>7. CASE NativeCancel(t)
  <2>1. task'[t] = [CancelTask(task[t], "native") EXCEPT !.natives = @ + 1]
    BY <1>0, <1>7 DEF NativeCancel
  <2>2. task'[t].cur = task[t].cur /\ task'[t].place = task[t].place
    BY <1>0, <2>1 DEF CancelTask, NewTask
  <2>3. \A u \in Task \ {t} : task'[u] = task[u]
    BY <1>0, <1>7 DEF NativeCancel
  <2> QED
    BY <1>3, <2>2, <2>3
<1>8. CASE StartChild(t)
  <2>1. task[t].place = "new" /\ Hosted(scope, t) = {}
    BY <1>1, <1>8 DEF StartChild
  <2>2. \A u \in Task : task'[u].cur = task[u].cur /\ (u # t => task'[u] = task[u])
    BY <1>0, <1>8 DEF StartChild, NewTask
  <2>3. \A u \in Task : task'[u].place # "started" => Hosted(scope, u) = {}
    BY <1>1, <2>1, <2>2
  <2> QED
    BY <1>2, <2>2, <2>3, TaskCovers DEF SamePlaces
<1>9. CASE InUserCode(t) /\ (Suspend(t) \/ RaiseError(t))
  BY <1>0, <1>3, <1>9 DEF Suspend, RaiseError, NewTask
<1> QED
  BY <1>4, <1>5, <1>6, <1>7, <1>8, <1>9

\* Methods that move nobody
LEMMA MethodCovers ==
  ASSUME CInv, UNCHANGED group, NEW n, Becomes(n), Keeps(State, n), Used(n.scope) = Used(scope),
         NEW d \in [Scope -> Nat], Layout(n.task, n.scope, d), CoveredBut(n.scope, NoScope)
  PROVE  Cov' /\ Links'
<1>1. task' = n.task /\ scope' = n.scope /\ SamePlaces(task', task')
  BY DEF Becomes, SamePlaces
<1>2. Cov'
  BY <1>1, CovNext
<1>3. /\ \A x \in Scope : /\ scope'[x].host = scope[x].host /\ scope'[x].parent = scope[x].parent
                          /\ scope'[x].used <=> scope[x].used
      /\ \A t \in Task : task'[t].place = task[t].place
  BY <1>1 DEF Keeps, State, Used
<1>4. \A t \in Task : Hosted(scope', t) = Hosted(scope, t)
  BY <1>3 DEF Hosted
<1>5. HostsRun'
  BY <1>3, <1>4 DEF CInv, Links, HostsRun
<1>6. ASSUME NEW g \in Group PROVE GroupLinks(g)'
  <2>1. g \in Scope /\ WaitScope[g] \in Scope /\ GroupLinks(g)
    BY GroupAssumption DEF CInv, Links
  <2> QED
    BY <1>3, <2>1 DEF GroupLinks
<1> QED
  BY <1>2, <1>5, <1>6 DEF Links

\* Calls on a scope that leave its host where it is
LEMMA CallCovers ==
  ASSUME CInv, UNCHANGED group, NEW s \in Scope, CancelScope(s) \/ Redeliver(s)
  PROVE  Onward
<1>0. Shaped(State) /\ State.task = task /\ State.scope = scope
  BY DEF CInv, GInv, GroupShaped, State
<1>1. PICK d \in [Scope -> Nat] : Layout(task, scope, d) /\ CoveredBut(scope, NoScope)
  BY DEF CInv, Cov
<1>2. CASE CancelScope(s)
  <2> DEFINE n == Cancel(State, s, current)
  <2>1. Becomes(n) /\ (scope[s].active \/ s \notin Used(scope))
    BY <1>2 DEF CancelScope, Used
  <2>2. /\ Delivered(State, n, d, Used(State.scope)) /\ Nearest(n.scope, s) # NoScope
        /\ Used(n.scope) = Used(State.scope)
    BY <1>0, <1>1, <2>1, CancelCovers
  <2> HIDE DEF n
  <2>3. Cov' /\ Links'
    BY <1>0, <2>1, <2>2, MethodCovers DEF Delivered
  <2> QED
    BY <1>0, <2>1, <2>2, <2>3 DEF Delivered, Onward, StayCancelled, Becomes
<1>3. CASE Redeliver(s)
  <2> DEFINE n == Deliver(State, s, NoTask)
  <2>1. Becomes(n) /\ scope[s].handle
    BY <1>3 DEF Redeliver
  <2>2. scope[s].called /\ CoveredBut(scope, s)
    BY <1>1, <2>1, ScopeAssumption DEF Layout, Ordered, CoveredBut
  <2>3. Delivered(State, n, d, Used(State.scope)) /\ SameLayout(State.scope, n.scope)
    BY <1>0, <1>1, <2>2, DeliverCovers
  <2> HIDE DEF n
  <2>4. Used(n.scope) = Used(scope)
    BY <1>0, <2>3 DEF SameLayout, Used
  <2>5. Cov' /\ Links'
    BY <1>0, <2>1, <2>3, <2>4, MethodCovers DEF Delivered
  <2> QED
    BY <1>0, <2>1, <2>3, <2>5 DEF Delivered, Onward, StayCancelled, Becomes
<1> QED
  BY <1>2, <1>3

LEMMA ShieldStepCovers ==
  ASSUME CInv, UNCHANGED group, NEW s \in Scope, ChangeShield(s)
  PROVE  /\ Cov' /\ Links'
         /\ ~(~scope[s].shield /\ scope'[s].shield) => Onward
<1>0. Shaped(State) /\ State.task = task /\ State.scope = scope
  BY DEF CInv, GInv, GroupShaped, State
<1>1. PICK d \in [Scope -> Nat] : Layout(task, scope, d) /\ CoveredBut(scope, NoScope)
  BY DEF CInv, Cov
<1> DEFINE value == ~scope[s].shield
           n == SetShield(State, s, value, current)
<1>2. Becomes(n) /\ scope[s].active
  BY DEF ChangeShield
<1>3. value = TRUE \/ (value = FALSE /\ State.scope[s].shield)
  BY <1>0
<1> HIDE DEF value
<1>4. /\ Keeps(State, n) /\ Layout(n.task, n.scope, d) /\ CoveredBut(n.scope, NoScope)
      /\ Used(n.scope) = Used(State.scope)
      /\ value = FALSE => StayCancelled(State.scope, n.scope, Used(State.scope))
      /\ value = TRUE => n.scope[s].shield
  BY <1>0, <1>1, <1>2, <1>3, ShieldCovers
<1> HIDE DEF n
<1>5. Cov' /\ Links'
  BY <1>0, <1>2, <1>4, MethodCovers
<1>6. CASE value = FALSE
  BY <1>0, <1>2, <1>4, <1>5, <1>6 DEF Onward, StayCancelled, Becomes
<1>7. CASE value = TRUE
  BY <1>2, <1>4, <1>5, <1>7 DEF Becomes, value
<1> QED
  BY <1>3, <1>5, <1>6, <1>7

\* A task enters a scope of its own, or leaves one.
LEMMA MovesHosts ==
  ASSUME NEW st, NEW n, NEW s \in Scope, NEW t \in Task, Moves(st, n, s, t),
         n.scope[s].host \in {t, NoTask}, st.task[t].place = "started",
         \A u \in Task : st.task[u].place # "started" => Hosted(st.scope, u) = {}
  PROVE  \A u \in Task : n.task[u].place # "started" => Hosted(n.scope, u) = {}
<1> SUFFICES ASSUME NEW u \in Task, n.task[u].place # "started" PROVE Hosted(n.scope, u) = {}
  OBVIOUS
<1>1. u # t /\ Hosted(st.scope, u) = {}
  BY DEF Moves
<1>2. NoTask \notin Task
  BY ScopeAssumption
<1>3. Hosted(n.scope, u) \subseteq Hosted(st.scope, u)
  BY <1>1, <1>2 DEF Moves, Hosted
<1> QED
  BY <1>1, <1>3

LEMMA PlainCovers ==
  ASSUME CInv, UNCHANGED group, NEW t \in Task, InUserCode(t), NEW s \in Plain,
         NEW n, Moves(State, n, s, t), n.scope[s].host \in {t, NoTask}, Becomes(n),
         NEW d \in [Scope -> Nat], Layout(n.task, n.scope, d), CoveredBut(n.scope, NoScope),
         \A x \in Scope \ {s} : n.scope[x].used <=> scope[x].used
  PROVE  Cov' /\ Links'
<1>0. State.task = task /\ State.scope = scope /\ task' = n.task /\ scope' = n.scope
  BY DEF State, Becomes
<1>1. Cov'
  BY <1>0, CovNext DEF SamePlaces
<1>2. task[t].place = "started"
  BY ScopeAssumption DEF CInv, GInv, GroupShaped, InUserCode, Running
<1>3. HostsRun'
  <2>1. s \in Scope /\ \A u \in Task : State.task[u].place # "started" => Hosted(State.scope, u) = {}
    BY <1>0 DEF CInv, Links, HostsRun, Plain
  <2> QED
    BY <1>0, <1>2, <2>1, MovesHosts DEF HostsRun
<1>4. ASSUME NEW g \in Group PROVE GroupLinks(g)'
  <2>1. g \in Scope \ {s} /\ WaitScope[g] \in Scope \ {s} /\ GroupLinks(g)
    BY GroupAssumption DEF CInv, Links, Plain, WaitScopes
  <2>2. /\ scope'[g].host = scope[g].host /\ (scope'[g].used <=> scope[g].used)
        /\ (scope'[WaitScope[g]].used <=> scope[WaitScope[g]].used)
        /\ scope'[WaitScope[g]].parent = scope[WaitScope[g]].parent
    BY <1>0, <2>1 DEF Moves
  <2> QED
    BY <2>1, <2>2 DEF GroupLinks
<1> QED
  BY <1>1, <1>3, <1>4 DEF Links

LEMMA EnterScopeCovers ==
  ASSUME CInv, UNCHANGED group, NEW t \in Task, InUserCode(t), NEW s \in Plain, EnterScope(t, s)
  PROVE  Onward
<1>0. Shaped(State) /\ State.task = task /\ State.scope = scope /\ s \in Scope
  BY DEF CInv, GInv, GroupShaped, State, Plain
<1>1. PICK d \in [Scope -> Nat] : Layout(task, scope, d) /\ CoveredBut(scope, NoScope)
  BY DEF CInv, Cov
<1>2. PICK shield \in BOOLEAN : Becomes(Enter(State, s, t, shield))
  BY DEF EnterScope
<1>3. s \notin Used(scope)
  BY DEF EnterScope, Used
<1> DEFINE n == Enter(State, s, t, shield)
<1>4. Moves(State, n, s, t) /\ n.scope[s].host = t
  BY <1>0, EnterMoves
<1>5. /\ \E e \in [Scope -> Nat] : Layout(n.task, n.scope, e) /\ CoveredBut(n.scope, NoScope)
      /\ StayCancelled(State.scope, n.scope, Used(State.scope))
      /\ Used(n.scope) = Used(State.scope) \union {s}
  BY <1>0, <1>1, <1>3, EnterCovers, SMTT(30)
<1>6. Becomes(n)
  BY <1>2
<1> HIDE DEF n
<1>7. \A x \in Scope \ {s} : n.scope[x].used <=> scope[x].used
  BY <1>0, <1>5 DEF Used
<1>8. Cov' /\ Links'
  BY <1>4, <1>5, <1>6, <1>7, PlainCovers
<1> QED
  BY <1>0, <1>5, <1>6, <1>8 DEF Onward, StayCancelled, Becomes

LEMMA ExitScopeCovers ==
  ASSUME CInv, UNCHANGED group, NEW t \in Task, InUserCode(t), task[t].cur \in Plain, ExitScope(t)
  PROVE  Onward
<1> DEFINE s == task[t].cur
           n == Exit(State, s)
<1>0. Shaped(State) /\ State.task = task /\ State.scope = scope /\ s \in Scope /\ s \in Plain
  BY DEF CInv, GInv, GroupShaped, State, Plain
<1>1. PICK d \in [Scope -> Nat] : Layout(task, scope, d) /\ CoveredBut(scope, NoScope)
  BY DEF CInv, Cov
<1>2. Becomes(n) /\ scope[s].host = t
  BY DEF ExitScope
<1>3. Moves(State, n, s, t)
  BY <1>0, <1>2, ExitMoves
<1>4. s \in Hosted(State.scope, t) /\ State.task[t].cur = s
  BY <1>0, <1>2 DEF Hosted
<1> HIDE DEF s
<1>5. /\ Layout(n.task, n.scope, d) /\ CoveredBut(n.scope, NoScope)
      /\ StayCancelled(State.scope, n.scope, Used(State.scope))
      /\ Used(n.scope) = Used(State.scope) /\ n.scope[s].host = NoTask
  BY <1>0, <1>1, <1>4, ExitCovers
<1> HIDE DEF n
<1>6. \A x \in Scope \ {s} : n.scope[x].used <=> scope[x].used
  BY <1>0, <1>5 DEF Used
<1>7. Cov' /\ Links'
  BY <1>0, <1>2, <1>3, <1>5, <1>6, PlainCovers
<1> QED
  BY <1>0, <1>2, <1>5, <1>7 DEF Onward, StayCancelled, Becomes

\* __aenter__ enters the scope of the group.
LEMMA EnterGroupCovers ==
  ASSUME CInv, NEW t \in Task, NEW g \in Group, EnterGroup(t, g)
  PROVE  Onward /\ \A h \in Group : group'[h].failed = group[h].failed
<1>0. Shaped(State) /\ State.task = task /\ State.scope = scope /\ g \in Scope
  BY GroupAssumption DEF CInv, GInv, GroupShaped, State
<1>1. PICK d \in [Scope -> Nat] : Layout(task, scope, d) /\ CoveredBut(scope, NoScope)
  BY DEF CInv, Cov
<1> PICK shield : shield = FALSE
  OBVIOUS
<1> DEFINE n == Enter(State, g, t, shield)
<1>2. /\ Becomes(n) /\ group[g].phase = "new"
      /\ group' = [group EXCEPT ![g].phase = "open", ![g].active = TRUE]
  BY DEF EnterGroup
<1>14. task[t].place = "started"
  BY ScopeAssumption DEF EnterGroup, InUserCode, Running, CInv, GInv, GroupShaped
<1>3. GroupLinks(g) /\ ~scope[g].used /\ g \notin Used(State.scope)
  BY <1>0, <1>2 DEF CInv, Links, GroupLinks, Used
<1>4. Moves(State, n, g, t) /\ n.scope[g].host = t
  BY <1>0, EnterMoves
<1>5. /\ \E e \in [Scope -> Nat] : Layout(n.task, n.scope, e) /\ CoveredBut(n.scope, NoScope)
      /\ StayCancelled(State.scope, n.scope, Used(State.scope))
      /\ Used(n.scope) = Used(State.scope) \union {g}
  BY <1>0, <1>1, <1>3, EnterCovers
<1>6. task' = n.task /\ scope' = n.scope
  BY <1>2 DEF Becomes
<1> HIDE DEF n
<1>7. Cov'
  BY <1>5, <1>6, CovNext DEF SamePlaces
<1>8. HostsRun'
  <2>1. \A u \in Task : State.task[u].place # "started" => Hosted(State.scope, u) = {}
    BY <1>0 DEF CInv, Links, HostsRun
  <2> QED
    BY <1>0, <1>14, <1>4, <1>6, <2>1, MovesHosts DEF HostsRun
<1>9. /\ \A h \in Group \ {g} : group'[h] = group[h]
      /\ group'[g].phase = "open" /\ group'[g].tasks = group[g].tasks
      /\ group'[g].failed = group[g].failed
  BY <1>2 DEF CInv, GInv, GroupShaped, Closed
<1>10. ASSUME NEW h \in Group PROVE GroupLinks(h)'
  <2>1. h \in Scope /\ WaitScope[h] \in Scope \ {g} /\ GroupLinks(h)
    BY GroupAssumption DEF CInv, Links
  <2>2. /\ (scope'[WaitScope[h]].used <=> scope[WaitScope[h]].used)
        /\ scope'[WaitScope[h]].parent = scope[WaitScope[h]].parent
        /\ h # g => (scope'[h].used <=> scope[h].used) /\ scope'[h].host = scope[h].host
    BY <1>0, <1>4, <1>5, <1>6, <2>1 DEF Moves, Used
  <2>3. CASE h = g
    <3>1. scope'[g].used
      BY <1>0, <1>5, <1>6 DEF Used
    <3> QED
      BY <1>2, <1>3, <1>9, <2>2, <2>3, <3>1 DEF GroupLinks
  <2>4. CASE h # g
    BY <1>9, <2>1, <2>2, <2>4 DEF GroupLinks
  <2> QED
    BY <2>3, <2>4
<1> QED
  BY <1>0, <1>5, <1>6, <1>7, <1>8, <1>9, <1>10 DEF Onward, StayCancelled, Links

\* A task is spawned into the scope of the group.
LEMMA StartSoonCovers ==
  ASSUME CInv, NEW t \in Task, NEW g \in Group, NEW c \in Task, StartSoon(t, g, c)
  PROVE  Onward /\ \A h \in Group : group'[h].failed = group[h].failed
<1>1. PICK d \in [Scope -> Nat] : Layout(task, scope, d) /\ CoveredBut(scope, NoScope)
  BY DEF CInv, Cov
<1>2. /\ task' = [task EXCEPT ![c].cur = g] /\ task[c].place = "new" /\ group[g].active
      /\ group' = [group EXCEPT ![g].tasks = @ \union {c}]
      /\ scope' = scope
  BY DEF StartSoon
<1>3. /\ \A u \in Task : task'[u].place = task[u].place
      /\ \A u \in Task \ {c} : task'[u].cur = task[u].cur
      /\ task'[c].cur = g
      /\ \A h \in Group : group'[h].phase = group[h].phase /\ group'[h].failed = group[h].failed
      /\ \A h \in Group \ {g} : group'[h] = group[h]
      /\ group'[g].tasks = group[g].tasks \union {c}
  BY <1>2 DEF CInv, GInv, GroupShaped, Shaped, State, NewTask, Closed
<1>4. /\ g \in Scope /\ scope[g].used /\ group[g].phase # "new" /\ Hosted(scope, c) = {}
      /\ scope[g].host # c
  <2>1. g \in Scope /\ scope[g].used /\ group[g].phase # "new" /\ Hosted(scope, c) = {}
    BY <1>2, GroupAssumption DEF CInv, Links, GroupLinks, HostsRun
  <2> QED
    BY <2>1 DEF Hosted
<1>5. Layout(task', scope, d)
  BY <1>1, <1>3, <1>4 DEF Layout, OnStack, Used
<1>6. Cov'
  BY <1>1, <1>2, <1>5, CovNext DEF SamePlaces
<1>7. HostsRun'
  BY <1>2, <1>3 DEF HostsRun, CInv, Links
<1>8. ASSUME NEW h \in Group PROVE GroupLinks(h)'
  <2>1. GroupLinks(h)
    BY DEF CInv, Links
  <2>2. CASE h = g
    BY <1>2, <1>3, <1>4, <2>1, <2>2 DEF GroupLinks
  <2>3. CASE h # g
    BY <1>2, <1>3, <2>1, <2>3 DEF GroupLinks
  <2> QED
    BY <2>2, <2>3
<1> QED
  BY <1>2, <1>3, <1>6, <1>7, <1>8 DEF Onward, StayCancelled, Links

\* The callbacks of a child: an error that is recorded has cancelled the group.
LEMMA TaskDoneCovers ==
  ASSUME CInv, NEW c \in Task, NEW g \in Group, TaskDone(c, g)
  PROVE  /\ Onward /\ \A h \in Group \ {g} : group'[h].failed = group[h].failed
         /\ group'[g].failed => group[g].failed \/ Nearest(scope', g) # NoScope
<1> DEFINE exc == task[c].exc
           left == group[g].awaited \ {c}
           host == scope[g].host
           lastOne == c \in group[g].awaited
           seen == group[g].phase # "closed" /\ exc = "error"
           m == [State EXCEPT !.task[c] = Gone]
           n == ChildEnded(m, g, exc)
<1>0. Shaped(State) /\ State.task = task /\ State.scope = scope /\ g \in Scope
  BY GroupAssumption DEF CInv, GInv, GroupShaped, State
<1>1. PICK d \in [Scope -> Nat] : Layout(task, scope, d) /\ CoveredBut(scope, NoScope)
  BY DEF CInv, Cov
<1>2. /\ scope' = n.scope /\ c \in group[g].tasks /\ task[c].place = "done"
      /\ task' = IF lastOne THEN [n.task EXCEPT ![host] = Completed(left, @)] ELSE n.task
      /\ group' = [group EXCEPT
                    ![g].tasks = group[g].tasks \ {c}, ![g].awaited = left,
                    ![g].failed = group[g].failed \/ seen, ![g].lost = group[g].lost \/ seen]
  BY DEF TaskDone, ChildFailed
<1>3. /\ Shaped(m) /\ m.scope = scope /\ \A u \in Task \ {c} : m.task[u] = task[u]
      /\ m.task[c].cur = NoScope /\ m.task[c].place = "done"
  BY <1>0 DEF Shaped, State, Gone, NewTask
<1>4. Hosted(scope, c) = {}
  BY <1>2 DEF CInv, Links, HostsRun
<1> HIDE DEF m
<1>5. Layout(m.task, m.scope, d) /\ CoveredBut(m.scope, NoScope)
  BY <1>1, <1>3, <1>4 DEF Layout, OnStack
<1>6. /\ Keeps(m, n) /\ Layout(n.task, n.scope, d) /\ CoveredBut(n.scope, NoScope)
      /\ StayCancelled(m.scope, n.scope, Used(m.scope)) /\ Used(n.scope) = Used(m.scope)
      /\ exc # "none" => Nearest(n.scope, g) # NoScope
  <2> DEFINE k == Cancel(m, g, NoTask)
  <2>1. CASE exc # "none" /\ Nearest(m.scope, g) = NoScope
    <3>1. n = k
      BY <2>1 DEF ChildEnded, EffectivelyCancelled
    <3>2. /\ Delivered(m, k, d, Used(m.scope)) /\ Nearest(k.scope, g) # NoScope
          /\ Used(k.scope) = Used(m.scope)
      BY <1>0, <1>3, <1>5, <2>1, CancelCovers
    <3> HIDE DEF k, n
    <3> QED
      BY <3>1, <3>2 DEF Delivered
  <2>2. CASE ~(exc # "none" /\ Nearest(m.scope, g) = NoScope)
    <3>1. n = m
      BY <2>2 DEF ChildEnded, EffectivelyCancelled
    <3>2. Keeps(m, m)
      BY <1>3 DEF Keeps
    <3> HIDE DEF n
    <3> QED
      BY <1>5, <2>2, <3>1, <3>2 DEF StayCancelled
  <2> QED
    BY <2>1, <2>2
<1> HIDE DEF n
<1>7. \A u \in Task : task'[u].cur = n.task[u].cur /\ task'[u].place = n.task[u].place
  <2>1. DOMAIN n.task = Task /\ \A u \in Task : DOMAIN n.task[u] = DOMAIN NewTask
    BY <1>6 DEF Keeps, Shaped
  <2>2. Completed(left, n.task[host])
          \in {n.task[host], [n.task[host] EXCEPT !.fut = "result"]}
    BY DEF Completed
  <2> HIDE DEF left, host, lastOne
  <2>3. \A u \in Task : task'[u] \in {n.task[u], [n.task[u] EXCEPT !.fut = "result"]}
    BY <1>2, <2>1, <2>2
  <2> QED
    BY <2>1, <2>3 DEF NewTask
<1>8. Cov'
  BY <1>2, <1>6, <1>7, CovNext DEF SamePlaces
<1>9. /\ \A x \in Scope : /\ scope'[x].host = scope[x].host /\ scope'[x].parent = scope[x].parent
                          /\ scope'[x].used <=> scope[x].used
      /\ \A u \in Task : task'[u].place = task[u].place
  BY <1>2, <1>3, <1>6, <1>7, ZenonT(40) DEF Keeps, Used
<1>10. \A u \in Task : Hosted(scope', u) = Hosted(scope, u)
  BY <1>9 DEF Hosted
<1>11. HostsRun'
  BY <1>9, <1>10 DEF CInv, Links, HostsRun
<1>12. /\ \A h \in Group \ {g} : group'[h] = group[h]
       /\ group'[g].phase = group[g].phase /\ group'[g].active = group[g].active
       /\ group'[g].tasks = group[g].tasks \ {c}
       /\ group'[g].failed = (group[g].failed \/ seen)
  <2> HIDE DEF seen, left
  <2> QED
    BY <1>2 DEF CInv, GInv, GroupShaped, Closed
<1>13. ASSUME NEW h \in Group PROVE GroupLinks(h)'
  <2>1. h \in Scope /\ WaitScope[h] \in Scope /\ GroupLinks(h)
    BY GroupAssumption DEF CInv, Links
  <2>2. CASE h = g
    <3>1. c \in group[g].tasks
      BY <1>2
    <3>2. group[g].phase # "new"
      BY <2>1, <2>2, <3>1 DEF GroupLinks
    <3> QED
      BY <1>9, <1>12, <2>1, <2>2, <3>2 DEF GroupLinks
  <2>3. CASE h # g
    BY <1>9, <1>12, <2>1, <2>3 DEF GroupLinks
  <2> QED
    BY <2>2, <2>3
<1> QED
  BY <1>2, <1>3, <1>6, <1>8, <1>11, <1>12, <1>13 DEF Onward, StayCancelled, Links

\* __aexit__ up to the first suspension: an error that is recorded has cancelled the group.
LEMMA ExitGroupCovers ==
  ASSUME CInv, NEW t \in Task, NEW g \in Group, ExitGroup(t, g)
  PROVE  /\ Onward /\ \A h \in Group \ {g} : group'[h].failed = group[h].failed
         /\ group'[g].failed => group[g].failed \/ Nearest(scope', g) # NoScope
<1> DEFINE exc == task[t].exc
           idle == group[g].tasks = {}
           W == WaitScope[g]
           n == IF exc # "none" THEN Cancel(State, g, t) ELSE State
           e == Enter(n, W, t, idle)
<1>0. /\ Shaped(State) /\ State.task = task /\ State.scope = scope /\ g \in Scope
      /\ W \in Scope \ {g} /\ NoTask \notin Task /\ NoScope \notin Scope
  BY GroupAssumption, ScopeAssumption DEF CInv, GInv, GroupShaped, State
<1>1. PICK d \in [Scope -> Nat] : Layout(task, scope, d) /\ CoveredBut(scope, NoScope)
  BY DEF CInv, Cov
<1>2. /\ InUserCode(t) /\ task[t].cur = g /\ scope[g].host = t
      /\ scope' = e.scope
      /\ task' = [e.task EXCEPT ![t].fut = IF idle THEN "none" ELSE "pending", ![t].exc = "none"]
  BY DEF ExitGroup, Await
<1>3. task[t].place = "started" /\ g \notin WaitScopes
  BY <1>0, <1>2, GroupAssumption, SMTT(30) DEF InUserCode, Running, CInv, GInv, GroupShaped, WaitScopes
<1>4. scope[g].active /\ scope[g].used
  BY <1>0, <1>1, <1>2 DEF Layout, OnStack, Ordered, Hosted
<1>5. group[g].phase = "open" /\ ~scope[W].used
  <2>1. GroupLinks(g) /\ HostWaits(g)
    BY SMTT(30) DEF CInv, GInv, Links
  <2>2. group[g].phase \notin {"wait", "checkpoint"}
    BY <1>2, <2>1 DEF HostWaits, InUserCode, WaitScopes
  <2> QED
    BY <1>0, <1>2, <1>4, <2>1, <2>2 DEF GroupLinks
<1>6. /\ Keeps(State, n) /\ Layout(n.task, n.scope, d) /\ CoveredBut(n.scope, NoScope)
      /\ StayCancelled(scope, n.scope, Used(scope)) /\ Used(n.scope) = Used(scope)
      /\ exc # "none" => Nearest(n.scope, g) # NoScope
  <2> DEFINE k == Cancel(State, g, t)
  <2>1. CASE exc # "none"
    <3>1. n = k
      BY <2>1
    <3>2. /\ Delivered(State, k, d, Used(State.scope)) /\ Nearest(k.scope, g) # NoScope
          /\ Used(k.scope) = Used(State.scope)
      BY <1>0, <1>1, <1>4, CancelCovers
    <3> HIDE DEF k, n
    <3> QED
      BY <1>0, <3>1, <3>2 DEF Delivered
  <2>2. CASE exc = "none"
    <3>1. n = State
      BY <2>2
    <3>2. Keeps(State, State)
      BY <1>0 DEF Keeps
    <3> HIDE DEF n
    <3> QED
      BY <1>0, <1>1, <2>2, <3>1, <3>2 DEF StayCancelled
  <2> QED
    BY <2>1, <2>2
<1> HIDE DEF n
<1>7. Shaped(n) /\ W \notin Used(n.scope) /\ n.task[t].cur = g /\ n.task[t].place = "started"
  BY <1>0, <1>2, <1>3, <1>5, <1>6 DEF Keeps, Used
<1> PICK shield : shield = idle
  OBVIOUS
<1> DEFINE f == Enter(n, W, t, shield)
<1>8. f = e
  OBVIOUS
<1> HIDE DEF e, W, idle
<1>9. Moves(n, f, W, t) /\ f.scope[W].host = t /\ f.task[t].cur = W
  BY <1>0, <1>7, EnterMoves
<1>10. /\ \E b \in [Scope -> Nat] : Layout(f.task, f.scope, b) /\ CoveredBut(f.scope, NoScope)
       /\ StayCancelled(n.scope, f.scope, Used(n.scope))
       /\ Used(f.scope) = Used(n.scope) \union {W}
       /\ f.scope[W].parent = n.task[t].cur
  <2>1. /\ W \in Scope /\ Shaped(n) /\ W \notin Used(n.scope)
        /\ Layout(n.task, n.scope, d) /\ CoveredBut(n.scope, NoScope)
    BY <1>0, <1>6, <1>7
  <2> QED
    BY <2>1, EnterCovers
<1> HIDE DEF f
<1>11. \A u \in Task : task'[u].cur = f.task[u].cur /\ task'[u].place = f.task[u].place
  <2>1. DOMAIN f.task = Task /\ \A u \in Task : DOMAIN f.task[u] = DOMAIN NewTask
    BY <1>9 DEF Moves, Shaped
  <2> QED
    BY <1>2, <1>8, <2>1 DEF NewTask
<1>12. Cov'
  BY <1>2, <1>8, <1>10, <1>11, CovNext DEF SamePlaces
<1>13. HostsRun'
  <2>1. \A u \in Task : n.task[u].place # "started" => Hosted(n.scope, u) = {}
    BY <1>0, <1>6 DEF CInv, Links, HostsRun, Keeps, Hosted
  <2>2. \A u \in Task : f.task[u].place # "started" => Hosted(f.scope, u) = {}
    BY <1>0, <1>7, <1>9, <2>1, MovesHosts
  <2> QED
    BY <1>2, <1>8, <1>11, <2>2 DEF HostsRun
<1> DEFINE phase == IF idle THEN "checkpoint" ELSE "wait"
           error == exc = "error"
<1>14. /\ \A h \in Group \ {g} : group'[h] = group[h]
       /\ group'[g].tasks = group[g].tasks /\ group'[g].phase = phase
       /\ group'[g].failed = (group[g].failed \/ error)
  <2>1. group' = [group EXCEPT ![g].phase = phase, ![g].awaited = group[g].tasks,
                    ![g].block = exc, ![g].excval = exc, ![g].failed = group[g].failed \/ error,
                    ![g].lost = group[g].lost \/ error]
    BY DEF ExitGroup, idle
  <2> HIDE DEF error, phase, exc
  <2> QED
    BY <2>1 DEF CInv, GInv, GroupShaped, Closed
<1>15. phase \in {"wait", "checkpoint"}
  OBVIOUS
<1> HIDE DEF phase
<1>16. \A x \in Scope \ {W} : /\ scope'[x].host = scope[x].host /\ scope'[x].parent = scope[x].parent
                              /\ scope'[x].used <=> scope[x].used
  BY <1>0, <1>2, <1>6, <1>8, <1>9, <1>10 DEF Keeps, Moves, Used
<1>17. ASSUME NEW h \in Group PROVE GroupLinks(h)'
  <2>1. h \in Scope \ {W} /\ GroupLinks(h) /\ (h # g => WaitScope[h] \in Scope \ {W})
    BY GroupAssumption DEF CInv, Links, W
  <2>2. CASE h = g
    <3>1. scope'[W].parent = g
      BY <1>2, <1>7, <1>8, <1>10
    <3> QED
      BY <1>4, <1>14, <1>15, <1>16, <2>1, <2>2, <3>1 DEF GroupLinks, W
  <2>3. CASE h # g
    BY <1>14, <1>16, <2>1, <2>3 DEF GroupLinks
  <2> QED
    BY <2>2, <2>3
<1>18. StayCancelled(scope, scope', Used(scope))
  BY <1>2, <1>6, <1>8, <1>10 DEF StayCancelled
<1>19. exc # "none" => Nearest(scope', g) # NoScope
  BY <1>0, <1>2, <1>4, <1>6, <1>8, <1>10 DEF StayCancelled, Used
<1> QED
  BY <1>12, <1>13, <1>14, <1>17, <1>18, <1>19 DEF Onward, StayCancelled, Links

\* The last part of __aexit__ leaves both scopes of the group.
LEMMA LeaveCovers ==
  ASSUME CInv, NEW t \in Task, NEW g \in Group, task[t].cur = WaitScope[g],
         group[g].phase \in {"wait", "checkpoint"}, task[t].place = "started",
         NEW st, NEW exc, Keeps(State, st), Leave(st, t, g, exc), Used(st.scope) = Used(scope),
         NEW d \in [Scope -> Nat], Layout(st.task, st.scope, d), CoveredBut(st.scope, NoScope),
         StayCancelled(scope, st.scope, Used(scope) \ WaitScopes),
         NEW closed, closed.phase = "closed", closed.failed = FALSE,
         closed.tasks \subseteq group[g].tasks, group' = [group EXCEPT ![g] = closed]
  PROVE  /\ Onward /\ \A h \in Group \ {g} : group'[h].failed = group[h].failed
         /\ ~group'[g].failed
<1> DEFINE W == WaitScope[g]
           a == Exit(st, W)
           b == [a EXCEPT !.task[t].exc = exc]
           n == Exit(b, g)
           out == Thrown(group[g].block, n.task[t].exc)
<1>0. /\ W \in Scope \ {g} /\ g \in Scope /\ NoTask \notin Task /\ Shaped(st)
      /\ State.task = task /\ State.scope = scope
  BY GroupAssumption, ScopeAssumption DEF Keeps, State
<1>1. scope[g].host = t /\ scope[W].host = t /\ scope[W].parent = g /\ scope[g].used
  BY DEF CInv, GInv, Placed, HostWaits, Links, GroupLinks
<1>2. /\ st.task[t].cur = W /\ W \in Hosted(st.scope, t) /\ st.scope[W].host = t
      /\ st.scope[g].host = t /\ st.scope[W].parent = g
  BY <1>0, <1>1 DEF Keeps, Hosted
<1>3. task' = [n.task EXCEPT ![t].exc = out] /\ scope' = n.scope
  BY DEF Leave, Becomes
<1> HIDE DEF W
<1>4. Moves(st, a, W, t) /\ a.scope[W].parent = g
  BY <1>0, <1>2, ExitMoves
<1>5. /\ Layout(a.task, a.scope, d) /\ CoveredBut(a.scope, NoScope)
      /\ StayCancelled(st.scope, a.scope, Used(st.scope))
      /\ Used(a.scope) = Used(st.scope)
      /\ a.scope[W].host = NoTask /\ a.task[t].cur = st.scope[W].parent
  BY <1>0, <1>2, ExitCovers
<1> HIDE DEF a
<1>6. /\ Shaped(b) /\ b.scope = a.scope
      /\ \A u \in Task : b.task[u].cur = a.task[u].cur /\ b.task[u].place = a.task[u].place
  BY <1>4 DEF Moves, Shaped, NewTask
<1> HIDE DEF b
<1>7. Layout(b.task, b.scope, d) /\ CoveredBut(b.scope, NoScope)
  <2>1. /\ SameLayout(a.scope, a.scope) /\ SamePlaces(a.task, b.task)
        /\ \A x \in Scope : a.scope[x].handle => a.scope[x].called
    BY <1>5, <1>6 DEF SameLayout, SamePlaces, Layout, Ordered
  <2> QED
    BY <1>5, <1>6, <2>1, LayoutStays
<1>8. b.scope[g].host = t /\ g \in Hosted(b.scope, t) /\ b.task[t].cur = g
  BY <1>0, <1>2, <1>4, <1>5, <1>6 DEF Moves, Hosted
<1>9. Moves(b, n, g, t) /\ n.scope[g].parent = b.scope[g].parent
  BY <1>0, <1>6, <1>8, ExitMoves
<1>10. /\ Layout(n.task, n.scope, d) /\ CoveredBut(n.scope, NoScope)
       /\ StayCancelled(b.scope, n.scope, Used(b.scope))
       /\ Used(n.scope) = Used(b.scope) /\ n.scope[g].host = NoTask
  BY <1>6, <1>7, <1>8, ExitCovers
<1> HIDE DEF n, out
<1>11. /\ scope' = n.scope
       /\ \A u \in Task : task'[u].cur = n.task[u].cur /\ task'[u].place = n.task[u].place
  BY <1>3, <1>9 DEF Moves, Shaped, NewTask
<1>12. Cov'
  BY <1>10, <1>11, CovNext DEF SamePlaces
<1>13. HostsRun'
  <2>1. \A u \in Task : st.task[u].place # "started" => Hosted(st.scope, u) = {}
    BY <1>0 DEF CInv, Links, HostsRun, Keeps, Hosted
  <2>2. st.task[t].place = "started" /\ a.task[t].place = "started" /\ b.task[t].place = "started"
    BY <1>0, <1>4, <1>6 DEF Keeps, Moves
  <2>3. \A u \in Task : a.task[u].place # "started" => Hosted(a.scope, u) = {}
    BY <1>0, <1>4, <1>5, <2>1, <2>2, MovesHosts
  <2>4. \A u \in Task : b.task[u].place # "started" => Hosted(b.scope, u) = {}
    BY <1>6, <2>3
  <2>5. \A u \in Task : n.task[u].place # "started" => Hosted(n.scope, u) = {}
    BY <1>0, <1>9, <1>10, <2>2, <2>4, MovesHosts
  <2> QED
    BY <1>11, <2>5 DEF HostsRun
<1>14. /\ \A x \in Scope \ {W, g} : scope'[x].host = scope[x].host
       /\ \A x \in Scope : scope'[x].parent = scope[x].parent /\ (scope'[x].used <=> scope[x].used)
       /\ scope'[g].host = NoTask
  BY <1>0, <1>1, <1>4, <1>5, <1>6, <1>9, <1>10, <1>11 DEF Keeps, Moves, Used
<1>15. /\ \A h \in Group \ {g} : group'[h] = group[h]
       /\ group'[g] = closed
  BY DEF CInv, GInv, GroupShaped
<1>16. ASSUME NEW h \in Group PROVE GroupLinks(h)'
  <2>1. h \in Scope \ {W} /\ GroupLinks(h) /\ WaitScope[h] \in Scope
    BY GroupAssumption DEF CInv, Links, W
  <2>2. CASE h = g
    <3>1. \A c \in group'[g].tasks : c \in group[g].tasks /\ scope[g].host # c
      BY <1>15, <2>1, <2>2 DEF GroupLinks
    <3>2. \A c \in group'[g].tasks : c \in Task /\ c # NoTask
      BY <1>0, <2>1, <2>2, <3>1 DEF GroupLinks
    <3> QED
      BY <1>1, <1>14, <1>15, <2>1, <2>2, <3>2 DEF GroupLinks
  <2>3. CASE h # g
    BY <1>14, <1>15, <2>1, <2>3 DEF GroupLinks
  <2> QED
    BY <2>2, <2>3
<1>17. StayCancelled(scope, scope', Used(scope) \ WaitScopes)
  BY <1>5, <1>6, <1>10, <1>11 DEF StayCancelled
<1> QED
  BY <1>12, <1>13, <1>15, <1>16, <1>17 DEF Onward, Links

\* A cancellation that interrupts the wait shields it, which nothing looks through, and
\* cancels the group.
LEMMA InterruptionCovers ==
  ASSUME CInv, NEW t \in Task, NEW g \in Group, task[t].cur = WaitScope[g],
         group[g].phase = "wait",
         NEW d \in [Scope -> Nat], Layout(task, scope, d), CoveredBut(scope, NoScope)
  PROVE  LET n == Interruption(t, g) IN
         /\ Keeps(State, n) /\ Used(n.scope) = Used(scope)
         /\ Layout(n.task, n.scope, d) /\ CoveredBut(n.scope, NoScope)
         /\ StayCancelled(scope, n.scope, Used(scope) \ WaitScopes)
<1> DEFINE W == WaitScope[g]
           m == [State EXCEPT !.scope[W].shield = TRUE]
           k == Cancel(m, g, t)
<1>0. /\ Shaped(State) /\ State.task = task /\ State.scope = scope /\ g \in Scope
      /\ W \in Scope \ {g} /\ W \in WaitScopes /\ NoTask \notin Task
  BY GroupAssumption, ScopeAssumption DEF CInv, GInv, GroupShaped, State, WaitScopes
<1>1. Keeps(State, State) /\ StayCancelled(scope, scope, Used(scope) \ WaitScopes)
  BY <1>0 DEF Keeps, StayCancelled
<1>2. scope[g].host = t /\ scope[W].host = t
  BY DEF CInv, GInv, Placed, HostWaits
<1>3. scope[g].active /\ scope[W].active
  BY <1>0, <1>2 DEF Layout, OnStack, Hosted
<1>4. m.task = task /\ m.scope = [scope EXCEPT ![W].shield = TRUE] /\ DOMAIN m = {"task", "scope"}
  BY DEF State
<1> HIDE DEF W, m
<1>5. /\ \A x \in Scope \ {W} : m.scope[x] = scope[x]
      /\ m.scope[W] = [scope[W] EXCEPT !.shield = TRUE] /\ DOMAIN m.scope = Scope
      /\ DOMAIN scope[W] = DOMAIN NewScope
  BY <1>0, <1>4 DEF Shaped
<1>6. /\ m.scope[W].parent = scope[W].parent /\ m.scope[W].host = scope[W].host
      /\ m.scope[W].active = scope[W].active /\ m.scope[W].used = scope[W].used
      /\ m.scope[W].handle = scope[W].handle /\ m.scope[W].called = scope[W].called
      /\ m.scope[W].shield /\ DOMAIN m.scope[W] = DOMAIN NewScope
  BY <1>5 DEF NewScope
<1>7. Shaped(m) /\ Changed(scope, m.scope, W)
  BY <1>0, <1>4, <1>5, <1>6 DEF Shaped, Changed
<1>8. Keeps(State, m)
  BY <1>0, <1>4, <1>5, <1>6, <1>7 DEF Keeps
<1>9. Layout(task, m.scope, d) /\ CoveredBut(m.scope, NoScope)
  BY <1>0, <1>3, <1>6, <1>7, RaisedCovers
<1>10. Used(m.scope) = Used(scope) /\ Upward(m.scope) /\ SameLinks(scope, m.scope, Used(scope) \ {W})
  BY <1>0, <1>7, ChangedLayout
<1>11. StayCancelled(scope, m.scope, Used(scope) \ WaitScopes)
  <2>1. Closed1(scope, Used(scope) \ {W}) /\ Ordered(scope, d)
    BY <1>0 DEF Closed1, Layout, Ordered, Used, CInv, GInv, Placed
  <2>2. \A x \in (Used(scope) \ {W}) \union {NoScope} : Nearest(m.scope, x) = Nearest(scope, x)
    BY <1>10, <2>1, SameWalk
  <2> QED
    BY <1>0, <2>2 DEF StayCancelled
<1>12. /\ Delivered(m, k, d, Used(m.scope)) /\ Used(k.scope) = Used(m.scope)
  <2>1. Shaped(m) /\ Layout(m.task, m.scope, d) /\ CoveredBut(m.scope, NoScope) /\ m.scope[g].active
    BY <1>0, <1>3, <1>4, <1>5, <1>7, <1>9
  <2> QED
    BY <1>0, <2>1, CancelCovers
<1>13. CASE task[t].exc = "none"
  BY <1>0, <1>1, <1>13 DEF Interruption
<1>14. CASE task[t].exc # "none"
  <2>1. Interruption(t, g) = k
    BY <1>14 DEF Interruption, m, W
  <2> HIDE DEF k
  <2>2. Keeps(State, k)
    BY <1>8, <1>12, KeepsTwice DEF Delivered
  <2>3. StayCancelled(scope, k.scope, Used(scope) \ WaitScopes)
    BY <1>10, <1>11, <1>12 DEF Delivered, StayCancelled
  <2> QED
    BY <1>10, <1>12, <2>1, <2>2, <2>3 DEF Delivered
<1> QED
  BY <1>13, <1>14

\* The host is stepped while it waits.
LEMMA WaitSteppedCovers ==
  ASSUME CInv, NEW t \in Task, NEW g \in Group, WaitStepped(t, g)
  PROVE  Onward /\ \A h \in Group : group'[h].failed => group[h].failed
<1> DEFINE exc == task[t].exc
           old == group[g].excval
           excval == IF exc # "none" /\ (old = "none" \/ (IsCancelled(old) /\ exc = "native"))
                     THEN exc ELSE old
           n == Interruption(t, g)
           last == IF group[g].failed THEN "error" ELSE Raised(t, g, excval)
           closed == Closed(FALSE, group[g].tasks)
<1>0. task[t].cur = WaitScope[g] /\ group[g].phase = "wait" /\ task[t].place = "started"
  BY ScopeAssumption DEF WaitStepped, Running, CInv, GInv, GroupShaped
<1>1. PICK d \in [Scope -> Nat] : Layout(task, scope, d) /\ CoveredBut(scope, NoScope)
  BY DEF CInv, Cov
<1>2. /\ Keeps(State, n) /\ Used(n.scope) = Used(scope)
      /\ Layout(n.task, n.scope, d) /\ CoveredBut(n.scope, NoScope)
      /\ StayCancelled(scope, n.scope, Used(scope) \ WaitScopes)
  BY <1>0, <1>1, InterruptionCovers
<1>3. CASE Leave(n, t, g, last) /\ group' = [group EXCEPT ![g] = closed]
  <2>1. /\ closed.phase = "closed" /\ closed.failed = FALSE
        /\ closed.tasks \subseteq group[g].tasks
    BY DEF Closed
  <2> HIDE DEF n, last, closed
  <2> QED
    BY <1>0, <1>2, <1>3, <2>1, LeaveCovers
<1>4. CASE /\ Await(n, t, "pending")
           /\ group' = [group EXCEPT ![g].awaited = group[g].tasks, ![g].excval = excval]
  <2> HIDE DEF n, excval
  <2>1. task' = [n.task EXCEPT ![t].fut = "pending", ![t].exc = "none"] /\ scope' = n.scope
    BY <1>4 DEF Await
  <2>2. \A u \in Task : task'[u].cur = n.task[u].cur /\ task'[u].place = n.task[u].place
    BY <1>2, <2>1 DEF Keeps, Shaped, NewTask
  <2>3. Cov'
    BY <1>2, <2>1, <2>2, CovNext DEF SamePlaces
  <2>4. /\ \A x \in Scope : /\ scope'[x].host = scope[x].host /\ scope'[x].parent = scope[x].parent
                            /\ scope'[x].used <=> scope[x].used
        /\ \A u \in Task : task'[u].place = task[u].place
    BY <1>2, <2>1, <2>2 DEF Keeps, State, Used
  <2>5. \A u \in Task : Hosted(scope', u) = Hosted(scope, u)
    BY <2>4 DEF Hosted
  <2>6. HostsRun'
    BY <2>4, <2>5 DEF CInv, Links, HostsRun
  <2>7. \A h \in Group : /\ group'[h].phase = group[h].phase /\ group'[h].active = group[h].active
                         /\ group'[h].tasks = group[h].tasks /\ group'[h].failed = group[h].failed
    BY <1>4 DEF CInv, GInv, GroupShaped, Closed
  <2>8. ASSUME NEW h \in Group PROVE GroupLinks(h)'
    <3>1. h \in Scope /\ WaitScope[h] \in Scope /\ GroupLinks(h)
      BY GroupAssumption DEF CInv, Links
    <3> QED
      BY <2>4, <2>7, <3>1 DEF GroupLinks
  <2> QED
    BY <1>2, <2>1, <2>3, <2>6, <2>7, <2>8 DEF Onward, Links, StayCancelled
<1>5. ASSUME Onward, \A h \in Group \ {g} : group'[h].failed = group[h].failed, ~group'[g].failed
      PROVE  Onward /\ \A h \in Group : group'[h].failed => group[h].failed
  BY <1>5
<1> HIDE DEF n, last, closed, excval
<1>6. \/ Leave(n, t, g, last) /\ group' = [group EXCEPT ![g] = closed]
      \/ /\ Await(n, t, "pending")
         /\ group' = [group EXCEPT ![g].awaited = group[g].tasks, ![g].excval = excval]
  BY DEF WaitStepped, n, last, closed, excval
<1> QED
  BY <1>3, <1>4, <1>6

\* The host is stepped in its checkpoint.
LEMMA CheckpointSteppedCovers ==
  ASSUME CInv, NEW t \in Task, NEW g \in Group, CheckpointStepped(t, g)
  PROVE  Onward /\ \A h \in Group : group'[h].failed => group[h].failed
<1> DEFINE exc == task[t].exc
           last == IF group[g].failed THEN "error" ELSE group[g].excval
           final == IF exc = "none" THEN last ELSE exc
           closed == Closed(exc # "none", group[g].tasks)
<1>0. /\ task[t].cur = WaitScope[g] /\ group[g].phase = "checkpoint" /\ task[t].place = "started"
      /\ Leave(State, t, g, final) /\ group' = [group EXCEPT ![g] = closed]
  BY ScopeAssumption DEF CheckpointStepped, Running, CInv, GInv, GroupShaped
<1>1. PICK d \in [Scope -> Nat] : Layout(task, scope, d) /\ CoveredBut(scope, NoScope)
  BY DEF CInv, Cov
<1>2. /\ closed.phase = "closed" /\ closed.failed = FALSE
      /\ closed.tasks \subseteq group[g].tasks
  BY DEF Closed
<1>3. /\ Keeps(State, State) /\ State.task = task /\ State.scope = scope
      /\ StayCancelled(scope, scope, Used(scope) \ WaitScopes)
  BY DEF CInv, GInv, GroupShaped, Keeps, State, StayCancelled
<1> HIDE DEF final, closed
<1>4. /\ Onward /\ \A h \in Group \ {g} : group'[h].failed = group[h].failed
      /\ ~group'[g].failed
  BY <1>0, <1>1, <1>2, <1>3, LeaveCovers
<1> QED
  BY <1>4

\* An error goes on record only in a step that leaves the group in a cancelled scope.
Recorded ==
  \A g \in Group : group'[g].failed => group[g].failed \/ Nearest(scope', g) # NoScope

ShieldRaised ==
  /\ Cov' /\ Links' /\ group' = group
  /\ \E s \in Plain : scope[s].active /\ ~scope[s].shield /\ scope'[s].shield

LEMMA StepCovers ==
  ASSUME CInv, [GroupNext]_groupVars
  PROVE  (Onward /\ Recorded) \/ ShieldRaised
<1>1. ASSUME Onward, UNCHANGED group PROVE Onward /\ Recorded
  BY <1>1 DEF Recorded
<1>2. CASE UNCHANGED groupVars
  <2>1. UNCHANGED <<task, scope, group>>
    BY <1>2 DEF groupVars, vars
  <2>2. SamePlaces(task, task') /\ \A t \in Task : task'[t].place # "started" => Hosted(scope, t) = {}
    BY <2>1 DEF SamePlaces, CInv, Links, HostsRun
  <2> QED
    BY <1>1, <2>1, <2>2, TaskCovers
<1>3. ASSUME NEW t \in Task, UNCHANGED group,
             \/ Step(t) \/ Wake(t) \/ NativeCancel(t) \/ StartChild(t) \/ FinishChild(t)
             \/ InUserCode(t) /\ (Suspend(t) \/ RaiseError(t) \/ Finish(t))
      PROVE  Onward /\ Recorded
  BY <1>1, <1>3, OwnStepCovers
<1>4. ASSUME NEW t \in Task, UNCHANGED group, InUserCode(t), task[t].cur \in Plain, ExitScope(t)
      PROVE  Onward /\ Recorded
  BY <1>1, <1>4, ExitScopeCovers
<1>5. ASSUME NEW t \in Task, UNCHANGED group, NEW s \in Plain, InUserCode(t), EnterScope(t, s)
      PROVE  Onward /\ Recorded
  BY <1>1, <1>5, EnterScopeCovers
<1>6. ASSUME UNCHANGED group, NEW s \in Scope, CancelScope(s) \/ Redeliver(s)
      PROVE  Onward /\ Recorded
  BY <1>1, <1>6, CallCovers
<1>7. ASSUME UNCHANGED group, NEW s \in Plain, ChangeShield(s)
      PROVE  (Onward /\ Recorded) \/ ShieldRaised
  <2>1. s \in Scope /\ scope[s].active
    BY <1>7 DEF Plain, ChangeShield
  <2>2. /\ Cov' /\ Links'
        /\ ~(~scope[s].shield /\ scope'[s].shield) => Onward
    BY <1>7, <2>1, ShieldStepCovers
  <2> QED
    BY <1>1, <1>7, <2>1, <2>2 DEF ShieldRaised
<1>8. ASSUME NEW t \in Task, NEW g \in Group, EnterGroup(t, g) \/ \E c \in Task : StartSoon(t, g, c)
      PROVE  Onward /\ Recorded
  BY <1>8, EnterGroupCovers, StartSoonCovers DEF Recorded
<1>9. ASSUME NEW t \in Task, NEW g \in Group, ExitGroup(t, g) \/ TaskDone(t, g)
      PROVE  Onward /\ Recorded
  <2>1. /\ Onward /\ \A h \in Group \ {g} : group'[h].failed = group[h].failed
        /\ group'[g].failed => group[g].failed \/ Nearest(scope', g) # NoScope
    BY <1>9, ExitGroupCovers, TaskDoneCovers
  <2> QED
    BY <2>1 DEF Recorded
<1>10. ASSUME NEW t \in Task, NEW g \in Group, WaitStepped(t, g) \/ CheckpointStepped(t, g)
       PROVE  Onward /\ Recorded
  BY <1>10, WaitSteppedCovers, CheckpointSteppedCovers DEF Recorded
<1>11. ASSUME NEW t \in Task, StartChild(t) \/ FinishChild(t) PROVE UNCHANGED group
  BY <1>11 DEF StartChild, FinishChild
<1>12. CASE GroupNext
  BY <1>3, <1>4, <1>5, <1>6, <1>7, <1>8, <1>9, <1>10, <1>11, <1>12, GroupAssumption
     DEF GroupNext, Plain
<1> QED
  BY <1>2, <1>12

LEMMA NextCInv == CInv /\ [GroupNext]_groupVars => CInv'
<1> SUFFICES ASSUME CInv, [GroupNext]_groupVars PROVE CInv'
  OBVIOUS
<1>1. GInv'
  BY NextGInv DEF CInv
<1>2. Cov' /\ Links'
  BY StepCovers DEF Onward, ShieldRaised
<1> QED
  BY <1>1, <1>2 DEF CInv

\* The walk up from the scope of a task ends in a cancelled scope that delivers, or is to
\* be restarted when something further down is left, if it has not been left itself: for
\* tasks in any tree of groups and scopes, cancelled and shielded in any order.
THEOREM ChildrenStayArmed == GroupSpec => []ArmedOrBlocked
<1>1. GroupInit => CInv
  BY InitGInv, InitCInv DEF CInv
<1>2. CInv /\ [GroupNext]_groupVars => CInv'
  BY NextCInv
<1>3. CInv => ArmedOrBlocked
  <2> SUFFICES ASSUME CInv, NEW t \in Task, NEW c, c = Nearest(scope, task[t].cur),
                      c # NoScope, scope[c].active, ~scope[c].handle
               PROVE  Blocked(scope, c)
    BY DEF ArmedOrBlocked, Blocked
  <2>1. PICK d \in [Scope -> Nat] : Layout(task, scope, d) /\ CoveredBut(scope, NoScope)
    BY DEF CInv, Cov
  <2>2. task[t].cur \in Used(scope) \union {NoScope} /\ Ordered(scope, d)
    BY <2>1 DEF Layout, OnStack
  <2>3. c \in Scope /\ scope[c].called
    BY <2>2, NearestCalled DEF Used
  <2> QED
    BY <2>1, <2>3 DEF CoveredBut, Covered
<1> QED
  BY <1>1, <1>2, <1>3, PTL DEF GroupSpec

\* The first error of a child or of the block leaves the group in a cancelled scope, and
\* only the raising of a shield around the group takes it out again before it is closed.
THEOREM FailuresCancel == GroupSpec => FailureCancels
<1>1. GroupInit => CInv
  BY InitGInv, InitCInv DEF CInv
<1>2. CInv /\ [GroupNext]_groupVars => CInv'
  BY NextCInv
<1>3. ASSUME CInv, [GroupNext]_groupVars, NEW g \in Group, group'[g].failed,
             ~EffectivelyCancelled(scope', g)
      PROVE  /\ group[g].failed
             /\ EffectivelyCancelled(scope, g) =>
                  \E s \in Plain : scope[s].active /\ ~scope[s].shield /\ scope'[s].shield
  <2>1. CASE ShieldRaised
    BY <1>3, <2>1 DEF ShieldRaised
  <2>2. CASE Onward /\ Recorded
    <3>1. group[g].failed
      BY <1>3, <2>2 DEF Recorded, EffectivelyCancelled
    <3>2. g \in Used(scope) \ WaitScopes
      BY <1>3, <3>1, GroupAssumption DEF CInv, Links, GroupLinks, Used, WaitScopes
    <3> QED
      BY <1>3, <2>2, <3>1, <3>2 DEF Onward, StayCancelled, EffectivelyCancelled
  <2> QED
    BY <1>3, <2>1, <2>2, StepCovers
<1>4. CInv /\ [GroupNext]_groupVars =>
        [\A g \in Group :
           /\ group'[g].failed /\ group'[g].phase # "closed"
           /\ ~EffectivelyCancelled(scope', g)
           => /\ group[g].failed
              /\ EffectivelyCancelled(scope, g) =>
                   \E s \in Plain : scope[s].active /\ ~scope[s].shield /\ scope'[s].shield
        ]_groupVars
  BY <1>3
<1> QED
  BY <1>1, <1>2, <1>4, PTL DEF GroupSpec, FailureCancels
=============================================================================
