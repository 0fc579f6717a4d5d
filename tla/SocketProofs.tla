---------------------------- MODULE SocketProofs ----------------------------
(***************************************************************************)
(* What the components that stand on sockets, transports and signals keep. *)
(* Each section has the invariant of one component and the steps that keep *)
(* it, over the variables of the composition by the names they have there; *)
(* the last one puts them together.                                        *)
(***************************************************************************)
EXTENDS SocketComponents, QueueLemmas, FiniteSetTheorems, WellFoundedInduction

-----------------------------------------------------------------------------
(* SocketStream: the chunks under way continue what was returned, and a task *)
(* that waits for the transport is woken by whatever it waits for.           *)

sock == a
wire == b
sent == c
at == d
got == e
ended == f

USE DEF sock, wire, sent, at, got, ended

Chunk == Seq(Nat)
Marks == {<<>>, <<0>>}

\* The last byte before place i of the chunks U, when n bytes were returned before
ByteBefore(n, U, i) == IF i = 1 THEN n ELSE U[i - 1][Len(U[i - 1])]

\* The peer's end comes last, after byte m; each chunk goes on where the one before it
\* stops; the last one stops at byte m.
EndsLast(n, U, m) ==
  \A i \in 1..Len(U) : U[i] \in Marks => i = Len(U) /\ ByteBefore(n, U, i) = m
GoesOn(n, U) ==
  \A i \in 1..Len(U) : U[i] \notin Marks =>
    \A k \in 1..Len(U[i]) : U[i][k] = ByteBefore(n, U, i) + k
StopsAt(n, U, m) ==
  (\A i \in 1..Len(U) : U[i] \notin Marks) => ByteBefore(n, U, Len(U) + 1) = m
Leads(n, U, m) == EndsLast(n, U, m) /\ GoesOn(n, U) /\ StopsAt(n, U, m)

Unmarked(U) == \A i \in 1..Len(U) : U[i] \notin Marks

\* A chunk that is not an end has a last byte, as many after the one before as it is long.
LEMMA LastByte ==
  ASSUME NEW n \in Nat, NEW m \in Nat, NEW U \in Seq(Chunk), Leads(n, U, m),
         NEW i \in 1..Len(U), U[i] \notin Marks
  PROVE  /\ ByteBefore(n, U, i) \in Nat /\ Len(U[i]) \in Nat /\ Len(U[i]) > 0
         /\ ByteBefore(n, U, i + 1) = ByteBefore(n, U, i) + Len(U[i])
         /\ \A k \in 1..Len(U[i]) : U[i][k] = ByteBefore(n, U, i) + k
<1>1. U[i] \in Chunk /\ Len(U) \in Nat /\ Len(U[i]) \in Nat
  BY ElementOfSeq, LenProperties DEF Chunk
<1>2. Len(U[i]) # 0
  BY <1>1, EmptySeq DEF Marks, Chunk
<1>3. ByteBefore(n, U, i) \in Nat
  <2>1. CASE i = 1
    BY <2>1 DEF ByteBefore
  <2>2. CASE i # 1
    <3>1. i - 1 \in 1..Len(U) /\ i - 1 # Len(U)
      BY <1>1, <2>2
    <3>2. U[i - 1] \in Chunk /\ U[i - 1] \notin Marks
      BY <3>1, ElementOfSeq DEF Leads, EndsLast
    <3>3. Len(U[i - 1]) \in 1..Len(U[i - 1])
      BY <3>2, LenProperties, EmptySeq DEF Marks, Chunk
    <3>4. U[i - 1][Len(U[i - 1])] \in Nat
      BY <3>2, <3>3, ElementOfSeq DEF Chunk
    <3> QED
      BY <2>2, <3>4 DEF ByteBefore
  <2> QED
    BY <2>1, <2>2
<1>4. \A k \in 1..Len(U[i]) : U[i][k] = ByteBefore(n, U, i) + k
  BY DEF Leads, GoesOn
<1>5. ByteBefore(n, U, i + 1) = U[i][Len(U[i])]
  BY <1>1 DEF ByteBefore
<1> QED
  BY <1>1, <1>2, <1>3, <1>4, <1>5

\* A chunk of the bytes after m
Next1(m, k) == [i \in 1..k |-> m + i]

LEMMA FreshChunk ==
  ASSUME NEW m \in Nat, NEW k \in Nat, k > 0
  PROVE  /\ Next1(m, k) \in Chunk /\ Len(Next1(m, k)) = k /\ Next1(m, k) \notin Marks
         /\ \A i \in 1..k : Next1(m, k)[i] = m + i
<1>1. Next1(m, k) \in [1..k -> Nat]
  BY DEF Next1
<1>2. Next1(m, k) \in Chunk /\ Len(Next1(m, k)) = k
  BY <1>1, SeqDef, LenProperties DEF Chunk
<1>3. \A i \in 1..k : Next1(m, k)[i] = m + i
  BY DEF Next1
<1>4. Next1(m, k) # <<>> /\ Next1(m, k) # <<0>>
  BY <1>2, <1>3, EmptySeq
<1> QED
  BY <1>2, <1>3, <1>4 DEF Marks

\* The entries of a sequence with one more, and the bytes before them
LEMMA OneMore ==
  ASSUME NEW n, NEW U \in Seq(Chunk), NEW x \in Chunk
  PROVE  /\ Append(U, x) \in Seq(Chunk) /\ Len(Append(U, x)) = Len(U) + 1 /\ Len(U) \in Nat
         /\ Append(U, x)[Len(U) + 1] = x
         /\ \A i \in 1..Len(U) : Append(U, x)[i] = U[i]
         /\ \A i \in 1..(Len(U) + 1) : ByteBefore(n, Append(U, x), i) = ByteBefore(n, U, i)
         /\ ByteBefore(n, Append(U, x), Len(U) + 2) = x[Len(x)]
<1> DEFINE V == Append(U, x)
<1>1. /\ V \in Seq(Chunk) /\ Len(V) = Len(U) + 1 /\ V[Len(U) + 1] = x
      /\ \A i \in 1..Len(U) : V[i] = U[i]
      /\ Len(U) \in Nat
  BY AppendProperties, LenProperties
<1> HIDE DEF V
<1>2. ASSUME NEW i \in 1..(Len(U) + 1)
      PROVE  ByteBefore(n, V, i) = ByteBefore(n, U, i)
  <2>1. CASE i = 1
    BY <2>1 DEF ByteBefore
  <2>2. CASE i # 1
    <3>1. i - 1 \in 1..Len(U)
      BY <1>1, <2>2
    <3>2. V[i - 1] = U[i - 1]
      BY <1>1, <3>1
    <3> QED
      BY <2>2, <3>2 DEF ByteBefore
  <2> QED
    BY <2>1, <2>2
<1>3. ByteBefore(n, V, Len(U) + 2) = x[Len(x)]
  <2>1. Len(U) + 2 # 1 /\ Len(U) + 2 - 1 = Len(U) + 1
    BY <1>1
  <2> QED
    BY <1>1, <2>1 DEF ByteBefore
<1> QED
  BY <1>1, <1>2, <1>3 DEF V

\* The peer sends a chunk, or ends.
LEMMA LeadsOn ==
  ASSUME NEW n \in Nat, NEW m \in Nat, NEW U \in Seq(Chunk), Leads(n, U, m), Unmarked(U),
         NEW x \in Chunk, NEW l \in Nat,
         \/ x \in Marks /\ l = m
         \/ \E k \in Nat : k > 0 /\ x = Next1(m, k) /\ l = m + k
  PROVE  Leads(n, Append(U, x), l)
<1> DEFINE V == Append(U, x)
<1>1. /\ V \in Seq(Chunk) /\ Len(V) = Len(U) + 1 /\ V[Len(U) + 1] = x
      /\ \A i \in 1..Len(U) : V[i] = U[i]
      /\ Len(U) \in Nat
      /\ \A i \in 1..(Len(U) + 1) : ByteBefore(n, V, i) = ByteBefore(n, U, i)
      /\ ByteBefore(n, V, Len(U) + 2) = x[Len(x)]
  BY OneMore
<1> HIDE DEF V
<1>2. ByteBefore(n, U, Len(U) + 1) = m
  BY DEF Leads, StopsAt, Unmarked
<1>3. ByteBefore(n, V, Len(U) + 1) = m
  BY <1>1, <1>2
<1>4. x \notin Marks => /\ \A k \in 1..Len(x) : x[k] = m + k
                        /\ x[Len(x)] = l
  <2> HAVE x \notin Marks
  <2>1. PICK k \in Nat : k > 0 /\ x = Next1(m, k) /\ l = m + k
    OBVIOUS
  <2>2. Len(x) = k /\ \A i \in 1..k : x[i] = m + i
    BY <2>1, FreshChunk
  <2> QED
    BY <2>1, <2>2
<1>5. x \in Marks => l = m
  <2> SUFFICES ASSUME NEW k \in Nat, k > 0, x = Next1(m, k) PROVE x \notin Marks
    OBVIOUS
  <2> QED
    BY FreshChunk
<1>6. EndsLast(n, V, l)
  <2> SUFFICES ASSUME NEW i \in 1..Len(V), V[i] \in Marks
               PROVE  i = Len(V) /\ ByteBefore(n, V, i) = l
    BY DEF EndsLast
  <2>1. i = Len(U) + 1
    BY <1>1 DEF Unmarked
  <2> QED
    BY <1>1, <1>3, <1>5, <2>1
<1>7. GoesOn(n, V)
  <2> SUFFICES ASSUME NEW i \in 1..Len(V), V[i] \notin Marks, NEW k \in 1..Len(V[i])
               PROVE  V[i][k] = ByteBefore(n, V, i) + k
    BY DEF GoesOn
  <2>1. CASE i = Len(U) + 1
    BY <1>1, <1>3, <1>4, <2>1
  <2>2. CASE i # Len(U) + 1
    <3>1. i \in 1..Len(U) /\ i \in 1..(Len(U) + 1)
      BY <1>1, <2>2
    <3>2. V[i] = U[i] /\ ByteBefore(n, V, i) = ByteBefore(n, U, i)
      BY <1>1, <3>1
    <3>3. U[i][k] = ByteBefore(n, U, i) + k
      BY <3>1, <3>2 DEF Leads, GoesOn
    <3> QED
      BY <3>2, <3>3
  <2> QED
    BY <2>1, <2>2
<1>8. StopsAt(n, V, l)
  <2> SUFFICES ASSUME \A i \in 1..Len(V) : V[i] \notin Marks
               PROVE  ByteBefore(n, V, Len(V) + 1) = l
    BY DEF StopsAt
  <2>1. x \notin Marks
    BY <1>1
  <2> QED
    BY <1>1, <1>4, <2>1
<1> QED
  BY <1>6, <1>7, <1>8 DEF V, Leads

\* The transport reads the peer's end.
LEMMA LeadsToEnd ==
  ASSUME NEW n \in Nat, NEW m \in Nat, NEW U \in Seq(Chunk), NEW x \in Marks,
         Leads(n, Append(U, x), m)
  PROVE  Leads(n, U, m) /\ Unmarked(U)
<1> DEFINE V == Append(U, x)
<1>0. x \in Chunk
  <2>1. <<>> \in Chunk /\ <<0>> \in Chunk
    BY DEF Chunk
  <2> QED
    BY <2>1 DEF Marks
<1>1. /\ V \in Seq(Chunk) /\ Len(V) = Len(U) + 1 /\ V[Len(U) + 1] = x
      /\ \A i \in 1..Len(U) : V[i] = U[i]
      /\ Len(U) \in Nat
      /\ \A i \in 1..(Len(U) + 1) : ByteBefore(n, V, i) = ByteBefore(n, U, i)
  BY <1>0, OneMore
<1>2. EndsLast(n, V, m) /\ GoesOn(n, V)
  BY DEF Leads
<1> HIDE DEF V
<1>3. ByteBefore(n, U, Len(U) + 1) = m
  <2>1. ByteBefore(n, V, Len(U) + 1) = m
    BY <1>1, <1>2 DEF EndsLast
  <2> QED
    BY <1>1, <2>1
<1>4. Unmarked(U)
  <2> SUFFICES ASSUME NEW i \in 1..Len(U) PROVE U[i] \notin Marks
    BY DEF Unmarked
  <2>1. i \in 1..Len(V) /\ i # Len(V) /\ V[i] = U[i]
    BY <1>1
  <2> QED
    BY <1>2, <2>1 DEF EndsLast
<1>5. GoesOn(n, U)
  <2> SUFFICES ASSUME NEW i \in 1..Len(U), U[i] \notin Marks, NEW k \in 1..Len(U[i])
               PROVE  U[i][k] = ByteBefore(n, U, i) + k
    BY DEF GoesOn
  <2>1. i \in 1..Len(V) /\ V[i] = U[i] /\ ByteBefore(n, V, i) = ByteBefore(n, U, i)
    BY <1>1
  <2>2. V[i][k] = ByteBefore(n, V, i) + k
    BY <1>2, <2>1 DEF GoesOn
  <2> QED
    BY <2>1, <2>2
<1> QED
  BY <1>3, <1>4, <1>5 DEF Leads, EndsLast, StopsAt, Unmarked

\* receive() returns the first chunk.
LEMMA LeadsPast ==
  ASSUME NEW n \in Nat, NEW m \in Nat, NEW U \in Seq(Chunk), U # <<>>, Leads(n, U, m),
         U[1] \notin Marks,
         NEW V \in Seq(Chunk), Len(V) = Len(U) - 1, \A i \in 1..Len(V) : V[i] = U[i + 1]
  PROVE  Leads(n + Len(U[1]), V, m)
<1> DEFINE l == n + Len(U[1])
<1>1. Len(U) \in Nat /\ Len(U) > 0 /\ 1 \in 1..Len(U) /\ Len(V) = Len(U) - 1
  BY LenProperties, EmptySeq
<1>2. ByteBefore(n, U, 2) = l /\ Len(U[1]) \in Nat
  BY <1>1, LastByte, SMTT(30) DEF ByteBefore
<1> HIDE DEF l
<1>3. ASSUME NEW i \in 1..(Len(V) + 1)
      PROVE  ByteBefore(l, V, i) = ByteBefore(n, U, i + 1)
  <2>1. CASE i = 1
    BY <1>2, <2>1 DEF ByteBefore
  <2>2. CASE i # 1
    <3>1. i - 1 \in 1..Len(V) /\ i + 1 # 1 /\ i - 1 + 1 = i + 1 - 1
      BY <1>1, <2>2
    <3>2. V[i - 1] = U[i + 1 - 1]
      BY <1>1, <3>1
    <3> QED
      BY <2>2, <3>1, <3>2 DEF ByteBefore
  <2> QED
    BY <2>1, <2>2
<1>4. ASSUME NEW i \in 1..Len(V)
      PROVE  /\ i + 1 \in 1..Len(U) /\ V[i] = U[i + 1]
             /\ ByteBefore(l, V, i) = ByteBefore(n, U, i + 1)
             /\ (i = Len(V) <=> i + 1 = Len(U))
  BY <1>1, <1>3
<1>5. EndsLast(l, V, m)
  BY <1>4 DEF Leads, EndsLast
<1>6. GoesOn(l, V)
  BY <1>4, SMTT(30) DEF Leads, GoesOn
<1>7. StopsAt(l, V, m)
  <2> SUFFICES ASSUME \A i \in 1..Len(V) : V[i] \notin Marks
               PROVE  ByteBefore(l, V, Len(V) + 1) = m
    BY DEF StopsAt
  <2>1. ASSUME NEW j \in 1..Len(U) PROVE U[j] \notin Marks
    <3>1. CASE j = 1
      BY <3>1
    <3>2. CASE j # 1
      <4>1. j - 1 \in 1..Len(V) /\ j - 1 + 1 = j
        BY <1>1, <3>2
      <4> QED
        BY <1>1, <4>1
    <3> QED
      BY <3>1, <3>2
  <2>2. ByteBefore(n, U, Len(U) + 1) = m
    BY <2>1 DEF Leads, StopsAt
  <2>3. Len(V) + 1 \in 1..(Len(V) + 1) /\ Len(V) + 1 + 1 = Len(U) + 1
    BY <1>1
  <2> QED
    BY <1>3, <2>2, <2>3
<1> QED
  BY <1>5, <1>6, <1>7 DEF Leads, l

\* receive() returns the first k bytes of it.
LEMMA LeadsWithin ==
  ASSUME NEW n \in Nat, NEW m \in Nat, NEW U \in Seq(Chunk), U # <<>>, Leads(n, U, m),
         U[1] \notin Marks, NEW k \in Nat, k > 0, k < Len(U[1]),
         NEW r \in Chunk, r = SubSeq(U[1], k + 1, Len(U[1])),
         NEW V \in Seq(Chunk), Len(V) = Len(U), V[1] = r, \A i \in 2..Len(U) : V[i] = U[i]
  PROVE  r \notin Marks /\ Leads(n + k, V, m)
<1>1. /\ Len(U) \in Nat /\ 1 \in 1..Len(U) /\ U[1] \in Chunk /\ Len(U[1]) \in Nat
      /\ \A i \in 1..Len(U[1]) : U[1][i] = n + i /\ U[1][i] \in Nat
      /\ ByteBefore(n, U, 2) = n + Len(U[1])
  <2>1. Len(U) \in Nat /\ 1 \in 1..Len(U)
    BY LenProperties, EmptySeq
  <2>2. ByteBefore(n, U, 1) = n
    BY DEF ByteBefore
  <2>3. U[1] \in Chunk
    BY <2>1, ElementOfSeq
  <2>4. \A i \in 1..Len(U[1]) : U[1][i] \in Nat
    BY <2>3, ElementOfSeq DEF Chunk
  <2>5. /\ Len(U[1]) \in Nat /\ ByteBefore(n, U, 1 + 1) = ByteBefore(n, U, 1) + Len(U[1])
        /\ \A i \in 1..Len(U[1]) : U[1][i] = ByteBefore(n, U, 1) + i
    BY <2>1, LastByte
  <2> QED
    BY <2>1, <2>2, <2>3, <2>4, <2>5
<1>2. /\ Len(r) = Len(U[1]) - k
      /\ \A i \in 1..(Len(U[1]) - k) : r[i] = U[1][k + i]
  <2>1. /\ k + 1 \in Nat /\ k + 1 <= Len(U[1])
        /\ \A i \in (k + 1)..Len(U[1]) : U[1][i] \in Nat
    BY <1>1, SMTT(30)
  <2>2. LET u == U[1] IN
        /\ Len(SubSeq(u, k + 1, Len(u))) = Len(u) - (k + 1) + 1
        /\ \A i \in 1..(Len(u) - (k + 1) + 1) : SubSeq(u, k + 1, Len(u))[i] = u[k + 1 + i - 1]
    <3> DEFINE u == U[1]
    <3>1. u \in Chunk /\ Len(u) \in Int /\ k + 1 \in Int /\ k + 1 <= Len(u)
          /\ \A i \in (k + 1)..Len(u) : u[i] \in Nat
      BY <1>1, <2>1
    <3> HIDE DEF u
    <3> QED
      BY <3>1, SubSeqProperties, SMTT(60) DEF u
  <2>3. Len(U[1]) - (k + 1) + 1 = Len(U[1]) - k
    BY <1>1
  <2>4. ASSUME NEW i \in 1..(Len(U[1]) - k) PROVE k + 1 + i - 1 = k + i
    OBVIOUS
  <2> QED
    BY <2>2, <2>3, <2>4
<1>3. \A i \in 1..Len(r) : r[i] = (n + k) + i
  BY <1>1, <1>2
<1>4. r \notin Marks
  <2>1. Len(r) > 0 /\ r[1] = n + k + 1
    BY <1>1, <1>2, <1>3
  <2>2. r # <<>>
    <3>1. Len(r) # 0
      BY <2>1
    <3> QED
      BY <3>1, EmptySeq
  <2>3. r # <<0>>
    <3>1. <<0>>[1] = 0 /\ r[1] # 0
      BY <2>1
    <3> QED
      BY <3>1
  <2> QED
    BY <2>2, <2>3 DEF Marks
<1>5. r[Len(r)] = n + Len(U[1])
  <2>1. ASSUME NEW l \in Nat, k < l
        PROVE  (l - k) \in 1..(l - k) /\ (n + k) + (l - k) = n + l
    BY <2>1
  <2>2. Len(r) \in 1..Len(r) /\ (n + k) + Len(r) = n + Len(U[1])
    BY <1>1, <1>2, <2>1
  <2> QED
    BY <1>3, <2>2
<1>6. ByteBefore(n + k, V, 1) = n + k
  BY DEF ByteBefore
<1>7. ASSUME NEW i \in 2..(Len(U) + 1)
      PROVE  ByteBefore(n + k, V, i) = ByteBefore(n, U, i)
  <2>1. CASE i = 2
    <3>1. ByteBefore(n + k, V, 2) = V[2 - 1][Len(V[2 - 1])] /\ 2 - 1 = 1
      BY DEF ByteBefore
    <3> QED
      BY <1>1, <1>5, <2>1, <3>1
  <2>2. CASE i # 2
    <3>1. i - 1 \in 2..Len(U) /\ i # 1
      BY <1>1, <2>2
    <3>2. V[i - 1] = U[i - 1]
      BY <3>1
    <3> QED
      BY <3>1, <3>2 DEF ByteBefore
  <2> QED
    BY <2>1, <2>2
<1>8. ASSUME NEW i \in 1..Len(V), i # 1
      PROVE  i \in 1..Len(U) /\ V[i] = U[i] /\ ByteBefore(n + k, V, i) = ByteBefore(n, U, i)
  <2>1. i \in 2..(Len(U) + 1) /\ i \in 2..Len(U) /\ i \in 1..Len(U)
    BY <1>1, <1>8
  <2>2. V[i] = U[i]
    BY <1>1, <2>1
  <2> QED
    BY <1>7, <2>1, <2>2
<1>9. EndsLast(n + k, V, m)
  BY <1>4, <1>8 DEF Leads, EndsLast
<1>10. GoesOn(n + k, V)
  <2> SUFFICES ASSUME NEW i \in 1..Len(V), V[i] \notin Marks, NEW j \in 1..Len(V[i])
               PROVE  V[i][j] = ByteBefore(n + k, V, i) + j
    BY DEF GoesOn
  <2>1. CASE i = 1
    BY <1>3, <1>6, <2>1
  <2>2. CASE i # 1
    BY <1>8, <2>2 DEF Leads, GoesOn
  <2> QED
    BY <2>1, <2>2
<1>11. StopsAt(n + k, V, m)
  <2> SUFFICES ASSUME \A i \in 1..Len(V) : V[i] \notin Marks
               PROVE  ByteBefore(n + k, V, Len(V) + 1) = m
    BY DEF StopsAt
  <2>1. ASSUME NEW j \in 1..Len(U) PROVE U[j] \notin Marks
    BY <1>8
  <2>2. ByteBefore(n, U, Len(U) + 1) = m
    BY <2>1 DEF Leads, StopsAt
  <2> QED
    BY <1>1, <1>7, <2>2
<1> QED
  BY <1>4, <1>9, <1>10, <1>11 DEF Leads

-----------------------------------------------------------------------------
SockState ==
  [queue : Seq(Chunk), readSet : BOOLEAN, writeSet : BOOLEAN, exception : BOOLEAN,
   atEof : BOOLEAN, closed : BOOLEAN, receiveGuard : BOOLEAN, sendGuard : BOOLEAN,
   reading : BOOLEAN, closing : BOOLEAN, eofWritten : BOOLEAN, buffer : BOOLEAN,
   lost : {"no", "error", "clean", "done"}]
TaskState ==
  [place : {"idle", "checkpoint", "reading", "sending", "writing", "closing"},
   woken : BOOLEAN, behind : BOOLEAN]

\* What the events and the flags of the protocol and the transport say of each other
LinkOK(s) ==
  /\ s.lost # "no" => s.closing /\ ~s.buffer
  /\ s.closing => s.closed \/ s.lost \in {"error", "done"}
  /\ s.lost \in {"clean", "done"} => s.closed \/ s.exception
  /\ s.lost = "done" => s.writeSet
  /\ ~s.writeSet /\ s.lost = "no" => s.buffer
  /\ s.queue # <<>> => s.readSet
  /\ s.readSet => s.queue # <<>> \/ s.atEof \/ s.lost = "done"

\* receive() has something to return or to raise.
Had(s) == s.queue # <<>> \/ s.atEof \/ s.closed \/ s.exception

ReadPending(s) ==
  ~s.readSet /\ s.queue = <<>> /\ ~s.atEof /\ s.lost # "done" /\ (s.reading \/ s.closing)
WritePending(s) == (s.lost = "no" /\ s.buffer) \/ s.lost \in {"error", "clean"}

Receiving(p) == p.place \in {"reading", "checkpoint"}

TaskFits(p, s) ==
  /\ p.place = "closing" => s.closed
  /\ Receiving(p) => s.receiveGuard
  /\ p.place = "checkpoint" /\ ~p.behind => Had(s)
  /\ p.place = "reading" /\ p.woken => Had(s)
  /\ p.place = "reading" /\ ~p.woken => ReadPending(s)
  /\ p.place = "writing" /\ ~p.woken => WritePending(s)

BytesFollow ==
  /\ Leads(Len(got), sock.queue \o wire, sent) /\ Unmarked(sock.queue)
  /\ \A i \in 1..Len(got) : got[i] = i
  /\ ended => sock.atEof /\ sock.queue = <<>>
  /\ sock.atEof => wire = <<>>

StreamTypes ==
  /\ sock \in SockState /\ wire \in Seq(Chunk) /\ sent \in Nat /\ got \in Seq(Nat)
  /\ at \in [Stream!StreamUser -> TaskState]

StreamInv ==
  /\ StreamTypes
  /\ BytesFollow
  /\ LinkOK(sock)
  /\ \A t \in Stream!StreamUser : TaskFits(at[t], sock)
  /\ \A t, u \in Stream!StreamUser : Receiving(at[t]) /\ Receiving(at[u]) => t = u

\* The stream before anything has happened.
LEMMA InitStream == Stream!SocketInit => StreamInv
<1> SUFFICES ASSUME Stream!SocketInit PROVE StreamInv
  OBVIOUS
<1>1. PICK reading \in BOOLEAN :
        sock = [queue |-> <<>>, readSet |-> FALSE, writeSet |-> TRUE, exception |-> FALSE,
                atEof |-> FALSE, closed |-> FALSE, receiveGuard |-> FALSE, sendGuard |-> FALSE,
                reading |-> reading, closing |-> FALSE, eofWritten |-> FALSE,
                buffer |-> FALSE, lost |-> "no"]
  BY DEF Stream!SocketInit
<1>2. wire = <<>> /\ sent = 0 /\ got = <<>> /\ ~ended
  BY DEF Stream!SocketInit
<1>3. /\ \A t \in Stream!StreamUser : at[t].place = "idle"
      /\ at \in [Stream!StreamUser -> TaskState]
  BY DEF Stream!SocketInit, Stream!Idle, TaskState
<1>4. sock \in SockState
  BY <1>1 DEF SockState
<1>5. LinkOK(sock) /\ sock.queue = <<>> /\ ~sock.atEof
  BY <1>1 DEF LinkOK
<1>6. sock.queue \o wire = <<>> /\ Len(got) = 0 /\ Len(sock.queue \o wire) = 0
  BY <1>2, <1>5
<1>7. Leads(Len(got), sock.queue \o wire, sent)
  BY <1>2, <1>6 DEF Leads, EndsLast, GoesOn, StopsAt, ByteBefore
<1>8. BytesFollow
  BY <1>2, <1>5, <1>6, <1>7 DEF BytesFollow, Unmarked
<1> QED
  BY <1>2, <1>3, <1>4, <1>5, <1>8 DEF StreamInv, StreamTypes, TaskFits, Receiving

\* What a step of one task must leave to those that receive, and to those that send.
ReadKeeps(s, r) ==
  /\ r.receiveGuard = s.receiveGuard /\ r.queue = s.queue /\ r.readSet = s.readSet
  /\ r.atEof = s.atEof /\ (s.closed => r.closed) /\ (s.exception => r.exception)
  /\ r.lost = "done" => s.lost = "done"
  /\ s.reading \/ s.closing => r.reading \/ r.closing
WriteKeeps(s, r) == (WritePending(s) => WritePending(r)) /\ (s.closed => r.closed)

LEMMA TaskStep ==
  ASSUME StreamInv, NEW t \in Stream!StreamUser, NEW p \in TaskState,
         at' = [at EXCEPT ![t] = p],
         sock' \in SockState, wire' = wire, sent' = sent, got' \in Seq(Nat),
         BytesFollow', LinkOK(sock'), TaskFits(p, sock'), WriteKeeps(sock, sock'),
         \/ ReadKeeps(sock, sock')
         \/ \A u \in Stream!StreamUser : u # t => ~Receiving(at[u]),
         \/ ~Receiving(p) \/ Receiving(at[t]) \/ ~sock.receiveGuard
  PROVE  StreamInv'
<1>1. at \in [Stream!StreamUser -> TaskState]
  BY DEF StreamInv, StreamTypes
<1>2. at'[t] = p /\ \A u \in Stream!StreamUser : u # t => at'[u] = at[u]
  BY <1>1
<1>3. StreamTypes'
  BY <1>1 DEF StreamInv, StreamTypes
<1>4. ASSUME NEW u \in Stream!StreamUser PROVE TaskFits(at[u], sock)' 
  <2>1. CASE u = t
    BY <1>2, <2>1
  <2>2. CASE u # t
    <3>1. TaskFits(at[u], sock) /\ at'[u] = at[u]
      BY <1>2, <2>2 DEF StreamInv
    <3>2. CASE ReadKeeps(sock, sock')
      BY <3>1, <3>2 DEF TaskFits, ReadKeeps, WriteKeeps, Had, ReadPending, Receiving
    <3>3. CASE ~Receiving(at[u])
      BY <3>1, <3>3 DEF TaskFits, WriteKeeps, Receiving
    <3> QED
      BY <2>2, <3>2, <3>3
  <2> QED
    BY <2>1, <2>2
<1>5. ASSUME NEW u \in Stream!StreamUser, NEW v \in Stream!StreamUser,
             Receiving(at'[u]), Receiving(at'[v])
      PROVE  u = v
  <2>1. \A x \in Stream!StreamUser : Receiving(at[x]) => sock.receiveGuard
    BY DEF StreamInv, TaskFits
  <2> QED
    BY <1>2, <1>5, <2>1 DEF StreamInv
<1> QED
  BY <1>3, <1>4, <1>5 DEF StreamInv

\* A step that the bytes do not take part in.
LEMMA SameBytes ==
  ASSUME StreamInv, wire' = wire, sent' = sent, got' = got, ended' = ended,
         sock'.queue = sock.queue, sock'.atEof = sock.atEof
  PROVE  BytesFollow'
BY DEF StreamInv, BytesFollow

\* Where a task is, and what it is at
LEMMA TaskOf ==
  ASSUME StreamInv, NEW t \in Stream!StreamUser
  PROVE  /\ at[t] \in TaskState /\ TaskFits(at[t], sock) /\ sock \in SockState /\ LinkOK(sock)
         /\ got \in Seq(Nat)
         /\ Stream!Idle \in TaskState
         /\ \A s : TaskFits(Stream!Idle, s) /\ ~Receiving(Stream!Idle)
         /\ Receiving(at[t]) => \A u \in Stream!StreamUser : u # t => ~Receiving(at[u])
BY DEF StreamInv, StreamTypes, Stream!Idle, TaskState, TaskFits, Receiving

LEMMA AtStep ==
  ASSUME StreamInv, NEW t \in Stream!StreamUser,
         NEW place \in {"checkpoint", "reading", "sending", "writing", "closing"},
         Stream!At(t, place)
  PROVE  \E p \in TaskState :
           /\ at' = [at EXCEPT ![t] = p] /\ p.place = place /\ ~p.woken
           /\ p.behind = (sock.lost \in {"error", "clean"})
<1> DEFINE p == [place |-> place, woken |-> FALSE, behind |-> sock.lost \in {"error", "clean"}]
<1>1. at' = [at EXCEPT ![t] = p]
  BY DEF Stream!At
<1>2. p \in TaskState
  BY DEF TaskState
<1> QED
  BY <1>1, <1>2

-----------------------------------------------------------------------------
\* The peer sends.
LEMMA PeerStep ==
  ASSUME StreamInv, NEW x \in Chunk, Stream!PeerSends(x),
         x \in Marks \/ \E k \in Nat : k > 0 /\ x = Next1(sent, k) /\ sent' = sent + k
  PROVE  StreamInv'
<1> DEFINE U == sock.queue \o wire
<1>1. /\ sock \in SockState /\ wire \in Seq(Chunk) /\ sent \in Nat /\ got \in Seq(Nat)
      /\ sock.queue \in Seq(Chunk) /\ Len(got) \in Nat
  BY LenProperties DEF StreamInv, StreamTypes, SockState
<1>2. /\ wire' = Append(wire, x) /\ sock' = sock /\ at' = at /\ got' = got /\ ended' = ended
      /\ ~sock.atEof
      /\ \A i \in 1..Len(wire) : wire[i] \notin Marks
  <2>0. {Stream!EndOfFile, Stream!Reset} \intersect Stream!Range(wire) = {}
    BY DEF Stream!PeerSends
  <2>1. {<<>>, <<0>>} \intersect Stream!Range(wire) = {}
    BY <2>0, Zenon DEF Stream!EndOfFile, Stream!Reset
  <2>2. \A i \in 1..Len(wire) : wire[i] \in Stream!Range(wire)
    BY <1>1, LenProperties DEF Stream!Range
  <2> QED
    BY <2>1, <2>2 DEF Stream!PeerSends, Marks
<1>3. U \in Seq(Chunk) /\ Unmarked(U)
  <2>1. /\ U \in Seq(Chunk) /\ Len(U) = Len(sock.queue) + Len(wire)
        /\ \A i \in 1..Len(U) :
             U[i] = IF i <= Len(sock.queue) THEN sock.queue[i] ELSE wire[i - Len(sock.queue)]
        /\ Len(sock.queue) \in Nat /\ Len(wire) \in Nat
    BY <1>1, ConcatProperties, LenProperties
  <2> HIDE DEF U
  <2>2. ASSUME NEW i \in 1..Len(U) PROVE U[i] \notin Marks
    <3>1. CASE i <= Len(sock.queue)
      <4>1. i \in 1..Len(sock.queue) /\ U[i] = sock.queue[i]
        BY <2>1, <3>1
      <4> QED
        BY <4>1 DEF StreamInv, BytesFollow, Unmarked
    <3>2. CASE ~(i <= Len(sock.queue))
      <4>1. i - Len(sock.queue) \in 1..Len(wire) /\ U[i] = wire[i - Len(sock.queue)]
        BY <2>1, <3>2
      <4> QED
        BY <1>2, <4>1
    <3> QED
      BY <3>1, <3>2
  <2> QED
    BY <2>1, <2>2 DEF Unmarked
<1>4. sock.queue \o wire' = Append(U, x) /\ wire' \in Seq(Chunk)
  <2>1. <<x>> \in Seq(Chunk)
    OBVIOUS
  <2>2. Append(wire, x) = wire \o <<x>> /\ Append(U, x) = U \o <<x>>
    BY <1>1, <1>3, AppendIsConcat
  <2>3. sock.queue \o (wire \o <<x>>) = U \o <<x>>
    <3>1. \A u, v, w \in Seq(Chunk) : (u \o v) \o w = u \o (v \o w)
      BY ConcatAssociative
    <3> QED
      BY <1>1, <2>1, <3>1, Zenon
  <2> QED
    BY <1>1, <1>2, <2>2, <2>3, AppendProperties
<1>5. sent' \in Nat /\ (x \in Marks => sent' = sent)
  BY <1>1 DEF Stream!PeerSends, Stream!EndOfFile, Stream!Reset, Marks
<1>6. Leads(Len(got), Append(U, x), sent')
  <2>1. Leads(Len(got), U, sent)
    BY DEF StreamInv, BytesFollow
  <2> QED
    BY <1>1, <1>3, <1>5, <2>1, LeadsOn
<1> QED
  BY <1>1, <1>2, <1>4, <1>5, <1>6
  DEF StreamInv, StreamTypes, BytesFollow

LEMMA PeerSteps ==
  ASSUME StreamInv,
         \/ \E n \in Chunks : sent + n <= MaxBytes /\ Stream!PeerSends(Stream!NextChunk(n))
         \/ \E x \in {Stream!EndOfFile, Stream!Reset} : Stream!PeerSends(x)
  PROVE  StreamInv'
<1>0. sent \in Nat
  BY DEF StreamInv, StreamTypes
<1>1. ASSUME NEW n \in Chunks, Stream!PeerSends(Stream!NextChunk(n))
      PROVE  StreamInv'
  <2>1. n \in Nat /\ n > 0 /\ Stream!NextChunk(n) = Next1(sent, n)
    BY ChunkAssumption DEF Stream!NextChunk, Next1
  <2>2. Next1(sent, n) \in Chunk /\ Len(Next1(sent, n)) = n /\ Next1(sent, n) \notin Marks
    BY <1>0, <2>1, FreshChunk
  <2>3. sent' = sent + n
    BY <1>1, <2>1, <2>2 DEF Stream!PeerSends, Stream!EndOfFile, Stream!Reset, Marks
  <2> QED
    BY <1>1, <2>1, <2>2, <2>3, PeerStep
<1>2. ASSUME NEW x \in {Stream!EndOfFile, Stream!Reset}, Stream!PeerSends(x)
      PROVE  StreamInv'
  <2>1. <<>> \in Chunk /\ <<0>> \in Chunk
    BY DEF Chunk
  <2>2. x \in Marks /\ x \in Chunk
    BY <2>1, Zenon DEF Stream!EndOfFile, Stream!Reset, Marks
  <2> QED
    BY <1>2, <2>2, PeerStep
<1> QED
  BY <1>1, <1>2

\* _force_close()
LEMMA ForceFacts ==
  ASSUME NEW s \in SockState, LinkOK(s), NEW exc \in BOOLEAN, exc \/ s.closed,
         NEW r, r = Stream!ForceClosed(s, exc)
  PROVE  /\ r \in SockState /\ LinkOK(r) /\ ReadKeeps(s, r) /\ WriteKeeps(s, r)
         /\ r.sendGuard = s.sendGuard /\ r.writeSet = s.writeSet /\ r.closing
         /\ r.lost # "no" /\ (s.lost # "done" => r.lost # "done")
<1>1. CASE s.lost # "no"
  BY <1>1 DEF Stream!ForceClosed, ReadKeeps, WriteKeeps, LinkOK
<1>2. CASE s.lost = "no"
  <2> DEFINE how == IF exc THEN "error" ELSE "clean"
  <2>1. r = [s EXCEPT !.closing = TRUE, !.reading = FALSE, !.buffer = FALSE, !.lost = how]
    BY <1>2 DEF Stream!ForceClosed
  <2>4. how \in {"no", "error", "clean", "done"}
    OBVIOUS
  <2>5. how \in {"error", "clean"} /\ (how = "clean" => ~exc)
    OBVIOUS
  <2> HIDE DEF how
  <2>2. r \in SockState
    BY <2>1, <2>4 DEF SockState
  <2>3. /\ r.closing /\ ~r.buffer /\ r.lost = how
        /\ r.queue = s.queue /\ r.readSet = s.readSet /\ r.writeSet = s.writeSet
        /\ r.exception = s.exception /\ r.atEof = s.atEof /\ r.closed = s.closed
        /\ r.receiveGuard = s.receiveGuard /\ r.sendGuard = s.sendGuard
    BY <2>1 DEF SockState
  <2> QED
    BY <1>2, <2>2, <2>3, <2>5 DEF LinkOK, ReadKeeps, WriteKeeps, WritePending
<1> QED
  BY <1>1, <1>2

\* Tasks that wait at some places are woken.
LEMMA WokenTasks ==
  ASSUME StreamInv, NEW places, at' = Stream!Wake(places)
  PROVE  /\ at' \in [Stream!StreamUser -> TaskState]
         /\ \A t \in Stream!StreamUser :
              /\ at[t] \in TaskState /\ at'[t].place = at[t].place
              /\ at'[t].behind = at[t].behind
              /\ at'[t].woken = (at[t].woken \/ at[t].place \in places)
<1>1. at \in [Stream!StreamUser -> TaskState]
  BY DEF StreamInv, StreamTypes
<1>2. ASSUME NEW t \in Stream!StreamUser
      PROVE  /\ at'[t] \in TaskState /\ at[t] \in TaskState /\ at'[t].place = at[t].place
             /\ at'[t].behind = at[t].behind
             /\ at'[t].woken = (at[t].woken \/ at[t].place \in places)
  <2>1. at[t] \in TaskState
    BY <1>1
  <2>2. at'[t] = IF at[t].place \in places THEN [at[t] EXCEPT !.woken = TRUE] ELSE at[t]
    BY DEF Stream!Wake
  <2> QED
    BY <2>1, <2>2 DEF TaskState
<1>3. at' \in [Stream!StreamUser -> TaskState]
  BY <1>2 DEF Stream!Wake
<1> QED
  BY <1>2, <1>3

\* Every task is where it was, and fits what the transport has done.
LEMMA LoopStep ==
  ASSUME StreamInv, at' \in [Stream!StreamUser -> TaskState],
         \A t \in Stream!StreamUser : at'[t].place = at[t].place /\ TaskFits(at'[t], sock'),
         sock' \in SockState, LinkOK(sock'), wire' \in Seq(Chunk), sent' = sent, got' = got,
         BytesFollow'
  PROVE  StreamInv'
<1>1. StreamTypes'
  BY DEF StreamInv, StreamTypes
<1>2. \A t, u \in Stream!StreamUser : Receiving(at'[t]) /\ Receiving(at'[u]) => t = u
  BY DEF StreamInv, Receiving
<1> QED
  BY <1>1, <1>2 DEF StreamInv

\* What the transport reads: the peer's end is the last of all.
LEMMA ReadOrder ==
  ASSUME StreamInv, wire # <<>>, NEW x, x = Head(wire)
  PROVE  /\ x \in Chunk /\ Tail(wire) \in Seq(Chunk)
         /\ x \in Marks => /\ Tail(wire) = <<>>
                           /\ Leads(Len(got), sock.queue \o Tail(wire), sent)
         /\ x \notin Marks => /\ Append(sock.queue, x) \in Seq(Chunk)
                              /\ Leads(Len(got), Append(sock.queue, x) \o Tail(wire), sent)
                              /\ Unmarked(Append(sock.queue, x))
<1> DEFINE q == sock.queue
           w == wire
           r == Tail(wire)
           U == q \o w
<1>1. /\ q \in Seq(Chunk) /\ w \in Seq(Chunk) /\ sent \in Nat /\ Len(got) \in Nat
      /\ Leads(Len(got), U, sent) /\ Unmarked(q)
  BY LenProperties DEF StreamInv, StreamTypes, SockState, BytesFollow
<1>2. /\ x \in Chunk /\ r \in Seq(Chunk) /\ Len(r) = Len(w) - 1 /\ w[1] = x
      /\ \A i \in 1..Len(r) : r[i] = w[i + 1]
      /\ Len(w) \in Nat /\ Len(w) > 0 /\ Len(q) \in Nat
  BY <1>1, HeadTailProperties, LenProperties, EmptySeq
<1>3. /\ U \in Seq(Chunk) /\ Len(U) = Len(q) + Len(w)
      /\ \A i \in 1..Len(U) : U[i] = IF i <= Len(q) THEN q[i] ELSE w[i - Len(q)]
  BY <1>1, ConcatProperties
<1> HIDE DEF U, q, w, r
<1>4. U[Len(q) + 1] = x
  <2>1. Len(q) + 1 \in 1..Len(U) /\ ~(Len(q) + 1 <= Len(q)) /\ Len(q) + 1 - Len(q) = 1
    BY <1>2, <1>3
  <2> QED
    BY <1>2, <1>3, <2>1
<1>5. <<x>> \in Seq(Chunk) /\ q \o <<x>> = Append(q, x)
  BY <1>1, <1>2, AppendIsConcat
<1>6. ASSUME x \in Marks
      PROVE  r = <<>> /\ Leads(Len(got), q \o r, sent)
  <2>1. Len(q) + 1 = Len(U)
    <3>1. Len(q) + 1 \in 1..Len(U)
      BY <1>2, <1>3
    <3> QED
      BY <1>1, <1>4, <1>6, <3>1 DEF Leads, EndsLast
  <2>2. Len(r) = 0
    BY <1>2, <1>3, <2>1
  <2>3. r = <<>> /\ q \o r = q
    BY <1>1, <1>2, <2>2, EmptySeq, ConcatEmptySeq
  <2>4. U = Append(q, x)
    <3>1. /\ Append(q, x) \in Seq(Chunk) /\ Len(Append(q, x)) = Len(q) + 1
          /\ \A i \in 1..Len(q) : Append(q, x)[i] = q[i]
          /\ Append(q, x)[Len(q) + 1] = x
      BY <1>1, <1>2, AppendProperties
    <3>2. ASSUME NEW i \in 1..Len(U) PROVE U[i] = Append(q, x)[i]
      <4>1. CASE i = Len(U)
        BY <1>4, <2>1, <3>1, <4>1
      <4>2. CASE i # Len(U)
        <5>1. i \in 1..Len(q)
          BY <1>2, <2>1, <4>2
        <5> QED
          BY <1>3, <3>1, <5>1
      <4> QED
        BY <4>1, <4>2
    <3> QED
      BY <1>3, <2>1, <3>1, <3>2, SeqEqual
  <2>5. Leads(Len(got), q, sent)
    BY <1>1, <1>6, <2>4, LeadsToEnd
  <2> QED
    BY <2>3, <2>5
<1>7. ASSUME x \notin Marks
      PROVE  /\ Append(q, x) \in Seq(Chunk) /\ Leads(Len(got), Append(q, x) \o r, sent)
             /\ Unmarked(Append(q, x))
  <2>1. \A u, v, s \in Seq(Chunk) : (u \o v) \o s = u \o (v \o s)
    BY ConcatAssociative
  <2>2. <<x>> \o r = w
    BY <1>1, <1>2, EmptySeq DEF w, r
  <2>3. Append(q, x) \o r = U
    <3>1. (q \o <<x>>) \o r = q \o (<<x>> \o r)
      BY <1>1, <1>2, <1>5, <2>1, Zenon
    <3> QED
      BY <1>5, <2>2, <3>1, Zenon DEF U
  <2>4. Append(q, x) \in Seq(Chunk) /\ Unmarked(Append(q, x))
    <3>1. /\ Append(q, x) \in Seq(Chunk) /\ Len(Append(q, x)) = Len(q) + 1
          /\ \A i \in 1..Len(q) : Append(q, x)[i] = q[i]
          /\ Append(q, x)[Len(q) + 1] = x
      BY <1>1, <1>2, AppendProperties
    <3>2. ASSUME NEW i \in 1..(Len(q) + 1) PROVE Append(q, x)[i] \notin Marks
      <4>1. CASE i = Len(q) + 1
        BY <1>7, <3>1, <4>1
      <4>2. CASE i # Len(q) + 1
        <5>1. i \in 1..Len(q)
          BY <1>2, <4>2
        <5> QED
          BY <1>1, <3>1, <5>1 DEF Unmarked
      <4> QED
        BY <4>1, <4>2
    <3> QED
      BY <3>1, <3>2 DEF Unmarked
  <2> QED
    BY <1>1, <2>3, <2>4
<1> QED
  BY <1>2, <1>6, <1>7 DEF q, w, r

\* What receive(n) takes of the first of the chunks, and what it leaves
Taken(chunks, n) ==
  LET chunk == Head(chunks) IN SubSeq(chunk, 1, IF Len(chunk) > n THEN n ELSE Len(chunk))
Left(chunks, n) ==
  LET chunk == Head(chunks) IN
  IF Len(chunk) > n THEN <<SubSeq(chunk, n + 1, Len(chunk))>> \o Tail(chunks) ELSE Tail(chunks)

LEMMA TakeOrder ==
  ASSUME StreamInv, sock.queue # <<>>, NEW n \in Nat, n > 0
  PROVE  /\ Left(sock.queue, n) \in Seq(Chunk) /\ Unmarked(Left(sock.queue, n))
         /\ got \o Taken(sock.queue, n) \in Seq(Nat)
         /\ Leads(Len(got \o Taken(sock.queue, n)), Left(sock.queue, n) \o wire, sent)
         /\ \A i \in 1..Len(got \o Taken(sock.queue, n)) : (got \o Taken(sock.queue, n))[i] = i
<1> DEFINE old == sock.queue
           w == wire
           r == Tail(sock.queue)
           U == old \o w
           chunk == Head(old)
           k == IF Len(chunk) > n THEN n ELSE Len(chunk)
           rest == SubSeq(chunk, n + 1, Len(chunk))
           q == Left(old, n)
           p == SubSeq(chunk, 1, k)
           new == got \o p
<1>0. /\ Taken(old, n) = p /\ (Len(chunk) > n => k = n /\ q = <<rest>> \o r)
      /\ (~(Len(chunk) > n) => k = Len(chunk) /\ q = r)
  BY DEF Left, Taken
<1>1. /\ old \in Seq(Chunk) /\ w \in Seq(Chunk) /\ sent \in Nat /\ got \in Seq(Nat)
      /\ Len(got) \in Nat /\ Leads(Len(got), U, sent) /\ Unmarked(old)
      /\ \A i \in 1..Len(got) : got[i] = i
  BY LenProperties DEF StreamInv, StreamTypes, SockState, BytesFollow
<1>2. /\ chunk \in Chunk /\ r \in Seq(Chunk) /\ Len(r) = Len(old) - 1 /\ old[1] = chunk
      /\ \A i \in 1..Len(r) : r[i] = old[i + 1]
      /\ Len(w) \in Nat /\ Len(old) \in Nat /\ Len(old) > 0
  BY <1>1, HeadTailProperties, LenProperties, EmptySeq
<1>3. /\ U \in Seq(Chunk) /\ Len(U) = Len(old) + Len(w)
      /\ \A i \in 1..Len(U) : U[i] = IF i <= Len(old) THEN old[i] ELSE w[i - Len(old)]
  BY <1>1, ConcatProperties
<1> HIDE DEF U, old, w, r, chunk, k, rest, q, p, new
<1>4. /\ 1 \in 1..Len(U) /\ U[1] = chunk /\ chunk \notin Marks /\ U # <<>>
      /\ \A i \in 1..Len(r) : r[i] \notin Marks
  <2>1. 1 \in 1..Len(U) /\ U[1] = chunk /\ 1 \in 1..Len(old)
    BY <1>2, <1>3
  <2>2. U # <<>>
    BY <2>1
  <2>3. chunk \notin Marks
    BY <1>1, <1>2, <2>1 DEF Unmarked
  <2>4. ASSUME NEW i \in 1..Len(r) PROVE r[i] \notin Marks
    <3>1. i + 1 \in 1..Len(old) /\ r[i] = old[i + 1]
      BY <1>2
    <3> QED
      BY <1>1, <3>1 DEF Unmarked
  <2> QED
    BY <2>1, <2>2, <2>3, <2>4
<1>5. /\ Len(chunk) \in Nat /\ Len(chunk) > 0
      /\ \A i \in 1..Len(chunk) : chunk[i] = Len(got) + i
  <2>1. ByteBefore(Len(got), U, 1) = Len(got)
    BY DEF ByteBefore
  <2>2. /\ Len(U[1]) \in Nat /\ Len(U[1]) > 0
        /\ \A i \in 1..Len(U[1]) : U[1][i] = ByteBefore(Len(got), U, 1) + i
    BY <1>1, <1>3, <1>4, LastByte, Zenon
  <2> QED
    BY <1>4, <2>1, <2>2
<1>6. k \in Nat /\ k > 0 /\ k <= Len(chunk)
  BY <1>0, <1>5
<1>7. /\ new \in Seq(Nat) /\ Len(new) = Len(got) + k
      /\ \A i \in 1..Len(new) : new[i] = i
  <2>1. \A i \in 1..k : chunk[i] \in Nat
    BY <1>2, <1>5, <1>6, ElementOfSeq DEF Chunk
  <2>2. p \in Seq(Nat) /\ Len(p) = k - 1 + 1 /\ \A i \in 1..(k - 1 + 1) : p[i] = chunk[1 + i - 1]
    BY <1>6, <2>1, SubSeqProperties, SMTT(60) DEF p
  <2>3. Len(p) = k /\ \A i \in 1..k : p[i] = Len(got) + i
    <3>1. k - 1 + 1 = k
      BY <1>6
    <3>2. ASSUME NEW i \in 1..k PROVE p[i] = Len(got) + i
      <4>1. 1 + i - 1 = i /\ i \in 1..Len(chunk)
        BY <1>5, <1>6
      <4> QED
        BY <1>5, <2>2, <3>1, <4>1
    <3> QED
      BY <2>2, <3>1, <3>2
  <2>4. /\ new \in Seq(Nat) /\ Len(new) = Len(got) + Len(p)
        /\ \A i \in 1..Len(new) :
             new[i] = IF i <= Len(got) THEN got[i] ELSE p[i - Len(got)]
    <3>1. p \in Seq(Nat)
      BY <2>2
    <3> QED
      BY <1>1, <3>1, ConcatProperties, SMTT(60) DEF new
  <2>5. ASSUME NEW i \in 1..Len(new) PROVE new[i] = i
    <3>1. CASE i <= Len(got)
      <4>1. i \in 1..Len(got)
        BY <1>1, <3>1
      <4> QED
        BY <1>1, <2>4, <3>1, <4>1
    <3>2. CASE ~(i <= Len(got))
      <4>1. i - Len(got) \in 1..k /\ Len(got) + (i - Len(got)) = i
        BY <1>1, <1>6, <2>3, <2>4, <3>2
      <4> QED
        BY <2>3, <2>4, <3>2, <4>1
    <3> QED
      BY <3>1, <3>2
  <2> QED
    BY <2>3, <2>4, <2>5
<1>8. CASE Len(chunk) > n
  <2>1. rest \in Chunk
    <3>1. \A i \in (n + 1)..Len(chunk) : chunk[i] \in Nat
      BY <1>2, <1>5, ElementOfSeq DEF Chunk
    <3> QED
      BY <1>5, <3>1, SubSeqProperties DEF Chunk, rest
  <2>2. k = n /\ q = <<rest>> \o r
    BY <1>0, <1>8
  <2>3. /\ q \in Seq(Chunk) /\ Len(q) = Len(old) /\ q[1] = rest
        /\ \A i \in 2..Len(old) : q[i] = old[i]
    <3>1. <<rest>> \in Seq(Chunk) /\ Len(<<rest>>) = 1 /\ <<rest>>[1] = rest
      BY <2>1
    <3>2. /\ q \in Seq(Chunk) /\ Len(q) = 1 + Len(r)
          /\ \A i \in 1..Len(q) : q[i] = IF i <= 1 THEN <<rest>>[i] ELSE r[i - 1]
      BY <1>2, <2>2, <3>1, ConcatProperties
    <3>3. ASSUME NEW i \in 2..Len(old) PROVE q[i] = old[i]
      <4>1. i - 1 \in 1..Len(r) /\ i - 1 + 1 = i /\ i \in 1..Len(q) /\ ~(i <= 1)
        BY <1>2, <3>2
      <4> QED
        BY <1>2, <3>2, <4>1
    <3>4. q[1] = rest
      BY <1>2, <3>1, <3>2
    <3> QED
      BY <1>2, <3>2, <3>3, <3>4
  <2> DEFINE V == q \o w
  <2>4. /\ V \in Seq(Chunk) /\ Len(V) = Len(q) + Len(w)
        /\ \A i \in 1..Len(V) : V[i] = IF i <= Len(q) THEN q[i] ELSE w[i - Len(q)]
    <3>1. q \in Seq(Chunk) /\ w \in Seq(Chunk)
      BY <1>1, <2>3
    <3> QED
      BY ONLY <3>1, ConcatProperties DEF V
  <2> HIDE DEF V
  <2>5. Len(V) = Len(U) /\ V[1] = rest
    BY <1>2, <1>3, <2>3, <2>4
  <2>6. ASSUME NEW i \in 2..Len(U) PROVE V[i] = U[i]
    <3>1. i \in 1..Len(U) /\ i \in 1..Len(V)
      BY <2>5
    <3>2. CASE i <= Len(old)
      BY <1>3, <2>3, <2>4, <3>1, <3>2
    <3>3. CASE ~(i <= Len(old))
      BY <1>3, <2>3, <2>4, <3>1, <3>3
    <3> QED
      BY <3>2, <3>3
  <2>7. rest \notin Marks /\ Leads(Len(got) + n, V, sent)
    <3>1. rest = SubSeq(U[1], n + 1, Len(U[1])) /\ n < Len(U[1])
      BY <1>4, <1>5, <1>8 DEF rest
    <3> QED
      BY <1>1, <1>3, <1>4, <2>1, <2>4, <2>5, <2>6, <3>1, LeadsWithin
  <2>8. Unmarked(q)
    <3> SUFFICES ASSUME NEW i \in 1..Len(q) PROVE q[i] \notin Marks
      BY DEF Unmarked
    <3>1. CASE i = 1
      BY <2>3, <2>7, <3>1
    <3>2. CASE i # 1
      <4>1. i \in 2..Len(old) /\ i \in 1..Len(old)
        BY <1>2, <2>3, <3>2
      <4> QED
        BY <1>1, <2>3, <4>1 DEF Unmarked
    <3> QED
      BY <3>1, <3>2
  <2> QED
    BY <1>0, <1>7, <2>2, <2>3, <2>7, <2>8 DEF V, w, old, q, new
<1>9. CASE ~(Len(chunk) > n)
  <2>1. k = Len(chunk) /\ q = r
    BY <1>0, <1>9
  <2> DEFINE V == r \o w
  <2>2. /\ V \in Seq(Chunk) /\ Len(V) = Len(r) + Len(w)
        /\ \A i \in 1..Len(V) : V[i] = IF i <= Len(r) THEN r[i] ELSE w[i - Len(r)]
    <3>1. r \in Seq(Chunk) /\ w \in Seq(Chunk)
      BY <1>1, <1>2
    <3> QED
      BY ONLY <3>1, ConcatProperties DEF V
  <2> HIDE DEF V
  <2>3. Len(V) = Len(U) - 1
    BY <1>2, <1>3, <2>2
  <2>4. ASSUME NEW i \in 1..Len(V) PROVE V[i] = U[i + 1]
    <3>1. i + 1 \in 1..Len(U)
      BY <1>2, <1>3, <2>3
    <3>2. CASE i <= Len(r)
      BY <1>2, <1>3, <2>2, <3>1, <3>2
    <3>3. CASE ~(i <= Len(r))
      <4>1. ~(i + 1 <= Len(old)) /\ i + 1 - Len(old) = i - Len(r)
        BY <1>2, <3>3
      <4> QED
        BY <1>3, <2>2, <3>1, <3>3, <4>1, SMTT(30)
    <3> QED
      BY <3>2, <3>3
  <2>5. Leads(Len(got) + Len(chunk), V, sent)
    BY <1>1, <1>3, <1>4, <2>2, <2>3, <2>4, LeadsPast
  <2>6. Unmarked(q)
    BY <1>4, <2>1 DEF Unmarked
  <2> QED
    BY <1>0, <1>2, <1>7, <2>1, <2>5, <2>6 DEF V, w, old, q, new
<1> QED
  BY <1>8, <1>9

\* _read_ready
LEMMA ReadsStep == StreamInv /\ Stream!TransportReads => StreamInv'
<1> SUFFICES ASSUME StreamInv, Stream!TransportReads PROVE StreamInv'
  OBVIOUS
<1> DEFINE x == Head(wire)
<1>1. /\ sock \in SockState /\ LinkOK(sock) /\ BytesFollow
      /\ \A t \in Stream!StreamUser : at[t] \in TaskState /\ TaskFits(at[t], sock)
      /\ at \in [Stream!StreamUser -> TaskState]
  BY DEF StreamInv, StreamTypes
<1>2. /\ sock.reading /\ ~sock.closing /\ wire # <<>> /\ wire' = Tail(wire)
      /\ sent' = sent /\ got' = got /\ ended' = ended
  BY DEF Stream!TransportReads
<1>3. /\ x \in Chunk /\ Tail(wire) \in Seq(Chunk)
      /\ x \in Marks => /\ Tail(wire) = <<>>
                        /\ Leads(Len(got), sock.queue \o Tail(wire), sent)
      /\ x \notin Marks => /\ Append(sock.queue, x) \in Seq(Chunk)
                           /\ Leads(Len(got), Append(sock.queue, x) \o Tail(wire), sent)
                           /\ Unmarked(Append(sock.queue, x))
  BY <1>2, ReadOrder
<1>4. ~ended /\ ~sock.atEof /\ sock.lost = "no"
  BY <1>1, <1>2 DEF BytesFollow, LinkOK
<1>5. /\ x = <<>> => /\ sock' = [sock EXCEPT !.atEof = TRUE, !.readSet = TRUE, !.reading = FALSE]
                     /\ at' = Stream!Wake({"reading"})
      /\ x = <<0>> => sock' = Stream!ForceClosed(sock, TRUE) /\ at' = at
      /\ x \notin Marks =>
           /\ sock' = [sock EXCEPT !.queue = Append(sock.queue, x), !.readSet = TRUE]
           /\ at' = Stream!Wake({"reading"})
  <2>1. <<>> # <<0>>
    OBVIOUS
  <2> QED
    BY <2>1 DEF Stream!TransportReads, Stream!EndOfFile, Stream!Reset, Marks
<1> HIDE DEF x
<1>6. CASE x = <<>>
  <2>1. x \in Marks
    BY <1>6 DEF Marks
  <2>2. /\ sock' \in SockState /\ sock'.queue = sock.queue /\ sock'.atEof /\ sock'.readSet
        /\ sock'.lost = sock.lost /\ sock'.buffer = sock.buffer /\ sock'.closed = sock.closed
        /\ sock'.closing = sock.closing /\ sock'.writeSet = sock.writeSet
        /\ sock'.receiveGuard = sock.receiveGuard /\ sock'.exception = sock.exception
    BY <1>1, <1>5, <1>6, ZenonT(40) DEF SockState
  <2>3. BytesFollow'
    BY <1>1, <1>2, <1>3, <1>4, <2>1, <2>2 DEF BytesFollow
  <2>4. LinkOK(sock')
    BY <1>1, <2>2 DEF LinkOK
  <2>7. ASSUME NEW t \in Stream!StreamUser
        PROVE  at'[t].place = at[t].place /\ TaskFits(at'[t], sock')
    <3>1. /\ at'[t].place = at[t].place /\ at'[t].behind = at[t].behind
          /\ at'[t].woken = (at[t].woken \/ at[t].place \in {"reading"})
      BY <1>5, <1>6, WokenTasks, Zenon
    <3>2. TaskFits(at[t], sock)
      BY <1>1
    <3> QED
      BY <2>2, <3>1, <3>2 DEF TaskFits, Had, Receiving, WritePending
  <2>5. \A t \in Stream!StreamUser : at'[t].place = at[t].place /\ TaskFits(at'[t], sock')
    BY <2>7
  <2> QED
    BY <1>2, <1>3, <1>5, <1>6, <2>2, <2>3, <2>4, <2>5, LoopStep, WokenTasks
<1>7. CASE x = <<0>>
  <2>1. x \in Marks
    BY <1>7 DEF Marks
  <2>2. /\ sock' \in SockState /\ LinkOK(sock') /\ ReadKeeps(sock, sock')
        /\ WriteKeeps(sock, sock')
    BY <1>1, <1>5, <1>7, ForceFacts
  <2>3. BytesFollow'
    BY <1>1, <1>2, <1>3, <1>4, <2>1, <2>2 DEF BytesFollow, ReadKeeps
  <2>5. \A t \in Stream!StreamUser : at'[t].place = at[t].place /\ TaskFits(at'[t], sock')
    BY <1>1, <1>5, <1>7, <2>2
    DEF TaskFits, Had, Receiving, ReadPending, ReadKeeps, WriteKeeps
  <2> QED
    BY <1>1, <1>2, <1>3, <1>5, <1>7, <2>2, <2>3, <2>5, LoopStep
<1>8. CASE x \notin Marks
  <2>0. Append(sock.queue, x) # <<>>
    <3>1. sock.queue \in Seq(Chunk)
      BY <1>1 DEF SockState
    <3>2. Len(Append(sock.queue, x)) = Len(sock.queue) + 1 /\ Len(sock.queue) \in Nat
      BY <1>3, <3>1, AppendProperties, LenProperties
    <3> QED
      BY <3>2
  <2>2. /\ sock' \in SockState /\ sock'.queue = Append(sock.queue, x) /\ sock'.readSet
        /\ sock'.atEof = sock.atEof
        /\ sock'.lost = sock.lost /\ sock'.buffer = sock.buffer /\ sock'.closed = sock.closed
        /\ sock'.closing = sock.closing /\ sock'.writeSet = sock.writeSet
        /\ sock'.receiveGuard = sock.receiveGuard /\ sock'.exception = sock.exception
    <3> DEFINE q == Append(sock.queue, x)
    <3>1. q \in Seq(Chunk) /\ sock' = [sock EXCEPT !.queue = q, !.readSet = TRUE]
      BY <1>3, <1>5, <1>8
    <3> HIDE DEF q
    <3> QED
      BY <1>1, <3>1 DEF SockState, q
  <2>3. BytesFollow'
    BY <1>1, <1>2, <1>3, <1>4, <1>8, <2>2 DEF BytesFollow
  <2>4. LinkOK(sock') /\ sock'.queue # <<>>
    BY <1>1, <2>0, <2>2 DEF LinkOK
  <2>7. ASSUME NEW t \in Stream!StreamUser
        PROVE  at'[t].place = at[t].place /\ TaskFits(at'[t], sock')
    <3>1. /\ at'[t].place = at[t].place /\ at'[t].behind = at[t].behind
          /\ at'[t].woken = (at[t].woken \/ at[t].place \in {"reading"})
      BY <1>5, <1>8, WokenTasks, Zenon
    <3>2. TaskFits(at[t], sock)
      BY <1>1
    <3> QED
      BY <2>2, <2>4, <3>1, <3>2 DEF TaskFits, Had, Receiving, WritePending
  <2>5. \A t \in Stream!StreamUser : at'[t].place = at[t].place /\ TaskFits(at'[t], sock')
    BY <2>7
  <2> QED
    BY <1>2, <1>3, <1>5, <1>8, <2>2, <2>3, <2>4, <2>5, LoopStep, WokenTasks
<1> QED
  BY <1>6, <1>7, <1>8 DEF Marks

\* connection_lost()
LEMMA LostFacts ==
  ASSUME NEW s \in SockState, LinkOK(s), NEW exc \in BOOLEAN, exc \/ s.closed \/ s.exception,
         ~s.buffer, s.closing,
         NEW r, r = Stream!Lost(s, exc)
  PROVE  /\ r \in SockState /\ r.lost = "done" /\ (r.closed \/ r.exception)
         /\ r.readSet /\ r.writeSet /\ r.queue = s.queue /\ r.atEof = s.atEof
         /\ r.closed = s.closed /\ r.receiveGuard = s.receiveGuard /\ LinkOK(r)
<1>1. r = [s EXCEPT !.lost = "done", !.exception = s.exception \/ exc, !.readSet = TRUE,
                    !.writeSet = TRUE]
  BY DEF Stream!Lost
<1>2. /\ r \in SockState /\ r.lost = "done" /\ r.readSet /\ r.writeSet
      /\ r.queue = s.queue /\ r.atEof = s.atEof /\ r.closing = s.closing
      /\ r.closed = s.closed /\ r.receiveGuard = s.receiveGuard /\ r.buffer = s.buffer
      /\ r.exception = (s.exception \/ exc)
  BY <1>1 DEF SockState
<1> QED
  BY <1>2 DEF LinkOK

LEMMA LostStep == StreamInv /\ Stream!ConnectionLost => StreamInv'
<1> SUFFICES ASSUME StreamInv, Stream!ConnectionLost PROVE StreamInv'
  OBVIOUS
<1>1. /\ sock \in SockState /\ LinkOK(sock) /\ BytesFollow
      /\ \A t \in Stream!StreamUser : at[t] \in TaskState /\ TaskFits(at[t], sock)
      /\ at \in [Stream!StreamUser -> TaskState]
      /\ wire \in Seq(Chunk)
  BY DEF StreamInv, StreamTypes
<1>2. /\ sock.lost \in {"error", "clean"} /\ sock' = Stream!Lost(sock, sock.lost = "error")
      /\ at' = [t \in Stream!StreamUser |-> [Stream!LostWakes[t] EXCEPT !.behind = FALSE]]
      /\ wire' = wire /\ sent' = sent /\ got' = got /\ ended' = ended
  BY DEF Stream!ConnectionLost
<1>3. /\ sock' \in SockState /\ sock'.lost = "done" /\ (sock'.closed \/ sock'.exception)
      /\ sock'.queue = sock.queue /\ sock'.atEof = sock.atEof /\ LinkOK(sock')
      /\ sock'.closed = sock.closed /\ sock'.receiveGuard = sock.receiveGuard
  <2>1. ~sock.buffer /\ sock.closing /\ (sock.lost = "error" \/ sock.closed \/ sock.exception)
    BY <1>1, <1>2 DEF LinkOK
  <2> QED
    BY <1>1, <1>2, <2>1, LostFacts, ZenonT(40)
<1>4. BytesFollow'
  BY <1>2, <1>3, SameBytes
<1>5. ASSUME NEW t \in Stream!StreamUser
      PROVE  /\ at'[t] \in TaskState /\ at'[t].place = at[t].place
             /\ at'[t].place \in {"reading", "writing"} => at'[t].woken
  <2>1. Stream!LostWakes[t] = IF at[t].place \in {"reading", "writing"}
                              THEN [at[t] EXCEPT !.woken = TRUE] ELSE at[t]
    BY DEF Stream!LostWakes, Stream!Wake
  <2>2. at'[t] = [Stream!LostWakes[t] EXCEPT !.behind = FALSE]
    BY <1>2
  <2>3. at[t] \in TaskState
    BY <1>1
  <2> QED
    BY <2>1, <2>2, <2>3 DEF TaskState
<1>6. ASSUME NEW t \in Stream!StreamUser PROVE TaskFits(at'[t], sock')
  BY <1>1, <1>3, <1>5 DEF TaskFits, Had, Receiving
<1>7. at' \in [Stream!StreamUser -> TaskState]
  BY <1>2, <1>5
<1> QED
  BY <1>1, <1>2, <1>3, <1>4, <1>5, <1>6, <1>7, LoopStep

\* _write_ready()
LEMMA WritesStep == StreamInv /\ Stream!TransportWrites => StreamInv'
<1> SUFFICES ASSUME StreamInv, Stream!TransportWrites PROVE StreamInv'
  OBVIOUS
<1>1. /\ sock \in SockState /\ LinkOK(sock) /\ BytesFollow
      /\ \A t \in Stream!StreamUser : at[t] \in TaskState /\ TaskFits(at[t], sock)
      /\ at \in [Stream!StreamUser -> TaskState]
      /\ wire \in Seq(Chunk)
  BY DEF StreamInv, StreamTypes
<1>2. /\ wire' = wire /\ sent' = sent /\ got' = got /\ ended' = ended
      /\ sock.buffer
  BY DEF Stream!TransportWrites
<1>3. sock.lost = "no" /\ (sock.closing => sock.closed)
  BY <1>1, <1>2 DEF LinkOK
<1> DEFINE s == [sock EXCEPT !.buffer = FALSE, !.writeSet = TRUE]
<1>4. /\ s \in SockState /\ s.queue = sock.queue /\ s.atEof = sock.atEof /\ s.lost = sock.lost
      /\ s.closing = sock.closing /\ s.closed = sock.closed /\ s.exception = sock.exception
      /\ s.writeSet /\ ~s.buffer /\ s.receiveGuard = sock.receiveGuard
      /\ s.readSet = sock.readSet /\ s.reading = sock.reading
  BY <1>1 DEF SockState
<1>5. LinkOK(s)
  BY <1>1, <1>3, <1>4 DEF LinkOK
<1>6. \/ sock.closing /\ sock' = Stream!Lost(s, FALSE) /\ at' = Stream!Wake({"reading", "writing"})
      \/ ~sock.closing /\ sock' = s /\ at' = Stream!Wake({"writing"})
      \/ sock' = Stream!ForceClosed(sock, TRUE) /\ at' = at
  BY DEF Stream!TransportWrites, Stream!LostWakes
<1> HIDE DEF s
<1>7. CASE sock.closing /\ sock' = Stream!Lost(s, FALSE)
           /\ at' = Stream!Wake({"reading", "writing"})
  <2>1. /\ sock' \in SockState /\ sock'.lost = "done" /\ (sock'.closed \/ sock'.exception)
        /\ sock'.queue = sock.queue /\ sock'.atEof = sock.atEof /\ LinkOK(sock')
        /\ sock'.closed = sock.closed /\ sock'.receiveGuard = sock.receiveGuard
    BY <1>3, <1>4, <1>5, <1>7, LostFacts
  <2>2. BytesFollow'
    BY <1>2, <2>1, SameBytes
  <2>7. ASSUME NEW t \in Stream!StreamUser
        PROVE  at'[t].place = at[t].place /\ TaskFits(at'[t], sock')
    <3>1. /\ at'[t].place = at[t].place /\ at'[t].behind = at[t].behind
          /\ at'[t].woken = (at[t].woken \/ at[t].place \in {"reading", "writing"})
      BY <1>7, WokenTasks, Zenon
    <3>2. TaskFits(at[t], sock)
      BY <1>1
    <3> QED
      BY <1>7, <2>1, <3>1, <3>2 DEF TaskFits, Had, Receiving
  <2>3. \A t \in Stream!StreamUser : at'[t].place = at[t].place /\ TaskFits(at'[t], sock')
    BY <2>7
  <2> QED
    BY <1>1, <1>2, <1>7, <2>1, <2>2, <2>3, LoopStep, WokenTasks
<1>8. CASE ~sock.closing /\ sock' = s /\ at' = Stream!Wake({"writing"})
  <2>2. BytesFollow'
    BY <1>2, <1>4, <1>8, SameBytes
  <2>7. ASSUME NEW t \in Stream!StreamUser
        PROVE  at'[t].place = at[t].place /\ TaskFits(at'[t], sock')
    <3>1. /\ at'[t].place = at[t].place /\ at'[t].behind = at[t].behind
          /\ at'[t].woken = (at[t].woken \/ at[t].place \in {"writing"})
      BY <1>8, WokenTasks, Zenon
    <3>2. TaskFits(at[t], sock)
      BY <1>1
    <3> QED
      BY <1>4, <1>8, <3>1, <3>2 DEF TaskFits, Had, Receiving, ReadPending
  <2>3. \A t \in Stream!StreamUser : at'[t].place = at[t].place /\ TaskFits(at'[t], sock')
    BY <2>7
  <2> QED
    BY <1>1, <1>2, <1>4, <1>5, <1>8, <2>2, <2>3, LoopStep, WokenTasks
<1>9. CASE sock' = Stream!ForceClosed(sock, TRUE) /\ at' = at
  <2>1. /\ sock' \in SockState /\ LinkOK(sock') /\ ReadKeeps(sock, sock')
        /\ WriteKeeps(sock, sock')
    BY <1>1, <1>9, ForceFacts
  <2>2. BytesFollow'
    BY <1>2, <2>1, SameBytes DEF ReadKeeps
  <2>3. \A t \in Stream!StreamUser : at'[t].place = at[t].place /\ TaskFits(at'[t], sock')
    BY <1>1, <1>9, <2>1
    DEF TaskFits, Had, Receiving, ReadPending, ReadKeeps, WriteKeeps
  <2> QED
    BY <1>1, <1>2, <1>9, <2>1, <2>2, <2>3, LoopStep
<1> QED
  BY <1>6, <1>7, <1>8, <1>9

\* receive() begins: it has something already, or waits.
LEMMA StartReceiveStep ==
  ASSUME StreamInv, NEW t \in Stream!StreamUser, Stream!StartReceive(t)
  PROVE  StreamInv'
<1>1. /\ sock \in SockState /\ LinkOK(sock) /\ at[t].place = "idle" /\ ~sock.receiveGuard
      /\ got' = got /\ got \in Seq(Nat) /\ wire' = wire /\ sent' = sent /\ ended' = ended
  BY TaskOf DEF Stream!StartReceive
<1>2. \A u \in Stream!StreamUser : u # t => ~Receiving(at[u])
  BY <1>1 DEF StreamInv, TaskFits
<1>3. CASE Stream!Ready
  <2>1. Stream!At(t, "checkpoint") /\ sock' = [sock EXCEPT !.receiveGuard = TRUE]
    BY <1>3 DEF Stream!StartReceive
  <2>2. PICK p \in TaskState :
          /\ at' = [at EXCEPT ![t] = p] /\ p.place = "checkpoint" /\ ~p.woken
          /\ p.behind = (sock.lost \in {"error", "clean"})
    BY <2>1, AtStep
  <2>3. /\ sock' \in SockState /\ sock'.queue = sock.queue /\ sock'.atEof = sock.atEof
        /\ sock'.closed = sock.closed /\ sock'.exception = sock.exception
        /\ sock'.lost = sock.lost /\ sock'.buffer = sock.buffer /\ sock'.closing = sock.closing
        /\ sock'.readSet = sock.readSet /\ sock'.writeSet = sock.writeSet /\ sock'.receiveGuard
    BY <1>1, <2>1 DEF SockState
  <2>4. LinkOK(sock') /\ WriteKeeps(sock, sock') /\ BytesFollow'
    BY <1>1, <2>3, SameBytes DEF LinkOK, WriteKeeps, WritePending
  <2>5. TaskFits(p, sock')
    BY <1>1, <1>3, <2>2, <2>3 DEF TaskFits, Had, LinkOK, Stream!Ready, SockState
  <2> QED
    BY <1>1, <1>2, <2>2, <2>3, <2>4, <2>5, TaskStep
<1>4. CASE ~Stream!Ready
  <2>1. Stream!At(t, "reading") /\ sock' = [sock EXCEPT !.receiveGuard = TRUE, !.reading = TRUE]
    BY <1>4 DEF Stream!StartReceive
  <2>2. PICK p \in TaskState :
          /\ at' = [at EXCEPT ![t] = p] /\ p.place = "reading" /\ ~p.woken
    BY <2>1, AtStep
  <2>3. /\ sock' \in SockState /\ sock'.queue = sock.queue /\ sock'.atEof = sock.atEof
        /\ sock'.closed = sock.closed /\ sock'.exception = sock.exception /\ sock'.reading
        /\ sock'.lost = sock.lost /\ sock'.buffer = sock.buffer /\ sock'.closing = sock.closing
        /\ sock'.readSet = sock.readSet /\ sock'.writeSet = sock.writeSet /\ sock'.receiveGuard
    BY <1>1, <2>1 DEF SockState
  <2>4. LinkOK(sock') /\ WriteKeeps(sock, sock') /\ BytesFollow'
    BY <1>1, <2>3, SameBytes DEF LinkOK, WriteKeeps, WritePending
  <2>5. TaskFits(p, sock')
    BY <1>1, <1>4, <2>2, <2>3
    DEF TaskFits, Had, LinkOK, Stream!Ready, SockState, ReadPending, Receiving
  <2> QED
    BY <1>1, <1>2, <2>2, <2>3, <2>4, <2>5, TaskStep
<1> QED
  BY <1>3, <1>4

\* receive() ends.
LEMMA EndReceiveStep ==
  ASSUME StreamInv, NEW t \in Stream!StreamUser, NEW n \in 1..2, Stream!EndReceive(t, n)
  PROVE  StreamInv'
<1>1. /\ sock \in SockState /\ LinkOK(sock) /\ TaskFits(at[t], sock) /\ got \in Seq(Nat)
      /\ wire' = wire /\ sent' = sent
      /\ Stream!Idle \in TaskState /\ at' = [at EXCEPT ![t] = Stream!Idle]
      /\ \A s : TaskFits(Stream!Idle, s) /\ ~Receiving(Stream!Idle)
  BY TaskOf DEF Stream!EndReceive
<1>2. /\ \/ at[t].place = "reading" /\ at[t].woken
         \/ at[t].place = "checkpoint" /\ ~at[t].behind
      /\ Receiving(at[t]) /\ Had(sock)
  BY <1>1 DEF Stream!EndReceive, TaskFits, Receiving
<1>3. \A u \in Stream!StreamUser : u # t => ~Receiving(at[u])
  BY <1>2, TaskOf
<1> DEFINE s == [sock EXCEPT !.reading = sock.reading /\ at[t].place # "reading",
                             !.receiveGuard = FALSE]
<1>4. /\ s \in SockState /\ s.queue = sock.queue /\ s.atEof = sock.atEof
      /\ s.closed = sock.closed /\ s.exception = sock.exception
      /\ s.lost = sock.lost /\ s.buffer = sock.buffer /\ s.closing = sock.closing
      /\ s.readSet = sock.readSet /\ s.writeSet = sock.writeSet
  BY <1>1 DEF SockState
<1>5. /\ sock.queue = <<>> =>
           /\ sock' = s /\ got' = got
           /\ ended' = (ended \/ (~sock.closed /\ ~sock.exception))
      /\ sock.queue # <<>> =>
           /\ got' = got \o Taken(sock.queue, n) /\ ended' = ended
           /\ sock' = [s EXCEPT !.queue = Left(sock.queue, n),
                                !.readSet = s.readSet /\ Left(sock.queue, n) # <<>>]
  BY DEF Stream!EndReceive, Stream!PutBack, Stream!StaysSet, Taken, Left
<1> HIDE DEF s
<1>6. CASE sock.queue = <<>>
  <2>1. LinkOK(s) /\ WriteKeeps(sock, s)
    BY <1>1, <1>4 DEF LinkOK, WriteKeeps, WritePending
  <2>2. BytesFollow'
    BY <1>1, <1>2, <1>4, <1>5, <1>6 DEF StreamInv, BytesFollow, Had
  <2> QED
    BY <1>1, <1>2, <1>3, <1>4, <1>5, <1>6, <2>1, <2>2, TaskStep
<1>7. CASE sock.queue # <<>>
  <2> DEFINE q == Left(sock.queue, n)
             new == got \o Taken(sock.queue, n)
  <2>1. /\ q \in Seq(Chunk) /\ Unmarked(q) /\ new \in Seq(Nat)
        /\ Leads(Len(new), q \o wire, sent) /\ \A i \in 1..Len(new) : new[i] = i
    <3>1. n \in Nat /\ n > 0
      OBVIOUS
    <3> QED
      BY <1>7, <3>1, TakeOrder
  <2>2. /\ got' = new /\ ended' = ended
        /\ sock' = [s EXCEPT !.queue = q, !.readSet = s.readSet /\ q # <<>>]
    BY <1>5, <1>7
  <2> HIDE DEF q, new
  <2>3. /\ sock' \in SockState /\ sock'.queue = q /\ sock'.atEof = s.atEof
        /\ sock'.closed = s.closed /\ sock'.exception = s.exception
        /\ sock'.lost = s.lost /\ sock'.buffer = s.buffer /\ sock'.closing = s.closing
        /\ sock'.readSet = (s.readSet /\ q # <<>>) /\ sock'.writeSet = s.writeSet
    BY <1>4, <2>1, <2>2 DEF SockState
  <2>4. LinkOK(sock') /\ WriteKeeps(sock, sock')
    BY <1>1, <1>4, <1>7, <2>3 DEF LinkOK, WriteKeeps, WritePending
  <2>5. ~ended /\ (sock.atEof => wire = <<>>)
    BY <1>7 DEF StreamInv, BytesFollow
  <2>6. BytesFollow'
    BY <1>1, <1>4, <2>1, <2>2, <2>3, <2>5 DEF BytesFollow
  <2> QED
    BY <1>1, <1>2, <1>3, <2>1, <2>2, <2>3, <2>4, <2>6, TaskStep
<1> QED
  BY <1>6, <1>7

\* A step that leaves the bytes and the receivers alone.
LEMMA OtherStep ==
  ASSUME StreamInv, NEW t \in Stream!StreamUser, NEW p \in TaskState,
         at' = [at EXCEPT ![t] = p], ~Receiving(p), TaskFits(p, sock'),
         sock' \in SockState, LinkOK(sock'), ReadKeeps(sock, sock'), WriteKeeps(sock, sock'),
         UNCHANGED <<wire, sent, got, ended>>
  PROVE  StreamInv'
<1>1. BytesFollow'
  BY SameBytes DEF ReadKeeps
<1>2. got \in Seq(Nat)
  BY DEF StreamInv, StreamTypes
<1> QED
  BY <1>1, <1>2, TaskStep

\* send() begins.
LEMMA StartSendStep ==
  ASSUME StreamInv, NEW t \in Stream!StreamUser, Stream!StartSend(t)
  PROVE  StreamInv'
<1>1. /\ sock \in SockState /\ LinkOK(sock)
      /\ UNCHANGED <<wire, sent, got, ended>>
      /\ Stream!At(t, "sending") /\ sock' = [sock EXCEPT !.sendGuard = TRUE]
  BY TaskOf DEF Stream!StartSend
<1>2. PICK p \in TaskState : at' = [at EXCEPT ![t] = p] /\ p.place = "sending"
  BY <1>1, AtStep
<1>3. /\ sock' \in SockState /\ LinkOK(sock') /\ ReadKeeps(sock, sock') /\ WriteKeeps(sock, sock')
  BY <1>1 DEF SockState, LinkOK, ReadKeeps, WriteKeeps, WritePending
<1> QED
  BY <1>1, <1>2, <1>3, OtherStep DEF TaskFits, Receiving

\* The end of a send()
LEMMA SendEndsStep ==
  ASSUME StreamInv, NEW t \in Stream!StreamUser, NEW s \in SockState, LinkOK(s),
         ReadKeeps(sock, s), WriteKeeps(sock, s), Stream!SendEnds(t, s), UNCHANGED <<wire, sent, got, ended>>
  PROVE  StreamInv'
<1>1. /\ at' = [at EXCEPT ![t] = Stream!Idle] /\ sock' = [s EXCEPT !.sendGuard = FALSE]
  BY DEF Stream!SendEnds
<1>2. /\ Stream!Idle \in TaskState
      /\ \A r : TaskFits(Stream!Idle, r) /\ ~Receiving(Stream!Idle)
  BY TaskOf
<1>3. sock' \in SockState /\ LinkOK(sock') /\ ReadKeeps(sock, sock') /\ WriteKeeps(sock, sock')
  BY <1>1 DEF SockState, LinkOK, ReadKeeps, WriteKeeps, WritePending
<1> QED
  BY <1>1, <1>2, <1>3, OtherStep

\* What write() may have done
LEMMA WrittenFacts ==
  ASSUME NEW s \in SockState, LinkOK(s), NEW r \in Stream!Written(s)
  PROVE  /\ r \in SockState /\ LinkOK(r) /\ ReadKeeps(s, r) /\ WriteKeeps(s, r)
         /\ ~r.writeSet => WritePending(r)
<1>1. \/ r = s /\ (s.lost # "no" \/ ~s.buffer)
      \/ s.lost = "no" /\ r = [s EXCEPT !.buffer = TRUE, !.writeSet = FALSE]
      \/ s.lost = "no" /\ r = Stream!ForceClosed(s, TRUE)
  BY DEF Stream!Written
<1>2. CASE r = s /\ (s.lost # "no" \/ ~s.buffer)
  BY <1>2 DEF LinkOK, ReadKeeps, WriteKeeps, WritePending, SockState
<1>3. CASE s.lost = "no" /\ r = [s EXCEPT !.buffer = TRUE, !.writeSet = FALSE]
  <2>1. /\ r \in SockState /\ r.buffer /\ ~r.writeSet /\ r.lost = s.lost
        /\ r.queue = s.queue /\ r.readSet = s.readSet /\ r.atEof = s.atEof
        /\ r.closed = s.closed /\ r.exception = s.exception /\ r.closing = s.closing
        /\ r.reading = s.reading /\ r.receiveGuard = s.receiveGuard
    BY <1>3 DEF SockState
  <2> QED
    BY <1>3, <2>1 DEF LinkOK, ReadKeeps, WriteKeeps, WritePending
<1>4. CASE s.lost = "no" /\ r = Stream!ForceClosed(s, TRUE)
  <2>1. /\ r \in SockState /\ LinkOK(r) /\ ReadKeeps(s, r) /\ WriteKeeps(s, r)
        /\ r.lost # "no" /\ r.lost # "done"
    BY <1>4, ForceFacts
  <2> QED
    BY <2>1 DEF WritePending, SockState
<1> QED
  BY <1>1, <1>2, <1>3, <1>4

\* Past the checkpoint of send()
LEMMA WriteItemStep ==
  ASSUME StreamInv, NEW t \in Stream!StreamUser, Stream!WriteItem(t)
  PROVE  StreamInv'
<1>1. /\ sock \in SockState /\ LinkOK(sock)
      /\ UNCHANGED <<wire, sent, got, ended>>
  BY TaskOf DEF Stream!WriteItem
<1>2. CASE sock.closed \/ sock.exception \/ sock.eofWritten
  <2>1. Stream!SendEnds(t, sock)
    BY <1>2 DEF Stream!WriteItem
  <2>2. ReadKeeps(sock, sock) /\ WriteKeeps(sock, sock)
    BY DEF ReadKeeps, WriteKeeps
  <2> QED
    BY <1>1, <2>1, <2>2, SendEndsStep
<1>3. CASE ~(sock.closed \/ sock.exception \/ sock.eofWritten)
  <2>1. PICK s \in Stream!Written(sock) :
          IF s.writeSet THEN Stream!SendEnds(t, s)
          ELSE Stream!At(t, "writing") /\ sock' = s
    BY <1>3 DEF Stream!WriteItem
  <2>3. /\ s \in SockState /\ LinkOK(s) /\ ReadKeeps(sock, s) /\ WriteKeeps(sock, s)
        /\ ~s.writeSet => WritePending(s)
    BY <1>1, WrittenFacts
  <2>4. CASE s.writeSet
    BY <1>1, <2>1, <2>3, <2>4, SendEndsStep
  <2>5. CASE ~s.writeSet
    <3>1. PICK p \in TaskState : at' = [at EXCEPT ![t] = p] /\ p.place = "writing" /\ ~p.woken
      BY <2>1, <2>5, AtStep
    <3>2. ~Receiving(p) /\ TaskFits(p, s) /\ sock' = s
      BY <2>1, <2>3, <2>5, <3>1 DEF Receiving, TaskFits
    <3> QED
      BY <1>1, <2>3, <3>1, <3>2, OtherStep
  <2> QED
    BY <2>4, <2>5
<1> QED
  BY <1>2, <1>3

LEMMA EndSendStep ==
  ASSUME StreamInv, NEW t \in Stream!StreamUser, Stream!EndSend(t)
  PROVE  StreamInv'
<1>1. /\ sock \in SockState /\ LinkOK(sock) /\ UNCHANGED <<wire, sent, got, ended>>
      /\ Stream!SendEnds(t, sock)
  BY TaskOf DEF Stream!EndSend
<1>2. ReadKeeps(sock, sock) /\ WriteKeeps(sock, sock)
  BY DEF ReadKeeps, WriteKeeps
<1> QED
  BY <1>1, <1>2, SendEndsStep

\* send_eof()
LEMMA SendEofStep ==
  ASSUME StreamInv, NEW t \in Stream!StreamUser, Stream!SendEof(t)
  PROVE  StreamInv'
<1>1. /\ sock \in SockState /\ LinkOK(sock) /\ UNCHANGED <<wire, sent, got, ended, at>>
      /\ at \in [Stream!StreamUser -> TaskState] /\ at[t].place = "idle"
      /\ sock' = [sock EXCEPT !.eofWritten = TRUE]
  BY TaskOf DEF Stream!SendEof, StreamInv, StreamTypes
<1>2. at' = [at EXCEPT ![t] = at[t]] /\ at[t] \in TaskState
  BY <1>1
<1>3. sock' \in SockState /\ LinkOK(sock') /\ ReadKeeps(sock, sock') /\ WriteKeeps(sock, sock')
  BY <1>1 DEF SockState, LinkOK, ReadKeeps, WriteKeeps, WritePending
<1>4. ~Receiving(at[t]) /\ TaskFits(at[t], sock')
  BY <1>1 DEF Receiving, TaskFits
<1> QED
  BY <1>1, <1>2, <1>3, <1>4, OtherStep

\* aclose()
LEMMA StartCloseStep ==
  ASSUME StreamInv, NEW t \in Stream!StreamUser, Stream!StartClose(t)
  PROVE  StreamInv'
<1> DEFINE s == [sock EXCEPT !.closed = TRUE, !.eofWritten = TRUE, !.closing = TRUE,
                             !.reading = FALSE]
<1>1. /\ sock \in SockState /\ LinkOK(sock) /\ UNCHANGED <<wire, sent, got, ended>>
      /\ ~sock.closing /\ Stream!At(t, "closing")
      /\ sock' = IF s.buffer THEN s ELSE [s EXCEPT !.lost = "clean"]
  BY TaskOf DEF Stream!StartClose
<1>2. PICK p \in TaskState : at' = [at EXCEPT ![t] = p] /\ p.place = "closing"
  BY <1>1, AtStep
<1>3. /\ s \in SockState /\ s.queue = sock.queue /\ s.readSet = sock.readSet
      /\ s.atEof = sock.atEof /\ s.closed /\ s.exception = sock.exception /\ s.closing
      /\ s.receiveGuard = sock.receiveGuard /\ s.buffer = sock.buffer
      /\ s.lost = sock.lost /\ s.writeSet = sock.writeSet
  BY <1>1 DEF SockState
<1> HIDE DEF s
<1>4. /\ sock' \in SockState /\ sock'.queue = s.queue /\ sock'.readSet = s.readSet
      /\ sock'.atEof = s.atEof /\ sock'.closed /\ sock'.exception = s.exception /\ sock'.closing
      /\ sock'.receiveGuard = s.receiveGuard /\ sock'.buffer = s.buffer
      /\ sock'.lost = (IF ~s.buffer THEN "clean" ELSE s.lost)
      /\ sock'.writeSet = s.writeSet
  <2>1. CASE ~s.buffer
    BY <1>1, <1>3, <2>1 DEF SockState
  <2>2. CASE s.buffer
    BY <1>1, <1>3, <2>2
  <2> QED
    BY <2>1, <2>2
<1>5. LinkOK(sock') /\ ReadKeeps(sock, sock') /\ WriteKeeps(sock, sock')
  BY <1>1, <1>3, <1>4 DEF LinkOK, ReadKeeps, WriteKeeps, WritePending
<1> QED
  BY <1>1, <1>2, <1>4, <1>5, OtherStep DEF Receiving, TaskFits

LEMMA EndCloseStep ==
  ASSUME StreamInv, NEW t \in Stream!StreamUser, Stream!EndClose(t)
  PROVE  StreamInv'
<1>1. /\ sock \in SockState /\ LinkOK(sock) /\ UNCHANGED <<wire, sent, got, ended>>
      /\ at[t].place = "closing" /\ TaskFits(at[t], sock)
      /\ at' = [at EXCEPT ![t] = Stream!Idle] /\ sock' = Stream!ForceClosed(sock, FALSE)
      /\ Stream!Idle \in TaskState
      /\ \A r : TaskFits(Stream!Idle, r) /\ ~Receiving(Stream!Idle)
  BY TaskOf DEF Stream!EndClose
<1>2. sock.closed
  BY <1>1 DEF TaskFits
<1>3. sock' \in SockState /\ LinkOK(sock') /\ ReadKeeps(sock, sock') /\ WriteKeeps(sock, sock')
  BY <1>1, <1>2, ForceFacts
<1> QED
  BY <1>1, <1>3, OtherStep

\* A cancelled call
LEMMA InterruptedStep ==
  ASSUME StreamInv, NEW t \in Stream!StreamUser, Stream!Interrupted(t)
  PROVE  StreamInv'
<1>1. /\ sock \in SockState /\ LinkOK(sock) /\ UNCHANGED <<wire, sent, got, ended>>
      /\ got \in Seq(Nat)
      /\ at' = [at EXCEPT ![t] = Stream!Idle]
      /\ sock' = [sock EXCEPT
                    !.receiveGuard = sock.receiveGuard
                                     /\ at[t].place \notin {"reading", "checkpoint"},
                    !.sendGuard = sock.sendGuard /\ at[t].place \notin {"sending", "writing"}]
      /\ Stream!Idle \in TaskState
      /\ \A r : TaskFits(Stream!Idle, r) /\ ~Receiving(Stream!Idle)
      /\ Receiving(at[t]) => \A u \in Stream!StreamUser : u # t => ~Receiving(at[u])
  BY TaskOf DEF Stream!Interrupted
<1>2. /\ sock' \in SockState /\ LinkOK(sock') /\ WriteKeeps(sock, sock')
      /\ ~Receiving(at[t]) => ReadKeeps(sock, sock')
      /\ sock'.queue = sock.queue /\ sock'.atEof = sock.atEof
  <2>1. /\ sock' \in SockState /\ sock'.queue = sock.queue /\ sock'.atEof = sock.atEof
        /\ sock'.readSet = sock.readSet /\ sock'.writeSet = sock.writeSet
        /\ sock'.closed = sock.closed /\ sock'.exception = sock.exception
        /\ sock'.lost = sock.lost /\ sock'.buffer = sock.buffer
        /\ sock'.closing = sock.closing /\ sock'.reading = sock.reading
        /\ ~Receiving(at[t]) => sock'.receiveGuard = sock.receiveGuard
    <3> DEFINE rec == sock.receiveGuard /\ at[t].place \notin {"reading", "checkpoint"}
               sen == sock.sendGuard /\ at[t].place \notin {"sending", "writing"}
    <3>1. sock' = [sock EXCEPT !.receiveGuard = rec, !.sendGuard = sen]
      BY <1>1
    <3>2. rec \in BOOLEAN /\ sen \in BOOLEAN /\ sock.receiveGuard \in BOOLEAN
      BY <1>1 DEF SockState
    <3>3. ~Receiving(at[t]) => rec = sock.receiveGuard
      BY <3>2 DEF Receiving
    <3> HIDE DEF rec, sen
    <3> QED
      BY <1>1, <3>1, <3>2, <3>3 DEF SockState
  <2> QED
    BY <1>1, <2>1 DEF LinkOK, ReadKeeps, WriteKeeps, WritePending
<1>3. BytesFollow'
  BY <1>1, <1>2, SameBytes
<1> QED
  BY <1>1, <1>2, <1>3, TaskStep

LEMMA NextStream == StreamInv /\ [Stream!SocketNext]_(Stream!streamVars) => StreamInv'
<1> SUFFICES ASSUME StreamInv, [Stream!SocketNext]_(Stream!streamVars) PROVE StreamInv'
  OBVIOUS
<1>1. CASE UNCHANGED Stream!streamVars
  BY <1>1 DEF Stream!streamVars, StreamInv, StreamTypes, BytesFollow
<1>2. CASE Stream!SocketNext
  <2>1. CASE \/ \E n \in Chunks : sent + n <= MaxBytes /\ Stream!PeerSends(Stream!NextChunk(n))
             \/ \E x \in {Stream!EndOfFile, Stream!Reset} : Stream!PeerSends(x)
    BY <2>1, PeerSteps
  <2>2. CASE Stream!TransportReads \/ Stream!TransportWrites \/ Stream!ConnectionLost
    BY <2>2, ReadsStep, WritesStep, LostStep
  <2>3. ASSUME NEW t \in Reader,
               Stream!StartReceive(t) \/ \E n \in 1..2 : Stream!EndReceive(t, n)
        PROVE  StreamInv'
    BY <2>3, StartReceiveStep, EndReceiveStep DEF Stream!StreamUser
  <2>4. ASSUME NEW t \in Writer,
               Stream!StartSend(t) \/ Stream!WriteItem(t) \/ Stream!EndSend(t) \/ Stream!SendEof(t)
        PROVE  StreamInv'
    BY <2>4, StartSendStep, WriteItemStep, EndSendStep, SendEofStep DEF Stream!StreamUser
  <2>5. ASSUME NEW t \in Closer, Stream!StartClose(t) \/ Stream!EndClose(t)
        PROVE  StreamInv'
    BY <2>5, StartCloseStep, EndCloseStep DEF Stream!StreamUser
  <2>6. ASSUME NEW t \in Stream!StreamUser, Stream!Interrupted(t)
        PROVE  StreamInv'
    BY <2>6, InterruptedStep
  <2> QED
    BY <1>2, <2>1, <2>2, <2>3, <2>4, <2>5, <2>6 DEF Stream!SocketNext
<1> QED
  BY <1>1, <1>2

\* A chunk is a function of its places.
LEMMA ChunkIs ==
  ASSUME NEW n \in Nat, NEW m \in Nat, NEW U \in Seq(Chunk), Leads(n, U, m),
         NEW i \in 1..Len(U), U[i] \notin Marks
  PROVE  U[i] = [k \in 1..Len(U[i]) |-> ByteBefore(n, U, i) + k]
<1>1. /\ \A k \in 1..Len(U[i]) : U[i][k] = ByteBefore(n, U, i) + k
      /\ Len(U[i]) \in Nat
  BY LastByte
<1>2. U[i] \in [1..Len(U[i]) -> Nat]
  BY ElementOfSeq, LenProperties DEF Chunk
<1> QED
  BY <1>1, <1>2

LEMMA StreamHolds == StreamInv => Stream!BytesInOrder /\ Stream!WaitsForEvents
<1> SUFFICES ASSUME StreamInv PROVE Stream!BytesInOrder /\ Stream!WaitsForEvents
  OBVIOUS
<1> DEFINE U == sock.queue \o wire
           n == Len(got)
<1>1. /\ sock \in SockState /\ sock.queue \in Seq(Chunk) /\ wire \in Seq(Chunk) /\ sent \in Nat
      /\ got \in Seq(Nat) /\ n \in Nat /\ U \in Seq(Chunk) /\ Leads(n, U, sent)
      /\ got \in [1..n -> Nat]
  BY LenProperties, ConcatProperties DEF StreamInv, StreamTypes, SockState, BytesFollow
<1>2. got = [i \in 1..Len(got) |-> i]
  BY <1>1 DEF StreamInv, BytesFollow
<1>3. Stream!UnderWay = U /\ \A i : Stream!Before(i) = ByteBefore(n, U, i)
  BY DEF Stream!UnderWay, Stream!Before, ByteBefore
<1>4. ended => sock.atEof /\ U = <<>>
  BY <1>1, ConcatEmptySeq DEF StreamInv, BytesFollow
<1>5. Stream!WaitsForEvents
  BY DEF Stream!WaitsForEvents, StreamInv, TaskFits, ReadPending, WritePending
<1> HIDE DEF U, n
<1>6. Len(U) \in Nat /\ DOMAIN U = 1..Len(U)
  BY <1>1, LenProperties
<1>7. U = <<>> => n = sent
  <2> HAVE U = <<>>
  <2>1. Len(U) = 0
    BY EmptySeq
  <2> QED
    BY <2>1, <1>1 DEF Leads, StopsAt, ByteBefore
<1>8. ASSUME NEW i \in 1..Len(U)
      PROVE  /\ U[i] \in Marks => i = Len(U) /\ ByteBefore(n, U, i) = sent
             /\ U[i] \notin Marks =>
                  /\ U[i] = [k \in 1..Len(U[i]) |-> ByteBefore(n, U, i) + k]
                  /\ i = Len(U) => ByteBefore(n, U, i + 1) = sent
  <2>1. U[i] \in Marks => i = Len(U) /\ ByteBefore(n, U, i) = sent
    BY <1>1 DEF Leads, EndsLast
  <2>2. U[i] \notin Marks => U[i] = [k \in 1..Len(U[i]) |-> ByteBefore(n, U, i) + k]
    BY <1>1, ChunkIs
  <2>3. ASSUME U[i] \notin Marks, i = Len(U)
        PROVE  ByteBefore(n, U, i + 1) = sent
    <3>1. \A j \in 1..Len(U) : U[j] \notin Marks
      BY <1>1, <2>3 DEF Leads, EndsLast
    <3> QED
      BY <1>1, <2>3, <3>1 DEF Leads, StopsAt
  <2> QED
    BY <2>1, <2>2, <2>3
<1>9. Stream!BytesInOrder
  <2>1. {Stream!EndOfFile, Stream!Reset} = Marks
    BY SMTT(30) DEF Stream!EndOfFile, Stream!Reset, Marks
  <2>2. ASSUME NEW i \in DOMAIN U
        PROVE  IF U[i] \in Marks
               THEN i = Len(U) /\ ByteBefore(n, U, i) = sent
               ELSE /\ U[i] = [k \in 1..Len(U[i]) |-> ByteBefore(n, U, i) + k]
                    /\ i = Len(U) => ByteBefore(n, U, i + 1) = sent
    BY <1>6, <1>8
  <2> QED
    BY <1>2, <1>3, <1>4, <1>7, <2>1, <2>2 DEF Stream!BytesInOrder, n
<1> QED
  BY <1>5, <1>9

-----------------------------------------------------------------------------
(* BufferedByteReceiveStream: what was returned and what is in the buffer is *)
(* what the wrapped stream has given out.                                    *)

Bits == {0, 1}
Calls1 ==
  [op : {"receive"}, n : Nat, asks : Int]
    \union [op : {"exactly"}, n : Nat, asks : Int]
    \union [op : {"until"}, n : Nat, delimiter : Seq(Bits), asks : Int]

Given(u) == SubSeq(b, 1, MaxBuffered - u)

BufferInv ==
  /\ b \in Seq(Bits) /\ Len(b) = MaxBuffered /\ c \in 0..MaxBuffered
  /\ d \in Seq(Bits) /\ f \in Seq(Bits)
  /\ e = Buffered!NoRead \/ e \in Calls1
  /\ f \o d = Given(c)
  /\ e.op = "receive" => d = <<>>
  /\ Buffered!WaitsForMore

\* The two parts of a sequence that is cut at place n
LEMMA CutAt ==
  ASSUME NEW S, NEW s \in Seq(S), NEW n \in Nat, n <= Len(s)
  PROVE  /\ SubSeq(s, 1, n) \in Seq(S) /\ Len(SubSeq(s, 1, n)) = n
         /\ SubSeq(s, n + 1, Len(s)) \in Seq(S) /\ Len(SubSeq(s, n + 1, Len(s))) = Len(s) - n
         /\ \A i \in 1..n : SubSeq(s, 1, n)[i] = s[i]
         /\ \A i \in 1..(Len(s) - n) : SubSeq(s, n + 1, Len(s))[i] = s[n + i]
         /\ SubSeq(s, 1, n) \o SubSeq(s, n + 1, Len(s)) = s
<1>1. Len(s) \in Nat /\ \A i \in 1..Len(s) : s[i] \in S
  BY LenProperties, ElementOfSeq
<1> DEFINE u == SubSeq(s, 1, n)
           v == SubSeq(s, n + 1, Len(s))
<1>2. u \in Seq(S) /\ Len(u) = n /\ \A i \in 1..n : u[i] = s[i]
  <2>1. \A i \in 1..n : s[i] \in S
    BY <1>1
  <2>2. /\ u \in Seq(S) /\ Len(u) = (IF 1 <= n THEN n - 1 + 1 ELSE 0)
        /\ \A i \in 1..(n - 1 + 1) : u[i] = s[1 + i - 1]
    BY <2>1, SubSeqProperties, SMTT(30)
  <2> QED
    BY <2>2
<1>3. v \in Seq(S) /\ Len(v) = Len(s) - n /\ \A i \in 1..(Len(s) - n) : v[i] = s[n + i]
  <2>1. \A i \in (n + 1)..Len(s) : s[i] \in S
    BY <1>1
  <2>2. /\ v \in Seq(S) /\ Len(v) = (IF n + 1 <= Len(s) THEN Len(s) - (n + 1) + 1 ELSE 0)
        /\ \A i \in 1..(Len(s) - (n + 1) + 1) : v[i] = s[n + 1 + i - 1]
    BY <1>1, <2>1, SubSeqProperties
  <2>3. Len(v) = Len(s) - n /\ Len(s) - (n + 1) + 1 = Len(s) - n
    BY <1>1, <2>2
  <2>4. \A i \in 1..(Len(s) - n) : n + 1 + i - 1 = n + i
    BY <1>1
  <2> QED
    BY <2>2, <2>3, <2>4
<1> HIDE DEF u, v
<1>4. u \o v = s
  <2>1. /\ u \o v \in Seq(S) /\ Len(u \o v) = Len(u) + Len(v)
        /\ \A i \in 1..(Len(u) + Len(v)) :
             (u \o v)[i] = IF i <= Len(u) THEN u[i] ELSE v[i - Len(u)]
    BY <1>2, <1>3, ConcatProperties
  <2>2. ASSUME NEW i \in 1..Len(s) PROVE (u \o v)[i] = s[i]
    <3>1. i \in 1..(Len(u) + Len(v))
      BY <1>1, <1>2, <1>3
    <3>2. CASE i <= n
      BY <1>2, <2>1, <3>1, <3>2
    <3>3. CASE ~(i <= n)
      <4>1. i - n \in 1..(Len(s) - n) /\ n + (i - n) = i
        BY <1>1, <3>3
      <4> QED
        BY <1>2, <1>3, <2>1, <3>1, <3>3, <4>1
    <3> QED
      BY <3>2, <3>3
  <2>3. Len(u \o v) = Len(s)
    BY <1>1, <1>2, <1>3, <2>1
  <2> QED
    BY <2>1, <2>2, <2>3, SeqEqual
<1> QED
  BY <1>2, <1>3, <1>4 DEF u, v

\* A place at which a delimiter starts, byte by byte
LEMMA FindsIs ==
  ASSUME NEW s \in Seq(Bits), NEW w \in Seq(Bits), NEW o \in Nat, NEW i
  PROVE  i \in Buffered!Finds(s, w, o)
           <=> /\ i \in (o + 1)..(Len(s) - Len(w) + 1)
               /\ \A j \in 1..Len(w) : s[i + j - 1] = w[j]
<1>1. Len(s) \in Nat /\ Len(w) \in Nat /\ \A j \in 1..Len(s) : s[j] \in Bits
  BY LenProperties, ElementOfSeq
<1>2. ASSUME i \in (o + 1)..(Len(s) - Len(w) + 1)
      PROVE  SubSeq(s, i, i + Len(w) - 1) = w
               <=> \A j \in 1..Len(w) : s[i + j - 1] = w[j]
  <2> DEFINE m == i + Len(w) - 1
             p == SubSeq(s, i, m)
  <2>1. i \in Nat /\ i > 0 /\ m \in Int /\ m <= Len(s) /\ m - i + 1 = Len(w)
    BY <1>1, <1>2
  <2>2. \A j \in i..m : s[j] \in Bits
    BY <1>1, <2>1
  <2> HIDE DEF m
  <2>3. /\ p \in Seq(Bits) /\ Len(p) = (IF i <= m THEN m - i + 1 ELSE 0)
        /\ \A j \in 1..(m - i + 1) : p[j] = s[i + j - 1]
    BY <2>1, <2>2, SubSeqProperties
  <2> HIDE DEF p
  <2>4. Len(p) = Len(w) /\ \A j \in 1..Len(w) : p[j] = s[i + j - 1]
    BY <1>1, <2>1, <2>3
  <2>5. p = w <=> \A j \in 1..Len(w) : p[j] = w[j]
    BY <2>3, <2>4, SeqEqual
  <2> QED
    BY <2>4, <2>5 DEF p, m
<1> QED
  BY <1>2 DEF Buffered!Finds

\* What is left of bytes without a delimiter has none.
LEMMA FindsInRest ==
  ASSUME NEW s \in Seq(Bits), NEW w \in Seq(Bits), NEW n \in Nat, n <= Len(s),
         Buffered!Finds(s, w, 0) = {}
  PROVE  Buffered!Finds(SubSeq(s, n + 1, Len(s)), w, 0) = {}
<1> DEFINE r == SubSeq(s, n + 1, Len(s))
<1>1. /\ r \in Seq(Bits) /\ Len(r) = Len(s) - n /\ \A i \in 1..(Len(s) - n) : r[i] = s[n + i]
      /\ Len(s) \in Nat /\ Len(w) \in Nat
  BY CutAt, LenProperties
<1> HIDE DEF r
<1> SUFFICES ASSUME NEW i \in Buffered!Finds(r, w, 0) PROVE FALSE
  BY DEF r
<1>2. i \in 1..(Len(r) - Len(w) + 1) /\ \A j \in 1..Len(w) : r[i + j - 1] = w[j]
  BY <1>1, FindsIs
<1>3. n + i \in 1..(Len(s) - Len(w) + 1)
  BY <1>1, <1>2
<1>4. ASSUME NEW j \in 1..Len(w) PROVE s[n + i + j - 1] = w[j]
  <2>1. i + j - 1 \in 1..(Len(s) - n) /\ n + (i + j - 1) = n + i + j - 1
    BY <1>1, <1>2
  <2> QED
    BY <1>1, <1>2, <2>1
<1>5. n + i \in Buffered!Finds(s, w, 0)
  BY <1>3, <1>4, FindsIs, SMTT(30)
<1> QED
  BY <1>5

\* The search goes on where a delimiter may have begun.
LEMMA FindsFurther ==
  ASSUME NEW s \in Seq(Bits), NEW w \in Seq(Bits), NEW x \in Seq(Bits),
         Buffered!Finds(s, w, 0) = {},
         Buffered!Finds(s \o x, w, Buffered!Offset(Len(s), w)) = {}
  PROVE  Buffered!Finds(s \o x, w, 0) = {}
<1> DEFINE t == s \o x
           o == Buffered!Offset(Len(s), w)
<1>1. /\ t \in Seq(Bits) /\ Len(t) = Len(s) + Len(x)
      /\ \A i \in 1..(Len(s) + Len(x)) : t[i] = IF i <= Len(s) THEN s[i] ELSE x[i - Len(s)]
      /\ Len(s) \in Nat /\ Len(w) \in Nat /\ Len(x) \in Nat
  BY ConcatProperties, LenProperties
<1>2. /\ o \in Nat /\ (Len(s) < Len(w) => o = 0)
      /\ ~(Len(s) < Len(w)) => o = Len(s) - Len(w) + 1
  BY <1>1 DEF Buffered!Offset
<1> HIDE DEF t, o
<1> SUFFICES ASSUME NEW i \in Buffered!Finds(t, w, 0) PROVE FALSE
  BY DEF t
<1>3. i \in 1..(Len(t) - Len(w) + 1) /\ \A j \in 1..Len(w) : t[i + j - 1] = w[j]
  BY <1>1, FindsIs, SMTT(30)
<1>4. CASE i > o
  <2>1. i \in (o + 1)..(Len(t) - Len(w) + 1)
    BY <1>1, <1>2, <1>3, <1>4
  <2>2. i \in Buffered!Finds(t, w, o)
    BY <1>1, <1>2, <1>3, <2>1, FindsIs
  <2> QED
    BY <2>2 DEF t, o
<1>5. CASE ~(i > o)
  <2>1. i \in 1..(Len(s) - Len(w) + 1)
    BY <1>1, <1>2, <1>3, <1>5
  <2>2. ASSUME NEW j \in 1..Len(w) PROVE s[i + j - 1] = w[j]
    <3>1. i + j - 1 \in 1..(Len(s) + Len(x)) /\ i + j - 1 <= Len(s)
      BY <1>1, <2>1
    <3> QED
      BY <1>1, <1>3, <3>1
  <2>3. i \in Buffered!Finds(s, w, 0)
    BY <2>1, <2>2, FindsIs
  <2> QED
    BY <2>3
<1> QED
  BY <1>1, <1>2, <1>3, <1>4, <1>5

-----------------------------------------------------------------------------
\* The first n bytes are taken, the rest stays: no byte is lost.
LEMMA TakesStep ==
  ASSUME f \in Seq(Bits), NEW s \in Seq(Bits), NEW n \in Nat, n <= Len(s),
         Buffered!Takes(s, n)
  PROVE  /\ f' \in Seq(Bits) /\ d' \in Seq(Bits) /\ f' \o d' = f \o s
         /\ d' = SubSeq(s, n + 1, Len(s)) /\ Len(d') = Len(s) - n
<1> DEFINE u == SubSeq(s, 1, n)
           v == SubSeq(s, n + 1, Len(s))
<1>1. u \in Seq(Bits) /\ v \in Seq(Bits) /\ Len(v) = Len(s) - n /\ u \o v = s
  BY CutAt
<1>2. f' = f \o u /\ d' = v
  BY DEF Buffered!Takes
<1>3. \A x, y, z \in Seq(Bits) : (x \o y) \o z = x \o (y \o z)
  BY ConcatAssociative, SMTT(30)
<1> HIDE DEF u, v
<1>4. f \o u \in Seq(Bits)
  BY <1>1, ConcatProperties
<1>5. (f \o u) \o v = f \o (u \o v)
  BY <1>1, <1>3
<1> QED
  BY <1>1, <1>2, <1>4, <1>5 DEF v

\* What is taken from the buffer leaves what holds of the call that waits.
LEMMA TakesKeeps ==
  ASSUME BufferInv, NEW n \in Nat, n <= Len(d), Buffered!Takes(d, n), e' = e,
         b' = b, c' = c
  PROVE  BufferInv'
<1>1. /\ f' \in Seq(Bits) /\ d' \in Seq(Bits) /\ f' \o d' = f \o d
      /\ d' = SubSeq(d, n + 1, Len(d)) /\ Len(d') = Len(d) - n
  BY TakesStep DEF BufferInv
<1>2. Len(d) \in Nat
  BY LenProperties DEF BufferInv
<1>3. e.op = "receive" => d' = <<>>
  <2> HAVE e.op = "receive"
  <2>1. Len(d) = 0
    BY EmptySeq DEF BufferInv
  <2> QED
    BY <1>1, <1>2, <2>1, EmptySeq
<1>4. Buffered!WaitsForMore'
  <2>1. ASSUME e.op = "until"
        PROVE  Buffered!Finds(d', e.delimiter, 0) = {} /\ Len(d') < e.n
    <3>1. e \in [op : {"until"}, n : Nat, delimiter : Seq(Bits), asks : Int]
      BY <2>1 DEF BufferInv, Calls1, Buffered!NoRead
    <3>2. e.delimiter \in Seq(Bits) /\ e.n \in Nat
      BY <3>1
    <3>3. Buffered!Finds(d, e.delimiter, 0) = {} /\ Len(d) < e.n
      BY <2>1 DEF BufferInv, Buffered!WaitsForMore
    <3>4. Buffered!Finds(d', e.delimiter, 0) = {}
      BY <1>1, <3>2, <3>3, FindsInRest DEF BufferInv
    <3> QED
      BY <1>1, <1>2, <3>2, <3>3, <3>4
  <2>2. ASSUME e.op = "exactly" PROVE Len(d') < e.n
    <3>1. e \in [op : {"exactly"}, n : Nat, asks : Int]
      BY <2>2 DEF BufferInv, Calls1, Buffered!NoRead
    <3>2. e.n \in Nat /\ Len(d) < e.n
      BY <2>2, <3>1 DEF BufferInv, Buffered!WaitsForMore
    <3> QED
      BY <1>1, <1>2, <3>2
  <2> QED
    BY <2>1, <2>2 DEF Buffered!WaitsForMore, Buffered!Finds
<1> QED
  BY <1>1, <1>3, <1>4 DEF BufferInv, Given

\* A call begins to wait.
LEMMA WaitsStep ==
  ASSUME BufferInv, NEW call \in Calls1, Buffered!Waits(call), b' = b, c' = c,
         call.op = "receive" => d = <<>>,
         call.op = "until" => Buffered!Finds(d, call.delimiter, 0) = {} /\ Len(d) < call.n,
         call.op = "exactly" => Len(d) < call.n
  PROVE  BufferInv'
<1>1. e' = call /\ d' = d /\ f' = f
  BY DEF Buffered!Waits
<1>2. Buffered!WaitsForMore'
  BY <1>1 DEF Buffered!WaitsForMore, Buffered!Finds
<1> QED
  BY <1>1, <1>2 DEF BufferInv, Given

LEMMA AsksIs ==
  ASSUME NEW n \in Int
  PROVE  Buffered!Asks(n) \in Int
BY BufferAssumption DEF Buffered!Asks

LEMMA ReceiveStep ==
  ASSUME BufferInv, NEW n \in 1..MaxLimit, Buffered!Receive(n)
  PROVE  BufferInv'
<1>1. n \in Nat /\ Len(d) \in Nat /\ b' = b /\ c' = c
  BY LenProperties, BufferAssumption DEF BufferInv, Buffered!Receive
<1>2. CASE /\ d # <<>> /\ Buffered!Takes(d, Buffered!Least(n, Len(d))) /\ UNCHANGED e
  <2>1. Buffered!Least(n, Len(d)) \in Nat /\ Buffered!Least(n, Len(d)) <= Len(d)
    BY <1>1 DEF Buffered!Least
  <2> QED
    BY <1>1, <1>2, <2>1, TakesKeeps
<1>3. CASE d = <<>> /\ Buffered!Waits([op |-> "receive", n |-> n, asks |-> Buffered!Asks(n)])
  <2> DEFINE call == [op |-> "receive", n |-> n, asks |-> Buffered!Asks(n)]
  <2>1. call \in Calls1 /\ call.op = "receive"
    BY <1>1, AsksIs DEF Calls1
  <2>2. Buffered!Waits(call)
    BY <1>3
  <2> HIDE DEF call
  <2> QED
    BY <1>1, <1>3, <2>1, <2>2, WaitsStep
<1> QED
  BY <1>2, <1>3 DEF Buffered!Receive

LEMMA ExactlyStep ==
  ASSUME BufferInv, NEW n \in 1..MaxLimit, Buffered!ReceiveExactly(n)
  PROVE  BufferInv'
<1>1. n \in Nat /\ Len(d) \in Nat /\ b' = b /\ c' = c
  BY LenProperties, BufferAssumption DEF BufferInv, Buffered!ReceiveExactly
<1>2. CASE Len(d) >= n /\ Buffered!Takes(d, n) /\ UNCHANGED e
  BY <1>1, <1>2, TakesKeeps
<1>3. CASE /\ Len(d) < n
           /\ Buffered!Waits([op |-> "exactly", n |-> n, asks |-> Buffered!Asks(n - Len(d))])
  <2> DEFINE call == [op |-> "exactly", n |-> n, asks |-> Buffered!Asks(n - Len(d))]
  <2>1. n - Len(d) \in Int
    BY <1>1
  <2>2. call \in Calls1 /\ call.op = "exactly" /\ call.n = n
    BY <1>1, <2>1, AsksIs DEF Calls1
  <2>3. Buffered!Waits(call)
    BY <1>3
  <2> HIDE DEF call
  <2> QED
    BY <1>1, <1>3, <2>2, <2>3, WaitsStep
<1> QED
  BY <1>2, <1>3 DEF Buffered!ReceiveExactly

\* A delimiter that was found ends in the bytes.
LEMMA FoundIs ==
  ASSUME NEW s \in Seq(Bits), NEW w \in Seq(Bits), NEW o \in Nat,
         Buffered!Found(s, w, o)
  PROVE  \E n \in Nat : n <= Len(s) /\ Buffered!Takes(s, n)
<1>1. Len(s) \in Nat /\ Len(w) \in Nat
  BY LenProperties
<1>2. PICK i \in Buffered!Finds(s, w, o) : Buffered!Takes(s, i + Len(w) - 1)
  BY DEF Buffered!Found
<1>3. i \in (o + 1)..(Len(s) - Len(w) + 1)
  BY <1>2, FindsIs
<1>4. i + Len(w) - 1 \in Nat /\ i + Len(w) - 1 <= Len(s)
  BY <1>1, <1>3
<1> QED
  BY <1>2, <1>4

LEMMA UntilStep ==
  ASSUME BufferInv, NEW n \in 1..MaxLimit, NEW w \in Delimiters,
         Buffered!ReceiveUntil(w, n)
  PROVE  BufferInv'
<1>1. n \in Nat /\ Len(d) \in Nat /\ b' = b /\ c' = c
  BY LenProperties, BufferAssumption DEF BufferInv, Buffered!ReceiveUntil
<1>2. w \in Seq(Bits)
  BY BufferAssumption DEF Bits
<1>3. CASE Buffered!Found(d, w, 0) /\ UNCHANGED e
  <2>1. PICK m \in Nat : m <= Len(d) /\ Buffered!Takes(d, m)
    BY <1>2, <1>3, FoundIs DEF BufferInv
  <2> QED
    BY <1>1, <1>3, <2>1, TakesKeeps
<1>4. CASE /\ Buffered!Finds(d, w, 0) = {} /\ Len(d) < n
           /\ Buffered!Waits([op |-> "until", n |-> n, delimiter |-> w, asks |-> MaxBuffered])
  <2> DEFINE call == [op |-> "until", n |-> n, delimiter |-> w, asks |-> MaxBuffered]
  <2>1. call \in Calls1 /\ call.op = "until" /\ call.n = n /\ call.delimiter = w
    BY <1>1, <1>2, BufferAssumption DEF Calls1
  <2>2. Buffered!Waits(call)
    BY <1>4
  <2> HIDE DEF call
  <2> QED
    BY <1>1, <1>4, <2>1, <2>2, WaitsStep
<1> QED
  BY <1>3, <1>4 DEF Buffered!ReceiveUntil

\* A chunk follows what was given.
LEMMA ChunkFollows ==
  ASSUME BufferInv, NEW k \in 1..MaxBuffered, k <= c
  PROVE  LET x == SubSeq(b, MaxBuffered - c + 1, MaxBuffered - c + k) IN
         /\ x \in Seq(Bits) /\ c - k \in 0..MaxBuffered
         /\ f \o (d \o x) = Given(c - k) /\ d \o x \in Seq(Bits)
<1> DEFINE p == MaxBuffered - c
           x == SubSeq(b, p + 1, p + k)
<1>1. p \in Nat /\ p + k \in Nat /\ p + k <= MaxBuffered /\ k \in Nat /\ k > 0 /\ c - k \in 0..MaxBuffered
      /\ MaxBuffered - (c - k) = p + k
  BY BufferAssumption DEF BufferInv
<1>2. b \in Seq(Bits) /\ Len(b) = MaxBuffered /\ \A i \in 1..MaxBuffered : b[i] \in Bits
  BY ElementOfSeq DEF BufferInv
<1> HIDE DEF p
<1>3. x \in Seq(Bits)
  <2>1. \A i \in (p + 1)..(p + k) : b[i] \in Bits
    BY <1>1, <1>2
  <2> QED
    BY <1>1, <2>1, SubSeqProperties
<1>4. SubSeq(b, 1, p) \o x = SubSeq(b, 1, p + k)
  <2>1. 1 \in 1..(Len(b) + 1) /\ p \in (1 - 1)..Len(b) /\ p + k \in p..Len(b)
    BY <1>1, <1>2
  <2> QED
    BY <1>2, <2>1, ConcatAdjacentSubSeq
<1>5. Given(c) = SubSeq(b, 1, p) /\ Given(c - k) = SubSeq(b, 1, p + k)
  BY <1>1 DEF Given, p
<1> HIDE DEF x
<1>6. (f \o d) \o x = f \o (d \o x) /\ d \o x \in Seq(Bits)
  <2>1. \A u, v, w \in Seq(Bits) : (u \o v) \o w = u \o (v \o w)
    BY ConcatAssociative
  <2> QED
    BY <1>3, <2>1, ConcatProperties DEF BufferInv
<1>7. f \o d = SubSeq(b, 1, p)
  BY <1>5 DEF BufferInv
<1>8. f \o (d \o x) = Given(c - k)
  BY <1>4, <1>5, <1>6, <1>7
<1> QED
  BY <1>1, <1>3, <1>6, <1>8 DEF x, p

\* A call that goes on with what it has got
LEMMA GetsOnStep ==
  ASSUME BufferInv, e # Buffered!NoRead, NEW x \in Seq(Bits),
         Buffered!GetsOn(e, x), d \o x \in Seq(Bits)
  PROVE  /\ d' \in Seq(Bits) /\ f' \in Seq(Bits)
         /\ f' \o d' = f \o (d \o x)
         /\ e' = Buffered!NoRead \/ e' \in Calls1
         /\ e'.op = "receive" => d' = <<>>
         /\ Buffered!WaitsForMore'
<1> DEFINE z == d \o x
           l == Buffered!Least(e.n, Len(x))
<1>1. Buffered!NoRead.op = "none"
  BY DEF Buffered!NoRead
<1>2. e' = Buffered!NoRead => (e'.op = "receive" => d' = <<>>) /\ Buffered!WaitsForMore'
  BY <1>1 DEF Buffered!WaitsForMore
<1>3. z \in Seq(Bits) /\ Len(z) \in Nat /\ Len(x) \in Nat /\ f \in Seq(Bits) /\ d \in Seq(Bits)
      /\ Len(d) \in Nat
  BY LenProperties DEF BufferInv
<1>4. e \in Calls1
  BY DEF BufferInv
<1>5. CASE e.op = "receive"
  <2>1. e \in [op : {"receive"}, n : Nat, asks : Int]
    BY <1>4, <1>5 DEF Calls1
  <2>2. e.n \in Nat
    BY <2>1
  <2>3. l \in Nat /\ l <= Len(x)
    BY <1>3, <2>2 DEF Buffered!Least
  <2>4. d = <<>> /\ d \o x = x
    BY <1>5, ConcatEmptySeq DEF BufferInv
  <2>5. /\ f' = f \o SubSeq(x, 1, l) /\ d' = d \o SubSeq(x, l + 1, Len(x))
        /\ e' = Buffered!NoRead
    BY <1>5 DEF Buffered!GetsOn, Buffered!Rest
  <2>6. SubSeq(x, l + 1, Len(x)) \in Seq(Bits)
    BY <2>3, CutAt
  <2>7. d' = SubSeq(x, l + 1, Len(x))
    BY <2>4, <2>5, <2>6, ConcatEmptySeq
  <2>8. Buffered!Takes(x, l)
    BY <2>5, <2>7 DEF Buffered!Takes
  <2> HIDE DEF l, z
  <2>9. f' \in Seq(Bits) /\ d' \in Seq(Bits) /\ f' \o d' = f \o x
    BY <1>3, <2>3, <2>8, TakesStep
  <2> QED
    BY <1>2, <2>4, <2>5, <2>9
<1>6. CASE e.op = "exactly"
  <2>1. e \in [op : {"exactly"}, n : Nat, asks : Int]
    BY <1>4, <1>6 DEF Calls1
  <2>2. e.n \in Nat
    BY <2>1
  <2>3. IF Len(z) >= e.n THEN Buffered!Takes(z, e.n) /\ e' = Buffered!NoRead
        ELSE /\ d' = z /\ f' = f
             /\ e' = [e EXCEPT !.asks = Buffered!Asks(e.n - Len(z))]
    BY <1>6 DEF Buffered!GetsOn
  <2> HIDE DEF z
  <2>4. CASE Len(z) >= e.n
    <3>1. f' \in Seq(Bits) /\ d' \in Seq(Bits) /\ f' \o d' = f \o z
      BY <1>3, <2>2, <2>3, <2>4, TakesStep
    <3> QED
      BY <1>2, <2>3, <2>4, <3>1 DEF z
  <2>5. CASE ~(Len(z) >= e.n)
    <3>1. Buffered!Asks(e.n - Len(z)) \in Int
      <4>1. e.n - Len(z) \in Int
        BY <1>3, <2>2
      <4> QED
        BY <4>1, AsksIs
    <3> DEFINE y == Buffered!Asks(e.n - Len(z))
    <3>2. e' = [e EXCEPT !.asks = y]
      BY <2>3, <2>5
    <3> HIDE DEF y
    <3>3. e' \in [op : {"exactly"}, n : Nat, asks : Int] /\ e'.op = "exactly" /\ e'.n = e.n
      BY <2>1, <3>1, <3>2 DEF y
    <3>4. e' \in Calls1
      BY <3>3 DEF Calls1
    <3>5. Len(d') < e'.n
      BY <1>3, <2>2, <2>3, <2>5, <3>3
    <3>6. Buffered!WaitsForMore'
      BY <3>3, <3>5 DEF Buffered!WaitsForMore
    <3> QED
      BY <1>3, <2>3, <2>5, <3>3, <3>4, <3>6 DEF z
  <2> QED
    BY <2>4, <2>5
<1>7. CASE e.op = "until"
  <2>1. e \in [op : {"until"}, n : Nat, delimiter : Seq(Bits), asks : Int]
    BY <1>4, <1>7 DEF Calls1
  <2> DEFINE w == e.delimiter
             o == Buffered!Offset(Len(d), w)
  <2>2. e.n \in Nat /\ w \in Seq(Bits)
    BY <2>1
  <2>3. o \in Nat
    BY <1>3, <2>2, LenProperties DEF Buffered!Offset
  <2>4. IF Buffered!Finds(z, w, o) # {} THEN Buffered!Found(z, w, o) /\ e' = Buffered!NoRead
        ELSE /\ d' = z /\ f' = f
             /\ e' = IF Len(z) >= e.n THEN Buffered!NoRead ELSE e
    BY <1>7 DEF Buffered!GetsOn
  <2>5. CASE Buffered!Finds(z, w, o) # {}
    <3>1. Buffered!Found(z, w, o) /\ e' = Buffered!NoRead
      BY <2>4, <2>5
    <3> HIDE DEF z, w, o
    <3>2. PICK n \in Nat : n <= Len(z) /\ Buffered!Takes(z, n)
      BY <1>3, <2>2, <2>3, <3>1, FoundIs
    <3>3. f' \in Seq(Bits) /\ d' \in Seq(Bits) /\ f' \o d' = f \o z
      BY <1>3, <3>2, TakesStep
    <3> QED
      BY <1>2, <3>1, <3>3 DEF z
  <2>6. CASE Buffered!Finds(z, w, o) = {}
    <3>1. d' = z /\ f' = f /\ e' = IF Len(z) >= e.n THEN Buffered!NoRead ELSE e
      BY <2>4, <2>6
    <3>2. Buffered!Finds(d, w, 0) = {}
      BY <1>7 DEF BufferInv, Buffered!WaitsForMore
    <3>3. Buffered!Finds(z, w, 0) = {}
      BY <1>3, <2>2, <2>6, <3>2, FindsFurther
    <3>4. CASE Len(z) >= e.n
      BY <1>2, <1>3, <3>1, <3>4
    <3>5. CASE ~(Len(z) >= e.n)
      <4>1. e' = e /\ d' = z
        BY <3>1, <3>5
      <4>2. Len(z) < e.n
        BY <1>3, <2>2, <3>5
      <4> HIDE DEF z
      <4>3. Buffered!WaitsForMore'
        BY <1>7, <3>3, <4>1, <4>2 DEF Buffered!WaitsForMore, Buffered!Finds
      <4> QED
        BY <1>3, <1>4, <1>7, <3>1, <4>1, <4>3 DEF z
    <3> QED
      BY <3>4, <3>5
  <2> QED
    BY <2>5, <2>6
<1> QED
  BY <1>4, <1>5, <1>6, <1>7 DEF Calls1

LEMMA ChunkStep ==
  ASSUME BufferInv, NEW k \in 1..MaxBuffered, Buffered!ChunkArrives(k)
  PROVE  BufferInv'
<1> DEFINE x == SubSeq(b, MaxBuffered - c + 1, MaxBuffered - c + k)
<1>1. e # Buffered!NoRead /\ k <= c /\ Buffered!GetsOn(e, x) /\ c' = c - k /\ b' = b
  BY DEF Buffered!ChunkArrives
<1>2. /\ x \in Seq(Bits) /\ c - k \in 0..MaxBuffered
      /\ f \o (d \o x) = Given(c - k) /\ d \o x \in Seq(Bits)
  BY <1>1, ChunkFollows
<1> HIDE DEF x
<1>3. /\ d' \in Seq(Bits) /\ f' \in Seq(Bits)
      /\ f' \o d' = f \o (d \o x)
      /\ e' = Buffered!NoRead \/ e' \in Calls1
      /\ e'.op = "receive" => d' = <<>>
      /\ Buffered!WaitsForMore'
  BY <1>1, <1>2, GetsOnStep
<1>4. f' \o d' = SubSeq(b', 1, MaxBuffered - c')
  BY <1>1, <1>2, <1>3 DEF Given
<1> QED
  BY <1>1, <1>2, <1>3, <1>4 DEF BufferInv, Given

LEMMA InitBuffered == Buffered!BufferInit => BufferInv
<1> SUFFICES ASSUME Buffered!BufferInit PROVE BufferInv
  OBVIOUS
<1>1. /\ b \in [1..MaxBuffered -> {0, 1}] /\ c = MaxBuffered /\ d = <<>> /\ f = <<>>
      /\ e = Buffered!NoRead
  BY DEF Buffered!BufferInit
<1>2. b \in Seq(Bits) /\ Len(b) = MaxBuffered /\ c \in 0..MaxBuffered
  <2>1. b \in Seq(Bits)
    BY <1>1, BufferAssumption, SeqDef DEF Bits
  <2>2. DOMAIN b = 1..MaxBuffered
    BY <1>1
  <2> QED
    BY <1>1, <2>1, <2>2, LenProperties, BufferAssumption
<1>3. Given(c) = <<>>
  <2>1. MaxBuffered - c = 0
    BY <1>1, BufferAssumption
  <2> QED
    BY <1>2, <2>1, CutAt, EmptySeq DEF Given
<1>4. <<>> \o <<>> = <<>> /\ <<>> \in Seq(Bits)
  BY ConcatEmptySeq, EmptySeq
<1>5. e.op = "none"
  BY <1>1 DEF Buffered!NoRead
<1> QED
  BY <1>1, <1>2, <1>3, <1>4, <1>5 DEF BufferInv, Buffered!WaitsForMore

LEMMA NextBuffered == BufferInv /\ [Buffered!BufferNext]_(Buffered!bufferVars) => BufferInv'
<1> SUFFICES ASSUME BufferInv, [Buffered!BufferNext]_(Buffered!bufferVars) PROVE BufferInv'
  OBVIOUS
<1>1. ASSUME UNCHANGED Buffered!bufferVars PROVE BufferInv'
  BY <1>1 DEF Buffered!bufferVars, BufferInv, Given, Buffered!WaitsForMore, Buffered!Finds
<1>2. ASSUME Buffered!ReadFails PROVE BufferInv'
  <2>1. e' = Buffered!NoRead /\ e'.op = "none" /\ b' = b /\ c' = c /\ d' = d /\ f' = f
    BY <1>2 DEF Buffered!ReadFails, Buffered!NoRead
  <2> QED
    BY <2>1 DEF BufferInv, Given, Buffered!WaitsForMore
<1>3. ASSUME Buffered!CloseBuffered PROVE BufferInv'
  BY <1>3 DEF Buffered!CloseBuffered, BufferInv, Given, Buffered!WaitsForMore, Buffered!Finds
<1> QED
  BY <1>1, <1>2, <1>3, ReceiveStep, ExactlyStep, UntilStep, ChunkStep
     DEF Buffered!BufferNext, Buffered!Limit

LEMMA BufferHolds == BufferInv => Buffered!NoByteLost /\ Buffered!WaitsForMore
<1> SUFFICES ASSUME BufferInv PROVE Buffered!NoByteLost
  BY DEF BufferInv
<1> DEFINE p == MaxBuffered - c
<1>1. p \in Nat /\ p <= Len(b) /\ b \in Seq(Bits) /\ Len(b) = MaxBuffered
  BY BufferAssumption DEF BufferInv
<1> HIDE DEF p
<1>2. SubSeq(b, 1, p) \o SubSeq(b, p + 1, Len(b)) = b
  BY <1>1, CutAt
<1> QED
  BY <1>1, <1>2 DEF BufferInv, Given, Buffered!NoByteLost, p

-----------------------------------------------------------------------------
(* UNIX sockets: one task of a side waits at a time, and a sender that waits *)
(* in the middle of its item was the last to send.                           *)

raw == a
rawAt == b
left == c
outgoing == d

USE DEF raw, rawAt, left, outgoing

RawSide == {"receive", "send"}
RawState ==
  [kind : {"stream", "packets"}, closing : BOOLEAN, closeFailed : BOOLEAN,
   guard : [RawSide -> BOOLEAN], future : [RawSide -> {"none", "pending", "done"}]]
RawPlace == [place : {"idle", "checkpoint", "waiting"}, fds : BOOLEAN, cut : BOOLEAN]

RawTypes ==
  /\ raw \in RawState /\ rawAt \in [Raw!RawUser -> RawPlace]
  /\ left \in [RawSender -> Nat] /\ outgoing \in Seq(RawSender)

WaitsAlone ==
  /\ \A t \in Raw!RawUser : rawAt[t].place = "waiting" => raw.guard[Raw!Side(t)]
  /\ \A t, u \in Raw!RawUser :
       /\ rawAt[t].place = "waiting" /\ rawAt[u].place = "waiting"
       /\ Raw!Side(t) = Raw!Side(u)
       => t = u

\* The item of one sender
ItemOf(t) ==
  /\ rawAt[t].place = "checkpoint" => left[t] = Raw!Size
  /\ rawAt[t].place = "waiting" /\ left[t] < Raw!Size =>
       outgoing # <<>> /\ outgoing[Len(outgoing)] = t

RawInv ==
  /\ RawTypes
  /\ WaitsAlone
  /\ \A t \in RawSender : ItemOf(t)
  /\ Raw!CloseReleases

LEMMA InitRaw == Raw!RawInit => RawInv
BY DEF Raw!RawInit, RawInv, RawTypes, RawSide, RawState, RawPlace, WaitsAlone, ItemOf,
       Raw!CloseReleases, Raw!RawUser

LEMMA SideOf ==
  ASSUME NEW t \in Raw!RawUser
  PROVE  /\ Raw!Side(t) \in RawSide /\ Raw!Size \in Nat
         /\ t \in RawSender <=> Raw!Side(t) = "send"
         /\ t \in RawReceiver <=> Raw!Side(t) = "receive"
BY RawAssumption DEF Raw!RawUser, Raw!Side, RawSide, Raw!Size

\* A task that leaves its call or waits, in a step in which it may have sent.
LEMMA RoundStep ==
  ASSUME RawInv, NEW t \in Raw!RawUser, Raw!Leaves(t) \/ Raw!WaitUntilReady(t),
         Raw!MayGoOn(t) \/ rawAt[t].place = "waiting",
         left' \in [RawSender -> Nat], outgoing' \in Seq(RawSender),
         \A u \in RawSender : u # t => left'[u] = left[u],
         outgoing' = outgoing
           \/ \A u \in RawSender : u # t => rawAt[u].place # "waiting",
         t \in RawSender /\ Raw!WaitUntilReady(t) /\ left'[t] < Raw!Size =>
           outgoing' # <<>> /\ outgoing'[Len(outgoing')] = t
  PROVE  RawInv'
<1> DEFINE s == Raw!Side(t)
<1>1. /\ raw \in RawState /\ rawAt \in [Raw!RawUser -> RawPlace] /\ s \in RawSide
      /\ raw.guard \in [RawSide -> BOOLEAN]
      /\ raw.future \in [RawSide -> {"none", "pending", "done"}]
  BY SideOf DEF RawInv, RawTypes, RawState
<1> HIDE DEF s
<1>2. PICK gd \in BOOLEAN, fut \in {"none", "pending"},
           p \in {"idle", "waiting"} :
        /\ raw' = [raw EXCEPT !.guard[s] = gd, !.future[s] = fut]
        /\ rawAt' = [rawAt EXCEPT ![t].place = p, ![t].cut = FALSE]
        /\ p = "idle" => fut = "none"
        /\ p = "waiting" => gd /\ ~raw.closing /\ Raw!WaitUntilReady(t)
  <2>1. CASE Raw!Leaves(t)
    BY <2>1 DEF Raw!Leaves, Raw!RawGoes, s
  <2>2. CASE Raw!WaitUntilReady(t)
    BY <2>2 DEF Raw!WaitUntilReady, Raw!RawGoes, s
  <2> QED
    BY <2>1, <2>2
<1>3. /\ raw' \in RawState /\ raw'.kind = raw.kind /\ raw'.closing = raw.closing
      /\ raw'.closeFailed = raw.closeFailed
      /\ raw'.guard[s] = gd /\ raw'.future[s] = fut
      /\ \A x \in RawSide : x # s => /\ raw'.guard[x] = raw.guard[x]
                                     /\ raw'.future[x] = raw.future[x]
  <2> DEFINE gs == [raw.guard EXCEPT ![s] = gd]
             fs == [raw.future EXCEPT ![s] = fut]
  <2>1. /\ gs \in [RawSide -> BOOLEAN] /\ fs \in [RawSide -> {"none", "pending", "done"}]
        /\ gs[s] = gd /\ fs[s] = fut
        /\ \A x \in RawSide : x # s => gs[x] = raw.guard[x] /\ fs[x] = raw.future[x]
    BY <1>1
  <2>2. raw' = [raw EXCEPT !.guard = gs, !.future = fs]
    BY <1>1, <1>2 DEF RawState
  <2> HIDE DEF gs, fs
  <2>3. /\ raw' \in RawState /\ raw'.kind = raw.kind /\ raw'.closing = raw.closing
        /\ raw'.closeFailed = raw.closeFailed /\ raw'.guard = gs /\ raw'.future = fs
    BY <1>1, <2>1, <2>2 DEF RawState
  <2> QED
    BY <2>1, <2>3
<1>4. /\ rawAt' \in [Raw!RawUser -> RawPlace] /\ rawAt'[t].place = p
      /\ \A u \in Raw!RawUser : u # t => rawAt'[u] = rawAt[u]
  <2>1. rawAt' = [rawAt EXCEPT ![t] = [rawAt[t] EXCEPT !.place = p, !.cut = FALSE]]
    BY <1>1, <1>2
  <2> DEFINE x == [rawAt[t] EXCEPT !.place = p, !.cut = FALSE]
  <2>3. rawAt[t] \in RawPlace /\ p \in {"idle", "checkpoint", "waiting"}
    BY <1>1
  <2>2. x \in RawPlace /\ x.place = p
    BY <2>3 DEF RawPlace
  <2> HIDE DEF x
  <2> QED
    BY <1>1, <2>1, <2>2 DEF x
<1>5. Raw!Size' = Raw!Size
  BY <1>3 DEF Raw!Size
<1>6. \A u \in Raw!RawUser : /\ Raw!Side(u) \in RawSide
                             /\ u \in RawSender <=> Raw!Side(u) = "send"
  BY SideOf
<1>7. ASSUME NEW u \in Raw!RawUser, u # t, Raw!Side(u) = s
      PROVE  rawAt[u].place # "waiting"
  <2>1. CASE rawAt[t].place = "waiting"
    BY <1>7, <2>1 DEF RawInv, WaitsAlone, s
  <2>2. CASE rawAt[t].place # "waiting"
    BY <1>7, <2>2 DEF RawInv, WaitsAlone, s, Raw!MayGoOn, Raw!Guarded
  <2> QED
    BY <2>1, <2>2
<1>8. RawTypes'
  BY <1>3, <1>4 DEF RawTypes
<1>9. WaitsAlone'
  <2>1. ASSUME NEW u \in Raw!RawUser, rawAt'[u].place = "waiting"
        PROVE  raw'.guard[Raw!Side(u)]
    BY <1>2, <1>3, <1>4, <1>6, <1>7, <2>1 DEF RawInv, WaitsAlone, s
  <2>2. ASSUME NEW u \in Raw!RawUser, NEW v \in Raw!RawUser,
               rawAt'[u].place = "waiting", rawAt'[v].place = "waiting",
               Raw!Side(u) = Raw!Side(v)
        PROVE  u = v
    BY <1>4, <1>7, <2>2 DEF RawInv, WaitsAlone, s
  <2> QED
    BY <2>1, <2>2 DEF WaitsAlone, Raw!Side
<1>10. ASSUME NEW u \in RawSender PROVE ItemOf(u)'
  <2>1. u \in Raw!RawUser /\ ItemOf(u)
    BY DEF Raw!RawUser, RawInv
  <2>2. CASE u = t
    BY <1>2, <1>4, <1>5, <2>2 DEF ItemOf
  <2>3. CASE u # t
    BY <1>4, <1>5, <2>1, <2>3 DEF ItemOf
  <2> QED
    BY <2>2, <2>3
<1>11. Raw!CloseReleases'
  BY <1>2, <1>3 DEF RawInv, Raw!CloseReleases, RawSide
<1> QED
  BY <1>8, <1>9, <1>10, <1>11 DEF RawInv

\* A step that only moves one task, not to or from the socket
LEMMA IdleStep ==
  ASSUME RawInv, NEW t \in Raw!RawUser, NEW x \in RawPlace, rawAt' = [rawAt EXCEPT ![t] = x],
         x.place = "waiting" => rawAt[t].place = "waiting",
         raw' = raw, outgoing' = outgoing, left' \in [RawSender -> Nat],
         \A u \in RawSender : u # t => left'[u] = left[u],
         t \in RawSender /\ x.place = "waiting" => left'[t] = left[t],
         t \in RawSender /\ x.place = "checkpoint" => left'[t] = Raw!Size
  PROVE  RawInv'
<1>1. /\ rawAt' \in [Raw!RawUser -> RawPlace] /\ rawAt'[t] = x
      /\ \A u \in Raw!RawUser : u # t => rawAt'[u] = rawAt[u]
  BY DEF RawInv, RawTypes
<1>2. RawTypes' /\ Raw!CloseReleases'
  BY <1>1 DEF RawInv, RawTypes, Raw!CloseReleases
<1>3. WaitsAlone'
  <2>1. \A u \in Raw!RawUser : rawAt'[u].place = "waiting" => rawAt[u].place = "waiting"
    BY <1>1
  <2> QED
    BY <2>1 DEF RawInv, WaitsAlone, Raw!Side
<1>4. ASSUME NEW u \in RawSender PROVE ItemOf(u)'
  <2>1. u \in Raw!RawUser /\ ItemOf(u) /\ Raw!Size' = Raw!Size
    BY DEF Raw!RawUser, RawInv, Raw!Size
  <2>2. CASE u = t
    BY <1>1, <2>1, <2>2 DEF ItemOf
  <2>3. CASE u # t
    BY <1>1, <2>1, <2>3 DEF ItemOf
  <2> QED
    BY <2>2, <2>3
<1> QED
  BY <1>2, <1>3, <1>4 DEF RawInv

\* A step that changes the futures of the socket
LEMMA FutureStep ==
  ASSUME RawInv, raw' \in RawState, raw'.kind = raw.kind, raw'.guard = raw.guard,
         left' = left, outgoing' = outgoing, Raw!CloseReleases',
         \/ rawAt' = rawAt
         \/ \E t \in Raw!RawUser : rawAt' = [rawAt EXCEPT ![t].cut = TRUE]
  PROVE  RawInv'
<1>1. rawAt \in [Raw!RawUser -> RawPlace]
  BY DEF RawInv, RawTypes
<1>2. /\ rawAt' \in [Raw!RawUser -> RawPlace]
      /\ \A u \in Raw!RawUser : rawAt'[u].place = rawAt[u].place
  BY <1>1, ZenonT(40) DEF RawPlace
<1>3. RawTypes'
  BY <1>2 DEF RawInv, RawTypes
<1>4. WaitsAlone'
  BY <1>2 DEF RawInv, WaitsAlone, Raw!Side
<1>5. ASSUME NEW u \in RawSender PROVE ItemOf(u)'
  BY <1>2 DEF RawInv, ItemOf, Raw!Size, Raw!RawUser
<1> QED
  BY <1>3, <1>4, <1>5 DEF RawInv

\* What a sender may have sent
LEMMA SentFacts ==
  ASSUME RawInv, NEW t \in RawSender, NEW k \in Nat, k <= left[t], Raw!Sent(t, k)
  PROVE  /\ left' \in [RawSender -> Nat] /\ left'[t] = left[t] - k
         /\ \A u \in RawSender : u # t => left'[u] = left[u]
         /\ outgoing' \in Seq(RawSender)
         /\ k = 0 => outgoing' = outgoing
         /\ k > 0 => outgoing' # <<>> /\ outgoing'[Len(outgoing')] = t
<1> DEFINE p == [i \in 1..k |-> t]
<1>1. left \in [RawSender -> Nat] /\ outgoing \in Seq(RawSender)
  BY DEF RawInv, RawTypes
<1>2. left' = [left EXCEPT ![t] = left[t] - k] /\ outgoing' = outgoing \o p
  BY DEF Raw!Sent
<1>3. p \in Seq(RawSender) /\ Len(p) = k
  <2>1. p \in [1..k -> RawSender]
    OBVIOUS
  <2> QED
    BY <2>1, SeqDef, LenProperties
<1>4. \A i \in 1..k : p[i] = t
  OBVIOUS
<1> HIDE DEF p
<1>5. /\ outgoing' \in Seq(RawSender) /\ Len(outgoing') = Len(outgoing) + k
      /\ \A i \in 1..(Len(outgoing) + k) :
           outgoing'[i] = IF i <= Len(outgoing) THEN outgoing[i] ELSE p[i - Len(outgoing)]
      /\ Len(outgoing) \in Nat
  BY <1>1, <1>2, <1>3, ConcatProperties, LenProperties
<1>6. k = 0 => outgoing' = outgoing
  <2> HAVE k = 0
  <2>1. p = <<>>
    BY <1>3, EmptySeq
  <2> QED
    BY <1>1, <1>2, <2>1, ConcatEmptySeq
<1>7. k > 0 => outgoing' # <<>> /\ outgoing'[Len(outgoing')] = t
  <2> HAVE k > 0
  <2>1. Len(outgoing') # 0
    BY <1>5
  <2>2. outgoing' # <<>>
    BY <1>5, <2>1, EmptySeq
  <2>3. /\ Len(outgoing') \in 1..(Len(outgoing) + k) /\ ~(Len(outgoing') <= Len(outgoing))
        /\ Len(outgoing') - Len(outgoing) = k /\ k \in 1..k
    BY <1>5
  <2>4. outgoing'[Len(outgoing')] = p[k]
    BY <1>5, <2>3
  <2> QED
    BY <1>4, <2>2, <2>3, <2>4
<1>8. left' \in [RawSender -> Nat] /\ left'[t] = left[t] - k
      /\ \A u \in RawSender : u # t => left'[u] = left[u]
  <2>1. left[t] - k \in Nat
    BY <1>1
  <2> QED
    BY <1>1, <1>2, <2>1
<1> QED
  BY <1>5, <1>6, <1>7, <1>8

\* A round of a sender: when it waits with nothing sent now, its item was whole, or it
\* has waited before.
LEMMA SendStep ==
  ASSUME RawInv, NEW t \in RawSender, Raw!MayGoOn(t), NEW k \in Nat, k <= left[t],
         Raw!Sent(t, k), Raw!Leaves(t) \/ Raw!WaitUntilReady(t)
  PROVE  RawInv'
<1>1. t \in Raw!RawUser /\ Raw!Side(t) = "send" /\ ItemOf(t)
      /\ \A u \in RawSender : u \in Raw!RawUser /\ Raw!Side(u) = "send"
  BY SideOf DEF Raw!RawUser, RawInv
<1>2. /\ left' \in [RawSender -> Nat] /\ left'[t] = left[t] - k
      /\ \A u \in RawSender : u # t => left'[u] = left[u]
      /\ outgoing' \in Seq(RawSender)
      /\ k = 0 => outgoing' = outgoing
      /\ k > 0 => outgoing' # <<>> /\ outgoing'[Len(outgoing')] = t
      /\ left[t] \in Nat
  BY SentFacts DEF RawInv, RawTypes
<1>3. rawAt[t].place \in {"checkpoint", "waiting"}
  BY DEF Raw!MayGoOn
<1>4. \A u \in RawSender : u # t => rawAt[u].place # "waiting"
  <2>1. CASE rawAt[t].place = "waiting"
    BY <1>1, <2>1 DEF RawInv, WaitsAlone
  <2>2. CASE rawAt[t].place # "waiting"
    BY <1>1, <2>2 DEF RawInv, WaitsAlone, Raw!MayGoOn, Raw!Guarded
  <2> QED
    BY <2>1, <2>2
<1>5. left'[t] < Raw!Size => outgoing' # <<>> /\ outgoing'[Len(outgoing')] = t
  <2>1. CASE k = 0
    <3>1. left'[t] = left[t]
      BY <1>2, <2>1
    <3>2. left[t] < Raw!Size => rawAt[t].place = "waiting"
      BY <1>1, <1>2, <1>3, SideOf DEF ItemOf
    <3> QED
      BY <1>1, <1>2, <2>1, <3>1, <3>2 DEF ItemOf
  <2>2. CASE k # 0
    BY <1>2, <2>2
  <2> QED
    BY <2>1, <2>2
<1> QED
  BY <1>1, <1>2, <1>4, <1>5, RoundStep

LEMMA NextRaw == RawInv /\ [Raw!RawNext]_(Raw!rawVars) => RawInv'
<1> SUFFICES ASSUME RawInv, [Raw!RawNext]_(Raw!rawVars) PROVE RawInv'
  OBVIOUS
<1>1. /\ raw \in RawState /\ rawAt \in [Raw!RawUser -> RawPlace]
      /\ left \in [RawSender -> Nat] /\ outgoing \in Seq(RawSender)
      /\ Raw!RawUser = RawReceiver \union RawSender /\ RawReceiver \intersect RawSender = {}
  BY RawAssumption DEF RawInv, RawTypes, Raw!RawUser
<1>2. ASSUME NEW t \in Raw!RawUser, Raw!StartCall(t) PROVE RawInv'
  <2>1. PICK fds \in {FALSE, raw.kind = "stream"} :
          rawAt' = [rawAt EXCEPT ![t] = [place |-> "checkpoint", fds |-> fds, cut |-> FALSE]]
    BY <1>2 DEF Raw!StartCall
  <2> DEFINE x == [place |-> "checkpoint", fds |-> fds, cut |-> FALSE]
  <2>2. x \in RawPlace /\ x.place = "checkpoint" /\ rawAt' = [rawAt EXCEPT ![t] = x]
    BY <2>1 DEF RawPlace
  <2>3. /\ raw' = raw /\ outgoing' = outgoing
        /\ t \in RawSender => left' = [left EXCEPT ![t] = Raw!Size]
        /\ t \notin RawSender => left' = left
    BY <1>1, <1>2 DEF Raw!StartCall
  <2>4. Raw!Size \in Nat
    BY SideOf
  <2>5. /\ left' \in [RawSender -> Nat] /\ \A u \in RawSender : u # t => left'[u] = left[u]
        /\ t \in RawSender => left'[t] = Raw!Size
    BY <1>1, <2>3, <2>4
  <2> QED
    BY <2>2, <2>3, <2>5, IdleStep
<1>3. ASSUME NEW t \in Raw!RawUser, Raw!CallAborted(t) PROVE RawInv'
  <2>1. left' = left /\ outgoing' = outgoing
    BY <1>3 DEF Raw!CallAborted
  <2>2. CASE rawAt[t].place = "waiting"
    <3>1. Raw!Leaves(t) /\ rawAt'[t].place = "idle"
      BY <1>1, <1>3, <2>2 DEF Raw!CallAborted, Raw!Leaves, Raw!RawGoes, RawPlace
    <3>2. Raw!WaitUntilReady(t) => rawAt'[t].place = "waiting"
      BY <1>1 DEF Raw!WaitUntilReady, Raw!RawGoes, RawPlace
    <3>3. ~Raw!WaitUntilReady(t)
      BY <3>1, <3>2
    <3> QED
      BY <1>1, <2>1, <2>2, <3>1, <3>3, RoundStep
  <2>3. CASE rawAt[t].place # "waiting"
    <3> DEFINE x == [rawAt[t] EXCEPT !.place = "idle", !.cut = FALSE]
    <3>1. /\ raw' = raw /\ rawAt' = [rawAt EXCEPT ![t].place = "idle", ![t].cut = FALSE]
      BY <1>3, <2>3 DEF Raw!CallAborted, Raw!RawGoes
    <3>2. rawAt' = [rawAt EXCEPT ![t] = x] /\ x \in RawPlace /\ x.place = "idle"
      BY <1>1, <3>1 DEF RawPlace
    <3> QED
      BY <1>1, <2>1, <3>1, <3>2, IdleStep
  <2> QED
    BY <2>2, <2>3
<1>4. ASSUME NEW t \in Raw!RawUser, Raw!CancelCall(t) PROVE RawInv'
  <2>1. /\ left' = left /\ outgoing' = outgoing /\ rawAt' = [rawAt EXCEPT ![t].cut = TRUE]
        /\ raw' = IF rawAt[t].place = "waiting" THEN [raw EXCEPT !.future[Raw!Side(t)] = "done"]
                  ELSE raw
    BY <1>4 DEF Raw!CancelCall
  <2>2. /\ raw' \in RawState /\ raw'.kind = raw.kind /\ raw'.guard = raw.guard
        /\ raw'.closing = raw.closing /\ raw'.closeFailed = raw.closeFailed
        /\ \A s \in RawSide : raw'.future[s] \in {raw.future[s], "done"}
    <3> DEFINE fs == [raw.future EXCEPT ![Raw!Side(t)] = "done"]
    <3>1. Raw!Side(t) \in RawSide /\ raw.future \in [RawSide -> {"none", "pending", "done"}]
      BY <1>1, SideOf DEF RawState
    <3>2. /\ fs \in [RawSide -> {"none", "pending", "done"}]
          /\ \A s \in RawSide : fs[s] \in {raw.future[s], "done"}
      BY <3>1
    <3>3. rawAt[t].place = "waiting" => raw' = [raw EXCEPT !.future = fs]
      BY <1>1, <2>1 DEF RawState
    <3> HIDE DEF fs
    <3>4. CASE rawAt[t].place = "waiting"
      BY <1>1, <3>2, <3>3, <3>4 DEF RawState
    <3>5. CASE rawAt[t].place # "waiting"
      BY <1>1, <2>1, <3>5
    <3> QED
      BY <3>4, <3>5
  <2>3. Raw!CloseReleases'
    BY <2>2 DEF RawInv, Raw!CloseReleases, RawSide
  <2> QED
    BY <2>1, <2>2, <2>3, FutureStep
<1>5. ASSUME NEW t \in Raw!RawUser,
             Raw!StreamReceives(t) \/ Raw!FdsReceives(t) \/ Raw!PacketReceives(t)
      PROVE  RawInv'
  <2>1. /\ t \notin RawSender /\ left' = left /\ outgoing' = outgoing /\ Raw!MayGoOn(t)
        /\ Raw!Leaves(t) \/ Raw!WaitUntilReady(t)
    BY <1>1, <1>5 DEF Raw!StreamReceives, Raw!FdsReceives, Raw!PacketReceives, Raw!Round
  <2> QED
    BY <1>1, <2>1, RoundStep
<1>6. ASSUME NEW t \in Raw!RawUser,
             Raw!StreamSends(t) \/ Raw!FdsSends(t) \/ Raw!PacketSends(t)
      PROVE  RawInv'
  <2>1. t \in RawSender /\ Raw!MayGoOn(t) /\ left[t] \in Nat
    BY <1>1, <1>6 DEF Raw!StreamSends, Raw!FdsSends, Raw!PacketSends
  <2>2. PICK k \in Nat : k <= left[t] /\ Raw!Sent(t, k) /\ (Raw!Leaves(t) \/ Raw!WaitUntilReady(t))
    <3>1. CASE Raw!StreamSends(t)
      BY <2>1, <3>1 DEF Raw!StreamSends
    <3>2. CASE Raw!FdsSends(t)
      BY <2>1, <3>2 DEF Raw!FdsSends
    <3>3. CASE Raw!PacketSends(t)
      BY <2>1, <3>3 DEF Raw!PacketSends
    <3> QED
      BY <1>6, <3>1, <3>2, <3>3
  <2> QED
    BY <2>1, <2>2, SendStep
<1>7. ASSUME NEW s \in RawSide, Raw!Ready(s) PROVE RawInv'
  <2> DEFINE fs == [raw.future EXCEPT ![s] = "done"]
  <2>1. /\ rawAt' = rawAt /\ left' = left /\ outgoing' = outgoing /\ ~raw.closing
        /\ raw' = [raw EXCEPT !.future = fs]
    BY <1>1, <1>7 DEF Raw!Ready, RawState
  <2>2. fs \in [RawSide -> {"none", "pending", "done"}]
    BY <1>1 DEF RawState
  <2> HIDE DEF fs
  <2>3. /\ raw' \in RawState /\ raw'.kind = raw.kind /\ raw'.guard = raw.guard /\ ~raw'.closing
    BY <1>1, <2>1, <2>2 DEF RawState
  <2>4. Raw!CloseReleases'
    BY <2>3 DEF Raw!CloseReleases
  <2> QED
    BY <2>1, <2>3, <2>4, FutureStep
<1>8. ASSUME Raw!CloseRaw PROVE RawInv'
  <2> DEFINE fo == raw.future
             failed == "done" \in {fo.receive, fo.send}
             fs == IF fo.receive = "done" THEN fo ELSE Raw!Release(fo)
  <2>1. /\ rawAt' = rawAt /\ left' = left /\ outgoing' = outgoing /\ ~raw.closing
        /\ raw' = [raw EXCEPT !.closing = TRUE, !.closeFailed = failed, !.future = fs]
    BY <1>8 DEF Raw!CloseRaw
  <2>2. fo \in [RawSide -> {"none", "pending", "done"}] /\ fo.receive = fo["receive"]
    BY <1>1 DEF RawState
  <2>3. /\ fs \in [RawSide -> {"none", "pending", "done"}] /\ failed \in BOOLEAN
        /\ \A s \in RawSide : fs[s] = "pending" => s = "send" /\ failed
    BY <2>2 DEF Raw!Release, RawSide
  <2> HIDE DEF fs, failed
  <2>4. /\ raw' \in RawState /\ raw'.kind = raw.kind /\ raw'.guard = raw.guard
        /\ raw'.future = fs /\ raw'.closeFailed = failed
    BY <1>1, <2>1, <2>3 DEF RawState
  <2>5. Raw!CloseReleases'
    BY <2>3, <2>4 DEF Raw!CloseReleases, RawSide
  <2> QED
    BY <2>1, <2>4, <2>5, FutureStep
<1>9. CASE UNCHANGED Raw!rawVars
  BY <1>9 DEF Raw!rawVars, RawInv, RawTypes, WaitsAlone, ItemOf, Raw!Size, Raw!CloseReleases,
              Raw!Side
<1> QED
  BY <1>2, <1>3, <1>4, <1>5, <1>6, <1>7, <1>8, <1>9 DEF Raw!RawNext, RawSide

LEMMA RawHolds == RawInv => Raw!CloseReleases /\ Raw!ItemsInOnePiece
BY DEF RawInv, ItemOf, Raw!ItemsInOnePiece

-----------------------------------------------------------------------------
(* UDP: the packets that are kept are those that came in and were not pushed *)
(* out, and the one reader that waits finds what woke it.                    *)

udp == a
udpAt == b
packets == c

USE DEF udp, udpAt, packets

UdpState ==
  [queue : Seq(Nat), readSet : BOOLEAN, writeSet : BOOLEAN, closed : BOOLEAN,
   receiveGuard : BOOLEAN, sendGuard : BOOLEAN, closing : BOOLEAN, lost : BOOLEAN,
   buffer : Nat, sent : Nat]
UdpPlace ==
  [place : {"out", "receives", "reading", "sends", "writing"}, woken : BOOLEAN, cut : BOOLEAN]
UdpPast == [came : Nat, received : Seq(Nat), pushedOut : SUBSET Nat, broken : BOOLEAN]

\* The packets of k are those of the first n that are not in gone, in order.
KeptInOrder(k, n, gone) ==
  /\ \A i, j \in DOMAIN k : i < j => k[i] < k[j]
  /\ {k[i] : i \in DOMAIN k} = (1..n) \ gone

\* A reader is alone in receive(); it waits for what has not come, or was woken by
\* what is still there.
UdpReaderFits(t) ==
  /\ udpAt[t].place \in {"out", "receives", "reading"}
  /\ udpAt[t].place # "out" => udp.receiveGuard
  /\ \A u \in UdpReader : udpAt[t].place # "out" /\ udpAt[u].place # "out" => t = u
  /\ udpAt[t].place = "reading" /\ ~udpAt[t].woken =>
       udp.queue = <<>> /\ ~udp.readSet /\ ~udp.lost
  /\ udpAt[t].place = "reading" /\ udpAt[t].woken => udp.queue # <<>> \/ udp.closing

UdpInv ==
  /\ udp \in UdpState /\ udpAt \in [Udp!UdpUser -> UdpPlace] /\ packets \in UdpPast
  /\ packets.pushedOut \subseteq 1..packets.came
  /\ KeptInOrder(packets.received \o udp.queue, packets.came, packets.pushedOut)
  /\ \A t \in UdpReader : UdpReaderFits(t)
  /\ udp.closed = udp.closing /\ (udp.lost => udp.closing)
  /\ ~packets.broken

\* A task that is out was not woken and not cancelled.
OutIsOut == \A t \in Udp!UdpUser : udpAt[t].place = "out" => udpAt[t] = Udp!Out

LEMMA InitUdp == Udp!UdpInit => UdpInv /\ OutIsOut
<1> SUFFICES ASSUME Udp!UdpInit PROVE UdpInv
  BY DEF Udp!UdpInit, OutIsOut, Udp!Out
<1>1. <<>> \in Seq(Nat) /\ <<>> \o <<>> = <<>> /\ DOMAIN <<>> = {}
  BY EmptySeq, ConcatEmptySeq
<1>2. packets.received = <<>> /\ udp.queue = <<>> /\ packets.came = 0 /\ packets.pushedOut = {}
      /\ ~packets.broken
  BY DEF Udp!UdpInit
<1>3. KeptInOrder(packets.received \o udp.queue, packets.came, packets.pushedOut)
  BY <1>1, <1>2 DEF KeptInOrder
<1>4. udp \in UdpState /\ packets \in UdpPast /\ udpAt \in [Udp!UdpUser -> UdpPlace]
  BY <1>1 DEF Udp!UdpInit, UdpState, UdpPast, UdpPlace, Udp!Out
<1>5. \A t \in UdpReader : UdpReaderFits(t)
  BY DEF Udp!UdpInit, Udp!Out, UdpReaderFits, Udp!UdpUser
<1> QED
  BY <1>2, <1>3, <1>4, <1>5 DEF Udp!UdpInit, UdpInv

\* The next packet is the last of those that are kept.
LEMMA PacketComes ==
  ASSUME NEW r \in Seq(Nat), NEW q \in Seq(Nat), NEW n \in Nat, NEW gone \in SUBSET (1..n),
         KeptInOrder(r \o q, n, gone)
  PROVE  KeptInOrder(r \o Append(q, n + 1), n + 1, gone) /\ Append(q, n + 1) \in Seq(Nat)
<1> DEFINE k == r \o q
           z == r \o Append(q, n + 1)
<1>1. k \in Seq(Nat) /\ Len(k) \in Nat /\ DOMAIN k = 1..Len(k)
  BY ConcatProperties, LenProperties
<1>2. n + 1 \in Nat /\ Append(q, n + 1) \in Seq(Nat)
  BY AppendProperties
<1>3. z = Append(k, n + 1)
  BY <1>2, AppendIsConcat, ConcatAssociative, ConcatProperties
<1> HIDE DEF k, z
<1>4. /\ DOMAIN z = 1..(Len(k) + 1) /\ z[Len(k) + 1] = n + 1
      /\ \A i \in 1..Len(k) : z[i] = k[i]
  BY <1>1, <1>2, <1>3, AppendProperties, LenProperties
<1>5. KeptInOrder(k, n, gone)
  BY DEF k
<1>6. \A i \in 1..Len(k) : k[i] \in (1..n) \ gone
  BY <1>1, <1>5 DEF KeptInOrder
<1>7. ASSUME NEW i \in DOMAIN z, NEW j \in DOMAIN z, i < j PROVE z[i] < z[j]
  <2>1. i \in 1..Len(k)
    BY <1>1, <1>4, <1>7
  <2>2. CASE j \in 1..Len(k)
    BY <1>1, <1>4, <1>5, <1>7, <2>1, <2>2 DEF KeptInOrder
  <2>3. CASE j = Len(k) + 1
    BY <1>4, <1>6, <2>1, <2>3
  <2> QED
    BY <1>1, <1>4, <2>2, <2>3
<1>8. {z[i] : i \in DOMAIN z} = (1..(n + 1)) \ gone
  <2>1. ASSUME NEW i \in DOMAIN z PROVE z[i] \in (1..(n + 1)) \ gone
    <3>1. CASE i \in 1..Len(k)
      BY <1>4, <1>6, <3>1
    <3>2. CASE i = Len(k) + 1
      <4>1. n + 1 \notin gone
        OBVIOUS
      <4> QED
        BY <1>4, <3>2, <4>1
    <3>3. i \in 1..Len(k) \/ i = Len(k) + 1
      <4>1. i \in 1..(Len(k) + 1)
        BY <1>4
      <4> QED
        BY <1>1, <4>1
    <3> QED
      BY <3>1, <3>2, <3>3
  <2>2. ASSUME NEW x \in (1..(n + 1)) \ gone PROVE \E i \in DOMAIN z : z[i] = x
    <3>1. CASE x = n + 1
      <4>1. Len(k) + 1 \in DOMAIN z
        BY <1>1, <1>4
      <4> QED
        BY <1>4, <3>1, <4>1
    <3>2. CASE x # n + 1
      <4>1. x \in (1..n) \ gone
        BY <3>2
      <4>2. PICK i \in DOMAIN k : k[i] = x
        BY <1>5, <4>1 DEF KeptInOrder
      <4> QED
        BY <1>1, <1>4, <4>2
    <3> QED
      BY <3>1, <3>2
  <2> QED
    BY <2>1, <2>2
<1> QED
  BY <1>2, <1>7, <1>8 DEF KeptInOrder, z

LEMMA Reassociated ==
  \A u, v, w \in Seq(Nat) : (u \o v) \o w = u \o (v \o w)
<1> DEFINE T == Nat
<1> HIDE DEF T
<1>1. \A u, v, w \in Seq(T) : (u \o v) \o w = u \o (v \o w)
  BY ConcatAssociative, SMTT(30)
<1> QED
  BY <1>1, Zenon DEF T

\* A full queue loses its first packet.
LEMMA PacketGoes ==
  ASSUME NEW r \in Seq(Nat), NEW q \in Seq(Nat), NEW n \in Nat, NEW gone, q # <<>>,
         KeptInOrder(r \o q, n, gone)
  PROVE  /\ KeptInOrder(r \o Tail(q), n, gone \union {Head(q)})
         /\ Tail(q) \in Seq(Nat) /\ Head(q) \in 1..n
<1> DEFINE k == r \o q
           z == r \o Tail(q)
           p == Len(r) + 1
<1>1. /\ Head(q) = q[1] /\ Tail(q) \in Seq(Nat) /\ Len(Tail(q)) = Len(q) - 1
      /\ \A i \in 1..Len(Tail(q)) : Tail(q)[i] = q[i + 1]
      /\ Len(q) \in Nat /\ Len(q) > 0 /\ Len(r) \in Nat
  BY HeadTailProperties, LenProperties, EmptySeq
<1>2. /\ k \in Seq(Nat) /\ Len(k) = Len(r) + Len(q) /\ DOMAIN k = 1..Len(k)
      /\ \A i \in 1..(Len(r) + Len(q)) : k[i] = IF i <= Len(r) THEN r[i] ELSE q[i - Len(r)]
  BY ConcatProperties, LenProperties
<1>3. /\ z \in Seq(Nat) /\ Len(z) = Len(r) + Len(Tail(q)) /\ DOMAIN z = 1..Len(z)
      /\ \A i \in 1..(Len(r) + Len(Tail(q))) : z[i] = IF i <= Len(r) THEN r[i] ELSE Tail(q)[i - Len(r)]
  BY <1>1, ConcatProperties, LenProperties
<1>4. KeptInOrder(k, n, gone)
  OBVIOUS
<1> HIDE DEF k, z
<1>5. /\ p \in 1..Len(k) /\ k[p] = Head(q) /\ Len(z) = Len(k) - 1 /\ Len(k) \in Nat
      /\ \A i \in 1..(Len(k) - 1) : z[i] = IF i < p THEN k[i] ELSE k[i + 1]
  <2>1. p \in 1..(Len(r) + Len(q)) /\ ~(p <= Len(r)) /\ p - Len(r) = 1
    BY <1>1
  <2>2. p \in 1..Len(k) /\ k[p] = Head(q) /\ Len(z) = Len(k) - 1 /\ Len(k) \in Nat
    <3>1. k[p] = q[p - Len(r)]
      BY <1>2, <2>1
    <3>2. k[p] = Head(q)
      BY <1>1, <2>1, <3>1
    <3> HIDE DEF p
    <3> QED
      BY <1>1, <1>2, <1>3, <2>1, <3>2
  <2>3. ASSUME NEW i \in 1..(Len(k) - 1) PROVE z[i] = IF i < p THEN k[i] ELSE k[i + 1]
    <3>1. i \in 1..(Len(r) + Len(Tail(q))) /\ i \in 1..(Len(r) + Len(q)) /\ i + 1 \in 1..(Len(r) + Len(q))
      BY <1>1, <1>2
    <3>2. CASE i < p
      <4>1. i <= Len(r)
        BY <1>1, <3>2
      <4> QED
        BY <1>2, <1>3, <3>1, <3>2, <4>1
    <3>3. CASE ~(i < p)
      <4>1. ~(i <= Len(r)) /\ ~(i + 1 <= Len(r)) /\ i - Len(r) \in 1..Len(Tail(q))
            /\ (i + 1) - Len(r) = (i - Len(r)) + 1
        <5>1. /\ Len(Tail(q)) = Len(q) - 1 /\ Len(r) \in Nat /\ Len(q) \in Nat /\ Len(q) > 0
              /\ i \in Nat /\ i <= Len(r) + Len(q) - 1
          BY <1>1, <3>1, <1>2
        <5>2. i > Len(r)
          BY <3>3, <5>1
        <5> QED
          BY <5>1, <5>2
      <4>2. z[i] = Tail(q)[i - Len(r)] /\ k[i + 1] = q[(i + 1) - Len(r)]
        BY <1>2, <1>3, <3>1, <4>1
      <4> QED
        BY <1>1, <3>3, <4>1, <4>2
    <3> QED
      BY <3>2, <3>3
  <2> QED
    BY <2>2, <2>3
<1> HIDE DEF p
<1>6. /\ \A i, j \in 1..Len(k) : i < j => k[i] < k[j]
      /\ {k[i] : i \in 1..Len(k)} = (1..n) \ gone
      /\ \A i \in 1..Len(k) : k[i] \in Nat
  BY <1>2, <1>4, ElementOfSeq DEF KeptInOrder
<1>7. Head(q) \in 1..n
  BY <1>5, <1>6
<1>8. ASSUME NEW i \in DOMAIN z, NEW j \in DOMAIN z, i < j PROVE z[i] < z[j]
  <2>1. i \in 1..(Len(k) - 1) /\ j \in 1..(Len(k) - 1)
    BY <1>3, <1>5
  <2>2. PICK i1 \in 1..Len(k), j1 \in 1..Len(k) : i1 < j1 /\ z[i] = k[i1] /\ z[j] = k[j1]
    <3>1. CASE i < p /\ j < p
      <4>1. i \in 1..Len(k) /\ j \in 1..Len(k)
        BY <1>5, <2>1
      <4> QED
        BY <1>5, <1>8, <2>1, <3>1, <4>1
    <3>2. CASE i < p /\ ~(j < p)
      <4>1. j + 1 \in 1..Len(k) /\ i < j + 1 /\ i \in 1..Len(k)
        BY <1>5, <1>8, <2>1
      <4> QED
        BY <1>5, <2>1, <3>2, <4>1
    <3>3. CASE ~(i < p)
      <4>1. ~(j < p) /\ i + 1 \in 1..Len(k) /\ j + 1 \in 1..Len(k) /\ i + 1 < j + 1
        BY <1>5, <1>8, <2>1, <3>3, SMTT(30)
      <4> QED
        BY <1>5, <2>1, <3>3, <4>1
    <3> QED
      BY <3>1, <3>2, <3>3
  <2> QED
    BY <1>6, <2>2
<1>9. ASSUME NEW i \in DOMAIN z PROVE z[i] \in (1..n) \ (gone \union {Head(q)})
  <2>1. CASE i < p
    <3>2. i \in 1..(Len(k) - 1) /\ i \in 1..Len(k)
      BY <1>3, <1>5, SMTT(30)
    <3>1. z[i] = k[i] /\ i \in 1..Len(k) /\ k[i] < k[p] /\ k[i] \in Nat /\ k[p] \in Nat
      BY <1>5, <1>6, <2>1, <3>2
    <3> QED
      BY <1>5, <1>6, <3>1
  <2>2. CASE ~(i < p)
    <3>0. i \in 1..(Len(k) - 1) /\ Len(k) \in Nat /\ p \in Nat
      BY <1>3, <1>5
    <3>1. z[i] = k[i + 1] /\ i + 1 \in 1..Len(k) /\ p < i + 1
      <4>1. i + 1 \in 1..Len(k) /\ p < i + 1
        BY <2>2, <3>0
      <4> QED
        BY <1>5, <2>2, <3>0, <4>1
    <3>2. k[p] < k[i + 1] /\ k[i + 1] \in Nat /\ k[p] \in Nat
      BY <1>5, <1>6, <3>1
    <3> QED
      BY <1>5, <1>6, <3>1, <3>2
  <2> QED
    BY <2>1, <2>2
<1>10. ASSUME NEW x \in (1..n) \ (gone \union {Head(q)}) PROVE \E i \in DOMAIN z : z[i] = x
  <2>1. PICK i \in 1..Len(k) : k[i] = x
    BY <1>6
  <2>2. i # p
    BY <1>5, <2>1
  <2>3. CASE i < p
    <3>1. i \in DOMAIN z /\ z[i] = k[i]
      BY <1>3, <1>5, <2>3, SMTT(30)
    <3> QED
      BY <2>1, <3>1
  <2>4. CASE i > p
    <3>1. i - 1 \in DOMAIN z /\ ~(i - 1 < p) /\ (i - 1) + 1 = i
      BY <1>3, <1>5, <2>4
    <3>2. z[i - 1] = k[i]
      BY <1>3, <1>5, <3>1
    <3> QED
      BY <2>1, <3>1, <3>2
  <2> QED
    BY <1>5, <2>2, <2>3, <2>4
<1>11. {z[i] : i \in DOMAIN z} = (1..n) \ (gone \union {Head(q)})
  BY <1>9, <1>10
<1> QED
  BY <1>1, <1>7, <1>8, <1>11 DEF KeptInOrder, z

\* The first packet of the queue is received.
LEMMA PacketMoves ==
  ASSUME NEW r \in Seq(Nat), NEW q \in Seq(Nat), q # <<>>
  PROVE  /\ Append(r, Head(q)) \in Seq(Nat) /\ Tail(q) \in Seq(Nat)
         /\ Append(r, Head(q)) \o Tail(q) = r \o q
<1>1. Head(q) \in Nat /\ Tail(q) \in Seq(Nat) /\ <<Head(q)>> \in Seq(Nat)
  BY HeadTailProperties
<1>2. q = <<Head(q)>> \o Tail(q)
  <2> DEFINE h == <<Head(q)>>
             w == h \o Tail(q)
  <2>1. /\ Head(q) = q[1] /\ Len(Tail(q)) = Len(q) - 1 /\ Len(q) \in Nat /\ Len(q) > 0
        /\ \A i \in 1..Len(Tail(q)) : Tail(q)[i] = q[i + 1]
    BY HeadTailProperties, LenProperties, EmptySeq
  <2>2. Len(h) = 1 /\ h[1] = q[1] /\ h \in Seq(Nat)
    BY <1>1, <2>1
  <2> HIDE DEF h
  <2>3. /\ w \in Seq(Nat) /\ Len(w) = Len(h) + Len(Tail(q))
        /\ \A i \in 1..(Len(h) + Len(Tail(q))) :
             w[i] = IF i <= Len(h) THEN h[i] ELSE Tail(q)[i - Len(h)]
    BY <1>1, <2>2, ConcatProperties
  <2>4. Len(w) = Len(q)
    BY <2>1, <2>2, <2>3
  <2>5. ASSUME NEW i \in 1..Len(q) PROVE w[i] = q[i]
    <3>1. CASE i = 1
      BY <2>1, <2>2, <2>3, <3>1
    <3>2. CASE i # 1
      <4>1. i - 1 \in 1..Len(Tail(q)) /\ (i - 1) + 1 = i /\ ~(i <= Len(h))
            /\ i - Len(h) = i - 1 /\ i \in 1..(Len(h) + Len(Tail(q)))
        BY <2>1, <2>2, <3>2
      <4>2. w[i] = Tail(q)[i - 1]
        BY <2>3, <4>1
      <4> QED
        BY <2>1, <4>1, <4>2
    <3> QED
      BY <3>1, <3>2
  <2> QED
    BY <2>3, <2>4, <2>5, SeqEqual DEF h
<1>3. Append(r, Head(q)) = r \o <<Head(q)>>
  BY <1>1, AppendIsConcat
<1>4. (r \o <<Head(q)>>) \o Tail(q) = r \o (<<Head(q)>> \o Tail(q))
  <2>2. r \in Seq(Nat) /\ <<Head(q)>> \in Seq(Nat) /\ Tail(q) \in Seq(Nat)
    BY <1>1
  <2> QED
    BY <2>2, Reassociated
<1>5. Append(r, Head(q)) \in Seq(Nat)
  BY <1>1, AppendProperties
<1> QED
  BY <1>1, <1>2, <1>3, <1>4, <1>5

-----------------------------------------------------------------------------
LEMMA UdpGoesFacts ==
  ASSUME udpAt \in [Udp!UdpUser -> UdpPlace], NEW t \in Udp!UdpUser,
         NEW p \in {"out", "receives", "reading", "sends", "writing"}, Udp!UdpGoes(t, p)
  PROVE  /\ udpAt' \in [Udp!UdpUser -> UdpPlace]
         /\ udpAt'[t].place = p /\ ~udpAt'[t].woken
         /\ \A u \in Udp!UdpUser : u # t => udpAt'[u] = udpAt[u]
<1> DEFINE x == [Udp!Out EXCEPT !.place = p]
<1>1. x \in UdpPlace /\ x.place = p /\ ~x.woken
  BY DEF Udp!Out, UdpPlace
<1>2. udpAt' = [udpAt EXCEPT ![t] = x]
  BY DEF Udp!UdpGoes
<1> HIDE DEF x
<1> QED
  BY <1>1, <1>2

\* A step that wakes some of those that wait, and moves nobody
LEMMA UdpWakesFacts ==
  ASSUME udpAt \in [Udp!UdpUser -> UdpPlace], NEW W \in SUBSET Udp!UdpUser,
         udpAt' = [t \in Udp!UdpUser |-> IF t \in W THEN [udpAt[t] EXCEPT !.woken = TRUE]
                                         ELSE udpAt[t]]
  PROVE  /\ udpAt' \in [Udp!UdpUser -> UdpPlace]
         /\ \A t \in Udp!UdpUser :
              /\ udpAt'[t].place = udpAt[t].place
              /\ udpAt'[t].woken <=> udpAt[t].woken \/ t \in W
<1>1. ASSUME NEW t \in Udp!UdpUser
      PROVE  /\ udpAt'[t] \in UdpPlace /\ udpAt'[t].place = udpAt[t].place
             /\ udpAt'[t].woken <=> udpAt[t].woken \/ t \in W
  <2>1. udpAt[t] \in UdpPlace /\ udpAt[t].woken \in BOOLEAN
    BY DEF UdpPlace
  <2>2. udpAt'[t] = IF t \in W THEN [udpAt[t] EXCEPT !.woken = TRUE] ELSE udpAt[t]
    OBVIOUS
  <2> QED
    BY <2>1, <2>2 DEF UdpPlace
<1> QED
  BY <1>1

\* Who reads does not write.
LEMMA UdpUsers ==
  /\ UdpReader \subseteq Udp!UdpUser /\ UdpWriter \subseteq Udp!UdpUser
  /\ \A t \in UdpReader : t \notin UdpWriter
BY UdpAssumption DEF Udp!UdpUser

\* A step after which the packets are the same, or one was received
LEMMA PacketsStay ==
  ASSUME UdpInv, packets' \in UdpPast, udp' \in UdpState,
         packets'.came = packets.came, packets'.pushedOut = packets.pushedOut,
         packets'.received \o udp'.queue = packets.received \o udp.queue
  PROVE  /\ packets'.pushedOut \subseteq 1..packets'.came
         /\ KeptInOrder(packets'.received \o udp'.queue, packets'.came, packets'.pushedOut)
BY DEF UdpInv

LEMMA DatagramStep ==
  ASSUME UdpInv, Udp!DatagramReceived
  PROVE  UdpInv'
<1> DEFINE n == packets.came + 1
           full == Len(udp.queue) = MaxQueue
           q == Append(udp.queue, n)
           nq == IF full THEN Tail(q) ELSE q
           np == IF full THEN packets.pushedOut \union {Head(q)} ELSE packets.pushedOut
<1>1. /\ udp \in UdpState /\ packets \in UdpPast /\ udpAt \in [Udp!UdpUser -> UdpPlace]
      /\ packets.came \in Nat /\ packets.received \in Seq(Nat) /\ udp.queue \in Seq(Nat)
      /\ packets.pushedOut \subseteq 1..packets.came
      /\ KeptInOrder(packets.received \o udp.queue, packets.came, packets.pushedOut)
  BY DEF UdpInv, UdpState, UdpPast
<1>2. /\ q \in Seq(Nat) /\ KeptInOrder(packets.received \o q, n, packets.pushedOut)
      /\ n \in Nat /\ packets.pushedOut \subseteq 1..n
  <2>1. packets.pushedOut \in SUBSET (1..packets.came)
    BY <1>1
  <2>2. q \in Seq(Nat) /\ KeptInOrder(packets.received \o q, n, packets.pushedOut)
    BY <1>1, <2>1, PacketComes
  <2>3. n \in Nat /\ packets.pushedOut \subseteq 1..n
    BY <1>1
  <2> QED
    BY <2>2, <2>3
<1>3. q # <<>> /\ Len(q) = Len(udp.queue) + 1 /\ Len(udp.queue) \in Nat
  BY <1>1, <1>2, AppendProperties, LenProperties, EmptySeq
<1>4. /\ udp' = [udp EXCEPT !.queue = nq, !.readSet = TRUE]
      /\ packets' = [packets EXCEPT !.came = n, !.pushedOut = np]
      /\ udpAt' = Udp!UdpWakes("reading")
  BY DEF Udp!DatagramReceived
<1>5. /\ nq \in Seq(Nat) /\ nq # <<>> /\ np \subseteq 1..n
      /\ KeptInOrder(packets.received \o nq, n, np)
  <2> HIDE DEF q, n
  <2>1. CASE full
    <3>1. KeptInOrder(packets.received \o Tail(q), n, packets.pushedOut \union {Head(q)})
      BY <1>1, <1>2, <1>3, PacketGoes
    <3>4. Tail(q) \in Seq(Nat) /\ Head(q) \in 1..n
      BY <1>1, <1>2, <1>3, PacketGoes
    <3>2. Len(Tail(q)) = Len(q) - 1
      BY <1>2, <1>3, HeadTailProperties
    <3>3. Tail(q) # <<>>
      <4>1. Len(udp.queue) = MaxQueue /\ MaxQueue \in Nat /\ MaxQueue # 0
        BY <2>1, UdpAssumption
      <4>2. Len(Tail(q)) # 0
        BY <1>3, <3>2, <4>1
      <4> QED
        BY <4>2, EmptySeq
    <3> QED
      BY <1>2, <2>1, <3>1, <3>3, <3>4
  <2>2. CASE ~full
    BY <1>2, <1>3, <2>2
  <2> QED
    BY <2>1, <2>2
<1> HIDE DEF nq, np, q, n, full
<1>6. /\ udp' \in UdpState /\ udp'.queue = nq /\ udp'.closing = udp.closing
      /\ udp'.closed = udp.closed /\ udp'.lost = udp.lost
      /\ udp'.receiveGuard = udp.receiveGuard
  BY <1>1, <1>4, <1>5 DEF UdpState
<1>7. /\ packets' \in UdpPast /\ packets'.came = n /\ packets'.pushedOut = np
      /\ packets'.received = packets.received /\ packets'.broken = packets.broken
  <2>1. np \in SUBSET Nat
    BY <1>2, <1>5
  <2> QED
    BY <1>1, <1>2, <1>4, <2>1 DEF UdpPast
<1> DEFINE W == {t \in Udp!UdpUser : udpAt[t].place = "reading"}
<1>8. /\ udpAt' \in [Udp!UdpUser -> UdpPlace]
      /\ \A t \in Udp!UdpUser : /\ udpAt'[t].place = udpAt[t].place
                                /\ udpAt'[t].woken <=> udpAt[t].woken \/ t \in W
  <2>1. udpAt' = [t \in Udp!UdpUser |-> IF t \in W THEN [udpAt[t] EXCEPT !.woken = TRUE]
                                         ELSE udpAt[t]]
    BY <1>4 DEF Udp!UdpWakes
  <2>2. W \in SUBSET Udp!UdpUser
    OBVIOUS
  <2> HIDE DEF W
  <2> QED
    BY <1>1, <2>1, <2>2, UdpWakesFacts
<1>9. ASSUME NEW t \in UdpReader PROVE UdpReaderFits(t)'
  BY <1>5, <1>6, <1>8, UdpUsers DEF UdpInv, UdpReaderFits
<1> QED
  BY <1>5, <1>6, <1>7, <1>8, <1>9 DEF UdpInv

\* The two steps in which the transport lets go of what it holds
LEMMA TransportStep ==
  ASSUME UdpInv, Udp!SendtoReady \/ Udp!UdpLost
  PROVE  UdpInv'
<1>1. /\ udp \in UdpState /\ packets \in UdpPast /\ udpAt \in [Udp!UdpUser -> UdpPlace]
      /\ packets' = packets
  BY DEF UdpInv, Udp!SendtoReady, Udp!UdpLost
<1>2. PICK lost \in BOOLEAN, rs \in BOOLEAN :
        /\ udp' = [udp EXCEPT !.buffer = 0, !.writeSet = TRUE, !.lost = lost, !.readSet = rs]
        /\ lost = udp.closing /\ (~udp.closing => rs = udp.readSet)
  <2>1. CASE Udp!SendtoReady
    <3>1. udp.closing \in BOOLEAN /\ udp.readSet \in BOOLEAN /\ (udp.readSet \/ udp.closing) \in BOOLEAN
      BY <1>1 DEF UdpState
    <3> QED
      BY <2>1, <3>1 DEF Udp!SendtoReady
  <2>2. CASE Udp!UdpLost
    <3>1. udp' = [udp EXCEPT !.lost = TRUE, !.readSet = TRUE, !.writeSet = TRUE]
          /\ udp.closing /\ udp.buffer = 0
      BY <2>2 DEF Udp!UdpLost
    <3>2. udp.closing = TRUE
      BY <1>1, <3>1 DEF UdpState
    <3>3. udp' = [udp EXCEPT !.buffer = 0, !.writeSet = TRUE, !.lost = TRUE, !.readSet = TRUE]
      BY <1>1, <3>1 DEF UdpState
    <3> QED
      BY <3>2, <3>3
  <2> QED
    BY <2>1, <2>2
<1>3. /\ udp' \in UdpState /\ udp'.queue = udp.queue /\ udp'.closing = udp.closing
      /\ udp'.closed = udp.closed /\ udp'.lost = udp.closing
      /\ udp'.receiveGuard = udp.receiveGuard
      /\ ~udp.closing => udp'.readSet = udp.readSet
  BY <1>1, <1>2 DEF UdpState
<1>4. /\ udpAt' \in [Udp!UdpUser -> UdpPlace]
      /\ \A t \in Udp!UdpUser :
           /\ udpAt'[t].place = udpAt[t].place
           /\ udpAt[t].woken => udpAt'[t].woken
           /\ udpAt[t].place = "reading" =>
                (udpAt'[t].woken <=> udpAt[t].woken \/ udp.closing)
  <2>1. PICK W \in SUBSET Udp!UdpUser :
          /\ udpAt' = [t \in Udp!UdpUser |-> IF t \in W THEN [udpAt[t] EXCEPT !.woken = TRUE]
                                             ELSE udpAt[t]]
          /\ \A t \in Udp!UdpUser : udpAt[t].place = "reading" => (t \in W <=> udp.closing)
    <3>1. CASE Udp!SendtoReady
      <4> DEFINE V == {t \in Udp!UdpUser : udpAt[t].place = "writing"
                           \/ (udp.closing /\ udpAt[t].place = "reading")}
      <4>1. V \in SUBSET Udp!UdpUser
        OBVIOUS
      <4>2. udpAt' = [t \in Udp!UdpUser |-> IF t \in V THEN [udpAt[t] EXCEPT !.woken = TRUE]
                                             ELSE udpAt[t]]
        BY <3>1 DEF Udp!SendtoReady
      <4>3. \A t \in Udp!UdpUser : udpAt[t].place = "reading" => (t \in V <=> udp.closing)
        OBVIOUS
      <4> QED
        BY <4>1, <4>2, <4>3
    <3>2. CASE Udp!UdpLost
      <4> DEFINE V == {t \in Udp!UdpUser : udpAt[t].place \in {"reading", "writing"}}
      <4>1. V \in SUBSET Udp!UdpUser
        OBVIOUS
      <4>2. udpAt' = [t \in Udp!UdpUser |-> IF t \in V THEN [udpAt[t] EXCEPT !.woken = TRUE]
                                             ELSE udpAt[t]]
        BY <3>2 DEF Udp!UdpLost
      <4>3. \A t \in Udp!UdpUser : udpAt[t].place = "reading" => (t \in V <=> udp.closing)
        BY <3>2 DEF Udp!UdpLost
      <4> QED
        BY <4>1, <4>2, <4>3
    <3> QED
      BY <3>1, <3>2
  <2> QED
    BY <1>1, <2>1, UdpWakesFacts
<1>5. ASSUME NEW t \in UdpReader PROVE UdpReaderFits(t)'
  BY <1>3, <1>4, UdpUsers DEF UdpInv, UdpReaderFits
<1> QED
  BY <1>1, <1>3, <1>4, <1>5 DEF UdpInv

\* A reader starts, and begins to wait.
LEMMA ReadsStart ==
  ASSUME UdpInv, NEW t \in UdpReader, Udp!StartUdpReceive(t) \/ Udp!UdpWaits(t)
  PROVE  UdpInv'
<1>1. /\ udp \in UdpState /\ packets \in UdpPast /\ udpAt \in [Udp!UdpUser -> UdpPlace]
      /\ packets' = packets /\ t \in Udp!UdpUser
  BY UdpUsers DEF UdpInv, Udp!StartUdpReceive, Udp!UdpWaits
<1>2. ASSUME Udp!StartUdpReceive(t) PROVE UdpInv'
  <2>1. /\ udpAt[t].place = "out" /\ ~udp.receiveGuard /\ Udp!UdpGoes(t, "receives")
        /\ udp' = [udp EXCEPT !.receiveGuard = TRUE]
    BY <1>2 DEF Udp!StartUdpReceive, Udp!Out
  <2>2. /\ udpAt' \in [Udp!UdpUser -> UdpPlace] /\ udpAt'[t].place = "receives"
        /\ \A u \in Udp!UdpUser : u # t => udpAt'[u] = udpAt[u]
    BY <1>1, <2>1, UdpGoesFacts
  <2>3. /\ udp' \in UdpState /\ udp'.queue = udp.queue /\ udp'.closing = udp.closing
        /\ udp'.closed = udp.closed /\ udp'.lost = udp.lost /\ udp'.receiveGuard
        /\ udp'.readSet = udp.readSet
    BY <1>1, <2>1 DEF UdpState
  <2>4. \A u \in UdpReader : u # t => udpAt'[u].place = "out"
    BY <2>1, <2>2, UdpUsers DEF UdpInv, UdpReaderFits
  <2>5. ASSUME NEW u \in UdpReader PROVE UdpReaderFits(u)'
    BY <2>2, <2>3, <2>4 DEF UdpReaderFits
  <2> QED
    BY <1>1, <2>2, <2>3, <2>5 DEF UdpInv
<1>3. ASSUME Udp!UdpWaits(t) PROVE UdpInv'
  <2>1. /\ udpAt[t].place = "receives" /\ udp.queue = <<>> /\ ~udp.closing
        /\ udp' = [udp EXCEPT !.readSet = FALSE]
    BY <1>3 DEF Udp!UdpWaits, Udp!Unset
  <2>2. /\ udpAt' \in [Udp!UdpUser -> UdpPlace] /\ udpAt'[t].place = "reading"
        /\ ~udpAt'[t].woken
        /\ \A u \in Udp!UdpUser : u # t => udpAt'[u] = udpAt[u]
    <3> DEFINE x == [Udp!Out EXCEPT !.place = "reading", !.woken = FALSE]
    <3>1. x \in UdpPlace /\ x.place = "reading" /\ ~x.woken
      BY DEF Udp!Out, UdpPlace
    <3>2. udpAt' = [udpAt EXCEPT ![t] = x]
      BY <1>3 DEF Udp!UdpWaits, Udp!Unset
    <3> HIDE DEF x
    <3> QED
      BY <1>1, <3>1, <3>2
  <2>3. /\ udp' \in UdpState /\ udp'.queue = udp.queue /\ udp'.closing = udp.closing
        /\ udp'.closed = udp.closed /\ udp'.lost = udp.lost
        /\ udp'.receiveGuard = udp.receiveGuard /\ ~udp'.readSet
    BY <1>1, <2>1 DEF UdpState
  <2>4. /\ udp.receiveGuard /\ ~udp.lost
        /\ \A u \in UdpReader : u # t => udpAt'[u].place = "out"
    BY <2>1, <2>2, UdpUsers DEF UdpInv, UdpReaderFits
  <2>5. ASSUME NEW u \in UdpReader PROVE UdpReaderFits(u)'
    BY <2>1, <2>2, <2>3, <2>4 DEF UdpReaderFits
  <2> QED
    BY <1>1, <2>2, <2>3, <2>5 DEF UdpInv
<1> QED
  BY <1>2, <1>3

\* A reader leaves receive(), with a packet or without.
LEMMA ReadsEnd ==
  ASSUME UdpInv, NEW t \in UdpReader, Udp!UdpReceives(t)
  PROVE  UdpInv'
<1>1. /\ udp \in UdpState /\ packets \in UdpPast /\ udpAt \in [Udp!UdpUser -> UdpPlace]
      /\ t \in Udp!UdpUser /\ udp.queue \in Seq(Nat) /\ packets.received \in Seq(Nat)
  BY UdpUsers DEF UdpInv, UdpState, UdpPast
<1>2. /\ Udp!UdpGoes(t, "out")
      /\ \/ udpAt[t].place = "receives" /\ (udp.queue # <<>> \/ udp.closing)
         \/ udpAt[t].place = "reading" /\ udpAt[t].woken
  BY DEF Udp!UdpReceives
<1>3. /\ udpAt' \in [Udp!UdpUser -> UdpPlace] /\ udpAt'[t].place = "out"
      /\ \A u \in Udp!UdpUser : u # t => udpAt'[u] = udpAt[u]
  BY <1>1, <1>2, UdpGoesFacts
<1>4. \A u \in UdpReader : udpAt'[u].place = "out"
  BY <1>2, <1>3, UdpUsers DEF UdpInv, UdpReaderFits
<1>5. ASSUME NEW u \in UdpReader PROVE UdpReaderFits(u)'
  BY <1>4 DEF UdpReaderFits
<1>6. udp.queue # <<>> \/ udp.closed
  BY <1>2 DEF UdpInv, UdpReaderFits
<1>7. CASE udp.queue # <<>>
  <2> DEFINE tl == Tail(udp.queue)
             rc == Append(packets.received, Head(udp.queue))
  <2>1. udp' = [udp EXCEPT !.queue = tl, !.receiveGuard = FALSE]
        /\ packets' = [packets EXCEPT !.received = rc]
    BY <1>7 DEF Udp!UdpReceives
  <2>2. tl \in Seq(Nat) /\ rc \in Seq(Nat) /\ rc \o tl = packets.received \o udp.queue
    BY <1>1, <1>7, PacketMoves
  <2> HIDE DEF tl, rc
  <2>3. /\ udp' \in UdpState /\ udp'.queue = tl /\ udp'.closing = udp.closing
        /\ udp'.closed = udp.closed /\ udp'.lost = udp.lost
    BY <1>1, <2>1, <2>2 DEF UdpState
  <2>4. /\ packets' \in UdpPast /\ packets'.received = rc /\ packets'.came = packets.came
        /\ packets'.pushedOut = packets.pushedOut /\ packets'.broken = packets.broken
    BY <1>1, <2>1, <2>2 DEF UdpPast
  <2>5. /\ packets'.pushedOut \subseteq 1..packets'.came
        /\ KeptInOrder(packets'.received \o udp'.queue, packets'.came, packets'.pushedOut)
    BY <2>2, <2>3, <2>4, PacketsStay
  <2> QED
    BY <1>3, <1>5, <2>3, <2>4, <2>5 DEF UdpInv
<1>8. CASE udp.queue = <<>>
  <2>1. udp' = [udp EXCEPT !.receiveGuard = FALSE]
        /\ packets' = [packets EXCEPT !.broken = packets.broken \/ ~udp.closed]
    BY <1>8 DEF Udp!UdpReceives
  <2>2. (packets.broken \/ ~udp.closed) = FALSE
    BY <1>6, <1>8 DEF UdpInv
  <2>3. /\ udp' \in UdpState /\ udp'.queue = udp.queue /\ udp'.closing = udp.closing
        /\ udp'.closed = udp.closed /\ udp'.lost = udp.lost
    BY <1>1, <2>1 DEF UdpState
  <2>4. /\ packets' \in UdpPast /\ packets'.received = packets.received
        /\ packets'.came = packets.came
        /\ packets'.pushedOut = packets.pushedOut /\ ~packets'.broken
    BY <1>1, <2>1, <2>2 DEF UdpPast
  <2> QED
    BY <1>3, <1>5, <2>3, <2>4 DEF UdpInv
<1> QED
  BY <1>7, <1>8

\* A writer starts and sends.
LEMMA UdpSendStep ==
  ASSUME UdpInv, NEW t \in UdpWriter, Udp!StartUdpSend(t) \/ Udp!UdpSends(t)
  PROVE  UdpInv'
<1>1. /\ udp \in UdpState /\ packets \in UdpPast /\ udpAt \in [Udp!UdpUser -> UdpPlace]
      /\ packets' = packets /\ t \in Udp!UdpUser /\ udp.sent \in Nat /\ udp.buffer \in Nat
  BY UdpUsers DEF UdpInv, Udp!StartUdpSend, Udp!UdpSends, UdpState
<1>2. PICK p \in {"out", "sends", "writing"} : Udp!UdpGoes(t, p)
  BY DEF Udp!StartUdpSend, Udp!UdpSends
<1>3. /\ udpAt' \in [Udp!UdpUser -> UdpPlace]
      /\ \A u \in UdpReader : udpAt'[u] = udpAt[u]
  BY <1>1, <1>2, UdpGoesFacts, UdpUsers
<1>4. /\ udp' \in UdpState /\ udp'.queue = udp.queue /\ udp'.closing = udp.closing
      /\ udp'.closed = udp.closed /\ udp'.lost = udp.lost
      /\ udp'.receiveGuard = udp.receiveGuard /\ udp'.readSet = udp.readSet
  <2> DEFINE s == [udp EXCEPT !.sendGuard = FALSE]
             kept == [s EXCEPT !.sent = udp.sent + 1, !.buffer = udp.buffer + 1]
  <2>1. /\ s \in UdpState /\ s.queue = udp.queue /\ s.closing = udp.closing
        /\ s.closed = udp.closed /\ s.lost = udp.lost /\ s.sent = udp.sent /\ s.buffer = udp.buffer
        /\ s.receiveGuard = udp.receiveGuard /\ s.readSet = udp.readSet
    BY <1>1 DEF UdpState
  <2>2. /\ kept \in UdpState /\ kept.queue = udp.queue /\ kept.closing = udp.closing
        /\ kept.closed = udp.closed /\ kept.lost = udp.lost
        /\ kept.receiveGuard = udp.receiveGuard /\ kept.readSet = udp.readSet
    <3>1. udp.sent + 1 \in Nat /\ udp.buffer + 1 \in Nat
      BY <1>1
    <3> DEFINE x == udp.sent + 1
               y == udp.buffer + 1
    <3>2. x \in Nat /\ y \in Nat /\ kept = [s EXCEPT !.sent = x, !.buffer = y]
      BY <3>1
    <3> HIDE DEF s, x, y, kept
    <3> QED
      BY <2>1, <3>2 DEF UdpState
  <2>3. \/ udp' = [udp EXCEPT !.sendGuard = TRUE]
        \/ udp' = udp
        \/ udp' = s
        \/ udp' = [s EXCEPT !.sent = s.sent + 1]
        \/ udp' = kept
        \/ udp' = [kept EXCEPT !.writeSet = FALSE]
    <3>1. CASE Udp!StartUdpSend(t)
      BY <3>1 DEF Udp!StartUdpSend
    <3>2. CASE Udp!UdpSends(t)
      <4>1. kept = [s EXCEPT !.sent = s.sent + 1, !.buffer = s.buffer + 1]
        BY <2>1
      <4> HIDE DEF kept
      <4> QED
        BY <3>2, <4>1 DEF Udp!UdpSends
    <3> QED
      BY <3>1, <3>2
  <2> HIDE DEF s, kept
  <2>4. CASE udp' = [udp EXCEPT !.sendGuard = TRUE]
    BY <1>1, <2>4 DEF UdpState
  <2>5. CASE udp' = [s EXCEPT !.sent = s.sent + 1]
    <3> DEFINE x == s.sent + 1
    <3>1. x \in Nat /\ udp' = [s EXCEPT !.sent = x]
      BY <1>1, <2>1, <2>5
    <3> HIDE DEF x
    <3> QED
      BY <2>1, <3>1 DEF UdpState
  <2>6. CASE udp' = [kept EXCEPT !.writeSet = FALSE]
    BY <2>2, <2>6 DEF UdpState
  <2>7. CASE udp' = udp
    BY <1>1, <2>7
  <2> QED
    BY <2>1, <2>2, <2>3, <2>4, <2>5, <2>6, <2>7
<1>5. ASSUME NEW u \in UdpReader PROVE UdpReaderFits(u)'
  BY <1>3, <1>4 DEF UdpInv, UdpReaderFits
<1> QED
  BY <1>1, <1>3, <1>4, <1>5 DEF UdpInv

\* A cancelled task leaves; a task is cancelled; the socket is closed.
LEMMA UdpOther ==
  ASSUME UdpInv, OutIsOut,
         \/ \E t \in Udp!UdpUser : Udp!UdpAborted(t) \/ Udp!CancelUdp(t)
         \/ Udp!CloseUdp
  PROVE  UdpInv'
<1>1. /\ udp \in UdpState /\ packets \in UdpPast /\ udpAt \in [Udp!UdpUser -> UdpPlace]
      /\ packets' = packets
  BY DEF UdpInv, Udp!UdpAborted, Udp!CancelUdp, Udp!CloseUdp
<1>2. ASSUME NEW t \in Udp!UdpUser, Udp!UdpAborted(t) PROVE UdpInv'
  <2>1. udpAt[t].cut /\ Udp!UdpGoes(t, "out")
    BY <1>2 DEF Udp!UdpAborted
  <2>2. /\ udpAt' \in [Udp!UdpUser -> UdpPlace] /\ udpAt'[t].place = "out"
        /\ \A u \in Udp!UdpUser : u # t => udpAt'[u] = udpAt[u]
    BY <1>1, <2>1, UdpGoesFacts
  <2>3. PICK x \in BOOLEAN, y \in BOOLEAN :
          /\ udp' = [udp EXCEPT !.receiveGuard = x, !.sendGuard = y]
          /\ t \notin UdpReader => x = udp.receiveGuard
    <3>1. CASE t \in UdpReader
      <4>1. udp' = [udp EXCEPT !.receiveGuard = FALSE] /\ udp.sendGuard \in BOOLEAN
        BY <1>1, <1>2, <3>1 DEF Udp!UdpAborted, UdpState
      <4>2. udp' = [udp EXCEPT !.receiveGuard = FALSE, !.sendGuard = udp.sendGuard]
        BY <1>1, <4>1 DEF UdpState
      <4> QED
        BY <3>1, <4>1, <4>2
    <3>2. CASE t \notin UdpReader
      <4>1. udp' = [udp EXCEPT !.sendGuard = FALSE] /\ udp.receiveGuard \in BOOLEAN
        BY <1>1, <1>2, <3>2 DEF Udp!UdpAborted, UdpState
      <4>2. udp' = [udp EXCEPT !.receiveGuard = udp.receiveGuard, !.sendGuard = FALSE]
        BY <1>1, <4>1 DEF UdpState
      <4> QED
        BY <3>2, <4>1, <4>2
    <3> QED
      BY <3>1, <3>2
  <2>4. /\ udp' \in UdpState /\ udp'.queue = udp.queue /\ udp'.closing = udp.closing
        /\ udp'.closed = udp.closed /\ udp'.lost = udp.lost
        /\ udp'.readSet = udp.readSet
        /\ t \notin UdpReader => udp'.receiveGuard = udp.receiveGuard
    BY <1>1, <2>3 DEF UdpState
  <2>5. ASSUME NEW u \in UdpReader PROVE UdpReaderFits(u)'
    <3>1. CASE t \notin UdpReader
      BY <2>2, <2>4, <3>1, UdpUsers DEF UdpInv, UdpReaderFits
    <3>2. CASE t \in UdpReader /\ udpAt[t].place # "out"
      <4>1. \A v \in UdpReader : udpAt'[v].place = "out"
        BY <2>2, <3>2, UdpUsers DEF UdpInv, UdpReaderFits
      <4> QED
        BY <4>1 DEF UdpReaderFits
    <3>3. CASE udpAt[t].place = "out"
      BY <2>1, <3>3 DEF OutIsOut, Udp!Out
    <3> QED
      BY <3>1, <3>2, <3>3
  <2> QED
    BY <1>1, <2>2, <2>4, <2>5 DEF UdpInv
<1>3. ASSUME NEW t \in Udp!UdpUser, Udp!CancelUdp(t) PROVE UdpInv'
  <2>1. udp' = udp /\ udpAt' = [udpAt EXCEPT ![t] = [udpAt[t] EXCEPT !.cut = TRUE]]
    BY <1>3 DEF Udp!CancelUdp
  <2> DEFINE x == [udpAt[t] EXCEPT !.cut = TRUE]
  <2>2. x \in UdpPlace /\ x.place = udpAt[t].place /\ x.woken = udpAt[t].woken
    <3>1. udpAt[t] \in UdpPlace
      BY <1>1
    <3> QED
      BY <3>1 DEF UdpPlace
  <2>3. udpAt' = [udpAt EXCEPT ![t] = x]
    BY <2>1
  <2> HIDE DEF x
  <2>4. udpAt' \in [Udp!UdpUser -> UdpPlace]
        /\ \A u \in Udp!UdpUser : /\ udpAt'[u].place = udpAt[u].place
                                  /\ udpAt'[u].woken = udpAt[u].woken
    BY <1>1, <2>2, <2>3
  <2>5. ASSUME NEW u \in UdpReader PROVE UdpReaderFits(u)'
    BY <2>1, <2>4, UdpUsers DEF UdpInv, UdpReaderFits
  <2> QED
    BY <1>1, <2>1, <2>4, <2>5 DEF UdpInv
<1>4. ASSUME Udp!CloseUdp PROVE UdpInv'
  <2>1. udpAt' = udpAt /\ udp' = [udp EXCEPT !.closed = TRUE, !.closing = TRUE]
    BY <1>4 DEF Udp!CloseUdp
  <2>2. /\ udp' \in UdpState /\ udp'.queue = udp.queue /\ udp'.closing
        /\ udp'.closing = udp'.closed /\ udp'.lost = udp.lost
        /\ udp'.receiveGuard = udp.receiveGuard /\ udp'.readSet = udp.readSet
    BY <1>1, <2>1 DEF UdpState
  <2>3. ASSUME NEW u \in UdpReader PROVE UdpReaderFits(u)'
    BY <2>1, <2>2 DEF UdpInv, UdpReaderFits
  <2> QED
    BY <1>1, <2>1, <2>2, <2>3 DEF UdpInv
<1> QED
  BY <1>2, <1>3, <1>4

\* Whoever leaves a call leaves its cancellation behind.
LEMMA OutStep ==
  ASSUME UdpInv, OutIsOut, Udp!UdpNext
  PROVE  OutIsOut'
<1>1. udpAt \in [Udp!UdpUser -> UdpPlace]
  BY DEF UdpInv
<1>2. ASSUME NEW t \in Udp!UdpUser, NEW x,
             udpAt' = [udpAt EXCEPT ![t] = x], x.place = "out" => x = Udp!Out
      PROVE  OutIsOut'
  <2>1. \A u \in Udp!UdpUser : udpAt'[u] = IF u = t THEN x ELSE udpAt[u]
    BY <1>1, <1>2
  <2> QED
    BY <1>2, <2>1 DEF OutIsOut, Udp!UdpUser, Udp!Out
<1>3. ASSUME NEW t \in Udp!UdpUser, NEW p, Udp!UdpGoes(t, p)
      PROVE  OutIsOut'
  <2> DEFINE x == [Udp!Out EXCEPT !.place = p]
  <2>1. x.place = "out" => x = Udp!Out
    BY DEF Udp!Out
  <2>2. udpAt' = [udpAt EXCEPT ![t] = x]
    BY <1>3 DEF Udp!UdpGoes
  <2> HIDE DEF x
  <2> QED
    BY <1>2, <2>1, <2>2
<1>4. ASSUME NEW W, W = {t \in Udp!UdpUser : udpAt[t].place \in {"reading", "writing"}},
             \A t \in Udp!UdpUser : \/ udpAt'[t] = udpAt[t]
                                    \/ t \in W /\ udpAt'[t] = [udpAt[t] EXCEPT !.woken = TRUE]
      PROVE  OutIsOut'
  <2>1. ASSUME NEW t \in Udp!UdpUser, t \in W, udpAt'[t] = [udpAt[t] EXCEPT !.woken = TRUE]
        PROVE  udpAt'[t].place # "out"
    <3>1. udpAt[t] \in UdpPlace /\ udpAt[t].place # "out"
      BY <1>1, <1>4, <2>1
    <3> QED
      BY <2>1, <3>1 DEF UdpPlace
  <2> QED
    BY <1>4, <2>1 DEF OutIsOut, Udp!UdpUser, Udp!Out
<1>5. ASSUME NEW t \in Udp!UdpUser, Udp!CancelUdp(t) PROVE OutIsOut'
  <2> DEFINE x == [udpAt[t] EXCEPT !.cut = TRUE]
  <2>1. udpAt[t] \in UdpPlace /\ udpAt[t] # Udp!Out /\ udpAt' = [udpAt EXCEPT ![t] = x]
    BY <1>1, <1>5 DEF Udp!CancelUdp
  <2>2. x.place = udpAt[t].place
    BY <2>1 DEF UdpPlace
  <2> HIDE DEF x
  <2>3. udpAt[t].place # "out"
    BY <2>1 DEF OutIsOut
  <2> QED
    BY <1>2, <2>1, <2>2, <2>3
<1>6. ASSUME NEW t \in Udp!UdpUser, Udp!UdpWaits(t) PROVE OutIsOut'
  <2> DEFINE x == [Udp!Out EXCEPT !.place = "reading", !.woken = FALSE]
  <2>1. x.place = "reading"
    BY DEF Udp!Out
  <2>2. udpAt' = [udpAt EXCEPT ![t] = x]
    BY <1>6 DEF Udp!UdpWaits, Udp!Unset
  <2> HIDE DEF x
  <2> QED
    BY <1>2, <2>1, <2>2
<1> DEFINE W == {t \in Udp!UdpUser : udpAt[t].place \in {"reading", "writing"}}
<1>7. ASSUME \A t \in Udp!UdpUser : \/ udpAt'[t] = udpAt[t]
                                    \/ t \in W /\ udpAt'[t] = [udpAt[t] EXCEPT !.woken = TRUE]
      PROVE  OutIsOut'
  BY <1>4, <1>7
<1>8. ASSUME Udp!DatagramReceived PROVE OutIsOut'
  <2>1. udpAt' = Udp!UdpWakes("reading")
    BY <1>8 DEF Udp!DatagramReceived
  <2> QED
    BY <1>7, <2>1 DEF Udp!UdpWakes
<1>9. ASSUME Udp!SendtoReady PROVE OutIsOut'
  BY <1>7, <1>9 DEF Udp!SendtoReady
<1>10. ASSUME Udp!UdpLost PROVE OutIsOut'
  BY <1>7, <1>10 DEF Udp!UdpLost
<1>11. ASSUME Udp!CloseUdp PROVE OutIsOut'
  BY <1>11 DEF Udp!CloseUdp, OutIsOut
<1>12. ASSUME NEW t \in Udp!UdpUser,
              \/ Udp!StartUdpReceive(t) \/ Udp!UdpReceives(t) \/ Udp!StartUdpSend(t)
              \/ Udp!UdpSends(t) \/ Udp!UdpAborted(t)
       PROVE  OutIsOut'
  <2>1. \E p \in {"out", "receives", "sends", "writing"} : Udp!UdpGoes(t, p)
    BY <1>12 DEF Udp!StartUdpReceive, Udp!UdpReceives, Udp!StartUdpSend, Udp!UdpSends,
                 Udp!UdpAborted
  <2> QED
    BY <1>3, <2>1
<1> QED
  BY <1>5, <1>6, <1>8, <1>9, <1>10, <1>11, <1>12, UdpUsers DEF Udp!UdpNext

LEMMA NextUdp ==
  UdpInv /\ OutIsOut /\ [Udp!UdpNext]_(Udp!udpVars) => UdpInv' /\ OutIsOut'
<1> SUFFICES ASSUME UdpInv, OutIsOut, [Udp!UdpNext]_(Udp!udpVars) PROVE UdpInv' /\ OutIsOut'
  OBVIOUS
<1>1. ASSUME UNCHANGED Udp!udpVars PROVE UdpInv' /\ OutIsOut'
  BY <1>1 DEF Udp!udpVars, UdpInv, UdpReaderFits, OutIsOut
<1> QED
  BY <1>1, OutStep, DatagramStep, TransportStep, ReadsStart, ReadsEnd, UdpSendStep, UdpOther
     DEF Udp!UdpNext

LEMMA UdpHolds == UdpInv => Udp!PacketsAccounted
BY DEF UdpInv, UdpReaderFits, KeptInOrder, Udp!PacketsAccounted

-----------------------------------------------------------------------------
(* Waiting for sockets: the entry of a direction belongs to the one task    *)
(* that waits in it.                                                         *)

events == a
watched == b
waits == c
sockOpen == d

USE DEF events, watched, waits, sockOpen

WaitState ==
  [place : {"absent", "checkpoint", "waiting"}, dir : Direction \union {"none"},
   set : BOOLEAN, cut : BOOLEAN]

WaitTypes ==
  /\ events \in [Direction -> Waiter \union {NoWaiter}] /\ watched \subseteq Direction
  /\ waits \in [Waiter -> WaitState]
  /\ \A t \in Waiter : waits[t].place \in {"checkpoint", "waiting"} => waits[t].dir \in Direction

WatchedFor(t) ==
  waits[t].place = "waiting" => events[waits[t].dir] = t /\ waits[t].dir \in watched
WaitedIn(x) ==
  sockOpen /\ events[x] # NoWaiter => waits[events[x]].place = "waiting" /\ waits[events[x]].dir = x

WaitInv ==
  /\ WaitTypes
  /\ \A t \in Waiter : WatchedFor(t)
  /\ \A x \in Direction : WaitedIn(x)

LEMMA InitWait == Wait!WaitInit => WaitInv
BY DEF Wait!WaitInit, Wait!Absent, WaitInv, WaitTypes, WaitState, WatchedFor, WaitedIn

\* A step of one task that leaves the entries alone: it does not begin or stop waiting.
LEMMA WaiterStep ==
  ASSUME WaitInv, NEW t \in Waiter, NEW w \in WaitState, waits' = [waits EXCEPT ![t] = w],
         events' = events, watched' = watched, sockOpen' = sockOpen,
         w.place = "waiting" <=> waits[t].place = "waiting",
         w.place = "waiting" => w.dir = waits[t].dir,
         w.place = "checkpoint" => w.dir \in Direction
  PROVE  WaitInv'
<1>1. /\ waits \in [Waiter -> WaitState] /\ events \in [Direction -> Waiter \union {NoWaiter}]
      /\ waits'[t] = w /\ \A u \in Waiter : u # t => waits'[u] = waits[u]
  BY DEF WaitInv, WaitTypes
<1>2. WaitTypes'
  BY <1>1 DEF WaitInv, WaitTypes, WatchedFor
<1>3. \A u \in Waiter : WatchedFor(u)'
  BY <1>1 DEF WaitInv, WatchedFor
<1>4. \A x \in Direction : WaitedIn(x)'
  BY <1>1 DEF WaitInv, WaitedIn
<1> QED
  BY <1>2, <1>3, <1>4 DEF WaitInv

LEMMA NextWait == WaitInv /\ [Wait!WaitNext]_(Wait!waitVars) => WaitInv'
<1> SUFFICES ASSUME WaitInv, [Wait!WaitNext]_(Wait!waitVars) PROVE WaitInv'
  OBVIOUS
<1>1. /\ waits \in [Waiter -> WaitState] /\ events \in [Direction -> Waiter \union {NoWaiter}]
      /\ watched \subseteq Direction
      /\ Wait!Absent \in WaitState /\ Wait!Absent.place = "absent"
  BY DEF WaitInv, WaitTypes, Wait!Absent, WaitState
<1>2. ASSUME NEW t \in Waiter, NEW x \in Direction, Wait!StartWaiting(t, x)
      PROVE  WaitInv'
  <2> DEFINE w == [Wait!Absent EXCEPT !.place = "checkpoint", !.dir = x]
  <2>1. /\ w \in WaitState /\ w.place = "checkpoint" /\ w.dir = x
        /\ waits' = [waits EXCEPT ![t] = w]
        /\ events' = events /\ watched' = watched /\ sockOpen' = sockOpen
        /\ waits[t] = Wait!Absent
    BY <1>2 DEF Wait!StartWaiting, Wait!Absent, WaitState
  <2> QED
    BY <1>1, <2>1, WaiterStep
<1>3. ASSUME NEW t \in Waiter, NEW x \in Direction, Wait!Watches(t, x)
      PROVE  WaitInv'
  <2>1. waits[t].place = "checkpoint" /\ waits[t].dir = x /\ sockOpen' = sockOpen
    BY <1>3 DEF Wait!Watches
  <2>2. CASE events[x] # NoWaiter
    <3>1. waits' = [waits EXCEPT ![t] = Wait!Absent] /\ events' = events /\ watched' = watched
      BY <1>3, <2>2 DEF Wait!Watches, Wait!FreeDirection
    <3> QED
      BY <1>1, <2>1, <3>1, WaiterStep
  <2>3. CASE events[x] = NoWaiter
    <3>1. /\ events' = [events EXCEPT ![x] = t]
          /\ sockOpen => /\ watched' = watched \union {x}
                         /\ waits' = [waits EXCEPT ![t].place = "waiting"]
          /\ ~sockOpen => waits' = [waits EXCEPT ![t] = Wait!Absent] /\ watched' = watched
      BY <1>3, <2>3 DEF Wait!Watches, Wait!FreeDirection
    <3>2. /\ events'[x] = t /\ \A y \in Direction : y # x => events'[y] = events[y]
          /\ watched' \subseteq Direction /\ watched \subseteq watched' /\ (sockOpen => x \in watched')
          /\ events' \in [Direction -> Waiter \union {NoWaiter}]
      BY <1>1, <3>1
    <3>3. /\ waits' \in [Waiter -> WaitState]
          /\ \A u \in Waiter : u # t => waits'[u] = waits[u]
          /\ sockOpen => waits'[t].place = "waiting" /\ waits'[t].dir = x
          /\ ~sockOpen => waits'[t].place = "absent"
      BY <1>1, <2>1, <3>1 DEF WaitState
    <3>4. \A u \in Waiter : waits[u].place = "waiting" => waits[u].dir # x
      BY <2>3, WaiterAssumption DEF WaitInv, WatchedFor
    <3>5. WaitTypes'
      BY <3>2, <3>3 DEF WaitInv, WaitTypes
    <3>6. ASSUME NEW u \in Waiter PROVE WatchedFor(u)'
      BY <3>2, <3>3, <3>4 DEF WaitInv, WaitTypes, WatchedFor
    <3>7. ASSUME NEW y \in Direction PROVE WaitedIn(y)'
      <4>1. y # x /\ events[y] # NoWaiter => events[y] \in Waiter
        BY <1>1
      <4>2. waits[t].place # "waiting"
        BY <2>1
      <4> QED
        BY <2>1, <3>2, <3>3, <4>1, <4>2 DEF WaitInv, WaitedIn
    <3> QED
      BY <3>5, <3>6, <3>7 DEF WaitInv
  <2> QED
    BY <2>2, <2>3
<1>4. ASSUME NEW t \in Waiter, Wait!StopsWaiting(t)
      PROVE  WaitInv'
  <2> DEFINE x == waits[t].dir
  <2>1. /\ waits[t].place = "waiting" /\ sockOpen' = sockOpen
        /\ events' = [events EXCEPT ![x] = NoWaiter]
        /\ watched' = IF events[x] # NoWaiter THEN watched \ {x} ELSE watched
        /\ waits' = [waits EXCEPT ![t] = Wait!Absent]
    BY <1>4 DEF Wait!StopsWaiting
  <2>2. events[x] = t /\ x \in Direction
    BY <2>1 DEF WaitInv, WatchedFor, WaitTypes
  <2>3. \A u \in Waiter : u # t /\ waits[u].place = "waiting" => waits[u].dir # x
    BY <2>1, <2>2 DEF WaitInv, WatchedFor
  <2> HIDE DEF x
  <2>4. /\ events' \in [Direction -> Waiter \union {NoWaiter}] /\ events'[x] = NoWaiter
        /\ \A y \in Direction : y # x => events'[y] = events[y]
        /\ \A y : y # x => (y \in watched' <=> y \in watched)
        /\ watched' \subseteq Direction
    BY <1>1, <2>1, <2>2
  <2>5. /\ waits' \in [Waiter -> WaitState] /\ waits'[t] = Wait!Absent
        /\ \A u \in Waiter : u # t => waits'[u] = waits[u]
    BY <1>1, <2>1
  <2>6. WaitTypes'
    BY <1>1, <2>4, <2>5 DEF WaitInv, WaitTypes
  <2>7. ASSUME NEW u \in Waiter PROVE WatchedFor(u)'
    BY <1>1, <2>3, <2>4, <2>5 DEF WaitInv, WaitTypes, WatchedFor
  <2>8. ASSUME NEW y \in Direction PROVE WaitedIn(y)'
    <3>1. waits[t].dir = x
      BY DEF x
    <3>2. y # x /\ events[y] # NoWaiter => events[y] \in Waiter
      BY <1>1
    <3> QED
      BY <2>1, <2>4, <2>5, <3>1, <3>2 DEF WaitInv, WaitedIn
  <2> QED
    BY <2>6, <2>7, <2>8 DEF WaitInv
<1>5. ASSUME NEW t \in Waiter, Wait!LeavesCheckpoint(t)
      PROVE  WaitInv'
  BY <1>1, <1>5, WaiterStep DEF Wait!LeavesCheckpoint
<1>6. ASSUME NEW t \in Waiter, Wait!CancelWaiting(t)
      PROVE  WaitInv'
  <2> DEFINE w == [waits[t] EXCEPT !.cut = TRUE]
  <2>1. /\ w \in WaitState /\ w.place = waits[t].place /\ w.dir = waits[t].dir
        /\ waits' = [waits EXCEPT ![t] = w]
        /\ events' = events /\ watched' = watched /\ sockOpen' = sockOpen
    BY <1>1, <1>6 DEF Wait!CancelWaiting, WaitState
  <2>2. w.place = "checkpoint" => w.dir \in Direction
    BY <2>1 DEF WaitInv, WaitTypes
  <2> QED
    BY <2>1, <2>2, WaiterStep
<1>7. ASSUME NEW x \in Direction, Wait!SocketReady(x)
      PROVE  WaitInv'
  <2>1. PICK t \in Waiter :
          /\ waits[t].place = "waiting" /\ waits' = [waits EXCEPT ![t].set = TRUE]
          /\ events' = events /\ watched' = watched /\ sockOpen' = sockOpen
    BY <1>7 DEF Wait!SocketReady
  <2> DEFINE w == [waits[t] EXCEPT !.set = TRUE]
  <2>2. /\ w \in WaitState /\ w.place = waits[t].place /\ w.dir = waits[t].dir
        /\ waits' = [waits EXCEPT ![t] = w]
    BY <1>1, <2>1 DEF WaitState
  <2>3. w.place = "checkpoint" => w.dir \in Direction
    BY <2>2 DEF WaitInv, WaitTypes
  <2> QED
    BY <2>1, <2>2, <2>3, WaiterStep
<1>8. CASE Wait!CloseSocket
  BY <1>8 DEF Wait!CloseSocket, WaitInv, WaitTypes, WatchedFor, WaitedIn
<1>9. CASE UNCHANGED Wait!waitVars
  BY <1>9 DEF Wait!waitVars, WaitInv, WaitTypes, WatchedFor, WaitedIn
<1> QED
  BY <1>2, <1>3, <1>4, <1>5, <1>6, <1>7, <1>8, <1>9 DEF Wait!WaitNext

LEMMA WaitHolds == WaitInv => Wait!WaitersAreWatched
BY DEF WaitInv, WatchedFor, WaitedIn, Wait!WaitersAreWatched

-----------------------------------------------------------------------------
(* The calls that make sockets: what became of each socket follows from the  *)
(* step at which the call is.                                                *)

job == a
socks == b

USE DEF job, socks

Job == [call : Setup!Calls,
        step : {"begin", "binding", "bound", "connecting", "waiting", "returned", "raised"},
        at : Nat \ {0}]

\* create_tcp_listener(): the listeners so far
ListenersFit ==
  job.call = "tcp_listener" =>
    /\ job.step \in {"begin", "returned", "raised"}
    /\ job.step = "begin" =>
         \A s \in Setup!Sock : socks[s] = IF s < job.at THEN "listening" ELSE "none"

\* The calls that make one socket
OneSocketFits ==
  job.call # "tcp_listener" =>
    /\ \A s \in Setup!Sock : s # 1 => socks[s] = "none"
    /\ job.step = "begin" => \A s \in Setup!Sock : socks[s] = "none"
    /\ job.call = "unix_listener" => job.step \in {"begin", "binding", "bound", "returned", "raised"}

SetupInv ==
  /\ job \in Job
  /\ socks \in [Setup!Sock -> {"none", "open", "listening", "given", "closed"}]
  /\ ListenersFit
  /\ OneSocketFits
  /\ Setup!SocketsHandedOn

LEMMA InitSetup == Setup!SetupInit => SetupInv
<1> SUFFICES ASSUME Setup!SetupInit PROVE SetupInv
  OBVIOUS
<1>1. PICK call \in Setup!Calls : job = [call |-> call, step |-> "begin", at |-> 1]
  BY DEF Setup!SetupInit
<1>2. socks = [s \in Setup!Sock |-> "none"]
  BY DEF Setup!SetupInit
<1>3. \A s \in Setup!Sock : ~(s < 1)
  BY DEF Setup!Sock
<1> QED
  BY <1>1, <1>2, <1>3
     DEF SetupInv, Job, ListenersFit, OneSocketFits, Setup!SocketsHandedOn

\* What a step of the call may leave: the step it is at, and its sockets
LEMMA JobGoes ==
  ASSUME SetupInv,
         NEW p \in {"begin", "binding", "bound", "connecting", "waiting", "returned", "raised"},
         job' = [job EXCEPT !.step = p]
  PROVE  job' \in Job /\ job'.call = job.call /\ job'.at = job.at /\ job'.step = p
BY DEF SetupInv, Job

LEMMA ListenAtStep ==
  ASSUME SetupInv, Setup!ListenAt
  PROVE  SetupInv'
<1>1. /\ job \in Job /\ job.call = "tcp_listener" /\ job.step = "begin" /\ job.at \in Nat \ {0}
      /\ job.at <= Addresses
      /\ socks \in [Setup!Sock -> {"none", "open", "listening", "given", "closed"}]
      /\ \A s \in Setup!Sock : socks[s] = IF s < job.at THEN "listening" ELSE "none"
  BY DEF SetupInv, ListenersFit, Setup!ListenAt, Job
<1>2. \A s \in Setup!Sock : s \in Nat /\ s # 0
  BY DEF Setup!Sock
<1>3. CASE /\ socks' = [socks EXCEPT ![job.at] = "listening"]
           /\ job' = [job EXCEPT !.at = job.at + 1]
  <2> DEFINE n == job.at + 1
  <2>1. n \in Nat \ {0} /\ job' = [job EXCEPT !.at = n]
    BY <1>1, <1>3
  <2> HIDE DEF n
  <2>2. job' \in Job /\ job'.at = n /\ job'.call = "tcp_listener" /\ job'.step = "begin"
    BY <1>1, <2>1 DEF Job
  <2>3. socks' \in [Setup!Sock -> {"none", "open", "listening", "given", "closed"}]
        /\ \A s \in Setup!Sock : socks'[s] = IF s = job.at THEN "listening" ELSE socks[s]
    BY <1>1, <1>3
  <2>4. \A s \in Setup!Sock : socks'[s] = IF s < n THEN "listening" ELSE "none"
    BY <1>1, <1>2, <2>3 DEF n
  <2> QED
    BY <2>2, <2>3, <2>4
       DEF SetupInv, ListenersFit, OneSocketFits, Setup!SocketsHandedOn
<1>4. CASE Setup!Raises(IF job.at = 1 THEN [socks EXCEPT ![job.at] = "open"]
                        ELSE [Setup!ClosedAll(socks) EXCEPT ![job.at] = "open"])
  <2>1. job' \in Job /\ job'.at = job.at /\ job'.call = "tcp_listener" /\ job'.step = "raised"
    BY <1>1, <1>4, JobGoes DEF Setup!Raises
  <2> DEFINE cl == Setup!ClosedAll(socks)
  <2>2. /\ cl \in [Setup!Sock -> {"none", "open", "listening", "given", "closed"}]
        /\ \A s \in Setup!Sock : cl[s] \in {"none", "closed"}
    BY <1>1 DEF Setup!ClosedAll
  <2>3. job.at = 1 => \A s \in Setup!Sock : socks[s] = "none"
    BY <1>1, <1>2
  <2>4. socks' = IF job.at = 1 THEN [socks EXCEPT ![job.at] = "open"]
                 ELSE [cl EXCEPT ![job.at] = "open"]
    BY <1>4 DEF Setup!Raises
  <2> HIDE DEF cl
  <2>5. /\ socks' \in [Setup!Sock -> {"none", "open", "listening", "given", "closed"}]
        /\ \A s \in Setup!Sock : s # job.at => socks'[s] \in {"none", "closed"}
    BY <1>1, <2>2, <2>3, <2>4
  <2> QED
    BY <2>1, <2>5
       DEF SetupInv, ListenersFit, OneSocketFits, Setup!SocketsHandedOn
<1> QED
  BY <1>3, <1>4 DEF Setup!ListenAt

\* A call that raises, with the sockets t
LEMMA RaisesStep ==
  ASSUME SetupInv, job.call # "tcp_listener", NEW t, Setup!Raises(t),
         t = socks \/ t = [socks EXCEPT ![1] = "closed"],
         job.call = "unix_listener" => t = [socks EXCEPT ![1] = "closed"]
  PROVE  SetupInv'
<1>1. job' \in Job /\ job'.call = job.call /\ job'.step = "raised"
  BY JobGoes DEF Setup!Raises
<1>2. /\ socks' \in [Setup!Sock -> {"none", "open", "listening", "given", "closed"}]
      /\ \A s \in Setup!Sock : s # 1 => socks'[s] = "none"
      /\ job.call = "unix_listener" => \A s \in Setup!Sock : socks'[s] \in {"none", "closed"}
  BY DEF SetupInv, OneSocketFits, Setup!Raises
<1> QED
  BY <1>1, <1>2 DEF SetupInv, ListenersFit, OneSocketFits, Setup!SocketsHandedOn

\* A call of one socket that returns, or goes on
LEMMA GoesOnStep ==
  ASSUME SetupInv, job.call # "tcp_listener",
         NEW p \in {"binding", "bound", "connecting", "waiting", "returned"},
         job' = [job EXCEPT !.step = p],
         job.call = "unix_listener" => p \in {"binding", "bound", "returned"},
         \/ p # "returned" /\ socks' \in {socks, [socks EXCEPT ![1] = "open"]}
         \/ socks' = [socks EXCEPT ![1] = "given"]
  PROVE  SetupInv'
<1>1. job' \in Job /\ job'.call = job.call /\ job'.step = p
  BY JobGoes
<1>2. /\ socks' \in [Setup!Sock -> {"none", "open", "listening", "given", "closed"}]
      /\ \A s \in Setup!Sock : s # 1 => socks'[s] = "none"
      /\ p = "returned" => \A s \in Setup!Sock : socks'[s] \in {"none", "given"}
  BY DEF SetupInv, OneSocketFits
<1> QED
  BY <1>1, <1>2 DEF SetupInv, ListenersFit, OneSocketFits, Setup!SocketsHandedOn

LEMMA NextSetup == SetupInv /\ [Setup!SetupNext]_(Setup!setupVars) => SetupInv'
<1> SUFFICES ASSUME SetupInv, [Setup!SetupNext]_(Setup!setupVars) PROVE SetupInv'
  OBVIOUS
<1>1. ASSUME job' = job, socks' = socks PROVE SetupInv'
  BY <1>1 DEF SetupInv, ListenersFit, OneSocketFits, Setup!SocketsHandedOn
<1>2. ASSUME Setup!ListenAtAll PROVE SetupInv'
  <2>1. job.call = "tcp_listener" /\ job' = [job EXCEPT !.step = "returned"]
        /\ socks' = [s \in Setup!Sock |-> "given"]
    BY <1>2 DEF Setup!ListenAtAll, Setup!Returns
  <2>2. job' \in Job /\ job'.call = "tcp_listener" /\ job'.step = "returned"
    BY <2>1, JobGoes
  <2> QED
    BY <2>1, <2>2 DEF SetupInv, ListenersFit, OneSocketFits, Setup!SocketsHandedOn
<1>3. ASSUME Setup!SetupLocal PROVE SetupInv'
  <2>1. /\ job.call # "tcp_listener"
        /\ \E p \in {"binding", "bound"} : job' = [job EXCEPT !.step = p]
        /\ socks' = [socks EXCEPT ![1] = "open"]
    BY <1>3 DEF Setup!SetupLocal
  <2> QED
    BY <2>1, GoesOnStep
<1>4. ASSUME job.step = "binding" PROVE job.call # "tcp_listener"
  BY <1>4 DEF SetupInv, ListenersFit
<1>5. ASSUME Setup!ThreadBinds PROVE SetupInv'
  <2>1. \/ job' = job /\ socks' = socks
        \/ job.step = "binding" /\ job' = [job EXCEPT !.step = "bound"] /\ socks' = socks
        \/ job.step = "binding" /\ Setup!Raises([socks EXCEPT ![1] = "closed"])
    BY <1>5 DEF Setup!ThreadBinds
  <2> QED
    BY <1>1, <1>4, <2>1, GoesOnStep, RaisesStep
<1>6. ASSUME Setup!BindAbandoned PROVE SetupInv'
  BY <1>4, <1>6, RaisesStep DEF Setup!BindAbandoned, Setup!Abandoned
<1>7. ASSUME Setup!ListenUnix PROVE SetupInv'
  <2>1. job.call # "tcp_listener"
    BY <1>7 DEF Setup!ListenUnix
  <2>2. CASE Setup!Returns([socks EXCEPT ![1] = "given"])
    BY <2>1, <2>2, GoesOnStep DEF Setup!Returns
  <2>3. CASE Setup!Raises([socks EXCEPT ![1] = "closed"])
    BY <2>1, <2>3, RaisesStep
  <2> QED
    BY <1>7, <2>2, <2>3 DEF Setup!ListenUnix
<1>8. ASSUME Setup!ConnectUnix PROVE SetupInv'
  <2>1. job.call = "connect_unix"
    BY <1>8 DEF Setup!ConnectUnix
  <2>2. CASE Setup!Raises(socks)
    BY <2>1, <2>2, RaisesStep
  <2>3. CASE job' = [job EXCEPT !.step = "connecting"] /\ socks' = [socks EXCEPT ![1] = "open"]
    BY <2>1, <2>3, GoesOnStep
  <2> QED
    BY <1>8, <2>2, <2>3 DEF Setup!ConnectUnix
<1>9. ASSUME Setup!DatagramCheckpoint PROVE SetupInv'
  <2>1. job.call \in {"unix_datagram", "connected_datagram"}
    BY <1>9 DEF Setup!DatagramCheckpoint
  <2>2. CASE Setup!Raises(socks)
    BY <2>1, <2>2, RaisesStep
  <2>3. CASE Setup!Returns([socks EXCEPT ![1] = "given"])
    BY <2>1, <2>3, GoesOnStep DEF Setup!Returns
  <2>4. CASE job' = [job EXCEPT !.step = "connecting"] /\ socks' = socks
    BY <2>1, <2>4, GoesOnStep
  <2> QED
    BY <1>9, <2>2, <2>3, <2>4 DEF Setup!DatagramCheckpoint
<1>10. ASSUME Setup!Connect \/ Setup!ConnectWaits PROVE SetupInv'
  <2>1. job.call \notin {"tcp_listener", "unix_listener"}
    <3>1. job.step \in {"connecting", "waiting"}
      BY <1>10 DEF Setup!Connect, Setup!ConnectWaits
    <3> QED
      BY <3>1 DEF SetupInv, ListenersFit, OneSocketFits
  <2>2. CASE Setup!Raises(socks) \/ Setup!Raises([socks EXCEPT ![1] = "closed"])
    BY <2>1, <2>2, RaisesStep
  <2>3. CASE Setup!Returns([socks EXCEPT ![1] = "given"])
    BY <2>1, <2>3, GoesOnStep DEF Setup!Returns
  <2>4. CASE socks' = socks /\ \E p \in {"waiting", "connecting"} : job' = [job EXCEPT !.step = p]
    BY <2>1, <2>4, GoesOnStep
  <2> QED
    BY <1>10, <2>2, <2>3, <2>4 DEF Setup!Connect, Setup!ConnectWaits
<1> QED
  BY <1>1, <1>2, <1>3, <1>5, <1>6, <1>7, <1>8, <1>9, <1>10, ListenAtStep
     DEF Setup!SetupNext, Setup!setupVars

LEMMA SetupHolds == SetupInv => Setup!SocketsHandedOn
BY DEF SetupInv

-----------------------------------------------------------------------------
(* connect_tcp(): the list of the addresses, and one stream.                 *)

families == a
targets == b
attempts == c
caller == d
winner == e
cancelled == f

USE DEF families, targets, attempts, caller, winner, cancelled

Families == {"v4", "v6"}
ListState == [v6 : BOOLEAN, v4 : BOOLEAN, order : Seq(Nat)]

\* The list after the first n addresses
ListFits(l, n) ==
  /\ l \in ListState /\ Len(l.order) = n
  /\ \A i \in 1..n : l.order[i] \in 1..n
  /\ \A i, j \in 1..n : l.order[i] = l.order[j] => i = j
  /\ l.v6 <=> \E i \in 1..n : families[i] = "v6"
  /\ l.v4 => l.v6 /\ \E i \in 1..n : families[i] = "v4"
  /\ l.v6 => /\ n > 0 /\ families[l.order[1]] = "v6"
             /\ (\E i \in 1..n : families[i] = "v4") => n > 1 /\ families[l.order[2]] = "v4"

\* An element that is put at place p
PutAt(z, s, p, x) ==
  /\ z \in Seq(Nat) /\ Len(z) = Len(s) + 1 /\ z[p] = x
  /\ \A i \in 1..Len(s) : i < p => z[i] = s[i]
  /\ \A i \in 1..Len(s) : i >= p => z[i + 1] = s[i]

LEMMA PutFirst ==
  ASSUME NEW s \in Seq(Nat), NEW x \in Nat
  PROVE  PutAt(<<x>> \o s, s, 1, x)
<1> DEFINE h == <<x>>
<1>1. h \in Seq(Nat) /\ Len(h) = 1 /\ h[1] = x /\ Len(s) \in Nat
  BY LenProperties
<1> HIDE DEF h
<1> DEFINE z == h \o s
<1>2. /\ z \in Seq(Nat) /\ Len(z) = 1 + Len(s)
      /\ \A i \in 1..(1 + Len(s)) : z[i] = IF i <= 1 THEN h[i] ELSE s[i - 1]
  <2>1. /\ z \in Seq(Nat) /\ Len(z) = Len(h) + Len(s)
        /\ \A i \in 1..(Len(h) + Len(s)) : z[i] = IF i <= Len(h) THEN h[i] ELSE s[i - Len(h)]
    BY <1>1, ConcatProperties
  <2> QED
    BY <1>1, <2>1
<1> HIDE DEF z
<1>3. z[1] = x
  BY <1>1, <1>2
<1>4. ASSUME NEW i \in 1..Len(s) PROVE z[i + 1] = s[i]
  <2>1. i + 1 \in 1..(1 + Len(s)) /\ ~(i + 1 <= 1) /\ (i + 1) - 1 = i
    BY <1>1
  <2> QED
    BY <1>2, <2>1
<1> QED
  BY <1>1, <1>2, <1>3, <1>4 DEF PutAt, h, z

LEMMA PutLast ==
  ASSUME NEW s \in Seq(Nat), NEW x \in Nat
  PROVE  PutAt(Append(s, x), s, Len(s) + 1, x)
<1>1. Len(s) \in Nat
  BY LenProperties
<1>2. /\ Append(s, x) \in Seq(Nat) /\ Len(Append(s, x)) = Len(s) + 1
      /\ \A i \in 1..Len(s) : Append(s, x)[i] = s[i]
      /\ Append(s, x)[Len(s) + 1] = x
  BY AppendProperties
<1> QED
  BY <1>1, <1>2 DEF PutAt

LEMMA PutSecond ==
  ASSUME NEW s \in Seq(Nat), NEW x \in Nat, Len(s) > 0
  PROVE  PutAt(<<Head(s), x>> \o Tail(s), s, 2, x)
<1> DEFINE n == Len(s)
           w == <<Head(s), x>>
           v == Tail(s)
           z == w \o v
<1>1. n \in Nat /\ n > 0 /\ \A i \in 1..n : s[i] \in Nat
  BY LenProperties, ElementOfSeq
<1>2. /\ v \in Seq(Nat) /\ Len(v) = n - 1 /\ Head(s) \in Nat /\ Head(s) = s[1]
      /\ \A i \in 1..(n - 1) : v[i] = s[i + 1]
  <2>1. s # <<>>
    BY <1>1, EmptySeq
  <2> QED
    BY <2>1, <1>1, HeadTailProperties
<1>3. w \in Seq(Nat) /\ Len(w) = 2 /\ w[1] = s[1] /\ w[2] = x
  BY <1>2
<1> HIDE DEF w, v, n
<1>4. /\ z \in Seq(Nat) /\ Len(z) = 2 + (n - 1)
      /\ \A i \in 1..(2 + (n - 1)) : z[i] = IF i <= 2 THEN w[i] ELSE v[i - 2]
  <2>1. /\ z \in Seq(Nat) /\ Len(z) = Len(w) + Len(v)
        /\ \A i \in 1..(Len(w) + Len(v)) : z[i] = IF i <= Len(w) THEN w[i] ELSE v[i - Len(w)]
    BY <1>2, <1>3, ConcatProperties
  <2> QED
    BY <1>2, <1>3, <2>1
<1> HIDE DEF z
<1>5. z[1] = s[1] /\ z[2] = x
  BY <1>1, <1>3, <1>4
<1>6. ASSUME NEW i \in 1..n, i >= 2 PROVE z[i + 1] = s[i]
  <2>1. i + 1 \in 1..(2 + (n - 1)) /\ ~(i + 1 <= 2) /\ (i + 1) - 2 = i - 1
        /\ i - 1 \in 1..(n - 1) /\ (i - 1) + 1 = i
    BY <1>1, <1>6
  <2>2. z[i + 1] = v[i - 1]
    BY <1>4, <2>1
  <2> QED
    BY <1>2, <2>1, <2>2
<1>7. Len(z) = n + 1
  BY <1>1, <1>4
<1>8. \A i \in 1..n : i < 2 => z[i] = s[i]
  BY <1>1, <1>5
<1> QED
  BY <1>4, <1>5, <1>6, <1>7, <1>8 DEF PutAt, n, z, w, v

\* A list of the addresses up to n, each of them once
EachOnce(s, n) ==
  /\ \A i \in 1..n : s[i] \in 1..n
  /\ \A i, j \in 1..n : s[i] = s[j] => i = j

\* What putting the next address into the list keeps
LEMMA PutFits ==
  ASSUME NEW s \in Seq(Nat), NEW n \in Nat, Len(s) = n, NEW z, NEW m, m = n + 1,
         NEW p \in 1..m, PutAt(z, s, p, m),
         EachOnce(s, n)
  PROVE  EachOnce(z, m)
<1> USE DEF EachOnce
<1> DEFINE Old(i) == IF i < p THEN i ELSE i - 1
<1>1. ASSUME NEW i \in 1..(n + 1), i # p
      PROVE  Old(i) \in 1..n /\ z[i] = s[Old(i)]
  <2>1. CASE i < p
    <3>1. i \in 1..n
      BY <2>1
    <3> QED
      BY <2>1, <3>1 DEF PutAt
  <2>2. CASE ~(i < p)
    <3>1. i - 1 \in 1..n /\ i - 1 >= p /\ (i - 1) + 1 = i
      BY <1>1, <2>2
    <3> QED
      BY <2>2, <3>1 DEF PutAt
  <2> QED
    BY <2>1, <2>2
<1>2. z[p] = n + 1
  BY DEF PutAt
<1>3. ASSUME NEW i \in 1..(n + 1), NEW j \in 1..(n + 1), i # p, j # p, Old(i) = Old(j)
      PROVE  i = j
  <2>1. CASE i < p /\ j < p
    BY <1>3, <2>1
  <2>2. CASE i > p /\ j > p
    BY <1>3, <2>2
  <2>3. CASE i < p /\ j > p
    BY <1>3, <2>3
  <2>4. CASE i > p /\ j < p
    BY <1>3, <2>4
  <2> QED
    BY <1>3, <2>1, <2>2, <2>3, <2>4
<1> HIDE DEF Old
<1>4. ASSUME NEW i \in 1..(n + 1) PROVE z[i] \in 1..(n + 1) /\ (z[i] = n + 1 => i = p)
  <2>1. CASE i = p
    BY <1>2, <2>1
  <2>2. CASE i # p
    <3>1. s[Old(i)] \in 1..n /\ z[i] = s[Old(i)]
      BY <1>1, <2>2
    <3>2. \A k \in 1..n : k \in 1..(n + 1) /\ k # n + 1
      OBVIOUS
    <3> QED
      BY <2>2, <3>1, <3>2
  <2> QED
    BY <2>1, <2>2
<1>5. ASSUME NEW i \in 1..(n + 1), NEW j \in 1..(n + 1), z[i] = z[j] PROVE i = j
  <2>1. CASE i = p \/ j = p
    BY <1>2, <1>4, <1>5, <2>1
  <2>2. CASE i # p /\ j # p
    <3>1. s[Old(i)] = s[Old(j)] /\ Old(i) \in 1..n /\ Old(j) \in 1..n
      BY <1>1, <1>5, <2>2
    <3>2. Old(i) = Old(j)
      BY <3>1
    <3> QED
      BY <1>3, <2>2, <3>2
  <2> QED
    BY <2>1, <2>2
<1> QED
  BY <1>4, <1>5

LEMMA InsertedFits ==
  ASSUME families \in Seq(Families), NEW n \in Nat, n < Len(families), NEW l, ListFits(l, n)
  PROVE  ListFits(Connect!Inserted(l, n + 1), n + 1)
<1> DEFINE m == n + 1
           s == l.order
           r == Connect!Inserted(l, m)
           Has(x, k) == \E i \in 1..k : families[i] = x
<1>1. /\ l \in ListState /\ s \in Seq(Nat) /\ Len(s) = n /\ m \in Nat /\ l.v6 \in BOOLEAN
      /\ l.v4 \in BOOLEAN
      /\ \A i \in 1..n : s[i] \in 1..n
      /\ \A i, j \in 1..n : s[i] = s[j] => i = j
      /\ l.v6 <=> Has("v6", n)
      /\ l.v4 => l.v6 /\ Has("v4", n)
      /\ l.v6 => n > 0 /\ families[s[1]] = "v6" /\ (Has("v4", n) => n > 1 /\ families[s[2]] = "v4")
  BY DEF ListFits, ListState
<1>2. \A i \in 1..m : families[i] = "v6" \/ families[i] = "v4"
  <2>1. \A i \in 1..Len(families) : families[i] \in Families
    BY ElementOfSeq
  <2>2. \A i \in 1..m : i \in 1..Len(families)
    BY LenProperties
  <2> QED
    BY <2>1, <2>2 DEF Families
<1>3. ASSUME NEW x
      PROVE  Has(x, m) <=> Has(x, n) \/ families[m] = x
  <2>1. m \in 1..m /\ (\A i \in 1..n : i \in 1..m) /\ \A i \in 1..m : i \in 1..n \/ i = m
    OBVIOUS
  <2> QED
    BY <2>1
<1>4. ASSUME NEW z, NEW p \in 1..m, PutAt(z, s, p, m)
      PROVE  /\ z \in Seq(Nat) /\ Len(z) = m
             /\ \A i \in 1..m : z[i] \in 1..m
             /\ \A i, j \in 1..m : z[i] = z[j] => i = j
             /\ z[p] = m
             /\ \A i \in 1..n : i < p => z[i] = s[i]
             /\ \A i \in 1..n : i >= p => z[i + 1] = s[i]
  <2>1. /\ \A i \in 1..m : z[i] \in 1..m
        /\ \A i, j \in 1..m : z[i] = z[j] => i = j
    <3>1. s \in Seq(Nat) /\ Len(s) = n /\ m = n + 1 /\ EachOnce(s, n)
      BY <1>1 DEF EachOnce
    <3> HIDE DEF s, m
    <3>2. EachOnce(z, m)
      BY <1>4, <3>1, PutFits
    <3> QED
      BY <3>2 DEF EachOnce
  <2>2. /\ z \in Seq(Nat) /\ Len(z) = Len(s) + 1 /\ z[p] = m
        /\ \A i \in 1..Len(s) : i < p => z[i] = s[i]
        /\ \A i \in 1..Len(s) : i >= p => z[i + 1] = s[i]
    BY <1>4 DEF PutAt
  <2> HIDE DEF s
  <2> QED
    BY <1>1, <2>1, <2>2
<1>5. ASSUME NEW v6 \in BOOLEAN, NEW v4 \in BOOLEAN, NEW z, NEW p \in 1..m, PutAt(z, s, p, m),
             r = [v6 |-> v6, v4 |-> v4, order |-> z],
             v6 <=> Has("v6", m), v4 => v6 /\ Has("v4", m),
             v6 => families[z[1]] = "v6" /\ (Has("v4", m) => m > 1 /\ families[z[2]] = "v4")
      PROVE  ListFits(r, m)
  <2>1. r \in ListState /\ r.v6 = v6 /\ r.v4 = v4 /\ r.order = z
    BY <1>4, <1>5 DEF ListState
  <2> HIDE DEF r
  <2> QED
    BY <1>1, <1>4, <1>5, <2>1 DEF ListFits
<1>6. CASE families[m] = "v6" /\ ~l.v6
  <2> DEFINE z == <<m>> \o s
  <2>1. PutAt(z, s, 1, m) /\ 1 \in 1..m
    BY <1>1, PutFirst
  <2>2. r = [l EXCEPT !.v6 = TRUE, !.order = z]
    BY <1>6 DEF Connect!Inserted
  <2> HIDE DEF z
  <2>3. z[1] = m /\ \A i \in 1..n : i >= 1 => z[i + 1] = s[i]
    BY <1>4, <2>1
  <2>4. r = [v6 |-> TRUE, v4 |-> l.v4, order |-> z]
    <3> HIDE DEF r, s, m
    <3> QED
      BY <1>1, <2>2 DEF ListState
  <2>5. ~l.v4 /\ ~Has("v6", n)
    BY <1>1, <1>6
  <2>6. ASSUME Has("v4", m) PROVE m > 1 /\ families[z[2]] = "v4"
    <3>1. Has("v4", n)
      BY <1>3, <1>6, <2>6
    <3>2. 1 \in 1..n /\ m > 1 /\ 1 >= 1 /\ 1 + 1 = 2
      BY <1>1, <3>1
    <3>3. z[2] = s[1] /\ s[1] \in 1..n
      BY <1>1, <2>3, <3>2
    <3>4. families[s[1]] # "v6" /\ s[1] \in 1..m
      BY <2>5, <3>3
    <3> QED
      BY <1>2, <3>2, <3>3, <3>4
  <2>7. Has("v6", m)
    BY <1>3, <1>6
  <2>8. Has("v4", m) => m > 1 /\ families[z[2]] = "v4"
    BY <2>6
  <2>9. families[z[1]] = "v6"
    BY <1>6, <2>3
  <2>10. l.v4 => Has("v4", m)
    BY <2>5
  <2>11. TRUE \in BOOLEAN /\ l.v4 \in BOOLEAN
    BY <1>1
  <2>20. ListFits(r, m)
    <3> HIDE DEF r, Has, m, s
    <3> QED
      BY <1>5, <2>1, <2>4, <2>7, <2>8, <2>9, <2>10, <2>11
  <2> QED
    BY <2>20
<1>7. CASE families[m] = "v4" /\ ~l.v4 /\ l.v6
  <2> DEFINE z == <<Head(s), m>> \o Tail(s)
  <2>1. PutAt(z, s, 2, m) /\ 2 \in 1..m /\ m > 1
    <3>1. s \in Seq(Nat) /\ m \in Nat /\ Len(s) > 0 /\ m > 1
      BY <1>1, <1>7
    <3>2. PutAt(z, s, 2, m)
      BY <3>1, PutSecond, Zenon
    <3> QED
      BY <3>1, <3>2
  <2>2. r = [l EXCEPT !.v4 = TRUE, !.order = z]
    BY <1>7 DEF Connect!Inserted
  <2> HIDE DEF z
  <2>3. z[2] = m /\ \A i \in 1..n : i < 2 => z[i] = s[i]
    BY <1>4, <2>1
  <2>4. r = [v6 |-> TRUE, v4 |-> TRUE, order |-> z]
    <3>1. l.v6 = TRUE
      BY <1>1, <1>7
    <3> HIDE DEF r, s, m
    <3> QED
      BY <1>1, <2>2, <3>1 DEF ListState
  <2>5. z[1] = s[1]
    BY <1>1, <1>7, <2>3
  <2>6. Has("v6", m) /\ Has("v4", m)
    BY <1>1, <1>3, <1>7
  <2>7. families[z[1]] = "v6" /\ families[z[2]] = "v4"
    BY <1>1, <1>7, <2>3, <2>5
  <2>20. ListFits(r, m)
    <3> HIDE DEF r, Has, m, s
    <3> QED
      BY <1>5, <2>1, <2>4, <2>6, <2>7
  <2> QED
    BY <2>20
<1>8. CASE ~(families[m] = "v6" /\ ~l.v6) /\ ~(families[m] = "v4" /\ ~l.v4 /\ l.v6)
  <2> DEFINE z == Append(s, m)
  <2>1. PutAt(z, s, m, m) /\ m \in 1..m
    BY <1>1, PutLast
  <2>2. r = [l EXCEPT !.order = z]
    BY <1>8 DEF Connect!Inserted
  <2> HIDE DEF z
  <2>3. \A i \in 1..n : i < m => z[i] = s[i]
    BY <1>4, <2>1
  <2>4. r = [v6 |-> l.v6, v4 |-> l.v4, order |-> z]
    <3> HIDE DEF r, s, m
    <3> QED
      BY <1>1, <2>2 DEF ListState
  <2>5. l.v6 <=> Has("v6", m)
    BY <1>1, <1>3, <1>8
  <2>6. l.v4 => l.v6 /\ Has("v4", m)
    BY <1>1, <1>3
  <2>7. ASSUME l.v6 PROVE families[z[1]] = "v6" /\ (Has("v4", m) => m > 1 /\ families[z[2]] = "v4")
    <3>1. n > 0 /\ families[s[1]] = "v6" /\ z[1] = s[1]
      BY <1>1, <2>3, <2>7, SMTT(30)
    <3>2. ASSUME Has("v4", m) PROVE m > 1 /\ families[z[2]] = "v4"
      <4>1. Has("v4", n)
        BY <1>1, <1>3, <1>8, <2>7, <3>2
      <4>2. n > 1 /\ families[s[2]] = "v4"
        BY <1>1, <2>7, <4>1
      <4>3. z[2] = s[2] /\ m > 1
        BY <1>1, <2>3, <4>2
      <4> QED
        BY <4>2, <4>3
    <3> QED
      BY <3>1, <3>2
  <2>8. l.v6 \in BOOLEAN /\ l.v4 \in BOOLEAN
    BY <1>1
  <2>20. ListFits(r, m)
    <3> HIDE DEF r, Has, m, s
    <3> QED
      BY <1>5, <2>1, <2>4, <2>5, <2>6, <2>7, <2>8
  <2> QED
    BY <2>20
<1> QED
  BY <1>2, <1>6, <1>7, <1>8

NoList == [v6 |-> FALSE, v4 |-> FALSE, order |-> <<>>]

\* The lists up to the n-th
ListsTo(ls, n) ==
  ls = [i \in 0..n |-> IF i = 0 THEN NoList ELSE Connect!Inserted(ls[i - 1], i)]

LEMMA ListsExist ==
  ASSUME NEW n \in Nat
  PROVE  \E ls : ListsTo(ls, n)
<1> DEFINE Bad == {i \in Nat : ~\E ls : ListsTo(ls, i)}
<1> SUFFICES ASSUME Bad # {} PROVE FALSE
  OBVIOUS
<1>1. PICK i \in Bad : \A j \in Bad : ~(<<j, i>> \in OpToRel(<, Nat))
  BY WFMin, NatLessThanWellFounded
<1>2. \A j \in Bad : ~(j < i)
  BY <1>1 DEF OpToRel
<1>3. CASE i = 0
  <2> DEFINE ls == [k \in 0..0 |-> NoList]
  <2>1. ls = [k \in 0..0 |-> IF k = 0 THEN NoList ELSE Connect!Inserted(ls[k - 1], k)]
    OBVIOUS
  <2>2. ListsTo(ls, 0)
    BY <2>1 DEF ListsTo
  <2> QED
    BY <1>3, <2>2
<1>4. CASE i # 0
  <2>1. i - 1 \in Nat /\ i - 1 < i
    BY <1>4
  <2>2. PICK ls : ListsTo(ls, i - 1)
    BY <1>2, <2>1
  <2> DEFINE h == [k \in 0..i |-> IF k = i THEN Connect!Inserted(ls[i - 1], i) ELSE ls[k]]
             w == [k \in 0..i |-> IF k = 0 THEN NoList ELSE Connect!Inserted(h[k - 1], k)]
  <2>3. ASSUME NEW k \in 0..i PROVE h[k] = w[k]
    <3>1. CASE k = i
      <4>1. h[k] = Connect!Inserted(ls[i - 1], i)
        BY <3>1
      <4>2. h[i - 1] = ls[i - 1]
        BY <2>1
      <4>3. w[k] = Connect!Inserted(h[i - 1], i)
        BY <1>4, <3>1
      <4> QED
        BY <4>1, <4>2, <4>3
    <3>2. CASE k # i
      <4>1. k \in 0..(i - 1) /\ h[k] = ls[k]
        BY <3>2
      <4>2. ls[k] = IF k = 0 THEN NoList ELSE Connect!Inserted(ls[k - 1], k)
        BY <2>2, <4>1 DEF ListsTo
      <4>3. k # 0 => h[k - 1] = ls[k - 1]
        BY <3>2
      <4>4. w[k] = IF k = 0 THEN NoList ELSE Connect!Inserted(h[k - 1], k)
        OBVIOUS
      <4> HIDE DEF h, w
      <4> QED
        BY <4>1, <4>2, <4>3, <4>4
    <3> QED
      BY <3>1, <3>2
  <2>4. h = w
    BY <2>3
  <2>5. ListsTo(h, i)
    BY <2>4 DEF ListsTo
  <2> QED
    BY <2>5
<1> QED
  BY <1>3, <1>4

LEMMA ListsFit ==
  ASSUME families \in Seq(Families)
  PROVE  ListFits(Connect!Lists[Len(families)], Len(families))
<1> DEFINE N == Len(families)
           L == Connect!Lists
<1>1. N \in Nat
  BY LenProperties
<1>2. ListsTo(L, N)
  <2>1. PICK ls : ListsTo(ls, N)
    BY <1>1, ListsExist
  <2> QED
    BY <2>1 DEF ListsTo, NoList, Connect!Lists
<1> HIDE DEF L, N
<1>3. L[0] = NoList /\ \A i \in 1..N : L[i] = Connect!Inserted(L[i - 1], i)
  BY <1>1, <1>2 DEF ListsTo
<1> DEFINE Bad == {i \in 0..N : ~ListFits(L[i], i)}
<1>4. ASSUME Bad # {} PROVE FALSE
  <2>1. Bad \subseteq Nat
    BY <1>1
  <2>2. PICK i \in Bad : \A j \in Bad : ~(<<j, i>> \in OpToRel(<, Nat))
    BY <1>4, <2>1, WFMin, NatLessThanWellFounded
  <2>3. \A j \in Bad : ~(j < i)
    BY <2>1, <2>2 DEF OpToRel
  <2>4. CASE i = 0
    <3>1. <<>> \in Seq(Nat) /\ Len(<<>>) = 0
      BY EmptySeq
    <3>2. NoList \in ListState /\ ~NoList.v6 /\ ~NoList.v4 /\ NoList.order = <<>>
      BY <3>1 DEF NoList, ListState
    <3>3. ListFits(NoList, 0)
      BY <3>1, <3>2 DEF ListFits
    <3> QED
      BY <1>3, <2>4, <3>3
  <2>5. CASE i # 0
    <3>1. i \in 1..N /\ i - 1 \in 0..N /\ i - 1 \in Nat /\ i - 1 < N /\ (i - 1) + 1 = i /\ i - 1 < i
      BY <1>1, <2>5
    <3>2. ListFits(L[i - 1], i - 1)
      BY <2>3, <3>1
    <3>3. ListFits(Connect!Inserted(L[i - 1], i), i)
      BY <3>1, <3>2, InsertedFits DEF N
    <3> QED
      BY <1>3, <3>1, <3>3
  <2> QED
    BY <2>4, <2>5
<1> QED
  BY <1>1, <1>4 DEF L, N

-----------------------------------------------------------------------------
Attempt ==
  [place : {"none", "connecting", "accepted", "refused", "cut", "over"},
   stream : {"none", "open", "closed", "refused"}, event : BOOLEAN]
ConnectCaller ==
  [place : {"resolving", "spawning", "waiting", "joining", "handshake", "returned", "raised",
            "failed", "cancelled"},
   at : Nat \ {0}, tls : BOOLEAN]

Stopped == cancelled.group \/ cancelled.caller

\* The task of target i, when w is the winner and some scope is or is not
\* cancelled: only the winner keeps a stream, unless it was lost in the handshake,
\* and an attempt has neither a stream nor a refusal only after a cancellation.
AttemptFits(x, i, w, stopped, lost) ==
  /\ x.place # "over" => x.stream = "none"
  /\ x.place = "cut" \/ (x.place = "over" /\ x.stream \in {"none", "closed"}) => stopped
  /\ i = w => x.place = "over" /\ x.stream = (IF lost THEN "closed" ELSE "open")
  /\ i # w => x.stream # "open"

\* The tasks of the targets before n are started, and those only.
Begun(n) == \A i \in Connect!Target : attempts[i].place # "none" <=> i < n

CallerFits ==
  /\ caller.place \in {"resolving", "spawning"} => Begun(caller.at)
  /\ caller.place = "waiting" => caller.at \in Connect!Target /\ Begun(caller.at + 1)
  /\ caller.place = "joining" =>
       Stopped \/ \A i \in Connect!Target : attempts[i].place # "none"
  /\ caller.place \in {"handshake", "returned", "raised"} => winner # 0
  /\ caller.place = "failed" =>
       winner = 0 /\ \A i \in Connect!Target : attempts[i].stream = "refused"

ScopesFit ==
  /\ winner = 0 \/ winner \in Connect!Target
  /\ cancelled \in [group : BOOLEAN, caller : BOOLEAN]
  /\ winner # 0 <=> cancelled.group

AttemptsFit ==
  /\ attempts \in [Connect!Target -> Attempt]
  /\ \A i \in Connect!Target :
       AttemptFits(attempts[i], i, winner, Stopped, caller.place = "raised")

ConnectInv ==
  /\ families \in Seq(Families)
  /\ Connect!TargetsInterleaved
  /\ caller \in ConnectCaller
  /\ ScopesFit
  /\ AttemptsFit
  /\ CallerFits

LEMMA TargetsAre ==
  ASSUME families \in Seq(Families)
  PROVE  /\ Len(families) \in Nat /\ Connect!Target = 1..Len(families)
         /\ \A i \in Connect!Target : i \in Nat /\ i # 0
<1>1. Len(families) \in Nat
  BY LenProperties
<1> QED
  BY <1>1 DEF Connect!Target

LEMMA InitConnect == Connect!ConnectInit => ConnectInv
<1> SUFFICES ASSUME Connect!ConnectInit PROVE ConnectInv
  OBVIOUS
<1>1. /\ attempts = [i \in DOMAIN families |-> Connect!NoAttempt]
      /\ caller = [place |-> "resolving", at |-> 1, tls |-> FALSE]
      /\ winner = 0
      /\ cancelled = [group |-> FALSE, caller |-> FALSE]
  BY DEF Connect!ConnectInit
<1>2. families \in Seq(Families) /\ DOMAIN families = Connect!Target
  <2>1. PICK n \in 1..MaxAddresses : families \in [1..n -> Families]
    BY DEF Connect!ConnectInit, Families
  <2>2. n \in Nat
    BY AddressAssumption
  <2>3. families \in Seq(Families)
    BY <2>1, <2>2, SeqDef
  <2>4. Len(families) = n
    BY <2>1, <2>2, <2>3, LenProperties
  <2> QED
    BY <2>1, <2>3, <2>4 DEF Connect!Target
<1>3. Connect!NoAttempt \in Attempt /\ Connect!NoAttempt.place = "none"
      /\ Connect!NoAttempt.stream = "none"
  BY DEF Connect!NoAttempt, Attempt
<1>4. \A i \in Connect!Target : i \in Nat /\ i # 0 /\ ~(i < 1)
  BY <1>2, TargetsAre
<1> HIDE DEF families, targets, attempts, caller, winner, cancelled
<1>5. attempts \in [Connect!Target -> Attempt]
      /\ \A i \in Connect!Target : attempts[i].place = "none" /\ attempts[i].stream = "none"
  BY <1>1, <1>2, <1>3
<1>6. caller \in ConnectCaller /\ caller.place = "resolving" /\ caller.at = 1
  BY <1>1 DEF ConnectCaller
<1>7. AttemptsFit
  BY <1>1, <1>4, <1>5, <1>6 DEF AttemptsFit, AttemptFits
<1>8. CallerFits
  BY <1>4, <1>5, <1>6 DEF CallerFits, Begun
<1>9. ScopesFit
  BY <1>1 DEF ScopesFit
<1>10. Connect!TargetsInterleaved
  <2> USE DEF caller
  <2> QED
    BY <1>6 DEF Connect!TargetsInterleaved
<1> QED
  BY <1>2, <1>6, <1>7, <1>8, <1>9, <1>10 DEF ConnectInv

\* A step of the caller, which leaves its attempts alone
LEMMA CallerMoves ==
  ASSUME ConnectInv, families' = families, attempts' = attempts, winner' = winner,
         cancelled' = cancelled, caller' \in ConnectCaller,
         caller'.place # "raised", caller.place # "raised", CallerFits',
         Connect!TargetsInterleaved'
  PROVE  ConnectInv'
<1>1. AttemptsFit'
  BY DEF ConnectInv, AttemptsFit, AttemptFits, Stopped, Connect!Target
<1>2. ScopesFit'
  BY DEF ConnectInv, ScopesFit, Connect!Target
<1> QED
  BY <1>1, <1>2 DEF ConnectInv

LEMMA TargetsStay ==
  ASSUME ConnectInv, families' = families, targets' = targets, caller.place # "resolving"
  PROVE  Connect!TargetsInterleaved'
BY DEF ConnectInv, Connect!TargetsInterleaved, Connect!Target

\* A step of the attempts, which leaves the caller alone
LEMMA AttemptsMove ==
  ASSUME ConnectInv, families' = families, targets' = targets, caller' = caller,
         caller.place # "failed", ScopesFit', AttemptsFit',
         Stopped => Stopped', winner' # winner => winner = 0,
         \A i \in Connect!Target : attempts'[i].place = "none" <=> attempts[i].place = "none"
  PROVE  ConnectInv'
<1>1. Connect!Target' = Connect!Target
  BY DEF Connect!Target
<1>2. Connect!TargetsInterleaved'
  BY <1>1 DEF ConnectInv, Connect!TargetsInterleaved
<1>3. CallerFits'
  BY <1>1 DEF ConnectInv, CallerFits, Begun, ScopesFit
<1> QED
  BY <1>2, <1>3 DEF ConnectInv

LEMMA ResolveStep ==
  ASSUME ConnectInv, Connect!Resolve
  PROVE  ConnectInv'
<1>1. /\ caller.place = "resolving" /\ families' = families /\ attempts' = attempts
      /\ winner' = winner /\ cancelled' = cancelled
      /\ targets' = Connect!Lists[Len(families)].order
      /\ \E tls \in BOOLEAN : caller' = [caller EXCEPT !.place = "spawning", !.tls = tls]
  BY DEF Connect!Resolve
<1>2. families \in Seq(Families) /\ caller \in ConnectCaller
  BY DEF ConnectInv
<1>3. caller' \in ConnectCaller /\ caller'.place = "spawning" /\ caller'.at = caller.at
  <2> HIDE DEF caller
  <2> QED
    BY <1>1, <1>2 DEF ConnectCaller
<1>4. Connect!Target' = Connect!Target
  BY <1>1 DEF Connect!Target
<1>5. CallerFits'
  BY <1>1, <1>3, <1>4 DEF ConnectInv, CallerFits, Begun
<1>6. Connect!TargetsInterleaved'
  <2> DEFINE n == Len(families)
             l == Connect!Lists[n]
  <2>1. n \in Nat /\ Connect!Target = 1..n
    BY <1>2, TargetsAre
  <2>2. ListFits(l, n)
    BY <1>2, ListsFit
  <2> HIDE DEF l, n
  <2> DEFINE z == l.order
  <2>3. /\ z \in Seq(Nat) /\ Len(z) = n
        /\ \A i, j \in 1..n : z[i] = z[j] => i = j
        /\ (\E i \in 1..n : families[i] = "v6") =>
             families[z[1]] = "v6" /\ ((\E i \in 1..n : families[i] = "v4") => families[z[2]] = "v4")
    BY <2>2 DEF ListFits, ListState
  <2>4. DOMAIN z = 1..n
    BY <2>3, LenProperties
  <2>5. targets' = z
    BY <1>1 DEF l, n
  <2> HIDE DEF z
  <2>6. Connect!IsInjective(targets')
    BY <2>3, <2>4, <2>5 DEF Connect!IsInjective
  <2>7. Len(targets') = Len(families')
    BY <1>1, <2>3, <2>5 DEF n
  <2>8. (\E i \in Connect!Target' : families'[i] = "v6") => families'[targets'[1]] = "v6"
    BY <1>1, <1>4, <2>1, <2>3, <2>5
  <2>9. (\E i \in Connect!Target' : families'[i] = "v6") /\ (\E i \in Connect!Target' : families'[i] = "v4")
          => families'[targets'[1]] = "v6" /\ families'[targets'[2]] = "v4"
    BY <1>1, <1>4, <2>1, <2>3, <2>5
  <2> QED
    BY <2>6, <2>7, <2>8, <2>9 DEF Connect!TargetsInterleaved, Connect!IsInjective
<1> QED
  BY <1>1, <1>3, <1>5, <1>6, CallerMoves

LEMMA SpawnStep ==
  ASSUME ConnectInv, Connect!Spawn
  PROVE  ConnectInv'
<1>1. /\ caller.place = "spawning" /\ families' = families /\ targets' = targets
      /\ winner' = winner /\ cancelled' = cancelled
  BY DEF Connect!Spawn
<1>2. /\ families \in Seq(Families) /\ caller \in ConnectCaller /\ Begun(caller.at)
      /\ AttemptsFit /\ ScopesFit
  BY <1>1 DEF ConnectInv, CallerFits
<1>3. Connect!Target' = Connect!Target /\ Connect!TargetsInterleaved'
  BY <1>1, TargetsStay DEF Connect!Target
<1>4. \A i \in Connect!Target : i \in Nat /\ (i < caller.at + 1 <=> i < caller.at \/ i = caller.at)
  BY <1>2, TargetsAre DEF ConnectCaller
<1>5. CASE /\ caller.at \in Connect!Target
           /\ attempts' = [attempts EXCEPT ![caller.at].place = "connecting"]
           /\ caller' = [caller EXCEPT !.place = "waiting"]
  <2> DEFINE i == caller.at
  <2>1. caller' \in ConnectCaller /\ caller'.place = "waiting" /\ caller'.at = i
    <3> HIDE DEF caller
    <3> QED
      BY <1>2, <1>5 DEF ConnectCaller
  <2>2. i \in Connect!Target /\ i \in Nat /\ ~(i < i)
    BY <1>4, <1>5
  <2>3. attempts[i] \in Attempt /\ attempts[i].place = "none"
    BY <1>2, <2>2 DEF Begun, AttemptsFit
  <2>4. AttemptFits(attempts[i], i, winner, Stopped, FALSE)
    BY <1>1, <1>2, <2>2 DEF AttemptsFit
  <2> DEFINE x == [attempts[i] EXCEPT !.place = "connecting"]
  <2>5. attempts' = [attempts EXCEPT ![i] = x]
    BY <1>5
  <2>6. x \in Attempt /\ x.place = "connecting" /\ x.stream = attempts[i].stream
    BY <2>3 DEF Attempt
  <2> HIDE DEF x
  <2>7. AttemptFits(x, i, winner, Stopped, FALSE)
    BY <2>3, <2>4, <2>6 DEF AttemptFits
  <2>8. /\ attempts' \in [Connect!Target -> Attempt]
        /\ \A j \in Connect!Target : attempts'[j] = IF j = i THEN x ELSE attempts[j]
    BY <1>2, <2>2, <2>5, <2>6 DEF AttemptsFit
  <2>9. AttemptsFit'
    <3>1. Stopped' = Stopped
      BY <1>1 DEF Stopped
    <3>2. ASSUME NEW j \in Connect!Target
          PROVE  AttemptFits(attempts'[j], j, winner', Stopped', caller'.place = "raised")
      <4>1. (caller'.place = "raised") = FALSE /\ (caller.place = "raised") = FALSE
        BY <1>1, <2>1
      <4>2. AttemptFits(attempts[j], j, winner, Stopped, caller.place = "raised")
        BY <1>2 DEF AttemptsFit
      <4> QED
        BY <1>1, <2>7, <2>8, <3>1, <4>1, <4>2
    <3> QED
      BY <1>3, <2>8, <3>2 DEF AttemptsFit
  <2>10. CallerFits'
    <3>1. ASSUME NEW j \in Connect!Target
          PROVE  attempts'[j].place # "none" <=> j < caller'.at + 1
      BY <1>2, <1>4, <2>1, <2>2, <2>6, <2>8 DEF Begun
    <3> QED
      BY <1>3, <2>1, <2>2, <3>1 DEF CallerFits, Begun
  <2>11. ScopesFit'
    BY <1>1, <1>2, <1>3 DEF ScopesFit
  <2> QED
    BY <1>1, <1>2, <1>3, <2>1, <2>9, <2>10, <2>11 DEF ConnectInv
<1>6. CASE /\ caller.at \notin Connect!Target /\ attempts' = attempts
           /\ caller' = [caller EXCEPT !.place = "joining"]
  <2>1. caller' \in ConnectCaller /\ caller'.place = "joining"
    <3> HIDE DEF caller
    <3> QED
      BY <1>2, <1>6 DEF ConnectCaller
  <2>2. \A j \in Connect!Target : attempts[j].place # "none"
    <3>1. caller.at \in Nat
      BY <1>2 DEF ConnectCaller
    <3>2. caller.at = 0 \/ \A j \in Connect!Target : j < caller.at
      BY <1>2, <1>6, <3>1, TargetsAre
    <3>3. caller.at # 0
      BY <1>2 DEF ConnectCaller
    <3> QED
      BY <1>2, <3>2, <3>3 DEF Begun
  <2>3. CallerFits'
    BY <1>3, <1>6, <2>1, <2>2 DEF CallerFits
  <2> QED
    BY <1>1, <1>3, <1>6, <2>1, <2>3, CallerMoves
<1> QED
  BY <1>1, <1>5, <1>6 DEF Connect!Spawn

LEMMA WaitOverStep ==
  ASSUME ConnectInv, Connect!WaitOver \/ Connect!WaitOverUntold
  PROVE  ConnectInv'
<1>1. /\ caller.place = "waiting" /\ families' = families /\ targets' = targets
      /\ attempts' = attempts /\ winner' = winner /\ cancelled' = cancelled
      /\ \/ Stopped /\ caller' = [caller EXCEPT !.place = "joining"]
         \/ caller' = [caller EXCEPT !.place = "spawning", !.at = caller.at + 1]
  BY DEF Connect!WaitOver, Connect!WaitOverUntold, Stopped
<1>2. caller \in ConnectCaller /\ caller.at \in Nat /\ Begun(caller.at + 1)
  BY <1>1 DEF ConnectInv, CallerFits, ConnectCaller
<1>3. Connect!Target' = Connect!Target /\ Connect!TargetsInterleaved' /\ Stopped' = Stopped
  BY <1>1, TargetsStay DEF Connect!Target, Stopped
<1>4. CASE Stopped /\ caller' = [caller EXCEPT !.place = "joining"]
  <2>1. caller' \in ConnectCaller /\ caller'.place = "joining"
    <3> HIDE DEF caller
    <3> QED
      BY <1>2, <1>4 DEF ConnectCaller
  <2>2. CallerFits'
    BY <1>3, <1>4, <2>1 DEF CallerFits
  <2> QED
    BY <1>1, <1>3, <2>1, <2>2, CallerMoves
<1>5. CASE caller' = [caller EXCEPT !.place = "spawning", !.at = caller.at + 1]
  <2> DEFINE n == caller.at + 1
  <2>1. n \in Nat \ {0} /\ caller' = [caller EXCEPT !.place = "spawning", !.at = n] /\ Begun(n)
    BY <1>2, <1>5
  <2> HIDE DEF n
  <2>2. caller' \in ConnectCaller /\ caller'.place = "spawning" /\ caller'.at = n
    <3> HIDE DEF caller
    <3> QED
      BY <1>2, <2>1 DEF ConnectCaller
  <2>3. CallerFits'
    BY <1>1, <1>3, <2>1, <2>2 DEF CallerFits, Begun
  <2> QED
    BY <1>1, <1>3, <2>2, <2>3, CallerMoves
<1> QED
  BY <1>1, <1>4, <1>5

LEMMA JoinedStep ==
  ASSUME ConnectInv, Connect!Joined
  PROVE  ConnectInv'
<1>1. /\ caller.place = "joining" /\ Connect!AllOver /\ families' = families /\ targets' = targets
      /\ attempts' = attempts /\ winner' = winner /\ cancelled' = cancelled
  BY DEF Connect!Joined
<1> DEFINE p == IF cancelled.caller THEN "cancelled"
                ELSE IF winner = 0 THEN "failed"
                ELSE IF caller.tls THEN "handshake" ELSE "returned"
<1>2. caller' = [caller EXCEPT !.place = p]
  BY DEF Connect!Joined
<1>3. caller \in ConnectCaller /\ ScopesFit /\ AttemptsFit
  BY DEF ConnectInv
<1>4. \/ p = "cancelled"
      \/ p = "failed" /\ winner = 0 /\ ~cancelled.caller
      \/ p \in {"handshake", "returned"} /\ winner # 0
  <2>1. CASE cancelled.caller
    BY <2>1
  <2>2. CASE ~cancelled.caller /\ winner = 0
    BY <2>2
  <2>3. CASE ~cancelled.caller /\ winner # 0 /\ caller.tls
    BY <2>3
  <2>4. CASE ~cancelled.caller /\ winner # 0 /\ ~caller.tls
    BY <2>4
  <2> QED
    BY <2>1, <2>2, <2>3, <2>4
<1> HIDE DEF p
<1>5. caller' \in ConnectCaller /\ caller'.place = p
  <2>1. p \in {"cancelled", "failed", "handshake", "returned"}
    BY <1>4
  <2> HIDE DEF caller
  <2> QED
    BY <1>2, <1>3, <2>1 DEF ConnectCaller
<1>6. Connect!Target' = Connect!Target /\ Connect!TargetsInterleaved'
  BY <1>1, TargetsStay DEF Connect!Target
<1>7. ASSUME p = "failed", NEW i \in Connect!Target
      PROVE  attempts[i].stream = "refused"
  <2>1. ~Stopped /\ winner = 0
    BY <1>3, <1>4, <1>7 DEF ScopesFit, Stopped
  <2>2. attempts[i].place = "over"
    BY <1>1, <2>1 DEF ConnectInv, CallerFits, Connect!AllOver
  <2>3. attempts[i] \in Attempt /\ AttemptFits(attempts[i], i, winner, Stopped, FALSE) /\ i # 0
    BY <1>1, <1>3, TargetsAre DEF AttemptsFit, ConnectInv
  <2> QED
    BY <2>1, <2>2, <2>3 DEF AttemptFits, Attempt
<1>8. CallerFits'
  BY <1>1, <1>4, <1>5, <1>6, <1>7 DEF CallerFits
<1>9. p # "raised"
  BY <1>4
<1> QED
  BY <1>1, <1>5, <1>6, <1>8, <1>9, CallerMoves

LEMMA HandshakeOverStep ==
  ASSUME ConnectInv, Connect!HandshakeOver
  PROVE  ConnectInv'
<1>1. /\ caller.place = "handshake" /\ families' = families /\ targets' = targets
      /\ winner' = winner /\ cancelled' = cancelled
  BY DEF Connect!HandshakeOver
<1>2. /\ families \in Seq(Families) /\ caller \in ConnectCaller /\ ScopesFit /\ AttemptsFit
      /\ winner # 0 /\ winner \in Connect!Target
  BY <1>1 DEF ConnectInv, CallerFits, ScopesFit
<1>3. Connect!Target' = Connect!Target /\ Connect!TargetsInterleaved' /\ Stopped' = Stopped
  BY <1>1, TargetsStay DEF Connect!Target, Stopped
<1>4. CASE caller' = [caller EXCEPT !.place = "returned"] /\ attempts' = attempts
  <2>1. caller' \in ConnectCaller /\ caller'.place = "returned"
    <3> HIDE DEF caller
    <3> QED
      BY <1>2, <1>4 DEF ConnectCaller
  <2>2. CallerFits'
    BY <1>1, <1>2, <2>1 DEF CallerFits
  <2> QED
    BY <1>1, <1>3, <1>4, <2>1, <2>2, CallerMoves
<1>5. CASE /\ caller' = [caller EXCEPT !.place = "raised"]
           /\ attempts' = [attempts EXCEPT ![winner].stream = "closed"]
  <2>1. caller' \in ConnectCaller /\ caller'.place = "raised"
    <3> HIDE DEF caller
    <3> QED
      BY <1>2, <1>5 DEF ConnectCaller
  <2> DEFINE x == [attempts[winner] EXCEPT !.stream = "closed"]
  <2>2. attempts[winner] \in Attempt /\ AttemptFits(attempts[winner], winner, winner, Stopped, FALSE)
    BY <1>1, <1>2 DEF AttemptsFit
  <2>3. attempts' = [attempts EXCEPT ![winner] = x]
    BY <1>5
  <2>4. x \in Attempt /\ x.place = attempts[winner].place /\ x.stream = "closed"
    BY <2>2 DEF Attempt
  <2> HIDE DEF x
  <2>5. /\ attempts' \in [Connect!Target -> Attempt]
        /\ \A j \in Connect!Target : attempts'[j] = IF j = winner THEN x ELSE attempts[j]
    BY <1>2, <2>3, <2>4 DEF AttemptsFit
  <2>6. AttemptFits(x, winner, winner, Stopped, TRUE)
    BY <1>2, <2>2, <2>4 DEF AttemptFits, ScopesFit, Stopped
  <2>7. ASSUME NEW j \in Connect!Target
        PROVE  AttemptFits(attempts'[j], j, winner', Stopped', caller'.place = "raised")
    <3>1. AttemptFits(attempts[j], j, winner, Stopped, FALSE)
      BY <1>1, <1>2 DEF AttemptsFit
    <3>2. j # winner => AttemptFits(attempts[j], j, winner, Stopped, TRUE)
      BY <3>1 DEF AttemptFits
    <3> QED
      BY <1>1, <1>3, <2>1, <2>5, <2>6, <3>2
  <2>8. AttemptsFit'
    BY <1>3, <2>5, <2>7 DEF AttemptsFit
  <2>9. CallerFits'
    BY <1>1, <1>2, <2>1 DEF CallerFits
  <2>10. ScopesFit'
    BY <1>1, <1>2, <1>3 DEF ScopesFit
  <2> QED
    BY <1>1, <1>2, <1>3, <2>1, <2>8, <2>9, <2>10 DEF ConnectInv
<1> QED
  BY <1>4, <1>5 DEF Connect!HandshakeOver

\* What a cancellation does to the attempts
LEMMA CutIs ==
  ASSUME NEW as \in [Connect!Target -> Attempt]
  PROVE  /\ Connect!Cut(as) \in [Connect!Target -> Attempt]
         /\ \A i \in Connect!Target :
              /\ Connect!Cut(as)[i].stream = as[i].stream
              /\ as[i].place # "connecting" => Connect!Cut(as)[i].place = as[i].place
              /\ as[i].place = "connecting" => Connect!Cut(as)[i].place = "cut"
<1>1. DOMAIN as = Connect!Target
  OBVIOUS
<1>2. ASSUME NEW i \in Connect!Target
      PROVE  /\ Connect!Cut(as)[i] \in Attempt
             /\ Connect!Cut(as)[i].stream = as[i].stream
             /\ as[i].place # "connecting" => Connect!Cut(as)[i].place = as[i].place
             /\ as[i].place = "connecting" => Connect!Cut(as)[i].place = "cut"
  <2> DEFINE x == as[i]
  <2>1. x \in Attempt
    OBVIOUS
  <2>2. Connect!Cut(as)[i] = IF x.place = "connecting" THEN [x EXCEPT !.place = "cut"] ELSE x
    BY <1>1 DEF Connect!Cut
  <2> HIDE DEF x
  <2>3. /\ Connect!Cut(as)[i] \in Attempt
        /\ Connect!Cut(as)[i].stream = x.stream
        /\ x.place # "connecting" => Connect!Cut(as)[i].place = x.place
        /\ x.place = "connecting" => Connect!Cut(as)[i].place = "cut"
    BY <2>1, <2>2 DEF Attempt
  <2> QED
    BY <2>3 DEF x
<1>3. Connect!Cut(as) = [i \in Connect!Target |-> Connect!Cut(as)[i]]
  BY <1>1 DEF Connect!Cut
<1> QED
  BY <1>2, <1>3

LEMMA CutKeeps ==
  ASSUME NEW as \in [Connect!Target -> Attempt], NEW w, NEW lost \in BOOLEAN,
         NEW stopped \in BOOLEAN,
         NEW i \in Connect!Target, AttemptFits(as[i], i, w, stopped, lost)
  PROVE  AttemptFits(Connect!Cut(as)[i], i, w, TRUE, lost)
BY CutIs DEF AttemptFits

\* The invariant, as what the steps of the attempts use of it
LEMMA AttemptsAre ==
  ASSUME ConnectInv
  PROVE  /\ families \in Seq(Families) /\ attempts \in [Connect!Target -> Attempt]
         /\ ScopesFit /\ Stopped \in BOOLEAN /\ (caller.place = "raised") \in BOOLEAN
         /\ \A i \in Connect!Target : /\ attempts[i] \in Attempt
                                      /\ AttemptFits(attempts[i], i, winner, Stopped,
                                                     caller.place = "raised")
                                      /\ i # 0
         /\ caller.place = "failed" =>
              \A i \in Connect!Target : attempts[i].place = "over"
<1>1. /\ families \in Seq(Families) /\ attempts \in [Connect!Target -> Attempt] /\ ScopesFit
      /\ \A i \in Connect!Target : AttemptFits(attempts[i], i, winner, Stopped,
                                                caller.place = "raised")
  BY DEF ConnectInv, AttemptsFit
<1>2. \A i \in Connect!Target : attempts[i] \in Attempt /\ i # 0
  BY <1>1, TargetsAre
<1>3. ASSUME caller.place = "failed", NEW i \in Connect!Target
      PROVE  attempts[i].place = "over"
  <2>1. attempts[i].stream = "refused"
    BY <1>3 DEF ConnectInv, CallerFits
  <2> QED
    BY <1>1, <2>1 DEF AttemptFits
<1>4. Stopped \in BOOLEAN
  BY <1>1 DEF Stopped, ScopesFit
<1> QED
  BY <1>1, <1>2, <1>3, <1>4

LEMMA AnsweredStep ==
  ASSUME ConnectInv, NEW i \in Connect!Target, Connect!Answered(i)
  PROVE  ConnectInv'
<1>1. /\ attempts[i].place = "connecting" /\ families' = families /\ targets' = targets
      /\ caller' = caller /\ winner' = winner /\ cancelled' = cancelled
  BY DEF Connect!Answered
<1>2. PICK answer \in {"accepted", "refused"} : attempts' = [attempts EXCEPT ![i].place = answer]
  BY DEF Connect!Answered
<1> DEFINE lost == caller.place = "raised"
           x == [attempts[i] EXCEPT !.place = answer]
<1>3. attempts[i] \in Attempt /\ AttemptFits(attempts[i], i, winner, Stopped, lost)
  BY AttemptsAre
<1>4. x \in Attempt /\ x.place = answer /\ x.stream = attempts[i].stream
      /\ attempts' = [attempts EXCEPT ![i] = x]
  BY <1>2, <1>3 DEF Attempt
<1> HIDE DEF x
<1>5. AttemptFits(x, i, winner, Stopped, lost)
  BY <1>1, <1>3, <1>4 DEF AttemptFits
<1>6. /\ attempts' \in [Connect!Target -> Attempt]
      /\ \A j \in Connect!Target : attempts'[j] = IF j = i THEN x ELSE attempts[j]
  BY <1>4, AttemptsAre
<1>7. Stopped' = Stopped /\ Connect!Target' = Connect!Target /\ lost' = lost
  BY <1>1 DEF Stopped, Connect!Target
<1>8. AttemptsFit'
  <2>1. ASSUME NEW j \in Connect!Target
        PROVE  AttemptFits(attempts'[j], j, winner', Stopped', lost')
    BY <1>1, <1>5, <1>6, <1>7, AttemptsAre
  <2> QED
    BY <1>6, <1>7, <2>1 DEF AttemptsFit
<1>9. ScopesFit'
  BY <1>1, <1>7, AttemptsAre DEF ScopesFit
<1>10. \A j \in Connect!Target : attempts'[j].place = "none" <=> attempts[j].place = "none"
  BY <1>1, <1>4, <1>6
<1>11. caller.place # "failed"
  BY <1>1, AttemptsAre
<1> QED
  BY <1>1, <1>7, <1>8, <1>9, <1>10, <1>11, AttemptsMove

LEMMA CutStep ==
  ASSUME ConnectInv, (\E i \in Connect!Target : Connect!CutLate(i)) \/ Connect!CancelCaller
  PROVE  ConnectInv'
<1>1. /\ families' = families /\ targets' = targets /\ caller' = caller /\ winner' = winner
      /\ attempts' = Connect!Cut(attempts) /\ Stopped' /\ ScopesFit'
  <2>1. CASE \E i \in Connect!Target : Connect!CutLate(i)
    BY <2>1, AttemptsAre DEF Connect!CutLate, Stopped, ScopesFit, Connect!Target
  <2>2. CASE Connect!CancelCaller
    <3>1. cancelled' = [cancelled EXCEPT !.caller = TRUE] /\ winner' = winner /\ families' = families
      BY <2>2 DEF Connect!CancelCaller
    <3>2. cancelled' \in [group : BOOLEAN, caller : BOOLEAN] /\ cancelled'.caller = TRUE
          /\ cancelled'.group = cancelled.group
      <4>1. cancelled \in [group : BOOLEAN, caller : BOOLEAN]
        BY AttemptsAre DEF ScopesFit
      <4> HIDE DEF cancelled
      <4> QED
        BY <3>1, <4>1
    <3>3. Stopped'
      BY <3>2 DEF Stopped
    <3>4. ScopesFit'
      BY <3>1, <3>2, AttemptsAre DEF ScopesFit, Connect!Target
    <3> QED
      BY <2>2, <3>3, <3>4 DEF Connect!CancelCaller
  <2> QED
    BY <2>1, <2>2
<1>2. Connect!Target' = Connect!Target
  BY <1>1 DEF Connect!Target
<1>3. attempts' \in [Connect!Target -> Attempt]
  BY <1>1, CutIs, AttemptsAre
<1>4. ASSUME NEW j \in Connect!Target
      PROVE  AttemptFits(attempts'[j], j, winner, TRUE, caller.place = "raised")
  BY <1>1, CutKeeps, AttemptsAre
<1>5. AttemptsFit'
  <2>1. Stopped' = TRUE
    <3>1. Stopped' \in BOOLEAN
      BY <1>1 DEF Stopped, ScopesFit
    <3> QED
      BY <1>1, <3>1
  <2> QED
    BY <1>1, <1>2, <1>3, <1>4, <2>1 DEF AttemptsFit
<1>6. \A j \in Connect!Target : attempts'[j].place = "none" <=> attempts[j].place = "none"
  BY <1>1, CutIs, AttemptsAre
<1>7. caller.place # "failed"
  BY AttemptsAre DEF Connect!CutLate, Connect!CancelCaller
<1> QED
  BY <1>1, <1>5, <1>6, <1>7, AttemptsMove

LEMMA TryConnectEndsStep ==
  ASSUME ConnectInv, NEW i \in Connect!Target, Connect!TryConnectEnds(i)
  PROVE  ConnectInv'
<1> DEFINE lost == caller.place = "raised"
           over(stream) == [place |-> "over", stream |-> stream, event |-> TRUE]
           putOver(stream) == [attempts EXCEPT ![i] = over(stream)]
<1>1. /\ attempts[i].place \in {"accepted", "refused", "cut"}
      /\ families' = families /\ targets' = targets /\ caller' = caller
  BY DEF Connect!TryConnectEnds
<1>2. \/ /\ attempts[i].place = "accepted" /\ winner = 0 /\ winner' = i
         /\ cancelled' = [cancelled EXCEPT !.group = TRUE]
         /\ attempts' = Connect!Cut(putOver("open"))
      \/ /\ attempts[i].place = "accepted" /\ winner # 0 /\ winner' = winner
         /\ cancelled' = cancelled /\ attempts' = putOver("closed")
      \/ /\ attempts[i].place = "refused" /\ winner' = winner
         /\ cancelled' = cancelled /\ attempts' = putOver("refused")
      \/ /\ attempts[i].place = "cut" /\ winner' = winner
         /\ cancelled' = cancelled /\ attempts' = putOver("none")
  BY DEF Connect!TryConnectEnds, Connect!FirstWins
<1>3. /\ attempts \in [Connect!Target -> Attempt] /\ ScopesFit /\ Stopped \in BOOLEAN
      /\ lost \in BOOLEAN
      /\ \A j \in Connect!Target : AttemptFits(attempts[j], j, winner, Stopped, lost) /\ j # 0
      /\ attempts[i] \in Attempt
  BY AttemptsAre
<1>4. ASSUME NEW s \in {"none", "open", "closed", "refused"}
      PROVE  /\ over(s) \in Attempt /\ over(s).place = "over" /\ over(s).stream = s
             /\ putOver(s) \in [Connect!Target -> Attempt]
             /\ \A j \in Connect!Target : putOver(s)[j] = IF j = i THEN over(s) ELSE attempts[j]
  <2>1. over(s) \in Attempt /\ over(s).place = "over" /\ over(s).stream = s
    BY DEF Attempt
  <2> HIDE DEF over
  <2> QED
    BY <1>3, <2>1
<1>5. Connect!Target' = Connect!Target /\ lost' = lost
  BY <1>1 DEF Connect!Target
<1>6. i # winner
  <2>1. i = winner => attempts[i].place = "over"
    BY <1>3 DEF AttemptFits
  <2> QED
    BY <1>1, <2>1
<1>7. caller.place # "failed"
  BY <1>1, AttemptsAre
<1> HIDE DEF over, putOver, lost
<1>8. ASSUME NEW s \in {"none", "closed", "refused"}, s # "refused" => Stopped,
             winner' = winner, cancelled' = cancelled, attempts' = putOver(s)
      PROVE  ConnectInv'
  <2>1. Stopped' = Stopped
    BY <1>8 DEF Stopped
  <2>2. /\ attempts' \in [Connect!Target -> Attempt]
        /\ \A j \in Connect!Target : attempts'[j] = IF j = i THEN over(s) ELSE attempts[j]
        /\ over(s).place = "over" /\ over(s).stream = s
    BY <1>4, <1>8
  <2>3. AttemptFits(over(s), i, winner, Stopped, lost)
    BY <1>6, <1>8, <2>2 DEF AttemptFits
  <2>4. ASSUME NEW j \in Connect!Target
        PROVE  AttemptFits(attempts'[j], j, winner', Stopped', lost')
    BY <1>3, <1>5, <1>8, <2>1, <2>2, <2>3
  <2>5. AttemptsFit'
    BY <1>5, <2>2, <2>4 DEF AttemptsFit, lost
  <2>6. ScopesFit'
    BY <1>3, <1>5, <1>8 DEF ScopesFit
  <2>7. \A j \in Connect!Target : attempts'[j].place = "none" <=> attempts[j].place = "none"
    BY <1>1, <2>2
  <2> QED
    BY <1>1, <1>7, <1>8, <2>1, <2>5, <2>6, <2>7, AttemptsMove
<1>9. CASE attempts[i].place = "accepted" /\ winner = 0
  <2> DEFINE as == putOver("open")
  <2>1. /\ winner' = i /\ cancelled' = [cancelled EXCEPT !.group = TRUE]
        /\ attempts' = Connect!Cut(as)
    BY <1>2, <1>9
  <2>2. /\ as \in [Connect!Target -> Attempt]
        /\ \A j \in Connect!Target : as[j] = IF j = i THEN over("open") ELSE attempts[j]
        /\ over("open").place = "over" /\ over("open").stream = "open"
    BY <1>4
  <2> HIDE DEF as
  <2>3. ~lost
    BY <1>9 DEF lost, ConnectInv, CallerFits
  <2>4. ASSUME NEW j \in Connect!Target
        PROVE  AttemptFits(as[j], j, i, TRUE, lost)
    <3>1. AttemptFits(attempts[j], j, winner, Stopped, lost) /\ j # winner
      BY <1>3, <1>9
    <3> QED
      BY <2>2, <2>3, <3>1 DEF AttemptFits
  <2>5. ASSUME NEW j \in Connect!Target
        PROVE  AttemptFits(attempts'[j], j, winner', TRUE, lost')
    BY <1>3, <1>5, <2>1, <2>2, <2>4, CutKeeps
  <2>6. /\ cancelled' \in [group : BOOLEAN, caller : BOOLEAN] /\ cancelled'.group = TRUE
        /\ cancelled'.caller = cancelled.caller
    <3>1. cancelled \in [group : BOOLEAN, caller : BOOLEAN]
      BY <1>3 DEF ScopesFit
    <3> HIDE DEF cancelled
    <3> QED
      BY <2>1, <3>1
  <2>7. Stopped' = TRUE
    BY <2>6 DEF Stopped
  <2>8. attempts' \in [Connect!Target -> Attempt]
    BY <2>1, <2>2, CutIs
  <2>9. AttemptsFit'
    BY <1>5, <2>5, <2>7, <2>8 DEF AttemptsFit, lost
  <2>10. ScopesFit'
    BY <1>3, <1>5, <2>1, <2>6 DEF ScopesFit
  <2>11. \A j \in Connect!Target : attempts'[j].place = "none" <=> attempts[j].place = "none"
    <3>1. ASSUME NEW j \in Connect!Target
          PROVE  attempts'[j].place = "none" <=> as[j].place = "none"
      <4>1. /\ as[j].place # "connecting" => Connect!Cut(as)[j].place = as[j].place
            /\ as[j].place = "connecting" => Connect!Cut(as)[j].place = "cut"
        BY <2>2, CutIs
      <4> QED
        BY <2>1, <4>1
    <3>2. \A j \in Connect!Target : as[j].place = "none" <=> attempts[j].place = "none"
      BY <1>1, <2>2
    <3> QED
      BY <3>1, <3>2
  <2> QED
    BY <1>1, <1>7, <1>9, <2>7, <2>9, <2>10, <2>11, AttemptsMove
<1>10. CASE attempts[i].place = "accepted" /\ winner # 0
  <2>1. Stopped
    BY <1>3, <1>10 DEF ScopesFit, Stopped
  <2> QED
    BY <1>2, <1>8, <1>10, <2>1
<1>11. CASE attempts[i].place = "refused"
  BY <1>2, <1>8, <1>11
<1>12. CASE attempts[i].place = "cut"
  <2>1. Stopped
    BY <1>3, <1>12 DEF AttemptFits
  <2> QED
    BY <1>2, <1>8, <1>12, <2>1
<1> QED
  BY <1>1, <1>9, <1>10, <1>11, <1>12

LEMMA NextConnect == ConnectInv /\ [Connect!ConnectNext]_(Connect!connectVars) => ConnectInv'
<1> SUFFICES ASSUME ConnectInv, [Connect!ConnectNext]_(Connect!connectVars) PROVE ConnectInv'
  OBVIOUS
<1>1. CASE UNCHANGED Connect!connectVars
  <2>1. /\ families' = families /\ targets' = targets /\ attempts' = attempts
        /\ caller' = caller /\ winner' = winner /\ cancelled' = cancelled
    BY <1>1 DEF Connect!connectVars
  <2> QED
    BY <2>1
       DEF ConnectInv, Connect!TargetsInterleaved, ScopesFit, AttemptsFit, CallerFits, AttemptFits,
           Begun, Stopped, Connect!Target, Connect!IsInjective
<1> QED
  BY <1>1, ResolveStep, SpawnStep, WaitOverStep, JoinedStep, HandshakeOverStep, AnsweredStep,
     CutStep, TryConnectEndsStep
     DEF Connect!ConnectNext

LEMMA ConnectHolds == ConnectInv => Connect!OneStream /\ Connect!TargetsInterleaved
<1> SUFFICES ASSUME ConnectInv PROVE Connect!OneStream
  BY DEF ConnectInv
<1>1. \A i \in Connect!Target : AttemptFits(attempts[i], i, winner, Stopped, caller.place = "raised")
  BY AttemptsAre
<1>2. CallerFits
  BY DEF ConnectInv
<1> QED
  BY <1>1, <1>2 DEF Connect!OneStream, AttemptFits, CallerFits

-----------------------------------------------------------------------------
(* The listeners: one task at a time is between the checkpoint and its       *)
(* connection, and every connection that was taken is with one task.         *)

listener == a
accepting == b
closing == c
fates == d

USE DEF listener, accepting, closing, fates

ListenerState ==
  [kind : {"tcp", "unix"}, closed : BOOLEAN, open : BOOLEAN, guard : BOOLEAN,
   scope : BOOLEAN, backlog : Nat, everCut : BOOLEAN]
Futures == {"none", "pending", "connection", "cancelled", "released", "ready"}
AcceptPlace ==
  [place : {"away", "checkpoint", "waiting", "connecting"}, future : Futures, cut : BOOLEAN]
FatesState == [came : Nat, handed : Nat, dropped : Nat]

\* The tasks that hold a connection
Holders == {t \in Acceptor : accepting[t].place = "connecting" \/ accepting[t].future = "connection"}

AcceptorFits(t) ==
  /\ accepting[t].future # "none" => accepting[t].place = "waiting"
  /\ accepting[t].place = "away" => accepting[t] = Listener!Away
  /\ accepting[t].cut \/ accepting[t].future = "cancelled" => listener.everCut
  /\ listener.kind = "unix" => accepting[t].place # "connecting" /\ accepting[t].future # "connection"

\* A TCP listener has one task at a time before its connection.
TcpFits(t) ==
  /\ accepting[t].place \in {"checkpoint", "waiting"} => listener.guard
  /\ \A u \in Acceptor :
       /\ accepting[t].place \in {"checkpoint", "waiting"}
       /\ accepting[u].place \in {"checkpoint", "waiting"}
       => t = u
  /\ accepting[t].future = "pending" => listener.scope /\ ~listener.closed
  /\ listener.closed /\ listener.open => accepting[t].place # "checkpoint"

ListenerInv ==
  /\ listener \in ListenerState /\ accepting \in [Acceptor -> AcceptPlace]
  /\ fates \in FatesState
  /\ \A t \in Acceptor : AcceptorFits(t)
  /\ listener.kind = "tcp" =>
       /\ \A t \in Acceptor : TcpFits(t)
       /\ listener.scope => \E t \in Acceptor : accepting[t].place = "waiting"
  /\ fates.dropped > 0 => listener.everCut
  /\ fates.came = listener.backlog + fates.handed + fates.dropped + Cardinality(Holders)

LEMMA InitListener == Listener!ListenerInit => ListenerInv
<1> SUFFICES ASSUME Listener!ListenerInit PROVE ListenerInv
  OBVIOUS
<1>1. /\ accepting = [t \in Acceptor |-> Listener!Away]
      /\ fates = [came |-> 0, handed |-> 0, dropped |-> 0]
  BY DEF Listener!ListenerInit
<1>2. PICK kind \in {"tcp", "unix"} :
        listener = [kind |-> kind, closed |-> FALSE, open |-> TRUE, guard |-> FALSE,
                    scope |-> FALSE, backlog |-> 0, everCut |-> FALSE]
  BY DEF Listener!ListenerInit
<1>3. Holders = {}
  BY <1>1 DEF Holders, Listener!Away
<1>4. Cardinality(Holders) = 0
  BY <1>3, FS_EmptySet
<1>5. \A t \in Acceptor : AcceptorFits(t) /\ TcpFits(t)
  BY <1>1, <1>2 DEF AcceptorFits, TcpFits, Listener!Away
<1>6. listener \in ListenerState /\ accepting \in [Acceptor -> AcceptPlace] /\ fates \in FatesState
  BY <1>1, <1>2 DEF ListenerState, AcceptPlace, FatesState, Futures, Listener!Away
<1> QED
  BY <1>1, <1>2, <1>4, <1>5, <1>6 DEF ListenerInv

\* One task takes a connection, or gives it away.
LEMMA OneHolder ==
  ASSUME ListenerInv, NEW t \in Acceptor,
         \A u \in Acceptor : u # t => accepting'[u] = accepting[u]
  PROVE  /\ t \notin Holders /\ t \in Holders' => Cardinality(Holders') = Cardinality(Holders) + 1
         /\ t \in Holders /\ t \notin Holders' => Cardinality(Holders') = Cardinality(Holders) - 1
         /\ (t \in Holders <=> t \in Holders') => Cardinality(Holders') = Cardinality(Holders)
         /\ Cardinality(Holders) \in Nat
<1>1. IsFiniteSet(Holders)
  BY FS_Subset, ListenerAssumption DEF Holders
<1>2. \A u \in Acceptor : u # t => (u \in Holders <=> u \in Holders')
  BY DEF Holders
<1>3. Holders \subseteq Acceptor /\ Holders' \subseteq Acceptor
  BY DEF Holders
<1>4. ASSUME t \notin Holders, t \in Holders'
      PROVE  Cardinality(Holders') = Cardinality(Holders) + 1
  <2>1. Holders' = Holders \union {t}
    BY <1>2, <1>3, <1>4
  <2> QED
    BY <1>1, <1>4, <2>1, FS_AddElement
<1>5. ASSUME t \in Holders, t \notin Holders'
      PROVE  Cardinality(Holders') = Cardinality(Holders) - 1
  <2>1. Holders' = Holders \ {t}
    BY <1>2, <1>3, <1>5
  <2> QED
    BY <1>1, <1>5, <2>1, FS_RemoveElement
<1>6. ASSUME t \in Holders <=> t \in Holders'
      PROVE  Cardinality(Holders') = Cardinality(Holders)
  <2>1. Holders' = Holders
    BY <1>2, <1>3, <1>6
  <2> QED
    BY <2>1
<1> QED
  BY <1>1, <1>4, <1>5, <1>6, FS_CardinalityType

\* A step of one task: what is to be shown of it
LEMMA AcceptorStep ==
  ASSUME ListenerInv, NEW t \in Acceptor, NEW x \in AcceptPlace,
         accepting' = [accepting EXCEPT ![t] = x],
         listener' \in ListenerState, fates' \in FatesState,
         listener'.kind = listener.kind, listener'.closed = listener.closed,
         listener'.open = listener.open, listener.everCut => listener'.everCut,
         \* the task itself
         x.future # "none" => x.place = "waiting",
         x.place = "away" => x = Listener!Away,
         x.cut \/ x.future = "cancelled" => listener'.everCut,
         listener.kind = "unix" => x.place # "connecting" /\ x.future # "connection",
         \* a TCP listener
         listener.kind = "tcp" =>
           /\ x.place \in {"checkpoint", "waiting"} =>
                /\ listener'.guard
                /\ accepting[t].place \in {"checkpoint", "waiting"} \/ ~listener.guard
           /\ x.future = "pending" => listener'.scope /\ ~listener.closed
           /\ listener.closed /\ listener.open => x.place # "checkpoint"
           /\ \/ accepting[t].place \in {"checkpoint", "waiting"}
              \/ listener'.guard = listener.guard /\ listener'.scope = listener.scope
              \/ ~listener.guard /\ listener'.scope = listener.scope
           /\ listener'.scope => x.place = "waiting"
                \/ (listener.scope /\ accepting[t].place # "waiting"),
         \* the connections
         fates'.dropped > 0 => listener'.everCut,
         fates'.came = listener'.backlog + fates'.handed + fates'.dropped + Cardinality(Holders')
  PROVE  ListenerInv'
<1>1. /\ listener \in ListenerState /\ accepting \in [Acceptor -> AcceptPlace]
      /\ \A u \in Acceptor : AcceptorFits(u)
  BY DEF ListenerInv
<1>2. /\ accepting' \in [Acceptor -> AcceptPlace] /\ accepting'[t] = x
      /\ \A u \in Acceptor : u # t => accepting'[u] = accepting[u]
  BY <1>1
<1>3. ASSUME NEW u \in Acceptor PROVE AcceptorFits(u)'
  <2>1. CASE u = t
    BY <1>2, <2>1 DEF AcceptorFits, Listener!Away
  <2>2. CASE u # t
    BY <1>1, <1>2, <2>2 DEF AcceptorFits, Listener!Away
  <2> QED
    BY <2>1, <2>2
<1>4. ASSUME listener.kind = "tcp"
      PROVE  /\ \A u \in Acceptor : TcpFits(u)'
             /\ listener'.scope => \E u \in Acceptor : accepting'[u].place = "waiting"
  <2>1. /\ \A u \in Acceptor : TcpFits(u)
        /\ listener.scope => \E u \in Acceptor : accepting[u].place = "waiting"
    BY <1>4 DEF ListenerInv
  <2>2. ASSUME NEW u \in Acceptor, NEW v \in Acceptor,
               accepting'[u].place \in {"checkpoint", "waiting"},
               accepting'[v].place \in {"checkpoint", "waiting"}
        PROVE  u = v
    <3>1. CASE u # t /\ v # t
      BY <1>2, <2>1, <2>2, <3>1 DEF TcpFits
    <3>2. CASE u = t /\ v # t
      BY <1>2, <1>4, <2>1, <2>2, <3>2 DEF TcpFits
    <3>3. CASE u # t /\ v = t
      BY <1>2, <1>4, <2>1, <2>2, <3>3 DEF TcpFits
    <3> QED
      BY <3>1, <3>2, <3>3
  <2>3. ASSUME NEW u \in Acceptor PROVE TcpFits(u)'
    <3>1. accepting'[u].place \in {"checkpoint", "waiting"} => listener'.guard
      <4>1. CASE u = t
        BY <1>2, <1>4, <4>1
      <4>2. CASE u # t
        BY <1>2, <1>4, <2>1, <4>2 DEF TcpFits
      <4> QED
        BY <4>1, <4>2
    <3>2. accepting'[u].future = "pending" => listener'.scope /\ ~listener'.closed
      <4>1. CASE u = t
        BY <1>2, <1>4, <4>1
      <4>2. CASE u # t
        <5>1. HAVE accepting'[u].future = "pending"
        <5>2. accepting[u].future = "pending" /\ accepting[u].place = "waiting"
          BY <1>1, <1>2, <4>2, <5>1 DEF AcceptorFits
        <5>3. listener.scope /\ ~listener.closed /\ listener.guard
          BY <2>1, <5>2 DEF TcpFits
        <5>4. accepting[t].place \notin {"checkpoint", "waiting"}
          BY <2>1, <4>2, <5>2 DEF TcpFits
        <5> QED
          BY <1>4, <5>3, <5>4
      <4> QED
        BY <4>1, <4>2
    <3>3. listener'.closed /\ listener'.open => accepting'[u].place # "checkpoint"
      BY <1>2, <1>4, <2>1 DEF TcpFits
    <3> QED
      BY <2>2, <3>1, <3>2, <3>3 DEF TcpFits
  <2>4. ASSUME listener'.scope PROVE \E u \in Acceptor : accepting'[u].place = "waiting"
    <3>1. CASE x.place = "waiting"
      BY <1>2, <3>1
    <3>2. CASE listener.scope /\ accepting[t].place # "waiting"
      <4>1. PICK u \in Acceptor : accepting[u].place = "waiting"
        BY <2>1, <3>2
      <4>2. u # t
        BY <3>2, <4>1
      <4> QED
        BY <1>2, <4>1, <4>2
    <3> QED
      BY <1>4, <2>4, <3>1, <3>2
  <2> QED
    BY <2>3, <2>4
<1> QED
  BY <1>2, <1>3, <1>4 DEF ListenerInv

LEMMA AcceptTypes ==
  ASSUME ListenerInv, NEW t \in Acceptor
  PROVE  /\ listener \in ListenerState /\ accepting \in [Acceptor -> AcceptPlace]
         /\ accepting[t] \in AcceptPlace /\ fates \in FatesState
         /\ listener.kind \in {"tcp", "unix"}
         /\ AcceptorFits(t) /\ (listener.kind = "tcp" => TcpFits(t))
         /\ Listener!Away \in AcceptPlace /\ Listener!Away.place = "away"
         /\ Listener!Away.future = "none" /\ ~Listener!Away.cut
         /\ listener.backlog \in Nat /\ fates.came \in Nat /\ fates.handed \in Nat
         /\ fates.dropped \in Nat
         /\ fates.came = listener.backlog + fates.handed + fates.dropped + Cardinality(Holders)
         /\ fates.dropped > 0 => listener.everCut
         /\ t \in Holders <=> accepting[t].place = "connecting" \/ accepting[t].future = "connection"
<1>1. listener \in ListenerState /\ accepting \in [Acceptor -> AcceptPlace] /\ fates \in FatesState
  BY DEF ListenerInv
<1>2. /\ listener.backlog \in Nat /\ fates.came \in Nat /\ fates.handed \in Nat
      /\ fates.dropped \in Nat /\ listener.kind \in {"tcp", "unix"}
  BY <1>1 DEF ListenerState, FatesState
<1>3. Listener!Away \in AcceptPlace /\ Listener!Away.place = "away"
      /\ Listener!Away.future = "none" /\ ~Listener!Away.cut
  BY DEF Listener!Away, AcceptPlace, Futures
<1> QED
  BY <1>1, <1>2, <1>3 DEF ListenerInv, Holders

-----------------------------------------------------------------------------
LEMMA StartAcceptStep ==
  ASSUME ListenerInv, NEW t \in Acceptor, Listener!StartAccept(t)
  PROVE  ListenerInv'
<1> DEFINE x == [accepting[t] EXCEPT !.place = "checkpoint"]
           gd == listener.guard \/ listener.kind = "tcp"
<1>1. /\ accepting[t] = Listener!Away /\ fates' = fates
      /\ listener.kind = "tcp" => ~listener.closed /\ ~listener.guard
  BY DEF Listener!StartAccept
<1>2. x \in AcceptPlace /\ x.place = "checkpoint" /\ x.future = "none" /\ ~x.cut
  <2>1. accepting[t] \in AcceptPlace /\ accepting[t].future = "none" /\ ~accepting[t].cut
    BY <1>1, AcceptTypes
  <2> QED
    BY <2>1 DEF AcceptPlace
<1>3. accepting' = [accepting EXCEPT ![t] = x] /\ listener' = [listener EXCEPT !.guard = gd]
  BY DEF Listener!StartAccept
<1>4. gd \in BOOLEAN /\ (listener.kind = "tcp" => gd)
  BY AcceptTypes DEF ListenerState
<1> HIDE DEF x, gd
<1>5. /\ listener' \in ListenerState /\ listener'.kind = listener.kind
      /\ listener'.closed = listener.closed /\ listener'.open = listener.open
      /\ listener'.everCut = listener.everCut /\ listener'.guard = gd
      /\ listener'.scope = listener.scope /\ listener'.backlog = listener.backlog
  BY <1>3, <1>4, AcceptTypes DEF ListenerState
<1>6. /\ \A u \in Acceptor : u # t => accepting'[u] = accepting[u]
      /\ accepting'[t] = x
  BY <1>3, AcceptTypes
<1>7. t \notin Holders /\ t \notin Holders'
  <2>1. accepting[t].place = "away" /\ accepting[t].future = "none"
    BY <1>1, AcceptTypes
  <2> QED
    BY <1>2, <1>6, <2>1 DEF Holders
<1>8. Cardinality(Holders') = Cardinality(Holders)
  BY <1>6, <1>7, OneHolder
<1>9. fates'.came = listener'.backlog + fates'.handed + fates'.dropped + Cardinality(Holders')
  BY <1>1, <1>5, <1>8, AcceptTypes
<1> QED
  BY <1>1, <1>2, <1>3, <1>4, <1>5, <1>9, AcceptTypes, AcceptorStep

\* A task that leaves accept() with what was dropped or handed on
LEMMA QuitsStep ==
  ASSUME ListenerInv, NEW t \in Acceptor, Listener!Quits(t),
         accepting[t].place \in {"checkpoint", "waiting"} \/ listener.kind = "unix",
         \/ accepting[t].future # "connection" /\ fates' = fates
         \/ /\ accepting[t].future = "connection" /\ accepting[t].cut
            /\ fates' = [fates EXCEPT !.dropped = fates.dropped + 1],
         accepting[t].place # "connecting"
  PROVE  ListenerInv'
<1> DEFINE x == Listener!Away
<1>1. accepting' = [accepting EXCEPT ![t] = x]
      /\ listener' = [listener EXCEPT !.guard = FALSE, !.scope = FALSE]
  BY DEF Listener!Quits
<1>2. x \in AcceptPlace /\ x.place = "away" /\ x.future = "none" /\ ~x.cut /\ x = Listener!Away
  BY AcceptTypes
<1> HIDE DEF x
<1>3. /\ listener' \in ListenerState /\ listener'.kind = listener.kind
      /\ listener'.closed = listener.closed /\ listener'.open = listener.open
      /\ listener'.everCut = listener.everCut /\ ~listener'.guard
      /\ ~listener'.scope /\ listener'.backlog = listener.backlog
  BY <1>1, AcceptTypes DEF ListenerState
<1>4. (\A u \in Acceptor : u # t => accepting'[u] = accepting[u]) /\ accepting'[t] = x
  BY <1>1, AcceptTypes
<1>5. t \notin Holders'
  BY <1>2, <1>4 DEF Holders
<1>6. CASE accepting[t].future # "connection" /\ fates' = fates
  <2>1. t \notin Holders
    BY <1>6, AcceptTypes
  <2>2. Cardinality(Holders') = Cardinality(Holders)
    BY <1>4, <1>5, <2>1, OneHolder
  <2>3. fates'.came = listener'.backlog + fates'.handed + fates'.dropped + Cardinality(Holders')
    BY <1>3, <1>6, <2>2, AcceptTypes
  <2> QED
    BY <1>1, <1>2, <1>3, <1>6, <2>3, AcceptTypes, AcceptorStep
<1>7. CASE /\ accepting[t].future = "connection" /\ accepting[t].cut
           /\ fates' = [fates EXCEPT !.dropped = fates.dropped + 1]
  <2> DEFINE n == fates.dropped + 1
  <2>1. n \in Nat /\ fates' = [fates EXCEPT !.dropped = n] /\ listener.everCut
    BY <1>7, AcceptTypes DEF AcceptorFits
  <2>2. t \in Holders
    BY <1>7, AcceptTypes
  <2>3. Cardinality(Holders') = Cardinality(Holders) - 1 /\ Cardinality(Holders) \in Nat
    BY <1>4, <1>5, <2>2, OneHolder
  <2> HIDE DEF n
  <2>4. /\ fates' \in FatesState /\ fates'.came = fates.came /\ fates'.handed = fates.handed
        /\ fates'.dropped = n
    BY <2>1, AcceptTypes DEF FatesState
  <2>5. fates'.came = listener'.backlog + fates'.handed + fates'.dropped + Cardinality(Holders')
    BY <1>3, <2>3, <2>4, AcceptTypes DEF n
  <2> QED
    BY <1>1, <1>2, <1>3, <2>1, <2>4, <2>5, AcceptTypes, AcceptorStep
<1> QED
  BY <1>6, <1>7

\* A task that takes a connection from the backlog, or finds none
LEMMA TcpAcceptsStep ==
  ASSUME ListenerInv, NEW t \in Acceptor, Listener!TcpAccepts(t)
  PROVE  ListenerInv'
<1>1. /\ listener.kind = "tcp" /\ accepting[t].place = "checkpoint" /\ ~accepting[t].cut
      /\ accepting[t].future = "none" /\ fates' = fates /\ t \notin Holders /\ listener.guard
      /\ listener.open => ~listener.closed
  BY AcceptTypes DEF Listener!TcpAccepts, AcceptorFits, TcpFits
<1>2. CASE ~listener.open /\ Listener!Quits(t)
  BY <1>1, <1>2, QuitsStep
<1>3. CASE /\ listener.open /\ listener.backlog > 0
           /\ accepting' = [accepting EXCEPT ![t].place = "connecting"]
           /\ listener' = [listener EXCEPT !.backlog = listener.backlog - 1, !.guard = FALSE]
  <2> DEFINE x == [accepting[t] EXCEPT !.place = "connecting"]
             n == listener.backlog - 1
  <2>1. x \in AcceptPlace /\ x.place = "connecting" /\ x.future = "none" /\ ~x.cut
    BY <1>1, AcceptTypes DEF AcceptPlace
  <2>2. accepting' = [accepting EXCEPT ![t] = x] /\ n \in Nat
        /\ listener' = [listener EXCEPT !.backlog = n, !.guard = FALSE]
    BY <1>3, AcceptTypes
  <2> HIDE DEF x, n
  <2>3. /\ listener' \in ListenerState /\ listener'.kind = listener.kind
        /\ listener'.closed = listener.closed /\ listener'.open = listener.open
        /\ listener'.everCut = listener.everCut
        /\ listener'.scope = listener.scope /\ listener'.backlog = n
    BY <2>2, AcceptTypes DEF ListenerState
  <2>4. (\A u \in Acceptor : u # t => accepting'[u] = accepting[u]) /\ accepting'[t] = x
    BY <2>2, AcceptTypes
  <2>5. Cardinality(Holders') = Cardinality(Holders) + 1 /\ Cardinality(Holders) \in Nat
    <3>1. t \in Holders'
      BY <2>1, <2>4 DEF Holders
    <3> QED
      BY <1>1, <2>4, <3>1, OneHolder
  <2>6. fates'.came = listener'.backlog + fates'.handed + fates'.dropped + Cardinality(Holders')
    BY <1>1, <1>3, <2>3, <2>5, AcceptTypes DEF n
  <2> QED
    BY <1>1, <2>1, <2>2, <2>3, <2>6, AcceptTypes, AcceptorStep
<1>4. CASE /\ listener.open /\ listener.backlog = 0
           /\ accepting' = [accepting EXCEPT ![t].place = "waiting", ![t].future = "pending"]
           /\ listener' = [listener EXCEPT !.scope = TRUE]
  <2> DEFINE x == [accepting[t] EXCEPT !.place = "waiting", !.future = "pending"]
  <2>1. x \in AcceptPlace /\ x.place = "waiting" /\ x.future = "pending" /\ ~x.cut
    BY <1>1, AcceptTypes DEF AcceptPlace, Futures
  <2>2. accepting' = [accepting EXCEPT ![t] = x]
    BY <1>4, AcceptTypes
  <2> HIDE DEF x
  <2>3. /\ listener' \in ListenerState /\ listener'.kind = listener.kind
        /\ listener'.closed = listener.closed /\ listener'.open = listener.open
        /\ listener'.everCut = listener.everCut /\ listener'.guard = listener.guard
        /\ listener'.scope /\ listener'.backlog = listener.backlog
    BY <1>4, AcceptTypes DEF ListenerState
  <2>4. (\A u \in Acceptor : u # t => accepting'[u] = accepting[u]) /\ accepting'[t] = x
    BY <2>2, AcceptTypes
  <2>5. Cardinality(Holders') = Cardinality(Holders)
    <3>1. t \notin Holders'
      BY <2>1, <2>4 DEF Holders
    <3> QED
      BY <1>1, <2>4, <3>1, OneHolder
  <2>6. fates'.came = listener'.backlog + fates'.handed + fates'.dropped + Cardinality(Holders')
    BY <1>1, <2>3, <2>5, AcceptTypes
  <2> QED
    BY <1>1, <1>4, <2>1, <2>2, <2>3, <2>6, AcceptTypes, AcceptorStep, ZenonT(40)
<1> QED
  BY <1>2, <1>3, <1>4 DEF Listener!TcpAccepts

LEMMA UnixAcceptsStep ==
  ASSUME ListenerInv, NEW t \in Acceptor, Listener!UnixAccepts(t)
  PROVE  ListenerInv'
<1>1. /\ listener.kind = "unix" /\ ~accepting[t].cut
      /\ accepting[t].place = "checkpoint" \/ accepting[t].future = "ready"
  BY DEF Listener!UnixAccepts
<1>2. /\ accepting[t].place # "connecting" /\ accepting[t].future # "connection" /\ t \notin Holders
  BY <1>1, AcceptTypes DEF AcceptorFits
<1> DEFINE y == Listener!Away
<1>3. /\ y \in AcceptPlace /\ y.place = "away" /\ y.future = "none" /\ ~y.cut /\ y = Listener!Away
  BY AcceptTypes
<1> HIDE DEF y
<1>4. CASE accepting' = [accepting EXCEPT ![t] = y] /\ listener' = listener /\ fates' = fates
  <2>1. (\A u \in Acceptor : u # t => accepting'[u] = accepting[u]) /\ accepting'[t] = y
    BY <1>4, AcceptTypes
  <2>2. Cardinality(Holders') = Cardinality(Holders)
    <3>1. t \notin Holders'
      BY <1>3, <2>1 DEF Holders
    <3> QED
      BY <1>2, <2>1, <3>1, OneHolder
  <2>3. fates'.came = listener'.backlog + fates'.handed + fates'.dropped + Cardinality(Holders')
    BY <1>4, <2>2, AcceptTypes
  <2> QED
    BY <1>1, <1>3, <1>4, <2>3, AcceptTypes, AcceptorStep
<1>5. CASE ~listener.open /\ Listener!Quits(t) /\ fates' = fates
  BY <1>1, <1>2, <1>5, QuitsStep
<1>6. CASE /\ listener.open /\ listener.backlog > 0
           /\ accepting' = [accepting EXCEPT ![t] = y]
           /\ listener' = [listener EXCEPT !.backlog = listener.backlog - 1, !.guard = FALSE]
           /\ fates' = [fates EXCEPT !.handed = fates.handed + 1]
  <2> DEFINE n == listener.backlog - 1
             m == fates.handed + 1
  <2>1. /\ n \in Nat /\ m \in Nat /\ fates' = [fates EXCEPT !.handed = m]
        /\ listener' = [listener EXCEPT !.backlog = n, !.guard = FALSE]
    BY <1>6, AcceptTypes
  <2> HIDE DEF n, m
  <2>2. /\ listener' \in ListenerState /\ listener'.kind = listener.kind
        /\ listener'.closed = listener.closed /\ listener'.open = listener.open
        /\ listener'.everCut = listener.everCut /\ listener'.backlog = n
    BY <2>1, AcceptTypes DEF ListenerState
  <2>3. /\ fates' \in FatesState /\ fates'.came = fates.came /\ fates'.handed = m
        /\ fates'.dropped = fates.dropped
    BY <2>1, AcceptTypes DEF FatesState
  <2>4. (\A u \in Acceptor : u # t => accepting'[u] = accepting[u]) /\ accepting'[t] = y
    BY <1>6, AcceptTypes
  <2>5. Cardinality(Holders') = Cardinality(Holders) /\ Cardinality(Holders) \in Nat
    <3>1. t \notin Holders'
      BY <1>3, <2>4 DEF Holders
    <3> QED
      BY <1>2, <2>4, <3>1, OneHolder
  <2>6. fates'.came = listener'.backlog + fates'.handed + fates'.dropped + Cardinality(Holders')
    BY <1>6, <2>2, <2>3, <2>5, AcceptTypes DEF n, m
  <2> QED
    BY <1>1, <1>3, <1>6, <2>2, <2>3, <2>6, AcceptTypes, AcceptorStep
<1>7. CASE /\ accepting' = [accepting EXCEPT ![t].place = "waiting", ![t].future = "pending"]
           /\ listener' = [listener EXCEPT !.guard = TRUE] /\ fates' = fates
  <2> DEFINE x == [accepting[t] EXCEPT !.place = "waiting", !.future = "pending"]
  <2>1. x \in AcceptPlace /\ x.place = "waiting" /\ x.future = "pending" /\ ~x.cut
    BY <1>1, AcceptTypes DEF AcceptPlace, Futures
  <2>2. accepting' = [accepting EXCEPT ![t] = x]
    BY <1>7, AcceptTypes
  <2> HIDE DEF x
  <2>3. /\ listener' \in ListenerState /\ listener'.kind = listener.kind
        /\ listener'.closed = listener.closed /\ listener'.open = listener.open
        /\ listener'.everCut = listener.everCut /\ listener'.backlog = listener.backlog
    BY <1>7, AcceptTypes DEF ListenerState
  <2>4. (\A u \in Acceptor : u # t => accepting'[u] = accepting[u]) /\ accepting'[t] = x
    BY <2>2, AcceptTypes
  <2>5. Cardinality(Holders') = Cardinality(Holders)
    <3>1. t \notin Holders'
      BY <2>1, <2>4 DEF Holders
    <3> QED
      BY <1>2, <2>4, <3>1, OneHolder
  <2>6. fates'.came = listener'.backlog + fates'.handed + fates'.dropped + Cardinality(Holders')
    BY <1>7, <2>3, <2>5, AcceptTypes
  <2> QED
    BY <1>1, <1>7, <2>1, <2>2, <2>3, <2>6, AcceptTypes, AcceptorStep
<1> QED
  BY <1>4, <1>5, <1>6, <1>7 DEF Listener!UnixAccepts, y

LEMMA ReadableStep ==
  ASSUME ListenerInv, NEW t \in Acceptor, Listener!Readable(t)
  PROVE  ListenerInv'
<1>1. listener.open /\ listener.backlog > 0
  BY DEF Listener!Readable
<1>2. CASE /\ listener.kind = "unix" /\ accepting[t].future = "pending"
           /\ accepting' = [accepting EXCEPT ![t].future = "ready"]
           /\ listener' = listener /\ fates' = fates
  <2> DEFINE x == [accepting[t] EXCEPT !.future = "ready"]
  <2>1. x \in AcceptPlace /\ x.place = "waiting" /\ x.future = "ready" /\ x.cut = accepting[t].cut
    BY <1>2, AcceptTypes DEF AcceptPlace, Futures, AcceptorFits
  <2>2. accepting' = [accepting EXCEPT ![t] = x]
    BY <1>2, AcceptTypes
  <2> HIDE DEF x
  <2>3. (\A u \in Acceptor : u # t => accepting'[u] = accepting[u]) /\ accepting'[t] = x
    BY <2>2, AcceptTypes
  <2>4. Cardinality(Holders') = Cardinality(Holders)
    <3>1. t \notin Holders' /\ t \notin Holders
      BY <1>2, <2>1, <2>3, AcceptTypes DEF Holders, AcceptorFits
    <3> QED
      BY <2>3, <3>1, OneHolder
  <2>5. fates'.came = listener'.backlog + fates'.handed + fates'.dropped + Cardinality(Holders')
    BY <1>2, <2>4, AcceptTypes
  <2> QED
    BY <1>2, <2>1, <2>2, <2>5, AcceptTypes, AcceptorStep DEF AcceptorFits
<1> DEFINE n == listener.backlog - 1
<1>3. n \in Nat
  BY <1>1, AcceptTypes
<1> HIDE DEF n
<1>4. ASSUME listener' = [listener EXCEPT !.backlog = n]
      PROVE  /\ listener' \in ListenerState /\ listener'.kind = listener.kind
             /\ listener'.closed = listener.closed /\ listener'.open = listener.open
             /\ listener'.everCut = listener.everCut /\ listener'.guard = listener.guard
             /\ listener'.scope = listener.scope /\ listener'.backlog = n
  BY <1>3, <1>4, AcceptTypes DEF ListenerState
<1>5. CASE /\ listener.kind = "tcp" /\ accepting[t].future = "pending"
           /\ listener' = [listener EXCEPT !.backlog = n]
           /\ accepting' = [accepting EXCEPT ![t].future = "connection"]
           /\ fates' = fates
  <2> DEFINE x == [accepting[t] EXCEPT !.future = "connection"]
  <2>1. x \in AcceptPlace /\ x.place = "waiting" /\ x.future = "connection"
        /\ x.cut = accepting[t].cut /\ accepting[t].place = "waiting"
    BY <1>5, AcceptTypes DEF AcceptPlace, Futures, AcceptorFits
  <2>2. accepting' = [accepting EXCEPT ![t] = x]
    BY <1>5, AcceptTypes
  <2> HIDE DEF x
  <2>3. (\A u \in Acceptor : u # t => accepting'[u] = accepting[u]) /\ accepting'[t] = x
    BY <2>2, AcceptTypes
  <2>4. Cardinality(Holders') = Cardinality(Holders) + 1 /\ Cardinality(Holders) \in Nat
    <3>1. t \in Holders' /\ t \notin Holders
      BY <1>5, <2>1, <2>3, AcceptTypes DEF Holders
    <3> QED
      BY <2>3, <3>1, OneHolder
  <2>5. fates'.came = listener'.backlog + fates'.handed + fates'.dropped + Cardinality(Holders')
    BY <1>4, <1>5, <2>4, AcceptTypes DEF n
  <2> QED
    BY <1>4, <1>5, <2>1, <2>2, <2>5, AcceptTypes, AcceptorStep DEF AcceptorFits, TcpFits
<1>6. CASE /\ listener.kind = "tcp" /\ accepting[t].future = "cancelled"
           /\ listener' = [listener EXCEPT !.backlog = n]
           /\ accepting' = accepting
           /\ fates' = [fates EXCEPT !.dropped = fates.dropped + 1]
  <2> DEFINE x == accepting[t]
             m == fates.dropped + 1
  <2>1. /\ x \in AcceptPlace /\ accepting' = [accepting EXCEPT ![t] = x]
        /\ m \in Nat /\ fates' = [fates EXCEPT !.dropped = m]
        /\ x.place = "waiting" /\ listener.everCut
    BY <1>6, AcceptTypes DEF AcceptorFits
  <2> HIDE DEF m
  <2>2. /\ fates' \in FatesState /\ fates'.came = fates.came /\ fates'.handed = fates.handed
        /\ fates'.dropped = m
    BY <2>1, AcceptTypes DEF FatesState
  <2>3. Cardinality(Holders') = Cardinality(Holders) /\ Cardinality(Holders) \in Nat
    BY <1>6, OneHolder DEF Holders
  <2>4. fates'.came = listener'.backlog + fates'.handed + fates'.dropped + Cardinality(Holders')
    BY <1>4, <1>6, <2>2, <2>3, AcceptTypes DEF n, m
  <2> QED
    <3>1. /\ listener.guard /\ (listener.closed /\ listener.open => x.place # "checkpoint")
          /\ x.future = "cancelled"
      BY <1>6, <2>1, AcceptTypes DEF TcpFits
    <3>2. /\ listener' \in ListenerState /\ listener'.kind = "tcp"
          /\ listener'.closed = listener.closed /\ listener'.open = listener.open
          /\ listener'.everCut /\ listener'.guard /\ listener'.scope = listener.scope
          /\ listener'.guard = listener.guard
      BY <1>4, <1>6, <2>1, <3>1
    <3>3. accepting[t].place = "waiting"
      BY <2>1
    <3> HIDE DEF x
    <3>5. /\ x.future # "none" => x.place = "waiting"
          /\ x.place = "away" => x = Listener!Away
      BY <2>1
    <3>6. /\ x.cut \/ x.future = "cancelled" => listener'.everCut
          /\ listener.kind = "unix" => x.place # "connecting" /\ x.future # "connection"
          /\ listener.everCut => listener'.everCut
          /\ fates'.dropped > 0 => listener'.everCut
      BY <1>6, <3>2
    <3>7. /\ x.place \in {"checkpoint", "waiting"} =>
                /\ listener'.guard
                /\ accepting[t].place \in {"checkpoint", "waiting"} \/ ~listener.guard
          /\ x.future = "pending" => listener'.scope /\ ~listener.closed
          /\ listener.closed /\ listener.open => x.place # "checkpoint"
          /\ \/ accepting[t].place \in {"checkpoint", "waiting"}
             \/ listener'.guard = listener.guard /\ listener'.scope = listener.scope
             \/ ~listener.guard /\ listener'.scope = listener.scope
          /\ listener'.scope => x.place = "waiting"
                \/ (listener.scope /\ accepting[t].place # "waiting")
      BY <2>1, <3>1, <3>2, <3>3
    <3>8. listener'.kind = listener.kind /\ accepting' = [accepting EXCEPT ![t] = x] /\ x \in AcceptPlace
      BY <1>6, <2>1, <3>2
    <3> QED
      BY <2>2, <2>4, <3>2, <3>5, <3>6, <3>7, <3>8, AcceptorStep
<1> QED
  BY <1>2, <1>5, <1>6 DEF Listener!Readable, n

LEMMA TcpWakesStep ==
  ASSUME ListenerInv, NEW t \in Acceptor, Listener!TcpWakes(t)
  PROVE  ListenerInv'
<1>1. listener.kind = "tcp" /\ accepting[t].place = "waiting"
  BY DEF Listener!TcpWakes
<1>2. CASE accepting[t].future = "connection" /\ ~accepting[t].cut
  <2>1. /\ accepting' = [accepting EXCEPT ![t].place = "connecting", ![t].future = "none"]
        /\ listener' = [listener EXCEPT !.guard = FALSE, !.scope = FALSE]
        /\ fates' = fates
    BY <1>2 DEF Listener!TcpWakes
  <2> DEFINE x == [accepting[t] EXCEPT !.place = "connecting", !.future = "none"]
  <2>2. x \in AcceptPlace /\ x.place = "connecting" /\ x.future = "none" /\ ~x.cut
    BY <1>2, AcceptTypes DEF AcceptPlace, Futures
  <2>3. accepting' = [accepting EXCEPT ![t] = x]
    BY <2>1, AcceptTypes
  <2> HIDE DEF x
  <2>4. /\ listener' \in ListenerState /\ listener'.kind = listener.kind
        /\ listener'.closed = listener.closed /\ listener'.open = listener.open
        /\ listener'.everCut = listener.everCut /\ ~listener'.guard
        /\ ~listener'.scope /\ listener'.backlog = listener.backlog
    BY <2>1, AcceptTypes DEF ListenerState
  <2>5. (\A u \in Acceptor : u # t => accepting'[u] = accepting[u]) /\ accepting'[t] = x
    BY <2>3, AcceptTypes
  <2>6. Cardinality(Holders') = Cardinality(Holders)
    <3>1. t \in Holders' /\ t \in Holders
      BY <1>2, <2>2, <2>5, AcceptTypes DEF Holders
    <3> QED
      BY <2>5, <3>1, OneHolder
  <2>7. fates'.came = listener'.backlog + fates'.handed + fates'.dropped + Cardinality(Holders')
    BY <2>1, <2>4, <2>6, AcceptTypes
  <2>8. fates' \in FatesState /\ (fates'.dropped > 0 => listener'.everCut)
    BY <2>1, <2>4, AcceptTypes
  <2> QED
    BY <1>1, <2>2, <2>3, <2>4, <2>7, <2>8, AcceptorStep
<1>3. CASE ~(accepting[t].future = "connection" /\ ~accepting[t].cut)
  <2>1. /\ Listener!Quits(t)
        /\ fates' = IF accepting[t].future = "connection"
                    THEN [fates EXCEPT !.dropped = fates.dropped + 1] ELSE fates
    BY <1>3 DEF Listener!TcpWakes
  <2> QED
    BY <1>1, <1>3, <2>1, QuitsStep
<1> QED
  BY <1>2, <1>3

LEMMA ConnectedStep ==
  ASSUME ListenerInv, NEW t \in Acceptor, Listener!Connected(t)
  PROVE  ListenerInv'
<1> DEFINE x == Listener!Away
<1>1. accepting[t].place = "connecting" /\ accepting' = [accepting EXCEPT ![t] = x] /\ listener' = listener
  BY DEF Listener!Connected
<1>2. x \in AcceptPlace /\ x.place = "away" /\ x.future = "none" /\ ~x.cut /\ x = Listener!Away
  BY AcceptTypes
<1> HIDE DEF x
<1>3. (\A u \in Acceptor : u # t => accepting'[u] = accepting[u]) /\ accepting'[t] = x
  BY <1>1, AcceptTypes
<1>4. Cardinality(Holders') = Cardinality(Holders) - 1 /\ Cardinality(Holders) \in Nat
  <2>1. t \in Holders /\ t \notin Holders'
    BY <1>1, <1>2, <1>3, AcceptTypes DEF Holders
  <2> QED
    BY <1>3, <2>1, OneHolder
<1>5. PICK h \in Nat, n \in Nat :
        /\ fates' = [fates EXCEPT !.handed = h, !.dropped = n]
        /\ h + n = fates.handed + fates.dropped + 1
        /\ n > 0 => listener.everCut
  <2>1. CASE accepting[t].cut
    <3>1. /\ fates' = [fates EXCEPT !.dropped = fates.dropped + 1]
          /\ fates.dropped + 1 \in Nat /\ listener.everCut
      BY <2>1, AcceptTypes DEF Listener!Connected, AcceptorFits
    <3>2. fates' = [fates EXCEPT !.handed = fates.handed, !.dropped = fates.dropped + 1]
      BY <3>1, AcceptTypes DEF FatesState
    <3>3. fates.handed + (fates.dropped + 1) = fates.handed + fates.dropped + 1
      BY AcceptTypes
    <3> QED
      BY <3>1, <3>2, <3>3, AcceptTypes
  <2>2. CASE ~accepting[t].cut
    <3>1. fates' = [fates EXCEPT !.handed = fates.handed + 1] /\ fates.handed + 1 \in Nat
      BY <2>2, AcceptTypes DEF Listener!Connected
    <3>2. fates' = [fates EXCEPT !.handed = fates.handed + 1, !.dropped = fates.dropped]
      BY <3>1, AcceptTypes DEF FatesState
    <3>3. fates.handed + 1 + fates.dropped = fates.handed + fates.dropped + 1
      BY AcceptTypes
    <3> QED
      BY <3>1, <3>2, <3>3, AcceptTypes
  <2> QED
    BY <2>1, <2>2
<1>6. /\ fates' \in FatesState /\ fates'.came = fates.came /\ fates'.handed = h
      /\ fates'.dropped = n
  BY <1>5, AcceptTypes DEF FatesState
<1>7. fates'.came = listener'.backlog + fates'.handed + fates'.dropped + Cardinality(Holders')
  BY <1>1, <1>4, <1>5, <1>6, AcceptTypes
<1> QED
  BY <1>1, <1>2, <1>5, <1>6, <1>7, AcceptTypes, AcceptorStep

LEMMA AcceptAbortedStep ==
  ASSUME ListenerInv, NEW t \in Acceptor, Listener!AcceptAborted(t)
  PROVE  ListenerInv'
<1>1. /\ accepting[t].place \in {"checkpoint", "waiting"} /\ fates' = fates
      /\ accepting[t].place = "checkpoint" \/ listener.kind = "unix"
      /\ accepting[t].place = "checkpoint" => accepting[t].future = "none"
  BY AcceptTypes DEF Listener!AcceptAborted, AcceptorFits
<1>2. accepting[t].future # "connection" /\ t \notin Holders
  BY <1>1, AcceptTypes DEF AcceptorFits
<1>3. CASE Listener!Quits(t)
  BY <1>1, <1>2, <1>3, QuitsStep
<1> DEFINE x == Listener!Away
<1>4. CASE listener.kind = "unix" /\ accepting' = [accepting EXCEPT ![t] = x] /\ listener' = listener
  <2>1. x \in AcceptPlace /\ x.place = "away" /\ x.future = "none" /\ ~x.cut /\ x = Listener!Away
    BY AcceptTypes
  <2> HIDE DEF x
  <2>2. (\A u \in Acceptor : u # t => accepting'[u] = accepting[u]) /\ accepting'[t] = x
    BY <1>4, AcceptTypes
  <2>3. Cardinality(Holders') = Cardinality(Holders)
    <3>1. t \notin Holders'
      BY <2>1, <2>2 DEF Holders
    <3> QED
      BY <1>2, <2>2, <3>1, OneHolder
  <2>4. fates'.came = listener'.backlog + fates'.handed + fates'.dropped + Cardinality(Holders')
    BY <1>1, <1>4, <2>3, AcceptTypes
  <2> QED
    BY <1>1, <1>4, <2>1, <2>4, AcceptTypes, AcceptorStep
<1> QED
  BY <1>3, <1>4, AcceptTypes DEF Listener!AcceptAborted

LEMMA CancelAcceptStep ==
  ASSUME ListenerInv, NEW t \in Acceptor, Listener!CancelAccept(t)
  PROVE  ListenerInv'
<1> DEFINE fu == IF accepting[t].future = "pending" THEN "cancelled" ELSE accepting[t].future
           x == [accepting[t] EXCEPT !.cut = TRUE, !.future = fu]
<1>1. /\ accepting[t].place # "away" /\ fates' = fates
      /\ accepting' = [accepting EXCEPT ![t] = x]
      /\ listener' = [listener EXCEPT !.everCut = TRUE]
  BY AcceptTypes DEF Listener!CancelAccept
<1>2. /\ fu \in Futures /\ fu # "pending"
      /\ fu = "connection" <=> accepting[t].future = "connection"
      /\ fu # "none" => accepting[t].future # "none"
  BY AcceptTypes DEF AcceptPlace, Futures
<1> HIDE DEF fu
<1>3. x \in AcceptPlace /\ x.place = accepting[t].place /\ x.future = fu
  BY <1>2, AcceptTypes DEF AcceptPlace
<1> HIDE DEF x
<1>4. /\ listener' \in ListenerState /\ listener'.kind = listener.kind
      /\ listener'.closed = listener.closed /\ listener'.open = listener.open
      /\ listener'.everCut /\ listener'.guard = listener.guard
      /\ listener'.scope = listener.scope /\ listener'.backlog = listener.backlog
  BY <1>1, AcceptTypes DEF ListenerState
<1>5. (\A u \in Acceptor : u # t => accepting'[u] = accepting[u]) /\ accepting'[t] = x
  BY <1>1, AcceptTypes
<1>6. Cardinality(Holders') = Cardinality(Holders)
  <2>1. t \in Holders <=> t \in Holders'
    BY <1>2, <1>3, <1>5, AcceptTypes DEF Holders
  <2> QED
    BY <1>5, <2>1, OneHolder
<1>7. fates'.came = listener'.backlog + fates'.handed + fates'.dropped + Cardinality(Holders')
  BY <1>1, <1>4, <1>6, AcceptTypes
<1> QED
  BY <1>1, <1>2, <1>3, <1>4, <1>7, AcceptTypes, AcceptorStep DEF AcceptorFits, TcpFits

-----------------------------------------------------------------------------
\* aclose() of a TCP listener while a task waits
LEMMA ReleaseStep ==
  ASSUME ListenerInv, listener.kind = "tcp", listener.scope,
         accepting' = [t \in Acceptor |->
                         [accepting[t] EXCEPT !.future = Listener!Released(accepting[t].future)]],
         listener' = [listener EXCEPT !.closed = TRUE], fates' = fates
  PROVE  ListenerInv'
<1>1. listener \in ListenerState /\ accepting \in [Acceptor -> AcceptPlace] /\ fates \in FatesState
  BY DEF ListenerInv
<1>2. /\ listener' \in ListenerState /\ listener'.kind = "tcp" /\ listener'.closed
      /\ listener'.everCut = listener.everCut /\ listener'.guard = listener.guard
      /\ listener'.scope = listener.scope /\ listener'.backlog = listener.backlog
  BY <1>1 DEF ListenerState
<1>3. ASSUME NEW t \in Acceptor
      PROVE  /\ accepting'[t] \in AcceptPlace /\ accepting'[t].place = accepting[t].place
             /\ accepting'[t].cut = accepting[t].cut /\ accepting'[t].future # "pending"
             /\ accepting[t].future # "pending" => accepting'[t] = accepting[t]
             /\ accepting[t].future = "pending" => accepting'[t].future = "released"
  <2> DEFINE fu == Listener!Released(accepting[t].future)
  <2>1. /\ accepting[t] \in AcceptPlace /\ fu \in Futures /\ fu # "pending"
        /\ accepting[t].future # "pending" => fu = accepting[t].future
        /\ accepting[t].future = "pending" => fu = "released"
    BY <1>1 DEF AcceptPlace, Futures, Listener!Released
  <2>2. accepting'[t] = [accepting[t] EXCEPT !.future = fu]
    OBVIOUS
  <2> HIDE DEF fu
  <2> QED
    BY <2>1, <2>2 DEF AcceptPlace
<1>4. accepting' \in [Acceptor -> AcceptPlace]
  BY <1>3
<1>5. Holders' = Holders
  BY <1>3 DEF Holders
<1>6. ASSUME NEW t \in Acceptor PROVE AcceptorFits(t)'
  <2>1. AcceptorFits(t) /\ Listener!Away.place = "away" /\ Listener!Away.future = "none"
    BY DEF ListenerInv, Listener!Away
  <2>2. CASE accepting[t].future = "pending"
    BY <1>2, <1>3, <2>1, <2>2 DEF AcceptorFits
  <2>3. CASE accepting[t].future # "pending"
    BY <1>2, <1>3, <2>1, <2>3 DEF AcceptorFits, Listener!Away
  <2> QED
    BY <2>2, <2>3
<1>7. PICK u \in Acceptor : accepting[u].place = "waiting"
  BY DEF ListenerInv
<1>8. ASSUME NEW t \in Acceptor PROVE TcpFits(t)'
  <2>1. \A v \in Acceptor : TcpFits(v)
    BY DEF ListenerInv
  <2>2. accepting[t].place # "checkpoint"
    BY <1>7, <2>1 DEF TcpFits
  <2> QED
    BY <1>2, <1>3, <2>1, <2>2 DEF TcpFits
<1>9. \E t \in Acceptor : accepting'[t].place = "waiting"
  BY <1>3, <1>7
<1> QED
  BY <1>1, <1>2, <1>4, <1>5, <1>6, <1>8, <1>9 DEF ListenerInv

\* The socket of the listener is closed.
LEMMA ShutStep ==
  ASSUME ListenerInv, NEW cl \in BOOLEAN, listener' = [listener EXCEPT !.closed = cl, !.open = FALSE],
         cl = listener.closed \/ listener.kind = "unix" \/ ~listener.scope,
         accepting' = accepting, fates' = fates
  PROVE  ListenerInv'
<1>1. listener \in ListenerState
  BY DEF ListenerInv
<1>2. /\ listener' \in ListenerState /\ listener'.kind = listener.kind /\ listener'.closed = cl
      /\ ~listener'.open
      /\ listener'.everCut = listener.everCut /\ listener'.guard = listener.guard
      /\ listener'.scope = listener.scope /\ listener'.backlog = listener.backlog
  BY <1>1 DEF ListenerState
<1>3. ASSUME NEW t \in Acceptor PROVE AcceptorFits(t)' /\ (listener.kind = "tcp" => TcpFits(t)')
  <2>1. AcceptorFits(t)'
    BY <1>2 DEF ListenerInv, AcceptorFits, Listener!Away
  <2>2. ASSUME listener.kind = "tcp" PROVE TcpFits(t)'
    <3>1. TcpFits(t)
      BY <2>2 DEF ListenerInv
    <3> QED
      BY <1>2, <2>2, <3>1 DEF TcpFits
  <2> QED
    BY <2>1, <2>2
<1>4. Holders' = Holders
  BY DEF Holders
<1> QED
  BY <1>2, <1>3, <1>4 DEF ListenerInv

LEMMA IncomingStep ==
  ASSUME ListenerInv, Listener!Incoming
  PROVE  ListenerInv'
<1> DEFINE n == listener.backlog + 1
           m == fates.came + 1
<1>1. listener \in ListenerState /\ fates \in FatesState /\ listener.backlog \in Nat /\ fates.came \in Nat
      /\ fates.handed \in Nat /\ fates.dropped \in Nat
  BY DEF ListenerInv, ListenerState, FatesState
<1>2. /\ n \in Nat /\ m \in Nat /\ accepting' = accepting
      /\ listener' = [listener EXCEPT !.backlog = n] /\ fates' = [fates EXCEPT !.came = m]
  BY <1>1 DEF Listener!Incoming
<1> HIDE DEF n, m
<1>3. /\ listener' \in ListenerState /\ listener'.kind = listener.kind
      /\ listener'.closed = listener.closed /\ listener'.open = listener.open
      /\ listener'.everCut = listener.everCut /\ listener'.guard = listener.guard
      /\ listener'.scope = listener.scope /\ listener'.backlog = n
  BY <1>1, <1>2 DEF ListenerState
<1>4. /\ fates' \in FatesState /\ fates'.came = m /\ fates'.handed = fates.handed
      /\ fates'.dropped = fates.dropped
  BY <1>1, <1>2 DEF FatesState
<1>5. Holders' = Holders
  BY <1>2 DEF Holders
<1>6. Cardinality(Holders) \in Nat
  <2>1. IsFiniteSet(Holders)
    BY FS_Subset, ListenerAssumption DEF Holders
  <2> QED
    BY <2>1, FS_CardinalityType
<1>7. fates'.came = listener'.backlog + fates'.handed + fates'.dropped + Cardinality(Holders')
  <2>1. fates.came = listener.backlog + fates.handed + fates.dropped + Cardinality(Holders)
    BY DEF ListenerInv
  <2> QED
    BY <1>1, <1>3, <1>4, <1>5, <1>6, <2>1 DEF n, m
<1>8. ASSUME NEW t \in Acceptor PROVE AcceptorFits(t)' /\ (listener.kind = "tcp" => TcpFits(t)')
  <2>1. AcceptorFits(t)'
    BY <1>2, <1>3 DEF ListenerInv, AcceptorFits, Listener!Away
  <2>2. ASSUME listener.kind = "tcp" PROVE TcpFits(t)'
    <3>1. TcpFits(t)
      BY <2>2 DEF ListenerInv
    <3> QED
      BY <1>2, <1>3, <2>2, <3>1 DEF TcpFits
  <2> QED
    BY <2>1, <2>2
<1> QED
  BY <1>2, <1>3, <1>4, <1>7, <1>8 DEF ListenerInv

LEMMA NextListener == ListenerInv /\ [Listener!ListenerNext]_(Listener!listenerVars) => ListenerInv'
<1> SUFFICES ASSUME ListenerInv, [Listener!ListenerNext]_(Listener!listenerVars) PROVE ListenerInv'
  OBVIOUS
<1>1. ASSUME listener' = listener, accepting' = accepting, fates' = fates PROVE ListenerInv'
  BY <1>1 DEF ListenerInv, AcceptorFits, TcpFits, Holders
<1>2. listener \in ListenerState /\ listener.closed \in BOOLEAN
  BY DEF ListenerInv, ListenerState
<1>3. ASSUME Listener!CloseUnix PROVE ListenerInv'
  BY <1>3, ShutStep DEF Listener!CloseUnix
<1>4. ASSUME NEW cl \in ListenerCloser, Listener!CloseTcp(cl) PROVE ListenerInv'
  <2>1. CASE listener.scope
    BY <1>4, <2>1, ReleaseStep DEF Listener!CloseTcp
  <2>2. CASE ~listener.scope
    BY <1>4, <2>2, ShutStep DEF Listener!CloseTcp
  <2> QED
    BY <2>1, <2>2
<1>5. ASSUME NEW cl \in ListenerCloser, Listener!CloseTcpEnds(cl) PROVE ListenerInv'
  <2>1. accepting' = accepting /\ fates' = fates
        /\ (listener' = listener \/ listener' = [listener EXCEPT !.open = FALSE])
    BY <1>5 DEF Listener!CloseTcpEnds
  <2>2. CASE listener' = listener
    BY <1>1, <2>1, <2>2
  <2>3. CASE listener' = [listener EXCEPT !.open = FALSE]
    <3>1. listener' = [listener EXCEPT !.closed = listener.closed, !.open = FALSE]
      BY <1>2, <2>3 DEF ListenerState
    <3> QED
      BY <1>2, <2>1, <3>1, ShutStep
  <2> QED
    BY <2>1, <2>2, <2>3
<1> QED
  BY <1>1, <1>3, <1>4, <1>5, IncomingStep, StartAcceptStep, TcpAcceptsStep, UnixAcceptsStep,
     ReadableStep, TcpWakesStep, ConnectedStep, AcceptAbortedStep, CancelAcceptStep
     DEF Listener!ListenerNext, Listener!listenerVars

LEMMA ListenerHolds == ListenerInv => Listener!ConnectionsKept
<1> SUFFICES ASSUME ListenerInv PROVE Listener!ConnectionsKept
  OBVIOUS
<1>1. ASSUME listener.kind = "tcp", listener.closed, NEW t \in Acceptor
      PROVE  accepting[t].future # "pending"
  BY <1>1 DEF ListenerInv, TcpFits
<1>2. /\ fates.dropped > 0 => listener.everCut
      /\ fates.came = listener.backlog + fates.handed + fates.dropped + Cardinality(Holders)
  BY DEF ListenerInv
<1>3. Listener!Cardinality(Holders) = Cardinality(Holders)
  BY DEF Listener!Cardinality, Listener!IsFiniteSet, Cardinality, IsFiniteSet
<1>4. fates.came = listener.backlog + fates.handed + fates.dropped + Listener!Cardinality(Holders)
  BY <1>2, <1>3
<1> QED
  BY <1>1, <1>2, <1>4, Zenon DEF Listener!ConnectionsKept, Holders

-----------------------------------------------------------------------------
(* TLSStream: the records of either direction, and where they are.           *)

tls == a
tlsAt == b
net == c
past == d

USE DEF tls, tlsAt, net, past

Record == [kind : {"hello", "data", "notify"}, n : Nat]
TlsState ==
  [compatible : BOOLEAN, state : {"new", "open", "over"}, bio : Seq(Record), eof : BOOLEAN,
   made : Nat, notified : BOOLEAN, closed : BOOLEAN]
TlsCall ==
  [place : {"quiet", "calls", "flushing", "receiving"},
   call : {"none", "read", "write", "handshake", "unwrap"}, carries : Seq(Nat),
   then : {"none", "result", "receive"}, data : Seq(Nat)]
TlsPast ==
  [peer : Nat, notify : BOOLEAN, sent : Seq(Nat), got : Seq(Nat), lossy : BOOLEAN,
   dropped : BOOLEAN, ends : SUBSET {"EndOfStream", "broken"}]

TlsNet == [records : Seq(Record), ended : BOOLEAN]

TlsTypes ==
  /\ tls \in TlsState
  /\ tlsAt \in [Tls!TlsTask -> TlsCall]
  /\ net \in TlsNet
  /\ past \in TlsPast

\* The call x of task t, in a stream that is in a given state: only a flush carries
\* records, and only that of a receive() has data.
CallFits(x, t, state) ==
  /\ x.place = "quiet" => x = Tls!Quiet /\ x.call = "none"
  /\ x.place # "quiet" =>
       /\ t \in TlsReader => x.call = "read"
       /\ t \in TlsWriter => x.call = "write"
       /\ t = TlsCloser => x.call = IF state = "new" THEN "handshake" ELSE "unwrap"
       /\ t # TlsCloser => state # "new"
  /\ x.place = "flushing" <=> x.carries # <<>>
  /\ x.data # <<>> => /\ x.place = "flushing" /\ x.then = "result" /\ t \in TlsReader
                      /\ Len(x.data) = 1

CallsFit ==
  /\ \A t \in Tls!TlsTask : CallFits(tlsAt[t], t, tls.state)
  /\ \A t, u \in Tls!TlsTask :
       tlsAt[t].place = "flushing" /\ tlsAt[u].place = "flushing" => t = u

\* The peer's records: k of them have been read.
UnreadFits(q, k) ==
  /\ past.notify => past.peer > 0
  /\ k \in 0..past.peer /\ Len(q) + k = past.peer + (IF past.notify THEN 1 ELSE 0)
  /\ \A i \in 1..Len(q) : q[i] = Tls!Nth(k + i)

\* The handshake is over, but for the reply.
Shaken == tlsAt[TlsCloser].place = "flushing" /\ tlsAt[TlsCloser].then = "result"

ReadFits ==
  /\ UnreadFits(Tls!Unread, Tls!Taken)
  /\ tls.state = "new" => Tls!Taken = (IF Shaken THEN 1 ELSE 0) /\ past.got = <<>>
  /\ tls.state = "open" => Tls!Taken >= 1

\* Of the first n data, h is what was received, and at has the rest.
GotFits(h, calls, n) ==
  /\ \A i, j \in 1..Len(h) : h[i] = h[j] => i = j
  /\ \A i \in 1..Len(h) : h[i] \in 1..n
  /\ \A t \in TlsReader : calls[t].data # <<>> => calls[t].data[1] \in 1..n
  /\ \A k \in 1..n : (\E i \in 1..Len(h) : h[i] = k) <=> ~\E t \in TlsReader : calls[t].data = <<k>>
  /\ (\A t, u \in TlsReader : t = u) =>
       /\ \A i \in 1..Len(h) : h[i] = i
       /\ \A t \in TlsReader : Len(h) + Len(calls[t].data) = n

DataKept == tls.state = "open" /\ ~past.dropped => GotFits(past.got, tlsAt, Tls!Taken - 1)

\* s has gone out, q follows.
SentFits(s, calls, n) ==
  /\ \A i \in 1..Len(s) : s[i] <= n
  /\ \A i, j \in 1..Len(s) : i < j => s[i] < s[j]
  /\ \A t \in Tls!TlsTask :
       LET q == calls[t].carries IN
       /\ \A i \in 1..Len(q) : q[i] <= n
       /\ \A i, j \in 1..Len(q) : i < j => q[i] < q[j]
       /\ \A i \in 1..Len(s), j \in 1..Len(q) : s[i] < q[j]

AllSent(s, calls, n) ==
  /\ (\A t \in Tls!TlsTask : calls[t].carries = <<>>) => Len(s) = n
  /\ \A t \in Tls!TlsTask : calls[t].carries # <<>> => Len(s) + Len(calls[t].carries) = n

RecordsSent ==
  /\ SentFits(past.sent, tlsAt, tls.made)
  /\ tls.state # "over" /\ ~past.lossy => AllSent(past.sent, tlsAt, tls.made)

TlsInv ==
  /\ TlsTypes
  /\ CallsFit
  /\ ReadFits
  /\ DataKept
  /\ RecordsSent
  /\ Tls!NoTruncation

\* The call of one task is another one.
LEMMA GotSame ==
  ASSUME NEW h, NEW calls, NEW after, NEW n, GotFits(h, calls, n),
         \A t \in TlsReader : after[t].data = calls[t].data
  PROVE  GotFits(h, after, n)
BY DEF GotFits

\* A datum is read and received at once.
LEMMA GotTaken ==
  ASSUME NEW h \in Seq(Nat), NEW calls, NEW after, NEW n \in Nat, GotFits(h, calls, n),
         \A t \in TlsReader : after[t].data = calls[t].data,
         NEW z \in TlsReader, calls[z].data = <<>>, NEW m, m = n + 1
  PROVE  GotFits(Append(h, m), after, m)
<1> DEFINE k == Append(h, m)
           L == Len(h)
<1>1. /\ L \in Nat /\ Len(k) = L + 1 /\ k[L + 1] = m
      /\ \A i \in 1..L : k[i] = h[i] /\ h[i] \in 1..n
  BY LenProperties, AppendProperties DEF GotFits
<1>2. \A i \in 1..(L + 1) : i \in 1..L \/ i = L + 1
  BY <1>1
<1>3. m \in Nat /\ ~(m \in 1..n) /\ m \in 1..m /\ \A i \in 1..m : i \in 1..n \/ i = m
  OBVIOUS
<1> HIDE DEF k
<1>4. \A i, j \in 1..Len(k) : k[i] = k[j] => i = j
  BY <1>1, <1>2, <1>3, SMTT(30) DEF GotFits
<1>5. \A i \in 1..Len(k) : k[i] \in 1..m
  BY <1>1, <1>2, <1>3
<1>6. \A t \in TlsReader : after[t].data # <<>> => after[t].data[1] \in 1..n
  BY DEF GotFits
<1>7. ASSUME NEW j \in 1..m
      PROVE  (\E i \in 1..Len(k) : k[i] = j) <=> ~\E t \in TlsReader : after[t].data = <<j>>
  <2>1. CASE j = m
    <3>1. L + 1 \in 1..Len(k) /\ k[L + 1] = j
      BY <1>1, <2>1
    <3>2. ASSUME NEW t \in TlsReader, after[t].data = <<j>> PROVE FALSE
      <4>1. after[t].data # <<>> /\ after[t].data[1] = j
        BY <3>2
      <4> QED
        BY <1>3, <1>6, <2>1, <4>1
    <3> QED
      BY <3>1, <3>2
  <2>2. CASE j # m
    <3>1. j \in 1..n
      BY <1>3, <2>2
    <3>2. (\E i \in 1..Len(k) : k[i] = j) <=> \E i \in 1..L : h[i] = j
      BY <1>1, <1>2, <2>2, SMTT(30)
    <3>3. (\E i \in 1..L : h[i] = j) <=> ~\E t \in TlsReader : calls[t].data = <<j>>
      BY <3>1 DEF GotFits
    <3> QED
      BY <3>2, <3>3
  <2> QED
    BY <2>1, <2>2
<1>8. ASSUME \A t, u \in TlsReader : t = u
      PROVE  /\ \A i \in 1..Len(k) : k[i] = i
             /\ \A t \in TlsReader : Len(k) + Len(after[t].data) = m
  <2>1. /\ \A i \in 1..L : h[i] = i
        /\ L + Len(calls[z].data) = n
    BY <1>8 DEF GotFits
  <2>2. Len(calls[z].data) = 0
    BY EmptySeq
  <2>3. L = n
    BY <1>1, <2>1, <2>2
  <2>4. \A i \in 1..Len(k) : k[i] = i
    BY <1>1, <1>2, <2>1, <2>3
  <2>5. ASSUME NEW t \in TlsReader PROVE Len(k) + Len(after[t].data) = m
    <3>1. Len(after[t].data) = 0
      BY <1>8, <2>2
    <3> QED
      BY <1>1, <2>3, <3>1
  <2> QED
    BY <2>4, <2>5
<1>9. \A t \in TlsReader : after[t].data # <<>> => after[t].data[1] \in 1..m
  BY <1>6
<1>10. GotFits(k, after, m)
  BY <1>4, <1>5, <1>7, <1>8, <1>9 DEF GotFits
<1> QED
  BY <1>10 DEF k

\* A datum is read, and carried while a reply is sent.
LEMMA GotCarried ==
  ASSUME NEW h \in Seq(Nat), NEW calls, NEW after, NEW n \in Nat, GotFits(h, calls, n),
         NEW z \in TlsReader, calls[z].data = <<>>, NEW m, m = n + 1, after[z].data = <<m>>,
         \A t \in TlsReader : t # z => after[t].data = calls[t].data
  PROVE  GotFits(h, after, m)
<1> DEFINE L == Len(h)
<1>1. L \in Nat /\ \A i \in 1..L : h[i] \in 1..n
  BY LenProperties DEF GotFits
<1>2. m \in Nat /\ ~(m \in 1..n) /\ m \in 1..m /\ \A i \in 1..m : i \in 1..n \/ i = m
  OBVIOUS
<1>3. \A t \in TlsReader : after[t].data # <<>> => after[t].data[1] \in 1..m
  BY DEF GotFits
<1>4. ASSUME NEW j \in 1..m
      PROVE  (\E i \in 1..L : h[i] = j) <=> ~\E t \in TlsReader : after[t].data = <<j>>
  <2>1. CASE j = m
    BY <1>1, <1>2, <2>1
  <2>2. CASE j # m
    <3>1. j \in 1..n
      BY <1>2, <2>2
    <3>2. (\E i \in 1..L : h[i] = j) <=> ~\E t \in TlsReader : calls[t].data = <<j>>
      BY <3>1 DEF GotFits
    <3>3. after[z].data # <<j>> /\ calls[z].data # <<j>>
      <4>1. <<j>>[1] = j /\ <<m>>[1] = m
        OBVIOUS
      <4>2. Len(<<j>>) = 1 /\ Len(calls[z].data) = 0
        BY EmptySeq
      <4> QED
        BY <2>2, <4>1, <4>2
    <3> QED
      BY <3>2, <3>3
  <2> QED
    BY <2>1, <2>2
<1>5. ASSUME \A t, u \in TlsReader : t = u
      PROVE  /\ \A i \in 1..L : h[i] = i
             /\ \A t \in TlsReader : L + Len(after[t].data) = m
  <2>1. /\ \A i \in 1..L : h[i] = i
        /\ L + Len(calls[z].data) = n
    BY <1>5 DEF GotFits
  <2>2. Len(calls[z].data) = 0 /\ Len(<<m>>) = 1
    BY EmptySeq
  <2>3. L = n
    BY <1>1, <2>1, <2>2
  <2>4. ASSUME NEW t \in TlsReader PROVE L + Len(after[t].data) = m
    <3>1. Len(after[t].data) = 1
      BY <1>5, <2>2
    <3> QED
      BY <2>3, <3>1
  <2> QED
    BY <2>1, <2>4
<1>6. /\ \A i, j \in 1..L : h[i] = h[j] => i = j
      /\ \A i \in 1..L : h[i] \in 1..m
  BY <1>1, <1>2 DEF GotFits
<1> QED
  BY <1>3, <1>4, <1>5, <1>6 DEF GotFits

\* A datum that was carried is received.
LEMMA GotGiven ==
  ASSUME NEW h \in Seq(Nat), NEW calls, NEW after, NEW n \in Nat, GotFits(h, calls, n),
         NEW z \in TlsReader, NEW k \in Nat, calls[z].data = <<k>>, after[z].data = <<>>,
         \A t \in TlsReader : t # z => calls[t].data = <<>> /\ after[t].data = <<>>
  PROVE  GotFits(Append(h, k), after, n)
<1> DEFINE w == Append(h, k)
           L == Len(h)
<1>1. /\ L \in Nat /\ Len(w) = L + 1 /\ w[L + 1] = k
      /\ \A i \in 1..L : w[i] = h[i] /\ h[i] \in 1..n
  BY LenProperties, AppendProperties DEF GotFits
<1>2. \A i \in 1..(L + 1) : i \in 1..L \/ i = L + 1
  BY <1>1
<1>3. k \in 1..n
  <2>1. calls[z].data # <<>> /\ calls[z].data[1] = k
    OBVIOUS
  <2> QED
    BY <2>1 DEF GotFits
<1>4. \A i \in 1..L : h[i] # k
  BY <1>3 DEF GotFits
<1> HIDE DEF w
<1>5. \A i, j \in 1..Len(w) : w[i] = w[j] => i = j
  BY <1>1, <1>2, <1>4, SMTT(30) DEF GotFits
<1>6. \A i \in 1..Len(w) : w[i] \in 1..n
  BY <1>1, <1>2, <1>3
<1>7. \A t \in TlsReader : after[t].data = <<>>
  OBVIOUS
<1>8. ASSUME NEW j \in 1..n
      PROVE  (\E i \in 1..Len(w) : w[i] = j) <=> ~\E t \in TlsReader : after[t].data = <<j>>
  <2>0. <<j>> # <<>>
    OBVIOUS
  <2>1. ~\E t \in TlsReader : after[t].data = <<j>>
    BY <1>7, <2>0
  <2>2. CASE j = k
    <3>1. L + 1 \in 1..Len(w)
      BY <1>1
    <3> QED
      BY <1>1, <2>1, <2>2, <3>1
  <2>3. CASE j # k
    <3>1. ~\E t \in TlsReader : calls[t].data = <<j>>
      <4>1. calls[z].data # <<j>>
        <5>1. <<j>>[1] = j /\ <<k>>[1] = k
          OBVIOUS
        <5> QED
          BY <2>3, <5>1
      <4>2. \A t \in TlsReader : t # z => calls[t].data # <<j>>
        BY <2>0
      <4> QED
        BY <4>1, <4>2
    <3>2. PICK i \in 1..L : h[i] = j
      BY <3>1 DEF GotFits
    <3>3. i \in 1..Len(w) /\ w[i] = j
      BY <1>1, <3>2
    <3> QED
      BY <2>1, <3>3
  <2> QED
    BY <2>2, <2>3
<1>9. ASSUME \A t, u \in TlsReader : t = u
      PROVE  /\ \A i \in 1..Len(w) : w[i] = i
             /\ \A t \in TlsReader : Len(w) + Len(after[t].data) = n
  <2>1. /\ \A i \in 1..L : h[i] = i
        /\ L + Len(calls[z].data) = n
    BY <1>9 DEF GotFits
  <2>2. Len(calls[z].data) = 1 /\ Len(<<>>) = 0
    BY EmptySeq
  <2>3. L + 1 = n
    BY <1>1, <2>1, <2>2
  <2>4. ~(k \in 1..L)
    BY <1>4, <2>1
  <2>5. k = L + 1
    BY <1>1, <1>3, <2>3, <2>4
  <2>6. \A i \in 1..Len(w) : w[i] = i
    BY <1>1, <1>2, <2>1, <2>5
  <2>7. ASSUME NEW t \in TlsReader PROVE Len(w) + Len(after[t].data) = n
    <3>1. Len(after[t].data) = 0
      BY <1>7, <2>2
    <3> QED
      BY <1>1, <2>3, <3>1
  <2> QED
    BY <2>6, <2>7
<1>10. \A t \in TlsReader : after[t].data # <<>> => after[t].data[1] \in 1..n
  BY <1>7
<1>11. GotFits(w, after, n)
  BY <1>5, <1>6, <1>8, <1>9, <1>10 DEF GotFits
<1> QED
  BY <1>11 DEF w

\* The records that go out stay in order when more are made.
LEMMA SentSame ==
  ASSUME NEW s, NEW calls, NEW after, NEW n \in Nat, NEW m \in Nat, n <= m, SentFits(s, calls, n),
         s \in Seq(Nat), \A t \in Tls!TlsTask : calls[t].carries \in Seq(Nat),
         \A t \in Tls!TlsTask : after[t].carries = calls[t].carries \/ after[t].carries = <<>>
  PROVE  SentFits(s, after, m)
<1>1. Len(s) \in Nat /\ \A i \in 1..Len(s) : s[i] \in Nat /\ s[i] <= n
  BY LenProperties, ElementOfSeq DEF SentFits
<1>2. \A i \in 1..Len(s) : s[i] <= m
  BY <1>1
<1>3. ASSUME NEW t \in Tls!TlsTask
      PROVE  /\ \A i \in 1..Len(after[t].carries) : after[t].carries[i] <= m
             /\ \A i, j \in 1..Len(after[t].carries) :
                  i < j => after[t].carries[i] < after[t].carries[j]
             /\ \A i \in 1..Len(s), j \in 1..Len(after[t].carries) : s[i] < after[t].carries[j]
  <2>1. CASE after[t].carries = <<>>
    <3>1. 1..Len(after[t].carries) = {}
      BY <2>1, EmptySeq
    <3> QED
      BY <3>1
  <2>2. CASE after[t].carries = calls[t].carries
    <3> DEFINE q == calls[t].carries
    <3>1. q \in Seq(Nat)
      OBVIOUS
    <3>2. \A i \in 1..Len(q) : q[i] \in Nat
      BY <3>1, ElementOfSeq
    <3>3. /\ \A i \in 1..Len(q) : q[i] <= n
          /\ \A i, j \in 1..Len(q) : i < j => q[i] < q[j]
          /\ \A i \in 1..Len(s), j \in 1..Len(q) : s[i] < q[j]
      BY DEF SentFits
    <3>4. after[t].carries = q
      BY <2>2
    <3> HIDE DEF q
    <3>5. \A i \in 1..Len(q) : q[i] <= m
      BY <3>2, <3>3
    <3> QED
      BY <3>3, <3>4, <3>5
  <2> QED
    BY <2>1, <2>2
<1> QED
  BY <1>2, <1>3 DEF SentFits

\* The records from the one after n up to m
Fresh(n, m) == [i \in 1..(m - n) |-> n + i]

\* The records that were made are carried by the one that flushes.
LEMMA SentCarried ==
  ASSUME NEW s \in Seq(Nat), NEW calls, NEW after, NEW n \in Nat, NEW m \in Nat, n < m,
         SentFits(s, calls, n), NEW z \in Tls!TlsTask,
         \A t \in Tls!TlsTask : calls[t].carries = <<>>,
         \A t \in Tls!TlsTask : t # z => after[t].carries = <<>>,
         after[z].carries = Fresh(n, m)
  PROVE  /\ SentFits(s, after, m)
         /\ AllSent(s, calls, n) => AllSent(s, after, m)
         /\ after[z].carries \in Seq(Nat) /\ after[z].carries # <<>>
<1> DEFINE q == after[z].carries
<1>1. Len(s) \in Nat /\ \A i \in 1..Len(s) : s[i] \in Nat /\ s[i] <= n
  BY LenProperties, ElementOfSeq DEF SentFits
<1>2. m - n \in Nat /\ m - n > 0 /\ \A i \in 1..(m - n) : n + i \in Nat /\ n + i <= m /\ n < n + i
  OBVIOUS
<1>3. q \in Seq(Nat) /\ Len(q) = m - n /\ \A i \in 1..(m - n) : q[i] = n + i
  <2>1. q \in [1..(m - n) -> Nat] /\ \A i \in 1..(m - n) : q[i] = n + i
    BY <1>2 DEF Fresh
  <2>2. q \in Seq(Nat)
    BY <1>2, <2>1, SeqDef
  <2>3. Len(q) = m - n
    BY <1>2, <2>1, <2>2, LenProperties
  <2> QED
    BY <2>1, <2>2, <2>3
<1>4. q # <<>>
  BY <1>2, <1>3, EmptySeq
<1> HIDE DEF q
<1>5. \A i \in 1..Len(s) : s[i] <= m
  BY <1>1
<1>6. /\ \A i \in 1..Len(q) : q[i] <= m
      /\ \A i, j \in 1..Len(q) : i < j => q[i] < q[j]
      /\ \A i \in 1..Len(s), j \in 1..Len(q) : s[i] < q[j]
  BY <1>1, <1>2, <1>3, SMTT(30)
<1>7. 1..Len(<<>>) = {}
  BY EmptySeq
<1>8. SentFits(s, after, m)
  <2>1. \A i, j \in 1..Len(s) : i < j => s[i] < s[j]
    BY DEF SentFits
  <2>2. ASSUME NEW t \in Tls!TlsTask
        PROVE  /\ \A i \in 1..Len(after[t].carries) : after[t].carries[i] <= m
               /\ \A i, j \in 1..Len(after[t].carries) :
                    i < j => after[t].carries[i] < after[t].carries[j]
               /\ \A i \in 1..Len(s), j \in 1..Len(after[t].carries) : s[i] < after[t].carries[j]
    <3>1. CASE t = z
      BY <1>6, <3>1 DEF q
    <3>2. CASE t # z
      BY <1>7, <3>2
    <3> QED
      BY <3>1, <3>2
  <2> QED
    BY <1>5, <2>1, <2>2 DEF SentFits
<1>9. ASSUME AllSent(s, calls, n) PROVE AllSent(s, after, m)
  <2>1. Len(s) = n
    BY <1>9 DEF AllSent
  <2>2. Len(s) + Len(q) = m
    BY <1>3, <2>1
  <2> QED
    BY <1>4, <2>2 DEF AllSent, q
<1> QED
  BY <1>3, <1>4, <1>8, <1>9 DEF q

\* What one task carries has gone out.
LEMMA SentGone ==
  ASSUME NEW s \in Seq(Nat), NEW calls, NEW after, NEW n \in Nat, SentFits(s, calls, n),
         NEW z \in Tls!TlsTask, calls[z].carries \in Seq(Nat),
         \A t \in Tls!TlsTask : after[t].carries = <<>>
  PROVE  /\ s \o calls[z].carries \in Seq(Nat)
         /\ SentFits(s \o calls[z].carries, after, n)
         /\ calls[z].carries # <<>> /\ AllSent(s, calls, n) => AllSent(s \o calls[z].carries, after, n)
<1> DEFINE q == calls[z].carries
           w == s \o q
           L == Len(s)
<1>1. L \in Nat /\ Len(q) \in Nat /\ q \in Seq(Nat)
  BY LenProperties
<1>2. /\ \A i \in 1..L : s[i] \in Nat /\ s[i] <= n
      /\ \A i, j \in 1..L : i < j => s[i] < s[j]
      /\ \A i \in 1..Len(q) : q[i] \in Nat /\ q[i] <= n
      /\ \A i, j \in 1..Len(q) : i < j => q[i] < q[j]
      /\ \A i \in 1..L, j \in 1..Len(q) : s[i] < q[j]
  BY <1>1, ElementOfSeq DEF SentFits
<1> HIDE DEF q
<1>3. /\ w \in Seq(Nat) /\ Len(w) = L + Len(q)
      /\ \A i \in 1..(L + Len(q)) : w[i] = IF i <= L THEN s[i] ELSE q[i - L]
  BY <1>1, ConcatProperties
<1> HIDE DEF w, L
<1>4. \A i \in 1..Len(w) : IF i <= L THEN i \in 1..L /\ w[i] = s[i]
                           ELSE i - L \in 1..Len(q) /\ w[i] = q[i - L]
  BY <1>1, <1>3
<1>5. \A i \in 1..Len(w) : w[i] <= n
  BY <1>2, <1>4
<1>6. ASSUME NEW i \in 1..Len(w), NEW j \in 1..Len(w), i < j PROVE w[i] < w[j]
  <2>1. CASE j <= L
    <3>1. i <= L
      BY <1>1, <1>3, <1>6, <2>1
    <3> QED
      BY <1>2, <1>4, <1>6, <2>1, <3>1
  <2>2. CASE i <= L /\ ~(j <= L)
    BY <1>2, <1>4, <2>2
  <2>3. CASE ~(i <= L)
    <3>1. ~(j <= L) /\ i - L < j - L
      BY <1>1, <1>3, <1>6, <2>3
    <3> QED
      BY <1>2, <1>4, <2>3, <3>1
  <2> QED
    BY <2>1, <2>2, <2>3
<1>7. 1..Len(<<>>) = {}
  BY EmptySeq
<1>8. SentFits(w, after, n)
  BY <1>5, <1>6, <1>7 DEF SentFits
<1>9. ASSUME q # <<>>, AllSent(s, calls, n) PROVE AllSent(w, after, n)
  <2>1. L + Len(q) = n
    BY <1>9 DEF AllSent, q, L
  <2> QED
    BY <1>3, <2>1 DEF AllSent
<1> QED
  BY <1>3, <1>8, <1>9 DEF w, q

LEMMA TlsNames ==
  /\ TlsCloser \in Tls!TlsTask
  /\ \A t \in Tls!TlsTask :
       /\ t \in TlsReader \/ t \in TlsWriter \/ t = TlsCloser
       /\ t \in TlsReader => t \notin TlsWriter /\ t # TlsCloser
       /\ t \in TlsWriter => t # TlsCloser
  /\ \A t \in TlsReader : t \in Tls!TlsTask
BY TlsAssumption DEF Tls!TlsTask

LEMMA QuietIs ==
  /\ Tls!Quiet \in TlsCall /\ Tls!Quiet.place = "quiet" /\ Tls!Quiet.call = "none"
  /\ Tls!Quiet.carries = <<>> /\ Tls!Quiet.data = <<>> /\ Tls!Quiet.then = "none"
  /\ \A t, state : CallFits(Tls!Quiet, t, state)
<1>1. <<>> \in Seq(Nat)
  BY EmptySeq
<1> QED
  BY <1>1 DEF Tls!Quiet, TlsCall, CallFits

LEMMA InitTls == Tls!TlsInit => TlsInv
<1> SUFFICES ASSUME Tls!TlsInit PROVE TlsInv
  OBVIOUS
<1>1. PICK compatible \in BOOLEAN :
        tls = [compatible |-> compatible, state |-> "new", bio |-> <<>>, eof |-> FALSE,
               made |-> 0, notified |-> FALSE, closed |-> FALSE]
  BY DEF Tls!TlsInit
<1>2. /\ tlsAt = [t \in Tls!TlsTask |-> Tls!Quiet]
      /\ net = [records |-> <<>>, ended |-> FALSE]
      /\ past = [peer |-> 0, notify |-> FALSE, sent |-> <<>>, got |-> <<>>,
                 lossy |-> FALSE, dropped |-> FALSE, ends |-> {}]
  BY DEF Tls!TlsInit
<1>3. <<>> \in Seq(Record) /\ <<>> \in Seq(Nat) /\ Len(<<>>) = 0 /\ 1..0 = {}
  BY EmptySeq
<1>4. tls \in TlsState /\ tls.state = "new" /\ tls.bio = <<>> /\ tls.made = 0
  BY <1>1, <1>3 DEF TlsState
<1>5. net \in TlsNet /\ net.records = <<>>
  BY <1>2, <1>3 DEF TlsNet
<1>6. /\ past \in TlsPast /\ past.peer = 0 /\ past.notify = FALSE /\ past.sent = <<>>
      /\ past.got = <<>> /\ past.ends = {}
  BY <1>2, <1>3 DEF TlsPast
<1>7. \A t \in Tls!TlsTask : tlsAt[t] = Tls!Quiet
  BY <1>2
<1>8. tlsAt \in [Tls!TlsTask -> TlsCall]
  BY <1>2, QuietIs
<1> HIDE DEF tls, tlsAt, net, past
<1>9. TlsTypes
  BY <1>4, <1>5, <1>6, <1>8 DEF TlsTypes, TlsNet
<1>10. CallsFit
  BY <1>7, QuietIs DEF CallsFit
<1>11. ReadFits
  <2>1. Tls!Unread = <<>>
    <3>1. Tls!Unread = <<>> \o <<>>
      BY <1>4, <1>5 DEF Tls!Unread, tls, net
    <3> QED
      BY <1>3, <3>1, ConcatSimplifications
  <2>2. Tls!Taken = 0
    BY <1>3, <1>6, <2>1 DEF Tls!Taken, past
  <2>3. UnreadFits(Tls!Unread, Tls!Taken)
    BY <1>3, <1>6, <2>1, <2>2 DEF UnreadFits
  <2>4. ~Shaken
    BY <1>7, QuietIs, TlsNames DEF Shaken
  <2> QED
    BY <1>4, <1>6, <2>2, <2>3, <2>4 DEF ReadFits
<1>12. DataKept
  BY <1>4 DEF DataKept
<1>13. RecordsSent
  BY <1>3, <1>4, <1>6, <1>7, QuietIs DEF RecordsSent, SentFits, AllSent
<1>14. Tls!NoTruncation
  <2> USE DEF past
  <2> QED
    BY <1>6 DEF Tls!NoTruncation
<1> QED
  BY <1>9, <1>10, <1>11, <1>12, <1>13, <1>14 DEF TlsInv

LEMMA ReadStays ==
  ASSUME TlsTypes, UnreadFits(Tls!Unread, Tls!Taken), past'.peer = past.peer,
         past'.notify = past.notify, Tls!Unread' = Tls!Unread
  PROVE  Tls!Taken' = Tls!Taken /\ UnreadFits(Tls!Unread, Tls!Taken)'
<1>1. Tls!Taken' = Tls!Taken
  BY DEF Tls!Taken
<1> QED
  BY <1>1 DEF UnreadFits, Tls!Nth

\* A record that is not close_notify, and is to be read next
LEMMA ReadNext ==
  ASSUME TlsTypes, UnreadFits(Tls!Unread, Tls!Taken), Tls!Unread # <<>>,
         Tls!Unread[1].kind # "notify", Tls!Unread \in Seq(Record)
  PROVE  Tls!Taken \in Nat /\ Tls!Taken < past.peer /\ Tls!Unread[1].n = Tls!Taken
<1> DEFINE q == Tls!Unread
           k == Tls!Taken
           p == past.peer
           z == IF past.notify THEN 1 ELSE 0
<1>1. Len(q) \in Nat /\ Len(q) > 0
  BY LenProperties, EmptySeq
<1>2. (past.notify => p > 0) /\ p \in Nat /\ z \in {0, 1} /\ k \in 0..p /\ Len(q) + k = p + z
      /\ \A i \in 1..Len(q) : q[i] = Tls!Nth(k + i)
  BY DEF TlsTypes, TlsPast, UnreadFits
<1>3. q[1] = Tls!Nth(k + 1) /\ k \in Nat
  BY <1>1, <1>2
<1>4. k < p
  <2>1. ASSUME k = p PROVE FALSE
    <3>1. z = 1
      BY <1>1, <1>2, <2>1
    <3>2. p > 0
      BY <1>2, <3>1
    <3>3. Tls!Nth(k + 1) = Tls!Notify
      BY <1>2, <2>1, <3>2 DEF Tls!Nth
    <3> QED
      BY <1>3, <3>3 DEF Tls!Notify
  <2> QED
    BY <1>2, <2>1
<1>5. q[1].n = k
  <2>1. CASE k = 0
    BY <1>3, <2>1 DEF Tls!Nth, Tls!Hello
  <2>2. CASE k # 0
    BY <1>2, <1>3, <1>4, <2>2 DEF Tls!Nth
  <2> QED
    BY <2>1, <2>2
<1> QED
  BY <1>3, <1>4, <1>5

LEMMA ReadTakes ==
  ASSUME TlsTypes, UnreadFits(Tls!Unread, Tls!Taken), past'.peer = past.peer,
         past'.notify = past.notify, Tls!Unread # <<>>, Tls!Unread' = Tail(Tls!Unread),
         Tls!Unread[1].kind # "notify", Tls!Unread \in Seq(Record)
  PROVE  Tls!Taken' = Tls!Taken + 1 /\ UnreadFits(Tls!Unread, Tls!Taken)'
<1> DEFINE q == Tls!Unread
           k == Tls!Taken
           p == past.peer
           z == IF past.notify THEN 1 ELSE 0
<1>1. /\ Tail(q) \in Seq(Record) /\ Len(Tail(q)) = Len(q) - 1 /\ Len(q) \in Nat /\ Len(q) > 0
      /\ \A i \in 1..Len(Tail(q)) : Tail(q)[i] = q[i + 1]
  BY HeadTailProperties, LenProperties, EmptySeq
<1>2. (past.notify => p > 0) /\ p \in Nat /\ z \in {0, 1} /\ k \in 0..p /\ Len(q) + k = p + z
      /\ \A i \in 1..Len(q) : q[i] = Tls!Nth(k + i)
  BY DEF TlsTypes, TlsPast, UnreadFits
<1>3. k \in Nat /\ k < p
  BY ReadNext
<1>4. Tls!Taken' = k + 1
  BY <1>1, <1>2 DEF Tls!Taken
<1>5. UnreadFits(Tls!Unread, Tls!Taken)'
  <2> HIDE DEF q, k, p, z
  <2>1. ASSUME NEW i \in 1..Len(Tail(q)) PROVE Tail(q)[i] = Tls!Nth((k + 1) + i)
    <3>1. i + 1 \in 1..Len(q) /\ k + (i + 1) = (k + 1) + i
      BY <1>1, <1>3
    <3>2. q[i + 1] = Tls!Nth(k + (i + 1))
      BY <1>2, <3>1
    <3>3. Tail(q)[i] = Tls!Nth(k + (i + 1))
      BY <1>1, <3>2
    <3> QED
      BY <3>1, <3>3
  <2>2. k + 1 \in 0..p /\ Len(Tail(q)) + (k + 1) = p + z
    BY <1>1, <1>2, <1>3
  <2>3. \A j : Tls!Nth(j)' = Tls!Nth(j)
    BY DEF Tls!Nth
  <2> QED
    BY <1>2, <1>4, <2>1, <2>2, <2>3 DEF UnreadFits, q, k, p, z
<1> QED
  BY <1>4, <1>5

\* The head of a queue goes over to the end of the one before it, or away.
LEMMA HeadMoves ==
  ASSUME NEW S, NEW r \in Seq(S), NEW q \in Seq(S), q # <<>>
  PROVE  Append(r, Head(q)) \o Tail(q) = r \o q
<1>1. Head(q) \in S /\ Tail(q) \in Seq(S)
  BY HeadTailProperties
<1>2. <<Head(q)>> \in Seq(S)
  BY <1>1
<1>3. Append(r, Head(q)) = r \o <<Head(q)>>
  BY <1>1, AppendIsConcat
<1>4. (r \o <<Head(q)>>) \o Tail(q) = r \o (<<Head(q)>> \o Tail(q))
  BY <1>1, <1>2, ConcatAssociative
<1>5. <<Head(q)>> \o Tail(q) = q
  BY HeadTailProperties
<1> QED
  BY <1>3, <1>4, <1>5

LEMMA LastComes ==
  ASSUME NEW S, NEW r \in Seq(S), NEW q \in Seq(S), NEW x \in S
  PROVE  r \o Append(q, x) = Append(r \o q, x)
<1>1. <<x>> \in Seq(S)
  OBVIOUS
<1>2. Append(q, x) = q \o <<x>>
  BY AppendIsConcat
<1>3. r \o (q \o <<x>>) = (r \o q) \o <<x>>
  BY <1>1, ConcatAssociative
<1>4. r \o q \in Seq(S)
  BY ConcatProperties
<1>5. (r \o q) \o <<x>> = Append(r \o q, x)
  BY <1>4, AppendIsConcat
<1> QED
  BY <1>2, <1>3, <1>5

LEMMA HeadGoes ==
  ASSUME NEW S, NEW r \in Seq(S), NEW q \in Seq(S), r # <<>>
  PROVE  /\ r \o q \in Seq(S) /\ r \o q # <<>> /\ (r \o q)[1] = Head(r)
         /\ Tail(r) \o q = Tail(r \o q)
<1>1. /\ Head(r) = r[1] /\ Tail(r) \in Seq(S) /\ Len(Tail(r)) = Len(r) - 1
      /\ \A i \in 1..Len(Tail(r)) : Tail(r)[i] = r[i + 1]
      /\ Len(r) \in Nat /\ Len(r) > 0 /\ Len(q) \in Nat
  BY HeadTailProperties, LenProperties, EmptySeq
<1> DEFINE w == r \o q
           x == Tail(r) \o q
<1>2. /\ w \in Seq(S) /\ Len(w) = Len(r) + Len(q)
      /\ \A i \in 1..(Len(r) + Len(q)) : w[i] = IF i <= Len(r) THEN r[i] ELSE q[i - Len(r)]
  BY ConcatProperties
<1>3. /\ x \in Seq(S) /\ Len(x) = Len(Tail(r)) + Len(q)
      /\ \A i \in 1..(Len(Tail(r)) + Len(q)) :
           x[i] = IF i <= Len(Tail(r)) THEN Tail(r)[i] ELSE q[i - Len(Tail(r))]
  BY <1>1, ConcatProperties
<1> HIDE DEF w, x
<1>4. Len(w) > 0 /\ w[1] = r[1] /\ w # <<>>
  <2>1. 1 \in 1..(Len(r) + Len(q)) /\ 1 <= Len(r) /\ Len(w) > 0
    BY <1>1, <1>2
  <2> QED
    BY <1>2, <2>1, EmptySeq
<1>5. /\ Tail(w) \in Seq(S) /\ Len(Tail(w)) = Len(w) - 1
      /\ \A i \in 1..Len(Tail(w)) : Tail(w)[i] = w[i + 1]
  BY <1>2, <1>4, HeadTailProperties
<1>6. Len(x) = Len(Tail(w))
  BY <1>1, <1>2, <1>3, <1>5
<1>7. ASSUME NEW i \in 1..Len(x) PROVE x[i] = Tail(w)[i]
  <2>1. /\ i \in Nat /\ i > 0 /\ i <= Len(r) - 1 + Len(q) /\ i + 1 \in 1..(Len(r) + Len(q))
        /\ i \in 1..Len(Tail(w)) /\ i \in 1..(Len(Tail(r)) + Len(q))
    BY <1>1, <1>2, <1>3, <1>5
  <2>2. Tail(w)[i] = w[i + 1]
    BY <1>5, <2>1
  <2>3. CASE i <= Len(Tail(r))
    <3>1. i + 1 <= Len(r) /\ i \in 1..Len(Tail(r))
      BY <1>1, <2>1, <2>3
    <3> QED
      BY <1>1, <1>2, <1>3, <2>1, <2>2, <2>3, <3>1
  <2>4. CASE ~(i <= Len(Tail(r)))
    <3>1. ~(i + 1 <= Len(r)) /\ i - Len(Tail(r)) = (i + 1) - Len(r)
      BY <1>1, <2>1, <2>4
    <3> QED
      BY <1>2, <1>3, <2>1, <2>2, <2>4, <3>1
  <2> QED
    BY <2>3, <2>4
<1>8. x = Tail(w)
  BY <1>3, <1>5, <1>6, <1>7, SeqEqual
<1> QED
  BY <1>1, <1>2, <1>4, <1>8 DEF w, x

LEMMA CallBasics ==
  ASSUME TlsInv, NEW t \in Tls!TlsTask
  PROVE  /\ tls \in TlsState /\ net \in TlsNet /\ past \in TlsPast
         /\ tlsAt \in [Tls!TlsTask -> TlsCall] /\ tlsAt[t] \in TlsCall
         /\ CallFits(tlsAt[t], t, tls.state)
         /\ tls.bio \in Seq(Record) /\ net.records \in Seq(Record)
         /\ Tls!Unread \in Seq(Record)
         /\ past.sent \in Seq(Nat) /\ past.got \in Seq(Nat)
         /\ \A u \in Tls!TlsTask : tlsAt[u].carries \in Seq(Nat)
<1> HIDE DEF tls, net, past, tlsAt
<1>1. /\ tls \in TlsState /\ net \in TlsNet /\ past \in TlsPast
      /\ tlsAt \in [Tls!TlsTask -> TlsCall] /\ tlsAt[t] \in TlsCall
      /\ CallFits(tlsAt[t], t, tls.state)
  BY DEF TlsInv, TlsTypes, CallsFit
<1>2. /\ tls.bio \in Seq(Record) /\ net.records \in Seq(Record)
      /\ past.sent \in Seq(Nat) /\ past.got \in Seq(Nat)
  BY <1>1 DEF TlsState, TlsNet, TlsPast
<1>3. \A u \in Tls!TlsTask : tlsAt[u].carries \in Seq(Nat)
  BY <1>1 DEF TlsCall
<1>4. Tls!Unread = tls.bio \o net.records
  BY DEF Tls!Unread, tls, net
<1>5. Tls!Unread \in Seq(Record)
  BY <1>2, <1>4, ConcatProperties
<1> QED
  BY <1>1, <1>2, <1>3, <1>5

\* The call of a task moves on, and the stream with it.
LEMMA CallMoves ==
  ASSUME TlsInv, NEW t \in Tls!TlsTask, NEW x \in TlsCall, tlsAt' = [tlsAt EXCEPT ![t] = x],
         tls' \in TlsState, net' \in TlsNet, past' \in TlsPast, CallFits(x, t, tls'.state),
         x.place = "flushing" =>
           \A u \in Tls!TlsTask : u # t => tlsAt[u].place # "flushing",
         tls'.state # tls.state =>
           tls'.state # "new" /\ (tls.state # "new" \/ t = TlsCloser)
  PROVE  /\ TlsTypes' /\ CallsFit' /\ tlsAt'[t] = x
         /\ \A u \in Tls!TlsTask : u # t => tlsAt'[u] = tlsAt[u]
<1> HIDE DEF tls, net, past, tlsAt
<1>1. tlsAt \in [Tls!TlsTask -> TlsCall]
  BY DEF TlsInv, TlsTypes
<1>2. /\ tlsAt' \in [Tls!TlsTask -> TlsCall] /\ tlsAt'[t] = x
      /\ \A u \in Tls!TlsTask : u # t => tlsAt'[u] = tlsAt[u]
  BY <1>1
<1>3. TlsTypes'
  BY <1>2 DEF TlsTypes
<1>4. ASSUME NEW u \in Tls!TlsTask PROVE CallFits(tlsAt'[u], u, tls'.state)
  <2>1. CASE u = t
    BY <1>2, <2>1
  <2>2. CASE u # t
    <3>1. CallFits(tlsAt[u], u, tls.state)
      BY DEF TlsInv, CallsFit
    <3>2. tlsAt'[u] = tlsAt[u]
      BY <1>2, <2>2
    <3>3. CASE tls'.state = tls.state
      BY <3>1, <3>2, <3>3
    <3>4. CASE tls'.state # tls.state
      BY <2>2, <3>1, <3>2, <3>4 DEF CallFits
    <3> QED
      BY <3>3, <3>4
  <2> QED
    BY <2>1, <2>2
<1>5. ASSUME NEW u \in Tls!TlsTask, NEW v \in Tls!TlsTask, tlsAt'[u].place = "flushing",
             tlsAt'[v].place = "flushing"
      PROVE  u = v
  <2>1. u # t /\ v # t => u = v
    BY <1>2, <1>5 DEF TlsInv, CallsFit
  <2> QED
    BY <1>2, <1>5, <2>1
<1>6. CallsFit'
  BY <1>4, <1>5 DEF CallsFit
<1> QED
  BY <1>2, <1>3, <1>6

\* What was read before a step, and after it.
LEMMA ReadMoves ==
  ASSUME TlsInv, NEW took \in BOOLEAN,
         past'.peer = past.peer, past'.notify = past.notify,
         Tls!Unread' = IF took THEN Tail(Tls!Unread) ELSE Tls!Unread,
         took => Tls!Unread # <<>> /\ Tls!Unread[1].kind # "notify"
  PROVE  /\ UnreadFits(Tls!Unread, Tls!Taken)' /\ Tls!Taken \in Nat
         /\ Tls!Taken' = (IF took THEN Tls!Taken + 1 ELSE Tls!Taken)
<1> HIDE DEF tls, net, past, tlsAt
<1>1. TlsTypes /\ UnreadFits(Tls!Unread, Tls!Taken)
  BY DEF TlsInv, ReadFits
<1>2. Tls!Unread \in Seq(Record)
  BY TlsNames, CallBasics
<1>3. Tls!Taken \in Nat
  BY <1>1 DEF UnreadFits
<1>4. CASE took
  <2>1. Tls!Unread' = Tail(Tls!Unread) /\ Tls!Unread # <<>> /\ Tls!Unread[1].kind # "notify"
    BY <1>4
  <2> QED
    BY <1>1, <1>2, <1>3, <1>4, <2>1, ReadTakes
<1>5. CASE ~took
  <2>1. Tls!Unread' = Tls!Unread
    BY <1>5
  <2> QED
    BY <1>1, <1>3, <1>5, <2>1, ReadStays
<1> QED
  BY <1>4, <1>5

\* How a step of a call leaves ReadFits.
LEMMA ReadHolds ==
  ASSUME TlsInv, NEW took \in BOOLEAN, UnreadFits(Tls!Unread, Tls!Taken)', Tls!Taken \in Nat,
         Tls!Taken' = (IF took THEN Tls!Taken + 1 ELSE Tls!Taken),
         tls'.state = "new" => /\ tls.state = "new" /\ past'.got = past.got
                               /\ ~Shaken /\ (took <=> Shaken'),
         tls'.state = "open" => tls.state = "open" \/ (tls.state = "new" /\ Shaken)
  PROVE  ReadFits'
<1> HIDE DEF tls, net, past, tlsAt
<1>1. /\ tls.state = "new" => Tls!Taken = (IF Shaken THEN 1 ELSE 0) /\ past.got = <<>>
      /\ tls.state = "open" => Tls!Taken >= 1
  BY DEF TlsInv, ReadFits
<1> HIDE DEF Shaken
<1>2. tls'.state = "new" => Tls!Taken' = (IF Shaken' THEN 1 ELSE 0) /\ past'.got = <<>>
  BY <1>1
<1>3. tls'.state = "open" => Tls!Taken' >= 1
  BY <1>1
<1> QED
  BY <1>2, <1>3 DEF ReadFits

\* What Done() leaves.
LEMMA DoneIs ==
  ASSUME TlsInv, NEW t \in Tls!TlsTask, tlsAt[t].place # "quiet", NEW s \in TlsState,
         s.state = tls.state, NEW how, Tls!Done(t, s, how)
  PROVE  /\ tlsAt' = [tlsAt EXCEPT ![t] = Tls!Quiet]
         /\ tls' \in TlsState /\ tls'.bio = s.bio /\ tls'.made = s.made
         /\ tls'.compatible = s.compatible
         /\ tls'.state = (IF tls.state = "new" THEN IF how = "returned" THEN "open" ELSE "over"
                          ELSE IF tlsAt[t].call = "unwrap" THEN "over" ELSE tls.state)
         /\ tls.state = "new" => t = TlsCloser
         /\ tls.state = "new" <=> tlsAt[t].call = "handshake"
<1> HIDE DEF tls, net, past, tlsAt
<1>1. CallFits(tlsAt[t], t, tls.state)
  BY CallBasics
<1>2. /\ tls.state = "new" => t = TlsCloser
      /\ tls.state = "new" <=> tlsAt[t].call = "handshake"
  BY <1>1, TlsNames DEF CallFits
<1>3. tlsAt' = [tlsAt EXCEPT ![t] = Tls!Quiet]
  BY DEF Tls!Done, tlsAt
<1>4. tls' = IF tlsAt[t].call = "handshake" /\ how = "returned" THEN [s EXCEPT !.state = "open"]
             ELSE IF tlsAt[t].call \in {"handshake", "unwrap"}
                  THEN [s EXCEPT !.closed = TRUE, !.state = "over"]
             ELSE s
  BY DEF Tls!Done, tls, tlsAt
<1>5. CASE tlsAt[t].call = "handshake" /\ how = "returned"
  <2>1. tls' = [s EXCEPT !.state = "open"]
    BY <1>4, <1>5
  <2> QED
    BY <1>2, <1>3, <1>5, <2>1 DEF TlsState
<1>6. CASE tlsAt[t].call = "handshake" /\ how # "returned"
  <2>1. tls' = [s EXCEPT !.closed = TRUE, !.state = "over"]
    BY <1>4, <1>6
  <2> QED
    BY <1>2, <1>3, <1>6, <2>1 DEF TlsState
<1>7. CASE tlsAt[t].call = "unwrap"
  <2>1. tls' = [s EXCEPT !.closed = TRUE, !.state = "over"]
    BY <1>4, <1>7
  <2> QED
    BY <1>2, <1>3, <1>7, <2>1 DEF TlsState
<1>8. CASE tlsAt[t].call \notin {"handshake", "unwrap"}
  <2>1. tls' = s
    BY <1>4, <1>8
  <2> QED
    BY <1>2, <1>3, <1>8, <2>1
<1> QED
  BY <1>5, <1>6, <1>7, <1>8

\* Task t is in a round of its call, which has brought the stream to s, and has read a
\* record if took is true.
Rounds(t, s, took) ==
  /\ tlsAt[t].place \in {"calls", "receiving"}
  /\ s \in TlsState /\ net' \in TlsNet
  /\ s.state = tls.state /\ s.compatible = tls.compatible /\ s.made >= tls.made
  /\ s.bio \o net'.records = IF took THEN Tail(Tls!Unread) ELSE Tls!Unread
  /\ took => /\ Tls!Unread # <<>> /\ Tls!Unread[1].kind # "notify"
             /\ tlsAt[t].call \in {"read", "handshake"}

LEMMA RoundBasics ==
  ASSUME TlsInv, NEW t \in Tls!TlsTask, NEW s, NEW took \in BOOLEAN, Rounds(t, s, took)
  PROVE  /\ tlsAt[t].place # "quiet" /\ tlsAt[t].carries = <<>> /\ tlsAt[t].data = <<>>
         /\ s \in TlsState /\ tls.made \in Nat /\ s.made \in Nat
         /\ tls.state = "new" => t = TlsCloser
         /\ tls.state = "new" <=> tlsAt[t].call = "handshake"
<1> HIDE DEF tls, net, past, tlsAt
<1>1. CallFits(tlsAt[t], t, tls.state) /\ tls \in TlsState /\ tlsAt[t] \in TlsCall
  BY CallBasics
<1>2. tlsAt[t].place \in {"calls", "receiving"} /\ s \in TlsState
  BY DEF Rounds, tlsAt
<1>3. tlsAt[t].carries = <<>> /\ tlsAt[t].data = <<>>
  BY <1>1, <1>2 DEF CallFits
<1>4. /\ tls.state = "new" => t = TlsCloser
      /\ tls.state = "new" <=> tlsAt[t].call = "handshake"
  BY <1>1, <1>2, TlsNames DEF CallFits
<1> QED
  BY <1>1, <1>2, <1>3, <1>4 DEF TlsState

\* The call ends in the round: it raises, or finds the transport busy.
LEMMA RoundEnds ==
  ASSUME TlsInv, NEW t \in Tls!TlsTask, NEW s, NEW took \in BOOLEAN, Rounds(t, s, took),
         NEW how \in {"raised", "busy"}, Tls!Done(t, s, how), past' \in TlsPast,
         past'.peer = past.peer, past'.notify = past.notify, past'.sent = past.sent,
         past'.got = past.got, past.lossy => past'.lossy, past.dropped => past'.dropped,
         took /\ tlsAt[t].call = "read" => past'.dropped,
         s.made = tls.made \/ past'.lossy \/ tlsAt[t].call \in {"handshake", "unwrap"},
         tls.compatible /\ "EndOfStream" \in past'.ends => past.notify
  PROVE  TlsInv'
<1> HIDE DEF tls, net, past, tlsAt
<1>1. /\ tlsAt[t].place # "quiet" /\ tlsAt[t].carries = <<>> /\ tlsAt[t].data = <<>>
      /\ s \in TlsState /\ tls.made \in Nat /\ s.made \in Nat
      /\ tls.state = "new" => t = TlsCloser
      /\ tls.state = "new" <=> tlsAt[t].call = "handshake"
  BY RoundBasics
<1>2. /\ net' \in TlsNet /\ s.state = tls.state /\ s.compatible = tls.compatible
      /\ s.made >= tls.made
      /\ s.bio \o net'.records = IF took THEN Tail(Tls!Unread) ELSE Tls!Unread
      /\ took => /\ Tls!Unread # <<>> /\ Tls!Unread[1].kind # "notify"
                 /\ tlsAt[t].call \in {"read", "handshake"}
  BY DEF Rounds, tls, net, tlsAt
<1>3. /\ tlsAt' = [tlsAt EXCEPT ![t] = Tls!Quiet]
      /\ tls' \in TlsState /\ tls'.bio = s.bio /\ tls'.made = s.made
      /\ tls'.compatible = tls.compatible
      /\ tls'.state = IF tls.state = "new" \/ tlsAt[t].call = "unwrap" THEN "over"
                      ELSE tls.state
  BY <1>1, <1>2, DoneIs
<1>4. /\ TlsTypes' /\ CallsFit' /\ tlsAt'[t] = Tls!Quiet
      /\ \A u \in Tls!TlsTask : u # t => tlsAt'[u] = tlsAt[u]
  BY <1>1, <1>2, <1>3, QuietIs, CallMoves
<1>5. Tls!Unread' = IF took THEN Tail(Tls!Unread) ELSE Tls!Unread
  <2>1. Tls!Unread' = tls'.bio \o net'.records
    BY DEF Tls!Unread, tls, net
  <2> QED
    BY <1>2, <1>3, <2>1
<1>6. /\ UnreadFits(Tls!Unread, Tls!Taken)' /\ Tls!Taken \in Nat
      /\ Tls!Taken' = (IF took THEN Tls!Taken + 1 ELSE Tls!Taken)
  BY <1>2, <1>5, ReadMoves
<1>7. ReadFits'
  BY <1>3, <1>6, ReadHolds
<1>8. \A u \in Tls!TlsTask : /\ tlsAt'[u].data = tlsAt[u].data
                             /\ tlsAt'[u].carries = tlsAt[u].carries
  BY <1>1, <1>4, QuietIs
<1>9. DataKept'
  <2>1. SUFFICES ASSUME tls'.state = "open", ~past'.dropped
                 PROVE  GotFits(past'.got, tlsAt', Tls!Taken' - 1)
    BY DEF DataKept
  <2>2. tls.state = "open" /\ ~past.dropped /\ ~took
    BY <1>1, <1>2, <1>3, <2>1
  <2>3. GotFits(past.got, tlsAt, Tls!Taken - 1)
    BY <2>2 DEF TlsInv, DataKept
  <2>4. GotFits(past.got, tlsAt', Tls!Taken - 1)
    BY <1>8, <2>3, TlsNames, GotSame
  <2> QED
    BY <1>6, <2>2, <2>4
<1>10. RecordsSent'
  <2>1. SentFits(past.sent, tlsAt, tls.made)
    BY DEF TlsInv, RecordsSent
  <2>2. past.sent \in Seq(Nat) /\ \A u \in Tls!TlsTask : tlsAt[u].carries \in Seq(Nat)
    BY CallBasics
  <2>3. SentFits(past.sent, tlsAt', s.made)
    BY <1>1, <1>2, <1>8, <2>1, <2>2, SentSame
  <2>4. ASSUME tls'.state # "over", ~past'.lossy PROVE AllSent(past'.sent, tlsAt', tls'.made)
    <3>1. tls.state # "over" /\ ~past.lossy /\ s.made = tls.made
      BY <1>1, <1>3, <2>4
    <3>2. AllSent(past.sent, tlsAt, tls.made)
      BY <3>1 DEF TlsInv, RecordsSent
    <3> QED
      BY <1>3, <1>8, <3>1, <3>2 DEF AllSent
  <2> QED
    BY <1>3, <2>3, <2>4 DEF RecordsSent
<1>11. Tls!NoTruncation'
  BY <1>3 DEF Tls!NoTruncation, tls, past
<1> QED
  BY <1>4, <1>7, <1>9, <1>10, <1>11 DEF TlsInv

\* What a round has read does not get lost: it is received, or carried along.
LEMMA RoundData ==
  ASSUME TlsInv, NEW t \in Tls!TlsTask, NEW s, NEW took \in BOOLEAN, Rounds(t, s, took),
         Tls!Taken' = (IF took THEN Tls!Taken + 1 ELSE Tls!Taken), Tls!Taken \in Nat,
         NEW data, data = IF took /\ tlsAt[t].call = "read" THEN <<Tls!Taken>> ELSE <<>>,
         tls.state = "open", ~past.dropped,
         \A u \in Tls!TlsTask : u # t => tlsAt'[u] = tlsAt[u],
         \/ tlsAt'[t].data = <<>> /\ past'.got = past.got \o data
         \/ tlsAt'[t].data = data /\ past'.got = past.got
  PROVE  GotFits(past'.got, tlsAt', Tls!Taken' - 1)
<1> HIDE DEF tls, net, past, tlsAt
<1> DEFINE n == Tls!Taken - 1
<1>1. /\ tlsAt[t].place # "quiet" /\ tlsAt[t].carries = <<>> /\ tlsAt[t].data = <<>>
      /\ tlsAt[t].call # "handshake"
  BY RoundBasics
<1>2. past.got \in Seq(Nat) /\ CallFits(tlsAt[t], t, tls.state)
  BY CallBasics
<1>3. GotFits(past.got, tlsAt, n)
  BY DEF TlsInv, DataKept
<1>4. Tls!Taken >= 1
  BY DEF TlsInv, ReadFits
<1>5. n \in Nat /\ n + 1 = Tls!Taken
  BY <1>4
<1>6. CASE took
  <2>1. tlsAt[t].call = "read"
    BY <1>1, <1>6 DEF Rounds, tlsAt
  <2>2. t \in TlsReader
    BY <1>1, <1>2, <2>1, TlsNames DEF CallFits
  <2>3. data = <<Tls!Taken>> /\ Tls!Taken' - 1 = Tls!Taken
    BY <1>6, <2>1
  <2>4. \A u \in TlsReader : u # t => tlsAt'[u].data = tlsAt[u].data
    BY TlsNames
  <2>5. CASE tlsAt'[t].data = <<>> /\ past'.got = past.got \o data
    <3>1. \A u \in TlsReader : tlsAt'[u].data = tlsAt[u].data
      BY <1>1, <2>4, <2>5
    <3>2. GotFits(Append(past.got, Tls!Taken), tlsAt', Tls!Taken)
      BY <1>1, <1>2, <1>3, <1>5, <2>2, <3>1, GotTaken
    <3>3. past'.got = Append(past.got, Tls!Taken)
      BY <1>2, <2>3, <2>5, AppendIsConcat
    <3> QED
      BY <2>3, <3>2, <3>3
  <2>6. CASE tlsAt'[t].data = data /\ past'.got = past.got
    <3>1. GotFits(past.got, tlsAt', Tls!Taken)
      BY <1>1, <1>2, <1>3, <1>5, <2>2, <2>3, <2>4, <2>6, GotCarried
    <3> QED
      BY <2>3, <2>6, <3>1
  <2> QED
    BY <2>5, <2>6
<1>7. CASE ~took
  <2>1. data = <<>> /\ Tls!Taken' - 1 = n
    BY <1>7
  <2>2. tlsAt'[t].data = <<>> /\ past'.got = past.got
    <3>1. past.got \o <<>> = past.got
      BY <1>2, ConcatSimplifications
    <3> QED
      BY <2>1, <3>1
  <2>3. \A u \in TlsReader : tlsAt'[u].data = tlsAt[u].data
    BY <1>1, <2>2, TlsNames
  <2> QED
    BY <1>3, <2>1, <2>2, <2>3, GotSame
<1> QED
  BY <1>6, <1>7

\* The round makes records, and sends them.
LEMMA RoundFlushes ==
  ASSUME TlsInv, NEW t \in Tls!TlsTask, NEW s, NEW took \in BOOLEAN, Rounds(t, s, took),
         \A u \in Tls!TlsTask : u # t => tlsAt[u].place # "flushing",
         NEW data, data = IF took /\ tlsAt[t].call = "read" THEN <<Tls!Taken>> ELSE <<>>,
         NEW then \in {"result", "receive"}, s.made > tls.made,
         tlsAt' = [tlsAt EXCEPT
                     ![t].place = "flushing",
                     ![t].carries = Fresh(tls.made, s.made),
                     ![t].then = then, ![t].data = data],
         took <=> (then = "result" /\ tlsAt[t].call \in {"read", "handshake"}),
         tls' = s, past' = past
  PROVE  TlsInv'
<1> HIDE DEF tls, net, past, tlsAt
<1> DEFINE fresh == Fresh(tls.made, s.made)
           x == [tlsAt[t] EXCEPT !.place = "flushing", !.carries = fresh, !.then = then,
                                 !.data = data]
<1>1. /\ tlsAt[t].place # "quiet" /\ tlsAt[t].carries = <<>> /\ tlsAt[t].data = <<>>
      /\ s \in TlsState /\ tls.made \in Nat /\ s.made \in Nat
      /\ tls.state = "new" => t = TlsCloser
      /\ tls.state = "new" <=> tlsAt[t].call = "handshake"
  BY RoundBasics
<1>2. /\ net' \in TlsNet /\ s.state = tls.state /\ s.compatible = tls.compatible
      /\ s.made >= tls.made /\ tlsAt[t].place \in {"calls", "receiving"}
      /\ s.bio \o net'.records = IF took THEN Tail(Tls!Unread) ELSE Tls!Unread
      /\ took => /\ Tls!Unread # <<>> /\ Tls!Unread[1].kind # "notify"
                 /\ tlsAt[t].call \in {"read", "handshake"}
  BY DEF Rounds, tls, net, tlsAt
<1>3. /\ tlsAt \in [Tls!TlsTask -> TlsCall] /\ tlsAt[t] \in TlsCall /\ past \in TlsPast
      /\ CallFits(tlsAt[t], t, tls.state) /\ past.sent \in Seq(Nat)
      /\ \A u \in Tls!TlsTask : tlsAt[u].carries \in Seq(Nat)
  BY CallBasics
<1>4. Tls!Unread' = IF took THEN Tail(Tls!Unread) ELSE Tls!Unread
  <2>1. Tls!Unread' = tls'.bio \o net'.records
    BY DEF Tls!Unread, tls, net
  <2> QED
    BY <1>2, <2>1
<1>5. /\ UnreadFits(Tls!Unread, Tls!Taken)' /\ Tls!Taken \in Nat
      /\ Tls!Taken' = (IF took THEN Tls!Taken + 1 ELSE Tls!Taken)
  BY <1>2, <1>4, ReadMoves
<1>6. data \in Seq(Nat) /\ (data # <<>> => Len(data) = 1 /\ took /\ tlsAt[t].call = "read")
  <2>1. CASE took /\ tlsAt[t].call = "read"
    <3>1. data = <<Tls!Taken>>
      BY <2>1
    <3>2. \A k \in Nat : <<k>> \in Seq(Nat) /\ Len(<<k>>) = 1
      OBVIOUS
    <3> QED
      BY <1>5, <2>1, <3>1, <3>2
  <2>2. CASE ~(took /\ tlsAt[t].call = "read")
    <3>1. data = <<>>
      BY <2>2
    <3> QED
      BY <3>1, EmptySeq
  <2> QED
    BY <2>1, <2>2
<1>7. \A u \in Tls!TlsTask : u # t => tlsAt[u].carries = <<>>
  BY DEF TlsInv, CallsFit, CallFits
<1>8. SentFits(past.sent, tlsAt, tls.made)
  BY DEF TlsInv, RecordsSent
<1>9. tlsAt' = [tlsAt EXCEPT ![t] = x]
  BY <1>3
<1> HIDE DEF x
<1>10. /\ x.place = "flushing" /\ x.carries = fresh /\ x.then = then /\ x.data = data
       /\ x.call = tlsAt[t].call
  BY <1>3 DEF x, TlsCall
<1>11. /\ tlsAt'[t] = x /\ \A u \in Tls!TlsTask : u # t => tlsAt'[u] = tlsAt[u]
  BY <1>3, <1>9
<1>12. \A u \in Tls!TlsTask : tlsAt[u].carries = <<>>
  BY <1>1, <1>7
<1>13. /\ SentFits(past.sent, tlsAt', s.made)
       /\ AllSent(past.sent, tlsAt, tls.made) => AllSent(past.sent, tlsAt', s.made)
       /\ fresh \in Seq(Nat) /\ fresh # <<>>
  <2>1. \A u \in Tls!TlsTask : u # t => tlsAt'[u].carries = <<>>
    BY <1>11, <1>12
  <2>2. tlsAt'[t].carries = fresh
    BY <1>10, <1>11
  <2>3. tls.made < s.made
    BY <1>1
  <2>4. /\ SentFits(past.sent, tlsAt', s.made)
        /\ AllSent(past.sent, tlsAt, tls.made) => AllSent(past.sent, tlsAt', s.made)
        /\ tlsAt'[t].carries \in Seq(Nat) /\ tlsAt'[t].carries # <<>>
    <3>1. PICK h, calls, after, n, m :
            h = past.sent /\ calls = tlsAt /\ after = tlsAt' /\ n = tls.made /\ m = s.made
      OBVIOUS
    <3>2. /\ h \in Seq(Nat) /\ n \in Nat /\ m \in Nat /\ n < m /\ SentFits(h, calls, n)
          /\ \A u \in Tls!TlsTask : calls[u].carries = <<>>
          /\ \A u \in Tls!TlsTask : u # t => after[u].carries = <<>>
          /\ after[t].carries = Fresh(n, m)
      BY <1>1, <1>3, <1>8, <1>12, <2>1, <2>2, <2>3, <3>1
    <3>3. /\ SentFits(h, after, m)
          /\ AllSent(h, calls, n) => AllSent(h, after, m)
          /\ after[t].carries \in Seq(Nat) /\ after[t].carries # <<>>
      BY <3>2, SentCarried
    <3> QED
      BY <3>1, <3>3
  <2> QED
    BY <2>2, <2>4
<1> HIDE DEF fresh
<1>14. x \in TlsCall
  <2>1. x = [tlsAt[t] EXCEPT !.place = "flushing", !.carries = fresh, !.then = then,
                             !.data = data]
    BY DEF x
  <2> QED
    BY <1>3, <1>6, <1>13, <2>1 DEF TlsCall
<1>15. CallFits(x, t, tls'.state)
  <2>1. data # <<>> => then = "result" /\ t \in TlsReader
    BY <1>1, <1>2, <1>3, <1>6, TlsNames DEF CallFits
  <2>2. /\ t \in TlsReader => tlsAt[t].call = "read"
        /\ t \in TlsWriter => tlsAt[t].call = "write"
        /\ t = TlsCloser => tlsAt[t].call = IF tls.state = "new" THEN "handshake" ELSE "unwrap"
        /\ t # TlsCloser => tls.state # "new"
    BY <1>1, <1>3 DEF CallFits
  <2> QED
    BY <1>2, <1>6, <1>10, <1>13, <2>1, <2>2 DEF CallFits
<1>16. TlsTypes' /\ CallsFit'
  BY <1>1, <1>2, <1>3, <1>9, <1>14, <1>15, CallMoves
<1>17. ReadFits'
  <2>1. ~Shaken /\ (tls.state = "new" => (took <=> Shaken'))
    <3>1. tls.state = "new" => t = TlsCloser /\ tlsAt[t].call = "handshake"
      BY <1>1
    <3>2. tlsAt[TlsCloser].place # "flushing"
      BY <1>2, TlsNames
    <3>3. Shaken' <=> tlsAt'[TlsCloser].place = "flushing" /\ tlsAt'[TlsCloser].then = "result"
      BY DEF Shaken, tlsAt
    <3>4. tls.state = "new" => (Shaken' <=> then = "result") /\ (took <=> then = "result")
      BY <1>10, <1>11, <3>1, <3>3
    <3>5. ~Shaken
      BY <3>2 DEF Shaken, tlsAt
    <3> QED
      BY <3>4, <3>5
  <2> QED
    BY <1>2, <1>5, <2>1, ReadHolds
<1>18. DataKept'
  <2>1. SUFFICES ASSUME tls'.state = "open", ~past'.dropped
                 PROVE  GotFits(past'.got, tlsAt', Tls!Taken' - 1)
    BY DEF DataKept
  <2>2. tls.state = "open" /\ ~past.dropped
    BY <1>2, <2>1
  <2>3. tlsAt'[t].data = data /\ past'.got = past.got
    BY <1>10, <1>11
  <2> QED
    BY <1>5, <1>11, <2>2, <2>3, RoundData
<1>19. RecordsSent'
  <2>1. ASSUME tls'.state # "over", ~past'.lossy PROVE AllSent(past'.sent, tlsAt', tls'.made)
    <3>1. AllSent(past.sent, tlsAt, tls.made)
      BY <1>2, <2>1 DEF TlsInv, RecordsSent
    <3> QED
      BY <1>13, <3>1
  <2> QED
    BY <1>13, <2>1 DEF RecordsSent
<1>20. Tls!NoTruncation'
  <2>1. Tls!NoTruncation
    BY DEF TlsInv
  <2> QED
    BY <1>2, <2>1 DEF Tls!NoTruncation, tls, past
<1> QED
  BY <1>16, <1>17, <1>18, <1>19, <1>20 DEF TlsInv

\* The round has nothing to send, and returns.
LEMMA RoundReturns ==
  ASSUME TlsInv, NEW t \in Tls!TlsTask, NEW s, NEW took \in BOOLEAN, Rounds(t, s, took),
         NEW data, data = IF took /\ tlsAt[t].call = "read" THEN <<Tls!Taken>> ELSE <<>>,
         s.made = tls.made, tlsAt[t].call # "handshake", Tls!Done(t, s, "returned"),
         past' = [past EXCEPT !.got = @ \o data]
  PROVE  TlsInv'
<1> HIDE DEF tls, net, past, tlsAt
<1>1. /\ tlsAt[t].place # "quiet" /\ tlsAt[t].carries = <<>> /\ tlsAt[t].data = <<>>
      /\ s \in TlsState /\ tls.state # "new"
  BY RoundBasics
<1>2. /\ net' \in TlsNet /\ s.state = tls.state /\ s.compatible = tls.compatible
      /\ s.bio \o net'.records = IF took THEN Tail(Tls!Unread) ELSE Tls!Unread
      /\ took => /\ Tls!Unread # <<>> /\ Tls!Unread[1].kind # "notify"
                 /\ tlsAt[t].call = "read"
  BY DEF Rounds, tls, net, tlsAt
<1>3. past \in TlsPast /\ past.got \in Seq(Nat)
  BY CallBasics
<1>4. /\ tlsAt' = [tlsAt EXCEPT ![t] = Tls!Quiet]
      /\ tls' \in TlsState /\ tls'.bio = s.bio /\ tls'.made = s.made
      /\ tls'.compatible = tls.compatible
      /\ tls'.state = IF tlsAt[t].call = "unwrap" THEN "over" ELSE tls.state
  BY <1>1, <1>2, DoneIs
<1>5. Tls!Unread' = IF took THEN Tail(Tls!Unread) ELSE Tls!Unread
  <2>1. Tls!Unread' = tls'.bio \o net'.records
    BY DEF Tls!Unread, tls, net
  <2> QED
    BY <1>2, <1>4, <2>1
<1>6. data \in Seq(Nat)
  <2>1. Tls!Taken \in Nat
    BY DEF TlsInv, ReadFits, UnreadFits
  <2>2. \A k \in Nat : <<k>> \in Seq(Nat)
    OBVIOUS
  <2> QED
    BY <2>1, <2>2, EmptySeq
<1>7. past.got \o data \in Seq(Nat)
  BY <1>3, <1>6, ConcatProperties
<1>8. /\ past' \in TlsPast /\ past'.peer = past.peer /\ past'.notify = past.notify
      /\ past'.sent = past.sent /\ past'.got = past.got \o data /\ past'.lossy = past.lossy
      /\ past'.dropped = past.dropped /\ past'.ends = past.ends
  BY <1>3, <1>7 DEF TlsPast
<1>9. /\ TlsTypes' /\ CallsFit' /\ tlsAt'[t] = Tls!Quiet
      /\ \A u \in Tls!TlsTask : u # t => tlsAt'[u] = tlsAt[u]
  BY <1>1, <1>2, <1>4, <1>8, QuietIs, CallMoves
<1>10. /\ UnreadFits(Tls!Unread, Tls!Taken)' /\ Tls!Taken \in Nat
       /\ Tls!Taken' = (IF took THEN Tls!Taken + 1 ELSE Tls!Taken)
  BY <1>2, <1>5, <1>8, ReadMoves
<1>11. ReadFits'
  BY <1>1, <1>4, <1>10, ReadHolds
<1>12. DataKept'
  <2>1. SUFFICES ASSUME tls'.state = "open", ~past'.dropped
                 PROVE  GotFits(past'.got, tlsAt', Tls!Taken' - 1)
    BY DEF DataKept
  <2>2. tls.state = "open" /\ ~past.dropped
    BY <1>1, <1>4, <1>8, <2>1
  <2>3. tlsAt'[t].data = <<>>
    BY <1>9, QuietIs
  <2> QED
    BY <1>8, <1>9, <1>10, <2>2, <2>3, RoundData
<1>13. RecordsSent'
  <2>1. \A u \in Tls!TlsTask : tlsAt'[u].carries = tlsAt[u].carries
    BY <1>1, <1>9, QuietIs
  <2>2. SentFits(past.sent, tlsAt, tls.made)
    BY DEF TlsInv, RecordsSent
  <2>3. SentFits(past.sent, tlsAt', tls.made)
    BY <2>1, <2>2 DEF SentFits
  <2>4. ASSUME tls'.state # "over", ~past'.lossy PROVE AllSent(past'.sent, tlsAt', tls'.made)
    <3>1. AllSent(past.sent, tlsAt, tls.made)
      BY <1>4, <1>8, <2>4 DEF TlsInv, RecordsSent
    <3> QED
      BY <1>4, <1>8, <2>1, <3>1 DEF AllSent
  <2> QED
    BY <1>4, <1>8, <2>3, <2>4 DEF RecordsSent
<1>14. Tls!NoTruncation'
  <2>1. Tls!NoTruncation
    BY DEF TlsInv
  <2> QED
    BY <1>4, <1>8, <2>1 DEF Tls!NoTruncation, tls, past
<1> QED
  BY <1>9, <1>11, <1>12, <1>13, <1>14 DEF TlsInv

\* A call whose records are out, or that makes none, waits for the peer.
LEMMA CallWaits ==
  ASSUME TlsInv, NEW t \in Tls!TlsTask, NEW s \in TlsState, net' \in TlsNet, past' \in TlsPast,
         tlsAt[t].place # "quiet", tlsAt[t].data = <<>>,
         tls.state = "new" => ~Shaken,
         tlsAt' = [tlsAt EXCEPT ![t].place = "receiving", ![t].carries = <<>>], tls' = s,
         s.state = tls.state, s.compatible = tls.compatible, s.made = tls.made,
         s.bio \o net'.records = Tls!Unread,
         past'.peer = past.peer, past'.notify = past.notify, past'.got = past.got,
         past'.dropped = past.dropped, past'.lossy = past.lossy, past'.ends = past.ends,
         SentFits(past'.sent, tlsAt', s.made),
         AllSent(past.sent, tlsAt, s.made) => AllSent(past'.sent, tlsAt', s.made)
  PROVE  TlsInv'
<1> HIDE DEF tls, net, past, tlsAt
<1> DEFINE x == [tlsAt[t] EXCEPT !.place = "receiving", !.carries = <<>>]
<1>1. /\ tlsAt \in [Tls!TlsTask -> TlsCall] /\ tlsAt[t] \in TlsCall
      /\ CallFits(tlsAt[t], t, tls.state)
  BY CallBasics
<1>2. tlsAt' = [tlsAt EXCEPT ![t] = x]
  BY <1>1
<1>3. /\ x \in TlsCall /\ x.place = "receiving" /\ x.carries = <<>> /\ x.call = tlsAt[t].call
      /\ x.data = tlsAt[t].data
  BY <1>1, EmptySeq DEF TlsCall
<1> HIDE DEF x
<1>4. CallFits(x, t, tls'.state)
  BY <1>1, <1>3 DEF CallFits
<1>5. /\ TlsTypes' /\ CallsFit' /\ tlsAt'[t] = x
      /\ \A u \in Tls!TlsTask : u # t => tlsAt'[u] = tlsAt[u]
  BY <1>2, <1>3, <1>4, CallMoves
<1>6. Tls!Unread' = Tls!Unread
  <2>1. Tls!Unread' = tls'.bio \o net'.records
    BY DEF Tls!Unread, tls, net
  <2> QED
    BY <2>1
<1>7. UnreadFits(Tls!Unread, Tls!Taken)' /\ Tls!Taken \in Nat /\ Tls!Taken' = Tls!Taken
  BY <1>6, ReadMoves
<1>8. tls.state = "new" => ~Shaken'
  <2>1. tlsAt'[TlsCloser].place # "flushing" \/ tlsAt'[TlsCloser] = tlsAt[TlsCloser]
    BY <1>3, <1>5, TlsNames
  <2>2. tls.state = "new" =>
          ~(tlsAt[TlsCloser].place = "flushing" /\ tlsAt[TlsCloser].then = "result")
    BY DEF Shaken, tlsAt
  <2> QED
    BY <2>1, <2>2 DEF Shaken, tlsAt
<1>9. ReadFits'
  BY <1>7, <1>8, ReadHolds
<1>10. \A u \in Tls!TlsTask : tlsAt'[u].data = tlsAt[u].data
  BY <1>3, <1>5
<1>11. DataKept'
  <2>1. SUFFICES ASSUME tls'.state = "open", ~past'.dropped
                 PROVE  GotFits(past'.got, tlsAt', Tls!Taken' - 1)
    BY DEF DataKept
  <2>2. GotFits(past.got, tlsAt, Tls!Taken - 1)
    BY <2>1 DEF TlsInv, DataKept
  <2>3. GotFits(past.got, tlsAt', Tls!Taken - 1)
    BY <1>10, <2>2, TlsNames, GotSame
  <2> QED
    BY <1>7, <2>3
<1>12. RecordsSent'
  BY DEF TlsInv, RecordsSent
<1>13. Tls!NoTruncation'
  <2>1. Tls!NoTruncation
    BY DEF TlsInv
  <2> QED
    BY <2>1 DEF Tls!NoTruncation, tls, past
<1> QED
  BY <1>5, <1>9, <1>11, <1>12, <1>13 DEF TlsInv

\* The end of a round, by its result.
LEMMA ThenHolds ==
  ASSUME TlsInv, NEW t \in Tls!TlsTask, NEW s, NEW took \in BOOLEAN, Rounds(t, s, took),
         NEW then \in {"result", "receive"}, NEW data,
         data = IF took /\ tlsAt[t].call = "read" THEN <<Tls!Taken>> ELSE <<>>,
         took <=> (then = "result" /\ tlsAt[t].call \in {"read", "handshake"}),
         tlsAt[t].call = "handshake" /\ then = "result" => s.made > tls.made,
         Tls!Then(t, s, then, data)
  PROVE  TlsInv'
<1> HIDE DEF tls, net, past, tlsAt
<1>1. /\ tlsAt[t].place # "quiet" /\ tlsAt[t].carries = <<>> /\ tlsAt[t].data = <<>>
      /\ s \in TlsState /\ tls.made \in Nat /\ s.made \in Nat
  BY RoundBasics
<1>2. /\ net' \in TlsNet /\ s.state = tls.state /\ s.compatible = tls.compatible
      /\ s.made >= tls.made /\ tlsAt[t].place \in {"calls", "receiving"}
      /\ s.bio \o net'.records = IF took THEN Tail(Tls!Unread) ELSE Tls!Unread
  BY DEF Rounds, tls, net, tlsAt
<1>3. /\ tlsAt \in [Tls!TlsTask -> TlsCall] /\ tlsAt[t] \in TlsCall /\ past \in TlsPast
      /\ past.sent \in Seq(Nat)
      /\ \A u \in Tls!TlsTask : tlsAt[u].carries \in Seq(Nat)
  BY CallBasics
<1>4. tls.compatible /\ "EndOfStream" \in past.ends => past.notify
  BY DEF TlsInv, Tls!NoTruncation, tls, past
<1>5. data # <<>> => took /\ tlsAt[t].call = "read"
  OBVIOUS
<1>6. CASE s.made > tls.made
  <2>1. CASE Tls!Busy("flushing", t)
    <3>1. /\ Tls!Done(t, s, "busy")
          /\ past' = [past EXCEPT !.lossy = TRUE, !.dropped = @ \/ data # <<>>]
      <4> USE DEF tls, past
      <4> QED
        BY <1>6, <2>1 DEF Tls!Then, Tls!Flushes
    <3>2. took /\ tlsAt[t].call = "read" => data # <<>>
      <4>1. <<Tls!Taken>> # <<>>
        OBVIOUS
      <4> QED
        BY <4>1
    <3> DEFINE z == data # <<>>
    <3>3. z \in BOOLEAN /\ past' = [past EXCEPT !.lossy = TRUE, !.dropped = @ \/ z]
      BY <3>1
    <3> HIDE DEF z
    <3>4. (past.dropped \/ z) \in BOOLEAN
      OBVIOUS
    <3>5. /\ past' \in TlsPast /\ past'.peer = past.peer /\ past'.notify = past.notify
          /\ past'.sent = past.sent /\ past'.got = past.got /\ past'.lossy = TRUE
          /\ past'.dropped = (past.dropped \/ z) /\ past'.ends = past.ends
      BY <1>3, <3>3, <3>4 DEF TlsPast
    <3>6. took /\ tlsAt[t].call = "read" => past'.dropped
      BY <3>2, <3>5 DEF z
    <3>7. (past.lossy => past'.lossy) /\ (past.dropped => past'.dropped)
      BY <3>5
    <3> QED
      BY <1>4, <3>1, <3>5, <3>6, <3>7, RoundEnds
  <2>2. CASE ~Tls!Busy("flushing", t)
    <3>1. /\ tlsAt' = [tlsAt EXCEPT ![t].place = "flushing",
                                    ![t].carries = Fresh(tls.made, s.made),
                                    ![t].then = then, ![t].data = data]
          /\ tls' = s /\ past' = past
      <4> USE DEF tls, past, tlsAt
      <4> QED
        BY <1>6, <2>2 DEF Tls!Then, Tls!Flushes, Fresh
    <3>2. \A u \in Tls!TlsTask : u # t => tlsAt[u].place # "flushing"
      BY <2>2 DEF Tls!Busy, tlsAt
    <3> QED
      BY <1>6, <3>1, <3>2, RoundFlushes
  <2> QED
    BY <2>1, <2>2
<1>7. CASE ~(s.made > tls.made)
  <2>1. s.made = tls.made
    BY <1>1, <1>2, <1>7
  <2>2. CASE then = "result"
    <3>1. Tls!Done(t, s, "returned") /\ past' = [past EXCEPT !.got = @ \o data]
      <4> USE DEF tls, past
      <4> QED
        BY <1>7, <2>2 DEF Tls!Then, Tls!Flushes
    <3>2. tlsAt[t].call # "handshake"
      BY <1>7, <2>2
    <3> QED
      BY <2>1, <3>1, <3>2, RoundReturns
  <2>3. CASE then = "receive"
    <3>1. Tls!Receives(t, s) /\ past' = past /\ took = FALSE
      <4> USE DEF tls, past
      <4> QED
        BY <1>7, <2>3 DEF Tls!Then, Tls!Flushes
    <3>2. CASE Tls!Busy("receiving", t)
      <4>1. Tls!Done(t, s, "busy")
        BY <3>1, <3>2 DEF Tls!Receives
      <4> QED
        BY <1>3, <1>4, <2>1, <3>1, <4>1, RoundEnds
    <3>3. CASE ~Tls!Busy("receiving", t)
      <4>1. /\ tlsAt' = [tlsAt EXCEPT ![t].place = "receiving", ![t].carries = <<>>]
            /\ tls' = s
        <5> USE DEF tls, tlsAt
        <5> QED
          BY <3>1, <3>3 DEF Tls!Receives
      <4>2. \A u \in Tls!TlsTask : tlsAt'[u].carries = tlsAt[u].carries
        BY <1>1, <1>3, <4>1 DEF TlsCall
      <4>3. SentFits(past.sent, tlsAt, tls.made)
        BY DEF TlsInv, RecordsSent
      <4>4. SentFits(past'.sent, tlsAt', s.made)
        BY <2>1, <3>1, <4>2, <4>3 DEF SentFits
      <4>5. AllSent(past.sent, tlsAt, s.made) => AllSent(past'.sent, tlsAt', s.made)
        BY <3>1, <4>2 DEF AllSent
      <4>6. tls.state = "new" => ~Shaken
        <5>1. tlsAt[t].place # "flushing"
          BY <1>2
        <5>2. tls.state = "new" => t = TlsCloser
          BY RoundBasics
        <5> QED
          BY <5>1, <5>2 DEF Shaken, tlsAt
      <4> QED
        BY <1>1, <1>2, <1>3, <2>1, <3>1, <4>1, <4>4, <4>5, <4>6, CallWaits
    <3> QED
      BY <3>2, <3>3
  <2> QED
    BY <2>2, <2>3
<1> QED
  BY <1>6, <1>7

\* close_notify has been read only if it was sent.
LEMMA NotifyRead ==
  ASSUME TlsInv, Tls!Unread # <<>>, Tls!Unread[1].kind = "notify"
  PROVE  past.notify
<1> HIDE DEF tls, net, past, tlsAt
<1> DEFINE q == Tls!Unread
           k == Tls!Taken
           p == past.peer
<1>1. q \in Seq(Record) /\ past \in TlsPast
  BY TlsNames, CallBasics
<1>2. p \in Nat /\ past.notify \in BOOLEAN
  BY <1>1 DEF TlsPast
<1>3. /\ k \in 0..p /\ Len(q) + k = p + (IF past.notify THEN 1 ELSE 0)
      /\ \A i \in 1..Len(q) : q[i] = Tls!Nth(k + i)
  BY DEF TlsInv, ReadFits, UnreadFits
<1>4. Len(q) \in Nat /\ Len(q) > 0
  BY <1>1, LenProperties, EmptySeq
<1>5. q[1] = Tls!Nth(k + 1) /\ q[1].kind = "notify"
  BY <1>3, <1>4
<1>6. ASSUME k < p PROVE FALSE
  <2>1. CASE k = 0
    BY <1>5, <2>1 DEF Tls!Nth, Tls!Hello
  <2>2. CASE k # 0
    <3>1. k + 1 > 1 /\ k + 1 <= p
      BY <1>2, <1>3, <1>6, <2>2
    <3>2. Tls!Nth(k + 1) = [kind |-> "data", n |-> (k + 1) - 1]
      BY <3>1 DEF Tls!Nth, past
    <3> QED
      BY <1>5, <3>2
  <2> QED
    BY <2>1, <2>2
<1> QED
  BY <1>2, <1>3, <1>4, <1>6

\* The buffer holds what is to be read next.
LEMMA BufferIsNext ==
  ASSUME TlsInv, NEW t \in Tls!TlsTask, NEW s, Rounds(t, s, FALSE), s.bio # <<>>
  PROVE  /\ s.bio \in Seq(Record) /\ Tls!Unread # <<>> /\ Tls!Unread[1] = Head(s.bio)
         /\ Tail(s.bio) \in Seq(Record) /\ Tail(s.bio) \o net'.records = Tail(Tls!Unread)
<1>1. /\ s \in TlsState /\ net' \in TlsNet /\ s.bio \o net'.records = Tls!Unread
  BY DEF Rounds
<1>2. s.bio \in Seq(Record) /\ net'.records \in Seq(Record)
  BY <1>1 DEF TlsState, TlsNet
<1>3. Tail(s.bio) \in Seq(Record)
  BY <1>2, HeadTailProperties
<1> QED
  BY <1>1, <1>2, <1>3, HeadGoes

\* The SSL object has come to the end of its input.
LEMMA RaggedEndHolds ==
  ASSUME TlsInv, NEW t \in Tls!TlsTask, NEW s, Rounds(t, s, FALSE), Tls!RaggedEnd(t, s),
         s.made = tls.made \/ tlsAt[t].call \in {"handshake", "unwrap"}
  PROVE  TlsInv'
<1> HIDE DEF tls, net, past, tlsAt
<1>1. past \in TlsPast /\ tls \in TlsState /\ s.compatible = tls.compatible
  BY CallBasics DEF Rounds, tls
<1>2. /\ Tls!Done(t, s, "raised")
      /\ past' = [past EXCEPT !.ends = IF tlsAt[t].call = "read" /\ ~s.compatible
                                       THEN @ \union {"EndOfStream"} ELSE @ \union {"broken"}]
  BY DEF Tls!RaggedEnd, past, tlsAt
<1>3. PICK ends \in SUBSET {"EndOfStream", "broken"} :
        /\ past' = [past EXCEPT !.ends = ends]
        /\ "EndOfStream" \in ends /\ tls.compatible => "EndOfStream" \in past.ends
  <2>1. past.ends \in SUBSET {"EndOfStream", "broken"}
    BY <1>1 DEF TlsPast
  <2>2. CASE tlsAt[t].call = "read" /\ ~s.compatible
    <3> DEFINE z == past.ends \union {"EndOfStream"}
    <3>1. /\ z \in SUBSET {"EndOfStream", "broken"} /\ past' = [past EXCEPT !.ends = z]
          /\ "EndOfStream" \in z /\ tls.compatible => "EndOfStream" \in past.ends
      BY <1>1, <1>2, <2>1, <2>2
    <3> HIDE DEF z
    <3> QED
      BY <3>1
  <2>3. CASE ~(tlsAt[t].call = "read" /\ ~s.compatible)
    <3> DEFINE z == past.ends \union {"broken"}
    <3>1. /\ z \in SUBSET {"EndOfStream", "broken"} /\ past' = [past EXCEPT !.ends = z]
          /\ "EndOfStream" \in z /\ tls.compatible => "EndOfStream" \in past.ends
      BY <1>2, <2>1, <2>3
    <3> HIDE DEF z
    <3> QED
      BY <3>1
  <2> QED
    BY <2>2, <2>3
<1>4. /\ past' \in TlsPast /\ past'.peer = past.peer /\ past'.notify = past.notify
      /\ past'.sent = past.sent /\ past'.got = past.got /\ past'.lossy = past.lossy
      /\ past'.dropped = past.dropped /\ past'.ends = ends
  BY <1>1, <1>3 DEF TlsPast
<1>5. tls.compatible /\ "EndOfStream" \in past'.ends => past.notify
  <2>1. tls.compatible /\ "EndOfStream" \in past.ends => past.notify
    BY DEF TlsInv, Tls!NoTruncation, tls, past
  <2> QED
    BY <1>3, <1>4, <2>1
<1> QED
  BY <1>2, <1>4, <1>5, RoundEnds

\* read()
LEMMA ReadRoundHolds ==
  ASSUME TlsInv, NEW t \in Tls!TlsTask, NEW s, Rounds(t, s, FALSE), tlsAt[t].call = "read",
         s.made = tls.made, Tls!ReadRound(t, s)
  PROVE  TlsInv'
<1> HIDE DEF tls, net, past, tlsAt
<1>1. /\ s \in TlsState /\ tls.made \in Nat /\ past \in TlsPast
  BY RoundBasics, CallBasics
<1>2. /\ net' \in TlsNet /\ s.state = tls.state /\ s.compatible = tls.compatible
      /\ tlsAt[t].place \in {"calls", "receiving"}
      /\ s.bio \o net'.records = Tls!Unread
  BY DEF Rounds, tls, net, tlsAt
<1>3. \A z \in Tls!Made(s) : /\ z \in TlsState /\ z.bio = s.bio /\ z.state = s.state
                             /\ z.compatible = s.compatible /\ z.made >= s.made
  BY <1>1 DEF Tls!Made, TlsState
<1>4. CASE s.bio # <<>>
  <2>1. /\ s.bio \in Seq(Record) /\ Tls!Unread # <<>> /\ Tls!Unread[1] = Head(s.bio)
        /\ Tail(s.bio) \in Seq(Record) /\ Tail(s.bio) \o net'.records = Tail(Tls!Unread)
    BY <1>4, BufferIsNext
  <2>2. CASE Head(s.bio).kind = "notify"
    <3>1. /\ Tls!Done(t, s, "raised")
          /\ past' = [past EXCEPT !.ends = @ \union {"EndOfStream"}]
      BY <1>4, <2>2 DEF Tls!ReadRound, past
    <3>2. past.notify
      BY <2>1, <2>2, NotifyRead
    <3>3. /\ past' \in TlsPast /\ past'.peer = past.peer /\ past'.notify = past.notify
          /\ past'.sent = past.sent /\ past'.got = past.got /\ past'.lossy = past.lossy
          /\ past'.dropped = past.dropped
      <4>1. past.ends \union {"EndOfStream"} \in SUBSET {"EndOfStream", "broken"}
        BY <1>1 DEF TlsPast
      <4> QED
        BY <1>1, <3>1, <4>1 DEF TlsPast
    <3> QED
      BY <3>1, <3>2, <3>3, RoundEnds
  <2>3. CASE Head(s.bio).kind # "notify"
    <3>1. PICK made \in Tls!Made(s) :
            Tls!Then(t, [made EXCEPT !.bio = Tail(@)], "result", <<Head(s.bio).n>>)
      BY <1>4, <2>3 DEF Tls!ReadRound
    <3> DEFINE z == [made EXCEPT !.bio = Tail(@)]
    <3>2. /\ z \in TlsState /\ z.state = tls.state /\ z.compatible = tls.compatible
          /\ z.made >= tls.made /\ z.bio = Tail(s.bio)
      BY <1>2, <1>3, <2>1 DEF TlsState
    <3> HIDE DEF z
    <3>3. Rounds(t, z, TRUE)
      BY <1>2, <2>1, <2>3, <3>2 DEF Rounds, tls, net, tlsAt
    <3>4. Tls!Unread[1].n = Tls!Taken
      <4>1. UnreadFits(Tls!Unread, Tls!Taken) /\ TlsTypes
        BY DEF TlsInv, ReadFits
      <4> QED
        BY <2>1, <2>3, <4>1, CallBasics, ReadNext
    <3>5. Tls!Then(t, z, "result", <<Head(s.bio).n>>)
      BY <3>1 DEF z
    <3>6. <<Head(s.bio).n>> = <<Tls!Taken>>
      BY <2>1, <3>4
    <3> QED
      BY <3>3, <3>5, <3>6, ThenHolds
  <2> QED
    BY <2>2, <2>3
<1>5. CASE s.bio = <<>> /\ s.eof
  BY <1>5, RaggedEndHolds DEF Tls!ReadRound
<1>6. CASE s.bio = <<>> /\ ~s.eof
  <2>1. PICK made \in Tls!Made(s) : Tls!Then(t, made, "receive", <<>>)
    BY <1>6 DEF Tls!ReadRound
  <2>2. Rounds(t, made, FALSE)
    BY <1>2, <1>3 DEF Rounds, tls, net, tlsAt
  <2> QED
    BY <2>1, <2>2, ThenHolds
<1> QED
  BY <1>4, <1>5, <1>6

\* do_handshake()
LEMMA HandshakeRoundHolds ==
  ASSUME TlsInv, NEW t \in Tls!TlsTask, NEW s, Rounds(t, s, FALSE),
         tlsAt[t].call = "handshake", s.made = tls.made, Tls!HandshakeRound(t, s)
  PROVE  TlsInv'
<1> HIDE DEF tls, net, past, tlsAt
<1>1. /\ s \in TlsState /\ tls.made \in Nat /\ past \in TlsPast
      /\ tls.state = "new" /\ t = TlsCloser
  BY RoundBasics, CallBasics
<1>2. /\ net' \in TlsNet /\ s.state = tls.state /\ s.compatible = tls.compatible
      /\ tlsAt[t].place \in {"calls", "receiving"}
      /\ s.bio \o net'.records = Tls!Unread
  BY DEF Rounds, tls, net, tlsAt
<1>3. CASE s.bio = <<>> /\ s.eof
  BY <1>3, RaggedEndHolds DEF Tls!HandshakeRound
<1>4. CASE s.bio = <<>> /\ ~s.eof
  <2> DEFINE z == [s EXCEPT !.made = IF @ = 0 THEN 1 ELSE @]
  <2>1. Tls!Then(t, z, "receive", <<>>)
    BY <1>4 DEF Tls!HandshakeRound
  <2>2. /\ z \in TlsState /\ z.state = tls.state /\ z.compatible = tls.compatible
        /\ z.made >= tls.made /\ z.bio = s.bio
    BY <1>1, <1>2 DEF TlsState
  <2> HIDE DEF z
  <2>3. Rounds(t, z, FALSE)
    BY <1>2, <2>2 DEF Rounds, tls, net, tlsAt
  <2> QED
    BY <2>1, <2>3, ThenHolds
<1>5. CASE s.bio # <<>>
  <2> DEFINE z == [s EXCEPT !.bio = Tail(@), !.made = @ + 1]
  <2>1. Tls!Then(t, z, "result", <<>>)
    BY <1>5 DEF Tls!HandshakeRound
  <2>2. /\ s.bio \in Seq(Record) /\ Tls!Unread # <<>> /\ Tls!Unread[1] = Head(s.bio)
        /\ Tail(s.bio) \in Seq(Record) /\ Tail(s.bio) \o net'.records = Tail(Tls!Unread)
    BY <1>5, BufferIsNext
  <2>3. /\ z \in TlsState /\ z.state = tls.state /\ z.compatible = tls.compatible
        /\ z.made > tls.made /\ z.made >= tls.made /\ z.bio = Tail(s.bio)
    <3>1. s.made + 1 \in Nat /\ s.made + 1 >= tls.made /\ s.made + 1 > tls.made
      BY <1>1
    <3>2. z \in TlsState
      BY <1>1, <2>2, <3>1 DEF TlsState
    <3>3. z.made = s.made + 1 /\ z.state = s.state /\ z.compatible = s.compatible
          /\ z.bio = Tail(s.bio)
      BY <1>1 DEF TlsState
    <3> QED
      BY <1>2, <3>1, <3>2, <3>3
  <2> HIDE DEF z
  <2>4. Tls!Unread[1].kind # "notify"
    <3>1. ~Shaken
      BY <1>1, <1>2 DEF Shaken, tlsAt
    <3>2. Tls!Taken = 0 /\ UnreadFits(Tls!Unread, Tls!Taken)
      BY <1>1, <3>1 DEF TlsInv, ReadFits, tls
    <3>3. Len(Tls!Unread) \in Nat /\ Len(Tls!Unread) > 0
      BY <2>2, CallBasics, LenProperties, EmptySeq
    <3>4. Tls!Unread[1] = Tls!Nth(1)
      BY <3>2, <3>3 DEF UnreadFits
    <3> QED
      BY <3>4 DEF Tls!Nth, Tls!Hello
  <2>5. Rounds(t, z, TRUE)
    BY <1>2, <2>2, <2>3, <2>4 DEF Rounds, tls, net, tlsAt
  <2> QED
    BY <2>1, <2>3, <2>5, ThenHolds
<1> QED
  BY <1>3, <1>4, <1>5

\* unwrap()
LEMMA UnwrapRoundHolds ==
  ASSUME TlsInv, NEW t \in Tls!TlsTask, NEW s, Rounds(t, s, FALSE),
         tlsAt[t].call = "unwrap", s.made = tls.made, Tls!UnwrapRound(t, s)
  PROVE  TlsInv'
<1> HIDE DEF tls, net, past, tlsAt
<1> DEFINE told == [s EXCEPT !.notified = TRUE, !.made = IF s.notified THEN @ ELSE @ + 1]
<1>1. /\ s \in TlsState /\ tls.made \in Nat /\ past \in TlsPast
  BY RoundBasics, CallBasics
<1>2. /\ net' \in TlsNet /\ s.state = tls.state /\ s.compatible = tls.compatible
      /\ tlsAt[t].place \in {"calls", "receiving"}
      /\ s.bio \o net'.records = Tls!Unread
  BY DEF Rounds, tls, net, tlsAt
<1>3. /\ told \in TlsState /\ told.state = tls.state /\ told.compatible = tls.compatible
      /\ told.made >= tls.made /\ told.bio = s.bio
  <2> DEFINE k == IF s.notified THEN s.made ELSE s.made + 1
  <2>1. k \in Nat /\ k >= tls.made
    BY <1>1
  <2>2. told = [s EXCEPT !.notified = TRUE, !.made = k]
    BY <1>1 DEF TlsState
  <2> HIDE DEF k, told
  <2>3. /\ told \in TlsState /\ told.made = k /\ told.state = s.state
        /\ told.compatible = s.compatible /\ told.bio = s.bio
    BY <1>1, <2>1, <2>2 DEF TlsState
  <2> QED
    BY <1>2, <2>1, <2>3
<1>4. \/ s.bio # <<>> /\ Tls!Then(t, told, "result", <<>>)
      \/ s.bio # <<>> /\ Tls!Done(t, told, "raised") /\ past' = past
      \/ s.bio = <<>> /\ Tls!RaggedEnd(t, told)
      \/ s.bio = <<>> /\ Tls!Then(t, told, "receive", <<>>)
  BY DEF Tls!UnwrapRound, past
<1> HIDE DEF told
<1>5. Rounds(t, told, FALSE)
  BY <1>2, <1>3 DEF Rounds, tls, net, tlsAt
<1>6. CASE Tls!Then(t, told, "result", <<>>)
  BY <1>5, <1>6, ThenHolds
<1>7. CASE Tls!Then(t, told, "receive", <<>>)
  BY <1>5, <1>7, ThenHolds
<1>8. CASE Tls!RaggedEnd(t, told)
  BY <1>5, <1>8, RaggedEndHolds
<1>9. CASE Tls!Done(t, told, "raised") /\ past' = past
  <2>1. tls.compatible /\ "EndOfStream" \in past.ends => past.notify
    BY DEF TlsInv, Tls!NoTruncation, tls, past
  <2> QED
    BY <1>1, <1>5, <1>9, <2>1, RoundEnds
<1> QED
  BY <1>4, <1>6, <1>7, <1>8, <1>9

LEMMA OneRoundHolds ==
  ASSUME TlsInv, NEW t \in Tls!TlsTask, NEW s, Rounds(t, s, FALSE), s.made = tls.made,
         Tls!OneRound(t, s)
  PROVE  TlsInv'
<1> HIDE DEF tls, net, past, tlsAt
<1>1. tlsAt[t].call \in {"read", "write", "handshake", "unwrap"}
  <2>1. CallFits(tlsAt[t], t, tls.state) /\ tlsAt[t].place # "quiet"
    BY CallBasics, RoundBasics
  <2> QED
    BY <2>1, TlsNames DEF CallFits
<1>2. CASE tlsAt[t].call = "read"
  <2>1. Tls!ReadRound(t, s)
    BY <1>2 DEF Tls!OneRound, tlsAt
  <2> QED
    BY <1>2, <2>1, ReadRoundHolds
<1>3. CASE tlsAt[t].call = "handshake"
  <2>1. Tls!HandshakeRound(t, s)
    BY <1>3 DEF Tls!OneRound, tlsAt
  <2> QED
    BY <1>3, <2>1, HandshakeRoundHolds
<1>4. CASE tlsAt[t].call = "unwrap"
  <2>1. Tls!UnwrapRound(t, s)
    BY <1>4 DEF Tls!OneRound, tlsAt
  <2> QED
    BY <1>4, <2>1, UnwrapRoundHolds
<1>5. CASE tlsAt[t].call = "write"
  <2> DEFINE z == [s EXCEPT !.made = @ + 1]
  <2>1. Tls!Then(t, z, "result", <<>>)
    BY <1>5 DEF Tls!OneRound, tlsAt
  <2>2. s \in TlsState /\ tls.made \in Nat
    BY RoundBasics
  <2>3. /\ net' \in TlsNet /\ s.state = tls.state /\ s.compatible = tls.compatible
        /\ tlsAt[t].place \in {"calls", "receiving"}
        /\ s.bio \o net'.records = Tls!Unread
    BY DEF Rounds, tls, net, tlsAt
  <2>4. /\ z \in TlsState /\ z.state = tls.state /\ z.compatible = tls.compatible
        /\ z.made >= tls.made /\ z.bio = s.bio
    <3>1. s.made \in Nat /\ s.made + 1 \in Nat /\ s.made + 1 >= tls.made
      BY <2>2
    <3>2. z \in TlsState
      BY <2>2, <3>1 DEF TlsState
    <3>3. z.made = s.made + 1 /\ z.state = s.state /\ z.compatible = s.compatible
          /\ z.bio = s.bio
      BY <2>2 DEF TlsState
    <3> QED
      BY <2>3, <3>1, <3>2, <3>3
  <2> HIDE DEF z
  <2>5. Rounds(t, z, FALSE)
    BY <2>3, <2>4 DEF Rounds, tls, net, tlsAt
  <2> QED
    BY <1>5, <2>1, <2>5, ThenHolds
<1> QED
  BY <1>1, <1>2, <1>3, <1>4, <1>5

LEMMA FirstRoundHolds ==
  ASSUME TlsInv, NEW t \in Tls!TlsTask, Tls!FirstRound(t)
  PROVE  TlsInv'
<1>1. tlsAt[t].place = "calls" /\ Tls!OneRound(t, tls) /\ net' = net
  BY DEF Tls!FirstRound
<1> HIDE DEF tls, net, past, tlsAt
<1>2. tls \in TlsState /\ net \in TlsNet
  BY CallBasics
<1>3. Tls!Unread = tls.bio \o net.records
  BY DEF Tls!Unread, tls, net
<1>4. tls.made >= tls.made
  BY <1>2 DEF TlsState
<1>5. Rounds(t, tls, FALSE)
  BY <1>1, <1>2, <1>3, <1>4 DEF Rounds, tls, net, tlsAt
<1> QED
  BY <1>1, <1>5, OneRoundHolds

LEMMA ReceivedHolds ==
  ASSUME TlsInv, NEW t \in Tls!TlsTask, Tls!Received(t)
  PROVE  TlsInv'
<1>1. /\ tlsAt[t].place = "receiving"
      /\ \/ /\ net.records # <<>>
            /\ net' = [net EXCEPT !.records = Tail(@)]
            /\ Tls!OneRound(t, [tls EXCEPT !.bio = Append(@, Head(net.records))])
         \/ /\ Tls!OneRound(t, [tls EXCEPT !.eof = TRUE])
            /\ net' = net
  BY DEF Tls!Received
<1> HIDE DEF tls, net, past, tlsAt
<1>2. tls \in TlsState /\ net \in TlsNet /\ tls.bio \in Seq(Record) /\ net.records \in Seq(Record)
  BY CallBasics
<1>3. Tls!Unread = tls.bio \o net.records
  BY DEF Tls!Unread, tls, net
<1>4. tls.made >= tls.made
  BY <1>2 DEF TlsState
<1>5. CASE /\ net.records # <<>>
           /\ net' = [net EXCEPT !.records = Tail(@)]
           /\ Tls!OneRound(t, [tls EXCEPT !.bio = Append(@, Head(net.records))])
  <2> DEFINE z == [tls EXCEPT !.bio = Append(@, Head(net.records))]
  <2>1. Head(net.records) \in Record /\ Tail(net.records) \in Seq(Record)
    BY <1>2, <1>5, HeadTailProperties
  <2>2. net' \in TlsNet /\ net'.records = Tail(net.records)
    BY <1>2, <1>5, <2>1 DEF TlsNet
  <2>3. Append(tls.bio, Head(net.records)) \in Seq(Record)
    BY <1>2, <2>1, AppendProperties
  <2>4. /\ z \in TlsState /\ z.state = tls.state /\ z.compatible = tls.compatible
        /\ z.made = tls.made /\ z.bio = Append(tls.bio, Head(net.records))
    BY <1>2, <2>3 DEF TlsState
  <2>5. Tls!OneRound(t, z)
    BY <1>5
  <2> HIDE DEF z
  <2>6. z.bio \o net'.records = Tls!Unread
    BY <1>2, <1>3, <1>5, <2>2, <2>4, HeadMoves
  <2>7. Rounds(t, z, FALSE)
    BY <1>1, <1>4, <2>2, <2>4, <2>6 DEF Rounds, tls, net, tlsAt
  <2> QED
    BY <2>4, <2>5, <2>7, OneRoundHolds
<1>6. CASE Tls!OneRound(t, [tls EXCEPT !.eof = TRUE]) /\ net' = net
  <2> DEFINE z == [tls EXCEPT !.eof = TRUE]
  <2>1. /\ z \in TlsState /\ z.state = tls.state /\ z.compatible = tls.compatible
        /\ z.made = tls.made /\ z.bio = tls.bio
    BY <1>2 DEF TlsState
  <2>2. Tls!OneRound(t, z)
    BY <1>6
  <2> HIDE DEF z
  <2>3. Rounds(t, z, FALSE)
    BY <1>1, <1>2, <1>3, <1>4, <1>6, <2>1 DEF Rounds, tls, net, tlsAt
  <2> QED
    BY <2>1, <2>2, <2>3, OneRoundHolds
<1> QED
  BY <1>1, <1>5, <1>6

\* Who is not sending carries nothing.
LEMMA OneFlushes ==
  ASSUME TlsInv, NEW t \in Tls!TlsTask, tlsAt[t].place = "flushing"
  PROVE  \A u \in Tls!TlsTask : u # t => tlsAt[u].carries = <<>> /\ tlsAt[u].data = <<>>
<1> HIDE DEF tls, net, past, tlsAt
<1>1. ASSUME NEW u \in Tls!TlsTask, u # t
      PROVE  tlsAt[u].carries = <<>> /\ tlsAt[u].data = <<>>
  <2>1. tlsAt[u].place # "flushing" /\ CallFits(tlsAt[u], u, tls.state)
    BY <1>1 DEF TlsInv, CallsFit
  <2> QED
    BY <2>1 DEF CallFits
<1> QED
  BY <1>1

\* An await of the transport ends the call.
LEMMA CallEnds ==
  ASSUME TlsInv, NEW t \in Tls!TlsTask, tlsAt[t].place \in {"flushing", "receiving"},
         NEW how, Tls!Done(t, tls, how), net' = net, past' \in TlsPast,
         past'.peer = past.peer, past'.notify = past.notify, past'.ends = past.ends,
         tls.state = "new" /\ how = "returned" => Shaken,
         tls'.state = "open" /\ ~past'.dropped => GotFits(past'.got, tlsAt', Tls!Taken - 1),
         RecordsSent'
  PROVE  TlsInv'
<1> HIDE DEF tls, net, past, tlsAt
<1>1. /\ tls \in TlsState /\ net \in TlsNet /\ tlsAt[t].place # "quiet"
  BY CallBasics
<1>2. /\ tlsAt' = [tlsAt EXCEPT ![t] = Tls!Quiet]
      /\ tls' \in TlsState /\ tls'.bio = tls.bio /\ tls'.made = tls.made
      /\ tls'.compatible = tls.compatible
      /\ tls'.state = (IF tls.state = "new" THEN IF how = "returned" THEN "open" ELSE "over"
                       ELSE IF tlsAt[t].call = "unwrap" THEN "over" ELSE tls.state)
      /\ tls.state = "new" => t = TlsCloser
  BY <1>1, DoneIs
<1>3. TlsTypes' /\ CallsFit'
  BY <1>1, <1>2, QuietIs, CallMoves
<1>4. Tls!Unread' = Tls!Unread
  <2>1. Tls!Unread' = tls'.bio \o net'.records /\ Tls!Unread = tls.bio \o net.records
    BY DEF Tls!Unread, tls, net
  <2> QED
    BY <1>2, <2>1
<1>5. UnreadFits(Tls!Unread, Tls!Taken)' /\ Tls!Taken \in Nat /\ Tls!Taken' = Tls!Taken
  BY <1>4, ReadMoves
<1>6. ReadFits'
  <2>1. tls'.state # "new"
    BY <1>2
  <2>2. tls'.state = "open" => tls.state = "open" \/ (tls.state = "new" /\ Shaken)
    BY <1>2
  <2> QED
    BY <1>5, <2>1, <2>2, ReadHolds
<1>7. DataKept'
  BY <1>5 DEF DataKept
<1>8. Tls!NoTruncation'
  <2>1. Tls!NoTruncation
    BY DEF TlsInv
  <2> QED
    BY <1>2, <2>1 DEF Tls!NoTruncation, tls, past
<1> QED
  BY <1>3, <1>6, <1>7, <1>8 DEF TlsInv

LEMMA FlushedHolds ==
  ASSUME TlsInv, NEW t \in Tls!TlsTask, Tls!Flushed(t)
  PROVE  TlsInv'
<1>1. /\ tlsAt[t].place = "flushing"
      /\ past' = [past EXCEPT !.sent = @ \o tlsAt[t].carries, !.got = @ \o tlsAt[t].data]
      /\ IF tlsAt[t].then = "result" THEN Tls!Done(t, tls, "returned") ELSE Tls!Receives(t, tls)
      /\ net' = net
  BY DEF Tls!Flushed
<1> HIDE DEF tls, net, past, tlsAt
<1> DEFINE went == tlsAt[t].carries
           held == tlsAt[t].data
<1>2. /\ tls \in TlsState /\ net \in TlsNet /\ past \in TlsPast /\ tlsAt[t] \in TlsCall
      /\ tlsAt \in [Tls!TlsTask -> TlsCall]
      /\ CallFits(tlsAt[t], t, tls.state) /\ past.sent \in Seq(Nat) /\ past.got \in Seq(Nat)
  BY CallBasics
<1>3. /\ went \in Seq(Nat) /\ held \in Seq(Nat) /\ went # <<>>
      /\ held # <<>> => tlsAt[t].then = "result" /\ t \in TlsReader /\ Len(held) = 1
      /\ tls.state = "new" => t = TlsCloser
  BY <1>1, <1>2 DEF TlsCall, CallFits
<1>4. past.sent \o went \in Seq(Nat) /\ past.got \o held \in Seq(Nat)
  BY <1>2, <1>3, ConcatProperties
<1>5. /\ past' \in TlsPast /\ past'.peer = past.peer /\ past'.notify = past.notify
      /\ past'.sent = past.sent \o went /\ past'.got = past.got \o held /\ past'.lossy = past.lossy
      /\ past'.dropped = past.dropped /\ past'.ends = past.ends
  BY <1>1, <1>2, <1>4 DEF TlsPast
<1>6. \A u \in Tls!TlsTask : u # t => tlsAt[u].carries = <<>> /\ tlsAt[u].data = <<>>
  BY <1>1, OneFlushes
<1>7. SentFits(past.sent, tlsAt, tls.made) /\ tls.made \in Nat
  BY <1>2 DEF TlsInv, RecordsSent, TlsState
<1>8. ASSUME \A u \in Tls!TlsTask : tlsAt'[u].carries = <<>>
      PROVE  /\ SentFits(past'.sent, tlsAt', tls.made)
             /\ AllSent(past.sent, tlsAt, tls.made) => AllSent(past'.sent, tlsAt', tls.made)
  <2>1. PICK after : after = tlsAt'
    OBVIOUS
  <2>2. \A u \in Tls!TlsTask : after[u].carries = <<>>
    BY <1>8, <2>1
  <2>3. /\ SentFits(past.sent \o went, after, tls.made)
        /\ AllSent(past.sent, tlsAt, tls.made) => AllSent(past.sent \o went, after, tls.made)
    BY <1>2, <1>3, <1>7, <2>2, SentGone
  <2> QED
    BY <1>5, <2>1, <2>3
<1>9. ASSUME NEW how \in {"returned", "busy"}, Tls!Done(t, tls, how),
             how = "returned" => tlsAt[t].then = "result"
      PROVE  TlsInv'
  <2>1. /\ tlsAt' = [tlsAt EXCEPT ![t] = Tls!Quiet]
        /\ tls'.made = tls.made
        /\ tls'.state = (IF tls.state = "new" THEN IF how = "returned" THEN "open" ELSE "over"
                         ELSE IF tlsAt[t].call = "unwrap" THEN "over" ELSE tls.state)
    BY <1>1, <1>2, <1>9, DoneIs
  <2>2. /\ tlsAt'[t] = Tls!Quiet /\ \A u \in Tls!TlsTask : u # t => tlsAt'[u] = tlsAt[u]
    BY <1>2, <2>1
  <2>3. \A u \in Tls!TlsTask : tlsAt'[u].carries = <<>> /\ tlsAt'[u].data = <<>>
    BY <1>6, <2>2, QuietIs
  <2>4. tls.state = "new" /\ how = "returned" => Shaken
    BY <1>1, <1>3, <1>9 DEF Shaken, tlsAt
  <2>5. ASSUME tls'.state = "open", ~past'.dropped
        PROVE  GotFits(past'.got, tlsAt', Tls!Taken - 1)
    <3>1. CASE tls.state = "open"
      <4>1. GotFits(past.got, tlsAt, Tls!Taken - 1)
        BY <1>5, <2>5, <3>1 DEF TlsInv, DataKept
      <4>2. Tls!Taken \in Nat /\ Tls!Taken >= 1
        BY <3>1 DEF TlsInv, ReadFits, UnreadFits
      <4>3. Tls!Taken - 1 \in Nat
        BY <4>2
      <4>4. CASE held = <<>>
        <5>1. past'.got = past.got
          BY <1>2, <1>5, <4>4
        <5>2. \A u \in TlsReader : tlsAt'[u].data = tlsAt[u].data
          BY <1>6, <2>3, <4>4, TlsNames
        <5> QED
          BY <4>1, <5>1, <5>2, GotSame
      <4>5. CASE held # <<>>
        <5> DEFINE k == held[1]
        <5>1. k \in Nat /\ held = <<k>> /\ t \in TlsReader
          BY <1>3, <4>5
        <5> HIDE DEF k
        <5>2. past'.got = Append(past.got, k)
          BY <1>2, <1>5, <5>1, AppendIsConcat
        <5>3. /\ tlsAt'[t].data = <<>>
              /\ \A u \in TlsReader : u # t => tlsAt[u].data = <<>> /\ tlsAt'[u].data = <<>>
          BY <1>6, <2>3, TlsNames
        <5>4. PICK after : after = tlsAt'
          OBVIOUS
        <5>5. GotFits(Append(past.got, k), after, Tls!Taken - 1)
          BY <1>2, <4>1, <4>3, <5>1, <5>3, <5>4, GotGiven
        <5> QED
          BY <5>2, <5>4, <5>5
      <4> QED
        BY <4>4, <4>5
    <3>2. CASE tls.state # "open"
      <4>1. tls.state = "new" /\ Shaken /\ t = TlsCloser
        BY <1>3, <2>1, <2>4, <2>5, <3>2
      <4>2. Tls!Taken = 1 /\ past.got = <<>>
        BY <4>1 DEF TlsInv, ReadFits
      <4>3. held = <<>>
        BY <1>3, <4>1, TlsNames
      <4>4. past'.got = <<>> /\ Len(<<>>) = 0 /\ Tls!Taken - 1 = 0
        BY <1>5, <4>2, <4>3, EmptySeq
      <4>5. \A u \in TlsReader : tlsAt'[u].data = <<>>
        BY <2>3, TlsNames
      <4>6. GotFits(<<>>, tlsAt', 0)
        BY <4>4, <4>5 DEF GotFits
      <4> QED
        BY <4>4, <4>6
    <3> QED
      BY <3>1, <3>2
  <2>6. RecordsSent'
    <3>1. /\ SentFits(past'.sent, tlsAt', tls.made)
          /\ AllSent(past.sent, tlsAt, tls.made) => AllSent(past'.sent, tlsAt', tls.made)
      BY <1>8, <2>3
    <3>2. tls'.state # "over" /\ ~past'.lossy => AllSent(past.sent, tlsAt, tls.made)
      BY <1>5, <2>1 DEF TlsInv, RecordsSent
    <3> QED
      BY <2>1, <3>1, <3>2 DEF RecordsSent
  <2> QED
    BY <1>1, <1>5, <1>9, <2>4, <2>5, <2>6, CallEnds
<1>10. CASE tlsAt[t].then = "result"
  BY <1>1, <1>9, <1>10
<1>11. CASE tlsAt[t].then # "result" /\ Tls!Busy("receiving", t)
  <2>1. Tls!Done(t, tls, "busy")
    BY <1>1, <1>11 DEF Tls!Receives
  <2> QED
    BY <1>9, <2>1
<1>12. CASE tlsAt[t].then # "result" /\ ~Tls!Busy("receiving", t)
  <2>1. /\ tlsAt' = [tlsAt EXCEPT ![t].place = "receiving", ![t].carries = <<>>]
        /\ tls' = tls
    <3> USE DEF tls, tlsAt
    <3> QED
      BY <1>1, <1>12 DEF Tls!Receives
  <2>2. held = <<>> /\ past'.got = past.got
    <3>1. held = <<>>
      BY <1>3, <1>12
    <3> QED
      BY <1>2, <1>5, <3>1
  <2>3. \A u \in Tls!TlsTask : tlsAt'[u].carries = <<>>
    BY <1>2, <1>6, <2>1 DEF TlsCall
  <2>4. tls.state = "new" => ~Shaken
    BY <1>3, <1>12 DEF Shaken, tlsAt
  <2>5. Tls!Unread = tls.bio \o net.records
    BY DEF Tls!Unread, tls, net
  <2> QED
    BY <1>1, <1>2, <1>5, <1>8, <2>1, <2>2, <2>3, <2>4, <2>5, CallWaits
<1> QED
  BY <1>10, <1>11, <1>12

LEMMA CallFailsHolds ==
  ASSUME TlsInv, NEW t \in Tls!TlsTask, Tls!CallFails(t)
  PROVE  TlsInv'
<1> DEFINE went == tlsAt[t].carries
           held == tlsAt[t].data
           kept == held # <<>>
           some == went # <<>>
<1>1. /\ tlsAt[t].place \in {"flushing", "receiving"} /\ Tls!Done(t, tls, "raised")
      /\ net' = net
      /\ past' \in {[[past EXCEPT !.dropped = @ \/ kept] EXCEPT !.lossy = @ \/ some],
                    [[past EXCEPT !.dropped = @ \/ kept] EXCEPT !.sent = @ \o went]}
  BY DEF Tls!CallFails
<1> HIDE DEF tls, net, past, tlsAt
<1>2. /\ tls \in TlsState /\ past \in TlsPast /\ tlsAt[t] \in TlsCall
      /\ tlsAt \in [Tls!TlsTask -> TlsCall]
      /\ CallFits(tlsAt[t], t, tls.state) /\ past.sent \in Seq(Nat) /\ past.got \in Seq(Nat)
      /\ \A u \in Tls!TlsTask : tlsAt[u].carries \in Seq(Nat)
  BY CallBasics
<1>3. /\ went \in Seq(Nat) /\ kept \in BOOLEAN /\ some \in BOOLEAN
      /\ some => tlsAt[t].place = "flushing"
  BY <1>2 DEF TlsCall, CallFits
<1>4. past.sent \o went \in Seq(Nat)
  BY <1>2, <1>3, ConcatProperties
<1> HIDE DEF kept, some
<1>5. (past.dropped \/ kept) \in BOOLEAN /\ (past.lossy \/ some) \in BOOLEAN
  OBVIOUS
<1>6. /\ past' \in TlsPast /\ past'.peer = past.peer /\ past'.notify = past.notify
      /\ past'.got = past.got /\ past'.ends = past.ends
      /\ past'.dropped = (past.dropped \/ kept)
      /\ \/ past'.lossy = (past.lossy \/ some) /\ past'.sent = past.sent
         \/ past'.lossy = past.lossy /\ past'.sent = past.sent \o went
  <2>1. CASE past' = [[past EXCEPT !.dropped = @ \/ kept] EXCEPT !.lossy = @ \/ some]
    BY <1>2, <1>5, <2>1 DEF TlsPast
  <2>2. CASE past' = [[past EXCEPT !.dropped = @ \/ kept] EXCEPT !.sent = @ \o went]
    BY <1>2, <1>4, <1>5, <2>2 DEF TlsPast
  <2> QED
    BY <1>1, <2>1, <2>2
<1>7. /\ tlsAt' = [tlsAt EXCEPT ![t] = Tls!Quiet]
      /\ tls'.made = tls.made
      /\ tls'.state = IF tls.state = "new" \/ tlsAt[t].call = "unwrap" THEN "over"
                      ELSE tls.state
  BY <1>1, <1>2, DoneIs, SMTT(30)
<1>8. /\ tlsAt'[t] = Tls!Quiet /\ \A u \in Tls!TlsTask : u # t => tlsAt'[u] = tlsAt[u]
  BY <1>2, <1>7
<1>9. ASSUME tls'.state = "open", ~past'.dropped
      PROVE  GotFits(past'.got, tlsAt', Tls!Taken - 1)
  <2>1. tls.state = "open" /\ ~past.dropped /\ held = <<>>
    BY <1>6, <1>7, <1>9 DEF kept
  <2>2. GotFits(past.got, tlsAt, Tls!Taken - 1)
    BY <2>1 DEF TlsInv, DataKept
  <2>3. \A u \in TlsReader : tlsAt'[u].data = tlsAt[u].data
    BY <1>8, <2>1, QuietIs, TlsNames
  <2> QED
    BY <1>6, <2>2, <2>3, GotSame
<1>10. RecordsSent'
  <2>1. SentFits(past.sent, tlsAt, tls.made) /\ tls.made \in Nat
    BY <1>2 DEF TlsInv, RecordsSent, TlsState
  <2>2. tls'.state # "over" /\ ~past'.lossy => AllSent(past.sent, tlsAt, tls.made)
    BY <1>6, <1>7 DEF TlsInv, RecordsSent
  <2>3. PICK after : after = tlsAt'
    OBVIOUS
  <2>4. after[t].carries = <<>> /\ \A u \in Tls!TlsTask : u # t => after[u].carries = tlsAt[u].carries
    BY <1>8, <2>3, QuietIs
  <2>5. CASE past'.sent = past.sent /\ past'.lossy = (past.lossy \/ some)
    <3>1. SentFits(past.sent, after, tls.made)
      BY <1>2, <2>1, <2>4, SentSame
    <3>2. ~some => went = <<>>
      BY DEF some
    <3>3. ~past'.lossy => \A u \in Tls!TlsTask : after[u].carries = tlsAt[u].carries
      BY <2>4, <2>5, <3>2
    <3>4. tls'.state # "over" /\ ~past'.lossy => AllSent(past.sent, after, tls.made)
      BY <2>2, <3>3 DEF AllSent
    <3> QED
      BY <1>7, <2>3, <2>5, <3>1, <3>4 DEF RecordsSent
  <2>6. CASE past'.sent = past.sent \o went /\ some
    <3>1. went # <<>>
      BY <2>6 DEF some
    <3>2. \A u \in Tls!TlsTask : after[u].carries = <<>>
      BY <1>3, <2>4, <2>6, OneFlushes
    <3>3. /\ SentFits(past.sent \o went, after, tls.made)
          /\ AllSent(past.sent, tlsAt, tls.made) => AllSent(past.sent \o went, after, tls.made)
      BY <1>2, <1>3, <2>1, <3>1, <3>2, SentGone
    <3> QED
      BY <1>7, <2>2, <2>3, <2>6, <3>3 DEF RecordsSent
  <2>7. CASE past'.sent = past.sent \o went /\ past'.lossy = past.lossy /\ ~some
    <3>1. went = <<>>
      BY <2>7 DEF some
    <3>2. past.sent \o <<>> = past.sent
      BY <1>2
    <3>3. past'.sent = past.sent
      BY <2>7, <3>1, <3>2
    <3>4. past.lossy \in BOOLEAN
      BY <1>2 DEF TlsPast
    <3>5. past'.lossy = (past.lossy \/ some)
      BY <2>7, <3>4
    <3> QED
      BY <2>5, <3>3, <3>5
  <2> QED
    BY <1>6, <2>5, <2>6, <2>7
<1> QED
  BY <1>1, <1>6, <1>9, <1>10, CallEnds

\* wrap(), receive(), send() and aclose() begin.
LEMMA StartHolds ==
  ASSUME TlsInv, NEW t \in Tls!TlsTask, Tls!StartTls(t)
  PROVE  TlsInv'
<1>1. /\ tlsAt[t] = Tls!Quiet
      /\ tls.state = "open" \/ (tls.state = "new" /\ t = TlsCloser)
      /\ tlsAt' = [tlsAt EXCEPT ![t].place = "calls", ![t].call = Tls!CallOf(t)]
      /\ tls' = tls /\ net' = net /\ past' = past
  BY DEF Tls!StartTls
<1>2. Tls!CallOf(t) = IF t \in TlsReader THEN "read" ELSE IF t \in TlsWriter THEN "write"
                      ELSE IF tls.state = "new" THEN "handshake" ELSE "unwrap"
  BY TlsNames DEF Tls!CallOf
<1> HIDE DEF tls, net, past, tlsAt
<1> DEFINE x == [Tls!Quiet EXCEPT !.place = "calls", !.call = Tls!CallOf(t)]
<1>3. /\ tls \in TlsState /\ net \in TlsNet /\ past \in TlsPast
      /\ tlsAt \in [Tls!TlsTask -> TlsCall]
  BY CallBasics
<1>4. tlsAt' = [tlsAt EXCEPT ![t] = x]
  BY <1>1, <1>3
<1>5. /\ x \in TlsCall /\ x.place = "calls" /\ x.call = Tls!CallOf(t) /\ x.carries = <<>>
      /\ x.data = <<>>
  BY <1>2, EmptySeq DEF Tls!Quiet, TlsCall
<1> HIDE DEF x
<1>6. CallFits(x, t, tls'.state)
  BY <1>1, <1>2, <1>5, TlsNames DEF CallFits
<1>7. /\ TlsTypes' /\ CallsFit' /\ tlsAt'[t] = x
      /\ \A u \in Tls!TlsTask : u # t => tlsAt'[u] = tlsAt[u]
  BY <1>1, <1>3, <1>4, <1>5, <1>6, CallMoves
<1>8. \A u \in Tls!TlsTask : tlsAt'[u].carries = tlsAt[u].carries
                             /\ tlsAt'[u].data = tlsAt[u].data
  BY <1>1, <1>5, <1>7, QuietIs
<1>9. Tls!Unread' = Tls!Unread /\ Tls!Taken' = Tls!Taken
  BY <1>1 DEF Tls!Unread, Tls!Taken, tls, net, past
<1>10. Shaken' <=> Shaken
  <2>1. /\ Shaken' <=> tlsAt'[TlsCloser].place = "flushing" /\ tlsAt'[TlsCloser].then = "result"
        /\ Shaken <=> tlsAt[TlsCloser].place = "flushing" /\ tlsAt[TlsCloser].then = "result"
    BY DEF Shaken, tlsAt
  <2> QED
    BY <1>1, <1>5, <1>7, <2>1, QuietIs, TlsNames
<1>11. ReadFits'
  <2>1. TlsTypes /\ UnreadFits(Tls!Unread, Tls!Taken)
    BY DEF TlsInv, ReadFits
  <2>2. UnreadFits(Tls!Unread, Tls!Taken)'
    BY <1>1, <1>9, <2>1, ReadStays
  <2>3. /\ tls.state = "new" => Tls!Taken = (IF Shaken THEN 1 ELSE 0) /\ past.got = <<>>
        /\ tls.state = "open" => Tls!Taken >= 1
    BY DEF TlsInv, ReadFits
  <2> HIDE DEF Shaken
  <2> QED
    BY <1>1, <1>9, <1>10, <2>2, <2>3 DEF ReadFits
<1>12. DataKept'
  <2>1. SUFFICES ASSUME tls'.state = "open", ~past'.dropped
                 PROVE  GotFits(past'.got, tlsAt', Tls!Taken' - 1)
    BY DEF DataKept
  <2>2. GotFits(past.got, tlsAt, Tls!Taken - 1)
    BY <1>1, <2>1 DEF TlsInv, DataKept
  <2>3. GotFits(past.got, tlsAt', Tls!Taken - 1)
    BY <1>8, <2>2, TlsNames, GotSame
  <2> QED
    BY <1>1, <1>9, <2>3
<1>13. RecordsSent'
  <2>1. SentFits(past.sent, tlsAt, tls.made)
    BY DEF TlsInv, RecordsSent
  <2>2. SentFits(past.sent, tlsAt', tls.made)
    BY <1>8, <2>1 DEF SentFits
  <2>3. tls.state # "over" /\ ~past.lossy => AllSent(past.sent, tlsAt', tls.made)
    BY <1>8 DEF TlsInv, RecordsSent, AllSent
  <2> QED
    BY <1>1, <2>2, <2>3 DEF RecordsSent
<1>14. Tls!NoTruncation'
  BY <1>1 DEF TlsInv, Tls!NoTruncation, tls, past
<1> QED
  BY <1>7, <1>11, <1>12, <1>13, <1>14 DEF TlsInv

\* What does not touch the calls leaves what they carry.
LEMMA CallsStay ==
  ASSUME TlsInv, tlsAt' = tlsAt, tls' \in TlsState, net' \in TlsNet, past' \in TlsPast,
         tls'.made = tls.made, tls'.compatible = tls.compatible,
         tls'.state # tls.state => tls'.state = "over" /\ tls.state # "new",
         past'.sent = past.sent, past'.got = past.got, past'.lossy = past.lossy,
         past'.dropped = past.dropped, past'.ends = past.ends, past.notify => past'.notify,
         UnreadFits(Tls!Unread, Tls!Taken)', Tls!Taken' = Tls!Taken
  PROVE  TlsInv'
<1> HIDE DEF tls, net, past, tlsAt
<1>1. TlsTypes'
  BY DEF TlsInv, TlsTypes
<1>2. CallsFit'
  <2>1. \A u \in Tls!TlsTask : CallFits(tlsAt[u], u, tls.state)
    BY DEF TlsInv, CallsFit
  <2>2. \A u \in Tls!TlsTask : CallFits(tlsAt[u], u, tls'.state)
    <3>1. CASE tls'.state = tls.state
      BY <2>1, <3>1
    <3>2. CASE tls'.state # tls.state
      BY <2>1, <3>2 DEF CallFits
    <3> QED
      BY <3>1, <3>2
  <2> QED
    BY <2>2 DEF TlsInv, CallsFit
<1>3. Shaken' <=> Shaken
  BY DEF Shaken, tlsAt
<1>4. ReadFits'
  <2>1. /\ tls.state = "new" => Tls!Taken = (IF Shaken THEN 1 ELSE 0) /\ past.got = <<>>
        /\ tls.state = "open" => Tls!Taken >= 1
    BY DEF TlsInv, ReadFits
  <2> HIDE DEF Shaken
  <2>2. tls'.state = "new" => tls.state = "new"
    OBVIOUS
  <2>3. tls'.state = "open" => tls.state = "open"
    OBVIOUS
  <2> QED
    BY <1>3, <2>1, <2>2, <2>3 DEF ReadFits
<1>5. DataKept'
  <2>1. tls'.state = "open" => tls.state = "open"
    OBVIOUS
  <2> QED
    BY <2>1 DEF TlsInv, DataKept
<1>6. RecordsSent'
  <2>1. tls'.state # "over" => tls.state # "over"
    OBVIOUS
  <2> QED
    BY <2>1 DEF TlsInv, RecordsSent
<1>7. Tls!NoTruncation'
  BY DEF TlsInv, Tls!NoTruncation, tls, past
<1> QED
  BY <1>1, <1>2, <1>4, <1>5, <1>6, <1>7 DEF TlsInv

LEMMA ClosePlainlyHolds ==
  ASSUME TlsInv, Tls!ClosePlainly
  PROVE  TlsInv'
<1>1. /\ tls.state = "open" /\ tls' = [tls EXCEPT !.closed = TRUE, !.state = "over"]
      /\ tlsAt' = tlsAt /\ net' = net /\ past' = past
  BY DEF Tls!ClosePlainly
<1> HIDE DEF tls, net, past, tlsAt
<1>2. /\ tls \in TlsState /\ net \in TlsNet /\ past \in TlsPast
  BY CallBasics, TlsNames
<1>3. /\ tls' \in TlsState /\ tls'.state = "over" /\ tls'.made = tls.made
      /\ tls'.compatible = tls.compatible /\ tls'.bio = tls.bio
  BY <1>1, <1>2 DEF TlsState
<1>4. Tls!Unread' = Tls!Unread
  BY <1>1, <1>3 DEF Tls!Unread, tls, net
<1>5. Tls!Taken' = Tls!Taken
  BY <1>1, <1>4 DEF Tls!Taken, past
<1>6. UnreadFits(Tls!Unread, Tls!Taken)'
  <2>1. TlsTypes /\ UnreadFits(Tls!Unread, Tls!Taken)
    BY DEF TlsInv, ReadFits
  <2> QED
    BY <1>1, <1>4, <2>1, ReadStays
<1> QED
  BY <1>1, <1>2, <1>3, <1>5, <1>6, CallsStay

LEMMA PeerEndsHolds ==
  ASSUME TlsInv, Tls!PeerEnds
  PROVE  TlsInv'
<1>1. /\ net' = [net EXCEPT !.ended = TRUE] /\ tls' = tls /\ tlsAt' = tlsAt /\ past' = past
  BY DEF Tls!PeerEnds
<1> HIDE DEF tls, net, past, tlsAt
<1>2. /\ tls \in TlsState /\ net \in TlsNet /\ past \in TlsPast
  BY CallBasics, TlsNames
<1>3. net' \in TlsNet /\ net'.records = net.records
  BY <1>1, <1>2 DEF TlsNet
<1>4. Tls!Unread' = Tls!Unread
  BY <1>1, <1>3 DEF Tls!Unread, tls, net
<1>5. Tls!Taken' = Tls!Taken
  BY <1>1, <1>4 DEF Tls!Taken, past
<1>6. UnreadFits(Tls!Unread, Tls!Taken)'
  <2>1. TlsTypes /\ UnreadFits(Tls!Unread, Tls!Taken)
    BY DEF TlsInv, ReadFits
  <2> QED
    BY <1>1, <1>4, <2>1, ReadStays
<1> QED
  BY <1>1, <1>2, <1>3, <1>5, <1>6, CallsStay

LEMMA PeerSendsHolds ==
  ASSUME TlsInv, Tls!PeerSendsRecord
  PROVE  TlsInv'
<1> DEFINE data == IF past.peer = 0 THEN Tls!Hello ELSE [kind |-> "data", n |-> past.peer]
<1>1. /\ ~past.notify /\ tls' = tls /\ tlsAt' = tlsAt
      /\ \/ /\ net' = [net EXCEPT !.records = Append(@, data)]
            /\ past' = [past EXCEPT !.peer = @ + 1]
         \/ /\ past.peer > 0
            /\ net' = [net EXCEPT !.records = Append(@, Tls!Notify)]
            /\ past' = [past EXCEPT !.notify = TRUE]
  BY DEF Tls!PeerSendsRecord
<1> HIDE DEF tls, net, past, tlsAt
<1> DEFINE q == Tls!Unread
           k == Tls!Taken
           p == past.peer
<1>2. /\ tls \in TlsState /\ net \in TlsNet /\ past \in TlsPast
      /\ tls.bio \in Seq(Record) /\ net.records \in Seq(Record) /\ q \in Seq(Record)
  BY CallBasics, TlsNames
<1>3. /\ p \in Nat /\ k \in 0..p /\ k \in Nat /\ Len(q) \in Nat /\ Len(q) + k = p
      /\ \A i \in 1..Len(q) : q[i] = Tls!Nth(k + i)
  BY <1>1, <1>2, LenProperties DEF TlsInv, ReadFits, UnreadFits, TlsPast
<1>4. PICK new \in Record :
        /\ net' = [net EXCEPT !.records = Append(@, new)]
        /\ \/ new = data /\ past' = [past EXCEPT !.peer = @ + 1]
           \/ new = Tls!Notify /\ past.peer > 0 /\ past' = [past EXCEPT !.notify = TRUE]
  <2>1. data \in Record /\ Tls!Notify \in Record
    BY <1>3 DEF Record, Tls!Hello, Tls!Notify
  <2> QED
    BY <1>1, <2>1
<1>5. net' \in TlsNet /\ net'.records = Append(net.records, new)
  BY <1>2, <1>4, AppendProperties DEF TlsNet
<1>6. Tls!Unread' = Append(q, new)
  <2>1. Tls!Unread' = tls.bio \o Append(net.records, new) /\ q = tls.bio \o net.records
    BY <1>1, <1>5 DEF Tls!Unread, tls, net
  <2>2. tls.bio \o Append(net.records, new) = Append(tls.bio \o net.records, new)
    <3>1. tls.bio \in Seq(Record) /\ net.records \in Seq(Record) /\ new \in Record
      BY <1>2
    <3>2. \A r, w \in Seq(Record), x \in Record : r \o Append(w, x) = Append(r \o w, x)
      BY LastComes
    <3> QED
      BY <3>1, <3>2
  <2> QED
    BY <2>1, <2>2
<1>7. /\ past' \in TlsPast /\ past'.sent = past.sent /\ past'.got = past.got
      /\ past'.lossy = past.lossy /\ past'.dropped = past.dropped /\ past'.ends = past.ends
      /\ \/ new = data /\ past'.peer = p + 1 /\ past'.notify = FALSE
         \/ new = Tls!Notify /\ p > 0 /\ past'.peer = p /\ past'.notify = TRUE
  <2>1. CASE new = data /\ past' = [past EXCEPT !.peer = @ + 1]
    <3>1. p + 1 \in Nat
      BY <1>3
    <3>2. past.notify = FALSE
      BY <1>1, <1>2 DEF TlsPast
    <3> QED
      BY <1>2, <2>1, <3>1, <3>2 DEF TlsPast
  <2>2. CASE new = Tls!Notify /\ past.peer > 0 /\ past' = [past EXCEPT !.notify = TRUE]
    BY <1>2, <2>2 DEF TlsPast
  <2> QED
    BY <1>4, <2>1, <2>2
<1>8. /\ Append(q, new) \in Seq(Record) /\ Len(Append(q, new)) = Len(q) + 1
      /\ Append(q, new)[Len(q) + 1] = new
      /\ \A i \in 1..Len(q) : Append(q, new)[i] = q[i]
  BY <1>2, AppendProperties
<1>9. Tls!Taken' = k
  BY <1>3, <1>6, <1>7, <1>8 DEF Tls!Taken, past
<1> DEFINE r == Append(q, new)
           N(j) == IF j = 1 THEN Tls!Hello
                   ELSE IF j > 1 /\ j <= p THEN [kind |-> "data", n |-> j - 1] ELSE Tls!Notify
           M(j) == IF j = 1 THEN Tls!Hello
                   ELSE IF j > 1 /\ j <= past'.peer THEN [kind |-> "data", n |-> j - 1]
                   ELSE Tls!Notify
<1>10. \A j \in Nat : Tls!Nth(j) = N(j) /\ Tls!Nth(j)' = M(j)
  BY DEF Tls!Nth, past
<1>11. \A i \in 1..Len(r) : r[i] = M(k + i)
  <2>1. ASSUME NEW i \in 1..Len(q) PROVE r[i] = M(k + i)
    <3>1. k + i \in Nat /\ k + i <= p /\ (p <= past'.peer) /\ p \in Nat /\ past'.peer \in Nat
      BY <1>3, <1>7
    <3>2. r[i] = N(k + i)
      BY <1>3, <1>8, <1>10, <3>1
    <3> QED
      BY <3>1, <3>2
  <2>2. new = M(k + (Len(q) + 1))
    <3>1. k + (Len(q) + 1) = p + 1
      BY <1>3
    <3>2. new = M(p + 1)
      <4>1. CASE new = data /\ past'.peer = p + 1
        BY <1>3, <4>1
      <4>2. CASE new = Tls!Notify /\ p > 0 /\ past'.peer = p
        BY <1>3, <4>2
      <4> QED
        BY <1>7, <4>1, <4>2
    <3> QED
      BY <3>1, <3>2
  <2>3. r[Len(q) + 1] = new
    BY <1>8
  <2>4. \A i \in 1..Len(r) : i \in 1..Len(q) \/ i = Len(q) + 1
    BY <1>3, <1>8
  <2> HIDE DEF q, k, r, M
  <2> QED
    BY <2>1, <2>2, <2>3, <2>4
<1>13. UnreadFits(Tls!Unread, Tls!Taken)'
  <2> HIDE DEF q, k, p, data, M, N
  <2>1. /\ past'.notify => past'.peer > 0
        /\ k \in 0..past'.peer
        /\ Len(r) + k = past'.peer + (IF past'.notify THEN 1 ELSE 0)
    BY <1>3, <1>7, <1>8
  <2>2. \A i \in 1..Len(r) : k + i \in Nat
    BY <1>3
  <2>3. \A i \in 1..Len(r) : r[i] = Tls!Nth(Tls!Taken + i)'
    BY <1>9, <1>10, <1>11, <2>2
  <2> HIDE DEF r
  <2>4. Tls!Unread' = r
    BY <1>6 DEF r
  <2> QED
    BY <1>9, <2>1, <2>3, <2>4 DEF UnreadFits
<1>12. ~past.notify
  BY <1>1
<1> QED
  BY <1>1, <1>2, <1>5, <1>7, <1>9, <1>12, <1>13, CallsStay

LEMMA NextTls == TlsInv /\ [Tls!TlsNext]_(Tls!tlsVars) => TlsInv'
<1> SUFFICES ASSUME TlsInv, [Tls!TlsNext]_(Tls!tlsVars) PROVE TlsInv'
  OBVIOUS
<1>1. CASE Tls!PeerSendsRecord
  BY <1>1, PeerSendsHolds
<1>2. CASE Tls!PeerEnds
  BY <1>2, PeerEndsHolds
<1>3. CASE Tls!ClosePlainly
  BY <1>3, ClosePlainlyHolds
<1>4. ASSUME NEW t \in Tls!TlsTask, Tls!StartTls(t) PROVE TlsInv'
  BY <1>4, StartHolds
<1>5. ASSUME NEW t \in Tls!TlsTask, Tls!FirstRound(t) PROVE TlsInv'
  BY <1>5, FirstRoundHolds
<1>6. ASSUME NEW t \in Tls!TlsTask, Tls!Flushed(t) PROVE TlsInv'
  BY <1>6, FlushedHolds
<1>7. ASSUME NEW t \in Tls!TlsTask, Tls!Received(t) PROVE TlsInv'
  BY <1>7, ReceivedHolds
<1>8. ASSUME NEW t \in Tls!TlsTask, Tls!CallFails(t) PROVE TlsInv'
  BY <1>8, CallFailsHolds
<1>9. CASE UNCHANGED Tls!tlsVars
  <2>1. tls' = tls /\ tlsAt' = tlsAt /\ net' = net /\ past' = past
    BY <1>9 DEF Tls!tlsVars
  <2> HIDE DEF tls, net, past, tlsAt
  <2>2. /\ tls \in TlsState /\ net \in TlsNet /\ past \in TlsPast
    BY CallBasics, TlsNames
  <2>3. Tls!Unread' = Tls!Unread /\ Tls!Taken' = Tls!Taken
    BY <2>1 DEF Tls!Unread, Tls!Taken, tls, net, past
  <2>4. UnreadFits(Tls!Unread, Tls!Taken)'
    <3>1. TlsTypes /\ UnreadFits(Tls!Unread, Tls!Taken)
      BY DEF TlsInv, ReadFits
    <3> QED
      BY <2>1, <2>3, <3>1, ReadStays
  <2> QED
    BY <2>1, <2>2, <2>3, <2>4, CallsStay
<1> QED
  BY <1>1, <1>2, <1>3, <1>4, <1>5, <1>6, <1>7, <1>8, <1>9 DEF Tls!TlsNext

LEMMA TlsHolds == TlsInv => Tls!RecordsInOrder /\ Tls!NoTruncation
<1> SUFFICES ASSUME TlsInv PROVE Tls!RecordsInOrder
  BY DEF TlsInv
<1> HIDE DEF tls, net, past, tlsAt
<1> DEFINE q == Tls!Unread
           k == Tls!Taken
           h == past.got
           s == past.sent
<1>1. /\ q \in Seq(Record) /\ h \in Seq(Nat) /\ s \in Seq(Nat)
      /\ \A t \in Tls!TlsTask : tlsAt[t].carries \in Seq(Nat)
  BY CallBasics, TlsNames
<1>2. DOMAIN q = 1..Len(q) /\ DOMAIN h = 1..Len(h) /\ DOMAIN s = 1..Len(s)
  BY <1>1, LenProperties
<1>3. \A i \in DOMAIN q : q[i] = Tls!Nth(k + i)
  BY <1>2 DEF TlsInv, ReadFits, UnreadFits
<1>4. ASSUME tls.state = "open", ~past.dropped
      PROVE  /\ Tls!IsInjective(h) /\ \A i \in DOMAIN h : h[i] \in 1..(k - 1)
             /\ \A n \in 1..(k - 1) :
                  (\E i \in DOMAIN h : h[i] = n) <=> ~\E t \in TlsReader : tlsAt[t].data = <<n>>
             /\ (\A t, u \in TlsReader : t = u) => \A i \in DOMAIN h : h[i] = i
  <2>1. GotFits(h, tlsAt, k - 1)
    BY <1>4 DEF TlsInv, DataKept
  <2>2. Tls!IsInjective(h)
    BY <1>2, <2>1 DEF GotFits, Tls!IsInjective
  <2> QED
    BY <1>2, <2>1, <2>2 DEF GotFits
<1>5. \A i, j \in DOMAIN s : i < j => s[i] < s[j]
  BY <1>2 DEF TlsInv, RecordsSent, SentFits
<1>6. tls.state # "over" /\ ~past.lossy /\ (\A t \in Tls!TlsTask : tlsAt[t].carries = <<>>)
        => Len(s) = tls.made
  BY DEF TlsInv, RecordsSent, AllSent
<1> QED
  BY <1>3, <1>4, <1>5, <1>6 DEF Tls!RecordsInOrder, tls, tlsAt, past

-----------------------------------------------------------------------------
(* Signals: what a receiver returned and what it has queued is what came.    *)

handler == a
receivers == b
arrived == c
heard == d
displaced == e

USE DEF handler, receivers, arrived, heard, displaced

ReceiverState ==
  [state : {"new", "entered", "left"}, queue : Seq(Nat),
   future : {"pending", "done", "cancelled"}, place : {"out", "checkpoint", "waiting"}]
HeardState == [came : Seq(Nat), got : Seq(Nat)]

\* One receiver
Hears(x, h) ==
  /\ h.got \o x.queue = h.came
  /\ x.place = "waiting" => (x.queue = <<>> <=> x.future = "pending")
  /\ x.place # "out" => x.state = "entered"

SignalInv ==
  /\ handler \in Receiver \union {NoReceiver} /\ arrived \in Nat
  /\ receivers \in [Receiver -> ReceiverState] /\ heard \in [Receiver -> HeardState]
  /\ \A r \in Receiver : Hears(receivers[r], heard[r])
  /\ \A r \in Receiver : receivers[r].state = "entered" => handler = r \/ r \in displaced

\* The handler stays, or the receiver that it is taken from is noted.
HandlerMoves ==
  /\ handler' \in Receiver \union {NoReceiver}
  /\ displaced \subseteq displaced' /\ (handler' = handler \/ handler \in displaced')

LEMMA InitSignals == Signals!SignalInit => SignalInv
<1> SUFFICES ASSUME Signals!SignalInit PROVE SignalInv
  OBVIOUS
<1>1. <<>> \in Seq(Nat) /\ <<>> \o <<>> = <<>>
  OBVIOUS
<1>2. /\ handler = NoReceiver /\ arrived = 0
      /\ receivers \in [Receiver -> ReceiverState] /\ heard \in [Receiver -> HeardState]
      /\ \A r \in Receiver : /\ receivers[r].queue = <<>> /\ receivers[r].place = "out"
                             /\ receivers[r].state = "new"
                             /\ heard[r].came = <<>> /\ heard[r].got = <<>>
  BY <1>1 DEF Signals!SignalInit, ReceiverState, HeardState
<1> QED
  BY <1>1, <1>2 DEF SignalInv, Hears

\* A step of one receiver
LEMMA ReceiverStep ==
  ASSUME SignalInv, NEW r \in Receiver, NEW x \in ReceiverState, NEW h \in HeardState,
         receivers' = [receivers EXCEPT ![r] = x], heard' = [heard EXCEPT ![r] = h],
         HandlerMoves, x.state = "entered" => receivers[r].state = "entered" \/ handler' = r,
         arrived' \in Nat, Hears(x, h)
  PROVE  SignalInv'
<1>1. /\ receivers \in [Receiver -> ReceiverState] /\ heard \in [Receiver -> HeardState]
  BY DEF SignalInv
<1>2. /\ receivers'[r] = x /\ heard'[r] = h
      /\ \A u \in Receiver : u # r => receivers'[u] = receivers[u] /\ heard'[u] = heard[u]
      /\ receivers' \in [Receiver -> ReceiverState] /\ heard' \in [Receiver -> HeardState]
  BY <1>1
<1>3. \A u \in Receiver : receivers'[u].state = "entered" => handler' = u \/ u \in displaced'
  BY <1>2 DEF SignalInv, HandlerMoves
<1> QED
  BY <1>2, <1>3 DEF SignalInv, HandlerMoves

\* A step that leaves the queue and the history alone
LEMMA PlaceStep ==
  ASSUME SignalInv, NEW r \in Receiver, NEW x \in ReceiverState,
         receivers' = [receivers EXCEPT ![r] = x], heard' = heard,
         HandlerMoves, x.state = "entered" => receivers[r].state = "entered" \/ handler' = r,
         arrived' = arrived, x.queue = receivers[r].queue,
         x.place # "out" => x.state = "entered",
         x.place = "waiting" => (x.queue = <<>> <=> x.future = "pending")
  PROVE  SignalInv'
<1>1. /\ heard' = [heard EXCEPT ![r] = heard[r]] /\ heard[r] \in HeardState
      /\ Hears(receivers[r], heard[r]) /\ arrived' \in Nat
  BY DEF SignalInv
<1>2. Hears(x, heard[r])
  BY <1>1 DEF Hears
<1> QED
  BY <1>1, <1>2, ReceiverStep

LEMMA NextSignals == SignalInv /\ [Signals!SignalNext]_(Signals!signalVars) => SignalInv'
<1> SUFFICES ASSUME SignalInv, [Signals!SignalNext]_(Signals!signalVars) PROVE SignalInv'
  OBVIOUS
<1>1. /\ handler \in Receiver \union {NoReceiver} /\ arrived \in Nat
      /\ \A r \in Receiver : /\ receivers[r] \in ReceiverState /\ heard[r] \in HeardState
                             /\ Hears(receivers[r], heard[r])
      /\ receivers \in [Receiver -> ReceiverState] /\ heard \in [Receiver -> HeardState]
      /\ handler' = handler /\ displaced' = displaced => HandlerMoves
      /\ handler' \in Receiver \union {NoReceiver} /\ displaced' = displaced \union {handler}
           => HandlerMoves
  BY DEF SignalInv, HandlerMoves
<1>2. ASSUME NEW r \in Receiver, Signals!EnterReceiver(r) PROVE SignalInv'
  <2> DEFINE x == [receivers[r] EXCEPT !.state = "entered"]
  <2>1. /\ x \in ReceiverState /\ x.queue = receivers[r].queue /\ x.place = receivers[r].place
        /\ x.future = receivers[r].future /\ receivers' = [receivers EXCEPT ![r] = x]
        /\ heard' = heard /\ arrived' = arrived /\ handler' = r /\ HandlerMoves
        /\ x.state = "entered"
    BY <1>1, <1>2 DEF Signals!EnterReceiver, ReceiverState
  <2> QED
    BY <1>1, <2>1, PlaceStep DEF Hears
<1>3. ASSUME NEW r \in Receiver, Signals!ExitReceiver(r) PROVE SignalInv'
  <2> DEFINE x == [receivers[r] EXCEPT !.state = "left"]
  <2>1. /\ x \in ReceiverState /\ x.queue = receivers[r].queue /\ x.place = receivers[r].place
        /\ x.future = receivers[r].future /\ receivers' = [receivers EXCEPT ![r] = x]
        /\ heard' = heard /\ arrived' = arrived /\ HandlerMoves
        /\ x.state # "entered" /\ x.place = "out"
    BY <1>1, <1>3 DEF Signals!ExitReceiver, ReceiverState
  <2> QED
    BY <1>1, <2>1, PlaceStep DEF Hears
<1>4. ASSUME NEW r \in Receiver, Signals!StartNext(r) PROVE SignalInv'
  <2> DEFINE x == [receivers[r] EXCEPT !.place = "checkpoint"]
  <2>1. /\ x \in ReceiverState /\ x.queue = receivers[r].queue /\ x.place = "checkpoint"
        /\ receivers' = [receivers EXCEPT ![r] = x]
        /\ x.state = receivers[r].state /\ x.state = "entered"
        /\ heard' = heard /\ arrived' = arrived /\ HandlerMoves
    BY <1>1, <1>4 DEF Signals!StartNext, ReceiverState
  <2> QED
    BY <1>1, <2>1, PlaceStep
<1>5. ASSUME NEW r \in Receiver, Signals!WaitForSignal(r) PROVE SignalInv'
  <2> DEFINE x == [receivers[r] EXCEPT !.place = "waiting", !.future = "pending"]
  <2>1. /\ x \in ReceiverState /\ x.queue = receivers[r].queue /\ x.queue = <<>>
        /\ x.future = "pending" /\ receivers' = [receivers EXCEPT ![r] = x]
        /\ x.state = receivers[r].state /\ x.state = "entered"
        /\ heard' = heard /\ arrived' = arrived /\ HandlerMoves
    BY <1>1, <1>5 DEF Signals!WaitForSignal, Signals!FreshFuture, ReceiverState, Hears
  <2> QED
    BY <1>1, <2>1, PlaceStep
<1>6. ASSUME NEW r \in Receiver, Signals!NextCancelled(r) PROVE SignalInv'
  <2> DEFINE fut == IF receivers[r].place = "waiting" /\ receivers[r].future = "pending"
                    THEN "cancelled" ELSE receivers[r].future
             x == [receivers[r] EXCEPT !.place = "out", !.future = fut]
  <2>1. fut \in {"pending", "done", "cancelled"}
    BY <1>1 DEF ReceiverState
  <2>2. /\ receivers' = [receivers EXCEPT ![r] = x]
        /\ heard' = heard /\ arrived' = arrived /\ HandlerMoves
    BY <1>1, <1>6 DEF Signals!NextCancelled
  <2> HIDE DEF fut
  <2>3. /\ x \in ReceiverState /\ x.queue = receivers[r].queue /\ x.place = "out"
        /\ x.state = receivers[r].state
    BY <1>1, <2>1 DEF ReceiverState
  <2> QED
    BY <1>1, <2>2, <2>3, PlaceStep
<1>7. ASSUME NEW r \in Receiver, Signals!EndNext(r) PROVE SignalInv'
  <2> DEFINE q == receivers[r].queue
             g1 == heard[r].got
             x == [receivers[r] EXCEPT !.place = "out", !.queue = Tail(q)]
             h == [heard[r] EXCEPT !.got = Append(g1, Head(q))]
  <2>1. /\ receivers' = [receivers EXCEPT ![r] = x] /\ heard' = [heard EXCEPT ![r] = h]
        /\ arrived' = arrived /\ HandlerMoves /\ q # <<>>
    BY <1>1, <1>7 DEF Signals!EndNext
  <2>2. q \in Seq(Nat) /\ g1 \in Seq(Nat)
    BY <1>1 DEF ReceiverState, HeardState
  <2>3. /\ Tail(q) \in Seq(Nat) /\ Append(g1, Head(q)) \in Seq(Nat)
        /\ Append(g1, Head(q)) \o Tail(q) = g1 \o q
    <3> HIDE DEF q, g1
    <3>1. Head(q) \in Nat /\ Tail(q) \in Seq(Nat) /\ <<Head(q)>> \in Seq(Nat)
      BY <2>1, <2>2, HeadTailProperties
    <3>2. Append(g1, Head(q)) = g1 \o <<Head(q)>> /\ Append(g1, Head(q)) \in Seq(Nat)
      BY <2>2, <3>1, AppendIsConcat, AppendProperties
    <3>3. (g1 \o <<Head(q)>>) \o Tail(q) = g1 \o (<<Head(q)>> \o Tail(q))
      <4>1. \A u, v, w \in Seq(Nat) : (u \o v) \o w = u \o (v \o w)
        BY ConcatAssociative, SMTT(30)
      <4> QED
        BY <2>2, <3>1, <4>1, Zenon
    <3>4. <<Head(q)>> \o Tail(q) = q
      BY <2>1, <2>2
    <3> QED
      BY <3>1, <3>2, <3>3, <3>4, Zenon
  <2>4. /\ x \in ReceiverState /\ x.queue = Tail(q) /\ x.place = "out"
        /\ x.state = receivers[r].state
        /\ h \in HeardState /\ h.got = Append(g1, Head(q)) /\ h.came = heard[r].came
    BY <1>1, <2>3 DEF ReceiverState, HeardState
  <2>5. Hears(x, h)
    BY <1>1, <2>3, <2>4 DEF Hears
  <2> QED
    BY <1>1, <2>1, <2>4, <2>5, ReceiverStep
<1>8. ASSUME Signals!Deliver PROVE SignalInv'
  <2> DEFINE r == handler
             n == arrived + 1
             q == receivers[r].queue
             fut == IF receivers[r].future = "pending" THEN "done" ELSE receivers[r].future
             x == [receivers[r] EXCEPT !.queue = Append(q, n), !.future = fut]
             h == [heard[r] EXCEPT !.came = Append(heard[r].came, n)]
  <2>0. r \in Receiver /\ n \in Nat
    BY <1>1, <1>8 DEF Signals!Deliver
  <2>1. /\ receivers' = [receivers EXCEPT ![r] = x] /\ heard' = [heard EXCEPT ![r] = h]
        /\ arrived' = n /\ HandlerMoves
    BY <1>1, <1>8, <2>0 DEF Signals!Deliver
  <2>2. /\ receivers[r] \in ReceiverState /\ heard[r] \in HeardState
        /\ Hears(receivers[r], heard[r])
        /\ q \in Seq(Nat) /\ heard[r].got \in Seq(Nat) /\ heard[r].came \in Seq(Nat)
    BY <1>1, <2>0 DEF ReceiverState, HeardState
  <2>3. fut \in {"done", "cancelled"}
    BY <2>2 DEF ReceiverState
  <2>4. heard[r].got \o Append(q, n) = Append(heard[r].came, n)
    <3>1. <<n>> \in Seq(Nat)
      BY <2>0
    <3>2. Append(q, n) = q \o <<n>> /\ Append(heard[r].came, n) = heard[r].came \o <<n>>
      BY <2>0, <2>2, AppendIsConcat
    <3>3. (heard[r].got \o q) \o <<n>> = heard[r].got \o (q \o <<n>>)
      <4>1. \A u, v, w \in Seq(Nat) : (u \o v) \o w = u \o (v \o w)
        BY ConcatAssociative, SMTT(30)
      <4> QED
        BY <2>2, <3>1, <4>1, Zenon
    <3>4. heard[r].got \o q = heard[r].came
      BY <2>2 DEF Hears
    <3> QED
      BY <3>2, <3>3, <3>4, Zenon
  <2>5. Append(q, n) \in Seq(Nat) /\ Append(q, n) # <<>> /\ Append(heard[r].came, n) \in Seq(Nat)
    <3>1. Len(Append(q, n)) # 0 /\ Append(q, n) \in Seq(Nat)
      BY <2>0, <2>2, AppendProperties, LenProperties
    <3>2. Append(heard[r].came, n) \in Seq(Nat)
      BY <2>0, <2>2, AppendProperties
    <3> QED
      BY <3>1, <3>2, EmptySeq
  <2> HIDE DEF fut, q, n
  <2>6. /\ x \in ReceiverState /\ x.queue = Append(q, n) /\ x.future = fut
        /\ x.state = receivers[r].state /\ x.place = receivers[r].place
        /\ h \in HeardState /\ h.got = heard[r].got /\ h.came = Append(heard[r].came, n)
    BY <2>2, <2>3, <2>5 DEF ReceiverState, HeardState
  <2>7. Hears(x, h)
    BY <2>2, <2>3, <2>4, <2>5, <2>6 DEF Hears
  <2> QED
    BY <1>1, <2>0, <2>1, <2>6, <2>7, ReceiverStep
<1>9. CASE UNCHANGED Signals!signalVars
  BY <1>1, <1>9 DEF Signals!signalVars, SignalInv
<1> QED
  BY <1>2, <1>3, <1>4, <1>5, <1>6, <1>7, <1>8, <1>9 DEF Signals!SignalNext

LEMMA SignalsHold == SignalInv => Signals!SignalsHeard
BY DEF SignalInv, Hears, Signals!SignalsHeard

-----------------------------------------------------------------------------
(* A behaviour is one of the component that its initial state has chosen.    *)

SocketInv ==
  /\ component = "Stream" => StreamInv
  /\ component = "Buffered" => BufferInv
  /\ component = "Raw" => RawInv
  /\ component = "Udp" => UdpInv /\ OutIsOut
  /\ component = "Wait" => WaitInv
  /\ component = "Setup" => SetupInv
  /\ component = "Connect" => ConnectInv
  /\ component = "Listener" => ListenerInv
  /\ component = "Tls" => TlsInv
  /\ component = "Signals" => SignalInv

\* The first state is one of the component.
LEMMA InitSockets == SocketInit => SocketInv
<1> SUFFICES ASSUME SocketInit PROVE SocketInv
  OBVIOUS
<1>1. component = "Stream" => StreamInv
  <2>1. component = "Stream" => Stream!SocketInit
    BY DEF SocketInit
  <2> QED
    BY <2>1, InitStream
<1>2. component = "Buffered" => BufferInv
  <2>1. component = "Buffered" => Buffered!BufferInit
    BY DEF SocketInit
  <2> QED
    BY <2>1, InitBuffered
<1>3. component = "Raw" => RawInv
  <2>1. component = "Raw" => Raw!RawInit
    BY DEF SocketInit
  <2> QED
    BY <2>1, InitRaw
<1>4. component = "Udp" => UdpInv /\ OutIsOut
  <2>1. component = "Udp" => Udp!UdpInit
    BY DEF SocketInit
  <2> QED
    BY <2>1, InitUdp
<1>5. component = "Wait" => WaitInv
  <2>1. component = "Wait" => Wait!WaitInit
    BY DEF SocketInit
  <2> QED
    BY <2>1, InitWait
<1>6. component = "Setup" => SetupInv
  <2>1. component = "Setup" => Setup!SetupInit
    BY DEF SocketInit
  <2> QED
    BY <2>1, InitSetup
<1>7. component = "Connect" => ConnectInv
  <2>1. component = "Connect" => Connect!ConnectInit
    BY DEF SocketInit
  <2> QED
    BY <2>1, InitConnect
<1>8. component = "Listener" => ListenerInv
  <2>1. component = "Listener" => Listener!ListenerInit
    BY DEF SocketInit
  <2> QED
    BY <2>1, InitListener
<1>9. component = "Tls" => TlsInv
  <2>1. component = "Tls" => Tls!TlsInit
    BY DEF SocketInit
  <2> QED
    BY <2>1, InitTls
<1>10. component = "Signals" => SignalInv
  <2>1. component = "Signals" => Signals!SignalInit
    BY DEF SocketInit
  <2> QED
    BY <2>1, InitSignals
<1> QED
  BY <1>1, <1>2, <1>3, <1>4, <1>5, <1>6, <1>7, <1>8, <1>9, <1>10 DEF SocketInv

\* Every step is a step of the component, or leaves it alone.
LEMMA NextSockets == SocketInv /\ [SocketNext]_allVars => SocketInv'
<1> SUFFICES ASSUME SocketInv, [SocketNext]_allVars PROVE SocketInv'
  OBVIOUS
<1>0. component' = component
  BY DEF SocketNext, allVars
<1>1. component = "Stream" => StreamInv'
  <2>1. component = "Stream" => StreamInv /\ [Stream!SocketNext]_(Stream!streamVars)
    BY DEF SocketNext, allVars, Stream!streamVars, SocketInv
  <2> QED
    BY <2>1, NextStream
<1>2. component = "Buffered" => BufferInv'
  <2>1. component = "Buffered" => BufferInv /\ [Buffered!BufferNext]_(Buffered!bufferVars)
    BY DEF SocketNext, allVars, Buffered!bufferVars, SocketInv
  <2> QED
    BY <2>1, NextBuffered
<1>3. component = "Raw" => RawInv'
  <2>1. component = "Raw" => RawInv /\ [Raw!RawNext]_(Raw!rawVars)
    BY DEF SocketNext, allVars, Raw!rawVars, SocketInv
  <2> QED
    BY <2>1, NextRaw
<1>4. component = "Udp" => UdpInv' /\ OutIsOut'
  <2>1. component = "Udp" => UdpInv /\ OutIsOut /\ [Udp!UdpNext]_(Udp!udpVars)
    BY DEF SocketNext, allVars, Udp!udpVars, SocketInv
  <2> QED
    BY <2>1, NextUdp
<1>5. component = "Wait" => WaitInv'
  <2>1. component = "Wait" => WaitInv /\ [Wait!WaitNext]_(Wait!waitVars)
    BY DEF SocketNext, allVars, Wait!waitVars, SocketInv
  <2> QED
    BY <2>1, NextWait
<1>6. component = "Setup" => SetupInv'
  <2>1. component = "Setup" => SetupInv /\ [Setup!SetupNext]_(Setup!setupVars)
    BY DEF SocketNext, allVars, Setup!setupVars, SocketInv
  <2> QED
    BY <2>1, NextSetup
<1>7. component = "Connect" => ConnectInv'
  <2>1. component = "Connect" => ConnectInv /\ [Connect!ConnectNext]_(Connect!connectVars)
    BY DEF SocketNext, allVars, Connect!connectVars, SocketInv
  <2> QED
    BY <2>1, NextConnect
<1>8. component = "Listener" => ListenerInv'
  <2>1. component = "Listener" => ListenerInv /\ [Listener!ListenerNext]_(Listener!listenerVars)
    BY DEF SocketNext, allVars, Listener!listenerVars, SocketInv
  <2> QED
    BY <2>1, NextListener
<1>9. component = "Tls" => TlsInv'
  <2>1. component = "Tls" => TlsInv /\ [Tls!TlsNext]_(Tls!tlsVars)
    BY DEF SocketNext, allVars, Tls!tlsVars, SocketInv
  <2> QED
    BY <2>1, NextTls
<1>10. component = "Signals" => SignalInv'
  <2>1. component = "Signals" => SignalInv /\ [Signals!SignalNext]_(Signals!signalVars)
    BY DEF SocketNext, allVars, Signals!signalVars, SocketInv
  <2> QED
    BY <2>1, NextSignals
<1> QED
  BY <1>0, <1>1, <1>2, <1>3, <1>4, <1>5, <1>6, <1>7, <1>8, <1>9, <1>10 DEF SocketInv

LEMMA SocketInvHolds == SocketSpec => []SocketInv
BY InitSockets, NextSockets, PTL DEF SocketSpec

\* A socket stream and a buffered stream lose, double and reorder no byte: what the peer
\* sent comes out of receive() in order, up to the end of the stream, also when calls
\* are cancelled or the loop breaks the connection (StreamProtocol, SocketStream,
\* BufferedByteReceiveStream).
THEOREM BytesStayInOrder == SocketSpec => []BytesInOrder
<1>1. SocketInv => BytesInOrder
  BY StreamHolds, BufferHolds DEF SocketInv, BytesInOrder
<1> QED
  BY <1>1, SocketInvHolds, PTL

\* No task waits for what has come already: one that waits for a socket or a stream is
\* registered with the loop or has an event that is not set yet, and a close leaves
\* nobody behind (wait_socket_readable(), UNIXSocketStream); one that waits for a
\* signal is registered with the loop, unless another receiver has been entered or left
\* since it was entered and has taken the handler away (open_signal_receiver()).
THEOREM WaitersStayRegistered == SocketSpec => []WaitersAreWoken
<1>1. SocketInv => WaitersAreWoken
  BY StreamHolds, RawHolds, WaitHolds, BufferHolds, SignalsHold DEF SocketInv, WaitersAreWoken
<1> QED
  BY <1>1, SocketInvHolds, PTL

\* Items that UNIX sockets send arrive whole and in order, and each packet of a UDP
\* socket was received, is in the queue, or was pushed out of the full queue by a later
\* one (DatagramProtocol.datagram_received()).
THEOREM PacketsStayKept == SocketSpec => []PacketsKept
<1>1. SocketInv => PacketsKept
  BY RawHolds, UdpHolds DEF SocketInv, PacketsKept
<1> QED
  BY <1>1, SocketInvHolds, PTL

\* Whatever fails, loses or is cancelled, each socket that was made is handed to the
\* caller or closed, but for the cases that the properties of the modules name;
\* connect_tcp() leaves one stream open at most and fails only when each address has
\* refused, and each connection is given to one acceptor at most.
THEOREM SocketsComeToHands == SocketSpec => []SocketsHandedOn
<1>1. SocketInv => SocketsHandedOn
  BY SetupHolds, ConnectHolds, ListenerHolds DEF SocketInv, SocketsHandedOn
<1> QED
  BY <1>1, SocketInvHolds, PTL

\* TLSStream: the records of the peer are received in order, and only a receive() that
\* fails while it sends a reply takes one along; ours leave in the order in which they
\* were made, none skipped; and with the closing handshake a stream that was cut off is
\* not taken for one that has ended (_call_sslobject_method()).
THEOREM RecordsStayInOrder == SocketSpec => []RecordsInOrder
<1>1. SocketInv => RecordsInOrder
  BY TlsHolds DEF SocketInv, RecordsInOrder
<1> QED
  BY <1>1, SocketInvHolds, PTL
=============================================================================
