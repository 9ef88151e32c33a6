--------------------------- MODULE Slots_proofs ----------------------------
(***************************************************************************)
(* Proofs about Slots for any number of callers, any mix of cancellable    *)
(* and uncancellable ones and any sequence of limits.                      *)
(***************************************************************************)
EXTENDS Slots, FiniteSetTheorems, TLAPS

(* Taking one element out of a sequence keeps the others, in order.        *)
LEMMA RemoveOne ==
  ASSUME NEW S, NEW q \in Seq(S), NEW n \in 1..Len(q)
  PROVE  /\ RemoveAt(q, n) \in Seq(S) /\ Len(RemoveAt(q, n)) = Len(q) - 1
         /\ \A m \in 1..(Len(q) - 1) :
              RemoveAt(q, n)[m] = IF m < n THEN q[m] ELSE q[m + 1]
<1> DEFINE a == SubSeq(q, 1, n - 1)
           b == SubSeq(q, n + 1, Len(q))
<1>1. Len(q) \in Nat /\ n \in Nat
  OBVIOUS
<1>2. a \in Seq(S) /\ Len(a) = n - 1 /\ \A m \in 1..(n - 1) : a[m] = q[m]
  BY <1>1
<1>3. b \in Seq(S) /\ Len(b) = Len(q) - n /\ \A m \in 1..(Len(q) - n) : b[m] = q[m + n]
  BY <1>1
<1>4. RemoveAt(q, n) = a \o b
  BY DEF RemoveAt
<1> HIDE DEF a, b
<1>5. a \o b \in Seq(S) /\ Len(a \o b) = Len(q) - 1
  <2>1. a \o b \in Seq(S) /\ Len(a \o b) = Len(a) + Len(b)
    <3>1. a \in Seq(S) /\ b \in Seq(S)
      BY <1>2, <1>3
    <3> QED BY <3>1
  <2> QED BY <1>1, <1>2, <1>3, <2>1
<1>6. ASSUME NEW m \in 1..(Len(q) - 1) PROVE (a \o b)[m] = IF m < n THEN q[m] ELSE q[m + 1]
  <2>1. CASE m < n
    BY <1>1, <1>2, <1>3, <2>1
  <2>2. CASE ~ (m < n)
    <3>1. (a \o b)[m] = b[m - (n - 1)] /\ m - (n - 1) \in 1..(Len(q) - n)
      BY <1>1, <1>2, <1>3, <2>2
    <3>2. b[m - (n - 1)] = q[(m - (n - 1)) + n] /\ (m - (n - 1)) + n = m + 1
      BY <1>1, <1>3, <3>1
    <3> QED BY <2>2, <3>1, <3>2
  <2> QED BY <2>1, <2>2
<1> QED BY <1>4, <1>5, <1>6

-----------------------------------------------------------------------------

(* The inductive invariant: the queue is the waiting callers, the counter  *)
(* is the number of holders, and no slot is idle while the queue is not.   *)
Inv == TypeOK /\ QueueIsWaiters /\ SlotsAccounted /\ NoIdleSlot

(* What release does to each part of the state, given a holder c.          *)
LEMMA ReleaseKeeps ==
  ASSUME Inv, NEW c \in Callers, c \in Holders, Release(c), max' = max, cancelled' = cancelled
  PROVE  Inv'
<1> USE DEF Inv
<1>1. IsFiniteSet(Callers) /\ IsFiniteSet(Holders) /\ Holders \subseteq Callers
  BY SlotsAssumption, FS_Subset DEF Holders
<1>2. current \in Nat /\ current > 0 /\ current - 1 \in Nat
  <2>1. Cardinality(Holders) # 0 /\ Cardinality(Holders) \in Nat
    BY <1>1, FS_EmptySet, FS_CardinalityType
  <2> QED BY <2>1 DEF SlotsAccounted
<1>3. state \in [Callers -> States] /\ state[c] \in {"admitted", "running"}
  BY DEF TypeOK, Holders
<1>4. Cardinality(Holders \ {c}) = current - 1
  BY <1>1, <1>2, FS_RemoveElement DEF SlotsAccounted
<1>5. CASE Fits(current - 1, max) /\ queue # <<>>
  <2> DEFINE h == Head(queue)
  <2>1. /\ state' = [state EXCEPT ![c] = "over", ![h] = "admitted"]
        /\ queue' = Tail(queue) /\ current' = current
    BY <1>2, <1>5 DEF Release
  <2>2. queue \in Seq(Callers) /\ Len(queue) \in Nat /\ Len(queue) > 0 /\ h = queue[1]
    BY <1>5 DEF TypeOK
  <2>3. /\ queue' \in Seq(Callers) /\ Len(queue') = Len(queue) - 1
        /\ \A m \in 1..(Len(queue) - 1) : queue'[m] = queue[m + 1]
    BY <2>1, <2>2
  <2>4. h \in Callers /\ state[h] = "waiting" /\ h # c
    BY <1>3, <2>2 DEF QueueIsWaiters
  <2>5. TypeOK'
    BY <1>3, <2>1, <2>3, <2>4 DEF TypeOK, States
  <2>6. QueueIsWaiters'
    <3> HIDE DEF h
    <3>0. DOMAIN queue = 1..Len(queue) /\ DOMAIN queue' = 1..(Len(queue) - 1)
      BY <2>2, <2>3
    <3>1. IsInjective(queue')
      <4> SUFFICES ASSUME NEW m \in DOMAIN queue', NEW n \in DOMAIN queue',
                          queue'[m] = queue'[n]
                   PROVE  m = n
        BY DEF IsInjective
      <4>1. m + 1 \in DOMAIN queue /\ n + 1 \in DOMAIN queue /\ queue[m + 1] = queue[n + 1]
        BY <2>2, <2>3, <3>0
      <4>2. m + 1 = n + 1
        BY <4>1 DEF QueueIsWaiters, IsInjective
      <4> QED BY <2>2, <3>0, <4>2
    <3>2. ASSUME NEW d \in Callers
          PROVE  state'[d] = "waiting" <=> \E n \in DOMAIN queue' : queue'[n] = d
      <4>1. state'[d] = "waiting" <=> state[d] = "waiting" /\ d # h
        BY <1>3, <2>1, <2>4
      <4>2. (\E n \in DOMAIN queue' : queue'[n] = d)
              <=> \E n \in DOMAIN queue : n # 1 /\ queue[n] = d
        <5>1. ASSUME NEW n \in DOMAIN queue', queue'[n] = d
              PROVE  \E m \in DOMAIN queue : m # 1 /\ queue[m] = d
          <6>1. n + 1 \in DOMAIN queue /\ n + 1 # 1 /\ queue[n + 1] = d
            BY <2>2, <2>3, <3>0, <5>1
          <6> QED BY <6>1
        <5>2. ASSUME NEW n \in DOMAIN queue, n # 1, queue[n] = d
              PROVE  \E m \in DOMAIN queue' : queue'[m] = d
          <6>1. n - 1 \in DOMAIN queue' /\ queue'[n - 1] = d
            BY <2>2, <2>3, <3>0, <5>2
          <6> QED BY <6>1
        <5> QED BY <5>1, <5>2
      <4>3. (\E n \in DOMAIN queue : n # 1 /\ queue[n] = d) <=> state[d] = "waiting" /\ d # h
        BY <2>2, <3>0 DEF QueueIsWaiters, IsInjective
      <4> QED BY <4>1, <4>2, <4>3
    <3> QED BY <3>1, <3>2 DEF QueueIsWaiters
  <2>7. SlotsAccounted'
    <3>1. Holders' = (Holders \ {c}) \cup {h}
      BY <1>3, <2>1, <2>4 DEF Holders
    <3>2. h \notin Holders \ {c}
      BY <2>4 DEF Holders
    <3>3. IsFiniteSet(Holders \ {c})
      BY <1>1, FS_RemoveElement
    <3>4. Cardinality(Holders') = (current - 1) + 1
      <4> HIDE DEF h
      <4> QED BY <1>4, <3>1, <3>2, <3>3, FS_AddElement
    <3> QED BY <1>2, <2>1, <3>4 DEF SlotsAccounted
  <2>8. NoIdleSlot'
    BY <1>5, <2>1 DEF NoIdleSlot, Fits
  <2> QED BY <2>5, <2>6, <2>7, <2>8
<1>6. CASE ~ (Fits(current - 1, max) /\ queue # <<>>)
  <2>1. /\ state' = [state EXCEPT ![c] = "over"] /\ current' = current - 1
        /\ queue' = queue
    BY <1>2, <1>6 DEF Release
  <2>2. TypeOK'
    BY <1>2, <1>3, <2>1 DEF TypeOK, States
  <2>3. QueueIsWaiters'
    BY <1>3, <2>1 DEF QueueIsWaiters
  <2>4. SlotsAccounted'
    <3>1. Holders' = Holders \ {c}
      BY <1>3, <2>1 DEF Holders
    <3> QED BY <1>4, <2>1, <3>1 DEF SlotsAccounted
  <2>5. NoIdleSlot'
    BY <1>6, <2>1 DEF NoIdleSlot
  <2> QED BY <2>2, <2>3, <2>4, <2>5
<1> QED BY <1>5, <1>6

(* acquire either takes a free slot, or joins the end of a queue that is   *)
(* there for a reason.                                                     *)
LEMMA AcquireKeeps ==
  ASSUME Inv, NEW c \in Callers, Acquire(c)
  PROVE  Inv'
<1> USE DEF Inv
<1>1. IsFiniteSet(Callers) /\ IsFiniteSet(Holders) /\ Holders \subseteq Callers
  BY SlotsAssumption, FS_Subset DEF Holders
<1>2. state \in [Callers -> States] /\ state[c] = "new" /\ current \in Nat /\ queue \in Seq(Callers)
  BY DEF TypeOK, Acquire
<1>3. CASE state' = [state EXCEPT ![c] = "over"] /\ UNCHANGED <<current, queue, max, cancelled>>
  <2>1. Holders' = Holders
    BY <1>2, <1>3 DEF Holders
  <2>2. TypeOK'
    BY <1>2, <1>3 DEF TypeOK, States
  <2>3. QueueIsWaiters'
    BY <1>2, <1>3 DEF QueueIsWaiters
  <2> QED BY <1>3, <2>1, <2>2, <2>3 DEF SlotsAccounted, NoIdleSlot
<1>4. CASE /\ Fits(current, max) /\ state' = [state EXCEPT ![c] = "admitted"]
           /\ current' = current + 1 /\ UNCHANGED <<queue, max, cancelled>>
  <2>1. Holders' = Holders \cup {c} /\ c \notin Holders
    BY <1>2, <1>4 DEF Holders
  <2>2. Cardinality(Holders') = Cardinality(Holders) + 1
    BY <1>1, <2>1, FS_AddElement
  <2>3. TypeOK'
    BY <1>2, <1>4 DEF TypeOK, States
  <2>4. QueueIsWaiters'
    BY <1>2, <1>4 DEF QueueIsWaiters
  <2> QED BY <1>4, <2>2, <2>3, <2>4 DEF SlotsAccounted, NoIdleSlot
<1>5. CASE /\ ~Fits(current, max) /\ state' = [state EXCEPT ![c] = "waiting"]
           /\ queue' = Append(queue, c) /\ UNCHANGED <<current, max, cancelled>>
  <2>1. Holders' = Holders
    BY <1>2, <1>5 DEF Holders
  <2>2. TypeOK'
    BY <1>2, <1>5 DEF TypeOK, States
  <2>3. /\ Len(queue) \in Nat /\ DOMAIN queue = 1..Len(queue)
        /\ DOMAIN queue' = 1..(Len(queue) + 1) /\ queue'[Len(queue) + 1] = c
        /\ \A n \in 1..Len(queue) : queue'[n] = queue[n]
    BY <1>2, <1>5
  <2>4. \A n \in DOMAIN queue : queue[n] # c
    BY <1>2 DEF QueueIsWaiters
  <2>5. IsInjective(queue')
    BY <2>3, <2>4 DEF QueueIsWaiters, IsInjective
  <2>6. ASSUME NEW d \in Callers
        PROVE  state'[d] = "waiting" <=> \E n \in DOMAIN queue' : queue'[n] = d
    <3>1. CASE d = c
      BY <1>2, <1>5, <2>3, <3>1
    <3>2. CASE d # c
      <4>1. state'[d] = state[d]
        BY <1>2, <1>5, <3>2
      <4>2. (\E n \in DOMAIN queue' : queue'[n] = d) <=> \E n \in DOMAIN queue : queue[n] = d
        BY <2>3, <3>2
      <4> QED BY <4>1, <4>2 DEF QueueIsWaiters
    <3> QED BY <3>1, <3>2
  <2> QED BY <1>5, <2>1, <2>2, <2>5, <2>6 DEF SlotsAccounted, NoIdleSlot, QueueIsWaiters
<1> QED BY <1>3, <1>4, <1>5 DEF Acquire

(* A cancelled waiter leaves the queue; nobody else is touched.            *)
LEMMA CancelKeeps ==
  ASSUME Inv, NEW c \in Callers, Cancel(c)
  PROVE  Inv'
<1> USE DEF Inv
<1>1. /\ state \in [Callers -> States] /\ current \in Nat /\ queue \in Seq(Callers)
      /\ Len(queue) \in Nat /\ DOMAIN queue = 1..Len(queue)
  BY DEF TypeOK
<1>2. CASE UNCHANGED <<queue, state>>
  BY <1>2 DEF Cancel, TypeOK, QueueIsWaiters, SlotsAccounted, Holders, NoIdleSlot
<1>3. CASE /\ state[c] = "waiting" /\ state' = [state EXCEPT ![c] = "over"]
           /\ \E n \in DOMAIN queue : queue[n] = c /\ queue' = RemoveAt(queue, n)
  <2>1. Holders' = Holders
    BY <1>1, <1>3 DEF Holders
  <2>2. PICK k \in 1..Len(queue) : queue[k] = c /\ queue' = RemoveAt(queue, k)
    BY <1>1, <1>3
  <2>3. /\ queue' \in Seq(Callers) /\ DOMAIN queue' = 1..(Len(queue) - 1)
        /\ \A m \in 1..(Len(queue) - 1) : queue'[m] = IF m < k THEN queue[m] ELSE queue[m + 1]
    BY <1>1, <2>2, RemoveOne
  <2>4. TypeOK'
    BY <1>1, <1>3, <2>3 DEF TypeOK, States, Cancel
  <2>5. IsInjective(queue')
    <3> SUFFICES ASSUME NEW m \in DOMAIN queue', NEW n \in DOMAIN queue', queue'[m] = queue'[n]
                 PROVE  m = n
      BY DEF IsInjective
    <3> DEFINE At(x) == IF x < k THEN x ELSE x + 1
    <3>1. \A x \in DOMAIN queue' : At(x) \in DOMAIN queue /\ queue'[x] = queue[At(x)]
      BY <1>1, <2>3
    <3>2. At(m) = At(n)
      BY <3>1 DEF QueueIsWaiters, IsInjective
    <3>3. m \in Nat /\ n \in Nat /\ k \in Nat
      BY <2>3
    <3> QED BY <3>2, <3>3
  <2>6. ASSUME NEW d \in Callers
        PROVE  state'[d] = "waiting" <=> \E n \in DOMAIN queue' : queue'[n] = d
    <3>1. state'[d] = "waiting" <=> state[d] = "waiting" /\ d # c
      BY <1>1, <1>3
    <3>2. ASSUME NEW n \in DOMAIN queue', queue'[n] = d
          PROVE  \E m \in DOMAIN queue : m # k /\ queue[m] = d
      <4>1. CASE n < k
        BY <1>1, <2>3, <3>2, <4>1
      <4>2. CASE ~ (n < k)
        <5>1. n + 1 \in DOMAIN queue /\ n + 1 # k /\ queue[n + 1] = d
          BY <1>1, <2>3, <3>2, <4>2
        <5> QED BY <5>1
      <4> QED BY <4>1, <4>2
    <3>3. ASSUME NEW m \in DOMAIN queue, m # k, queue[m] = d
          PROVE  \E n \in DOMAIN queue' : queue'[n] = d
      <4>1. CASE m < k
        <5>1. m \in DOMAIN queue' /\ queue'[m] = d
          BY <1>1, <2>3, <3>3, <4>1
        <5> QED BY <5>1
      <4>2. CASE ~ (m < k)
        <5>1. m - 1 \in DOMAIN queue' /\ ~ (m - 1 < k) /\ queue'[m - 1] = queue[(m - 1) + 1]
          BY <1>1, <2>3, <3>3, <4>2
        <5> QED BY <1>1, <3>3, <5>1
      <4> QED BY <4>1, <4>2
    <3>4. (\E m \in DOMAIN queue : m # k /\ queue[m] = d) <=> state[d] = "waiting" /\ d # c
      BY <1>1, <2>2 DEF QueueIsWaiters, IsInjective
    <3> QED BY <3>1, <3>2, <3>3, <3>4
  <2>7. queue # <<>>
    BY <1>1, <2>2
  <2> QED BY <2>1, <2>4, <2>5, <2>6, <2>7
          DEF Cancel, SlotsAccounted, NoIdleSlot, QueueIsWaiters
<1> QED BY <1>2, <1>3 DEF Cancel

(* What SubSeq cuts off the front of a sequence, as a function.            *)
LEMMA SubSeqIs ==
  ASSUME NEW S, NEW q \in Seq(S), NEW n \in Nat, n <= Len(q)
  PROVE  SubSeq(q, n + 1, Len(q)) = [m \in 1..(Len(q) - n) |-> q[m + n]]
  OBVIOUS

(* A function on an initial segment is a sequence of that length.          *)
LEMMA SeqIs ==
  ASSUME NEW S, NEW n \in Nat, NEW q \in [1..n -> S]
  PROVE  q \in Seq(S) /\ Len(q) = n
  OBVIOUS

(* A new limit lets in the waiters that fit under it, and they are its     *)
(* holders from then on.                                                   *)
LEMMA ResizeKeeps ==
  ASSUME Inv, NEW limit \in Limits, Resize(limit)
  PROVE  Inv'
<1> USE DEF Inv
<1>1. /\ state \in [Callers -> States] /\ current \in Nat /\ queue \in Seq(Callers)
      /\ Len(queue) \in Nat /\ DOMAIN queue = 1..Len(queue)
      /\ \A m \in 1..Len(queue) : queue[m] \in Callers
  BY DEF TypeOK
<1>2. PICK n \in 0..Len(queue) :
        /\ n < Len(queue) => ~Fits(current + n, limit)
        /\ state' = [c \in Callers |-> IF \E k \in 1..n : queue[k] = c THEN "admitted"
                                       ELSE state[c]]
        /\ queue' = SubSeq(queue, n + 1, Len(queue)) /\ current' = current + n
  BY DEF Resize
<1>3. /\ queue' \in Seq(Callers) /\ Len(queue') = Len(queue) - n
      /\ \A m \in 1..(Len(queue) - n) : queue'[m] = queue[m + n]
  <2>1. n \in Nat /\ n <= Len(queue) /\ Len(queue) - n \in Nat
    BY <1>1
  <2>2. queue' = [m \in 1..(Len(queue) - n) |-> queue[m + n]]
    BY <1>1, <1>2, <2>1, SubSeqIs
  <2>3. queue' \in [1..(Len(queue) - n) -> Callers]
    BY <1>1, <2>1, <2>2
  <2>4. queue' \in Seq(Callers) /\ Len(queue') = Len(queue) - n
    BY <2>1, <2>3, SeqIs
  <2> QED BY <2>2, <2>4
<1>4. DOMAIN queue' = 1..(Len(queue) - n) /\ n \in Nat
  BY <1>1, <1>3
<1> DEFINE let == {queue[k] : k \in 1..n}
<1>5. let \subseteq Waiters
  <2> SUFFICES ASSUME NEW k \in 1..n PROVE queue[k] \in Waiters
    OBVIOUS
  <2>1. k \in DOMAIN queue /\ queue[k] \in Callers
    BY <1>1, <1>2
  <2> QED BY <2>1 DEF Waiters, QueueIsWaiters
<1>6. TypeOK'
  <2>1. state' \in [Callers -> States]
    BY <1>1, <1>2 DEF States
  <2>2. current' \in Nat
    BY <1>1, <1>2, <1>4
  <2> QED BY <1>3, <2>1, <2>2 DEF TypeOK, Resize
<1>7. IsInjective(queue')
  <2> SUFFICES ASSUME NEW a \in DOMAIN queue', NEW b \in DOMAIN queue', queue'[a] = queue'[b]
               PROVE  a = b
    BY DEF IsInjective
  <2>1. a + n \in DOMAIN queue /\ b + n \in DOMAIN queue /\ queue[a + n] = queue[b + n]
    BY <1>1, <1>3, <1>4
  <2>2. a + n = b + n
    BY <2>1 DEF QueueIsWaiters, IsInjective
  <2> QED BY <1>4, <2>2
<1>8. ASSUME NEW d \in Callers
      PROVE  state'[d] = "waiting" <=> \E m \in DOMAIN queue' : queue'[m] = d
  <2>1. state'[d] = "waiting" <=> state[d] = "waiting" /\ ~ (\E k \in 1..n : queue[k] = d)
    BY <1>1, <1>2
  <2>2. ASSUME NEW m \in DOMAIN queue', queue'[m] = d
        PROVE  state[d] = "waiting" /\ ~ (\E k \in 1..n : queue[k] = d)
    <3>1. m + n \in DOMAIN queue /\ m + n \notin 1..n /\ queue[m + n] = d
      BY <1>1, <1>3, <1>4, <2>2
    <3>2. 1..n \subseteq DOMAIN queue
      BY <1>1, <1>2
    <3> QED BY <3>1, <3>2 DEF QueueIsWaiters, IsInjective
  <2>3. ASSUME state[d] = "waiting", ~ (\E k \in 1..n : queue[k] = d)
        PROVE  \E m \in DOMAIN queue' : queue'[m] = d
    <3>1. PICK k \in DOMAIN queue : queue[k] = d
      BY <2>3 DEF QueueIsWaiters
    <3>2. k \notin 1..n
      BY <2>3, <3>1
    <3>3. k - n \in DOMAIN queue' /\ queue'[k - n] = queue[(k - n) + n] /\ (k - n) + n = k
      BY <1>1, <1>3, <1>4, <3>2
    <3> QED BY <3>1, <3>3
  <2> QED BY <2>1, <2>2, <2>3
<1>9. SlotsAccounted'
  <2>1. IsFiniteSet(Callers) /\ IsFiniteSet(Holders) /\ let \subseteq Callers
    BY <1>5, SlotsAssumption, FS_Subset DEF Holders, Waiters
  <2>2. Holders' = Holders \cup let
    BY <1>1, <1>2, <2>1 DEF Holders
  <2>3. Holders \cap let = {}
    BY <1>5 DEF Holders, Waiters
  <2>4. IsFiniteSet(let) /\ Cardinality(let) = n
    <3> DEFINE f == [k \in 1..n |-> queue[k]]
    <3>1. \A i, j \in 1..n : f[i] = f[j] => i = j
      BY <1>1, <1>2 DEF QueueIsWaiters, IsInjective
    <3>2. f \in [1..n -> let] /\ \A x \in let : \E k \in 1..n : f[k] = x
      OBVIOUS
    <3>3. f \in Bijection(1..n, let)
      BY <3>1, <3>2 DEF Bijection, Injection, Surjection, IsInjective
    <3>4. ExistsBijection(1..n, let)
      BY <3>3 DEF ExistsBijection
    <3> HIDE DEF f, let
    <3>5. IsFiniteSet(1..n) /\ Cardinality(1..n) = n
      BY <1>4, FS_Interval
    <3> QED BY <3>4, <3>5, FS_Bijection
  <2>5. Cardinality(Holders \cup let) = Cardinality(Holders) + n - Cardinality({})
    <3> HIDE DEF let
    <3> QED BY <2>1, <2>3, <2>4, FS_Union
  <2>6. Cardinality(Holders \cup let) = current + n
    <3>1. Cardinality({}) = 0
      BY FS_EmptySet
    <3>2. Cardinality(Holders) = current
      BY DEF SlotsAccounted
    <3> HIDE DEF let
    <3> QED BY <1>1, <1>4, <2>5, <3>1, <3>2
  <2> HIDE DEF let
  <2> QED BY <1>2, <2>2, <2>6 DEF SlotsAccounted
<1>10. NoIdleSlot'
  <2> SUFFICES ASSUME queue' # <<>> PROVE ~Fits(current', max')
    BY DEF NoIdleSlot
  <2>1. Len(queue') > 0
    BY <1>1, <1>3, <1>4
  <2>2. n < Len(queue)
    BY <1>1, <1>3, <1>4, <2>1
  <2> QED BY <1>2, <2>2 DEF Resize
<1> QED BY <1>6, <1>7, <1>8, <1>9, <1>10 DEF QueueIsWaiters

THEOREM InvHolds == Spec => []Inv
<1>1. Init => Inv
  <2> SUFFICES ASSUME Init PROVE Inv
    OBVIOUS
  <2>1. TypeOK
    BY DEF Init, TypeOK, States
  <2>2. Holders = {} /\ queue = <<>> /\ DOMAIN queue = {}
    BY DEF Init, Holders
  <2>3. SlotsAccounted
    BY <2>2, FS_EmptySet DEF Init, SlotsAccounted
  <2>4. QueueIsWaiters
    BY <2>2 DEF Init, QueueIsWaiters, IsInjective
  <2> QED BY <2>1, <2>2, <2>3, <2>4 DEF Inv, NoIdleSlot
<1>2. Inv /\ [Next]_vars => Inv'
  <2> SUFFICES ASSUME Inv, [Next]_vars PROVE Inv'
    OBVIOUS
  <2>1. ASSUME NEW c \in Callers, Resume(c) PROVE Inv'
    <3>1. c \in Holders
      BY <2>1 DEF Resume, Holders
    <3>2. CASE Release(c)
      BY <2>1, <3>1, <3>2, ReleaseKeeps DEF Resume
    <3>3. CASE state' = [state EXCEPT ![c] = "running"] /\ UNCHANGED <<current, queue>>
      <4>1. state[c] = "admitted" /\ state \in [Callers -> States]
        BY <2>1 DEF Resume, Inv, TypeOK
      <4>2. Holders' = Holders
        BY <3>3, <4>1 DEF Holders
      <4>3. TypeOK'
        BY <2>1, <3>3 DEF Resume, Inv, TypeOK, States
      <4>4. QueueIsWaiters'
        BY <3>3, <4>1 DEF Inv, QueueIsWaiters
      <4> QED BY <2>1, <3>3, <4>2, <4>3, <4>4 DEF Resume, Inv, SlotsAccounted, NoIdleSlot
    <3> QED BY <2>1, <3>2, <3>3 DEF Resume
  <2>2. ASSUME NEW c \in Callers, Finish(c) PROVE Inv'
    BY <2>2, ReleaseKeeps DEF Finish, Holders
  <2>3. CASE UNCHANGED vars
    BY <2>3 DEF vars, Inv, TypeOK, QueueIsWaiters, SlotsAccounted, Holders, NoIdleSlot
  <2> QED BY <2>1, <2>2, <2>3, AcquireKeeps, CancelKeeps, ResizeKeeps DEF Next
<1> QED BY <1>1, <1>2, PTL DEF Spec

(* The semaphore counts its holders exactly, whatever is cancelled and     *)
(* however the limit moves, for any number of callers.                     *)
THEOREM Accounting == Spec => []SlotsAccounted
<1>1. Inv => SlotsAccounted
  BY DEF Inv
<1> QED BY <1>1, InvHolds, PTL

(* A waiter in the queue means that the ceiling is reached.                *)
THEOREM WorkConserving == Spec => []NoIdleSlot
<1>1. Inv => NoIdleSlot
  BY DEF Inv
<1> QED BY <1>1, InvHolds, PTL

(* No step admits past the ceiling in force.                               *)
THEOREM Capped == Spec => CapRespected
<1> DEFINE Admits == \E c \in Callers : state[c] \in {"new", "waiting"} /\ state'[c] = "admitted"
<1>1. Inv /\ [Next]_vars => (Admits => max' = 0 \/ current' <= max')
  <2> SUFFICES ASSUME Inv, [Next]_vars, NEW c \in Callers, state[c] \in {"new", "waiting"},
                      state'[c] = "admitted"
               PROVE  max' = 0 \/ current' <= max'
    OBVIOUS
  <2>0. /\ state \in [Callers -> States] /\ current \in Nat /\ max \in Nat
        /\ Limits \subseteq Nat /\ Len(queue) \in Nat
    BY SlotsAssumption DEF Inv, TypeOK
  <2>1. ASSUME NEW d \in Callers, Acquire(d) PROVE max' = 0 \/ current' <= max'
    <3>1. Fits(current, max) /\ current' = current + 1 /\ max' = max
      BY <2>0, <2>1 DEF Acquire
    <3> QED BY <2>0, <3>1 DEF Fits
  <2>2. ASSUME NEW d \in Callers, Release(d), max' = max PROVE max' = 0 \/ current' <= max'
    <3> DEFINE left == IF current > 0 THEN current - 1 ELSE 0
    <3>1. left \in Nat
      BY <2>0
    <3>2. Fits(left, max) /\ current' = left + 1
      BY <2>0, <2>2 DEF Release
    <3> QED BY <2>0, <2>2, <3>1, <3>2 DEF Fits
  <2>3. ASSUME NEW limit \in Limits, Resize(limit) PROVE max' = 0 \/ current' <= max'
    <3>1. PICK n \in 0..Len(queue) :
            /\ \A k \in 0..(n - 1) : Fits(current + k, limit)
            /\ state' = [e \in Callers |-> IF \E k \in 1..n : queue[k] = e THEN "admitted"
                                           ELSE state[e]]
            /\ current' = current + n
      BY <2>3 DEF Resize
    <3>2. n \in Nat /\ n > 0
      BY <2>0, <3>1
    <3>3. n - 1 \in 0..(n - 1)
      BY <3>2
    <3>4. Fits(current + (n - 1), limit) /\ max' = limit /\ limit \in Nat
      BY <2>0, <2>3, <3>1, <3>3 DEF Resize
    <3> QED BY <2>0, <3>1, <3>2, <3>4 DEF Fits
  <2>4. ASSUME NEW d \in Callers, Cancel(d) PROVE FALSE
    BY <2>0, <2>4 DEF Cancel
  <2>5. ASSUME NEW d \in Callers, Resume(d) \/ Finish(d) PROVE max' = 0 \/ current' <= max'
    <3>1. CASE Release(d)
      BY <2>2, <2>5, <3>1 DEF Resume, Finish
    <3>2. CASE state' = [state EXCEPT ![d] = "running"]
      BY <2>0, <3>2
    <3> QED BY <2>5, <3>1, <3>2 DEF Resume, Finish
  <2>6. CASE UNCHANGED vars
    BY <2>6 DEF vars
  <2> QED BY <2>1, <2>3, <2>4, <2>5, <2>6 DEF Next
<1>2. Inv /\ [Next]_vars
        => [\A c \in Callers : state[c] \in {"new", "waiting"} /\ state'[c] = "admitted"
              => max' = 0 \/ current' <= max']_vars
  BY <1>1
<1> QED BY <1>2, InvHolds, PTL DEF Spec, CapRespected
=============================================================================
