--------------------------- MODULE AsyncJobs_proofs ---------------------------
(***************************************************************************)
(* Proofs about the job manager in its surroundings, for any runs, polls,  *)
(* limits and failures.                                                    *)
(***************************************************************************)
EXTENDS AsyncJobs, FiniteSetTheorems, WellFoundedInduction, TLAPS

(* The loop leaves nothing queued when it is about to end.                 *)
LEMMA DriveDrives ==
  ASSUME NEW q, NEW fl, NEW behind, NEW sup, Drive(q, fl, behind, sup)
  PROVE  DeliveriesDriven'
BY DEF Drive, DeliveriesDriven

LEMMA EnsureDrives ==
  ASSUME NEW q, NEW fl, NEW behind, NEW sup, Ensure(q, fl, behind, sup)
  PROVE  DeliveriesDriven'
BY DriveDrives DEF Ensure, Leave, DeliveriesDriven

LEMMA EnqueueDrives ==
  ASSUME NEW r, NEW sup, DeliveriesDriven, EnqueueDelivery(r, sup)
  PROVE  DeliveriesDriven'
BY EnsureDrives DEF EnqueueDelivery, DeliveriesDriven

(* The elements of a sequence, except some, occur once.                    *)
Distinct(s, but) == \A i, j \in DOMAIN s : s[i] = s[j] => i = j \/ s[i] \in but

(* What is filtered stays typed and in its order, loses what it had to      *)
(* lose, and nothing else.                                                 *)
LEMMA Filtered ==
  ASSUME NEW S, NEW s \in Seq(S), NEW out, NEW t \in Without(s, out)
  PROVE  /\ t \in Seq(S) /\ ToSet(t) = ToSet(s) \ out
         /\ \A but : Distinct(s, but) => Distinct(t, but)
<1> DEFINE open == {i \in DOMAIN s : s[i] \notin out}
           left == 1 .. Cardinality(open)
<1>1. PICK kept \in [left -> open] : /\ \A i, j \in left : i < j => kept[i] < kept[j]
                                     /\ t = [i \in left |-> s[kept[i]]]
  BY DEF Without
<1>2. open \subseteq 1 .. Len(s) /\ Len(s) \in Nat
  OBVIOUS
<1>3. IsFiniteSet(open) /\ Cardinality(open) \in Nat
  <2>1. IsFiniteSet(1 .. Len(s))
    BY FS_Interval
  <2> HIDE DEF open
  <2>2. IsFiniteSet(open)
    BY <1>2, <2>1, FS_Subset
  <2> QED BY <2>2, FS_CardinalityType
<1>4. IsFiniteSet(left) /\ Cardinality(left) = Cardinality(open)
  BY <1>3, FS_Interval
<1>5. \A i, j \in left : kept[i] = kept[j] => i = j
  <2> SUFFICES ASSUME NEW i \in left, NEW j \in left, kept[i] = kept[j], i # j PROVE FALSE
    OBVIOUS
  <2>1. i \in Nat /\ j \in Nat /\ kept[i] \in Nat /\ kept[j] \in Nat
    BY <1>1, <1>2, <1>3
  <2>2. i < j \/ j < i
    BY <2>1
  <2> HIDE DEF left, open
  <2> QED BY <1>1, <2>1, <2>2
<1>6. \A m \in open : \E i \in left : kept[i] = m
  <2> HIDE DEF left, open
  <2>1. kept \in Injection(left, open)
    BY <1>1, <1>5 DEF Injection, IsInjective
  <2>2. kept \in Surjection(left, open)
    BY <1>3, <1>4, <2>1, FS_Injection
  <2> QED BY <2>2 DEF Surjection
<1>7. DOMAIN t = left /\ t \in Seq(S) /\ \A i \in left : t[i] = s[kept[i]] /\ kept[i] \in open
  <2>1. \A i \in left : kept[i] \in open /\ s[kept[i]] \in S
    <3>1. \A i \in left : kept[i] \in open
      BY <1>1
    <3> HIDE DEF left
    <3> QED BY <1>2, <3>1
  <2>2. t \in [left -> S]
    <3> HIDE DEF left, open
    <3> QED BY <1>1, <2>1
  <2>3. t \in Seq(S)
    <3> HIDE DEF open
    <3> QED BY <1>3, <2>2
  <2> HIDE DEF left, open
  <2> QED BY <1>1, <2>1, <2>2, <2>3
<1>8. ToSet(t) = ToSet(s) \ out
  <2> HIDE DEF left
  <2> QED BY <1>6, <1>7 DEF ToSet
<1>9. ASSUME NEW but, Distinct(s, but) PROVE Distinct(t, but)
  <2> SUFFICES ASSUME NEW i \in left, NEW j \in left, t[i] = t[j] PROVE i = j \/ t[i] \in but
    BY <1>7 DEF Distinct
  <2> HIDE DEF left
  <2>1. /\ kept[i] \in DOMAIN s /\ kept[j] \in DOMAIN s
        /\ s[kept[i]] = s[kept[j]] /\ t[i] = s[kept[i]]
    BY <1>2, <1>7
  <2> QED BY <1>5, <1>9, <2>1 DEF Distinct
<1> QED BY <1>7, <1>8, <1>9

(* Dropping entries of an empty queue leaves it empty.                     *)
LEMMA DropDrives ==
  ASSUME NEW sup, DeliveriesDriven, DropHeldBack(sup), UNCHANGED loop
  PROVE  DeliveriesDriven'
<1> SUFFICES ASSUME deliveries = <<>> PROVE deliveries' = <<>>
  BY DEF DeliveriesDriven
<1> DEFINE held == {r \in Runs : Suppressed(r, sup)}
<1>1. deliveries' \in Without(deliveries, held) /\ deliveries \in Seq({})
  BY DEF DropHeldBack
<1> HIDE DEF held
<1>2. deliveries' \in Seq({})
  BY <1>1, Filtered
<1> QED BY <1>2

LEMMA TellingDrives ==
  ASSUME DeliveriesDriven, UNCHANGED loop, NEW shown, BuildResult(shown)
  PROVE  DeliveriesDriven'
BY DropDrives DEF BuildResult, Acknowledge, DeliveriesDriven

LEMMA DeliveredDrives ==
  ASSUME NEW r, NEW q, NEW behind, Delivered(r, q, behind)
  PROVE  DeliveriesDriven'
BY DriveDrives, EnsureDrives DEF Delivered

(* A queued delivery has a loop that will get to it: in particular one     *)
(* that was enqueued between the loop's last test and its end.             *)
THEOREM Driven == Spec => []DeliveriesDriven
<1>1. Init => DeliveriesDriven
  BY DEF Init, ManagerInit, DeliveriesDriven
<1>2. DeliveriesDriven /\ [Next]_vars => DeliveriesDriven'
  <2> SUFFICES ASSUME DeliveriesDriven, [Next]_vars PROVE DeliveriesDriven'
    OBVIOUS
  <2> USE DEF managerVars, jobVars, deliveryVars
  <2>1. CASE UNCHANGED <<deliveries, loop>>
    BY <2>1 DEF DeliveriesDriven
  <2>2. ASSUME NEW r \in Runs, NEW queued, NEW acked, Register(r, queued, acked)
        PROVE  DeliveriesDriven'
    <3>1. PICK id : IF acked THEN DropHeldBack(HeldBack \cup {id})
                             ELSE UNCHANGED deliveries
      BY <2>2 DEF Register
    <3> QED BY <2>2, <3>1, DropDrives DEF Register, DeliveriesDriven
  <2>3. CASE Tools
    <3>1. ASSUME NEW r \in Runs, StartForeground(r) PROVE DeliveriesDriven'
      BY <2>2, <3>1 DEF StartForeground
    <3>2. ASSUME NEW r \in Runs, CommandEnds(r) \/ AbortWait(r) PROVE DeliveriesDriven'
      BY <2>1, <3>2 DEF CommandEnds, AbortWait
    <3>3. ASSUME NEW r \in Runs, WaitExpires(r) PROVE DeliveriesDriven'
      BY <2>1, <3>3, EnqueueDrives DEF WaitExpires, Resume
    <3>4. ASSUME NEW p \in Polls, PollReturns(p) PROVE DeliveriesDriven'
      BY <3>4, TellingDrives DEF PollReturns
    <3>5. CASE ListJobs
      BY <3>5, TellingDrives DEF ListJobs
    <3>6. ASSUME NEW p \in Polls, NEW kill \in SUBSET Ours, NEW look \in SUBSET Ours,
                 JobCall(p, kill, look)
          PROVE  DeliveriesDriven'
      BY <2>1, <3>6, TellingDrives DEF JobCall
    <3> QED BY <2>3, <3>1, <3>2, <3>3, <3>4, <3>5, <3>6 DEF Tools
  <2>4. CASE Jobs
    <3>1. ASSUME NEW r \in Runs, Start(r) PROVE DeliveriesDriven'
      BY <2>2, <3>1 DEF Start
    <3>2. ASSUME NEW r \in Runs, Ends(r) PROVE DeliveriesDriven'
      BY <2>1, <3>2, EnqueueDrives DEF Ends, Settle
    <3>3. ASSUME NEW r \in Runs, GetsSlot(r) PROVE DeliveriesDriven'
      BY <2>1, <3>3 DEF GetsSlot, MarkRunning
    <3>4. ASSUME NEW owned, CancelOwn(owned) PROVE DeliveriesDriven'
      BY <2>1, <3>4 DEF CancelOwn
    <3>5. ASSUME NEW id \in Ids, RetentionEnds(id) PROVE DeliveriesDriven'
      BY <2>1, <3>5 DEF RetentionEnds, Evict
    <3> QED BY <2>4, <3>1, <3>2, <3>3, <3>4, <3>5 DEF Jobs
  <2>5. CASE Delivery
    <3>1. ASSUME NEW r \in Runs, OnJobComplete(r) \/ Fails(r) PROVE DeliveriesDriven'
      BY <3>1, DeliveredDrives DEF OnJobComplete, DeliverySucceeds, Fails, DeliveryFails
    <3>2. ASSUME NEW r \in Runs, RetryDue(r) PROVE DeliveriesDriven'
      BY <2>1, <3>2 DEF RetryDue, DelayOver
    <3>3. ASSUME NEW r \in Runs, Drains(r) PROVE DeliveriesDriven'
      <4>1. deliveries # <<>>
        BY <3>3 DEF Drains, DrainOne, ToSet
      <4> QED BY <3>3, <4>1 DEF Drains, DrainOne, Leave, DeliveriesDriven
    <3>4. CASE LoopWakes \/ LoopSettles
      BY <3>4, DriveDrives DEF LoopWakes, Wake, LoopSettles, LoopEnds, DeliveriesDriven
    <3> QED BY <2>5, <3>1, <3>2, <3>3, <3>4 DEF Delivery
  <2>6. CASE Session
    BY <2>1, <2>6 DEF Session, Flushes, Prompts, PollsAsides, ResolvesAsides,
                      SessionSettles, Stops
  <2>7. CASE UNCHANGED vars
    BY <2>1, <2>7 DEF vars, systemVars
  <2> QED BY <2>3, <2>4, <2>5, <2>6, <2>7 DEF Next, Step
<1> QED BY <1>1, <1>2, PTL DEF Spec

-------------------------------------------------------------------------------
(* The books of the manager: every run has the kind of id it asked for,    *)
(* what is listed under an id was registered under it, and what has        *)
(* settled does not run.                                                   *)

BooksTyped ==
  /\ status \in [Runs -> {"new", "running", "completed", "cancelled"}]
  /\ idOf \in [Runs -> Ids \cup {None}] /\ jobs \in [Ids -> Runs \cup {None}]
  /\ settled \subseteq Runs

IdsFit == \A r \in Runs :
  /\ status[r] = "new" <=> idOf[r] = None
  /\ idOf[r] # None => IF r \in Named THEN idOf[r] = r ELSE idOf[r] \in Numbers

ListedById == \A i \in Ids : jobs[i] # None => idOf[jobs[i]] = i

SettledIsOver == \A r \in settled : status[r] \in {"completed", "cancelled"}

Books == BooksTyped /\ IdsFit /\ ListedById /\ SettledIsOver

LEMMA IdsApart == /\ Named \cap Numbers = {} /\ None \notin Ids
                  /\ Numbers \in SUBSET Nat /\ IsFiniteSet(Runs \ Named)
                  /\ Cardinality(Runs \ Named) \in Nat
                  /\ IsFiniteSet(Numbers) /\ Cardinality(Numbers) = Cardinality(Runs \ Named)
<1>1. IsFiniteSet(Runs \ Named)
  BY RunsAssumption, FS_Subset
<1>2. Cardinality(Runs \ Named) \in Nat
  BY <1>1, FS_CardinalityType
<1>3. Numbers \in SUBSET Nat
  BY <1>2 DEF Numbers
<1>4. IsFiniteSet(Numbers) /\ Cardinality(Numbers) = Cardinality(Runs \ Named)
  BY <1>2, FS_Interval DEF Numbers
<1>5. Named \cap Numbers = {} /\ None \notin Ids
  BY <1>3, RunsAssumption DEF Ids
<1> QED BY <1>1, <1>2, <1>3, <1>4, <1>5

(* Intervals are well-founded under inclusion, so their ends are too.      *)
LEMMA MinIsLeast ==
  ASSUME NEW S \in SUBSET Nat, S # {}
  PROVE  Min(S) \in S /\ \A y \in S : Min(S) =< y
<1> DEFINE below == {1 .. x : x \in S}
           less == StrictSubsetOrdering(Nat)
<1>1. below \subseteq FiniteSubsetsOf(Nat) /\ below # {}
  <2>1. ASSUME NEW x \in S PROVE 1 .. x \in FiniteSubsetsOf(Nat)
    <3>1. x \in Int /\ 1 .. x \in SUBSET Nat
      OBVIOUS
    <3>2. IsFiniteSet(1 .. x)
      BY <3>1, FS_Interval
    <3> QED BY <3>1, <3>2 DEF FiniteSubsetsOf
  <2> QED BY <2>1
<1>2. IsWellFoundedOn(less, FiniteSubsetsOf(Nat))
  BY FS_StrictSubsetOrderingWellFounded
<1> HIDE DEF less, below
<1>3. PICK t \in below : \A u \in below : <<u, t>> \notin less
  BY <1>1, <1>2, WFMin
<1>4. PICK x \in S : t = 1 .. x
  BY <1>3 DEF below
<1>5. ASSUME NEW y \in S, y < x PROVE FALSE
  <2>1. 1 .. y \in below /\ <<1 .. y, 1 .. x>> \notin less
    BY <1>3, <1>4 DEF below
  <2>2. 1 .. y \in SUBSET Nat /\ 1 .. x \in SUBSET Nat
    OBVIOUS
  <2>3. 1 .. y \subseteq 1 .. x /\ x \in 1 .. x /\ x \notin 1 .. y
    BY <1>5
  <2> QED BY <2>1, <2>2, <2>3 DEF less, StrictSubsetOrdering
<1>6. \A y \in S : x =< y
  BY <1>5
<1> QED BY <1>6 DEF Min

(* A run that is about to register finds an id nobody has: there are as    *)
(* many numbers as unnamed runs, and the run itself holds none.            *)
LEMMA FreshIdIsFree ==
  ASSUME Books, NEW r \in Runs, status[r] = "new"
  PROVE  /\ FreshId(r) \in Ids
         /\ IF r \in Named THEN FreshId(r) = r ELSE FreshId(r) \in Numbers
         /\ jobs[FreshId(r)] = None
<1> DEFINE free == {i \in Numbers : jobs[i] = None}
           others == (Runs \ Named) \ {r}
<1>1. idOf[r] = None
  BY DEF Books, IdsFit
<1>2. CASE r \in Named
  <2>1. FreshId(r) = r /\ r \in Ids
    BY <1>2 DEF FreshId, Ids
  <2>2. ASSUME jobs[r] # None PROVE FALSE
    <3>1. jobs[r] \in Runs /\ idOf[jobs[r]] = r /\ idOf[jobs[r]] # None
      BY <2>1, <2>2, <1>2, RunsAssumption DEF Books, BooksTyped, ListedById
    <3>2. jobs[r] = r
      BY <1>2, <3>1, IdsApart DEF Books, IdsFit
    <3> QED BY <1>1, <3>1, <3>2
  <2> QED BY <1>2, <2>1, <2>2
<1>3. CASE r \notin Named
  <2>1. ASSUME free = {} PROVE FALSE
    <3> DEFINE f == [i \in Numbers |-> jobs[i]]
    <3>1. ASSUME NEW i \in Numbers PROVE f[i] \in others /\ idOf[f[i]] = i
      <4>1. jobs[i] \in Runs /\ idOf[jobs[i]] = i /\ i # None
        BY <2>1, <3>1, IdsApart DEF Books, BooksTyped, ListedById, Ids
      <4>2. jobs[i] \notin Named
        BY <4>1, <3>1, IdsApart DEF Books, IdsFit
      <4> QED BY <1>1, <4>1, <4>2
    <3>2. f \in [Numbers -> others]
      BY <3>1
    <3>3. IsFiniteSet(others) /\ Cardinality(others) < Cardinality(Numbers)
      <4>1. Cardinality(others) = Cardinality(Runs \ Named) - 1 /\ IsFiniteSet(others)
        BY <1>3, IdsApart, FS_RemoveElement
      <4> HIDE DEF others
      <4> QED BY <4>1, IdsApart
    <3> HIDE DEF f, others
    <3>4. \E i, j \in Numbers : i # j /\ f[i] = f[j]
      <4>1. IsFiniteSet(Numbers)
        BY IdsApart
      <4> QED BY <3>2, <3>3, <4>1, FS_PigeonHole
    <3> QED BY <3>1, <3>4
  <2>2. Min(free) \in free
    BY <2>1, IdsApart, MinIsLeast
  <2> QED BY <1>3, <2>2 DEF FreshId, Ids
<1> QED BY <1>2, <1>3

LEMMA RegisterKeepsBooks ==
  ASSUME Books, NEW r \in Runs, NEW queued, NEW acked, Register(r, queued, acked)
  PROVE  Books'
<1> DEFINE id == FreshId(r)
<1>1. status[r] = "new"
  BY DEF Register
<1>2. /\ id \in Ids /\ jobs[id] = None
      /\ IF r \in Named THEN id = r ELSE id \in Numbers
  BY <1>1, FreshIdIsFree
<1>3. /\ status' = [status EXCEPT ![r] = "running"] /\ settled' = settled
      /\ idOf' = [idOf EXCEPT ![r] = id] /\ jobs' = [jobs EXCEPT ![id] = r]
  BY DEF Register
<1>4. idOf[r] = None /\ r # None /\ id # None
  BY <1>1, <1>2, IdsApart, RunsAssumption DEF Books, IdsFit
<1> HIDE DEF id
<1> USE <1>1, <1>2, <1>3, <1>4
<1>5. BooksTyped'
  BY DEF Books, BooksTyped
<1>6. IdsFit'
  <2> SUFFICES ASSUME NEW q \in Runs
               PROVE  /\ status'[q] = "new" <=> idOf'[q] = None
                      /\ idOf'[q] # None => IF q \in Named THEN idOf'[q] = q
                                                           ELSE idOf'[q] \in Numbers
    BY DEF IdsFit
  <2>1. CASE q = r
    BY <2>1 DEF Books, BooksTyped
  <2>2. CASE q # r
    BY <2>2 DEF Books, BooksTyped, IdsFit
  <2> QED BY <2>1, <2>2
<1>7. ListedById'
  <2> SUFFICES ASSUME NEW i \in Ids, jobs'[i] # None PROVE idOf'[jobs'[i]] = i
    BY DEF ListedById
  <2>1. CASE i = id
    BY <2>1 DEF Books, BooksTyped
  <2>2. CASE i # id
    <3>1. jobs'[i] = jobs[i] /\ jobs[i] \in Runs /\ idOf[jobs[i]] = i
      BY <2>2 DEF Books, BooksTyped, ListedById
    <3>2. jobs[i] # r
      BY <3>1, IdsApart
    <3> QED BY <3>1, <3>2 DEF Books, BooksTyped
  <2> QED BY <2>1, <2>2
<1>8. SettledIsOver'
  <2>1. r \notin settled
    BY DEF Books, SettledIsOver
  <2> QED BY <2>1 DEF Books, BooksTyped, SettledIsOver
<1> QED BY <1>5, <1>6, <1>7, <1>8 DEF Books

Over(rs, state) == [r \in Runs |-> IF r \in rs THEN state ELSE status[r]]

(* Runs only leave the state "running".                                    *)
LEMMA StoppingKeepsBooks ==
  ASSUME Books, UNCHANGED <<idOf, jobs>>,
         NEW over \in {"completed", "cancelled"},
         NEW rs, \A r \in rs : status[r] # "new",
         status' = Over(rs, over),
         \A r \in settled' \ settled : r \in Runs /\ status'[r] \in {"completed", "cancelled"}
  PROVE  Books'
<1>1. BooksTyped'
  BY DEF Books, BooksTyped, Over
<1>2. IdsFit'
  BY DEF Books, IdsFit, Over
<1>3. ListedById'
  BY DEF Books, ListedById
<1>4. SettledIsOver'
  BY DEF Books, BooksTyped, SettledIsOver, Over
<1> QED BY <1>1, <1>2, <1>3, <1>4 DEF Books

LEMMA UntouchedBooks ==
  ASSUME Books, UNCHANGED <<status, settled, idOf, jobs>>
  PROVE  Books'
BY DEF Books, BooksTyped, IdsFit, ListedById, SettledIsOver

LEMMA CancellingKeepsBooks ==
  ASSUME Books, UNCHANGED <<idOf, jobs, settled>>,
         NEW rs, \A r \in rs : status[r] = "running", Cancel(rs)
  PROVE  Books'
BY StoppingKeepsBooks DEF Cancel, Over

LEMMA SettlingKeepsBooks ==
  ASSUME Books, NEW r \in Runs, Settle(r)
  PROVE  Books'
<1>1. /\ UNCHANGED <<idOf, jobs>> /\ status[r] # "new" /\ settled' = settled \cup {r}
  BY DEF Settle
<1>2. CASE status[r] = "running"
  <2>1. status' = Over({r}, "completed")
    BY <1>2 DEF Settle, Books, BooksTyped, Over
  <2>2. /\ status'[r] \in {"completed", "cancelled"} /\ "completed" \in {"completed", "cancelled"}
        /\ \A q \in {r} : status[q] # "new"
    BY <1>1, <2>1 DEF Over
  <2>3. \A q \in settled' \ settled : q \in Runs /\ status'[q] \in {"completed", "cancelled"}
    BY <1>1, <2>2
  <2> QED BY <1>1, <2>1, <2>2, <2>3, StoppingKeepsBooks
<1>3. CASE status[r] # "running"
  <2>1. status[r] = "cancelled" /\ status' = Over({}, "completed")
    BY <1>3 DEF Settle, Books, BooksTyped, Over
  <2>2. /\ status'[r] \in {"completed", "cancelled"} /\ "completed" \in {"completed", "cancelled"}
        /\ \A q \in {} : status[q] # "new"
    BY <2>1 DEF Over
  <2>3. \A q \in settled' \ settled : q \in Runs /\ status'[q] \in {"completed", "cancelled"}
    BY <1>1, <2>2
  <2> QED BY <1>1, <2>1, <2>2, <2>3, StoppingKeepsBooks
<1> QED BY <1>2, <1>3

LEMMA EvictionKeepsBooks ==
  ASSUME Books, NEW id \in Ids, Evict(id)
  PROVE  Books'
<1>1. UNCHANGED <<status, settled, idOf>> /\ jobs' = [jobs EXCEPT ![id] = None]
  BY DEF Evict
<1>2. BooksTyped' /\ IdsFit' /\ SettledIsOver'
  BY <1>1 DEF Books, BooksTyped, IdsFit, SettledIsOver
<1>3. ListedById'
  BY <1>1 DEF Books, BooksTyped, ListedById
<1> QED BY <1>2, <1>3 DEF Books

LEMMA BooksKept == Books /\ [Next]_vars => Books'
<1> SUFFICES ASSUME Books, [Next]_vars PROVE Books'
  OBVIOUS
<1> USE DEF managerVars, jobVars
<1>1. CASE Tools
  <2>1. ASSUME NEW r \in Runs, StartForeground(r) PROVE Books'
    BY <2>1, RegisterKeepsBooks DEF StartForeground
  <2>2. ASSUME NEW r \in Runs, CommandEnds(r) \/ WaitExpires(r) PROVE Books'
    BY <2>2, UntouchedBooks DEF CommandEnds, WaitExpires
  <2>3. ASSUME NEW r \in Runs, AbortWait(r) PROVE Books'
    BY <2>3, CancellingKeepsBooks DEF AbortWait
  <2>4. ASSUME (\E p \in Polls : PollReturns(p)) \/ ListJobs PROVE Books'
    BY <2>4, UntouchedBooks DEF PollReturns, ListJobs
  <2>5. ASSUME NEW p \in Polls, NEW kill \in SUBSET Ours, NEW look \in SUBSET Ours,
               JobCall(p, kill, look)
        PROVE  Books'
    BY <2>5, CancellingKeepsBooks DEF JobCall
  <2> QED BY <1>1, <2>1, <2>2, <2>3, <2>4, <2>5 DEF Tools
<1>2. CASE Jobs
  <2>1. ASSUME NEW r \in Runs, Start(r) PROVE Books'
    BY <2>1, RegisterKeepsBooks DEF Start
  <2>2. ASSUME NEW r \in Runs, Ends(r) PROVE Books'
    BY <2>2, SettlingKeepsBooks DEF Ends
  <2>3. ASSUME NEW r \in Runs, GetsSlot(r) PROVE Books'
    BY <2>3, UntouchedBooks DEF GetsSlot, MarkRunning
  <2>4. ASSUME NEW owned, CancelOwn(owned) PROVE Books'
    BY <2>4, CancellingKeepsBooks DEF CancelOwn
  <2>5. ASSUME NEW id \in Ids, RetentionEnds(id) PROVE Books'
    BY <2>5, EvictionKeepsBooks DEF RetentionEnds
  <2> QED BY <1>2, <2>1, <2>2, <2>3, <2>4, <2>5 DEF Jobs
<1>3. CASE Delivery
  BY <1>3, UntouchedBooks
  DEF Delivery, OnJobComplete, DeliverySucceeds, Fails, DeliveryFails, RetryDue,
      DelayOver, Drains, DrainOne, LoopWakes, Wake, LoopSettles, LoopEnds
<1>4. CASE Session
  BY <1>4, UntouchedBooks DEF Session, Flushes, Prompts, PollsAsides, ResolvesAsides,
                              SessionSettles, Stops
<1>5. CASE UNCHANGED vars
  BY <1>5, UntouchedBooks DEF vars, systemVars
<1> QED BY <1>1, <1>2, <1>3, <1>4, <1>5 DEF Next, Step

-------------------------------------------------------------------------------
(* Runs that share an id.  A run is gone when it has settled, is not listed *)
(* and nothing is under way about it.  Two runs share an id only if one of  *)
(* them is gone, unless that clashed.                                       *)

Queued == ToSet(deliveries) \cup inFlight
Settling == ToSet(staged) \cup ToSet(thunks)
Places == Queued \cup Settling

Gone(r) == r \in settled /\ ~Listed(r) /\ r \notin Places /\ \A p \in Polls : r \notin polls[p].shown

Alone == \A r \in Runs \ clashed : \A q \in Runs \ {r} :
  idOf[r] = idOf[q] /\ idOf[r] # None => Gone(r) \/ Gone(q)

(* A job that runs is listed, and no timer is set that would free its id.  *)
RunningKept == \A r \in Runs \ clashed :
  status[r] = "running" => Listed(r) /\ idOf[r] \notin evictions

ToolsTyped ==
  /\ waits \in [Foreground -> WaitStates] /\ finished \subseteq Foreground
  /\ polls \in [Polls -> [watching : SUBSET Runs, shown : SUBSET Runs]]
  /\ answered \subseteq Runs

LEMMA UnderWayOrGone ==
  ASSUME NEW r, ~Listed(r), ~UnderWay(r)
  PROVE  Gone(r)
BY DEF UnderWay, Gone, Places, Queued, Settling

LEMMA SameClashed ==
  ASSUME Reuse, UNCHANGED idOf
  PROVE  clashed' = clashed
<1>1. {q \in Runs : idOf'[q] # idOf[q]} = {}
  OBVIOUS
<1>2. UNION {Clash(r) : r \in {}} = {}
  OBVIOUS
<1> QED BY <1>1, <1>2 DEF Reuse

(* What registers is marked with all that is still under way under its id. *)
LEMMA Registered ==
  ASSUME Books, NEW r \in Runs, NEW queued, NEW acked, Register(r, queued, acked), Reuse
  PROVE  /\ idOf'[r] \in Ids /\ jobs[idOf'[r]] = None /\ idOf'[r] # None
         /\ idOf[r] = None /\ r # None /\ status[r] = "new" /\ r \notin settled
         /\ idOf' = [idOf EXCEPT ![r] = idOf'[r]] /\ jobs' = [jobs EXCEPT ![idOf'[r]] = r]
         /\ status' = [status EXCEPT ![r] = "running"]
         /\ UNCHANGED <<settled, evictions, watched, inFlight>>
         /\ UNCHANGED deliveries \/ DropHeldBack(HeldBack \cup {idOf'[r]})
         /\ clashed \subseteq clashed'
         /\ \A q \in Runs : idOf[q] = idOf'[r] /\ UnderWay(q) => q \in clashed' /\ r \in clashed'
         /\ idOf'[r] \in evictions => r \in clashed'
<1> DEFINE id == FreshId(r)
<1>1. status[r] = "new" /\ idOf[r] = None /\ r # None /\ r \notin settled
  BY RunsAssumption DEF Register, Books, IdsFit, SettledIsOver
<1>2. id \in Ids /\ jobs[id] = None /\ id # None
  BY <1>1, FreshIdIsFree, IdsApart
<1>3. /\ idOf' = [idOf EXCEPT ![r] = id] /\ jobs' = [jobs EXCEPT ![id] = r]
      /\ status' = [status EXCEPT ![r] = "running"]
      /\ UNCHANGED <<settled, evictions, watched, inFlight>>
      /\ UNCHANGED deliveries \/ DropHeldBack(HeldBack \cup {id})
  BY DEF Register
<1> HIDE DEF id
<1>4. idOf'[r] = id
  BY <1>3 DEF Books, BooksTyped
<1>5. {q \in Runs : idOf'[q] # idOf[q]} = {r}
  BY <1>1, <1>2, <1>3 DEF Books, BooksTyped
<1>6. UNION {Clash(x) : x \in {r}} = Clash(r)
  OBVIOUS
<1>7. clashed' = clashed \cup Clash(r)
  BY <1>5, <1>6 DEF Reuse
<1>8. \A q \in Runs : idOf[q] = id => ~Listed(q)
  BY <1>2, RunsAssumption DEF Listed
<1>9. /\ \A q \in Runs : idOf[q] = id /\ UnderWay(q) => q \in Clash(r) /\ r \in Clash(r)
      /\ id \in evictions => r \in Clash(r)
  BY <1>4, <1>8 DEF Clash
<1> QED BY <1>1, <1>2, <1>3, <1>4, <1>7, <1>9

LEMMA OthersListing ==
  ASSUME Books, NEW r \in Runs, NEW queued, NEW acked, Register(r, queued, acked), Reuse,
         NEW q \in Runs, q # r
  PROVE  /\ idOf'[q] = idOf[q] /\ (Listed(q)' <=> Listed(q))
         /\ Listed(q) => idOf[q] # idOf'[r]
<1> DEFINE id == idOf'[r]
<1>1. /\ id \in Ids /\ jobs[id] = None /\ id # None
      /\ idOf' = [idOf EXCEPT ![r] = id] /\ jobs' = [jobs EXCEPT ![id] = r]
  BY Registered
<1> HIDE DEF id
<1>2. idOf'[q] = idOf[q] /\ idOf[q] \in Ids \cup {None}
  BY <1>1 DEF Books, BooksTyped
<1>3. Listed(q) => idOf[q] # id
  BY <1>1, RunsAssumption DEF Listed
<1>4. Listed(q)' <=> Listed(q)
  BY <1>1, <1>2, <1>3 DEF Listed, Books, BooksTyped
<1> QED BY <1>2, <1>3, <1>4 DEF id

(* What a step may not take back.                                          *)
Ages ==
  /\ settled \subseteq settled' /\ clashed \subseteq clashed'
  /\ \A r \in Runs : idOf[r] # None => idOf'[r] = idOf[r] /\ (Listed(r)' => Listed(r))
  /\ \A p \in Polls : \A r \in polls'[p].shown : r \in polls[p].shown \/ Listed(r)

LEMMA RegisterAges ==
  ASSUME Books, NEW r \in Runs, NEW queued, NEW acked, Register(r, queued, acked), Reuse,
         UNCHANGED polls
  PROVE  Ages
<1>1. UNCHANGED settled /\ clashed \subseteq clashed' /\ idOf[r] = None
  BY Registered
<1>2. ASSUME NEW q \in Runs, idOf[q] # None
      PROVE  idOf'[q] = idOf[q] /\ (Listed(q)' => Listed(q))
  BY <1>1, <1>2, OthersListing
<1> QED BY <1>1, <1>2 DEF Ages

LEMMA QuietAges ==
  ASSUME Reuse, UNCHANGED <<idOf, jobs>>, settled \subseteq settled',
         \A p \in Polls : \A r \in polls'[p].shown : r \in polls[p].shown \/ Listed(r)
  PROVE  Ages
BY SameClashed DEF Ages, Listed

LEMMA StepAges ==
  ASSUME Books, ToolsTyped, [Next]_vars
  PROVE  Ages
<1> USE DEF managerVars, jobVars, toolVars
<1>1. ASSUME UNCHANGED vars PROVE Ages
  BY <1>1 DEF vars, systemVars, managerVars, jobVars, toolVars, Ages, Listed
<1>2. ASSUME Tools, Reuse PROVE Ages
  <2>1. ASSUME NEW r \in Runs, StartForeground(r) PROVE Ages
    <3>1. Register(r, FALSE, TRUE) /\ UNCHANGED polls
      BY <2>1 DEF StartForeground
    <3> QED BY <1>2, <3>1, RegisterAges
  <2>2. ASSUME NEW r \in Runs, CommandEnds(r) \/ WaitExpires(r) \/ AbortWait(r) PROVE Ages
    <3>1. UNCHANGED <<idOf, jobs, settled, polls>>
      BY <2>2 DEF CommandEnds, WaitExpires, AbortWait
    <3> QED BY <1>2, <3>1, QuietAges
  <2>3. ASSUME NEW p \in Polls, PollReturns(p) PROVE Ages
    <3>1. UNCHANGED <<idOf, jobs, settled>> /\ polls' = [polls EXCEPT ![p] = NoPoll]
      BY <2>3 DEF PollReturns
    <3>2. \A o \in Polls : polls'[o].shown \subseteq polls[o].shown
      BY <3>1 DEF ToolsTyped, NoPoll
    <3> QED BY <1>2, <3>1, <3>2, QuietAges
  <2>4. ASSUME ListJobs PROVE Ages
    <3>1. UNCHANGED <<idOf, jobs, settled, polls>>
      BY <2>4 DEF ListJobs
    <3> QED BY <1>2, <3>1, QuietAges
  <2>5. ASSUME NEW p \in Polls, NEW kill \in SUBSET Ours, NEW look \in SUBSET Ours,
               JobCall(p, kill, look)
        PROVE  Ages
    <3>1. UNCHANGED <<idOf, jobs, settled>> /\ \A r \in kill \cup look : Listed(r)
      BY <2>5 DEF JobCall
    <3>2. \/ UNCHANGED polls
          \/ \E w : polls' = [polls EXCEPT ![p] = [watching |-> w, shown |-> kill \cup look]]
      BY <2>5 DEF JobCall
    <3>3. \A o \in Polls : \A r \in polls'[o].shown : r \in polls[o].shown \/ Listed(r)
      BY <3>1, <3>2 DEF ToolsTyped
    <3> QED BY <1>2, <3>1, <3>3, QuietAges
  <2> QED BY <1>2, <2>1, <2>2, <2>3, <2>4, <2>5 DEF Tools
<1>3. ASSUME Jobs, Reuse PROVE Ages
  <2>1. ASSUME NEW r \in Runs, Start(r) PROVE Ages
    <3>1. Register(r, r \in Named, FALSE) /\ UNCHANGED polls
      BY <2>1 DEF Start
    <3> QED BY <1>3, <3>1, RegisterAges
  <2>2. ASSUME NEW r \in Runs, GetsSlot(r) \/ Ends(r) PROVE Ages
    <3>1. UNCHANGED <<idOf, jobs, polls>> /\ settled \subseteq settled'
      BY <2>2 DEF GetsSlot, MarkRunning, Ends, Settle
    <3> QED BY <1>3, <3>1, QuietAges
  <2>3. ASSUME NEW owned, CancelOwn(owned) PROVE Ages
    <3>1. UNCHANGED <<idOf, jobs, polls, settled>>
      BY <2>3 DEF CancelOwn
    <3> QED BY <1>3, <3>1, QuietAges
  <2>4. ASSUME NEW id \in Ids, RetentionEnds(id) PROVE Ages
    <3>1. UNCHANGED <<idOf, polls, settled>> /\ jobs' = [jobs EXCEPT ![id] = None]
      BY <2>4 DEF RetentionEnds, Evict
    <3>2. clashed' = clashed
      BY <1>3, <3>1, SameClashed
    <3>3. ASSUME NEW r \in Runs, Listed(r)' PROVE Listed(r)
      BY <3>1, <3>3, RunsAssumption DEF Listed, Books, BooksTyped
    <3> QED BY <3>1, <3>2, <3>3 DEF Ages
  <2> QED BY <1>3, <2>1, <2>2, <2>3, <2>4 DEF Jobs
<1>4. ASSUME Delivery \/ Session, Reuse PROVE Ages
  <2>1. UNCHANGED <<idOf, jobs, settled, polls>>
    BY <1>4 DEF Delivery, OnJobComplete, DeliverySucceeds, Fails, DeliveryFails, RetryDue,
      DelayOver, Drains, DrainOne, LoopWakes, Wake, LoopSettles, LoopEnds,
      Session, Flushes, Prompts, PollsAsides, ResolvesAsides, SessionSettles, Stops
  <2> QED BY <1>4, <2>1, QuietAges
<1> QED BY <1>1, <1>2, <1>3, <1>4 DEF Next, Step

(* What is gone stays gone.                                                *)
LEMMA GoneStays ==
  ASSUME Books, Ages, \A r \in Places' \ Places : Listed(r) \/ r \notin settled,
         NEW r \in Runs, Gone(r)
  PROVE  Gone(r)'
<1>1. idOf[r] # None
  BY DEF Gone, Books, IdsFit, SettledIsOver
<1> QED BY <1>1 DEF Gone, Ages

LEMMA AloneKept ==
  ASSUME Books, ToolsTyped, Alone, \A r \in Runs : Gone(r) => Gone(r)', [Next]_vars
  PROVE  Alone'
<1>1. ASSUME UNCHANGED idOf, clashed' = clashed PROVE Alone'
  BY <1>1 DEF Alone
<1>2. ASSUME NEW r \in Runs, NEW queued, NEW acked, Register(r, queued, acked), Reuse
      PROVE  Alone'
  <2>1. /\ \A q \in Runs : idOf[q] = idOf'[r] /\ UnderWay(q) => q \in clashed' /\ r \in clashed'
        /\ clashed \subseteq clashed'
    BY <1>2, Registered
  <2>2. \A q \in Runs \ {r} : idOf'[q] = idOf[q] /\ (Listed(q) => idOf[q] # idOf'[r])
    BY <1>2, OthersListing
  <2>3. ASSUME NEW q \in Runs \ {r}, idOf[q] = idOf'[r], ~UnderWay(q) PROVE Gone(q)'
    <3>1. Gone(q)
      BY <2>2, <2>3, UnderWayOrGone
    <3> QED BY <3>1
  <2> SUFFICES ASSUME NEW x \in Runs \ clashed', NEW y \in Runs \ {x},
                      idOf'[x] = idOf'[y], idOf'[x] # None
               PROVE  Gone(x)' \/ Gone(y)'
    BY DEF Alone
  <2>4. CASE x = r
    BY <2>1, <2>2, <2>3, <2>4
  <2>5. CASE y = r
    BY <2>1, <2>2, <2>3, <2>5
  <2>6. CASE x # r /\ y # r
    BY <2>1, <2>2, <2>6 DEF Alone
  <2> QED BY <2>4, <2>5, <2>6
<1>3. \/ UNCHANGED idOf /\ clashed' = clashed
      \/ Reuse /\ \E r \in Runs : \E queued, acked : Register(r, queued, acked)
  <2>1. CASE UNCHANGED vars
    BY <2>1 DEF vars, systemVars, managerVars, jobVars
  <2>2. ASSUME Step, Reuse
        PROVE  UNCHANGED idOf \/ \E r \in Runs : \E queued, acked : Register(r, queued, acked)
    <3> USE DEF managerVars, jobVars
    <3>1. CASE Tools
      BY <3>1 DEF Tools, StartForeground, CommandEnds, WaitExpires, AbortWait, PollReturns,
                  ListJobs, JobCall
    <3>2. CASE Jobs
      BY <3>2 DEF Jobs, Start, GetsSlot, MarkRunning, Ends, Settle, CancelOwn, RetentionEnds, Evict
    <3>3. CASE Delivery \/ Session
      BY <3>3 DEF Delivery, OnJobComplete, DeliverySucceeds, Fails, DeliveryFails, RetryDue,
        DelayOver, Drains, DrainOne, LoopWakes, Wake, LoopSettles, LoopEnds,
        Session, Flushes, Prompts, PollsAsides, ResolvesAsides, SessionSettles, Stops
    <3> QED BY <2>2, <3>1, <3>2, <3>3 DEF Step
  <2> QED BY <2>1, <2>2, SameClashed DEF Next
<1> QED BY <1>1, <1>2, <1>3

(* No other run takes the id of a running job, and no timer is set for it.  *)
LEMMA StaysRunning ==
  ASSUME Books, Alone, RunningKept, UNCHANGED <<idOf, jobs, clashed>>,
         \A r \in Runs : status'[r] = "running" => status[r] = "running",
         \A i \in evictions' \ evictions :
           \E q \in Runs : idOf[q] = i /\ q \notin settled /\ status'[q] # "running"
  PROVE  RunningKept'
<1> SUFFICES ASSUME NEW r \in Runs \ clashed, status'[r] = "running"
             PROVE  Listed(r) /\ idOf[r] \notin evictions'
  BY DEF RunningKept, Listed
<1>1. status[r] = "running" /\ r \notin settled /\ Listed(r) /\ idOf[r] \notin evictions
  BY DEF RunningKept, Books, SettledIsOver
<1>2. ASSUME idOf[r] \in evictions' PROVE FALSE
  <2>1. PICK q \in Runs : idOf[q] = idOf[r] /\ q \notin settled /\ status'[q] # "running"
    BY <1>1, <1>2
  <2>2. Gone(r) \/ Gone(q)
    BY <1>1, <2>1 DEF Alone, Listed
  <2> QED BY <1>1, <2>1, <2>2 DEF Gone
<1> QED BY <1>1, <1>2

LEMMA CancelStaysRunning ==
  ASSUME Books, Alone, RunningKept, UNCHANGED <<idOf, jobs, clashed>>,
         NEW rs \in SUBSET Runs, \A r \in rs : status[r] = "running", Cancel(rs)
  PROVE  RunningKept'
<1>1. \A r \in Runs : status'[r] = "running" => status[r] = "running"
  BY DEF Cancel
<1>2. ASSUME NEW i \in evictions' \ evictions
      PROVE  \E q \in Runs : idOf[q] = i /\ q \notin settled /\ status'[q] # "running"
  <2>1. PICK q \in rs : idOf[q] = i
    BY <1>2 DEF Cancel
  <2>2. q \notin settled /\ status'[q] = "cancelled"
    BY DEF Cancel, Books, SettledIsOver
  <2> QED BY <2>1, <2>2
<1> QED BY <1>1, <1>2, StaysRunning

LEMMA SettleStaysRunning ==
  ASSUME Books, Alone, RunningKept, UNCHANGED clashed, NEW r \in Runs, Settle(r)
  PROVE  RunningKept'
<1>1. /\ UNCHANGED <<idOf, jobs>> /\ evictions' = evictions \cup {idOf[r]} /\ r \notin settled
      /\ status' = [status EXCEPT ![r] = "completed"]
           \/ (status' = status /\ status[r] = "cancelled")
  BY DEF Settle
<1>2. status'[r] # "running" /\ \A q \in Runs : status'[q] = "running" => status[q] = "running"
  BY <1>1 DEF Books, BooksTyped
<1> QED BY <1>1, <1>2, StaysRunning

LEMMA RegisterStaysRunning ==
  ASSUME Books, RunningKept, NEW r \in Runs, NEW queued, NEW acked, Register(r, queued, acked), Reuse
  PROVE  RunningKept'
<1> SUFFICES ASSUME NEW q \in Runs \ clashed', status'[q] = "running"
             PROVE  Listed(q)' /\ idOf'[q] \notin evictions'
  BY DEF RunningKept
<1>1. /\ idOf'[r] \in Ids /\ idOf'[r] # None /\ UNCHANGED evictions /\ clashed \subseteq clashed'
      /\ idOf' = [idOf EXCEPT ![r] = idOf'[r]] /\ jobs' = [jobs EXCEPT ![idOf'[r]] = r]
      /\ status' = [status EXCEPT ![r] = "running"]
      /\ idOf'[r] \in evictions => r \in clashed'
  BY Registered
<1>2. CASE q = r
  <2>1. jobs'[idOf'[r]] = r
    BY <1>1 DEF Books, BooksTyped
  <2> QED BY <1>1, <1>2, <2>1 DEF Listed
<1>3. CASE q # r
  <2>1. status[q] = "running" /\ q \in Runs \ clashed
    BY <1>1, <1>3 DEF Books, BooksTyped
  <2>2. Listed(q) /\ idOf[q] \notin evictions
    BY <2>1 DEF RunningKept
  <2>3. idOf'[q] = idOf[q] /\ Listed(q)'
    BY <1>3, <2>2, OthersListing
  <2> QED BY <1>1, <2>2, <2>3
<1> QED BY <1>2, <1>3

LEMMA RunningStaysKept ==
  ASSUME Books, Alone, RunningKept, [Next]_vars
  PROVE  RunningKept'
<1> USE DEF managerVars, jobVars
<1>1. ASSUME UNCHANGED <<status, idOf, jobs, evictions, clashed>> PROVE RunningKept'
  BY <1>1, StaysRunning
<1>2. ASSUME UNCHANGED vars PROVE RunningKept'
  BY <1>1, <1>2 DEF vars, systemVars
<1>3. ASSUME Tools, Reuse PROVE RunningKept'
  <2>1. ASSUME NEW r \in Runs, StartForeground(r) PROVE RunningKept'
    BY <1>3, <2>1, RegisterStaysRunning DEF StartForeground
  <2>2. ASSUME NEW r \in Runs, CommandEnds(r) \/ WaitExpires(r) PROVE RunningKept'
    BY <1>1, <1>3, <2>2, SameClashed DEF CommandEnds, WaitExpires
  <2>3. ASSUME NEW r \in Runs, AbortWait(r) PROVE RunningKept'
    <3> DEFINE rs == {jobs[idOf[r]]} \cap {q \in Runs : status[q] = "running"}
    <3>1. UNCHANGED <<idOf, jobs>> /\ Cancel(rs)
      BY <2>3 DEF AbortWait
    <3>2. rs \in SUBSET Runs /\ \A q \in rs : status[q] = "running"
      OBVIOUS
    <3> HIDE DEF rs
    <3> QED BY <1>3, <3>1, <3>2, SameClashed, CancelStaysRunning
  <2>4. ASSUME (\E p \in Polls : PollReturns(p)) \/ ListJobs PROVE RunningKept'
    BY <1>1, <1>3, <2>4, SameClashed DEF PollReturns, ListJobs
  <2>5. ASSUME NEW p \in Polls, NEW kill \in SUBSET Ours, NEW look \in SUBSET Ours,
               JobCall(p, kill, look)
        PROVE  RunningKept'
    BY <1>3, <2>5, SameClashed, CancelStaysRunning, RunsAssumption DEF JobCall
  <2> QED BY <1>3, <2>1, <2>2, <2>3, <2>4, <2>5 DEF Tools
<1>4. ASSUME Jobs, Reuse PROVE RunningKept'
  <2>1. ASSUME NEW r \in Runs, Start(r) PROVE RunningKept'
    BY <1>4, <2>1, RegisterStaysRunning DEF Start
  <2>2. ASSUME NEW r \in Runs, GetsSlot(r) PROVE RunningKept'
    BY <1>1, <1>4, <2>2, SameClashed DEF GetsSlot, MarkRunning
  <2>3. ASSUME NEW r \in Runs, Ends(r) PROVE RunningKept'
    BY <1>4, <2>3, SameClashed, SettleStaysRunning DEF Ends, Settle
  <2>4. ASSUME NEW owned \in SUBSET Runs, CancelOwn(owned) PROVE RunningKept'
    <3> DEFINE rs == {r \in owned : Listed(r) /\ status[r] = "running"}
    <3>1. UNCHANGED <<idOf, jobs>> /\ Cancel(rs)
      BY <2>4 DEF CancelOwn
    <3>2. rs \in SUBSET Runs /\ \A q \in rs : status[q] = "running"
      OBVIOUS
    <3> HIDE DEF rs
    <3> QED BY <1>4, <3>1, <3>2, SameClashed, CancelStaysRunning
  <2>5. ASSUME NEW id \in Ids, RetentionEnds(id) PROVE RunningKept'
    <3>1. /\ UNCHANGED <<status, idOf>> /\ jobs' = [jobs EXCEPT ![id] = None]
          /\ id \in evictions /\ evictions' \subseteq evictions
      BY <2>5 DEF RetentionEnds, Evict
    <3>2. clashed' = clashed
      BY <1>4, <3>1, SameClashed
    <3>3. ASSUME NEW r \in Runs \ clashed, status[r] = "running"
          PROVE  Listed(r)' /\ idOf[r] \notin evictions'
      <4>1. Listed(r) /\ idOf[r] \notin evictions /\ idOf[r] # id
        BY <3>1, <3>3 DEF RunningKept
      <4> QED BY <3>1, <4>1 DEF Listed, Books, BooksTyped
    <3> QED BY <3>1, <3>2, <3>3 DEF RunningKept
  <2>6. Ours \subseteq Runs
    BY RunsAssumption
  <2> QED BY <1>4, <2>1, <2>2, <2>3, <2>4, <2>5, <2>6 DEF Jobs
<1>5. ASSUME Delivery \/ Session, Reuse PROVE RunningKept'
  <2>1. UNCHANGED <<status, idOf, jobs, evictions>>
    BY <1>5 DEF Delivery, OnJobComplete, DeliverySucceeds, Fails, DeliveryFails, RetryDue,
      DelayOver, Drains, DrainOne, LoopWakes, Wake, LoopSettles, LoopEnds,
      Session, Flushes, Prompts, PollsAsides, ResolvesAsides, SessionSettles, Stops
  <2> QED BY <1>1, <1>5, <2>1, SameClashed
<1> QED BY <1>2, <1>3, <1>4, <1>5 DEF Next, Step

-------------------------------------------------------------------------------
(* Who has been told and who holds an id back.  A foreground call that     *)
(* waits is of a job that has not settled; a watched id has a poll that    *)
(* watches it.  As long as its id has not clashed, the id of a job is      *)
(* suppressed if a tool has told of it or its call waits, while it is      *)
(* listed; and only then, while it is not gone.                            *)

Waiting(r) == r \in Foreground /\ waits[r] = "waiting"
Live(r) == idOf[r] # None /\ ~Gone(r)

WaitsFit == \A r \in Foreground : waits[r] = "waiting" =>
  /\ r \notin finished /\ status[r] \in {"running", "cancelled"}
  /\ r \in answered => status[r] = "cancelled"

SettledLeft ==
  /\ \A r \in finished \cup answered : status[r] # "new"
  /\ \A r \in Foreground \cap settled : r \in finished

TellersHold == \A r \in Runs \ clashed :
  Listed(r) /\ (Waiting(r) \/ (r \in answered /\ status[r] # "cancelled")) => idOf[r] \in suppressed

HeldAnswered == \A r \in Runs \ clashed :
  Live(r) /\ idOf[r] \in suppressed => status[r] = "cancelled" \/ r \in answered \/ Waiting(r)

ShownKnown == \A p \in Polls : /\ polls[p].watching \subseteq polls[p].shown
                               /\ \A r \in polls[p].shown : idOf[r] # None

WatchedShown == \A i \in watched : \E p \in Polls : \E r \in polls[p].watching : idOf[r] = i

Accounts == WaitsFit /\ SettledLeft /\ TellersHold /\ HeldAnswered
Watches == ShownKnown /\ WatchedShown
Tracking == ToolsTyped /\ Accounts /\ Watches

(* The steps considered keep what is gone; a run that does not clash then   *)
(* shares its id with no other that is live.                               *)
Stays == Ages /\ \A r \in Runs : Gone(r) => Gone(r)'

LEMMA LiveAlone ==
  ASSUME Alone, NEW r \in Runs \ clashed, NEW q \in Runs, Live(r), Live(q), idOf[r] = idOf[q]
  PROVE  q = r
BY DEF Alone, Live

LEMMA ListedIsLive ==
  ASSUME NEW r, Listed(r)
  PROVE  Live(r)
BY DEF Live, Listed, Gone

LEMMA ShownIsLive ==
  ASSUME Watches, NEW p \in Polls, NEW r \in polls[p].shown
  PROVE  Live(r)
BY DEF Live, Gone, Watches, ShownKnown

LEMMA WaitingIsLive ==
  ASSUME Books, Tracking, NEW r \in Runs, Waiting(r)
  PROVE  Live(r)
BY DEF Waiting, Live, Gone, Books, IdsFit, Tracking, Accounts, WaitsFit, SettledLeft

LEMMA LiveBefore ==
  ASSUME Stays, NEW r \in Runs, idOf[r] # None, Live(r)'
  PROVE  Live(r)
BY DEF Stays, Live

LEMMA RegisterTracks ==
  ASSUME Books, Tracking, Stays, NEW r \in Runs, NEW queued, NEW acked,
         Register(r, queued, acked), Reuse,
         IF acked THEN r \in Foreground /\ waits' = [waits EXCEPT ![r] = "waiting"]
                  ELSE r \notin Foreground /\ waits' = waits,
         UNCHANGED <<finished, polls, answered>>
  PROVE  Tracking'
<1> DEFINE id == idOf'[r]
<1>1. /\ id \in Ids /\ id # None /\ idOf[r] = None /\ r # None /\ status[r] = "new"
      /\ r \notin settled /\ status' = [status EXCEPT ![r] = "running"]
      /\ UNCHANGED <<settled, watched>> /\ clashed \subseteq clashed'
  BY Registered
<1>2. suppressed' = IF acked THEN suppressed \cup {id} ELSE suppressed \ {id}
  <2>1. FreshId(r) = id
    <3>1. idOf' = [idOf EXCEPT ![r] = FreshId(r)]
      BY DEF Register
    <3> QED BY <3>1 DEF Books, BooksTyped
  <2>2. suppressed' = IF acked THEN suppressed \cup {FreshId(r)} ELSE suppressed \ {FreshId(r)}
    BY DEF Register
  <2> HIDE DEF id
  <2> QED BY <2>1, <2>2
<1>3. \A q \in Runs : idOf[q] = id /\ UnderWay(q) => q \in clashed'
  BY Registered
<1> HIDE DEF id
<1>4. status'[r] = "running"
  BY <1>1, <1>2 DEF Books, BooksTyped
<1>5. ASSUME NEW q \in Runs, q # r
      PROVE  /\ idOf'[q] = idOf[q] /\ status'[q] = status[q]
             /\ Listed(q)' <=> Listed(q)
             /\ Listed(q) => idOf[q] # id
             /\ Waiting(q)' <=> Waiting(q)
  <2>1. idOf'[q] = idOf[q] /\ (Listed(q)' <=> Listed(q)) /\ (Listed(q) => idOf[q] # id)
    BY <1>5, OthersListing DEF id
  <2> QED BY <1>1, <1>2, <1>5, <2>1 DEF Books, BooksTyped, Waiting, Tracking, ToolsTyped
<1>6. r \notin finished /\ r \notin answered
  BY <1>1, <1>2 DEF Tracking, Accounts, SettledLeft
<1>7. ToolsTyped'
  BY DEF Tracking, ToolsTyped, WaitStates
<1>8. WaitsFit'
  <2> SUFFICES ASSUME NEW q \in Foreground, waits'[q] = "waiting"
               PROVE  /\ q \notin finished /\ status'[q] \in {"running", "cancelled"}
                      /\ q \in answered => status'[q] = "cancelled"
    BY DEF WaitsFit
  <2>1. CASE q = r
    BY <1>4, <1>6, <2>1
  <2>2. CASE q # r
    <3>1. q \in Runs /\ Waiting(q)
      BY <1>5, <2>2, ForegroundAssumption DEF Waiting
    <3> QED BY <1>5, <2>2, <3>1 DEF Waiting, Tracking, Accounts, WaitsFit
  <2> QED BY <2>1, <2>2
<1>9. SettledLeft'
  BY <1>1, <1>2, <1>4, <1>5, <1>6, ForegroundAssumption DEF Tracking, ToolsTyped, Accounts, SettledLeft
<1>10. TellersHold'
  <2> SUFFICES ASSUME NEW q \in Runs \ clashed', Listed(q)',
                      Waiting(q)' \/ (q \in answered /\ status'[q] # "cancelled")
               PROVE  idOf'[q] \in suppressed'
    BY DEF TellersHold
  <2>1. CASE q = r
    BY <1>1, <1>2, <1>6, <2>1 DEF Waiting, id
  <2>2. CASE q # r
    BY <1>1, <1>2, <1>5, <2>2 DEF Tracking, Accounts, TellersHold
  <2> QED BY <2>1, <2>2
<1>11. HeldAnswered'
  <2> SUFFICES ASSUME NEW q \in Runs \ clashed', Live(q)', idOf'[q] \in suppressed'
               PROVE  status'[q] = "cancelled" \/ q \in answered \/ Waiting(q)'
    BY DEF HeldAnswered
  <2>1. CASE q = r
    BY <1>1, <1>2, <2>1 DEF Waiting, Tracking, ToolsTyped, id
  <2>2. CASE q # r
    <3>1. idOf[q] # None /\ Live(q)
      BY <1>5, <2>2, LiveBefore DEF Live
    <3>2. idOf[q] # id
      <4> SUFFICES ASSUME idOf[q] = id PROVE FALSE
        OBVIOUS
      <4>1. ~Listed(q) /\ ~UnderWay(q)
        BY <1>3, <1>5, <2>2
      <4> QED BY <3>1, <4>1, UnderWayOrGone DEF Live
    <3> QED BY <1>1, <1>2, <1>5, <2>2, <3>1, <3>2 DEF Tracking, Accounts, HeldAnswered
  <2> QED BY <2>1, <2>2
<1>12. \A p \in Polls : \A q \in polls[p].shown : q \in Runs /\ q # r /\ idOf'[q] = idOf[q]
  BY <1>1, <1>2, <1>5 DEF Tracking, ToolsTyped, Watches, ShownKnown
<1>13. ShownKnown' /\ WatchedShown'
  BY <1>1, <1>2, <1>12 DEF Tracking, Watches, ShownKnown, WatchedShown
<1> QED BY <1>7, <1>8, <1>9, <1>10, <1>11, <1>13 DEF Tracking, Accounts, Watches

(* What tells of runs that are over, the cancelled ones included, and      *)
(* acknowledges them keeps the accounts.                                   *)
LEMMA TellingAccounts ==
  ASSUME Books, Alone, Tracking, Stays, UNCHANGED <<clashed, settled, idOf, jobs, finished, waits>>,
         NEW kill, \A r \in kill : status[r] = "running", status' = Over(kill, "cancelled"),
         NEW over \in SUBSET Runs, \A r \in over : Live(r) /\ status'[r] # "running",
         suppressed' = suppressed \cup IdsOf(over), answered' = answered \cup over
  PROVE  Accounts'
<1> USE DEF Tracking, Accounts
<1>1. \A r \in Runs : /\ status'[r] # status[r] => status'[r] = "cancelled" /\ status[r] = "running"
                     /\ Listed(r)' = Listed(r) /\ Waiting(r)' = Waiting(r)
  BY DEF Over, Listed, Waiting
<1>2. \A r \in over : status[r] # "new" /\ idOf[r] \in IdsOf(over)
  BY DEF IdsOf, Books, IdsFit, Live
<1>3. WaitsFit'
  <2> SUFFICES ASSUME NEW r \in Foreground, waits[r] = "waiting"
               PROVE  /\ r \notin finished /\ status'[r] \in {"running", "cancelled"}
                      /\ r \in answered' => status'[r] = "cancelled"
    BY DEF WaitsFit
  <2>1. r \in Runs
    BY ForegroundAssumption
  <2> QED BY <1>1, <2>1 DEF WaitsFit
<1>4. SettledLeft'
  BY <1>1, <1>2, ForegroundAssumption DEF SettledLeft, ToolsTyped
<1>5. TellersHold'
  BY <1>1, <1>2 DEF TellersHold
<1>6. HeldAnswered'
  <2> SUFFICES ASSUME NEW r \in Runs \ clashed, Live(r)', idOf[r] \in suppressed'
               PROVE  status'[r] = "cancelled" \/ r \in answered' \/ Waiting(r)
    BY <1>1 DEF HeldAnswered
  <2>1. Live(r)
    <3>1. idOf[r] # None
      BY DEF Live
    <3> QED BY <3>1, LiveBefore
  <2>2. CASE idOf[r] \in suppressed
    BY <1>1, <2>1, <2>2 DEF HeldAnswered
  <2>3. CASE idOf[r] \in IdsOf(over)
    <3>1. PICK q \in over : idOf[q] = idOf[r]
      BY <2>3 DEF IdsOf
    <3>2. q = r
      BY <2>1, <3>1, LiveAlone
    <3> QED BY <3>1, <3>2
  <2> QED BY <2>2, <2>3
<1> QED BY <1>3, <1>4, <1>5, <1>6

(* The runs that a tool which shows some tells of.                         *)
Finished(shown) == {r \in {Snapshot(s) : s \in shown} : status'[r] # "running"}

LEMMA TellingTells ==
  ASSUME Books, NEW shown \in SUBSET Runs, \A r \in shown : Live(r), BuildResult(shown)
  PROVE  /\ suppressed' = suppressed \cup IdsOf(Finished(shown))
         /\ answered' = answered \cup Finished(shown)
         /\ UNCHANGED deliveries \/ DropHeldBack(suppressed' \cup watched')
         /\ Finished(shown) \in SUBSET Runs
         /\ \A r \in Finished(shown) : Live(r) /\ status'[r] # "running"
<1>1. ASSUME NEW s \in shown PROVE Snapshot(s) \in Runs /\ Live(Snapshot(s))
  <2>1. idOf[s] \in Ids /\ idOf[s] # None
    BY IdsApart DEF Books, BooksTyped, Live
  <2>2. CASE jobs[idOf[s]] = None
    BY <2>2 DEF Snapshot
  <2>3. CASE jobs[idOf[s]] # None
    <3>1. jobs[idOf[s]] \in Runs /\ Listed(jobs[idOf[s]])
      BY <2>1, <2>3 DEF Books, BooksTyped, ListedById, Listed
    <3> QED BY <2>3, <3>1, ListedIsLive DEF Snapshot
  <2> QED BY <2>2, <2>3
<1>2. Finished(shown) \in SUBSET Runs /\ \A r \in Finished(shown) : Live(r) /\ status'[r] # "running"
  BY <1>1 DEF Finished
<1> QED BY <1>2 DEF BuildResult, Acknowledge, Finished

LEMMA ShowingAccounts ==
  ASSUME Books, Alone, Tracking, Stays, UNCHANGED <<clashed, settled, idOf, jobs, finished, waits>>,
         NEW kill, \A r \in kill : status[r] = "running", status' = Over(kill, "cancelled"),
         NEW shown \in SUBSET Runs, \A r \in shown : Live(r), BuildResult(shown)
  PROVE  Accounts' /\ answered' \subseteq Runs
<1> DEFINE over == Finished(shown)
<1>1. /\ over \in SUBSET Runs /\ \A r \in over : Live(r) /\ status'[r] # "running"
      /\ suppressed' = suppressed \cup IdsOf(over) /\ answered' = answered \cup over
  BY TellingTells
<1> HIDE DEF over
<1> QED BY <1>1, TellingAccounts DEF Tracking, ToolsTyped

LEMMA WatchesKept ==
  ASSUME Watches, UNCHANGED <<idOf, polls, watched>>
  PROVE  Watches'
BY DEF Watches, ShownKnown, WatchedShown

(* Steps that change neither ids nor who tells and waits.                  *)
LEMMA QuietAccounts ==
  ASSUME Tracking, Stays, UNCHANGED <<clashed, idOf, waits, finished, answered>>,
         suppressed' \subseteq suppressed,
         \A r \in Runs : Listed(r)' /\ idOf[r] \in suppressed => idOf[r] \in suppressed',
         \A r \in Runs : status'[r] # status[r] =>
           status[r] = "running" /\ status'[r] \in {"completed", "cancelled"},
         \A r \in Runs : status'[r] = "completed" /\ status[r] = "running" => ~Waiting(r),
         \A r \in Foreground \cap settled' : r \in finished
  PROVE  Accounts'
<1> USE DEF Tracking, Accounts
<1>1. \A r \in Runs : Waiting(r)' = Waiting(r)
  BY DEF Waiting
<1>2. WaitsFit'
  BY ForegroundAssumption DEF WaitsFit, Waiting
<1>3. SettledLeft'
  BY ForegroundAssumption DEF SettledLeft, ToolsTyped
<1>4. TellersHold'
  <2> SUFFICES ASSUME NEW r \in Runs \ clashed, Listed(r)',
                      Waiting(r) \/ (r \in answered /\ status'[r] # "cancelled")
               PROVE  idOf[r] \in suppressed'
    BY <1>1 DEF TellersHold
  <2>1. idOf[r] # None
    BY DEF Listed
  <2>2. Listed(r)
    BY <2>1 DEF Stays, Ages
  <2> QED BY <2>2 DEF TellersHold
<1>5. HeldAnswered'
  <2> SUFFICES ASSUME NEW r \in Runs \ clashed, Live(r)', idOf[r] \in suppressed'
               PROVE  status'[r] = "cancelled" \/ r \in answered \/ Waiting(r)
    BY <1>1 DEF HeldAnswered
  <2>1. idOf[r] # None
    BY DEF Live
  <2>2. Live(r)
    BY <2>1, LiveBefore
  <2> QED BY <2>2 DEF HeldAnswered
<1> QED BY <1>2, <1>3, <1>4, <1>5

LEMMA EndsTracks ==
  ASSUME Books, Tracking, Stays, UNCHANGED clashed, NEW r \in Runs, Ends(r)
  PROVE  Tracking'
<1>1. /\ UNCHANGED <<idOf, jobs, suppressed, watched, waits, finished, polls, answered>>
      /\ r \in Foreground => r \in finished
      /\ settled' = settled \cup {r}
      /\ \A q \in Runs : status'[q] # status[q] => q = r /\ status'[q] = "completed"
                                                    /\ status[q] = "running"
  BY DEF Ends, Settle, toolVars, Books, BooksTyped
<1>2. ~Waiting(r)
  BY <1>1 DEF Waiting, Tracking, Accounts, WaitsFit
<1>3. \A q \in Foreground \cap settled' : q \in finished
  BY <1>1 DEF Tracking, Accounts, SettledLeft
<1>4. Accounts'
  BY <1>1, <1>2, <1>3, QuietAccounts
<1> QED BY <1>1, <1>4, WatchesKept DEF Tracking, ToolsTyped

LEMMA CommandTracks ==
  ASSUME Books, Tracking, Stays, UNCHANGED clashed, NEW r \in Runs, CommandEnds(r)
  PROVE  Tracking'
<1> USE DEF Tracking, Accounts, ToolsTyped
<1>1. /\ UNCHANGED <<status, settled, idOf, jobs, suppressed, watched, polls>>
      /\ r \in Foreground /\ status[r] # "new" /\ finished' = finished \cup {r}
      /\ IF waits[r] = "waiting"
         THEN waits' = [waits EXCEPT ![r] = "over"] /\ answered' = answered \cup {r}
         ELSE waits' = waits /\ answered' = answered
  BY DEF CommandEnds, managerVars, jobVars
<1>2. ToolsTyped' /\ Watches'
  BY <1>1, WatchesKept DEF WaitStates
<1>3. WaitsFit' /\ SettledLeft'
  BY <1>1, ForegroundAssumption DEF WaitsFit, SettledLeft
<1>4. TellersHold'
  BY <1>1 DEF TellersHold, Listed, Waiting
<1>5. HeldAnswered'
  <2> SUFFICES ASSUME NEW q \in Runs \ clashed, Live(q)', idOf[q] \in suppressed
               PROVE  status[q] = "cancelled" \/ q \in answered' \/ Waiting(q)'
    BY <1>1 DEF HeldAnswered
  <2>1. Live(q)
    BY <1>1, LiveBefore DEF Live
  <2> QED BY <1>1, <2>1 DEF HeldAnswered, Waiting
<1> QED BY <1>2, <1>3, <1>4, <1>5

LEMMA ExpiryTracks ==
  ASSUME Books, Alone, Tracking, Stays, UNCHANGED clashed, NEW r \in Runs, WaitExpires(r)
  PROVE  Tracking'
<1> USE DEF Tracking, Accounts, ToolsTyped
<1>1. /\ UNCHANGED <<status, settled, idOf, jobs, watched, polls, finished, answered>>
      /\ r \in Foreground /\ Waiting(r) /\ waits' = [waits EXCEPT ![r] = "over"]
      /\ suppressed' = suppressed \ {idOf[r]}
  BY DEF WaitExpires, Resume, Waiting
<1>2. ToolsTyped' /\ Watches'
  BY <1>1, WatchesKept DEF WaitStates
<1>3. WaitsFit' /\ SettledLeft'
  BY <1>1, ForegroundAssumption DEF WaitsFit, SettledLeft
<1>4. TellersHold'
  <2> SUFFICES ASSUME NEW q \in Runs \ clashed, Listed(q),
                      Waiting(q)' \/ (q \in answered /\ status[q] # "cancelled")
               PROVE  idOf[q] \in suppressed'
    BY <1>1 DEF TellersHold, Listed
  <2>1. q # r
    BY <1>1 DEF WaitsFit, Waiting
  <2>2. Waiting(q)' => Waiting(q)
    BY <1>1 DEF Waiting
  <2>3. idOf[q] \in suppressed
    BY <2>2 DEF TellersHold
  <2>4. idOf[q] # idOf[r]
    BY <1>1, <2>1, WaitingIsLive, ListedIsLive, LiveAlone
  <2> QED BY <1>1, <2>3, <2>4
<1>5. HeldAnswered'
  <2> SUFFICES ASSUME NEW q \in Runs \ clashed, Live(q)', idOf[q] \in suppressed'
               PROVE  status[q] = "cancelled" \/ q \in answered \/ Waiting(q)'
    BY <1>1 DEF HeldAnswered
  <2>1. q # r /\ idOf[q] \in suppressed
    BY <1>1
  <2>2. Live(q)
    BY <1>1, LiveBefore DEF Live
  <2> QED BY <1>1, <2>1, <2>2 DEF HeldAnswered, Waiting
<1> QED BY <1>2, <1>3, <1>4, <1>5

LEMMA AbortTracks ==
  ASSUME Books, Tracking, Stays, UNCHANGED clashed, NEW r \in Runs, AbortWait(r)
  PROVE  Tracking'
<1> USE DEF Tracking, Accounts, ToolsTyped
<1>1. /\ UNCHANGED <<settled, idOf, jobs, suppressed, watched, polls, finished>>
      /\ r \in Foreground /\ waits[r] = "waiting" /\ waits' = [waits EXCEPT ![r] = "over"]
      /\ answered' = answered \cup {r}
      /\ \A q \in Runs : status'[q] # status[q] => status'[q] = "cancelled" /\ status[q] = "running"
      /\ Listed(r) => status'[r] # "running"
  BY DEF AbortWait, Cancel, Books, BooksTyped, Listed
<1>2. ToolsTyped' /\ Watches'
  BY <1>1, WatchesKept DEF WaitStates
<1>3. WaitsFit'
  BY <1>1, ForegroundAssumption DEF WaitsFit
<1>4. SettledLeft'
  BY <1>1, ForegroundAssumption DEF SettledLeft, WaitsFit
<1>5. TellersHold'
  <2> SUFFICES ASSUME NEW q \in Runs \ clashed, Listed(q),
                      Waiting(q)' \/ (q \in answered' /\ status'[q] # "cancelled")
               PROVE  idOf[q] \in suppressed
    BY <1>1 DEF TellersHold, Listed
  <2>1. q # r
    BY <1>1, ForegroundAssumption DEF Waiting, WaitsFit
  <2> QED BY <1>1, <2>1 DEF TellersHold, Waiting
<1>6. HeldAnswered'
  <2> SUFFICES ASSUME NEW q \in Runs \ clashed, Live(q)', idOf[q] \in suppressed
               PROVE  status'[q] = "cancelled" \/ q \in answered' \/ Waiting(q)'
    BY <1>1 DEF HeldAnswered
  <2>1. Live(q)
    BY <1>1, LiveBefore DEF Live
  <2> QED BY <1>1, <2>1 DEF HeldAnswered, Waiting
<1> QED BY <1>2, <1>3, <1>4, <1>5, <1>6

LEMMA JobCallTracks ==
  ASSUME Books, Alone, Tracking, Stays, UNCHANGED clashed,
         NEW p \in Polls, NEW kill \in SUBSET Ours, NEW look \in SUBSET Ours, JobCall(p, kill, look)
  PROVE  Tracking'
<1> DEFINE running == {r \in look : status'[r] = "running"}
           shown == kill \cup look
<1>1. /\ UNCHANGED <<settled, idOf, jobs, waits, finished>>
      /\ polls[p] = NoPoll
      /\ shown \in SUBSET Runs /\ (\A r \in shown : Listed(r))
      /\ (\A r \in kill : status[r] = "running")
      /\ status' = Over(kill, "cancelled")
  BY RunsAssumption DEF JobCall, Cancel, Over
<1>2. running \subseteq shown /\ \A r \in shown : Live(r) /\ idOf[r] # None
  BY <1>1, ListedIsLive DEF Live
<1>3. CASE running = {}
  <2>1. UNCHANGED <<watched, polls>> /\ BuildResult(shown)
    BY <1>3 DEF JobCall
  <2> HIDE DEF shown
  <2>2. Accounts' /\ answered' \subseteq Runs
    BY <1>1, <1>2, <2>1, ShowingAccounts
  <2>3. ToolsTyped' /\ Watches'
    BY <1>1, <2>1, <2>2, WatchesKept DEF Tracking, ToolsTyped
  <2> QED BY <2>2, <2>3 DEF Tracking
<1>4. CASE running # {}
  <2>1. /\ watched' = watched \cup IdsOf(running)
        /\ polls' = [polls EXCEPT ![p] = [watching |-> running, shown |-> shown]]
        /\ UNCHANGED <<suppressed, answered>>
    BY <1>4 DEF JobCall
  <2> HIDE DEF shown, running
  <2>2. Accounts'
    <3>1. IdsOf({}) = {}
      BY DEF IdsOf
    <3>2. suppressed' = suppressed \cup IdsOf({}) /\ answered' = answered \cup {}
      BY <2>1, <3>1
    <3> QED BY <1>1, <3>2, TellingAccounts
  <2>3. ToolsTyped'
    BY <1>1, <1>2, <2>1 DEF Tracking, ToolsTyped
  <2>4. ShownKnown'
    <3> SUFFICES ASSUME NEW o \in Polls
                 PROVE  polls'[o].watching \subseteq polls'[o].shown
                        /\ \A r \in polls'[o].shown : idOf[r] # None
      BY <1>1 DEF ShownKnown
    <3>1. CASE o = p
      BY <1>1, <1>2, <2>1, <3>1 DEF Tracking, ToolsTyped
    <3>2. CASE o # p
      BY <1>1, <2>1, <3>2 DEF Tracking, ToolsTyped, Watches, ShownKnown
    <3> QED BY <3>1, <3>2
  <2>5. WatchedShown'
    <3> SUFFICES ASSUME NEW i \in watched'
                 PROVE  \E o \in Polls : \E r \in polls'[o].watching : idOf[r] = i
      BY <1>1 DEF WatchedShown
    <3>1. CASE i \in IdsOf(running)
      BY <2>1, <3>1 DEF Tracking, ToolsTyped, IdsOf
    <3>2. CASE i \in watched
      <4>1. PICK o \in Polls : \E r \in polls[o].watching : idOf[r] = i
        BY <3>2 DEF Tracking, Watches, WatchedShown
      <4>2. o # p
        BY <1>1, <4>1 DEF NoPoll
      <4> QED BY <2>1, <4>1, <4>2 DEF Tracking, ToolsTyped
    <3> QED BY <2>1, <3>1, <3>2
  <2> QED BY <2>2, <2>3, <2>4, <2>5 DEF Tracking, Watches
<1> QED BY <1>3, <1>4

LEMMA ListingTracks ==
  ASSUME Books, Alone, Tracking, Stays, UNCHANGED clashed, ListJobs
  PROVE  Tracking'
<1> DEFINE shown == {r \in Ours : Listed(r)}
<1>1. /\ UNCHANGED <<status, settled, idOf, jobs, waits, finished, polls, watched>>
      /\ shown \in SUBSET Runs /\ (\A r \in shown : Live(r)) /\ BuildResult(shown)
  BY RunsAssumption, ListedIsLive DEF ListJobs
<1>2. status' = Over({}, "cancelled")
  BY <1>1 DEF Over, Books, BooksTyped
<1> HIDE DEF shown
<1>3. Accounts' /\ answered' \subseteq Runs
  BY <1>1, <1>2, ShowingAccounts
<1>4. ToolsTyped' /\ Watches'
  BY <1>1, <1>3, WatchesKept DEF Tracking, ToolsTyped
<1> QED BY <1>3, <1>4 DEF Tracking

LEMMA PollTracks ==
  ASSUME Books, Alone, Tracking, Stays, UNCHANGED clashed, NEW p \in Polls, PollReturns(p)
  PROVE  Tracking'
<1> DEFINE shown == polls[p].shown
<1>1. /\ UNCHANGED <<status, settled, idOf, jobs, waits, finished>>
      /\ watched' = watched \ IdsOf(polls[p].watching)
      /\ polls' = [polls EXCEPT ![p] = NoPoll]
      /\ shown \in SUBSET Runs /\ (\A r \in shown : Live(r)) /\ BuildResult(shown)
  BY ShownIsLive DEF PollReturns, Tracking, ToolsTyped
<1>2. status' = Over({}, "cancelled")
  BY <1>1 DEF Over, Books, BooksTyped
<1> HIDE DEF shown
<1>3. Accounts' /\ answered' \subseteq Runs
  BY <1>1, <1>2, ShowingAccounts
<1>4. NoPoll \in [watching : SUBSET Runs, shown : SUBSET Runs]
  BY DEF NoPoll
<1>5. ToolsTyped'
  BY <1>1, <1>3, <1>4 DEF Tracking, ToolsTyped
<1>6. ShownKnown'
  BY <1>1 DEF Tracking, ToolsTyped, Watches, ShownKnown, NoPoll
<1>7. WatchedShown'
  <2> SUFFICES ASSUME NEW i \in watched'
               PROVE  \E o \in Polls : \E r \in polls'[o].watching : idOf[r] = i
    BY <1>1 DEF WatchedShown
  <2>1. PICK o \in Polls : \E r \in polls[o].watching : idOf[r] = i
    BY <1>1 DEF Tracking, Watches, WatchedShown
  <2>2. o # p
    BY <1>1, <2>1 DEF IdsOf
  <2> QED BY <1>1, <2>1, <2>2 DEF Tracking, ToolsTyped
<1> QED BY <1>3, <1>5, <1>6, <1>7 DEF Tracking, Watches

LEMMA CancelTracks ==
  ASSUME Books, Alone, Tracking, Stays, UNCHANGED clashed, NEW owned, CancelOwn(owned)
  PROVE  Tracking'
<1> DEFINE rs == {r \in owned : Listed(r) /\ status[r] = "running"}
<1>1. /\ UNCHANGED <<settled, idOf, jobs, suppressed, watched, waits, finished, polls, answered>>
      /\ (\A r \in rs : status[r] = "running") /\ status' = Over(rs, "cancelled")
  BY DEF CancelOwn, Cancel, Over, toolVars
<1> HIDE DEF rs
<1>2. Accounts'
  <2>1. IdsOf({}) = {}
    BY DEF IdsOf
  <2>2. suppressed' = suppressed \cup IdsOf({}) /\ answered' = answered \cup {}
    BY <1>1, <2>1
  <2> QED BY <1>1, <2>2, TellingAccounts
<1>3. ToolsTyped' /\ Watches'
  BY <1>1, WatchesKept DEF Tracking, ToolsTyped
<1> QED BY <1>2, <1>3 DEF Tracking

LEMMA RetentionTracks ==
  ASSUME Books, Tracking, Stays, UNCHANGED clashed, NEW id \in Ids, RetentionEnds(id)
  PROVE  Tracking'
<1>1. /\ UNCHANGED <<status, settled, idOf, waits, finished, polls, answered>>
      /\ jobs' = [jobs EXCEPT ![id] = None]
      /\ suppressed' = suppressed \ {id} /\ watched' = watched \ {id}
  BY DEF RetentionEnds, Evict, toolVars
<1>2. \A r \in Runs : Listed(r)' => idOf[r] # id
  BY <1>1, RunsAssumption, IdsApart DEF Listed, Books, BooksTyped
<1>3. Accounts'
  <2>1. \A r \in Foreground \cap settled' : r \in finished
    BY <1>1 DEF Tracking, Accounts, SettledLeft
  <2> QED BY <1>1, <1>2, <2>1, QuietAccounts
<1>4. ToolsTyped' /\ Watches'
  BY <1>1 DEF Tracking, ToolsTyped, Watches, ShownKnown, WatchedShown
<1> QED BY <1>3, <1>4 DEF Tracking

LEMMA UntouchedTracking ==
  ASSUME Tracking, Stays, UNCHANGED clashed,
         UNCHANGED <<status, settled, idOf, jobs, suppressed, watched>>,
         UNCHANGED <<waits, finished, polls, answered>>
  PROVE  Tracking'
<1>1. \A r \in Foreground \cap settled' : r \in finished
  BY DEF Tracking, Accounts, SettledLeft
<1>2. Accounts'
  BY <1>1, QuietAccounts
<1> QED BY <1>2, WatchesKept DEF Tracking, ToolsTyped

LEMMA TrackingKept ==
  ASSUME Books, Alone, Tracking, Stays, [Next]_vars
  PROVE  Tracking'
<1> USE DEF managerVars, jobVars, toolVars
<1>1. ASSUME UNCHANGED vars PROVE Tracking'
  BY <1>1, UntouchedTracking DEF vars, systemVars
<1>2. ASSUME Tools, Reuse PROVE Tracking'
  <2>1. ASSUME NEW r \in Runs, StartForeground(r) PROVE Tracking'
    <3>1. Register(r, FALSE, TRUE)
      BY <2>1 DEF StartForeground
    <3> QED BY <1>2, <2>1, <3>1, RegisterTracks DEF StartForeground
  <2>2. ASSUME UNCHANGED idOf PROVE clashed' = clashed
    BY <1>2, <2>2, SameClashed
  <2>3. ASSUME NEW r \in Runs, CommandEnds(r) PROVE Tracking'
    BY <2>2, <2>3, CommandTracks DEF CommandEnds
  <2>4. ASSUME NEW r \in Runs, WaitExpires(r) PROVE Tracking'
    BY <2>2, <2>4, ExpiryTracks DEF WaitExpires
  <2>5. ASSUME NEW r \in Runs, AbortWait(r) PROVE Tracking'
    BY <2>2, <2>5, AbortTracks DEF AbortWait
  <2>6. ASSUME NEW p \in Polls, PollReturns(p) PROVE Tracking'
    BY <2>2, <2>6, PollTracks DEF PollReturns
  <2>7. ASSUME ListJobs PROVE Tracking'
    BY <2>2, <2>7, ListingTracks DEF ListJobs
  <2>8. ASSUME NEW p \in Polls, NEW kill \in SUBSET Ours, NEW look \in SUBSET Ours,
               JobCall(p, kill, look)
        PROVE  Tracking'
    BY <2>2, <2>8, JobCallTracks DEF JobCall
  <2> QED BY <1>2, <2>1, <2>3, <2>4, <2>5, <2>6, <2>7, <2>8 DEF Tools
<1>3. ASSUME Jobs, Reuse PROVE Tracking'
  <2>1. ASSUME NEW r \in Runs, Start(r) PROVE Tracking'
    <3>1. Register(r, r \in Named, FALSE)
      BY <2>1 DEF Start
    <3> QED BY <1>3, <2>1, <3>1, RegisterTracks DEF Start
  <2>2. ASSUME UNCHANGED idOf PROVE clashed' = clashed
    BY <1>3, <2>2, SameClashed
  <2>3. ASSUME NEW r \in Runs, GetsSlot(r) PROVE Tracking'
    BY <2>2, <2>3, UntouchedTracking DEF GetsSlot, MarkRunning
  <2>4. ASSUME NEW r \in Runs, Ends(r) PROVE Tracking'
    BY <2>2, <2>4, EndsTracks DEF Ends, Settle
  <2>5. ASSUME NEW owned, CancelOwn(owned) PROVE Tracking'
    BY <2>2, <2>5, CancelTracks DEF CancelOwn
  <2>6. ASSUME NEW id \in Ids, RetentionEnds(id) PROVE Tracking'
    BY <2>2, <2>6, RetentionTracks DEF RetentionEnds, Evict
  <2> QED BY <1>3, <2>1, <2>3, <2>4, <2>5, <2>6 DEF Jobs
<1>4. ASSUME Delivery \/ Session, Reuse PROVE Tracking'
  <2>1. /\ UNCHANGED <<status, settled, idOf, jobs, suppressed, watched>>
        /\ UNCHANGED <<waits, finished, polls, answered>>
    BY <1>4 DEF Delivery, OnJobComplete, DeliverySucceeds, Fails, DeliveryFails, RetryDue,
      DelayOver, Drains, DrainOne, LoopWakes, Wake, LoopSettles, LoopEnds,
      Session, Flushes, Prompts, PollsAsides, ResolvesAsides, SessionSettles, Stops
  <2> QED BY <1>4, <2>1, SameClashed, UntouchedTracking
<1> QED BY <1>1, <1>2, <1>3, <1>4 DEF Next, Step

-------------------------------------------------------------------------------
(* A completion is in one place at a time: queued or in flight with the    *)
(* manager, or staged, drained or injected with the session; unless its id *)
(* clashed.                                                                *)

LEMMA Looser ==
  ASSUME NEW s, NEW but, NEW more, Distinct(s, but), but \subseteq more
  PROVE  Distinct(s, more)
BY DEF Distinct

LEMMA TailFrom ==
  ASSUME NEW S, NEW q \in Seq(S), NEW m \in 1 .. Len(q) + 1
  PROVE  /\ SubSeq(q, m, Len(q)) \in Seq(S)
         /\ ToSet(SubSeq(q, m, Len(q))) = {q[i] : i \in m .. Len(q)}
         /\ \A but : Distinct(q, but) => Distinct(SubSeq(q, m, Len(q)), but)
<1> DEFINE t == SubSeq(q, m, Len(q))
<1>1. /\ t \in Seq(S) /\ Len(t) = Len(q) - m + 1 /\ Len(q) \in Nat
      /\ \A i \in 1 .. Len(t) : t[i] = q[m + i - 1]
  OBVIOUS
<1>2. DOMAIN t = 1 .. Len(t) /\ DOMAIN q = 1 .. Len(q)
  BY <1>1
<1> HIDE DEF t
<1>3. ToSet(t) \subseteq {q[i] : i \in m .. Len(q)}
  <2> SUFFICES ASSUME NEW i \in 1 .. Len(t) PROVE t[i] \in {q[j] : j \in m .. Len(q)}
    BY <1>2 DEF ToSet
  <2>1. m + i - 1 \in m .. Len(q)
    BY <1>1
  <2> QED BY <1>1, <2>1
<1>4. {q[i] : i \in m .. Len(q)} \subseteq ToSet(t)
  <2> SUFFICES ASSUME NEW i \in m .. Len(q) PROVE q[i] \in ToSet(t)
    OBVIOUS
  <2>1. i - m + 1 \in 1 .. Len(t) /\ m + (i - m + 1) - 1 = i
    BY <1>1
  <2>2. t[i - m + 1] = q[i]
    BY <1>1, <2>1
  <2> QED BY <1>2, <2>1, <2>2 DEF ToSet
<1>5. ASSUME NEW but, Distinct(q, but) PROVE Distinct(t, but)
  <2> SUFFICES ASSUME NEW i \in 1 .. Len(t), NEW j \in 1 .. Len(t), t[i] = t[j]
               PROVE  i = j \/ t[i] \in but
    BY <1>2 DEF Distinct
  <2>1. /\ m + i - 1 \in 1 .. Len(q) /\ m + j - 1 \in 1 .. Len(q)
        /\ t[i] = q[m + i - 1] /\ t[j] = q[m + j - 1]
    <3>1. Len(t) = Len(q) - m + 1 /\ Len(q) \in Nat
      BY <1>1
    <3>2. m + i - 1 \in 1 .. Len(q) /\ m + j - 1 \in 1 .. Len(q)
      BY <3>1
    <3>3. t[i] = q[m + i - 1] /\ t[j] = q[m + j - 1]
      BY <1>1, Zenon
    <3> QED BY <3>2, <3>3
  <2>2. m + i - 1 = m + j - 1 \/ t[i] \in but
    BY <1>2, <1>5, <2>1 DEF Distinct
  <2> QED BY <2>2
<1> QED BY <1>1, <1>3, <1>4, <1>5 DEF t

LEMMA Joined ==
  ASSUME NEW S, NEW s \in Seq(S), NEW t \in Seq(S)
  PROVE  /\ s \o t \in Seq(S) /\ ToSet(s \o t) = ToSet(s) \cup ToSet(t)
         /\ \A but : Distinct(s, but) /\ Distinct(t, but) /\ ToSet(s) \cap ToSet(t) \subseteq but
              => Distinct(s \o t, but)
<1> DEFINE u == s \o t
<1>1. /\ u \in Seq(S) /\ Len(u) = Len(s) + Len(t) /\ Len(s) \in Nat /\ Len(t) \in Nat
      /\ \A i \in 1 .. Len(s) : u[i] = s[i]
      /\ \A i \in 1 .. Len(u) : i > Len(s) => u[i] = t[i - Len(s)]
  OBVIOUS
<1>2. DOMAIN u = 1 .. Len(u) /\ DOMAIN s = 1 .. Len(s) /\ DOMAIN t = 1 .. Len(t)
  BY <1>1
<1> HIDE DEF u
<1>3. ASSUME NEW i \in 1 .. Len(u)
      PROVE  \/ i \in 1 .. Len(s) /\ u[i] = s[i]
             \/ i - Len(s) \in 1 .. Len(t) /\ u[i] = t[i - Len(s)]
  BY <1>1
<1>4. ToSet(u) \subseteq ToSet(s) \cup ToSet(t)
  BY <1>2, <1>3 DEF ToSet
<1>5. ToSet(s) \subseteq ToSet(u)
  BY <1>1, <1>2 DEF ToSet
<1>6. ToSet(t) \subseteq ToSet(u)
  <2> SUFFICES ASSUME NEW i \in 1 .. Len(t) PROVE t[i] \in ToSet(u)
    BY <1>2 DEF ToSet
  <2>1. i + Len(s) \in 1 .. Len(u) /\ i + Len(s) > Len(s) /\ (i + Len(s)) - Len(s) = i
    BY <1>1
  <2>2. u[i + Len(s)] = t[i]
    BY <1>1, <2>1
  <2> QED BY <1>2, <2>1, <2>2 DEF ToSet
<1>7. ASSUME NEW but, Distinct(s, but), Distinct(t, but), ToSet(s) \cap ToSet(t) \subseteq but
      PROVE  Distinct(u, but)
  <2> SUFFICES ASSUME NEW i \in 1 .. Len(u), NEW j \in 1 .. Len(u), u[i] = u[j]
               PROVE  i = j \/ u[i] \in but
    BY <1>2 DEF Distinct
  <2>1. CASE i \in 1 .. Len(s) /\ j \in 1 .. Len(s)
    BY <1>1, <1>2, <1>7, <2>1 DEF Distinct
  <2>2. CASE i - Len(s) \in 1 .. Len(t) /\ j - Len(s) \in 1 .. Len(t)
    <3>1. u[i] = t[i - Len(s)] /\ u[j] = t[j - Len(s)]
      BY <1>1, <2>2
    <3>2. i - Len(s) = j - Len(s) \/ u[i] \in but
      BY <1>2, <1>7, <2>2, <3>1 DEF Distinct
    <3> QED BY <1>1, <3>2
  <2>3. ASSUME NEW k \in 1 .. Len(u), NEW l \in 1 .. Len(u),
               k \in 1 .. Len(s), l - Len(s) \in 1 .. Len(t), u[k] = u[l]
        PROVE  u[k] \in but
    <3>1. u[k] = s[k] /\ u[l] = t[l - Len(s)]
      BY <1>1, <2>3
    <3>2. s[k] \in ToSet(s) /\ t[l - Len(s)] \in ToSet(t)
      BY <1>2, <2>3 DEF ToSet
    <3> QED BY <1>7, <2>3, <3>1, <3>2
  <2> QED BY <1>3, <2>1, <2>2, <2>3
<1> QED BY <1>1, <1>4, <1>5, <1>6, <1>7 DEF u

LEMMA Appended ==
  ASSUME NEW S, NEW s \in Seq(S), NEW e \in S
  PROVE  /\ Append(s, e) \in Seq(S) /\ ToSet(Append(s, e)) = ToSet(s) \cup {e}
         /\ \A but : Distinct(s, but) /\ (e \in ToSet(s) => e \in but) => Distinct(Append(s, e), but)
<1> DEFINE t == <<e>>
<1>1. t \in Seq(S) /\ ToSet(t) = {e} /\ \A but : Distinct(t, but)
  BY DEF ToSet, Distinct
<1>2. Append(s, e) = s \o t
  OBVIOUS
<1> HIDE DEF t
<1>3. \A but : (e \in ToSet(s) => e \in but) => ToSet(s) \cap ToSet(t) \subseteq but
  BY <1>1
<1> QED BY <1>1, <1>2, <1>3, Joined

(* Taking an entry out of the queue leaves the others.                     *)
LEMMA TakenOut ==
  ASSUME NEW S, NEW s \in Seq(S), NEW i \in DOMAIN s
  PROVE  /\ RemoveAt(s, i) \in Seq(S)
         /\ ToSet(s) = ToSet(RemoveAt(s, i)) \cup {s[i]}
         /\ \A but : Distinct(s, but) =>
              Distinct(RemoveAt(s, i), but) /\ (s[i] \in ToSet(RemoveAt(s, i)) => s[i] \in but)
<1> DEFINE before == SubSeq(s, 1, i - 1)
           after == SubSeq(s, i + 1, Len(s))
<1>1. Len(s) \in Nat /\ DOMAIN s = 1 .. Len(s) /\ i \in 1 .. Len(s)
  OBVIOUS
<1>2. /\ after \in Seq(S) /\ \A but : Distinct(s, but) => Distinct(after, but)
      /\ ToSet(after) = {s[j] : j \in i + 1 .. Len(s)}
  <2>1. i + 1 \in 1 .. Len(s) + 1
    BY <1>1
  <2> QED BY <2>1, TailFrom
<1>3. /\ before \in Seq(S) /\ DOMAIN before = 1 .. i - 1
      /\ \A j \in 1 .. i - 1 : before[j] = s[j]
  BY <1>1
<1> HIDE DEF before, after
<1>4. ToSet(before) = {s[j] : j \in 1 .. i - 1}
  BY <1>1, <1>3 DEF ToSet
<1>5. RemoveAt(s, i) = before \o after
  BY DEF RemoveAt, before, after
<1>6. /\ before \o after \in Seq(S)
      /\ ToSet(before \o after) = ToSet(before) \cup ToSet(after)
      /\ \A but : Distinct(before, but) /\ Distinct(after, but)
                   /\ ToSet(before) \cap ToSet(after) \subseteq but => Distinct(before \o after, but)
  <2>1. before \in Seq(S) /\ after \in Seq(S)
    BY <1>2, <1>3
  <2> QED BY ONLY <2>1, Joined
<1>7. ToSet(s) = ToSet(before) \cup ToSet(after) \cup {s[i]}
  <2>1. \A j \in 1 .. Len(s) : j \in 1 .. i - 1 \/ j \in i + 1 .. Len(s) \/ j = i
    BY <1>1
  <2>2. \A j \in (1 .. i - 1) \cup (i + 1 .. Len(s)) : j \in 1 .. Len(s)
    BY <1>1
  <2> QED BY <1>1, <1>2, <1>4, <2>1, <2>2 DEF ToSet
<1>8. ASSUME NEW but, Distinct(s, but)
      PROVE  /\ Distinct(before \o after, but)
             /\ s[i] \in ToSet(before \o after) => s[i] \in but
  <2>1. \A j, k \in 1 .. Len(s) : s[j] = s[k] => j = k \/ s[j] \in but
    BY <1>1, <1>8 DEF Distinct
  <2>2. Distinct(before, but)
    <3>1. \A j \in 1 .. i - 1 : j \in 1 .. Len(s)
      BY <1>1
    <3> QED BY <1>3, <2>1, <3>1 DEF Distinct
  <2>3. \A j \in 1 .. i - 1 : \A k \in i + 1 .. Len(s) : j \in 1 .. Len(s) /\ k \in 1 .. Len(s) /\ j # k
    BY <1>1
  <2>4. ToSet(before) \cap ToSet(after) \subseteq but
    BY <1>2, <1>4, <2>1, <2>3
  <2>5. Distinct(before \o after, but)
    BY <1>2, <1>6, <1>8, <2>2, <2>4
  <2>6. ASSUME s[i] \in ToSet(before) \cup ToSet(after) PROVE s[i] \in but
    <3>1. PICK j \in (1 .. i - 1) \cup (i + 1 .. Len(s)) : s[i] = s[j]
      BY <1>2, <1>4, <2>6
    <3>2. j \in 1 .. Len(s) /\ j # i
      BY <1>1
    <3> QED BY <1>1, <2>1, <3>1, <3>2
  <2> QED BY <1>6, <2>5, <2>6
<1> QED BY <1>5, <1>6, <1>7, <1>8

Tidy ==
  /\ deliveries \in Seq(Runs) /\ Distinct(deliveries, clashed)
  /\ inFlight \subseteq Runs /\ inFlight \cap ToSet(deliveries) \subseteq clashed

(* The step leaves the manager with those of S that sup does not hold      *)
(* back, and perhaps some that it does.                                    *)
Passes(S, sup) ==
  /\ Tidy' /\ Queued' \subseteq S
  /\ \A r \in S \ Queued' : Suppressed(r, sup)

LEMMA DrivePasses ==
  ASSUME UNCHANGED clashed, NEW q \in Seq(Runs), Distinct(q, clashed),
         NEW fl \in SUBSET Runs, fl \cap ToSet(q) \subseteq clashed,
         NEW late, NEW sup, Drive(q, fl, late, sup)
  PROVE  Passes(ToSet(q) \cup fl, sup)
<1> DEFINE open == {i \in DOMAIN q : ~Suppressed(q[i], sup)}
           first == Min(open)
<1>1. DOMAIN q = 1 .. Len(q) /\ Len(q) \in Nat /\ open \in SUBSET Nat
  OBVIOUS
<1>2. \A i, j \in 1 .. Len(q) : q[i] = q[j] => i = j \/ q[i] \in clashed
  BY <1>1 DEF Distinct
<1>3. CASE open = {}
  <2>1. deliveries' = <<>> /\ inFlight' = fl
    BY <1>3 DEF Drive
  <2>2. \A r \in ToSet(q) : Suppressed(r, sup)
    BY <1>3 DEF ToSet
  <2>3. ToSet(deliveries') = {} /\ deliveries' \in Seq(Runs) /\ Distinct(deliveries', clashed)
    BY <2>1 DEF ToSet, Distinct
  <2>4. Tidy' /\ Queued' = fl
    BY <2>1, <2>3 DEF Tidy, Queued
  <2> QED BY <2>2, <2>4 DEF Passes
<1>4. CASE open # {}
  <2>1. first \in open /\ \A i \in open : first =< i
    BY <1>1, <1>4, MinIsLeast
  <2>2. first \in 1 .. Len(q)
    BY <1>1, <2>1
  <2>3. \/ deliveries' = SubSeq(q, first, Len(q)) /\ inFlight' = fl
        \/ deliveries' = SubSeq(q, first + 1, Len(q)) /\ inFlight' = fl \cup {q[first]}
    BY <1>4 DEF Drive
  <2> HIDE DEF first
  <2>4. PICK m \in 1 .. Len(q) + 1 :
          /\ m = first \/ m = first + 1
          /\ deliveries' = SubSeq(q, m, Len(q))
          /\ inFlight' = IF m = first THEN fl ELSE fl \cup {q[first]}
    <3>1. first \in 1 .. Len(q) + 1 /\ first + 1 \in 1 .. Len(q) + 1 /\ first + 1 # first
      BY <1>1, <2>2
    <3> QED BY <2>3, <3>1
  <2>5. /\ deliveries' \in Seq(Runs) /\ Distinct(deliveries', clashed)
        /\ ToSet(deliveries') = {q[i] : i \in m .. Len(q)}
    BY <2>4, TailFrom
  <2>6. q[first] \in Runs /\ q[first] \in ToSet(q)
    BY <1>1, <2>2 DEF ToSet
  <2>7. ToSet(deliveries') \subseteq ToSet(q) /\ (m # first /\ q[first] \in ToSet(deliveries')
                                                      => q[first] \in clashed)
    <3>1. \A i \in m .. Len(q) : i \in 1 .. Len(q) /\ (m # first => i # first)
      BY <1>1, <2>2, <2>4
    <3> QED BY <1>1, <1>2, <2>2, <2>5, <3>1 DEF ToSet
  <2>8. Tidy'
    BY <2>4, <2>5, <2>6, <2>7 DEF Tidy
  <2>9. Queued' \subseteq ToSet(q) \cup fl
    BY <2>4, <2>6, <2>7 DEF Queued
  <2>10. ASSUME NEW r \in ToSet(q) \cup fl, r \notin Queued' PROVE Suppressed(r, sup)
    <3>1. r \notin fl /\ r \notin ToSet(deliveries') /\ (m # first => r # q[first])
      BY <2>4, <2>10 DEF Queued
    <3>2. PICK i \in 1 .. Len(q) : r = q[i]
      BY <1>1, <2>10, <3>1 DEF ToSet
    <3>3. i < first
      BY <1>1, <2>2, <2>4, <2>5, <3>1, <3>2
    <3>4. i \notin open
      BY <1>1, <2>1, <2>2, <3>3
    <3> QED BY <1>1, <3>2, <3>4
  <2> QED BY <2>8, <2>9, <2>10 DEF Passes
<1> QED BY <1>3, <1>4

LEMMA EnsurePasses ==
  ASSUME UNCHANGED clashed, NEW q \in Seq(Runs), Distinct(q, clashed),
         NEW fl \in SUBSET Runs, fl \cap ToSet(q) \subseteq clashed,
         NEW late, NEW sup, Ensure(q, fl, late, sup)
  PROVE  Passes(ToSet(q) \cup fl, sup)
<1>1. CASE Drive(q, fl, late, sup)
  BY <1>1, DrivePasses
<1>2. CASE Leave(q, fl)
  BY <1>2 DEF Leave, Passes, Tidy, Queued
<1> QED BY <1>1, <1>2 DEF Ensure

LEMMA EnqueuePasses ==
  ASSUME Tidy, UNCHANGED clashed, NEW r \in Runs, r \in Queued => r \in clashed,
         NEW sup, EnqueueDelivery(r, sup)
  PROVE  Passes(Queued \cup {r}, sup)
<1>1. CASE Suppressed(r, sup)
  <2>1. UNCHANGED <<deliveries, inFlight>>
    BY <1>1 DEF EnqueueDelivery
  <2> QED BY <1>1, <2>1 DEF Passes, Tidy, Queued
<1>2. CASE ~Suppressed(r, sup)
  <2> DEFINE q == Append(deliveries, r)
  <2>1. q \in Seq(Runs) /\ Distinct(q, clashed) /\ ToSet(q) = ToSet(deliveries) \cup {r}
    BY Appended DEF Tidy, Queued
  <2>2. inFlight \in SUBSET Runs /\ inFlight \cap ToSet(q) \subseteq clashed
    BY <2>1 DEF Tidy, Queued
  <2>3. Ensure(q, inFlight, backoff, sup)
    BY <1>2 DEF EnqueueDelivery
  <2> HIDE DEF q
  <2>4. Passes(ToSet(q) \cup inFlight, sup)
    BY <2>1, <2>2, <2>3, EnsurePasses
  <2>5. ToSet(q) \cup inFlight = Queued \cup {r}
    BY <2>1 DEF Queued
  <2> QED BY <2>4, <2>5
<1> QED BY <1>1, <1>2

LEMMA DropPasses ==
  ASSUME Tidy, clashed \subseteq clashed', NEW sup, UNCHANGED inFlight, DropHeldBack(sup)
  PROVE  Passes(Queued, sup)
<1> DEFINE held == {r \in Runs : Suppressed(r, sup)}
<1>1. deliveries' \in Without(deliveries, held)
  BY DEF DropHeldBack
<1>2. ToSet(deliveries) \subseteq Runs
  BY DEF Tidy, ToSet
<1> HIDE DEF held
<1>3. /\ deliveries' \in Seq(Runs) /\ Distinct(deliveries', clashed')
      /\ ToSet(deliveries') = ToSet(deliveries) \ held
  BY <1>1, Filtered, Looser DEF Tidy
<1>4. Tidy' /\ Queued' \subseteq Queued
  BY <1>3 DEF Tidy, Queued
<1>5. \A r \in Queued \ Queued' : Suppressed(r, sup)
  BY <1>2, <1>3 DEF Queued, held
<1> QED BY <1>4, <1>5 DEF Passes

LEMMA DeliveredPasses ==
  ASSUME UNCHANGED clashed, NEW r, NEW late, NEW q \in Seq(Runs), Distinct(q, clashed),
         inFlight \subseteq Runs, (inFlight \ {r}) \cap ToSet(q) \subseteq clashed,
         Delivered(r, q, late)
  PROVE  Passes(ToSet(q) \cup (inFlight \ {r}), HeldBack)
<1> DEFINE fl == inFlight \ {r}
<1>1. fl \in SUBSET Runs /\ fl \cap ToSet(q) \subseteq clashed
  OBVIOUS
<1>2. Drive(q, fl, late, HeldBack) \/ Ensure(q, fl, late, HeldBack)
  BY DEF Delivered
<1> HIDE DEF fl
<1>3. Passes(ToSet(q) \cup fl, HeldBack)
  BY <1>1, <1>2, DrivePasses, EnsurePasses
<1> QED BY <1>3 DEF fl

LEMMA DrainPasses ==
  ASSUME Tidy, UNCHANGED clashed, NEW r \in Runs, DrainOne(r)
  PROVE  Tidy' /\ Queued' = Queued
<1>1. PICK i \in DOMAIN deliveries : /\ deliveries[i] = r
                                     /\ deliveries' = RemoveAt(deliveries, i)
                                     /\ inFlight' = inFlight \cup {r}
  BY DEF DrainOne, Leave
<1>2. /\ deliveries' \in Seq(Runs) /\ Distinct(deliveries', clashed)
      /\ ToSet(deliveries) = ToSet(deliveries') \cup {r}
      /\ r \in ToSet(deliveries') => r \in clashed
  BY <1>1, TakenOut DEF Tidy
<1> QED BY <1>1, <1>2 DEF Tidy, Queued

Sitting == Settling \cup ToSet(injected)
Everywhere == Places \cup ToSet(injected)

SessionTidy ==
  /\ staged \in Seq(Runs) /\ thunks \in Seq(Runs) /\ injected \in Seq(Runs)
  /\ Distinct(staged, clashed) /\ Distinct(thunks, clashed) /\ Distinct(injected, clashed)
  /\ ToSet(staged) \cap ToSet(thunks) \subseteq clashed
  /\ Settling \cap ToSet(injected) \subseteq clashed
  /\ thunks # <<>> => phase \in {"polling", "yielding"}

InPlace == Tidy /\ SessionTidy /\ Queued \cap Sitting \subseteq clashed

(* A step lets new completions in, loses those that sup holds back and no  *)
(* others, and injects what is not stale.                                  *)
Moves(new, sup) ==
  /\ InPlace' /\ Everywhere' \subseteq Everywhere \cup new /\ Places' \subseteq Places \cup new
  /\ \A r \in (Everywhere \cup new) \ Everywhere' : Suppressed(r, sup)
  /\ ToSet(injected) \subseteq ToSet(injected')
  /\ \A r \in ToSet(injected') \ ToSet(injected) : r \in Places \ Stale

(* The manager moves, the session does not.                                *)
LEMMA PassesMoves ==
  ASSUME InPlace, clashed \subseteq clashed', NEW new \in SUBSET Runs,
         new \cap Everywhere \subseteq clashed, NEW sup,
         Passes(Queued \cup new, sup), UNCHANGED <<staged, thunks, injected, phase>>
  PROVE  Moves(new, sup)
<1>1. SessionTidy' /\ Settling' = Settling /\ Sitting' = Sitting
  BY Looser DEF InPlace, SessionTidy, Settling, Sitting
<1>2. Tidy' /\ Queued' \subseteq Queued \cup new
  BY DEF Passes
<1>3. InPlace'
  BY <1>1, <1>2 DEF InPlace, Everywhere, Places, Sitting
<1>4. /\ Everywhere = Queued \cup Sitting /\ Places = Queued \cup Settling
      /\ Everywhere' = Queued' \cup Sitting' /\ Places' = Queued' \cup Settling'
  BY DEF Everywhere, Places, Sitting
<1>5. \A r \in (Everywhere \cup new) \ Everywhere' : Suppressed(r, sup)
  BY <1>1, <1>4 DEF Passes
<1> QED BY <1>1, <1>2, <1>3, <1>4, <1>5 DEF Moves

LEMMA StillMoves ==
  ASSUME InPlace, clashed \subseteq clashed', NEW sup,
         UNCHANGED <<deliveries, inFlight, staged, thunks, injected, phase>>
  PROVE  Moves({}, sup)
<1>1. Passes(Queued \cup {}, sup)
  BY Looser DEF InPlace, Passes, Tidy, Queued
<1> QED BY <1>1, PassesMoves

(* The session moves, the manager does not.                                *)
LEMMA SessionMoves ==
  ASSUME InPlace, UNCHANGED <<clashed, deliveries, inFlight>>, SessionTidy',
         Sitting' \subseteq Sitting, Settling' \subseteq Settling,
         \A r \in Sitting \ Sitting' : r \in Stale,
         ToSet(injected) \subseteq ToSet(injected'),
         \A r \in ToSet(injected') \ ToSet(injected) : r \notin Stale
  PROVE  Moves({}, HeldBack)
<1>1. Tidy' /\ Queued' = Queued
  BY DEF InPlace, Tidy, Queued
<1>2. /\ Everywhere = Queued \cup Sitting /\ Places = Queued \cup Settling
      /\ Everywhere' = Queued' \cup Sitting' /\ Places' = Queued' \cup Settling'
      /\ ToSet(injected') \subseteq Sitting' /\ Sitting = Settling \cup ToSet(injected)
  BY DEF Everywhere, Places, Sitting
<1>3. InPlace'
  BY <1>1 DEF InPlace
<1>4. \A r \in (Everywhere \cup {}) \ Everywhere' : Suppressed(r, HeldBack)
  BY <1>1, <1>2 DEF Stale
<1>5. \A r \in ToSet(injected') \ ToSet(injected) : r \in Places \ Stale
  BY <1>2
<1> QED BY <1>1, <1>2, <1>3, <1>4, <1>5 DEF Moves

LEMMA SurvivorsMove ==
  ASSUME NEW s \in Seq(Runs), Distinct(s, clashed),
         injected \in Seq(Runs), Distinct(injected, clashed),
         ToSet(s) \cap ToSet(injected) \subseteq clashed,
         NEW m \in Survivors(s, Stale), injected' = injected \o m
  PROVE  /\ injected' \in Seq(Runs) /\ Distinct(injected', clashed)
         /\ ToSet(injected') = ToSet(injected) \cup (ToSet(s) \ Stale)
<1>1. m \in Seq(Runs) /\ Distinct(m, clashed) /\ ToSet(m) = ToSet(s) \ Stale
  BY Filtered DEF Survivors
<1>2. ToSet(injected) \cap ToSet(m) \subseteq clashed
  BY <1>1
<1> QED BY <1>1, <1>2, Joined

LEMMA FlushMoves ==
  ASSUME InPlace, UNCHANGED clashed, Flushes
  PROVE  Moves({}, HeldBack)
<1> USE DEF InPlace, SessionTidy
<1>1. UNCHANGED <<deliveries, inFlight, thunks>>
  BY DEF Flushes, IdleFlush, managerVars, deliveryVars
<1>2. CASE phase # "idle"
  BY <1>1, <1>2, StillMoves DEF Flushes, IdleFlush
<1>3. CASE phase = "idle"
  <2>1. PICK m \in Survivors(staged, Stale) : injected' = injected \o m
    BY <1>3 DEF Flushes, IdleFlush
  <2>2. staged' = <<>> /\ thunks = <<>>
    BY <1>3 DEF Flushes, IdleFlush
  <2>3. ToSet(staged) \cap ToSet(injected) \subseteq clashed
    BY DEF Settling
  <2>4. /\ injected' \in Seq(Runs) /\ Distinct(injected', clashed)
        /\ ToSet(injected') = ToSet(injected) \cup (ToSet(staged) \ Stale)
    BY <2>1, <2>3, SurvivorsMove
  <2>5. /\ staged' \in Seq(Runs) /\ Distinct(staged', clashed) /\ ToSet(staged') = {}
        /\ ToSet(thunks) = {}
    BY <2>2 DEF Distinct, ToSet
  <2>6. Settling' = {} /\ Settling = ToSet(staged)
    BY <1>1, <2>5 DEF Settling
  <2>7. SessionTidy'
    BY <1>1, <2>2, <2>4, <2>5, <2>6
  <2> QED BY <1>1, <2>4, <2>6, <2>7, SessionMoves DEF Sitting
<1> QED BY <1>2, <1>3

LEMMA PollMoves ==
  ASSUME InPlace, UNCHANGED clashed, PollsAsides
  PROVE  Moves({}, HeldBack)
<1> USE DEF InPlace, SessionTidy
<1>1. /\ UNCHANGED <<deliveries, inFlight, injected>> /\ thunks = <<>>
      /\ thunks' = staged /\ staged' = <<>> /\ phase' \in {"polling", "yielding"}
  BY DEF PollsAsides, PollAsides, managerVars, deliveryVars
<1>2. /\ staged' \in Seq(Runs) /\ Distinct(staged', clashed) /\ ToSet(staged') = {}
      /\ ToSet(thunks) = {}
  BY <1>1 DEF Distinct, ToSet
<1>3. Settling' = Settling
  BY <1>1, <1>2 DEF Settling
<1>4. SessionTidy'
  BY <1>1, <1>2, <1>3
<1> QED BY <1>1, <1>3, <1>4, SessionMoves DEF Sitting

LEMMA ResolveMoves ==
  ASSUME InPlace, UNCHANGED clashed, ResolvesAsides
  PROVE  Moves({}, HeldBack)
<1> USE DEF InPlace, SessionTidy
<1>1. UNCHANGED <<deliveries, inFlight, staged>> /\ thunks' = <<>>
  BY DEF ResolvesAsides, ResolveAsides, managerVars, deliveryVars
<1>2. PICK m \in Survivors(thunks, Stale) : injected' = injected \o m
  BY DEF ResolvesAsides, ResolveAsides
<1>3. ToSet(thunks) \cap ToSet(injected) \subseteq clashed
  BY DEF Settling
<1>4. /\ injected' \in Seq(Runs) /\ Distinct(injected', clashed)
      /\ ToSet(injected') = ToSet(injected) \cup (ToSet(thunks) \ Stale)
  BY <1>2, <1>3, SurvivorsMove
<1>5. thunks' \in Seq(Runs) /\ Distinct(thunks', clashed) /\ ToSet(thunks') = {}
  BY <1>1 DEF Distinct, ToSet
<1>6. Settling' = ToSet(staged) /\ Settling = ToSet(staged) \cup ToSet(thunks)
  BY <1>1, <1>5 DEF Settling
<1>7. SessionTidy'
  BY <1>1, <1>4, <1>5, <1>6
<1> QED BY <1>1, <1>4, <1>6, <1>7, SessionMoves DEF Sitting

LEMMA OtherSessionMoves ==
  ASSUME InPlace, UNCHANGED clashed, Prompts \/ SessionSettles \/ Stops
  PROVE  Moves({}, HeldBack)
<1> USE DEF InPlace, SessionTidy
<1>1. UNCHANGED <<deliveries, inFlight, staged, thunks, injected>>
  BY DEF Prompts, Prompt, SessionSettles, RunSettles, Stops, Stop, managerVars, deliveryVars
<1>2. phase' # phase => phase \notin {"polling", "yielding"}
  BY DEF Prompts, Prompt, SessionSettles, RunSettles, Stops, Stop
<1>3. SessionTidy' /\ Sitting' = Sitting /\ Settling' = Settling
  BY <1>1, <1>2 DEF Settling, Sitting
<1> QED BY <1>1, <1>3, SessionMoves

LEMMA CompletedMoves ==
  ASSUME InPlace, UNCHANGED clashed, NEW r \in Runs, OnJobComplete(r)
  PROVE  Moves({}, HeldBack)
<1> USE DEF InPlace, SessionTidy
<1> DEFINE left == ToSet(deliveries) \cup (inFlight \ {r})
<1>1. r \in inFlight /\ Delivered(r, deliveries, backoff)
  BY DEF OnJobComplete, DeliverySucceeds
<1>2. /\ deliveries \in Seq(Runs) /\ Distinct(deliveries, clashed) /\ inFlight \subseteq Runs
      /\ (inFlight \ {r}) \cap ToSet(deliveries) \subseteq clashed
  BY DEF Tidy
<1>3. Passes(left, HeldBack)
  BY <1>1, <1>2, DeliveredPasses
<1>4. Queued = left \cup {r} /\ (r \in left => r \in clashed)
  BY <1>1, <1>2 DEF Queued, Tidy
<1> HIDE DEF left
<1>5. /\ Tidy' /\ Queued' \subseteq left
      /\ \A q \in left : q \in Queued' \/ Suppressed(q, HeldBack)
  BY <1>3 DEF Passes
<1>6. CASE r \in Stale
  <2>1. UNCHANGED <<staged, thunks, injected, phase>>
    BY <1>6 DEF OnJobComplete, queueVars
  <2>2. Suppressed(r, HeldBack)
    BY <1>6 DEF Stale
  <2>3. Passes(Queued \cup {}, HeldBack)
    BY <1>4, <1>5, <2>2 DEF Passes
  <2> QED BY <2>1, <2>3, PassesMoves
<1>7. CASE r \notin Stale
  <2>1. staged' = Append(staged, r) /\ UNCHANGED <<thunks, injected, phase>>
    BY <1>7 DEF OnJobComplete, Enqueue
  <2>2. r \in Sitting => r \in clashed
    BY <1>4
  <2>3. /\ staged' \in Seq(Runs) /\ ToSet(staged') = ToSet(staged) \cup {r}
        /\ Distinct(staged', clashed)
    BY <2>1, <2>2, Appended DEF Sitting, Settling
  <2>4. SessionTidy' /\ Sitting' = Sitting \cup {r}
    BY <2>1, <2>2, <2>3 DEF Sitting, Settling
  <2>5. InPlace'
    BY <1>4, <1>5, <2>2, <2>4
  <2>6. /\ Everywhere = Queued \cup Sitting /\ Everywhere' = Queued' \cup Sitting'
        /\ Places = Queued \cup Settling /\ Places' = Queued' \cup Settling \cup {r}
    BY <2>1, <2>3 DEF Everywhere, Places, Settling, Sitting
  <2>7. /\ Everywhere' \subseteq Everywhere /\ Places' \subseteq Places
        /\ \A q \in Everywhere \ Everywhere' : Suppressed(q, HeldBack)
    BY <1>4, <1>5, <2>4, <2>6
  <2> QED BY <2>1, <2>5, <2>7 DEF Moves
<1> QED BY <1>6, <1>7

LEMMA FailureMoves ==
  ASSUME InPlace, UNCHANGED clashed, NEW r \in Runs, Fails(r)
  PROVE  Moves({}, HeldBack)
<1> USE DEF InPlace, SessionTidy
<1> DEFINE q == IF Suppressed(r, HeldBack) THEN deliveries ELSE Append(deliveries, r)
<1>1. r \in inFlight /\ Delivered(r, q, backoff') /\ UNCHANGED <<staged, thunks, injected, phase>>
  BY DEF Fails, DeliveryFails, queueVars
<1>2. /\ r \in ToSet(deliveries) => r \in clashed
      /\ inFlight \subseteq Runs /\ inFlight \cap ToSet(deliveries) \subseteq clashed
  BY <1>1 DEF Tidy
<1>3. /\ q \in Seq(Runs) /\ Distinct(q, clashed)
      /\ ToSet(q) = IF Suppressed(r, HeldBack) THEN ToSet(deliveries) ELSE ToSet(deliveries) \cup {r}
  BY <1>2, Appended DEF Tidy
<1> HIDE DEF q
<1>4. (inFlight \ {r}) \cap ToSet(q) \subseteq clashed
  BY <1>2, <1>3
<1>5. Passes(ToSet(q) \cup (inFlight \ {r}), HeldBack)
  BY <1>1, <1>2, <1>3, <1>4, DeliveredPasses
<1>6. /\ ToSet(q) \cup (inFlight \ {r}) \subseteq Queued
      /\ \A o \in Queued \ (ToSet(q) \cup (inFlight \ {r})) : Suppressed(o, HeldBack)
  BY <1>1, <1>2, <1>3 DEF Queued
<1>7. Passes(Queued \cup {}, HeldBack)
  BY <1>5, <1>6 DEF Passes
<1> QED BY <1>1, <1>7, PassesMoves

LEMMA DeliveryMoves ==
  ASSUME InPlace, UNCHANGED clashed, Delivery
  PROVE  Moves({}, HeldBack)
<1> USE DEF queueVars
<1>1. ASSUME NEW r \in Runs, RetryDue(r) PROVE Moves({}, HeldBack)
  BY <1>1, StillMoves DEF RetryDue, DelayOver
<1>2. ASSUME NEW r \in Runs, Drains(r) PROVE Moves({}, HeldBack)
  <2>1. Tidy' /\ Queued' = Queued /\ UNCHANGED <<staged, thunks, injected, phase>>
    BY <1>2, DrainPasses DEF Drains, InPlace
  <2>2. Passes(Queued \cup {}, HeldBack)
    BY <2>1 DEF Passes
  <2> QED BY <2>1, <2>2, PassesMoves
<1>3. CASE LoopWakes \/ LoopSettles
  <2>1. UNCHANGED <<staged, thunks, injected, phase>>
    BY <1>3 DEF LoopWakes, LoopSettles
  <2>2. CASE Drive(deliveries, inFlight, backoff, HeldBack)
    <3>1. Passes(ToSet(deliveries) \cup inFlight, HeldBack)
      BY <2>2, DrivePasses DEF InPlace, Tidy
    <3>2. Passes(Queued \cup {}, HeldBack)
      BY <3>1 DEF Queued, Passes
    <3> QED BY <2>1, <3>2, PassesMoves
  <2>3. CASE UNCHANGED <<deliveries, inFlight>>
    BY <2>1, <2>3, StillMoves
  <2> QED BY <1>3, <2>2, <2>3 DEF LoopWakes, Wake, LoopSettles, LoopEnds
<1> QED BY <1>1, <1>2, <1>3, CompletedMoves, FailureMoves DEF Delivery

-------------------------------------------------------------------------------
(* Every completion is somewhere, or a tool has shown it.                  *)

Informed == answered \cup UNION {polls[p].shown : p \in Polls}

Filed == InPlace /\ \A r \in Everywhere : r \in Runs /\ status[r] = "completed"

Kept == \A r \in Runs \ clashed : status[r] = "completed" => r \in Everywhere \cup Informed

(* What a step owes the completions.                                       *)
Carries ==
  /\ InPlace' /\ ToSet(injected) \subseteq ToSet(injected')
  /\ \A r \in ToSet(injected') \ ToSet(injected) : r \in Places \ Stale
  /\ \A r \in Everywhere' \ Everywhere : r \in Runs /\ status'[r] = "completed"
  /\ \A r \in Places' \ Places : Listed(r) \/ r \notin settled
  /\ \A r \in (Everywhere \cup Informed) \ (Everywhere' \cup Informed') :
       status[r] # "completed" \/ r \in clashed'
  /\ \A r \in Runs : status[r] = "completed" => status'[r] = "completed"
  /\ \A r \in Runs : status'[r] = "completed" =>
       status[r] = "completed" \/ r \in Everywhere' \cup Informed' \cup clashed'

LEMMA CarriedKept ==
  ASSUME Filed, Kept, Carries, clashed \subseteq clashed'
  PROVE  Filed' /\ Kept'
<1>1. \A r \in Everywhere' : r \in Runs /\ status'[r] = "completed"
  BY DEF Filed, Carries
<1>2. Filed'
  BY <1>1 DEF Filed, Carries
<1>3. Kept'
  BY DEF Kept, Carries
<1> QED BY <1>2, <1>3

LEMMA MovesCarry ==
  ASSUME Filed, NEW new \in SUBSET Runs, NEW sup, Moves(new, sup),
         \A r \in Places : Suppressed(r, sup) => r \in Informed' \cup clashed',
         \A r \in new : /\ status'[r] = "completed" /\ (Listed(r) \/ r \notin settled)
                        /\ status[r] = "completed" \/ r \in Everywhere' \cup Informed' \cup clashed',
         \A r \in Informed \ Informed' : status[r] # "completed" \/ r \in clashed',
         \A r \in Runs : status'[r] = "completed" <=> status[r] = "completed" \/ r \in new
  PROVE  Carries
<1>1. /\ InPlace' /\ Everywhere' \subseteq Everywhere \cup new /\ Places' \subseteq Places \cup new
      /\ ToSet(injected) \subseteq ToSet(injected')
      /\ \A r \in ToSet(injected') \ ToSet(injected) : r \in Places \ Stale
      /\ \A r \in Everywhere \ Everywhere' : Suppressed(r, sup)
  BY DEF Moves
<1>2. \A r \in Everywhere \ Everywhere' : r \in Places
  BY <1>1 DEF Everywhere
<1>3. \A r \in Everywhere \ Everywhere' : r \in Informed' \cup clashed'
  BY <1>1, <1>2
<1> QED BY <1>1, <1>3 DEF Carries

(* A completion that is held back has been told of or is being shown.      *)
LEMMA HeldIsInformed ==
  ASSUME Alone, Tracking, NEW r \in Runs \ clashed, Live(r), status[r] \in {"running", "completed"},
         ~Waiting(r), Suppressed(r, HeldBack)
  PROVE  r \in Informed
<1>1. CASE idOf[r] \in suppressed
  BY <1>1 DEF Tracking, Accounts, HeldAnswered, Informed
<1>2. CASE idOf[r] \in watched
  <2>1. PICK p \in Polls : \E q \in polls[p].watching : idOf[q] = idOf[r]
    BY <1>2 DEF Tracking, Watches, WatchedShown
  <2>2. PICK q \in polls[p].watching : idOf[q] = idOf[r]
    BY <2>1
  <2>3. q \in polls[p].shown /\ q \in Runs
    BY DEF Tracking, ToolsTyped, Watches, ShownKnown
  <2>4. Live(q)
    BY <2>3, ShownIsLive DEF Tracking
  <2>5. q = r
    BY <2>2, <2>3, <2>4, LiveAlone
  <2> QED BY <2>3, <2>5 DEF Informed
<1> QED BY <1>1, <1>2 DEF Suppressed, HeldBack

LEMMA PlacedIsInformed ==
  ASSUME Books, Alone, Tracking, Filed, NEW r \in Places \ clashed, Suppressed(r, HeldBack)
  PROVE  r \in Informed
<1>1. r \in Runs /\ status[r] = "completed"
  BY DEF Filed, Everywhere
<1>2. ~Waiting(r)
  BY <1>1 DEF Tracking, Accounts, WaitsFit, Waiting
<1>3. Live(r)
  BY <1>1 DEF Live, Gone, Books, IdsFit
<1> QED BY <1>1, <1>2, <1>3, HeldIsInformed

(* Steps that complete no run, while no tool call returns.                 *)
LEMMA QuietCarries ==
  ASSUME Books, Alone, Tracking, Filed, clashed \subseteq clashed', Moves({}, HeldBack),
         Informed \subseteq Informed',
         \A r \in Runs : status'[r] = "completed" <=> status[r] = "completed"
  PROVE  Carries
<1>1. \A r \in Places : Suppressed(r, HeldBack) => r \in Informed' \cup clashed'
  BY PlacedIsInformed
<1> QED BY <1>1, MovesCarry

(* Steps that leave the queues alone, complete no run and take nothing     *)
(* back that was shown.                                                    *)
LEMMA StillCarries ==
  ASSUME Books, Alone, Tracking, Filed, clashed \subseteq clashed', Informed \subseteq Informed',
         UNCHANGED <<deliveries, inFlight, staged, thunks, injected, phase>>,
         \A r \in Runs : status'[r] = "completed" <=> status[r] = "completed"
  PROVE  Carries
BY StillMoves, QuietCarries DEF Filed

(* A job that completes is queued, unless it is held back.                 *)
LEMMA EndsCarry ==
  ASSUME Books, Alone, Tracking, Filed, UNCHANGED clashed, NEW r \in Runs, Ends(r)
  PROVE  Carries
<1>1. /\ UNCHANGED <<answered, polls, staged, thunks, injected, phase>>
      /\ status[r] \in {"running", "cancelled"} /\ r \notin settled
      /\ r \in Foreground => r \in finished
  BY DEF Ends, Settle, toolVars, queueVars
<1>2. Informed' = Informed
  BY <1>1 DEF Informed
<1>3. CASE status[r] # "running"
  <2>1. UNCHANGED <<status, deliveries, inFlight>>
    BY <1>3 DEF Ends, Settle
  <2> QED BY <1>1, <1>2, <2>1, StillCarries
<1>4. CASE status[r] = "running"
  <2>1. status' = [status EXCEPT ![r] = "completed"] /\ EnqueueDelivery(r, HeldBack)
    BY <1>4 DEF Ends, Settle
  <2>2. r \notin Everywhere
    BY <1>4 DEF Filed
  <2>3. Passes(Queued \cup {r}, HeldBack)
    BY <2>1, <2>2, EnqueuePasses DEF Filed, InPlace, Everywhere, Places
  <2>4. Moves({r}, HeldBack)
    BY <1>1, <2>2, <2>3, PassesMoves DEF Filed
  <2>5. Live(r) /\ ~Waiting(r)
    BY <1>1, <1>4 DEF Books, IdsFit, Live, Gone, Tracking, Accounts, WaitsFit, Waiting
  <2>6. r \in Everywhere' \cup Informed' \cup clashed'
    <3>1. r \in Everywhere' \/ Suppressed(r, HeldBack)
      BY <2>4 DEF Moves
    <3> QED BY <1>2, <1>4, <2>5, <3>1, HeldIsInformed
  <2>7. \A q \in Places : Suppressed(q, HeldBack) => q \in Informed' \cup clashed'
    BY <1>2, PlacedIsInformed
  <2>8. \A q \in Runs : status'[q] = "completed" <=> (status[q] = "completed" \/ q \in {r})
    BY <1>4, <2>1 DEF Books, BooksTyped
  <2> QED BY <1>1, <1>2, <2>4, <2>6, <2>7, <2>8, MovesCarry
<1> QED BY <1>3, <1>4

(* What a tool call shows of completed runs it tells of.                   *)
LEMMA TellingCarries ==
  ASSUME Books, Alone, Tracking, Filed, UNCHANGED clashed,
         NEW shown \in SUBSET Runs, \A r \in shown : Live(r),
         BuildResult(shown), UNCHANGED <<inFlight, staged, thunks, injected, phase>>,
         watched' \subseteq watched,
         Informed \subseteq Informed' \cup shown,
         \A r \in Runs : status'[r] = "completed" <=> status[r] = "completed"
  PROVE  Carries
<1>1. /\ suppressed' = suppressed \cup IdsOf(Finished(shown))
      /\ answered' = answered \cup Finished(shown)
      /\ UNCHANGED deliveries \/ DropHeldBack(suppressed' \cup watched')
      /\ Finished(shown) \in SUBSET Runs /\ \A r \in Finished(shown) : Live(r)
  BY TellingTells
<1> DEFINE sup == suppressed' \cup watched'
<1>2. Moves({}, sup)
  <2>1. CASE UNCHANGED deliveries
    BY <2>1, StillMoves DEF Filed
  <2>2. CASE DropHeldBack(sup)
    <3>1. Passes(Queued \cup {}, sup)
      BY <2>2, DropPasses DEF Filed, InPlace
    <3> QED BY <3>1, PassesMoves DEF Filed
  <2> QED BY <1>1, <2>1, <2>2
<1>3. ASSUME NEW r \in Runs \ clashed, r \in shown, status[r] = "completed" PROVE r \in Informed'
  <2>1. Snapshot(r) = r
    <3>1. Live(r) /\ idOf[r] \in Ids /\ idOf[r] # None
      BY <1>3, IdsApart DEF Live, Books, BooksTyped
    <3>2. ASSUME jobs[idOf[r]] # None PROVE jobs[idOf[r]] = r
      <4>1. /\ jobs[idOf[r]] \in Runs /\ Listed(jobs[idOf[r]])
            /\ idOf[jobs[idOf[r]]] = idOf[r]
        BY <3>1, <3>2 DEF Books, BooksTyped, ListedById, Listed
      <4> QED BY <3>1, <4>1, ListedIsLive, LiveAlone
    <3> QED BY <3>2 DEF Snapshot
  <2>2. r \in Finished(shown)
    BY <1>3, <2>1 DEF Finished
  <2> QED BY <1>1, <2>2 DEF Informed
<1>4. ASSUME NEW r \in Places, Suppressed(r, sup) PROVE r \in Informed' \cup clashed'
  <2> SUFFICES ASSUME r \notin clashed PROVE r \in Informed'
    OBVIOUS
  <2>1. r \in Runs /\ status[r] = "completed"
    BY DEF Filed, Everywhere
  <2>2. Live(r)
    BY <2>1 DEF Live, Gone, Books, IdsFit
  <2>3. CASE idOf[r] \in IdsOf(Finished(shown))
    <3>1. PICK q \in Finished(shown) : idOf[q] = idOf[r]
      BY <2>3 DEF IdsOf
    <3>2. q = r
      BY <1>1, <2>1, <2>2, <3>1, LiveAlone
    <3> QED BY <1>1, <3>1, <3>2 DEF Informed
  <2>4. CASE idOf[r] \in HeldBack
    <3>1. r \in Informed
      BY <2>1, <2>4, PlacedIsInformed DEF Suppressed
    <3> QED BY <1>3, <2>1, <3>1
  <2> QED BY <1>1, <1>4, <2>3, <2>4 DEF Suppressed, HeldBack
<1>5. \A r \in Informed \ Informed' : status[r] # "completed" \/ r \in clashed'
  BY <1>3
<1> HIDE DEF sup
<1> QED BY <1>2, <1>4, <1>5, MovesCarry

LEMMA RegisterCarries ==
  ASSUME Books, Alone, Tracking, Filed, NEW r \in Runs, NEW queued, NEW acked,
         Register(r, queued, acked), Reuse, UNCHANGED <<queueVars, polls, answered>>
  PROVE  Carries
<1> DEFINE id == idOf'[r]
           sup == HeldBack \cup {id}
<1>1. /\ status[r] = "new" /\ status' = [status EXCEPT ![r] = "running"] /\ UNCHANGED inFlight
      /\ clashed \subseteq clashed' /\ (UNCHANGED deliveries \/ DropHeldBack(sup))
  BY Registered
<1>2. \A q \in Runs : idOf[q] = id /\ UnderWay(q) => q \in clashed'
  BY Registered
<1>3. \A q \in Runs : status'[q] = "completed" <=> status[q] = "completed"
  BY <1>1 DEF Books, BooksTyped
<1>4. UNCHANGED <<staged, thunks, injected, phase>> /\ Informed' = Informed
  BY DEF queueVars, Informed
<1>5. CASE UNCHANGED deliveries
  BY <1>1, <1>3, <1>4, <1>5, StillCarries
<1>6. CASE DropHeldBack(sup)
  <2>1. Passes(Queued \cup {}, sup)
    BY <1>1, <1>6, DropPasses DEF Filed, InPlace
  <2>2. Moves({}, sup)
    BY <1>1, <1>4, <2>1, PassesMoves DEF Filed
  <2>3. ASSUME NEW q \in Places, Suppressed(q, sup) PROVE q \in Informed' \cup clashed'
    <3>1. q \in Runs /\ UnderWay(q)
      BY DEF Filed, Everywhere, UnderWay, Places, Queued, Settling
    <3>2. Suppressed(q, HeldBack) \/ idOf[q] = id
      BY <2>3 DEF Suppressed
    <3> QED BY <1>1, <1>2, <1>4, <3>1, <3>2, PlacedIsInformed
  <2> HIDE DEF sup
  <2> QED BY <1>3, <1>4, <2>2, <2>3, MovesCarry
<1> QED BY <1>1, <1>5, <1>6

(* The job that a late call puts in the background may belong to another   *)
(* run by then; its completion is queued, perhaps once more.               *)
LEMMA ExpiryCarries ==
  ASSUME Books, Alone, Tracking, Filed, UNCHANGED clashed, NEW r \in Runs, WaitExpires(r)
  PROVE  Carries
<1> DEFINE sup == suppressed' \cup watched
           job == jobs[idOf[r]]
<1>1. /\ UNCHANGED <<status, idOf, staged, thunks, injected, phase, polls, answered>>
      /\ Waiting(r) /\ suppressed' \subseteq suppressed
      /\ \/ UNCHANGED <<deliveries, inFlight>>
         \/ job # None /\ status[job] = "completed" /\ EnqueueDelivery(job, sup)
  BY DEF WaitExpires, Resume, queueVars, Waiting
<1>2. Informed' = Informed
  BY <1>1 DEF Informed
<1>3. CASE UNCHANGED <<deliveries, inFlight>>
  BY <1>1, <1>2, <1>3, StillCarries
<1>4. CASE job # None /\ status[job] = "completed" /\ EnqueueDelivery(job, sup)
  <2>1. Live(r) /\ status[r] # "completed" /\ idOf[r] \in Ids
    BY <1>1, WaitingIsLive, IdsApart
       DEF Tracking, Accounts, WaitsFit, Waiting, Live, Books, BooksTyped
  <2>2. job \in Runs /\ Listed(job) /\ idOf[job] = idOf[r] /\ job # r
    BY <1>4, <2>1 DEF Books, BooksTyped, ListedById, Listed, Live
  <2> HIDE DEF job, sup
  <2>3. job \in clashed
    BY <2>1, <2>2, ListedIsLive, LiveAlone
  <2>4. Passes(Queued \cup {job}, sup)
    BY <1>4, <2>2, <2>3, EnqueuePasses DEF Filed, InPlace
  <2>5. Moves({job}, sup)
    BY <1>1, <2>2, <2>3, <2>4, PassesMoves DEF Filed
  <2>6. \A q \in Places : Suppressed(q, sup) => q \in Informed' \cup clashed'
    BY <1>1, <1>2, PlacedIsInformed DEF Suppressed, HeldBack, sup
  <2> QED BY <1>1, <1>2, <1>4, <2>2, <2>3, <2>5, <2>6, MovesCarry
<1> QED BY <1>1, <1>3, <1>4

LEMMA JobCallCarries ==
  ASSUME Books, Alone, Tracking, Filed, UNCHANGED clashed,
         NEW p \in Polls, NEW kill \in SUBSET Ours, NEW look \in SUBSET Ours, JobCall(p, kill, look)
  PROVE  Carries
<1> DEFINE running == {r \in look : status'[r] = "running"}
           shown == kill \cup look
<1>1. /\ shown \in SUBSET Runs /\ (\A r \in shown : Live(r)) /\ polls[p] = NoPoll
      /\ UNCHANGED <<inFlight, staged, thunks, injected, phase>>
  BY RunsAssumption, ListedIsLive DEF JobCall, queueVars
<1>2. \A r \in Runs : status'[r] = "completed" <=> status[r] = "completed"
  BY DEF JobCall, Cancel
<1>3. CASE running = {}
  <2>1. UNCHANGED <<watched, polls>> /\ BuildResult(shown)
    BY <1>3 DEF JobCall
  <2> HIDE DEF shown
  <2>2. Informed \subseteq Informed'
    BY <2>1 DEF BuildResult, Informed
  <2> QED BY <1>1, <1>2, <2>1, <2>2, TellingCarries
<1>4. CASE running # {}
  <2>1. /\ polls' = [polls EXCEPT ![p] = [watching |-> running, shown |-> shown]]
        /\ UNCHANGED <<deliveries, answered>>
    BY <1>4 DEF JobCall
  <2> HIDE DEF shown, running
  <2>2. Informed \subseteq Informed'
    BY <1>1, <2>1 DEF Informed, Tracking, ToolsTyped, NoPoll
  <2> QED BY <1>1, <1>2, <2>1, <2>2, StillCarries
<1> QED BY <1>3, <1>4

LEMMA ListingCarries ==
  ASSUME Books, Alone, Tracking, Filed, UNCHANGED clashed, ListJobs
  PROVE  Carries
<1> DEFINE shown == {r \in Ours : Listed(r)}
<1>1. /\ UNCHANGED <<status, inFlight, staged, thunks, injected, phase, polls, watched>>
      /\ shown \in SUBSET Runs /\ (\A r \in shown : Live(r)) /\ BuildResult(shown)
  BY RunsAssumption, ListedIsLive DEF ListJobs, queueVars
<1> HIDE DEF shown
<1>2. Informed \subseteq Informed'
  BY <1>1 DEF BuildResult, Informed
<1> QED BY <1>1, <1>2, TellingCarries

LEMMA PollCarries ==
  ASSUME Books, Alone, Tracking, Filed, UNCHANGED clashed, NEW p \in Polls, PollReturns(p)
  PROVE  Carries
<1> DEFINE shown == polls[p].shown
<1>1. /\ UNCHANGED <<status, inFlight, staged, thunks, injected, phase>> /\ watched' \subseteq watched
      /\ polls' = [polls EXCEPT ![p] = NoPoll]
      /\ shown \in SUBSET Runs /\ (\A r \in shown : Live(r)) /\ BuildResult(shown)
  BY ShownIsLive DEF PollReturns, queueVars, Tracking, ToolsTyped
<1>2. Informed \subseteq Informed' \cup shown
  BY <1>1 DEF BuildResult, Informed, Tracking, ToolsTyped
<1> HIDE DEF shown
<1> QED BY <1>1, <1>2, TellingCarries

LEMMA ToolsCarry ==
  ASSUME Books, Alone, Tracking, Filed, Tools, Reuse
  PROVE  Carries
<1>1. ASSUME UNCHANGED idOf PROVE UNCHANGED clashed
  BY <1>1, SameClashed
<1>2. ASSUME NEW r \in Runs, StartForeground(r) PROVE Carries
  <2>1. Register(r, FALSE, TRUE) /\ UNCHANGED <<queueVars, polls, answered>>
    BY <1>2 DEF StartForeground
  <2> QED BY <2>1, RegisterCarries
<1>3. ASSUME NEW r \in Runs, CommandEnds(r) \/ AbortWait(r) PROVE Carries
  <2>1. /\ UNCHANGED <<idOf, deliveries, inFlight, staged, thunks, injected, phase, polls>>
        /\ answered \subseteq answered'
        /\ \A q \in Runs : status'[q] = "completed" <=> status[q] = "completed"
    BY <1>3 DEF CommandEnds, AbortWait, Cancel, managerVars, jobVars, deliveryVars, queueVars
  <2>2. Informed \subseteq Informed'
    BY <2>1 DEF Informed
  <2> QED BY <1>1, <2>1, <2>2, StillCarries
<1>4. ASSUME NEW r \in Runs, WaitExpires(r) PROVE Carries
  BY <1>1, <1>4, ExpiryCarries DEF WaitExpires
<1>5. ASSUME NEW p \in Polls, PollReturns(p) PROVE Carries
  BY <1>1, <1>5, PollCarries DEF PollReturns
<1>6. ASSUME ListJobs PROVE Carries
  BY <1>1, <1>6, ListingCarries DEF ListJobs
<1>7. ASSUME NEW p \in Polls, NEW kill \in SUBSET Ours, NEW look \in SUBSET Ours,
             JobCall(p, kill, look)
      PROVE  Carries
  BY <1>1, <1>7, JobCallCarries DEF JobCall
<1> QED BY <1>2, <1>3, <1>4, <1>5, <1>6, <1>7 DEF Tools

LEMMA JobsCarry ==
  ASSUME Books, Alone, Tracking, Filed, Jobs, Reuse
  PROVE  Carries
<1> USE DEF toolVars
<1>1. ASSUME UNCHANGED idOf PROVE UNCHANGED clashed
  BY <1>1, SameClashed
<1>2. ASSUME NEW r \in Runs, Start(r) PROVE Carries
  <2>1. Register(r, r \in Named, FALSE) /\ UNCHANGED <<queueVars, polls, answered>>
    BY <1>2 DEF Start
  <2> QED BY <2>1, RegisterCarries
<1>3. ASSUME NEW r \in Runs, Ends(r) PROVE Carries
  BY <1>1, <1>3, EndsCarry DEF Ends, Settle
<1>4. ASSUME UNCHANGED <<idOf, deliveries, inFlight, staged, thunks, injected, phase, polls, answered>>,
             \A q \in Runs : status'[q] = "completed" <=> status[q] = "completed"
      PROVE  Carries
  <2>1. Informed' = Informed
    BY <1>4 DEF Informed
  <2> QED BY <1>1, <1>4, <2>1, StillCarries
<1>5. ASSUME NEW r \in Runs, GetsSlot(r) PROVE Carries
  BY <1>4, <1>5 DEF GetsSlot, MarkRunning, deliveryVars, queueVars
<1>6. ASSUME NEW owned, CancelOwn(owned) PROVE Carries
  BY <1>4, <1>6 DEF CancelOwn, Cancel, deliveryVars, queueVars
<1>7. ASSUME NEW id \in Ids, RetentionEnds(id) PROVE Carries
  BY <1>4, <1>7 DEF RetentionEnds, Evict, deliveryVars, queueVars
<1> QED BY <1>2, <1>3, <1>5, <1>6, <1>7 DEF Jobs

LEMMA NextCarries ==
  ASSUME Books, Alone, Tracking, Filed, [Next]_vars
  PROVE  Carries
<1>1. CASE Tools /\ Reuse
  BY <1>1, ToolsCarry
<1>2. CASE Jobs /\ Reuse
  BY <1>2, JobsCarry
<1>3. ASSUME (Delivery \/ Session) /\ Reuse PROVE Carries
  <2>1. UNCHANGED <<status, idOf, polls, answered>>
    BY <1>3 DEF Delivery, OnJobComplete, DeliverySucceeds, Fails, DeliveryFails, RetryDue,
                DelayOver, Drains, DrainOne, LoopWakes, Wake, LoopSettles, LoopEnds,
                Session, Flushes, Prompts, PollsAsides, ResolvesAsides, SessionSettles, Stops,
                managerVars, jobVars, toolVars
  <2>2. Informed' = Informed
    BY <2>1 DEF Informed
  <2>3. UNCHANGED clashed
    BY <1>3, <2>1, SameClashed
  <2>4. Moves({}, HeldBack)
    BY <1>3, <2>3, DeliveryMoves, FlushMoves, PollMoves, ResolveMoves, OtherSessionMoves
       DEF Session, Filed
  <2> QED BY <2>1, <2>2, <2>3, <2>4, QuietCarries
<1>4. CASE UNCHANGED vars
  <2>1. UNCHANGED <<status, clashed, deliveries, inFlight, staged, thunks, injected, phase,
                    polls, answered>>
    BY <1>4 DEF vars, systemVars, managerVars, jobVars, deliveryVars, queueVars, toolVars
  <2>2. Informed' = Informed
    BY <2>1 DEF Informed
  <2> QED BY <2>1, <2>2, StillCarries
<1> QED BY <1>1, <1>2, <1>3, <1>4 DEF Next, Step

-------------------------------------------------------------------------------
JobsInv == Books /\ Alone /\ RunningKept /\ Tracking /\ Filed /\ Kept

LEMMA JobsInvStarts == Init => JobsInv
<1> SUFFICES ASSUME Init PROVE JobsInv
  OBVIOUS
<1> USE DEF Init, ManagerInit, QueueInit
<1>1. Books /\ Alone /\ RunningKept
  BY IdsApart DEF Books, BooksTyped, IdsFit, ListedById, SettledIsOver, Alone, RunningKept
<1>2. /\ deliveries \in Seq(Runs) /\ Distinct(deliveries, clashed) /\ ToSet(deliveries) = {}
      /\ staged \in Seq(Runs) /\ Distinct(staged, clashed) /\ ToSet(staged) = {}
      /\ thunks \in Seq(Runs) /\ Distinct(thunks, clashed) /\ ToSet(thunks) = {}
      /\ injected \in Seq(Runs) /\ Distinct(injected, clashed) /\ ToSet(injected) = {}
  BY DEF Distinct, ToSet
<1>3. Places = {} /\ Everywhere = {} /\ Settling = {} /\ Queued = {}
  BY <1>2 DEF Places, Everywhere, Settling, Queued
<1>4. InPlace
  BY <1>2, <1>3 DEF InPlace, Tidy, SessionTidy
<1>5. Filed
  BY <1>3, <1>4 DEF Filed
<1>6. Kept
  BY DEF Kept
<1>7. ToolsTyped /\ Watches
  <2>1. NoPoll \in [watching : SUBSET Runs, shown : SUBSET Runs]
    BY DEF NoPoll
  <2> QED BY <2>1 DEF ToolsTyped, WaitStates, Watches, ShownKnown, WatchedShown, NoPoll
<1>8. Accounts
  BY ForegroundAssumption DEF Accounts, WaitsFit, SettledLeft, TellersHold, HeldAnswered, Live, Listed
<1> QED BY <1>1, <1>5, <1>6, <1>7, <1>8 DEF JobsInv, Tracking

LEMMA JobsInvKept ==
  ASSUME JobsInv, [Next]_vars
  PROVE  JobsInv' /\ Carries
<1> USE DEF JobsInv
<1>1. Books' /\ RunningKept'
  BY BooksKept, RunningStaysKept
<1>2. Carries
  BY NextCarries
<1>3. Ages
  BY StepAges DEF Tracking
<1>4. \A r \in Runs : Gone(r) => Gone(r)'
  BY <1>2, <1>3, GoneStays DEF Carries
<1>5. Alone'
  BY <1>4, AloneKept DEF Tracking
<1>6. Tracking'
  BY <1>3, <1>4, TrackingKept DEF Stays
<1>7. Filed' /\ Kept'
  BY <1>2, <1>3, CarriedKept DEF Ages
<1> QED BY <1>1, <1>2, <1>5, <1>6, <1>7

LEMMA OnePlace ==
  ASSUME InPlace
  PROVE  LET places == deliveries \o staged \o thunks \o injected
         IN  Distinct(places, clashed) /\ inFlight \cap ToSet(places) \subseteq clashed
<1> USE DEF InPlace, Tidy, SessionTidy, Queued, Sitting, Settling
<1> DEFINE a == deliveries \o staged
           b == a \o thunks
           c == b \o injected
<1>1. a \in Seq(Runs) /\ Distinct(a, clashed) /\ ToSet(a) = ToSet(deliveries) \cup ToSet(staged)
  <2>1. ToSet(deliveries) \cap ToSet(staged) \subseteq clashed
    OBVIOUS
  <2> QED BY <2>1, Joined
<1> HIDE DEF a
<1>2. b \in Seq(Runs) /\ Distinct(b, clashed) /\ ToSet(b) = ToSet(a) \cup ToSet(thunks)
  <2>1. ToSet(a) \cap ToSet(thunks) \subseteq clashed
    BY <1>1
  <2> QED BY <1>1, <2>1, Joined
<1> HIDE DEF b
<1>3. Distinct(c, clashed) /\ ToSet(c) = ToSet(b) \cup ToSet(injected)
  <2>1. ToSet(b) \cap ToSet(injected) \subseteq clashed
    BY <1>1, <1>2
  <2> QED BY <1>2, <2>1, Joined
<1>4. inFlight \cap ToSet(c) \subseteq clashed
  BY <1>1, <1>2, <1>3
<1> QED BY <1>3, <1>4 DEF a, b

(* A job that runs is listed under its id whenever evictions fire, also    *)
(* those armed before the job settled, for any runs, polls and limits:     *)
(* unless it took an id that an earlier job's timer may free again, or     *)
(* that something is still under way about.                                *)
THEOREM Listing == Spec => []RunningListed
<1>1. Init => JobsInv
  BY JobsInvStarts
<1>2. JobsInv /\ [Next]_vars => JobsInv'
  BY JobsInvKept
<1>3. JobsInv => RunningListed
  BY DEF JobsInv, RunningKept, RunningListed
<1> QED BY <1>1, <1>2, <1>3, PTL DEF Spec

(* No completion is lost and none is in two places, for any runs, polls,   *)
(* limits and failures, wherever an eviction finds it: a completed run     *)
(* whose id has not clashed has been told of, is queued and not held back, *)
(* or is in the hands of a tool call.                                      *)
THEOREM Completions == Spec => []CompletionsKept
<1>1. Init => JobsInv
  BY JobsInvStarts
<1>2. JobsInv /\ [Next]_vars => JobsInv'
  BY JobsInvKept
<1>3. JobsInv => CompletionsKept
  <2> SUFFICES ASSUME JobsInv PROVE CompletionsKept
    OBVIOUS
  <2>1. ASSUME NEW r \in Runs \ clashed, status[r] = "completed" PROVE Told(r) \/ Pending(r)
    <3>1. CASE r \in Informed
      BY <3>1 DEF Informed, Told, Pending
    <3>2. CASE r \in ToSet(injected)
      BY <3>2 DEF Told
    <3>3. CASE r \in Places \ Informed
      <4>1. r \notin Stale
        BY <2>1, <3>3, PlacedIsInformed DEF JobsInv, Stale
      <4> QED BY <3>3, <4>1 DEF Pending, Places, Queued, Settling
    <3> QED BY <2>1, <3>1, <3>2, <3>3 DEF JobsInv, Kept, Everywhere
  <2> QED BY <2>1, OnePlace DEF JobsInv, Filed, CompletionsKept, Distinct
<1> QED BY <1>1, <1>2, <1>3, PTL DEF Spec

(* A run that a tool result told of is not injected afterwards while its   *)
(* job is listed: a told run that is still queued is suppressed when the   *)
(* entries are sifted, unless its id has clashed.                          *)
THEOREM ToldOnce == Spec => NotRepeated
<1>1. Init => JobsInv
  BY JobsInvStarts
<1>2. JobsInv /\ [Next]_vars => JobsInv'
  BY JobsInvKept
<1>3. JobsInv /\ [Next]_vars
        => [\A r \in ToSet(injected') \ ToSet(injected) :
              r \in answered => ~Listed(r) \/ r \in clashed]_vars
  <2> SUFFICES ASSUME JobsInv, [Next]_vars, NEW r \in ToSet(injected') \ ToSet(injected),
                      r \in answered, Listed(r), r \notin clashed
               PROVE  FALSE
    OBVIOUS
  <2>1. r \in Places \ Stale
    BY JobsInvKept DEF Carries
  <2>2. r \in Runs /\ status[r] = "completed"
    BY <2>1 DEF JobsInv, Filed, Everywhere
  <2>3. idOf[r] \notin suppressed
    BY <2>1, <2>2 DEF Stale, Suppressed, HeldBack
  <2> QED BY <2>2, <2>3 DEF JobsInv, Tracking, Accounts, TellersHold
<1> QED BY <1>1, <1>2, <1>3, PTL DEF Spec, NotRepeated

=============================================================================
