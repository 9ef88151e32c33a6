------------------------------ MODULE JobManager ------------------------------
(***************************************************************************)
(* The manager of background jobs (async/job-manager.ts): runs register    *)
(* under an id, settle or are cancelled, and stay listed until their       *)
(* retention is over; the completion of each is delivered by a loop, with  *)
(* retries, unless somebody acknowledged the id or is watching it.  An     *)
(* entry of #deliveries is identified with the run it reports, ids are     *)
(* used again once evicted.  Progress reports, the wait ladder of polls    *)
(* and dispose are left out.                                               *)
(***************************************************************************)
EXTENDS Naturals, Sequences, FiniteSets, SequencesExt, FiniteSetsExt, Filtering

CONSTANTS Runs,           \* what is ever registered
          Named,          \* the runs that bring their own id, the subagents'
          Ours,           \* the runs registered by the main agent
          MaxRunning,     \* #maxRunningJobs
          MaxFailures,    \* bounds the deliveries that fail
          None

ASSUME RunsAssumption ==
  /\ IsFiniteSet(Runs) /\ Named \subseteq Runs /\ Ours \subseteq Runs
  /\ MaxRunning \in Nat \ {0} /\ MaxFailures \in Nat
  /\ None \notin Runs \cup Nat /\ Named \cap Nat = {}

VARIABLES status,      \* job.status; "new" before register
          settled,     \* the runs whose promise is settled
          parked,      \* job.queued
          idOf,        \* the id a run was registered under
          jobs,        \* #jobs
          evictions,   \* ids with a timer in #evictionTimers
          suppressed,  \* #suppressedDeliveries
          watched,     \* #watchedJobs
          deliveries,  \* #deliveries
          drainable,   \* the runs whose delivery is owned by the main agent
          backoff,     \* the runs whose nextAttemptAt is still to come
          inFlight,    \* #inFlightDeliveries
          loop,        \* #deliveryLoop: where it is, and the delivery it awaits
          failures     \* deliveries that failed so far

jobVars == <<status, settled, parked, idOf, jobs, evictions, suppressed>>
deliveryVars == <<deliveries, drainable, backoff, inFlight, loop, failures>>
managerVars == <<jobVars, watched, deliveryVars>>

Numbers == 1 .. Cardinality(Runs \ Named)       \* bg_1, bg_2, ...
Ids == Named \cup Numbers
NoLoop == [at |-> "none", on |-> None]

ManagerInit ==
  /\ status = [r \in Runs |-> "new"] /\ settled = {} /\ parked = {}
  /\ idOf = [r \in Runs |-> None] /\ jobs = [i \in Ids |-> None]
  /\ evictions = {} /\ suppressed = {} /\ watched = {}
  /\ deliveries = <<>> /\ drainable = {} /\ backoff = {} /\ inFlight = {}
  /\ loop = NoLoop /\ failures = 0

\* isDeliverySuppressed, of a run, when sup are the ids held back.
Suppressed(r, sup) == idOf[r] \in sup
HeldBack == suppressed \cup watched

-------------------------------------------------------------------------------
\* #deliveries becomes q and #inFlightDeliveries fl while the loop waits on.
Leave(q, fl) == deliveries' = q /\ inFlight' = fl /\ UNCHANGED loop

\* #runDeliveryLoop from its test on: it drops what is held back, then sleeps
\* until the head is due, delivers it, or ends.
Drive(q, fl, late, sup) ==
  LET open == {i \in DOMAIN q : ~Suppressed(q[i], sup)}
      first == Min(open)
  IN IF open = {}
     THEN /\ deliveries' = <<>> /\ inFlight' = fl
          /\ loop' = [at |-> "ending", on |-> None]
     ELSE IF q[first] \in late
     THEN /\ deliveries' = SubSeq(q, first, Len(q)) /\ inFlight' = fl
          /\ loop' = [at |-> "asleep", on |-> q[first]]
     ELSE /\ deliveries' = SubSeq(q, first + 1, Len(q))
          /\ inFlight' = fl \cup {q[first]}
          /\ loop' = [at |-> "delivering", on |-> q[first]]

\* #ensureDeliveryLoop
Ensure(q, fl, late, sup) ==
  IF loop.at = "none" /\ q # <<>> THEN Drive(q, fl, late, sup) ELSE Leave(q, fl)

\* #enqueueDelivery; the owner is that of the job listed under the id by now.
EnqueueDelivery(r, sup) ==
  IF Suppressed(r, sup) THEN UNCHANGED <<deliveries, drainable, inFlight, loop>>
  ELSE /\ Ensure(Append(deliveries, r), inFlight, backoff, sup)
       /\ drainable' = IF jobs[idOf[r]] \in Ours THEN drainable \cup {r} ELSE drainable \ {r}

\* The deliveries that sup does not hold back stay, in their order.
DropHeldBack(sup) ==
  deliveries' \in Without(deliveries, {r \in Runs : Suppressed(r, sup)})

\* acknowledgeDeliveries
Acknowledge(ids) ==
  /\ suppressed' = suppressed \cup ids
  /\ IF ids = {} THEN UNCHANGED deliveries
                 ELSE DropHeldBack(suppressed' \cup watched')

-------------------------------------------------------------------------------
\* Mutant: ids in use are not skipped.
FreshIdFirst(r) == IF r \in Named THEN r ELSE Min(Numbers)

\* #resolveJobId
FreshId(r) ==
  IF r \in Named THEN r ELSE Min({i \in Numbers : jobs[i] = None})

Active == {i \in Ids : jobs[i] # None /\ status[jobs[i]] = "running"
                                      /\ jobs[i] \notin parked}

\* register; acked is the foreground wait of bash, which acknowledges the id
\* before anything can settle.
Register(r, queued, acked) ==
  /\ status[r] = "new"
  /\ Cardinality(Active) < MaxRunning
  /\ LET id == FreshId(r)
     IN /\ idOf' = [idOf EXCEPT ![r] = id]
        /\ jobs' = [jobs EXCEPT ![id] = r]
        /\ suppressed' = IF acked THEN suppressed \cup {id} ELSE suppressed \ {id}
        /\ IF acked THEN DropHeldBack(HeldBack \cup {id}) ELSE UNCHANGED deliveries
  /\ status' = [status EXCEPT ![r] = "running"]
  /\ parked' = IF queued THEN parked \cup {r} ELSE parked
  /\ UNCHANGED <<settled, evictions, watched, drainable, backoff, inFlight, loop, failures>>

\* markRunning, once the spawn has its slot
MarkRunning(r) ==
  /\ r \in parked
  /\ parked' = parked \ {r}
  /\ UNCHANGED <<status, settled, idOf, jobs, evictions, suppressed, watched>>
  /\ UNCHANGED deliveryVars

\* The run returns or throws.
Settle(r) ==
  /\ status[r] \in {"running", "cancelled"} /\ r \notin settled
  /\ settled' = settled \cup {r}
  /\ IF status[r] = "running"
     THEN /\ status' = [status EXCEPT ![r] = "completed"]
          /\ EnqueueDelivery(r, HeldBack)
     ELSE UNCHANGED <<status, deliveries, drainable, inFlight, loop>>
  /\ evictions' = evictions \cup {idOf[r]}
  /\ UNCHANGED <<parked, idOf, jobs, suppressed, watched, backoff, failures>>

\* cancel and cancelAll, of running jobs
Cancel(rs) ==
  /\ status' = [r \in Runs |-> IF r \in rs THEN "cancelled" ELSE status[r]]
  /\ evictions' = evictions \cup {idOf[r] : r \in rs}

\* The timer of #scheduleEviction: it goes by the id, whoever has it by now.
Evict(id) ==
  /\ id \in evictions
  /\ evictions' = evictions \ {id}
  /\ jobs' = [jobs EXCEPT ![id] = None]
  /\ suppressed' = suppressed \ {id} /\ watched' = watched \ {id}
  /\ UNCHANGED <<status, settled, parked, idOf>>
  /\ UNCHANGED deliveryVars

\* resumeDeliveries, of one job
Resume(r) ==
  /\ suppressed' = suppressed \ {idOf[r]}
  /\ LET job == jobs[idOf[r]]
     IN IF /\ idOf[r] \in suppressed /\ job # None /\ status[job] = "completed"
           /\ ~\E d \in ToSet(deliveries) \cup inFlight : idOf[d] = idOf[r]
        THEN EnqueueDelivery(job, suppressed' \cup watched)
        ELSE UNCHANGED <<deliveries, drainable, inFlight, loop>>

-------------------------------------------------------------------------------
\* The loop's sleep is over: whatever is at the head now is looked at.
Wake ==
  /\ loop.at = "asleep" /\ loop.on \notin backoff
  /\ Drive(deliveries, inFlight, backoff, HeldBack)
  /\ UNCHANGED <<jobVars, watched, drainable, backoff, failures>>

DelayOver(r) ==
  /\ r \in backoff
  /\ backoff' = backoff \ {r}
  /\ UNCHANGED <<jobVars, watched, deliveries, drainable, inFlight, loop, failures>>

\* #deliverNextFiltered, for the main agent: a delivery of its own that is due
\* is taken from wherever it is in the queue.
DrainOne(r) ==
  /\ r \in drainable \cap ToSet(deliveries)
  /\ r \notin backoff /\ ~Suppressed(r, HeldBack)
  /\ \E i \in DOMAIN deliveries : deliveries[i] = r
                                /\ Leave(RemoveAt(deliveries, i), inFlight \cup {r})
  /\ UNCHANGED <<jobVars, watched, drainable, backoff, failures>>

\* Mutant: the loop that waited for the delivery does not go on.
DeliveredAlone(r, q, late) == Ensure(q, inFlight \ {r}, late, HeldBack)

\* #deliverDelivery, when onJobComplete is done with q left in the queue: the
\* finally clause, and the loop if it was the one that waited.
Delivered(r, q, late) ==
  IF loop.at = "delivering" /\ loop.on = r
  THEN Drive(q, inFlight \ {r}, late, HeldBack)
  ELSE Ensure(q, inFlight \ {r}, late, HeldBack)

DeliverySucceeds(r) ==
  /\ r \in inFlight
  /\ Delivered(r, deliveries, backoff)
  /\ UNCHANGED <<jobVars, watched, drainable, backoff, failures>>

DeliveryFails(r) ==
  /\ r \in inFlight /\ failures < MaxFailures
  /\ failures' = failures + 1
  /\ backoff' = backoff \cup {r}
  /\ Delivered(r, IF Suppressed(r, HeldBack) THEN deliveries
                  ELSE Append(deliveries, r), backoff')
  /\ UNCHANGED <<jobVars, watched, drainable>>

\* Mutant: what was queued since the loop's last test is not looked at.
LoopEndsForGood ==
  /\ loop.at = "ending"
  /\ loop' = NoLoop
  /\ UNCHANGED <<jobVars, watched, deliveries, drainable, backoff, inFlight, failures>>

\* The finally clause of #ensureDeliveryLoop.
LoopEnds ==
  /\ loop.at = "ending"
  /\ IF deliveries = <<>>
     THEN loop' = NoLoop /\ UNCHANGED <<deliveries, inFlight>>
     ELSE Drive(deliveries, inFlight, backoff, HeldBack)
  /\ UNCHANGED <<jobVars, watched, drainable, backoff, failures>>

===============================================================================
