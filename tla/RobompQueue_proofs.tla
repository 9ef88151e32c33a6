------------------------ MODULE RobompQueue_proofs ------------------------
(***************************************************************************)
(* Proofs about RobompQueue for any events, issues, slots, retry limits    *)
(* and bounds: no running row is orphaned, slots and issue keys come back, *)
(* cancels are obeyed, and the queue implements EventService.              *)
(***************************************************************************)
EXTENDS RobompQueue, FiniteSetTheorems, TLAPS

Running(e) == row[e].state = "running"
InWork(e) == task[e] \in {"slot", "work"}

(* The types of everything but the slots and the issue keys, which other   *)
(* conjuncts determine.                                                    *)
MemoryTypes ==
  /\ phase \in {"up", "draining", "killing", "stopped", "down"}
  /\ disp \in {"off", "ready", "claiming", "claimed", "requeue", "nap", "idle",
               "stray", "strayRequeue"}
  /\ hand \in Events \cup {None} /\ wakeup \in BOOLEAN
  /\ task \in [Events -> {"none", "slot", "work", "releasing"}]
  /\ thr \in [Events -> {"none", "start", "spawned", "checked", "armed",
                         "stopping", "ok", "failed"}]
  /\ hooks \subseteq Events /\ cancelled \subseteq Events /\ shut \subseteq Events
  /\ firing \subseteq Events /\ still \subseteq Events /\ asked \subseteq Events
Types ==
  /\ row \in [Events -> Rows] /\ arrived \in Seq(Events) /\ MemoryTypes
  /\ left \in [arrivals : 0 .. Budget.arrivals, exits : 0 .. Budget.exits,
               replays : 0 .. Budget.replays, cancels : 0 .. Budget.cancels]

(* The dispatcher runs while the process is up, and the row a claim came   *)
(* back with is in its hand until it is handed on or put back.             *)
DispatcherInPhase ==
  /\ phase = "up" => disp \in {"ready", "claiming", "claimed", "requeue", "nap", "idle"}
  /\ phase # "up" => disp \in {"off", "stray", "strayRequeue"}
HandKept ==
  /\ hand # None => disp \in {"claimed", "requeue", "strayRequeue"}
  /\ disp \in {"requeue", "strayRequeue"} => hand # None

(* A row is running for the claim that holds it, or for the task or thread *)
(* that works at it; no two rows of an issue are.                          *)
HandClaimed == hand # None => Running(hand) /\ ~InWork(hand) /\ ~Live(hand)
BusyRunning == \A e \in Events : InWork(e) \/ Live(e) => Running(e)
RunningApart == \A e, f \in Events : Running(e) /\ Running(f) /\ Key(e) = Key(f) => e = f

(* A worker's thread belongs to a task until stop() gives the task up, a   *)
(* hook to an armed thread, and only stop() marks a delivery as shut down. *)
ThreadsOfTasks ==
  \A e \in Events :
    /\ thr[e] \in {"ok", "failed"} => task[e] = "work"
    /\ thr[e] # "none" /\ phase \in {"up", "draining"} => task[e] = "work"
HooksArmed == \A e \in hooks : thr[e] = "armed"
FiringArmed == \A e \in firing : thr[e] \in {"armed", "stopping"} /\ e \notin hooks
ShutInShutdown == shut # {} => phase \in {"killing", "stopped"}

(* A slot is out for each task at work, an issue key for each task, and no *)
(* two tasks have the same key.                                            *)
Working == {e \in Events : task[e] = "work"}
SlotsCounted == free \in Nat /\ free + Cardinality(Working) = MaxConcurrency
KeysHeld == inflight = {Key(e) : e \in Tasks}
TasksApart == \A e, f \in Tasks : Key(e) = Key(f) => e = f

(* A cancel mark is on an event that is open; a running row is due.  An    *)
(* accepted cancel stands: the mark is still there, or the row failed, or  *)
(* stop() has ended the task that would have settled it.                   *)
MarksOpen == \A e \in cancelled : row[e].state \in {"queued", "running"}
RunningDue == \A e \in Events : Running(e) => row[e].due
CancelStands ==
  \A e \in asked :
    /\ row[e].due /\ row[e].state # "done"
    /\ \/ e \in cancelled
       \/ row[e].state = "failed"
       \/ phase \in {"killing", "stopped"} /\ ~InWork(e)

LEMMA TypesInit == Init => Types
<1> SUFFICES ASSUME Init PROVE Types
  OBVIOUS
<1>1. Absent \in Rows
  BY QueueAssumption DEF Absent, Rows
<1>2. row \in [Events -> Rows] /\ arrived \in Seq(Events)
  BY <1>1 DEF Init
<1>3. Budget \in [arrivals : 0 .. Budget.arrivals, exits : 0 .. Budget.exits,
                  replays : 0 .. Budget.replays, cancels : 0 .. Budget.cancels]
  BY QueueAssumption
<1> QED BY <1>2, <1>3 DEF Init, Types, MemoryTypes

(* What is written into a row leaves it a row.                             *)
LEMMA RowEdits ==
  ASSUME NEW r \in Rows
  PROVE  /\ \A s \in {"absent", "queued", "running", "done", "failed"} :
              [r EXCEPT !.state = s] \in Rows
         /\ \A d \in BOOLEAN : [r EXCEPT !.due = d] \in Rows
         /\ \A n \in 0 .. MaxRetries + 1 : [r EXCEPT !.attempts = n] \in Rows
BY DEF Rows

(* Each budget only goes down, and not below zero.                         *)
LEMMA LeftKept ==
  ASSUME Types,
         \/ left.arrivals > 0 /\ left' = [left EXCEPT !.arrivals = @ - 1]
         \/ left.exits > 0 /\ left' = [left EXCEPT !.exits = @ - 1]
         \/ left.replays > 0 /\ left' = [left EXCEPT !.replays = @ - 1]
         \/ left.cancels > 0 /\ left' = [left EXCEPT !.cancels = @ - 1]
         \/ UNCHANGED left
  PROVE  left' \in [arrivals : 0 .. Budget.arrivals, exits : 0 .. Budget.exits,
                    replays : 0 .. Budget.replays, cancels : 0 .. Budget.cancels]
<1> DEFINE Lefts == [arrivals : 0 .. Budget.arrivals, exits : 0 .. Budget.exits,
                     replays : 0 .. Budget.replays, cancels : 0 .. Budget.cancels]
<1>1. /\ Budget.arrivals \in Nat /\ Budget.exits \in Nat
      /\ Budget.replays \in Nat /\ Budget.cancels \in Nat
  BY QueueAssumption
<1>2. left \in Lefts
  BY DEF Types
<1>3. CASE left.arrivals > 0 /\ left' = [left EXCEPT !.arrivals = @ - 1]
  BY <1>1, <1>2, <1>3
<1>4. CASE left.exits > 0 /\ left' = [left EXCEPT !.exits = @ - 1]
  BY <1>1, <1>2, <1>4
<1>5. CASE left.replays > 0 /\ left' = [left EXCEPT !.replays = @ - 1]
  BY <1>1, <1>2, <1>5
<1>6. CASE left.cancels > 0 /\ left' = [left EXCEPT !.cancels = @ - 1]
  BY <1>1, <1>2, <1>6
<1> QED BY <1>2, <1>3, <1>4, <1>5, <1>6

(* Every step that touches the table puts a row in the place of a row.     *)
LEMMA RowTypes == ASSUME Types, [Next]_vars PROVE row' \in [Events -> Rows]
<1> row \in [Events -> Rows]
  BY DEF Types
<1>0. /\ MaxRetries \in Nat
      /\ \A e \in Events : /\ row[e].attempts \in 0 .. MaxRetries + 1
                          /\ OneMore(row[e].attempts) \in 0 .. MaxRetries + 1
  BY QueueAssumption DEF OneMore, Rows
<1>1. ASSUME NEW e \in Events, NEW r \in Rows, row' = [row EXCEPT ![e] = r]
      PROVE  row' \in [Events -> Rows]
  BY <1>1
<1>2. Queued(0) \in Rows /\ \A e \in Events : Queued(row[e].attempts) \in Rows
  BY <1>0 DEF Queued, Rows
<1>3. ASSUME NEW e \in Events, Request(e) PROVE row' \in [Events -> Rows]
  <2>1. ASSUME NEW online \in BOOLEAN, Replay(e, online) PROVE row' \in [Events -> Rows]
    BY <2>1, RowEdits DEF Replay
  <2> QED BY <1>1, <1>2, <1>3, <2>1 DEF Request, Receive, Triage, Cancel, dbVars
<1>4. ASSUME NEW e \in Events, BackoffOver(e) PROVE row' \in [Events -> Rows]
  BY <1>4, RowEdits DEF BackoffOver
<1>5. ASSUME NEW e \in Events, NEW failed \in BOOLEAN, Settle(e, failed)
      PROVE  row' \in [Events -> Rows]
  <2>1. Outcome(e, failed) \in Rows
    BY RowEdits DEF Outcome
  <2> QED BY <1>1, <1>5, <2>1 DEF Settle
<1>6. CASE ClaimTxn
  <2>1. ASSUME NEW e \in Events,
               row' = [row EXCEPT ![e].state = "running", ![e].attempts = OneMore(@)]
        PROVE  row' \in [Events -> Rows]
    <3>1. row' = [row EXCEPT ![e] = [row[e] EXCEPT !.state = "running",
                                                   !.attempts = OneMore(row[e].attempts)]]
      BY <2>1 DEF Rows
    <3> QED BY <3>1, <1>0, RowEdits
  <2> QED BY <1>6, <2>1 DEF ClaimTxn, ClaimedRows
<1>7. CASE RequeueTxn
  <2>1. CASE hand \in Events
    BY <1>7, <2>1, RowEdits DEF RequeueTxn
  <2>2. CASE hand \notin Events
    BY <1>7, <2>2 DEF RequeueTxn
  <2> QED BY <2>1, <2>2
<1>8. CASE Start
  <2>1. \A e \in Events : Recovered(e) \in Rows
    BY <1>2 DEF Recovered
  <2> QED BY <1>8, <2>1 DEF Start
<1>9. CASE UNCHANGED row
  BY <1>9
<1> QED BY <1>3, <1>4, <1>5, <1>6, <1>7, <1>8, <1>9
  DEF Next, Handler, Dispatcher, Shutdown, vars, dbVars, Claim, ClaimedNone, ClaimedRow,
      ClaimedInflight, NapOver, Woken, Poll, Stop, Drained, DrainTimeout, StopReturns,
      Interrupt, Exit, Acquire, StartThread, Spawn, ArmCheck, ArmStore, Release, Fire,
      ThreadEnds

LEMMA ArrivedTypes == ASSUME Types, [Next]_vars PROVE arrived' \in Seq(Events)
<1> arrived \in Seq(Events)
  BY DEF Types
<1>1. ASSUME NEW e \in Events, Request(e) \/ BackoffOver(e) PROVE arrived' \in Seq(Events)
  <2>1. ASSUME NEW i \in DOMAIN arrived PROVE RemoveAt(arrived, i) \in Seq(Events)
    BY DEF RemoveAt
  <2>2. CASE Triage(e)
    <3>1. \E s \in Seq(Events) : arrived' = Append(s, e)
      BY <2>1, <2>2 DEF Triage
    <3> QED BY <3>1
  <2>3. CASE Receive(e)
    BY <2>3 DEF Receive
  <2> QED BY <1>1, <2>2, <2>3 DEF Request, Cancel, Replay, BackoffOver, dbVars
<1>2. ASSUME NEW e \in Events, Handler(e) PROVE UNCHANGED arrived
  BY <1>2 DEF Handler, Acquire, StartThread, Spawn, ArmCheck, ArmStore, Release, Fire,
              ThreadEnds, Settle, dbVars
<1>3. ASSUME Dispatcher PROVE UNCHANGED arrived
  BY <1>3 DEF Dispatcher, Claim, ClaimTxn, ClaimedNone, ClaimedRow, ClaimedInflight,
              RequeueTxn, NapOver, Woken, Poll, dbVars
<1>4. ASSUME Stop \/ Shutdown \/ Exit \/ Start \/ UNCHANGED vars PROVE UNCHANGED arrived
  BY <1>4 DEF Stop, Shutdown, Drained, DrainTimeout, StopReturns, Interrupt, Exit, Start,
              vars, dbVars
<1> QED BY <1>1, <1>2, <1>3, <1>4 DEF Next

LEMMA LeftTypes ==
  ASSUME Types, [Next]_vars
  PROVE  left' \in [arrivals : 0 .. Budget.arrivals, exits : 0 .. Budget.exits,
                    replays : 0 .. Budget.replays, cancels : 0 .. Budget.cancels]
<1> DEFINE Kept == left' \in [arrivals : 0 .. Budget.arrivals, exits : 0 .. Budget.exits,
                             replays : 0 .. Budget.replays, cancels : 0 .. Budget.cancels]
<1>1. ASSUME NEW e \in Events, Request(e) \/ BackoffOver(e) PROVE Kept
  BY <1>1, LeftKept DEF Request, Receive, Triage, Cancel, Replay, BackoffOver
<1>2. ASSUME NEW e \in Events, Handler(e) PROVE UNCHANGED left
  BY <1>2 DEF Handler, Acquire, StartThread, Spawn, ArmCheck, ArmStore, Release, Fire,
              ThreadEnds, Settle
<1>3. ASSUME Dispatcher PROVE UNCHANGED left
  BY <1>3 DEF Dispatcher, Claim, ClaimTxn, ClaimedNone, ClaimedRow, ClaimedInflight,
              RequeueTxn, NapOver, Woken, Poll
<1>4. ASSUME Exit PROVE Kept
  BY <1>4, LeftKept DEF Exit
<1>5. ASSUME Stop \/ Shutdown \/ Start \/ UNCHANGED vars PROVE UNCHANGED left
  BY <1>5 DEF Stop, Shutdown, Drained, DrainTimeout, StopReturns, Interrupt, Start, vars
<1>6. ASSUME UNCHANGED left PROVE Kept
  BY <1>6, LeftKept
<1> QED BY <1>1, <1>2, <1>3, <1>4, <1>5, <1>6 DEF Next

LEMMA MemoryTypesKept == ASSUME Types, [Next]_vars PROVE MemoryTypes'
<1>1. MemoryTypes
  BY DEF Types
<1> USE <1>1 DEF MemoryTypes
<1>2. ASSUME NEW e \in Events, Request(e) \/ BackoffOver(e) PROVE MemoryTypes'
  BY <1>2 DEF Request, Receive, Triage, Cancel, Replay, BackoffOver, dispVars,
                    taskVars, cancelVars
<1>3. ASSUME NEW e \in Events, Handler(e) PROVE MemoryTypes'
  <2> USE DEF dispVars, taskVars, cancelVars
  <2>1. CASE Acquire(e) \/ StartThread(e) \/ Spawn(e) \/ ArmCheck(e) \/ ArmStore(e)
    BY <2>1 DEF Acquire, StartThread, Spawn, ArmCheck, ArmStore
  <2>2. CASE Release(e) \/ Fire(e)
    BY <2>2 DEF Release, Fire
  <2>3. ASSUME NEW failed \in BOOLEAN, ThreadEnds(e, failed) PROVE MemoryTypes'
    BY <2>3 DEF ThreadEnds
  <2>4. ASSUME NEW failed \in BOOLEAN, Settle(e, failed) PROVE MemoryTypes'
    BY <2>4 DEF Settle, Finish
  <2> QED BY <1>3, <2>1, <2>2, <2>3, <2>4 DEF Handler
<1>4. CASE Dispatcher
  <2> USE DEF dispVars, taskVars, cancelVars
  <2>1. CASE Claim \/ ClaimedNone \/ ClaimedInflight \/ NapOver \/ Woken \/ Poll
    BY <2>1 DEF Claim, ClaimedNone, ClaimedInflight, NapOver, Woken, Poll
  <2>2. CASE ClaimTxn
    BY <2>2 DEF ClaimTxn, ClaimedRows
  <2>3. CASE ClaimedRow \/ RequeueTxn
    BY <2>3 DEF ClaimedRow, RequeueTxn
  <2> QED BY <1>4, <2>1, <2>2, <2>3 DEF Dispatcher
<1>5. CASE Stop
  BY <1>5 DEF Stop, taskVars, cancelVars
<1>6. CASE Shutdown
  <2> USE DEF dispVars, taskVars, cancelVars
  <2>1. CASE Drained \/ DrainTimeout \/ StopReturns
    BY <2>1 DEF Drained, DrainTimeout, StopReturns, Tasks
  <2>2. ASSUME NEW e \in Events, Interrupt(e) PROVE MemoryTypes'
    BY <2>2 DEF Interrupt, Finish
  <2> QED BY <1>6, <2>1, <2>2 DEF Shutdown
<1>7. CASE Exit \/ Start
  <2>1. /\ phase' \in {"up", "down"} /\ disp' \in {"off", "ready"}
        /\ hand' = None /\ wakeup' = FALSE
        /\ hooks' = {} /\ cancelled' = {} /\ shut' = {} /\ firing' = {} /\ still' = {} /\ asked' = {}
    BY <1>7 DEF Exit, Start, Blank
  <2>2. task' = [e \in Events |-> "none"] /\ thr' = [e \in Events |-> "none"]
    BY <1>7 DEF Exit, Start, Blank
  <2> QED BY <2>1, <2>2
<1>8. CASE UNCHANGED vars
  BY <1>8 DEF vars
<1> QED BY <1>2, <1>3, <1>4, <1>5, <1>6, <1>7, <1>8 DEF Next

LEMMA TypesKept == ASSUME Types, [Next]_vars PROVE Types'
BY RowTypes, ArrivedTypes, LeftTypes, MemoryTypesKept DEF Types

-----------------------------------------------------------------------------

LEMMA DispatchKept ==
  ASSUME Types, DispatcherInPhase, HandKept, [Next]_vars
  PROVE  DispatcherInPhase' /\ HandKept'
<1> USE DEF DispatcherInPhase, HandKept, dispVars
<1> None \notin Events
  BY QueueAssumption
<1>1. ASSUME NEW e \in Events, Request(e) \/ BackoffOver(e)
      PROVE  DispatcherInPhase' /\ HandKept'
  BY <1>1 DEF Request, Receive, Triage, Cancel, Replay, BackoffOver
<1>2. ASSUME NEW e \in Events, Handler(e) PROVE DispatcherInPhase' /\ HandKept'
  BY <1>2 DEF Handler, Acquire, StartThread, Spawn, ArmCheck, ArmStore, Release, Fire,
              ThreadEnds, Settle
<1>3. CASE Dispatcher
  BY <1>3 DEF Dispatcher, Claim, ClaimTxn, ClaimedRows, ClaimedNone, ClaimedRow,
              ClaimedInflight, RequeueTxn, NapOver, Woken, Poll
<1>4. CASE Stop
  BY <1>4 DEF Stop
<1>5. CASE Shutdown
  BY <1>5 DEF Shutdown, Drained, DrainTimeout, StopReturns, Interrupt
<1>6. CASE Exit \/ Start
  BY <1>6 DEF Exit, Start, Blank
<1>7. CASE UNCHANGED vars
  BY <1>7 DEF vars
<1> QED BY <1>1, <1>2, <1>3, <1>4, <1>5, <1>6, <1>7 DEF Next

LEMMA ThreadsKept ==
  ASSUME Types, ThreadsOfTasks, HooksArmed, FiringArmed, ShutInShutdown, HandClaimed,
         [Next]_vars
  PROVE  ThreadsOfTasks' /\ HooksArmed' /\ FiringArmed' /\ ShutInShutdown'
<1> DEFINE Goal == ThreadsOfTasks' /\ HooksArmed' /\ FiringArmed' /\ ShutInShutdown'
<1> USE DEF ThreadsOfTasks, HooksArmed, FiringArmed, ShutInShutdown, dispVars, taskVars,
            cancelVars
<1> MemoryTypes
  BY DEF Types
<1>1. ASSUME NEW e \in Events, Request(e) \/ BackoffOver(e) PROVE Goal
  BY <1>1 DEF Request, Receive, Triage, Cancel, Replay, BackoffOver, MemoryTypes
<1>2. ASSUME NEW e \in Events, Handler(e) PROVE Goal
  <2> USE DEF MemoryTypes
  <2>1. CASE Acquire(e) \/ StartThread(e) \/ Spawn(e) \/ Release(e)
    BY <2>1 DEF Acquire, StartThread, Spawn, Release
  <2>2. CASE ArmCheck(e)
    BY <2>2 DEF ArmCheck
  <2>3. CASE ArmStore(e)
    BY <2>3 DEF ArmStore
  <2>4. CASE Fire(e)
    BY <2>4 DEF Fire
  <2>5. ASSUME NEW failed \in BOOLEAN, ThreadEnds(e, failed) PROVE Goal
    BY <2>5 DEF ThreadEnds, Live
  <2>6. ASSUME NEW failed \in BOOLEAN, Settle(e, failed) PROVE Goal
    BY <2>6 DEF Settle, Finish
  <2> QED BY <1>2, <2>1, <2>2, <2>3, <2>4, <2>5, <2>6 DEF Handler
<1>3. ASSUME Dispatcher PROVE Goal
  <2>1. CASE ClaimedRow
    BY <2>1 DEF ClaimedRow, MemoryTypes, HandClaimed, InWork
  <2> QED BY <1>3, <2>1 DEF Dispatcher, Claim, ClaimTxn, ClaimedNone, ClaimedInflight,
                            RequeueTxn, NapOver, Woken, Poll
<1>4. ASSUME Stop \/ Drained \/ DrainTimeout \/ StopReturns PROVE Goal
  BY <1>4 DEF Stop, Drained, DrainTimeout, StopReturns, MemoryTypes
<1>5. ASSUME NEW e \in Events, Interrupt(e) PROVE Goal
  <2> USE DEF MemoryTypes
  <2>1. CASE task[e] = "none" \/ e \in hooks
    BY <1>5, <2>1 DEF Interrupt
  <2>2. CASE task[e] # "none" /\ e \notin hooks
    BY <1>5, <2>2 DEF Interrupt, Finish, Live
  <2> QED BY <2>1, <2>2
<1>6. ASSUME Exit \/ Start PROVE Goal
  BY <1>6 DEF Exit, Start, Blank
<1>7. ASSUME UNCHANGED vars PROVE Goal
  BY <1>7 DEF vars
<1> QED BY <1>1, <1>2, <1>3, <1>4, <1>5, <1>6, <1>7 DEF Next, Shutdown

(* What the steps that write the table make of the state of each row.      *)
LEMMA RowEdited ==
  ASSUME row \in [Events -> Rows], NEW e \in Events, NEW f \in Events,
         NEW s \in {"absent", "queued", "running", "done", "failed"}
  PROVE  /\ [row EXCEPT ![e].state = s][f].state = IF f = e THEN s ELSE row[f].state
         /\ [row EXCEPT ![e].state = s][f].due = row[f].due
         /\ \A d \in BOOLEAN :
              /\ [row EXCEPT ![e].due = d][f].state = row[f].state
              /\ [row EXCEPT ![e].due = d][f].due = IF f = e THEN d ELSE row[f].due
              /\ [row EXCEPT ![e].state = s, ![e].due = d][f].state
                   = IF f = e THEN s ELSE row[f].state
              /\ [row EXCEPT ![e].state = s, ![e].due = d][f].due
                   = IF f = e THEN d ELSE row[f].due
BY DEF Rows

LEMMA Claimed ==
  ASSUME Types, NEW e \in Events,
         row' = [row EXCEPT ![e].state = "running", ![e].attempts = OneMore(@)]
  PROVE  \A f \in Events : /\ row'[f].state = IF f = e THEN "running" ELSE row[f].state
                           /\ row'[f].due = row[f].due
BY DEF Rows, Types

LEMMA Settled ==
  ASSUME Types, NEW e \in Events, Running(e), NEW failed \in BOOLEAN, Settle(e, failed)
  PROVE  /\ \/ row' = row /\ e \in shut
            \/ row'[e].state = "failed" /\ row'[e].due = row[e].due
            \/ row'[e].state \in {"failed", "done", "queued"} /\ e \notin cancelled
         /\ \A f \in Events \ {e} : row'[f] = row[f]
<1> row \in [Events -> Rows]
  BY DEF Types
<1>1. row' = [row EXCEPT ![e] = Outcome(e, failed)]
  BY DEF Settle
<1>2. row'[e] = Outcome(e, failed) /\ \A f \in Events \ {e} : row'[f] = row[f]
  BY <1>1
<1>3. CASE failed /\ e \in shut
  BY <1>1, <1>3 DEF Outcome
<1>4. CASE ~(failed /\ e \in shut) /\ e \in cancelled
  BY <1>2, <1>4 DEF Outcome, Rows
<1>5. CASE ~(failed /\ e \in shut) /\ e \notin cancelled
  BY <1>2, <1>5 DEF Outcome, Rows
<1> QED BY <1>2, <1>3, <1>4, <1>5

LEMMA RowsKept ==
  ASSUME Types, DispatcherInPhase, HandKept, FiringArmed, ShutInShutdown, HandClaimed,
         BusyRunning, RunningApart, RunningHasOwner, [Next]_vars
  PROVE  HandClaimed' /\ BusyRunning' /\ RunningApart' /\ RunningHasOwner'
<1> DEFINE Goal == HandClaimed' /\ BusyRunning' /\ RunningApart' /\ RunningHasOwner'
<1> USE DEF HandClaimed, BusyRunning, RunningApart, RunningHasOwner, Running, InWork, Live
<1> /\ None \notin Events /\ row \in [Events -> Rows] /\ row' \in [Events -> Rows]
    /\ hand \in Events \cup {None} /\ DOMAIN task = Events /\ DOMAIN thr = Events
    /\ firing \subseteq Events
  BY QueueAssumption, RowTypes DEF Types, MemoryTypes
<1>1. ASSUME NEW e \in Events, Request(e) \/ BackoffOver(e) PROVE Goal
  <2> DEFINE Untouched ==
        /\ UNCHANGED <<phase, disp, hand, task, thr>>
        /\ \A f \in Events : Running(f) <=> Running(f)'
  <2>1. CASE Receive(e) \/ Triage(e)
    <3>1. Untouched
      BY <2>1 DEF Receive, Triage, Queued, Absent, taskVars
    <3> QED BY <3>1
  <2>2. CASE Cancel(e)
    BY <2>2 DEF Cancel, dispVars, taskVars, dbVars
  <2>3. CASE BackoffOver(e)
    <3>1. Untouched
      BY <2>3, RowEdited DEF BackoffOver, dispVars, taskVars
    <3> QED BY <3>1
  <2>4. ASSUME NEW online \in BOOLEAN, Replay(e, online) PROVE Goal
    <3>1. Untouched
      BY <2>4, RowEdited DEF Replay, Requeueable, taskVars
    <3> QED BY <3>1
  <2> QED BY <1>1, <2>1, <2>2, <2>3, <2>4 DEF Request
<1>2. ASSUME NEW e \in Events, Handler(e) PROVE Goal
  <2>1. CASE Acquire(e) \/ StartThread(e) \/ Spawn(e) \/ ArmCheck(e) \/ ArmStore(e)
             \/ Release(e)
    BY <2>1 DEF Acquire, StartThread, Spawn, ArmCheck, ArmStore, Release, dispVars, dbVars
  <2>2. CASE Fire(e)
    BY <2>2 DEF Fire, dispVars, dbVars, FiringArmed
  <2>3. ASSUME NEW failed \in BOOLEAN, ThreadEnds(e, failed) PROVE Goal
    BY <2>3 DEF ThreadEnds, dispVars, dbVars
  <2>4. ASSUME NEW failed \in BOOLEAN, Settle(e, failed) PROVE Goal
    <3>1. /\ UNCHANGED <<phase, disp, hand>> /\ task[e] = "work"
          /\ task' = [task EXCEPT ![e] = task'[e]] /\ thr' = [thr EXCEPT ![e] = "none"]
          /\ task'[e] \in {"none", "releasing"}
      BY <2>4 DEF Settle, Finish, dispVars
    <3>2. /\ Running(e)' => row' = row /\ e \in shut
          /\ \A f \in Events \ {e} : row'[f] = row[f]
      BY <2>4, <3>1, Settled
    <3> QED BY <3>1, <3>2 DEF ShutInShutdown
  <2> QED BY <1>2, <2>1, <2>2, <2>3, <2>4 DEF Handler
<1>3. ASSUME Dispatcher PROVE Goal
  <2>1. CASE Claim \/ ClaimedNone \/ ClaimedInflight \/ NapOver \/ Woken \/ Poll
    BY <2>1 DEF Claim, ClaimedNone, ClaimedInflight, NapOver, Woken, Poll, taskVars, dbVars
  <2>2. CASE ClaimTxn
    <3>1. CASE ClaimedRows = {}
      BY <2>2, <3>1 DEF ClaimTxn, taskVars, DispatcherInPhase, HandKept
    <3>2. ASSUME NEW e \in ClaimedRows,
                 row' = [row EXCEPT ![e].state = "running", ![e].attempts = OneMore(@)],
                 hand' = IF disp = "stray" THEN None ELSE e
          PROVE  Goal
      <4>1. e \in Events /\ Claimable(e)
        BY DEF ClaimedRows
      <4>2. \A f \in Events : Running(f)' <=> f = e \/ Running(f)
        <5>1. \A f \in Events : row'[f].state = IF f = e THEN "running" ELSE row[f].state
          BY <3>2, <4>1, Claimed
        <5> QED BY <5>1, <4>1
      <4>3. ~InWork(e) /\ ~Live(e)
        BY <4>1 DEF Claimable
      <4>4. /\ UNCHANGED <<phase, task, thr>> /\ disp \in {"claiming", "stray"}
            /\ disp' = IF disp = "stray" THEN "off" ELSE "claimed"
        BY <2>2 DEF ClaimTxn, taskVars
      <4>5. HandClaimed' /\ BusyRunning' /\ RunningApart'
        BY <3>2, <4>1, <4>2, <4>3, <4>4 DEF Claimable
      <4>6. RunningHasOwner'
        BY <3>2, <4>1, <4>2, <4>4 DEF DispatcherInPhase, HandKept
      <4> QED BY <4>5, <4>6
    <3> QED BY <2>2, <3>1, <3>2 DEF ClaimTxn
  <2>3. CASE ClaimedRow
    BY <2>3 DEF ClaimedRow, dbVars
  <2>4. CASE RequeueTxn
    <3>1. /\ hand \in Events /\ UNCHANGED <<phase, task, thr>> /\ hand' = None
          /\ row'[hand].state # "running" /\ \A f \in Events \ {hand} : row'[f] = row[f]
      BY <2>4, RowEdited DEF RequeueTxn, HandKept, taskVars
    <3> QED BY <3>1
  <2> QED BY <1>3, <2>1, <2>2, <2>3, <2>4 DEF Dispatcher
<1>4. ASSUME Stop PROVE Goal
  BY <1>4 DEF Stop, dbVars, taskVars
<1>5. ASSUME Drained \/ DrainTimeout \/ StopReturns PROVE Goal
  BY <1>5 DEF Drained, DrainTimeout, StopReturns, dbVars, dispVars, taskVars
<1>6. ASSUME NEW e \in Events, Interrupt(e) PROVE Goal
  BY <1>6 DEF Interrupt, Finish, dbVars, dispVars, taskVars
<1>7. ASSUME Exit PROVE Goal
  BY <1>7 DEF Exit, Blank, dbVars
<1>8. ASSUME Start PROVE Goal
  <2>1. \A e \in Events : ~Running(e)'
    BY <1>8 DEF Start, Recovered, Queued
  <2> QED BY <1>8, <2>1 DEF Start, Blank
<1>9. ASSUME UNCHANGED vars PROVE Goal
  BY <1>9 DEF vars
<1> QED BY <1>1, <1>2, <1>3, <1>4, <1>5, <1>6, <1>7, <1>8, <1>9 DEF Next, Shutdown

(* Acquire and the end of a task move one slot; nothing else does.         *)
LEMMA SlotsKept ==
  ASSUME Types, HandClaimed, SlotsCounted, [Next]_vars
  PROVE  SlotsCounted'
<1> /\ DOMAIN task = Events /\ IsFiniteSet(Events) /\ None \notin Events
    /\ MaxConcurrency \in Nat /\ hand \in Events \cup {None}
  BY QueueAssumption DEF Types, MemoryTypes
<1> IsFiniteSet(Working) /\ Cardinality(Working) \in Nat
  BY FS_Subset, FS_CardinalityType DEF Working
<1>1. ASSUME free' = free, Working' = Working PROVE SlotsCounted'
  BY <1>1 DEF SlotsCounted
<1>2. ASSUME NEW e \in Events, task[e] = "work", free' = free + 1, task'[e] # "work",
             \A f \in Events \ {e} : task'[f] = task[f]
      PROVE  SlotsCounted'
  <2>1. Working' = Working \ {e} /\ e \in Working
    BY <1>2 DEF Working
  <2>2. Cardinality(Working') = Cardinality(Working) - 1
    BY <2>1, FS_RemoveElement
  <2> QED BY <1>2, <2>2 DEF SlotsCounted
<1>3. ASSUME NEW e \in Events, Acquire(e) PROVE SlotsCounted'
  <2>1. Working' = Working \cup {e} /\ e \notin Working
    BY <1>3 DEF Working, Acquire
  <2>2. Cardinality(Working') = Cardinality(Working) + 1
    BY <2>1, FS_AddElement
  <2> QED BY <1>3, <2>2 DEF SlotsCounted, Acquire
<1>4. ASSUME NEW e \in Events, Request(e) \/ BackoffOver(e) PROVE SlotsCounted'
  BY <1>1, <1>4 DEF Request, Receive, Triage, Cancel, Replay, BackoffOver, taskVars, Working
<1>5. ASSUME NEW e \in Events, Handler(e) PROVE SlotsCounted'
  <2>1. CASE StartThread(e) \/ Spawn(e) \/ ArmCheck(e) \/ ArmStore(e) \/ Fire(e)
    BY <1>1, <2>1 DEF StartThread, Spawn, ArmCheck, ArmStore, Fire, Working
  <2>2. CASE Release(e)
    BY <1>1, <2>2 DEF Release, Working
  <2>3. ASSUME NEW failed \in BOOLEAN, ThreadEnds(e, failed) PROVE SlotsCounted'
    BY <1>1, <2>3 DEF ThreadEnds, Working
  <2>4. ASSUME NEW failed \in BOOLEAN, Settle(e, failed) PROVE SlotsCounted'
    BY <1>2, <2>4 DEF Settle, Finish
  <2> QED BY <1>3, <1>5, <2>1, <2>2, <2>3, <2>4 DEF Handler
<1>6. ASSUME Dispatcher PROVE SlotsCounted'
  <2>1. CASE ClaimedRow
    BY <1>1, <2>1 DEF ClaimedRow, Working, HandClaimed, InWork
  <2> QED BY <1>1, <1>6, <2>1 DEF Dispatcher, Claim, ClaimTxn, ClaimedNone, ClaimedInflight,
                                  RequeueTxn, NapOver, Woken, Poll, taskVars, Working
<1>7. ASSUME Stop \/ Drained \/ DrainTimeout \/ StopReturns PROVE SlotsCounted'
  BY <1>1, <1>7 DEF Stop, Drained, DrainTimeout, StopReturns, taskVars, Working
<1>8. ASSUME NEW e \in Events, Interrupt(e) PROVE SlotsCounted'
  <2>1. CASE task[e] = "none" \/ e \in hooks
    BY <1>1, <1>8, <2>1 DEF Interrupt, taskVars, Working
  <2>2. CASE task[e] # "none" /\ e \notin hooks
    <3>1. task' = [task EXCEPT ![e] = "none"]
          /\ free' = IF task[e] = "work" THEN free + 1 ELSE free
      BY <1>8, <2>2 DEF Interrupt, Finish
    <3>2. CASE task[e] = "work"
      BY <1>2, <3>1, <3>2
    <3>3. CASE task[e] # "work"
      BY <1>1, <3>1, <3>3 DEF Working
    <3> QED BY <3>2, <3>3
  <2> QED BY <2>1, <2>2
<1>9. ASSUME Exit \/ Start PROVE SlotsCounted'
  <2>1. Working' = {} /\ free' = MaxConcurrency
    BY <1>9 DEF Exit, Start, Blank, Working
  <2> QED BY <2>1, FS_EmptySet DEF SlotsCounted
<1>10. ASSUME UNCHANGED vars PROVE SlotsCounted'
  BY <1>1, <1>10 DEF vars, Working
<1> QED BY <1>4, <1>5, <1>6, <1>7, <1>8, <1>9, <1>10 DEF Next, Shutdown

(* A key is taken with the task that is made for it and goes with it.      *)
LEMMA KeysKept ==
  ASSUME Types, KeysHeld, TasksApart, [Next]_vars
  PROVE  KeysHeld' /\ TasksApart'
<1> DEFINE Goal == KeysHeld' /\ TasksApart'
<1> /\ task \in [Events -> {"none", "slot", "work", "releasing"}] /\ None \notin Events
    /\ hand \in Events \cup {None}
  BY QueueAssumption DEF Types, MemoryTypes
<1>1. ASSUME inflight' = inflight, Tasks' = Tasks PROVE Goal
  BY <1>1 DEF KeysHeld, TasksApart, Key
<1>2. ASSUME NEW e \in Tasks, inflight' = inflight \ {Key(e)}, Tasks' = Tasks \ {e}
      PROVE  Goal
  BY <1>2 DEF KeysHeld, TasksApart, Key
<1>3. ASSUME NEW e \in Events, Request(e) \/ BackoffOver(e) PROVE Goal
  BY <1>1, <1>3 DEF Request, Receive, Triage, Cancel, Replay, BackoffOver, taskVars, Tasks
<1>4. ASSUME NEW e \in Events, Handler(e) PROVE Goal
  <2>1. CASE StartThread(e) \/ Spawn(e) \/ ArmCheck(e) \/ ArmStore(e) \/ Fire(e)
             \/ Acquire(e)
    BY <1>1, <2>1 DEF StartThread, Spawn, ArmCheck, ArmStore, Fire, Acquire, Tasks
  <2>2. CASE Release(e)
    <3>1. e \in Tasks /\ Tasks' = Tasks \ {e}
      BY <2>2 DEF Release, Tasks
    <3> QED BY <1>2, <2>2, <3>1 DEF Release
  <2>3. ASSUME NEW failed \in BOOLEAN, ThreadEnds(e, failed) PROVE Goal
    BY <1>1, <2>3 DEF ThreadEnds, Tasks
  <2>4. ASSUME NEW failed \in BOOLEAN, Settle(e, failed) PROVE Goal
    <3>1. CASE LockHeld
      <4>1. Tasks' = Tasks /\ inflight' = inflight
        BY <2>4, <3>1 DEF Settle, Finish, Tasks
      <4> QED BY <1>1, <4>1
    <3>2. CASE ~LockHeld
      <4>1. e \in Tasks /\ Tasks' = Tasks \ {e} /\ inflight' = inflight \ {Key(e)}
        BY <2>4, <3>2 DEF Settle, Finish, Tasks
      <4> QED BY <1>2, <4>1
    <3> QED BY <3>1, <3>2
  <2> QED BY <1>4, <2>1, <2>2, <2>3, <2>4 DEF Handler
<1>5. ASSUME Dispatcher PROVE Goal
  <2>1. CASE ClaimedRow
    <3>1. /\ hand \in Events /\ Key(hand) \notin inflight
          /\ inflight' = inflight \cup {Key(hand)} /\ Tasks' = Tasks \cup {hand}
      BY <2>1 DEF ClaimedRow, Tasks
    <3>2. \A e \in Tasks : Key(e) # Key(hand)
      BY <3>1 DEF KeysHeld
    <3> QED BY <3>1, <3>2 DEF KeysHeld, TasksApart, Key
  <2> QED BY <1>1, <1>5, <2>1 DEF Dispatcher, Claim, ClaimTxn, ClaimedNone, ClaimedInflight,
                                  RequeueTxn, NapOver, Woken, Poll, taskVars, Tasks
<1>6. ASSUME Stop \/ Drained \/ DrainTimeout \/ StopReturns PROVE Goal
  BY <1>1, <1>6 DEF Stop, Drained, DrainTimeout, StopReturns, taskVars, Tasks
<1>7. ASSUME NEW e \in Events, Interrupt(e) PROVE Goal
  <2>1. CASE task[e] = "none" \/ e \in hooks
    BY <1>1, <1>7, <2>1 DEF Interrupt, taskVars, Tasks
  <2>2. CASE task[e] # "none" /\ e \notin hooks
    <3>1. e \in Tasks /\ Tasks' = Tasks \ {e} /\ inflight' = inflight \ {Key(e)}
      BY <1>7, <2>2 DEF Interrupt, Finish, Tasks
    <3> QED BY <1>2, <3>1
  <2> QED BY <2>1, <2>2
<1>8. ASSUME Exit \/ Start PROVE Goal
  BY <1>8 DEF Exit, Start, Blank, KeysHeld, TasksApart, Tasks
<1>9. ASSUME UNCHANGED vars PROVE Goal
  BY <1>1, <1>9 DEF vars, Tasks
<1> QED BY <1>3, <1>4, <1>5, <1>6, <1>7, <1>8, <1>9 DEF Next, Shutdown

LEMMA CancelsKept ==
  ASSUME Types, DispatcherInPhase, HandKept, HandClaimed, BusyRunning, ShutInShutdown,
         MarksOpen, RunningDue, CancelStands, [Next]_vars
  PROVE  MarksOpen' /\ RunningDue' /\ CancelStands'
<1> DEFINE Goal == MarksOpen' /\ RunningDue' /\ CancelStands'
<1> USE DEF MarksOpen, RunningDue, CancelStands, Running, InWork
<1> /\ None \notin Events /\ row \in [Events -> Rows] /\ row' \in [Events -> Rows]
    /\ hand \in Events \cup {None} /\ DOMAIN task = Events
    /\ cancelled \subseteq Events /\ asked \subseteq Events
  BY QueueAssumption, RowTypes DEF Types, MemoryTypes
<1>1. ASSUME NEW e \in Events, Request(e) \/ BackoffOver(e) PROVE Goal
  <2>1. CASE Receive(e) \/ Triage(e)
    <3>1. /\ row'[e].state = "queued" /\ row'[e].due
          /\ \A f \in Events \ {e} : row'[f] = row[f]
      BY <2>1 DEF Receive, Triage, Queued
    <3>2. CASE Receive(e)
      <4>1. e \notin cancelled
        BY <3>2 DEF Receive, Absent
      <4>2. UNCHANGED <<asked, cancelled, phase, task>>
        BY <3>2 DEF Receive, cancelVars, taskVars
      <4>3. e \in asked => phase \in {"killing", "stopped"}
        BY <3>2, <4>1 DEF Receive, Absent
      <4>4. phase = "up"
        BY <3>2 DEF Receive
      <4> QED BY <3>1, <4>1, <4>2, <4>3, <4>4
    <3>3. CASE Triage(e)
      <4>1. UNCHANGED <<cancelled, phase, task>> /\ asked' = asked \ {e}
        BY <3>3 DEF Triage, taskVars
      <4> QED BY <3>1, <4>1
    <3> QED BY <2>1, <3>2, <3>3
  <2>2. CASE Cancel(e)
    BY <2>2 DEF Cancel, dispVars, taskVars, dbVars
  <2>3. CASE BackoffOver(e)
    <3>1. /\ row'[e].state = row[e].state /\ row'[e].due
          /\ \A f \in Events \ {e} : row'[f] = row[f]
          /\ UNCHANGED <<asked, cancelled, phase, task>>
      BY <2>3, RowEdited DEF BackoffOver, cancelVars, taskVars
    <3> QED BY <3>1
  <2>4. ASSUME NEW online \in BOOLEAN, Replay(e, online) PROVE Goal
    <3>1. /\ row'[e].state = "queued" /\ \A f \in Events \ {e} : row'[f] = row[f]
          /\ UNCHANGED <<cancelled, phase, task>> /\ asked' = asked \ {e}
          /\ row[e].state \notin {"queued", "running"}
      BY <2>4, RowEdited DEF Replay, Requeueable, taskVars
    <3> QED BY <3>1
  <2> QED BY <1>1, <2>1, <2>2, <2>3, <2>4 DEF Request
<1>2. ASSUME NEW e \in Events, Handler(e) PROVE Goal
  <2>1. CASE Acquire(e) \/ StartThread(e) \/ Spawn(e) \/ ArmCheck(e) \/ ArmStore(e)
             \/ Release(e) \/ Fire(e)
    BY <2>1 DEF Acquire, StartThread, Spawn, ArmCheck, ArmStore, Release, Fire, dbVars,
                cancelVars
  <2>2. ASSUME NEW failed \in BOOLEAN, ThreadEnds(e, failed) PROVE Goal
    BY <2>2 DEF ThreadEnds, dbVars
  <2>3. ASSUME NEW failed \in BOOLEAN, Settle(e, failed) PROVE Goal
    <3>1. /\ UNCHANGED <<phase, asked>> /\ task[e] = "work" /\ cancelled' = cancelled \ {e}
          /\ task'[e] \in {"none", "releasing"}
          /\ \A f \in Events \ {e} : task'[f] = task[f]
      BY <2>3 DEF Settle, Finish
    <3>2. Running(e)
      BY <3>1 DEF BusyRunning
    <3>3. /\ \/ row' = row /\ e \in shut
             \/ row'[e].state = "failed" /\ row'[e].due = row[e].due
             \/ row'[e].state \in {"failed", "done", "queued"} /\ e \notin cancelled
          /\ \A f \in Events \ {e} : row'[f] = row[f]
      BY <2>3, <3>2, Settled
    <3>4. e \in asked => e \in cancelled
      BY <3>1, <3>2
    <3> QED BY <3>1, <3>2, <3>3, <3>4 DEF ShutInShutdown
  <2> QED BY <1>2, <2>1, <2>2, <2>3 DEF Handler
<1>3. ASSUME Dispatcher PROVE Goal
  <2>1. CASE Claim \/ ClaimedNone \/ ClaimedInflight \/ NapOver \/ Woken \/ Poll
    BY <2>1 DEF Claim, ClaimedNone, ClaimedInflight, NapOver, Woken, Poll, taskVars, dbVars,
                cancelVars
  <2>2. CASE ClaimTxn
    <3>1. UNCHANGED <<phase, task, asked, cancelled>>
      BY <2>2 DEF ClaimTxn, taskVars, cancelVars
    <3>2. CASE UNCHANGED row
      BY <3>1, <3>2
    <3>3. ASSUME NEW e \in ClaimedRows,
                 row' = [row EXCEPT ![e].state = "running", ![e].attempts = OneMore(@)]
          PROVE  Goal
      <4>1. e \in Events /\ row[e].state = "queued" /\ row[e].due
        BY DEF ClaimedRows, Claimable
      <4>2. \A f \in Events : /\ row'[f].state = IF f = e THEN "running" ELSE row[f].state
                             /\ row'[f].due = row[f].due
        BY <3>3, <4>1, Claimed
      <4> QED BY <3>1, <4>1, <4>2
    <3> QED BY <2>2, <3>2, <3>3 DEF ClaimTxn
  <2>3. CASE ClaimedRow
    <3>1. phase = "up"
      BY <2>3 DEF ClaimedRow, DispatcherInPhase
    <3>2. UNCHANGED <<row, asked, cancelled, phase>>
      BY <2>3 DEF ClaimedRow, dbVars, cancelVars
    <3> QED BY <3>1, <3>2
  <2>4. CASE RequeueTxn
    <3>1. /\ hand \in Events /\ Running(hand) /\ UNCHANGED <<phase, task, asked, cancelled>>
          /\ row'[hand].state = "queued" /\ row'[hand].due
          /\ \A f \in Events \ {hand} : row'[f] = row[f]
      BY <2>4, RowEdited DEF RequeueTxn, HandKept, HandClaimed, taskVars, cancelVars
    <3> QED BY <3>1
  <2> QED BY <1>3, <2>1, <2>2, <2>3, <2>4 DEF Dispatcher
<1>4. ASSUME Stop \/ Drained \/ DrainTimeout \/ StopReturns PROVE Goal
  BY <1>4 DEF Stop, Drained, DrainTimeout, StopReturns, dbVars, taskVars, cancelVars
<1>5. ASSUME NEW e \in Events, Interrupt(e) PROVE Goal
  BY <1>5 DEF Interrupt, Finish, dbVars, taskVars
<1>6. ASSUME Exit PROVE Goal
  BY <1>6 DEF Exit, Blank, dbVars
<1>7. ASSUME Start PROVE Goal
  <2>1. \A e \in Events : ~Running(e)'
    BY <1>7 DEF Start, Recovered, Queued
  <2> QED BY <1>7, <2>1 DEF Start, Blank
<1>8. ASSUME UNCHANGED vars PROVE Goal
  BY <1>8 DEF vars
<1> QED BY <1>1, <1>2, <1>3, <1>4, <1>5, <1>6, <1>7, <1>8 DEF Next, Shutdown

-----------------------------------------------------------------------------
IInv ==
  /\ Types /\ DispatcherInPhase /\ HandKept
  /\ ThreadsOfTasks /\ HooksArmed /\ FiringArmed /\ ShutInShutdown
  /\ HandClaimed /\ BusyRunning /\ RunningApart /\ RunningHasOwner
  /\ SlotsCounted /\ KeysHeld /\ TasksApart
  /\ MarksOpen /\ RunningDue /\ CancelStands

LEMMA IInvInit == Init => IInv
<1> SUFFICES ASSUME Init PROVE IInv
  OBVIOUS
<1>1. Types
  BY TypesInit
<1>2. \A e \in Events : ~Running(e) /\ ~InWork(e) /\ ~Live(e) /\ row[e].state # "running"
  BY DEF Init, Running, InWork, Live, Absent
<1>3. Working = {} /\ Tasks = {}
  BY DEF Init, Working, Tasks
<1>4. SlotsCounted /\ KeysHeld /\ TasksApart
  BY <1>3, FS_EmptySet, QueueAssumption DEF Init, SlotsCounted, KeysHeld, TasksApart
<1>5. HandClaimed /\ BusyRunning /\ RunningApart /\ RunningHasOwner /\ RunningDue
  BY <1>2 DEF Init, HandClaimed, BusyRunning, RunningApart, RunningHasOwner, RunningDue
<1>6. DispatcherInPhase /\ HandKept /\ ThreadsOfTasks /\ HooksArmed /\ FiringArmed
      /\ ShutInShutdown /\ MarksOpen /\ CancelStands
  BY DEF Init, DispatcherInPhase, HandKept, ThreadsOfTasks, HooksArmed, FiringArmed,
         ShutInShutdown, MarksOpen, CancelStands
<1> QED BY <1>1, <1>4, <1>5, <1>6 DEF IInv

LEMMA IInvKept == IInv /\ [Next]_vars => IInv'
BY TypesKept, DispatchKept, ThreadsKept, RowsKept, SlotsKept, KeysKept, CancelsKept DEF IInv

LEMMA Invariance == Spec => []IInv
BY IInvInit, IInvKept, PTL DEF Spec

(* The types hold, and with them the bounds: never more slots out than     *)
(* MaxConcurrency, and no issue key held that is not an event's.           *)
THEOREM TypeCorrect == Spec => []TypeOK
<1>1. IInv => TypeOK
  <2> SUFFICES ASSUME IInv PROVE TypeOK
    OBVIOUS
  <2>1. IsFiniteSet(Working)
    BY QueueAssumption, FS_Subset DEF Working
  <2>2. free \in 0 .. MaxConcurrency
    BY <2>1, FS_CardinalityType, QueueAssumption DEF IInv, SlotsCounted
  <2>3. inflight \subseteq {Key(e) : e \in Events}
    BY DEF IInv, KeysHeld, Tasks
  <2> QED BY <2>2, <2>3 DEF IInv, Types, MemoryTypes, TypeOK
<1> QED BY <1>1, Invariance, PTL

(* While the process is up no running row is orphaned: its task or the     *)
(* claim that has just taken it will settle it.                            *)
THEOREM Owned == Spec => []RunningHasOwner
<1>1. IInv => RunningHasOwner
  BY DEF IInv
<1> QED BY <1>1, Invariance, PTL

(* An event whose cancel was accepted is neither done nor put off for a    *)
(* retry as long as this process lives.                                    *)
THEOREM CancelsObeyed == Spec => []CancelObeyed
<1>1. IInv => CancelObeyed
  BY DEF IInv, CancelStands, CancelObeyed
<1> QED BY <1>1, Invariance, PTL

(* When no task is alive the pool is whole and no issue is held; hooks are *)
(* those of armed workers, and marks those of open events.                 *)
THEOREM NothingLeft == Spec => []NothingLeftOver
<1>1. IInv => NothingLeftOver
  <2> SUFFICES ASSUME IInv, phase = "up" PROVE NothingLeftOver
    BY DEF NothingLeftOver
  <2>1. \A e \in hooks : thr[e] = "armed" /\ task[e] = "work" /\ e \in Tasks
    BY DEF IInv, Types, MemoryTypes, HooksArmed, ThreadsOfTasks, Tasks
  <2>2. ASSUME Tasks = {} PROVE free = MaxConcurrency /\ inflight = {} /\ hooks = {}
    <3>1. Working = {}
      BY <2>2 DEF Working, Tasks
    <3> QED BY <2>1, <2>2, <3>1, FS_EmptySet, QueueAssumption DEF IInv, SlotsCounted, KeysHeld
  <2> QED BY <2>1, <2>2 DEF NothingLeftOver, IInv, MarksOpen
<1> QED BY <1>1, Invariance, PTL

(* The queue implements EventService: accepted events stay owed until a    *)
(* handler ends them, handlers take owed events only and one of an issue   *)
(* at a time, and what interrupts a handler leaves its event owed.         *)
THEOREM Implements == Spec => ServesEvents
<1>1. Init => Service!Init
  BY DEF Init, Service!Init, Owed, Busy, Live, Absent
<1>2. IInv /\ [Next]_vars => [Service!Next]_(Service!vars)
  <2> SUFFICES ASSUME IInv, [Next]_vars
               PROVE  Service!Next \/ UNCHANGED <<Owed, Busy>>
    BY DEF Service!vars
  <2> DEFINE Goal == Service!Next \/ UNCHANGED <<Owed, Busy>>
  <2> /\ None \notin Events /\ row \in [Events -> Rows] /\ hand \in Events \cup {None}
      /\ DOMAIN task = Events /\ DOMAIN thr = Events /\ Types /\ BusyRunning /\ HandKept
      /\ HandClaimed
    BY QueueAssumption DEF IInv, Types, MemoryTypes
  <2>1. ASSUME UNCHANGED row PROVE UNCHANGED Owed
    BY <2>1 DEF Owed
  <2>2. ASSUME UNCHANGED <<task, thr>> PROVE UNCHANGED Busy
    BY <2>2 DEF Busy, Live
  <2>3. ASSUME UNCHANGED Owed, NEW B \in SUBSET Busy, Busy' = Busy \ B PROVE Goal
    BY <2>3 DEF Service!Next, Service!Abandon, Busy
  <2>4. ASSUME NEW e \in Events, row[e].state \notin {"queued", "running"},
               row'[e].state = "queued", \A f \in Events \ {e} : row'[f] = row[f],
               UNCHANGED <<task, thr>>
        PROVE  Goal
    <3>1. e \notin Owed /\ Owed' = Owed \cup {e}
      BY <2>4 DEF Owed
    <3> QED BY <2>2, <2>4, <3>1 DEF Service!Next, Service!Accept
  <2>5. ASSUME NEW e \in Events, Request(e) \/ BackoffOver(e) PROVE Goal
    <3>1. CASE Receive(e) \/ Triage(e)
      BY <2>4, <3>1 DEF Receive, Triage, Queued, Absent, taskVars
    <3>2. CASE Cancel(e)
      BY <2>1, <2>2, <3>2 DEF Cancel, dbVars, taskVars
    <3>3. CASE BackoffOver(e)
      <4>1. \A f \in Events : row'[f].state = row[f].state
        BY <3>3, RowEdited DEF BackoffOver
      <4> QED BY <4>1, <2>2, <3>3 DEF BackoffOver, Owed, taskVars
    <3>4. ASSUME NEW online \in BOOLEAN, Replay(e, online) PROVE Goal
      <4>1. /\ row'[e].state = "queued" /\ \A f \in Events \ {e} : row'[f] = row[f]
            /\ UNCHANGED <<task, thr>> /\ row[e].state \notin {"queued", "running"}
        BY <3>4, RowEdited DEF Replay, Requeueable, taskVars
      <4> QED BY <2>4, <4>1
    <3> QED BY <2>5, <3>1, <3>2, <3>3, <3>4 DEF Request
  <2>6. ASSUME NEW e \in Events, Handler(e) PROVE Goal
    <3>1. CASE Acquire(e) \/ StartThread(e) \/ Spawn(e) \/ ArmCheck(e) \/ ArmStore(e)
               \/ Release(e)
      <4>1. UNCHANGED Busy
        BY <3>1 DEF Acquire, StartThread, Spawn, ArmCheck, ArmStore, Release, Busy, Live
      <4> QED BY <2>1, <3>1, <4>1 DEF Acquire, StartThread, Spawn, ArmCheck, ArmStore,
                                      Release, dbVars
    <3>2. CASE Fire(e)
      <4>1. Live(e) /\ e \in Events
        BY <3>2 DEF Fire, IInv, FiringArmed, Live
      <4>2. UNCHANGED Busy
        BY <3>2, <4>1 DEF Fire, Busy, Live
      <4> QED BY <2>1, <3>2, <4>2 DEF Fire, dbVars
    <3>3. ASSUME NEW failed \in BOOLEAN, ThreadEnds(e, failed) PROVE Goal
      <4>1. e \in Busy /\ Busy' \in {Busy, Busy \ {e}}
        BY <3>3 DEF ThreadEnds, Busy, Live
      <4> QED BY <2>1, <2>3, <3>3, <4>1 DEF ThreadEnds, dbVars
    <3>4. ASSUME NEW failed \in BOOLEAN, Settle(e, failed) PROVE Goal
      <4>1. e \in Busy /\ Busy' = Busy \ {e} /\ InWork(e)
        BY <3>4 DEF Settle, Finish, Busy, Live, InWork
      <4>2. Running(e)
        BY <4>1 DEF BusyRunning
      <4>3. /\ row' = row \/ row'[e].state \in {"failed", "done", "queued"}
            /\ \A f \in Events \ {e} : row'[f] = row[f]
        BY <3>4, <4>2, Settled
      <4>4. CASE row' = row \/ row'[e].state = "queued"
        <5>1. UNCHANGED Owed
          BY <4>2, <4>3, <4>4 DEF Owed, Running
        <5>2. {e} \in SUBSET Busy /\ Busy' = Busy \ {e}
          BY <4>1
        <5> QED BY <2>3, <5>1, <5>2
      <4>5. CASE row'[e].state \in {"failed", "done"}
        <5>1. Owed' = Owed \ {e}
          BY <4>3, <4>5 DEF Owed
        <5> QED BY <4>1, <5>1 DEF Service!Next, Service!End
      <4> QED BY <4>3, <4>4, <4>5
    <3> QED BY <2>6, <3>1, <3>2, <3>3, <3>4 DEF Handler
  <2>7. ASSUME Dispatcher PROVE Goal
    <3>1. CASE Claim \/ ClaimedNone \/ ClaimedInflight \/ NapOver \/ Woken \/ Poll
      BY <2>1, <2>2, <3>1 DEF Claim, ClaimedNone, ClaimedInflight, NapOver, Woken, Poll,
                              dbVars, taskVars
    <3>2. CASE ClaimTxn
      <4>1. ASSUME NEW e \in ClaimedRows,
                   row' = [row EXCEPT ![e].state = "running", ![e].attempts = OneMore(@)]
            PROVE  UNCHANGED Owed
        <5>1. e \in Events /\ row[e].state = "queued"
          BY DEF ClaimedRows, Claimable
        <5>2. \A f \in Events : row'[f].state = IF f = e THEN "running" ELSE row[f].state
          BY <4>1, <5>1, Claimed
        <5> QED BY <5>1, <5>2 DEF Owed
      <4> QED BY <2>1, <2>2, <3>2, <4>1 DEF ClaimTxn, taskVars
    <3>3. CASE ClaimedRow
      <4>1. hand \in Events /\ Running(hand) /\ hand \in Owed
        BY <3>3 DEF ClaimedRow, HandClaimed, Running, Owed
      <4>2. \A b \in Busy : Issue[b] # Issue[hand]
        <5> SUFFICES ASSUME NEW b \in Busy, Issue[b] = Issue[hand] PROVE FALSE
          OBVIOUS
        <5>1. b \in Events /\ Running(b) /\ Key(b) = Key(hand)
          BY DEF Busy, BusyRunning, InWork, Key
        <5>2. b = hand
          BY <4>1, <5>1 DEF IInv, RunningApart
        <5> QED BY <5>2, <4>1 DEF HandClaimed, Busy, InWork
      <4>3. Busy' = Busy \cup {hand}
        BY <3>3, <4>1 DEF ClaimedRow, Busy, Live
      <4> QED BY <2>1, <3>3, <4>1, <4>2, <4>3 DEF ClaimedRow, dbVars, Service!Next,
                                                  Service!Begin
    <3>4. CASE RequeueTxn
      <4>1. /\ hand \in Events /\ Running(hand) /\ UNCHANGED <<task, thr>>
            /\ row'[hand].state = "queued" /\ \A f \in Events \ {hand} : row'[f] = row[f]
        BY <3>4, RowEdited DEF RequeueTxn, HandKept, HandClaimed, Running, taskVars
      <4>2. UNCHANGED Owed
        BY <4>1 DEF Owed, Running
      <4> QED BY <2>2, <4>1, <4>2
    <3> QED BY <2>7, <3>1, <3>2, <3>3, <3>4 DEF Dispatcher
  <2>8. ASSUME Stop \/ Drained \/ DrainTimeout \/ StopReturns \/ UNCHANGED vars PROVE Goal
    BY <2>1, <2>2, <2>8 DEF Stop, Drained, DrainTimeout, StopReturns, dbVars, taskVars, vars
  <2>9. ASSUME NEW e \in Events, Interrupt(e) PROVE Goal
    <3>1. UNCHANGED Owed
      BY <2>1, <2>9 DEF Interrupt, dbVars
    <3>2. Busy' \in {Busy, Busy \ {e}}
      <4>1. CASE task[e] = "none" \/ e \in hooks
        BY <2>2, <2>9, <4>1 DEF Interrupt, taskVars
      <4>2. CASE task[e] # "none" /\ e \notin hooks
        BY <2>9, <4>2 DEF Interrupt, Finish, Busy, Live
      <4> QED BY <4>1, <4>2
    <3>3. Busy' = Busy \ {e} => Busy' = Busy \ ({e} \cap Busy)
      OBVIOUS
    <3> QED BY <2>3, <3>1, <3>2, <3>3
  <2>10. ASSUME Exit \/ Start PROVE Goal
    <3>1. Busy' = Busy \ Busy
      BY <2>10 DEF Exit, Start, Blank, Busy, Live
    <3>2. UNCHANGED Owed
      <4>1. CASE Exit
        BY <2>1, <4>1 DEF Exit, dbVars
      <4>2. CASE Start
        BY <4>2 DEF Start, Recovered, Queued, Owed
      <4> QED BY <2>10, <4>1, <4>2
    <3> QED BY <2>3, <3>1, <3>2
  <2> QED BY <2>5, <2>6, <2>7, <2>8, <2>9, <2>10 DEF Next, Shutdown
<1> QED BY <1>1, <1>2, Invariance, PTL DEF Spec, ServesEvents, Service!Spec

=============================================================================
