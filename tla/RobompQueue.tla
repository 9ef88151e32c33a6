---------------------------- MODULE RobompQueue ----------------------------
(***************************************************************************)
(* The durable event queue of robomp (python/robomp): rows of a database   *)
(* that outlives the process, one dispatcher that claims them, a task per  *)
(* claimed event that waits for a slot and hands the work to a thread, and *)
(* the operator's cancel, replay and triage.  A restart forgets everything *)
(* but the rows.  The dispatcher and the tasks share one event loop, so a  *)
(* step of theirs runs from one await to the next; the database calls of   *)
(* the dispatcher, the workers and the cancel hooks run on threads.        *)
(***************************************************************************)
EXTENDS Naturals, Sequences, FiniteSets, SequencesExt

CONSTANTS Events,           \* delivery ids
          Manual,           \* those of them that manual triage makes up
          Issue,            \* the issue_key of each event
          MaxConcurrency,   \* settings.max_concurrency
          MaxRetries,       \* settings.event_max_retries
          Budget,           \* bounds: arrivals, exits, replays, cancels
          None

ASSUME QueueAssumption ==
  /\ IsFiniteSet(Events) /\ None \notin Events /\ Manual \subseteq Events
  /\ DOMAIN Issue = Events
  /\ MaxConcurrency \in Nat \ {0} /\ MaxRetries \in Nat
  /\ Budget \in [arrivals : Nat, exits : Nat, replays : Nat, cancels : Nat]

VARIABLES row,        \* the events table, durable
          arrived,    \* the events by received_at, durable
          phase,      \* of the process: up, draining, killing, stopped or down
          disp,       \* the dispatcher: where it awaits
          hand,       \* the row its claim came back with
          wakeup,     \* _wakeup is set
          inflight,   \* _inflight
          task,       \* _run_event of each delivery: where it awaits
          thr,        \* its worker thread
          free,       \* slots in the pool
          hooks,      \* _cancel_hooks
          cancelled,  \* _cancelled
          shut,       \* _shutdown_cancelled
          firing,     \* deliveries whose hook a thread is about to run
          still,      \* stop(): the tasks it has still to interrupt
          asked,      \* history: cancels accepted since this process started
          left        \* what is left of Budget

dbVars == <<row, arrived>>
dispVars == <<disp, hand, wakeup>>
taskVars == <<task, thr, free, inflight>>
cancelVars == <<hooks, cancelled, shut, firing, asked>>
vars == <<row, arrived, phase, disp, hand, wakeup, inflight, task, thr, free,
          hooks, cancelled, shut, firing, still, asked, left>>

\* Mutant: events are told apart by their delivery id alone.
KeyPerDelivery(e) == e
Key(e) == Issue[e]

Absent == [state |-> "absent", attempts |-> 0, due |-> TRUE]
Queued(n) == [state |-> "queued", attempts |-> n, due |-> TRUE]

\* The attempts matter only as far as the retry budget goes.
OneMore(n) == IF n > MaxRetries THEN n ELSE n + 1

LockHeld == disp \in {"claiming", "claimed", "requeue", "nap"}
Live(e) == thr[e] \in {"start", "spawned", "checked", "armed", "stopping"}
Tasks == {e \in Events : task[e] # "none"}

\* A fresh process: nothing is in memory.
Blank ==
  /\ hand' = None /\ wakeup' = FALSE /\ inflight' = {}
  /\ task' = [e \in Events |-> "none"] /\ thr' = [e \in Events |-> "none"]
  /\ free' = MaxConcurrency /\ hooks' = {} /\ cancelled' = {} /\ shut' = {}
  /\ firing' = {} /\ still' = {} /\ asked' = {}

Init ==
  /\ row = [e \in Events |-> Absent] /\ arrived = <<>>
  /\ phase = "up" /\ disp = "ready" /\ hand = None /\ wakeup = FALSE
  /\ inflight = {} /\ task = [e \in Events |-> "none"]
  /\ thr = [e \in Events |-> "none"] /\ free = MaxConcurrency
  /\ hooks = {} /\ cancelled = {} /\ shut = {} /\ firing = {} /\ still = {}
  /\ asked = {} /\ left = Budget

-----------------------------------------------------------------------------
\* Requests: the web server's while the process is up, the command line's at
\* any time and without a wake.

\* A webhook delivery; the same delivery again changes nothing.
Receive(e) ==
  /\ phase = "up" /\ e \notin Manual /\ row[e] = Absent
  /\ left.arrivals > 0 /\ left' = [left EXCEPT !.arrivals = @ - 1]
  /\ row' = [row EXCEPT ![e] = Queued(0)]
  /\ arrived' = Append(arrived, e)
  /\ wakeup' = TRUE
  /\ UNCHANGED <<phase, disp, hand, taskVars, cancelVars, still>>

\* enqueue_manual_triage: a row that is not active is replaced.
Triage(e) ==
  /\ phase = "up" /\ e \in Manual
  /\ row[e].state \notin {"queued", "running"}
  /\ row' = [row EXCEPT ![e] = Queued(0)]
  /\ \/ /\ row[e] = Absent /\ arrived' = Append(arrived, e)
        /\ left.arrivals > 0 /\ left' = [left EXCEPT !.arrivals = @ - 1]
     \/ /\ row[e] # Absent
        /\ \E i \in DOMAIN arrived : arrived[i] = e /\ arrived' = Append(RemoveAt(arrived, i), e)
        /\ left.replays > 0 /\ left' = [left EXCEPT !.replays = @ - 1]
  /\ wakeup' = TRUE
  /\ asked' = asked \ {e}
  /\ UNCHANGED <<phase, disp, hand, taskVars, hooks, cancelled, shut, firing,
                 still>>

\* requeue_event of an inactive row, by the server or by the command line.
Requeueable(e) == row[e].state \in {"done", "failed"}
Replay(e, online) ==
  /\ left.replays > 0 /\ left' = [left EXCEPT !.replays = @ - 1]
  /\ online => phase = "up"
  /\ Requeueable(e)
  /\ row' = [row EXCEPT ![e].state = "queued", ![e].due = TRUE]
  /\ wakeup' = (wakeup \/ online)
  /\ asked' = asked \ {e}
  /\ UNCHANGED <<arrived, phase, disp, hand, taskVars, hooks, cancelled, shut,
                 firing, still>>

\* /api/cancel and cancel_event: the hook, if armed, is taken and run on a
\* thread; a delivery without one is only marked.
Cancel(e) ==
  /\ left.cancels > 0 /\ left' = [left EXCEPT !.cancels = @ - 1]
  /\ phase = "up" /\ row[e].state = "running"
  /\ cancelled' = cancelled \cup {e}
  /\ hooks' = hooks \ {e}
  /\ firing' = IF e \in hooks THEN firing \cup {e} ELSE firing
  /\ asked' = asked \cup {e}
  /\ UNCHANGED <<dbVars, phase, dispVars, taskVars, shut, still>>

\* The hook kills the omp it was made for.
Fire(e) ==
  /\ e \in firing /\ firing' = firing \ {e}
  /\ thr' = [thr EXCEPT ![e] = "stopping"]
  /\ UNCHANGED <<dbVars, phase, dispVars, task, free, inflight, hooks,
                 cancelled, shut, still, asked, left>>

\* available_at passes.
BackoffOver(e) ==
  /\ row[e].state = "queued" /\ ~row[e].due
  /\ row' = [row EXCEPT ![e].due = TRUE]
  /\ UNCHANGED <<arrived, phase, dispVars, taskVars, cancelVars, still, left>>

-----------------------------------------------------------------------------
\* The dispatcher.

\* _claim_next_unique takes _inflight_lock, which is handed on in the order
\* it was asked for: a task that waits to release goes first.
Claim ==
  /\ disp = "ready" /\ \A e \in Events : task[e] # "releasing"
  /\ disp' = "claiming"
  /\ UNCHANGED <<dbVars, phase, hand, wakeup, taskVars, cancelVars, still,
                 left>>

\* claim_next_event on a thread: the oldest due row of an issue of which no
\* row is running.  The thread of a cancelled dispatcher goes on ("stray").
Claimable(e) ==
  /\ row[e].state = "queued" /\ row[e].due
  /\ \A f \in Events : row[f].state = "running" => Key(f) # Key(e)
ClaimedRows ==
  {e \in Events : \E i \in DOMAIN arrived :
     /\ arrived[i] = e /\ Claimable(e)
     /\ \A j \in 1 .. i - 1 : ~Claimable(arrived[j])}
ClaimTxn ==
  /\ disp \in {"claiming", "stray"}
  /\ disp' = IF disp = "stray" THEN "off" ELSE "claimed"
  /\ IF ClaimedRows = {} THEN hand' = None /\ UNCHANGED row
     ELSE \E e \in ClaimedRows :
            /\ row' = [row EXCEPT ![e].state = "running",
                                  ![e].attempts = OneMore(@)]
            /\ hand' = IF disp = "stray" THEN None ELSE e
  /\ UNCHANGED <<arrived, phase, wakeup, taskVars, cancelVars, still, left>>

\* No row: the wakeup is cleared and awaited.
ClaimedNone ==
  /\ disp = "claimed" /\ hand = None
  /\ disp' = "idle" /\ wakeup' = FALSE
  /\ UNCHANGED <<dbVars, phase, hand, taskVars, cancelVars, still, left>>

ClaimedRow ==
  /\ disp = "claimed" /\ hand # None /\ Key(hand) \notin inflight
  /\ inflight' = inflight \cup {Key(hand)}
  /\ task' = [task EXCEPT ![hand] = "slot"]
  /\ disp' = "ready" /\ hand' = None
  /\ UNCHANGED <<dbVars, phase, wakeup, thr, free, cancelVars, still, left>>

ClaimedInflight ==
  /\ disp = "claimed" /\ hand # None /\ Key(hand) \in inflight
  /\ disp' = "requeue"
  /\ UNCHANGED <<dbVars, phase, hand, wakeup, taskVars, cancelVars, still,
                 left>>

\* requeue_event of the row just claimed, on a thread; then half a second
\* with the lock held.
RequeueTxn ==
  /\ disp \in {"requeue", "strayRequeue"}
  /\ row' = IF row[hand].state # "running" THEN row
            ELSE [row EXCEPT ![hand].state = "queued", ![hand].due = TRUE]
  /\ disp' = IF disp = "requeue" THEN "nap" ELSE "off"
  /\ hand' = None
  /\ UNCHANGED <<arrived, phase, wakeup, taskVars, cancelVars, still, left>>

NapOver ==
  /\ disp = "nap" /\ disp' = "idle" /\ wakeup' = FALSE
  /\ UNCHANGED <<dbVars, phase, hand, taskVars, cancelVars, still, left>>

Woken ==
  /\ disp = "idle" /\ wakeup /\ disp' = "ready"
  /\ UNCHANGED <<dbVars, phase, hand, wakeup, taskVars, cancelVars, still,
                 left>>

\* Mutant: the timeout does not make the loop claim again.
PollWaitsOn ==
  /\ disp = "idle" /\ ~wakeup
  /\ UNCHANGED vars
\* The wait on the wakeup gives up after ten seconds.
Poll ==
  /\ disp = "idle" /\ ~wakeup /\ disp' = "ready"
  /\ UNCHANGED <<dbVars, phase, hand, wakeup, taskVars, cancelVars, still,
                 left>>

-----------------------------------------------------------------------------
\* _run_event and the worker thread of a delivery.

Acquire(e) ==
  /\ task[e] = "slot" /\ free > 0
  /\ free' = free - 1 /\ task' = [task EXCEPT ![e] = "work"]
  /\ UNCHANGED <<dbVars, phase, dispVars, thr, inflight, cancelVars, still,
                 left>>

\* run_task gets to asyncio.to_thread.
StartThread(e) ==
  /\ task[e] = "work" /\ thr[e] = "none"
  /\ thr' = [thr EXCEPT ![e] = "start"]
  /\ UNCHANGED <<dbVars, phase, dispVars, task, free, inflight, cancelVars,
                 still, left>>

\* RpcClient.__enter__ starts omp.
Spawn(e) ==
  /\ thr[e] = "start" /\ thr' = [thr EXCEPT ![e] = "spawned"]
  /\ UNCHANGED <<dbVars, phase, dispVars, task, free, inflight, cancelVars,
                 still, left>>

\* _arm_cancel, from the worker's thread: first the test ...
ArmCheck(e) ==
  /\ thr[e] = "spawned"
  /\ thr' = [thr EXCEPT ![e] = IF e \in cancelled THEN "stopping"
                                                  ELSE "checked"]
  /\ UNCHANGED <<dbVars, phase, dispVars, task, free, inflight, cancelVars,
                 still, left>>

\* ... then the hook is stored.
ArmStore(e) ==
  /\ thr[e] = "checked"
  /\ thr' = [thr EXCEPT ![e] = "armed"] /\ hooks' = hooks \cup {e}
  /\ UNCHANGED <<dbVars, phase, dispVars, task, free, inflight, cancelled,
                 shut, firing, still, asked, left>>

\* The thread ends and disarms.  It fails when omp was killed or when it
\* could not be started; a thread nobody awaits is gone.  A hook still to be
\* fired would find its omp gone.
ThreadEnds(e, failed) ==
  /\ Live(e)
  /\ thr[e] = "stopping" => failed
  /\ thr[e] \in {"start", "spawned"} => failed
  /\ thr[e] # "checked"
  /\ thr' = [thr EXCEPT ![e] = IF task[e] # "work" THEN "none"
                               ELSE IF failed THEN "failed" ELSE "ok"]
  /\ hooks' = hooks \ {e} /\ firing' = firing \ {e}
  /\ UNCHANGED <<dbVars, phase, dispVars, task, free, inflight, cancelled,
                 shut, still, asked, left>>

\* Mutant: a failure is retried before anyone looks at the cancel mark.
OutcomeRetryFirst(e, failed) ==
  IF failed /\ e \in shut THEN row[e]
  ELSE IF failed /\ row[e].attempts <= MaxRetries
  THEN [row[e] EXCEPT !.state = "queued", !.due = FALSE]
  ELSE [row[e] EXCEPT !.state = IF failed \/ e \in cancelled THEN "failed"
                                                            ELSE "done"]
\* What _dispatch_and_mark and the exception path make of the row.
Outcome(e, failed) ==
  IF failed /\ e \in shut THEN row[e]
  ELSE IF e \in cancelled THEN [row[e] EXCEPT !.state = "failed"]
  ELSE IF ~failed THEN [row[e] EXCEPT !.state = "done"]
  ELSE IF row[e].attempts <= MaxRetries
  THEN [row[e] EXCEPT !.state = "queued", !.due = FALSE]
  ELSE [row[e] EXCEPT !.state = "failed"]

\* Mutant: the cancel mark outlives the run it was meant for.
FinishKeepsMark(e, rel) ==
  /\ UNCHANGED cancelled /\ shut' = shut \ {e} /\ hooks' = hooks \ {e}
  /\ free' = IF task[e] = "work" THEN free + 1 ELSE free
  /\ task' = [task EXCEPT ![e] = IF rel THEN "none" ELSE "releasing"]
  /\ inflight' = IF rel THEN inflight \ {Key(e)} ELSE inflight
\* Mutant: a task interrupted while it waits gives back a slot it never had.
FinishAlwaysFrees(e, rel) ==
  /\ cancelled' = cancelled \ {e} /\ shut' = shut \ {e}
  /\ hooks' = hooks \ {e} /\ free' = free + 1
  /\ task' = [task EXCEPT ![e] = IF rel THEN "none" ELSE "releasing"]
  /\ inflight' = IF rel THEN inflight \ {Key(e)} ELSE inflight
\* The finally: marks and hook dropped, slot back, issue released if the lock
\* is free.
Finish(e, rel) ==
  /\ cancelled' = cancelled \ {e} /\ shut' = shut \ {e}
  /\ hooks' = hooks \ {e}
  /\ free' = IF task[e] = "work" THEN free + 1 ELSE free
  /\ task' = [task EXCEPT ![e] = IF rel THEN "none" ELSE "releasing"]
  /\ inflight' = IF rel THEN inflight \ {Key(e)} ELSE inflight

\* The handler is over: before a thread was needed, or with it.
Settle(e, failed) ==
  /\ task[e] = "work"
  /\ thr[e] \in {"none", IF failed THEN "failed" ELSE "ok"}
  /\ row' = [row EXCEPT ![e] = Outcome(e, failed)]
  /\ thr' = [thr EXCEPT ![e] = "none"]
  /\ Finish(e, ~LockHeld)
  /\ UNCHANGED <<arrived, phase, dispVars, firing, still, asked, left>>

Release(e) ==
  /\ task[e] = "releasing" /\ ~LockHeld
  /\ task' = [task EXCEPT ![e] = "none"] /\ inflight' = inflight \ {Key(e)}
  /\ UNCHANGED <<dbVars, phase, dispVars, thr, free, cancelVars, still, left>>

-----------------------------------------------------------------------------
\* stop(), the end of the process and the next start.

\* The dispatcher is cancelled; a database call it awaits goes on.
Stop ==
  /\ phase = "up" /\ left.exits > 0
  /\ phase' = "draining"
  /\ disp' = CASE disp = "claiming" -> "stray"
               [] disp = "requeue" -> "strayRequeue"
               [] OTHER -> "off"
  /\ hand' = IF disp = "requeue" THEN hand ELSE None
  /\ wakeup' = TRUE
  /\ UNCHANGED <<dbVars, taskVars, cancelVars, still, left>>

Drained ==
  /\ phase = "draining" /\ Tasks = {} /\ phase' = "stopped"
  /\ UNCHANGED <<dbVars, dispVars, taskVars, cancelVars, still, left>>

DrainTimeout ==
  /\ phase = "draining" /\ Tasks # {}
  /\ phase' = "killing" /\ still' = Tasks
  /\ UNCHANGED <<dbVars, dispVars, taskVars, cancelVars, left>>

\* A task with a hook gets it fired, which stop() awaits; one without is
\* cancelled at its await; its thread, unless the executor had not begun it,
\* is not.
Interrupt(e) ==
  /\ phase = "killing" /\ e \in still
  /\ firing \cap shut = {}
  /\ still' = still \ {e}
  /\ IF task[e] = "none"
     THEN UNCHANGED <<taskVars, hooks, cancelled, shut, firing>>
     ELSE IF e \in hooks
     THEN /\ shut' = shut \cup {e} /\ hooks' = hooks \ {e}
          /\ firing' = firing \cup {e}
          /\ UNCHANGED <<taskVars, cancelled>>
     ELSE /\ Finish(e, TRUE)
          /\ \/ Live(e) /\ UNCHANGED thr
             \/ (~Live(e) \/ thr[e] = "start") /\ thr' = [thr EXCEPT ![e] = "none"]
          /\ UNCHANGED firing
  /\ UNCHANGED <<dbVars, phase, dispVars, asked, left>>

\* The interrupted tasks are awaited for kill_timeout.
StopReturns ==
  /\ phase = "killing" /\ still = {} /\ firing \cap shut = {}
  /\ phase' = "stopped"
  /\ UNCHANGED <<dbVars, dispVars, taskVars, cancelVars, still, left>>

\* The process ends, after stop() or in a crash.
Exit ==
  /\ phase # "down" /\ left.exits > 0
  /\ left' = [left EXCEPT !.exits = @ - 1]
  /\ phase' = "down" /\ disp' = "off" /\ Blank
  /\ UNCHANGED dbVars

\* Mutant: start() without reset_stuck_running.
RecoveredNot(e) == row[e]
\* start(): reset_stuck_running, then the dispatcher.
Recovered(e) == IF row[e].state = "running" THEN Queued(row[e].attempts)
                                            ELSE row[e]
Start ==
  /\ phase = "down" /\ phase' = "up" /\ disp' = "ready"
  /\ row' = [e \in Events |-> Recovered(e)]
  /\ Blank
  /\ UNCHANGED <<arrived, left>>

-----------------------------------------------------------------------------
Dispatcher ==
  \/ Claim \/ ClaimTxn \/ ClaimedNone \/ ClaimedRow \/ ClaimedInflight
  \/ RequeueTxn \/ NapOver \/ Woken \/ Poll
Handler(e) ==
  \/ Acquire(e) \/ StartThread(e) \/ Spawn(e) \/ ArmCheck(e) \/ ArmStore(e)
  \/ Release(e) \/ Fire(e)
  \/ \E failed \in BOOLEAN : ThreadEnds(e, failed) \/ Settle(e, failed)
Shutdown == Drained \/ DrainTimeout \/ StopReturns \/ \E e \in Events : Interrupt(e)
Request(e) ==
  \/ Receive(e) \/ Triage(e) \/ Cancel(e)
  \/ \E online \in BOOLEAN : Replay(e, online)

Next ==
  \/ Dispatcher \/ Stop \/ Shutdown \/ Exit \/ Start
  \/ \E e \in Events : Handler(e) \/ Request(e) \/ BackoffOver(e)

Spec == Init /\ [][Next]_vars

\* Threads and the event loop go on, timeouts pass, a turn of omp ends (its
\* hard timeout kills it), and a supervisor ends a stopped process and starts
\* it again.  Requests, stop() and crashes may or may not come.
FairSpec ==
  /\ Spec /\ WF_vars(Dispatcher) /\ WF_vars(Shutdown) /\ WF_vars(Start)
  /\ WF_vars(phase = "stopped" /\ Exit)
  /\ \A e \in Events : WF_vars(Handler(e)) /\ WF_vars(BackoffOver(e))

-----------------------------------------------------------------------------
Rows == [state : {"absent", "queued", "running", "done", "failed"},
         attempts : 0 .. MaxRetries + 1, due : BOOLEAN]

TypeOK ==
  /\ row \in [Events -> Rows] /\ arrived \in Seq(Events)
  /\ phase \in {"up", "draining", "killing", "stopped", "down"}
  /\ disp \in {"off", "ready", "claiming", "claimed", "requeue", "nap", "idle",
               "stray", "strayRequeue"}
  /\ hand \in Events \cup {None} /\ wakeup \in BOOLEAN
  /\ inflight \subseteq {Key(e) : e \in Events}
  /\ task \in [Events -> {"none", "slot", "work", "releasing"}]
  /\ thr \in [Events -> {"none", "start", "spawned", "checked", "armed",
                         "stopping", "ok", "failed"}]
  /\ free \in 0 .. MaxConcurrency
  /\ hooks \cup cancelled \cup shut \cup firing \cup still \cup asked
       \subseteq Events
  /\ left \in [arrivals : 0 .. Budget.arrivals, exits : 0 .. Budget.exits,
               replays : 0 .. Budget.replays, cancels : 0 .. Budget.cancels]

\* While the process is up, every row that is running has somebody who will
\* settle it: its task, or the dispatcher that has just claimed it.  A running
\* row without one would block its issue until the next restart.
RunningHasOwner ==
  phase = "up" =>
    \A e \in Events : row[e].state = "running" =>
      \/ task[e] \in {"slot", "work"}
      \/ hand = e /\ disp \in {"claimed", "requeue"}

\* An accepted cancel is obeyed for as long as this process lives: the
\* delivery is not marked done, and is not put off for a retry.
CancelObeyed ==
  \A e \in asked : row[e].state # "done" /\ row[e].due

\* What an event leaves behind in the pool must not meet a later one: with no
\* task alive all slots are free and no issue is held, a hook belongs to a
\* worker that is armed, and a cancel mark to an event that is still open.
NothingLeftOver ==
  phase = "up" =>
    /\ Tasks = {} => free = MaxConcurrency /\ inflight = {} /\ hooks = {}
    /\ \A e \in hooks : thr[e] = "armed" /\ task[e] = "work"
    /\ \A e \in cancelled : row[e].state \in {"queued", "running"}

\* The queue keeps the promises of EventService: an event is owed while its
\* row is queued or running, and handled while a task or a thread is at it.
Owed == {e \in Events : row[e].state \in {"queued", "running"}}
Busy == {e \in Events : task[e] \in {"slot", "work"} \/ Live(e)}
Service == INSTANCE EventService WITH owed <- Owed, busy <- Busy
ServesEvents == Service!Spec

\* The work that is owed is all done at last, across restarts, lost wakeups and
\* requeued claims: the requests of a run are finitely many.
Served == Owed # {} ~> Owed = {}
=============================================================================
