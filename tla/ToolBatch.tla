----------------------------- MODULE ToolBatch -----------------------------
(***************************************************************************)
(* executeToolCalls of packages/agent/src/agent-loop.ts: the calls of one  *)
(* assistant message run as promise tasks, exclusive ones alone, under a   *)
(* signal that the user's abort or a queued steering message fires.        *)
(*                                                                         *)
(* A step is the code of one task between two awaits.  The host has both   *)
(* hooks (beforeToolCall, afterToolCall); without one its step is fused    *)
(* with the next.  What a tool or a hook returns is nondeterministic.      *)
(***************************************************************************)
EXTENDS Naturals, Sequences, FiniteSets

CONSTANTS
  Calls,         \* positions of the calls in the assistant message
  Exclusive,     \* calls whose concurrency resolves to "exclusive"
  Immediate,     \* interruptMode is "immediate"
  Interruptible, \* some tool of the batch is interruptible: the watch timer runs
  PollFails,     \* may the host's steering poll reject?
  None

ASSUME ToolBatchAssumption ==
  /\ Calls \subseteq Nat /\ IsFiniteSet(Calls) /\ Exclusive \subseteq Calls
  /\ Immediate \in BOOLEAN /\ Interruptible \in BOOLEAN /\ PollFails \in BOOLEAN
  /\ None \notin {"real", "invalid", "aborted", "skipped"}

VARIABLES
  task,      \* where each call's task is awaiting, or how it settled
  failed,    \* isError of each call
  completed, \* completedToolExecution: tool.execute returned
  result,    \* kind of the result message emitted for each call
  emitted,   \* emittedToolResults: the calls in the order of their results
  triggered, \* interruptState.triggered; it aborts steeringAbortController
  signal,    \* the run's signal is aborted
  steered,   \* the steering queue is not empty
  returned,  \* the batch has returned its results
  ran        \* history: calls whose tool.execute was entered

vars == <<task, failed, completed, result, emitted, triggered, signal, steered,
          returned, ran>>

TaskStates  == {"waiting", "before", "executing", "after", "checking", "done", "rejected"}
ResultKinds == {"real", "invalid", "aborted", "skipped"}

Active  == {"before", "executing", "after", "checking"}
Settled == {"done", "rejected"}

(* toolSignal: the run's signal or the steering controller's.              *)
Cut == signal \/ triggered

(* What a task's start promise waits for: an exclusive call for the last   *)
(* exclusive call before it and every shared call since, a shared call for *)
(* the last exclusive call only.                                           *)
Earlier(i) == {j \in Calls : j < i}
LastExclusive(i) ==
  {e \in Earlier(i) \cap Exclusive : \A j \in Earlier(i) \cap Exclusive : j <= e}
SharedSince(i) == {j \in Earlier(i) \ Exclusive : \A e \in LastExclusive(i) : e < j}

(* Mutant: an exclusive call waits for exclusive calls only.               *)
StartIgnoringShared(i) == LastExclusive(i)

Start(i) == IF i \in Exclusive THEN LastExclusive(i) \cup SharedSince(i)
            ELSE LastExclusive(i)

Init ==
  /\ task = [i \in Calls |-> "waiting"]
  /\ failed = [i \in Calls |-> FALSE] /\ completed = [i \in Calls |-> FALSE]
  /\ result = [i \in Calls |-> None] /\ emitted = <<>>
  /\ triggered = FALSE /\ signal = FALSE /\ steered \in BOOLEAN
  /\ returned = FALSE /\ ran = {}

(* emitToolResult: the first result of a call is its only one.             *)
Emit(i, kind) ==
  IF result[i] # None THEN UNCHANGED <<result, emitted>>
  ELSE result' = [result EXCEPT ![i] = kind] /\ emitted' = Append(emitted, i)

Await(i, state) == task' = [task EXCEPT ![i] = state]

-----------------------------------------------------------------------------

(* runTool up to its first await.                                          *)
Begin(i) ==
  /\ task[i] = "waiting" /\ \A j \in Start(i) : task[j] = "done"
  /\ \/ triggered /\ Await(i, "done") /\ UNCHANGED <<result, emitted>>
     \/ ~triggered /\ Await(i, "done") /\ Emit(i, "invalid")
     \/ ~triggered /\ Cut /\ Await(i, "done") /\ Emit(i, "aborted")
     \/ ~Cut /\ Await(i, "before") /\ UNCHANGED <<result, emitted>>
  /\ UNCHANGED <<failed, completed, triggered, signal, steered, returned, ran>>

(* Mutant: a rejection is noticed only if all of the start promise rejects.*)
RejectIfAll(i) ==
  /\ task[i] = "waiting" /\ Start(i) # {} /\ \A j \in Start(i) : task[j] = "rejected"
  /\ Await(i, "rejected")
  /\ UNCHANGED <<failed, completed, result, emitted, triggered, signal, steered,
                 returned, ran>>

(* A task whose start promise rejects never runs its tool.                 *)
Reject(i) ==
  /\ task[i] = "waiting" /\ \E j \in Start(i) : task[j] = "rejected"
  /\ Await(i, "rejected")
  /\ UNCHANGED <<failed, completed, result, emitted, triggered, signal, steered,
                 returned, ran>>

(* Mutant: every call of an interrupted batch is reported as skipped.      *)
FinishSkipping(i, isError, kind) ==
  /\ failed' = [failed EXCEPT ![i] = isError]
  /\ Emit(i, IF triggered THEN "skipped" ELSE kind)
  /\ Await(i, "checking")

(* The end of runTool, after which it awaits checkSteering: a failed call  *)
(* of an interrupted batch is reported as skipped.                         *)
Finish(i, isError, kind) ==
  /\ failed' = [failed EXCEPT ![i] = isError]
  /\ Emit(i, IF triggered /\ isError THEN "skipped" ELSE kind)
  /\ Await(i, "checking")

(* afterToolCall is called unless the tool was cut off.                    *)
Conclude(i, isError, complete) ==
  /\ completed' = [completed EXCEPT ![i] = complete]
  /\ IF ~Cut \/ complete
     THEN /\ Await(i, "after") /\ failed' = [failed EXCEPT ![i] = isError]
          /\ UNCHANGED <<result, emitted>>
     ELSE Finish(i, isError, "real")

(* beforeToolCall has returned: it let the call pass, blocked it, or threw.*)
BeforeReturns(i) ==
  /\ task[i] = "before"
  /\ \/ Cut /\ Finish(i, TRUE, "aborted") /\ UNCHANGED <<completed, ran>>
     \/ /\ ~Cut /\ Await(i, "executing") /\ ran' = ran \cup {i}
        /\ UNCHANGED <<failed, completed, result, emitted>>
     \/ Conclude(i, TRUE, FALSE) /\ UNCHANGED ran
  /\ UNCHANGED <<triggered, signal, steered, returned>>

(* tool.execute has returned (a good result or an error result) or thrown. *)
ExecuteReturns(i, isError, complete) ==
  /\ task[i] = "executing" /\ (isError \/ complete)
  /\ Conclude(i, isError, complete)
  /\ UNCHANGED <<triggered, signal, steered, returned, ran>>

(* afterToolCall has returned: it kept or replaced the result, or threw.   *)
AfterReturns(i, isError) ==
  /\ task[i] = "after"
  /\ Finish(i, isError, "real")
  /\ UNCHANGED <<completed, triggered, signal, steered, returned, ran>>

Interrupt == triggered' = (triggered \/ (Immediate /\ ~signal /\ steered))

CheckSteering(i) ==
  /\ task[i] = "checking"
  /\ \/ Await(i, "done") /\ Interrupt
     \/ /\ PollFails /\ Immediate /\ ~Cut
        /\ Await(i, "rejected") /\ UNCHANGED triggered
  /\ UNCHANGED <<failed, completed, result, emitted, signal, steered, returned, ran>>

(* Mutant: a call counts as settled once its tool is over.                 *)
AllSettledBeforeCheck == \A i \in Calls : task[i] \in Settled \cup {"checking"}

AllSettled == \A i \in Calls : task[i] \in Settled

(* The interval that watches the steering queue while tools run.           *)
WatchSteering ==
  /\ Interruptible /\ Immediate /\ ~AllSettled
  /\ ~triggered /\ Interrupt
  /\ UNCHANGED <<task, failed, completed, result, emitted, signal, steered, returned,
                 ran>>

(* After allSettled: calls left without a result are answered in order.    *)
Sweep ==
  LET left == {i \in Calls : result[i] = None} IN
  /\ AllSettled /\ ~returned
  /\ returned' = TRUE
  /\ result' = [i \in Calls |-> IF i \in left THEN "skipped" ELSE result[i]]
  /\ \E rest \in [1..Cardinality(left) -> left] :
       /\ \A m, n \in 1..Cardinality(left) : m < n => rest[m] < rest[n]
       /\ emitted' = emitted \o rest
  /\ UNCHANGED <<task, failed, completed, triggered, signal, steered, ran>>

-----------------------------------------------------------------------------
(* The user: steering messages come and are taken back, the run is aborted.*)

Steer ==
  /\ ~returned /\ steered' \in BOOLEAN
  /\ UNCHANGED <<task, failed, completed, result, emitted, triggered, signal, returned,
                 ran>>

Abort ==
  /\ ~returned /\ ~signal /\ signal' = TRUE
  /\ UNCHANGED <<task, failed, completed, result, emitted, triggered, steered, returned,
                 ran>>

TaskStep(i) ==
  \/ Begin(i) \/ Reject(i) \/ BeforeReturns(i)
  \/ \E isError, complete \in BOOLEAN : ExecuteReturns(i, isError, complete)
  \/ \E isError \in BOOLEAN : AfterReturns(i, isError)
  \/ CheckSteering(i)

Next == (\E i \in Calls : TaskStep(i)) \/ WatchSteering \/ Sweep \/ Steer \/ Abort

(* Tasks keep running: the runtime schedules every settled promise, and    *)
(* tools and hooks return.  The watch timer and the user owe nothing.      *)
Fairness == WF_vars(Sweep) /\ \A i \in Calls : WF_vars(TaskStep(i))

Spec == Init /\ [][Next]_vars /\ Fairness
-----------------------------------------------------------------------------

TypeOK ==
  /\ task \in [Calls -> TaskStates]
  /\ failed \in [Calls -> BOOLEAN] /\ completed \in [Calls -> BOOLEAN]
  /\ result \in [Calls -> ResultKinds \cup {None}]
  /\ emitted \in Seq(Calls)
  /\ triggered \in BOOLEAN /\ signal \in BOOLEAN
  /\ steered \in BOOLEAN /\ returned \in BOOLEAN
  /\ ran \subseteq Calls

(* An exclusive tool has the batch to itself, hooks included, although the *)
(* scheduler only chains it to the shared calls since the last exclusive   *)
(* one (executeToolCalls, lastExclusive and sharedTasks).                  *)
ExclusiveAlone ==
  \A i \in Exclusive, j \in Calls :
    task[i] \in Active /\ task[j] \in Active => i = j

(* Source order around an exclusive call: nothing after it has begun while *)
(* it has not settled, and nothing before it is unsettled once it began.   *)
ExclusiveInOrder ==
  \A i, j \in Calls :
    i < j /\ {i, j} \cap Exclusive # {} /\ task[j] \in Active \cup {"done"}
      => task[i] = "done"

(* The results of the batch are one per call, however calls are skipped,   *)
(* cut off, invalid, blocked or rejected (the API's pairing).              *)
OneResultEach ==
  /\ \A m, n \in DOMAIN emitted : emitted[m] = emitted[n] => m = n
  /\ returned => \A i \in Calls : \E n \in DOMAIN emitted : emitted[n] = i

EffectReported(i) ==
  /\ result[i] \in {"aborted", "invalid"} => i \notin ran
  /\ result[i] = "skipped" /\ i \in ran => triggered /\ failed[i]

(* A call reported as aborted never had its tool entered, and one whose    *)
(* tool returned a good result that no hook failed is reported as it was:  *)
(* the model sees the side effects that happened.                          *)
EffectsReported == \A i \in Calls : EffectReported(i)

(* How far a call's task is tells whether its tool was entered and whether *)
(* its result is out; this is what makes the two properties above          *)
(* inductive.                                                              *)
Reporting(i) ==
  /\ task[i] \in {"waiting", "before"} => i \notin ran /\ result[i] = None
  /\ task[i] \in {"executing", "after"} => result[i] = None
  /\ task[i] \in Settled \cup {"checking"} /\ result[i] = None => i \notin ran

ReportsInv ==
  /\ \A i \in Calls : Reporting(i) /\ EffectReported(i)
  /\ returned => AllSettled /\ \A i \in Calls : result[i] # None

OneEach ==
  /\ \A m, n \in DOMAIN emitted : emitted[m] = emitted[n] => m = n
  /\ \A i \in Calls : (\E n \in DOMAIN emitted : emitted[n] = i) <=> result[i] # None

(* The batch returns, whatever is cut, rejected or skipped in it.          *)
BatchReturns == <>returned

(* The batch implements what CallBatch promises.                           *)
Batch == INSTANCE CallBatch WITH
  running  <- {i \in Calls : task[i] \in Active},
  settled  <- {i \in Calls : task[i] \in Settled},
  answered <- {i \in Calls : result[i] # None},
  over     <- returned

BatchSpec == Batch!Spec
=============================================================================
