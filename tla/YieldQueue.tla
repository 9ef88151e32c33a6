------------------------------ MODULE YieldQueue ------------------------------
(***************************************************************************)
(* The session's yield queue (session/yield-queue.ts) and the agent run    *)
(* that empties it: background results are staged here and injected        *)
(* between two requests of a run, or as a prompt of their own once the     *)
(* session is idle.  Kinds of entries and the batching of one kind into    *)
(* one message are left out.                                               *)
(***************************************************************************)
EXTENDS Naturals, Sequences, SequencesExt, Filtering

CONSTANT StopWhen  \* the phases of a run in which the user may stop the session

VARIABLES staged,        \* #entries, in order of arrival
          thunks,        \* entries drained by drainLazy, not yet evaluated
          flushPending,  \* #idleFlushPending
          flushTimer,    \* an idle flush waits among the post-prompt tasks
          phase,         \* of the run: see Phases
          injected       \* the entries the model has been given, in order

queueVars == <<staged, thunks, flushPending, flushTimer, phase, injected>>

\* A run polls its asides in mid-work ("polling") and once more before it
\* yields ("yielding").  After that, until isStreaming is false, nothing polls
\* ("tail": agent_end and its listeners, and the session's post-prompt work).
Phases == {"idle", "working", "polling", "yielding", "tail"}

ASSUME PhasesAssumption == StopWhen \subseteq Phases

QueueInit ==
  /\ staged = <<>> /\ thunks = <<>> /\ injected = <<>>
  /\ flushPending = FALSE /\ flushTimer = FALSE
  /\ phase = "idle"

\* YieldQueue.enqueue: an entry that comes while the session is idle schedules
\* an idle flush, unless one is pending.
Enqueue(e) ==
  /\ staged' = Append(staged, e)
  /\ flushPending' = (flushPending \/ phase = "idle")
  /\ flushTimer' = (flushTimer \/ (phase = "idle" /\ ~flushPending))
  /\ UNCHANGED <<thunks, phase, injected>>

\* #build: the entries that are not stale make the message.
Survivors(entries, stale) == Without(entries, stale)

\* Mutant: the flag of the pending flush is not cleared.
IdleFlushStillPending(stale) ==
  /\ flushTimer
  /\ flushTimer' = FALSE
  /\ IF phase = "idle"
     THEN /\ staged' = <<>>
          /\ \E message \in Survivors(staged, stale) :
               /\ injected' = injected \o message
               /\ phase' = IF message = <<>> THEN "idle" ELSE "working"
     ELSE UNCHANGED <<staged, injected, phase>>
  /\ UNCHANGED <<thunks, flushPending>>

\* The scheduled flush: it does nothing while a run is streaming, which is
\* expected to drain the queue itself.
IdleFlush(stale) ==
  /\ flushTimer
  /\ flushTimer' = FALSE /\ flushPending' = FALSE
  /\ IF phase = "idle"
     THEN /\ staged' = <<>>
          /\ \E message \in Survivors(staged, stale) :
               /\ injected' = injected \o message
               /\ phase' = IF message = <<>> THEN "idle" ELSE "working"
     ELSE UNCHANGED <<staged, injected, phase>>
  /\ UNCHANGED thunks

\* The user's prompt.
Prompt ==
  /\ phase = "idle"
  /\ phase' = "working"
  /\ UNCHANGED <<staged, thunks, flushPending, flushTimer, injected>>

\* The aside provider drains the queue into thunks.
PollAsides ==
  /\ phase = "working"
  /\ phase' \in {"polling", "yielding"}
  /\ thunks' = staged /\ staged' = <<>>
  /\ UNCHANGED <<flushPending, flushTimer, injected>>

\* resolveAsides calls the thunks; a run about to yield goes on when something
\* came of them, or when a steering message or a follow-up is waiting.
ResolveAsides(stale) ==
  /\ phase \in {"polling", "yielding"}
  /\ thunks' = <<>>
  /\ \E message \in Survivors(thunks, stale) :
       /\ injected' = injected \o message
       /\ phase' \in IF phase = "polling" \/ message # <<>>
                     THEN {"working"} ELSE {"working", "tail"}
  /\ UNCHANGED <<staged, flushPending, flushTimer>>

\* The session settles after a run, or continues it (compaction, a retry).
RunSettles ==
  /\ phase = "tail"
  /\ phase' \in {"idle", "working"}
  /\ UNCHANGED <<staged, thunks, flushPending, flushTimer, injected>>

\* AgentSession.abort: the scheduled flush is cancelled with the other
\* post-prompt tasks, the run stops polling.
Stop ==
  /\ phase \in StopWhen
  /\ flushTimer \/ phase = "working"
  /\ flushTimer' = FALSE
  /\ phase' = IF phase = "working" THEN "tail" ELSE phase
  /\ UNCHANGED <<staged, thunks, flushPending, injected>>

===============================================================================
