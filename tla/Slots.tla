------------------------------- MODULE Slots -------------------------------
(***************************************************************************)
(* The counting semaphore of packages/coding-agent/src/task/parallel.ts    *)
(* and the subagent runs that share it.  A run of task/executor.ts waits   *)
(* for a provider slot with its abort signal; a run of task/index.ts waits *)
(* for a spawn slot without one, and gives the slot back at once when it   *)
(* finds that it was cancelled meanwhile.                                  *)
(*                                                                         *)
(* A step is the code between two awaits: admitting a waiter resolves its  *)
(* promise, and the caller resumes in a step of its own.                   *)
(***************************************************************************)
EXTENDS Naturals, Sequences, FiniteSets, SequencesExt

CONSTANTS
  Callers,    \* subagent runs, each of which takes one slot
  Abortable,  \* those that pass their abort signal to acquire
  Limits      \* values the limit setting takes; 0 is unlimited

ASSUME SlotsAssumption ==
  /\ IsFiniteSet(Callers) /\ Abortable \subseteq Callers
  /\ Limits \subseteq Nat

VARIABLES
  max,       \* #max, 0 for Infinity
  current,   \* #current
  queue,     \* #queue: the callers whose waiter it holds
  state,     \* where each caller is
  cancelled  \* callers whose signal has fired

vars == <<max, current, queue, state, cancelled>>

States == {"new", "waiting", "admitted", "running", "over"}
Holders == {c \in Callers : state[c] \in {"admitted", "running"}}
Waiters == {c \in Callers : state[c] = "waiting"}

Init ==
  /\ max \in Limits /\ current = 0 /\ queue = <<>>
  /\ state = [c \in Callers |-> "new"] /\ cancelled = {}

Fits(n, limit) == limit = 0 \/ n < limit

(* acquire, up to the promise it returns.                                  *)
Acquire(c) ==
  /\ state[c] = "new"
  /\ \/ /\ c \in Abortable \cap cancelled
        /\ state' = [state EXCEPT ![c] = "over"] /\ UNCHANGED <<current, queue>>
     \/ /\ c \notin Abortable \cap cancelled /\ Fits(current, max)
        /\ state' = [state EXCEPT ![c] = "admitted"] /\ current' = current + 1
        /\ UNCHANGED queue
     \/ /\ c \notin Abortable \cap cancelled /\ ~Fits(current, max)
        /\ state' = [state EXCEPT ![c] = "waiting"] /\ queue' = Append(queue, c)
        /\ UNCHANGED current
  /\ UNCHANGED <<max, cancelled>>

(* The abort listener takes the caller's waiter out of the queue and its   *)
(* acquire throws; without a listener the caller goes on waiting.          *)
Cancel(c) ==
  /\ c \notin cancelled /\ state[c] # "over" /\ cancelled' = cancelled \cup {c}
  /\ IF c \in Abortable /\ state[c] = "waiting"
     THEN /\ \E n \in DOMAIN queue : queue[n] = c /\ queue' = RemoveAt(queue, n)
          /\ state' = [state EXCEPT ![c] = "over"]
     ELSE UNCHANGED <<queue, state>>
  /\ UNCHANGED <<max, current>>

(* Mutants: the slot handed over is not counted; it is handed over above   *)
(* the ceiling; it goes to the caller that came last.                      *)
ReleaseUncounted(c) ==
  IF queue # <<>>
  THEN /\ state' = [state EXCEPT ![c] = "over", ![Head(queue)] = "admitted"]
       /\ queue' = Tail(queue) /\ current' = current - 1
  ELSE state' = [state EXCEPT ![c] = "over"] /\ current' = current - 1 /\ UNCHANGED queue

ReleaseOverCeiling(c) ==
  IF queue # <<>>
  THEN /\ state' = [state EXCEPT ![c] = "over", ![Head(queue)] = "admitted"]
       /\ queue' = Tail(queue) /\ UNCHANGED current
  ELSE state' = [state EXCEPT ![c] = "over"] /\ current' = current - 1 /\ UNCHANGED queue

(* release by caller c, which is over: it admits the head of the queue if  *)
(* the slot it gives back is under the ceiling.                            *)
Release(c) ==
  LET left == IF current > 0 THEN current - 1 ELSE 0 IN
  IF Fits(left, max) /\ queue # <<>>
  THEN /\ state' = [state EXCEPT ![c] = "over", ![Head(queue)] = "admitted"]
       /\ queue' = Tail(queue) /\ current' = left + 1
  ELSE state' = [state EXCEPT ![c] = "over"] /\ current' = left /\ UNCHANGED queue

(* Mutant: a run cancelled while it waited forgets to release.             *)
ResumeKeeping(c) ==
  /\ state[c] = "admitted"
  /\ state' = [state EXCEPT ![c] = IF c \in cancelled \ Abortable THEN "over" ELSE "running"]
  /\ UNCHANGED <<max, current, queue, cancelled>>

(* The caller finds its promise resolved.                                  *)
Resume(c) ==
  /\ state[c] = "admitted"
  /\ IF c \in cancelled \ Abortable THEN Release(c)
     ELSE state' = [state EXCEPT ![c] = "running"] /\ UNCHANGED <<current, queue>>
  /\ UNCHANGED <<max, cancelled>>

(* The run has ended, one way or another; its finally releases.            *)
Finish(c) ==
  /\ state[c] = "running" /\ Release(c)
  /\ UNCHANGED <<max, cancelled>>

(* Mutant: a raised limit only helps those who come later.                 *)
ResizeOnly(limit) ==
  /\ limit # max /\ max' = limit
  /\ UNCHANGED <<state, queue, current, cancelled>>

(* resize admits the waiters that now fit, in order.                       *)
Resize(limit) ==
  /\ limit # max /\ max' = limit
  /\ \E n \in 0..Len(queue) :
       /\ \A k \in 0..(n - 1) : Fits(current + k, limit)
       /\ n < Len(queue) => ~Fits(current + n, limit)
       /\ state' = [c \in Callers |-> IF \E k \in 1..n : queue[k] = c THEN "admitted"
                                      ELSE state[c]]
       /\ queue' = SubSeq(queue, n + 1, Len(queue)) /\ current' = current + n
  /\ UNCHANGED cancelled

Next ==
  \/ \E c \in Callers : Acquire(c) \/ Cancel(c) \/ Resume(c) \/ Finish(c)
  \/ \E limit \in Limits : Resize(limit)

(* A resolved promise is resumed and a run ends; nobody has to cancel or   *)
(* to change the limit.                                                    *)
Spec == Init /\ [][Next]_vars /\ \A c \in Callers : WF_vars(Resume(c) \/ Finish(c))
-----------------------------------------------------------------------------

TypeOK ==
  /\ max \in Limits /\ current \in Nat /\ queue \in Seq(Callers)
  /\ state \in [Callers -> States] /\ cancelled \subseteq Callers

(* The counter is the number of callers that hold a slot: an aborted wait, *)
(* a late cancellation or a resize leaks none (acquire, "permanently       *)
(* shrinking effective concurrency").                                      *)
SlotsAccounted == current = Cardinality(Holders)

(* The queue holds the waiting callers, each once.                         *)
QueueIsWaiters ==
  /\ IsInjective(queue)
  /\ \A c \in Callers : state[c] = "waiting" <=> \E n \in DOMAIN queue : queue[n] = c

(* No slot is idle while somebody waits, although release admits one       *)
(* waiter at a time and the ceiling moves.                                 *)
NoIdleSlot == queue # <<>> => ~Fits(current, max)

(* Nobody is admitted past the ceiling in force, even right after it was   *)
(* lowered below the number of holders ("can never push concurrency past   *)
(* the cap").                                                              *)
CapRespected ==
  [][\A c \in Callers : state[c] \in {"new", "waiting"} /\ state'[c] = "admitted"
       => max' = 0 \/ current' <= max']_vars

(* Whoever waits is admitted or gives up in the end.                       *)
Served == \A c \in Callers : state[c] = "waiting" ~> state[c] # "waiting"
=============================================================================
