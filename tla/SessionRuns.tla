---------------------------- MODULE SessionRuns ----------------------------
(***************************************************************************)
(* Who runs the agent of a session, and when: prompts, continuations that  *)
(* pick up queued messages, wakes by a peer's message and idle flushes of  *)
(* the yield queue start runs of the agent core; steering messages,        *)
(* follow-ups and asides wait for a run to poll them; the user takes       *)
(* messages back and aborts.  The runs themselves are AgentLoop's: here a  *)
(* run polls its queues until it finds them empty, and ends a little       *)
(* later.  A step runs from one await to the next.                         *)
(***************************************************************************)
EXTENDS Naturals, FiniteSets

CONSTANTS Users,      \* messages of the user, each sent once
          Peers,      \* messages of peers, each sent once
          Conts,      \* continuations: bound on those unwinding at a time
          Wakes,      \* wakes by peers: bound on those unwinding at a time
          Flush,      \* the idle flush
          Aborts,     \* calls of abort, each made once
          MaxFlushes  \* bound: idle flushes

ASSUME SessionAssumption ==
  /\ IsFiniteSet(Users \cup Peers \cup Conts \cup Wakes \cup Aborts)
  /\ MaxFlushes \in Nat
  /\ Users \cap Peers = {} /\ Users \cap Conts = {} /\ Users \cap Wakes = {}
  /\ Conts \cap Wakes = {} /\ Flush \notin Users \cup Conts \cup Wakes

VARIABLES
  steering, followUps,  \* the queues of the agent core
  asides,     \* #pendingIrcAsides
  sent,       \* messages that were sent
  seen,       \* messages in the agent's context
  back,       \* messages the user took back, or was told of an error for
  bailed,     \* prompts an abort overtook before their run
  suppressed, \* #advisorAutoResumeSuppressed: the user has interrupted
  tailOk,     \* the transcript ends with an answer
  count,      \* #promptInFlightCount
  generation, \* #promptGeneration
  aborting,   \* #abortInProgress
  run,        \* the agent core's run: where it is, who started it, whether it
              \* was aborted and whether a message of the user drives it
  drv,        \* those who start runs: how far, since when, parked follow-ups
  aborts,     \* calls of abort: how far, and the tasks they wait for
  flushes,    \* idle flushes left
  overtaken   \* history: messages queued since the user interrupted, who did so
              \* while their images were normalised

queueVars == <<steering, followUps, asides, sent, seen, back, bailed>>
vars == <<queueVars, suppressed, tailOk, count, generation, aborting, run, drv, aborts, flushes,
          overtaken>>

Drivers == Users \cup Conts \cup Wakes \cup {Flush}
Tasks == Conts \cup {Flush}     \* tracked as post-prompt tasks
Off == [pc |-> "off", gen |-> 0, parked |-> {}]
Streaming == run.at # "idle" \/ count > 0

Init ==
  /\ steering = {} /\ followUps = {} /\ asides = {}
  /\ sent = {} /\ seen = {} /\ back = {} /\ bailed = {}
  /\ suppressed = FALSE /\ tailOk = TRUE /\ count = 0 /\ generation = 0 /\ aborting = FALSE
  /\ run = [at |-> "idle", by |-> Flush, aborted |-> FALSE, own |-> FALSE]
  /\ drv = [d \in Drivers |-> Off]
  /\ aborts = [a \in Aborts |-> [pc |-> "none", tasks |-> {}]]
  /\ flushes = MaxFlushes /\ overtaken = {}

-----------------------------------------------------------------------------
\* Starting runs

Driving(D, d, pc, parked) == [D EXCEPT ![d] = [pc |-> pc, gen |-> generation, parked |-> parked]]
Runs(d, own) == run' = [at |-> "loop", by |-> d, aborted |-> FALSE, own |-> own]

\* #canAutoContinueForFollowUp and hasQueuedMessages, with follow-ups F, when
\* nothing is streaming.
Resumable(S, F, held) == S # {} \/ (F # {} /\ ~held /\ tailOk)

\* #scheduleQueuedMessageDrain: the task runs to its first await at once.
\* D and n are the drivers and the count before it.
Resumes(D, n, S, F, held) ==
  IF n = 0 /\ run.at = "idle" /\ Resumable(S, F, held)
  THEN /\ count' = 1
       /\ \E c \in {x \in Conts : D[x].pc = "off"} : drv' = Driving(D, c, "setup", {})
  ELSE count' = n /\ drv' = D

\* Mutant: a wake leaves the follow-ups where they are.
HoldsNever(F) == FALSE
\* A wake's run would take follow-ups that must not resume by themselves.
Holds(F) == steering = {} /\ F # {} /\ ~Resumable({}, F, suppressed)

\* #wakeForIrc
WakeFor(M, D, n, F) ==
  /\ count' = n + 1 /\ seen' = seen \cup M
  /\ followUps' = IF Holds(F) THEN {} ELSE F
  /\ \E w \in {x \in Wakes : D[x].pc = "off"} :
       /\ drv' = Driving(D, w, "running", IF Holds(F) THEN F ELSE {})
       /\ Runs(w, FALSE)

\* #drainStrandedQueuedMessages
Drains(D, n, F, held) ==
  IF n = 0 /\ run.at = "idle" /\ ~Resumable(steering, F, held) /\ asides # {}
  THEN WakeFor(asides, D, n, F) /\ asides' = {}
  ELSE /\ Resumes(D, n, steering, F, held)
       /\ followUps' = F /\ UNCHANGED <<asides, run, seen>>

-----------------------------------------------------------------------------
\* Messages come

\* Those who end go on in microtasks; what the user does, and a model's
\* answer, are tasks that come later.
Settled == \A d \in Drivers : drv[d].pc # "ending"

\* The user's message is taken, and its images are normalised first: for a
\* prompt on a session that is not streaming, or, at any time, for a message to
\* be queued (steer, followUp, prompt on a streaming session).
Takes(m, as) ==
  /\ m \notin sent /\ Settled /\ (as = "prompting" => ~Streaming)
  /\ sent' = sent \cup {m} /\ suppressed' = FALSE /\ overtaken' = {}
  /\ drv' = [drv EXCEPT ![m].pc = as]
  /\ UNCHANGED <<steering, followUps, asides, seen, back, bailed, tailOk, count, generation,
                 aborting, run, aborts, flushes>>

\* #promptWithMessage up to the setup's first await, whatever streams by now.
Prompt(m) ==
  /\ drv[m].pc = "prompting"
  /\ count' = count + 1 /\ drv' = Driving(drv, m, "setup", {})
  /\ asides' = {} /\ seen' = seen \cup asides
  /\ tailOk' = (tailOk /\ (asides = {} \/ run.at # "idle"))
  /\ UNCHANGED <<steering, followUps, sent, back, bailed, suppressed, generation, aborting, run,
                 aborts, flushes, overtaken>>

\* #queueUserMessage, from the enqueueing on.
Queue(m, Q) ==
  /\ drv[m].pc = "queueing"
  /\ \/ Q = "steer" /\ steering' = steering \cup {m} /\ UNCHANGED followUps
     \/ Q = "followUp" /\ followUps' = followUps \cup {m} /\ UNCHANGED steering
  /\ Resumes([drv EXCEPT ![m] = Off], count, steering', followUps', suppressed)
  /\ overtaken' = IF suppressed THEN overtaken \cup {m} ELSE overtaken
  /\ UNCHANGED <<asides, sent, seen, back, bailed, suppressed, tailOk, generation, aborting, run,
                 aborts, flushes>>

\* deliverIrcMessage
Arrives(m) ==
  /\ m \notin sent /\ sent' = sent \cup {m}
  /\ IF Streaming
     THEN asides' = asides \cup {m} /\ UNCHANGED <<followUps, seen, count, drv, run>>
     ELSE WakeFor({m}, drv, count, followUps) /\ UNCHANGED asides
  /\ UNCHANGED <<steering, back, bailed, suppressed, tailOk, generation, aborting, aborts,
                 flushes, overtaken>>

\* clearQueue: what the user has queued goes back to the editor.
TakeBack ==
  /\ steering \cup followUps # {} /\ Settled
  /\ back' = back \cup steering \cup followUps /\ steering' = {} /\ followUps' = {}
  /\ UNCHANGED <<asides, sent, seen, bailed, suppressed, tailOk, count, generation, aborting,
                 run, drv, aborts, flushes, overtaken>>

\* A command of the user, or a message that starts no turn, ends the transcript.
Remark ==
  /\ ~Streaming /\ Settled /\ tailOk /\ tailOk' = FALSE
  /\ UNCHANGED <<queueVars, suppressed, count, generation, aborting, run, drv, aborts, flushes,
                 overtaken>>

-----------------------------------------------------------------------------
\* Drivers

\* agent.prompt of m: busy, it waits until the run that is on has ended.
Starts(m) ==
  IF run.at = "idle"
  THEN /\ Runs(m, TRUE) /\ drv' = [drv EXCEPT ![m].pc = "running"] /\ seen' = seen \cup {m}
  ELSE drv' = [drv EXCEPT ![m].pc = "waiting"] /\ UNCHANGED <<run, seen>>

\* The setup of a prompt is over: an abort has overtaken it, it failed, or the
\* run can start.
SetupEnds(m) ==
  /\ drv[m].pc = "setup"
  /\ \/ /\ drv[m].gen # generation /\ bailed' = bailed \cup {m}
        /\ drv' = [drv EXCEPT ![m].pc = "ending"] /\ UNCHANGED <<run, seen, back>>
     \/ /\ back' = back \cup {m}
        /\ drv' = [drv EXCEPT ![m].pc = "ending"] /\ UNCHANGED <<run, seen, bailed>>
     \/ drv[m].gen = generation /\ Starts(m) /\ UNCHANGED <<back, bailed>>
  /\ UNCHANGED <<steering, followUps, asides, sent, suppressed, tailOk, count, generation,
                 aborting, aborts, flushes, overtaken>>

Retries(m) ==
  /\ drv[m].pc = "retrying" /\ Starts(m)
  /\ UNCHANGED <<steering, followUps, asides, sent, back, bailed, suppressed, tailOk, count,
                 generation, aborting, aborts, flushes, overtaken>>

\* A continuation whose task was not aborted calls agent.continue, which takes
\* from the queues when the transcript ends with an answer, and fails when
\* the agent is busy or has nothing to go on with.
Continues(c) ==
  LET nothing == tailOk /\ steering = {} /\ followUps = {}
      taken == IF ~tailOk THEN {} ELSE IF steering # {} THEN steering ELSE followUps
  IN /\ drv[c].pc = "setup"
     /\ IF drv[c].gen # generation \/ run.at # "idle" \/ nothing
        THEN drv' = [drv EXCEPT ![c].pc = "ending"] /\ UNCHANGED <<run, steering, followUps, seen>>
        ELSE /\ drv' = [drv EXCEPT ![c].pc = "running"]
             /\ Runs(c, taken \subseteq steering /\ taken # {})
             /\ steering' = steering \ taken /\ followUps' = followUps \ taken
             /\ seen' = seen \cup taken
     /\ UNCHANGED <<asides, sent, back, bailed, suppressed, tailOk, count, generation, aborting,
                    aborts, flushes, overtaken>>

\* injectIdle: a run nobody counts.
FlushIdle ==
  /\ flushes > 0 /\ flushes' = flushes - 1 /\ drv[Flush].pc = "off" /\ ~Streaming
  /\ drv' = Driving(drv, Flush, "running", {}) /\ Runs(Flush, FALSE)
  /\ UNCHANGED <<queueVars, suppressed, tailOk, count, generation, aborting, aborts, overtaken>>

\* A prompt waits for the post-prompt tasks and the agent, unless an abort has
\* overtaken it.
Recovered(d) ==
  \/ d \in Users /\ drv[d].gen # generation
  \/ \A x \in Tasks : drv[x].pc = "off" /\ run.at = "idle"

\* Mutant: what was queued during the wake is overwritten.
RequeuedOver(d) == IF d \in Wakes THEN drv[d].parked ELSE followUps
\* A wake puts the follow-ups it held back before the others.
Requeued(d) == followUps \cup drv[d].parked

\* Mutant: a count that was reset under the driver does not drain.
DrainsAfterOff(d) == d # Flush /\ count = 1 /\ ~aborting
\* #endInFlight, not called for an idle flush, drains when nobody is left.
DrainsAfter(d) == d # Flush /\ count <= 1 /\ ~aborting

\* Mutant: the count goes below zero.
LeftBelow(d) == IF d = Flush THEN count ELSE count - 1
\* The count when d is gone; an abort may have reset it already.
Left(d) == IF d = Flush \/ count = 0 THEN count ELSE count - 1

Ends(d) ==
  /\ drv[d].pc = "ending" \/ (drv[d].pc = "recovering" /\ Recovered(d))
  /\ LET D == [drv EXCEPT ![d] = Off]
     IN IF DrainsAfter(d) THEN Drains(D, Left(d), Requeued(d), suppressed)
        ELSE /\ count' = Left(d) /\ drv' = D /\ followUps' = Requeued(d)
             /\ UNCHANGED <<asides, run, seen>>
  /\ aborts' = [a \in Aborts |-> [aborts[a] EXCEPT !.tasks = @ \ {d}]]
  /\ UNCHANGED <<steering, sent, back, bailed, suppressed, tailOk, generation, aborting,
                 flushes, overtaken>>

-----------------------------------------------------------------------------
\* The run of the agent core

Polls ==
  /\ run.at = "loop" /\ ~run.aborted
  /\ \/ /\ steering \cup asides # {}
        /\ seen' = seen \cup steering \cup asides
        /\ run' = [run EXCEPT !.own = @ \/ steering # {}]
        /\ steering' = {} /\ asides' = {} /\ UNCHANGED followUps
     \/ /\ steering = {} /\ followUps # {}
        /\ seen' = seen \cup followUps /\ followUps' = {} /\ UNCHANGED <<steering, asides, run>>
  /\ UNCHANGED <<sent, back, bailed, suppressed, tailOk, count, generation, aborting, drv, aborts,
                 flushes, overtaken>>

\* The last poll found nothing.
PollsInVain ==
  /\ run.at = "loop" /\ ~run.aborted /\ Settled /\ steering \cup followUps \cup asides = {}
  /\ run' = [run EXCEPT !.at = "tail", !.own = FALSE]
  /\ UNCHANGED <<queueVars, suppressed, tailOk, count, generation, aborting, drv, aborts,
                 flushes, overtaken>>

\* agent_end; whoever awaits the run goes on.
RunEnds ==
  /\ run.at = "tail" \/ (run.at = "loop" /\ run.aborted)
  /\ run' = [run EXCEPT !.at = "idle", !.aborted = FALSE, !.own = FALSE]
  /\ tailOk' = TRUE
  /\ drv' = [d \in Drivers |->
       IF d = run.by THEN [drv[d] EXCEPT !.pc = IF d \in Users THEN "recovering" ELSE "ending"]
       ELSE IF drv[d].pc = "waiting" THEN [drv[d] EXCEPT !.pc = "retrying"] ELSE drv[d]]
  /\ aborts' = [a \in Aborts |->
       IF aborts[a].pc = "idling" THEN [aborts[a] EXCEPT !.pc = "resetting"] ELSE aborts[a]]
  /\ UNCHANGED <<queueVars, suppressed, count, generation, aborting, flushes, overtaken>>

-----------------------------------------------------------------------------
\* abort

\* Up to its first await; the tasks it cancels are those of older generations.
Abort(a, byUser) ==
  /\ aborts[a].pc = "none" /\ Settled
  /\ generation' = generation + 1
  /\ suppressed' = (suppressed \/ byUser) /\ aborting' = TRUE
  /\ overtaken' = IF byUser THEN {} ELSE overtaken
  /\ run' = [run EXCEPT !.aborted = run.at # "idle"]
  /\ aborts' = [aborts EXCEPT ![a] =
       [pc |-> "draining", tasks |-> {d \in Tasks : drv[d].pc # "off"}]]
  /\ UNCHANGED <<queueVars, tailOk, count, drv, flushes>>

AbortDrained(a) ==
  /\ aborts[a].pc = "draining" /\ aborts[a].tasks = {}
  /\ aborts' = [aborts EXCEPT ![a].pc = IF run.at = "idle" THEN "resetting" ELSE "idling"]
  /\ UNCHANGED <<queueVars, suppressed, tailOk, count, generation, aborting, run, drv, flushes,
                 overtaken>>

\* #resetInFlight, and the drain when the abort is no longer in progress.
AbortEnds(a) ==
  /\ aborts[a].pc = "resetting" /\ aborts' = [aborts EXCEPT ![a].pc = "done"]
  /\ aborting' = FALSE /\ Drains(drv, 0, followUps, suppressed)
  /\ UNCHANGED <<steering, sent, back, bailed, suppressed, tailOk, generation, flushes, overtaken>>

-----------------------------------------------------------------------------
Next ==
  \/ \E m \in Users, as \in {"prompting", "queueing"} : Takes(m, as)
  \/ \E m \in Users : Prompt(m) \/ Queue(m, "steer") \/ Queue(m, "followUp")
  \/ \E m \in Peers : Arrives(m)
  \/ TakeBack \/ Remark \/ FlushIdle
  \/ \E m \in Users : SetupEnds(m) \/ Retries(m)
  \/ \E c \in Conts : Continues(c)
  \/ \E d \in Drivers : Ends(d)
  \/ Polls \/ PollsInVain \/ RunEnds
  \/ \E a \in Aborts : (\E u \in BOOLEAN : Abort(a, u)) \/ AbortDrained(a) \/ AbortEnds(a)

Spec == Init /\ [][Next]_vars

-----------------------------------------------------------------------------
Live(d) == drv[d].pc # "off"
Counts(d) == drv[d].pc \notin {"off", "prompting", "queueing"}
Parked == UNION {drv[w].parked : w \in Wakes}
\* Nothing is under way any more.
Idle ==
  /\ run.at = "idle" /\ \A d \in Drivers : ~Live(d)
  /\ \A a \in Aborts : aborts[a].pc \in {"none", "done"}

TypeOK ==
  /\ steering \subseteq Users /\ followUps \subseteq Users /\ asides \subseteq Peers
  /\ sent \subseteq Users \cup Peers /\ seen \subseteq sent
  /\ back \subseteq Users /\ bailed \subseteq Users /\ overtaken \subseteq Users
  /\ suppressed \in BOOLEAN /\ tailOk \in BOOLEAN /\ aborting \in BOOLEAN
  /\ generation \in 0 .. Cardinality(Aborts) /\ flushes \in 0 .. MaxFlushes
  /\ run \in [at : {"idle", "loop", "tail"}, by : Drivers, aborted : BOOLEAN, own : BOOLEAN]
  /\ drv \in [Drivers ->
       [pc : {"off", "prompting", "queueing", "setup", "waiting", "retrying", "running",
              "recovering", "ending"},
        gen : 0 .. Cardinality(Aborts), parked : SUBSET Users]]
  /\ aborts \in [Aborts -> [pc : {"none", "draining", "idling", "resetting", "done"},
                           tasks : SUBSET Tasks]]
  /\ count \in 0 .. Cardinality({d \in Drivers \ {Flush} : Counts(d)})

\* A message is in one place until it is dealt with, whatever runs, wakes that
\* park follow-ups, aborts and the user do with the queues at the same time.
InSetup == {m \in Users : drv[m].pc \in {"prompting", "queueing", "setup", "waiting", "retrying"}}
Places(m) ==
  Cardinality({i \in 1 .. 8 : m \in CASE i = 1 -> steering [] i = 2 -> followUps [] i = 3 -> asides
                                      [] i = 4 -> Parked [] i = 5 -> InSetup [] i = 6 -> seen
                                      [] i = 7 -> back [] i = 8 -> bailed})
MessagesKept == \A m \in Users \cup Peers : Places(m) = IF m \in sent THEN 1 ELSE 0

\* When everything has settled, nothing is left that should have driven a run,
\* however the last run ended, whoever was aborted and however the count of
\* prompts in flight was reset under those still unwinding.  Left may be
\* follow-ups the user's interrupt holds, or that cannot follow what ends the
\* transcript; and what came at the tail of an idle flush, which nobody counts.
NothingStranded ==
  Idle /\ run.by # Flush =>
    steering = {} /\ asides = {} /\ (followUps = {} \/ suppressed \/ ~tailOk)

\* A run that neither a message of the user nor an idle flush drives starts
\* without the follow-ups an interrupt left in the queue, and where it will not
\* take them either: they are parked, or steering messages come first.  Those
\* the interrupt overtook, still on their way into the queue, it may take.
HeldAtStart ==
  [][run.at = "idle" /\ run'.at = "loop" /\ run'.by # Flush /\ suppressed' =>
       \/ run'.own
       \/ /\ followUps \cap seen' \subseteq overtaken
          /\ followUps' \subseteq overtaken \/ steering' # {}]_vars
=============================================================================
