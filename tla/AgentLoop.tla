----------------------------- MODULE AgentLoop -----------------------------
(***************************************************************************)
(* The agent's run loop: packages/agent/src/agent.ts (class Agent: the     *)
(* steering and follow-up queues, prompt, continue, abort) and             *)
(* runLoopBody of packages/agent/src/agent-loop.ts, which alternates model *)
(* calls and tool batches until nothing is left to do.                     *)
(*                                                                         *)
(* JavaScript runs one thing at a time, so a step of the loop is the code  *)
(* between two awaits; the user, the host and the clock act in between.    *)
(* The provider's reply and the outcome of a tool batch are                *)
(* nondeterministic (ToolBatch.tla opens the batch).  `messages' is        *)
(* Agent.state.messages and `context' the array the loop sends to the      *)
(* model: both are fed by the same code but are not always equal.          *)
(***************************************************************************)
EXTENDS Integers, Sequences, FiniteSets

CONSTANTS
  Msgs,               \* user messages; each is sent at most once
  AsideMsgs,          \* messages of the session's aside provider
  Tools,              \* names of the active tools
  RequiredTool,       \* the tool every soft requirement asks for (session: "resolve")
  SoftIds,            \* ids of soft requirements (previews waiting for it)
  HardChoices,        \* forced tool choices the host queues; each is pushed once
  SteeringMode,       \* "all" or "one-at-a-time"
  FollowUpMode,
  Deadline,           \* does the agent have a deadline?
  Leaks,              \* is the model one whose Harmony leaks are mitigated?
  HostClears,         \* may the host drop a soft requirement, or its tool, mid-run?
  MaxSoftEscalations, \* 3 in the code
  MaxPausedTurns,     \* 8 in the code
  MaxHarmony,         \* 2 in the code, for retries and for resumes
  MaxCalls,           \* bound: from this model call on the provider only ends its turn
  None

Modes == {"all", "one-at-a-time"}

ASSUME AgentLoopAssumption ==
  /\ RequiredTool \in Tools
  /\ SteeringMode \in Modes /\ FollowUpMode \in Modes
  /\ Deadline \in BOOLEAN /\ Leaks \in BOOLEAN /\ HostClears \in BOOLEAN
  /\ MaxSoftEscalations \in Nat /\ MaxPausedTurns \in Nat
  /\ MaxHarmony \in Nat /\ MaxCalls \in Nat
  /\ Msgs \cap AsideMsgs = {}
  /\ None \notin Msgs \cup AsideMsgs \cup Tools \cup SoftIds \cup HardChoices

VARIABLES
  messages,  \* Agent.state.messages
  context,   \* currentContext.messages of the run
  steering,  \* Agent.#steeringQueue
  followUp,  \* Agent.#followUpQueue
  asides,    \* what the aside provider would return
  hardQueue, \* the host's forced tool choices, oldest first
  soft,      \* the host's pending soft requirement, or None
  pc,        \* where the loop is awaiting
  loop,      \* the local variables of runLoopBody
  aborted,   \* the run's signal: external abort or the deadline timer
  late,      \* isDeadlineExceeded
  step,      \* stepCounter: model calls made
  outcome,   \* how the last run ended
  sent,      \* history: every message and aside ever handed to the agent
  removed,   \* history: queued messages the user took back
  used       \* history: soft ids and hard choices the host has issued

queues == <<steering, followUp, asides>>
host   == <<hardQueue, soft, used>>
vars   == <<messages, context, steering, followUp, asides, hardQueue, soft, pc,
            loop, aborted, late, step, outcome, sent, removed, used>>

Stops == {"toolUse", "stop", "pause", "length", "error", "aborted", "discarded"}
Pcs   == {"idle", "start", "turn", "directive", "call", "stream", "tools",
          "turnEnd", "asides", "yield", "drain", "drainAsides", "drainFollowUps"}

Outcomes == {"none", "running", "done", "deadline", "error", "aborted", "failed"}

(* One entry of a message array.  A user entry carries its message; an     *)
(* assistant entry the tools it calls and the directives its request was   *)
(* made under; the results of one assistant message are one entry, which   *)
(* names the calls answered and those of them that really ran.             *)
Entry == [role: {"user", "reminder", "assistant", "results"},
          msg: Msgs \cup AsideMsgs \cup {None}, step: Nat,
          calls: SUBSET Tools, ran: SUBSET Tools, stop: Stops \cup {None},
          required: Tools \cup {None}, forced: Tools \cup {None},
          choice: HardChoices \cup {None}]

Blank == [role |-> "reminder", msg |-> None, step |-> 0, calls |-> {}, ran |-> {},
          stop |-> None, required |-> None, forced |-> None, choice |-> None]

User(m) == [Blank EXCEPT !.role = "user", !.msg = m]
Users(ms) == [i \in DOMAIN ms |-> User(ms[i])]

(* effectiveToolChoice: the host's hard choice, else the escalation's.     *)
Assistant(calls, stop) ==
  [Blank EXCEPT !.role = "assistant", !.step = step, !.calls = calls, !.stop = stop,
                !.required = loop.required, !.choice = loop.hostChoice,
                !.forced = IF loop.hostChoice = None THEN loop.forced ELSE None]

Results(calls, ran) ==
  IF calls = {} THEN <<>>
  ELSE <<[Blank EXCEPT !.role = "results", !.step = step, !.calls = calls, !.ran = ran,
                       !.required = loop.required]>>

Loop == [pending: Seq(Msgs \cup AsideMsgs), hasMore: BOOLEAN, skipPoll: BOOLEAN,
         softId: SoftIds \cup {None}, required: Tools \cup {None},
         forced: Tools \cup {None}, hostChoice: HardChoices \cup {None},
         resolved: BOOLEAN, escalations: 0..MaxSoftEscalations,
         pauses: 0..MaxPausedTurns, retries: 0..MaxHarmony, resumes: 0..MaxHarmony]

FreshLoop == [pending |-> <<>>, hasMore |-> TRUE, skipPoll |-> FALSE, softId |-> None,
              required |-> None, forced |-> None, hostChoice |-> None,
              resolved |-> FALSE, escalations |-> 0, pauses |-> 0, retries |-> 0,
              resumes |-> 0]

Init ==
  /\ messages = <<>> /\ context = <<>>
  /\ steering = <<>> /\ followUp = <<>> /\ asides = <<>>
  /\ hardQueue = <<>> /\ soft = None
  /\ pc = "idle" /\ loop = FreshLoop
  /\ aborted = FALSE /\ late = FALSE /\ step = 0 /\ outcome = "none"
  /\ sent = {} /\ removed = {} /\ used = {}

-----------------------------------------------------------------------------
(* Dequeuing, in either mode.                                              *)

Dequeued(q, mode)  == IF mode = "all" \/ q = <<>> THEN q ELSE <<Head(q)>>

(* Mutants: the queue is emptied in either mode, or only looked at.        *)
RemainingNothing(q, mode) == <<>>
RemainingPeeked(q, mode)  == IF mode = "all" THEN <<>> ELSE q

Remaining(q, mode) == IF mode = "all" \/ q = <<>> THEN <<>> ELSE Tail(q)

(* Starting and ending a run.                                              *)

Launch(prompts, skipPoll) ==
  /\ messages' = messages \o prompts
  /\ context' = messages \o prompts
  /\ pc' = "start"
  /\ loop' = [FreshLoop EXCEPT !.skipPoll = skipPoll]
  /\ aborted' = late
  /\ outcome' = "running"

EndRun(how) ==
  /\ pc' = "idle" /\ loop' = FreshLoop /\ aborted' = FALSE /\ outcome' = how

(* A throw reaches Agent.#runLoop's catch, which appends an empty message. *)
FailRun(before) ==
  /\ messages' = messages \o (before \o <<Assistant({}, "error")>>)
  /\ EndRun("failed")

Prompt(m) ==
  /\ pc = "idle" /\ m \notin sent
  /\ sent' = sent \cup {m}
  /\ Launch(<<User(m)>>, FALSE)
  /\ UNCHANGED <<queues, host, late, step, removed>>

Continue ==
  /\ pc = "idle" /\ messages # <<>> /\ step < MaxCalls
  /\ \/ /\ messages[Len(messages)].role # "assistant"
        /\ Launch(<<>>, FALSE)
        /\ UNCHANGED queues
     \/ /\ messages[Len(messages)].role = "assistant" /\ steering # <<>>
        /\ Launch(Users(Dequeued(steering, SteeringMode)), TRUE)
        /\ steering' = Remaining(steering, SteeringMode)
        /\ UNCHANGED <<followUp, asides>>
     \/ /\ messages[Len(messages)].role = "assistant" /\ steering = <<>> /\ followUp # <<>>
        /\ Launch(Users(Dequeued(followUp, FollowUpMode)), FALSE)
        /\ followUp' = Remaining(followUp, FollowUpMode)
        /\ UNCHANGED <<steering, asides>>
  /\ UNCHANGED <<host, late, step, sent, removed>>

-----------------------------------------------------------------------------
(* The loop, one action per stretch between awaits.                        *)

(* The poll before the first turn; a run that is already aborted leaves    *)
(* the queue alone, and one whose prompts came off it skips this poll.     *)
RunStart ==
  /\ pc = "start"
  /\ IF late THEN EndRun("deadline") /\ UNCHANGED steering
     ELSE /\ pc' = "turn"
          /\ IF aborted \/ loop.skipPoll
             THEN /\ loop' = [loop EXCEPT !.skipPoll = aborted /\ loop.skipPoll]
                  /\ UNCHANGED steering
             ELSE /\ loop' = [loop EXCEPT !.pending = Dequeued(steering, SteeringMode)]
                  /\ steering' = Remaining(steering, SteeringMode)
          /\ UNCHANGED <<aborted, outcome>>
  /\ UNCHANGED <<messages, context, followUp, asides, host, late, step, sent, removed>>

TurnTop ==
  /\ pc = "turn"
  /\ IF late THEN EndRun("deadline") /\ UNCHANGED <<messages, context>>
     ELSE /\ messages' = messages \o Users(loop.pending)
          /\ context' = context \o Users(loop.pending)
          /\ loop' = [loop EXCEPT !.pending = <<>>]
          /\ pc' = "directive"
          /\ UNCHANGED <<aborted, outcome>>
  /\ UNCHANGED <<queues, host, late, step, sent, removed>>

(* The directive is fetched once per logical turn: a retry after a leak    *)
(* finds it resolved.  Fetching a hard choice consumes it.                 *)
TakesHard == ~aborted /\ hardQueue # <<>>
AsksSoft  == ~aborted /\ hardQueue = <<>> /\ soft # None
AsksAnew  == AsksSoft /\ soft # loop.softId
Reminder  == IF AsksAnew THEN <<Blank>> ELSE <<>>

ResolveDirective ==
  /\ pc = "directive" /\ pc' = "call"
  /\ \/ loop.resolved /\ UNCHANGED <<loop, hardQueue, messages, context>>
     \/ /\ ~loop.resolved
        /\ loop' = [loop EXCEPT
             !.resolved = TRUE,
             !.hostChoice = IF TakesHard THEN Head(hardQueue) ELSE None,
             !.required = IF AsksSoft THEN RequiredTool ELSE None,
             !.softId = IF AsksSoft THEN soft ELSE None,
             !.escalations = IF AsksSoft /\ ~AsksAnew THEN @ ELSE 0]
        /\ hardQueue' = IF TakesHard THEN Tail(hardQueue) ELSE hardQueue
        /\ messages' = messages \o Reminder
        /\ context' = context \o Reminder
  /\ UNCHANGED <<queues, soft, used, aborted, late, step, outcome, sent, removed>>

(* The request.  A signal that has already fired yields an empty aborted   *)
(* message without waiting for the provider.                               *)
CallModel ==
  /\ pc = "call" /\ step' = step + 1
  /\ IF aborted
     THEN /\ messages' = Append(messages, Assistant({}, "aborted"))
          /\ context' = Append(context, Assistant({}, "aborted"))
          /\ EndRun("aborted")
     ELSE pc' = "stream" /\ UNCHANGED <<messages, context, loop, aborted, outcome>>
  /\ UNCHANGED <<queues, host, late, sent, removed>>

(* Mutant: the calls of an error reply keep no results.                    *)
ReplyEndsUnpaired(calls, stop) ==
  /\ messages' = Append(messages, Assistant(calls, stop))
  /\ context' = Append(context, Assistant(calls, stop))
  /\ EndRun(stop)

(* The reply ended the run: the complete calls it carries get placeholder  *)
(* results, in both arrays.                                                *)
ReplyEnds(calls, stop) ==
  LET new == <<Assistant(calls, stop)>> \o Results(calls, {}) IN
  /\ messages' = messages \o new
  /\ context' = context \o new
  /\ EndRun(stop)

ProviderError(calls) ==
  /\ pc = "stream" /\ ReplyEnds(calls, "error")
  /\ UNCHANGED <<queues, host, late, step, sent, removed>>

AbortReply(calls) ==
  /\ pc = "stream" /\ aborted /\ ReplyEnds(calls, "aborted")
  /\ UNCHANGED <<queues, host, late, step, sent, removed>>

ProviderThrows ==
  /\ pc = "stream" /\ FailRun(<<>>)
  /\ UNCHANGED <<context, queues, host, late, step, sent, removed>>

(* Mutant: a reply that calls the required tool among others is accepted.  *)
DeclinedIfAbsent(calls, lp) == lp.required # None /\ lp.required \notin calls

(* A reply declines the soft requirement unless it calls that tool alone.  *)
Declined(calls, lp) == lp.required # None /\ calls # {lp.required}

(* A reply without calls that only paused is sampled again.                *)
Resamples(stop, lp) == stop = "pause" /\ lp.pauses < MaxPausedTurns

(* Mutant: the turn's directive outlives the turn.                         *)
SettledKeepingDirective(calls, lp) ==
  [lp EXCEPT !.forced = None, !.pauses = IF calls # {} THEN 0 ELSE @]

(* The locals once the turn has its message: its directive is used up.     *)
Settled(calls, lp) ==
  [lp EXCEPT !.forced = None, !.resolved = FALSE, !.pauses = IF calls # {} THEN 0 ELSE @]

(* What the loop makes of a message that did not end the run.  `discarded' *)
(* is what only the agent's array keeps of the attempt, `lp' the locals.   *)
Extend(discarded, new) ==
  /\ messages' = messages \o (discarded \o new)
  /\ context' = context \o new
  /\ UNCHANGED <<aborted, outcome>>

Unanswered(calls, stop) == <<Assistant(calls, stop)>> \o Results(calls, {})

DeclinedTooOften(calls, stop, discarded, lp) ==
  /\ Declined(calls, lp) /\ lp.escalations >= MaxSoftEscalations
  /\ FailRun(discarded \o <<Assistant(calls, stop)>>)
  /\ context' = Append(context, Assistant(calls, stop))

Escalates(calls, stop, discarded, lp) ==
  /\ Declined(calls, lp) /\ lp.escalations < MaxSoftEscalations
  /\ Extend(discarded, Unanswered(calls, stop))
  /\ loop' = [Settled(calls, lp) EXCEPT !.forced = lp.required, !.escalations = @ + 1,
                                        !.hasMore = TRUE]
  /\ pc' = "turnEnd"

RunsTools(calls, stop, discarded, lp) ==
  /\ ~Declined(calls, lp) /\ calls # {}
  /\ stop \in {"toolUse", "stop", "pause"} /\ ~late
  /\ Extend(discarded, <<Assistant(calls, stop)>>)
  /\ loop' = [Settled(calls, lp) EXCEPT !.hasMore = TRUE]
  /\ pc' = "tools"

(* A truncated message, or one that came too late: its calls do not run.   *)
SkipsTools(calls, stop, discarded, lp) ==
  /\ ~Declined(calls, lp) /\ calls # {}
  /\ stop = "length" \/ late
  /\ Extend(discarded, Unanswered(calls, stop))
  /\ loop' = [Settled(calls, lp) EXCEPT !.hasMore = stop = "length" /\ ~late]
  /\ pc' = "turnEnd"

Answers(calls, stop, discarded, lp) ==
  /\ ~Declined(calls, lp) /\ calls = {}
  /\ Extend(discarded, <<Assistant(calls, stop)>>)
  /\ loop' = [Settled(calls, lp) EXCEPT !.hasMore = Resamples(stop, lp),
                                        !.pauses = IF Resamples(stop, lp) THEN @ + 1 ELSE @]
  /\ pc' = "turnEnd"

Settle(calls, stop, discarded, lp) ==
  \/ DeclinedTooOften(calls, stop, discarded, lp)
  \/ Escalates(calls, stop, discarded, lp)
  \/ RunsTools(calls, stop, discarded, lp)
  \/ SkipsTools(calls, stop, discarded, lp)
  \/ Answers(calls, stop, discarded, lp)

Reply(calls, stop) ==
  /\ pc = "stream"
  /\ stop \in {"toolUse", "stop", "pause", "length"}
  /\ stop = "toolUse" => calls # {}
  /\ step >= MaxCalls => stop \in {"stop", "pause"} /\ calls = {}
  /\ Settle(calls, stop, <<>>, [loop EXCEPT !.retries = 0, !.resumes = 0])
  /\ UNCHANGED <<queues, host, late, step, sent, removed>>

(* A leak is found in the finished message.  Its streamed partial is taken *)
(* out of the context, but its message_end has been emitted.               *)
Discarded(calls) == {<<>>, <<Assistant(calls, "discarded")>>}

LeakRetry(calls) ==
  /\ pc = "stream" /\ Leaks /\ loop.retries < MaxHarmony
  /\ \E d \in Discarded(calls) : messages' = messages \o d
  /\ loop' = [loop EXCEPT !.retries = @ + 1]
  /\ pc' = IF loop.hasMore THEN "turn" ELSE "yield"
  /\ UNCHANGED <<context, queues, host, aborted, late, step, outcome, sent, removed>>

LeakRecovered(calls) ==
  /\ pc = "stream" /\ Leaks /\ step < MaxCalls /\ calls # {} /\ loop.resumes < MaxHarmony
  /\ \E d \in Discarded(calls) :
       Settle(calls, "toolUse", d, [loop EXCEPT !.retries = 0, !.resumes = @ + 1])
  /\ UNCHANGED <<queues, host, late, step, sent, removed>>

LeakGiveUp(calls) ==
  /\ pc = "stream" /\ Leaks
  /\ loop.retries >= MaxHarmony \/ loop.resumes >= MaxHarmony
  /\ \E d \in Discarded(calls) : FailRun(d)
  /\ UNCHANGED <<context, queues, host, late, step, sent, removed>>

(* The batch is over: every call of the turn has a result.  Running the    *)
(* required tool settles the pending preview; running others may queue one.*)
ToolsDone(ran) ==
  /\ pc = "tools" /\ pc' = "turnEnd"
  /\ LET calls == context[Len(context)].calls IN
       /\ ran \subseteq calls
       /\ messages' = messages \o Results(calls, ran)
       /\ context' = context \o Results(calls, ran)
  /\ \/ RequiredTool \notin ran /\ UNCHANGED <<soft, used>>
     \/ RequiredTool \in ran /\ soft' = None /\ UNCHANGED used
     \/ /\ RequiredTool \in ran \/ (ran # {} /\ soft = None)
        /\ \E id \in SoftIds \ used : soft' = id /\ used' = used \cup {id}
  /\ UNCHANGED <<queues, hardQueue, loop, aborted, late, step, outcome, sent, removed>>

(* Mutant: the results of the turn's tools are not sent back.              *)
AfterTurnYields(got) == IF got # <<>> THEN "turn" ELSE "yield"

(* The inner loop goes on while tools ran or messages are pending.         *)
AfterTurn(got) == IF loop.hasMore THEN "asides" ELSE IF got # <<>> THEN "turn" ELSE "yield"

(* After onTurnEnd: an aborted run leaves the steering queue intact.       *)
TurnEnd ==
  /\ pc = "turnEnd"
  /\ IF late THEN EndRun("deadline") /\ UNCHANGED steering
     ELSE LET got == IF aborted THEN <<>> ELSE Dequeued(steering, SteeringMode) IN
          /\ steering' = IF aborted THEN steering ELSE Remaining(steering, SteeringMode)
          /\ loop' = [loop EXCEPT !.pending = got]
          /\ pc' = AfterTurn(got)
          /\ UNCHANGED <<aborted, outcome>>
  /\ UNCHANGED <<messages, context, followUp, asides, host, late, step, sent, removed>>

(* Mutant: asides are taken by an aborted run too.                         *)
TakeAsidesAlways ==
  /\ loop' = [loop EXCEPT !.pending = @ \o asides]
  /\ asides' = <<>>

TakeAsides ==
  /\ loop' = [loop EXCEPT !.pending = IF aborted THEN @ ELSE @ \o asides]
  /\ asides' = IF aborted THEN asides ELSE <<>>

PollAsides ==
  /\ pc = "asides" /\ pc' = "turn" /\ TakeAsides
  /\ UNCHANGED <<messages, context, steering, followUp, host, aborted, late, step,
                 outcome, sent, removed>>

BeforeYield ==
  /\ pc = "yield"
  /\ IF late THEN EndRun("deadline") ELSE pc' = "drain" /\ UNCHANGED <<loop, aborted, outcome>>
  /\ UNCHANGED <<messages, context, queues, host, late, step, sent, removed>>

DrainSteering ==
  /\ pc = "drain"
  /\ IF late THEN EndRun("deadline") /\ UNCHANGED steering
     ELSE /\ pc' = "drainAsides"
          /\ loop' = [loop EXCEPT !.pending = IF aborted THEN <<>>
                                              ELSE Dequeued(steering, SteeringMode)]
          /\ steering' = IF aborted THEN steering ELSE Remaining(steering, SteeringMode)
          /\ UNCHANGED <<aborted, outcome>>
  /\ UNCHANGED <<messages, context, followUp, asides, host, late, step, sent, removed>>

DrainAsides ==
  /\ pc = "drainAsides" /\ pc' = "drainFollowUps" /\ TakeAsides
  /\ UNCHANGED <<messages, context, steering, followUp, host, aborted, late, step,
                 outcome, sent, removed>>

(* Mutant: with nothing left, the outer loop is not left.                  *)
DrainFollowUpsForever ==
  /\ pc = "drainFollowUps"
  /\ LET got == IF aborted THEN <<>> ELSE Dequeued(followUp, FollowUpMode)
         all == loop.pending \o got
     IN /\ followUp' = IF aborted THEN followUp ELSE Remaining(followUp, FollowUpMode)
        /\ pc' = IF all = <<>> THEN "yield" ELSE "turn"
        /\ loop' = [loop EXCEPT !.pending = all, !.hasMore = all # <<>>]
  /\ UNCHANGED <<messages, context, steering, asides, host, aborted, late, step, outcome,
                 sent, removed>>

DrainFollowUps ==
  /\ pc = "drainFollowUps"
  /\ LET got == IF aborted THEN <<>> ELSE Dequeued(followUp, FollowUpMode)
         all == loop.pending \o got
     IN /\ followUp' = IF aborted THEN followUp ELSE Remaining(followUp, FollowUpMode)
        /\ IF all = <<>> THEN EndRun("done")
           ELSE /\ pc' = "turn"
                /\ loop' = [loop EXCEPT !.pending = all, !.hasMore = TRUE]
                /\ UNCHANGED <<aborted, outcome>>
  /\ UNCHANGED <<messages, context, steering, asides, host, late, step, sent, removed>>

-----------------------------------------------------------------------------
(* The user, the host and the clock.                                       *)

run == <<messages, context, pc, loop, step, outcome>>

Steer(m) ==
  /\ m \notin sent /\ sent' = sent \cup {m}
  /\ steering' = Append(steering, m)
  /\ UNCHANGED <<run, followUp, asides, host, aborted, late, removed>>

FollowUp(m) ==
  /\ m \notin sent /\ sent' = sent \cup {m}
  /\ followUp' = Append(followUp, m)
  /\ UNCHANGED <<run, steering, asides, host, aborted, late, removed>>

Aside(a) ==
  /\ a \notin sent /\ sent' = sent \cup {a}
  /\ asides' = Append(asides, a)
  /\ UNCHANGED <<run, steering, followUp, host, aborted, late, removed>>

PopLastSteer ==
  /\ steering # <<>>
  /\ removed' = removed \cup {steering[Len(steering)]}
  /\ steering' = SubSeq(steering, 1, Len(steering) - 1)
  /\ UNCHANGED <<run, followUp, asides, host, aborted, late, sent>>

PopLastFollowUp ==
  /\ followUp # <<>>
  /\ removed' = removed \cup {followUp[Len(followUp)]}
  /\ followUp' = SubSeq(followUp, 1, Len(followUp) - 1)
  /\ UNCHANGED <<run, steering, asides, host, aborted, late, sent>>

Abort ==
  /\ pc # "idle" /\ ~aborted /\ aborted' = TRUE
  /\ UNCHANGED <<run, queues, host, late, sent, removed>>

PushHard(h) ==
  /\ h \notin used /\ used' = used \cup {h}
  /\ hardQueue' = Append(hardQueue, h)
  /\ UNCHANGED <<run, queues, soft, aborted, late, sent, removed>>

ClearSoft ==
  /\ HostClears /\ soft # None /\ soft' = None
  /\ UNCHANGED <<run, queues, hardQueue, used, aborted, late, sent, removed>>

DeadlinePasses ==
  /\ Deadline /\ ~late /\ late' = TRUE
  /\ UNCHANGED <<run, queues, host, aborted, sent, removed>>

DeadlineTimer ==
  /\ late /\ pc # "idle" /\ ~aborted /\ aborted' = TRUE
  /\ UNCHANGED <<run, queues, host, late, sent, removed>>

-----------------------------------------------------------------------------

LoopStep ==
  \/ RunStart \/ TurnTop \/ ResolveDirective \/ CallModel \/ ProviderThrows
  \/ \E calls \in SUBSET Tools :
       \/ ProviderError(calls) \/ AbortReply(calls)
       \/ \E stop \in Stops : Reply(calls, stop)
       \/ LeakRetry(calls) \/ LeakRecovered(calls) \/ LeakGiveUp(calls)
       \/ ToolsDone(calls)
  \/ TurnEnd \/ PollAsides \/ BeforeYield \/ DrainSteering \/ DrainAsides
  \/ DrainFollowUps

UserStep ==
  \/ \E m \in Msgs : Prompt(m) \/ Steer(m) \/ FollowUp(m)
  \/ Continue \/ PopLastSteer \/ PopLastFollowUp \/ Abort

HostStep ==
  \/ \E a \in AsideMsgs : Aside(a)
  \/ \E h \in HardChoices : PushHard(h)
  \/ ClearSoft \/ DeadlinePasses \/ DeadlineTimer

Next == LoopStep \/ UserStep \/ HostStep

(* The loop keeps running: the provider answers and tools return, which    *)
(* the code bounds with its request and tool timeouts.  Users and the host *)
(* owe nothing.                                                            *)
Spec == Init /\ [][Next]_vars /\ WF_vars(LoopStep)
-----------------------------------------------------------------------------

TypeOK ==
  /\ messages \in Seq(Entry) /\ context \in Seq(Entry)
  /\ steering \in Seq(Msgs) /\ followUp \in Seq(Msgs) /\ asides \in Seq(AsideMsgs)
  /\ hardQueue \in Seq(HardChoices) /\ soft \in SoftIds \cup {None}
  /\ pc \in Pcs /\ loop \in Loop
  /\ aborted \in BOOLEAN /\ late \in BOOLEAN /\ step \in Nat
  /\ outcome \in Outcomes
  /\ sent \subseteq Msgs \cup AsideMsgs /\ removed \subseteq Msgs
  /\ used \subseteq SoftIds \cup HardChoices

Elements(q) == {q[i] : i \in DOMAIN q}
Delivered   == {messages[i].msg : i \in DOMAIN messages} \ {None}

(* Every tool call of an assistant message is answered right after it, and *)
(* every result answers the assistant message right before it.             *)
Paired(ms) ==
  /\ \A i \in DOMAIN ms : ms[i].role = "assistant" /\ ms[i].calls # {} =>
       /\ i < Len(ms) /\ ms[i + 1].role = "results"
       /\ ms[i + 1].step = ms[i].step /\ ms[i + 1].calls = ms[i].calls
  /\ \A i \in DOMAIN ms : ms[i].role = "results" =>
       i > 1 /\ ms[i - 1].role = "assistant" /\ ms[i - 1].calls = ms[i].calls

(* The context is never sent to the model with an unanswered tool call or  *)
(* an orphaned result, whatever aborts, errors, truncations and deadlines  *)
(* cut the earlier turns short (agent-loop.ts, createAbortedToolResult).   *)
ToolResultsPaired == pc \in {"call", "stream"} => Paired(context)

(* Nothing handed to the agent is lost or doubled: each message is in one  *)
(* queue, pending in the run, in the transcript, or taken back by the user.*)
NothingLost ==
  sent = Elements(steering) \cup Elements(followUp) \cup Elements(asides)
         \cup Elements(loop.pending) \cup Delivered \cup removed

AtMostOnce ==
  LET places == messages \o Users(loop.pending \o steering \o followUp \o asides)
  IN \A i, j \in DOMAIN places :
       places[i].role = "user" /\ places[j].role = "user" /\ places[i].msg = places[j].msg
         => i = j

(* A detour never runs while a soft requirement is pending: a batch that   *)
(* executed anything under one called the required tool and nothing else.  *)
DetourNeverRuns ==
  \A i \in DOMAIN messages :
    messages[i].role = "results" /\ messages[i].ran # {} /\ messages[i].required # None
      => messages[i].calls = {messages[i].required}

(* A run that ended because there was nothing left to do ended on an       *)
(* answer: no user message is the last thing in the conversation.          *)
RunEndsAnswered ==
  pc = "idle" /\ outcome = "done" => messages[Len(messages)].role = "assistant"

(* A hard tool choice taken from the host is used by one logical turn: the *)
(* messages sampled under it are one, besides discarded attempts.          *)
HardChoiceOneTurn ==
  LET kept == {i \in DOMAIN messages :
                messages[i].choice # None /\ messages[i].stop # "discarded"}
  IN \A i, j \in kept : messages[i].choice = messages[j].choice => i = j

(* Once the run is aborted it takes nothing more from the queues: they are *)
(* left for the run the session starts next.                               *)
QueuesKeptOnAbort ==
  [][aborted /\ LoopStep => UNCHANGED queues]_vars

(* Every run ends, however often the model pauses, leaks or declines.      *)
RunsEnd == pc # "idle" ~> pc = "idle"
=============================================================================
