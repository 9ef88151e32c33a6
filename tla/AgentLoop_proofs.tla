-------------------------- MODULE AgentLoop_proofs --------------------------
(***************************************************************************)
(* Proofs about AgentLoop, for every set of messages, tools, requirements  *)
(* and choices, in both queue modes and for every bound.                   *)
(***************************************************************************)
EXTENDS AgentLoop, TLAPS

Posts == Msgs \cup AsideMsgs

(* What the queue helpers return is again a queue.                         *)
LEMMA QueueTyped ==
  ASSUME NEW S, NEW q \in Seq(S), NEW mode
  PROVE  Dequeued(q, mode) \in Seq(S) /\ Remaining(q, mode) \in Seq(S)
  BY DEF Dequeued, Remaining

(* A message put into the transcript is an entry that carries it.          *)
LEMMA UserTyped ==
  ASSUME NEW x \in Posts
  PROVE  User(x) \in Entry /\ User(x).msg = x
  BY DEF User, Blank, Entry, Posts

LEMMA BlankTyped == Blank \in Entry /\ Blank.msg = None
  BY DEF Blank, Entry

LEMMA UsersTyped ==
  ASSUME NEW ms \in Seq(Posts)
  PROVE  /\ Users(ms) \in Seq(Entry) /\ Len(Users(ms)) = Len(ms)
         /\ \A i \in DOMAIN ms : Users(ms)[i].msg = ms[i]
<1>1. \A i \in DOMAIN ms : ms[i] \in Posts
  OBVIOUS
<1>2. Users(ms) \in [1..Len(ms) -> Entry]
  BY <1>1, UserTyped DEF Users
<1>3. Users(ms) \in Seq(Entry) /\ Len(Users(ms)) = Len(ms)
  BY <1>2
<1>4. \A i \in DOMAIN ms : Users(ms)[i].msg = ms[i]
  BY <1>1, UserTyped DEF Users
<1> QED BY <1>3, <1>4

(* The loop's own entries carry no message.                                *)
LEMMA ReplyTyped ==
  ASSUME loop \in Loop, step \in Nat, NEW calls \in SUBSET Tools, NEW stop \in Stops
  PROVE  Assistant(calls, stop) \in Entry /\ Assistant(calls, stop).msg = None
  BY DEF Assistant, Blank, Entry, Loop

LEMMA ResultsTyped ==
  ASSUME loop \in Loop, step \in Nat, NEW calls \in SUBSET Tools, NEW r \in SUBSET Tools
  PROVE  /\ Results(calls, r) \in Seq(Entry)
         /\ \A i \in DOMAIN Results(calls, r) : Results(calls, r)[i].msg = None
<1> DEFINE e == [Blank EXCEPT !.role = "results", !.step = step, !.calls = calls, !.ran = r,
                              !.required = loop.required]
<1>1. e \in Entry /\ e.msg = None
  BY DEF Blank, Entry, Loop
<1>2. Results(calls, r) = IF calls = {} THEN <<>> ELSE <<e>>
  BY DEF Results
<1> HIDE DEF e
<1> QED BY <1>1, <1>2

LEMMA FreshTyped == FreshLoop \in Loop /\ FreshLoop.pending = <<>>
  BY AgentLoopAssumption DEF FreshLoop, Loop

LEMMA SettledTyped ==
  ASSUME NEW lp \in Loop, NEW calls
  PROVE  Settled(calls, lp) \in Loop /\ Settled(calls, lp).pending = lp.pending
<1>1. 0 \in 0..MaxPausedTurns
  BY AgentLoopAssumption
<1> QED BY <1>1 DEF Settled, Loop

LEMMA BoundsTyped ==
  /\ 0 \in 0..MaxSoftEscalations /\ 0 \in 0..MaxPausedTurns /\ 0 \in 0..MaxHarmony
  /\ \A k \in 0..MaxSoftEscalations : k < MaxSoftEscalations => k + 1 \in 0..MaxSoftEscalations
  /\ \A k \in 0..MaxPausedTurns : k < MaxPausedTurns => k + 1 \in 0..MaxPausedTurns
  /\ \A k \in 0..MaxHarmony : k < MaxHarmony => k + 1 \in 0..MaxHarmony
  BY AgentLoopAssumption

LEMMA PendingTyped ==
  ASSUME NEW lp \in Loop, NEW p \in Seq(Posts)
  PROVE  [lp EXCEPT !.pending = p] \in Loop
  BY DEF Loop, Posts

LEMMA FlagsTyped ==
  ASSUME NEW lp \in Loop, NEW flag \in BOOLEAN
  PROVE  [lp EXCEPT !.hasMore = flag] \in Loop /\ [lp EXCEPT !.skipPoll = flag] \in Loop
  BY DEF Loop

LEMMA DirectiveTyped ==
  ASSUME NEW lp \in Loop, NEW choice \in HardChoices \cup {None}, NEW tool \in Tools \cup {None},
         NEW id \in SoftIds \cup {None}, NEW n \in 0..MaxSoftEscalations
  PROVE  [lp EXCEPT !.resolved = TRUE, !.hostChoice = choice, !.required = tool,
                    !.softId = id, !.escalations = n] \in Loop
  BY DEF Loop

(* A run starts with fresh locals on a transcript that is still typed.     *)
LEMMA LaunchTyped ==
  ASSUME TypeOK, NEW prompts \in Seq(Entry), NEW skip \in BOOLEAN, Launch(prompts, skip)
  PROVE  /\ messages' \in Seq(Entry) /\ context' \in Seq(Entry)
         /\ pc' \in Pcs /\ loop' \in Loop /\ aborted' \in BOOLEAN /\ outcome' \in Outcomes
<1>1. loop' \in Loop
  BY FreshTyped DEF Launch, Loop
<1> QED BY <1>1 DEF Launch, TypeOK, Pcs, Outcomes

LEMMA EndTyped ==
  ASSUME NEW how \in Outcomes, EndRun(how)
  PROVE  pc' \in Pcs /\ loop' \in Loop /\ aborted' \in BOOLEAN /\ outcome' \in Outcomes
  BY FreshTyped DEF EndRun, Pcs

LEMMA CatTyped ==
  ASSUME NEW S, NEW a \in Seq(S), NEW b \in Seq(S)
  PROVE  a \o b \in Seq(S)
  OBVIOUS

LEMMA FailTyped ==
  ASSUME TypeOK, NEW before \in Seq(Entry), FailRun(before)
  PROVE  /\ messages' \in Seq(Entry)
         /\ pc' \in Pcs /\ loop' \in Loop /\ aborted' \in BOOLEAN /\ outcome' \in Outcomes
<1>1. Assistant({}, "error") \in Entry
  BY ReplyTyped DEF TypeOK, Stops
<1>2. before \o <<Assistant({}, "error")>> \in Seq(Entry)
  BY <1>1, CatTyped
<1>3. messages' \in Seq(Entry)
  BY <1>2, CatTyped DEF FailRun, TypeOK
<1> QED BY <1>3, EndTyped DEF FailRun, Outcomes

LEMMA ExtendTyped ==
  ASSUME TypeOK, NEW discarded \in Seq(Entry), NEW new \in Seq(Entry), Extend(discarded, new)
  PROVE  /\ messages' \in Seq(Entry) /\ context' \in Seq(Entry)
         /\ aborted' \in BOOLEAN /\ outcome' \in Outcomes
<1>1. discarded \o new \in Seq(Entry)
  BY CatTyped
<1>2. messages \o (discarded \o new) \in Seq(Entry) /\ context \o new \in Seq(Entry)
  BY <1>1, CatTyped DEF TypeOK
<1> QED BY <1>2 DEF Extend, TypeOK

(* Whatever the loop makes of a reply, it keeps the types.                 *)
LEMMA SettleTyped ==
  ASSUME TypeOK, NEW calls \in SUBSET Tools, NEW stop \in Stops, NEW discarded \in Seq(Entry),
         NEW lp \in Loop, Settle(calls, stop, discarded, lp)
  PROVE  /\ messages' \in Seq(Entry) /\ context' \in Seq(Entry)
         /\ pc' \in Pcs /\ loop' \in Loop /\ aborted' \in BOOLEAN /\ outcome' \in Outcomes
<1>1. Assistant(calls, stop) \in Entry /\ Results(calls, {}) \in Seq(Entry)
  <2>1. {} \in SUBSET Tools
    OBVIOUS
  <2> QED BY <2>1, ReplyTyped, ResultsTyped DEF TypeOK
<1>2. <<Assistant(calls, stop)>> \in Seq(Entry)
  BY <1>1
<1>3. Unanswered(calls, stop) \in Seq(Entry)
  BY <1>1, <1>2, CatTyped DEF Unanswered
<1>4. Settled(calls, lp) \in Loop
  BY SettledTyped
<1>5. CASE DeclinedTooOften(calls, stop, discarded, lp)
  <2>1. discarded \o <<Assistant(calls, stop)>> \in Seq(Entry)
    BY <1>2, CatTyped
  <2>2. Append(context, Assistant(calls, stop)) \in Seq(Entry)
    BY <1>1 DEF TypeOK
  <2> QED BY <1>5, <2>1, <2>2, FailTyped DEF DeclinedTooOften
<1>6. CASE Escalates(calls, stop, discarded, lp)
  <2>1. Settled(calls, lp).escalations + 1 \in 0..MaxSoftEscalations
    BY <1>6, AgentLoopAssumption DEF Settled, Loop, Escalates
  <2>2. loop' \in Loop
    BY <1>4, <1>6, <2>1 DEF Loop, Escalates
  <2> QED BY <1>3, <1>6, <2>2, ExtendTyped DEF Pcs, Escalates
<1>7. CASE RunsTools(calls, stop, discarded, lp)
  <2>1. loop' \in Loop
    BY <1>4, <1>7 DEF Loop, RunsTools
  <2> QED BY <1>2, <1>7, <2>1, ExtendTyped DEF Pcs, RunsTools
<1>8. CASE SkipsTools(calls, stop, discarded, lp)
  <2>1. (stop = "length" /\ ~late) \in BOOLEAN
    OBVIOUS
  <2>2. loop' \in Loop
    <3>1. Settled(calls, lp) \in Loop /\ loop' = [Settled(calls, lp) EXCEPT
            !.hasMore = stop = "length" /\ ~late]
      BY <1>4, <1>8 DEF SkipsTools
    <3> QED BY <2>1, <3>1, FlagsTyped, Zenon
  <2> QED BY <1>3, <1>8, <2>2, ExtendTyped DEF Pcs, SkipsTools
<1>9. CASE Answers(calls, stop, discarded, lp)
  <2>1. loop' \in Loop
    <3>1. CASE Resamples(stop, lp)
      <4>1. Settled(calls, lp).pauses + 1 \in 0..MaxPausedTurns
        <5>1. calls = {} /\ lp.pauses < MaxPausedTurns /\ lp.pauses \in 0..MaxPausedTurns
          BY <1>9, <3>1 DEF Resamples, Answers, Loop
        <5>2. Settled(calls, lp).pauses = lp.pauses
          BY <5>1 DEF Settled, Loop
        <5> QED BY <5>1, <5>2, BoundsTyped
      <4>2. loop' = [Settled(calls, lp) EXCEPT !.hasMore = TRUE, !.pauses = @ + 1]
        BY <1>9, <3>1 DEF Answers
      <4> QED BY <1>4, <1>9, <4>1, <4>2 DEF Loop
    <3>2. CASE ~Resamples(stop, lp)
      <4>1. loop' = [Settled(calls, lp) EXCEPT !.hasMore = FALSE, !.pauses = @]
        BY <1>9, <3>2 DEF Answers, Resamples
      <4> QED BY <1>4, <1>9, <4>1 DEF Loop
    <3> QED BY <3>1, <3>2
  <2> QED BY <1>2, <1>9, <2>1, ExtendTyped DEF Pcs, Answers
<1> QED BY <1>5, <1>6, <1>7, <1>8, <1>9 DEF Settle

(* A batch runs the calls of the last message of the context, and only if  *)
(* that message does what a pending soft requirement asks.                 *)
Sampled ==
  pc = "tools" => context # <<>> /\ ~Declined(context[Len(context)].calls, loop)

(* Only a settled reply starts a batch.                                    *)
LEMMA RunsToolsSampled ==
  ASSUME TypeOK, NEW calls \in SUBSET Tools, NEW stop \in Stops, NEW discarded,
         NEW lp \in Loop, RunsTools(calls, stop, discarded, lp)
  PROVE  Sampled'
<1>1. Assistant(calls, stop) \in Entry /\ Assistant(calls, stop).calls = calls
  BY ReplyTyped DEF TypeOK, Assistant, Blank
<1>2. context' = context \o <<Assistant(calls, stop)>> /\ context \in Seq(Entry)
  BY DEF RunsTools, Extend, TypeOK
<1>3. context' # <<>> /\ context'[Len(context')] = Assistant(calls, stop)
  BY <1>1, <1>2
<1>4. loop'.required = lp.required
  BY DEF RunsTools, Settled, Loop
<1> QED BY <1>1, <1>3, <1>4 DEF RunsTools, Sampled, Declined

LEMMA SettleSampled ==
  ASSUME TypeOK, NEW calls \in SUBSET Tools, NEW stop \in Stops, NEW discarded,
         NEW lp \in Loop, Settle(calls, stop, discarded, lp)
  PROVE  Sampled'
<1>1. RunsTools(calls, stop, discarded, lp) \/ pc' # "tools"
  BY DEF Settle, DeclinedTooOften, Escalates, SkipsTools, Answers, FailRun, EndRun
<1> QED BY <1>1, RunsToolsSampled DEF Sampled

LEMMA SampledKept ==
  ASSUME TypeOK, Sampled, [Next]_vars
  PROVE  Sampled'
<1> USE DEF queues, host, run
<1>1. ASSUME NEW calls \in SUBSET Tools, NEW stop \in Stops, Reply(calls, stop)
      PROVE  Sampled'
  <2>1. [loop EXCEPT !.retries = 0, !.resumes = 0] \in Loop
    BY BoundsTyped DEF TypeOK, Loop
  <2> QED BY <1>1, <2>1, SettleSampled DEF Reply
<1>2. ASSUME NEW calls \in SUBSET Tools, LeakRecovered(calls) PROVE Sampled'
  <2>1. loop.resumes + 1 \in 0..MaxHarmony /\ 0 \in 0..MaxHarmony
    BY <1>2, BoundsTyped DEF LeakRecovered, TypeOK, Loop
  <2>2. [loop EXCEPT !.retries = 0, !.resumes = @ + 1] \in Loop
    BY <2>1 DEF TypeOK, Loop
  <2> QED BY <1>2, <2>2, SettleSampled DEF LeakRecovered, Stops
<1>3. ASSUME UNCHANGED <<pc, context, loop>> PROVE Sampled'
  BY <1>3 DEF Sampled
<1>4. ASSUME pc' # "tools" PROVE Sampled'
  BY <1>4 DEF Sampled
<1>5. ASSUME NEW calls \in SUBSET Tools,
             \/ ProviderError(calls) \/ AbortReply(calls) \/ LeakRetry(calls)
             \/ LeakGiveUp(calls) \/ ToolsDone(calls)
      PROVE  pc' # "tools"
  BY <1>5 DEF ProviderError, AbortReply, LeakRetry, LeakGiveUp, ToolsDone, ReplyEnds,
              FailRun, EndRun
<1>6. CASE \/ RunStart \/ TurnTop \/ ResolveDirective \/ CallModel \/ ProviderThrows
           \/ TurnEnd \/ PollAsides \/ BeforeYield \/ DrainSteering \/ DrainAsides
           \/ DrainFollowUps
  <2>1. pc' # "tools"
    BY <1>6 DEF RunStart, TurnTop, ResolveDirective, CallModel, ProviderThrows, TurnEnd,
                PollAsides, BeforeYield, DrainSteering, DrainAsides, DrainFollowUps,
                AfterTurn, FailRun, EndRun
  <2> QED BY <1>4, <2>1
<1>7. ASSUME NEW m \in Msgs, Prompt(m) PROVE pc' # "tools"
  BY <1>7 DEF Prompt, Launch
<1>8. CASE Continue
  BY <1>4, <1>8 DEF Continue, Launch
<1>9. ASSUME NEW m \in Msgs, Steer(m) \/ FollowUp(m) PROVE UNCHANGED <<pc, context, loop>>
  BY <1>9 DEF Steer, FollowUp
<1>10. CASE PopLastSteer \/ PopLastFollowUp \/ Abort \/ HostStep \/ UNCHANGED vars
  <2>1. UNCHANGED <<pc, context, loop>>
    BY <1>10 DEF PopLastSteer, PopLastFollowUp, Abort, HostStep, Aside, PushHard, ClearSoft,
                 DeadlinePasses, DeadlineTimer, vars
  <2> QED BY <1>3, <2>1
<1> QED BY <1>1, <1>2, <1>3, <1>4, <1>5, <1>6, <1>7, <1>8, <1>9, <1>10
        DEF Next, LoopStep, UserStep

(* What the code's types promise: queues of messages, transcripts of       *)
(* entries, and retry counters that never pass their caps.                 *)
THEOREM Typed == Spec => [](TypeOK /\ Sampled)
<1>1. Init => TypeOK
  <2> SUFFICES ASSUME Init PROVE TypeOK
    OBVIOUS
  <2>1. \A S : <<>> \in Seq(S)
    OBVIOUS
  <2> QED BY <2>1, FreshTyped DEF Init, TypeOK, Pcs, Outcomes
<1>2. TypeOK /\ Sampled /\ [Next]_vars => TypeOK'
  <2> SUFFICES ASSUME TypeOK, Sampled, [Next]_vars PROVE TypeOK'
    OBVIOUS
  <2> USE DEF queues, host, run
  <2>1. ASSUME NEW m \in Msgs, Prompt(m) PROVE TypeOK'
    <3>1. User(m) \in Entry
      BY UserTyped DEF Posts
    <3>2. <<User(m)>> \in Seq(Entry)
      BY <3>1
    <3> QED BY <2>1, <3>2, LaunchTyped DEF Prompt, TypeOK
  <2>2. CASE Continue
    <3>1. Users(Dequeued(steering, SteeringMode)) \in Seq(Entry)
      <4>1. Dequeued(steering, SteeringMode) \in Seq(Posts)
        BY QueueTyped DEF TypeOK, Posts
      <4> QED BY <4>1, UsersTyped
    <3>2. Users(Dequeued(followUp, FollowUpMode)) \in Seq(Entry)
      <4>1. Dequeued(followUp, FollowUpMode) \in Seq(Posts)
        BY QueueTyped DEF TypeOK, Posts
      <4> QED BY <4>1, UsersTyped
    <3>3. <<>> \in Seq(Entry)
      OBVIOUS
    <3>4. Remaining(steering, SteeringMode) \in Seq(Msgs) /\ Remaining(followUp, FollowUpMode) \in Seq(Msgs)
      BY QueueTyped DEF TypeOK
    <3>5. steering' \in Seq(Msgs) /\ followUp' \in Seq(Msgs) /\ asides' \in Seq(AsideMsgs)
      BY <2>2, <3>4 DEF Continue, TypeOK
    <3>6. \E prompts \in Seq(Entry), skip \in BOOLEAN : Launch(prompts, skip)
      BY <2>2, <3>1, <3>2, <3>3 DEF Continue
    <3> QED BY <2>2, <3>5, <3>6, LaunchTyped DEF Continue, TypeOK
  <2>3. CASE RunStart
    <3>1. steering' \in Seq(Msgs)
      BY <2>3, QueueTyped DEF RunStart, TypeOK, EndRun
    <3>2. Dequeued(steering, SteeringMode) \in Seq(Posts)
      BY QueueTyped DEF TypeOK, Posts
    <3>3. CASE late
      BY <2>3, <3>1, <3>3, EndTyped DEF RunStart, TypeOK, Outcomes
    <3>4. CASE ~late
      <4>1. loop' \in Loop
        <5>1. \/ loop' = [loop EXCEPT !.skipPoll = aborted /\ loop.skipPoll]
              \/ loop' = [loop EXCEPT !.pending = Dequeued(steering, SteeringMode)]
          BY <2>3, <3>4 DEF RunStart
        <5>2. loop \in Loop /\ (aborted /\ loop.skipPoll) \in BOOLEAN
          BY DEF TypeOK
        <5>3. [loop EXCEPT !.skipPoll = aborted /\ loop.skipPoll] \in Loop
          BY <5>2, FlagsTyped, Zenon
        <5>4. [loop EXCEPT !.pending = Dequeued(steering, SteeringMode)] \in Loop
          BY <3>2, <5>2, PendingTyped, Zenon
        <5> QED BY <5>1, <5>3, <5>4
      <4> QED BY <2>3, <3>1, <3>4, <4>1 DEF RunStart, TypeOK, Pcs
    <3> QED BY <3>3, <3>4
  <2>4. CASE TurnTop
    <3>1. CASE late
      BY <2>4, <3>1, EndTyped DEF TurnTop, TypeOK, Outcomes
    <3>2. CASE ~late
      <4>1. Users(loop.pending) \in Seq(Entry)
        BY UsersTyped DEF TypeOK, Loop, Posts
      <4>2. messages \o Users(loop.pending) \in Seq(Entry)
            /\ context \o Users(loop.pending) \in Seq(Entry)
        BY <4>1, CatTyped DEF TypeOK
      <4>3. loop' \in Loop
        <5>1. <<>> \in Seq(Posts) /\ loop' = [loop EXCEPT !.pending = <<>>]
          BY <2>4, <3>2 DEF TurnTop
        <5> QED BY <5>1, PendingTyped DEF TypeOK
      <4> QED BY <2>4, <3>2, <4>2, <4>3 DEF TurnTop, TypeOK, Pcs
    <3> QED BY <3>1, <3>2
  <2>5. CASE ResolveDirective
    <3>1. CASE UNCHANGED <<loop, hardQueue, messages, context>>
      BY <2>5, <3>1 DEF ResolveDirective, TypeOK, Pcs
    <3>2. CASE ~UNCHANGED <<loop, hardQueue, messages, context>>
      <4> DEFINE next == [loop EXCEPT
                   !.resolved = TRUE,
                   !.hostChoice = IF TakesHard THEN Head(hardQueue) ELSE None,
                   !.required = IF AsksSoft THEN RequiredTool ELSE None,
                   !.softId = IF AsksSoft THEN soft ELSE None,
                   !.escalations = IF AsksSoft /\ ~AsksAnew THEN @ ELSE 0]
      <4>1. /\ loop' = next
            /\ hardQueue' = IF TakesHard THEN Tail(hardQueue) ELSE hardQueue
            /\ messages' = messages \o Reminder /\ context' = context \o Reminder
        BY <2>5, <3>2 DEF ResolveDirective
      <4>2. Reminder \in Seq(Entry)
        BY BlankTyped DEF Reminder
      <4>3. messages' \in Seq(Entry) /\ context' \in Seq(Entry)
        <5> HIDE DEF next
        <5> QED BY <4>1, <4>2, CatTyped DEF TypeOK
      <4>4. TakesHard => Head(hardQueue) \in HardChoices /\ Tail(hardQueue) \in Seq(HardChoices)
        BY DEF TakesHard, TypeOK
      <4>5. hardQueue' \in Seq(HardChoices)
        <5> HIDE DEF next
        <5> QED BY <4>1, <4>4 DEF TypeOK
      <4>6. next \in Loop
        <5> DEFINE choice == IF TakesHard THEN Head(hardQueue) ELSE None
                   tool == IF AsksSoft THEN RequiredTool ELSE None
                   id == IF AsksSoft THEN soft ELSE None
                   n == IF AsksSoft /\ ~AsksAnew THEN loop.escalations ELSE 0
        <5>1. choice \in HardChoices \cup {None}
          BY <4>4
        <5>2. tool \in Tools \cup {None}
          BY AgentLoopAssumption
        <5>3. id \in SoftIds \cup {None}
          BY DEF TypeOK
        <5>4. n \in 0..MaxSoftEscalations
          BY BoundsTyped DEF TypeOK, Loop
        <5>5. loop \in Loop
          BY DEF TypeOK
        <5>6. next = [loop EXCEPT !.resolved = TRUE, !.hostChoice = choice, !.required = tool,
                                  !.softId = id, !.escalations = n]
          OBVIOUS
        <5> HIDE DEF next, choice, tool, id, n
        <5> QED BY <5>1, <5>2, <5>3, <5>4, <5>5, <5>6, DirectiveTyped
      <4> HIDE DEF next
      <4> QED BY <2>5, <4>1, <4>3, <4>5, <4>6 DEF ResolveDirective, TypeOK, Pcs
    <3> QED BY <3>1, <3>2
  <2>6. CASE CallModel
    <3>1. step' \in Nat
      BY <2>6 DEF CallModel, TypeOK
    <3>2. CASE aborted
      <4>1. Assistant({}, "aborted") \in Entry
        <5>1. {} \in SUBSET Tools /\ "aborted" \in Stops
          BY DEF Stops
        <5> QED BY <5>1, ReplyTyped DEF TypeOK
      <4>2. messages' \in Seq(Entry) /\ context' \in Seq(Entry)
        <5>1. messages' = Append(messages, Assistant({}, "aborted"))
              /\ context' = Append(context, Assistant({}, "aborted"))
          BY <2>6, <3>2 DEF CallModel
        <5> QED BY <4>1, <5>1 DEF TypeOK
      <4>3. EndRun("aborted") /\ "aborted" \in Outcomes
        BY <2>6, <3>2 DEF CallModel, Outcomes
      <4> QED BY <2>6, <3>1, <4>2, <4>3, EndTyped DEF CallModel, TypeOK
    <3>3. CASE ~aborted
      BY <2>6, <3>1, <3>3 DEF CallModel, TypeOK, Pcs
    <3> QED BY <3>2, <3>3
  <2>7. CASE ProviderThrows
    <3>1. <<>> \in Seq(Entry)
      OBVIOUS
    <3> QED BY <2>7, <3>1, FailTyped DEF ProviderThrows, TypeOK
  <2>8. ASSUME NEW calls \in SUBSET Tools, NEW stop \in {"error", "aborted"},
               ReplyEnds(calls, stop), UNCHANGED <<queues, host, late, step, sent, removed>>
        PROVE  TypeOK'
    <3>1. Assistant(calls, stop) \in Entry /\ Results(calls, {}) \in Seq(Entry)
      <4>1. {} \in SUBSET Tools /\ stop \in Stops
        BY DEF Stops
      <4> QED BY <4>1, ReplyTyped, ResultsTyped DEF TypeOK
    <3>2. <<Assistant(calls, stop)>> \o Results(calls, {}) \in Seq(Entry)
      BY <3>1, CatTyped
    <3>3. messages' \in Seq(Entry) /\ context' \in Seq(Entry)
      BY <2>8, <3>2, CatTyped DEF ReplyEnds, TypeOK
    <3> QED BY <2>8, <3>3, EndTyped DEF ReplyEnds, TypeOK, Outcomes
  <2>9. ASSUME NEW calls \in SUBSET Tools, NEW stop \in Stops, Reply(calls, stop)
        PROVE  TypeOK'
    <3>1. [loop EXCEPT !.retries = 0, !.resumes = 0] \in Loop
      BY BoundsTyped DEF TypeOK, Loop
    <3>2. <<>> \in Seq(Entry)
      OBVIOUS
    <3> QED BY <2>9, <3>1, <3>2, SettleTyped DEF Reply, TypeOK
  <2>10. ASSUME NEW calls \in SUBSET Tools PROVE Discarded(calls) \subseteq Seq(Entry)
    <3>1. Assistant(calls, "discarded") \in Entry
      BY <2>10, ReplyTyped DEF TypeOK, Stops
    <3> QED BY <3>1 DEF Discarded
  <2>11. ASSUME NEW calls \in SUBSET Tools, LeakRetry(calls) PROVE TypeOK'
    <3>1. messages' \in Seq(Entry)
      BY <2>10, <2>11, CatTyped DEF LeakRetry, TypeOK
    <3>2. loop' \in Loop
      <4>1. loop.retries + 1 \in 0..MaxHarmony
        BY <2>11, BoundsTyped DEF LeakRetry, TypeOK, Loop
      <4> QED BY <2>11, <4>1 DEF LeakRetry, TypeOK, Loop
    <3> QED BY <2>11, <3>1, <3>2 DEF LeakRetry, TypeOK, Pcs
  <2>12. ASSUME NEW calls \in SUBSET Tools, LeakRecovered(calls) PROVE TypeOK'
    <3>1. [loop EXCEPT !.retries = 0, !.resumes = @ + 1] \in Loop
      <4>1. loop.resumes + 1 \in 0..MaxHarmony /\ 0 \in 0..MaxHarmony
        BY <2>12, BoundsTyped DEF LeakRecovered, TypeOK, Loop
      <4> QED BY <4>1 DEF TypeOK, Loop
    <3>2. "toolUse" \in Stops
      BY DEF Stops
    <3> QED BY <2>10, <2>12, <3>1, <3>2, SettleTyped DEF LeakRecovered, TypeOK
  <2>13. ASSUME NEW calls \in SUBSET Tools, LeakGiveUp(calls) PROVE TypeOK'
    BY <2>10, <2>13, FailTyped DEF LeakGiveUp, TypeOK
  <2>14. ASSUME NEW ran \in SUBSET Tools, ToolsDone(ran) PROVE TypeOK'
    <3> DEFINE calls == context[Len(context)].calls
               out   == Results(calls, ran)
    <3>1. out \in Seq(Entry)
      <4>1. Len(context) \in 1..Len(context)
        BY <2>14 DEF ToolsDone, Sampled, TypeOK
      <4>2. context[Len(context)] \in Entry
        BY <4>1 DEF TypeOK
      <4>3. calls \in SUBSET Tools
        BY <4>2 DEF Entry
      <4> HIDE DEF calls
      <4> QED BY <4>3, ResultsTyped DEF TypeOK
    <3>2. messages' \in Seq(Entry) /\ context' \in Seq(Entry)
      <4>1. messages' = messages \o out /\ context' = context \o out
        BY <2>14 DEF ToolsDone
      <4> HIDE DEF out
      <4> QED BY <3>1, <4>1, CatTyped DEF TypeOK
    <3>3. soft' \in SoftIds \cup {None} /\ used' \subseteq SoftIds \cup HardChoices
      BY <2>14 DEF ToolsDone, TypeOK
    <3> QED BY <2>14, <3>2, <3>3 DEF ToolsDone, TypeOK, Pcs
  <2>15. CASE TurnEnd
    <3>1. steering' \in Seq(Msgs)
      BY <2>15, QueueTyped DEF TurnEnd, TypeOK, EndRun
    <3>2. CASE late
      BY <2>15, <3>1, <3>2, EndTyped DEF TurnEnd, TypeOK, Outcomes
    <3>3. CASE ~late
      <4> DEFINE got == IF aborted THEN <<>> ELSE Dequeued(steering, SteeringMode)
      <4>1. got \in Seq(Posts)
        BY QueueTyped DEF TypeOK, Posts
      <4>2. loop' = [loop EXCEPT !.pending = got] /\ pc' = AfterTurn(got)
        BY <2>15, <3>3 DEF TurnEnd
      <4>3. loop' \in Loop /\ pc' \in Pcs
        <5> HIDE DEF got
        <5> QED BY <4>1, <4>2 DEF AfterTurn, TypeOK, Loop, Posts, Pcs
      <4> QED BY <2>15, <3>1, <3>3, <4>3 DEF TurnEnd, TypeOK
    <3> QED BY <3>2, <3>3
  <2>16. ASSUME TakeAsides PROVE loop' \in Loop /\ asides' \in Seq(AsideMsgs)
    <3>1. loop.pending \in Seq(Posts) /\ asides \in Seq(Posts)
      BY DEF TypeOK, Loop, Posts
    <3>2. loop.pending \o asides \in Seq(Posts)
      BY <3>1, CatTyped
    <3>3. loop' \in Loop
      BY <2>16, <3>1, <3>2, PendingTyped DEF TakeAsides, TypeOK
    <3>4. asides' \in Seq(AsideMsgs)
      BY <2>16 DEF TakeAsides, TypeOK
    <3> QED BY <3>3, <3>4
  <2>17. CASE PollAsides
    BY <2>16, <2>17 DEF PollAsides, TypeOK, Pcs
  <2>18. CASE BeforeYield
    <3>1. CASE late
      BY <2>18, <3>1, EndTyped DEF BeforeYield, TypeOK, Outcomes
    <3>2. CASE ~late
      BY <2>18, <3>2 DEF BeforeYield, TypeOK, Pcs
    <3> QED BY <3>1, <3>2
  <2>19. CASE DrainSteering
    <3>1. steering' \in Seq(Msgs)
      BY <2>19, QueueTyped DEF DrainSteering, TypeOK, EndRun
    <3>2. CASE late
      BY <2>19, <3>1, <3>2, EndTyped DEF DrainSteering, TypeOK, Outcomes
    <3>3. CASE ~late
      <4>1. Dequeued(steering, SteeringMode) \in Seq(Posts)
        BY QueueTyped DEF TypeOK, Posts
      <4>2. loop' \in Loop
        <5>1. <<>> \in Seq(Posts)
          OBVIOUS
        <5> QED BY <2>19, <3>3, <4>1, <5>1, PendingTyped DEF DrainSteering, TypeOK
      <4> QED BY <2>19, <3>1, <3>3, <4>2 DEF DrainSteering, TypeOK, Pcs
    <3> QED BY <3>2, <3>3
  <2>20. CASE DrainAsides
    BY <2>16, <2>20 DEF DrainAsides, TypeOK, Pcs
  <2>21. CASE DrainFollowUps
    <3> DEFINE got == IF aborted THEN <<>> ELSE Dequeued(followUp, FollowUpMode)
               all == loop.pending \o got
    <3>1. followUp' \in Seq(Msgs)
      BY <2>21, QueueTyped DEF DrainFollowUps, TypeOK
    <3>2. all \in Seq(Posts)
      <4>1. got \in Seq(Posts) /\ loop.pending \in Seq(Posts)
        BY QueueTyped DEF TypeOK, Loop, Posts
      <4> QED BY <4>1, CatTyped
    <3>3. \/ EndRun("done")
          \/ /\ pc' = "turn"
             /\ loop' = [loop EXCEPT !.pending = all, !.hasMore = TRUE]
             /\ UNCHANGED <<aborted, outcome>>
      BY <2>21 DEF DrainFollowUps
    <3>4. pc' \in Pcs /\ loop' \in Loop /\ aborted' \in BOOLEAN /\ outcome' \in Outcomes
      <4> HIDE DEF all
      <4>1. CASE EndRun("done")
        BY <4>1, EndTyped DEF Outcomes
      <4>2. CASE ~EndRun("done")
        BY <3>2, <3>3, <4>2 DEF TypeOK, Loop, Posts, Pcs
      <4> QED BY <4>1, <4>2
    <3> QED BY <2>21, <3>1, <3>4 DEF DrainFollowUps, TypeOK
  <2>22. ASSUME NEW m \in Msgs, Steer(m) \/ FollowUp(m) PROVE TypeOK'
    <3>1. Append(steering, m) \in Seq(Msgs) /\ Append(followUp, m) \in Seq(Msgs)
      BY DEF TypeOK
    <3> QED BY <2>22, <3>1 DEF Steer, FollowUp, TypeOK
  <2>23. ASSUME NEW a \in AsideMsgs, Aside(a) PROVE TypeOK'
    BY <2>23 DEF Aside, TypeOK
  <2>24. ASSUME NEW q \in Seq(Msgs), q # <<>>
         PROVE  q[Len(q)] \in Msgs /\ SubSeq(q, 1, Len(q) - 1) \in Seq(Msgs)
    BY <2>24
  <2>25. CASE PopLastSteer
    BY <2>24, <2>25 DEF PopLastSteer, TypeOK
  <2>26. CASE PopLastFollowUp
    BY <2>24, <2>26 DEF PopLastFollowUp, TypeOK
  <2>27. ASSUME NEW h \in HardChoices, PushHard(h) PROVE TypeOK'
    BY <2>27 DEF PushHard, TypeOK
  <2>28. CASE Abort \/ ClearSoft \/ DeadlinePasses \/ DeadlineTimer
    BY <2>28 DEF Abort, ClearSoft, DeadlinePasses, DeadlineTimer, TypeOK
  <2>29. CASE UNCHANGED vars
    BY <2>29 DEF vars, TypeOK
  <2>30. CASE LoopStep
    <3>1. ASSUME NEW calls \in SUBSET Tools,
                 \/ ProviderError(calls) \/ AbortReply(calls)
                 \/ \E stop \in Stops : Reply(calls, stop)
                 \/ LeakRetry(calls) \/ LeakRecovered(calls) \/ LeakGiveUp(calls)
                 \/ ToolsDone(calls)
          PROVE  TypeOK'
      BY <2>8, <2>9, <2>11, <2>12, <2>13, <2>14, <3>1 DEF ProviderError, AbortReply
    <3> QED BY <2>3, <2>4, <2>5, <2>6, <2>7, <2>15, <2>17, <2>18, <2>19, <2>20, <2>21,
               <2>30, <3>1 DEF LoopStep
  <2> QED BY <2>1, <2>2, <2>22, <2>23, <2>25, <2>26, <2>27, <2>28, <2>29, <2>30
          DEF Next, UserStep, HostStep
<1>3. Init => Sampled
  BY DEF Init, Sampled
<1> QED BY <1>1, <1>2, <1>3, SampledKept, PTL DEF Spec

(* The type invariant on its own.                                          *)
THEOREM TypeCorrect == Spec => []TypeOK
  BY Typed, PTL

-----------------------------------------------------------------------------
(* What the queues and the transcript hold, as sets.                       *)

Carried(ms) == {ms[i].msg : i \in DOMAIN ms} \ {None}

LEMMA CatParts ==
  ASSUME NEW S, NEW a \in Seq(S), NEW b \in Seq(S)
  PROVE  /\ \A i \in DOMAIN a : i \in DOMAIN (a \o b) /\ (a \o b)[i] = a[i]
         /\ \A i \in DOMAIN b : Len(a) + i \in DOMAIN (a \o b) /\ (a \o b)[Len(a) + i] = b[i]
         /\ \A i \in DOMAIN (a \o b) :
              \/ \E j \in DOMAIN a : (a \o b)[i] = a[j]
              \/ \E j \in DOMAIN b : (a \o b)[i] = b[j]
<1>1. \A i \in DOMAIN a : i \in DOMAIN (a \o b) /\ (a \o b)[i] = a[i]
  OBVIOUS
<1>2. \A i \in DOMAIN b : Len(a) + i \in DOMAIN (a \o b) /\ (a \o b)[Len(a) + i] = b[i]
  OBVIOUS
<1>3. ASSUME NEW i \in DOMAIN (a \o b)
      PROVE  \/ \E j \in DOMAIN a : (a \o b)[i] = a[j]
             \/ \E j \in DOMAIN b : (a \o b)[i] = b[j]
  <2>1. CASE i \in DOMAIN a
    BY <1>1, <2>1
  <2>2. CASE i \notin DOMAIN a
    <3>1. i - Len(a) \in DOMAIN b /\ (a \o b)[i] = b[i - Len(a)]
      BY <2>2
    <3> QED BY <3>1
  <2> QED BY <2>1, <2>2
<1> QED BY <1>1, <1>2, <1>3

LEMMA ElementsCat ==
  ASSUME NEW S, NEW a \in Seq(S), NEW b \in Seq(S)
  PROVE  Elements(a \o b) = Elements(a) \cup Elements(b)
<1> DEFINE c == a \o b
<1>1. /\ \A i \in DOMAIN a : i \in DOMAIN c /\ c[i] = a[i]
      /\ \A i \in DOMAIN b : Len(a) + i \in DOMAIN c /\ c[Len(a) + i] = b[i]
      /\ \A i \in DOMAIN c :
           (\E j \in DOMAIN a : c[i] = a[j]) \/ (\E j \in DOMAIN b : c[i] = b[j])
  BY CatParts
<1>2. Elements(c) = Elements(a) \cup Elements(b)
  <2> HIDE DEF c
  <2> QED BY <1>1 DEF Elements
<1> QED BY <1>2

LEMMA CarriedCat ==
  ASSUME NEW a \in Seq(Entry), NEW b \in Seq(Entry)
  PROVE  Carried(a \o b) = Carried(a) \cup Carried(b)
<1> DEFINE c == a \o b
<1>1. /\ \A i \in DOMAIN a : i \in DOMAIN c /\ c[i] = a[i]
      /\ \A i \in DOMAIN b : Len(a) + i \in DOMAIN c /\ c[Len(a) + i] = b[i]
      /\ \A i \in DOMAIN c :
           (\E j \in DOMAIN a : c[i] = a[j]) \/ (\E j \in DOMAIN b : c[i] = b[j])
  BY CatParts
<1>2. Carried(c) = Carried(a) \cup Carried(b)
  <2> HIDE DEF c
  <2> QED BY <1>1 DEF Carried
<1> QED BY <1>2

LEMMA AppendCat ==
  ASSUME NEW S, NEW q \in Seq(S), NEW x \in S
  PROVE  Append(q, x) = q \o <<x>>
  OBVIOUS

LEMMA ElementsAppend ==
  ASSUME NEW S, NEW q \in Seq(S), NEW x \in S
  PROVE  Elements(Append(q, x)) = Elements(q) \cup {x}
<1>1. \A i \in DOMAIN q : i \in DOMAIN Append(q, x) /\ Append(q, x)[i] = q[i]
  OBVIOUS
<1>2. Len(q) + 1 \in DOMAIN Append(q, x) /\ Append(q, x)[Len(q) + 1] = x
  OBVIOUS
<1>3. \A i \in DOMAIN Append(q, x) : i \in DOMAIN q \/ i = Len(q) + 1
  OBVIOUS
<1> QED BY <1>1, <1>2, <1>3 DEF Elements

(* Taking the last message back leaves the others.                         *)
LEMMA ElementsPop ==
  ASSUME NEW S, NEW q \in Seq(S), q # <<>>
  PROVE  Elements(q) = Elements(SubSeq(q, 1, Len(q) - 1)) \cup {q[Len(q)]}
<1> DEFINE r == SubSeq(q, 1, Len(q) - 1)
<1>1. DOMAIN r = 1..(Len(q) - 1) /\ \A i \in DOMAIN r : r[i] = q[i]
  OBVIOUS
<1>2. DOMAIN q = 1..Len(q) /\ Len(q) \in Nat /\ Len(q) >= 1
  OBVIOUS
<1> HIDE DEF r
<1>3. \A i \in DOMAIN q : i \in DOMAIN r \/ i = Len(q)
  BY <1>1, <1>2
<1>4. \A i \in DOMAIN r : i \in DOMAIN q
  BY <1>1, <1>2
<1>5. Elements(q) = Elements(r) \cup {q[Len(q)]}
  BY <1>1, <1>2, <1>3, <1>4 DEF Elements
<1> QED BY <1>5 DEF r

(* What a dequeue takes and what it leaves are together what was there.    *)
LEMMA ElementsDequeue ==
  ASSUME NEW S, NEW q \in Seq(S), NEW mode
  PROVE  Elements(q) = Elements(Dequeued(q, mode)) \cup Elements(Remaining(q, mode))
<1>1. Elements(<<>>) = {}
  BY DEF Elements
<1>2. CASE mode = "all" \/ q = <<>>
  BY <1>1, <1>2 DEF Dequeued, Remaining
<1>3. CASE ~(mode = "all" \/ q = <<>>)
  <2>1. Dequeued(q, mode) = <<Head(q)>> /\ Remaining(q, mode) = Tail(q)
    BY <1>3 DEF Dequeued, Remaining
  <2>2. <<Head(q)>> \in Seq(S) /\ Tail(q) \in Seq(S) /\ q = <<Head(q)>> \o Tail(q)
    BY <1>3
  <2>3. Elements(<<Head(q)>> \o Tail(q)) = Elements(<<Head(q)>>) \cup Elements(Tail(q))
    <3> DEFINE h == <<Head(q)>>
               t == Tail(q)
    <3>1. h \in Seq(S) /\ t \in Seq(S)
      BY <2>2
    <3> HIDE DEF h, t
    <3>2. Elements(h \o t) = Elements(h) \cup Elements(t)
      BY <3>1, ElementsCat
    <3> QED BY <3>2 DEF h, t
  <2> QED BY <2>1, <2>2, <2>3, Zenon
<1> QED BY <1>2, <1>3

LEMMA CarriedUsers ==
  ASSUME NEW q \in Seq(Posts)
  PROVE  Carried(Users(q)) = Elements(q)
<1>1. DOMAIN Users(q) = DOMAIN q /\ \A i \in DOMAIN q : Users(q)[i].msg = q[i]
  BY UsersTyped DEF Users
<1>2. \A i \in DOMAIN q : q[i] # None
  BY AgentLoopAssumption DEF Posts
<1> QED BY <1>1, <1>2 DEF Carried, Elements

-----------------------------------------------------------------------------
(* Most steps add only entries of the loop's own: they carry no message,   *)
(* and no batch among them ran anything a soft requirement forbids.  The   *)
(* entries of users carry one.                                             *)

Legal(e) ==
  /\ e.role = "results" /\ e.ran # {} /\ e.required # None => e.calls = {e.required}
  /\ e.role = "user" => e.msg # None

Quiet(new) == new \in Seq(Entry) /\ \A i \in DOMAIN new : new[i].msg = None /\ Legal(new[i])

LEMMA QuietCat ==
  ASSUME NEW a, Quiet(a), NEW b, Quiet(b)
  PROVE  Quiet(a \o b)
<1>1. a \in Seq(Entry) /\ b \in Seq(Entry)
  BY DEF Quiet
<1>2. a \o b \in Seq(Entry)
  BY <1>1, CatTyped
<1>3. \A i \in DOMAIN (a \o b) :
        (\E j \in DOMAIN a : (a \o b)[i] = a[j]) \/ (\E j \in DOMAIN b : (a \o b)[i] = b[j])
  BY <1>1, CatParts
<1> QED BY <1>2, <1>3, Zenon DEF Quiet

LEMMA QuietCarried ==
  ASSUME NEW new, Quiet(new)
  PROVE  Carried(new) = {}
  BY DEF Quiet, Carried

LEMMA QuietOne ==
  ASSUME NEW e \in Entry, e.msg = None, Legal(e)
  PROVE  Quiet(<<e>>)
  BY DEF Quiet

LEMMA QuietReply ==
  ASSUME loop \in Loop, step \in Nat, NEW calls \in SUBSET Tools, NEW stop \in Stops
  PROVE  Quiet(<<Assistant(calls, stop)>>)
<1>1. Assistant(calls, stop) \in Entry /\ Assistant(calls, stop).msg = None
  BY ReplyTyped
<1>2. Legal(Assistant(calls, stop))
  BY DEF Legal, Assistant, Blank
<1> QED BY <1>1, <1>2, QuietOne

LEMMA QuietResults ==
  ASSUME loop \in Loop, step \in Nat, NEW calls \in SUBSET Tools, NEW ran \in SUBSET Tools,
         ran # {} => ~Declined(calls, loop)
  PROVE  Quiet(Results(calls, ran))
<1>1. /\ Results(calls, ran) \in Seq(Entry)
      /\ \A i \in DOMAIN Results(calls, ran) : Results(calls, ran)[i].msg = None
  BY ResultsTyped
<1>2. \A i \in DOMAIN Results(calls, ran) : Legal(Results(calls, ran)[i])
  <2> DEFINE e == [Blank EXCEPT !.role = "results", !.step = step, !.calls = calls,
                                !.ran = ran, !.required = loop.required]
  <2>1. Legal(e)
    BY DEF Legal, Declined, Blank
  <2>2. Results(calls, ran) = IF calls = {} THEN <<>> ELSE <<e>>
    BY DEF Results
  <2> HIDE DEF e
  <2> QED BY <2>1, <2>2
<1> QED BY <1>1, <1>2 DEF Quiet

LEMMA QuietNothing == Quiet(<<>>)
  BY DEF Quiet

LEMMA QuietDiscarded ==
  ASSUME TypeOK, NEW calls \in SUBSET Tools, NEW d \in Discarded(calls)
  PROVE  Quiet(d)
<1>1. Quiet(<<Assistant(calls, "discarded")>>)
  BY QuietReply DEF TypeOK, Stops
<1> QED BY <1>1, QuietNothing DEF Discarded

(* Where the run may hold messages it has taken and not yet put into the   *)
(* transcript.                                                             *)
Waiting == {"turn", "asides", "drainAsides", "drainFollowUps"}

QuietStep ==
  /\ pc \notin Waiting
  /\ \E new : Quiet(new) /\ messages' = messages \o new
  /\ loop'.pending \in {loop.pending, <<>>}
  /\ UNCHANGED <<steering, followUp, asides, sent, removed>>

LEMMA FailGrows ==
  ASSUME TypeOK, NEW before, Quiet(before), FailRun(before)
  PROVE  /\ \E new : Quiet(new) /\ messages' = messages \o new
         /\ loop'.pending = <<>>
<1>1. Quiet(<<Assistant({}, "error")>>)
  BY QuietReply DEF TypeOK, Stops
<1>2. Quiet(before \o <<Assistant({}, "error")>>)
  BY <1>1, QuietCat
<1> QED BY <1>2, FreshTyped DEF FailRun, EndRun

LEMMA SettleGrows ==
  ASSUME TypeOK, NEW calls \in SUBSET Tools, NEW stop \in Stops, NEW discarded,
         Quiet(discarded), NEW lp \in Loop, Settle(calls, stop, discarded, lp)
  PROVE  /\ \E new : Quiet(new) /\ messages' = messages \o new
         /\ loop'.pending \in {lp.pending, <<>>}
<1>1. Quiet(<<Assistant(calls, stop)>>)
  BY QuietReply DEF TypeOK
<1>2. Quiet(Unanswered(calls, stop))
  <2>1. Quiet(Results(calls, {}))
    BY QuietResults DEF TypeOK
  <2> QED BY <1>1, <2>1, QuietCat DEF Unanswered
<1>3. ASSUME NEW new, Quiet(new), Extend(discarded, new)
      PROVE  \E b : Quiet(b) /\ messages' = messages \o b
  BY <1>3, QuietCat DEF Extend
<1>4. Settled(calls, lp) \in Loop /\ Settled(calls, lp).pending = lp.pending
  BY SettledTyped
<1>5. CASE DeclinedTooOften(calls, stop, discarded, lp)
  <2>1. Quiet(discarded \o <<Assistant(calls, stop)>>)
    BY <1>1, QuietCat
  <2> QED BY <1>5, <2>1, FailGrows DEF DeclinedTooOften
<1>6. CASE Escalates(calls, stop, discarded, lp)
  <2>1. loop'.pending = lp.pending
    BY <1>4, <1>6 DEF Escalates, Loop
  <2> QED BY <1>2, <1>3, <1>6, <2>1 DEF Escalates
<1>7. CASE RunsTools(calls, stop, discarded, lp)
  <2>1. loop'.pending = lp.pending
    BY <1>4, <1>7 DEF RunsTools, Loop
  <2> QED BY <1>1, <1>3, <1>7, <2>1 DEF RunsTools
<1>8. CASE SkipsTools(calls, stop, discarded, lp)
  <2>1. loop'.pending = lp.pending
    BY <1>4, <1>8 DEF SkipsTools, Loop
  <2> QED BY <1>2, <1>3, <1>8, <2>1 DEF SkipsTools
<1>9. CASE Answers(calls, stop, discarded, lp)
  <2>1. loop'.pending = lp.pending
    BY <1>4, <1>9 DEF Answers, Loop
  <2> QED BY <1>1, <1>3, <1>9, <2>1 DEF Answers
<1> QED BY <1>5, <1>6, <1>7, <1>8, <1>9 DEF Settle

(* Everything between the loop's polls is a quiet step.                    *)
LEMMA LoopQuiet ==
  ASSUME TypeOK, Sampled,
         \/ ResolveDirective \/ CallModel \/ ProviderThrows
         \/ \E calls \in SUBSET Tools :
              \/ ProviderError(calls) \/ AbortReply(calls)
              \/ \E stop \in Stops : Reply(calls, stop)
              \/ LeakRetry(calls) \/ LeakRecovered(calls) \/ LeakGiveUp(calls)
              \/ ToolsDone(calls)
  PROVE  QuietStep
<1> USE DEF queues, host
<1>1. messages = messages \o <<>>
  BY DEF TypeOK
<1>2. ASSUME UNCHANGED messages PROVE \E new : Quiet(new) /\ messages' = messages \o new
  BY <1>1, <1>2, QuietNothing
<1>3. CASE ResolveDirective
  <2>1. Quiet(Reminder)
    <3>1. Blank \in Entry /\ Blank.msg = None /\ Legal(Blank)
      BY BlankTyped DEF Legal, Blank
    <3> QED BY <3>1, QuietOne, QuietNothing DEF Reminder
  <2>2. \E new : Quiet(new) /\ messages' = messages \o new
    BY <1>2, <1>3, <2>1 DEF ResolveDirective
  <2>3. loop'.pending = loop.pending
    BY <1>3 DEF ResolveDirective, TypeOK, Loop
  <2> QED BY <1>3, <2>2, <2>3 DEF ResolveDirective, QuietStep, Waiting
<1>4. CASE CallModel
  <2>1. CASE aborted
    <3>1. Quiet(<<Assistant({}, "aborted")>>)
      BY QuietReply DEF TypeOK, Stops
    <3>2. messages' = messages \o <<Assistant({}, "aborted")>>
      <4>1. {} \in SUBSET Tools /\ "aborted" \in Stops
        BY DEF Stops
      <4>2. Assistant({}, "aborted") \in Entry
        BY <4>1, ReplyTyped DEF TypeOK
      <4>3. messages' = Append(messages, Assistant({}, "aborted"))
        BY <1>4, <2>1 DEF CallModel
      <4> QED BY <4>2, <4>3, AppendCat DEF TypeOK
    <3>3. loop'.pending = <<>>
      BY <1>4, <2>1, FreshTyped DEF CallModel, EndRun
    <3> QED BY <1>4, <3>1, <3>2, <3>3 DEF CallModel, QuietStep, Waiting
  <2>2. CASE ~aborted
    BY <1>2, <1>4, <2>2 DEF CallModel, QuietStep, Waiting
  <2> QED BY <2>1, <2>2
<1>5. CASE ProviderThrows
  BY <1>5, FailGrows, QuietNothing DEF ProviderThrows, QuietStep, Waiting
<1>6. ASSUME NEW calls \in SUBSET Tools, ProviderError(calls) \/ AbortReply(calls)
      PROVE  QuietStep
  <2>1. PICK stop \in {"error", "aborted"} : ReplyEnds(calls, stop)
    BY <1>6 DEF ProviderError, AbortReply
  <2>2. Quiet(<<Assistant(calls, stop)>>) /\ Quiet(Results(calls, {}))
    BY QuietReply, QuietResults DEF TypeOK, Stops
  <2>3. Quiet(<<Assistant(calls, stop)>> \o Results(calls, {}))
    BY <2>2, QuietCat
  <2>4. \E new : Quiet(new) /\ messages' = messages \o new
    BY <2>1, <2>3 DEF ReplyEnds
  <2>5. loop'.pending = <<>>
    BY <2>1, FreshTyped DEF ReplyEnds, EndRun
  <2> QED BY <1>6, <2>4, <2>5 DEF ProviderError, AbortReply, QuietStep, Waiting
<1>7. ASSUME NEW calls \in SUBSET Tools, NEW stop \in Stops, Reply(calls, stop)
      PROVE  QuietStep
  <2> DEFINE lp == [loop EXCEPT !.retries = 0, !.resumes = 0]
  <2>1. lp \in Loop /\ lp.pending = loop.pending
    BY BoundsTyped DEF TypeOK, Loop
  <2>2. Settle(calls, stop, <<>>, lp)
    BY <1>7 DEF Reply
  <2> HIDE DEF lp
  <2> QED BY <1>7, <2>1, <2>2, SettleGrows, QuietNothing DEF Reply, QuietStep, Waiting
<1>8. ASSUME NEW calls \in SUBSET Tools, LeakRetry(calls) PROVE QuietStep
  <2>1. loop'.pending = loop.pending
    BY <1>8 DEF LeakRetry, TypeOK, Loop
  <2> QED BY <1>8, <2>1, QuietDiscarded DEF LeakRetry, QuietStep, Waiting
<1>9. ASSUME NEW calls \in SUBSET Tools, LeakRecovered(calls) PROVE QuietStep
  <2> DEFINE lp == [loop EXCEPT !.retries = 0, !.resumes = @ + 1]
  <2>1. lp \in Loop /\ lp.pending = loop.pending
    <3>1. loop.resumes + 1 \in 0..MaxHarmony /\ 0 \in 0..MaxHarmony
      BY <1>9, BoundsTyped DEF LeakRecovered, TypeOK, Loop
    <3> QED BY <3>1 DEF TypeOK, Loop
  <2>2. PICK d \in Discarded(calls) : Settle(calls, "toolUse", d, lp)
    BY <1>9 DEF LeakRecovered
  <2>3. "toolUse" \in Stops
    BY DEF Stops
  <2> HIDE DEF lp
  <2> QED BY <1>9, <2>1, <2>2, <2>3, SettleGrows, QuietDiscarded
          DEF LeakRecovered, QuietStep, Waiting
<1>10. ASSUME NEW calls \in SUBSET Tools, LeakGiveUp(calls) PROVE QuietStep
  <2>1. PICK d \in Discarded(calls) : FailRun(d)
    BY <1>10 DEF LeakGiveUp
  <2> QED BY <1>10, <2>1, FailGrows, QuietDiscarded DEF LeakGiveUp, QuietStep, Waiting
<1>11. ASSUME NEW ran \in SUBSET Tools, ToolsDone(ran) PROVE QuietStep
  <2> DEFINE calls == context[Len(context)].calls
  <2>1. calls \in SUBSET Tools /\ ~Declined(calls, loop)
    <3>1. Len(context) \in DOMAIN context /\ ~Declined(calls, loop)
      BY <1>11 DEF ToolsDone, Sampled, TypeOK
    <3>2. context[Len(context)] \in Entry
      BY <3>1 DEF TypeOK
    <3> QED BY <3>1, <3>2 DEF Entry
  <2>2. messages' = messages \o Results(calls, ran)
    BY <1>11 DEF ToolsDone
  <2> HIDE DEF calls
  <2>3. Quiet(Results(calls, ran))
    BY <2>1, QuietResults DEF TypeOK
  <2> QED BY <1>11, <2>2, <2>3 DEF ToolsDone, QuietStep, Waiting
<1> QED BY <1>3, <1>4, <1>5, <1>6, <1>7, <1>8, <1>9, <1>10, <1>11

-----------------------------------------------------------------------------

Lawful(ms) == \A i \in DOMAIN ms : Legal(ms[i])

(* Every step only appends to the transcript, and only lawful entries.     *)
LEMMA StepLawful ==
  ASSUME TypeOK, Sampled, [Next]_vars
  PROVE  \E new \in Seq(Entry) : Lawful(new) /\ messages' = messages \o new
<1> USE DEF queues, host, run
<1>1. ASSUME NEW q \in Seq(Posts) PROVE Users(q) \in Seq(Entry) /\ Lawful(Users(q))
  <2>1. \A x \in Posts : Legal(User(x))
    BY AgentLoopAssumption DEF Legal, User, Blank, Posts
  <2> QED BY <1>1, <2>1, UsersTyped DEF Lawful, Users
<1>2. ASSUME NEW m \in Msgs PROVE <<User(m)>> \in Seq(Entry) /\ Lawful(<<User(m)>>)
  <2>1. User(m) \in Entry /\ Legal(User(m))
    BY UserTyped, AgentLoopAssumption DEF Posts, Legal, User, Blank
  <2> QED BY <2>1 DEF Lawful
<1>3. <<>> \in Seq(Entry) /\ Lawful(<<>>) /\ messages = messages \o <<>>
  BY DEF Lawful, TypeOK
<1>4. ASSUME UNCHANGED messages
      PROVE  \E new \in Seq(Entry) : Lawful(new) /\ messages' = messages \o new
  BY <1>3, <1>4
<1>5. ASSUME QuietStep
      PROVE  \E new \in Seq(Entry) : Lawful(new) /\ messages' = messages \o new
  BY <1>5 DEF QuietStep, Quiet, Lawful
<1>6. ASSUME NEW m \in Msgs, Prompt(m)
      PROVE  \E new \in Seq(Entry) : Lawful(new) /\ messages' = messages \o new
  BY <1>2, <1>6 DEF Prompt, Launch
<1>7. CASE Continue
  <2>1. Dequeued(steering, SteeringMode) \in Seq(Posts) /\ Dequeued(followUp, FollowUpMode) \in Seq(Posts)
    BY QueueTyped DEF TypeOK, Posts
  <2>2. \E new \in {<<>>, Users(Dequeued(steering, SteeringMode)),
                    Users(Dequeued(followUp, FollowUpMode))} : messages' = messages \o new
    BY <1>7 DEF Continue, Launch
  <2> QED BY <1>1, <1>3, <2>1, <2>2
<1>8. CASE TurnTop
  <2>1. Users(loop.pending) \in Seq(Entry) /\ Lawful(Users(loop.pending))
    BY <1>1 DEF TypeOK, Loop, Posts
  <2>2. \E new \in {<<>>, Users(loop.pending)} : messages' = messages \o new
    BY <1>3, <1>8 DEF TurnTop
  <2> QED BY <1>3, <2>1, <2>2
<1>9. CASE RunStart \/ TurnEnd \/ PollAsides \/ BeforeYield \/ DrainSteering \/ DrainAsides
           \/ DrainFollowUps
  BY <1>4, <1>9 DEF RunStart, TurnEnd, PollAsides, BeforeYield, DrainSteering, DrainAsides,
                    DrainFollowUps
<1>10. ASSUME NEW m \in Msgs, Steer(m) \/ FollowUp(m) PROVE UNCHANGED messages
  BY <1>10 DEF Steer, FollowUp
<1>11. CASE PopLastSteer \/ PopLastFollowUp \/ Abort \/ HostStep \/ UNCHANGED vars
  BY <1>4, <1>11 DEF PopLastSteer, PopLastFollowUp, Abort, HostStep, Aside, PushHard,
                     ClearSoft, DeadlinePasses, DeadlineTimer, vars
<1>12. CASE LoopStep
  BY <1>5, <1>8, <1>9, <1>12, LoopQuiet DEF LoopStep
<1> QED BY <1>4, <1>6, <1>7, <1>10, <1>11, <1>12 DEF Next, UserStep

LEMMA LawfulAlways == Spec => []Lawful(messages)
<1>1. Init => Lawful(messages)
  BY DEF Init, Lawful
<1>2. TypeOK /\ Sampled /\ Lawful(messages) /\ [Next]_vars => Lawful(messages)'
  <2> SUFFICES ASSUME TypeOK, Sampled, Lawful(messages), [Next]_vars
               PROVE  Lawful(messages)'
    OBVIOUS
  <2>1. PICK new \in Seq(Entry) : Lawful(new) /\ messages' = messages \o new
    BY StepLawful
  <2>2. \A i \in DOMAIN messages' :
          (\E j \in DOMAIN messages : messages'[i] = messages[j])
          \/ (\E j \in DOMAIN new : messages'[i] = new[j])
    <3>1. messages \in Seq(Entry)
      BY DEF TypeOK
    <3>2. \A i \in DOMAIN (messages \o new) :
            \/ \E j \in DOMAIN messages : (messages \o new)[i] = messages[j]
            \/ \E j \in DOMAIN new : (messages \o new)[i] = new[j]
      BY <3>1, CatParts
    <3> QED BY <2>1, <3>2, Zenon
  <2>3. Lawful(messages')
    BY <2>1, <2>2, Zenon DEF Lawful
  <2> QED BY <2>3 DEF Lawful
<1> QED BY <1>1, <1>2, Typed, PTL DEF Spec

(* While a soft requirement is pending nothing but the required tool, on   *)
(* its own, is ever executed: such a batch is only started by a reply that *)
(* does not decline (Sampled), and the loop's locals do not change while   *)
(* it runs.                                                                *)
THEOREM NoDetour == Spec => []DetourNeverRuns
<1>1. Lawful(messages) => DetourNeverRuns
  BY DEF DetourNeverRuns, Lawful, Legal
<1> QED BY <1>1, LawfulAlways, PTL

-----------------------------------------------------------------------------
(* Messages the run has taken are in loop.pending only between a poll and  *)
(* the top of the next turn; anywhere else a run may end.                  *)

Kept == NothingLost /\ (pc \notin Waiting => loop.pending = <<>>)

LEMMA ElementsNone == Elements(<<>>) = {}
  BY DEF Elements

LEMMA QuietKept ==
  ASSUME TypeOK, Kept, QuietStep
  PROVE  Kept'
<1>1. PICK new : Quiet(new) /\ messages' = messages \o new
  BY DEF QuietStep
<1>2. new \in Seq(Entry) /\ Carried(new) = {}
  BY <1>1, QuietCarried DEF Quiet
<1>3. Carried(messages') = Carried(messages)
  <2>1. messages \in Seq(Entry)
    BY DEF TypeOK
  <2>2. Carried(messages \o new) = Carried(messages) \cup Carried(new)
    BY <1>2, <2>1, CarriedCat, Zenon
  <2> QED BY <1>1, <1>2, <2>2
<1>4. loop.pending = <<>> /\ loop'.pending = <<>>
  BY DEF Kept, QuietStep
<1> QED BY <1>3, <1>4 DEF Kept, NothingLost, QuietStep, Delivered, Carried

(* Appending user messages delivers them.                                  *)
LEMMA UsersCarried ==
  ASSUME TypeOK, NEW q \in Seq(Posts)
  PROVE  Carried(messages \o Users(q)) = Carried(messages) \cup Elements(q)
<1>1. Users(q) \in Seq(Entry) /\ Carried(Users(q)) = Elements(q)
  BY UsersTyped, CarriedUsers
<1> QED BY <1>1, CarriedCat DEF TypeOK

LEMMA PromptKept ==
  ASSUME TypeOK, Kept, NEW m \in Msgs, Prompt(m)
  PROVE  Kept'
<1>1. User(m) \in Entry /\ User(m).msg = m
  BY UserTyped DEF Posts
<1>2. m # None
  BY AgentLoopAssumption
<1>3. <<User(m)>> \in Seq(Entry) /\ Carried(<<User(m)>>) = {m}
  BY <1>1, <1>2 DEF Carried
<1>4. Carried(messages') = Carried(messages) \cup {m}
  <2>1. messages \in Seq(Entry) /\ messages' = messages \o <<User(m)>>
    BY DEF Prompt, Launch, TypeOK
  <2>2. Carried(messages \o <<User(m)>>) = Carried(messages) \cup Carried(<<User(m)>>)
    BY <1>3, <2>1, CarriedCat, Zenon
  <2> QED BY <1>3, <2>1, <2>2, Zenon
<1>5. loop.pending = <<>> /\ loop'.pending = <<>>
  BY FreshTyped DEF Prompt, Launch, Kept, Waiting, Loop
<1> QED BY <1>4, <1>5 DEF Kept, NothingLost, Prompt, queues, Delivered, Carried

LEMMA ContinueKept ==
  ASSUME TypeOK, Kept, Continue
  PROVE  Kept'
<1>1. loop.pending = <<>> /\ loop'.pending = <<>>
  BY FreshTyped DEF Continue, Launch, Kept, Waiting, Loop
<1>2. UNCHANGED <<asides, sent, removed>>
  BY DEF Continue, queues
<1>3. CASE Launch(<<>>, FALSE) /\ UNCHANGED queues
  <2>1. messages' = messages
    BY <1>3 DEF Launch, TypeOK
  <2> QED BY <1>1, <1>2, <1>3, <2>1 DEF Kept, NothingLost, Delivered, queues
<1>4. CASE /\ Launch(Users(Dequeued(steering, SteeringMode)), TRUE)
           /\ steering' = Remaining(steering, SteeringMode)
           /\ UNCHANGED followUp
  <2>1. Dequeued(steering, SteeringMode) \in Seq(Posts)
    BY QueueTyped DEF TypeOK, Posts
  <2>2. Carried(messages') = Carried(messages) \cup Elements(Dequeued(steering, SteeringMode))
    BY <1>4, <2>1, UsersCarried DEF Launch
  <2>3. Elements(steering) = Elements(Dequeued(steering, SteeringMode)) \cup Elements(steering')
    BY <1>4, ElementsDequeue DEF TypeOK
  <2> QED BY <1>1, <1>2, <1>4, <2>2, <2>3 DEF Kept, NothingLost, Delivered, Carried
<1>5. CASE /\ Launch(Users(Dequeued(followUp, FollowUpMode)), FALSE)
           /\ followUp' = Remaining(followUp, FollowUpMode)
           /\ UNCHANGED steering
  <2>1. Dequeued(followUp, FollowUpMode) \in Seq(Posts)
    BY QueueTyped DEF TypeOK, Posts
  <2>2. Carried(messages') = Carried(messages) \cup Elements(Dequeued(followUp, FollowUpMode))
    BY <1>5, <2>1, UsersCarried DEF Launch
  <2>3. Elements(followUp) = Elements(Dequeued(followUp, FollowUpMode)) \cup Elements(followUp')
    BY <1>5, ElementsDequeue DEF TypeOK
  <2> QED BY <1>1, <1>2, <1>5, <2>2, <2>3 DEF Kept, NothingLost, Delivered, Carried
<1> QED BY <1>3, <1>4, <1>5 DEF Continue

(* A poll moves what it takes from the queue to loop.pending.              *)
LEMMA PollKept ==
  ASSUME TypeOK, Kept, loop.pending = <<>>,
         \/ UNCHANGED <<loop, steering>> /\ loop'.pending = <<>>
         \/ /\ loop'.pending = Dequeued(steering, SteeringMode)
            /\ steering' = Remaining(steering, SteeringMode)
         \/ loop'.pending = <<>> /\ UNCHANGED steering,
         UNCHANGED <<messages, followUp, asides, sent, removed>>
  PROVE  NothingLost'
<1>1. Elements(steering) = Elements(loop'.pending) \cup Elements(steering')
  BY ElementsNone, ElementsDequeue DEF TypeOK
<1> QED BY <1>1, ElementsNone DEF Kept, NothingLost, Delivered

LEMMA AsidesKept ==
  ASSUME TypeOK, Kept, TakeAsides, UNCHANGED <<messages, steering, followUp, sent, removed>>
  PROVE  NothingLost'
<1>1. loop.pending \in Seq(Posts) /\ asides \in Seq(Posts)
  BY DEF TypeOK, Loop, Posts
<1>2. loop'.pending = IF aborted THEN loop.pending ELSE loop.pending \o asides
  BY DEF TakeAsides, TypeOK, Loop
<1>3. Elements(loop.pending \o asides) = Elements(loop.pending) \cup Elements(asides)
  BY <1>1, ElementsCat
<1>4. Elements(loop'.pending) \cup Elements(asides') = Elements(loop.pending) \cup Elements(asides)
  BY <1>2, <1>3, ElementsNone DEF TakeAsides
<1> QED BY <1>4 DEF Kept, NothingLost, Delivered

LEMMA LoopKept ==
  ASSUME TypeOK, Sampled, Kept, ~late, LoopStep
  PROVE  Kept'
<1> USE DEF queues, host
<1>1. CASE QuietStep
  BY <1>1, QuietKept
<1>2. CASE RunStart
  <2>1. loop.pending = <<>> /\ pc' = "turn"
    BY <1>2 DEF RunStart, Kept, Waiting
  <2>2. \/ loop'.pending = <<>> /\ UNCHANGED steering
        \/ /\ loop'.pending = Dequeued(steering, SteeringMode)
           /\ steering' = Remaining(steering, SteeringMode)
    BY <1>2, <2>1 DEF RunStart, TypeOK, Loop
  <2>3. NothingLost'
    BY <1>2, <2>1, <2>2, PollKept DEF RunStart
  <2> QED BY <2>1, <2>3 DEF Kept, Waiting
<1>3. CASE TurnTop
  <2>1. /\ messages' = messages \o Users(loop.pending)
        /\ loop' = [loop EXCEPT !.pending = <<>>]
    BY <1>3 DEF TurnTop
  <2>2. Carried(messages') = Carried(messages) \cup Elements(loop.pending)
    BY <2>1, UsersCarried DEF TypeOK, Loop, Posts
  <2>3. loop'.pending = <<>>
    BY <2>1 DEF TypeOK, Loop
  <2> QED BY <1>3, <2>2, <2>3, ElementsNone DEF TurnTop, Kept, NothingLost, Delivered, Carried
<1>4. CASE TurnEnd
  <2> DEFINE got == IF aborted THEN <<>> ELSE Dequeued(steering, SteeringMode)
  <2>1. loop.pending = <<>>
    BY <1>4 DEF TurnEnd, Kept, Waiting
  <2>2. /\ loop' = [loop EXCEPT !.pending = got] /\ pc' = AfterTurn(got)
        /\ steering' = IF aborted THEN steering ELSE Remaining(steering, SteeringMode)
    BY <1>4 DEF TurnEnd
  <2>3. loop'.pending = got
    <3> HIDE DEF got
    <3> QED BY <2>2 DEF TypeOK, Loop
  <2>4. NothingLost'
    BY <1>4, <2>1, <2>2, <2>3, PollKept DEF TurnEnd
  <2>5. pc' \in Waiting \/ got = <<>>
    BY <2>2 DEF AfterTurn, Waiting
  <2> QED BY <2>3, <2>4, <2>5 DEF Kept
<1>5. CASE PollAsides \/ DrainAsides
  <2>1. NothingLost'
    BY <1>5, AsidesKept DEF PollAsides, DrainAsides
  <2> QED BY <1>5, <2>1 DEF PollAsides, DrainAsides, Kept, Waiting
<1>6. CASE BeforeYield
  <2>1. loop.pending = <<>> /\ UNCHANGED loop
    BY <1>6 DEF BeforeYield, Kept, Waiting
  <2> QED BY <1>6, <2>1 DEF BeforeYield, Kept, NothingLost, Delivered
<1>7. CASE DrainSteering
  <2>1. loop.pending = <<>> /\ pc' = "drainAsides"
    BY <1>7 DEF DrainSteering, Kept, Waiting
  <2>2. \/ loop'.pending = <<>> /\ UNCHANGED steering
        \/ /\ loop'.pending = Dequeued(steering, SteeringMode)
           /\ steering' = Remaining(steering, SteeringMode)
    BY <1>7 DEF DrainSteering, TypeOK, Loop
  <2>3. NothingLost'
    BY <1>7, <2>1, <2>2, PollKept DEF DrainSteering
  <2> QED BY <2>1, <2>3 DEF Kept, Waiting
<1>8. CASE DrainFollowUps
  <2> DEFINE got == IF aborted THEN <<>> ELSE Dequeued(followUp, FollowUpMode)
             all == loop.pending \o got
  <2>1. Elements(all) = Elements(loop.pending) \cup Elements(got)
    <3>1. got \in Seq(Posts) /\ loop.pending \in Seq(Posts)
      BY QueueTyped DEF TypeOK, Loop, Posts
    <3>2. Elements(loop.pending \o got) = Elements(loop.pending) \cup Elements(got)
      <4> DEFINE pending == loop.pending
      <4> HIDE DEF got, pending
      <4>1. pending \in Seq(Posts) /\ got \in Seq(Posts)
        BY <3>1 DEF pending
      <4>2. Elements(pending \o got) = Elements(pending) \cup Elements(got)
        BY <4>1, ElementsCat
      <4> QED BY <4>2 DEF pending
    <3> QED BY <3>2
  <2>2. Elements(followUp) = Elements(got) \cup Elements(followUp')
    BY <1>8, ElementsNone, ElementsDequeue DEF DrainFollowUps, TypeOK
  <2>3. \/ all = <<>> /\ loop' = FreshLoop
        \/ pc' = "turn" /\ loop' = [loop EXCEPT !.pending = all, !.hasMore = TRUE]
    BY <1>8 DEF DrainFollowUps, EndRun
  <2> HIDE DEF all
  <2>4. loop'.pending = all
    BY <2>3, FreshTyped DEF TypeOK, Loop
  <2>5. NothingLost'
    <3> HIDE DEF got
    <3>1. UNCHANGED <<messages, steering, asides, sent, removed>>
      BY <1>8 DEF DrainFollowUps
    <3> QED BY <2>1, <2>2, <2>4, <3>1 DEF Kept, NothingLost, Delivered
  <2>6. pc' \in Waiting \/ loop'.pending = <<>>
    BY <2>3, FreshTyped DEF Waiting
  <2> QED BY <2>5, <2>6 DEF Kept
<1> QED BY <1>1, <1>2, <1>3, <1>4, <1>5, <1>6, <1>7, <1>8, LoopQuiet DEF LoopStep

LEMMA OthersKept ==
  ASSUME TypeOK, Kept, UserStep \/ HostStep \/ UNCHANGED vars
  PROVE  Kept'
<1> USE DEF queues, host, run
<1>1. ASSUME NEW m \in Msgs, Steer(m) PROVE Kept'
  <2>1. Elements(steering') = Elements(steering) \cup {m}
    BY <1>1, ElementsAppend DEF Steer, TypeOK
  <2> QED BY <1>1, <2>1 DEF Steer, Kept, NothingLost, Delivered
<1>2. ASSUME NEW m \in Msgs, FollowUp(m) PROVE Kept'
  <2>1. Elements(followUp') = Elements(followUp) \cup {m}
    BY <1>2, ElementsAppend DEF FollowUp, TypeOK
  <2> QED BY <1>2, <2>1 DEF FollowUp, Kept, NothingLost, Delivered
<1>3. ASSUME NEW a \in AsideMsgs, Aside(a) PROVE Kept'
  <2>1. Elements(asides') = Elements(asides) \cup {a}
    BY <1>3, ElementsAppend DEF Aside, TypeOK
  <2> QED BY <1>3, <2>1 DEF Aside, Kept, NothingLost, Delivered
<1>4. CASE PopLastSteer
  <2>1. Elements(steering) = Elements(steering') \cup {steering[Len(steering)]}
    BY <1>4, ElementsPop DEF PopLastSteer, TypeOK
  <2> QED BY <1>4, <2>1 DEF PopLastSteer, Kept, NothingLost, Delivered
<1>5. CASE PopLastFollowUp
  <2>1. Elements(followUp) = Elements(followUp') \cup {followUp[Len(followUp)]}
    BY <1>5, ElementsPop DEF PopLastFollowUp, TypeOK
  <2> QED BY <1>5, <2>1 DEF PopLastFollowUp, Kept, NothingLost, Delivered
<1>6. ASSUME NEW h \in HardChoices, PushHard(h)
      PROVE  UNCHANGED <<messages, steering, followUp, asides, pc, loop, sent, removed>>
  BY <1>6 DEF PushHard
<1>7. ASSUME UNCHANGED <<messages, steering, followUp, asides, pc, loop, sent, removed>>
      PROVE  Kept'
  BY <1>7 DEF Kept, NothingLost, Delivered
<1>8. CASE Abort \/ ClearSoft \/ DeadlinePasses \/ DeadlineTimer \/ UNCHANGED vars
  BY <1>7, <1>8 DEF Abort, ClearSoft, DeadlinePasses, DeadlineTimer, vars
<1> QED BY <1>1, <1>2, <1>3, <1>4, <1>5, <1>6, <1>7, <1>8, PromptKept, ContinueKept
        DEF UserStep, HostStep

(* Until the deadline passes, no message handed to the agent is ever lost: *)
(* whatever aborts, errors, leaks, declines and pauses do to the run, it   *)
(* is in a queue, pending in the run, in the transcript or taken back.     *)
THEOREM NothingLostInTime == Spec => [](late \/ NothingLost)
<1>1. Init => Kept
  BY FreshTyped, ElementsNone DEF Init, Kept, NothingLost, Delivered
<1>2. TypeOK /\ Sampled /\ (late \/ Kept) /\ [Next]_vars => (late \/ Kept)'
  <2> SUFFICES ASSUME TypeOK, Sampled, late \/ Kept, [Next]_vars PROVE late' \/ Kept'
    OBVIOUS
  <2>1. late => late'
    <3>1. ASSUME NEW m \in Msgs, Prompt(m) \/ Steer(m) \/ FollowUp(m) PROVE late' = late
      BY <3>1 DEF Prompt, Steer, FollowUp
    <3>2. ASSUME NEW calls \in SUBSET Tools, NEW stop \in Stops, Reply(calls, stop)
          PROVE  late' = late
      BY <3>2 DEF Reply
    <3>3. ASSUME NEW calls \in SUBSET Tools,
                 \/ ProviderError(calls) \/ AbortReply(calls) \/ LeakRetry(calls)
                 \/ LeakRecovered(calls) \/ LeakGiveUp(calls) \/ ToolsDone(calls)
          PROVE  late' = late
      BY <3>3 DEF ProviderError, AbortReply, LeakRetry, LeakRecovered, LeakGiveUp, ToolsDone
    <3>4. CASE \/ RunStart \/ TurnTop \/ ResolveDirective \/ CallModel \/ ProviderThrows
               \/ TurnEnd \/ PollAsides \/ BeforeYield \/ DrainSteering \/ DrainAsides
               \/ DrainFollowUps
      BY <3>4 DEF RunStart, TurnTop, ResolveDirective, CallModel, ProviderThrows, TurnEnd,
                  PollAsides, BeforeYield, DrainSteering, DrainAsides, DrainFollowUps
    <3>5. CASE Continue \/ PopLastSteer \/ PopLastFollowUp \/ Abort \/ HostStep \/ UNCHANGED vars
      BY <3>5 DEF Continue, PopLastSteer, PopLastFollowUp, Abort, HostStep, Aside, PushHard,
                  ClearSoft, DeadlinePasses, DeadlineTimer, vars
    <3> QED BY <3>1, <3>2, <3>3, <3>4, <3>5 DEF Next, LoopStep, UserStep
  <2>2. Kept /\ ~late => Kept'
    BY LoopKept, OthersKept DEF Next
  <2> QED BY <2>1, <2>2
<1>3. Kept => NothingLost
  BY DEF Kept
<1> QED BY <1>1, <1>2, <1>3, Typed, PTL DEF Spec

(* An aborted run takes nothing from the queues, at any of its polls.      *)
THEOREM AbortKeepsQueues == Spec => QueuesKeptOnAbort
<1>1. aborted /\ LoopStep => UNCHANGED queues
  <2> SUFFICES ASSUME aborted, LoopStep PROVE UNCHANGED queues
    OBVIOUS
  <2>1. ASSUME NEW calls \in SUBSET Tools, NEW stop \in Stops, Reply(calls, stop)
        PROVE  UNCHANGED queues
    BY <2>1 DEF Reply
  <2>2. ASSUME NEW calls \in SUBSET Tools,
               \/ ProviderError(calls) \/ AbortReply(calls) \/ LeakRetry(calls)
               \/ LeakRecovered(calls) \/ LeakGiveUp(calls) \/ ToolsDone(calls)
        PROVE  UNCHANGED queues
    BY <2>2 DEF ProviderError, AbortReply, LeakRetry, LeakRecovered, LeakGiveUp, ToolsDone
  <2>3. CASE \/ TurnTop \/ ResolveDirective \/ CallModel \/ ProviderThrows \/ BeforeYield
    BY <2>3 DEF TurnTop, ResolveDirective, CallModel, ProviderThrows, BeforeYield
  <2>4. CASE RunStart \/ TurnEnd \/ DrainSteering \/ DrainFollowUps
    BY <2>4 DEF RunStart, TurnEnd, DrainSteering, DrainFollowUps, queues
  <2>5. CASE PollAsides \/ DrainAsides
    BY <2>5 DEF PollAsides, DrainAsides, TakeAsides, queues
  <2> QED BY <2>1, <2>2, <2>3, <2>4, <2>5 DEF LoopStep
<1> QED BY <1>1, PTL DEF Spec, QueuesKeptOnAbort
-----------------------------------------------------------------------------
(* Sequences that hold nothing twice but None.                             *)

Distinct(f) == \A i, j \in DOMAIN f : f[i] # None /\ f[i] = f[j] => i = j
Values(f) == Elements(f) \ {None}

LEMMA DistinctCat ==
  ASSUME NEW S, NEW a \in Seq(S), NEW b \in Seq(S), Distinct(a), Distinct(b),
         Values(a) \cap Values(b) = {}
  PROVE  Distinct(a \o b) /\ Values(a \o b) = Values(a) \cup Values(b)
<1> DEFINE c == a \o b
<1>1. Values(c) = Values(a) \cup Values(b)
  BY ElementsCat DEF Values
<1>2. ASSUME NEW i \in DOMAIN c, NEW j \in DOMAIN c, c[i] # None, c[i] = c[j] PROVE i = j
  <2>1. \A k \in DOMAIN c : \/ k \in DOMAIN a /\ c[k] = a[k]
                            \/ k - Len(a) \in DOMAIN b /\ c[k] = b[k - Len(a)]
    OBVIOUS
  <2>2. i \in Int /\ j \in Int /\ Len(a) \in Int
    OBVIOUS
  <2> HIDE DEF c
  <2>3. CASE i \in DOMAIN a /\ c[i] = a[i] /\ j \in DOMAIN a /\ c[j] = a[j]
    BY <1>2, <2>3 DEF Distinct
  <2>4. CASE /\ i - Len(a) \in DOMAIN b /\ c[i] = b[i - Len(a)]
             /\ j - Len(a) \in DOMAIN b /\ c[j] = b[j - Len(a)]
    <3>1. i - Len(a) = j - Len(a)
      BY <1>2, <2>4 DEF Distinct
    <3> QED BY <2>2, <3>1
  <2>5. ASSUME NEW k \in DOMAIN a, NEW l \in DOMAIN b PROVE a[k] # b[l] \/ a[k] = None
    BY <2>5 DEF Values, Elements
  <2> QED BY <1>2, <2>1, <2>3, <2>4, <2>5
<1> QED BY <1>1, <1>2 DEF Distinct

LEMMA DistinctOne == ASSUME NEW x PROVE Distinct(<<x>>) /\ Elements(<<x>>) = {x}
  BY DEF Distinct, Elements

LEMMA DistinctNone == Distinct(<<>>) /\ Values(<<>>) = {}
  BY DEF Distinct, Values, Elements

LEMMA DistinctAppend ==
  ASSUME NEW S, None \notin S, NEW q \in Seq(S), Distinct(q), NEW x \in S, x \notin Elements(q)
  PROVE  Distinct(Append(q, x))
<1>1. <<x>> \in Seq(S) /\ Append(q, x) = q \o <<x>>
  BY AppendCat
<1>2. Distinct(<<x>>) /\ Values(q) \cap Values(<<x>>) = {}
  BY DistinctOne DEF Values
<1>3. Distinct(q \o <<x>>)
  BY <1>1, <1>2, DistinctCat, Zenon
<1> QED BY <1>1, <1>3

LEMMA DistinctPop ==
  ASSUME NEW S, NEW q \in Seq(S), Distinct(q), q # <<>>
  PROVE  /\ Distinct(SubSeq(q, 1, Len(q) - 1))
         /\ Elements(SubSeq(q, 1, Len(q) - 1)) \subseteq Elements(q)
<1> DEFINE r == SubSeq(q, 1, Len(q) - 1)
<1>1. DOMAIN r \subseteq DOMAIN q /\ \A i \in DOMAIN r : r[i] = q[i]
  OBVIOUS
<1> HIDE DEF r
<1>2. Distinct(r) /\ Elements(r) \subseteq Elements(q)
  BY <1>1 DEF Distinct, Elements
<1> QED BY <1>2 DEF r

LEMMA DistinctDequeue ==
  ASSUME NEW S, None \notin S, NEW q \in Seq(S), NEW mode, Distinct(q)
  PROVE  /\ Distinct(Dequeued(q, mode)) /\ Distinct(Remaining(q, mode))
         /\ Elements(Dequeued(q, mode)) \cap Elements(Remaining(q, mode)) = {}
<1>1. CASE mode = "all" \/ q = <<>>
  BY <1>1, DistinctNone, ElementsNone DEF Dequeued, Remaining
<1>2. CASE ~(mode = "all" \/ q = <<>>)
  <2>1. Dequeued(q, mode) = <<Head(q)>> /\ Remaining(q, mode) = Tail(q)
    BY <1>2 DEF Dequeued, Remaining
  <2>2. /\ 1 \in DOMAIN q /\ Head(q) = q[1] /\ Head(q) # None
        /\ \A i \in DOMAIN Tail(q) : i \in Nat /\ i > 0 /\ i + 1 \in DOMAIN q /\ Tail(q)[i] = q[i + 1]
    BY <1>2
  <2>3. Head(q) \notin Elements(Tail(q))
    <3>1. ASSUME NEW i \in DOMAIN Tail(q), Tail(q)[i] = Head(q) PROVE FALSE
      <4>1. q[i + 1] = q[1] /\ q[1] # None /\ i + 1 # 1
        BY <2>2, <3>1
      <4> QED BY <2>2, <4>1 DEF Distinct
    <3> QED BY <3>1 DEF Elements
  <2>4. Distinct(Tail(q))
    <3>1. ASSUME NEW i \in DOMAIN Tail(q), NEW j \in DOMAIN Tail(q), Tail(q)[i] # None,
                 Tail(q)[i] = Tail(q)[j]
          PROVE  i = j
      <4>1. i + 1 = j + 1
        BY <2>2, <3>1 DEF Distinct
      <4> QED BY <2>2, <4>1
    <3> QED BY <3>1 DEF Distinct
  <2> QED BY <2>1, <2>3, <2>4, DistinctOne
<1> QED BY <1>1, <1>2

(* The messages of the entries of a transcript, in order.                  *)
Letters(ms) == [i \in DOMAIN ms |-> ms[i].msg]

LEMMA LettersTyped ==
  ASSUME NEW ms \in Seq(Entry)
  PROVE  /\ Letters(ms) \in Seq(Posts \cup {None}) /\ Len(Letters(ms)) = Len(ms)
         /\ Values(Letters(ms)) = Carried(ms)
<1>1. \A i \in DOMAIN ms : ms[i] \in Entry
  OBVIOUS
<1>2. Letters(ms) \in [1..Len(ms) -> Posts \cup {None}]
  BY <1>1 DEF Letters, Entry, Posts
<1>3. DOMAIN Letters(ms) = DOMAIN ms
  BY DEF Letters
<1>4. Values(Letters(ms)) = Carried(ms)
  BY DEF Values, Elements, Letters, Carried
<1> QED BY <1>2, <1>4

LEMMA SameSequence ==
  ASSUME NEW S, NEW f \in Seq(S), NEW g \in Seq(S), DOMAIN f = DOMAIN g,
         \A i \in DOMAIN f : f[i] = g[i]
  PROVE  f = g
  OBVIOUS

LEMMA LettersCat ==
  ASSUME NEW a \in Seq(Entry), NEW b \in Seq(Entry)
  PROVE  Letters(a \o b) = Letters(a) \o Letters(b)
<1>1. /\ Letters(a) \in Seq(Posts \cup {None}) /\ Len(Letters(a)) = Len(a)
      /\ Letters(b) \in Seq(Posts \cup {None}) /\ Len(Letters(b)) = Len(b)
  BY LettersTyped
<1>2. /\ DOMAIN (a \o b) = 1..(Len(a) + Len(b))
      /\ DOMAIN (Letters(a) \o Letters(b)) = 1..(Len(a) + Len(b))
      /\ DOMAIN Letters(a \o b) = DOMAIN (a \o b)
  <2>1. DOMAIN (a \o b) = 1..(Len(a) + Len(b))
    OBVIOUS
  <2>2. DOMAIN (Letters(a) \o Letters(b)) = 1..(Len(a) + Len(b))
    BY <1>1
  <2>3. DOMAIN Letters(a \o b) = DOMAIN (a \o b)
    BY DEF Letters
  <2> QED BY <2>1, <2>2, <2>3
<1>3. ASSUME NEW i \in 1..(Len(a) + Len(b))
      PROVE  Letters(a \o b)[i] = (Letters(a) \o Letters(b))[i]
  <2>1. Letters(a \o b)[i] = (a \o b)[i].msg
    BY <1>2 DEF Letters
  <2>2. CASE i <= Len(a)
    <3>1. i \in DOMAIN a /\ (a \o b)[i] = a[i] /\ (Letters(a) \o Letters(b))[i] = Letters(a)[i]
      BY <1>1, <1>3, <2>2
    <3> QED BY <2>1, <3>1 DEF Letters
  <2>3. CASE ~(i <= Len(a))
    <3>1. /\ i - Len(a) \in DOMAIN b /\ (a \o b)[i] = b[i - Len(a)]
          /\ (Letters(a) \o Letters(b))[i] = Letters(b)[i - Len(a)]
      BY <1>1, <1>3, <2>3
    <3> QED BY <2>1, <3>1 DEF Letters
  <2> QED BY <2>2, <2>3
<1>4. a \o b \in Seq(Entry) /\ Letters(a \o b) \in Seq(Posts \cup {None})
      /\ Letters(a) \o Letters(b) \in Seq(Posts \cup {None})
  BY <1>1, CatTyped, LettersTyped
<1> QED BY <1>2, <1>3, <1>4, SameSequence

(* Every message the agent was handed is in one place: once.               *)
SentOnce ==
  /\ Distinct(Letters(messages)) /\ Distinct(loop.pending)
  /\ Distinct(steering) /\ Distinct(followUp) /\ Distinct(asides)
  /\ Carried(messages) \cap (Elements(loop.pending) \cup Elements(steering)
                               \cup Elements(followUp) \cup Elements(asides)) = {}
  /\ Elements(loop.pending) \cap (Elements(steering) \cup Elements(followUp) \cup Elements(asides)) = {}
  /\ Elements(steering) \cap (Elements(followUp) \cup Elements(asides)) = {}
  /\ Elements(followUp) \cap Elements(asides) = {}
  /\ Carried(messages) \cup Elements(loop.pending) \cup Elements(steering)
       \cup Elements(followUp) \cup Elements(asides) \subseteq sent

LEMMA PostsNone == None \notin Posts /\ Msgs \subseteq Posts /\ AsideMsgs \subseteq Posts
  BY AgentLoopAssumption DEF Posts

(* Appending messages that are new to the transcript.                      *)
LEMMA UsersOnce ==
  ASSUME TypeOK, NEW q \in Seq(Posts), Distinct(q), Distinct(Letters(messages)),
         Carried(messages) \cap Elements(q) = {}
  PROVE  Distinct(Letters(messages \o Users(q)))
<1>1. messages \in Seq(Entry) /\ Users(q) \in Seq(Entry)
  BY UsersTyped DEF TypeOK
<1>2. Letters(Users(q)) = q
  <2>1. /\ DOMAIN Users(q) = DOMAIN q /\ \A i \in DOMAIN q : Users(q)[i].msg = q[i]
    BY UsersTyped DEF Users
  <2>2. Letters(Users(q)) \in Seq(Posts \cup {None}) /\ q \in Seq(Posts \cup {None})
    BY <1>1, LettersTyped
  <2>3. DOMAIN Letters(Users(q)) = DOMAIN q /\ \A i \in DOMAIN q : Letters(Users(q))[i] = q[i]
    BY <2>1 DEF Letters
  <2> QED BY <2>2, <2>3, SameSequence
<1>3. /\ Letters(messages) \in Seq(Posts \cup {None}) /\ q \in Seq(Posts \cup {None})
      /\ Values(Letters(messages)) = Carried(messages)
  BY <1>1, LettersTyped
<1>4. Values(Letters(messages)) \cap Values(q) = {}
  BY <1>3 DEF Values
<1>5. Distinct(Letters(messages) \o q)
  BY <1>3, <1>4, DistinctCat
<1> QED BY <1>1, <1>2, <1>5, LettersCat

LEMMA QuietOnce ==
  ASSUME TypeOK, SentOnce, QuietStep
  PROVE  SentOnce'
<1>1. PICK new : Quiet(new) /\ messages' = messages \o new
  BY DEF QuietStep
<1>2. new \in Seq(Entry) /\ messages \in Seq(Entry) /\ Carried(new) = {}
  BY <1>1, QuietCarried DEF Quiet, TypeOK
<1>3. Carried(messages') = Carried(messages)
  <2>1. Carried(messages \o new) = Carried(messages) \cup Carried(new)
    BY <1>2, CarriedCat, Zenon
  <2> QED BY <1>1, <1>2, <2>1
<1>4. Distinct(Letters(messages'))
  <2>1. /\ Letters(messages) \in Seq(Posts \cup {None}) /\ Letters(new) \in Seq(Posts \cup {None})
        /\ Values(Letters(new)) = {}
    BY <1>2, LettersTyped
  <2>2. Distinct(Letters(new))
    BY <2>1 DEF Distinct, Values, Elements
  <2>3. Distinct(Letters(messages) \o Letters(new))
    BY <2>1, <2>2, DistinctCat DEF SentOnce
  <2>4. Letters(messages \o new) = Letters(messages) \o Letters(new)
    BY <1>2, LettersCat, Zenon
  <2> QED BY <1>1, <2>3, <2>4
<1>5. Distinct(loop'.pending) /\ Elements(loop'.pending) \subseteq Elements(loop.pending)
  BY DistinctNone, ElementsNone DEF QuietStep, SentOnce
<1> QED BY <1>3, <1>4, <1>5 DEF SentOnce, QuietStep

(* A run starts on messages that come from a queue or from nowhere.        *)
LEMMA LaunchOnce ==
  ASSUME TypeOK, SentOnce, NEW q \in Seq(Posts), Distinct(q), NEW skip,
         Carried(messages) \cap Elements(q) = {}, Launch(Users(q), skip)
  PROVE  /\ Distinct(Letters(messages')) /\ Distinct(loop'.pending)
         /\ Elements(loop'.pending) = {}
         /\ Carried(messages') = Carried(messages) \cup Elements(q)
<1>1. messages' = messages \o Users(q) /\ loop'.pending = <<>>
  BY FreshTyped DEF Launch, Loop
<1> QED BY <1>1, UsersOnce, UsersCarried, DistinctNone, ElementsNone DEF SentOnce

LEMMA PromptOnce ==
  ASSUME TypeOK, SentOnce, NEW m \in Msgs, Prompt(m)
  PROVE  SentOnce'
<1>1. <<m>> \in Seq(Posts) /\ Distinct(<<m>>) /\ Elements(<<m>>) = {m}
  BY DistinctOne DEF Posts
<1>2. Users(<<m>>) = <<User(m)>>
  BY DEF Users
<1>3. Carried(messages) \cap Elements(<<m>>) = {}
  BY <1>1 DEF Prompt, SentOnce
<1>4. /\ Distinct(Letters(messages')) /\ Distinct(loop'.pending)
      /\ Elements(loop'.pending) = {} /\ Carried(messages') = Carried(messages) \cup {m}
  BY <1>1, <1>2, <1>3, LaunchOnce DEF Prompt
<1> QED BY <1>4 DEF Prompt, SentOnce, queues

LEMMA ContinueOnce ==
  ASSUME TypeOK, SentOnce, Continue
  PROVE  SentOnce'
<1>1. UNCHANGED <<asides, sent>>
  BY DEF Continue, queues
<1>2. /\ steering \in Seq(Posts) /\ followUp \in Seq(Posts) /\ None \notin Posts
  BY PostsNone DEF TypeOK, Posts
<1>3. CASE Launch(<<>>, FALSE) /\ UNCHANGED queues
  <2>1. <<>> \in Seq(Posts) /\ Users(<<>>) = <<>>
    BY DEF Users
  <2>2. /\ Distinct(Letters(messages')) /\ Distinct(loop'.pending)
        /\ Elements(loop'.pending) = {} /\ Carried(messages') = Carried(messages)
    BY <1>3, <2>1, LaunchOnce, DistinctNone, ElementsNone
  <2> QED BY <1>1, <1>3, <2>2 DEF SentOnce, queues
<1>4. CASE /\ Launch(Users(Dequeued(steering, SteeringMode)), TRUE)
           /\ steering' = Remaining(steering, SteeringMode)
           /\ UNCHANGED followUp
  <2> DEFINE q == Dequeued(steering, SteeringMode)
  <2>1. /\ q \in Seq(Posts) /\ Distinct(q) /\ Distinct(steering')
        /\ Elements(q) \cap Elements(steering') = {}
        /\ Elements(steering) = Elements(q) \cup Elements(steering')
    BY <1>2, <1>4, QueueTyped, DistinctDequeue, ElementsDequeue DEF SentOnce
  <2> HIDE DEF q
  <2>2. Carried(messages) \cap Elements(q) = {}
    BY <2>1 DEF SentOnce
  <2>3. /\ Distinct(Letters(messages')) /\ Distinct(loop'.pending)
        /\ Elements(loop'.pending) = {} /\ Carried(messages') = Carried(messages) \cup Elements(q)
    BY <1>4, <2>1, <2>2, LaunchOnce DEF q
  <2> QED BY <1>1, <1>4, <2>1, <2>3 DEF SentOnce
<1>5. CASE /\ Launch(Users(Dequeued(followUp, FollowUpMode)), FALSE)
           /\ followUp' = Remaining(followUp, FollowUpMode)
           /\ UNCHANGED steering
  <2> DEFINE q == Dequeued(followUp, FollowUpMode)
  <2>1. /\ q \in Seq(Posts) /\ Distinct(q) /\ Distinct(followUp')
        /\ Elements(q) \cap Elements(followUp') = {}
        /\ Elements(followUp) = Elements(q) \cup Elements(followUp')
    BY <1>2, <1>5, QueueTyped, DistinctDequeue, ElementsDequeue DEF SentOnce
  <2> HIDE DEF q
  <2>2. Carried(messages) \cap Elements(q) = {}
    BY <2>1 DEF SentOnce
  <2>3. /\ Distinct(Letters(messages')) /\ Distinct(loop'.pending)
        /\ Elements(loop'.pending) = {} /\ Carried(messages') = Carried(messages) \cup Elements(q)
    BY <1>5, <2>1, <2>2, LaunchOnce DEF q
  <2> QED BY <1>1, <1>5, <2>1, <2>3 DEF SentOnce
<1> QED BY <1>3, <1>4, <1>5 DEF Continue

(* A poll moves messages from the queue to loop.pending, or none.          *)
LEMMA PollOnce ==
  ASSUME TypeOK, SentOnce,
         \/ loop'.pending \in {loop.pending, <<>>} /\ UNCHANGED steering
         \/ /\ loop'.pending = Dequeued(steering, SteeringMode)
            /\ steering' = Remaining(steering, SteeringMode),
         UNCHANGED <<messages, followUp, asides, sent>>
  PROVE  SentOnce'
<1>1. CASE loop'.pending \in {loop.pending, <<>>} /\ UNCHANGED steering
  <2>1. Distinct(loop'.pending) /\ Elements(loop'.pending) \subseteq Elements(loop.pending)
    BY <1>1, DistinctNone, ElementsNone DEF SentOnce
  <2> QED BY <1>1, <2>1 DEF SentOnce
<1>2. CASE /\ loop'.pending = Dequeued(steering, SteeringMode)
           /\ steering' = Remaining(steering, SteeringMode)
  <2>1. steering \in Seq(Posts) /\ None \notin Posts
    BY PostsNone DEF TypeOK, Posts
  <2>2. /\ Distinct(loop'.pending) /\ Distinct(steering')
        /\ Elements(loop'.pending) \cap Elements(steering') = {}
        /\ Elements(steering) = Elements(loop'.pending) \cup Elements(steering')
    BY <1>2, <2>1, DistinctDequeue, ElementsDequeue DEF SentOnce
  <2> QED BY <2>2 DEF SentOnce
<1> QED BY <1>1, <1>2

LEMMA AsidesOnce ==
  ASSUME TypeOK, SentOnce, TakeAsides, UNCHANGED <<messages, steering, followUp, sent>>
  PROVE  SentOnce'
<1>1. /\ loop.pending \in Seq(Posts) /\ asides \in Seq(Posts) /\ None \notin Posts
  BY PostsNone DEF TypeOK, Loop, Posts
<1>2. loop'.pending = IF aborted THEN loop.pending ELSE loop.pending \o asides
  BY DEF TakeAsides, TypeOK, Loop
<1>3. CASE aborted
  BY <1>2, <1>3 DEF TakeAsides, SentOnce
<1>4. CASE ~aborted
  <2>1. Elements(loop.pending) \cap Elements(asides) = {} /\ Distinct(loop.pending) /\ Distinct(asides)
    BY DEF SentOnce
  <2>2. Distinct(loop.pending \o asides)
    BY <1>1, <2>1, DistinctCat DEF Values
  <2>3. Elements(loop.pending \o asides) = Elements(loop.pending) \cup Elements(asides)
    BY <1>1, ElementsCat
  <2>4. asides' = <<>> /\ loop'.pending = loop.pending \o asides
    BY <1>2, <1>4 DEF TakeAsides
  <2>5. /\ Distinct(loop'.pending) /\ Distinct(asides') /\ Elements(asides') = {}
        /\ Elements(loop'.pending) = Elements(loop.pending) \cup Elements(asides)
    BY <2>2, <2>3, <2>4, DistinctNone, ElementsNone
  <2> QED BY <2>5 DEF SentOnce
<1> QED BY <1>3, <1>4

LEMMA FollowUpsOnce ==
  ASSUME TypeOK, SentOnce, DrainFollowUps
  PROVE  SentOnce'
<1> DEFINE got == IF aborted THEN <<>> ELSE Dequeued(followUp, FollowUpMode)
           all == loop.pending \o got
<1>1. /\ loop.pending \in Seq(Posts) /\ followUp \in Seq(Posts) /\ None \notin Posts
      /\ Distinct(loop.pending) /\ Distinct(followUp)
      /\ Elements(loop.pending) \cap Elements(followUp) = {}
  BY PostsNone DEF TypeOK, Loop, Posts, SentOnce
<1>2. followUp' = IF aborted THEN followUp ELSE Remaining(followUp, FollowUpMode)
  BY DEF DrainFollowUps
<1>3. /\ got \in Seq(Posts) /\ Distinct(got) /\ Distinct(followUp')
      /\ Elements(got) \cap Elements(followUp') = {}
      /\ Elements(followUp) = Elements(got) \cup Elements(followUp')
  BY <1>1, <1>2, QueueTyped, DistinctDequeue, ElementsDequeue, DistinctNone, ElementsNone
<1>4. \/ all = <<>> /\ loop' = FreshLoop
      \/ loop' = [loop EXCEPT !.pending = all, !.hasMore = TRUE]
  BY DEF DrainFollowUps, EndRun
<1> HIDE DEF got
<1>5. Distinct(all) /\ Elements(all) = Elements(loop.pending) \cup Elements(got)
  <2>1. Values(loop.pending) \cap Values(got) = {}
    BY <1>1, <1>3 DEF Values
  <2>2. Distinct(loop.pending \o got)
    BY <1>1, <1>3, <2>1, DistinctCat
  <2>3. Elements(loop.pending \o got) = Elements(loop.pending) \cup Elements(got)
    BY <1>1, <1>3, ElementsCat
  <2> QED BY <2>2, <2>3
<1> HIDE DEF all
<1>6. loop'.pending = all
  BY <1>4, FreshTyped DEF TypeOK, Loop
<1>7. UNCHANGED <<messages, steering, asides, sent>>
  BY DEF DrainFollowUps
<1> QED BY <1>1, <1>3, <1>5, <1>6, <1>7 DEF SentOnce

LEMMA LoopOnce ==
  ASSUME TypeOK, Sampled, SentOnce, LoopStep
  PROVE  SentOnce'
<1> USE DEF queues, host
<1>1. CASE QuietStep
  BY <1>1, QuietOnce
<1>2. CASE RunStart \/ TurnEnd \/ BeforeYield \/ DrainSteering
  <2>1. ASSUME NEW got, loop' = [loop EXCEPT !.pending = got] PROVE loop'.pending = got
    BY <2>1 DEF TypeOK, Loop
  <2>2. ASSUME loop' = FreshLoop PROVE loop'.pending = <<>>
    BY <2>2, FreshTyped
  <2>3. \/ loop'.pending \in {loop.pending, <<>>} /\ UNCHANGED steering
        \/ /\ loop'.pending = Dequeued(steering, SteeringMode)
           /\ steering' = Remaining(steering, SteeringMode)
    <3>1. CASE RunStart
      <4>1. ASSUME NEW skip, loop' = [loop EXCEPT !.skipPoll = skip]
            PROVE  loop'.pending = loop.pending
        BY <4>1 DEF TypeOK, Loop
      <4> QED BY <3>1, <2>1, <2>2, <4>1 DEF RunStart, EndRun
    <3>2. CASE TurnEnd
      BY <3>2, <2>1, <2>2 DEF TurnEnd, EndRun
    <3>3. CASE BeforeYield
      BY <3>3, <2>1, <2>2 DEF BeforeYield, EndRun
    <3>4. CASE DrainSteering
      BY <3>4, <2>1, <2>2 DEF DrainSteering, EndRun
    <3> QED BY <1>2, <3>1, <3>2, <3>3, <3>4
  <2>4. UNCHANGED <<messages, followUp, asides, sent>>
    BY <1>2 DEF RunStart, TurnEnd, BeforeYield, DrainSteering
  <2> QED BY <2>3, <2>4, PollOnce
<1>3. CASE TurnTop
  <2>1. CASE late
    <3>1. loop'.pending = <<>> /\ UNCHANGED <<messages, steering, followUp, asides, sent>>
      BY <1>3, <2>1, FreshTyped DEF TurnTop, EndRun
    <3> QED BY <3>1, PollOnce
  <2>2. CASE ~late
    <3>1. /\ messages' = messages \o Users(loop.pending)
          /\ loop' = [loop EXCEPT !.pending = <<>>]
          /\ UNCHANGED <<steering, followUp, asides, sent>>
      BY <1>3, <2>2 DEF TurnTop
    <3>2. loop.pending \in Seq(Posts) /\ loop'.pending = <<>>
      BY <3>1 DEF TypeOK, Loop, Posts
    <3>3. /\ Distinct(loop.pending) /\ Distinct(Letters(messages))
          /\ Carried(messages) \cap Elements(loop.pending) = {}
      BY DEF SentOnce
    <3>4. Carried(messages') = Carried(messages) \cup Elements(loop.pending)
      BY <3>1, <3>2, UsersCarried
    <3>5. Distinct(Letters(messages'))
      BY <3>1, <3>2, <3>3, UsersOnce
    <3>6. Distinct(loop'.pending) /\ Elements(loop'.pending) = {}
      BY <3>2, DistinctNone, ElementsNone
    <3> QED BY <3>1, <3>4, <3>5, <3>6 DEF SentOnce
  <2> QED BY <2>1, <2>2
<1>4. CASE PollAsides \/ DrainAsides
  BY <1>4, AsidesOnce DEF PollAsides, DrainAsides
<1> QED BY <1>1, <1>2, <1>3, <1>4, LoopQuiet, FollowUpsOnce DEF LoopStep

LEMMA OthersOnce ==
  ASSUME TypeOK, SentOnce, UserStep \/ HostStep \/ UNCHANGED vars
  PROVE  SentOnce'
<1> USE DEF queues, host, run
<1>1. None \notin Msgs /\ None \notin AsideMsgs
  BY AgentLoopAssumption
<1>2. ASSUME NEW m \in Msgs, Steer(m) PROVE SentOnce'
  <2>1. m \notin Elements(steering) /\ Distinct(steering)
    BY <1>2 DEF Steer, SentOnce
  <2>2. Distinct(steering') /\ Elements(steering') = Elements(steering) \cup {m}
    BY <1>1, <1>2, <2>1, DistinctAppend, ElementsAppend DEF Steer, TypeOK
  <2> QED BY <1>2, <2>2 DEF Steer, SentOnce
<1>3. ASSUME NEW m \in Msgs, FollowUp(m) PROVE SentOnce'
  <2>1. m \notin Elements(followUp) /\ Distinct(followUp)
    BY <1>3 DEF FollowUp, SentOnce
  <2>2. Distinct(followUp') /\ Elements(followUp') = Elements(followUp) \cup {m}
    BY <1>1, <1>3, <2>1, DistinctAppend, ElementsAppend DEF FollowUp, TypeOK
  <2> QED BY <1>3, <2>2 DEF FollowUp, SentOnce
<1>4. ASSUME NEW a \in AsideMsgs, Aside(a) PROVE SentOnce'
  <2>1. a \notin Elements(asides) /\ Distinct(asides)
    BY <1>4 DEF Aside, SentOnce
  <2>2. Distinct(asides') /\ Elements(asides') = Elements(asides) \cup {a}
    BY <1>1, <1>4, <2>1, DistinctAppend, ElementsAppend DEF Aside, TypeOK
  <2> QED BY <1>4, <2>2 DEF Aside, SentOnce
<1>5. CASE PopLastSteer
  <2>1. Distinct(steering') /\ Elements(steering') \subseteq Elements(steering)
    BY <1>5, DistinctPop DEF PopLastSteer, TypeOK, SentOnce
  <2> QED BY <1>5, <2>1 DEF PopLastSteer, SentOnce
<1>6. CASE PopLastFollowUp
  <2>1. Distinct(followUp') /\ Elements(followUp') \subseteq Elements(followUp)
    BY <1>6, DistinctPop DEF PopLastFollowUp, TypeOK, SentOnce
  <2> QED BY <1>6, <2>1 DEF PopLastFollowUp, SentOnce
<1>7. ASSUME UNCHANGED <<messages, steering, followUp, asides, loop, sent>> PROVE SentOnce'
  BY <1>7 DEF SentOnce
<1>8. ASSUME NEW h \in HardChoices, PushHard(h) PROVE SentOnce'
  BY <1>7, <1>8 DEF PushHard
<1>9. CASE Abort \/ ClearSoft \/ DeadlinePasses \/ DeadlineTimer \/ UNCHANGED vars
  BY <1>7, <1>9 DEF Abort, ClearSoft, DeadlinePasses, DeadlineTimer, vars
<1> QED BY <1>2, <1>3, <1>4, <1>5, <1>6, <1>8, <1>9, PromptOnce, ContinueOnce
        DEF UserStep, HostStep

(* The places a message can be in, written one after the other, hold it    *)
(* once.                                                                   *)
LEMMA PlacesOnce ==
  ASSUME TypeOK, SentOnce, Lawful(messages)
  PROVE  AtMostOnce
<1> DEFINE held   == loop.pending \o steering \o followUp \o asides
           written == Users(held)
           places == messages \o written
<1>1. /\ loop.pending \in Seq(Posts) /\ steering \in Seq(Posts)
      /\ followUp \in Seq(Posts) /\ asides \in Seq(Posts) /\ None \notin Posts
  BY PostsNone DEF TypeOK, Loop, Posts
<1>2. ASSUME NEW a \in Seq(Posts), NEW b \in Seq(Posts), Distinct(a), Distinct(b),
             Elements(a) \cap Elements(b) = {}
      PROVE  a \o b \in Seq(Posts) /\ Distinct(a \o b) /\ Elements(a \o b) = Elements(a) \cup Elements(b)
  BY <1>2, CatTyped, DistinctCat, ElementsCat DEF Values
<1>3. LET a == loop.pending \o steering IN
      /\ a \in Seq(Posts) /\ Distinct(a)
      /\ Elements(a) = Elements(loop.pending) \cup Elements(steering)
  BY <1>1, <1>2 DEF SentOnce
<1>4. LET b == loop.pending \o steering \o followUp IN
      /\ b \in Seq(Posts) /\ Distinct(b)
      /\ Elements(b) = Elements(loop.pending) \cup Elements(steering) \cup Elements(followUp)
  <2> DEFINE a == loop.pending \o steering
  <2>1. /\ a \in Seq(Posts) /\ Distinct(a) /\ Elements(a) \cap Elements(followUp) = {}
        /\ Elements(a) = Elements(loop.pending) \cup Elements(steering)
        /\ Distinct(followUp)
    BY <1>3 DEF SentOnce
  <2> HIDE DEF a
  <2>2. /\ a \o followUp \in Seq(Posts) /\ Distinct(a \o followUp)
        /\ Elements(a \o followUp) = Elements(a) \cup Elements(followUp)
    BY <1>1, <1>2, <2>1
  <2> QED BY <2>1, <2>2 DEF a
<1>5. /\ held \in Seq(Posts) /\ Distinct(held)
      /\ Elements(held) = Elements(loop.pending) \cup Elements(steering)
                            \cup Elements(followUp) \cup Elements(asides)
  <2> DEFINE b == loop.pending \o steering \o followUp
  <2>1. /\ b \in Seq(Posts) /\ Distinct(b) /\ Elements(b) \cap Elements(asides) = {}
        /\ Elements(b) = Elements(loop.pending) \cup Elements(steering) \cup Elements(followUp)
        /\ Distinct(asides)
    BY <1>4 DEF SentOnce
  <2> HIDE DEF b
  <2>2. /\ b \o asides \in Seq(Posts) /\ Distinct(b \o asides)
        /\ Elements(b \o asides) = Elements(b) \cup Elements(asides)
    BY <1>1, <1>2, <2>1
  <2> QED BY <2>1, <2>2 DEF b
<1>6. Carried(messages) \cap Elements(held) = {} /\ Distinct(Letters(messages))
  BY <1>5 DEF SentOnce
<1> HIDE DEF held
<1>7. Distinct(Letters(places))
  BY <1>5, <1>6, UsersOnce
<1>8. written \in Seq(Entry) /\ \A i \in DOMAIN written : written[i].msg # None
  BY <1>1, <1>5, UsersTyped DEF Users
<1> HIDE DEF written
<1>9. \A i \in DOMAIN places : places[i].role = "user" => places[i].msg # None
  <2>1. \A i \in DOMAIN (messages \o written) :
          \/ \E j \in DOMAIN messages : (messages \o written)[i] = messages[j]
          \/ \E j \in DOMAIN written : (messages \o written)[i] = written[j]
    <3>1. messages \in Seq(Entry) /\ written \in Seq(Entry)
      BY <1>8 DEF TypeOK
    <3> QED BY <3>1, CatParts
  <2>2. \A j \in DOMAIN messages : messages[j].role = "user" => messages[j].msg # None
    BY DEF Lawful, Legal
  <2> QED BY <1>8, <2>1, <2>2, Zenon
<1> HIDE DEF places
<1>10. \A i, j \in DOMAIN places :
        places[i].role = "user" /\ places[j].role = "user" /\ places[i].msg = places[j].msg
          => i = j
  <2>1. DOMAIN Letters(places) = DOMAIN places /\ \A i \in DOMAIN places : Letters(places)[i] = places[i].msg
    BY DEF Letters
  <2> QED BY <1>7, <1>9, <2>1 DEF Distinct
<1> QED BY <1>10 DEF AtMostOnce, places, written, held

(* Nothing handed to the agent is ever doubled, deadline or not: a message *)
(* is delivered once, or waits in one queue, once; a dequeue takes it out  *)
(* in the step that puts it into the run, and a run that ends drops what   *)
(* it holds rather than put it back.                                       *)
THEOREM DeliveredOnce == Spec => []AtMostOnce
<1>1. Init => SentOnce
  <2> SUFFICES ASSUME Init PROVE SentOnce
    OBVIOUS
  <2>1. Letters(<<>>) = <<>> /\ Carried(<<>>) = {}
    BY DEF Letters, Carried
  <2> QED BY <2>1, FreshTyped, DistinctNone, ElementsNone DEF Init, SentOnce
<1>2. TypeOK /\ Sampled /\ SentOnce /\ [Next]_vars => SentOnce'
  BY LoopOnce, OthersOnce DEF Next
<1>3. TypeOK /\ SentOnce /\ Lawful(messages) => AtMostOnce
  BY PlacesOnce
<1> QED BY <1>1, <1>2, <1>3, Typed, LawfulAlways, PTL DEF Spec

-----------------------------------------------------------------------------
(* A run leaves its inner loop on an answer: hasMore is FALSE only after a *)
(* message without calls, or past the deadline.  A leak's retry skips that *)
(* test, so models with mitigation are left out.                           *)

Answered(ms) == ms # <<>> /\ ms[Len(ms)].role = "assistant"

Ending ==
  /\ pc \in {"yield", "drain", "drainAsides", "drainFollowUps"} => Answered(messages)
  /\ pc = "turnEnd" /\ ~loop.hasMore => late \/ Answered(messages)
  /\ pc = "tools" => loop.hasMore
  /\ pc = "idle" /\ outcome = "done" => Answered(messages)

LEMMA AnsweredReply ==
  ASSUME TypeOK, NEW calls \in SUBSET Tools, NEW stop \in Stops
  PROVE  Answered(messages \o (<<>> \o <<Assistant(calls, stop)>>))
<1>1. Assistant(calls, stop) \in Entry
  BY ReplyTyped DEF TypeOK
<1>2. Assistant(calls, stop).role = "assistant"
  BY DEF Assistant, Blank
<1>3. messages \in Seq(Entry)
  BY DEF TypeOK
<1> QED BY <1>1, <1>2, <1>3 DEF Answered

LEMMA ReplyEnding ==
  ASSUME TypeOK, NEW calls \in SUBSET Tools, NEW stop \in Stops, Reply(calls, stop)
  PROVE  Ending'
<1> DEFINE lp == [loop EXCEPT !.retries = 0, !.resumes = 0]
<1>1. lp \in Loop
  BY BoundsTyped DEF TypeOK, Loop
<1>2. Settle(calls, stop, <<>>, lp) /\ late' = late
  BY DEF Reply
<1> HIDE DEF lp
<1>3. Settled(calls, lp) \in Loop
  BY <1>1, SettledTyped
<1>4. CASE DeclinedTooOften(calls, stop, <<>>, lp)
  BY <1>4 DEF DeclinedTooOften, FailRun, EndRun, Ending
<1>5. CASE Escalates(calls, stop, <<>>, lp)
  <2>1. loop'.hasMore = TRUE
    BY <1>3, <1>5 DEF Escalates, Loop
  <2> QED BY <1>5, <2>1 DEF Escalates, Ending
<1>6. CASE RunsTools(calls, stop, <<>>, lp)
  <2>1. loop'.hasMore = TRUE
    BY <1>3, <1>6 DEF RunsTools, Loop
  <2> QED BY <1>6, <2>1 DEF RunsTools, Ending
<1>7. CASE SkipsTools(calls, stop, <<>>, lp)
  <2>1. loop'.hasMore = (stop = "length" /\ ~late)
    BY <1>3, <1>7 DEF SkipsTools, Loop
  <2>2. pc' = "turnEnd" /\ (stop = "length" \/ late)
    BY <1>7 DEF SkipsTools
  <2> QED BY <1>2, <2>1, <2>2 DEF Ending
<1>8. CASE Answers(calls, stop, <<>>, lp)
  <2>1. pc' = "turnEnd" /\ messages' = messages \o (<<>> \o <<Assistant(calls, stop)>>)
    BY <1>8 DEF Answers, Extend
  <2> QED BY <2>1, AnsweredReply DEF Ending
<1> QED BY <1>2, <1>4, <1>5, <1>6, <1>7, <1>8 DEF Settle

LEMMA EndingKept ==
  ASSUME ~Leaks, TypeOK, Ending, [Next]_vars
  PROVE  Ending'
<1> USE DEF queues, host, run
<1>1. ASSUME NEW calls \in SUBSET Tools, ProviderError(calls) \/ AbortReply(calls)
      PROVE  Ending'
  BY <1>1 DEF ProviderError, AbortReply, ReplyEnds, EndRun, Ending
<1>2. ASSUME NEW calls \in SUBSET Tools,
             LeakRetry(calls) \/ LeakRecovered(calls) \/ LeakGiveUp(calls)
      PROVE  Ending'
  BY <1>2 DEF LeakRetry, LeakRecovered, LeakGiveUp
<1>3. ASSUME NEW ran \in SUBSET Tools, ToolsDone(ran) PROVE Ending'
  BY <1>3 DEF ToolsDone, Ending
<1>4. CASE RunStart \/ TurnTop \/ ResolveDirective \/ CallModel \/ ProviderThrows
  BY <1>4 DEF RunStart, TurnTop, ResolveDirective, CallModel, ProviderThrows, FailRun,
              EndRun, Ending
<1>5. CASE TurnEnd
  <2>1. CASE late
    BY <1>5, <2>1 DEF TurnEnd, EndRun, Ending
  <2>2. CASE ~late
    <3>1. PICK got : loop' = [loop EXCEPT !.pending = got] /\ pc' = AfterTurn(got)
      BY <1>5, <2>2 DEF TurnEnd
    <3>2. loop'.hasMore = loop.hasMore
      BY <3>1 DEF TypeOK, Loop
    <3> QED BY <1>5, <2>2, <3>1, <3>2 DEF TurnEnd, AfterTurn, Ending
  <2> QED BY <2>1, <2>2
<1>6. CASE PollAsides \/ BeforeYield \/ DrainSteering \/ DrainAsides
  BY <1>6 DEF PollAsides, BeforeYield, DrainSteering, DrainAsides, EndRun, Ending
<1>7. CASE DrainFollowUps
  <2>1. /\ messages' = messages /\ Answered(messages)
        /\ pc' \in {"idle", "turn"}
    BY <1>7 DEF DrainFollowUps, EndRun, Ending
  <2> QED BY <2>1 DEF Ending
<1>8. ASSUME NEW m \in Msgs, Prompt(m) PROVE Ending'
  BY <1>8 DEF Prompt, Launch, Ending
<1>9. CASE Continue
  BY <1>9 DEF Continue, Launch, Ending
<1>10. ASSUME UNCHANGED <<messages, pc, loop, outcome>>, late => late' PROVE Ending'
  BY <1>10 DEF Ending
<1>11. ASSUME NEW m \in Msgs, Steer(m) \/ FollowUp(m) PROVE Ending'
  BY <1>10, <1>11 DEF Steer, FollowUp
<1>12. CASE PopLastSteer \/ PopLastFollowUp \/ Abort \/ HostStep \/ UNCHANGED vars
  BY <1>10, <1>12 DEF PopLastSteer, PopLastFollowUp, Abort, HostStep, Aside, PushHard,
                      ClearSoft, DeadlinePasses, DeadlineTimer, vars
<1> QED BY <1>1, <1>2, <1>3, <1>4, <1>5, <1>6, <1>7, <1>8, <1>9, <1>11, <1>12, ReplyEnding
        DEF Next, LoopStep, UserStep

(* Without leak mitigation, a run that ended because nothing was left to   *)
(* do ended on an answer, whatever was steered, queued or taken back while *)
(* it ended.                                                               *)
THEOREM EndsAnswered == ASSUME ~Leaks PROVE Spec => []RunEndsAnswered
<1>1. Init => Ending
  BY DEF Init, Ending
<1>2. TypeOK /\ Ending /\ [Next]_vars => Ending'
  BY EndingKept
<1>3. Ending => RunEndsAnswered
  BY DEF Ending, Answered, RunEndsAnswered
<1> QED BY <1>1, <1>2, <1>3, TypeCorrect, PTL DEF Spec

-----------------------------------------------------------------------------
(* A hard choice is in the host's queue, then in the turn's locals, then on *)
(* the message the turn keeps: in one of them at a time.                   *)

Choice(e) == IF e.stop = "discarded" THEN None ELSE e.choice
Governed(ms) == {Choice(ms[i]) : i \in DOMAIN ms} \ {None}
ChosenOnce(ms) ==
  \A i, j \in DOMAIN ms : Choice(ms[i]) # None /\ Choice(ms[i]) = Choice(ms[j]) => i = j

(* What a step appends is sampled under no choice, or one message of it    *)
(* under the turn's.                                                       *)
Free(new) == new \in Seq(Entry) /\ Governed(new) = {}
One(new) == new \in Seq(Entry) /\ ChosenOnce(new) /\ Governed(new) \subseteq {loop.hostChoice}

LEMMA ChosenCat ==
  ASSUME NEW a \in Seq(Entry), NEW b \in Seq(Entry), ChosenOnce(a), ChosenOnce(b),
         Governed(a) \cap Governed(b) = {}
  PROVE  ChosenOnce(a \o b) /\ Governed(a \o b) = Governed(a) \cup Governed(b)
<1> DEFINE c == a \o b
<1>1. /\ \A k \in DOMAIN c : \/ k \in DOMAIN a /\ c[k] = a[k]
                             \/ k - Len(a) \in DOMAIN b /\ c[k] = b[k - Len(a)]
      /\ \A k \in DOMAIN a : k \in DOMAIN c /\ c[k] = a[k]
      /\ \A k \in DOMAIN b : k + Len(a) \in DOMAIN c /\ c[k + Len(a)] = b[k]
  OBVIOUS
<1>2. \A k \in DOMAIN c : k \in Int /\ Len(a) \in Int
  OBVIOUS
<1> HIDE DEF c
<1>3. Governed(c) = Governed(a) \cup Governed(b)
  BY <1>1 DEF Governed
<1>4. ASSUME NEW i \in DOMAIN c, NEW j \in DOMAIN c, Choice(c[i]) # None,
             Choice(c[i]) = Choice(c[j])
      PROVE  i = j
  <2>1. CASE i \in DOMAIN a /\ c[i] = a[i] /\ j \in DOMAIN a /\ c[j] = a[j]
    BY <1>4, <2>1 DEF ChosenOnce
  <2>2. CASE /\ i - Len(a) \in DOMAIN b /\ c[i] = b[i - Len(a)]
             /\ j - Len(a) \in DOMAIN b /\ c[j] = b[j - Len(a)]
    <3>1. i - Len(a) = j - Len(a)
      BY <1>4, <2>2 DEF ChosenOnce
    <3> QED BY <1>2, <3>1
  <2>3. ASSUME NEW k \in DOMAIN a, NEW l \in DOMAIN b, Choice(a[k]) = Choice(b[l])
        PROVE  Choice(a[k]) = None
    BY <2>3 DEF Governed
  <2> QED BY <1>1, <1>4, <2>1, <2>2, <2>3
<1>5. ChosenOnce(c)
  BY <1>4 DEF ChosenOnce
<1> QED BY <1>3, <1>5 DEF c

LEMMA FreeChosen ==
  ASSUME NEW new, Free(new)
  PROVE  ChosenOnce(new)
  BY DEF Free, Governed, ChosenOnce

LEMMA OneCat ==
  ASSUME NEW a, NEW b, \/ Free(a) /\ One(b)
                       \/ One(a) /\ Free(b)
  PROVE  One(a \o b)
<1>1. a \in Seq(Entry) /\ b \in Seq(Entry) /\ ChosenOnce(a) /\ ChosenOnce(b)
  BY FreeChosen DEF Free, One
<1>2. /\ Governed(a) \cap Governed(b) = {}
      /\ Governed(a) \cup Governed(b) \subseteq {loop.hostChoice}
  BY DEF Free, One
<1>3. a \o b \in Seq(Entry)
  BY <1>1, CatTyped
<1>4. ChosenOnce(a \o b) /\ Governed(a \o b) = Governed(a) \cup Governed(b)
  BY <1>1, <1>2, ChosenCat
<1> QED BY <1>2, <1>3, <1>4 DEF One

LEMMA FreeNothing == Free(<<>>)
  BY DEF Free, Governed

LEMMA OneReply ==
  ASSUME TypeOK, NEW calls \in SUBSET Tools, NEW stop \in Stops
  PROVE  One(<<Assistant(calls, stop)>>)
<1> DEFINE e == Assistant(calls, stop)
<1>1. e \in Entry
  BY ReplyTyped DEF TypeOK
<1>2. Choice(e) \in {loop.hostChoice, None}
  BY DEF Choice, Assistant, Blank
<1> HIDE DEF e
<1>3. DOMAIN <<e>> = {1} /\ <<e>>[1] = e /\ <<e>> \in Seq(Entry)
  BY <1>1
<1>4. Governed(<<e>>) \subseteq {loop.hostChoice}
  BY <1>2, <1>3 DEF Governed
<1>5. ChosenOnce(<<e>>)
  BY <1>3 DEF ChosenOnce
<1> QED BY <1>3, <1>4, <1>5 DEF One, e

LEMMA FreeResults ==
  ASSUME TypeOK, NEW calls \in SUBSET Tools, NEW ran \in SUBSET Tools
  PROVE  Free(Results(calls, ran))
<1> DEFINE e == [Blank EXCEPT !.role = "results", !.step = step, !.calls = calls,
                              !.ran = ran, !.required = loop.required]
<1>1. Results(calls, ran) = (IF calls = {} THEN <<>> ELSE <<e>>) /\ e.choice = None
  BY DEF Results, Blank
<1>2. Results(calls, ran) \in Seq(Entry)
  BY ResultsTyped DEF TypeOK
<1> HIDE DEF e
<1>3. Governed(<<>>) = {} /\ Governed(<<e>>) = {}
  BY <1>1 DEF Governed, Choice
<1> QED BY <1>1, <1>2, <1>3 DEF Free

LEMMA FreeDiscarded ==
  ASSUME TypeOK, NEW calls \in SUBSET Tools, NEW d \in Discarded(calls)
  PROVE  Free(d)
<1> DEFINE e == Assistant(calls, "discarded")
<1>1. e \in Entry /\ e.stop = "discarded"
  BY ReplyTyped DEF TypeOK, Stops, Assistant, Blank
<1>2. d \in {<<>>, <<e>>}
  BY DEF Discarded
<1> HIDE DEF e
<1>3. Governed(<<e>>) = {} /\ <<e>> \in Seq(Entry)
  BY <1>1 DEF Governed, Choice
<1> QED BY <1>2, <1>3, FreeNothing DEF Free

LEMMA FreeUsers ==
  ASSUME NEW q \in Seq(Posts)
  PROVE  Free(Users(q))
<1>1. \A x : Choice(User(x)) = None
  BY DEF Choice, User, Blank
<1>2. \A i \in DOMAIN Users(q) : Users(q)[i] = User(q[i])
  BY DEF Users
<1>3. Governed(Users(q)) = {}
  BY <1>1, <1>2 DEF Governed
<1> QED BY <1>3, UsersTyped DEF Free

Choosing ==
  /\ Distinct(hardQueue) /\ Elements(hardQueue) \subseteq used
  /\ ChosenOnce(messages) /\ Governed(messages) \subseteq used \ Elements(hardQueue)
  /\ loop.hostChoice # None => loop.hostChoice \in used \ Elements(hardQueue)
  /\ loop.resolved /\ loop.hostChoice # None => loop.hostChoice \notin Governed(messages)
  /\ pc \in {"call", "stream"} => loop.resolved
  /\ loop.required = None \/ loop.hostChoice = None

(* The locals a step leaves: those of the turn, or fresh ones.             *)
Retained ==
  /\ loop'.hostChoice \in {loop.hostChoice, None}
  /\ loop'.required \in {loop.required, None}

LEMMA FreeAppended ==
  ASSUME TypeOK, ChosenOnce(messages), NEW new, Free(new), messages' = messages \o new
  PROVE  ChosenOnce(messages') /\ Governed(messages') = Governed(messages)
<1>1. messages \in Seq(Entry) /\ new \in Seq(Entry) /\ ChosenOnce(new)
  BY FreeChosen DEF TypeOK, Free
<1>2. Governed(messages) \cap Governed(new) = {} /\ Governed(new) = {}
  BY DEF Free
<1>3. /\ ChosenOnce(messages \o new)
      /\ Governed(messages \o new) = Governed(messages) \cup Governed(new)
  BY <1>1, <1>2, ChosenCat
<1> QED BY <1>2, <1>3

LEMMA FreeStep ==
  ASSUME TypeOK, Choosing, NEW new, Free(new), messages' = messages \o new, Retained,
         loop'.resolved => loop.resolved, pc' \in {"call", "stream"} => loop'.resolved,
         hardQueue' = hardQueue, used \subseteq used'
  PROVE  Choosing'
<1>1. ChosenOnce(messages') /\ Governed(messages') = Governed(messages)
  BY FreeAppended DEF Choosing
<1> QED BY <1>1 DEF Choosing, Retained

(* A turn's message may carry the turn's choice: the turn is over then.    *)
LEMMA TurnStep ==
  ASSUME TypeOK, Choosing, pc \in {"call", "stream"}, NEW new, One(new),
         messages' = messages \o new, Retained, ~loop'.resolved, pc' \notin {"call", "stream"},
         hardQueue' = hardQueue, used' = used
  PROVE  Choosing'
<1>1. /\ messages \in Seq(Entry) /\ new \in Seq(Entry) /\ ChosenOnce(new)
      /\ Governed(new) \subseteq {loop.hostChoice} \ {None}
  BY DEF TypeOK, One, Governed
<1>2. Governed(messages) \cap Governed(new) = {} /\ Governed(new) \subseteq used \ Elements(hardQueue)
  BY <1>1 DEF Choosing
<1>3. /\ ChosenOnce(messages \o new)
      /\ Governed(messages \o new) = Governed(messages) \cup Governed(new)
  BY <1>1, <1>2, ChosenCat DEF Choosing
<1>4. ChosenOnce(messages') /\ Governed(messages') = Governed(messages) \cup Governed(new)
  BY <1>3
<1> QED BY <1>2, <1>4 DEF Choosing, Retained

LEMMA FreshRetained ==
  ASSUME loop' = FreshLoop
  PROVE  Retained /\ ~loop'.resolved
  BY DEF FreshLoop, Retained

LEMMA FailChoosing ==
  ASSUME TypeOK, Choosing, pc = "stream", NEW before, Free(before), FailRun(before),
         hardQueue' = hardQueue, used' = used
  PROVE  Choosing'
<1>1. One(<<Assistant({}, "error")>>)
  BY OneReply DEF Stops
<1>2. One(before \o <<Assistant({}, "error")>>)
  BY <1>1, OneCat
<1> QED BY <1>2, FreshRetained, TurnStep DEF FailRun, EndRun

LEMMA SettledRetained ==
  ASSUME NEW lp \in Loop, NEW calls
  PROVE  /\ Settled(calls, lp).hostChoice = lp.hostChoice
         /\ Settled(calls, lp).required = lp.required
         /\ Settled(calls, lp).resolved = FALSE
  BY DEF Settled, Loop

LEMMA SettleChoosing ==
  ASSUME TypeOK, Choosing, pc = "stream", NEW calls \in SUBSET Tools, NEW stop \in Stops,
         NEW discarded, Free(discarded), NEW lp \in Loop, lp.hostChoice = loop.hostChoice,
         lp.required = loop.required, Settle(calls, stop, discarded, lp),
         hardQueue' = hardQueue, used' = used
  PROVE  Choosing'
<1>1. One(<<Assistant(calls, stop)>>) /\ Free(Results(calls, {}))
  BY OneReply, FreeResults
<1>2. One(discarded \o <<Assistant(calls, stop)>>)
  BY <1>1, OneCat
<1>3. One(discarded \o Unanswered(calls, stop))
  BY <1>1, OneCat DEF Unanswered
<1>4. /\ Settled(calls, lp) \in Loop
      /\ Settled(calls, lp).hostChoice = loop.hostChoice
      /\ Settled(calls, lp).required = loop.required
      /\ Settled(calls, lp).resolved = FALSE
  BY SettledTyped, SettledRetained
<1>5. CASE DeclinedTooOften(calls, stop, discarded, lp)
  <2>1. loop.hostChoice = None
    BY <1>5 DEF DeclinedTooOften, Declined, Choosing
  <2>2. Free(discarded \o <<Assistant(calls, stop)>>)
    BY <1>2, <2>1 DEF One, Free, Governed
  <2> QED BY <1>5, <2>2, FailChoosing DEF DeclinedTooOften
<1>6. CASE Escalates(calls, stop, discarded, lp)
  <2>1. Retained /\ ~loop'.resolved
    BY <1>4, <1>6 DEF Escalates, Retained, Loop
  <2> QED BY <1>3, <1>6, <2>1, TurnStep DEF Escalates, Extend
<1>7. CASE RunsTools(calls, stop, discarded, lp)
  <2>1. Retained /\ ~loop'.resolved
    BY <1>4, <1>7 DEF RunsTools, Retained, Loop
  <2> QED BY <1>2, <1>7, <2>1, TurnStep DEF RunsTools, Extend
<1>8. CASE SkipsTools(calls, stop, discarded, lp)
  <2>1. Retained /\ ~loop'.resolved
    BY <1>4, <1>8 DEF SkipsTools, Retained, Loop
  <2> QED BY <1>3, <1>8, <2>1, TurnStep DEF SkipsTools, Extend
<1>9. CASE Answers(calls, stop, discarded, lp)
  <2>1. Retained /\ ~loop'.resolved
    BY <1>4, <1>9 DEF Answers, Retained, Loop
  <2> QED BY <1>2, <1>9, <2>1, TurnStep DEF Answers, Extend
<1> QED BY <1>5, <1>6, <1>7, <1>8, <1>9 DEF Settle

LEMMA DirectiveChoosing ==
  ASSUME TypeOK, Choosing, ResolveDirective
  PROVE  Choosing'
<1>1. Free(<<>>) /\ messages = messages \o <<>>
  BY FreeNothing DEF TypeOK
<1>2. used' = used /\ pc' = "call"
  BY DEF ResolveDirective
<1>3. CASE loop.resolved /\ UNCHANGED <<loop, hardQueue, messages, context>>
  BY <1>1, <1>2, <1>3, FreeStep DEF Retained
<1>4. CASE ~loop.resolved
  <2>1. /\ loop'.hostChoice = IF TakesHard THEN Head(hardQueue) ELSE None
        /\ loop'.required = IF AsksSoft THEN RequiredTool ELSE None
        /\ loop'.resolved = TRUE
    BY <1>4 DEF ResolveDirective, TypeOK, Loop
  <2>2. /\ hardQueue' = IF TakesHard THEN Tail(hardQueue) ELSE hardQueue
        /\ messages' = messages \o Reminder
    BY <1>4 DEF ResolveDirective
  <2>3. ChosenOnce(messages') /\ Governed(messages') = Governed(messages)
    <3>1. Free(Reminder)
      <4>1. <<Blank>> \in Seq(Entry) /\ Choice(Blank) = None
        BY BlankTyped DEF Blank, Choice
      <4>2. Free(<<Blank>>)
        BY <4>1 DEF Free, Governed
      <4> QED BY <4>2, FreeNothing DEF Reminder
    <3> QED BY <2>2, <3>1, FreeAppended DEF Choosing
  <2>4. loop'.required = None \/ loop'.hostChoice = None
    BY <2>1 DEF TakesHard, AsksSoft
  <2>5. CASE TakesHard
    <3>1. hardQueue \in Seq(HardChoices) /\ hardQueue # <<>> /\ None \notin HardChoices
      BY <2>5, AgentLoopAssumption DEF TypeOK, TakesHard
    <3> DEFINE q == <<Head(hardQueue)>>
    <3>2. /\ Distinct(hardQueue') /\ Elements(q) \cap Elements(hardQueue') = {}
          /\ Elements(hardQueue) = Elements(q) \cup Elements(hardQueue')
      <4>1. /\ Dequeued(hardQueue, "one-at-a-time") = q
            /\ Remaining(hardQueue, "one-at-a-time") = hardQueue'
        BY <2>2, <2>5, <3>1 DEF Dequeued, Remaining
      <4> HIDE DEF q
      <4> QED BY <3>1, <4>1, DistinctDequeue, ElementsDequeue DEF Choosing
    <3>3. Elements(q) = {loop'.hostChoice}
      BY <2>1, <2>5, DistinctOne
    <3> HIDE DEF q
    <3>4. /\ loop'.hostChoice \in used \ Elements(hardQueue')
          /\ loop'.hostChoice \notin Governed(messages')
      BY <2>3, <3>2, <3>3 DEF Choosing
    <3> QED BY <1>2, <2>1, <2>3, <2>4, <3>2, <3>4 DEF Choosing
  <2>6. CASE ~TakesHard
    <3>1. hardQueue' = hardQueue /\ loop'.hostChoice = None
      BY <2>1, <2>2, <2>6
    <3> QED BY <1>2, <2>1, <2>3, <2>4, <3>1 DEF Choosing
  <2> QED BY <2>5, <2>6
<1> QED BY <1>3, <1>4 DEF ResolveDirective

LEMMA LoopChoosing ==
  ASSUME TypeOK, Sampled, Choosing, LoopStep
  PROVE  Choosing'
<1> USE DEF queues, host
<1>1. Free(<<>>) /\ messages = messages \o <<>>
  BY FreeNothing DEF TypeOK
<1>2. \A p, s : \A h \in BOOLEAN :
        /\ [loop EXCEPT !.pending = p].hostChoice = loop.hostChoice
        /\ [loop EXCEPT !.pending = p].required = loop.required
        /\ [loop EXCEPT !.pending = p].resolved = loop.resolved
        /\ [loop EXCEPT !.pending = p, !.hasMore = h].hostChoice = loop.hostChoice
        /\ [loop EXCEPT !.pending = p, !.hasMore = h].required = loop.required
        /\ [loop EXCEPT !.pending = p, !.hasMore = h].resolved = loop.resolved
        /\ [loop EXCEPT !.skipPoll = s].hostChoice = loop.hostChoice
        /\ [loop EXCEPT !.skipPoll = s].required = loop.required
        /\ [loop EXCEPT !.skipPoll = s].resolved = loop.resolved
  BY DEF TypeOK, Loop
<1>3. CASE RunStart \/ TurnEnd \/ PollAsides \/ BeforeYield \/ DrainSteering \/ DrainAsides
           \/ DrainFollowUps
  <2>1. /\ UNCHANGED <<messages, hardQueue, used>>
        /\ pc' \notin {"call", "stream"}
    BY <1>3 DEF RunStart, TurnEnd, PollAsides, BeforeYield, DrainSteering, DrainAsides,
                DrainFollowUps, AfterTurn, EndRun
  <2>2. \/ loop' = FreshLoop \/ loop' = loop
        \/ \E p : loop' = [loop EXCEPT !.pending = p]
        \/ \E p : loop' = [loop EXCEPT !.pending = p, !.hasMore = TRUE]
        \/ \E s : loop' = [loop EXCEPT !.skipPoll = s]
    BY <1>3 DEF RunStart, TurnEnd, PollAsides, BeforeYield, DrainSteering, DrainAsides,
                DrainFollowUps, TakeAsides, EndRun
  <2>3. Retained /\ (loop'.resolved => loop.resolved)
    <3>1. CASE loop' = FreshLoop
      BY <3>1, FreshRetained
    <3>2. CASE loop' # FreshLoop
      <4>1. /\ loop'.hostChoice = loop.hostChoice /\ loop'.required = loop.required
            /\ loop'.resolved = loop.resolved
        <5>1. ASSUME NEW p, loop' = [loop EXCEPT !.pending = p]
              PROVE  /\ loop'.hostChoice = loop.hostChoice /\ loop'.required = loop.required
                     /\ loop'.resolved = loop.resolved
          BY <1>2, <5>1
        <5>2. ASSUME NEW p, loop' = [loop EXCEPT !.pending = p, !.hasMore = TRUE]
              PROVE  /\ loop'.hostChoice = loop.hostChoice /\ loop'.required = loop.required
                     /\ loop'.resolved = loop.resolved
          BY <1>2, <5>2
        <5>3. ASSUME NEW s, loop' = [loop EXCEPT !.skipPoll = s]
              PROVE  /\ loop'.hostChoice = loop.hostChoice /\ loop'.required = loop.required
                     /\ loop'.resolved = loop.resolved
          BY <1>2, <5>3
        <5> QED BY <2>2, <3>2, <5>1, <5>2, <5>3
      <4> QED BY <4>1 DEF Retained
    <3> QED BY <3>1, <3>2
  <2> QED BY <1>1, <2>1, <2>3, FreeStep
<1>4. CASE TurnTop
  <2>1. Free(Users(loop.pending))
    BY FreeUsers DEF TypeOK, Loop, Posts
  <2>2. \E new \in {<<>>, Users(loop.pending)} : messages' = messages \o new
    BY <1>1, <1>4 DEF TurnTop
  <2>3. Retained /\ (loop'.resolved => loop.resolved)
    <3>1. loop' = FreshLoop \/ \E p : loop' = [loop EXCEPT !.pending = p]
      BY <1>4 DEF TurnTop, EndRun
    <3> QED BY <1>2, <3>1, FreshRetained DEF Retained
  <2>4. pc' \notin {"call", "stream"} /\ UNCHANGED <<hardQueue, used>>
    BY <1>4 DEF TurnTop, EndRun
  <2> QED BY <1>1, <2>1, <2>2, <2>3, <2>4, FreeStep
<1>5. CASE CallModel
  <2>1. CASE aborted
    <3>1. "aborted" \in Stops /\ {} \in SUBSET Tools
      BY DEF Stops
    <3>2. One(<<Assistant({}, "aborted")>>)
      BY <3>1, OneReply
    <3>3. messages' = messages \o <<Assistant({}, "aborted")>>
      <4>1. Assistant({}, "aborted") \in Entry
        BY <3>1, ReplyTyped DEF TypeOK
      <4>2. messages' = Append(messages, Assistant({}, "aborted"))
        BY <1>5, <2>1 DEF CallModel
      <4> QED BY <4>1, <4>2, AppendCat DEF TypeOK
    <3> QED BY <1>5, <2>1, <3>2, <3>3, FreshRetained, TurnStep DEF CallModel, EndRun
  <2>2. CASE ~aborted
    <3>1. messages' = messages /\ loop' = loop /\ pc = "call" /\ UNCHANGED <<hardQueue, used>>
      BY <1>5, <2>2 DEF CallModel
    <3> QED BY <1>1, <3>1, FreeStep DEF Retained, Choosing
  <2> QED BY <2>1, <2>2
<1>6. CASE ProviderThrows
  BY <1>1, <1>6, FailChoosing DEF ProviderThrows
<1>7. ASSUME NEW calls \in SUBSET Tools, ProviderError(calls) \/ AbortReply(calls)
      PROVE  Choosing'
  <2>1. PICK stop \in {"error", "aborted"} : ReplyEnds(calls, stop)
    BY <1>7 DEF ProviderError, AbortReply
  <2>2. One(<<Assistant(calls, stop)>>) /\ Free(Results(calls, {}))
    BY OneReply, FreeResults DEF Stops
  <2>3. One(<<Assistant(calls, stop)>> \o Results(calls, {}))
    BY <2>2, OneCat
  <2> QED BY <1>7, <2>1, <2>3, FreshRetained, TurnStep
          DEF ProviderError, AbortReply, ReplyEnds, EndRun
<1>8. ASSUME NEW calls \in SUBSET Tools, NEW stop \in Stops, Reply(calls, stop)
      PROVE  Choosing'
  <2> DEFINE lp == [loop EXCEPT !.retries = 0, !.resumes = 0]
  <2>1. lp \in Loop /\ lp.hostChoice = loop.hostChoice /\ lp.required = loop.required
    BY BoundsTyped DEF TypeOK, Loop
  <2>2. Settle(calls, stop, <<>>, lp)
    BY <1>8 DEF Reply
  <2> HIDE DEF lp
  <2> QED BY <1>1, <1>8, <2>1, <2>2, SettleChoosing DEF Reply
<1>9. ASSUME NEW calls \in SUBSET Tools, LeakRetry(calls) PROVE Choosing'
  <2>1. Retained /\ loop'.resolved = loop.resolved
    BY <1>9 DEF LeakRetry, TypeOK, Loop, Retained
  <2>2. PICK d \in Discarded(calls) : messages' = messages \o d
    BY <1>9 DEF LeakRetry
  <2>3. pc' \notin {"call", "stream"} /\ UNCHANGED <<hardQueue, used>>
    BY <1>9 DEF LeakRetry
  <2> QED BY <2>1, <2>2, <2>3, FreeDiscarded, FreeStep
<1>10. ASSUME NEW calls \in SUBSET Tools, LeakRecovered(calls) PROVE Choosing'
  <2> DEFINE lp == [loop EXCEPT !.retries = 0, !.resumes = @ + 1]
  <2>1. lp \in Loop /\ lp.hostChoice = loop.hostChoice /\ lp.required = loop.required
    <3>1. loop.resumes + 1 \in 0..MaxHarmony /\ 0 \in 0..MaxHarmony
      BY <1>10, BoundsTyped DEF LeakRecovered, TypeOK, Loop
    <3> QED BY <3>1 DEF TypeOK, Loop
  <2>2. PICK d \in Discarded(calls) : Settle(calls, "toolUse", d, lp)
    BY <1>10 DEF LeakRecovered
  <2>3. "toolUse" \in Stops
    BY DEF Stops
  <2> HIDE DEF lp
  <2> QED BY <1>10, <2>1, <2>2, <2>3, FreeDiscarded, SettleChoosing DEF LeakRecovered
<1>11. ASSUME NEW calls \in SUBSET Tools, LeakGiveUp(calls) PROVE Choosing'
  <2>1. PICK d \in Discarded(calls) : FailRun(d)
    BY <1>11 DEF LeakGiveUp
  <2> QED BY <1>11, <2>1, FreeDiscarded, FailChoosing DEF LeakGiveUp
<1>12. ASSUME NEW ran \in SUBSET Tools, ToolsDone(ran) PROVE Choosing'
  <2> DEFINE calls == context[Len(context)].calls
  <2>1. calls \in SUBSET Tools
    <3>1. Len(context) \in DOMAIN context
      BY <1>12 DEF ToolsDone, Sampled, TypeOK
    <3>2. context[Len(context)] \in Entry
      BY <3>1 DEF TypeOK
    <3> QED BY <3>2 DEF Entry
  <2>2. messages' = messages \o Results(calls, ran)
    BY <1>12 DEF ToolsDone
  <2> HIDE DEF calls
  <2>3. Free(Results(calls, ran))
    BY <2>1, FreeResults
  <2>4. /\ loop' = loop /\ hardQueue' = hardQueue /\ used \subseteq used'
        /\ pc' = "turnEnd"
    BY <1>12 DEF ToolsDone
  <2> QED BY <2>2, <2>3, <2>4, FreeStep DEF Retained
<1> QED BY <1>3, <1>4, <1>5, <1>6, <1>7, <1>8, <1>9, <1>10, <1>11, <1>12, DirectiveChoosing
        DEF LoopStep

LEMMA OthersChoosing ==
  ASSUME TypeOK, Choosing, UserStep \/ HostStep \/ UNCHANGED vars
  PROVE  Choosing'
<1> USE DEF queues, host, run
<1>1. Free(<<>>) /\ messages = messages \o <<>>
  BY FreeNothing DEF TypeOK
<1>2. ASSUME NEW prompts, Free(prompts), NEW skip, Launch(prompts, skip),
             UNCHANGED <<hardQueue, used>>
      PROVE  Choosing'
  <2>1. Retained /\ ~loop'.resolved
    BY <1>2 DEF Launch, FreshLoop, Retained
  <2> QED BY <1>2, <2>1, FreeStep DEF Launch
<1>3. ASSUME NEW m \in Msgs, Prompt(m) PROVE Choosing'
  <2>1. <<m>> \in Seq(Posts) /\ Users(<<m>>) = <<User(m)>>
    BY DEF Posts, Users
  <2> QED BY <1>2, <1>3, <2>1, FreeUsers DEF Prompt
<1>4. CASE Continue
  <2>1. Dequeued(steering, SteeringMode) \in Seq(Posts) /\ Dequeued(followUp, FollowUpMode) \in Seq(Posts)
    BY QueueTyped DEF TypeOK, Posts
  <2> QED BY <1>1, <1>2, <1>4, <2>1, FreeUsers DEF Continue
<1>5. ASSUME UNCHANGED <<messages, hardQueue, pc, loop, used>> PROVE Choosing'
  BY <1>5 DEF Choosing
<1>6. ASSUME NEW m \in Msgs, Steer(m) \/ FollowUp(m) PROVE Choosing'
  BY <1>5, <1>6 DEF Steer, FollowUp
<1>7. ASSUME NEW h \in HardChoices, PushHard(h) PROVE Choosing'
  <2>1. None \notin HardChoices /\ hardQueue \in Seq(HardChoices) /\ h \notin used
    BY <1>7, AgentLoopAssumption DEF PushHard, TypeOK
  <2>2. h \notin Elements(hardQueue) /\ Distinct(hardQueue)
    BY <2>1 DEF Choosing
  <2>3. Distinct(hardQueue') /\ Elements(hardQueue') = Elements(hardQueue) \cup {h}
    BY <1>7, <2>1, <2>2, DistinctAppend, ElementsAppend DEF PushHard
  <2>4. used' = used \cup {h} /\ UNCHANGED <<messages, pc, loop>>
    BY <1>7 DEF PushHard
  <2> QED BY <2>1, <2>3, <2>4 DEF Choosing
<1>8. ASSUME NEW a \in AsideMsgs, Aside(a) PROVE Choosing'
  BY <1>5, <1>8 DEF Aside
<1>9. CASE \/ PopLastSteer \/ PopLastFollowUp \/ Abort \/ ClearSoft \/ DeadlinePasses
           \/ DeadlineTimer \/ UNCHANGED vars
  BY <1>5, <1>9 DEF PopLastSteer, PopLastFollowUp, Abort, ClearSoft, DeadlinePasses,
                    DeadlineTimer, vars
<1> QED BY <1>3, <1>4, <1>6, <1>7, <1>8, <1>9 DEF UserStep, HostStep

(* A hard choice governs one kept message, whatever leaks are retried,     *)
(* recovered or given up on: it is taken from the queue once, and no turn  *)
(* that kept a message under it samples again under it.                    *)
THEOREM OneTurnPerChoice == Spec => []HardChoiceOneTurn
<1>1. Init => Choosing
  <2> SUFFICES ASSUME Init PROVE Choosing
    OBVIOUS
  <2>1. ChosenOnce(<<>>) /\ Governed(<<>>) = {}
    BY FreeNothing, FreeChosen DEF Free
  <2> QED BY <2>1, DistinctNone, ElementsNone DEF Init, Choosing, FreshLoop
<1>2. TypeOK /\ Sampled /\ Choosing /\ [Next]_vars => Choosing'
  BY LoopChoosing, OthersChoosing DEF Next
<1>3. Choosing => HardChoiceOneTurn
  BY DEF Choosing, ChosenOnce, Choice, HardChoiceOneTurn
<1> QED BY <1>1, <1>2, <1>3, Typed, PTL DEF Spec

-----------------------------------------------------------------------------
(* Calls and results.  A step appends what is paired in itself, or, while  *)
(* a batch runs, leaves both arrays with one open message at their end.    *)

LEMMA PairedCat ==
  ASSUME NEW a \in Seq(Entry), NEW b \in Seq(Entry), Paired(a), Paired(b)
  PROVE  Paired(a \o b)
<1> DEFINE c == a \o b
<1>1. /\ \A k \in DOMAIN c : \/ k \in DOMAIN a /\ c[k] = a[k]
                             \/ k - Len(a) \in DOMAIN b /\ c[k] = b[k - Len(a)]
      /\ \A k \in DOMAIN a : k \in DOMAIN c /\ c[k] = a[k]
      /\ \A k \in DOMAIN b : k + Len(a) \in DOMAIN c /\ c[k + Len(a)] = b[k]
  OBVIOUS
<1>2. /\ Len(a) \in Nat /\ Len(b) \in Nat /\ Len(c) = Len(a) + Len(b)
      /\ DOMAIN a = 1..Len(a) /\ DOMAIN b = 1..Len(b) /\ DOMAIN c = 1..Len(c)
  OBVIOUS
<1> HIDE DEF c
<1>3. ASSUME NEW i \in DOMAIN c, c[i].role = "assistant", c[i].calls # {}
      PROVE  /\ i < Len(c) /\ c[i + 1].role = "results"
             /\ c[i + 1].step = c[i].step /\ c[i + 1].calls = c[i].calls
  <2>1. CASE i \in DOMAIN a /\ c[i] = a[i]
    <3>1. /\ i < Len(a) /\ a[i + 1].role = "results"
          /\ a[i + 1].step = a[i].step /\ a[i + 1].calls = a[i].calls
      BY <1>3, <2>1 DEF Paired
    <3>2. c[i + 1] = a[i + 1]
      BY <1>1, <1>2, <2>1, <3>1
    <3> QED BY <1>2, <2>1, <3>1, <3>2
  <2>2. CASE i - Len(a) \in DOMAIN b /\ c[i] = b[i - Len(a)]
    <3> DEFINE j == i - Len(a)
    <3>1. /\ j < Len(b) /\ b[j + 1].role = "results"
          /\ b[j + 1].step = b[j].step /\ b[j + 1].calls = b[j].calls
      BY <1>3, <2>2 DEF Paired
    <3>2. c[i + 1] = b[j + 1] /\ i < Len(c)
      <4>1. j + 1 \in DOMAIN b /\ (j + 1) + Len(a) = i + 1
        BY <1>2, <2>2, <3>1
      <4> QED BY <1>1, <1>2, <3>1, <4>1
    <3> QED BY <2>2, <3>1, <3>2
  <2> QED BY <1>1, <2>1, <2>2
<1>4. ASSUME NEW i \in DOMAIN c, c[i].role = "results"
      PROVE  i > 1 /\ c[i - 1].role = "assistant" /\ c[i - 1].calls = c[i].calls
  <2>1. CASE i \in DOMAIN a /\ c[i] = a[i]
    <3>1. i > 1 /\ a[i - 1].role = "assistant" /\ a[i - 1].calls = a[i].calls
      BY <1>4, <2>1 DEF Paired
    <3>2. c[i - 1] = a[i - 1]
      BY <1>1, <1>2, <2>1, <3>1
    <3> QED BY <2>1, <3>1, <3>2
  <2>2. CASE i - Len(a) \in DOMAIN b /\ c[i] = b[i - Len(a)]
    <3> DEFINE j == i - Len(a)
    <3>1. j > 1 /\ b[j - 1].role = "assistant" /\ b[j - 1].calls = b[j].calls
      BY <1>4, <2>2 DEF Paired
    <3>2. c[i - 1] = b[j - 1] /\ i > 1
      <4>1. /\ j \in DOMAIN b /\ i \in Nat /\ i = j + Len(a)
            /\ j \in 1..Len(b) /\ Len(a) \in Nat /\ Len(b) \in Nat
        BY <1>2, <2>2
      <4> HIDE DEF j
      <4>2. j - 1 \in 1..Len(b) /\ (j - 1) + Len(a) = i - 1
        BY <3>1, <4>1
      <4>3. j - 1 \in DOMAIN b
        BY <1>2, <4>2
      <4> QED BY <1>1, <1>2, <3>1, <4>1, <4>2, <4>3
    <3> QED BY <2>2, <3>1, <3>2
  <2> QED BY <1>1, <2>1, <2>2
<1>5. Paired(c)
  BY <1>3, <1>4 DEF Paired
<1> QED BY <1>5 DEF c

(* Entries that neither call nor answer are paired.                        *)
Plain(e) == e.role # "results" /\ (e.role = "assistant" => e.calls = {})

LEMMA PairedPlain ==
  ASSUME NEW new \in Seq(Entry), \A i \in DOMAIN new : Plain(new[i])
  PROVE  Paired(new)
  BY DEF Plain, Paired

LEMMA PairedNothing == <<>> \in Seq(Entry) /\ Paired(<<>>)
  BY DEF Paired

LEMMA PairedUsers ==
  ASSUME NEW q \in Seq(Posts)
  PROVE  Users(q) \in Seq(Entry) /\ Paired(Users(q))
<1>1. \A x : Plain(User(x))
  BY DEF Plain, User, Blank
<1>2. Users(q) \in Seq(Entry) /\ \A i \in DOMAIN Users(q) : Users(q)[i] = User(q[i])
  BY UsersTyped DEF Users
<1> QED BY <1>1, <1>2, PairedPlain

LEMMA PairedReply ==
  ASSUME TypeOK, NEW stop \in Stops
  PROVE  <<Assistant({}, stop)>> \in Seq(Entry) /\ Paired(<<Assistant({}, stop)>>)
<1> DEFINE e == Assistant({}, stop)
<1>1. e \in Entry
  BY ReplyTyped DEF TypeOK
<1>2. Plain(e)
  BY DEF Plain, Assistant, Blank
<1> HIDE DEF e
<1>3. <<e>> \in Seq(Entry) /\ \A i \in DOMAIN <<e>> : Plain(<<e>>[i])
  BY <1>1, <1>2
<1>4. <<e>> \in Seq(Entry) /\ Paired(<<e>>)
  BY <1>3, PairedPlain
<1> QED BY <1>4 DEF e

(* A message that calls, followed by the results of its calls.             *)
LEMMA PairedAnswer ==
  ASSUME NEW e \in Entry, NEW r \in Entry, e.role = "assistant", r.role = "results",
         r.calls = e.calls, r.step = e.step
  PROVE  <<e>> \o <<r>> \in Seq(Entry) /\ Paired(<<e>> \o <<r>>)
<1> DEFINE c == <<e>> \o <<r>>
<1>1. <<e>> \in Seq(Entry) /\ <<r>> \in Seq(Entry)
  OBVIOUS
<1>2. c \in Seq(Entry)
  BY <1>1, CatTyped
<1>3. Len(c) = 2 /\ c[1] = e /\ c[2] = r
  BY <1>1
<1> HIDE DEF c
<1>4. \A i \in DOMAIN c : i = 1 \/ i = 2
  BY <1>2, <1>3
<1>5. Paired(c)
  BY <1>3, <1>4 DEF Paired
<1> QED BY <1>2, <1>5 DEF c

LEMMA PairedUnanswered ==
  ASSUME TypeOK, NEW calls \in SUBSET Tools, NEW stop \in Stops
  PROVE  /\ Unanswered(calls, stop) \in Seq(Entry)
         /\ Paired(Unanswered(calls, stop))
<1> DEFINE e == Assistant(calls, stop)
           r == [Blank EXCEPT !.role = "results", !.step = step, !.calls = calls,
                              !.ran = {}, !.required = loop.required]
<1>1. e \in Entry /\ e.role = "assistant" /\ e.calls = calls /\ e.step = step
  BY ReplyTyped DEF TypeOK, Assistant, Blank
<1>2. r \in Entry /\ r.role = "results" /\ r.calls = calls /\ r.step = step
  BY DEF Blank, Entry, TypeOK, Loop
<1>3. Unanswered(calls, stop) = <<e>> \o (IF calls = {} THEN <<>> ELSE <<r>>)
  BY DEF Unanswered, Results
<1>4. CASE calls = {}
  <2>1. <<e>> \in Seq(Entry) /\ Paired(<<e>>)
    BY <1>4, PairedReply
  <2> HIDE DEF e
  <2>2. <<e>> \o <<>> = <<e>>
    OBVIOUS
  <2> QED BY <1>3, <1>4, <2>1, <2>2
<1> HIDE DEF e, r
<1>5. CASE calls # {}
  BY <1>1, <1>2, <1>3, <1>5, PairedAnswer
<1> QED BY <1>4, <1>5

(* Without previews no requirement is ever pending, and nothing is         *)
(* declined.  While a batch runs, its message is the last of both arrays.  *)
Open(ms, e) == \E p \in Seq(Entry) : Paired(p) /\ ms = p \o <<e>>

Pairing ==
  /\ loop.required = None /\ soft = None
  /\ pc # "tools" => Paired(messages) /\ Paired(context)
  /\ pc = "tools" => \E e \in Entry : /\ e.role = "assistant" /\ e.calls # {} /\ e.step = step
                                      /\ Open(messages, e) /\ Open(context, e)

LEMMA PairedStep ==
  ASSUME TypeOK, Pairing, pc # "tools", NEW new \in Seq(Entry), Paired(new),
         messages' = messages \o new, context' \in {context \o new, context, messages \o new},
         pc' # "tools", soft' = None, loop'.required = None
  PROVE  Pairing'
<1>1. messages \in Seq(Entry) /\ context \in Seq(Entry) /\ Paired(messages) /\ Paired(context)
  BY DEF TypeOK, Pairing
<1>2. Paired(messages \o new) /\ Paired(context \o new)
  BY <1>1, PairedCat
<1>3. Paired(messages') /\ Paired(context')
  BY <1>1, <1>2
<1> QED BY <1>3 DEF Pairing

LEMMA FailPairing ==
  ASSUME TypeOK, Pairing, pc # "tools", FailRun(<<>>), context' = context, soft' = soft
  PROVE  Pairing'
<1> DEFINE new == <<Assistant({}, "error")>>
<1>1. new \in Seq(Entry) /\ Paired(new)
  BY PairedReply DEF Stops
<1> HIDE DEF new
<1>2. <<>> \o new = new
  BY <1>1
<1>3. messages' = messages \o new
  BY <1>2 DEF FailRun, new
<1> QED BY <1>1, <1>3, PairedStep DEF FailRun, EndRun, FreshLoop, Pairing

LEMMA SettlePairing ==
  ASSUME TypeOK, Pairing, pc = "stream", NEW calls \in SUBSET Tools, NEW stop \in Stops,
         NEW lp \in Loop, lp.required = loop.required, Settle(calls, stop, <<>>, lp),
         UNCHANGED <<soft, step>>
  PROVE  Pairing'
<1>1. ASSUME NEW new \in Seq(Entry), Extend(<<>>, new)
      PROVE  messages' = messages \o new /\ context' = context \o new
  <2>1. <<>> \o new = new
    OBVIOUS
  <2> QED BY <1>1, <2>1 DEF Extend
<1>2. lp.required = None /\ ~Declined(calls, lp) /\ soft' = None
  BY DEF Pairing, Declined
<1>3. Settled(calls, lp) \in Loop /\ Settled(calls, lp).required = None
  BY <1>2, SettledTyped, SettledRetained
<1>4. Unanswered(calls, stop) \in Seq(Entry) /\ Paired(Unanswered(calls, stop))
  BY PairedUnanswered
<1>5. CASE RunsTools(calls, stop, <<>>, lp)
  <2> DEFINE e == Assistant(calls, stop)
  <2>1. e \in Entry /\ e.role = "assistant" /\ e.calls = calls /\ e.step = step
    BY ReplyTyped DEF TypeOK, Assistant, Blank
  <2>2. Extend(<<>>, <<e>>) /\ calls # {} /\ pc' = "tools"
    BY <1>5 DEF RunsTools
  <2> HIDE DEF e
  <2>3. messages' = messages \o <<e>> /\ context' = context \o <<e>>
    <3>1. <<e>> \in Seq(Entry)
      BY <2>1
    <3> QED BY <1>1, <2>2, <3>1, Zenon
  <2>4. Open(messages', e) /\ Open(context', e)
    BY <2>3 DEF Open, Pairing, TypeOK
  <2>5. loop'.required = None
    BY <1>3, <1>5 DEF RunsTools, Loop
  <2> QED BY <1>2, <2>1, <2>2, <2>4, <2>5 DEF Pairing
<1>6. CASE SkipsTools(calls, stop, <<>>, lp)
  <2>1. loop'.required = None
    BY <1>3, <1>6 DEF SkipsTools, Loop
  <2> QED BY <1>1, <1>2, <1>4, <1>6, <2>1, PairedStep DEF SkipsTools
<1>7. CASE Answers(calls, stop, <<>>, lp)
  <2>1. loop'.required = None
    BY <1>3, <1>7 DEF Answers, Loop
  <2>2. <<Assistant(calls, stop)>> \in Seq(Entry) /\ Paired(<<Assistant(calls, stop)>>)
    BY <1>7, PairedReply DEF Answers
  <2> QED BY <1>1, <1>2, <1>7, <2>1, <2>2, PairedStep DEF Answers
<1> QED BY <1>2, <1>5, <1>6, <1>7 DEF Settle, DeclinedTooOften, Escalates

(* The results of a batch close the open message.                          *)
LEMMA BatchPairing ==
  ASSUME SoftIds = {}, TypeOK, Pairing, NEW ran \in SUBSET Tools, ToolsDone(ran)
  PROVE  Pairing'
<1>1. PICK e \in Entry : /\ e.role = "assistant" /\ e.calls # {} /\ e.step = step
                         /\ Open(messages, e) /\ Open(context, e)
  BY DEF ToolsDone, Pairing
<1>2. context[Len(context)] = e
  BY <1>1 DEF Open
<1> DEFINE r == [Blank EXCEPT !.role = "results", !.step = step, !.calls = e.calls,
                              !.ran = ran, !.required = loop.required]
<1>3. Results(e.calls, ran) = <<r>>
  BY <1>1 DEF Results
<1>4. r \in Entry /\ r.role = "results" /\ r.calls = e.calls /\ r.step = e.step
  BY <1>1 DEF Blank, Entry, TypeOK, Loop
<1>5. messages' = messages \o <<r>> /\ context' = context \o <<r>>
  BY <1>2, <1>3 DEF ToolsDone
<1> HIDE DEF r
<1>6. ASSUME NEW ms, Open(ms, e) PROVE Paired(ms \o <<r>>)
  <2>1. PICK p \in Seq(Entry) : Paired(p) /\ ms = p \o <<e>>
    BY <1>6 DEF Open
  <2> DEFINE b == <<e>> \o <<r>>
  <2>2. b \in Seq(Entry) /\ Paired(b)
    BY <1>1, <1>4, PairedAnswer
  <2>3. ms \o <<r>> = p \o b
    BY <1>4, <2>1
  <2> HIDE DEF b
  <2> QED BY <2>1, <2>2, <2>3, PairedCat
<1>7. Paired(messages') /\ Paired(context')
  BY <1>1, <1>5, <1>6
<1>8. pc' = "turnEnd" /\ soft' = None /\ loop'.required = None
  BY DEF ToolsDone, Pairing
<1> QED BY <1>7, <1>8 DEF Pairing

LEMMA LoopPairing ==
  ASSUME SoftIds = {}, ~Leaks, TypeOK, Pairing, LoopStep
  PROVE  Pairing'
<1> USE DEF queues, host
<1>1. /\ messages = messages \o <<>> /\ <<>> \in Seq(Entry) /\ Paired(<<>>)
      /\ loop.required = None /\ soft = None /\ FreshLoop.required = None
  BY PairedNothing DEF TypeOK, Pairing, FreshLoop
<1>2. CASE RunStart \/ TurnEnd \/ PollAsides \/ BeforeYield \/ DrainSteering \/ DrainAsides
           \/ DrainFollowUps
  <2>1. UNCHANGED <<messages, context, soft>> /\ pc # "tools" /\ pc' # "tools"
    BY <1>2 DEF RunStart, TurnEnd, PollAsides, BeforeYield, DrainSteering, DrainAsides,
                DrainFollowUps, AfterTurn, EndRun
  <2>2. \/ loop' = FreshLoop \/ loop' = loop
        \/ \E p : loop' = [loop EXCEPT !.pending = p]
        \/ \E p : loop' = [loop EXCEPT !.pending = p, !.hasMore = TRUE]
        \/ \E s : loop' = [loop EXCEPT !.skipPoll = s]
    BY <1>2 DEF RunStart, TurnEnd, PollAsides, BeforeYield, DrainSteering, DrainAsides,
                DrainFollowUps, TakeAsides, EndRun
  <2>3. loop'.required = None
    <3>1. \A p, s : /\ [loop EXCEPT !.pending = p].required = loop.required
                    /\ [loop EXCEPT !.pending = p, !.hasMore = TRUE].required = loop.required
                    /\ [loop EXCEPT !.skipPoll = s].required = loop.required
      BY DEF TypeOK, Loop
    <3> QED BY <1>1, <2>2, <3>1
  <2> QED BY <1>1, <2>1, <2>3, PairedStep
<1>3. CASE TurnTop
  <2>1. CASE late
    BY <1>1, <1>3, <2>1, PairedStep DEF TurnTop, EndRun
  <2>2. CASE ~late
    <3>1. Users(loop.pending) \in Seq(Entry) /\ Paired(Users(loop.pending))
      BY PairedUsers DEF TypeOK, Loop, Posts
    <3>2. loop'.required = None
      BY <1>1, <1>3, <2>2 DEF TurnTop, TypeOK, Loop
    <3> QED BY <1>1, <1>3, <2>2, <3>1, <3>2, PairedStep DEF TurnTop
  <2> QED BY <2>1, <2>2
<1>4. CASE ResolveDirective
  <2>1. pc # "tools" /\ pc' # "tools" /\ soft' = None
    BY <1>1, <1>4 DEF ResolveDirective
  <2>2. CASE UNCHANGED <<loop, hardQueue, messages, context>>
    BY <1>1, <2>1, <2>2, PairedStep
  <2>3. CASE ~UNCHANGED <<loop, hardQueue, messages, context>>
    <3>1. Reminder = <<>> /\ ~AsksSoft
      BY <1>1 DEF Reminder, AsksAnew, AsksSoft
    <3>2. messages' = messages \o <<>> /\ context' = context \o <<>>
      BY <1>4, <2>3, <3>1 DEF ResolveDirective
    <3>3. loop'.required = None
      BY <1>4, <2>3, <3>1 DEF ResolveDirective, TypeOK, Loop
    <3> QED BY <1>1, <2>1, <3>2, <3>3, PairedStep
  <2> QED BY <2>2, <2>3
<1>5. CASE CallModel
  <2>1. CASE aborted
    <3> DEFINE e == Assistant({}, "aborted")
    <3>1. "aborted" \in Stops /\ {} \in SUBSET Tools
      BY DEF Stops
    <3>2. e \in Entry /\ <<e>> \in Seq(Entry) /\ Paired(<<e>>)
      BY <3>1, PairedReply, ReplyTyped DEF TypeOK
    <3>3. messages' = Append(messages, e) /\ context' = Append(context, e)
      BY <1>5, <2>1 DEF CallModel
    <3> HIDE DEF e
    <3>4. messages' = messages \o <<e>> /\ context' = context \o <<e>>
      BY <3>2, <3>3, AppendCat DEF TypeOK
    <3> QED BY <1>1, <1>5, <2>1, <3>2, <3>4, PairedStep DEF CallModel, EndRun
  <2>2. CASE ~aborted
    BY <1>1, <1>5, <2>2, PairedStep DEF CallModel
  <2> QED BY <2>1, <2>2
<1>6. CASE ProviderThrows
  BY <1>6, FailPairing DEF ProviderThrows
<1>7. ASSUME NEW calls \in SUBSET Tools, ProviderError(calls) \/ AbortReply(calls)
      PROVE  Pairing'
  <2>1. PICK stop \in {"error", "aborted"} : ReplyEnds(calls, stop)
    BY <1>7 DEF ProviderError, AbortReply
  <2>2. stop \in Stops
    BY DEF Stops
  <2>3. Unanswered(calls, stop) \in Seq(Entry) /\ Paired(Unanswered(calls, stop))
    BY <2>2, PairedUnanswered
  <2>4. /\ messages' = messages \o Unanswered(calls, stop)
        /\ context' = context \o Unanswered(calls, stop)
    BY <2>1 DEF ReplyEnds, Unanswered
  <2>5. pc = "stream" /\ pc' = "idle" /\ soft' = soft /\ loop' = FreshLoop
    BY <1>7, <2>1 DEF ProviderError, AbortReply, ReplyEnds, EndRun
  <2> QED BY <1>1, <2>3, <2>4, <2>5, PairedStep
<1>8. ASSUME NEW calls \in SUBSET Tools, NEW stop \in Stops, Reply(calls, stop)
      PROVE  Pairing'
  <2> DEFINE lp == [loop EXCEPT !.retries = 0, !.resumes = 0]
  <2>1. lp \in Loop /\ lp.required = loop.required
    BY BoundsTyped DEF TypeOK, Loop
  <2>2. Settle(calls, stop, <<>>, lp)
    BY <1>8 DEF Reply
  <2> HIDE DEF lp
  <2> QED BY <1>8, <2>1, <2>2, SettlePairing DEF Reply
<1>9. ASSUME NEW calls \in SUBSET Tools,
             LeakRetry(calls) \/ LeakRecovered(calls) \/ LeakGiveUp(calls)
      PROVE  Pairing'
  BY <1>9 DEF LeakRetry, LeakRecovered, LeakGiveUp
<1> QED BY <1>2, <1>3, <1>4, <1>5, <1>6, <1>7, <1>8, <1>9, BatchPairing DEF LoopStep

LEMMA OthersPairing ==
  ASSUME TypeOK, Pairing, UserStep \/ HostStep \/ UNCHANGED vars
  PROVE  Pairing'
<1> USE DEF queues, host, run
<1>1. <<>> \in Seq(Entry) /\ Paired(<<>>)
  BY PairedNothing
<1>2. ASSUME pc = "idle", NEW prompts \in Seq(Entry), Paired(prompts), NEW skip,
             Launch(prompts, skip), soft' = soft
      PROVE  Pairing'
  <2>1. loop'.required = None /\ soft' = None
    BY <1>2 DEF Launch, FreshLoop, Pairing
  <2> QED BY <1>2, <2>1, PairedStep DEF Launch
<1>3. ASSUME NEW m \in Msgs, Prompt(m) PROVE Pairing'
  <2>1. <<m>> \in Seq(Posts) /\ Users(<<m>>) = <<User(m)>>
    BY DEF Posts, Users
  <2>2. <<User(m)>> \in Seq(Entry) /\ Paired(<<User(m)>>)
    BY <2>1, PairedUsers
  <2> QED BY <1>2, <1>3, <2>2 DEF Prompt
<1>4. CASE Continue
  <2>1. Dequeued(steering, SteeringMode) \in Seq(Posts) /\ Dequeued(followUp, FollowUpMode) \in Seq(Posts)
    BY QueueTyped DEF TypeOK, Posts
  <2> QED BY <1>1, <1>2, <1>4, <2>1, PairedUsers DEF Continue
<1>5. ASSUME UNCHANGED <<messages, context, pc, loop, step>>, soft' \in {soft, None}
      PROVE  Pairing'
  BY <1>5 DEF Pairing
<1>6. ASSUME NEW m \in Msgs, Steer(m) \/ FollowUp(m) PROVE Pairing'
  BY <1>5, <1>6 DEF Steer, FollowUp
<1>7. CASE PopLastSteer \/ PopLastFollowUp \/ Abort \/ HostStep \/ UNCHANGED vars
  BY <1>5, <1>7 DEF PopLastSteer, PopLastFollowUp, Abort, HostStep, Aside, PushHard,
                    ClearSoft, DeadlinePasses, DeadlineTimer, vars
<1> QED BY <1>3, <1>4, <1>6, <1>7 DEF UserStep

(* Without previews and without leak mitigation, the model is never sent   *)
(* an unanswered call or an orphaned result, whatever aborts, errors,      *)
(* truncations and deadlines cut short.  Both hypotheses are needed: a     *)
(* requirement declined too often, and a discarded attempt, leave calls    *)
(* without results in the transcript the next run starts from.             *)
THEOREM CallsAnswered ==
  ASSUME SoftIds = {}, ~Leaks
  PROVE  Spec => []ToolResultsPaired
<1>1. Init => Pairing
  BY PairedNothing DEF Init, Pairing, FreshLoop
<1>2. TypeOK /\ Pairing /\ [Next]_vars => Pairing'
  BY LoopPairing, OthersPairing DEF Next
<1>3. Pairing => ToolResultsPaired
  BY DEF Pairing, ToolResultsPaired
<1> QED BY <1>1, <1>2, <1>3, TypeCorrect, PTL DEF Spec

=============================================================================
