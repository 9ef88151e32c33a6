------------------------------ MODULE AsyncJobs ------------------------------
(***************************************************************************)
(* How the model learns of background work: the job manager, the yield     *)
(* queue its completions go to (sdk.ts onJobComplete), the job tool, whose *)
(* polls watch and acknowledge jobs, and bash calls that wait for their    *)
(* job in the foreground and leave it to the background when it is slow.   *)
(* The manager is shared with subagents: their runs are those not in Ours, *)
(* and of their tools only foreground bash is modelled.                    *)
(***************************************************************************)
EXTENDS JobManager, YieldQueue

CONSTANTS Foreground,  \* the runs of bash calls that wait for them
          Polls        \* the main agent's job calls that may be open at once

ASSUME ForegroundAssumption == Foreground \subseteq Runs \ Named

VARIABLES waits,     \* of a foreground call, see WaitStates
          finished,  \* the foreground runs whose command has ended
          polls,     \* the open job calls: runs watched, runs to be shown
          answered,  \* the runs whose end a tool result has told
          clashed    \* history: the runs that share an id, see Reuse

toolVars == <<waits, finished, polls, answered>>
systemVars == <<managerVars, queueVars, toolVars>>
vars == <<systemVars, clashed>>

WaitStates == {"none", "waiting", "over"}
NoPoll == [watching |-> {}, shown |-> {}]

Init ==
  /\ ManagerInit /\ QueueInit
  /\ waits = [r \in Foreground |-> "none"] /\ finished = {}
  /\ polls = [p \in Polls |-> NoPoll] /\ answered = {} /\ clashed = {}

Listed(r) == idOf[r] # None /\ jobs[idOf[r]] = r
IdsOf(rs) == {idOf[r] : r \in rs}

\* The main agent has tool calls running: its loop is inside the batch.
Busy == \/ \E p \in Polls : polls[p] # NoPoll
        \/ \E r \in Foreground \cap Ours : waits[r] = "waiting"

-------------------------------------------------------------------------------
\* An async bash call, /tan, or a spawn of the task tool, which waits for a slot.
Start(r) ==
  /\ r \notin Foreground
  /\ Register(r, r \in Named, FALSE)
  /\ UNCHANGED <<queueVars, toolVars>>

GetsSlot(r) ==
  /\ MarkRunning(r)
  /\ UNCHANGED <<queueVars, toolVars>>

Ends(r) ==
  /\ r \in Foreground => r \in finished
  /\ Settle(r)
  /\ UNCHANGED <<queueVars, toolVars>>

\* A bash call registers its job, acknowledges it and waits.
StartForeground(r) ==
  /\ r \in Foreground
  /\ r \in Ours => phase = "working"
  /\ Register(r, FALSE, TRUE)
  /\ waits' = [waits EXCEPT ![r] = "waiting"]
  /\ UNCHANGED <<queueVars, finished, polls, answered>>

\* The command ends; a call that still waits returns its result, before the
\* job itself settles.
CommandEnds(r) ==
  /\ r \in Foreground \ finished /\ status[r] \in {"running", "cancelled"}
  /\ finished' = finished \cup {r}
  /\ IF waits[r] = "waiting"
     THEN /\ waits' = [waits EXCEPT ![r] = "over"]
          /\ answered' = answered \cup {r}
     ELSE UNCHANGED <<waits, answered>>
  /\ UNCHANGED <<managerVars, queueVars, polls>>

\* The threshold passes before the command ends: the call puts its job in the
\* background, in the continuation of its timer.
WaitExpires(r) ==
  /\ r \in Foreground /\ waits[r] = "waiting"
  /\ waits' = [waits EXCEPT ![r] = "over"]
  /\ Resume(r)
  /\ UNCHANGED <<status, settled, parked, idOf, jobs, evictions, watched, backoff,
                 failures, queueVars, finished, polls, answered>>

\* The call is aborted and cancels the job that has its id, if it still runs.
AbortWait(r) ==
  /\ r \in Foreground /\ waits[r] = "waiting"
  /\ waits' = [waits EXCEPT ![r] = "over"]
  /\ answered' = answered \cup {r}
  /\ Cancel({jobs[idOf[r]]} \cap {q \in Runs : status[q] = "running"})
  /\ UNCHANGED <<settled, parked, idOf, jobs, suppressed, watched, deliveryVars,
                 queueVars, finished, polls>>

-------------------------------------------------------------------------------
\* #snapshotJobs shows whatever is listed under the id by now.
Snapshot(r) == IF jobs[idOf[r]] # None THEN jobs[idOf[r]] ELSE r

\* Mutant: the jobs that still run are acknowledged with the others.
BuildResultAckAll(shown) ==
  LET all == {Snapshot(s) : s \in shown}
  IN /\ Acknowledge(IdsOf(all))
     /\ answered' = answered \cup {r \in all : status'[r] # "running"}

\* #buildResult: it tells of every job shown that no longer runs and
\* acknowledges it.
BuildResult(shown) ==
  LET over == {r \in {Snapshot(s) : s \in shown} : status'[r] # "running"}
  IN Acknowledge(IdsOf(over)) /\ answered' = answered \cup over

\* A call of the job tool: it cancels the running jobs in kill and polls those
\* in look, returning at once when none of these is running.
JobCall(p, kill, look) ==
  /\ phase = "working" /\ polls[p] = NoPoll
  /\ kill \cup look # {} /\ \A r \in kill \cup look : r \in Ours /\ Listed(r)
  /\ \A r \in kill : status[r] = "running"
  /\ Cancel(kill)
  /\ LET running == {r \in look : status'[r] = "running"}
     IN IF running = {}
        THEN /\ watched' = watched
             /\ BuildResult(kill \cup look)
             /\ UNCHANGED polls
        ELSE /\ watched' = watched \cup IdsOf(running)
             /\ polls' = [polls EXCEPT ![p] = [watching |-> running,
                                               shown |-> kill \cup look]]
             /\ UNCHANGED <<suppressed, deliveries, answered>>
  /\ UNCHANGED <<settled, parked, idOf, jobs, drainable, backoff, inFlight, loop, failures,
                 queueVars, waits, finished>>

\* A call of the job tool that lists every job of its agent.
ListJobs ==
  /\ phase = "working" /\ \E r \in Ours : Listed(r)
  /\ watched' = watched /\ UNCHANGED status
  /\ BuildResult({r \in Ours : Listed(r)})
  /\ UNCHANGED <<settled, parked, idOf, jobs, evictions, drainable, backoff, inFlight, loop,
                 failures, queueVars, waits, finished, polls>>

\* A job ended, the wait window elapsed, or the run was aborted.
PollReturns(p) ==
  /\ polls[p] # NoPoll
  /\ watched' = watched \ IdsOf(polls[p].watching)
  /\ UNCHANGED status
  /\ BuildResult(polls[p].shown)
  /\ polls' = [polls EXCEPT ![p] = NoPoll]
  /\ UNCHANGED <<settled, parked, idOf, jobs, evictions, drainable, backoff, inFlight, loop,
                 failures, queueVars, waits, finished>>

\* #cancelOwnAsyncJobs: a new session, a handoff, a subagent's end.
CancelOwn(owned) ==
  LET rs == {r \in owned : Listed(r) /\ status[r] = "running"}
  IN /\ rs # {}
     /\ Cancel(rs)
     /\ UNCHANGED <<settled, parked, idOf, jobs, suppressed, watched, deliveryVars,
                    queueVars, toolVars>>

-------------------------------------------------------------------------------
\* Mutant: only the ids that are watched count.
StaleIfWatched == {r \in Runs : idOf[r] \in watched}

\* The id of the run is acknowledged or watched.
Stale == {r \in Runs : Suppressed(r, HeldBack)}

\* The result is formatted, which is awaited; the second look at the id comes
\* after it.
OnJobComplete(r) ==
  /\ DeliverySucceeds(r)
  /\ IF r \in Stale THEN UNCHANGED queueVars ELSE Enqueue(r)
  /\ UNCHANGED toolVars

Fails(r) == DeliveryFails(r) /\ UNCHANGED <<queueVars, toolVars>>
LoopWakes == Wake /\ UNCHANGED <<queueVars, toolVars>>
LoopSettles == LoopEnds /\ UNCHANGED <<queueVars, toolVars>>
RetryDue(r) == DelayOver(r) /\ UNCHANGED <<queueVars, toolVars>>
Drains(r) == DrainOne(r) /\ UNCHANGED <<queueVars, toolVars>>

\* Somebody is still to be told of r.
Pending(r) ==
  \/ r \in (ToSet(deliveries) \cup inFlight \cup ToSet(staged) \cup ToSet(thunks)) \ Stale
  \/ r \in Foreground /\ waits[r] = "waiting"
  \/ \E p \in Polls : r \in polls[p].shown

RetentionEnds(id) == Evict(id) /\ UNCHANGED <<queueVars, toolVars>>

Flushes == IdleFlush(Stale) /\ UNCHANGED <<managerVars, toolVars>>
Prompts == Prompt /\ UNCHANGED <<managerVars, toolVars>>
PollsAsides == ~Busy /\ PollAsides /\ UNCHANGED <<managerVars, toolVars>>
ResolvesAsides == ResolveAsides(Stale) /\ UNCHANGED <<managerVars, toolVars>>
SessionSettles == ~Busy /\ RunSettles /\ UNCHANGED <<managerVars, toolVars>>
Stops == Stop /\ UNCHANGED <<managerVars, toolVars>>

Tools == \/ \E r \in Runs : StartForeground(r) \/ CommandEnds(r) \/ WaitExpires(r)
                               \/ AbortWait(r)
         \/ \E p \in Polls : PollReturns(p)
         \/ ListJobs
         \/ \E p \in Polls, kill, look \in SUBSET Ours : JobCall(p, kill, look)

Jobs == \/ \E r \in Runs : Start(r) \/ GetsSlot(r) \/ Ends(r)
        \/ \E owned \in {Ours, Runs \ Ours} : CancelOwn(owned)
        \/ \E id \in Ids : RetentionEnds(id)

Delivery == \/ \E r \in Runs : OnJobComplete(r) \/ Fails(r) \/ RetryDue(r) \/ Drains(r)
            \/ LoopWakes \/ LoopSettles

Session == Flushes \/ Prompts \/ PollsAsides \/ ResolvesAsides \/ SessionSettles \/ Stops

\* Something is still to come of the run, or under way about it.
UnderWay(r) ==
  \/ r \notin settled
  \/ r \in ToSet(deliveries) \cup inFlight \cup ToSet(staged) \cup ToSet(thunks)
  \/ \E p \in Polls : r \in polls[p].shown

\* The runs whose id is taken by another run too soon: by r, which registers,
\* while something is under way of an earlier run that had the id and was
\* evicted, or while the timer of such a run may free the id again.
Clash(r) ==
  LET earlier == {q \in Runs : idOf[q] = idOf'[r] /\ ~Listed(q) /\ UnderWay(q)}
  IN IF earlier = {} /\ idOf'[r] \notin evictions THEN {} ELSE earlier \cup {r}

Reuse == clashed' = clashed \cup UNION {Clash(r) : r \in {q \in Runs : idOf'[q] # idOf[q]}}

Step == Tools \/ Jobs \/ Delivery \/ Session

Next == Step /\ Reuse

\* Timers fire and promises are continued; a run always comes back from a batch
\* to poll its asides, although the batches may follow each other for ever.
Fairness ==
  /\ \A r \in Foreground : WF_systemVars(WaitExpires(r))
  /\ \A p \in Polls : WF_systemVars(PollReturns(p))
  /\ \A r \in Runs : WF_systemVars(OnJobComplete(r)) /\ WF_systemVars(RetryDue(r))
  /\ WF_systemVars(LoopWakes) /\ WF_systemVars(LoopSettles)
  /\ WF_systemVars(Flushes) /\ SF_systemVars(PollsAsides)
  /\ WF_systemVars(ResolvesAsides) /\ WF_systemVars(SessionSettles)

Spec == Init /\ [][Next]_vars /\ Fairness

-------------------------------------------------------------------------------
TypeOK ==
  /\ status \in [Runs -> {"new", "running", "completed", "cancelled"}]
  /\ settled \subseteq Runs /\ parked \subseteq Named
  /\ idOf \in [Runs -> Ids \cup {None}] /\ jobs \in [Ids -> Runs \cup {None}]
  /\ evictions \subseteq Ids /\ suppressed \subseteq Ids /\ watched \subseteq Ids
  /\ deliveries \in Seq(Runs) /\ staged \in Seq(Runs) /\ thunks \in Seq(Runs)
  /\ drainable \subseteq Runs /\ backoff \subseteq Runs /\ inFlight \subseteq Runs
  /\ loop \in [at : {"none", "asleep", "delivering", "ending"}, on : Runs \cup {None}]
  /\ failures \in 0 .. MaxFailures
  /\ flushPending \in BOOLEAN /\ flushTimer \in BOOLEAN
  /\ phase \in Phases /\ injected \in Seq(Runs)
  /\ waits \in [Foreground -> WaitStates] /\ finished \subseteq Foreground
  /\ polls \in [Polls -> [watching : SUBSET Runs, shown : SUBSET Runs]]
  /\ answered \subseteq Runs /\ clashed \subseteq Runs

Told(r) == r \in answered \cup ToSet(injected)

\* A completed run has been told of or somebody is still to tell of it; its
\* completion is in one place at a time, and injected once, whatever the loop,
\* drains, polls, cancels and evictions take from the queues: unless its id
\* clashed with that of another run.
CompletionsKept ==
  LET places == deliveries \o staged \o thunks \o injected
  IN /\ \A r \in Runs \ clashed : status[r] = "completed" => Told(r) \/ Pending(r)
     /\ \A i, j \in DOMAIN places : places[i] = places[j] => i = j \/ places[i] \in clashed
     /\ inFlight \cap ToSet(places) \subseteq clashed

\* Whatever is queued has a loop that will get to it.
DeliveriesDriven == deliveries # <<>> => loop.at # "none"

\* A run that a tool result told of is not injected afterwards, as long as its
\* job is listed: the eviction forgets what was told.
NotRepeated ==
  [][\A r \in ToSet(injected') \ ToSet(injected) :
       r \in answered => ~Listed(r) \/ r \in clashed]_vars

\* A running job is listed under its id, if that was free when it took it.
RunningListed == \A r \in Runs \ clashed : status[r] = "running" => Listed(r)

\* What is staged while an idle flush is pending is taken out of the queue.
IdleFlushed == \A r \in Runs :
  (phase = "idle" /\ flushPending /\ r \in ToSet(staged)) ~> r \notin ToSet(staged)

\* Staged too late for the run's last poll and without a flush to come.
Stranded(r) == r \in ToSet(staged) /\ phase = "idle" /\ ~flushTimer

\* The model learns of every completion, unless the id has clashed: by itself,
\* or, when it is stranded, if only the user comes back.
EventuallyTold ==
  /\ \A r \in Runs : status[r] = "completed" ~> Told(r) \/ r \in clashed \/ Stranded(r)
  /\ WF_systemVars(Prompts)
       => \A r \in Runs : status[r] = "completed" ~> Told(r) \/ r \in clashed

=============================================================================
