--------------------------- MODULE AgentLifecycle ---------------------------
(***************************************************************************)
(* One subagent in the registry: its first run under the task executor,    *)
(* the idle timer that parks it, its revival from the session file by      *)
(* whoever wants it live, its removal by the user, and the agent hub that  *)
(* lists it again from disk.  Everything is kept by id, so agents do not   *)
(* meet.  A session is a number; each revival opens a new one on the same  *)
(* file.  A step runs from one await to the next.                          *)
(***************************************************************************)
EXTENDS Naturals, FiniteSets

CONSTANTS Callers,       \* those who call ensureLive
          MaxSessions,   \* bound: sessions opened for the agent
          MaxFailures,   \* bound: revivals that fail
          MaxKills       \* bound: times the user kills it

ASSUME LifecycleAssumption ==
  /\ IsFiniteSet(Callers)
  /\ MaxSessions \in Nat \ {0} /\ MaxFailures \in Nat /\ MaxKills \in Nat

VARIABLES
  ref,       \* AgentRef: status ("none": not registered) and session, 0 for null
  adopted,   \* #adopted has it, with a reviver
  timer,     \* its TTL timer is armed
  sess,      \* unused, opening, live, closing or gone
  turn,      \* of each session: off, waking (agent_start not told yet) or on
  synced,    \* sessions whose events drive the status
  running,   \* the task executor still has the first session
  parking,   \* the session park() is disposing, or 0
  revival,   \* the entry of #revivals: how far it is, its session, cold adoption
  kill,      \* a kill in progress: how far it is, and the session it awaits
  call,      \* ensureLive of each caller: none, waiting, ok or failed
  left,      \* failures and kills left
  severed    \* history: a kill removed the id while it was being reopened, or parked,
             \* or from another session than the one it disposed

lifeVars == <<ref, adopted, timer, sess, turn, synced, running, parking, revival,
              kill, call, left, severed>>

Sessions == 1 .. MaxSessions
NoRevival == [pc |-> "none", session |-> 0, cold |-> FALSE]
NoKill == [pc |-> "none", session |-> 0]
NoRef == [status |-> "none", session |-> 0]

\* A spawned subagent in its first run.
LifeInit ==
  /\ ref = [status |-> "running", session |-> 1] /\ adopted = FALSE /\ timer = FALSE
  /\ sess = [s \in Sessions |-> IF s = 1 THEN "live" ELSE "unused"]
  /\ turn = [s \in Sessions |-> IF s = 1 THEN "on" ELSE "off"]
  /\ synced = {1} /\ running = TRUE /\ parking = 0
  /\ revival = NoRevival /\ kill = NoKill
  /\ call = [c \in Callers |-> "none"]
  /\ left = [failures |-> MaxFailures, kills |-> MaxKills] /\ severed = FALSE

\* Mutant: only adopt() arms the timer.
SetStatusUnarmed(status) ==
  IF ref.status \in {"none", status} THEN UNCHANGED <<ref, timer>>
  ELSE /\ ref' = [ref EXCEPT !.status = status]
       /\ timer' = (timer /\ status # "running")
\* setStatus, and what the lifecycle manager does when it is told.
SetStatus(status) ==
  IF ref.status \in {"none", status} THEN UNCHANGED <<ref, timer>>
  ELSE /\ ref' = [ref EXCEPT !.status = status]
       /\ timer' = IF adopted THEN status = "idle" \/ (timer /\ status # "running") ELSE timer

\* unregister: the manager, told of the removal, drops what it adopted.
Unregister ==
  /\ ref' = NoRef
  /\ IF ref.status = "none" \/ ~adopted THEN UNCHANGED <<adopted, timer>>
     ELSE adopted' = FALSE /\ timer' = FALSE

\* session.dispose up to its first await.
Closing(s) == [sess EXCEPT ![s] = IF @ = "live" THEN "closing" ELSE @]
\* The session is gone, whatever its last turn was at.
Gone(s) ==
  /\ sess' = [sess EXCEPT ![s] = "gone"]
  /\ turn' = [turn EXCEPT ![s] = "off"]
  /\ synced' = synced \ {s}

-----------------------------------------------------------------------------
\* Turns.  The events of a session reach the status until its dispose ends.

\* prompt: the session is streaming at once; agent_start is told to the
\* listeners when the extensions have seen it.
Wakes(s) ==
  /\ sess[s] = "live" /\ turn[s] = "off"
  /\ turn' = [turn EXCEPT ![s] = "waking"]
  /\ UNCHANGED <<ref, adopted, timer, sess, synced, running, parking, revival, kill, call, left, severed>>

TurnStarts(s) ==
  /\ turn[s] = "waking" /\ turn' = [turn EXCEPT ![s] = "on"]
  /\ IF s \in synced THEN SetStatus("running") ELSE UNCHANGED <<ref, timer>>
  /\ UNCHANGED <<adopted, sess, synced, running, parking, revival, kill, call, left, severed>>

\* The turn ends by itself or because the session was aborted; something that
\* stranded in it may start another.
TurnEnds(s, again) ==
  /\ turn[s] = "on" /\ (again => sess[s] = "live")
  /\ turn' = [turn EXCEPT ![s] = IF again THEN "waking" ELSE "off"]
  /\ IF s \in synced THEN SetStatus("idle") ELSE UNCHANGED <<ref, timer>>
  /\ UNCHANGED <<adopted, sess, synced, running, parking, revival, kill, call, left, severed>>

\* The executor hands the finished agent over: setStatus and adopt.  A ref
\* that was removed meanwhile is not adopted.
HandOver ==
  /\ running /\ turn[1] = "off" /\ running' = FALSE
  /\ ref' = IF ref.status = "none" THEN ref ELSE [ref EXCEPT !.status = "idle"]
  /\ adopted' = (ref.status # "none") /\ timer' = adopted'
  /\ UNCHANGED <<sess, turn, synced, parking, revival, kill, call, left, severed>>

-----------------------------------------------------------------------------
\* Parking.

\* The timer of an entry that was dropped meanwhile does nothing.
TimerFires ==
  /\ timer /\ timer' = FALSE
  /\ IF ref.session = 0 \/ ~adopted THEN UNCHANGED <<parking, sess>>
     ELSE parking' = ref.session /\ sess' = Closing(ref.session)
  /\ UNCHANGED <<ref, adopted, turn, synced, running, revival, kill, call, left, severed>>

\* dispose has ended; the wrapper leaves the ref of an agent being parked.
ParkEnds ==
  /\ parking # 0 /\ parking' = 0 /\ Gone(parking)
  /\ ref' = IF ref.status = "none" THEN ref ELSE [status |-> "parked", session |-> 0]
  /\ UNCHANGED <<adopted, timer, running, revival, kill, call, left, severed>>

-----------------------------------------------------------------------------
\* Reviving.

Fresh == {s \in Sessions : sess[s] = "unused"}
\* The reviver opens the session file.
Opens(cold) ==
  \E s \in Fresh :
    /\ \A r \in Fresh : s <= r
    /\ sess' = [sess EXCEPT ![s] = "opening"]
    /\ revival' = [pc |-> "opening", session |-> s, cold |-> cold]

\* Mutant: callers do not share a revival.
JoinsNever == FALSE
\* There is no session, but somebody is reviving.
Joins == ref.status # "none" /\ ref.session = 0 /\ revival.pc # "none"

\* ensureLive of a caller up to its first await.
EnsureLive(c) ==
  /\ call[c] = "none"
  /\ \/ /\ ref.session # 0 /\ call' = [call EXCEPT ![c] = "ok"]
        /\ UNCHANGED <<revival, sess>>
     \/ /\ Joins /\ call' = [call EXCEPT ![c] = "waiting"]
        /\ UNCHANGED <<revival, sess>>
     \/ /\ ref.session = 0 /\ ~Joins /\ ref.status = "parked" /\ Fresh # {}
        /\ call' = [call EXCEPT ![c] = "waiting"]
        /\ IF adopted THEN Opens(FALSE)
           ELSE /\ revival' = [NoRevival EXCEPT !.pc = "factory"]
                /\ UNCHANGED sess
     \/ /\ ref.session = 0 /\ ~Joins /\ ref.status # "parked"
        /\ call' = [call EXCEPT ![c] = "failed"]
        /\ UNCHANGED <<revival, sess>>
  /\ UNCHANGED <<ref, adopted, timer, turn, synced, running, parking, kill, left, severed>>

\* Everyone who waited for the revival has its outcome.
Answered(outcome) ==
  /\ revival' = NoRevival
  /\ call' = [c \in Callers |-> IF call[c] = "waiting" THEN outcome ELSE call[c]]

\* The factory made a reviver for the agent found on disk: it is adopted.
FactoryReturns ==
  /\ revival.pc = "factory" /\ adopted' = TRUE /\ Opens(TRUE)
  /\ UNCHANGED <<ref, timer, turn, synced, running, parking, kill, call, left, severed>>

\* createAgentSession registers the id anew, whatever was there.
Registers ==
  /\ revival.pc = "opening" /\ revival' = [revival EXCEPT !.pc = "building"]
  /\ ref' = [status |-> "running", session |-> 0]
  /\ UNCHANGED <<adopted, timer, sess, turn, synced, running, parking, kill, call, left, severed>>

Attached(s) == IF ref.status = "none" THEN ref ELSE [ref EXCEPT !.session = s]

Attaches ==
  /\ revival.pc = "building" /\ revival' = [revival EXCEPT !.pc = "attached"]
  /\ sess' = [sess EXCEPT ![revival.session] = "live"]
  /\ ref' = Attached(revival.session)
  /\ UNCHANGED <<adopted, timer, turn, synced, running, parking, kill, call, left, severed>>

\* The reviver returns; the session is attached again and the agent is idle.
Revived ==
  /\ revival.pc = "attached" /\ Answered("ok")
  /\ synced' = synced \cup {revival.session}
  /\ ref' = IF ref.status = "none" THEN ref
            ELSE [status |-> "idle", session |-> revival.session]
  /\ timer' = (timer \/ (adopted /\ ref.status \notin {"none", "idle"}))
  /\ UNCHANGED <<adopted, sess, turn, running, parking, kill, left, severed>>

\* The factory or the reviver fails, and what has been built is taken down:
\* the session is disposed if there is one; without one, createAgentSession
\* takes its registration back at once.
UnlessParked == ref.status # "parked" /\ parking = 0
RevivalFails ==
  /\ left.failures > 0 /\ left' = [left EXCEPT !.failures = @ - 1]
  /\ \/ /\ revival.pc = "factory" /\ Answered("failed")
        /\ UNCHANGED <<ref, adopted, timer, sess>>
     \/ /\ revival.pc \in {"opening", "building", "attached"}
        /\ revival' = [revival EXCEPT !.pc = "failing"]
        /\ sess' = Closing(revival.session) /\ UNCHANGED call
        /\ IF revival.pc = "building" /\ UnlessParked THEN Unregister
           ELSE UNCHANGED <<ref, adopted, timer>>
  /\ UNCHANGED <<turn, synced, running, parking, kill, severed>>

\* That has ended: the wrapper of dispose takes the registration back, and a
\* cold adoption is dropped, with no look at its timer.
RevivalFailed ==
  /\ revival.pc = "failing" /\ Answered("failed") /\ Gone(revival.session)
  /\ LET removed == sess[revival.session] # "opening" /\ UnlessParked /\ ref.status # "none"
     IN /\ ref' = IF removed THEN NoRef ELSE ref
        /\ adopted' = (adopted /\ ~removed /\ ~revival.cold)
        /\ timer' = (timer /\ ~(removed /\ adopted))
  /\ UNCHANGED <<running, parking, kill, left, severed>>

\* The cold reviver has more to do when createAgentSession has returned; if
\* that fails, the session stays as it is.
RevivalFailsLate ==
  /\ revival.pc = "attached" /\ revival.cold
  /\ left.failures > 0 /\ left' = [left EXCEPT !.failures = @ - 1]
  /\ Answered("failed") /\ adopted' = FALSE
  /\ UNCHANGED <<ref, timer, sess, turn, synced, running, parking, kill, severed>>

-----------------------------------------------------------------------------
\* The user kills the agent, and finds it on disk again.

Kill ==
  /\ kill.pc = "none" /\ ref.status # "none"
  /\ left.kills > 0 /\ left' = [left EXCEPT !.kills = @ - 1]
  /\ kill' = [pc |-> "aborting",
              session |-> IF ref.status = "running" THEN ref.session ELSE 0]
  /\ UNCHANGED <<ref, adopted, timer, sess, turn, synced, running, parking, revival, call, severed>>

\* What release is about to unregister is not what it disposed: a session is
\* still to be attached, a park to end, or the ref has another session.
Severs(s) == revival.pc = "building" \/ parking # 0 \/ ref.session \notin {0, s}

\* release, when abort has returned.
Release ==
  /\ kill.pc = "aborting" /\ (kill.session # 0 => turn[kill.session] # "on")
  /\ adopted' = FALSE /\ timer' = (timer /\ ~adopted)
  /\ IF ref.session = 0
     THEN ref' = NoRef /\ kill' = NoKill /\ severed' = (severed \/ Severs(0)) /\ UNCHANGED sess
     ELSE /\ sess' = Closing(ref.session) /\ UNCHANGED <<ref, severed>>
          /\ kill' = [pc |-> "disposing", session |-> ref.session]
  /\ UNCHANGED <<turn, synced, running, parking, revival, call, left>>

ReleaseEnds ==
  /\ kill.pc = "disposing" /\ kill' = NoKill
  /\ Gone(kill.session) /\ Unregister /\ severed' = (severed \/ Severs(kill.session))
  /\ UNCHANGED <<running, parking, revival, call, left>>

\* The agent hub is opened: the session file of an unknown id is listed.  It
\* is not opened while a killed first run is still unwinding.
Scan ==
  /\ ref.status = "none" /\ ~running
  /\ ref' = [status |-> "parked", session |-> 0]
  /\ UNCHANGED <<adopted, timer, sess, turn, synced, running, parking, revival, kill, call, left, severed>>

-----------------------------------------------------------------------------
LifeTypeOK ==
  /\ ref \in [status : {"none", "running", "idle", "parked"}, session : {0} \cup Sessions]
  /\ adopted \in BOOLEAN /\ timer \in BOOLEAN /\ running \in BOOLEAN /\ severed \in BOOLEAN
  /\ sess \in [Sessions -> {"unused", "opening", "live", "closing", "gone"}]
  /\ turn \in [Sessions -> {"off", "waking", "on"}] /\ synced \subseteq Sessions
  /\ parking \in {0} \cup Sessions
  /\ revival \in [pc : {"none", "factory", "opening", "building", "attached", "failing"},
                  session : {0} \cup Sessions, cold : BOOLEAN]
  /\ kill \in [pc : {"none", "aborting", "disposing"}, session : {0} \cup Sessions]
  /\ call \in [Callers -> {"none", "waiting", "ok", "failed"}]
  /\ left \in [failures : 0 .. MaxFailures, kills : 0 .. MaxKills]
=============================================================================
