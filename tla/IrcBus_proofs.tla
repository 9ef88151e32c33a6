---------------------------- MODULE IrcBus_proofs ---------------------------
(***************************************************************************)
(* One writer of a session file until a kill severs the agent, and         *)
(* receipts that tell the truth whatever kills do, for any callers,        *)
(* messages, sessions, failures and kills.                                 *)
(***************************************************************************)
EXTENDS IrcBus, FiniteSetTheorems, WellFoundedInduction, TLAPS

(* A session that is open is the one the registry has, or the one that is  *)
(* being revived while it has none.                                        *)
AtWork == {"live", "closing"}
Building == {"factory", "opening", "building"}
OpenRegistered == \A s \in Sessions : sess[s] \in AtWork => ref.session = s
OpeningRevived ==
  /\ \A s \in Sessions :
       sess[s] = "opening" => revival.session = s /\ revival.pc \in {"opening", "building", "failing"}
  /\ revival.pc \in {"opening", "building"} => sess[revival.session] = "opening"
RefStarted ==
  /\ ref.session # 0 => sess[ref.session] \notin {"unused", "opening"}
  /\ ref.status = "none" => ref.session = 0

(* How far a revival is, and what it has opened.                           *)
Opened == revival.pc \in {"opening", "building", "attached", "failing"} => revival.session # 0
RevivalStands ==
  /\ revival.pc \in {"none", "factory"} => revival.session = 0
  /\ revival.pc \in Building => ref.session = 0
  /\ revival.pc = "building" => ref.status # "none"
  /\ revival.pc = "attached" => sess[revival.session] # "opening"
  /\ revival.pc \in {"attached", "failing"} =>
       /\ ref.session \in {0, revival.session}
       /\ sess[revival.session] # "unused" /\ revival.session \notin synced

(* Parks are of the session the registry has, kills of one it had.         *)
ParkStands == parking # 0 => ref.session = parking
KillStands ==
  kill.pc = "disposing" => kill.session # 0 /\ sess[kill.session] \notin {"unused", "opening"}

(* Turns are of open sessions, and the status is told by started ones.     *)
TurnsOpen == \A s \in Sessions : turn[s] # "off" => sess[s] \in AtWork
SyncedStarted == \A s \in synced : sess[s] \notin {"unused", "opening"}

(* A timer is of an adopted agent, and of none that is only being adopted; *)
(* the first run is neither adopted nor parked.                            *)
Timed == timer => adopted
ColdUntimed == revival.pc = "factory" \/ (revival.pc # "none" /\ revival.cold) => ~timer
FirstRun == running => ~adopted /\ revival.pc = "none" /\ parking = 0 /\ ref.status # "parked"

Stands ==
  /\ OpenRegistered /\ OpeningRevived /\ RefStarted /\ RevivalStands
  /\ ParkStands /\ KillStands /\ TurnsOpen /\ SyncedStarted
  /\ Timed /\ ColdUntimed /\ FirstRun
LifeInv == LifeTypeOK /\ Opened /\ (severed \/ Stands)

(* Where a message is: once in the context, or in the asides of one live   *)
(* session, or in the mailbox, or nowhere.                                 *)
InAsides(m) == \E s \in Sessions : m \in asides[s]
Once ==
  \A m \in Msgs :
    /\ seen[m] \in 0 .. 1
    /\ seen[m] = 1 => ~InAsides(m) /\ ~Boxed(m)
    /\ InAsides(m) => ~Boxed(m)
    /\ \A s, t \in Sessions : m \in asides[s] /\ m \in asides[t] => s = t
BoxedOnce == \A i, j \in DOMAIN mailbox : mailbox[i] = mailbox[j] => i = j
Told ==
  \A m \in Msgs :
    /\ receipt[m] = "ok" => seen[m] = 1 \/ InAsides(m)
    /\ seen[m] = 1 \/ InAsides(m) => receipt[m] \in {"ok", "failed"}
    /\ Boxed(m) \/ m \in dropped => receipt[m] = "failed"
AsidesLive == \A s \in Sessions : asides[s] # {} => sess[s] = "live"
BusTypes ==
  /\ receipt \in [Msgs -> {"none", "pending", "ok", "failed"}]
  /\ waiter \in {"none", Anyone} \cup {From[m] : m \in Msgs}
  /\ mailbox \in Seq(Msgs) /\ Len(mailbox) <= MailboxCap
  /\ asides \in [Sessions -> SUBSET Msgs]
  /\ seen \in [Msgs -> Nat] /\ dropped \subseteq Msgs
BusInv == BusTypes /\ AsidesLive /\ Once /\ BoxedOnce /\ Told

(* The steps of the lifecycle, by themselves or as part of a step of the   *)
(* bus.                                                                    *)
LifeStep ==
  \/ HandOver \/ TimerFires \/ ParkEnds
  \/ FactoryReturns \/ Registers \/ Attaches \/ Revived
  \/ RevivalFails \/ RevivalFailed \/ RevivalFailsLate \/ Kill \/ Release \/ ReleaseEnds \/ Scan
  \/ \E s \in Sessions :
       Wakes(s) \/ TurnStarts(s) \/ \E again \in BOOLEAN : TurnEnds(s, again)
  \/ \E c \in Callers : EnsureLive(c)
  \/ UNCHANGED lifeVars

LEMMA LifeSteps ==
  ASSUME LifeTypeOK, [Next]_vars
  PROVE  LifeStep
<1>1. ASSUME NEW m \in Msgs, Send(m) \/ SendGoesOn(m) PROVE LifeStep
  <2>1. m \in Callers
    BY BusAssumption
  <2>2. CASE EnsureLive(m)
    BY <2>1, <2>2 DEF LifeStep
  <2>3. CASE Deliver(m)
    <3>1. ref.session # 0 => ref.session \in Sessions
      BY DEF LifeTypeOK
    <3> QED BY <2>3, <3>1 DEF Deliver, LifeStep
  <2>4. CASE UNCHANGED lifeVars
    BY <2>4 DEF LifeStep
  <2> QED BY <1>1, <2>2, <2>3, <2>4 DEF Send, SendGoesOn
<1>2. ASSUME NEW c \in Callers, Revive(c) PROVE LifeStep
  BY <1>2 DEF Revive, LifeStep
<1>3. ASSUME NEW s \in Sessions, EndTurn(s) PROVE LifeStep
  <2>1. (asides[s] # {} /\ sess[s] = "live") \in BOOLEAN
    OBVIOUS
  <2> QED BY <1>3, <2>1 DEF EndTurn, LifeStep
<1>4. ASSUME NEW s \in Sessions, Chat(s) PROVE LifeStep
  BY <1>4 DEF Chat, LifeStep
<1>5. ASSUME NEW s \in Sessions, PollAsides(s) \/ Inbox(s) \/ \E from : Wait(s, from) PROVE LifeStep
  BY <1>5 DEF PollAsides, Inbox, Wait, LifeStep
<1>6. CASE WaitTimesOut \/ UNCHANGED vars
  BY <1>6 DEF WaitTimesOut, vars, LifeStep
<1>7. ASSUME NEW s \in Sessions, Lifecycle(TurnStarts(s)) PROVE LifeStep
  BY <1>7 DEF Lifecycle, LifeStep
<1>8. CASE \/ Lifecycle(HandOver) \/ Lifecycle(Parks) \/ Lifecycle(Revives)
           \/ Lifecycle(Fails) \/ Lifecycle(Kill) \/ Lifecycle(Kills) \/ Lifecycle(Scan)
  BY <1>8 DEF Lifecycle, Parks, Revives, Fails, Kills, LifeStep
<1> QED BY <1>1, <1>2, <1>3, <1>4, <1>5, <1>6, <1>7, <1>8 DEF Next

(* What is spent of the bounds, and a session whose dispose begins or ends. *)
LEMMA LeftTyped ==
  ASSUME LifeTypeOK
  PROVE  /\ left.failures > 0 => [left EXCEPT !.failures = @ - 1]
                                   \in [failures : 0 .. MaxFailures, kills : 0 .. MaxKills]
         /\ left.kills > 0 => [left EXCEPT !.kills = @ - 1]
                                   \in [failures : 0 .. MaxFailures, kills : 0 .. MaxKills]
<1>1. /\ left.failures > 0 => left.failures - 1 \in 0 .. MaxFailures
      /\ left.kills > 0 => left.kills - 1 \in 0 .. MaxKills
  BY LifecycleAssumption DEF LifeTypeOK
<1> QED BY <1>1 DEF LifeTypeOK

LEMMA ClosingTyped ==
  ASSUME LifeTypeOK, NEW s
  PROVE  /\ Closing(s) \in [Sessions -> {"unused", "opening", "live", "closing", "gone"}]
         /\ \A r \in Sessions : /\ Closing(s)[r] = "closing" => sess[r] \in {"live", "closing"}
                                /\ Closing(s)[r] # "closing" => Closing(s)[r] = sess[r]
                                /\ sess[r] # "live" => Closing(s)[r] = sess[r]
BY DEF LifeTypeOK, Closing

LEMMA LifeStarts == LifeInit => LifeInv
<1> SUFFICES ASSUME LifeInit PROVE LifeInv
  OBVIOUS
<1>1. 1 \in Sessions /\ 0 \notin Sessions
  BY LifecycleAssumption DEF Sessions
<1>2. LifeTypeOK
  <2>1. left \in [failures : 0 .. MaxFailures, kills : 0 .. MaxKills]
    BY LifecycleAssumption DEF LifeInit
  <2> QED BY <1>1, <2>1 DEF LifeInit, LifeTypeOK, NoRevival, NoKill
<1> QED
  BY <1>1, <1>2
  DEF LifeInit, LifeInv, Stands, OpenRegistered, OpeningRevived, RefStarted, RevivalStands,
      ParkStands, KillStands, TurnsOpen, SyncedStarted, Timed, ColdUntimed, FirstRun, AtWork,
      Building, Opened, NoRevival, NoKill

LEMMA AnswerTyped ==
  ASSUME LifeTypeOK, NEW outcome \in {"ok", "failed"}, Answered(outcome)
  PROVE  /\ call' \in [Callers -> {"none", "waiting", "ok", "failed"}]
         /\ revival' = NoRevival
         /\ revival' \in [pc : {"none", "factory", "opening", "building", "attached", "failing"},
                          session : {0} \cup Sessions, cold : BOOLEAN]
BY DEF LifeTypeOK, Answered, NoRevival

LEMMA GoneTyped ==
  ASSUME LifeTypeOK, NEW s, Gone(s)
  PROVE  /\ sess' \in [Sessions -> {"unused", "opening", "live", "closing", "gone"}]
         /\ turn' \in [Sessions -> {"off", "waking", "on"}] /\ synced' \subseteq Sessions
         /\ \A r \in Sessions : /\ sess'[r] = IF r = s THEN "gone" ELSE sess[r]
                                /\ turn'[r] = IF r = s THEN "off" ELSE turn[r]
         /\ synced' = synced \ {s}
BY DEF LifeTypeOK, Gone

LEMMA SetStatusTyped ==
  ASSUME LifeTypeOK
  PROVE  \A status \in {"running", "idle"} : SetStatus(status) \/ UNCHANGED <<ref, timer>> =>
           /\ ref' \in [status : {"none", "running", "idle", "parked"}, session : {0} \cup Sessions]
           /\ timer' \in BOOLEAN
<1> SUFFICES ASSUME NEW status \in {"running", "idle"}, SetStatus(status) \/ UNCHANGED <<ref, timer>>
             PROVE  /\ ref' \in [status : {"none", "running", "idle", "parked"}, session : {0} \cup Sessions]
                    /\ timer' \in BOOLEAN
  OBVIOUS
<1>1. ref' = ref \/ ref' = [ref EXCEPT !.status = status]
  BY DEF SetStatus
<1>2. timer' = timer \/ timer' = (status = "idle" \/ (timer /\ status # "running"))
  BY DEF SetStatus
<1>3. timer' \in BOOLEAN
  BY <1>2, Zenon DEF LifeTypeOK
<1> QED BY <1>1, <1>3 DEF LifeTypeOK

LEMMA TypeKept == ASSUME LifeTypeOK, Opened, LifeStep PROVE LifeTypeOK'
<1> USE DEF LifeTypeOK
<1>1. CASE HandOver
  <2>1. /\ ref' = IF ref.status = "none" THEN ref ELSE [ref EXCEPT !.status = "idle"]
        /\ running' = FALSE /\ adopted' = (ref.status # "none") /\ timer' = adopted'
        /\ UNCHANGED <<sess, turn, synced, parking, revival, kill, call, left, severed>>
    BY <1>1 DEF HandOver
  <2>2. adopted' \in BOOLEAN /\ timer' \in BOOLEAN /\ running' \in BOOLEAN
    BY <2>1
  <2>3. ref' \in [status : {"none", "running", "idle", "parked"}, session : {0} \cup Sessions]
    BY <2>1
  <2> QED BY <2>1, <2>2, <2>3
<1>2. CASE TimerFires
  <2>1. CASE ref.session = 0 \/ ~adopted
    <3>1. timer' = FALSE /\ UNCHANGED <<ref, adopted, turn, synced, running, parking, revival, kill,
                                        call, left, severed, sess>>
      BY <1>2, <2>1 DEF TimerFires
    <3>2. /\ ref' = ref /\ revival' = revival /\ kill' = kill /\ left' = left /\ sess' = sess
          /\ turn' = turn /\ synced' = synced /\ call' = call /\ parking' = parking
          /\ timer' \in BOOLEAN /\ adopted' \in BOOLEAN /\ running' \in BOOLEAN /\ severed' \in BOOLEAN
      BY <3>1
    <3> QED BY <3>2
  <2>2. CASE ~(ref.session = 0 \/ ~adopted)
    <3>1. /\ timer' = FALSE /\ parking' = ref.session /\ sess' = Closing(ref.session)
          /\ UNCHANGED <<ref, adopted, turn, synced, running, revival, kill, call, left, severed>>
      BY <1>2, <2>2 DEF TimerFires
    <3>2. /\ ref' = ref /\ revival' = revival /\ kill' = kill /\ left' = left
          /\ turn' = turn /\ synced' = synced /\ call' = call /\ parking' \in {0} \cup Sessions
          /\ timer' \in BOOLEAN /\ adopted' \in BOOLEAN /\ running' \in BOOLEAN /\ severed' \in BOOLEAN
      BY <3>1
    <3> QED BY <3>1, <3>2, ClosingTyped
  <2> QED BY <2>1, <2>2
<1>3. CASE ParkEnds
  BY <1>3, GoneTyped DEF ParkEnds
<1>4. CASE FactoryReturns
  <2>1. PICK s \in Sessions : /\ sess' = [sess EXCEPT ![s] = "opening"]
                              /\ revival' = [pc |-> "opening", session |-> s, cold |-> TRUE]
    BY <1>4 DEF FactoryReturns, Opens, Fresh
  <2>2. /\ adopted' = TRUE
        /\ UNCHANGED <<ref, timer, turn, synced, running, parking, kill, call, left, severed>>
    BY <1>4 DEF FactoryReturns
  <2> QED BY <2>1, <2>2
<1>5. CASE Registers
  <2>1. /\ ref' = [status |-> "running", session |-> 0]
        /\ revival' = [revival EXCEPT !.pc = "building"]
        /\ UNCHANGED <<adopted, timer, sess, turn, synced, running, parking, kill, call, left, severed>>
    BY <1>5 DEF Registers
  <2> QED BY <2>1
<1>6. CASE Attaches
  BY <1>6, ZenonT(30) DEF Attaches, Attached
<1>7. CASE Revived
  <2>1. Answered("ok")
    BY <1>7 DEF Revived
  <2>2. ref' \in [status : {"none", "running", "idle", "parked"}, session : {0} \cup Sessions]
    BY <1>7 DEF Revived
  <2>3. timer' \in BOOLEAN
    BY <1>7, Zenon DEF Revived
  <2>4. synced' = synced \cup {revival.session} /\ revival.session # 0
    BY <1>7 DEF Revived, Opened
  <2>5. UNCHANGED <<adopted, sess, turn, running, parking, kill, left, severed>>
    BY <1>7 DEF Revived
  <2> QED BY <2>1, <2>2, <2>3, <2>4, <2>5, AnswerTyped
<1>8. CASE RevivalFails
  <2>1. left' \in [failures : 0 .. MaxFailures, kills : 0 .. MaxKills]
    BY <1>8, LeftTyped DEF RevivalFails
  <2>2. CASE revival.pc = "factory" /\ Answered("failed") /\ UNCHANGED <<ref, adopted, timer, sess>>
    BY <1>8, <2>1, <2>2, AnswerTyped DEF RevivalFails
  <2>3. CASE /\ revival' = [revival EXCEPT !.pc = "failing"]
             /\ sess' = Closing(revival.session) /\ UNCHANGED call
             /\ Unregister \/ UNCHANGED <<ref, adopted, timer>>
    <3>1. /\ ref' \in [status : {"none", "running", "idle", "parked"}, session : {0} \cup Sessions]
          /\ adopted' \in BOOLEAN /\ timer' \in BOOLEAN
      <4>1. CASE Unregister
        <5>1. (adopted' = FALSE /\ timer' = FALSE) \/ UNCHANGED <<adopted, timer>>
          BY <4>1 DEF Unregister
        <5> QED BY <4>1, <5>1 DEF Unregister, NoRef
      <4>2. CASE UNCHANGED <<ref, adopted, timer>>
        BY <4>2
      <4> QED BY <2>3, <4>1, <4>2
    <3> QED BY <1>8, <2>1, <2>3, <3>1, ClosingTyped DEF RevivalFails
  <2> QED BY <1>8, <2>2, <2>3 DEF RevivalFails
<1>9. CASE RevivalFailed
  <2>1. /\ Answered("failed") /\ Gone(revival.session)
        /\ UNCHANGED <<running, parking, kill, left, severed>>
    BY <1>9 DEF RevivalFailed
  <2>2. /\ ref' \in [status : {"none", "running", "idle", "parked"}, session : {0} \cup Sessions]
        /\ adopted' \in BOOLEAN /\ timer' \in BOOLEAN
    BY <1>9 DEF RevivalFailed, NoRef
  <2> QED BY <2>1, <2>2, AnswerTyped, GoneTyped
<1>10. CASE RevivalFailsLate
  BY <1>10, LeftTyped, AnswerTyped, ZenonT(30) DEF RevivalFailsLate
<1>11. CASE Kill
  BY <1>11, LeftTyped DEF Kill
<1>12. CASE Release
  <2>1. severed' \in BOOLEAN
    BY <1>12 DEF Release
  <2>2. /\ adopted' = FALSE /\ timer' \in BOOLEAN
        /\ UNCHANGED <<turn, synced, running, parking, revival, call, left>>
    BY <1>12, Zenon DEF Release
  <2>3. CASE ref.session = 0
    <3>1. ref' = NoRef /\ kill' = NoKill /\ UNCHANGED sess
      BY <1>12, <2>3 DEF Release
    <3> QED BY <2>1, <2>2, <3>1 DEF NoRef, NoKill
  <2>4. CASE ref.session # 0
    <3>1. /\ sess' = Closing(ref.session) /\ UNCHANGED ref
          /\ kill' = [pc |-> "disposing", session |-> ref.session]
      BY <1>12, <2>4 DEF Release
    <3> QED BY <2>1, <2>2, <3>1, ClosingTyped, ZenonT(30)
  <2> QED BY <2>3, <2>4
<1>13. CASE ReleaseEnds
  <2>1. severed' \in BOOLEAN
    BY <1>13 DEF ReleaseEnds
  <2> QED BY <1>13, <2>1, GoneTyped, ZenonT(30) DEF ReleaseEnds, Unregister, NoRef, NoKill
<1>14. CASE Scan
  BY <1>14 DEF Scan
<1>15. ASSUME NEW s \in Sessions, Wakes(s) PROVE LifeTypeOK'
  BY <1>15 DEF Wakes
<1>16. ASSUME NEW s \in Sessions, TurnStarts(s) PROVE LifeTypeOK'
  BY <1>16, SetStatusTyped DEF TurnStarts
<1>17. ASSUME NEW s \in Sessions, NEW again \in BOOLEAN, TurnEnds(s, again) PROVE LifeTypeOK'
  BY <1>17, SetStatusTyped DEF TurnEnds
<1>18. ASSUME NEW c \in Callers, EnsureLive(c) PROVE LifeTypeOK'
  <2>1. /\ UNCHANGED <<ref, adopted, timer, turn, synced, running, parking, kill, left, severed>>
        /\ \E v \in {"waiting", "ok", "failed"} : call' = [call EXCEPT ![c] = v]
    BY <1>18 DEF EnsureLive
  <2>2. call' \in [Callers -> {"none", "waiting", "ok", "failed"}]
    BY <2>1
  <2>3. CASE UNCHANGED <<revival, sess>>
    BY <2>1, <2>2, <2>3
  <2>4. CASE Opens(FALSE)
    BY <2>1, <2>2, <2>4 DEF Opens, Fresh
  <2>5. CASE revival' = [NoRevival EXCEPT !.pc = "factory"] /\ UNCHANGED sess
    BY <2>1, <2>2, <2>5, ZenonT(30) DEF NoRevival
  <2> QED BY <1>18, <2>3, <2>4, <2>5 DEF EnsureLive
<1>19. CASE UNCHANGED lifeVars
  BY <1>19 DEF lifeVars
<1> HIDE DEF LifeTypeOK
<1> QED BY <1>1, <1>2, <1>3, <1>4, <1>5, <1>6, <1>7, <1>8, <1>9, <1>10, <1>11, <1>12, <1>13,
           <1>14, <1>15, <1>16, <1>17, <1>18, <1>19 DEF LifeStep

LEMMA OpenedKept == ASSUME LifeTypeOK, Opened, LifeStep PROVE Opened'
<1> 0 \notin Sessions
  BY DEF Sessions
<1>1. CASE UNCHANGED revival
  BY <1>1 DEF Opened
<1>2. ASSUME NEW cold, Opens(cold) PROVE Opened'
  BY <1>2 DEF Opens, Fresh, Opened
<1>3. CASE revival'.pc \in {"none", "factory"}
  BY <1>3 DEF Opened
<1>4. CASE /\ revival.pc \in {"opening", "building", "attached"}
           /\ \E pc : revival' = [revival EXCEPT !.pc = pc]
  BY <1>4 DEF Opened, LifeTypeOK
<1>5. CASE FactoryReturns \/ Registers \/ Attaches
  BY <1>2, <1>4, <1>5 DEF FactoryReturns, Registers, Attaches
<1>6. CASE Revived \/ RevivalFails \/ RevivalFailed \/ RevivalFailsLate
  BY <1>3, <1>4, <1>6 DEF Revived, RevivalFails, RevivalFailed, RevivalFailsLate, Answered, NoRevival
<1>7. ASSUME NEW c \in Callers, EnsureLive(c) PROVE Opened'
  BY <1>1, <1>2, <1>3, <1>7 DEF EnsureLive, NoRevival
<1> QED
  BY <1>1, <1>5, <1>6, <1>7
  DEF LifeStep, HandOver, TimerFires, ParkEnds, Kill, Release, ReleaseEnds, Scan, Wakes,
      TurnStarts, TurnEnds, lifeVars

LEMMA StandsKept ==
  ASSUME LifeTypeOK, Opened, Stands, LifeStep, ~severed'
  PROVE  Stands'
<1> USE DEF LifeTypeOK, Opened, Stands, OpenRegistered, OpeningRevived, RefStarted, RevivalStands,
    ParkStands, KillStands, TurnsOpen, SyncedStarted, Timed, ColdUntimed, FirstRun, AtWork, Building
<1> 0 \notin Sessions
  BY DEF Sessions
<1>1. CASE HandOver
  BY <1>1 DEF HandOver
<1>2. CASE TimerFires
  <2>1. CASE ref.session = 0 \/ ~adopted
    <3>1. timer' = FALSE /\ UNCHANGED <<ref, adopted, turn, synced, running, parking, revival, kill, sess>>
      BY <1>2, <2>1 DEF TimerFires
    <3>2. OpenRegistered' /\ OpeningRevived' /\ RefStarted' /\ TurnsOpen' /\ SyncedStarted'
      BY <3>1
    <3>3. RevivalStands' /\ ParkStands' /\ KillStands' /\ Timed' /\ ColdUntimed' /\ FirstRun'
      BY <3>1
    <3> QED BY <3>2, <3>3
  <2>2. CASE ~(ref.session = 0 \/ ~adopted)
    <3>1. /\ parking' = ref.session /\ sess' = Closing(ref.session) /\ timer' = FALSE /\ timer /\ adopted
          /\ UNCHANGED <<ref, adopted, turn, synced, running, revival, kill>>
      BY <1>2, <2>2 DEF TimerFires
    <3> QED BY <2>2, <3>1, ClosingTyped
  <2> QED BY <2>1, <2>2
<1>3. CASE ParkEnds
  BY <1>3, GoneTyped DEF ParkEnds
<1>4. CASE FactoryReturns
  BY <1>4 DEF FactoryReturns, Opens, Fresh
<1>5. CASE Registers
  BY <1>5 DEF Registers
<1>6. CASE Attaches
  BY <1>6 DEF Attaches, Attached
<1>7. CASE Revived
  BY <1>7 DEF Revived, Answered, NoRevival
<1>8. CASE RevivalFails
  <2>1. UNCHANGED <<turn, synced, running, parking, kill>>
    BY <1>8 DEF RevivalFails
  <2>2. CASE revival.pc = "factory" /\ Answered("failed") /\ UNCHANGED <<ref, adopted, timer, sess>>
    BY <2>1, <2>2 DEF Answered, NoRevival
  <2>3. CASE /\ revival.pc \in {"opening", "building"} /\ revival' = [revival EXCEPT !.pc = "failing"]
             /\ sess' = Closing(revival.session)
             /\ \/ Unregister
                \/ UNCHANGED <<ref, adopted, timer>>
    <3>1. sess' = sess
      BY <2>3 DEF Closing
    <3>2. \/ ref' = NoRef /\ ~adopted' /\ ~timer'
          \/ UNCHANGED <<ref, adopted, timer>>
          \/ ref' = NoRef /\ UNCHANGED <<adopted, timer>>
      BY <2>3 DEF Unregister
    <3> QED BY <2>1, <2>3, <3>1, <3>2 DEF NoRef
  <2>4. CASE /\ revival.pc = "attached" /\ revival' = [revival EXCEPT !.pc = "failing"]
             /\ sess' = Closing(revival.session) /\ UNCHANGED <<ref, adopted, timer>>
    BY <2>1, <2>4, ClosingTyped
  <2> QED BY <1>8, <2>2, <2>3, <2>4 DEF RevivalFails
<1>9. CASE RevivalFailed
  <2>1. /\ revival' = NoRevival /\ Gone(revival.session) /\ revival.pc = "failing"
        /\ UNCHANGED <<running, parking, kill>>
    BY <1>9 DEF RevivalFailed, Answered
  <2>2. \/ ref' = NoRef /\ parking = 0 /\ ~adopted' /\ ~timer'
        \/ ref' = ref /\ timer' = timer /\ adopted' = (adopted /\ ~revival.cold)
    BY <1>9 DEF RevivalFailed, UnlessParked
  <2>3. OpenRegistered' /\ OpeningRevived' /\ RefStarted' /\ TurnsOpen' /\ SyncedStarted'
    BY <2>1, <2>2, GoneTyped DEF NoRevival, NoRef
  <2>4. RevivalStands' /\ ParkStands' /\ KillStands' /\ Timed' /\ ColdUntimed' /\ FirstRun'
    BY <2>1, <2>2, GoneTyped DEF NoRevival, NoRef
  <2> QED BY <2>3, <2>4
<1>10. CASE RevivalFailsLate
  BY <1>10 DEF RevivalFailsLate, Answered, NoRevival
<1>11. CASE Kill
  BY <1>11 DEF Kill
<1>12. CASE Release
  <2>1. /\ adopted' = FALSE /\ timer' = (timer /\ ~adopted)
        /\ UNCHANGED <<turn, synced, running, parking, revival>>
    BY <1>12 DEF Release
  <2>2. CASE ref.session = 0
    <3>1. ref' = NoRef /\ kill' = NoKill /\ UNCHANGED sess /\ revival.pc # "building"
      BY <1>12, <2>2 DEF Release, Severs
    <3> QED BY <2>1, <2>2, <3>1 DEF NoRef, NoKill
  <2>3. CASE ref.session # 0
    <3>1. /\ sess' = Closing(ref.session) /\ UNCHANGED ref
          /\ kill' = [pc |-> "disposing", session |-> ref.session]
      BY <1>12, <2>3 DEF Release
    <3> QED BY <2>1, <2>3, <3>1, ClosingTyped
  <2> QED BY <2>2, <2>3
<1>13. CASE ReleaseEnds
  <2>1. /\ kill.pc = "disposing" /\ kill' = NoKill /\ ref' = NoRef /\ Gone(kill.session)
        /\ UNCHANGED <<running, parking, revival>>
        /\ revival.pc # "building" /\ parking = 0 /\ ref.session \in {0, kill.session}
    BY <1>13 DEF ReleaseEnds, Unregister, Severs
  <2>2. (~adopted' /\ ~timer') \/ UNCHANGED <<adopted, timer>>
    BY <1>13 DEF ReleaseEnds, Unregister
  <2>3. OpenRegistered' /\ OpeningRevived' /\ RefStarted' /\ TurnsOpen' /\ SyncedStarted'
    BY <2>1, <2>2, GoneTyped DEF NoRef, NoKill
  <2>4. RevivalStands' /\ ParkStands' /\ KillStands' /\ Timed' /\ ColdUntimed' /\ FirstRun'
    BY <2>1, <2>2, GoneTyped DEF NoRef, NoKill
  <2> QED BY <2>3, <2>4
<1>14. CASE Scan
  BY <1>14 DEF Scan
<1>15. ASSUME NEW s \in Sessions, Wakes(s) PROVE Stands'
  BY <1>15 DEF Wakes
<1>16. ASSUME NEW s \in Sessions, TurnStarts(s) PROVE Stands'
  BY <1>16 DEF TurnStarts, SetStatus
<1>17. ASSUME NEW s \in Sessions, NEW again \in BOOLEAN, TurnEnds(s, again) PROVE Stands'
  BY <1>17 DEF TurnEnds, SetStatus
<1>18. ASSUME NEW c \in Callers, EnsureLive(c) PROVE Stands'
  <2>1. UNCHANGED <<ref, adopted, timer, turn, synced, running, parking, kill>>
    BY <1>18 DEF EnsureLive
  <2>2. CASE UNCHANGED <<revival, sess>>
    BY <2>1, <2>2
  <2>3. CASE ref.session = 0 /\ ref.status = "parked" /\ revival.pc = "none" /\ adopted /\ Opens(FALSE)
    BY <2>1, <2>3 DEF Opens, Fresh
  <2>4. CASE /\ ref.session = 0 /\ ref.status = "parked" /\ revival.pc = "none" /\ ~adopted
             /\ revival' = [NoRevival EXCEPT !.pc = "factory"] /\ UNCHANGED sess
    BY <2>1, <2>4 DEF NoRevival
  <2> QED BY <1>18, <2>2, <2>3, <2>4 DEF EnsureLive, Joins
<1>19. CASE UNCHANGED lifeVars
  BY <1>19 DEF lifeVars
<1> HIDE DEF Stands, LifeTypeOK, Opened
<1> QED BY <1>1, <1>2, <1>3, <1>4, <1>5, <1>6, <1>7, <1>8, <1>9, <1>10, <1>11, <1>12, <1>13,
           <1>14, <1>15, <1>16, <1>17, <1>18, <1>19 DEF LifeStep

(* What a kill severed stays so.                                           *)
LEMMA SeveredStays == ASSUME LifeTypeOK, LifeStep, severed PROVE severed'
<1>1. CASE Release \/ ReleaseEnds
  BY <1>1 DEF Release, ReleaseEnds
<1>2. CASE UNCHANGED severed
  BY <1>2
<1> QED
  BY <1>1, <1>2
  DEF LifeStep, HandOver, TimerFires, ParkEnds, FactoryReturns, Registers, Attaches, Revived,
      RevivalFails, RevivalFailed, RevivalFailsLate, Kill, Scan, Wakes, TurnStarts, TurnEnds,
      EnsureLive, lifeVars

-----------------------------------------------------------------------------

(* A session that is live stays so, or its dispose begins.                 *)
LEMMA LiveStays ==
  ASSUME LifeTypeOK, LifeStep, NEW s \in Sessions, sess[s] = "live"
  PROVE  sess'[s] \in {"live", "closing", "gone"}
<1> USE DEF LifeTypeOK
<1>1. CASE \/ HandOver \/ Registers \/ Revived \/ RevivalFailsLate \/ Kill \/ Scan
           \/ UNCHANGED lifeVars
           \/ \E r \in Sessions :
                Wakes(r) \/ TurnStarts(r) \/ \E again \in BOOLEAN : TurnEnds(r, again)
  <2>1. sess' = sess
    BY <1>1 DEF HandOver, Registers, Revived, RevivalFailsLate, Kill, Scan, lifeVars, Wakes,
                TurnStarts, TurnEnds
  <2> QED BY <2>1
<1>2. CASE \/ ParkEnds \/ ReleaseEnds \/ RevivalFailed
  <2>1. sess' = sess \/ \E r : sess' = [sess EXCEPT ![r] = "gone"]
    BY <1>2 DEF ParkEnds, ReleaseEnds, RevivalFailed, Gone
  <2> QED BY <2>1
<1>3. CASE TimerFires \/ Release \/ RevivalFails
  <2>1. sess' = sess \/ \E r : sess' = Closing(r)
    BY <1>3 DEF TimerFires, Release, RevivalFails
  <2> QED BY <2>1 DEF Closing
<1>4. CASE Attaches
  BY <1>4 DEF Attaches
<1>5. CASE FactoryReturns
  BY <1>5 DEF FactoryReturns, Opens, Fresh
<1>6. ASSUME NEW c \in Callers, EnsureLive(c) PROVE sess'[s] = "live"
  BY <1>6 DEF EnsureLive, Opens, Fresh
<1> QED BY <1>1, <1>2, <1>3, <1>4, <1>5, <1>6 DEF LifeStep

(* To look for a message in the mailbox.                                   *)
LEMMA BoxedAt ==
  ASSUME NEW m
  PROVE  /\ Boxed(m) <=> \E i \in DOMAIN mailbox : mailbox[i] = m
         /\ Boxed(m)' <=> \E i \in DOMAIN mailbox' : mailbox'[i] = m
BY DEF Boxed, ToSet

LEMMA SeesTyped ==
  ASSUME BusTypes, NEW M, Sees(M)
  PROVE  /\ seen' \in [Msgs -> Nat]
         /\ \A m \in Msgs : seen'[m] = IF m \in M THEN seen[m] + 1 ELSE seen[m]
BY DEF BusTypes, Sees

(* The asides of some sessions come into the context.                      *)
LEMMA FlushKept ==
  ASSUME BusInv, NEW S \in SUBSET Sessions, Flush(S), UNCHANGED <<receipt, mailbox, dropped>>
  PROVE  /\ asides' \in [Sessions -> SUBSET Msgs] /\ seen' \in [Msgs -> Nat]
         /\ Once' /\ BoxedOnce' /\ Told'
         /\ \A s \in Sessions : asides'[s] = IF s \in S THEN {} ELSE asides[s]
<1>1. asides \in [Sessions -> SUBSET Msgs]
  BY DEF BusInv, BusTypes
<1>2. /\ asides' \in [Sessions -> SUBSET Msgs]
      /\ \A s \in Sessions : asides'[s] = IF s \in S THEN {} ELSE asides[s]
  BY <1>1 DEF Flush
<1>3. /\ seen' \in [Msgs -> Nat]
      /\ \A m \in Msgs : seen'[m] = IF m \in UNION {asides[s] : s \in S} THEN seen[m] + 1 ELSE seen[m]
  BY SeesTyped DEF BusInv, Flush
<1>4. ASSUME NEW m \in Msgs, NEW s \in S, m \in asides[s]
      PROVE  seen[m] = 0 /\ seen'[m] = 1 /\ ~InAsides(m)' /\ ~Boxed(m) /\ InAsides(m)
  <2>1. InAsides(m) /\ \A t \in Sessions : m \in asides[t] => t = s
    BY <1>4 DEF BusInv, Once, InAsides
  <2>2. seen[m] = 0 /\ ~Boxed(m)
    BY <2>1 DEF BusInv, Once
  <2>3. ~InAsides(m)'
    BY <1>2, <2>1 DEF InAsides
  <2>4. m \in UNION {asides[t] : t \in S}
    BY <1>4
  <2> QED BY <1>3, <2>1, <2>2, <2>3, <2>4
<1>5. ASSUME NEW m \in Msgs, \A s \in S : m \notin asides[s]
      PROVE  /\ seen'[m] = seen[m] /\ (InAsides(m)' <=> InAsides(m))
             /\ \A t \in Sessions : m \in asides'[t] <=> m \in asides[t]
  <2>1. m \notin UNION {asides[t] : t \in S}
    BY <1>5
  <2>2. \A t \in Sessions : m \in asides'[t] <=> m \in asides[t]
    BY <1>2, <1>5
  <2> QED BY <1>3, <2>1, <2>2 DEF InAsides
<1>6. \A m : Boxed(m)' <=> Boxed(m)
  BY DEF Boxed
<1>7. Once'
  <2> SUFFICES ASSUME NEW m \in Msgs
               PROVE  /\ seen'[m] \in 0 .. 1
                      /\ seen'[m] = 1 => ~InAsides(m)' /\ ~Boxed(m)'
                      /\ InAsides(m)' => ~Boxed(m)'
                      /\ \A s, t \in Sessions : m \in asides'[s] /\ m \in asides'[t] => s = t
    BY DEF Once
  <2>1. CASE \E s \in S : m \in asides[s]
    BY <1>4, <1>6, <2>1 DEF InAsides
  <2>2. CASE \A s \in S : m \notin asides[s]
    <3>1. /\ seen[m] \in 0 .. 1 /\ (seen[m] = 1 => ~InAsides(m) /\ ~Boxed(m))
          /\ (InAsides(m) => ~Boxed(m))
          /\ \A s, t \in Sessions : m \in asides[s] /\ m \in asides[t] => s = t
      BY DEF BusInv, Once
    <3> QED BY <1>5, <1>6, <2>2, <3>1
  <2> QED BY <2>1, <2>2
<1>8. Told'
  <2> SUFFICES ASSUME NEW m \in Msgs
               PROVE  /\ receipt[m] = "ok" => seen'[m] = 1 \/ InAsides(m)'
                      /\ seen'[m] = 1 \/ InAsides(m)' => receipt[m] \in {"ok", "failed"}
                      /\ Boxed(m)' \/ m \in dropped => receipt[m] = "failed"
    BY DEF Told
  <2>1. /\ receipt[m] = "ok" => seen[m] = 1 \/ InAsides(m)
        /\ seen[m] = 1 \/ InAsides(m) => receipt[m] \in {"ok", "failed"}
        /\ Boxed(m) \/ m \in dropped => receipt[m] = "failed"
    BY DEF BusInv, Told
  <2>2. CASE \E s \in S : m \in asides[s]
    BY <1>4, <1>6, <2>1, <2>2
  <2>3. CASE \A s \in S : m \notin asides[s]
    BY <1>5, <1>6, <2>1, <2>3
  <2> QED BY <2>2, <2>3
<1>9. BoxedOnce'
  BY DEF BusInv, BoxedOnce
<1> QED BY <1>2, <1>3, <1>7, <1>8, <1>9

(* A message that has just been put somewhere is nowhere else.             *)
LEMMA NewlySent ==
  ASSUME BusInv, NEW m \in Msgs, receipt[m] \in {"none", "pending"}
  PROVE  seen[m] = 0 /\ ~InAsides(m) /\ ~Boxed(m) /\ m \notin dropped
<1>1. seen[m] \in 0 .. 1
  BY DEF BusInv, Once
<1> QED BY <1>1 DEF BusInv, Told

(* What the other messages keep.                                           *)
LEMMA OthersKept ==
  ASSUME BusInv, NEW m \in Msgs,
         \A x \in Msgs \ {m} : /\ seen'[x] = seen[x] /\ receipt'[x] = receipt[x]
                               /\ \A s \in Sessions : x \in asides'[s] <=> x \in asides[s]
                               /\ Boxed(x)' => Boxed(x)
                               /\ x \in dropped' => x \in dropped \/ Boxed(x),
         seen'[m] \in 0 .. 1,
         seen'[m] = 1 => ~InAsides(m)' /\ ~Boxed(m)',
         InAsides(m)' => ~Boxed(m)',
         \A s, t \in Sessions : m \in asides'[s] /\ m \in asides'[t] => s = t,
         receipt'[m] = "ok" => seen'[m] = 1 \/ InAsides(m)',
         seen'[m] = 1 \/ InAsides(m)' => receipt'[m] \in {"ok", "failed"},
         Boxed(m)' \/ m \in dropped' => receipt'[m] = "failed"
  PROVE  Once' /\ Told'
<1>1. ASSUME NEW x \in Msgs \ {m} PROVE InAsides(x)' <=> InAsides(x)
  BY DEF InAsides
<1>2. ASSUME NEW x \in Msgs \ {m}
      PROVE  /\ seen'[x] \in 0 .. 1
             /\ seen'[x] = 1 => ~InAsides(x)' /\ ~Boxed(x)'
             /\ InAsides(x)' => ~Boxed(x)'
             /\ \A s, t \in Sessions : x \in asides'[s] /\ x \in asides'[t] => s = t
  <2>1. /\ seen[x] \in 0 .. 1 /\ (seen[x] = 1 => ~InAsides(x) /\ ~Boxed(x))
        /\ (InAsides(x) => ~Boxed(x))
        /\ \A s, t \in Sessions : x \in asides[s] /\ x \in asides[t] => s = t
    BY DEF BusInv, Once
  <2> QED BY <1>1, <2>1
<1>3. ASSUME NEW x \in Msgs \ {m}
      PROVE  /\ receipt'[x] = "ok" => seen'[x] = 1 \/ InAsides(x)'
             /\ seen'[x] = 1 \/ InAsides(x)' => receipt'[x] \in {"ok", "failed"}
             /\ Boxed(x)' \/ x \in dropped' => receipt'[x] = "failed"
  <2>1. /\ receipt[x] = "ok" => seen[x] = 1 \/ InAsides(x)
        /\ seen[x] = 1 \/ InAsides(x) => receipt[x] \in {"ok", "failed"}
        /\ Boxed(x) \/ x \in dropped => receipt[x] = "failed"
    BY DEF BusInv, Told
  <2> QED BY <1>1, <2>1
<1>4. Once'
  BY <1>2 DEF Once
<1>5. Told'
  BY <1>3 DEF Told
<1> QED BY <1>4, <1>5

(* A mailbox that is full drops its oldest message for the new one.        *)
LEMMA CappedBox ==
  ASSUME BusTypes, BoxedOnce, NEW m \in Msgs, ~Boxed(m),
         mailbox' = Capped(Append(mailbox, m))
  PROVE  /\ mailbox' \in Seq(Msgs) /\ Len(mailbox') <= MailboxCap /\ BoxedOnce'
         /\ \A x \in Msgs \ {m} : Boxed(x)' => Boxed(x)
         /\ \A x : x \in ToSet(Append(mailbox, m)) => x = m \/ Boxed(x)
<1> DEFINE box == Append(mailbox, m)
<1>1. /\ mailbox \in Seq(Msgs) /\ Len(mailbox) \in Nat /\ Len(mailbox) <= MailboxCap
      /\ MailboxCap \in Nat \ {0}
  BY BusAssumption DEF BusTypes
<1>2. /\ box \in Seq(Msgs) /\ Len(box) = Len(mailbox) + 1
      /\ \A i \in 1 .. Len(mailbox) : box[i] = mailbox[i]
      /\ box[Len(mailbox) + 1] = m
  BY <1>1
<1>3. \A i \in 1 .. Len(mailbox) : mailbox[i] # m /\ Boxed(mailbox[i])
  BY <1>1, BoxedAt
<1>4. \A i, j \in 1 .. Len(box) : box[i] = box[j] => i = j
  <2>1. \A i, j \in 1 .. Len(mailbox) : mailbox[i] = mailbox[j] => i = j
    BY <1>1 DEF BoxedOnce
  <2> QED BY <1>1, <1>2, <1>3, <2>1
<1>5. \A i \in 1 .. Len(box) : box[i] = m \/ Boxed(box[i])
  BY <1>1, <1>2, <1>3
<1>6. \A x : x \in ToSet(box) => x = m \/ Boxed(x)
  <2> HIDE DEF box
  <2>1. DOMAIN box = 1 .. Len(box)
    BY <1>2
  <2> QED BY <1>5, <2>1 DEF ToSet
<1> HIDE DEF box
<1>7. CASE Len(box) > MailboxCap
  <2>1. mailbox' = Tail(box)
    BY <1>7 DEF Capped, box
  <2>2. /\ mailbox' \in Seq(Msgs) /\ Len(mailbox') = Len(box) - 1
        /\ DOMAIN mailbox' = 1 .. Len(box) - 1
        /\ \A i \in 1 .. Len(box) - 1 : mailbox'[i] = box[i + 1]
    BY <1>1, <1>2, <2>1
  <2>3. BoxedOnce'
    BY <1>1, <1>2, <1>4, <2>2 DEF BoxedOnce
  <2>4. \A x \in Msgs \ {m} : Boxed(x)' => Boxed(x)
    BY <1>1, <1>2, <1>5, <2>2, BoxedAt
  <2> QED BY <1>1, <1>2, <1>6, <2>2, <2>3, <2>4 DEF box
<1>8. CASE ~(Len(box) > MailboxCap)
  <2>1. mailbox' = box
    BY <1>8 DEF Capped, box
  <2>2. DOMAIN mailbox' = 1 .. Len(box)
    BY <1>2, <2>1
  <2>3. BoxedOnce'
    BY <1>4, <2>1, <2>2 DEF BoxedOnce
  <2>4. \A x \in Msgs \ {m} : Boxed(x)' => Boxed(x)
    BY <1>5, <2>1, <2>2, BoxedAt
  <2> QED BY <1>1, <1>2, <1>6, <1>8, <2>1, <2>3, <2>4 DEF box
<1> QED BY <1>7, <1>8

LEMMA DeliverKept ==
  ASSUME BusInv, LifeTypeOK, NEW m \in Msgs, receipt[m] \in {"none", "pending"}, Deliver(m)
  PROVE  BusInv'
<1>1. seen[m] = 0 /\ ~InAsides(m) /\ ~Boxed(m) /\ m \notin dropped
  BY NewlySent
<1>2. BusTypes /\ BoxedOnce /\ AsidesLive
  BY DEF BusInv
<1>3. sess' = sess
  BY DEF Deliver, Wakes, lifeVars
<1>4. \A x \in Msgs : Boxed(x)' <=> \E i \in DOMAIN mailbox' : mailbox'[i] = x
  BY BoxedAt
<1>5. receipt' \in [Msgs -> {"none", "pending", "ok", "failed"}]
      /\ \A x \in Msgs \ {m} : receipt'[x] = receipt[x]
  BY <1>2 DEF Deliver, BusTypes
<1>6. CASE UNCHANGED <<mailbox, dropped, asides>> /\ waiter' \in {waiter, "none"} /\ Sees({m})
           /\ receipt'[m] = "ok"
  <2>1. seen' \in [Msgs -> Nat] /\ seen'[m] = 1 /\ \A x \in Msgs \ {m} : seen'[x] = seen[x]
    BY <1>1, <1>2, <1>6, SeesTyped
  <2>2. \A x : (Boxed(x)' <=> Boxed(x)) /\ (InAsides(x)' <=> InAsides(x))
    BY <1>6 DEF Boxed, InAsides
  <2>3. Once' /\ Told'
    BY <1>1, <1>5, <1>6, <2>1, <2>2, OthersKept DEF InAsides
  <2>4. BusTypes' /\ BoxedOnce' /\ AsidesLive'
    BY <1>2, <1>3, <1>5, <1>6, <2>1 DEF BusTypes, BoxedOnce, AsidesLive
  <2> QED BY <2>3, <2>4 DEF BusInv
<1>7. CASE UNCHANGED <<mailbox, dropped, asides, waiter, seen>> /\ receipt'[m] = "failed"
  <2>1. \A x : (Boxed(x)' <=> Boxed(x)) /\ (InAsides(x)' <=> InAsides(x))
    BY <1>7 DEF Boxed, InAsides
  <2>2. Once' /\ Told'
    BY <1>1, <1>5, <1>7, <2>1, OthersKept DEF InAsides
  <2>3. BusTypes' /\ BoxedOnce' /\ AsidesLive'
    BY <1>2, <1>3, <1>5, <1>7 DEF BusTypes, BoxedOnce, AsidesLive
  <2> QED BY <2>2, <2>3 DEF BusInv
<1>8. CASE /\ mailbox' = Capped(Append(mailbox, m)) /\ UNCHANGED <<asides, seen, waiter>>
           /\ dropped' = dropped \cup (ToSet(Append(mailbox, m)) \ ToSet(Capped(Append(mailbox, m))))
           /\ receipt'[m] = "failed"
  <2>1. /\ mailbox' \in Seq(Msgs) /\ Len(mailbox') <= MailboxCap /\ BoxedOnce'
        /\ \A x \in Msgs \ {m} : Boxed(x)' => Boxed(x)
        /\ \A x : x \in ToSet(Append(mailbox, m)) => x = m \/ Boxed(x)
    BY <1>1, <1>2, <1>8, CappedBox
  <2>2. \A x : InAsides(x)' <=> InAsides(x)
    BY <1>8 DEF InAsides
  <2>3. \A x : x \in dropped' => x \in dropped \/ x = m \/ Boxed(x)
    BY <1>8, <2>1
  <2>4. Once' /\ Told'
    BY <1>1, <1>5, <1>8, <2>1, <2>2, <2>3, OthersKept DEF InAsides
  <2>5. \A x : Boxed(x) => x \in Msgs
    BY <1>2, BoxedAt DEF BusTypes
  <2>6. BusTypes' /\ AsidesLive'
    BY <1>2, <1>3, <1>5, <1>8, <2>1, <2>3, <2>5 DEF BusTypes, AsidesLive
  <2> QED BY <2>1, <2>4, <2>6 DEF BusInv
<1>9. CASE /\ UNCHANGED <<mailbox, dropped, waiter, seen>> /\ receipt'[m] = "ok"
           /\ asides' = [asides EXCEPT ![ref.session] = @ \cup {m}]
           /\ ref.session \in Sessions /\ sess[ref.session] = "live"
  <2>1. /\ asides' \in [Sessions -> SUBSET Msgs]
        /\ \A s \in Sessions : asides'[s] = IF s = ref.session THEN asides[s] \cup {m} ELSE asides[s]
    BY <1>2, <1>9 DEF BusTypes
  <2>2. /\ \A s \in Sessions : m \in asides'[s] <=> s = ref.session
        /\ \A x \in Msgs \ {m} : \A s \in Sessions : x \in asides'[s] <=> x \in asides[s]
    BY <1>1, <2>1 DEF InAsides
  <2>3. InAsides(m)' /\ \A x : Boxed(x)' <=> Boxed(x)
    BY <1>9, <2>2 DEF Boxed, InAsides
  <2>4. Once' /\ Told'
    BY <1>1, <1>5, <1>9, <2>2, <2>3, OthersKept
  <2>5. BusTypes' /\ BoxedOnce' /\ AsidesLive'
    BY <1>2, <1>3, <1>5, <1>9, <2>1 DEF BusTypes, BoxedOnce, AsidesLive
  <2> QED BY <2>4, <2>5 DEF BusInv
<1>10. ref.session # 0 => ref.session \in Sessions
  BY DEF LifeTypeOK
<1>11. receipt \in [Msgs -> {"none", "pending", "ok", "failed"}]
  BY <1>2 DEF BusTypes
<1>12. CASE Matches(m)
  BY <1>6, <1>11, <1>12 DEF Deliver
<1>13. CASE ~Matches(m) /\ ref.session = 0
  BY <1>7, <1>11, <1>13 DEF Deliver
<1>14. CASE ~Matches(m) /\ ref.session # 0
  <2> DEFINE failed == sess[ref.session] # "live"
             box == Buffered(m, failed)
  <2>1. /\ receipt' = [receipt EXCEPT ![m] = IF failed THEN "failed" ELSE "ok"]
        /\ mailbox' = Capped(box) /\ UNCHANGED waiter
        /\ dropped' = dropped \cup (ToSet(box) \ ToSet(Capped(box)))
    BY <1>14 DEF Deliver
  <2>2. CASE failed
    <3>1. box = Append(mailbox, m) /\ UNCHANGED <<asides, seen>>
      BY <1>14, <2>2 DEF Buffered, Deliver
    <3> QED BY <1>8, <1>11, <2>1, <2>2, <3>1
  <2>3. CASE ~failed
    <3>1. box = mailbox /\ Capped(mailbox) = mailbox
      BY <1>2, <2>3, BusAssumption DEF Buffered, Capped, BusTypes
    <3>2. UNCHANGED <<mailbox, dropped, waiter>> /\ receipt'[m] = "ok"
      BY <1>11, <2>1, <2>3, <3>1
    <3>3. CASE turn[ref.session] # "off"
      BY <1>9, <1>10, <1>14, <2>3, <3>2, <3>3 DEF Deliver
    <3>4. CASE turn[ref.session] = "off"
      BY <1>6, <1>14, <2>3, <3>2, <3>4 DEF Deliver
    <3> QED BY <3>3, <3>4
  <2> QED BY <2>2, <2>3
<1> QED BY <1>12, <1>13, <1>14

(* The first of a set of places, and a mailbox without what was in one.    *)
LEMMA SmallestOf ==
  ASSUME NEW T \in SUBSET Nat, T # {}
  PROVE  \E j \in T : \A k \in T : j <= k
<1> DEFINE R == {ss \in Nat \X Nat : ss[1] < ss[2]}
<1>1. IsWellFoundedOn(R, Nat)
  BY NatLessThanWellFounded DEF OpToRel
<1>2. \E j \in T : \A k \in T : ~ (<<k, j>> \in R)
  <2> HIDE DEF R
  <2> QED BY <1>1, WFMin
<1>3. PICK j \in T : \A k \in T : ~ (<<k, j>> \in R)
  BY <1>2
<1>4. ASSUME NEW k \in T PROVE j <= k
  <2>1. j \in Nat /\ k \in Nat /\ <<k, j>> \notin R
    BY <1>3
  <2>2. ~ (k < j)
    BY <2>1
  <2> QED BY <2>1, <2>2
<1> QED BY <1>4

LEMMA Removed ==
  ASSUME NEW S, NEW q \in Seq(S), NEW i \in 1 .. Len(q)
  PROVE  /\ RemoveAt(q, i) \in Seq(S) /\ Len(RemoveAt(q, i)) = Len(q) - 1
         /\ DOMAIN RemoveAt(q, i) = 1 .. Len(q) - 1
         /\ \A j \in 1 .. Len(q) - 1 :
              RemoveAt(q, i)[j] = IF j < i THEN q[j] ELSE q[j + 1]
<1> DEFINE a == SubSeq(q, 1, i - 1)
           b == SubSeq(q, i + 1, Len(q))
<1>1. /\ a \in Seq(S) /\ Len(a) = i - 1
      /\ \A j \in 1 .. i - 1 : a[j] = q[j]
  OBVIOUS
<1>2. /\ b \in Seq(S) /\ Len(b) = Len(q) - i
      /\ \A j \in 1 .. Len(q) - i : b[j] = q[j + i]
  OBVIOUS
<1> HIDE DEF a, b
<1>3. /\ a \o b \in Seq(S) /\ Len(a \o b) = Len(q) - 1
      /\ DOMAIN (a \o b) = 1 .. Len(q) - 1
  <2>1. a \o b \in Seq(S) /\ Len(a \o b) = Len(a) + Len(b)
    <3>1. a \in Seq(S) /\ b \in Seq(S)
      BY <1>1, <1>2
    <3> QED BY <3>1
  <2>2. Len(q) \in Nat /\ i \in Nat /\ Len(a) + Len(b) = Len(q) - 1
    BY <1>1, <1>2
  <2> QED BY <2>1, <2>2
<1>4. ASSUME NEW j \in 1 .. Len(q) - 1
      PROVE  (a \o b)[j] = IF j < i THEN q[j] ELSE q[j + 1]
  <2>1. CASE j < i
    <3>1. j \in 1 .. Len(a) /\ (a \o b)[j] = a[j]
      BY <1>1, <1>2, <2>1
    <3> QED BY <1>1, <2>1, <3>1
  <2>2. CASE ~(j < i)
    <3>1. j - (i - 1) \in 1 .. Len(q) - i /\ (j - (i - 1)) + i = j + 1
      BY <2>2
    <3>2. (a \o b)[j] = b[j - (i - 1)]
      BY <1>1, <1>2, <2>2
    <3> QED BY <1>2, <2>2, <3>1, <3>2
  <2> QED BY <2>1, <2>2
<1> QED BY <1>3, <1>4 DEF RemoveAt, a, b

(* The agent reads its mailbox: what it takes was nowhere else.            *)
LEMMA ReadKept ==
  ASSUME BusInv, NEW M \in SUBSET Msgs, Sees(M), UNCHANGED <<receipt, dropped, asides, sess>>,
         \A x \in M : Boxed(x),
         \A x \in Msgs : Boxed(x)' <=> Boxed(x) /\ x \notin M,
         BoxedOnce', mailbox' \in Seq(Msgs), Len(mailbox') <= MailboxCap, waiter' = waiter
  PROVE  BusInv'
<1>1. /\ seen' \in [Msgs -> Nat]
      /\ \A x \in Msgs : seen'[x] = IF x \in M THEN seen[x] + 1 ELSE seen[x]
  BY SeesTyped DEF BusInv
<1>2. \A x : InAsides(x)' <=> InAsides(x)
  BY DEF InAsides
<1>3. ASSUME NEW x \in M PROVE seen[x] = 0 /\ ~InAsides(x) /\ receipt[x] = "failed"
  <2>1. seen[x] \in 0 .. 1
    BY DEF BusInv, Once
  <2> QED BY <2>1 DEF BusInv, Once, Told
<1>4. Once'
  <2> SUFFICES ASSUME NEW x \in Msgs
               PROVE  /\ seen'[x] \in 0 .. 1
                      /\ seen'[x] = 1 => ~InAsides(x)' /\ ~Boxed(x)'
                      /\ InAsides(x)' => ~Boxed(x)'
                      /\ \A s, t \in Sessions : x \in asides'[s] /\ x \in asides'[t] => s = t
    BY DEF Once
  <2>1. /\ seen[x] \in 0 .. 1 /\ (seen[x] = 1 => ~InAsides(x) /\ ~Boxed(x))
        /\ (InAsides(x) => ~Boxed(x))
        /\ \A s, t \in Sessions : x \in asides[s] /\ x \in asides[t] => s = t
    BY DEF BusInv, Once
  <2> QED BY <1>1, <1>2, <1>3, <2>1
<1>5. Told'
  <2> SUFFICES ASSUME NEW x \in Msgs
               PROVE  /\ receipt[x] = "ok" => seen'[x] = 1 \/ InAsides(x)'
                      /\ seen'[x] = 1 \/ InAsides(x)' => receipt[x] \in {"ok", "failed"}
                      /\ Boxed(x)' \/ x \in dropped => receipt[x] = "failed"
    BY DEF Told
  <2>1. /\ receipt[x] = "ok" => seen[x] = 1 \/ InAsides(x)
        /\ seen[x] = 1 \/ InAsides(x) => receipt[x] \in {"ok", "failed"}
        /\ Boxed(x) \/ x \in dropped => receipt[x] = "failed"
    BY DEF BusInv, Told
  <2> QED BY <1>1, <1>2, <1>3, <2>1
<1>6. BusTypes' /\ AsidesLive'
  BY <1>1 DEF BusInv, BusTypes, AsidesLive
<1> QED BY <1>4, <1>5, <1>6 DEF BusInv

LEMMA WaitKept ==
  ASSUME BusInv, NEW s \in Sessions, NEW from \in {Anyone} \cup {From[m] : m \in Msgs}, Wait(s, from)
  PROVE  BusInv'
<1> DEFINE mail == {i \in DOMAIN mailbox : from \in {Anyone, From[mailbox[i]]}}
<1>1. UNCHANGED <<receipt, dropped, asides, sess>>
  BY DEF Wait, lifeVars
<1>2. CASE mail = {}
  <2>1. waiter' = from /\ UNCHANGED <<mailbox, seen>>
    BY <1>2 DEF Wait
  <2>2. \A x : (Boxed(x)' <=> Boxed(x)) /\ (InAsides(x)' <=> InAsides(x))
    BY <1>1, <2>1 DEF Boxed, InAsides
  <2> QED BY <1>1, <2>1, <2>2 DEF BusInv, BusTypes, AsidesLive, Once, BoxedOnce, Told
<1>3. CASE mail # {}
  <2> DEFINE i == CHOOSE j \in mail : \A k \in mail : j <= k
  <2>1. mailbox \in Seq(Msgs) /\ Len(mailbox) <= MailboxCap /\ BoxedOnce
    BY DEF BusInv, BusTypes
  <2>2. \E j \in mail : \A k \in mail : j <= k
    <3>1. mail \subseteq Nat
      BY <2>1
    <3> QED BY <1>3, <3>1, SmallestOf
  <2>3. i \in mail
    BY <2>2
  <2>4. mailbox' = RemoveAt(mailbox, i) /\ Sees({mailbox[i]}) /\ waiter' = waiter
    BY <1>3 DEF Wait
  <2> HIDE DEF i
  <2>5. i \in 1 .. Len(mailbox) /\ mailbox[i] \in Msgs /\ DOMAIN mailbox = 1 .. Len(mailbox)
    BY <2>1, <2>3
  <2> HIDE DEF mail
  <2>6. /\ mailbox' \in Seq(Msgs) /\ Len(mailbox') = Len(mailbox) - 1
        /\ DOMAIN mailbox' = 1 .. Len(mailbox) - 1
        /\ \A j \in 1 .. Len(mailbox) - 1 :
             mailbox'[j] = IF j < i THEN mailbox[j] ELSE mailbox[j + 1]
    BY <2>1, <2>4, <2>5, Removed
  <2>7. BoxedOnce'
    <3> SUFFICES ASSUME NEW j \in 1 .. Len(mailbox) - 1, NEW k \in 1 .. Len(mailbox) - 1,
                        mailbox'[j] = mailbox'[k]
                 PROVE  j = k
      BY <2>6 DEF BoxedOnce
    <3> DEFINE At(n) == IF n < i THEN n ELSE n + 1
    <3>1. /\ At(j) \in 1 .. Len(mailbox) /\ At(k) \in 1 .. Len(mailbox)
          /\ mailbox[At(j)] = mailbox[At(k)]
      BY <2>5, <2>6
    <3>2. At(j) = At(k)
      <4> HIDE DEF At
      <4> QED BY <2>1, <2>5, <3>1 DEF BoxedOnce
    <3> QED BY <2>5, <3>2
  <2>8. \A x \in Msgs : Boxed(x)' <=> Boxed(x) /\ x \notin {mailbox[i]}
    <3> SUFFICES ASSUME NEW x \in Msgs PROVE Boxed(x)' <=> Boxed(x) /\ x # mailbox[i]
      OBVIOUS
    <3>1. ASSUME Boxed(x)' PROVE Boxed(x) /\ x # mailbox[i]
      <4>1. PICK j \in 1 .. Len(mailbox) - 1 : mailbox'[j] = x
        BY <2>6, <3>1, BoxedAt
      <4>2. PICK k \in 1 .. Len(mailbox) : mailbox[k] = x /\ k # i
        BY <2>5, <2>6, <4>1
      <4> QED BY <2>1, <2>5, <4>2, BoxedAt DEF BoxedOnce
    <3>2. ASSUME Boxed(x), x # mailbox[i] PROVE Boxed(x)'
      <4>1. PICK k \in 1 .. Len(mailbox) : mailbox[k] = x /\ k # i
        BY <2>5, <3>2, BoxedAt
      <4>2. CASE k < i
        BY <2>5, <2>6, <4>1, <4>2, BoxedAt
      <4>3. CASE k > i
        <5>1. k - 1 \in 1 .. Len(mailbox) - 1 /\ mailbox'[k - 1] = x
          BY <2>5, <2>6, <4>1, <4>3
        <5> QED BY <2>6, <5>1, BoxedAt
      <4> QED BY <2>5, <4>1, <4>2, <4>3
    <3> QED BY <3>1, <3>2
  <2>9. Boxed(mailbox[i])
    BY <2>5, BoxedAt
  <2>10. Len(mailbox') <= MailboxCap
    BY <2>1, <2>6, BusAssumption
  <2> QED BY <1>1, <2>4, <2>5, <2>6, <2>7, <2>8, <2>9, <2>10, ReadKept
<1> QED BY <1>2, <1>3

LEMMA InboxKept == ASSUME BusInv, NEW s \in Sessions, Inbox(s) PROVE BusInv'
<1>1. /\ UNCHANGED <<receipt, dropped, asides, sess, waiter>>
      /\ mailbox' = <<>> /\ Sees(ToSet(mailbox))
  BY DEF Inbox, lifeVars
<1>2. mailbox \in Seq(Msgs) /\ MailboxCap \in Nat
  BY BusAssumption DEF BusInv, BusTypes
<1>3. ToSet(mailbox) \in SUBSET Msgs
  BY <1>2 DEF ToSet
<1>4. \A x \in ToSet(mailbox) : Boxed(x)
  BY DEF Boxed
<1>5. \A x : ~Boxed(x)'
  BY <1>1, BoxedAt
<1>6. BoxedOnce' /\ mailbox' \in Seq(Msgs) /\ Len(mailbox') <= MailboxCap
  BY <1>1, <1>2 DEF BoxedOnce
<1> QED BY <1>1, <1>3, <1>4, <1>5, <1>6, ReadKept DEF Boxed

(* A step of the bus that flushes the asides of some sessions, and what of *)
(* them may still have asides afterwards.                                  *)
LEMMA FlushingKept ==
  ASSUME BusInv, NEW S \in SUBSET Sessions, Flush(S), UNCHANGED <<receipt, mailbox, dropped>>,
         waiter' \in {waiter, "none"},
         \A s \in Sessions \ S : sess[s] = "live" => sess'[s] = "live"
  PROVE  BusInv'
<1>1. /\ asides' \in [Sessions -> SUBSET Msgs] /\ seen' \in [Msgs -> Nat]
      /\ Once' /\ BoxedOnce' /\ Told'
      /\ \A s \in Sessions : asides'[s] = IF s \in S THEN {} ELSE asides[s]
  BY FlushKept
<1>2. BusTypes'
  BY <1>1 DEF BusInv, BusTypes
<1>3. AsidesLive'
  BY <1>1 DEF BusInv, AsidesLive
<1> QED BY <1>1, <1>2, <1>3 DEF BusInv

LEMMA BusKept ==
  ASSUME LifeTypeOK, LifeStep, BusInv, [Next]_vars
  PROVE  BusInv'
<1>1. LifeTypeOK /\ BusTypes /\ asides \in [Sessions -> SUBSET Msgs]
  BY DEF BusInv, BusTypes
<1>2. ASSUME UNCHANGED <<receipt, mailbox, dropped, asides, seen>>, waiter' \in {waiter, "none"},
             \A s \in Sessions : sess[s] = "live" => sess'[s] = "live"
      PROVE  BusInv'
  <2>1. \A x : (Boxed(x)' <=> Boxed(x)) /\ (InAsides(x)' <=> InAsides(x))
    BY <1>2 DEF Boxed, InAsides
  <2> QED BY <1>2, <2>1 DEF BusInv, BusTypes, AsidesLive, Once, BoxedOnce, Told
<1>3. ASSUME NEW c \in Callers, EnsureLive(c)
      PROVE  \A s \in Sessions : sess[s] = "live" => sess'[s] = "live"
  BY <1>1, <1>3 DEF EnsureLive, Opens, Fresh, LifeTypeOK
<1>4. ASSUME NEW m \in Msgs, Send(m) \/ SendGoesOn(m) PROVE BusInv'
  <2>1. receipt[m] \in {"none", "pending"} /\ m \in Callers
    BY <1>4, BusAssumption DEF Send, SendGoesOn
  <2>2. CASE Deliver(m)
    BY <1>1, <2>1, <2>2, DeliverKept
  <2>3. ASSUME UNCHANGED <<waiter, mailbox, dropped, asides, seen>>,
               \A s \in Sessions : sess[s] = "live" => sess'[s] = "live",
               NEW told \in {"pending", "failed"}, receipt' = [receipt EXCEPT ![m] = told]
        PROVE  BusInv'
    <3>1. /\ receipt' \in [Msgs -> {"none", "pending", "ok", "failed"}] /\ receipt'[m] = told
          /\ \A x \in Msgs \ {m} : receipt'[x] = receipt[x]
      BY <1>1, <2>3 DEF BusTypes
    <3>2. \A x : (Boxed(x)' <=> Boxed(x)) /\ (InAsides(x)' <=> InAsides(x))
      BY <2>3 DEF Boxed, InAsides
    <3>3. seen[m] = 0 /\ ~InAsides(m) /\ ~Boxed(m) /\ m \notin dropped
      BY <2>1, NewlySent
    <3>4. Once' /\ Told'
      BY <2>3, <3>1, <3>2, <3>3, OthersKept DEF InAsides
    <3>5. BusTypes' /\ BoxedOnce' /\ AsidesLive'
      BY <1>1, <2>3, <3>1 DEF BusInv, BusTypes, BoxedOnce, AsidesLive
    <3> QED BY <3>4, <3>5 DEF BusInv
  <2>4. CASE EnsureLive(m) /\ Send(m) /\ ~Deliver(m)
    BY <1>3, <2>1, <2>3, <2>4 DEF Send
  <2>5. CASE UNCHANGED lifeVars /\ ~Deliver(m)
    BY <1>4, <2>3, <2>4, <2>5 DEF Send, SendGoesOn, lifeVars
  <2> QED BY <1>4, <2>2, <2>4, <2>5 DEF Send, SendGoesOn
<1>5. ASSUME NEW c \in Callers, Revive(c) PROVE BusInv'
  BY <1>2, <1>3, <1>5 DEF Revive, busVars
<1>6. ASSUME NEW s \in Sessions, EndTurn(s) PROVE BusInv'
  <2> DEFINE again == asides[s] # {} /\ sess[s] = "live"
             S == IF again THEN {s} ELSE {}
  <2>1. UNCHANGED <<receipt, mailbox, dropped, sess>> /\ waiter' = "none"
    BY <1>6 DEF EndTurn, TurnEnds
  <2>2. Flush(S)
    <3>1. CASE again
      <4>1. asides' = [asides EXCEPT ![s] = {}] /\ Sees(asides[s])
        BY <1>6, <3>1 DEF EndTurn
      <4>2. UNION {asides[t] : t \in {s}} = asides[s]
        OBVIOUS
      <4>3. asides' = [t \in Sessions |-> IF t \in {s} THEN {} ELSE asides[t]]
        BY <1>1, <4>1
      <4> QED BY <3>1, <4>1, <4>2, <4>3 DEF Flush
    <3>2. CASE ~again
      <4>1. asides' = asides /\ Sees({})
        BY <1>6, <3>2 DEF EndTurn
      <4>2. UNION {asides[t] : t \in {}} = {}
        OBVIOUS
      <4>3. asides' = [t \in Sessions |-> IF t \in {} THEN {} ELSE asides[t]]
        BY <1>1, <4>1
      <4> QED BY <3>2, <4>1, <4>2, <4>3 DEF Flush
    <3> QED BY <3>1, <3>2
  <2> HIDE DEF S
  <2>3. S \in SUBSET Sessions
    BY DEF S
  <2> QED BY <2>1, <2>2, <2>3, FlushingKept
<1>7. ASSUME NEW s \in Sessions, Chat(s) PROVE BusInv'
  BY <1>2, <1>7 DEF Chat, Wakes, busVars
<1>8. ASSUME NEW s \in Sessions, PollAsides(s) PROVE BusInv'
  <2>1. asides' = [asides EXCEPT ![s] = {}] /\ Sees(asides[s]) /\ UNCHANGED <<busVars, lifeVars>>
    BY <1>8 DEF PollAsides
  <2>2. UNION {asides[t] : t \in {s}} = asides[s]
    OBVIOUS
  <2>3. asides' = [t \in Sessions |-> IF t \in {s} THEN {} ELSE asides[t]]
    BY <1>1, <2>1
  <2>4. Flush({s})
    BY <2>1, <2>2, <2>3 DEF Flush
  <2> QED BY <2>1, <2>4, FlushingKept DEF busVars, lifeVars
<1>9. ASSUME NEW s \in Sessions, Inbox(s) PROVE BusInv'
  BY <1>9, InboxKept
<1>10. ASSUME NEW s \in Sessions, NEW from \in {Anyone} \cup {From[m] : m \in Msgs}, Wait(s, from)
       PROVE  BusInv'
  BY <1>10, WaitKept
<1>11. CASE WaitTimesOut \/ UNCHANGED vars
  BY <1>2, <1>11 DEF WaitTimesOut, vars, busVars, lifeVars
<1>12. ASSUME NEW s \in Sessions, Lifecycle(TurnStarts(s)) PROVE BusInv'
  <2> DEFINE S == {t \in Sessions : sess[t] = "live" /\ sess'[t] \in {"closing", "gone"}}
  <2>1. Flush(S) /\ UNCHANGED <<receipt, mailbox, dropped>> /\ waiter' \in {waiter, "none"}
    BY <1>12 DEF Lifecycle
  <2>2. \A t \in Sessions \ S : sess[t] = "live" => sess'[t] = "live"
    BY LiveStays
  <2> HIDE DEF S
  <2>3. S \in SUBSET Sessions
    BY DEF S
  <2> QED BY <2>1, <2>2, <2>3, FlushingKept
<1>13. CASE \/ Lifecycle(HandOver) \/ Lifecycle(Parks) \/ Lifecycle(Revives)
            \/ Lifecycle(Fails) \/ Lifecycle(Kill) \/ Lifecycle(Kills) \/ Lifecycle(Scan)
  <2> DEFINE S == {t \in Sessions : sess[t] = "live" /\ sess'[t] \in {"closing", "gone"}}
  <2>1. Flush(S) /\ UNCHANGED <<receipt, mailbox, dropped>> /\ waiter' \in {waiter, "none"}
    BY <1>13 DEF Lifecycle
  <2>2. \A t \in Sessions \ S : sess[t] = "live" => sess'[t] = "live"
    BY LiveStays
  <2> HIDE DEF S
  <2>3. S \in SUBSET Sessions
    BY DEF S
  <2> QED BY <2>1, <2>2, <2>3, FlushingKept
<1> QED BY <1>4, <1>5, <1>6, <1>7, <1>8, <1>9, <1>10, <1>11, <1>12, <1>13 DEF Next

-----------------------------------------------------------------------------

Inv == LifeInv /\ BusInv

LEMMA BusStarts == Init => BusInv
<1> SUFFICES ASSUME Init PROVE BusInv
  OBVIOUS
<1>1. /\ receipt = [m \in Msgs |-> "none"] /\ waiter = "none" /\ mailbox = <<>>
      /\ asides = [s \in Sessions |-> {}] /\ seen = [m \in Msgs |-> 0] /\ dropped = {}
  BY DEF Init
<1>2. \A x : ~Boxed(x) /\ ~InAsides(x)
  BY <1>1 DEF Boxed, ToSet, InAsides
<1>3. BusTypes /\ AsidesLive /\ BoxedOnce
  BY <1>1, BusAssumption DEF BusTypes, AsidesLive, BoxedOnce
<1> QED BY <1>1, <1>2, <1>3 DEF BusInv, Once, Told

LEMMA Invariance == Spec => []Inv
<1>1. Init => Inv
  BY LifeStarts, BusStarts DEF Init, Inv
<1>2. Inv /\ [Next]_vars => Inv'
  <2> SUFFICES ASSUME Inv, [Next]_vars PROVE Inv'
    OBVIOUS
  <2>1. LifeStep /\ LifeTypeOK /\ Opened
    BY LifeSteps DEF Inv, LifeInv
  <2>2. severed' \/ Stands'
    BY <2>1, StandsKept, SeveredStays DEF Inv, LifeInv
  <2> QED BY <2>1, <2>2, TypeKept, OpenedKept, BusKept DEF Inv, LifeInv
<1> QED BY <1>1, <1>2, PTL DEF Spec

(* The state of registry, lifecycle manager and bus has its type: a timer  *)
(* is of an adopted agent unless a kill severed it, mail within its cap,   *)
(* asides of live sessions only (agent-lifecycle.ts:66-74, bus.ts).        *)
THEOREM TypeCorrect == Spec => []TypeOK
<1>1. Inv => TypeOK
  BY DEF Inv, LifeInv, Stands, Timed, BusInv, BusTypes, AsidesLive, TypeOK
<1> QED BY <1>1, Invariance, PTL

(* However often an agent is parked, revived, killed and found again, and  *)
(* whatever fails in between, no two of its sessions have the session file *)
(* open, until a kill removes the id from a session that is half way or    *)
(* that it has not disposed (agent-lifecycle.ts:126-220).                  *)
THEOREM WriterAlone == Spec => []OneWriter
<1>1. LifeInv => OneWriter
  <2> SUFFICES ASSUME LifeTypeOK, Stands PROVE OneWriter
    BY DEF LifeInv, OneWriter
  <2> DEFINE W == {s \in Sessions : sess[s] \in {"opening", "live", "closing"}}
  <2>1. \A s, t \in W : s = t
    BY DEF Stands, OpenRegistered, OpeningRevived, RefStarted, RevivalStands, AtWork, Building, Sessions
  <2>2. W = {} \/ \E s : W = {s}
    BY <2>1
  <2>3. Cardinality(W) <= 1
    <3> HIDE DEF W
    <3>1. CASE W = {}
      BY <3>1, FS_EmptySet
    <3>2. ASSUME NEW s, W = {s} PROVE Cardinality(W) <= 1
      <4>1. Cardinality({s}) = 1
        BY FS_Singleton
      <4>2. Cardinality(W) = 1
        BY <3>2, <4>1
      <4> QED BY <4>2
    <3> QED BY <2>2, <3>1, <3>2
  <2> QED BY <2>3 DEF OneWriter
<1> QED BY <1>1, Invariance, PTL DEF Inv

(* A sender is told the truth: what was delivered has come into the        *)
(* agent's context once, or waits in a live session; what failed has not   *)
(* come twice, nor is it in the context and in the mailbox (bus.ts).       *)
THEOREM ReceiptsHold == Spec => []ReceiptsTrue
<1>1. BusInv => ReceiptsTrue
  <2> SUFFICES ASSUME BusInv, NEW m \in Msgs
               PROVE  /\ receipt[m] = "ok" => Copies(m) = 1 /\ ~Boxed(m) /\ m \notin dropped
                      /\ receipt[m] = "failed" => Copies(m) + (IF Boxed(m) THEN 1 ELSE 0) <= 1
                      /\ receipt[m] \in {"none", "pending"} => Copies(m) = 0 /\ ~Boxed(m)
    BY DEF ReceiptsTrue
  <2> DEFINE A == {s \in Sessions : m \in asides[s]}
  <2>1. /\ seen[m] \in 0 .. 1 /\ (seen[m] = 1 => ~InAsides(m) /\ ~Boxed(m))
        /\ (InAsides(m) => ~Boxed(m))
        /\ \A s, t \in A : s = t
    BY DEF BusInv, Once
  <2>2. CASE InAsides(m)
    <3>1. \E s : A = {s}
      BY <2>1, <2>2 DEF InAsides
    <3>2. Cardinality(A) = 1
      <4> HIDE DEF A
      <4>1. PICK s : A = {s}
        BY <3>1
      <4> QED BY <4>1, FS_Singleton
    <3>3. seen[m] = 0
      BY <2>1, <2>2
    <3> QED BY <2>1, <2>2, <3>2, <3>3 DEF Copies, BusInv, Told
  <2>3. CASE ~InAsides(m)
    <3>1. A = {}
      BY <2>3 DEF InAsides
    <3>2. Cardinality(A) = 0
      BY <3>1, FS_EmptySet
    <3> QED BY <2>1, <2>3, <3>2 DEF Copies, BusInv, Told
  <2> QED BY <2>2, <2>3
<1> QED BY <1>1, Invariance, PTL DEF Inv
=============================================================================
