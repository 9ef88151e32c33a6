------------------------- MODULE SessionRuns_proofs -------------------------
(***************************************************************************)
(* Proofs about SessionRuns for any messages, continuations, wakes and     *)
(* aborts, overlapping or not: every message is kept in one place, none is *)
(* stranded when the session has settled, and what an interrupt holds back *)
(* is not what a run of others starts with.                                *)
(***************************************************************************)
EXTENDS SessionRuns, FiniteSetTheorems, TLAPS

DriverRecords ==
  [pc : {"off", "prompting", "queueing", "setup", "waiting", "retrying", "running",
         "recovering", "ending"},
   gen : 0 .. Cardinality(Aborts), parked : SUBSET Users]
AbortRecords ==
  [pc : {"none", "draining", "idling", "resetting", "done"}, tasks : SUBSET Tasks]

(* The types of everything but the count, which another conjunct bounds.   *)
QueueTypes ==
  /\ steering \subseteq Users /\ followUps \subseteq Users /\ asides \subseteq Peers
  /\ sent \subseteq Users \cup Peers /\ seen \subseteq Users \cup Peers
  /\ back \subseteq Users /\ bailed \subseteq Users /\ overtaken \subseteq Users
RunTypes ==
  /\ suppressed \in BOOLEAN /\ tailOk \in BOOLEAN /\ aborting \in BOOLEAN
  /\ flushes \in 0 .. MaxFlushes
  /\ run \in [at : {"idle", "loop", "tail"}, by : Drivers, aborted : BOOLEAN, own : BOOLEAN]
  /\ drv \in [Drivers -> DriverRecords]
  /\ aborts \in [Aborts -> AbortRecords]
Types == QueueTypes /\ RunTypes

(* The generation is the number of aborts so far, and who says that one is *)
(* in progress is right.                                                   *)
Begun == {a \in Aborts : aborts[a].pc # "none"}
GenerationsCounted == generation = Cardinality(Begun)
Going == {"draining", "idling", "resetting"}
AbortsInProgress == aborting => \E a \in Aborts : aborts[a].pc \in Going

(* Only wakes that are under way hold follow-ups back, each its own.       *)
ParkedIn(D) == UNION {D[w].parked : w \in Wakes}
WellParked(D) ==
  /\ \A d \in Drivers : D[d].pc = "off" \/ d \notin Wakes => D[d].parked = {}
  /\ \A v, w \in Wakes : v # w => D[v].parked \cap D[w].parked = {}
Parking == WellParked(drv)

(* The run belongs to the one driver that awaits it.                       *)
RunDriven ==
  \A d \in Drivers : drv[d].pc = "running" <=> run.at # "idle" /\ run.by = d

(* The count never exceeds those who have counted themselves in.           *)
UsersSent == \A m \in Users : drv[m].pc # "off" => m \in sent
Counted == {d \in Drivers \ {Flush} : Counts(d)}
CountedAlive == count \in Nat /\ count <= Cardinality(Counted)

LEMMA GenerationRange ==
  ASSUME GenerationsCounted PROVE generation \in 0 .. Cardinality(Aborts)
<1>1. IsFiniteSet(Aborts)
  BY SessionAssumption, FS_Subset
<1>2. Begun \subseteq Aborts
  BY DEF Begun
<1> QED BY <1>1, <1>2, FS_Subset, FS_CardinalityType DEF GenerationsCounted

(* A driver's record, and what starting or stopping it makes of the others. *)
LEMMA DriverOff ==
  ASSUME NEW D \in [Drivers -> DriverRecords], NEW d \in Drivers
  PROVE  /\ [D EXCEPT ![d] = Off] \in [Drivers -> DriverRecords]
         /\ [D EXCEPT ![d] = Off][d] = Off
         /\ \A x \in Drivers \ {d} : [D EXCEPT ![d] = Off][x] = D[x]
<1>1. Off \in DriverRecords
  <2>1. Cardinality(Aborts) \in Nat
    BY SessionAssumption, FS_Subset, FS_CardinalityType
  <2> QED BY <2>1 DEF Off, DriverRecords
<1> QED BY <1>1

LEMMA DrivingTyped ==
  ASSUME GenerationsCounted, NEW D \in [Drivers -> DriverRecords], NEW d \in Drivers,
         NEW pc \in {"setup", "running"}, NEW parked \in SUBSET Users
  PROVE  /\ Driving(D, d, pc, parked) \in [Drivers -> DriverRecords]
         /\ Driving(D, d, pc, parked)[d].pc = pc
         /\ Driving(D, d, pc, parked)[d].parked = parked
         /\ Driving(D, d, pc, parked)[d].gen = generation
         /\ \A x \in Drivers \ {d} : Driving(D, d, pc, parked)[x] = D[x]
<1>1. [pc |-> pc, gen |-> generation, parked |-> parked] \in DriverRecords
  BY GenerationRange DEF DriverRecords
<1> QED BY <1>1 DEF Driving

(* A driver of S that was off is the only one whose record changed.        *)
OneStarted(D, S, pc) ==
  \E c \in S : /\ D[c].pc = "off" /\ drv'[c].pc = pc /\ drv'[c].gen = generation
               /\ \A x \in Drivers \ {c} : drv'[x] = D[x]
               /\ pc = "running" =>
                    run' = [at |-> "loop", by |-> c, aborted |-> FALSE, own |-> FALSE]

(* A continuation starts when nothing runs, or nothing happens.            *)
LEMMA ResumesMoves ==
  ASSUME GenerationsCounted, NEW D \in [Drivers -> DriverRecords], WellParked(D),
         NEW n, NEW S, NEW F, NEW held \in BOOLEAN, Resumes(D, n, S, F, held)
  PROVE  /\ drv' \in [Drivers -> DriverRecords] /\ WellParked(drv')
         /\ ParkedIn(drv') = ParkedIn(D)
         /\ \A m \in Users : drv'[m] = D[m]
         /\ \/ /\ drv' = D /\ count' = n
               /\ (n # 0 \/ run.at # "idle" \/ ~Resumable(S, F, held))
            \/ n = 0 /\ run.at = "idle" /\ count' = 1 /\ OneStarted(D, Conts, "setup")
<1>1. CASE n = 0 /\ run.at = "idle" /\ Resumable(S, F, held)
  <2>1. PICK c \in Conts : D[c].pc = "off" /\ drv' = Driving(D, c, "setup", {})
    BY <1>1 DEF Resumes
  <2>2. c \in Drivers /\ c \notin Wakes /\ c \notin Users
    BY SessionAssumption DEF Drivers
  <2>3. /\ drv' \in [Drivers -> DriverRecords] /\ drv'[c].pc = "setup"
        /\ drv'[c].gen = generation /\ drv'[c].parked = {}
        /\ \A x \in Drivers \ {c} : drv'[x] = D[x]
    BY <2>1, <2>2, DrivingTyped
  <2>4. Wakes \subseteq Drivers \ {c} /\ Users \subseteq Drivers \ {c}
    BY <2>2 DEF Drivers
  <2>5. ParkedIn(drv') = ParkedIn(D)
    BY <2>3, <2>4 DEF ParkedIn
  <2>6. WellParked(drv')
    BY <2>2, <2>3, <2>4 DEF WellParked
  <2>7. count' = 1 /\ OneStarted(D, Conts, "setup")
    BY <1>1, <2>1, <2>3 DEF Resumes, OneStarted
  <2> QED BY <1>1, <2>3, <2>4, <2>5, <2>6, <2>7
<1>2. CASE ~(n = 0 /\ run.at = "idle" /\ Resumable(S, F, held))
  <2>1. drv' = D /\ count' = n
    BY <1>2 DEF Resumes
  <2> QED BY <1>2, <2>1
<1> QED BY <1>1, <1>2

(* A wake holds the follow-ups back or leaves them; none is lost.          *)
LEMMA WakeMoves ==
  ASSUME GenerationsCounted, NEW D \in [Drivers -> DriverRecords], WellParked(D),
         NEW M, NEW n, NEW F \in SUBSET Users, F \cap ParkedIn(D) = {}, WakeFor(M, D, n, F)
  PROVE  /\ drv' \in [Drivers -> DriverRecords] /\ WellParked(drv')
         /\ followUps' \in SUBSET Users /\ followUps' \cap ParkedIn(drv') = {}
         /\ followUps' \cup ParkedIn(drv') = F \cup ParkedIn(D)
         /\ \A m \in Users : drv'[m] = D[m]
         /\ seen' = seen \cup M /\ count' = n + 1 /\ OneStarted(D, Wakes, "running")
<1> DEFINE P == IF Holds(F) THEN F ELSE {}
<1>1. PICK w \in Wakes : /\ D[w].pc = "off" /\ drv' = Driving(D, w, "running", P)
                         /\ Runs(w, FALSE)
  BY DEF WakeFor
<1>2. w \in Drivers /\ w \notin Users /\ P \in SUBSET Users
  BY SessionAssumption DEF Drivers
<1>3. /\ drv' \in [Drivers -> DriverRecords] /\ drv'[w].pc = "running"
      /\ drv'[w].gen = generation /\ drv'[w].parked = P
      /\ \A x \in Drivers \ {w} : drv'[x] = D[x]
  BY <1>1, <1>2, DrivingTyped
<1>4. D[w].parked = {} /\ Wakes \subseteq Drivers /\ Users \subseteq Drivers \ {w}
  BY <1>1, <1>2 DEF WellParked, Drivers
<1>5. ParkedIn(drv') = P \cup ParkedIn(D)
  BY <1>3, <1>4 DEF ParkedIn
<1>6. \A v \in Wakes : P \cap D[v].parked = {}
  BY DEF ParkedIn
<1>7. WellParked(drv')
  BY <1>3, <1>4, <1>6 DEF WellParked
<1>8. followUps' = IF Holds(F) THEN {} ELSE F
  BY DEF WakeFor
<1>9. /\ followUps' \in SUBSET Users /\ followUps' \cap ParkedIn(drv') = {}
      /\ followUps' \cup ParkedIn(drv') = F \cup ParkedIn(D)
  BY <1>5, <1>8
<1>10. seen' = seen \cup M /\ count' = n + 1 /\ OneStarted(D, Wakes, "running")
  BY <1>1, <1>3 DEF WakeFor, OneStarted, Runs
<1> QED BY <1>3, <1>4, <1>7, <1>9, <1>10

(* What draining makes of drivers D and follow-ups F: nothing is lost, and *)
(* somebody starts unless others are there or there is nothing to start.   *)
Drained(D, n, F, held) ==
  /\ drv' \in [Drivers -> DriverRecords] /\ WellParked(drv')
  /\ followUps' \in SUBSET Users /\ followUps' \cap ParkedIn(drv') = {}
  /\ followUps' \cup ParkedIn(drv') = F \cup ParkedIn(D)
  /\ \A m \in Users : drv'[m] = D[m]
  /\ \/ asides' = asides /\ seen' = seen
     \/ asides' = {} /\ seen' = seen \cup asides
  /\ \/ /\ drv' = D /\ count' = n /\ followUps' = F /\ UNCHANGED <<run, asides>>
        /\ \/ n # 0 \/ run.at # "idle"
           \/ ~Resumable(steering, F, held) /\ asides = {}
     \/ /\ n = 0 /\ run.at = "idle" /\ count' = 1
        /\ \/ OneStarted(D, Conts, "setup") /\ UNCHANGED run
           \/ OneStarted(D, Wakes, "running")

LEMMA DrainMoves ==
  ASSUME GenerationsCounted, NEW D \in [Drivers -> DriverRecords], WellParked(D),
         NEW n, NEW F \in SUBSET Users, F \cap ParkedIn(D) = {}, NEW held \in BOOLEAN,
         Drains(D, n, F, held)
  PROVE  Drained(D, n, F, held)
<1>1. CASE n = 0 /\ run.at = "idle" /\ ~Resumable(steering, F, held) /\ asides # {}
  <2>1. WakeFor(asides, D, n, F) /\ asides' = {}
    BY <1>1 DEF Drains
  <2> QED BY <1>1, <2>1, WakeMoves DEF Drained
<1>2. CASE ~(n = 0 /\ run.at = "idle" /\ ~Resumable(steering, F, held) /\ asides # {})
  <2>1. /\ Resumes(D, n, steering, F, held) /\ followUps' = F
        /\ UNCHANGED <<asides, run, seen>>
    BY <1>2 DEF Drains
  <2>2. /\ drv' \in [Drivers -> DriverRecords] /\ WellParked(drv')
        /\ ParkedIn(drv') = ParkedIn(D)
        /\ \A m \in Users : drv'[m] = D[m]
        /\ \/ /\ drv' = D /\ count' = n
              /\ (n # 0 \/ run.at # "idle" \/ ~Resumable(steering, F, held))
           \/ n = 0 /\ run.at = "idle" /\ count' = 1 /\ OneStarted(D, Conts, "setup")
    BY <2>1, ResumesMoves
  <2>3. /\ followUps' \in SUBSET Users /\ followUps' \cap ParkedIn(drv') = {}
        /\ followUps' \cup ParkedIn(drv') = F \cup ParkedIn(D)
    BY <2>1, <2>2
  <2>4. \/ /\ drv' = D /\ count' = n
           /\ \/ n # 0 \/ run.at # "idle"
              \/ ~Resumable(steering, F, held) /\ asides = {}
        \/ n = 0 /\ run.at = "idle" /\ count' = 1 /\ OneStarted(D, Conts, "setup")
    BY <1>2, <2>2 DEF Resumable
  <2> QED BY <2>1, <2>2, <2>3, <2>4 DEF Drained
<1> QED BY <1>1, <1>2

(* A driver that ends gives back what it held, and may start another.      *)
HeldApart == followUps \cap ParkedIn(drv) = {}
LEMMA EndedDriver ==
  ASSUME Types, Parking, HeldApart, NEW d \in Drivers, NEW D, D = [drv EXCEPT ![d] = Off]
  PROVE  /\ D \in [Drivers -> DriverRecords] /\ WellParked(D)
         /\ D[d] = Off /\ \A x \in Drivers \ {d} : D[x] = drv[x]
         /\ Requeued(d) \in SUBSET Users /\ Requeued(d) \cap ParkedIn(D) = {}
         /\ Requeued(d) \cup ParkedIn(D) = followUps \cup ParkedIn(drv)
<1>1. drv \in [Drivers -> DriverRecords] /\ followUps \subseteq Users
  BY DEF Types, QueueTypes, RunTypes
<1>2. /\ D \in [Drivers -> DriverRecords] /\ D[d] = Off
      /\ \A x \in Drivers \ {d} : D[x] = drv[x]
  BY <1>1, DriverOff
<1>3. D[d].pc = "off" /\ D[d].parked = {}
  BY <1>2 DEF Off
<1>4. WellParked(D)
  BY <1>2, <1>3 DEF Parking, WellParked, Drivers
<1>5. Requeued(d) \in SUBSET Users
  BY <1>1 DEF Requeued, DriverRecords
<1>6. CASE d \in Wakes
  <2>1. ParkedIn(drv) = ParkedIn(D) \cup drv[d].parked
    BY <1>2, <1>3, <1>6 DEF ParkedIn, Drivers
  <2>2. drv[d].parked \cap ParkedIn(D) = {}
    BY <1>2, <1>3, <1>6 DEF ParkedIn, Drivers, Parking, WellParked
  <2> QED BY <1>2, <1>4, <1>5, <2>1, <2>2 DEF Requeued, HeldApart
<1>7. CASE d \notin Wakes
  <2>1. ParkedIn(drv) = ParkedIn(D)
    BY <1>2, <1>7 DEF ParkedIn, Drivers
  <2>2. drv[d].parked = {}
    BY <1>7 DEF Parking, WellParked
  <2> QED BY <1>2, <1>4, <1>5, <2>1, <2>2 DEF Requeued, HeldApart
<1> QED BY <1>6, <1>7

LEMMA EndsMoves ==
  ASSUME Types, GenerationsCounted, Parking, HeldApart, NEW d \in Drivers, Ends(d)
  PROVE  /\ drv' \in [Drivers -> DriverRecords] /\ Parking'
         /\ followUps' \in SUBSET Users /\ HeldApart'
         /\ followUps' \cup ParkedIn(drv)' = followUps \cup ParkedIn(drv)
         /\ \A m \in Users : drv'[m] = IF m = d THEN Off ELSE drv[m]
         /\ \/ asides' = asides /\ seen' = seen
            \/ asides' = {} /\ seen' = seen \cup asides
         /\ \/ /\ drv' = [drv EXCEPT ![d] = Off] /\ count' = Left(d) /\ UNCHANGED <<run, asides>>
               /\ followUps' = Requeued(d)
               /\ \/ ~DrainsAfter(d) \/ Left(d) # 0 \/ run.at # "idle"
                  \/ ~Resumable(steering, followUps', suppressed) /\ asides = {}
            \/ /\ DrainsAfter(d) /\ Left(d) = 0 /\ run.at = "idle" /\ count' = 1
               /\ \/ OneStarted([drv EXCEPT ![d] = Off], Conts, "setup") /\ UNCHANGED run
                  \/ OneStarted([drv EXCEPT ![d] = Off], Wakes, "running")
<1> DEFINE D == [drv EXCEPT ![d] = Off]
<1>1. /\ D \in [Drivers -> DriverRecords] /\ WellParked(D)
      /\ D[d] = Off /\ \A x \in Drivers \ {d} : D[x] = drv[x]
      /\ Requeued(d) \in SUBSET Users /\ Requeued(d) \cap ParkedIn(D) = {}
      /\ Requeued(d) \cup ParkedIn(D) = followUps \cup ParkedIn(drv)
  BY EndedDriver
<1>2. suppressed \in BOOLEAN /\ Users \subseteq Drivers
  BY DEF Types, RunTypes, Drivers
<1>3. CASE DrainsAfter(d)
  <2>1. Drains(D, Left(d), Requeued(d), suppressed)
    BY <1>3 DEF Ends
  <2>2. Drained(D, Left(d), Requeued(d), suppressed)
    <3> HIDE DEF D
    <3> SUFFICES ASSUME NEW E, NEW n, NEW F, NEW held, E = D, n = Left(d), F = Requeued(d),
                        held = suppressed
                 PROVE  Drained(E, n, F, held)
      OBVIOUS
    <3>1. Drains(E, n, F, held)
      BY <2>1
    <3>2. /\ E \in [Drivers -> DriverRecords] /\ WellParked(E) /\ F \in SUBSET Users
          /\ F \cap ParkedIn(E) = {} /\ held \in BOOLEAN
      BY <1>1, <1>2
    <3> QED BY <3>1, <3>2, DrainMoves
  <2>3. ParkedIn(drv)' = ParkedIn(drv') /\ (Parking' <=> WellParked(drv'))
    BY DEF ParkedIn, Parking, WellParked
  <2>4. /\ Parking' /\ HeldApart'
        /\ followUps' \cup ParkedIn(drv)' = followUps \cup ParkedIn(drv)
    BY <1>1, <2>2, <2>3 DEF HeldApart, Drained
  <2>5. \A m \in Users : drv'[m] = IF m = d THEN Off ELSE drv[m]
    BY <1>1, <1>2, <2>2 DEF Drained
  <2> QED BY <1>3, <2>2, <2>4, <2>5 DEF Drained
<1>4. CASE ~DrainsAfter(d)
  <2>1. /\ count' = Left(d) /\ drv' = D /\ followUps' = Requeued(d)
        /\ UNCHANGED <<asides, run, seen>>
    BY <1>4 DEF Ends
  <2>3. ParkedIn(drv)' = ParkedIn(drv') /\ (Parking' <=> WellParked(drv'))
    BY DEF ParkedIn, Parking, WellParked
  <2> QED BY <1>1, <1>2, <1>4, <2>1, <2>3 DEF HeldApart
<1> QED BY <1>3, <1>4

-----------------------------------------------------------------------------
LEMMA GenerationsKept ==
  ASSUME Types, GenerationsCounted, AbortsInProgress, [Next]_vars
  PROVE  GenerationsCounted' /\ AbortsInProgress'
<1> DEFINE Goal == GenerationsCounted' /\ AbortsInProgress'
<1> aborts \in [Aborts -> AbortRecords] /\ Tasks \subseteq Drivers
  BY DEF Types, RunTypes, Tasks, Drivers
<1>1. ASSUME UNCHANGED <<aborts, generation, aborting>> PROVE Goal
  BY <1>1 DEF GenerationsCounted, AbortsInProgress, Begun
<1>2. ASSUME UNCHANGED <<generation, aborting>>,
             \A a \in Aborts : (aborts'[a].pc = "none") = (aborts[a].pc = "none"),
             \A a \in Aborts : aborts[a].pc \in Going => aborts'[a].pc \in Going
      PROVE  Goal
  <2>1. Begun' = Begun
    BY <1>2 DEF Begun
  <2>2. GenerationsCounted'
    BY <1>2, <2>1 DEF GenerationsCounted
  <2>3. AbortsInProgress'
    BY <1>2 DEF AbortsInProgress
  <2> QED BY <2>2, <2>3
<1>3. ASSUME NEW d \in Drivers, Ends(d) PROVE Goal
  <2>1. \A a \in Aborts : aborts'[a].pc = aborts[a].pc
    BY <1>3 DEF Ends, AbortRecords
  <2> QED BY <1>2, <1>3, <2>1 DEF Ends
<1>4. ASSUME RunEnds PROVE Goal
  <2>1. \A a \in Aborts :
          aborts'[a].pc = IF aborts[a].pc = "idling" THEN "resetting" ELSE aborts[a].pc
    BY <1>4 DEF RunEnds, AbortRecords
  <2> QED BY <1>2, <1>4, <2>1 DEF RunEnds, Going
<1>5. ASSUME NEW a \in Aborts, NEW u \in BOOLEAN, Abort(a, u) PROVE Goal
  <2>1. /\ aborts[a].pc = "none" /\ aborts'[a].pc = "draining"
        /\ \A b \in Aborts \ {a} : aborts'[b] = aborts[b]
    BY <1>5 DEF Abort
  <2>2. Begun' = Begun \cup {a} /\ a \notin Begun
    BY <2>1 DEF Begun
  <2>3. IsFiniteSet(Begun)
    BY SessionAssumption, FS_Subset DEF Begun
  <2>4. Cardinality(Begun') = Cardinality(Begun) + 1
    BY <2>2, <2>3, FS_AddElement
  <2> QED BY <1>5, <2>1, <2>4 DEF Abort, GenerationsCounted, AbortsInProgress, Going
<1>6. ASSUME NEW a \in Aborts, AbortDrained(a) PROVE Goal
  <2>1. /\ aborts[a].pc = "draining" /\ aborts'[a].pc \in {"resetting", "idling"}
        /\ \A b \in Aborts \ {a} : aborts'[b] = aborts[b]
    BY <1>6 DEF AbortDrained, AbortRecords
  <2> QED BY <1>2, <1>6, <2>1 DEF AbortDrained, Going
<1>7. ASSUME NEW a \in Aborts, AbortEnds(a) PROVE Goal
  <2>1. /\ aborts[a].pc = "resetting" /\ aborts'[a].pc = "done"
        /\ \A b \in Aborts \ {a} : aborts'[b] = aborts[b]
    BY <1>7 DEF AbortEnds, AbortRecords
  <2>2. Begun' = Begun
    BY <2>1 DEF Begun
  <2> QED BY <1>7, <2>2 DEF AbortEnds, GenerationsCounted, AbortsInProgress
<1> QED BY <1>1, <1>3, <1>4, <1>5, <1>6, <1>7
  DEF Next, vars, queueVars, Takes, Prompt, Queue, Arrives, TakeBack, Remark, FlushIdle,
      SetupEnds, Retries, Continues, Polls, PollsInVain

LEMMA QueueTypesKept ==
  ASSUME Types, GenerationsCounted, Parking, HeldApart, [Next]_vars
  PROVE  QueueTypes'
<1> USE DEF QueueTypes
<1> QueueTypes /\ drv \in [Drivers -> DriverRecords] /\ suppressed \in BOOLEAN
  BY DEF Types, RunTypes
<1> Parking /\ WellParked(drv) /\ HeldApart /\ followUps \cap ParkedIn(drv) = {}
  BY DEF Parking, HeldApart
<1>1. ASSUME NEW m \in Users, Prompt(m) \/ SetupEnds(m) \/ Retries(m) PROVE QueueTypes'
  BY <1>1 DEF Prompt, SetupEnds, Retries, Starts
<1>2. ASSUME NEW m \in Users, NEW Q \in {"steer", "followUp"}, Queue(m, Q) PROVE QueueTypes'
  BY <1>2 DEF Queue
<1>3. ASSUME NEW m \in Peers, Arrives(m) PROVE QueueTypes'
  BY <1>3 DEF Arrives, WakeFor
<1>4. ASSUME TakeBack \/ Remark \/ FlushIdle \/ Polls \/ PollsInVain \/ RunEnds PROVE QueueTypes'
  BY <1>4 DEF TakeBack, Remark, FlushIdle, Polls, PollsInVain, RunEnds, queueVars
<1>5. ASSUME NEW c \in Conts, Continues(c) PROVE QueueTypes'
  BY <1>5 DEF Continues
<1>6. ASSUME NEW d \in Drivers, Ends(d) PROVE QueueTypes'
  BY <1>6, EndsMoves DEF Ends
<1>7. ASSUME NEW a \in Aborts, NEW u \in BOOLEAN, Abort(a, u) \/ AbortDrained(a)
      PROVE  QueueTypes'
  BY <1>7 DEF Abort, AbortDrained, queueVars
<1>8. ASSUME NEW a \in Aborts, AbortEnds(a) PROVE QueueTypes'
  <2>1. Drained(drv, 0, followUps, suppressed)
    BY <1>8, DrainMoves DEF AbortEnds
  <2> QED BY <1>8, <2>1 DEF AbortEnds, Drained
<1>9. ASSUME UNCHANGED vars PROVE QueueTypes'
  BY <1>9 DEF vars, queueVars
<1>10. ASSUME NEW m \in Users, NEW as, Takes(m, as) PROVE QueueTypes'
  BY <1>10 DEF Takes
<1> QED BY <1>1, <1>2, <1>3, <1>4, <1>5, <1>6, <1>7, <1>8, <1>9, <1>10 DEF Next

(* A step of a driver that is on its way, or of a message that is taken,   *)
(* leaves what is held back alone.                                         *)
LEMMA MovedDriver ==
  ASSUME Types, Parking, HeldApart, NEW d \in Drivers, drv[d].pc # "off" \/ d \in Users,
         NEW pc \in {"prompting", "queueing", "waiting", "retrying", "running", "recovering",
                    "ending"},
         drv' = [drv EXCEPT ![d].pc = pc]
  PROVE  /\ drv' \in [Drivers -> DriverRecords] /\ Parking'
         /\ ParkedIn(drv)' = ParkedIn(drv)
         /\ drv'[d].pc = pc /\ \A x \in Drivers \ {d} : drv'[x] = drv[x]
         /\ drv'[d].gen = drv[d].gen /\ drv'[d].parked = drv[d].parked
<1>1. /\ drv' \in [Drivers -> DriverRecords]
      /\ drv'[d].pc = pc /\ drv'[d].parked = drv[d].parked /\ drv'[d].gen = drv[d].gen
      /\ \A x \in Drivers \ {d} : drv'[x] = drv[x]
  <2>1. drv \in [Drivers -> DriverRecords]
    BY DEF Types, RunTypes
  <2>2. [drv[d] EXCEPT !.pc = pc] \in DriverRecords
    BY <2>1 DEF DriverRecords
  <2>3. /\ drv' = [drv EXCEPT ![d] = [drv[d] EXCEPT !.pc = pc]]
        /\ [drv[d] EXCEPT !.pc = pc].pc = pc
        /\ [drv[d] EXCEPT !.pc = pc].parked = drv[d].parked
        /\ [drv[d] EXCEPT !.pc = pc].gen = drv[d].gen
    BY <2>1 DEF DriverRecords
  <2> QED BY <2>1, <2>2, <2>3
<1>2. \A x \in Drivers : drv'[x].parked = drv[x].parked
  BY <1>1
<1>3. ParkedIn(drv)' = ParkedIn(drv)
  BY <1>2 DEF ParkedIn, Drivers
<1>4. Parking'
  BY <1>1, <1>2, SessionAssumption DEF Parking, WellParked, Drivers
<1> QED BY <1>1, <1>3, <1>4

LEMMA TakenDriver ==
  ASSUME Types, Parking, HeldApart, UsersSent, NEW m \in Users,
         NEW as \in {"prompting", "queueing"}, Takes(m, as)
  PROVE  /\ drv' \in [Drivers -> DriverRecords] /\ Parking'
         /\ ParkedIn(drv)' = ParkedIn(drv)
         /\ drv[m].pc = "off" /\ drv'[m].pc = as /\ \A x \in Drivers \ {m} : drv'[x] = drv[x]
         /\ drv'[m].gen = drv[m].gen
<1>1. m \in Drivers /\ drv[m].pc = "off" /\ drv' = [drv EXCEPT ![m].pc = as]
  BY DEF Drivers, UsersSent, Takes
<1> QED BY <1>1, MovedDriver

(* A queued message is off its way, and somebody may go on with it.        *)
QueuedBy(m) == [drv EXCEPT ![m] = Off]
LEMMA QueuedDriver ==
  ASSUME Types, GenerationsCounted, Parking, HeldApart, NEW m \in Users, NEW Q, Queue(m, Q)
  PROVE  /\ QueuedBy(m) \in [Drivers -> DriverRecords] /\ QueuedBy(m)[m] = Off
         /\ \A x \in Drivers \ {m} : QueuedBy(m)[x] = drv[x]
         /\ drv' \in [Drivers -> DriverRecords] /\ Parking' /\ ParkedIn(drv)' = ParkedIn(drv)
         /\ \A x \in Users : drv'[x] = IF x = m THEN Off ELSE drv[x]
         /\ \/ /\ drv' = QueuedBy(m) /\ count' = count
               /\ (count # 0 \/ run.at # "idle" \/ ~Resumable(steering', followUps', suppressed))
            \/ /\ run.at = "idle" /\ Resumable(steering', followUps', suppressed)
               /\ count' = 1 /\ OneStarted(QueuedBy(m), Conts, "setup")
<1> DEFINE D == QueuedBy(m)
<1> m \in Drivers /\ m \notin Wakes /\ Users \subseteq Drivers
  BY SessionAssumption DEF Drivers
<1>1. /\ D \in [Drivers -> DriverRecords] /\ WellParked(D)
      /\ D[m] = Off /\ \A x \in Drivers \ {m} : D[x] = drv[x]
  BY EndedDriver DEF QueuedBy
<1>2. ParkedIn(D) = ParkedIn(drv)
  BY <1>1 DEF ParkedIn, Drivers
<1>3. Resumes(D, count, steering', followUps', suppressed)
  BY DEF Queue, QueuedBy
<1> HIDE DEF D
<1>4. /\ drv' \in [Drivers -> DriverRecords] /\ WellParked(drv')
      /\ ParkedIn(drv') = ParkedIn(D)
      /\ \A x \in Users : drv'[x] = D[x]
      /\ \/ /\ drv' = D /\ count' = count
            /\ (count # 0 \/ run.at # "idle" \/ ~Resumable(steering', followUps', suppressed))
         \/ run.at = "idle" /\ count' = 1 /\ OneStarted(D, Conts, "setup")
  <2>1. suppressed \in BOOLEAN
    BY DEF Types, RunTypes
  <2> SUFFICES ASSUME NEW E, NEW n, NEW held \in BOOLEAN, NEW S, NEW F,
                      E = D, n = count, held = suppressed, S = steering', F = followUps'
               PROVE  /\ drv' \in [Drivers -> DriverRecords] /\ WellParked(drv')
                      /\ ParkedIn(drv') = ParkedIn(E)
                      /\ \A x \in Users : drv'[x] = E[x]
                      /\ \/ /\ drv' = E /\ count' = n
                            /\ (n # 0 \/ run.at # "idle" \/ ~Resumable(S, F, held))
                         \/ run.at = "idle" /\ count' = 1 /\ OneStarted(E, Conts, "setup")
    BY <2>1
  <2>2. Resumes(E, n, S, F, held) /\ E \in [Drivers -> DriverRecords] /\ WellParked(E)
    BY <1>1, <1>3
  <2> QED BY <2>2, ResumesMoves
<1>5. ParkedIn(drv)' = ParkedIn(drv') /\ (Parking' <=> WellParked(drv'))
  BY DEF ParkedIn, Parking, WellParked
<1>6. \A x \in Users : drv'[x] = IF x = m THEN Off ELSE drv[x]
  BY <1>1, <1>4
<1> USE DEF D
<1>7. CASE Resumable(steering', followUps', suppressed)
  BY <1>1, <1>2, <1>4, <1>5, <1>6, <1>7
<1>8. CASE ~Resumable(steering', followUps', suppressed)
  <2>1. drv' = D /\ count' = count
    BY <1>3, <1>8 DEF Resumes
  <2> QED BY <1>1, <1>2, <1>4, <1>5, <1>6, <1>8, <2>1
<1> QED BY <1>7, <1>8

Waiting == {"prompting", "queueing", "setup", "waiting", "retrying"}

(* The end of a run moves those who await it, and nobody else.             *)
LEMMA RunEndsMoves ==
  ASSUME Types, Parking, RunDriven, RunEnds
  PROVE  /\ drv' \in [Drivers -> DriverRecords] /\ Parking'
         /\ ParkedIn(drv)' = ParkedIn(drv)
         /\ \A d \in Drivers : (drv'[d].pc = "off") = (drv[d].pc = "off")
         /\ \A d \in Drivers : drv'[d].pc # "running"
         /\ \A d \in Drivers : drv'[d].pc \in Waiting <=> drv[d].pc \in Waiting
         /\ \A d \in Drivers : Counts(d)' <=> Counts(d)
         /\ \A d \in Drivers : drv'[d].gen = drv[d].gen /\ drv'[d].parked = drv[d].parked
         /\ \A w \in Wakes : drv'[w].pc = IF drv[w].pc = "running" THEN "ending"
                                             ELSE IF drv[w].pc = "waiting" THEN "retrying"
                                             ELSE drv[w].pc
<1> drv \in [Drivers -> DriverRecords]
  BY DEF Types, RunTypes
<1>1. /\ run.by \in Drivers /\ drv[run.by].pc = "running"
      /\ \A d \in Drivers : drv[d].pc = "running" => d = run.by
  BY DEF RunEnds, RunDriven, Types, RunTypes
<1>2. ASSUME NEW d \in Drivers
      PROVE  /\ drv'[d] \in DriverRecords /\ drv'[d].parked = drv[d].parked
             /\ drv'[d].gen = drv[d].gen
             /\ drv'[d].pc = IF d = run.by THEN IF d \in Users THEN "recovering" ELSE "ending"
                             ELSE IF drv[d].pc = "waiting" THEN "retrying" ELSE drv[d].pc
  BY <1>2 DEF RunEnds, DriverRecords
<1>3. drv' = [d \in Drivers |-> drv'[d]]
  BY DEF RunEnds
<1>4. drv' \in [Drivers -> DriverRecords]
  BY <1>2, <1>3
<1>5. ParkedIn(drv)' = ParkedIn(drv)
  BY <1>2 DEF ParkedIn, Drivers
<1>6. /\ \A d \in Drivers : (drv'[d].pc = "off") = (drv[d].pc = "off")
      /\ \A d \in Drivers : drv'[d].pc # "running"
      /\ \A d \in Drivers : drv'[d].pc \in Waiting <=> drv[d].pc \in Waiting
      /\ \A d \in Drivers : Counts(d)' <=> Counts(d)
  BY <1>1, <1>2 DEF Waiting, Counts
<1>7. Parking'
  BY <1>2, <1>6 DEF Parking, WellParked, Drivers
<1>8. \A w \in Wakes : w \in Drivers /\ w \notin Users
  BY SessionAssumption DEF Drivers
<1>9. \A w \in Wakes : drv'[w].pc = IF drv[w].pc = "running" THEN "ending"
                                     ELSE IF drv[w].pc = "waiting" THEN "retrying"
                                     ELSE drv[w].pc
  BY <1>1, <1>2, <1>8
<1> QED BY <1>2, <1>4, <1>5, <1>6, <1>7, <1>9

(* The record of the drivers keeps its type, what is held back belongs to  *)
(* wakes under way, and only a message that was sent drives a prompt.      *)
LEMMA DriversKept ==
  ASSUME Types, GenerationsCounted, Parking, HeldApart, RunDriven, UsersSent, [Next]_vars
  PROVE  drv' \in [Drivers -> DriverRecords] /\ Parking' /\ UsersSent'
<1> DEFINE Goal == drv' \in [Drivers -> DriverRecords] /\ Parking' /\ UsersSent'
<1> /\ drv \in [Drivers -> DriverRecords] /\ suppressed \in BOOLEAN
    /\ WellParked(drv) /\ followUps \in SUBSET Users /\ followUps \cap ParkedIn(drv) = {}
    /\ Users \subseteq Drivers
  BY DEF Types, RunTypes, QueueTypes, Parking, HeldApart, Drivers
<1>1. ASSUME UNCHANGED <<drv, sent>> PROVE Goal
  BY <1>1 DEF Parking, UsersSent, WellParked
<1>2. ASSUME NEW m \in Users, Prompt(m) PROVE Goal
  <2>1. drv' = Driving(drv, m, "setup", {}) /\ sent' = sent /\ drv[m].pc = "prompting"
    BY <1>2 DEF Prompt
  <2>2. /\ drv' \in [Drivers -> DriverRecords] /\ drv'[m].parked = {}
        /\ \A x \in Drivers \ {m} : drv'[x] = drv[x]
    BY <2>1, DrivingTyped
  <2>3. Parking'
    BY <2>2, SessionAssumption DEF Parking, WellParked, Drivers
  <2> QED BY <2>1, <2>2, <2>3 DEF UsersSent
<1>3. ASSUME NEW m \in Users, NEW Q, Queue(m, Q) PROVE Goal
  <2>1. sent' = sent /\ drv' \in [Drivers -> DriverRecords] /\ Parking'
    BY <1>3, QueuedDriver DEF Queue
  <2>2. \A x \in Users : drv'[x] = IF x = m THEN Off ELSE drv[x]
    BY <1>3, QueuedDriver
  <2> QED BY <2>1, <2>2 DEF UsersSent, Off
<1>4. ASSUME NEW m \in Peers, Arrives(m) PROVE Goal
  <2>1. CASE Streaming
    BY <1>1, <1>4, <2>1 DEF Arrives, Parking, WellParked, UsersSent
  <2>2. CASE ~Streaming
    <3>1. WakeFor({m}, drv, count, followUps) /\ sent' = sent \cup {m}
      BY <1>4, <2>2 DEF Arrives
    <3>2. /\ drv' \in [Drivers -> DriverRecords] /\ WellParked(drv')
          /\ \A x \in Users : drv'[x] = drv[x]
      BY <3>1, WakeMoves
    <3> QED BY <3>1, <3>2 DEF Parking, WellParked, UsersSent
  <2> QED BY <2>1, <2>2
<1>5. ASSUME NEW m \in Users, SetupEnds(m) \/ Retries(m) PROVE Goal
  <2>1. PICK pc \in {"waiting", "retrying", "running", "recovering", "ending"} :
          drv[m].pc # "off" /\ drv' = [drv EXCEPT ![m].pc = pc] /\ sent' = sent
    BY <1>5 DEF SetupEnds, Retries, Starts
  <2>2. /\ drv' \in [Drivers -> DriverRecords] /\ Parking'
        /\ \A x \in Drivers \ {m} : drv'[x] = drv[x]
    BY <2>1, MovedDriver
  <2> QED BY <2>1, <2>2 DEF UsersSent
<1>6. ASSUME NEW c \in Conts, Continues(c) PROVE Goal
  <2>1. PICK pc \in {"waiting", "retrying", "running", "recovering", "ending"} :
          drv[c].pc # "off" /\ drv' = [drv EXCEPT ![c].pc = pc] /\ sent' = sent
    BY <1>6 DEF Continues
  <2>2. c \in Drivers /\ c \notin Users
    BY SessionAssumption DEF Drivers
  <2>3. /\ drv' \in [Drivers -> DriverRecords] /\ Parking'
        /\ \A x \in Drivers \ {c} : drv'[x] = drv[x]
    BY <2>1, <2>2, MovedDriver
  <2> QED BY <2>1, <2>2, <2>3 DEF UsersSent
<1>7. ASSUME FlushIdle PROVE Goal
  <2>1. drv' = Driving(drv, Flush, "running", {}) /\ sent' = sent /\ Flush \in Drivers
    BY <1>7 DEF FlushIdle, queueVars, Drivers
  <2>2. /\ drv' \in [Drivers -> DriverRecords] /\ drv'[Flush].parked = {}
        /\ \A x \in Drivers \ {Flush} : drv'[x] = drv[x]
    BY <2>1, DrivingTyped
  <2>3. Parking'
    BY <2>2, SessionAssumption DEF Parking, WellParked, Drivers
  <2> QED BY <2>1, <2>2, <2>3, SessionAssumption DEF UsersSent
<1>8. ASSUME NEW d \in Drivers, Ends(d) PROVE Goal
  <2>1. /\ drv' \in [Drivers -> DriverRecords] /\ Parking'
        /\ \A m \in Users : drv'[m] = IF m = d THEN Off ELSE drv[m]
    BY <1>8, EndsMoves
  <2> QED BY <1>8, <2>1 DEF Ends, UsersSent, Off
<1>9. ASSUME RunEnds PROVE Goal
  BY <1>9, RunEndsMoves DEF RunEnds, queueVars, UsersSent
<1>10. ASSUME NEW a \in Aborts, AbortEnds(a) PROVE Goal
  <2>1. Drained(drv, 0, followUps, suppressed) /\ sent' = sent
    BY <1>10, DrainMoves DEF AbortEnds
  <2> QED BY <2>1 DEF Drained, Parking, WellParked, UsersSent
<1>11. ASSUME NEW m \in Users, NEW as \in {"prompting", "queueing"}, Takes(m, as) PROVE Goal
  BY <1>11, TakenDriver DEF Takes, UsersSent
<1> QED BY <1>1, <1>2, <1>3, <1>4, <1>5, <1>6, <1>7, <1>8, <1>9, <1>10, <1>11
  DEF Next, vars, queueVars, TakeBack, Remark, Polls, PollsInVain, Abort, AbortDrained

(* A run belongs to who started it until it ends.                          *)
LEMMA RunKept ==
  ASSUME Types, GenerationsCounted, Parking, HeldApart, RunDriven, UsersSent, [Next]_vars
  PROVE  /\ run' \in [at : {"idle", "loop", "tail"}, by : Drivers, aborted : BOOLEAN, own : BOOLEAN]
         /\ RunDriven'
<1> DEFINE RunSet == [at : {"idle", "loop", "tail"}, by : Drivers, aborted : BOOLEAN,
                      own : BOOLEAN]
           Goal == run' \in RunSet /\ RunDriven'
<1> /\ drv \in [Drivers -> DriverRecords] /\ run \in RunSet /\ suppressed \in BOOLEAN
    /\ WellParked(drv) /\ followUps \in SUBSET Users /\ followUps \cap ParkedIn(drv) = {}
    /\ Users \subseteq Drivers /\ Conts \subseteq Drivers /\ Wakes \subseteq Drivers
    /\ Flush \in Drivers
  BY DEF Types, RunTypes, QueueTypes, Parking, HeldApart, Drivers
<1>0. drv' \in [Drivers -> DriverRecords]
  BY DriversKept
<1>1. ASSUME UNCHANGED run, \A d \in Drivers : (drv'[d].pc = "running") = (drv[d].pc = "running")
      PROVE  Goal
  BY <1>1 DEF RunDriven
<1>2. ASSUME run' \in RunSet, UNCHANGED drv, run'.at # "idle" <=> run.at # "idle",
             run'.by = run.by
      PROVE  Goal
  BY <1>2 DEF RunDriven
<1>3. ASSUME NEW d \in Drivers, NEW own \in BOOLEAN, run.at = "idle", Runs(d, own),
             drv'[d].pc = "running",
             \A x \in Drivers \ {d} : (drv'[x].pc = "running") = (drv[x].pc = "running")
      PROVE  Goal
  BY <1>3 DEF RunDriven, Runs
<1>4. ASSUME NEW S \in SUBSET Drivers, NEW D \in [Drivers -> DriverRecords], run.at = "idle",
             OneStarted(D, S, "running"), \A x \in Drivers : D[x].pc # "running"
      PROVE  Goal
  <2>1. PICK d \in S : /\ drv'[d].pc = "running" /\ \A x \in Drivers \ {d} : drv'[x] = D[x]
                       /\ run' = [at |-> "loop", by |-> d, aborted |-> FALSE, own |-> FALSE]
    BY <1>4 DEF OneStarted
  <2> QED BY <1>4, <2>1 DEF RunDriven
<1>5. ASSUME NEW m \in Users, Prompt(m) PROVE Goal
  <2>1. drv' = Driving(drv, m, "setup", {}) /\ drv[m].pc = "prompting" /\ UNCHANGED run
    BY <1>5 DEF Prompt
  <2>2. drv'[m].pc = "setup" /\ \A x \in Drivers \ {m} : drv'[x] = drv[x]
    BY <2>1, DrivingTyped
  <2> QED BY <1>1, <2>1, <2>2
<1>6. ASSUME NEW m \in Users, NEW Q, Queue(m, Q) PROVE Goal
  <2> DEFINE D == QueuedBy(m)
  <2>1. UNCHANGED run /\ drv[m].pc = "queueing"
    BY <1>6 DEF Queue
  <2>2. /\ D[m] = Off /\ \A x \in Drivers \ {m} : D[x] = drv[x]
        /\ drv' = D \/ OneStarted(D, Conts, "setup")
    BY <1>6, QueuedDriver
  <2>3. \A x \in Drivers : (drv'[x].pc = "running") = (D[x].pc = "running")
    BY <2>2 DEF OneStarted
  <2> QED BY <1>1, <2>1, <2>2, <2>3 DEF Off
<1>7. ASSUME NEW m \in Peers, Arrives(m) PROVE Goal
  <2>1. CASE Streaming
    BY <1>1, <1>7, <2>1 DEF Arrives
  <2>2. CASE ~Streaming
    <3>1. WakeFor({m}, drv, count, followUps) /\ run.at = "idle"
      BY <1>7, <2>2 DEF Arrives, Streaming
    <3>2. OneStarted(drv, Wakes, "running")
      BY <3>1, WakeMoves
    <3>3. \A x \in Drivers : drv[x].pc # "running"
      BY <3>1 DEF RunDriven
    <3> QED BY <1>4, <3>1, <3>2, <3>3
  <2> QED BY <2>1, <2>2
<1>8. ASSUME NEW m \in Users, NEW pc \in {"waiting", "ending"}, drv[m].pc \in {"setup", "retrying"},
             drv' = [drv EXCEPT ![m].pc = pc], UNCHANGED run
      PROVE  Goal
  <2>1. drv'[m].pc = pc /\ \A x \in Drivers \ {m} : drv'[x] = drv[x]
    BY <1>8, MovedDriver
  <2> QED BY <1>1, <1>8, <2>1
<1>9. ASSUME NEW m \in Users, drv[m].pc \in {"setup", "retrying"}, Starts(m) PROVE Goal
  <2>1. CASE run.at = "idle"
    <3>1. Runs(m, TRUE) /\ drv' = [drv EXCEPT ![m].pc = "running"]
      BY <1>9, <2>1 DEF Starts
    <3>2. drv'[m].pc = "running" /\ \A x \in Drivers \ {m} : drv'[x] = drv[x]
      BY <1>9, <3>1, MovedDriver
    <3> QED BY <1>3, <2>1, <3>1, <3>2
  <2>2. CASE run.at # "idle"
    BY <1>8, <1>9, <2>2 DEF Starts
  <2> QED BY <2>1, <2>2
<1>10. ASSUME NEW m \in Users, SetupEnds(m) \/ Retries(m) PROVE Goal
  BY <1>8, <1>9, <1>10 DEF SetupEnds, Retries
<1>11. ASSUME NEW c \in Conts, Continues(c) PROVE Goal
  <2>1. CASE drv' = [drv EXCEPT ![c].pc = "ending"] /\ UNCHANGED run
    <3>1. /\ drv[c].pc = "setup" /\ drv'[c].pc = "ending"
          /\ \A x \in Drivers \ {c} : drv'[x] = drv[x]
      BY <1>11, <2>1, MovedDriver DEF Continues
    <3> QED BY <1>1, <2>1, <3>1
  <2>2. ASSUME NEW own \in BOOLEAN, run.at = "idle", drv' = [drv EXCEPT ![c].pc = "running"],
               Runs(c, own)
        PROVE  Goal
    <3>1. drv[c].pc = "setup" /\ drv'[c].pc = "running" /\ \A x \in Drivers \ {c} : drv'[x] = drv[x]
      BY <1>11, <2>2, MovedDriver DEF Continues
    <3> QED BY <1>3, <2>2, <3>1
  <2> QED BY <1>11, <2>1, <2>2 DEF Continues
<1>12. ASSUME FlushIdle PROVE Goal
  <2>1. drv' = Driving(drv, Flush, "running", {}) /\ run.at = "idle" /\ Runs(Flush, FALSE)
    BY <1>12 DEF FlushIdle, Streaming
  <2>2. drv'[Flush].pc = "running" /\ \A x \in Drivers \ {Flush} : drv'[x] = drv[x]
    BY <2>1, DrivingTyped
  <2> QED BY <1>3, <2>1, <2>2
<1>13. ASSUME NEW d \in Drivers, Ends(d) PROVE Goal
  <2> DEFINE D == [drv EXCEPT ![d] = Off]
  <2>1. D \in [Drivers -> DriverRecords] /\ D[d] = Off /\ \A x \in Drivers \ {d} : D[x] = drv[x]
    BY EndedDriver DEF Types
  <2>2. drv[d].pc # "running" /\ D[d].pc # "running"
    BY <1>13, <2>1 DEF Ends, Off
  <2>3. \/ drv' = D /\ UNCHANGED run
        \/ OneStarted(D, Conts, "setup") /\ UNCHANGED run
        \/ run.at = "idle" /\ OneStarted(D, Wakes, "running")
    BY <1>13, EndsMoves
  <2>4. CASE (drv' = D \/ OneStarted(D, Conts, "setup")) /\ UNCHANGED run
    <3>1. \A x \in Drivers : (drv'[x].pc = "running") = (D[x].pc = "running")
      BY <2>4 DEF OneStarted
    <3> QED BY <1>1, <2>1, <2>2, <2>4, <3>1
  <2>5. CASE run.at = "idle" /\ OneStarted(D, Wakes, "running")
    <3>1. \A x \in Drivers : D[x].pc # "running"
      BY <2>1, <2>2, <2>5 DEF RunDriven
    <3> HIDE DEF D
    <3>2. SUFFICES ASSUME NEW E, E = D PROVE Goal
      OBVIOUS
    <3> QED BY <1>4, <2>1, <2>5, <3>1, <3>2
  <2> QED BY <2>3, <2>4, <2>5
<1>14. ASSUME RunEnds PROVE Goal
  <2>1. run' \in RunSet /\ run'.at = "idle"
    BY <1>14 DEF RunEnds
  <2> QED BY <1>14, <2>1, RunEndsMoves DEF RunDriven
<1>15. ASSUME Polls \/ PollsInVain PROVE Goal
  <2>1. /\ run' \in RunSet /\ UNCHANGED drv /\ run'.at # "idle" /\ run.at # "idle"
        /\ run'.by = run.by
    BY <1>15 DEF Polls, PollsInVain
  <2> QED BY <1>2, <2>1
<1>16. ASSUME NEW a \in Aborts, NEW u \in BOOLEAN, Abort(a, u) PROVE Goal
  <2>1. run' \in RunSet /\ UNCHANGED drv /\ run'.at = run.at /\ run'.by = run.by
    BY <1>16 DEF Abort
  <2> QED BY <1>2, <2>1
<1>17. ASSUME NEW a \in Aborts, AbortEnds(a) PROVE Goal
  <2>1. Drained(drv, 0, followUps, suppressed)
    BY <1>17, DrainMoves DEF AbortEnds
  <2>2. CASE UNCHANGED run /\ (drv' = drv \/ OneStarted(drv, Conts, "setup"))
    BY <1>1, <2>2 DEF OneStarted
  <2>3. CASE run.at = "idle" /\ OneStarted(drv, Wakes, "running")
    <3>1. \A x \in Drivers : drv[x].pc # "running"
      BY <2>3 DEF RunDriven
    <3> QED BY <1>4, <2>3, <3>1
  <2> QED BY <2>1, <2>2, <2>3 DEF Drained
<1>18. ASSUME NEW m \in Users, NEW as \in {"prompting", "queueing"}, Takes(m, as) PROVE Goal
  <2>1. UNCHANGED run
    BY <1>18 DEF Takes
  <2> QED BY <1>1, <1>18, <2>1, TakenDriver
<1> QED BY <1>1, <1>5, <1>6, <1>7, <1>10, <1>11, <1>12, <1>13, <1>14, <1>15, <1>16, <1>17, <1>18
  DEF Next, vars, queueVars, TakeBack, Remark, AbortDrained

LEMMA TypesKept ==
  ASSUME Types, GenerationsCounted, Parking, HeldApart, RunDriven, UsersSent, [Next]_vars
  PROVE  Types'
<1> DEFINE Rest == /\ suppressed' \in BOOLEAN /\ tailOk' \in BOOLEAN /\ aborting' \in BOOLEAN
                   /\ flushes' \in 0 .. MaxFlushes /\ aborts' \in [Aborts -> AbortRecords]
<1> /\ suppressed \in BOOLEAN /\ tailOk \in BOOLEAN /\ aborting \in BOOLEAN
    /\ flushes \in 0 .. MaxFlushes /\ aborts \in [Aborts -> AbortRecords]
  BY DEF Types, RunTypes
<1>1. ASSUME UNCHANGED <<aborts, flushes>>, suppressed' \in BOOLEAN, tailOk' \in BOOLEAN,
             aborting' \in BOOLEAN
      PROVE  Rest
  BY <1>1
<1>2. ASSUME NEW m \in Users, NEW Q, Takes(m, Q) \/ Prompt(m) \/ Queue(m, Q) PROVE Rest
  BY <1>2 DEF Takes, Prompt, Queue
<1>3. ASSUME FlushIdle PROVE Rest
  BY <1>3, SessionAssumption DEF FlushIdle
<1>4. ASSUME NEW d \in Drivers, Ends(d) PROVE Rest
  <2>1. \A a \in Aborts : [aborts[a] EXCEPT !.tasks = @ \ {d}] \in AbortRecords
    BY DEF AbortRecords
  <2> QED BY <1>4, <2>1 DEF Ends
<1>5. ASSUME RunEnds PROVE Rest
  <2>1. \A a \in Aborts : [aborts[a] EXCEPT !.pc = "resetting"] \in AbortRecords
    BY DEF AbortRecords
  <2> QED BY <1>5, <2>1 DEF RunEnds
<1>6. ASSUME NEW a \in Aborts, NEW u \in BOOLEAN, Abort(a, u) PROVE Rest
  <2>1. [pc |-> "draining", tasks |-> {d \in Tasks : drv[d].pc # "off"}] \in AbortRecords
    BY DEF AbortRecords
  <2> QED BY <1>6, <2>1 DEF Abort
<1>7. ASSUME NEW a \in Aborts, AbortDrained(a) \/ AbortEnds(a) PROVE Rest
  <2>1. PICK pc \in {"resetting", "idling", "done"} : aborts' = [aborts EXCEPT ![a].pc = pc]
    BY <1>7 DEF AbortDrained, AbortEnds
  <2>2. [aborts[a] EXCEPT !.pc = pc] \in AbortRecords
    BY DEF AbortRecords
  <2>3. aborts' \in [Aborts -> AbortRecords]
    BY <2>1, <2>2
  <2> QED BY <1>7, <2>3 DEF AbortDrained, AbortEnds
<1>8. ASSUME NEW m \in Users, SetupEnds(m) \/ Retries(m) PROVE Rest
  BY <1>1, <1>8 DEF SetupEnds, Retries
<1>9. ASSUME NEW m \in Peers, Arrives(m) PROVE Rest
  BY <1>1, <1>9 DEF Arrives
<1>10. ASSUME NEW c \in Conts, Continues(c) PROVE Rest
  BY <1>1, <1>10 DEF Continues
<1>11. ASSUME TakeBack \/ Remark \/ Polls \/ PollsInVain \/ UNCHANGED vars PROVE Rest
  BY <1>1, <1>11 DEF TakeBack, Remark, Polls, PollsInVain, vars, queueVars
<1>12. Rest
  BY <1>2, <1>3, <1>4, <1>5, <1>6, <1>7, <1>8, <1>9, <1>10, <1>11 DEF Next
<1> QED BY <1>12, QueueTypesKept, DriversKept, RunKept DEF Types, RunTypes

-----------------------------------------------------------------------------
LEMMA CountedFinite == IsFiniteSet(Counted) /\ IsFiniteSet(Counted')
<1>1. IsFiniteSet(Drivers)
  <2>1. IsFiniteSet(Users \cup Conts \cup Wakes)
    BY SessionAssumption, FS_Subset
  <2> QED BY <2>1, FS_AddElement DEF Drivers
<1> QED BY <1>1, FS_Subset DEF Counted

(* What one driver's start or end does to the number of those who count.   *)
LEMMA CountedBounds ==
  ASSUME CountedAlive
  PROVE  /\ Cardinality(Counted) \in Nat /\ Cardinality(Counted') \in Nat
         /\ Counted \subseteq Counted' => Cardinality(Counted) <= Cardinality(Counted')
         /\ Counted' # {} => 1 <= Cardinality(Counted')
         /\ \A x : x \notin Counted /\ Counted \cup {x} \subseteq Counted' =>
              Cardinality(Counted) + 1 <= Cardinality(Counted')
         /\ \A x : Counted \ {x} \subseteq Counted' =>
              Cardinality(Counted) - 1 <= Cardinality(Counted')
<1>1. Cardinality(Counted) \in Nat /\ Cardinality(Counted') \in Nat
  BY CountedFinite, FS_CardinalityType
<1>2. Counted \subseteq Counted' => Cardinality(Counted) <= Cardinality(Counted')
  BY CountedFinite, FS_Subset
<1>3. Counted' # {} => 1 <= Cardinality(Counted')
  BY <1>1, CountedFinite, FS_EmptySet
<1>4. ASSUME NEW x, x \notin Counted, Counted \cup {x} \subseteq Counted'
      PROVE  Cardinality(Counted) + 1 <= Cardinality(Counted')
  <2>1. IsFiniteSet(Counted \cup {x}) /\ Cardinality(Counted \cup {x}) = Cardinality(Counted) + 1
    BY <1>4, CountedFinite, FS_AddElement
  <2>2. Cardinality(Counted \cup {x}) <= Cardinality(Counted')
    BY <1>4, CountedFinite, FS_Subset
  <2> QED BY <2>1, <2>2
<1>5. ASSUME NEW x, Counted \ {x} \subseteq Counted'
      PROVE  Cardinality(Counted) - 1 <= Cardinality(Counted')
  <2>1. Cardinality(Counted \ {x}) \in {Cardinality(Counted), Cardinality(Counted) - 1}
    BY CountedFinite, FS_RemoveElement
  <2>2. Cardinality(Counted \ {x}) <= Cardinality(Counted')
    BY <1>5, CountedFinite, FS_Subset
  <2> QED BY <1>1, <2>1, <2>2
<1> QED BY <1>1, <1>2, <1>3, <1>4, <1>5

(* The count never goes above those who would count themselves out.        *)
LEMMA CountKept ==
  ASSUME Types, GenerationsCounted, Parking, HeldApart, RunDriven, UsersSent, CountedAlive,
         [Next]_vars
  PROVE  CountedAlive'
<1> USE CountedBounds DEF CountedAlive
<1> /\ drv \in [Drivers -> DriverRecords] /\ suppressed \in BOOLEAN
    /\ WellParked(drv) /\ followUps \in SUBSET Users /\ followUps \cap ParkedIn(drv) = {}
    /\ Users \subseteq Drivers \ {Flush} /\ Conts \subseteq Drivers \ {Flush}
    /\ Wakes \subseteq Drivers \ {Flush} /\ Flush \in Drivers
  BY SessionAssumption DEF Types, RunTypes, QueueTypes, Parking, HeldApart, Drivers
<1>1. ASSUME UNCHANGED count, Counted \subseteq Counted' PROVE CountedAlive'
  BY <1>1
<1>2. ASSUME count' = 1, Counted' # {} PROVE CountedAlive'
  BY <1>2
<1>3. ASSUME count' = count + 1, NEW d \in Drivers \ {Flush}, ~Counts(d),
             drv'[d].pc \in {"setup", "running"}, \A x \in Drivers \ {d} : drv'[x] = drv[x]
      PROVE  CountedAlive'
  <2>1. d \notin Counted /\ Counted \cup {d} \subseteq Counted'
    BY <1>3 DEF Counted, Counts
  <2> QED BY <1>3, <2>1
<1>4. ASSUME UNCHANGED <<count, drv>> PROVE CountedAlive'
  BY <1>1, <1>4 DEF Counted, Counts
<1>5. ASSUME NEW m \in Users, Prompt(m) PROVE CountedAlive'
  <2>1. drv' = Driving(drv, m, "setup", {}) /\ ~Counts(m) /\ count' = count + 1
    BY <1>5 DEF Prompt, Counts
  <2>2. drv'[m].pc = "setup" /\ \A x \in Drivers \ {m} : drv'[x] = drv[x]
    BY <2>1, DrivingTyped
  <2> QED BY <1>3, <2>1, <2>2
<1>6. ASSUME NEW m \in Users, NEW Q, Queue(m, Q) PROVE CountedAlive'
  <2> DEFINE D == QueuedBy(m)
  <2>1. drv[m].pc = "queueing"
    BY <1>6 DEF Queue
  <2>2. /\ D[m] = Off /\ \A x \in Drivers \ {m} : D[x] = drv[x]
        /\ \/ drv' = D /\ count' = count
           \/ count' = 1 /\ OneStarted(D, Conts, "setup")
    BY <1>6, QueuedDriver
  <2>3. ASSUME OneStarted(D, Conts, "setup") PROVE Counted' # {}
    BY <2>3 DEF OneStarted, Counted, Counts
  <2>4. ASSUME drv' = D PROVE Counted \subseteq Counted'
    BY <2>1, <2>2, <2>4 DEF Counted, Counts
  <2> QED BY <1>1, <1>2, <2>2, <2>3, <2>4
<1>7. ASSUME NEW m \in Peers, Arrives(m) PROVE CountedAlive'
  <2>1. CASE Streaming
    BY <1>4, <1>7, <2>1 DEF Arrives
  <2>2. CASE ~Streaming
    <3>1. WakeFor({m}, drv, count, followUps)
      BY <1>7, <2>2 DEF Arrives
    <3>2. count' = count + 1 /\ OneStarted(drv, Wakes, "running")
      BY <3>1, WakeMoves
    <3>3. PICK w \in Wakes : /\ drv[w].pc = "off" /\ drv'[w].pc = "running"
                             /\ \A x \in Drivers \ {w} : drv'[x] = drv[x]
      BY <3>2 DEF OneStarted
    <3> QED BY <1>3, <3>2, <3>3 DEF Counts
  <2> QED BY <2>1, <2>2
<1>8. ASSUME NEW d \in Drivers, drv[d].pc # "off", UNCHANGED count,
             NEW pc \in {"waiting", "retrying", "running", "recovering", "ending"},
             drv' = [drv EXCEPT ![d].pc = pc]
      PROVE  CountedAlive'
  <2>1. drv'[d].pc = pc /\ \A x \in Drivers \ {d} : drv'[x] = drv[x]
    BY <1>8, MovedDriver
  <2> QED BY <1>1, <1>8, <2>1 DEF Counted, Counts
<1>9. ASSUME NEW m \in Users, SetupEnds(m) \/ Retries(m) PROVE CountedAlive'
  BY <1>8, <1>9 DEF SetupEnds, Retries, Starts
<1>10. ASSUME NEW c \in Conts, Continues(c) PROVE CountedAlive'
  BY <1>8, <1>10 DEF Continues
<1>11. ASSUME FlushIdle PROVE CountedAlive'
  <2>1. drv' = Driving(drv, Flush, "running", {}) /\ UNCHANGED count
    BY <1>11 DEF FlushIdle
  <2>2. \A x \in Drivers \ {Flush} : drv'[x] = drv[x]
    BY <2>1, DrivingTyped
  <2> QED BY <1>1, <2>1, <2>2 DEF Counted, Counts
<1>12. ASSUME NEW d \in Drivers, Ends(d) PROVE CountedAlive'
  <2> DEFINE D == [drv EXCEPT ![d] = Off]
  <2>1. \/ drv' = D /\ count' = Left(d)
        \/ count' = 1 /\ (OneStarted(D, Conts, "setup") \/ OneStarted(D, Wakes, "running"))
    BY <1>12, EndsMoves
  <2>2. CASE OneStarted(D, Conts, "setup") \/ OneStarted(D, Wakes, "running")
    <3>1. Counted' # {}
      BY <2>2 DEF OneStarted, Counted, Counts
    <3>2. CASE count' = 1
      BY <1>2, <3>1, <3>2
    <3>3. CASE drv' = D /\ count' = Left(d)
      <4> HIDE DEF D
      <4>1. drv' = D
        BY <3>3
      <4>2. PICK x \in Drivers : D[x].pc = "off" /\ drv'[x].pc \in {"setup", "running"}
        BY <2>2 DEF OneStarted
      <4> QED BY <4>1, <4>2
    <3> QED BY <2>1, <3>2, <3>3
  <2>3. CASE drv' = D /\ count' = Left(d)
    <3>1. Counted \ {d} \subseteq Counted' /\ (d = Flush => Counted \subseteq Counted')
      BY <2>3 DEF Counted, Counts
    <3>2. CASE d = Flush
      BY <1>1, <2>3, <3>1, <3>2 DEF Left
    <3>3. CASE d # Flush /\ count = 0
      BY <2>3, <3>3 DEF Left
    <3>4. CASE d # Flush /\ count # 0
      <4>1. count' = count - 1 /\ Cardinality(Counted) - 1 <= Cardinality(Counted')
        BY <2>3, <3>1, <3>4 DEF Left
      <4> QED BY <3>4, <4>1
    <3> QED BY <3>2, <3>3, <3>4
  <2> QED BY <2>1, <2>2, <2>3
<1>13. ASSUME RunEnds PROVE CountedAlive'
  <2>1. UNCHANGED count /\ \A d \in Drivers : Counts(d)' <=> Counts(d)
    BY <1>13, RunEndsMoves DEF RunEnds
  <2> QED BY <1>1, <2>1 DEF Counted
<1>14. ASSUME NEW a \in Aborts, AbortEnds(a) PROVE CountedAlive'
  <2>1. Drained(drv, 0, followUps, suppressed)
    BY <1>14, DrainMoves DEF AbortEnds
  <2>2. \/ drv' = drv /\ count' = 0
        \/ count' = 1 /\ (OneStarted(drv, Conts, "setup") \/ OneStarted(drv, Wakes, "running"))
    BY <2>1 DEF Drained
  <2>3. ASSUME OneStarted(drv, Conts, "setup") \/ OneStarted(drv, Wakes, "running")
        PROVE  Counted' # {}
    BY <2>3 DEF OneStarted, Counted, Counts
  <2> QED BY <1>2, <2>2, <2>3
<1>15. ASSUME NEW m \in Users, NEW as \in {"prompting", "queueing"}, Takes(m, as)
       PROVE  CountedAlive'
  <2>1. drv[m].pc = "off" /\ \A x \in Drivers \ {m} : drv'[x] = drv[x]
    BY <1>15, TakenDriver
  <2>2. Counted \subseteq Counted' /\ UNCHANGED count
    BY <1>15, <2>1 DEF Counted, Counts, Takes
  <2> QED BY <1>1, <2>2
<1> QED BY <1>4, <1>5, <1>6, <1>7, <1>9, <1>10, <1>11, <1>12, <1>13, <1>14, <1>15
  DEF Next, vars, queueVars, TakeBack, Remark, Polls, PollsInVain, Abort, AbortDrained

-----------------------------------------------------------------------------
(* A message that was sent is in one of eight places, and in one only.     *)
Held == ParkedIn(drv)
PlacedOnce ==
  /\ sent = steering \cup followUps \cup asides \cup Held \cup InSetup \cup seen \cup back
               \cup bailed
  /\ steering \cap (followUps \cup asides \cup Held \cup InSetup \cup seen \cup back
                      \cup bailed) = {}
  /\ followUps \cap (asides \cup Held \cup InSetup \cup seen \cup back \cup bailed) = {}
  /\ asides \cap (Held \cup InSetup \cup seen \cup back \cup bailed) = {}
  /\ Held \cap (InSetup \cup seen \cup back \cup bailed) = {}
  /\ InSetup \cap (seen \cup back \cup bailed) = {}
  /\ seen \cap (back \cup bailed) = {} /\ back \cap bailed = {}

(* The drivers that are not prompts do not move prompts.                   *)
LEMMA SetupUnmoved ==
  ASSUME \A m \in Users : drv'[m].pc \in Waiting <=> drv[m].pc \in Waiting
  PROVE  InSetup' = InSetup
BY DEF InSetup, Waiting

LEMMA PlacedKept ==
  ASSUME Types, GenerationsCounted, Parking, RunDriven, UsersSent, PlacedOnce, [Next]_vars
  PROVE  PlacedOnce'
<1> USE DEF PlacedOnce
<1> HeldApart
  BY DEF HeldApart, Held
<1> /\ drv \in [Drivers -> DriverRecords] /\ suppressed \in BOOLEAN
    /\ WellParked(drv) /\ followUps \in SUBSET Users /\ followUps \cap ParkedIn(drv) = {}
    /\ Users \subseteq Drivers /\ Users \cap Peers = {}
  BY SessionAssumption DEF Types, RunTypes, QueueTypes, Parking, HeldApart, Drivers
<1> QueueTypes /\ Held \subseteq Users /\ InSetup \subseteq Users
  BY DEF Types, Held, ParkedIn, DriverRecords, InSetup, Drivers
<1>1. ASSUME UNCHANGED drv PROVE InSetup' = InSetup /\ Held' = Held
  BY <1>1 DEF InSetup, Held, ParkedIn
<1>2. ASSUME NEW m \in Users, Prompt(m) PROVE PlacedOnce'
  <2>1. drv' = Driving(drv, m, "setup", {}) /\ drv[m].pc = "prompting"
    BY <1>2 DEF Prompt
  <2>2. /\ drv'[m].pc = "setup" /\ drv'[m].parked = {}
        /\ \A x \in Drivers \ {m} : drv'[x] = drv[x]
    BY <2>1, DrivingTyped
  <2>3. InSetup' = InSetup /\ Held' = Held
    BY <2>1, <2>2, SessionAssumption DEF InSetup, Held, ParkedIn, Drivers
  <2> QED BY <1>2, <2>3 DEF Prompt
<1>3. ASSUME NEW m \in Users, NEW Q, Queue(m, Q) PROVE PlacedOnce'
  <2>1. drv[m].pc = "queueing"
    BY <1>3 DEF Queue
  <2>2. /\ ParkedIn(drv)' = ParkedIn(drv)
        /\ \A x \in Users : drv'[x] = IF x = m THEN Off ELSE drv[x]
    BY <1>3, QueuedDriver
  <2>3. InSetup' = InSetup \ {m} /\ m \in InSetup /\ Held' = Held
    BY <2>1, <2>2 DEF InSetup, Held, Off
  <2> QED BY <1>3, <2>3 DEF Queue
<1>4. ASSUME NEW m \in Peers, Arrives(m) PROVE PlacedOnce'
  <2>1. CASE Streaming
    BY <1>1, <1>4, <2>1 DEF Arrives
  <2>2. CASE ~Streaming
    <3>1. WakeFor({m}, drv, count, followUps) /\ m \notin sent
      BY <1>4, <2>2 DEF Arrives
    <3>2. /\ followUps' \cap ParkedIn(drv') = {}
          /\ followUps' \cup ParkedIn(drv') = followUps \cup ParkedIn(drv)
          /\ \A x \in Users : drv'[x] = drv[x]
          /\ seen' = seen \cup {m}
      BY <3>1, WakeMoves
    <3>3. /\ InSetup' = InSetup /\ followUps' \cap Held' = {}
          /\ followUps' \cup Held' = followUps \cup Held
      BY <3>2 DEF InSetup, Held, ParkedIn
    <3> QED BY <1>4, <2>2, <3>1, <3>2, <3>3 DEF Arrives
  <2> QED BY <2>1, <2>2
<1>5. ASSUME TakeBack \/ Remark \/ Polls \/ PollsInVain PROVE PlacedOnce'
  BY <1>1, <1>5 DEF TakeBack, Remark, Polls, PollsInVain, queueVars
<1>6. ASSUME NEW m \in Users, drv[m].pc \in {"setup", "retrying"}, UNCHANGED seen,
             drv' = [drv EXCEPT ![m].pc = "ending"]
      PROVE  InSetup' = InSetup \ {m} /\ m \in InSetup /\ Held' = Held
  <2>1. /\ drv'[m].pc = "ending" /\ ParkedIn(drv)' = ParkedIn(drv)
        /\ \A x \in Drivers \ {m} : drv'[x] = drv[x]
    BY <1>6, MovedDriver
  <2> QED BY <1>6, <2>1 DEF InSetup, Held
<1>7. ASSUME NEW m \in Users, drv[m].pc \in {"setup", "retrying"}, Starts(m)
      PROVE  /\ Held' = Held /\ m \in InSetup
             /\ \/ InSetup' = InSetup \ {m} /\ seen' = seen \cup {m}
                \/ InSetup' = InSetup /\ seen' = seen
  <2>1. PICK pc \in {"running", "waiting"} :
          /\ drv' = [drv EXCEPT ![m].pc = pc]
          /\ \/ pc = "running" /\ seen' = seen \cup {m}
             \/ pc = "waiting" /\ seen' = seen
    BY <1>7 DEF Starts
  <2>2. /\ drv'[m].pc = pc /\ ParkedIn(drv)' = ParkedIn(drv)
        /\ \A x \in Drivers \ {m} : drv'[x] = drv[x]
    BY <1>7, <2>1, MovedDriver
  <2> QED BY <1>7, <2>1, <2>2 DEF InSetup, Held
<1>8. ASSUME NEW m \in Users, SetupEnds(m) PROVE PlacedOnce'
  <2>1. drv[m].pc = "setup" /\ UNCHANGED <<steering, followUps, asides, sent>>
    BY <1>8 DEF SetupEnds
  <2>2. CASE UNCHANGED seen /\ drv' = [drv EXCEPT ![m].pc = "ending"]
             /\ \/ bailed' = bailed \cup {m} /\ UNCHANGED back
                \/ back' = back \cup {m} /\ UNCHANGED bailed
    <3>1. InSetup' = InSetup \ {m} /\ m \in InSetup /\ Held' = Held
      BY <1>6, <2>1, <2>2
    <3> QED BY <2>1, <2>2, <3>1
  <2>3. CASE Starts(m) /\ UNCHANGED <<back, bailed>>
    <3>1. /\ Held' = Held /\ m \in InSetup
          /\ \/ InSetup' = InSetup \ {m} /\ seen' = seen \cup {m}
             \/ InSetup' = InSetup /\ seen' = seen
      BY <1>7, <2>1, <2>3
    <3> QED BY <2>1, <2>3, <3>1
  <2> QED BY <1>8, <2>2, <2>3 DEF SetupEnds
<1>9. ASSUME NEW m \in Users, Retries(m) PROVE PlacedOnce'
  BY <1>7, <1>9 DEF Retries
<1>10. ASSUME NEW c \in Conts, Continues(c) PROVE PlacedOnce'
  <2>1. PICK pc \in {"running", "ending"} : drv[c].pc # "off" /\ drv' = [drv EXCEPT ![c].pc = pc]
    BY <1>10 DEF Continues
  <2>2. c \in Drivers /\ c \notin Users
    BY SessionAssumption DEF Drivers
  <2>3. ParkedIn(drv)' = ParkedIn(drv) /\ \A x \in Drivers \ {c} : drv'[x] = drv[x]
    BY <2>1, <2>2, MovedDriver
  <2>4. InSetup' = InSetup /\ Held' = Held
    BY <2>2, <2>3 DEF InSetup, Held
  <2> QED BY <1>10, <2>4 DEF Continues
<1>11. ASSUME FlushIdle PROVE PlacedOnce'
  <2>1. drv' = Driving(drv, Flush, "running", {}) /\ Flush \in Drivers
    BY <1>11 DEF FlushIdle, Drivers
  <2>2. /\ drv'[Flush].parked = {} /\ \A x \in Drivers \ {Flush} : drv'[x] = drv[x]
    BY <2>1, DrivingTyped
  <2>3. InSetup' = InSetup /\ Held' = Held
    BY <2>2, SessionAssumption DEF InSetup, Held, ParkedIn, Drivers
  <2> QED BY <1>11, <2>3 DEF FlushIdle, queueVars
<1>12. ASSUME NEW d \in Drivers, Ends(d) PROVE PlacedOnce'
  <2>1. /\ followUps' \cap ParkedIn(drv)' = {}
        /\ followUps' \cup ParkedIn(drv)' = followUps \cup ParkedIn(drv)
        /\ \A m \in Users : drv'[m] = IF m = d THEN Off ELSE drv[m]
        /\ \/ asides' = asides /\ seen' = seen
           \/ asides' = {} /\ seen' = seen \cup asides
    BY <1>12, EndsMoves DEF HeldApart
  <2>2. InSetup' = InSetup
    BY <1>12, <2>1 DEF InSetup, Ends, Off
  <2> QED BY <1>12, <2>1, <2>2 DEF Ends, Held
<1>13. ASSUME RunEnds PROVE PlacedOnce'
  <2>1. ParkedIn(drv)' = ParkedIn(drv) /\ InSetup' = InSetup
    BY <1>13, RunEndsMoves, SetupUnmoved
  <2> QED BY <1>13, <2>1 DEF RunEnds, queueVars, Held
<1>14. ASSUME NEW a \in Aborts, AbortEnds(a) PROVE PlacedOnce'
  <2>1. Drained(drv, 0, followUps, suppressed)
    BY <1>14, DrainMoves DEF AbortEnds
  <2>2. /\ followUps' \cap Held' = {} /\ followUps' \cup Held' = followUps \cup Held
        /\ InSetup' = InSetup
        /\ \/ asides' = asides /\ seen' = seen
           \/ asides' = {} /\ seen' = seen \cup asides
    BY <2>1 DEF Drained, Held, ParkedIn, InSetup
  <2> QED BY <1>14, <2>2 DEF AbortEnds
<1>15. ASSUME NEW a \in Aborts, NEW u \in BOOLEAN, Abort(a, u) \/ AbortDrained(a) PROVE PlacedOnce'
  BY <1>1, <1>15 DEF Abort, AbortDrained, queueVars
<1>16. ASSUME UNCHANGED vars PROVE PlacedOnce'
  BY <1>1, <1>16 DEF vars, queueVars
<1>17. ASSUME NEW m \in Users, NEW as \in {"prompting", "queueing"}, Takes(m, as)
       PROVE  PlacedOnce'
  <2>1. /\ ParkedIn(drv)' = ParkedIn(drv) /\ drv'[m].pc = as
        /\ \A x \in Drivers \ {m} : drv'[x] = drv[x]
    BY <1>17, TakenDriver, ZenonT(30)
  <2>2. InSetup' = InSetup \cup {m} /\ Held' = Held
    BY <2>1 DEF InSetup, Held
  <2> QED BY <1>17, <2>2 DEF Takes
<1> QED BY <1>2, <1>3, <1>4, <1>5, <1>8, <1>9, <1>10, <1>11, <1>12, <1>13, <1>14, <1>15, <1>16,
           <1>17
  DEF Next

-----------------------------------------------------------------------------
(* When nobody who counts is under way and no abort is in progress, the    *)
(* last to leave has seen to what was queued: an abort that kept a driver  *)
(* from draining is itself still there, and drains when it ends.  After an *)
(* idle flush nobody did; and a message still on its way, which lifts the  *)
(* interrupt, sees to the follow-ups it held when it has been queued.      *)
OnTheWay == {m \in Users : drv[m].pc \in {"prompting", "queueing"}}
Driven ==
  run.by # Flush /\ Counted = {} /\ (\A a \in Aborts : aborts[a].pc \notin Going) =>
    /\ steering = {} /\ asides = {}
    /\ OnTheWay # {} \/ followUps = {} \/ suppressed \/ ~tailOk

LEMMA DrivenKept ==
  ASSUME Types, GenerationsCounted, AbortsInProgress, Parking, HeldApart, RunDriven, UsersSent,
         CountedAlive, Driven, [Next]_vars
  PROVE  Driven'
<1> RunDriven' /\ CountedAlive' /\ Types'
  BY RunKept, CountKept, TypesKept
<1> /\ drv \in [Drivers -> DriverRecords] /\ suppressed \in BOOLEAN
    /\ run \in [at : {"idle", "loop", "tail"}, by : Drivers, aborted : BOOLEAN, own : BOOLEAN]
    /\ run'.by \in Drivers /\ aborts \in [Aborts -> AbortRecords]
    /\ WellParked(drv) /\ followUps \in SUBSET Users /\ followUps \cap ParkedIn(drv) = {}
    /\ Users \subseteq Drivers \ {Flush} /\ Conts \subseteq Drivers \ {Flush}
    /\ Wakes \subseteq Drivers \ {Flush}
  BY SessionAssumption DEF Types, RunTypes, QueueTypes, Parking, HeldApart, Drivers
<1>1. ASSUME Counted' # {} PROVE Driven'
  BY <1>1 DEF Driven
<1>2. ASSUME run.at # "idle", run.by # Flush PROVE Counted # {}
  BY <1>2 DEF RunDriven, Counted, Counts
<1>3. ASSUME run'.at # "idle" PROVE Driven'
  <2>1. run'.by # Flush => Counted' # {}
    BY <1>3 DEF RunDriven, Counted, Counts
  <2> QED BY <1>1, <2>1 DEF Driven
<1>4. ASSUME count # 0 PROVE Counted # {}
  BY <1>4, CountedFinite, FS_EmptySet DEF CountedAlive
<1>5. ASSUME count' # 0 PROVE Driven'
  <2>1. Counted' # {}
    BY <1>5, CountedFinite, FS_EmptySet DEF CountedAlive
  <2> QED BY <1>1, <2>1
<1>6. ASSUME NEW d \in Drivers \ {Flush},
             drv'[d].pc \notin {"off", "prompting", "queueing"}
      PROVE  Driven'
  BY <1>1, <1>6 DEF Counted, Counts
<1>7. ASSUME NEW a \in Aborts, aborts'[a].pc \in Going PROVE Driven'
  BY <1>7 DEF Driven
<1>8. ASSUME UNCHANGED drv PROVE Counted' = Counted /\ OnTheWay' = OnTheWay
  BY <1>8 DEF Counted, Counts, OnTheWay
<1>9. ASSUME NEW m \in Users, Prompt(m) PROVE Driven'
  <2>1. drv' = Driving(drv, m, "setup", {})
    BY <1>9 DEF Prompt
  <2>2. drv'[m].pc = "setup"
    BY <2>1, DrivingTyped
  <2> QED BY <1>6, <2>2
<1>10. ASSUME NEW m \in Users, NEW Q, Queue(m, Q) PROVE Driven'
  <2> DEFINE D == QueuedBy(m)
  <2>1. drv[m].pc = "queueing" /\ UNCHANGED <<asides, tailOk, run, aborts, suppressed>>
    BY <1>10 DEF Queue
  <2>2. /\ D[m] = Off /\ \A x \in Drivers \ {m} : D[x] = drv[x]
        /\ \/ OneStarted(D, Conts, "setup")
           \/ /\ drv' = D /\ count' = count
              /\ (count # 0 \/ run.at # "idle" \/ ~Resumable(steering', followUps', suppressed))
    BY <1>10, QueuedDriver
  <2>3. CASE drv' = D /\ ~Resumable(steering', followUps', suppressed)
    <3>1. Counted' = Counted
      BY <2>1, <2>2, <2>3 DEF Counted, Counts, Off
    <3> QED BY <2>1, <2>3, <3>1 DEF Driven, Resumable
  <2>4. CASE OneStarted(D, Conts, "setup")
    BY <1>6, <2>4 DEF OneStarted
  <2> QED BY <1>3, <1>5, <2>1, <2>2, <2>3, <2>4
<1>11. ASSUME NEW m \in Peers, Arrives(m) PROVE Driven'
  <2>1. CASE Streaming
    <3>1. UNCHANGED <<run, count, drv>>
      BY <1>11, <2>1 DEF Arrives
    <3> QED BY <1>3, <1>5, <2>1, <3>1 DEF Streaming, CountedAlive
  <2>2. CASE ~Streaming
    <3>1. WakeFor({m}, drv, count, followUps)
      BY <1>11, <2>2 DEF Arrives
    <3>2. OneStarted(drv, Wakes, "running")
      BY <3>1, WakeMoves
    <3> QED BY <1>6, <3>2 DEF OneStarted
  <2> QED BY <2>1, <2>2
<1>12. ASSUME TakeBack \/ Remark PROVE Driven'
  BY <1>8, <1>12 DEF TakeBack, Remark, queueVars, Driven
<1>13. ASSUME FlushIdle PROVE Driven'
  BY <1>13 DEF FlushIdle, Runs, Driven
<1>14. ASSUME NEW d \in Drivers \ {Flush}, drv[d].pc # "off",
              NEW pc \in {"waiting", "retrying", "running", "recovering", "ending"},
              drv' = [drv EXCEPT ![d].pc = pc]
       PROVE  Driven'
  <2>1. drv'[d].pc = pc
    BY <1>14, MovedDriver
  <2> QED BY <1>6, <2>1
<1>15. ASSUME NEW m \in Users, SetupEnds(m) \/ Retries(m) PROVE Driven'
  BY <1>14, <1>15 DEF SetupEnds, Retries, Starts
<1>16. ASSUME NEW c \in Conts, Continues(c) PROVE Driven'
  BY <1>14, <1>16 DEF Continues
<1>17. ASSUME NEW d \in Drivers, Ends(d) PROVE Driven'
  <2> DEFINE D == [drv EXCEPT ![d] = Off]
  <2>1. \/ OneStarted(D, Conts, "setup") \/ OneStarted(D, Wakes, "running")
        \/ /\ drv' = D /\ count' = Left(d) /\ UNCHANGED <<run, asides>>
           /\ followUps' = Requeued(d)
           /\ \/ ~DrainsAfter(d) \/ Left(d) # 0 \/ run.at # "idle"
              \/ ~Resumable(steering, followUps', suppressed) /\ asides = {}
    BY <1>17, EndsMoves
  <2>2. /\ UNCHANGED <<steering, suppressed, tailOk>>
        /\ \A a \in Aborts : aborts'[a].pc = aborts[a].pc
    BY <1>17 DEF Ends, AbortRecords
  <2>3. CASE OneStarted(D, Conts, "setup") \/ OneStarted(D, Wakes, "running")
    BY <1>6, <2>3 DEF OneStarted
  <2>4. CASE UNCHANGED run /\ run.at # "idle"
    BY <1>3, <2>4
  <2>5. CASE count' = Left(d) /\ Left(d) # 0
    BY <1>5, <2>5
  <2>6. CASE /\ ~Resumable(steering, followUps', suppressed) /\ asides = {}
             /\ UNCHANGED asides
    BY <2>2, <2>6 DEF Driven, Resumable
  <2>7. CASE /\ drv' = D /\ count' = Left(d) /\ UNCHANGED <<run, asides>>
             /\ followUps' = Requeued(d) /\ ~DrainsAfter(d)
    <3>1. CASE d = Flush
      <4>1. Counted' = Counted /\ OnTheWay' = OnTheWay
        BY <2>7, <3>1, SessionAssumption DEF Counted, Counts, OnTheWay
      <4>2. followUps' = followUps
        BY <2>7, <3>1, SessionAssumption DEF Requeued, Parking, WellParked
      <4> QED BY <2>2, <2>7, <4>1, <4>2 DEF Driven
    <3>2. CASE d # Flush /\ aborting
      BY <1>7, <2>2, <3>2 DEF AbortsInProgress
    <3>3. CASE d # Flush /\ ~(count <= 1)
      <4>1. count' # 0
        BY <2>7, <3>3 DEF Left, CountedAlive
      <4> QED BY <1>5, <4>1
    <3> QED BY <2>7, <3>1, <3>2, <3>3 DEF DrainsAfter
  <2> QED BY <2>1, <2>3, <2>4, <2>5, <2>6, <2>7
<1>18. ASSUME Polls \/ PollsInVain PROVE Driven'
  <2>1. run'.at # "idle"
    BY <1>18 DEF Polls, PollsInVain
  <2> QED BY <1>3, <2>1
<1>19. ASSUME RunEnds PROVE Driven'
  <2>1. run.at # "idle" /\ run'.by = run.by
    BY <1>19 DEF RunEnds
  <2>2. CASE run.by = Flush
    BY <2>1, <2>2 DEF Driven
  <2>3. CASE run.by # Flush
    <3>1. drv[run.by].pc = "running" /\ run.by \in Drivers \ {Flush}
      BY <2>1, <2>3 DEF RunDriven
    <3>2. Counts(run.by)'
      BY <1>19, <2>1, <3>1, RunEndsMoves DEF Counts
    <3> QED BY <1>6, <2>1, <3>1, <3>2 DEF Counts
  <2> QED BY <2>2, <2>3
<1>20. ASSUME NEW a \in Aborts, NEW u \in BOOLEAN, Abort(a, u) \/ AbortDrained(a) PROVE Driven'
  <2>1. aborts'[a].pc \in Going
    BY <1>20 DEF Abort, AbortDrained, Going, AbortRecords
  <2> QED BY <1>7, <2>1
<1>21. ASSUME NEW a \in Aborts, AbortEnds(a) PROVE Driven'
  <2>1. Drained(drv, 0, followUps, suppressed) /\ UNCHANGED <<steering, suppressed, tailOk>>
    BY <1>21, DrainMoves DEF AbortEnds
  <2>2. \/ OneStarted(drv, Conts, "setup") \/ OneStarted(drv, Wakes, "running")
        \/ run' = run /\ run.at # "idle"
        \/ /\ ~Resumable(steering, followUps, suppressed) /\ asides = {}
           /\ followUps' = followUps /\ asides' = asides
    BY <2>1 DEF Drained
  <2>3. CASE OneStarted(drv, Conts, "setup") \/ OneStarted(drv, Wakes, "running")
    BY <1>6, <2>3 DEF OneStarted
  <2> QED BY <1>3, <2>1, <2>2, <2>3 DEF Driven, Resumable
<1>22. ASSUME UNCHANGED vars PROVE Driven'
  BY <1>8, <1>22 DEF vars, queueVars, Driven
<1>23. ASSUME NEW m \in Users, NEW as \in {"prompting", "queueing"}, Takes(m, as) PROVE Driven'
  <2>1. /\ drv[m].pc = "off" /\ drv'[m].pc = as
        /\ \A x \in Drivers \ {m} : drv'[x] = drv[x]
    BY <1>23, TakenDriver, ZenonT(30)
  <2>2. Counted' = Counted /\ OnTheWay' # {}
    BY <2>1 DEF Counted, Counts, OnTheWay
  <2> QED BY <1>23, <2>2 DEF Takes, Driven
<1> QED BY <1>9, <1>10, <1>11, <1>12, <1>13, <1>15, <1>16, <1>17, <1>18, <1>19, <1>20, <1>21,
           <1>22, <1>23
  DEF Next

-----------------------------------------------------------------------------
(* Nobody starts in a generation to come, and a wake starts with its run.  *)
GensPast == \A d \in Drivers : drv[d].gen <= generation
WakesRun == \A w \in Wakes : drv[w].pc \in {"off", "running", "ending"}

LEMMA PastKept ==
  ASSUME Types, GenerationsCounted, Parking, HeldApart, RunDriven, UsersSent, GensPast, WakesRun,
         [Next]_vars
  PROVE  GensPast' /\ WakesRun'
<1> DEFINE Goal == GensPast' /\ WakesRun'
<1> /\ drv \in [Drivers -> DriverRecords] /\ suppressed \in BOOLEAN
    /\ WellParked(drv) /\ followUps \in SUBSET Users /\ followUps \cap ParkedIn(drv) = {}
    /\ Users \subseteq Drivers \ Wakes /\ Conts \subseteq Drivers \ Wakes
    /\ Wakes \subseteq Drivers /\ Flush \in Drivers \ Wakes
  BY SessionAssumption DEF Types, RunTypes, QueueTypes, Parking, HeldApart, Drivers
<1> generation \in Nat /\ \A d \in Drivers : drv[d].gen \in Nat
  <2>1. generation \in 0 .. Cardinality(Aborts) /\ Cardinality(Aborts) \in Nat
    BY GenerationRange, SessionAssumption, FS_Subset, FS_CardinalityType
  <2> QED BY <2>1 DEF DriverRecords
<1>1. ASSUME UNCHANGED drv, generation' \in {generation, generation + 1} PROVE Goal
  BY <1>1 DEF GensPast, WakesRun
<1>2. ASSUME UNCHANGED generation, NEW D, \A x \in Drivers : D[x].gen <= generation,
             \A w \in Wakes : D[w].pc \in {"off", "running", "ending"}, NEW d \in Drivers,
             drv'[d].gen <= generation, \A x \in Drivers \ {d} : drv'[x] = D[x],
             d \in Wakes => drv'[d].pc \in {"off", "running", "ending"}
      PROVE  Goal
  BY <1>2 DEF GensPast, WakesRun
<1>3. ASSUME UNCHANGED generation, NEW d \in Drivers \ Wakes, drv'[d].gen <= generation,
             \A x \in Drivers \ {d} : drv'[x] = drv[x]
      PROVE  Goal
  BY <1>3 DEF GensPast, WakesRun
<1>4. ASSUME UNCHANGED generation, NEW D, \A x \in Drivers : D[x].gen <= generation,
             \A w \in Wakes : D[w].pc \in {"off", "running", "ending"},
             OneStarted(D, Conts, "setup") \/ OneStarted(D, Wakes, "running")
      PROVE  Goal
  <2>1. PICK c \in Conts \cup Wakes :
          /\ drv'[c].gen = generation /\ \A x \in Drivers \ {c} : drv'[x] = D[x]
          /\ c \in Wakes => drv'[c].pc = "running"
    BY <1>4, SessionAssumption DEF OneStarted
  <2> QED BY <1>2, <1>4, <2>1
<1>5. ASSUME UNCHANGED generation, NEW d \in Drivers \ Wakes, drv[d].pc # "off",
             NEW pc \in {"waiting", "retrying", "running", "recovering", "ending"},
             drv' = [drv EXCEPT ![d].pc = pc]
      PROVE  Goal
  <2>1. drv'[d].gen = drv[d].gen /\ \A x \in Drivers \ {d} : drv'[x] = drv[x]
    BY <1>5, MovedDriver
  <2> QED BY <1>3, <1>5, <2>1 DEF GensPast
<1>6. ASSUME UNCHANGED generation, NEW d \in Drivers \ Wakes, NEW pc \in {"setup", "running"},
             drv' = Driving(drv, d, pc, {})
      PROVE  Goal
  <2>1. drv'[d].gen = generation /\ \A x \in Drivers \ {d} : drv'[x] = drv[x]
    BY <1>6, DrivingTyped
  <2> QED BY <1>3, <1>6, <2>1
<1>7. ASSUME NEW m \in Users, Prompt(m) PROVE Goal
  BY <1>6, <1>7 DEF Prompt
<1>8. ASSUME NEW m \in Users, NEW Q, Queue(m, Q) PROVE Goal
  <2> DEFINE D == QueuedBy(m)
  <2>1. UNCHANGED generation
    BY <1>8 DEF Queue
  <2>2. /\ D[m] = Off /\ \A x \in Drivers \ {m} : D[x] = drv[x]
        /\ drv' = D \/ OneStarted(D, Conts, "setup")
    BY <1>8, QueuedDriver
  <2>3. /\ \A x \in Drivers : D[x].gen <= generation
        /\ \A w \in Wakes : D[w].pc \in {"off", "running", "ending"}
    BY <2>2 DEF GensPast, WakesRun, Off
  <2> HIDE DEF D
  <2> SUFFICES ASSUME NEW E, E = D PROVE Goal
    OBVIOUS
  <2> QED BY <1>4, <2>1, <2>2, <2>3 DEF GensPast, WakesRun
<1>9. ASSUME NEW m \in Peers, Arrives(m) PROVE Goal
  <2>1. UNCHANGED generation
    BY <1>9 DEF Arrives
  <2>2. CASE Streaming
    BY <1>1, <1>9, <2>1, <2>2 DEF Arrives
  <2>3. CASE ~Streaming
    <3>1. WakeFor({m}, drv, count, followUps)
      BY <1>9, <2>3 DEF Arrives
    <3>2. OneStarted(drv, Wakes, "running")
      BY <3>1, WakeMoves
    <3> QED BY <1>4, <2>1, <3>2 DEF GensPast, WakesRun
  <2> QED BY <2>2, <2>3
<1>10. ASSUME TakeBack \/ Remark \/ Polls \/ PollsInVain \/ UNCHANGED vars PROVE Goal
  BY <1>1, <1>10 DEF TakeBack, Remark, Polls, PollsInVain, vars
<1>11. ASSUME FlushIdle PROVE Goal
  BY <1>6, <1>11 DEF FlushIdle
<1>12. ASSUME NEW m \in Users, SetupEnds(m) \/ Retries(m) PROVE Goal
  <2>1. UNCHANGED generation /\ drv[m].pc # "off"
    BY <1>12 DEF SetupEnds, Retries
  <2> QED BY <1>5, <1>12, <2>1 DEF SetupEnds, Retries, Starts
<1>13. ASSUME NEW c \in Conts, Continues(c) PROVE Goal
  <2>1. UNCHANGED generation /\ drv[c].pc # "off"
    BY <1>13 DEF Continues
  <2> QED BY <1>5, <1>13, <2>1 DEF Continues
<1>14. ASSUME NEW d \in Drivers, Ends(d) PROVE Goal
  <2> DEFINE D == [drv EXCEPT ![d] = Off]
  <2>1. UNCHANGED generation
    BY <1>14 DEF Ends
  <2>2. D[d] = Off /\ \A x \in Drivers \ {d} : D[x] = drv[x]
    BY EndedDriver
  <2>3. /\ \A x \in Drivers : D[x].gen <= generation
        /\ \A w \in Wakes : D[w].pc \in {"off", "running", "ending"}
    BY <2>2 DEF GensPast, WakesRun, Off
  <2>4. drv' = D \/ OneStarted(D, Conts, "setup") \/ OneStarted(D, Wakes, "running")
    BY <1>14, EndsMoves
  <2> HIDE DEF D
  <2>5. CASE drv' = D
    BY <2>1, <2>3, <2>5 DEF GensPast, WakesRun
  <2>6. CASE OneStarted(D, Conts, "setup") \/ OneStarted(D, Wakes, "running")
    <3>1. SUFFICES ASSUME NEW E, E = D PROVE Goal
      OBVIOUS
    <3> QED BY <1>4, <2>1, <2>3, <2>6, <3>1
  <2> QED BY <2>4, <2>5, <2>6
<1>15. ASSUME RunEnds PROVE Goal
  BY <1>15, RunEndsMoves DEF RunEnds, GensPast, WakesRun
<1>16. ASSUME NEW a \in Aborts, NEW u \in BOOLEAN, Abort(a, u) \/ AbortDrained(a) PROVE Goal
  BY <1>1, <1>16 DEF Abort, AbortDrained
<1>17. ASSUME NEW a \in Aborts, AbortEnds(a) PROVE Goal
  <2>1. Drained(drv, 0, followUps, suppressed) /\ UNCHANGED generation
    BY <1>17, DrainMoves DEF AbortEnds
  <2>2. drv' = drv \/ OneStarted(drv, Conts, "setup") \/ OneStarted(drv, Wakes, "running")
    BY <2>1 DEF Drained
  <2> QED BY <1>1, <1>4, <2>1, <2>2 DEF GensPast, WakesRun
<1>18. ASSUME NEW m \in Users, NEW as \in {"prompting", "queueing"}, Takes(m, as) PROVE Goal
  <2>1. drv'[m].gen = drv[m].gen /\ \A x \in Drivers \ {m} : drv'[x] = drv[x]
    BY <1>18, TakenDriver
  <2> QED BY <1>3, <1>18, <2>1 DEF Takes, GensPast
<1> QED BY <1>7, <1>8, <1>9, <1>10, <1>11, <1>12, <1>13, <1>14, <1>15, <1>16, <1>17, <1>18
  DEF Next

-----------------------------------------------------------------------------
(* While the user's interrupt stands and a continuation that no abort has  *)
(* overtaken restores the model, there is nothing for its run to resume    *)
(* but what the interrupt overtook on its way into the queue; or steering  *)
(* messages come first, in a run that parks nothing; or the run that is on *)
(* took them, and will take the follow-ups too.                            *)
Restoring == {c \in Conts : drv[c].pc = "setup" /\ drv[c].gen = generation}
NothingHeld == followUps \cup ParkedIn(drv) \subseteq overtaken
SteersFirst == steering # {} /\ (run.at # "idle" => drv[run.by].parked = {})
OwnRun == run.at = "loop" /\ run.own /\ ~run.aborted /\ drv[run.by].parked = {}
Guarded == suppressed /\ Restoring # {} => NothingHeld \/ SteersFirst \/ OwnRun

(* When nobody is ending, only the run holds follow-ups back.              *)
LEMMA ParkedByRun ==
  ASSUME Types, Parking, RunDriven, WakesRun, Settled,
         run.at # "idle" => drv[run.by].parked = {}
  PROVE  ParkedIn(drv) = {}
<1>1. ASSUME NEW w \in Wakes PROVE drv[w].parked = {}
  <2>1. w \in Drivers /\ drv[w].pc \in {"off", "running"}
    BY DEF Drivers, WakesRun, Settled
  <2>2. CASE drv[w].pc = "off"
    BY <2>1, <2>2 DEF Parking, WellParked
  <2>3. CASE drv[w].pc = "running"
    BY <2>1, <2>3 DEF RunDriven
  <2> QED BY <2>1, <2>2, <2>3
<1> QED BY <1>1 DEF ParkedIn

(* A wake parks what it does not leave behind steering messages.           *)
LEMMA WakeHolds ==
  ASSUME NEW M, NEW D, NEW n, NEW F, WakeFor(M, D, n, F), suppressed
  PROVE  /\ followUps' = {} \/ steering # {}
         /\ steering # {} => followUps' = F
  BY DEF WakeFor, Holds, Resumable

(* Draining keeps the guard: a wake is begun only when no steering         *)
(* messages are left, a continuation only when there are some.             *)
LEMMA DrainGuarded ==
  ASSUME GenerationsCounted, Guarded, NEW D \in [Drivers -> DriverRecords], WellParked(D),
         NEW n, NEW F \in SUBSET Users, F \cap ParkedIn(D) = {},
         F \cup ParkedIn(D) = followUps \cup ParkedIn(drv),
         \A c \in Conts : D[c].pc = "setup" => D[c] = drv[c],
         run.at # "idle" => D[run.by] = drv[run.by], run.by \in Drivers,
         suppressed \in BOOLEAN,
         Drains(D, n, F, suppressed), UNCHANGED <<steering, suppressed, generation, overtaken>>
  PROVE  Guarded'
<1> SUFFICES ASSUME suppressed, Restoring' # {} PROVE (NothingHeld \/ SteersFirst \/ OwnRun)'
  BY DEF Guarded
<1> Conts \subseteq Drivers /\ Wakes \subseteq Drivers /\ Conts \cap Wakes = {}
  BY SessionAssumption DEF Drivers
<1>1. CASE n = 0 /\ run.at = "idle" /\ ~Resumable(steering, F, suppressed) /\ asides # {}
  <2>1. WakeFor(asides, D, n, F) /\ steering = {}
    BY <1>1 DEF Drains, Resumable
  <2>2. /\ followUps' \cup ParkedIn(drv') = F \cup ParkedIn(D)
        /\ OneStarted(D, Wakes, "running")
    BY <2>1, WakeMoves
  <2>3. Restoring # {}
    BY <2>2 DEF OneStarted, Restoring
  <2>4. NothingHeld
    BY <1>1, <2>1, <2>3 DEF Guarded, SteersFirst, OwnRun
  <2> QED BY <2>2, <2>4 DEF NothingHeld, ParkedIn
<1>2. CASE ~(n = 0 /\ run.at = "idle" /\ ~Resumable(steering, F, suppressed) /\ asides # {})
  <2>1. Resumes(D, n, steering, F, suppressed) /\ followUps' = F /\ run' = run
    BY <1>2 DEF Drains
  <2>2. /\ ParkedIn(drv') = ParkedIn(D)
        /\ \/ drv' = D
           \/ n = 0 /\ run.at = "idle" /\ OneStarted(D, Conts, "setup")
    <3> SUFFICES ASSUME NEW held \in BOOLEAN, held = suppressed
                 PROVE  /\ ParkedIn(drv') = ParkedIn(D)
                        /\ \/ drv' = D
                           \/ n = 0 /\ run.at = "idle" /\ OneStarted(D, Conts, "setup")
      OBVIOUS
    <3>1. Resumes(D, n, steering, F, held)
      BY <2>1
    <3> QED BY <3>1, ResumesMoves
  <2>3. CASE drv' = D
    <3>1. Restoring # {}
      BY <2>3 DEF Restoring
    <3>2. CASE NothingHeld
      BY <2>1, <2>2, <3>2 DEF NothingHeld, ParkedIn
    <3>3. CASE SteersFirst
      BY <2>1, <2>3, <3>3 DEF SteersFirst
    <3>4. CASE OwnRun
      BY <2>1, <2>3, <3>4 DEF OwnRun
    <3> QED BY <3>1, <3>2, <3>3, <3>4 DEF Guarded
  <2>4. CASE drv' # D
    <3>1. Resumable(steering, F, suppressed) /\ run.at = "idle"
      BY <2>1, <2>2, <2>4 DEF Resumes
    <3> QED BY <2>1, <3>1 DEF Resumable, SteersFirst
  <2> QED BY <2>3, <2>4
<1> QED BY <1>1, <1>2

LEMMA GuardedKept ==
  ASSUME Types, GenerationsCounted, Parking, HeldApart, RunDriven, UsersSent, GensPast, WakesRun,
         Guarded, [Next]_vars
  PROVE  Guarded'
<1> /\ drv \in [Drivers -> DriverRecords] /\ suppressed \in BOOLEAN
    /\ run \in [at : {"idle", "loop", "tail"}, by : Drivers, aborted : BOOLEAN, own : BOOLEAN]
    /\ WellParked(drv) /\ followUps \in SUBSET Users /\ followUps \cap ParkedIn(drv) = {}
    /\ Users \subseteq Drivers \ (Wakes \cup Conts) /\ Conts \subseteq Drivers \ Wakes
    /\ Wakes \subseteq Drivers /\ Flush \in Drivers \ (Wakes \cup Conts)
  BY SessionAssumption DEF Types, RunTypes, QueueTypes, Parking, HeldApart, Drivers
<1>1. ASSUME ~suppressed' PROVE Guarded'
  BY <1>1 DEF Guarded
<1>2. ASSUME UNCHANGED <<drv, run, steering, followUps, generation, overtaken>>,
             suppressed' = suppressed
      PROVE  Guarded'
  BY <1>2 DEF Guarded, Restoring, NothingHeld, ParkedIn, SteersFirst, OwnRun
<1>3. ASSUME NEW d \in Drivers \ Wakes, drv'[d].parked = {},
             d \in Conts => drv'[d].pc # "setup", UNCHANGED generation,
             \A x \in Drivers \ {d} : drv'[x] = drv[x]
      PROVE  /\ ParkedIn(drv)' = ParkedIn(drv)
             /\ Restoring' # {} => Restoring # {}
             /\ \A x \in Drivers : drv[x].parked = {} => drv'[x].parked = {}
  BY <1>3 DEF ParkedIn, Restoring
(* A run that holds nothing back starts, and takes no more than steering   *)
(* messages where there are some.                                          *)
<1>4. ASSUME NEW d \in Drivers \ Wakes, drv'[d].parked = {},
             d \in Conts => drv'[d].pc # "setup",
             \A x \in Drivers \ {d} : drv'[x] = drv[x],
             UNCHANGED <<generation, suppressed, overtaken>>, followUps' \subseteq followUps,
             run.at = "idle", NEW own \in BOOLEAN, Runs(d, own),
             steering # {} => steering' # {} \/ own
      PROVE  Guarded'
  <2>1. /\ ParkedIn(drv)' = ParkedIn(drv)
        /\ Restoring' # {} => Restoring # {}
        /\ run' = [at |-> "loop", by |-> d, aborted |-> FALSE, own |-> own]
    BY <1>3, <1>4 DEF Runs
  <2>2. CASE NothingHeld
    BY <1>4, <2>1, <2>2 DEF Guarded, NothingHeld
  <2>3. CASE SteersFirst
    BY <1>4, <2>1, <2>3 DEF Guarded, SteersFirst, OwnRun
  <2>4. CASE ~(suppressed /\ Restoring # {})
    BY <1>4, <2>1, <2>4 DEF Guarded
  <2> QED BY <1>4, <2>2, <2>3, <2>4 DEF Guarded, OwnRun
(* A driver moves while the run and the queues stay.                       *)
<1>5. ASSUME NEW d \in Drivers \ Wakes, drv[d].pc # "off",
             NEW pc \in {"waiting", "retrying", "running", "recovering", "ending"},
             drv' = [drv EXCEPT ![d].pc = pc],
             UNCHANGED <<run, steering, followUps, generation, suppressed, overtaken>>
      PROVE  Guarded'
  <2>1. /\ drv'[d].pc = pc /\ drv'[d].parked = {}
        /\ \A x \in Drivers \ {d} : drv'[x] = drv[x]
    BY <1>5, MovedDriver DEF WellParked
  <2>2. /\ ParkedIn(drv)' = ParkedIn(drv)
        /\ Restoring' # {} => Restoring # {}
        /\ \A x \in Drivers : drv[x].parked = {} => drv'[x].parked = {}
    BY <1>3, <1>5, <2>1
  <2> QED BY <1>5, <2>2 DEF Guarded, NothingHeld, SteersFirst, OwnRun
<1>6. ASSUME NEW m \in Users, NEW as, Takes(m, as) PROVE Guarded'
  BY <1>1, <1>6 DEF Takes
<1>7. ASSUME NEW m \in Peers, Arrives(m) PROVE Guarded'
  <2>1. UNCHANGED <<steering, suppressed, generation, overtaken>>
    BY <1>7 DEF Arrives
  <2>2. CASE Streaming
    BY <1>2, <1>7, <2>1, <2>2 DEF Arrives
  <2>3. CASE ~Streaming /\ suppressed /\ Restoring' # {}
    <3>1. WakeFor({m}, drv, count, followUps) /\ run.at = "idle"
      BY <1>7, <2>3 DEF Arrives, Streaming
    <3>2. /\ followUps' \cup ParkedIn(drv') = followUps \cup ParkedIn(drv)
          /\ followUps' \cap ParkedIn(drv') = {}
          /\ OneStarted(drv, Wakes, "running") /\ drv' \in [Drivers -> DriverRecords]
      BY <3>1, WakeMoves
    <3>3. PICK w \in Wakes : /\ drv[w].pc = "off" /\ \A x \in Drivers \ {w} : drv'[x] = drv[x]
                             /\ run' = [at |-> "loop", by |-> w, aborted |-> FALSE, own |-> FALSE]
      BY <3>2 DEF OneStarted
    <3>4. Restoring # {}
      BY <2>1, <2>3, <3>3 DEF Restoring
    <3>5. CASE NothingHeld
      BY <2>1, <3>2, <3>5 DEF NothingHeld, ParkedIn, Guarded
    <3>6. CASE SteersFirst
      <4>1. followUps' = followUps /\ steering # {}
        BY <2>3, <3>1, <3>6, WakeHolds DEF SteersFirst
      <4>2. drv[w].parked = {} /\ drv'[w].parked \subseteq ParkedIn(drv')
        BY <3>3 DEF WellParked, ParkedIn
      <4>3. ParkedIn(drv') = ParkedIn(drv)
        BY <3>2, <4>1
      <4>4. drv'[w].parked \cap drv[w].parked = {}
        BY <4>2
      <4>5. \A x \in Wakes \ {w} : drv'[w].parked \cap drv[x].parked = {}
        <5>1. WellParked(drv')
          BY <3>1, WakeMoves
        <5> QED BY <3>3, <5>1 DEF WellParked
      <4>6. drv'[w].parked = {}
        BY <4>2, <4>3, <4>4, <4>5 DEF ParkedIn
      <4> QED BY <2>1, <3>3, <4>1, <4>6 DEF SteersFirst, Guarded
    <3> QED BY <2>3, <3>1, <3>4, <3>5, <3>6 DEF Guarded, OwnRun
  <2> QED BY <2>1, <2>2, <2>3 DEF Guarded
<1>8. ASSUME TakeBack PROVE Guarded'
  <2>1. /\ UNCHANGED <<drv, run, generation, suppressed, overtaken>> /\ Settled
        /\ followUps' = {}
    BY <1>8 DEF TakeBack
  <2>2. ASSUME suppressed, Restoring # {} PROVE ParkedIn(drv) \subseteq overtaken
    BY <2>1, <2>2, ParkedByRun DEF Guarded, NothingHeld, SteersFirst, OwnRun
  <2> QED BY <2>1, <2>2 DEF Guarded, Restoring, NothingHeld, ParkedIn
<1>9. ASSUME FlushIdle PROVE Guarded'
  <2>1. /\ drv' = Driving(drv, Flush, "running", {}) /\ run.at = "idle" /\ Runs(Flush, FALSE)
        /\ UNCHANGED <<steering, followUps, generation, suppressed, overtaken>>
    BY <1>9 DEF FlushIdle, Streaming, queueVars
  <2>2. drv'[Flush].parked = {} /\ \A x \in Drivers \ {Flush} : drv'[x] = drv[x]
    BY <2>1, DrivingTyped
  <2> QED BY <1>4, <2>1, <2>2
<1>10. ASSUME NEW m \in Users, drv[m].pc \in {"setup", "retrying"}, Starts(m),
              UNCHANGED <<steering, followUps, generation, suppressed, overtaken>>
       PROVE  Guarded'
  <2>1. CASE run.at = "idle"
    <3>1. Runs(m, TRUE) /\ drv' = [drv EXCEPT ![m].pc = "running"]
      BY <1>10, <2>1 DEF Starts
    <3>2. drv'[m].parked = {} /\ \A x \in Drivers \ {m} : drv'[x] = drv[x]
      BY <1>10, <3>1, MovedDriver DEF WellParked
    <3> QED BY <1>4, <1>10, <2>1, <3>1, <3>2
  <2>2. CASE run.at # "idle"
    BY <1>5, <1>10, <2>2 DEF Starts
  <2> QED BY <2>1, <2>2
<1>11. ASSUME NEW m \in Users, SetupEnds(m) \/ Retries(m) PROVE Guarded'
  <2>1. /\ UNCHANGED <<steering, followUps, generation, suppressed, overtaken>>
        /\ drv[m].pc \in {"setup", "retrying"}
    BY <1>11 DEF SetupEnds, Retries
  <2>2. CASE Starts(m)
    BY <1>10, <2>1, <2>2
  <2>3. CASE ~Starts(m)
    <3>1. UNCHANGED run /\ drv' = [drv EXCEPT ![m].pc = "ending"]
      BY <1>11, <2>3 DEF SetupEnds, Retries
    <3> QED BY <1>5, <2>1, <3>1
  <2> QED BY <2>2, <2>3
<1>12. ASSUME NEW c \in Conts, Continues(c) PROVE Guarded'
  <2>1. UNCHANGED <<generation, suppressed, overtaken>> /\ drv[c].pc = "setup"
    BY <1>12 DEF Continues
  <2>2. CASE drv' = [drv EXCEPT ![c].pc = "ending"] /\ UNCHANGED <<run, steering, followUps>>
    BY <1>5, <2>1, <2>2
  <2>3. CASE run.at = "idle" /\ drv' = [drv EXCEPT ![c].pc = "running"]
    <3>1. PICK taken :
            /\ taken = IF ~tailOk THEN {} ELSE IF steering # {} THEN steering ELSE followUps
            /\ Runs(c, taken \subseteq steering /\ taken # {})
            /\ steering' = steering \ taken /\ followUps' = followUps \ taken
      <4>1. drv'[c].pc = "running"
        BY <2>1, <2>3, MovedDriver
      <4>2. drv' # [drv EXCEPT ![c].pc = "ending"]
        BY <2>1, <4>1, MovedDriver
      <4> QED BY <1>12, <4>2 DEF Continues
    <3>2. /\ drv'[c].parked = {} /\ drv'[c].pc = "running"
          /\ \A x \in Drivers \ {c} : drv'[x] = drv[x]
      BY <2>1, <2>3, MovedDriver DEF WellParked
    <3>3. steering # {} => steering' # {} \/ (taken \subseteq steering /\ taken # {})
      BY <3>1
    <3> QED BY <1>4, <2>1, <2>3, <3>1, <3>2, <3>3
  <2> QED BY <1>12, <2>2, <2>3 DEF Continues
<1>13. ASSUME NEW d \in Drivers, Ends(d) PROVE Guarded'
  <2> DEFINE D == [drv EXCEPT ![d] = Off]
  <2>1. /\ D \in [Drivers -> DriverRecords] /\ WellParked(D)
        /\ D[d] = Off /\ \A x \in Drivers \ {d} : D[x] = drv[x]
        /\ Requeued(d) \in SUBSET Users /\ Requeued(d) \cap ParkedIn(D) = {}
        /\ Requeued(d) \cup ParkedIn(D) = followUps \cup ParkedIn(drv)
    BY EndedDriver
  <2>2. drv[d].pc # "running" /\ UNCHANGED <<steering, suppressed, generation, overtaken>>
    BY <1>13 DEF Ends
  <2>3. /\ \A c \in Conts : D[c].pc = "setup" => D[c] = drv[c]
        /\ run.at # "idle" => D[run.by] = drv[run.by]
    BY <2>1, <2>2 DEF RunDriven, Off
  <2>4. CASE DrainsAfter(d)
    <3>1. Drains(D, Left(d), Requeued(d), suppressed)
      BY <1>13, <2>4 DEF Ends
    <3> HIDE DEF D
    <3> SUFFICES ASSUME NEW E, NEW n, NEW F, E = D, n = Left(d), F = Requeued(d) PROVE Guarded'
      OBVIOUS
    <3> QED BY <2>1, <2>2, <2>3, <3>1, DrainGuarded
  <2>5. CASE ~DrainsAfter(d)
    <3>1. drv' = D /\ followUps' = Requeued(d) /\ UNCHANGED run
      BY <1>13, <2>5 DEF Ends
    <3>2. Restoring' # {} => Restoring # {}
      BY <2>2, <2>3, <3>1 DEF Restoring
    <3>3. ASSUME NothingHeld PROVE NothingHeld'
      BY <2>1, <2>2, <3>1, <3>3 DEF NothingHeld, ParkedIn
    <3>4. (SteersFirst => SteersFirst') /\ (OwnRun => OwnRun')
      BY <2>2, <2>3, <3>1 DEF SteersFirst, OwnRun
    <3> QED BY <2>2, <3>2, <3>3, <3>4 DEF Guarded
  <2> QED BY <2>4, <2>5
<1>14. ASSUME Polls PROVE Guarded'
  <2>1. /\ UNCHANGED <<drv, generation, suppressed, overtaken>>
        /\ run.at = "loop" /\ ~run.aborted
        /\ run'.at = run.at /\ run'.aborted = run.aborted /\ run'.by = run.by
    BY <1>14 DEF Polls
  <2>2. Restoring' = Restoring /\ ParkedIn(drv)' = ParkedIn(drv)
    BY <2>1 DEF Restoring, ParkedIn
  <2>3. NothingHeld => NothingHeld'
    BY <1>14, <2>1, <2>2 DEF Polls, NothingHeld
  <2>4. SteersFirst \/ OwnRun => OwnRun'
    BY <1>14, <2>1 DEF Polls, SteersFirst, OwnRun
  <2> QED BY <2>1, <2>2, <2>3, <2>4 DEF Guarded
<1>15. ASSUME PollsInVain PROVE Guarded'
  <2>1. /\ UNCHANGED <<drv, generation, suppressed, steering, followUps, overtaken>> /\ Settled
        /\ steering = {} /\ followUps = {}
    BY <1>15 DEF PollsInVain, queueVars
  <2>2. ASSUME suppressed, Restoring # {} PROVE ParkedIn(drv) \subseteq overtaken
    BY <2>1, <2>2, ParkedByRun DEF Guarded, NothingHeld, SteersFirst, OwnRun
  <2> QED BY <2>1, <2>2 DEF Guarded, Restoring, NothingHeld, ParkedIn
<1>16. ASSUME RunEnds PROVE Guarded'
  <2>1. /\ run'.at = "idle" /\ ~OwnRun
        /\ UNCHANGED <<steering, followUps, generation, suppressed, overtaken>>
    BY <1>16 DEF RunEnds, queueVars, OwnRun
  <2>2. ParkedIn(drv)' = ParkedIn(drv)
    BY <1>16, RunEndsMoves
  <2>3. \A c \in Conts : drv'[c].pc = "setup" => drv[c].pc = "setup" /\ drv'[c].gen = drv[c].gen
    BY <1>16, RunEndsMoves DEF RunEnds, DriverRecords
  <2>4. Restoring' # {} => Restoring # {}
    BY <2>1, <2>3 DEF Restoring
  <2> QED BY <2>1, <2>2, <2>4 DEF Guarded, NothingHeld, SteersFirst
<1>17. ASSUME NEW a \in Aborts, NEW u \in BOOLEAN, Abort(a, u) PROVE Guarded'
  <2>1. generation' = generation + 1 /\ drv' = drv
    BY <1>17 DEF Abort
  <2>2. generation \in Nat
    BY GenerationRange
  <2>3. \A d \in Drivers : drv[d].gen \in Nat /\ drv[d].gen # generation + 1
    BY <2>2 DEF GensPast, DriverRecords
  <2>4. Restoring' = {}
    BY <2>1, <2>3 DEF Restoring
  <2> QED BY <2>4 DEF Guarded
<1>18. ASSUME NEW a \in Aborts, AbortDrained(a) PROVE Guarded'
  BY <1>2, <1>18 DEF AbortDrained, queueVars
<1>19. ASSUME NEW a \in Aborts, AbortEnds(a) PROVE Guarded'
  BY <1>19, DrainGuarded DEF AbortEnds
<1>20. ASSUME Remark \/ UNCHANGED vars PROVE Guarded'
  BY <1>2, <1>20 DEF Remark, vars, queueVars
<1>21. ASSUME NEW m \in Users, Prompt(m) PROVE Guarded'
  <2>1. /\ drv' = Driving(drv, m, "setup", {})
        /\ UNCHANGED <<run, steering, followUps, generation, suppressed, overtaken>>
    BY <1>21 DEF Prompt
  <2>2. drv'[m].parked = {} /\ \A x \in Drivers \ {m} : drv'[x] = drv[x]
    BY <2>1, DrivingTyped
  <2>3. /\ ParkedIn(drv)' = ParkedIn(drv)
        /\ Restoring' # {} => Restoring # {}
        /\ \A x \in Drivers : drv[x].parked = {} => drv'[x].parked = {}
    BY <1>3, <2>1, <2>2
  <2> QED BY <2>1, <2>3 DEF Guarded, NothingHeld, SteersFirst, OwnRun
(* What an interrupt overtakes on its way goes to the others it overtook,  *)
(* and only steering messages start a continuation.                        *)
<1>22. ASSUME NEW m \in Users, NEW Q \in {"steer", "followUp"}, Queue(m, Q), suppressed
       PROVE  Guarded'
  <2> DEFINE D == QueuedBy(m)
  <2>1. /\ UNCHANGED <<run, generation, suppressed>> /\ overtaken' = overtaken \cup {m}
        /\ steering \subseteq steering' /\ followUps' \subseteq followUps \cup {m}
    BY <1>22 DEF Queue
  <2>2. /\ D[m] = Off /\ \A x \in Drivers \ {m} : D[x] = drv[x]
        /\ ParkedIn(drv)' = ParkedIn(drv)
        /\ \/ drv' = D
           \/ run.at = "idle" /\ Resumable(steering', followUps', suppressed)
    BY <1>22, QueuedDriver
  <2>3. CASE drv' = D
    <3>1. \A x \in Drivers : drv[x].parked = {} => drv'[x].parked = {}
      BY <2>2, <2>3 DEF Off
    <3>2. Restoring' # {} => Restoring # {}
      BY <2>1, <2>2, <2>3 DEF Restoring
    <3>3. NothingHeld => NothingHeld'
      BY <2>1, <2>2 DEF NothingHeld
    <3>4. (SteersFirst => SteersFirst') /\ (OwnRun => OwnRun')
      BY <2>1, <3>1 DEF SteersFirst, OwnRun
    <3> QED BY <2>1, <3>2, <3>3, <3>4 DEF Guarded
  <2>4. CASE run.at = "idle" /\ Resumable(steering', followUps', suppressed)
    BY <1>22, <2>1, <2>4 DEF Resumable, Guarded, SteersFirst
  <2> QED BY <2>2, <2>3, <2>4
<1>23. ASSUME NEW m \in Users, NEW Q, Queue(m, Q), ~suppressed PROVE Guarded'
  BY <1>1, <1>23 DEF Queue
<1> QED BY <1>6, <1>7, <1>8, <1>9, <1>11, <1>12, <1>13, <1>14, <1>15, <1>16, <1>17, <1>18, <1>19,
           <1>20, <1>21, <1>22, <1>23
  DEF Next

-----------------------------------------------------------------------------
(* The inductive invariant.                                                *)
IInv ==
  /\ Types /\ GenerationsCounted /\ AbortsInProgress /\ Parking /\ RunDriven /\ UsersSent
  /\ CountedAlive /\ PlacedOnce /\ Driven /\ GensPast /\ WakesRun /\ Guarded

LEMMA IInvInit == ASSUME Init PROVE IInv
<1> USE DEF Init
<1> Flush \in Drivers
  BY DEF Drivers
<1>1. Cardinality(Aborts) \in Nat
  BY SessionAssumption, FS_Subset, FS_CardinalityType
<1>2. Types
  <2>1. Off \in DriverRecords
    BY <1>1 DEF Off, DriverRecords
  <2>2. [pc |-> "none", tasks |-> {}] \in AbortRecords
    BY DEF AbortRecords
  <2>3. drv \in [Drivers -> DriverRecords] /\ aborts \in [Aborts -> AbortRecords]
    BY <2>1, <2>2
  <2>4. QueueTypes /\ flushes \in 0 .. MaxFlushes
    BY SessionAssumption DEF QueueTypes
  <2>5. run \in [at : {"idle", "loop", "tail"}, by : Drivers, aborted : BOOLEAN, own : BOOLEAN]
    OBVIOUS
  <2> QED BY <2>3, <2>4, <2>5 DEF Types, RunTypes
<1>3. Begun = {} /\ Counted = {}
  BY DEF Begun, Counted, Counts, Off
<1>4. GenerationsCounted /\ CountedAlive
  BY <1>3, FS_EmptySet DEF GenerationsCounted, CountedAlive
<1>5. Parking /\ RunDriven /\ UsersSent /\ AbortsInProgress /\ Driven
  BY DEF Parking, WellParked, RunDriven, UsersSent, AbortsInProgress, Driven, Off, Drivers
<1>6. InSetup = {} /\ Held = {}
  BY DEF InSetup, Held, ParkedIn, Off, Drivers
<1>7. PlacedOnce
  BY <1>6 DEF PlacedOnce
<1>8. GensPast /\ WakesRun /\ Guarded
  BY SessionAssumption DEF GensPast, WakesRun, Guarded, Restoring, Off, Drivers
<1> QED BY <1>2, <1>4, <1>5, <1>7, <1>8 DEF IInv

LEMMA IInvKept == ASSUME IInv, [Next]_vars PROVE IInv'
<1>1. HeldApart
  BY DEF IInv, PlacedOnce, HeldApart, Held
<1> QED BY <1>1, TypesKept, GenerationsKept, DriversKept, RunKept, CountKept, PlacedKept,
     DrivenKept, PastKept, GuardedKept
  DEF IInv

LEMMA Invariance == Spec => []IInv
BY IInvInit, IInvKept, PTL DEF Spec

(* Types, and with them the two bounds: the generation counts the aborts,  *)
(* and #promptInFlightCount, which an abort resets under the drivers that  *)
(* are still unwinding, never exceeds those who will count themselves out. *)
THEOREM TypeCorrect == Spec => []TypeOK
<1>1. ASSUME IInv PROVE TypeOK
  <2>1. /\ seen \subseteq sent /\ generation \in 0 .. Cardinality(Aborts)
        /\ Cardinality(Counted) \in Nat
    BY <1>1, GenerationRange, CountedFinite, FS_CardinalityType DEF IInv, PlacedOnce
  <2>2. count \in 0 .. Cardinality({d \in Drivers \ {Flush} : Counts(d)})
    BY <1>1, <2>1 DEF IInv, CountedAlive, Counted
  <2> QED BY <1>1, <2>1, <2>2
    DEF IInv, Types, QueueTypes, RunTypes, DriverRecords, AbortRecords, TypeOK
<1> QED BY <1>1, Invariance, PTL

LEMMA PlacesOfMessage ==
  ASSUME PlacedOnce, NEW m PROVE Places(m) = IF m \in sent THEN 1 ELSE 0
<1> DEFINE S == {i \in 1 .. 8 :
     m \in CASE i = 1 -> steering [] i = 2 -> followUps [] i = 3 -> asides
             [] i = 4 -> Parked [] i = 5 -> InSetup [] i = 6 -> seen
             [] i = 7 -> back [] i = 8 -> bailed}
<1>1. Places(m) = Cardinality(S)
  BY DEF Places
<1>2. /\ S \subseteq {1, 2, 3, 4, 5, 6, 7, 8}
      /\ 1 \in S <=> m \in steering
      /\ 2 \in S <=> m \in followUps
      /\ 3 \in S <=> m \in asides
      /\ 4 \in S <=> m \in Held
      /\ 5 \in S <=> m \in InSetup
      /\ 6 \in S <=> m \in seen
      /\ 7 \in S <=> m \in back
      /\ 8 \in S <=> m \in bailed
  <2>1. Parked = Held
    BY DEF Parked, Held, ParkedIn
  <2> QED BY <2>1
<1>3. m \in sent <=>
        \/ m \in steering \/ m \in followUps \/ m \in asides \/ m \in Held
        \/ m \in InSetup \/ m \in seen \/ m \in back \/ m \in bailed
  BY DEF PlacedOnce
<1>4. /\ m \in steering => m \notin followUps
      /\ m \in steering \cup followUps => m \notin asides
      /\ m \in steering \cup followUps \cup asides => m \notin Held
      /\ m \in steering \cup followUps \cup asides \cup Held => m \notin InSetup
      /\ m \in steering \cup followUps \cup asides \cup Held \cup InSetup => m \notin seen
      /\ m \in steering \cup followUps \cup asides \cup Held \cup InSetup \cup seen => m \notin back
      /\ m \in steering \cup followUps \cup asides \cup Held \cup InSetup \cup seen \cup back =>
           m \notin bailed
  BY DEF PlacedOnce
<1> HIDE DEF S
<1>5. \A i, j \in S : i = j
  BY <1>2, <1>4
<1>6. CASE m \notin sent
  <2>1. ASSUME NEW k \in S PROVE FALSE
    BY <1>2, <1>3, <1>6
  <2> QED BY <1>1, <1>6, <2>1, FS_EmptySet
<1>7. CASE m \in sent
  <2>1. PICK k : k \in S
    BY <1>2, <1>3, <1>7
  <2>2. S = {k}
    BY <1>5, <2>1
  <2> QED BY <1>1, <1>7, <2>2, FS_Singleton
<1> QED BY <1>6, <1>7

(* A message is in exactly one place from when it is sent, for any number  *)
(* of wakes that park follow-ups, of continuations, and of aborts, which   *)
(* may overlap.                                                            *)
THEOREM Kept == Spec => []MessagesKept
<1>1. ASSUME IInv PROVE MessagesKept
  BY <1>1, PlacesOfMessage DEF IInv, MessagesKept
<1> QED BY <1>1, Invariance, PTL

(* When everything has settled after a run that is counted, the queues are *)
(* empty but for follow-ups that may not go on by themselves.              *)
THEOREM Unstranded == Spec => []NothingStranded
<1>1. ASSUME IInv PROVE NothingStranded
  <2>1. Idle => /\ Counted = {} /\ OnTheWay = {}
                /\ \A a \in Aborts : aborts[a].pc \notin Going
    BY DEF Idle, Counted, Counts, Live, OnTheWay, Drivers, Going
  <2> QED BY <1>1, <2>1 DEF IInv, Driven, NothingStranded
<1> QED BY <1>1, Invariance, PTL

(* The follow-ups an interrupt left in the queue are not what a run begins *)
(* with, or finds first, unless the user's own message or an idle flush    *)
(* drives it, or the interrupt overtook them on their way into the queue:  *)
(* for any messages, wakes and continuations, and with aborts that overlap *)
(* (agent-session.ts:1450-1515, 6675-6700).                                *)
THEOREM HeldBack == Spec => HeldAtStart
<1>1. ASSUME IInv, [Next]_vars
      PROVE  [run.at = "idle" /\ run'.at = "loop" /\ run'.by # Flush /\ suppressed' =>
                \/ run'.own
                \/ /\ followUps \cap seen' \subseteq overtaken
                   /\ followUps' \subseteq overtaken \/ steering' # {}]_vars
  <2> DEFINE Outcome == /\ followUps \cap seen' \subseteq overtaken
                        /\ followUps' \subseteq overtaken \/ steering' # {}
  <2> USE <1>1
  <2> SUFFICES ASSUME Next, run.at = "idle", run'.at = "loop", run'.by # Flush, suppressed',
                      ~run'.own
               PROVE  Outcome
    OBVIOUS
  <2> /\ followUps \cap seen = {} /\ steering \cap followUps = {}
      /\ followUps \subseteq Users /\ asides \subseteq Peers /\ Users \cap Peers = {}
    BY SessionAssumption DEF IInv, PlacedOnce, Types, QueueTypes
  <2>1. ASSUME NEW M, NEW D, NEW n, NEW F, WakeFor(M, D, n, F), M \subseteq Peers,
               UNCHANGED <<steering, suppressed>>
        PROVE  Outcome
    <3>1. seen' = seen \cup M
      BY <2>1 DEF WakeFor
    <3>2. followUps' = {} \/ steering # {}
      BY <2>1, WakeHolds
    <3> QED BY <2>1, <3>1, <3>2
  <2>2. ASSUME NEW D, NEW n, NEW F, NEW held, Drains(D, n, F, held),
               UNCHANGED <<steering, suppressed>>
        PROVE  Outcome
    BY <2>1, <2>2 DEF Drains
  <2>3. ASSUME NEW m \in Users, NEW Q, Takes(m, Q) \/ Prompt(m) \/ Queue(m, Q) PROVE FALSE
    BY <2>3 DEF Takes, Prompt, Queue
  <2>4. ASSUME NEW m \in Peers, Arrives(m)
        PROVE  Outcome
    <3>1. WakeFor({m}, drv, count, followUps) /\ UNCHANGED <<steering, suppressed>>
      BY <2>4 DEF Arrives
    <3>2. {m} \subseteq Peers
      OBVIOUS
    <3> DEFINE M == {m}
    <3> HIDE DEF M
    <3> QED BY <2>1, <3>1, <3>2 DEF M
  <2>5. ASSUME TakeBack \/ Remark \/ Polls \/ PollsInVain \/ RunEnds PROVE FALSE
    BY <2>5 DEF TakeBack, Remark, Polls, PollsInVain, RunEnds
  <2>6. ASSUME FlushIdle PROVE FALSE
    BY <2>6 DEF FlushIdle, Runs
  <2>7. ASSUME NEW m \in Users, SetupEnds(m) \/ Retries(m) PROVE FALSE
    <3>1. UNCHANGED run \/ Runs(m, TRUE)
      BY <2>7 DEF SetupEnds, Retries, Starts
    <3>2. CASE Runs(m, TRUE)
      <4>1. run'.own = TRUE
        BY <3>2 DEF Runs
      <4> QED BY <4>1
    <3> QED BY <3>1, <3>2
  <2>8. ASSUME NEW c \in Conts, Continues(c)
        PROVE  Outcome
    <3>1. /\ UNCHANGED suppressed /\ drv[c].pc = "setup" /\ drv[c].gen = generation
          /\ c \in Conts
      BY <2>8 DEF Continues
    <3>2. PICK taken :
            /\ taken = IF ~tailOk THEN {} ELSE IF steering # {} THEN steering ELSE followUps
            /\ Runs(c, taken \subseteq steering /\ taken # {})
            /\ steering' = steering \ taken /\ followUps' = followUps \ taken
            /\ seen' = seen \cup taken
      BY <2>8 DEF Continues
    <3>3. NothingHeld \/ SteersFirst
      BY <3>1 DEF IInv, Guarded, Restoring, OwnRun
    <3>4. ~(taken \subseteq steering /\ taken # {})
      BY <3>2 DEF Runs
    <3> QED BY <3>2, <3>3, <3>4 DEF NothingHeld, SteersFirst
  <2>9. ASSUME NEW d \in Drivers, Ends(d)
        PROVE  Outcome
    <3>1. UNCHANGED <<steering, suppressed>>
      BY <2>9 DEF Ends
    <3>2. Drains([drv EXCEPT ![d] = Off], Left(d), Requeued(d), suppressed)
      BY <2>9 DEF Ends
    <3> QED BY <2>2, <3>1, <3>2
  <2>10. ASSUME NEW a \in Aborts, (\E u \in BOOLEAN : Abort(a, u)) \/ AbortDrained(a) PROVE FALSE
    <3>1. run'.at = run.at
      BY <2>10 DEF Abort, AbortDrained, IInv, Types, RunTypes
    <3> QED BY <3>1
  <2>11. ASSUME NEW a \in Aborts, AbortEnds(a)
         PROVE  Outcome
    BY <2>2, <2>11 DEF AbortEnds
  <2> QED BY <2>3, <2>4, <2>5, <2>6, <2>7, <2>8, <2>9, <2>10, <2>11 DEF Next
<1> QED BY <1>1, Invariance, PTL DEF Spec, HeldAtStart

=============================================================================
