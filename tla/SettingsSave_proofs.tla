------------------------ MODULE SettingsSave_proofs -------------------------
(***************************************************************************)
(* The lock and the saves of settings inside it, for any number of calls,  *)
(* processes, retries and crashes: mutual exclusion of FileLock wherever   *)
(* no holder outlasts staleMs and no two contenders condemn one lock; then *)
(* what it is for: saves of any number of processes and keys never undo    *)
(* each other.                                                             *)
(***************************************************************************)
EXTENDS SettingsSave, TLAPS

-----------------------------------------------------------------------------
(* The lock.                                                               *)

CrashedTogether ==
  \A c, d \in Clients : PidOf[c] = PidOf[d] /\ pc[c] = "crashed" => pc[d] = "crashed"
InfoInDirectory == lock.info # None => lock.there
Orderly == LockTypeOK /\ CrashedTogether /\ InfoInDirectory

(* The call that owns the lock is alone, nobody reaps while it does, and   *)
(* the directory on disk is its own and young.  Who reaps is alone too,    *)
(* and has left the directory where it was.                                *)
OwnerAlone == \A c, d \in Clients : pc[c] \in Owning /\ pc[d] \in Owning => c = d
OwnersDirectory ==
  \A c \in Clients : pc[c] \in Owning =>
    /\ lock.there /\ ~lock.old
    /\ lock.info = IF pc[c] \in {"holds", "check", "relEmpty"} THEN c ELSE None
OwnerUnreaped == \A c, d \in Clients : ~(pc[c] \in Owning /\ pc[d] \in Reaping)
ReaperAlone == \A c, d \in Clients : pc[c] \in Reaping /\ pc[d] \in Reaping => c = d
ReapersDirectory ==
  \A c \in Clients : pc[c] \in Reaping =>
    lock.there /\ (pc[c] = "reapRemove" => lock.info = None)
Guarded ==
  /\ OwnerAlone /\ OwnersDirectory /\ OwnerUnreaped
  /\ ReaperAlone /\ ReapersDirectory

Inv == Orderly /\ (exposed \/ Guarded)

(* A step of one call, which was not dead and is not then.                 *)
LEMMA Walks ==
  ASSUME Orderly, NEW c \in Clients, pc[c] # "crashed", At(c, pc'[c]),
         pc'[c] \in Owning \cup Reaping \cup {"off", "mkdir", "look", "stat", "failed"},
         tries' \in [Clients -> 0 .. Retries], UNCHANGED crashes, exposed' \in BOOLEAN,
         lock' \in {lock, NoLock, Bare, [Bare EXCEPT !.info = c]}
  PROVE  Orderly'
<1> USE LockAssumption DEF Orderly, LockTypeOK
<1> DEFINE step == pc'[c]
           Places == Owning \cup Reaping \cup {"off", "mkdir", "look", "stat", "failed", "crashed"}
<1>1. pc' = [pc EXCEPT ![c] = step] /\ pc \in [Clients -> Places] /\ step \in Places
  BY DEF At
<1>2. step # "crashed"
  BY DEF Owning, Reaping
<1> HIDE DEF step, Places
<1>3. pc' \in [Clients -> Places]
  BY <1>1
<1>4. \A d \in Clients : pc'[d] = "crashed" <=> pc[d] = "crashed"
  BY <1>1, <1>2
<1>5. CrashedTogether'
  BY <1>4 DEF CrashedTogether
<1>6. /\ lock' \in [there : BOOLEAN, info : Clients \cup {None}, old : BOOLEAN]
      /\ InfoInDirectory'
  <2>1. CASE lock' = lock
    BY <2>1 DEF InfoInDirectory
  <2>2. CASE lock' = NoLock
    BY <2>2 DEF NoLock, InfoInDirectory
  <2>3. CASE lock' = Bare
    BY <2>3 DEF Bare, InfoInDirectory
  <2>4. CASE lock' = [Bare EXCEPT !.info = c]
    BY <2>4 DEF Bare, InfoInDirectory
  <2> QED BY <2>1, <2>2, <2>3, <2>4
<1> QED BY <1>3, <1>5, <1>6 DEF Places

(* The parts that hold however the lock is exposed.                        *)
LEMMA OrderlyKept == ASSUME Orderly, [LockStep]_lockVars, Exposure PROVE Orderly'
<1> USE LockAssumption DEF Orderly, LockTypeOK
<1>1. exposed' \in BOOLEAN
  BY DEF Exposure
<1>2. ASSUME NEW c \in Clients, NEW step \in Owning \cup Reaping \cup {"off", "mkdir", "look", "stat", "failed"},
             At(c, step)
      PROVE  At(c, pc'[c]) /\ pc'[c] = step
  BY <1>2 DEF At
<1>3. ASSUME NEW c \in Clients, NextAttempt(c)
      PROVE  /\ tries' \in [Clients -> 0 .. Retries]
             /\ \E step \in {"mkdir", "failed"} : At(c, step)
  BY <1>3 DEF NextAttempt
<1>4. ASSUME NEW c \in Clients,
             Calls(c) \/ Exists(c) \/ Acquires(c) \/ WriteFails(c) \/ GivesUp(c) \/ Ends(c) \/ Checks(c)
      PROVE  Orderly'
  <2>1. pc[c] # "crashed" /\ UNCHANGED <<tries, crashes>> /\ lock' \in {lock, [Bare EXCEPT !.info = c]}
    BY <1>4 DEF Calls, Exists, Acquires, WriteFails, GivesUp, Ends, Checks
  <2>2. \E step \in {"off", "mkdir", "look", "holds", "check", "relEmpty"} : At(c, step)
    BY <1>4 DEF Calls, Exists, Acquires, WriteFails, GivesUp, Ends, Checks
  <2> QED BY <1>1, <1>2, <2>1, <2>2, Walks DEF Owning
<1>5. ASSUME NEW c \in Clients, Made(c) PROVE Orderly'
  <2>1. tries' \in [Clients -> 0 .. Retries]
    BY <1>5 DEF Made
  <2> QED BY <1>1, <1>2, <1>5, <2>1, Walks DEF Made, Owning
<1>6. ASSUME NEW c \in Clients, Looks(c) \/ Stats(c) PROVE Orderly'
  <2>1. pc[c] # "crashed" /\ UNCHANGED <<lock, crashes>>
    BY <1>6 DEF Looks, Stats
  <2>2. /\ tries' \in [Clients -> 0 .. Retries]
        /\ \E step \in {"mkdir", "failed", "stat", "reapEmpty"} : At(c, step)
    BY <1>3, <1>6 DEF Looks, Stats, Condemns
  <2> QED BY <1>1, <1>2, <2>1, <2>2, Walks DEF Reaping
<1>7. ASSUME NEW c \in Clients,
             \/ Empties(c, "reapEmpty", "reapRemove") \/ Empties(c, "relEmpty", "relRemove")
             \/ Releases(c) \/ Reaps(c)
      PROVE  Orderly'
  <2>1. pc[c] # "crashed" /\ UNCHANGED crashes /\ lock' \in {lock, NoLock, Bare}
    BY <1>7 DEF Empties, Releases, Reaps, Removes
  <2>2. /\ tries' \in [Clients -> 0 .. Retries]
        /\ \E step \in {"mkdir", "failed", "off", "relRemove", "reapRemove"} : At(c, step)
    BY <1>3, <1>7 DEF Empties, Releases, Reaps
  <2> QED BY <1>1, <1>2, <2>1, <2>2, Walks DEF Owning, Reaping
<1>8. ASSUME NEW p \in Pids, Crash(p) PROVE Orderly'
  <2>1. pc' = [c \in Clients |-> IF PidOf[c] = p THEN "crashed" ELSE pc[c]]
    BY <1>8 DEF Crash
  <2>2. CrashedTogether'
    BY <2>1 DEF CrashedTogether
  <2> QED BY <1>1, <1>8, <2>1, <2>2 DEF Crash, InfoInDirectory
<1>9. CASE Ages
  BY <1>1, <1>9 DEF Ages, InfoInDirectory, CrashedTogether
<1>10. CASE UNCHANGED lockVars
  BY <1>1, <1>10 DEF lockVars, InfoInDirectory, CrashedTogether
<1> QED
  BY <1>4, <1>5, <1>6, <1>7, <1>8, <1>9, <1>10 DEF LockStep, Proceeds

(* A live owner is never taken for gone.                                   *)
LEMMA OwnerNotGone ==
  ASSUME Orderly, Guarded, NEW c \in Clients, pc[c] \in Owning, lock.info # None
  PROVE  ~HolderGone
<1>1. lock.info = c /\ ~lock.old
  BY DEF Guarded, OwnersDirectory
<1>2. Alive(PidOf[c])
  <2> SUFFICES ASSUME NEW d \in Clients, PidOf[d] = PidOf[c], pc[d] = "crashed" PROVE FALSE
    BY DEF Alive
  <2>1. pc[c] = "crashed"
    BY DEF Orderly, CrashedTogether
  <2> QED BY <2>1 DEF Owning
<1> QED BY <1>1, <1>2 DEF HolderGone

(* What most steps of a call leave alone: the directory, and who is in it. *)
LEMMA Aside ==
  ASSUME Orderly, Guarded, NEW c \in Clients, UNCHANGED lock,
         NEW step \in {"off", "mkdir", "look", "stat", "failed"}, At(c, step)
  PROVE  Guarded'
<1>1. \A d \in Clients : pc'[d] \in Owning \cup Reaping => pc'[d] = pc[d] /\ d # c
  BY DEF Orderly, LockTypeOK, At, Owning, Reaping
<1> QED
  BY <1>1 DEF Guarded, OwnerAlone, OwnersDirectory, OwnerUnreaped, ReaperAlone, ReapersDirectory

(* A contender starts to reap only if nobody owns the lock or reaps it.    *)
LEMMA Condemned ==
  ASSUME Orderly, Guarded, ~Exposes, NEW c \in Clients, Condemns(c), UNCHANGED lock,
         lock.there, \A d \in Clients : pc[d] \notin Owning, pc[c] \notin Reaping
  PROVE  Guarded'
<1>1. /\ pc \in [Clients -> Owning \cup Reaping \cup {"off", "mkdir", "look", "stat", "failed", "crashed"}]
      /\ pc' = [pc EXCEPT ![c] = "reapEmpty"]
  BY DEF Condemns, At, Orderly, LockTypeOK
<1>2. c \in Reapers' /\ c \notin Reapers
  BY <1>1 DEF Reapers, Reaping
<1>3. \A d \in Clients : pc[d] \notin Reaping
  BY <1>2 DEF Exposes, Reapers
<1>4. \A d \in Clients : pc'[d] \in Owning \cup Reaping => d = c /\ pc'[d] = "reapEmpty"
  BY <1>1, <1>3
<1> QED
  BY <1>4 DEF Guarded, OwnerAlone, OwnersDirectory, OwnerUnreaped, ReaperAlone,
              ReapersDirectory, Owning

LEMMA LooksGuarded ==
  ASSUME Orderly, Guarded, ~Exposes, NEW c \in Clients, Looks(c) \/ Stats(c)
  PROVE  Guarded'
<1>1. pc[c] \in {"look", "stat"} /\ UNCHANGED lock
  BY DEF Looks, Stats
<1>2. CASE \E step \in {"mkdir", "failed", "stat"} : At(c, step)
  BY <1>1, <1>2, Aside
<1>3. CASE lock.info # None /\ HolderGone /\ Condemns(c)
  <2>1. lock.there /\ \A d \in Clients : pc[d] \notin Owning
    BY <1>3, OwnerNotGone DEF Orderly, InfoInDirectory
  <2> QED BY <1>1, <1>3, <2>1, Condemned DEF Reaping
<1>4. CASE lock.there /\ BareStale /\ Condemns(c)
  <2>1. \A d \in Clients : pc[d] \notin Owning
    BY <1>4 DEF BareStale, Guarded, OwnersDirectory
  <2> QED BY <1>1, <1>4, <2>1, Condemned DEF Reaping
<1> QED BY <1>2, <1>3, <1>4 DEF Looks, Stats, NextAttempt

(* As long as no step exposes the lock, owners and reapers stay alone.     *)
LEMMA GuardedKept ==
  ASSUME Orderly, Guarded, LockStep, ~Exposes
  PROVE  Guarded'
<1> USE DEF Orderly, LockTypeOK, CrashedTogether, InfoInDirectory, Guarded, OwnerAlone,
            OwnersDirectory, OwnerUnreaped, ReaperAlone, ReapersDirectory, Owning, Reaping, At
<1>1. ASSUME NEW c \in Clients, Calls(c) \/ Exists(c) \/ GivesUp(c) \/ WriteFails(c)
      PROVE  Guarded'
  BY <1>1 DEF Calls, Exists, GivesUp, WriteFails
<1>2. ASSUME NEW c \in Clients, Made(c) PROVE Guarded'
  <2>1. \A d \in Clients : pc[d] \notin Owning \cup Reaping
    BY <1>2 DEF Made
  <2>2. pc' = [pc EXCEPT ![c] = "write"] /\ lock' = Bare
    BY <1>2 DEF Made
  <2>3. \A d \in Clients : pc'[d] \in Owning \cup Reaping => d = c /\ pc'[d] = "write"
    BY <2>1, <2>2
  <2> QED BY <2>2, <2>3 DEF Bare
<1>3. ASSUME NEW c \in Clients, Acquires(c) PROVE Guarded'
  <2>1. /\ lock' = [there |-> TRUE, info |-> c, old |-> FALSE]
        /\ pc[c] = "write" /\ pc' = [pc EXCEPT ![c] = "holds"]
    BY <1>3 DEF Acquires, Bare
  <2>2. \A d \in Clients : pc'[d] \in Owning \cup Reaping => d = c /\ pc'[d] = "holds"
    BY <2>1
  <2> QED BY <2>1, <2>2
<1>4. ASSUME NEW c \in Clients, Looks(c) \/ Stats(c) PROVE Guarded'
  BY <1>4, LooksGuarded
<1>5. ASSUME NEW c \in Clients,
             \/ Empties(c, "reapEmpty", "reapRemove") \/ Empties(c, "relEmpty", "relRemove")
      PROVE  Guarded'
  BY <1>5 DEF Empties, Bare
<1>6. ASSUME NEW c \in Clients, Reaps(c) PROVE Guarded'
  BY <1>6 DEF Reaps, Removes, NextAttempt, NoLock
<1>7. ASSUME NEW c \in Clients, Releases(c) PROVE Guarded'
  BY <1>7 DEF Releases, Removes, NoLock
<1>8. ASSUME NEW c \in Clients, Ends(c) \/ Checks(c) PROVE Guarded'
  BY <1>8 DEF Ends, Checks
<1>9. ASSUME NEW p \in Pids, Crash(p) PROVE Guarded'
  <2>1. \A c \in Clients : pc'[c] \in Owning \cup Reaping => pc'[c] = pc[c]
    BY <1>9 DEF Crash
  <2> QED BY <1>9, <2>1 DEF Crash
<1>10. CASE Ages
  <2>1. Owners = {}
    BY <1>10 DEF Ages, Exposes
  <2> QED BY <1>10, <2>1 DEF Ages, Owners
<1> QED
  BY <1>1, <1>2, <1>3, <1>4, <1>5, <1>6, <1>7, <1>8, <1>9, <1>10 DEF LockStep, Proceeds

(* A lock that nobody owns or reaps is guarded, whatever went before.      *)
LEMMA Deserted == ASSUME (Owners \cup Reapers = {})' PROVE Guarded'
BY DEF Owners, Reapers, Guarded, OwnerAlone, OwnersDirectory, OwnerUnreaped, ReaperAlone,
       ReapersDirectory

LEMMA StepKeeps == ASSUME Inv, [LockStep]_lockVars, Exposure PROVE Inv'
<1>1. Orderly'
  BY OrderlyKept DEF Inv
<1>2. exposed' = ((exposed \/ Exposes) /\ Owners' \cup Reapers' # {})
  BY DEF Exposure
<1>3. CASE exposed'
  BY <1>1, <1>3 DEF Inv
<1>4. CASE Owners' \cup Reapers' = {}
  <2>1. Guarded'
    BY <1>4, Deserted
  <2> QED BY <1>1, <2>1 DEF Inv
<1>5. CASE ~exposed /\ ~Exposes
  <2>1. CASE LockStep
    BY <1>1, <1>5, <2>1, GuardedKept DEF Inv
  <2>2. CASE UNCHANGED lockVars
    BY <1>1, <1>5, <2>2 DEF lockVars, Inv, Guarded, OwnerAlone, OwnersDirectory,
                            OwnerUnreaped, ReaperAlone, ReapersDirectory
  <2> QED BY <2>1, <2>2
<1> QED BY <1>2, <1>3, <1>4, <1>5 DEF Inv, Orderly, LockTypeOK

LEMMA Stutters == ASSUME Inv, UNCHANGED <<lockVars, exposed>> PROVE Inv'
BY DEF lockVars, Inv, Orderly, LockTypeOK, CrashedTogether, InfoInDirectory, Guarded,
       OwnerAlone, OwnersDirectory, OwnerUnreaped, ReaperAlone, ReapersDirectory

LEMMA Starts == ASSUME LockInit PROVE Inv
<1>1. pc = [c \in Clients |-> "off"] /\ tries = [c \in Clients |-> 0]
  BY DEF LockInit
<1>2. \A c \in Clients : pc[c] \notin Owning \cup Reaping /\ pc[c] # "crashed"
  BY <1>1 DEF Owning, Reaping
<1>3. Orderly
  <2>1. lock \in [there : BOOLEAN, info : Clients \cup {None}, old : BOOLEAN] /\ InfoInDirectory
    BY DEF LockInit, NoLock, InfoInDirectory
  <2>2. tries \in [Clients -> 0 .. Retries] /\ crashes \in 0 .. MaxCrashes /\ exposed \in BOOLEAN
    <3>1. 0 \in 0 .. Retries /\ MaxCrashes \in 0 .. MaxCrashes
      BY LockAssumption
    <3>2. tries \in [Clients -> 0 .. Retries]
      BY <1>1, <3>1
    <3> QED BY <3>1, <3>2 DEF LockInit
  <2>3. CrashedTogether
    BY <1>2 DEF CrashedTogether
  <2> QED BY <1>1, <2>1, <2>2, <2>3 DEF Orderly, LockTypeOK
<1>4. Guarded
  BY <1>2 DEF Guarded, OwnerAlone, OwnersDirectory, OwnerUnreaped, ReaperAlone, ReapersDirectory
<1> QED BY <1>3, <1>4 DEF Inv

LEMMA Inductive == LockSpec => []Inv
<1>1. LockInit => Inv
  BY Starts
<1>2. Inv /\ [LockNext]_<<lockVars, exposed>> => Inv'
  BY StepKeeps, Stutters DEF LockNext
<1> QED BY <1>1, <1>2, PTL DEF LockSpec

LEMMA InvExcludes == ASSUME Inv PROVE MutualExclusion
BY DEF Inv, Guarded, OwnerAlone, MutualExclusion, Owning

(* Two calls of withFileLock never run their functions at the same time    *)
(* (file-lock.ts:71-138), whoever crashes, fails or gives up meanwhile, if *)
(* not since one of them outlasted staleMs or two contenders condemned one *)
(* lock.                                                                   *)
THEOREM Exclusion == LockSpec => []MutualExclusion
BY Inductive, InvExcludes, PTL

(* While a call runs its function, the lock on disk is its own: no reaper  *)
(* and no release of another call has taken it away (file-lock.ts:85-105), *)
(* with the same exceptions.                                               *)
HolderHasLock == \A c \in Clients : pc[c] = "holds" => exposed \/ (lock.there /\ lock.info = c)
THEOREM HolderKeepsLock == LockSpec => []HolderHasLock
<1>1. Inv => HolderHasLock
  BY DEF Inv, Guarded, OwnersDirectory, HolderHasLock, Owning
<1> QED BY <1>1, Inductive, PTL

-----------------------------------------------------------------------------
(* The saves.                                                              *)

(* Only a call that runs its function is about to write.                   *)
WritersHold == \A c \in Clients : save[c].content # None => pc[c] = "holds"

(* What a save is about to write differs from the file only in its paths.  *)
UpToDate ==
  \A c \in Clients : save[c].content # None /\ ~save[c].misread =>
    \A k \in Keys \ save[c].paths : save[c].content[k] = config[k]
SaveInv == Inv /\ SaveTypeOK /\ WritersHold /\ (exposed \/ UpToDate)

(* Every step is a step of the lock, or leaves the lock alone.             *)
LEMMA LockSteps == ASSUME Step PROVE [LockStep]_lockVars
BY DEF Step, lockVars, LockStep, Set, SaveNow, Saves, Load, Write, WriteThrows, Locks,
       Dies, Time

LEMMA MovesAlone ==
  ASSUME Orderly, NEW c \in Clients, Proceeds(c) \/ WriteFails(c) \/ GivesUp(c)
  PROVE  /\ pc[c] # "holds"
         /\ \A d \in Clients \ {c} : pc'[d] = pc[d]
BY DEF Orderly, LockTypeOK, Proceeds, WriteFails, GivesUp, Made, Exists, Acquires, Looks,
       Stats, Condemns, NextAttempt, Empties, Reaps, Removes, Checks, Releases, At

LEMMA SaveTypes == ASSUME SaveTypeOK, Step PROVE SaveTypeOK'
<1> USE LockAssumption, SettingsAssumption DEF SaveTypeOK, Values
<1>1. ASSUME NEW p \in Pids, NEW k \in Keys, Set(p, k) PROVE SaveTypeOK'
  BY <1>1 DEF Set
<1>2. ASSUME NEW c \in Clients, SaveNow(c) PROVE SaveTypeOK'
  BY <1>2 DEF SaveNow
<1>3. ASSUME NEW c \in Clients, NEW failed \in BOOLEAN, Load(c, failed) PROVE SaveTypeOK'
  <2> DEFINE current == Current(c, IF failed THEN Blank ELSE config)
  <2>1. current \in Values /\ PidOf[c] \in Pids
    BY DEF Current, Blank
  <2>2. /\ global' = [global EXCEPT ![PidOf[c]] = current]
        /\ save' = [save EXCEPT ![c].content = current, ![c].misread = failed]
        /\ UNCHANGED <<config, modified, sets>>
    BY <1>3 DEF Load
  <2> HIDE DEF Values, current
  <2>3. global' \in [Pids -> Values]
    BY <2>1, <2>2
  <2>4. save' \in [Clients -> [paths : SUBSET Keys, content : Values \cup {None},
                              misread : BOOLEAN]]
    BY <2>1, <2>2
  <2> QED BY <2>2, <2>3, <2>4
<1>4. ASSUME NEW c \in Clients, Write(c) PROVE SaveTypeOK'
  BY <1>4 DEF Write, NoSave
<1>5. ASSUME NEW c \in Clients, WriteThrows(c) PROVE SaveTypeOK'
  BY <1>5, ZenonT(30) DEF WriteThrows
<1>6. ASSUME NEW c \in Clients, Locks(c) PROVE SaveTypeOK'
  <2>1. PidOf[c] \in Pids /\ UNCHANGED <<config, global, sets>>
    BY <1>6 DEF Locks
  <2>2. CASE UNCHANGED <<modified, save>>
    BY <2>1, <2>2
  <2>3. CASE /\ modified' = [modified EXCEPT ![PidOf[c]] = @ \cup save[c].paths]
             /\ save' = [save EXCEPT ![c] = NoSave]
    <3>1. modified' \in [Pids -> SUBSET Keys]
      <4>1. save[c].paths \subseteq Keys
        OBVIOUS
      <4> QED BY <2>1, <2>3, <4>1
    <3>2. save' \in [Clients -> [paths : SUBSET Keys, content : Values \cup {None},
                                misread : BOOLEAN]]
      BY <2>3 DEF NoSave
    <3> QED BY <2>1, <3>1, <3>2
  <2> QED BY <1>6, <2>2, <2>3 DEF Locks
<1>7. ASSUME NEW p \in Pids, Dies(p) PROVE SaveTypeOK'
  BY <1>7 DEF Dies, NoSave
<1>8. CASE Time
  BY <1>8 DEF Time, settingsVars
<1> QED BY <1>1, <1>2, <1>3, <1>4, <1>5, <1>6, <1>7, <1>8 DEF Step, Saves

(* What a step leaves of the saves that are about to write.                *)
LEMMA Writers ==
  ASSUME Orderly, SaveTypeOK, WritersHold, Step,
         NEW d \in Clients, save'[d].content # None
  PROVE  /\ pc'[d] = "holds"
         /\ \/ save'[d] = save[d]
            \/ \E failed \in BOOLEAN : Load(d, failed)
<1> USE DEF Orderly, LockTypeOK, SaveTypeOK, WritersHold
<1>1. ASSUME NEW p \in Pids, NEW k \in Keys, Set(p, k) PROVE save'[d] = save[d] /\ pc' = pc
  BY <1>1 DEF Set, lockVars
<1>2. ASSUME NEW c \in Clients, SaveNow(c)
      PROVE  save'[d] = save[d] /\ pc'[d] = "holds"
  <2>1. /\ pc[c] = "off" /\ pc' = [pc EXCEPT ![c] = "mkdir"]
        /\ save' = [save EXCEPT ![c].paths = modified[PidOf[c]]]
    BY <1>2 DEF SaveNow, Calls, At
  <2>2. save'[d].content = save[d].content
    BY <2>1
  <2> QED BY <2>1, <2>2
<1>3. ASSUME NEW c \in Clients, NEW failed \in BOOLEAN, Load(c, failed)
      PROVE  /\ pc'[d] = "holds"
             /\ save'[d] = save[d] \/ \E f \in BOOLEAN : Load(d, f)
  <2>1. pc' = pc /\ pc[c] = "holds" /\ \A e \in Clients \ {c} : save'[e] = save[e]
    BY <1>3 DEF Load, lockVars
  <2> QED BY <1>3, <2>1
<1>4. ASSUME NEW c \in Clients, Write(c) \/ WriteThrows(c)
      PROVE  save'[d] = save[d] /\ pc'[d] = "holds"
  BY <1>4 DEF Write, WriteThrows, Ends, At, NoSave
<1>5. ASSUME NEW c \in Clients, Locks(c) PROVE save'[d] = save[d] /\ pc'[d] = "holds"
  <2>1. pc[c] # "holds" /\ \A e \in Clients \ {c} : pc'[e] = pc[e]
    BY <1>5, MovesAlone DEF Locks
  <2>2. save[c].content = None
    BY <2>1
  <2> QED BY <1>5, <2>1, <2>2 DEF Locks, NoSave
<1>6. ASSUME NEW p \in Pids, Dies(p) PROVE save'[d] = save[d] /\ pc'[d] = "holds"
  BY <1>6 DEF Dies, Crash, NoSave
<1>7. ASSUME Time PROVE save'[d] = save[d] /\ pc' = pc
  BY <1>7 DEF Time, Ages, settingsVars
<1> QED BY <1>1, <1>2, <1>3, <1>4, <1>5, <1>6, <1>7 DEF Step, Saves

(* Only a write changes the file.                                          *)
LEMMA OnlyWrites ==
  ASSUME Step, config' # config
  PROVE  \E c \in Clients : Write(c)
BY DEF Step, Set, SaveNow, Saves, Load, WriteThrows, Locks, Dies, Time, settingsVars

(* While the lock protects the file, no save falls behind it.              *)
LEMMA StaysUpToDate ==
  ASSUME SaveInv, Guarded, UpToDate, Step
  PROVE  UpToDate'
<1> SUFFICES ASSUME NEW d \in Clients, save'[d].content # None, ~save'[d].misread,
                    NEW k \in Keys, k \notin save'[d].paths
             PROVE  save'[d].content[k] = config'[k]
  BY DEF UpToDate
<1>1. CASE config' # config
  <2>1. PICK c \in Clients : Write(c)
    BY <1>1, OnlyWrites
  <2>2. pc[c] = "holds" /\ pc'[c] # "holds" /\ save'[c].content = None
    BY <2>1 DEF Write, Ends, At, NoSave, SaveInv, Inv, Orderly, LockTypeOK, SaveTypeOK
  <2>3. save[d].content # None /\ pc[d] = "holds"
    <3>1. d # c /\ save' = [save EXCEPT ![c] = NoSave]
      BY <2>1, <2>2 DEF Write
    <3> QED BY <3>1 DEF SaveInv, SaveTypeOK, WritersHold
  <2>4. d = c
    BY <2>2, <2>3 DEF Guarded, OwnerAlone, Owning
  <2> QED BY <2>2, <2>4
<1>2. CASE config' = config /\ save'[d] = save[d]
  BY <1>2 DEF UpToDate
<1>3. ASSUME NEW failed \in BOOLEAN, Load(d, failed) PROVE save'[d].content[k] = config'[k]
  <2>1. /\ save' = [save EXCEPT ![d].content = Current(d, IF failed THEN Blank ELSE config),
                                ![d].misread = failed]
        /\ config' = config
    BY <1>3 DEF Load
  <2>2. /\ save'[d].content = Current(d, IF failed THEN Blank ELSE config)
        /\ save'[d].misread = failed /\ save'[d].paths = save[d].paths
    BY <2>1 DEF SaveInv, SaveTypeOK
  <2> QED BY <2>1, <2>2, SMTT(30) DEF Current
<1> QED BY <1>1, <1>2, <1>3, Writers DEF SaveInv, Inv

LEMMA SaveKeeps == ASSUME SaveInv, [Next]_vars PROVE SaveInv'
<1>1. CASE UNCHANGED vars
  <2>1. Inv'
    BY <1>1, Stutters DEF vars, SaveInv
  <2> QED BY <1>1, <2>1 DEF vars, settingsVars, lockVars, SaveInv, SaveTypeOK, WritersHold,
                            UpToDate
<1>2. CASE Step /\ Exposure
  <2>1. Inv' /\ SaveTypeOK'
    BY <1>2, LockSteps, StepKeeps, SaveTypes DEF SaveInv
  <2>2. WritersHold'
    BY <1>2, Writers DEF SaveInv, Inv, WritersHold
  <2>3. CASE exposed'
    BY <2>1, <2>2, <2>3 DEF SaveInv
  <2>4. CASE Owners' \cup Reapers' = {}
    <3>1. UpToDate'
      BY <2>2, <2>4 DEF WritersHold, UpToDate, Owners, Owning
    <3> QED BY <2>1, <2>2, <3>1 DEF SaveInv
  <2>5. CASE ~exposed
    <3>1. UpToDate'
      BY <1>2, <2>5, StaysUpToDate DEF SaveInv, Inv
    <3> QED BY <2>1, <2>2, <3>1 DEF SaveInv
  <2> QED BY <1>2, <2>3, <2>4, <2>5 DEF Exposure, SaveInv, Inv, Orderly, LockTypeOK
<1> QED BY <1>1, <1>2 DEF Next

LEMMA SaveInductive == Spec => []SaveInv
<1>1. Init => SaveInv
  <2>1. ASSUME Init PROVE Inv
    BY <2>1, Starts DEF Init
  <2>2. ASSUME Init PROVE SaveTypeOK /\ WritersHold /\ UpToDate
    BY <2>2, SettingsAssumption
    DEF Init, SaveTypeOK, WritersHold, UpToDate, Values, Blank, NoSave
  <2> QED BY <2>1, <2>2 DEF SaveInv
<1>2. SaveInv /\ [Next]_vars => SaveInv'
  BY SaveKeeps
<1> QED BY <1>1, <1>2, PTL DEF Spec

(* The state has its type (the fields of Settings, file-lock.ts:10-20),    *)
(* however the lock is exposed and whatever cannot be read.                *)
THEOREM TypeCorrect == Spec => []TypeOK
<1>1. SaveInv => TypeOK
  BY DEF SaveInv, Inv, Orderly, TypeOK
<1> QED BY <1>1, SaveInductive, PTL

(* No two saves, of one process or of several, are in their critical       *)
(* section at once, with the exceptions of the lock.                       *)
THEOREM OneSaves == Spec => []MutualExclusion
<1>1. SaveInv => MutualExclusion
  BY InvExcludes DEF SaveInv
<1> QED BY <1>1, SaveInductive, PTL

(* A save changes only what was set for it, whatever the other processes   *)
(* have saved since this one read the file (settings.ts:1046-1060), unless *)
(* that read failed or the lock was exposed.                               *)
THEOREM Preservation == Spec => Preserved
<1> DEFINE Mine(k) ==
      \E c \in Clients : /\ pc[c] = "holds" /\ pc'[c] # "holds"
                         /\ k \in save[c].paths \/ save[c].misread
<1>1. SaveInv /\ [Next]_vars =>
        [\A k \in Keys : config'[k] # config[k] /\ ~exposed => Mine(k)]_vars
  <2> SUFFICES ASSUME SaveInv, Step, ~exposed, NEW k \in Keys, config'[k] # config[k]
               PROVE  Mine(k)
    BY DEF Next
  <2>1. PICK c \in Clients : Write(c)
    BY OnlyWrites
  <2>2. pc[c] = "holds" /\ pc'[c] = "check" /\ config' = save[c].content /\ save[c].content # None
    BY <2>1 DEF Write, Ends, At, SaveInv, Inv, Orderly, LockTypeOK
  <2>3. k \in save[c].paths \/ save[c].misread
    BY <2>2 DEF SaveInv, UpToDate
  <2> QED BY <2>2, <2>3
<1> QED BY <1>1, SaveInductive, PTL DEF Spec, Preserved
=============================================================================
