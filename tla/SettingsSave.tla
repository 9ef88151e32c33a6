---------------------------- MODULE SettingsSave ----------------------------
(***************************************************************************)
(* Saving settings (config/settings.ts): processes that share config.yml   *)
(* set keys in memory and save them later, in calls of withFileLock that   *)
(* read the file again, apply what was set and write it back.              *)
(***************************************************************************)
EXTENDS FileLock

CONSTANTS Keys,       \* paths of settings
          MaxSets,    \* bound: calls of set
          Unreadable  \* can reading or parsing config.yml fail?

ASSUME SettingsAssumption == MaxSets \in Nat /\ Unreadable \in BOOLEAN

VARIABLES
  config,   \* config.yml: the value of each key, named for the process that
            \* has set it
  global,   \* #global of each process
  modified, \* #modified of each process
  save,     \* each call's save: its modifiedPaths, what it writes, and whether
            \* its read of the file failed
  sets      \* calls of set

settingsVars == <<config, global, modified, save, sets>>
vars == <<lockVars, exposed, settingsVars>>

Values == [Keys -> Pids \cup {None}]
Blank == [k \in Keys |-> None]
NoSave == [paths |-> {}, content |-> None, misread |-> FALSE]

Init ==
  /\ LockInit
  /\ config = Blank
  /\ global = [p \in Pids |-> config]
  /\ modified = [p \in Pids |-> {}]
  /\ save = [c \in Clients |-> NoSave]
  /\ sets = 0

Set(p, k) ==
  /\ sets < MaxSets /\ Alive(p)
  /\ sets' = sets + 1
  /\ global' = [global EXCEPT ![p][k] = p]
  /\ modified' = [modified EXCEPT ![p] = @ \cup {k}]
  /\ UNCHANGED <<lockVars, config, save>>

\* The timer that set has started fires, or flush is called: #saveNow begins.
SaveNow(c) ==
  LET p == PidOf[c] IN
  /\ Calls(c)
  /\ modified[p] # {}
  /\ save' = [save EXCEPT ![c].paths = modified[p]]
  /\ modified' = [modified EXCEPT ![p] = {}]
  /\ UNCHANGED <<config, global, sets>>

\* Mutant: the file is not read again.
CurrentMine(c, file) == global[PidOf[c]]

\* What #loadYaml has returned, with what this save is for.
Current(c, file) ==
  [k \in Keys |-> IF k \in save[c].paths THEN global[PidOf[c]][k] ELSE file[k]]

\* The file has been read, or taken for empty if that failed: it becomes
\* #global, and is written back.
Load(c, failed) ==
  /\ pc[c] = "holds" /\ save[c].content = None
  /\ failed => Unreadable
  /\ LET current == Current(c, IF failed THEN Blank ELSE config)
     IN /\ global' = [global EXCEPT ![PidOf[c]] = current]
        /\ save' = [save EXCEPT ![c].content = current, ![c].misread = failed]
  /\ UNCHANGED <<lockVars, config, modified, sets>>

Write(c) ==
  /\ save[c].content # None
  /\ Ends(c)
  /\ config' = save[c].content
  /\ save' = [save EXCEPT ![c] = NoSave]
  /\ UNCHANGED <<global, modified, sets>>

WriteThrows(c) ==
  /\ save[c].content # None
  /\ Ends(c)
  /\ save' = [save EXCEPT ![c].content = None, ![c].misread = FALSE]
  /\ UNCHANGED <<config, global, modified, sets>>

\* A step of the lock.  When withFileLock is over, a save that has failed adds
\* its paths to the modified ones again.
Locks(c) ==
  LET p == PidOf[c] IN
  /\ Proceeds(c) \/ WriteFails(c) \/ GivesUp(c)
  /\ IF pc'[c] = "off"
     THEN /\ modified' = [modified EXCEPT ![p] = @ \cup save[c].paths]
          /\ save' = [save EXCEPT ![c] = NoSave]
     ELSE UNCHANGED <<modified, save>>
  /\ UNCHANGED <<config, global, sets>>

\* What a process had in memory is gone with it.
Dies(p) ==
  /\ Crash(p)
  /\ modified' = [modified EXCEPT ![p] = {}]
  /\ save' = [c \in Clients |-> IF PidOf[c] = p THEN NoSave ELSE save[c]]
  /\ UNCHANGED <<config, global, sets>>

Time == Ages /\ UNCHANGED settingsVars

Saves(c) == (\E failed \in BOOLEAN : Load(c, failed)) \/ Write(c) \/ WriteThrows(c) \/ Locks(c)

Step ==
  \/ \E p \in Pids : Dies(p) \/ \E k \in Keys : Set(p, k)
  \/ \E c \in Clients : SaveNow(c) \/ Saves(c)
  \/ Time

Next == Step /\ Exposure

Spec ==
  /\ Init /\ [][Next]_vars /\ WF_vars(Time /\ Exposure)
  /\ \A c \in Clients : WF_vars(Saves(c) /\ Exposure)
-----------------------------------------------------------------------------

SaveTypeOK ==
  /\ config \in Values /\ global \in [Pids -> Values]
  /\ modified \in [Pids -> SUBSET Keys]
  /\ save \in [Clients -> [paths : SUBSET Keys, content : Values \cup {None},
                           misread : BOOLEAN]]
  /\ sets \in 0 .. MaxSets
TypeOK == LockTypeOK /\ SaveTypeOK

\* Whatever a save writes, it changes only the keys that were set for it: what
\* the other processes have saved since this one read the file is preserved
\* (docs/settings.md:87: "Saves are debounced and re-read the file under a
\* lock, so external edits made while a session is open are preserved"), unless
\* its own read of the file has failed, or the lock does not protect it.
Preserved ==
  [][\A k \in Keys : config'[k] # config[k] /\ ~exposed =>
       \E c \in Clients : /\ pc[c] = "holds" /\ pc'[c] # "holds"
                          /\ k \in save[c].paths \/ save[c].misread]_vars

\* A setting that was set and waits to be saved keeps its value until it is
\* set again (settings.ts:349, of set: "Updates global settings and queues a
\* background save").
SetsKept ==
  [][\A p \in Pids : \A k \in modified[p] :
       global'[p][k] # global[p][k] => sets' # sets]_vars

\* A lock that nobody alive owns goes, as long as somebody alive has something
\* to save: a crash or an error blocks the file for staleMs, never for good.
Orphan ==
  /\ lock.there /\ Owners = {}
  /\ \E p \in Pids : Alive(p) /\ modified[p] # {}
=============================================================================
