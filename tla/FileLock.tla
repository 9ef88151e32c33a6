------------------------------ MODULE FileLock ------------------------------
(***************************************************************************)
(* withFileLock (config/file-lock.ts): a lock is a directory beside the    *)
(* file, and the info file in it names its holder.  Several calls of       *)
(* several processes contend for one lock; a lock whose holder is dead, or *)
(* that is older than staleMs, is reaped.  A step runs from one access of  *)
(* the file system to the next, and a recursive removal has two: it        *)
(* empties the directory, then removes it.                                 *)
(***************************************************************************)
EXTENDS Naturals

CONSTANTS Clients,    \* calls of withFileLock, each made again and again
          Pids,       \* processes
          PidOf,      \* the process of each call
          Retries,    \* opts.retries
          MaxCrashes, \* bound: processes that crash
          None

ASSUME LockAssumption ==
  /\ PidOf \in [Clients -> Pids] /\ None \notin Clients
  /\ Retries \in Nat \ {0} /\ MaxCrashes \in Nat

VARIABLES
  lock,    \* the directory: whether it is there, the call its info names, and
           \* whether the info, or a bare directory, is older than staleMs
  pc,      \* where each call is
  tries,   \* attempts of each call that have failed
  crashes, \* processes that may still crash
  exposed  \* history: see Exposure

lockVars == <<lock, pc, tries, crashes>>

NoLock == [there |-> FALSE, info |-> None, old |-> FALSE]
Bare == [there |-> TRUE, info |-> None, old |-> FALSE]

Owning == {"write", "holds", "check", "relEmpty", "relRemove"}
Reaping == {"reapEmpty", "reapRemove"}
At(c, step) == pc' = [pc EXCEPT ![c] = step]
Owners == {c \in Clients : pc[c] \in Owning}
Reapers == {c \in Clients : pc[c] \in Reaping}

LockInit ==
  /\ lock = NoLock
  /\ pc = [c \in Clients |-> "off"]
  /\ tries = [c \in Clients |-> 0]
  /\ crashes = MaxCrashes
  /\ exposed = FALSE

Calls(c) ==
  /\ pc[c] = "off"
  /\ At(c, "mkdir")
  /\ UNCHANGED <<lock, tries, crashes>>

Made(c) ==
  /\ pc[c] = "mkdir" /\ ~lock.there
  /\ lock' = Bare
  /\ At(c, "write")
  /\ tries' = [tries EXCEPT ![c] = 0]
  /\ UNCHANGED crashes

Exists(c) ==
  /\ pc[c] = "mkdir" /\ lock.there
  /\ At(c, "look")
  /\ UNCHANGED <<lock, tries, crashes>>

\* The write makes the directory again if it has gone.
Acquires(c) ==
  /\ pc[c] = "write"
  /\ lock' = [Bare EXCEPT !.info = c]
  /\ At(c, "holds")
  /\ UNCHANGED <<tries, crashes>>

\* The write throws, and withFileLock with it: the directory stays.
WriteFails(c) ==
  /\ pc[c] = "write"
  /\ At(c, "off")
  /\ UNCHANGED <<lock, tries, crashes>>

\* After an attempt the loop goes on, at once or after a sleep, or is through.
NextAttempt(c) ==
  LET n == tries[c] + 1 IN
  /\ tries' = [tries EXCEPT ![c] = IF n < Retries THEN n ELSE 0]
  /\ At(c, IF n < Retries THEN "mkdir" ELSE "failed")

GivesUp(c) ==
  /\ pc[c] = "failed"
  /\ At(c, "off")
  /\ UNCHANGED <<lock, tries, crashes>>

Alive(p) == \A c \in Clients : PidOf[c] = p => pc[c] # "crashed"
HolderGone == ~Alive(PidOf[lock.info]) \/ lock.old

\* Mutants: a directory without info is stale at any age, or at none.
BareAlwaysStale == TRUE

\* A directory without info: its maker may be about to write it.
BareStale == lock.old

Condemns(c) ==
  /\ At(c, "reapEmpty")
  /\ UNCHANGED tries

\* The test that the lock is there and the reading of its info.  It may go in
\* between: the directory is looked at as if it had no info.
Looks(c) ==
  /\ pc[c] = "look"
  /\ \/ ~lock.there /\ NextAttempt(c)
     \/ lock.info = None /\ At(c, "stat") /\ UNCHANGED tries
     \/ lock.info # None /\ HolderGone /\ Condemns(c)
     \/ lock.info # None /\ ~HolderGone /\ NextAttempt(c)
  /\ UNCHANGED <<lock, crashes>>

Stats(c) ==
  /\ pc[c] = "stat"
  /\ \/ lock.there /\ BareStale /\ Condemns(c)
     \/ ~(lock.there /\ BareStale) /\ NextAttempt(c)
  /\ UNCHANGED <<lock, crashes>>

\* rm, its first access: the info goes, which renews the directory's mtime.
Empties(c, here, next) ==
  /\ pc[c] = here /\ lock.there
  /\ lock' = IF lock.info = None THEN lock ELSE Bare
  /\ At(c, next)
  /\ UNCHANGED <<tries, crashes>>

\* rm, its second access: what has been put into the directory meanwhile is
\* removed as well.  The error when the directory has gone is ignored.
Removes(c, first, second) ==
  /\ pc[c] = second \/ (pc[c] = first /\ ~lock.there)
  /\ lock' = NoLock
  /\ UNCHANGED crashes

Reaps(c) == Removes(c, "reapEmpty", "reapRemove") /\ NextAttempt(c)
Releases(c) == Removes(c, "relEmpty", "relRemove") /\ At(c, "off") /\ UNCHANGED tries

\* fn has returned or thrown.
Ends(c) ==
  /\ pc[c] = "holds"
  /\ At(c, "check")
  /\ UNCHANGED <<lock, tries, crashes>>

\* releaseLock reads the info and leaves a lock that is not its own.
Checks(c) ==
  /\ pc[c] = "check"
  /\ At(c, IF lock.info = c THEN "relEmpty" ELSE "off")
  /\ UNCHANGED <<lock, tries, crashes>>

Crash(p) ==
  /\ crashes > 0 /\ Alive(p)
  /\ crashes' = crashes - 1
  /\ pc' = [c \in Clients |-> IF PidOf[c] = p THEN "crashed" ELSE pc[c]]
  /\ UNCHANGED <<lock, tries>>

\* The lock passes the age of staleMs.
Ages ==
  /\ lock.there /\ ~lock.old
  /\ lock' = [lock EXCEPT !.old = TRUE]
  /\ UNCHANGED <<pc, tries, crashes>>

\* The steps of a call that neither start it nor end it in failure.
Proceeds(c) ==
  \/ Made(c) \/ Exists(c) \/ Acquires(c) \/ Looks(c) \/ Stats(c)
  \/ Empties(c, "reapEmpty", "reapRemove") \/ Reaps(c)
  \/ Checks(c) \/ Empties(c, "relEmpty", "relRemove") \/ Releases(c)

\* The two ways in which the code leaves a lock unprotected: it ages while a
\* live call owns it, or a contender condemns it while another is removing it.
Exposes ==
  \/ Owners # {} /\ lock'.old /\ ~lock.old
  \/ Reapers # {} /\ ~(Reapers' \subseteq Reapers)

\* Either lasts until every call that owned or reaped the lock is through.
Exposure == exposed' = ((exposed \/ Exposes) /\ Owners' \cup Reapers' # {})

LockStep ==
  \/ \E c \in Clients : Calls(c) \/ Proceeds(c) \/ WriteFails(c) \/ GivesUp(c) \/ Ends(c)
  \/ \E p \in Pids : Crash(p)
  \/ Ages

LockNext == LockStep /\ Exposure
LockSpec == LockInit /\ [][LockNext]_<<lockVars, exposed>>

-----------------------------------------------------------------------------

LockTypeOK ==
  /\ lock \in [there : BOOLEAN, info : Clients \cup {None}, old : BOOLEAN]
  /\ pc \in [Clients -> Owning \cup Reaping \cup {"off", "mkdir", "look", "stat", "failed", "crashed"}]
  /\ tries \in [Clients -> 0 .. Retries]
  /\ crashes \in 0 .. MaxCrashes /\ exposed \in BOOLEAN

\* No two calls of withFileLock run their function at the same time, though
\* any of them may crash, fail, and leave a lock behind that is reaped: unless
\* one of them outlasted staleMs, or two contenders condemned one lock.
MutualExclusion ==
  \A c, d \in Clients : pc[c] = "holds" /\ pc[d] = "holds" => c = d \/ exposed
=============================================================================
