--------------------------- MODULE MCSettingsSave ---------------------------
(***************************************************************************)
(* Instances of SettingsSave: a process with two saves, another with one.  *)
(***************************************************************************)
EXTENDS SettingsSave

CONSTANTS a1, a2, b1,  \* calls of withFileLock
          pa, pb       \* the processes they belong to

MCPidOf == [c \in Clients |-> IF c = b1 THEN pb ELSE pa]
=============================================================================
