---------------------------- MODULE EventService ----------------------------
(***************************************************************************)
(* What the robomp event queue promises, without saying how: an accepted   *)
(* event stays owed until a handler has ended it; a handler only works for *)
(* an owed event; the events of one issue are handled one at a time; and a *)
(* handler that is interrupted - by a failure, a shutdown or a crash -     *)
(* leaves its event owed.                                                  *)
(***************************************************************************)
CONSTANTS Events,       \* webhook deliveries and manual triages
          Issue         \* the issue each of them belongs to

VARIABLES owed,         \* events accepted and not ended
          busy          \* events a handler is working on

vars == <<owed, busy>>

Init == owed = {} /\ busy = {}

\* A delivery, a replay or a manual triage puts an event in, once.
Accept(e) ==
  /\ e \notin owed
  /\ owed' = owed \cup {e}
  /\ UNCHANGED busy

\* A handler takes an owed event when no event of its issue is handled.
Begin(e) ==
  /\ e \in owed
  /\ \A b \in busy : Issue[b] # Issue[e]
  /\ busy' = busy \cup {e}
  /\ UNCHANGED owed

\* The handler ended the event, with success or for good without it.
End(e) ==
  /\ e \in busy
  /\ owed' = owed \ {e}
  /\ busy' = busy \ {e}

\* Handlers gave up their events, to be handled again: one that is to be
\* retried, or all of them when the process ends.
Abandon(B) ==
  /\ B \subseteq busy
  /\ busy' = busy \ B
  /\ UNCHANGED owed

Next ==
  \/ \E e \in Events : Accept(e) \/ Begin(e) \/ End(e)
  \/ \E B \in SUBSET Events : Abandon(B)

Spec == Init /\ [][Next]_vars
=============================================================================
