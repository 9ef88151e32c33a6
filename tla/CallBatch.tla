----------------------------- MODULE CallBatch -----------------------------
(***************************************************************************)
(* What a batch of tool calls promises, without its signals, hooks and     *)
(* scheduling: each call runs at most once, an exclusive call runs with    *)
(* every earlier call behind it and every later one ahead of it, and the   *)
(* batch is over when each call has exactly one answer.  A call that never *)
(* ran is answered too.                                                    *)
(***************************************************************************)
EXTENDS Naturals

CONSTANTS
  Calls,      \* positions of the calls in the assistant message
  Exclusive   \* the calls whose tool must not share the batch

VARIABLES
  running,  \* calls being executed
  settled,  \* calls that will not run, or not any more
  answered, \* calls with a result message
  over      \* the batch has returned

vars == <<running, settled, answered, over>>

Earlier(i) == {j \in Calls : j < i}

(* The calls that must have settled before call i may run.                 *)
Before(i) == IF i \in Exclusive THEN Earlier(i) ELSE Earlier(i) \cap Exclusive

Init == running = {} /\ settled = {} /\ answered = {} /\ over = FALSE

Run(i) ==
  /\ ~over /\ i \notin running \cup settled \cup answered /\ Before(i) \subseteq settled
  /\ running' = running \cup {i}
  /\ UNCHANGED <<settled, answered, over>>

(* A call is answered while it runs, or without having run.                *)
Answer(i) ==
  /\ ~over /\ i \notin answered /\ (i \in running \/ Before(i) \subseteq settled)
  /\ answered' = answered \cup {i}
  /\ \/ UNCHANGED <<running, settled>>
     \/ running' = running \ {i} /\ settled' = settled \cup {i}
  /\ UNCHANGED over

Settle(i) ==
  /\ ~over /\ i \notin settled
  /\ settled' = settled \cup {i} /\ running' = running \ {i}
  /\ UNCHANGED <<answered, over>>

(* The last calls without an answer get one as the batch returns.          *)
Return ==
  /\ ~over /\ settled = Calls
  /\ answered' = Calls /\ over' = TRUE
  /\ UNCHANGED <<running, settled>>

Next == (\E i \in Calls : Run(i) \/ Answer(i) \/ Settle(i)) \/ Return

Spec == Init /\ [][Next]_vars
=============================================================================
