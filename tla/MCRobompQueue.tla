--------------------------- MODULE MCRobompQueue ---------------------------
(***************************************************************************)
(* Instances of RobompQueue.  e1 and e2 are events of one issue, e3        *)
(* belongs to an issue of its own.                                         *)
(***************************************************************************)
EXTENDS RobompQueue

CONSTANTS e1, e2, e3,                         \* deliveries
          Arrivals, Exits, Replays, Cancels   \* the bounds of Budget

MCIssue == [e \in Events |-> IF e = e3 THEN "other" ELSE "issue"]
MCBudget == [arrivals |-> Arrivals, exits |-> Exits, replays |-> Replays, cancels |-> Cancels]
=============================================================================
