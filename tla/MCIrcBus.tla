------------------------------ MODULE MCIrcBus ------------------------------
(***************************************************************************)
(* An instance of IrcBus: two messages of two peers, and the agent hub.    *)
(***************************************************************************)
EXTENDS IrcBus

CONSTANTS m1, m2, hub, peer, other

MCFrom == [m \in Msgs |-> IF m = m1 THEN peer ELSE other]
=============================================================================
