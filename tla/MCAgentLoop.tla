---------------------------- MODULE MCAgentLoop ----------------------------
(* AgentLoop on small instances.  Each .cfg turns on the parts it explores; *)
(* user messages are interchangeable, which safety runs use.               *)
EXTENDS AgentLoop, TLC

MsgSymmetry == Permutations(Msgs)
=============================================================================
