--------------------------- MODULE MCSessionRuns ---------------------------
(***************************************************************************)
(* An instance of SessionRuns: two messages of the user, two of peers,     *)
(* two aborts and an idle flush.  Messages of a kind, and the names of     *)
(* continuations, wakes and aborts, are interchangeable.                   *)
(***************************************************************************)
EXTENDS SessionRuns, TLC

CONSTANTS u1, u2, p1, p2, c1, c2, w1, w2, a1, a2

Symmetric == Permutations(Users) \cup Permutations(Peers) \cup Permutations(Conts)
             \cup Permutations(Wakes) \cup Permutations(Aborts)
=============================================================================
