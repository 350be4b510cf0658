----------------------------- MODULE MCDijkstra -----------------------------
(***************************************************************************)
(* The search over a ring of five switches with a chord, the shape of the  *)
(* lab's core: two ways round and a short cut, so the wide way, the short  *)
(* way and the dead ends all occur.                                        *)
(***************************************************************************)
EXTENDS Dijkstra

MCSwitches == 1..5
MCLinks == { {1, 2}, {2, 3}, {3, 4}, {4, 5}, {5, 1}, {2, 4} }
MCCapacity == [l \in MCLinks |-> 3]
MCEnds == { <<1, 4>> }

\* The lab's corner of the core in which two widest routes tie: the detour
\* 1-2-3-4 is wide up to the last hop, 1-4 is narrower, and 4-5 decides.
TieLinks == { {1, 2}, {2, 3}, {3, 4}, {1, 4}, {4, 5} }
TieCapacity == [l \in TieLinks |-> 3]
TieEnds == { <<1, 5>> }
=============================================================================
